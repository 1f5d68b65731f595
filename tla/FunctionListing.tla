-------------------------- MODULE FunctionListing --------------------------
(* The functions of a database as src/src/function.cpp creates, changes    *)
(* and traverses them: an entry chunk each, tail chunks that several       *)
(* functions may share, the calls between them, and what is stored with a  *)
(* function.  The SDK's get_func gives the function of an address; a tail  *)
(* belongs to the one of its users that owns it.                           *)
EXTENDS Naturals, Sequences, FiniteSets, SequencesExt, FiniteSetsExt, Functions,
        Selections

CONSTANTS
  CodeLimit,        \* functions lie within 0 .. CodeLimit
  CodeBytes,        \* the addresses that begin an instruction
  CallSites,        \* the calls <<from, to>> those instructions make
  MaxFunctions,     \* functions ever created, a bound
  MaxFunctionEdits  \* changes of the functions, a bound

ASSUME FunctionsAssumption ==
  /\ CodeLimit \in Nat \ {0} /\ MaxFunctions \in Nat /\ MaxFunctionEdits \in Nat
  /\ CodeBytes \subseteq 0 .. CodeLimit - 1
  /\ CallSites \subseteq CodeBytes \X CodeBytes

VARIABLES
  functions,     \* the SDK's functions, in the order of their entries
  tails,         \* tail chunks: range, owner, and the functions that use it
  marked,        \* what is stored with a function: <<function, what, value>>
  functionWalk,  \* the iterator of the client's loop, if any
  madeFunctions, functionEdits

functionsvars == <<functions, tails, marked, functionWalk, madeFunctions, functionEdits>>

FunctionAddresses == 0 .. CodeLimit - 1
NoFunctionWalk == [on |-> FALSE, total |-> 0, seen |-> << >>, changed |-> FALSE]
EmptyFunction == CodeLimit

-----------------------------------------------------------------------------
ChunkSpan(c) == c.start .. c.end - 1
AllOf == Range(functions)

(* The members of a set in the order of a key that tells them apart.       *)
InOrderOf(S, key) ==
  [i \in 1 .. Cardinality(S) |-> CHOOSE x \in S : Cardinality({y \in S : key[y] < key[x]}) = i - 1]
ByEntry(S) == InOrderOf(S, [c \in S |-> c.start])

(* What a loop over lists makes that appends each of them.                 *)
JoinedUpTo(lists) ==
  LET joined[n \in 0 .. Len(lists)] == IF n = 0 THEN << >> ELSE joined[n - 1] \o lists[n]
  IN  joined
Joined(lists) == JoinedUpTo(lists)[Len(lists)]

(* What a loop makes that appends what it finds, if anything, unless it is *)
(* listed already: anywhere, or as the last one.                           *)
Listed(list, anywhere) ==
  IF anywhere \/ list = << >> THEN Range(list) ELSE {Last(list)}
Listing(list, found, anywhere) ==
  LET new == found \ Listed(list, anywhere)
  IN  IF new = {} THEN list ELSE Append(list, CHOOSE x \in new : TRUE)
ListedUpTo(founds, anywhere) ==
  LET list[n \in 0 .. Len(founds)] ==
        IF n = 0 THEN << >> ELSE Listing(list[n - 1], founds[n], anywhere)
  IN  list
Entry(f) == [start |-> f.start, end |-> f.end]

(* The function of an address: by its entry chunk, else by the owner of    *)
(* the tail there.                                                         *)
get_func(a) ==
  LET entries == {f \in AllOf : a \in ChunkSpan(f)}
  IN IF entries # {} THEN entries
     ELSE {f \in AllOf : \E t \in tails : a \in ChunkSpan(t) /\ t.owner = f.id}

FunctionFree(range) ==
  \A c \in AllOf \cup tails : range.end <= c.start \/ c.end <= range.start

(* chunks: the entry, then the tails the function uses; every chunk is     *)
(* given this function as its owner.                                       *)
TailsOf(f) == ByEntry({[start |-> t.start, end |-> t.end] : t \in {u \in tails : f.id \in u.users}})
chunks(f) == <<Entry(f)>> \o TailsOf(f)
tail_chunks(f) == TailsOf(f)
chunk_count(f) == 1 + Cardinality({t \in tails : f.id \in t.users})

(* The SDK's iterator over a function's addresses, chunk by chunk.         *)
Addresses(chunk) == [i \in 1 .. chunk.end - chunk.start |-> chunk.start + i - 1]
item_addresses(f) == Joined([i \in DOMAIN chunks(f) |-> Addresses(chunks(f)[i])])
code_addresses(f) ==
  LET all == item_addresses(f) IN Picked(all, {i \in DOMAIN all : all[i] \in CodeBytes})

CallsOf(sites) == InOrderOf(sites, [c \in sites |-> CodeLimit * c[1] + c[2]])

(* The entry of the function at the given end of each call.                *)
EntriesAt(calls, end) ==
  [i \in DOMAIN calls |-> {g.start : g \in get_func(calls[i][end])}]

(* callers: the calls to the entry in the order of their addresses, each   *)
(* giving the function it is in, unless that is the last one already       *)
(* listed.                                                                 *)
callers(f) ==
  LET calls == CallsOf({c \in CallSites : c[2] = f.start})
  IN  ListedUpTo(EntriesAt(calls, 1), FALSE)[Len(calls)]

(* callees: the calls of every instruction of every chunk, each giving the *)
(* function at its target unless it is listed.                             *)
CalleesFrom(addresses) ==
  LET calls == Joined([i \in DOMAIN addresses |->
                         CallsOf({c \in CallSites : c[1] = addresses[i]})])
  IN  ListedUpTo(EntriesAt(calls, 2), TRUE)[Len(calls)]

callees_EntryOnly(f) == CalleesFrom(Addresses(Entry(f)))

callees(f) == CalleesFrom(code_addresses(f))

-----------------------------------------------------------------------------
FunctionsInit ==
  /\ functions = << >> /\ tails = {} /\ marked = {}
  /\ functionWalk = NoFunctionWalk
  /\ madeFunctions = 0 /\ functionEdits = 0

FunctionsChanged ==
  /\ functionEdits < MaxFunctionEdits
  /\ functionEdits' = functionEdits + 1
  /\ functionWalk' = IF functionWalk.on THEN [functionWalk EXCEPT !.changed = TRUE] ELSE functionWalk

(* create: with an end of BadAddress the SDK chooses one, any that is      *)
(* free; the result is the function read back.                             *)
CreateFunction(start, end) ==
  /\ madeFunctions < MaxFunctions
  /\ FunctionFree([start |-> start, end |-> end])
  /\ functions' = ByEntry(AllOf \cup {[id |-> madeFunctions, start |-> start, end |-> end]})
  /\ madeFunctions' = madeFunctions + 1
  /\ FunctionsChanged
  /\ UNCHANGED <<tails, marked>>

(* remove deletes the function of an address.  The SDK gives a tail it     *)
(* owned to another of its users, or frees it.                             *)
RemoveFunction(a) ==
  \E f \in get_func(a) :
    /\ functions' = ByEntry(AllOf \ {f})
    /\ LET reduced == {[t EXCEPT !.users = @ \ {f.id}] : t \in tails}
       IN tails' = {[t EXCEPT !.owner = IF t.owner = f.id THEN Min(t.users) ELSE t.owner]
                     : t \in {u \in reduced : u.users # {}}}
    /\ marked' = {m \in marked : m[1] # f.id}
    /\ FunctionsChanged
    /\ UNCHANGED madeFunctions

(* set_start and set_end: the SDK refuses bounds outside free room. *)
SetBounds(a, start, end) ==
  \E f \in get_func(a) :
    /\ start < end
    /\ \A c \in (AllOf \ {f}) \cup tails : end <= c.start \/ c.end <= start
    /\ functions' = ByEntry((AllOf \ {f}) \cup {[f EXCEPT !.start = start, !.end = end]})
    /\ FunctionsChanged
    /\ UNCHANGED <<tails, marked, madeFunctions>>

SetFunctionStart(a, start) == \E f \in get_func(a) : SetBounds(a, start, f.end)
SetFunctionEnd(a, end) == \E f \in get_func(a) : SetBounds(a, f.start, end)

(* add_tail: a free range becomes a tail of the function; a range that is  *)
(* a tail already gets one more user.  remove_tail takes the use back.     *)
AddTail(a, range) ==
  \E f \in get_func(a) :
    /\ \/ /\ FunctionFree(range)
          /\ tails' = tails \cup {[start |-> range.start, end |-> range.end,
                               owner |-> f.id, users |-> {f.id}]}
       \/ \E t \in tails :
            /\ t.start = range.start /\ t.end = range.end /\ f.id \notin t.users
            /\ tails' = (tails \ {t}) \cup {[t EXCEPT !.users = @ \cup {f.id}]}
    /\ FunctionsChanged
    /\ UNCHANGED <<functions, marked, madeFunctions>>

RemoveTail(a, tail) ==
  \E f \in get_func(a) : \E t \in tails :
    /\ tail \in ChunkSpan(t) /\ f.id \in t.users
    /\ LET users == t.users \ {f.id}
       IN tails' = (tails \ {t}) \cup
            (IF users = {} THEN {}
             ELSE {[t EXCEPT !.users = users,
                             !.owner = IF @ = f.id THEN Min(users) ELSE @]})
    /\ FunctionsChanged
    /\ UNCHANGED <<functions, marked, madeFunctions>>

-----------------------------------------------------------------------------
(* What is stored with the function of an address: its outlined mark, its  *)
(* comment, its prototype, the variables of its frame and of its registers.*)
Marks(f, what) == {m \in marked : m[1] = f.id /\ m[2] = what}

Mark(a, what, value) ==
  \E f \in get_func(a) :
    /\ marked' = (marked \ Marks(f, what)) \cup {<<f.id, what, value>>}
    /\ FunctionsChanged
    /\ UNCHANGED <<functions, tails, madeFunctions>>

(* set_outlined changes the SDK's function before it is stored: when the   *)
(* SDK refuses to store it, is_outlined answers with the new value all the *)
(* same.                                                                   *)
SetOutlined(a, value) == Mark(a, "outlined", value)
SetFunctionComment(a) == Mark(a, "comment", TRUE)
SetPrototype(a) == Mark(a, "prototype", TRUE)
IsOutlined(f) == <<f.id, "outlined", TRUE>> \in marked

(* A variable of a register or of the frame: added under a name, found and *)
(* renamed by its register or its offset, removed.                         *)
AddVariable(a, where, name) ==
  /\ \E f \in get_func(a) : Marks(f, where) = {}
  /\ Mark(a, where, name)

RenameVariable(a, where, name) ==
  /\ \E f \in get_func(a) : Marks(f, where) # {}
  /\ Mark(a, where, name)

RemoveVariable(a, where) ==
  \E f \in get_func(a) :
    /\ Marks(f, where) # {}
    /\ marked' = marked \ Marks(f, where)
    /\ FunctionsChanged
    /\ UNCHANGED <<functions, tails, madeFunctions>>

-----------------------------------------------------------------------------
(* for (auto function : all()): the number of functions is taken once; a   *)
(* dereference past the functions that are left gives an empty object.     *)
AllFunctions ==
  /\ ~functionWalk.on
  /\ functionWalk' = [NoFunctionWalk EXCEPT !.on = TRUE, !.total = Len(functions)]
  /\ UNCHANGED <<functions, tails, marked, madeFunctions, functionEdits>>

VisitFunction ==
  /\ functionWalk.on
  /\ LET next == Len(functionWalk.seen) + 1
     IN /\ next <= functionWalk.total
        /\ functionWalk' = [functionWalk EXCEPT !.seen = Append(@,
             IF next <= Len(functions) THEN functions[next].start ELSE EmptyFunction)]
  /\ UNCHANGED <<functions, tails, marked, madeFunctions, functionEdits>>

EndFunctionLoop ==
  /\ functionWalk.on
  /\ functionWalk' = NoFunctionWalk
  /\ UNCHANGED <<functions, tails, marked, madeFunctions, functionEdits>>

FunctionRanges == {r \in [start : FunctionAddresses, end : 1 .. CodeLimit] : r.start < r.end}
EntryPoints == {f.start : f \in AllOf}

FunctionsNext ==
  \/ \E r \in FunctionRanges : CreateFunction(r.start, r.end)
  \/ \E a \in FunctionAddresses : RemoveFunction(a)
  \/ \E a \in EntryPoints, b \in FunctionAddresses : SetFunctionStart(a, b)
  \/ \E a \in EntryPoints, b \in 1 .. CodeLimit : SetFunctionEnd(a, b)
  \/ \E a \in EntryPoints, r \in FunctionRanges : AddTail(a, r)
  \/ \E a \in EntryPoints, b \in FunctionAddresses : RemoveTail(a, b)
  \/ \E a \in EntryPoints, v \in BOOLEAN : SetOutlined(a, v)
  \/ \E a \in EntryPoints : SetFunctionComment(a)
  \/ \E a \in EntryPoints : SetPrototype(a)
  \/ \E a \in EntryPoints : AddVariable(a, "register", "x")
  \/ \E a \in EntryPoints : RenameVariable(a, "register", "y")
  \/ \E a \in EntryPoints : RemoveVariable(a, "register")
  \/ AllFunctions
  \/ VisitFunction
  \/ EndFunctionLoop

FunctionsSpec == FunctionsInit /\ [][FunctionsNext]_functionsvars

-----------------------------------------------------------------------------
(* A loop over functions nobody changes visits each of them once, in order.*)
FunctionLoopIsComplete ==
  functionWalk.on /\ ~functionWalk.changed =>
    /\ functionWalk.total = Len(functions)
    /\ functionWalk.seen = [i \in DOMAIN functionWalk.seen |-> functions[i].start]

Covered(f) == UNION {ChunkSpan(c) : c \in Range(chunks(f))}

(* The chunks of a function are apart, the entry first, and hold every     *)
(* address the SDK gives to the function; counting them and leaving out    *)
(* the entry agree with listing them.  item_addresses stays within them,   *)
(* names nothing twice and leaves out no instruction, whichever other      *)
(* addresses it has; code_addresses has exactly the instructions.          *)
ChunksMakeTheFunction ==
  \A f \in AllOf :
    LET parts == chunks(f)
        covered == Covered(f)
        items == item_addresses(f)
        code == code_addresses(f)
    IN  /\ chunk_count(f) = Len(parts)
        /\ parts[1] = Entry(f) /\ tail_chunks(f) = Tail(parts)
        /\ \A i, j \in DOMAIN parts :
             i # j => ChunkSpan(parts[i]) \cap ChunkSpan(parts[j]) = {}
        /\ \A a \in FunctionAddresses : f \in get_func(a) => a \in covered
        /\ IsInjective(items) /\ Range(items) \subseteq covered
        /\ Range(code) = covered \cap CodeBytes /\ Range(code) \subseteq Range(items)

(* The two directions of the call graph agree: whoever is listed as caller *)
(* lists the callee, and a function that lists a callee is among its       *)
(* callers, unless it calls into the middle of it or from a tail that      *)
(* another function owns.  No callee is named twice.  No caller is named   *)
(* twice in a row; between calls of others it may be named again, although *)
(* the comment at function.cpp, line 235, says "Avoid duplicates": the     *)
(* code compares with the last one listed only.                            *)
NoneTwiceInARow(list) == \A i \in 1 .. Len(list) - 1 : list[i] # list[i + 1]

CallGraphAgrees ==
  \A f \in AllOf :
    /\ IsInjective(callees(f)) /\ NoneTwiceInARow(callers(f))
    /\ \A g \in AllOf :
         /\ Contains(callers(g), f.start) => Contains(callees(f), g.start)
         /\ /\ Contains(callees(f), g.start)
            /\ \A c \in CallSites : g \in get_func(c[2]) /\ c[1] \in Covered(f) =>
                 c[2] = g.start /\ get_func(c[1]) = {f}
            => Contains(callers(g), f.start)

(* Functions are listed, cut into chunks and related to their callers so   *)
(* that a client that goes from one to the other meets all of them.        *)
FunctionsSound == FunctionLoopIsComplete /\ ChunksMakeTheFunction /\ CallGraphAgrees
=============================================================================
