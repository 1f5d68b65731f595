----------------------------- MODULE MCDatabase -----------------------------
(* A database session: its initialisation under a plugin policy, the       *)
(* events of the database, the executors of its debugger, a typed write,   *)
(* declarations of its local types, a graph drawn of it, and its items,    *)
(* segments, functions and comments.  The parts share no state: a          *)
(* behaviour exercises one of them; the others stay where they start.      *)
EXTENDS IdbEvents, Executors, PluginPolicy, TypedData, TypeDeclarations, GraphObject,
        Items, Segments, FunctionListing, Comments

VARIABLE part

(* The guards are interchangeable. *)
Symmetric == Permutations(Guards)

OneKind == {"Renamed"}
SomeNames == {<<"a">>, <<"a", "b">>, <<"b", "a", "b">>}
SomePatterns == {<< >>, <<"a">>, <<"?", "b">>, <<"*", "b">>, <<"*", "a", "*", "b">>}
SomeEntries == {<<"i", "d", "a">>, <<"c">>}

UnsignedType(size) == [kind |-> "Unsigned", size |-> size]
SignedType(size) == [kind |-> "Signed", size |-> size]
ArrayOf(type, n) == [kind |-> "Array", size |-> n * type.size, of |-> type, length |-> n]

(* Every kind of type, an integer of no standard width, arrays of arrays.  *)
SomeTypes ==
  {UnsignedType(1), UnsignedType(2), UnsignedType(3), SignedType(1), SignedType(2),
   [kind |-> "Pointer", size |-> 2], [kind |-> "Float", size |-> 4],
   [kind |-> "Struct", size |-> 2], [kind |-> "Typedef", size |-> 2, of |-> SignedType(2)],
   ArrayOf(UnsignedType(1), 3), ArrayOf(SignedType(2), 2),
   ArrayOf(ArrayOf(UnsignedType(1), 2), 2)}

Numbers(kind, numbers) == {Payload(kind, n, << >>, << >>) : n \in numbers}
Strings(kind, sequences) == {Payload(kind, 0, s, << >>) : s \in sequences}
Pairs(values) == {Payload("Array", 0, << >>, <<x, y>>) : x, y \in values}

(* Numbers on either side of every limit; bytes with a zero in and at the  *)
(* end of them; arrays one element of which does not fit.                  *)
SomeValues ==
  Numbers("SignedInteger", {-9, -8, -1, 7, 8})
  \cup Numbers("UnsignedInteger", {1, 4, 15, 16})
  \cup Numbers("Pointer", {6}) \cup Numbers("FloatingPoint", {11})
  \cup Strings("Bytes", {<<1, 1>>, <<1, 0, 3>>, <<0, 2>>})
  \cup Strings("String", {<<1, 1>>, <<1, 0, 3>>, <<0, 2>>})
  \cup Pairs(Numbers("SignedInteger", {-8, 3}) \cup Numbers("UnsignedInteger", {1, 8}))
  \cup Pairs(Strings("Bytes", {<<1, 1>>, <<1>>}) \cup Strings("String", {<<1>>}))
  \cup {Payload("Array", 0, << >>, <<x, x, x>>) : x \in Numbers("UnsignedInteger", {1, 3, 4})}

(* A member named twice, another, an unknown id, and the group itself.     *)
SomeMemberLists == {<<1, 0, -1, 1>>}

(* An id that may be live, dead or not given out yet, and one that no node *)
(* ever has. *)
SomeTargets == {-1, 0}

(* Three structs of up to two members that mention each other in every     *)
(* way, no struct containing itself.                                       *)
Scalar(offset, size) ==
  [how |-> "scalar", of |-> "A", offset |-> offset, size |-> size, bits |-> FALSE]

Mentions == {Scalar(0, 32)}
  \cup {[Scalar(0, 32) EXCEPT !.how = how, !.of = n] : how \in {"value", "pointer"}, n \in TypeNames}

Second(m) == [m EXCEPT !.offset = 64]
Struct(members) == [kind |-> "struct", members |-> members, total |-> 12]

Holds(lib, n) == {m.of : m \in {x \in ToSet(lib[n].members) : x.how = "value"}}
WellFormed(lib) ==
  \A a \in TypeNames :
    /\ a \notin Holds(lib, a)
    /\ \A b \in Holds(lib, a) :
         a \notin Holds(lib, b) /\ \A c \in Holds(lib, b) : a \notin Holds(lib, c)

SomeGraphs ==
  {lib \in {[n \in TypeNames |-> CASE n = "A" -> Struct(<<x, Second(y)>>)
                                  [] n = "B" -> Struct(<<z>>)
                                  [] n = "C" -> Struct(<<w>>)] :
             x, y, z, w \in Mentions} : WellFormed(lib)}

(* Structs with gaps between, before and after their members, two of them  *)
(* with bit fields, one of which has a gap; a union and an enum.           *)
Bits(offset, size) == [Scalar(offset, size) EXCEPT !.bits = TRUE]
Alone(type) == [n \in TypeNames |-> IF n = "A" THEN type ELSE Struct(<< >>)]
SomeLayouts ==
  {Alone(Struct(<< >>)),
   Alone(Struct(<<Scalar(0, 8), Scalar(16, 16), Scalar(32, 64)>>)),
   Alone(Struct(<<Scalar(8, 8), Scalar(32, 32), Scalar(64, 0)>>)),
   Alone(Struct(<<Bits(0, 3), Bits(3, 10), Scalar(32, 32)>>)),
   Alone(Struct(<<Scalar(0, 32), Bits(32, 12), Scalar(64, 16)>>)),
   Alone([Struct(<<Scalar(0, 8), Scalar(0, 32)>>) EXCEPT !.kind = "union"]),
   Alone([Struct(<< >>) EXCEPT !.kind = "enum"])}

SomeLibraries == SomeGraphs \cup SomeLayouts
SomeRoots == {<<"A">>, <<"C", "A">>}
SomeOffsets ==
  {[n \in {"A"} |-> bytes] : bytes \in {{}, {0}, {1}, {4}, {8}, {0, 5}, {1, 4}, {3, 11}}}
  \cup {[n \in {"A", "B"} |-> {9, 0}]}

SomeRanges == {<<0, 4>>, <<1, 3>>, <<2, 4>>, <<3, 1>>}

(* A function that calls itself, calls to an entry and into the middle of  *)
(* a function, and two calls of one instruction.                           *)
SomeCalls == {<<0, 2>>, <<2, 0>>, <<2, 2>>}

(* One thing is stored with one function at a time, and before the last    *)
(* changes: no property of this run is about it.                           *)
OneMark == Cardinality(marked) <= 1 /\ (functionEdits > 3 => marked = {})

(* Where the other parts leave the library and the listing. *)
IdleTypes == library = Alone(Struct(<< >>)) /\ rendering = NotRendered
IdleItems == class = [a \in Bytes |-> "unknown"] /\ itemWalk = NoItemWalk

DatabaseInit ==
  /\ part \in {"policy", "idb", "executors", "data", "types", "graph", "items", "segments", "functions", "comments"}
  /\ Init
  /\ ExecutorInit
  /\ PolicyInit
  /\ part # "policy" => dirs[UserDir] = [others |-> OtherEntries, plugins |-> {}, readable |-> TRUE]
  /\ DataInit
  /\ part # "data" => \A a \in DataAddresses : memory[a] = Unloaded
  /\ IF part = "types" THEN TypesInit ELSE IdleTypes
  /\ GraphInit
  /\ IF part = "items" THEN ItemsInit ELSE IdleItems
  /\ SegmentsInit
  /\ FunctionsInit
  /\ CommentsInit

(* The variables of the listing, and of everything else. *)
listing == <<itemvars, segmentvars, functionsvars, commentvars>>
others == <<vars, evars, pvars, datavars, typevars, gvars>>

(* A client of the database may stop at any time, one need not call init   *)
(* again, and one of executors has nothing to do once its registrations    *)
(* are made and gone.                                                      *)
ClientStops ==
  /\ \/ part \in {"idb", "segments", "functions", "comments"}
     \/ part = "policy" /\ doing \in {"nothing", "ready"}
     \/ /\ part = "executors" /\ created = MaxContext
        /\ \A u \in Callers : running[u] = << >>
        /\ \A n \in Names : executors[n] = None
     \/ part = "data" /\ written # NotWritten
     \/ part = "types" /\ rendering # NotRendered
  /\ UNCHANGED <<others, listing>>

ListingNext ==
  \/ part = "items" /\ ItemsNext /\ UNCHANGED <<segmentvars, functionsvars, commentvars>>
  \/ part = "segments" /\ SegmentsNext /\ UNCHANGED <<itemvars, functionsvars, commentvars>>
  \/ part = "functions" /\ FunctionsNext /\ UNCHANGED <<itemvars, segmentvars, commentvars>>
  \/ part = "comments" /\ CommentsNext /\ UNCHANGED <<itemvars, segmentvars, functionsvars>>

DatabaseNext ==
  /\ \/ /\ UNCHANGED listing
        /\ \/ part = "idb" /\ Next /\ UNCHANGED <<evars, pvars, datavars, typevars, gvars>>
           \/ part = "executors" /\ ExecutorNext /\ UNCHANGED <<vars, pvars, datavars, typevars, gvars>>
           \/ part = "policy" /\ PolicyNext /\ UNCHANGED <<vars, evars, datavars, typevars, gvars>>
           \/ part = "graph" /\ GraphNext /\ UNCHANGED <<vars, evars, pvars, datavars, typevars>>
           \/ part = "data" /\ DataNext /\ UNCHANGED <<vars, evars, pvars, typevars, gvars>>
           \/ part = "types" /\ TypesNext /\ UNCHANGED <<vars, evars, pvars, datavars, gvars>>
     \/ UNCHANGED others /\ ListingNext
     \/ ClientStops
  /\ UNCHANGED part

DatabaseSpec == DatabaseInit /\ [][DatabaseNext]_<<part, others, listing>>
=============================================================================
