-------------------------- MODULE MicrocodeFilters --------------------------
(***************************************************************************)
(* The registry of microcode filters (src/decompiler.cpp): bridges that    *)
(* are installed in the decompiler first and entered into                  *)
(* g_microcode_filters under their token afterwards, removed from both     *)
(* under g_microcode_filter_mutex, and owned by ScopedMicrocodeFilter      *)
(* objects.  Threads register, unregister and decompile at the same time.  *)
(*                                                                         *)
(* A bridge is named by a number, fresh for every registration.  What a    *)
(* filter does to the block is in module MicrocodeBlock.                   *)
(***************************************************************************)
EXTENDS Naturals, Sequences, FiniteSets, SequencesExt

CONSTANTS
  Threads,
  Handles,            \* ScopedMicrocodeFilter objects
  MaxFilters,         \* bound: registrations in a behaviour
  MaxDepth            \* bound: nested calls of one thread

ASSUME FiltersAssumption ==
  /\ MaxFilters \in Nat
  /\ MaxDepth \in Nat

VARIABLES
  kernel,      \* external: the bridges the decompiler would call
  filters,     \* g_microcode_filters: token -> bridge
  next_token,  \* g_next_filter_token
  bridges,     \* how many bridges were allocated
  destroyed,   \* the bridges that are deleted
  handles,     \* token_ of each ScopedMicrocodeFilter
  given,       \* tokens returned to clients
  stack        \* the calls each thread is in, the innermost last

vars == <<kernel, filters, next_token, bridges, destroyed, handles, given, stack>>

Bridge == 1 .. MaxFilters
Token == 1 .. MaxFilters

(* A registration that installed its bridge ("installed"), one that also   *)
(* took its token ("numbered"), or a run of a filter's match or apply.     *)
Call == [op : {"installed", "numbered", "run"}, bridge : Bridge,
         token : Token \cup {0}]

TypeOK ==
  /\ kernel \subseteq Bridge
  /\ DOMAIN filters \subseteq Token
  /\ filters \in [DOMAIN filters -> Bridge]
  /\ next_token \in 1 .. MaxFilters + 1
  /\ bridges \in 0 .. MaxFilters
  /\ destroyed \subseteq Bridge
  /\ handles \in [Handles -> Token \cup {0}]
  /\ given \subseteq Token
  /\ stack \in [Threads -> Seq(Call)]

Init ==
  /\ kernel = {}
  /\ filters = << >>
  /\ next_token = 1
  /\ bridges = 0
  /\ destroyed = {}
  /\ handles = [h \in Handles |-> 0]
  /\ given = {}
  /\ stack = [th \in Threads |-> << >>]

-----------------------------------------------------------------------------
Idle(th) == stack[th] = << >>
Depth(th) == Len(stack[th])
Top(th) == stack[th][Depth(th)]
In(th, op) == ~Idle(th) /\ Top(th).op = op
RunsClientCode(th) == ~Idle(th) => Top(th).op = "run"

Push(th, call) == stack' = [stack EXCEPT ![th] = Append(@, call)]
Pop(th) == stack' = [stack EXCEPT ![th] = Front(@)]
SetTop(th, call) == stack' = [stack EXCEPT ![th] = Append(Front(@), call)]

SomeClientRuns == \E th \in Threads : RunsClientCode(th)

-----------------------------------------------------------------------------
(* register_microcode_filter, once ensure_hexrays has succeeded: the       *)
(* decompiler may call the bridge from here on.  When installing fails the *)
(* bridge is deleted and an error returned, with nothing changed.          *)
Install(th) ==
  /\ RunsClientCode(th)
  /\ Depth(th) < MaxDepth
  /\ bridges < MaxFilters
  /\ bridges' = bridges + 1
  /\ kernel' = kernel \cup {bridges'}
  /\ Push(th, [op |-> "installed", bridge |-> bridges', token |-> 0])
  /\ UNCHANGED <<filters, next_token, destroyed, handles, given>>

TakeToken_Counts(th) ==
  /\ In(th, "installed")
  /\ SetTop(th, [Top(th) EXCEPT !.op = "numbered", !.token = Cardinality(DOMAIN filters) + 1])
  /\ next_token' = Cardinality(DOMAIN filters) + 2
  /\ UNCHANGED <<kernel, filters, bridges, destroyed, handles, given>>

TakeToken(th) ==
  /\ In(th, "installed")
  /\ SetTop(th, [Top(th) EXCEPT !.op = "numbered", !.token = next_token])
  /\ next_token' = next_token + 1
  /\ UNCHANGED <<kernel, filters, bridges, destroyed, handles, given>>

(* The table owns the bridge; emplace keeps what is there, and a bridge it *)
(* does not take dies with the call.                                       *)
Enter(th) ==
  LET t == Top(th).token IN
  /\ In(th, "numbered")
  /\ IF t \in DOMAIN filters
     THEN /\ destroyed' = destroyed \cup {Top(th).bridge}
          /\ UNCHANGED filters
     ELSE /\ filters' = [u \in DOMAIN filters \cup {t} |->
                           IF u = t THEN Top(th).bridge ELSE filters[u]]
          /\ UNCHANGED destroyed
  /\ given' = given \cup {t}
  /\ Pop(th)
  /\ UNCHANGED <<kernel, next_token, bridges, handles>>

(* unregister_microcode_filter: the decompiler lets go of the bridge, or   *)
(* refuses, which leaves the entry where it is; an unknown token is an     *)
(* error.                                                                  *)
unregister_ErasesAnyway(t) ==
  IF t \in DOMAIN filters
  THEN /\ destroyed' = destroyed \cup {filters[t]}
       /\ filters' = [u \in DOMAIN filters \ {t} |-> filters[u]]
       /\ kernel' \in {kernel, kernel \ {filters[t]}}
  ELSE UNCHANGED <<kernel, filters, destroyed>>

unregister(t) ==
  IF t \in DOMAIN filters
  THEN \/ /\ kernel' = kernel \ {filters[t]}
          /\ destroyed' = destroyed \cup {filters[t]}
          /\ filters' = [u \in DOMAIN filters \ {t} |-> filters[u]]
       \/ UNCHANGED <<kernel, filters, destroyed>>
  ELSE UNCHANGED <<kernel, filters, destroyed>>

Unregister(t) ==
  /\ SomeClientRuns
  /\ t \in given
  /\ unregister(t)
  /\ UNCHANGED <<next_token, bridges, handles, given, stack>>

-----------------------------------------------------------------------------
(* ScopedMicrocodeFilter. *)

Construct(h, t) ==
  /\ SomeClientRuns
  /\ handles[h] = 0
  /\ t \in given
  /\ \A other \in Handles : handles[other] # t
  /\ handles' = [handles EXCEPT ![h] = t]
  /\ UNCHANGED <<kernel, filters, next_token, bridges, destroyed, given, stack>>

(* reset() and the destructor; the outcome of unregistering is ignored. *)
Reset(h) ==
  /\ SomeClientRuns
  /\ handles[h] # 0
  /\ unregister(handles[h])
  /\ handles' = [handles EXCEPT ![h] = 0]
  /\ UNCHANGED <<next_token, bridges, given, stack>>

(* Move construction is the case in which the target holds nothing. *)
MoveAssign(h, other) ==
  /\ SomeClientRuns
  /\ h # other
  /\ unregister(handles[h])
  /\ handles' = [handles EXCEPT ![h] = handles[other], ![other] = 0]
  /\ UNCHANGED <<next_token, bridges, given, stack>>

-----------------------------------------------------------------------------
(* A decompilation calls match or apply of an installed bridge. *)
Run(th, b) ==
  /\ RunsClientCode(th)
  /\ Depth(th) < MaxDepth
  /\ b \in kernel
  /\ Push(th, [op |-> "run", bridge |-> b, token |-> 0])
  /\ UNCHANGED <<kernel, filters, next_token, bridges, destroyed, handles, given>>

RunReturns(th) ==
  /\ In(th, "run")
  /\ Pop(th)
  /\ UNCHANGED <<kernel, filters, next_token, bridges, destroyed, handles, given>>

Next ==
  \/ \E th \in Threads :
       \/ Install(th)
       \/ TakeToken(th)
       \/ Enter(th)
       \/ \E b \in Bridge : Run(th, b)
       \/ RunReturns(th)
  \/ \E t \in Token : Unregister(t)
  \/ \E h \in Handles, t \in Token : Construct(h, t)
  \/ \E h \in Handles : Reset(h)
  \/ \E h, other \in Handles : MoveAssign(h, other)

Spec == Init /\ [][Next]_vars

-----------------------------------------------------------------------------
(* Properties. *)

Registering ==
  {b \in Bridge : \E th \in Threads : \E i \in DOMAIN stack[th] :
     stack[th][i].op # "run" /\ stack[th][i].bridge = b}

(* What the decompiler calls is alive and can be unregistered: the bridges *)
(* installed are exactly those the table owns under some token, each under *)
(* one, and those of registrations between installing and entering.        *)
InstalledIsOwned ==
  /\ kernel = {filters[t] : t \in DOMAIN filters} \cup Registering
  /\ kernel \cap destroyed = {}
  /\ IsInjective(filters)

(* Tokens keep the promises they keep in every event domain, although a   *)
(* token is taken, entered and returned in separate steps: one that was    *)
(* unregistered never names a filter again, so a handle or a client that   *)
(* kept it cannot remove the filter of somebody else, and every call of    *)
(* unregister_microcode_filter, by hand or in a handle, removes at most    *)
(* the one filter its token names.                                         *)
Registry == INSTANCE SubscriptionRegistry WITH
  Tokens <- Token,
  live <- DOMAIN filters,
  issued <- given,
  hooked <- (DOMAIN filters # {})

ImplementsRegistry == Registry!Spec
=============================================================================
