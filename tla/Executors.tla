----------------------------- MODULE Executors -----------------------------
(***************************************************************************)
(* External appcall executors: ExecutorRegistry of src/debugger.cpp keeps  *)
(* shared pointers under a mutex, the shim wraps a Rust closure in a       *)
(* CAppcallExecutor whose destructor drops the closure's context, and the  *)
(* Rust side (bindings/rust/idax/src/debugger.rs) notes the context of     *)
(* every name in EXECUTOR_CONTEXTS.                                        *)
(*                                                                         *)
(* An executor runs without the mutex, so it may register, unregister and  *)
(* call executors, itself included, and other threads go on meanwhile.     *)
(***************************************************************************)
EXTENDS Naturals, Sequences, FiniteSets, SequencesExt

CONSTANTS
  Callers,      \* the threads that use executors
  Names,        \* the names they use
  EmptyName,    \* the one that is rejected
  MaxContext,   \* bound: registrations tried in a behaviour
  MaxNesting,   \* bound: nested calls of one thread
  None

ASSUME ExecutorAssumption ==
  /\ EmptyName \in Names
  /\ MaxContext \in Nat
  /\ MaxNesting \in Nat
  /\ None \notin Nat

VARIABLES
  executors,   \* executors_: the context of the executor under each name
  noted,       \* EXECUTOR_CONTEXTS: the context the Rust side noted per name
  created,     \* how many contexts have been boxed; they are numbered
  drops,       \* how often each context has been dropped
  running       \* the calls each thread is in, the innermost last

evars == <<executors, noted, created, drops, running>>

Context == 1 .. MaxContext

(* A call has boxed its context ("boxed"), is back from the C++ call with  *)
(* its outcome, or is inside the closure of an executor ("executing").     *)
FramePcs == {"boxed", "registered", "rejected", "unregistered", "executing"}
ExecutorFrame == [pc : FramePcs, name : Names, ctx : Context \cup {None}]

ExecutorTypeOK ==
  /\ executors \in [Names -> Context \cup {None}]
  /\ noted \in [Names -> Context \cup {None}]
  /\ created \in 0 .. MaxContext
  /\ drops \in [Context -> 0 .. 2]
  /\ running \in [Callers -> Seq(ExecutorFrame)]

ExecutorInit ==
  /\ executors = [n \in Names |-> None]
  /\ noted = [n \in Names |-> None]
  /\ created = 0
  /\ drops = [c \in Context |-> 0]
  /\ running = [u \in Callers |-> << >>]

-----------------------------------------------------------------------------
Innermost(u) == Last(running[u])
InCall(u, pc) == running[u] # << >> /\ Innermost(u).pc = pc
(* The thread's own code runs at top level and inside an executor. *)
ClientRuns(u) == running[u] = << >> \/ InCall(u, "executing")

Begin(u, frame) ==
  /\ ClientRuns(u)
  /\ Len(running[u]) < MaxNesting
  /\ running' = [running EXCEPT ![u] = Append(@, frame)]
Become(u, pc) == running' = [running EXCEPT ![u] = Append(Front(@), [Last(@) EXCEPT !.pc = pc])]
End(u) == running' = [running EXCEPT ![u] = Front(@)]

(* The shared pointers to the executor of a context: the registry's, that  *)
(* of a registration on its way, that of a thread that is executing it.    *)
SharedBy(registry, calls, c) ==
  {n \in Names : registry[n] = c}
  \cup {u \in Callers : \E i \in DOMAIN calls[u] :
          calls[u][i].pc \in {"boxed", "executing"} /\ calls[u][i].ctx = c}

(* ~CAppcallExecutor calls executor_cleanup_trampoline, which drops the    *)
(* context: the step that gives up the last shared pointer does so.        *)
ReleaseUnshared ==
  drops' = [c \in Context |->
              IF /\ SharedBy(executors, running, c) # {}
                 /\ SharedBy(executors', running', c) = {}
              THEN drops[c] + 1 ELSE drops[c]]

-----------------------------------------------------------------------------
(* register_executor boxes the context and the shim makes its executor. *)
register_executor(u, n) ==
  /\ created < MaxContext
  /\ created' = created + 1
  /\ Begin(u, [pc |-> "boxed", name |-> n, ctx |-> created'])
  /\ UNCHANGED <<executors, noted, drops>>

(* Under the mutex: an empty name and a name in use are rejected.  Back in *)
(* the shim the registration's own pointer goes out of scope.              *)
register_named(u) ==
  /\ InCall(u, "boxed")
  /\ LET f == Innermost(u) IN
       IF f.name # EmptyName /\ executors[f.name] = None
       THEN /\ executors' = [executors EXCEPT ![f.name] = f.ctx]
            /\ Become(u, "registered")
       ELSE /\ Become(u, "rejected")
            /\ UNCHANGED executors
  /\ ReleaseUnshared
  /\ UNCHANGED <<noted, created>>

RegisterReturns(u) ==
  /\ InCall(u, "registered")
  /\ noted' = [noted EXCEPT ![Innermost(u).name] = Innermost(u).ctx]
  /\ End(u)
  /\ UNCHANGED <<executors, created, drops>>

(* The Rust side drops the box of a registration that failed. *)
RegisterFails(u) ==
  /\ InCall(u, "rejected")
  /\ drops' = [drops EXCEPT ![Innermost(u).ctx] = @ + 1]
  /\ End(u)
  /\ UNCHANGED <<executors, noted, created>>

unregister_named_Drops(u, n) ==
  /\ n # EmptyName /\ executors[n] # None
  /\ executors' = [executors EXCEPT ![n] = None]
  /\ Begin(u, [pc |-> "unregistered", name |-> n, ctx |-> None])
  /\ drops' = [drops EXCEPT ![executors[n]] = 1]
  /\ UNCHANGED <<noted, created>>

(* unregister_named takes the entry out under the mutex; an unknown name   *)
(* changes nothing.  The Rust side then forgets what it noted.             *)
unregister_named(u, n) ==
  /\ n # EmptyName /\ executors[n] # None
  /\ executors' = [executors EXCEPT ![n] = None]
  /\ Begin(u, [pc |-> "unregistered", name |-> n, ctx |-> None])
  /\ ReleaseUnshared
  /\ UNCHANGED <<noted, created>>

UnregisterReturns(u) ==
  /\ InCall(u, "unregistered")
  /\ noted' = [noted EXCEPT ![Innermost(u).name] = None]
  /\ End(u)
  /\ UNCHANGED <<executors, created, drops>>

(* find_named copies the shared pointer under the mutex, the executor runs *)
(* without it.  An unknown name is an error that changes nothing.          *)
appcall_with_executor(u, n) ==
  /\ executors[n] # None
  /\ Begin(u, [pc |-> "executing", name |-> n, ctx |-> executors[n]])
  /\ UNCHANGED <<executors, noted, created, drops>>

ExecuteReturns(u) ==
  /\ InCall(u, "executing")
  /\ End(u)
  /\ UNCHANGED <<executors, noted, created>>
  /\ ReleaseUnshared

ExecutorNext ==
  \E u \in Callers :
    \/ \E n \in Names : \/ register_executor(u, n)
                        \/ unregister_named(u, n)
                        \/ appcall_with_executor(u, n)
    \/ register_named(u)
    \/ RegisterReturns(u)
    \/ RegisterFails(u)
    \/ UnregisterReturns(u)
    \/ ExecuteReturns(u)

ExecutorSpec == ExecutorInit /\ [][ExecutorNext]_evars

-----------------------------------------------------------------------------
(* Properties. *)

(* "Lifecycle-safe": the closure of an executor is not dropped while it is *)
(* registered or running, even when it unregisters itself or another       *)
(* thread does, and is dropped once nothing can call it any more.          *)
(* (It includes that the variables have their types.)                      *)
ClosureLivesWhileShared ==
  /\ ExecutorTypeOK
  /\ \A c \in 1 .. created :
       drops[c] = 0 <=> SharedBy(executors, running, c) # {}

(* "... relies on shim-side unregister destruction for context             *)
(* reclamation": the destructor's cleanup drops a context, nobody else.    *)
ContextDroppedOnce == \A c \in Context : drops[c] <= 1
=============================================================================
