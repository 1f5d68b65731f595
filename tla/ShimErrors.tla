----------------------------- MODULE ShimErrors -----------------------------
(***************************************************************************)
(* How an error crosses from C++ to Rust: every exported function of the   *)
(* shim clears the thread's g_last_error, does its work and, when the C++  *)
(* call fails, leaves category and message there; the Rust wrapper reads   *)
(* them after the call (bindings/rust/idax/src/error.rs), or never does:   *)
(* then the record keeps the error until a later call clears it.           *)
(*                                                                         *)
(* Client code runs in between: in callbacks of the C++ call, and in the   *)
(* destructor of a boxed closure that a wrapper drops before it reads.     *)
(***************************************************************************)
EXTENDS Naturals, Sequences, SequencesExt, RustWrappers

CONSTANTS
  RustThreads,  \* threads calling the exported functions
  Failures,     \* categories their C++ calls fail with
  MaxCalls,     \* bound: calls in a behaviour
  MaxNested     \* bound: nested calls of one thread

-----------------------------------------------------------------------------
(* ida::ErrorCategory, in the order of its declaration. *)
ErrorCategory ==
  <<"Validation", "NotFound", "Conflict", "Unsupported", "SdkFailure", "Internal">>
Category == ToSet(ErrorCategory)

ASSUME ErrorAssumption ==
  /\ Failures \subseteq Category
  /\ MaxCalls \in Nat
  /\ MaxNested \in Nat

IDAX_ERROR_NONE == 0
(* The number the shim gives a category: 0 is IDAX_ERROR_NONE. *)
set_error(category) == CHOOSE k \in DOMAIN ErrorCategory : ErrorCategory[k] = category

(* The category last_error makes of a number. *)
last_error(number) ==
  IF number + 1 \in DOMAIN ErrorCategory THEN ErrorCategory[number + 1] ELSE "Internal"

-----------------------------------------------------------------------------
VARIABLES
  g_last_error,  \* of every thread: the number, and the call that set it
  exported,      \* the exported calls each thread is in, the innermost last
  calls_made,    \* calls are numbered
  answer         \* the error the thread's last failed wrapper returned

errvars == <<g_last_error, exported, calls_made, answer>>

CallNumber == 0 .. MaxCalls  \* 0: none

(* What may still happen to a call whose arguments were accepted: the      *)
(* categories it may fail with (Internal: no memory for the result), a     *)
(* lost copy taken for an error, a closure dropped after a failure, an     *)
(* error that is read.                                                     *)
CallOutcomes ==
  [errors : SUBSET Category, lost : BOOLEAN, drops : BOOLEAN, reads : BOOLEAN]
Outcomes(kind) ==
  [errors |-> (IF "fails" \in kind.traits THEN Failures ELSE {}) \cup
              (IF "allocates" \in kind.traits THEN {"Internal"} ELSE {}),
   lost |-> kind.does = "demands" /\ "copies" \in kind.traits,
   drops |-> "closure" \in kind.traits,
   reads |-> kind.does # "never"]
Phases == {"body", "failed", "dropping", "read"}
Exported == [call : CallNumber, may : CallOutcomes, phase : Phases,
             set : Category \cup {"none"},   \* what the C++ call failed with
             alone : BOOLEAN]                \* no other call since it failed
NoAnswer == [call |-> 0, by |-> 0, set |-> "none", category |-> "none", alone |-> TRUE]

ErrorsTypeOK ==
  /\ g_last_error \in [RustThreads -> [number : 0 .. Len(ErrorCategory), by : CallNumber]]
  /\ exported \in [RustThreads -> Seq(Exported)]
  /\ calls_made \in CallNumber
  /\ \A th \in RustThreads :
       /\ answer[th].call \in CallNumber /\ answer[th].by \in CallNumber
       /\ {answer[th].set, answer[th].category} \subseteq Category \cup {"none"}

ErrorsInit ==
  /\ g_last_error = [th \in RustThreads |-> [number |-> IDAX_ERROR_NONE, by |-> 0]]
  /\ exported = [th \in RustThreads |-> << >>]
  /\ calls_made = 0
  /\ answer = [th \in RustThreads |-> NoAnswer]

-----------------------------------------------------------------------------
Inner(th) == Last(exported[th])
In(th, phase) == exported[th] # << >> /\ Inner(th).phase = phase
(* A callback of the C++ call and a destructor are client code, too. *)
RustRuns(th) == exported[th] = << >> \/ In(th, "body") \/ In(th, "dropping")

(* RETURN_RESULT_STRING returned through another macro: nobody clears. *)
Clears_StringsKeep(kind) == {"plain", "copies"} \cap kind.traits = {}
Clears(kind) == "plain" \notin kind.traits

(* The threads whose g_last_error a store by this thread reaches. *)
Sharers_NotThreadLocal(th) == RustThreads
Sharers(th) == {th}

Store(th, number, call) ==
  g_last_error' = [u \in RustThreads |-> IF u \in Sharers(th)
                                         THEN [number |-> number, by |-> call]
                                         ELSE g_last_error[u]]
Outer(th) == [i \in DOMAIN exported[th] |-> [exported[th][i] EXCEPT !.alone = FALSE]]
MoveTo(th, phase) ==
  exported' = [exported EXCEPT ![th] = Append(Front(@), [Last(@) EXCEPT !.phase = phase])]
Leave(th) == exported' = [exported EXCEPT ![th] = Front(@)]

-----------------------------------------------------------------------------
(* A call begins: clear_error comes first.  The checks of the arguments    *)
(* run no client code, so a call that is refused never enters its body.    *)
Enter(th, kind, phase, set) ==
  /\ RustRuns(th)
  /\ calls_made < MaxCalls /\ Len(exported[th]) < MaxNested
  /\ calls_made' = calls_made + 1
  /\ exported' = [exported EXCEPT ![th] = Append(Outer(th),
                    [call |-> calls_made', may |-> Outcomes(kind), phase |-> phase,
                     set |-> set, alone |-> TRUE])]
  /\ UNCHANGED answer

CallExported(th, kind) ==
  /\ Enter(th, kind, "body", "none")
  /\ IF Clears(kind) THEN Store(th, IDAX_ERROR_NONE, calls_made')
                     ELSE UNCHANGED g_last_error

CallRefused(th, kind) ==
  /\ "checks" \in kind.traits
  /\ Enter(th, kind, "failed", "Validation")
  /\ Store(th, set_error("Validation"), calls_made')

Succeeds(th) ==
  /\ In(th, "body")
  /\ Leave(th)
  /\ UNCHANGED <<g_last_error, calls_made, answer>>

(* The C++ call failed, or no memory is left for its result: the error is  *)
(* the last thing written.                                                 *)
fail(th, category) ==
  /\ In(th, "body") /\ category \in Inner(th).may.errors
  /\ Store(th, set_error(category), Inner(th).call)
  /\ exported' = [exported EXCEPT ![th] = Append(Front(@),
                    [Last(@) EXCEPT !.phase = "failed", !.set = category, !.alone = TRUE])]
  /\ UNCHANGED <<calls_made, answer>>

(* dup_string ran out of memory: success with a null pointer, which the    *)
(* wrapper may take for an error.                                          *)
CopyLost(th) ==
  /\ In(th, "body") /\ Inner(th).may.lost
  /\ MoveTo(th, "read")
  /\ UNCHANGED <<g_last_error, calls_made, answer>>

(* Box::from_raw and drop, before the error is read. *)
DropContext(th) ==
  /\ In(th, "failed") /\ Inner(th).may.reads
  /\ MoveTo(th, IF Inner(th).may.drops THEN "dropping" ELSE "read")
  /\ UNCHANGED <<g_last_error, calls_made, answer>>

ContextDropped(th) ==
  /\ In(th, "dropping")
  /\ MoveTo(th, "read")
  /\ UNCHANGED <<g_last_error, calls_made, answer>>

consume_last_error(th) ==
  /\ In(th, "read")
  /\ answer' = [answer EXCEPT ![th] =
       [call |-> Inner(th).call, by |-> g_last_error[th].by, set |-> Inner(th).set,
        category |-> last_error(g_last_error[th].number), alone |-> Inner(th).alone]]
  /\ Leave(th)
  /\ UNCHANGED <<g_last_error, calls_made>>

(* A failure that ends an iteration or becomes a default: the wrapper      *)
(* returns, and the error stays in the record.                             *)
HidesFailure(th) ==
  /\ In(th, "failed") /\ ~Inner(th).may.reads
  /\ Leave(th)
  /\ UNCHANGED <<g_last_error, calls_made, answer>>

ErrorsNext ==
  \E th \in RustThreads :
    \/ \E kind \in CallKinds : CallExported(th, kind) \/ CallRefused(th, kind)
    \/ Succeeds(th)
    \/ \E category \in Category : fail(th, category)
    \/ CopyLost(th)
    \/ DropContext(th)
    \/ ContextDropped(th)
    \/ HidesFailure(th)
    \/ consume_last_error(th)

ErrorsSpec == ErrorsInit /\ [][ErrorsNext]_errvars

-----------------------------------------------------------------------------
(* Properties. *)

(* What a wrapper returns as its error was written by its own call: the    *)
(* failure, or the cleared record if the copy of a string was lost.  It is *)
(* never the error of an earlier call or of another thread, unless client  *)
(* code called idax after the last writing (a callback, if the call did    *)
(* not fail afterwards; the destructor of a closure).                      *)
(* (It includes that the variables have their types.)                      *)
ErrorIsOwn ==
  /\ ErrorsTypeOK
  /\ \A th \in RustThreads :
       answer[th].alone => answer[th].by = answer[th].call

(* "Maps directly to C++ ida::ErrorCategory": the category a wrapper       *)
(* returns is the one the C++ call failed with.                            *)
CategoryFaithful ==
  \A th \in RustThreads :
    answer[th].set # "none" /\ answer[th].by = answer[th].call
    => answer[th].category = answer[th].set
=============================================================================
