----------------------------- MODULE DbgEvents -----------------------------
(***************************************************************************)
(* The debugger event subscriptions of ida::debugger (src/debugger.cpp):   *)
(* DbgListener keeps a vector of subscriptions under a non-recursive       *)
(* mutex.  on_event copies the handlers that match under the mutex and     *)
(* calls the copies after releasing it, so handlers may subscribe,         *)
(* unsubscribe or cause another event.  Several threads use the listener.  *)
(***************************************************************************)
EXTENDS Naturals, Sequences, FiniteSets, SequencesExt, Selections

CONSTANTS
  DbgThreads,
  Codes,         \* notification codes (dbg_bpt, dbg_trace, ...)
  MaxDbgToken,   \* bound: subscriptions made in a behaviour
  MaxDbgDepth,   \* bound: nested calls of one thread
  SharedVaList,  \* does the ABI pass a va_list by reference (x86-64 SysV)?
  NoThread

ASSUME DbgAssumption ==
  /\ MaxDbgToken \in Nat
  /\ MaxDbgDepth \in Nat
  /\ SharedVaList \in BOOLEAN
  /\ IsFiniteSet(DbgThreads)
  /\ NoThread \notin DbgThreads

VARIABLES
  dbg_subs,     \* subs_: the subscriptions in the order they were made
  next_token_,  \* next_token_
  dbg_hooked,   \* hooked_
  mutex,        \* the thread that holds mutex_
  dbg_stack     \* the calls each thread is in, the innermost last

dbgvars == <<dbg_subs, next_token_, dbg_hooked, mutex, dbg_stack>>

DbgToken == 1 .. MaxDbgToken
DbgSubscription == [token : DbgToken, code : Codes]

(* A call is about to lock mutex_ ("enter"), holds it ("locked"), or is an *)
(* on_event between two handlers ("calling") or inside one ("handler").    *)
(* `todo` holds the tokens of the copied handlers still to be called, `cur`*)
(* the one being called, `read` how many handlers read arguments from the  *)
(* va_list of this event before `cur` did, `result` the value to return.   *)
Pcs == {"enter", "locked", "calling", "handler"}
DbgCall == [op : {"subscribe", "unsubscribe", "on_event"}, pc : Pcs,
         code : Codes \cup {"none"}, token : DbgToken \cup {0}, todo : Seq(DbgToken),
         cur : DbgToken \cup {0}, read : Nat, result : {0, 1}]

NewDbgCall(op, code, token) ==
  [op |-> op, pc |-> "enter", code |-> code, token |-> token, todo |-> << >>,
   cur |-> 0, read |-> 0, result |-> 0]

DbgTypeOK ==
  /\ dbg_subs \in Seq(DbgSubscription)
  /\ next_token_ \in 0 .. MaxDbgToken
  /\ dbg_hooked \in BOOLEAN
  /\ mutex \in DbgThreads \cup {NoThread}
  /\ dbg_stack \in [DbgThreads -> Seq(DbgCall)]

DbgInit ==
  /\ dbg_subs = << >>
  /\ next_token_ = 0
  /\ dbg_hooked = FALSE
  /\ mutex = NoThread
  /\ dbg_stack = [th \in DbgThreads |-> << >>]

LiveTokens == {dbg_subs[i].token : i \in DOMAIN dbg_subs}

-----------------------------------------------------------------------------
(* The stack of a thread. *)

DbgIdle(th) == dbg_stack[th] = << >>
DbgDepth(th) == Len(dbg_stack[th])
DbgTop(th) == dbg_stack[th][DbgDepth(th)]

(* The thread's own code runs at top level and inside handlers. *)
RunsDbgClient(th) == ~DbgIdle(th) => DbgTop(th).pc = "handler"

DbgPush(th, call) == dbg_stack' = [dbg_stack EXCEPT ![th] = Append(@, call)]
DbgPop(th) == dbg_stack' = [dbg_stack EXCEPT ![th] = Front(@)]
DbgSetTop(th, call) == dbg_stack' = [dbg_stack EXCEPT ![th] = Append(Front(@), call)]

-----------------------------------------------------------------------------
(* The client's calls, and the kernel's. *)

Enter(th, call) ==
  /\ RunsDbgClient(th)
  /\ DbgDepth(th) < MaxDbgDepth
  /\ DbgPush(th, call)
  /\ UNCHANGED <<dbg_subs, next_token_, dbg_hooked, mutex>>

(* The subscribe calls that have not got their token yet. *)
Subscribing ==
  {c \in DbgThreads \X (1 .. MaxDbgDepth) :
     c[2] <= DbgDepth(c[1]) /\ dbg_stack[c[1]][c[2]].op = "subscribe"}

(* on_process_started .. on_breakpoint_changed *)
CallSubscribe(th, code) ==
  /\ next_token_ + Cardinality(Subscribing) < MaxDbgToken
  /\ Enter(th, NewDbgCall("subscribe", code, 0))

(* unsubscribe, and the destructor and move assignment of                  *)
(* ScopedSubscription, which pass 0 for an object that was moved from.     *)
CallUnsubscribe(th, token) ==
  /\ token <= next_token_
  /\ Enter(th, NewDbgCall("unsubscribe", "none", token))

(* The kernel reports a debugger event to a hooked listener. *)
DbgNotify(th, code) == dbg_hooked /\ Enter(th, NewDbgCall("on_event", code, 0))

(* std::lock_guard on mutex_, which the mutex grants when it is free. *)
Lock(th) ==
  /\ ~DbgIdle(th)
  /\ DbgTop(th).pc = "enter"
  /\ mutex = NoThread
  /\ mutex' = th
  /\ DbgSetTop(th, [DbgTop(th) EXCEPT !.pc = "locked"])
  /\ UNCHANGED <<dbg_subs, next_token_, dbg_hooked>>

Holding(th, op) ==
  /\ ~DbgIdle(th)
  /\ DbgTop(th).pc = "locked"
  /\ DbgTop(th).op = op

-----------------------------------------------------------------------------
(* DbgListener::subscribe, unsubscribe and on_event once they hold mutex_; *)
(* each of them leaves the scope of its lock_guard at the end of the step. *)

SubscribeDbg_Prepends(th) ==
  /\ Holding(th, "subscribe")
  /\ dbg_hooked' = TRUE
  /\ next_token_' = next_token_ + 1
  /\ dbg_subs' = <<[token |-> next_token_', code |-> DbgTop(th).code]>> \o dbg_subs
  /\ mutex' = NoThread
  /\ DbgPop(th)

SubscribeDbg(th) ==
  /\ Holding(th, "subscribe")
  /\ dbg_hooked' = TRUE
  /\ next_token_' = next_token_ + 1
  /\ dbg_subs' = Append(dbg_subs, [token |-> next_token_', code |-> DbgTop(th).code])
  /\ mutex' = NoThread
  /\ DbgPop(th)

UnsubscribeDbg_LeavesHook(th) ==
  /\ Holding(th, "unsubscribe")
  /\ dbg_subs' = RemoveFirstMatch(dbg_subs, LAMBDA s : s.token = DbgTop(th).token)
  /\ mutex' = NoThread
  /\ DbgPop(th)
  /\ UNCHANGED <<next_token_, dbg_hooked>>

(* An unknown token changes nothing: the caller gets a not_found error. *)
UnsubscribeDbg(th) ==
  /\ Holding(th, "unsubscribe")
  /\ dbg_subs' = RemoveFirstMatch(dbg_subs, LAMBDA s : s.token = DbgTop(th).token)
  /\ dbg_hooked' = IF DbgTop(th).token \in LiveTokens THEN dbg_subs' # << >> ELSE dbg_hooked
  /\ mutex' = NoThread
  /\ DbgPop(th)
  /\ UNCHANGED next_token_

(* The handlers of `code`, in the order they were subscribed. *)
DbgMatched(code) ==
  LET matching == Picked(dbg_subs, {i \in DOMAIN dbg_subs : dbg_subs[i].code = code})
  IN  [i \in DOMAIN matching |-> matching[i].token]

CopyMatched_KeepsLock(th) ==
  /\ Holding(th, "on_event")
  /\ DbgSetTop(th, [DbgTop(th) EXCEPT !.pc = "calling", !.todo = DbgMatched(DbgTop(th).code)])
  /\ UNCHANGED <<dbg_subs, next_token_, dbg_hooked, mutex>>

CopyMatched(th) ==
  /\ Holding(th, "on_event")
  /\ DbgSetTop(th, [DbgTop(th) EXCEPT !.pc = "calling", !.todo = DbgMatched(DbgTop(th).code)])
  /\ mutex' = NoThread
  /\ UNCHANGED <<dbg_subs, next_token_, dbg_hooked>>

-----------------------------------------------------------------------------
(* The loop over the copied handlers, which holds no lock. *)

Dispatching(th) == ~DbgIdle(th) /\ DbgTop(th).op = "on_event"

CallDbgHandler(th) ==
  /\ Dispatching(th)
  /\ DbgTop(th).pc = "calling"
  /\ DbgTop(th).todo # << >>
  /\ DbgSetTop(th, [DbgTop(th) EXCEPT !.pc = "handler",
                                !.cur = Head(DbgTop(th).todo),
                                !.todo = Tail(DbgTop(th).todo)])
  /\ UNCHANGED <<dbg_subs, next_token_, dbg_hooked, mutex>>

(* on_trace may ask to suppress the trace event; every other handler       *)
(* returns 0.                                                              *)
Returns(code) == IF code = "trace" THEN {0, 1} ELSE {0}

CombineResult_LastWins(result, r) == r
(* A non-zero answer replaces the result, a zero leaves it. *)
CombineResult(result, r) == IF r # 0 THEN r ELSE result

(* The handler passed its va_list to va_arg: under an ABI that passes it   *)
(* by reference, the next handler goes on reading where this one stopped.  *)
DbgHandlerReturns(th, r) ==
  /\ Dispatching(th)
  /\ DbgTop(th).pc = "handler"
  /\ r \in Returns(DbgTop(th).code)
  /\ DbgSetTop(th, [DbgTop(th) EXCEPT !.pc = "calling",
                                !.cur = 0,
                                !.read = IF SharedVaList THEN @ + 1 ELSE @,
                                !.result = CombineResult(@, r)])
  /\ UNCHANGED <<dbg_subs, next_token_, dbg_hooked, mutex>>

OnEventReturns(th) ==
  /\ Dispatching(th)
  /\ DbgTop(th).pc = "calling"
  /\ DbgTop(th).todo = << >>
  /\ DbgPop(th)
  /\ UNCHANGED <<dbg_subs, next_token_, dbg_hooked, mutex>>

-----------------------------------------------------------------------------
(* A thread inside DbgListener (not in client code) takes its next step. *)
Step(th) ==
  \/ Lock(th)
  \/ SubscribeDbg(th)
  \/ UnsubscribeDbg(th)
  \/ CopyMatched(th)
  \/ CallDbgHandler(th)
  \/ OnEventReturns(th)

ClientCalls(th) ==
  \/ \E code \in Codes : CallSubscribe(th, code) \/ DbgNotify(th, code)
  \/ \E token \in DbgToken \cup {0} : CallUnsubscribe(th, token)
  \/ \E r \in {0, 1} : DbgHandlerReturns(th, r)

DbgNext == \E th \in DbgThreads : Step(th) \/ ClientCalls(th)

(* A thread that can go on does: the operating system schedules it. *)
DbgFairness == \A th \in DbgThreads : WF_dbgvars(Step(th))

DbgSpec == DbgInit /\ [][DbgNext]_dbgvars /\ DbgFairness

-----------------------------------------------------------------------------
(* Properties. *)

(* Handlers run in the order in which they were subscribed, also when      *)
(* several threads subscribe at once and others unsubscribe: what is left  *)
(* to call of every event, and subs_ itself, ascends in the tokens.        *)
(* (It includes that the variables have their types.)                      *)
HandlersInOrder ==
  LET Ascends(s) == \A i, j \in DOMAIN s : i < j => s[i] < s[j]
      Rest(call) == IF call.cur = 0 THEN call.todo ELSE <<call.cur>> \o call.todo
  IN  /\ DbgTypeOK
      /\ Ascends([i \in DOMAIN dbg_subs |-> dbg_subs[i].token])
      /\ \A th \in DbgThreads : \A i \in DOMAIN dbg_stack[th] : Ascends(Rest(dbg_stack[th][i]))

(* A trace event that some handler of on_trace asked to suppress stays     *)
(* suppressed, whatever the handlers called after it return.               *)
SuppressionSticks ==
  [][\A th \in DbgThreads :
       \A i \in DOMAIN dbg_stack[th] \cap DOMAIN dbg_stack'[th] :
         /\ dbg_stack[th][i].op = "on_event"
         /\ dbg_stack'[th][i].op = "on_event"
         => dbg_stack[th][i].result <= dbg_stack'[th][i].result]_dbgvars

(* Whoever holds mutex_ gives it back: no handler is called, and nothing   *)
(* waits, while it is held, although handlers call back into the listener. *)
LockIsReleased ==
  \A th \in DbgThreads : mutex = th ~> mutex # th

(* The listener keeps the promises every event domain makes about tokens   *)
(* and about the kernel hook, under any interleaving of the threads.       *)
DbgRegistry == INSTANCE SubscriptionRegistry WITH
  Tokens <- DbgToken,
  live <- LiveTokens,
  issued <- 1 .. next_token_,
  hooked <- dbg_hooked

DbgImplementsRegistry == DbgRegistry!Spec

(* "va_list can only be consumed once": a handler reads the arguments of   *)
(* its event from the beginning.                                           *)
HandlersReadOwnArguments ==
  \A th \in DbgThreads : \A i \in DOMAIN dbg_stack[th] :
    dbg_stack[th][i].pc = "handler" => dbg_stack[th][i].read = 0
=============================================================================
