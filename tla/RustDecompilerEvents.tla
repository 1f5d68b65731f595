------------------------ MODULE RustDecompilerEvents ------------------------
(***************************************************************************)
(* The Rust side of the decompiler subscriptions                           *)
(* (bindings/rust/idax/src/decompiler.rs) over the C++ registry of module  *)
(* Hexrays.  Every subscription boxes a context that holds the closure and *)
(* gives its address to the C++ callback.  The table SUB_CONTEXTS, keyed   *)
(* by token, owns the box from the moment on_* returned until unsubscribe  *)
(* succeeds.                                                               *)
(*                                                                         *)
(* The C++ call and the update of the table are separate steps: no lock is *)
(* held across them, so other threads run in between.                      *)
(***************************************************************************)
EXTENDS Hexrays

VARIABLES
  contexts,   \* SUB_CONTEXTS: the tokens whose box the table owns
  pending,    \* what a thread still does after its C++ call returned
  dropped,    \* the tokens whose box has been dropped
  boxes       \* how many contexts are allocated

rust == <<contexts, pending, dropped, boxes>>
rvars == <<vars, rust>>

Nothing == [todo |-> "nothing", token |-> 0]
Pending == [todo : {"nothing", "save", "drop"}, token : Token \cup {0}]

RustTypeOK ==
  /\ TypeOK
  /\ contexts \subseteq Token
  /\ pending \in [Threads -> Pending]
  /\ dropped \subseteq Token
  /\ boxes \in Nat

RustInit ==
  /\ Init
  /\ contexts = {}
  /\ pending = [th \in Threads |-> Nothing]
  /\ dropped = {}
  /\ boxes = 0

-----------------------------------------------------------------------------
Unoccupied(th) == pending[th] = Nothing

Postpone(th, what, t) ==
  pending' = [pending EXCEPT ![th] = [todo |-> what, token |-> t]]

(* on_*: the context is boxed, then the shim calls on_* of the C++ side. *)
RustOn(th, kind) ==
  /\ Unoccupied(th)
  /\ CallOn(th, kind)
  /\ boxes' = boxes + 1
  /\ UNCHANGED <<contexts, pending, dropped>>

(* The C++ call returned a token; save_context comes next. *)
RustSubscribed(th) ==
  /\ Unoccupied(th)
  /\ Subscribe(th)
  /\ Postpone(th, "save", next_token)
  /\ UNCHANGED <<contexts, dropped, boxes>>

RustSubscribeFails_Leaks(th) ==
  /\ Unoccupied(th)
  /\ InstallFails(th)
  /\ UNCHANGED rust

(* The C++ call failed: the box is dropped at once.  (When it fails before *)
(* its first lock, box and failure are one step and leave nothing behind.) *)
RustSubscribeFails(th) ==
  /\ Unoccupied(th)
  /\ InstallFails(th)
  /\ boxes' = boxes - 1
  /\ UNCHANGED <<contexts, pending, dropped>>

save_context(th) ==
  /\ pending[th].todo = "save"
  /\ contexts' = contexts \cup {pending[th].token}
  /\ Postpone(th, "nothing", 0)
  /\ UNCHANGED <<vars, dropped, boxes>>

(* unsubscribe: only a token the C++ side accepted leads to a drop.  A     *)
(* client has the token once on_* has returned it, after save_context.     *)
RustUnsubscribe(th, t) ==
  /\ Unoccupied(th)
  /\ \A other \in Threads : pending[other] # [todo |-> "save", token |-> t]
  /\ Unsubscribe(th, t)
  /\ Postpone(th, "drop", t)
  /\ UNCHANGED <<contexts, dropped, boxes>>

(* The entry is removed from the table and its drop function is run. *)
drop_saved_context(th) ==
  /\ pending[th].todo = "drop"
  /\ IF pending[th].token \in contexts
     THEN /\ contexts' = contexts \ {pending[th].token}
          /\ dropped' = dropped \cup {pending[th].token}
          /\ boxes' = boxes - 1
     ELSE UNCHANGED <<contexts, dropped, boxes>>
  /\ Postpone(th, "nothing", 0)
  /\ UNCHANGED vars

RustNext ==
  \/ /\ \E th \in Threads : Unoccupied(th) /\ RunsClientCode(th)
     /\ Sessions
     /\ UNCHANGED rust
  \/ \E th \in Threads :
       \/ Unoccupied(th) /\ Dispatch(th) /\ UNCHANGED rust
       \/ \E kind \in Kinds : RustOn(th, kind)
       \/ RustSubscribed(th)
       \/ RustSubscribeFails(th)
       \/ save_context(th)
       \/ \E t \in Token : RustUnsubscribe(th, t)
       \/ drop_saved_context(th)

RustSpec == RustInit /\ [][RustNext]_rvars

-----------------------------------------------------------------------------
(* Properties. *)

PendingTokens(what) ==
  {pending[th].token : th \in {u \in Threads : pending[u].todo = what}}

(* A context "is released only after successful unsubscribe", and leaks    *)
(* neither then nor on a failed subscription: a token the C++ side can     *)
(* start a callback for has a context that was not dropped, one that was   *)
(* dropped is in no table, and every box is owned by a running on_* call,  *)
(* by the table, or by the thread about to save or to drop it.  (It        *)
(* includes that the variables have their types.)                          *)
ContextsOwnedOnce ==
  /\ RustTypeOK
  /\ Live \cap dropped = {}
  /\ contexts \cap dropped = {}
  /\ Live \subseteq contexts \cup PendingTokens("save")
  /\ contexts = (Live \cup PendingTokens("drop")) \ PendingTokens("save")
  /\ boxes = Cardinality(contexts) + Cardinality(PendingTokens("save"))
               + Cardinality(Subscribing)

(* The token-keyed table "avoids use-after-free on async event delivery":  *)
(* no trampoline runs on a context that has been dropped.                  *)
CallbacksHaveContext ==
  \A th \in Threads : \A i \in 1 .. Depth(th) :
     stack[th][i].cur \notin dropped
=============================================================================
