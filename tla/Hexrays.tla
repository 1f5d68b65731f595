------------------------------ MODULE Hexrays ------------------------------
(***************************************************************************)
(* The Hex-Rays lifecycle and event subscriptions of ida::decompiler       *)
(* (src/decompiler.cpp): scoped sessions and their reference count, the    *)
(* sticky initialisation behind available(), the callback maps, the bridge *)
(* installed in the decompiler and its dispatch.                           *)
(*                                                                         *)
(* g_hexrays_lifecycle_mutex and g_subscription_mutex are never held       *)
(* together nor while client code runs, so each critical section is one    *)
(* step.  The two sections of an on_* call are two steps, and a dispatch   *)
(* copies the callbacks in one step and calls each copy in another.        *)
(***************************************************************************)
EXTENDS Naturals, Sequences, FiniteSets, SequencesExt

CONSTANTS
  Threads,
  Handles,    \* ScopedSession objects of the clients
  Kinds,      \* the events subscribed to in this instance
  MaxToken,   \* bound: subscriptions made in a behaviour
  MaxDepth    \* bound: nested calls of one thread

(* The six callback maps, g_maturity_callbacks .. g_populating_popup_callbacks *)
EventKind == {"maturity", "func_printed", "refresh_pseudocode", "curpos",
              "create_hint", "populating_popup"}

ASSUME HexraysAssumption ==
  /\ Kinds \subseteq EventKind
  /\ IsFiniteSet(Handles)
  /\ IsFiniteSet(Threads)
  /\ MaxToken \in Nat
  /\ MaxDepth \in Nat

VARIABLES
  loadable,       \* external: is there a decompiler for this processor?
  plugin_up,      \* external: initialised by init_hexrays_plugin and not
                  \* terminated by term_hexrays_plugin since
  initialized,    \* s_hexrays_initialized
  session_count,  \* g_scoped_session_count
  handles,        \* active_ of each ScopedSession
  callbacks,      \* the entries of the callback maps: token -> kind
  next_token,     \* g_next_token
  installed,      \* g_hexrays_callback_installed
  stack           \* the calls each thread is in, the innermost last

session == <<loadable, plugin_up, initialized, session_count, handles>>
registry == <<callbacks, next_token, installed>>
vars == <<session, registry, stack>>

Token == 1 .. MaxToken
Live == DOMAIN callbacks

(* An on_* call that has passed ensure_hexrays, or a dispatch: `todo` are  *)
(* the copied callbacks still to be called and `cur` the one running.      *)
Call == [op : {"on", "bridge"}, kind : Kinds, todo : SUBSET Token,
         cur : Token \cup {0}]

TypeOK ==
  /\ {loadable, plugin_up, initialized, installed} \subseteq BOOLEAN
  /\ session_count \in Nat
  /\ handles \in [Handles -> BOOLEAN]
  /\ next_token \in 1 .. MaxToken + 1
  /\ Live \subseteq Token
  /\ callbacks \in [Live -> Kinds]
  /\ stack \in [Threads -> Seq(Call)]

Init ==
  /\ loadable \in BOOLEAN
  /\ plugin_up = FALSE
  /\ initialized = FALSE
  /\ session_count = 0
  /\ handles = [h \in Handles |-> FALSE]
  /\ callbacks = << >>
  /\ next_token = 1
  /\ installed = FALSE
  /\ stack = [th \in Threads |-> << >>]

-----------------------------------------------------------------------------
(* The stack of a thread; client code runs at top level and in callbacks. *)

Idle(th) == stack[th] = << >>
Depth(th) == Len(stack[th])
Top(th) == stack[th][Depth(th)]
RunsClientCode(th) == ~Idle(th) => Top(th).cur # 0

Push(th, call) == stack' = [stack EXCEPT ![th] = Append(@, call)]
Pop(th) == stack' = [stack EXCEPT ![th] = Front(@)]
SetTop(th, call) == stack' = [stack EXCEPT ![th] = Append(Front(@), call)]

SomeClientRuns == \E th \in Threads : RunsClientCode(th)

-----------------------------------------------------------------------------
(* Sessions. *)

hexrays_ready == initialized \/ session_count > 0

(* initialize(): a handle that is not in use receives the session. *)
initialize(h) ==
  /\ SomeClientRuns
  /\ ~handles[h]
  /\ loadable
  /\ plugin_up' = TRUE
  /\ session_count' = session_count + 1
  /\ handles' = [handles EXCEPT ![h] = TRUE]
  /\ UNCHANGED <<loadable, initialized, registry, stack>>

release_TermAlways ==
  /\ session_count > 0
  /\ session_count' = session_count - 1
  /\ plugin_up' = FALSE

(* release_scoped_hexrays_session(): the last one out terminates Hex-Rays. *)
release ==
  /\ session_count > 0
  /\ session_count' = session_count - 1
  /\ plugin_up' = IF session_count' = 0 THEN FALSE ELSE plugin_up

(* close(), and the destructor; a closed handle only gets a conflict error. *)
(* Nobody but the handle's owner sees active_ between the two assignments. *)
Close(h) ==
  /\ SomeClientRuns
  /\ handles[h]
  /\ handles' = [handles EXCEPT ![h] = FALSE]
  /\ release
  /\ UNCHANGED <<loadable, initialized, registry, stack>>

MoveConstruct(h, other) ==
  /\ SomeClientRuns
  /\ h # other
  /\ ~handles[h]
  /\ handles' = [handles EXCEPT ![h] = handles[other], ![other] = FALSE]
  /\ UNCHANGED <<loadable, plugin_up, initialized, session_count, registry, stack>>

(* operator=: the session of the target is released first. *)
MoveAssign(h, other) ==
  /\ SomeClientRuns
  /\ h # other
  /\ handles[h]
  /\ release
  /\ handles' = [handles EXCEPT ![h] = handles[other], ![other] = FALSE]
  /\ UNCHANGED <<loadable, initialized, registry, stack>>

(* The part available() and ensure_hexrays() share. *)
EnsureReady ==
  IF hexrays_ready
  THEN UNCHANGED <<plugin_up, initialized>>
  ELSE loadable /\ plugin_up' = TRUE /\ initialized' = TRUE

(* available() answers whether Hex-Rays is ready, and makes it so if it can. *)
available ==
  /\ SomeClientRuns
  /\ \/ EnsureReady
     \/ ~hexrays_ready /\ ~loadable /\ UNCHANGED <<plugin_up, initialized>>
  /\ UNCHANGED <<loadable, session_count, handles, registry, stack>>

-----------------------------------------------------------------------------
(* Subscriptions. *)

(* The on_* calls that have not taken a token yet. *)
Subscribing ==
  {c \in Threads \X (1 .. MaxDepth) :
     c[2] <= Depth(c[1]) /\ stack[c[1]][c[2]].op = "on"}

(* on_maturity_changed .. on_populating_popup up to ensure_hexrays(), which *)
(* returns an error when there is no decompiler.                           *)
CallOn(th, kind) ==
  /\ RunsClientCode(th)
  /\ Depth(th) < MaxDepth
  /\ next_token + Cardinality(Subscribing) <= MaxToken
  /\ EnsureReady
  /\ Push(th, [op |-> "on", kind |-> kind, todo |-> {}, cur |-> 0])
  /\ UNCHANGED <<loadable, session_count, handles, registry>>

AtOn(th) == ~Idle(th) /\ Top(th).op = "on"

(* The rest of it, under g_subscription_mutex. *)
Subscribe(th) ==
  /\ AtOn(th)
  /\ installed' = TRUE
  /\ callbacks' = [t \in Live \cup {next_token} |->
                     IF t = next_token THEN Top(th).kind ELSE callbacks[t]]
  /\ next_token' = next_token + 1
  /\ Pop(th)
  /\ UNCHANGED session

(* install_hexrays_callback fails: an error, and no subscription. *)
InstallFails(th) ==
  /\ AtOn(th)
  /\ ~installed
  /\ Pop(th)
  /\ UNCHANGED <<session, registry>>

InstalledAfter_OwnMapEmpty(t) ==
  \E u \in Live \ {t} : callbacks[u] = callbacks[t]

(* The bridge stays as long as one of the six maps has an entry. *)
InstalledAfter(t) == Live \ {t} # {}

(* unsubscribe, and ScopedSubscription; an unknown token is an error. *)
Unsubscribe(th, t) ==
  /\ RunsClientCode(th)
  /\ t \in Live
  /\ callbacks' = [u \in Live \ {t} |-> callbacks[u]]
  /\ installed' = InstalledAfter(t)
  /\ UNCHANGED <<session, next_token, stack>>

-----------------------------------------------------------------------------
(* hexrays_event_bridge. *)

Copied(kind) == {t \in Live : callbacks[t] = kind}

(* The decompiler reports an event to the installed bridge. *)
Event(th, kind) ==
  /\ installed
  /\ RunsClientCode(th)
  /\ Depth(th) < MaxDepth
  /\ Copied(kind) # {}
  /\ Push(th, [op |-> "bridge", kind |-> kind, todo |-> Copied(kind), cur |-> 0])
  /\ UNCHANGED <<session, registry>>

AtBridge(th) == ~Idle(th) /\ Top(th).op = "bridge"

(* The maps are unordered: the copies are called in any order. *)
CallCallback(th, t) ==
  /\ AtBridge(th)
  /\ Top(th).cur = 0
  /\ t \in Top(th).todo
  /\ SetTop(th, [Top(th) EXCEPT !.cur = t, !.todo = @ \ {t}])
  /\ UNCHANGED <<session, registry>>

CallbackReturns(th) ==
  /\ AtBridge(th)
  /\ Top(th).cur # 0
  /\ SetTop(th, [Top(th) EXCEPT !.cur = 0])
  /\ UNCHANGED <<session, registry>>

(* A hint callback returned a text: the other ones are not asked. *)
HintGiven(th) ==
  /\ AtBridge(th)
  /\ Top(th).cur # 0
  /\ Top(th).kind = "create_hint"
  /\ Pop(th)
  /\ UNCHANGED <<session, registry>>

BridgeReturns(th) ==
  /\ AtBridge(th)
  /\ Top(th).cur = 0
  /\ Top(th).todo = {}
  /\ Pop(th)
  /\ UNCHANGED <<session, registry>>

-----------------------------------------------------------------------------
Sessions ==
  \/ \E h \in Handles : initialize(h) \/ Close(h)
  \/ \E h, other \in Handles : MoveConstruct(h, other) \/ MoveAssign(h, other)
  \/ available

Dispatch(th) ==
  \/ \E kind \in Kinds : Event(th, kind)
  \/ \E t \in Token : CallCallback(th, t)
  \/ CallbackReturns(th)
  \/ HintGiven(th)
  \/ BridgeReturns(th)

Subscriptions(th) ==
  \/ \E kind \in Kinds : CallOn(th, kind)
  \/ Subscribe(th)
  \/ InstallFails(th)
  \/ \E t \in Token : Unsubscribe(th, t)

Next == Sessions \/ \E th \in Threads : Subscriptions(th) \/ Dispatch(th)

Spec == Init /\ [][Next]_vars

-----------------------------------------------------------------------------
(* Properties. *)

(* g_scoped_session_count counts the ScopedSession objects that are        *)
(* active, so term_hexrays_plugin is never called while a client still     *)
(* holds one, however handles are moved, assigned over and closed twice.   *)
SessionsKeepHexraysUp ==
  /\ session_count = Cardinality({h \in Handles : handles[h]})
  /\ session_count > 0 => plugin_up

(* The six callback maps together keep the promises every event domain     *)
(* makes about tokens and about its hook, the installed bridge, although   *)
(* on_* takes two locks one after the other and installing can fail.       *)
Registry == INSTANCE SubscriptionRegistry WITH
  Tokens <- Token,
  live <- Live,
  issued <- 1 .. next_token - 1,
  hooked <- installed

ImplementsRegistry == Registry!Spec

(* "Returns true if the decompiler was initialized successfully": what     *)
(* available() and ensure_hexrays() answer from their cached state.        *)
ReadyMeansInitialised == hexrays_ready => plugin_up
=============================================================================
