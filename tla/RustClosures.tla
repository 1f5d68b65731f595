---------------------------- MODULE RustClosures ----------------------------
(***************************************************************************)
(* The closures that Rust programs leave with IDA's user interface: timers *)
(* and popup actions (ui.rs), registered actions (plugin.rs) and graph     *)
(* viewers (graph.rs).  A closure is boxed, its raw pointer travels        *)
(* through the shim into a std::function that IDA calls later, and a table *)
(* of the binding, or the viewer itself, remembers to drop the box.  What  *)
(* can go wrong is that one side lets go and the other does not.           *)
(*                                                                         *)
(* IDA makes these calls on its main thread and so do clients: one thread, *)
(* on which a call to the library is one step and closures nest.  IDA      *)
(* itself is external: it may refuse what it is asked.                     *)
(***************************************************************************)
EXTENDS Naturals, Sequences, FiniteSets, SequencesExt, Functions

CONSTANTS
  Addresses,     \* where the allocator puts a TimerState; used again once free
  ActionIds,
  MaxClosures,   \* bound: closures that clients pass in
  MaxRunning     \* bound: closures that run inside one another

ASSUME ClosuresAssumption ==
  MaxClosures \in Nat /\ MaxRunning \in Nat

VARIABLES
  made,            \* how many closures clients passed in
  freed,           \* the closures whose box is gone
  given_up,          \* the closures that a client or the user put an end to
  running,           \* the closures that run, the innermost last
  g_timers,          \* C++: the TimerStates, each with its closure
  TIMER_CONTEXTS,    \* Rust: timer token -> closure
  sdk_actions,       \* IDA: registered action -> closures of its adapter
  PLUGIN_CONTEXTS,   \* Rust: ACTION_CONTEXTS of plugin.rs
  popup,             \* IDA: the entries of the open popup menu
  POPUP_CONTEXTS,    \* Rust: ACTION_CONTEXTS of ui.rs
  viewers,           \* IDA: the open graph viewers, each with its closure
  shims              \* C++: the closures with a ShimGraphCallback

boxed == <<made, freed, given_up>>
timers == <<g_timers, TIMER_CONTEXTS>>
actions == <<sdk_actions, PLUGIN_CONTEXTS>>
popups == <<popup, POPUP_CONTEXTS>>
graphs == <<viewers, shims>>
closurevars == <<boxed, running, timers, actions, popups, graphs>>

Closure == 1 .. MaxClosures
None == 0          \* no closure: a null context

(* A TimerState with the closure it calls; `ticking` while IDA calls it.   *)
TimerState == [closure : Closure \cup {None}, ticking : BOOLEAN]
(* What register_action_with_context keeps for an action. *)
ActionContextPair == [handler : Closure \cup {None}, enabled : Closure \cup {None}]
PopupEntry == [id : ActionIds, closure : Closure]

PartialFunction(D, R) == UNION {[S -> R] : S \in SUBSET D}

ClosuresTypeOK ==
  /\ made \in 0 .. MaxClosures
  /\ freed \subseteq 1 .. made /\ given_up \subseteq 1 .. made
  /\ running \in Seq(Closure)
  /\ g_timers \in PartialFunction(Addresses, TimerState)
  /\ TIMER_CONTEXTS \in PartialFunction(Addresses, Closure)
  /\ sdk_actions \in PartialFunction(ActionIds, ActionContextPair)
  /\ PLUGIN_CONTEXTS \in PartialFunction(ActionIds, ActionContextPair)
  /\ popup \in Seq(PopupEntry)
  /\ POPUP_CONTEXTS \in PartialFunction(ActionIds, Closure)
  /\ viewers \subseteq Closure \cup {None}
  /\ shims \subseteq Closure

ClosuresInit ==
  /\ made = 0 /\ freed = {} /\ given_up = {}
  /\ running = << >>
  /\ g_timers = << >> /\ TIMER_CONTEXTS = << >>
  /\ sdk_actions = << >> /\ PLUGIN_CONTEXTS = << >>
  /\ popup = << >> /\ POPUP_CONTEXTS = << >>
  /\ viewers = {} /\ shims = {}

-----------------------------------------------------------------------------
Set(f, k, v) == [x \in DOMAIN f \cup {k} |-> IF x = k THEN v ELSE f[x]]
Without(f, k) == Restrict(f, DOMAIN f \ {k})

(* The n closures of one call are boxed; `now` are freed before it         *)
(* returns, `asked` are those that the call is meant to end.               *)
Box(n, now, asked) ==
  /\ made + n <= MaxClosures
  /\ made' = made + n
  /\ freed' = freed \cup (now \ {None})
  /\ given_up' = given_up \cup (asked \ {None})

Closures(pair) == {pair.handler, pair.enabled}
(* What a table holds under a key, as a set: empty when there is nothing.  *)
Kept(table, key) == IF key \in DOMAIN table THEN {table[key]} ELSE {}
KeptPair(id) == UNION {Closures(pair) : pair \in Kept(PLUGIN_CONTEXTS, id)}

-----------------------------------------------------------------------------
(* Timers. *)

register_timer_with_callback(address) ==
  LET closure == made + 1 IN
  /\ address \notin DOMAIN g_timers
  /\ Box(1, {}, {})
  /\ g_timers' = Set(g_timers, address, [closure |-> closure, ticking |-> TRUE])
  /\ TIMER_CONTEXTS' = Set(TIMER_CONTEXTS, address, closure)
  /\ UNCHANGED <<running, actions, popups, graphs>>

(* A timer without a closure of the client's; the table is not involved.   *)
register_timer(address) ==
  /\ address \notin DOMAIN g_timers
  /\ g_timers' = Set(g_timers, address, [closure |-> None, ticking |-> TRUE])
  /\ UNCHANGED <<boxed, running, TIMER_CONTEXTS, actions, popups, graphs>>

(* IDA refuses the timer: the state is deleted and the box freed.          *)
TimerRefused ==
  /\ Box(1, {made + 1}, {})
  /\ UNCHANGED <<running, timers, actions, popups, graphs>>

unregister_timer_DropsAnyway(token, refused) ==
  /\ token \in DOMAIN g_timers
  /\ ~g_timers[token].ticking => refused
  /\ g_timers' = IF refused THEN g_timers ELSE Without(g_timers, token)
  /\ TIMER_CONTEXTS' = Without(TIMER_CONTEXTS, token)
  /\ Box(0, Kept(TIMER_CONTEXTS, token), Kept(TIMER_CONTEXTS, token))
  /\ UNCHANGED <<running, actions, popups, graphs>>

(* The token is the address of the state, and clients pass tokens of       *)
(* timers they did not unregister yet.  IDA may refuse, and does so for a  *)
(* timer that its callback stopped: then both sides keep what they have.   *)
unregister_timer(token, refused) ==
  /\ token \in DOMAIN g_timers
  /\ ~g_timers[token].ticking => refused
  /\ IF refused
     THEN UNCHANGED <<timers, boxed>>
     ELSE /\ g_timers' = Without(g_timers, token)
          /\ TIMER_CONTEXTS' = Without(TIMER_CONTEXTS, token)
          /\ Box(0, Kept(TIMER_CONTEXTS, token), Kept(TIMER_CONTEXTS, token))
  /\ UNCHANGED <<running, actions, popups, graphs>>

-----------------------------------------------------------------------------
(* Actions of the main menu, with a handler and perhaps an enabled check.  *)
(* Of an id that is in use IDA may keep the action, and refuse, or take    *)
(* the new one in its place.                                               *)

register_action_with_context(id, checks) ==
  LET pair == [handler |-> made + 1, enabled |-> IF checks THEN made + 2 ELSE None] IN
  /\ Box(IF checks THEN 2 ELSE 1, KeptPair(id), KeptPair(id))
  /\ sdk_actions' = Set(sdk_actions, id, pair)
  /\ PLUGIN_CONTEXTS' = Set(PLUGIN_CONTEXTS, id, pair)
  /\ UNCHANGED <<running, timers, popups, graphs>>

ActionRefused_KeepsCheck(checks) ==
  /\ Box(IF checks THEN 2 ELSE 1, {made + 1}, {})
  /\ UNCHANGED <<running, timers, actions, popups, graphs>>

ActionRefused(checks) ==
  /\ Box(IF checks THEN 2 ELSE 1, {made + 1} \cup (IF checks THEN {made + 2} ELSE {}), {})
  /\ UNCHANGED <<running, timers, actions, popups, graphs>>

(* register_action passes no callbacks and forgets earlier ones.           *)
register_action(id) ==
  /\ Box(0, KeptPair(id), KeptPair(id))
  /\ sdk_actions' = Set(sdk_actions, id, [handler |-> None, enabled |-> None])
  /\ PLUGIN_CONTEXTS' = Without(PLUGIN_CONTEXTS, id)
  /\ UNCHANGED <<running, timers, popups, graphs>>

(* When IDA does not know the action, or refuses, nothing changes.         *)
unregister_action(id) ==
  /\ id \in DOMAIN sdk_actions
  /\ Box(0, KeptPair(id), KeptPair(id))
  /\ sdk_actions' = Without(sdk_actions, id)
  /\ PLUGIN_CONTEXTS' = Without(PLUGIN_CONTEXTS, id)
  /\ UNCHANGED <<running, timers, popups, graphs>>

-----------------------------------------------------------------------------
(* Actions of a popup menu, which IDA owns and forgets when it closes.     *)
(* The id goes no further than the binding: IDA lists the entries of two   *)
(* attachments of one id, while the table keeps one closure per id.        *)

attach_dynamic_action(id) ==
  /\ Box(1, Kept(POPUP_CONTEXTS, id), Kept(POPUP_CONTEXTS, id))
  /\ popup' = Append(popup, [id |-> id, closure |-> made + 1])
  /\ POPUP_CONTEXTS' = Set(POPUP_CONTEXTS, id, made + 1)
  /\ UNCHANGED <<running, timers, actions, graphs>>

AttachRefused ==
  /\ Box(1, {made + 1}, {})
  /\ UNCHANGED <<running, timers, actions, popups, graphs>>

PopupCloses ==
  /\ popup # << >>
  /\ popup' = << >>
  /\ UNCHANGED <<boxed, running, timers, actions, POPUP_CONTEXTS, graphs>>

-----------------------------------------------------------------------------
(* Graph viewers. *)

show_graph ==
  LET closure == made + 1 IN
  /\ Box(1, {}, {})
  /\ shims' = shims \cup {closure}
  /\ viewers' = viewers \cup {closure}
  /\ UNCHANGED <<running, timers, actions, popups>>

(* Without a callback; one such viewer at a time. *)
ShowPlainGraph ==
  /\ None \notin viewers
  /\ viewers' = viewers \cup {None}
  /\ UNCHANGED <<boxed, running, timers, actions, popups, shims>>

(* No viewer: the state, the shim's object and the box go in turn.         *)
ShowRefused ==
  /\ Box(1, {made + 1}, {})
  /\ UNCHANGED <<running, timers, actions, popups, graphs>>

(* grcode_destroyed, from close_graph_viewer or the user: on_destroyed     *)
(* runs the client's and drops the box, the shim's object deletes itself   *)
(* and the state goes.  Without a callback the adapter returns before any  *)
(* of that, and the ViewerState is never freed.                            *)
ViewerDestroyed(closure) ==
  /\ closure \in viewers
  /\ viewers' = viewers \ {closure}
  /\ shims' = shims \ {closure}
  /\ Box(0, {closure}, {closure})
  /\ UNCHANGED <<running, timers, actions, popups>>

-----------------------------------------------------------------------------
(* IDA calls a closure, and the closure may call the library. *)

Callable ==
  ({g_timers[a].closure : a \in {b \in DOMAIN g_timers : g_timers[b].ticking}}
     \cup (UNION {Closures(sdk_actions[id]) : id \in DOMAIN sdk_actions})
     \cup {popup[i].closure : i \in DOMAIN popup}
     \cup viewers) \ {None}

ClosureRuns(closure) ==
  /\ closure \in Callable
  /\ Len(running) < MaxRunning
  /\ running' = Append(running, closure)
  /\ UNCHANGED <<boxed, timers, actions, popups, graphs>>

(* A timer's closure may stop its timer with what it returns.  Nobody      *)
(* removes the state or the box: the client still holds the token.         *)
ClosureReturns(stops) ==
  /\ running # << >>
  /\ running' = Front(running)
  /\ g_timers' =
       [a \in DOMAIN g_timers |->
          IF stops /\ g_timers[a].closure = Last(running)
          THEN [g_timers[a] EXCEPT !.ticking = FALSE] ELSE g_timers[a]]
  /\ UNCHANGED <<boxed, TIMER_CONTEXTS, actions, popups, graphs>>

-----------------------------------------------------------------------------
ClosuresNext ==
  \/ \E a \in Addresses :
       \/ register_timer_with_callback(a)
       \/ register_timer(a)
       \/ \E refused \in BOOLEAN : unregister_timer(a, refused)
  \/ TimerRefused
  \/ \E id \in ActionIds :
       \/ \E checks \in BOOLEAN : register_action_with_context(id, checks)
       \/ register_action(id)
       \/ unregister_action(id)
       \/ attach_dynamic_action(id)
  \/ \E checks \in BOOLEAN : ActionRefused(checks)
  \/ AttachRefused
  \/ PopupCloses
  \/ show_graph
  \/ ShowPlainGraph
  \/ ShowRefused
  \/ \E closure \in Closure \cup {None} : ViewerDestroyed(closure)
  \/ \E closure \in Closure : ClosureRuns(closure)
  \/ \E stops \in BOOLEAN : ClosureReturns(stops)

ClosuresSpec == ClosuresInit /\ [][ClosuresNext]_closurevars

-----------------------------------------------------------------------------
(* Properties. *)

(* Whatever IDA can still call has its box: the closures of ticking        *)
(* timers, registered actions and open viewers, whatever was refused,      *)
(* registered twice or put at a freed address in between.  Only a popup    *)
(* entry whose id was attached again, and a closure that is rid of itself  *)
(* while it runs, are left without: the binding drops the box at once.     *)
CallableClosuresLive ==
  LET Superseded == {e \in Range(popup) : POPUP_CONTEXTS[e.id] # e.closure}
      Running == Range(running)
  IN  /\ (Callable \ {e.closure : e \in Superseded}) \cap freed = {}
      /\ Running \cap freed \subseteq given_up

(* Nothing is leaked and nothing is freed twice: a box that is not         *)
(* freed has exactly one owner that will drop it, a table entry or a       *)
(* viewer's callback object, and no owner is left with a freed box.        *)
(* This includes every registration that IDA refuses, and that the         *)
(* variables have their types.                                             *)
ClosuresOwnedOnce ==
  LET Owners(c) ==
        Cardinality({t \in DOMAIN TIMER_CONTEXTS : TIMER_CONTEXTS[t] = c})
        + Cardinality({id \in DOMAIN PLUGIN_CONTEXTS : c \in Closures(PLUGIN_CONTEXTS[id])})
        + Cardinality({id \in DOMAIN POPUP_CONTEXTS : POPUP_CONTEXTS[id] = c})
        + (IF c \in shims THEN 1 ELSE 0)
  IN  /\ ClosuresTypeOK
      /\ \A c \in 1 .. made : Owners(c) = IF c \in freed THEN 0 ELSE 1

(* Both: what may be called is there, and every box has one owner.         *)
ClosuresSound == CallableClosuresLive /\ ClosuresOwnedOnce
=============================================================================
