----------------------------- MODULE IdbEvents -----------------------------
(***************************************************************************)
(* ida::event (src/event.cpp): the registry of IDB event subscriptions,    *)
(* the one kernel listener they share, the dispatch of an event to them    *)
(* and the ScopedSubscription guards.                                      *)
(*                                                                         *)
(* The IDB events of the kernel are delivered on the thread that changed   *)
(* the database, and the registry has no lock: the model has one thread,   *)
(* with a stack of dispatches.  IdbListener::on_event walks the live       *)
(* std::map and calls client code while its iterator stands on an entry,   *)
(* and that code may subscribe, unsubscribe, drop guards or change the     *)
(* database, which starts a nested dispatch.                               *)
(***************************************************************************)
EXTENDS Naturals, Sequences, FiniteSets, FiniteSetsExt

CONSTANTS
  EventKinds,     \* the kinds of event the kernel fires in this instance
  Guards,         \* ScopedSubscription objects of the clients
  MaxToken,       \* bound: subscriptions made in a behaviour
  MaxDepth        \* bound: nesting of dispatches

(* The alternatives of CallbackKind; all but the last are kinds of event. *)
CallbackKind == {"SegmentAdded", "SegmentDeleted", "FunctionAdded",
                 "FunctionDeleted", "Renamed", "BytePatched",
                 "CommentChanged", "Generic"}

ASSUME IdbAssumption ==
  /\ EventKinds \subseteq CallbackKind \ {"Generic"}
  /\ MaxToken \in Nat
  /\ MaxDepth \in Nat

VARIABLES
  subscriptions,  \* g_subscriptions: a map from the live tokens
  next_token,     \* g_next_token
  listener,       \* g_listener: 0 for nullptr, else the number of the object
  listeners,      \* how many listeners were allocated so far
  frames,         \* the dispatches under way, the innermost last
  guards,         \* token_ of each ScopedSubscription
  misused,        \* history: has a client erased an entry that a dispatch
                  \* was standing on?
  loose,          \* history: the live tokens no guard was ever given
  reused,         \* history: the tokens in guards that clients used twice
  undefined       \* has the program used an invalidated iterator?

owners == <<loose, reused>>

vars == <<subscriptions, next_token, listener, listeners, frames, guards,
          misused, owners, undefined>>

Token == 1 .. MaxToken
Live == DOMAIN subscriptions

(* `callable` says whether the std::function of the client is non-empty. *)
Subscription == [kind : EventKinds \cup {"Generic"}, filtered : BOOLEAN,
                 callable : BOOLEAN]

(* A dispatch rests only inside client code: `stage` tells which call that *)
(* is, `cur` the entry the loop iterator stands on and `listener` the      *)
(* object whose on_event runs.  `due` and `seen` are history: the matching *)
(* subscriptions when the event fired, and the ones visited, in order.     *)
Stages == {"typed", "filter", "generic"}
Frame == [event : EventKinds, stage : Stages, cur : Token, listener : Nat,
          due : SUBSET Token, seen : Seq(Token)]

TypeOK ==
  /\ next_token \in 1 .. MaxToken + 1
  /\ Live \subseteq Token
  /\ subscriptions \in [Live -> Subscription]
  /\ listener \in Nat
  /\ listeners \in Nat
  /\ frames \in Seq(Frame)
  /\ guards \in [Guards -> Token \cup {0}]
  /\ loose \subseteq Token
  /\ reused \subseteq Token
  /\ {misused, undefined} \subseteq BOOLEAN

Init_CountsFromZero ==
  /\ subscriptions = << >>
  /\ next_token = 0
  /\ listener = 0
  /\ listeners = 0
  /\ frames = << >>
  /\ guards = [g \in Guards |-> 0]
  /\ misused = FALSE
  /\ loose = {}
  /\ reused = {}
  /\ undefined = FALSE

Init ==
  /\ subscriptions = << >>
  /\ next_token = 1
  /\ listener = 0
  /\ listeners = 0
  /\ frames = << >>
  /\ guards = [g \in Guards |-> 0]
  /\ misused = FALSE
  /\ loose = {}
  /\ reused = {}
  /\ undefined = FALSE

-----------------------------------------------------------------------------
(* Subscribing.  Client code runs at top level or inside a callback; it is *)
(* stopped only by undefined behaviour, after which nothing is claimed.    *)

ensure_listener ==
  IF listener = 0
  THEN /\ listener' = listeners + 1
       /\ listeners' = listeners + 1
  ELSE UNCHANGED <<listener, listeners>>

(* on_segment_added .. on_comment_changed, on_event, on_event_filtered. *)
Subscribe(sub) ==
  /\ ~undefined
  /\ next_token <= MaxToken
  /\ sub.filtered => sub.kind = "Generic"
  /\ ensure_listener
  /\ subscriptions' = [t \in Live \cup {next_token} |->
                         IF t = next_token THEN sub ELSE subscriptions[t]]
  /\ next_token' = next_token + 1
  /\ loose' = loose \cup {next_token}
  /\ UNCHANGED <<frames, guards, misused, reused, undefined>>

-----------------------------------------------------------------------------
(* Unsubscribing. *)

(* The entries some dispatch's iterator stands on. *)
Running == {frames[i].cur : i \in DOMAIN frames}

ListenerAfter_Never(remaining) == listener
ListenerAfter_Always(remaining) == 0
(* With the last subscription the listener is unhooked and deleted. *)
ListenerAfter(remaining) == IF remaining = {} THEN 0 ELSE listener

(* unsubscribe(t): an unknown token is a not_found error and no change. *)
Erase(t) ==
  /\ loose' = loose \ {t}
  /\ IF t \in Live
     THEN /\ subscriptions' = Restrict(subscriptions, Live \ {t})
          /\ listener' = ListenerAfter(Live \ {t})
          /\ misused' = (misused \/ t \in Running)
     ELSE UNCHANGED <<subscriptions, listener, misused>>

Unsubscribe(t) ==
  /\ ~undefined
  /\ Erase(t)
  /\ reused' = reused \cup ({t} \cap Range(guards))
  /\ UNCHANGED <<next_token, listeners, frames, guards, undefined>>

-----------------------------------------------------------------------------
(* ScopedSubscription: an object that was destroyed or never built holds 0. *)

GuardConstruct(g, t) ==
  /\ ~undefined
  /\ guards[g] = 0
  /\ t < next_token
  /\ guards' = [guards EXCEPT ![g] = t]
  /\ loose' = loose \ {t}
  /\ reused' = IF t \in loose THEN reused ELSE reused \cup {t}
  /\ UNCHANGED <<subscriptions, next_token, listener, listeners, frames,
                 misused, undefined>>

GuardDestroy(g) ==
  /\ ~undefined
  /\ guards[g] # 0
  /\ Erase(guards[g])
  /\ guards' = [guards EXCEPT ![g] = 0]
  /\ reused' = reused \cap Range(guards')
  /\ UNCHANGED <<next_token, listeners, frames, undefined>>

GuardMoveConstruct(g, other) ==
  /\ ~undefined
  /\ g # other
  /\ guards[g] = 0
  /\ guards' = [guards EXCEPT ![g] = guards[other], ![other] = 0]
  /\ UNCHANGED <<subscriptions, next_token, listener, listeners, frames,
                 misused, owners, undefined>>

GuardMoveAssign_Overwrites(g, other) ==
  /\ ~undefined
  /\ g # other
  /\ guards[g] # 0
  /\ guards' = [guards EXCEPT ![g] = guards[other], ![other] = 0]
  /\ UNCHANGED <<subscriptions, next_token, listener, listeners, frames,
                 misused, owners, undefined>>

(* operator=: what the target held is unsubscribed first. *)
GuardMoveAssign(g, other) ==
  /\ ~undefined
  /\ g # other
  /\ guards[g] # 0
  /\ Erase(guards[g])
  /\ guards' = [guards EXCEPT ![g] = guards[other], ![other] = 0]
  /\ reused' = reused \cap Range(guards')
  /\ UNCHANGED <<next_token, listeners, frames, undefined>>

-----------------------------------------------------------------------------
(* Dispatch. *)

TypedMatch(t, event) ==
  subscriptions[t].kind = event /\ subscriptions[t].callable

GenericMatch(t) ==
  subscriptions[t].kind = "Generic" /\ subscriptions[t].callable

Matching(event) == {t \in Live : TypedMatch(t, event) \/ GenericMatch(t)}

(* The calls the two loops of on_event still have to make, as the map is   *)
(* now: the loop over the typed subscriptions runs to its end before       *)
(* dispatch_generic starts from the beginning of the map.                  *)
TypedAfter(t, event) == {u \in Live : u > t /\ TypedMatch(u, event)}
GenericAfter(t) == {u \in Live : u > t /\ GenericMatch(u)}

GenericCall(t) == [stage |-> IF subscriptions[t].filtered THEN "filter" ELSE "generic",
                   cur |-> t]

NextCall_OneLoop(event, stage, after) ==
  LET typed == IF stage = "typed" THEN TypedAfter(after, event) ELSE {}
      generic == GenericAfter(after)
  IN  CASE typed # {} -> [stage |-> "typed", cur |-> Min(typed)]
        [] typed = {} /\ generic # {} -> GenericCall(Min(generic))
        [] OTHER -> [stage |-> "done", cur |-> 0]

NextCall(event, stage, after) ==
  LET typed == IF stage = "typed" THEN TypedAfter(after, event) ELSE {}
      generic == GenericAfter(IF stage = "typed" THEN 0 ELSE after)
  IN  CASE typed # {} -> [stage |-> "typed", cur |-> Min(typed)]
        [] typed = {} /\ generic # {} -> GenericCall(Min(generic))
        [] OTHER -> [stage |-> "done", cur |-> 0]

(* The kernel fires an event.  Without a matching subscription on_event    *)
(* calls nobody and returns, which changes no state.                       *)
Fire(event) ==
  LET call == NextCall(event, "typed", 0) IN
  /\ ~undefined
  /\ listener # 0
  /\ Len(frames) < MaxDepth
  /\ call.stage # "done"
  /\ frames' = Append(frames, [event |-> event, stage |-> call.stage,
                               cur |-> call.cur, listener |-> listener,
                               due |-> Matching(event),
                               seen |-> <<call.cur>>])
  /\ UNCHANGED <<subscriptions, next_token, listener, listeners, guards,
                 misused, owners, undefined>>

Top == frames[Len(frames)]

(* A filter accepted the event: the callback of the same entry is called. *)
FilterAccepts ==
  /\ ~undefined
  /\ frames # << >>
  /\ Top.stage = "filter"
  /\ Top.cur \in Live
  /\ frames' = [frames EXCEPT ![Len(frames)].stage = "generic"]
  /\ UNCHANGED <<subscriptions, next_token, listener, listeners, guards,
                 misused, owners, undefined>>

(* Client code returns (a filter: it rejected the event), the iterator is  *)
(* advanced and the next matching entry is called, or on_event returns.    *)
CallReturns ==
  LET call == NextCall(Top.event, Top.stage, Top.cur) IN
  /\ ~undefined
  /\ frames # << >>
  /\ Top.cur \in Live
  /\ frames' = IF call.stage = "done"
               THEN SubSeq(frames, 1, Len(frames) - 1)
               ELSE [frames EXCEPT ![Len(frames)] =
                       [Top EXCEPT !.stage = call.stage, !.cur = call.cur,
                                   !.seen = Append(Top.seen, call.cur)]]
  /\ UNCHANGED <<subscriptions, next_token, listener, listeners, guards,
                 misused, owners, undefined>>

(* Client code returns to a loop whose entry it erased: the iterator is    *)
(* invalid, and using it is undefined behaviour.                           *)
IteratorInvalid ==
  /\ ~undefined
  /\ frames # << >>
  /\ Top.cur \notin Live
  /\ undefined' = TRUE
  /\ UNCHANGED <<subscriptions, next_token, listener, listeners, frames,
                 guards, misused, owners>>

-----------------------------------------------------------------------------
Client ==
  \/ \E sub \in Subscription : Subscribe(sub)
  \/ \E t \in Token : Unsubscribe(t)
  \/ \E g \in Guards, t \in Token : GuardConstruct(g, t)
  \/ \E g \in Guards : GuardDestroy(g)
  \/ \E g, other \in Guards : GuardMoveConstruct(g, other)
  \/ \E g, other \in Guards : GuardMoveAssign(g, other)

Dispatch ==
  \/ \E event \in EventKinds : Fire(event)
  \/ FilterAccepts
  \/ CallReturns
  \/ IteratorInvalid

Next == Client \/ Dispatch

Spec == Init /\ [][Next]_vars

-----------------------------------------------------------------------------
(* Properties. *)

(* Every running on_event is a method of the listener that is hooked, and  *)
(* its loop stands on an entry that is still in the map: neither the       *)
(* iterator nor the object is pulled from under IdbListener::on_event by   *)
(* what callbacks, nested dispatches and dying guards do, as long as no    *)
(* client has erased an entry that was being visited.                      *)
DispatchWellDefined ==
  ~misused =>
    /\ ~undefined
    /\ \A i \in DOMAIN frames :
         /\ frames[i].cur \in Live
         /\ frames[i].listener = listener
         /\ listener # 0

(* When on_event returns, every subscription that matched the event when   *)
(* it fired and was not removed meanwhile was visited, and none twice,     *)
(* whatever its callbacks added to and removed from the map being walked.  *)
DeliveredExactlyOnce ==
  [][Len(frames') < Len(frames) =>
       /\ Top.due \cap Live \subseteq Range(Top.seen)
       /\ IsInjective(Top.seen)]_vars

(* Nobody loses a subscription: each live one is still in the hands of the *)
(* client that made it, or in a ScopedSubscription, whatever constructors, *)
(* moves, assignments over a guard in use and destructors did since, in    *)
(* callbacks and outside.  And a token that its client gave to one guard   *)
(* and then left alone is in one guard only, whose subscription is live: a *)
(* move leaves nothing behind that would end it early or twice.            *)
SubscriptionsOwned ==
  /\ Live \subseteq loose \cup Range(guards)
  /\ \A g \in Guards : guards[g] \notin reused \cup {0} =>
       /\ guards[g] \in Live
       /\ \A other \in Guards \ {g} : guards[other] # guards[g]

(* The registry keeps the promises every event domain makes about tokens   *)
(* and about the kernel hook (g_next_token, unsubscribe, ensure_listener). *)
Registry == INSTANCE SubscriptionRegistry WITH
  Tokens <- Token,
  live <- Live,
  issued <- 1 .. next_token - 1,
  hooked <- (listener # 0)

ImplementsRegistry == Registry!Spec
=============================================================================
