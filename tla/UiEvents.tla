------------------------------ MODULE UiEvents ------------------------------
(***************************************************************************)
(* The UI and view subscriptions of ida::ui (src/ui.cpp): two listeners,   *)
(* one per hook type, each with its own tokens; public tokens that tell    *)
(* the listeners apart by range; and the generic subscriptions of          *)
(* ui::on_event, made of one inner subscription per supported event.       *)
(*                                                                         *)
(* Every critical section of a listener or of g_generic_routes_mutex is    *)
(* one step (no lock is held while another is taken or client code runs,   *)
(* see DbgEvents for the same listener with its mutex).  A generic         *)
(* subscription takes one lock after another, so other threads see it half *)
(* made and half removed.                                                  *)
(***************************************************************************)
EXTENDS Naturals, Sequences, FiniteSets, SequencesExt, Selections

CONSTANTS
  Threads,
  GenericThreads,       \* the threads that call on_event / on_event_filtered
  Events,               \* the UI and view events of this instance
  MaxCallbacks,         \* bound: subscriptions clients make in a behaviour
  MaxDepth,             \* bound: nested calls of one thread
  VIEW_TOKEN_BASE,      \* 2^62 in the code
  GENERIC_TOKEN_BASE    \* 2^63 in the code

(* What on_event subscribes to, in its order, with the listener of each. *)
SupportedEvents ==
  << <<"ui", "database_inited">>, <<"ui", "database_closed">>,
     <<"ui", "ready_to_run">>, <<"ui", "screen_ea_changed">>,
     <<"ui", "current_widget_changed">>, <<"ui", "widget_visible">>,
     <<"ui", "widget_invisible">>, <<"ui", "widget_closing">>,
     <<"view", "curpos">>, <<"view", "activated">>, <<"view", "deactivated">>,
     <<"view", "created">>, <<"view", "close">> >>

Inner ==
  Picked(SupportedEvents, {i \in DOMAIN SupportedEvents : SupportedEvents[i] \in Events})

(* No listener hands out more raw tokens than the generic subscriptions    *)
(* and the direct ones can use; the ranges do not meet below that.         *)
MaxRaw == MaxCallbacks * (Len(Inner) + 1)

ASSUME UiAssumption ==
  /\ GenericThreads \subseteq Threads
  /\ Events \subseteq Range(SupportedEvents)
  /\ MaxCallbacks \in Nat
  /\ MaxDepth \in Nat
  /\ VIEW_TOKEN_BASE \in Nat /\ GENERIC_TOKEN_BASE \in Nat
  /\ MaxRaw < VIEW_TOKEN_BASE
  /\ VIEW_TOKEN_BASE + MaxRaw < GENERIC_TOKEN_BASE

VARIABLES
  subs,          \* subs_ of each listener: raw token, event and callback
  next_token,    \* next_token_ of each listener
  hooked,        \* hooked_ of each listener
  routes,        \* g_generic_routes: generic token -> inner tokens
  next_generic,  \* g_next_generic_token
  stack,         \* the calls each thread is in, the innermost last
  callbacks,     \* how many callbacks clients passed in so far
  given,         \* the public tokens clients were given, each with the
                 \* callback it was returned for
  held           \* the ones they did not give back yet

listeners == <<subs, next_token, hooked>>
generic == <<routes, next_generic>>
clients == <<callbacks, given, held>>
vars == <<listeners, generic, stack, clients>>

Listeners == {"ui", "view"}
Callback == 1 .. MaxCallbacks
Raw == 1 .. MaxRaw
PublicToken == Raw \cup {VIEW_TOKEN_BASE + r : r \in Raw}
                   \cup {GENERIC_TOKEN_BASE + c : c \in Callback}

Subscription == [token : Raw, event : Events, cb : Callback]
Held == [token : PublicToken, cb : Callback]

(* A generic subscribe ("on_event": `tokens` are the inner tokens so far,  *)
(* `read` the value it read of g_next_generic_token), a generic            *)
(* unsubscribe (`tokens` are the inner tokens left), or a dispatch (`todo` *)
(* are the copied handlers, `running` whether one runs client code).       *)
Call == [op : {"on_event", "make_token", "add_route", "unsubscribe", "dispatch"},
         cb : Callback \cup {0}, tokens : Seq(PublicToken), read : Nat,
         todo : Seq(Callback), running : BOOLEAN]

NewCall(op) ==
  [op |-> op, cb |-> 0, tokens |-> << >>, read |-> 0, todo |-> << >>,
   running |-> FALSE]

TypeOK ==
  /\ subs \in [Listeners -> Seq(Subscription)]
  /\ next_token \in [Listeners -> 0 .. MaxRaw]
  /\ hooked \in [Listeners -> BOOLEAN]
  /\ next_generic \in 0 .. MaxCallbacks
  /\ DOMAIN routes \subseteq PublicToken
  /\ routes \in [DOMAIN routes -> Seq(PublicToken)]
  /\ stack \in [Threads -> Seq(Call)]
  /\ callbacks \in 0 .. MaxCallbacks
  /\ given \subseteq Held
  /\ held \subseteq given

Init ==
  /\ subs = [l \in Listeners |-> << >>]
  /\ next_token = [l \in Listeners |-> 0]
  /\ hooked = [l \in Listeners |-> FALSE]
  /\ routes = << >>
  /\ next_generic = 0
  /\ stack = [th \in Threads |-> << >>]
  /\ callbacks = 0
  /\ given = {}
  /\ held = {}

-----------------------------------------------------------------------------
Idle(th) == stack[th] = << >>
Depth(th) == Len(stack[th])
Top(th) == stack[th][Depth(th)]
In(th, op) == ~Idle(th) /\ Top(th).op = op
RunsClientCode(th) == ~Idle(th) => Top(th).running

Push(th, call) == stack' = [stack EXCEPT ![th] = Append(@, call)]
Pop(th) == stack' = [stack EXCEPT ![th] = Front(@)]
SetTop(th, call) == stack' = [stack EXCEPT ![th] = Append(Front(@), call)]

-----------------------------------------------------------------------------
(* EventListener. *)

(* EventListener::subscribe; the raw token is next_token'[l]. *)
subscribe(l, event, cb) ==
  /\ hooked' = [hooked EXCEPT ![l] = TRUE]
  /\ next_token' = [next_token EXCEPT ![l] = @ + 1]
  /\ subs' = [subs EXCEPT ![l] =
                Append(@, [token |-> next_token[l] + 1, event |-> event, cb |-> cb])]

unsubscribe_listener_KeepsHook(l, raw) ==
  /\ subs' = [subs EXCEPT ![l] = RemoveFirstMatch(@, LAMBDA s : s.token = raw)]
  /\ UNCHANGED <<next_token, hooked>>

(* EventListener::unsubscribe; an unknown token changes nothing. *)
unsubscribe_listener(l, raw) ==
  LET found == \E i \in DOMAIN subs[l] : subs[l][i].token = raw IN
  /\ subs' = [subs EXCEPT ![l] = RemoveFirstMatch(@, LAMBDA s : s.token = raw)]
  /\ hooked' = [hooked EXCEPT ![l] = IF found THEN subs'[l] # << >> ELSE @]
  /\ UNCHANGED next_token

Public_NoOffset(l, raw) == raw
(* The offset the view subscriptions add to their tokens. *)
Public(l, raw) == IF l = "view" THEN VIEW_TOKEN_BASE + raw ELSE raw

IsView(token) == token >= VIEW_TOKEN_BASE /\ token < GENERIC_TOKEN_BASE

unsubscribe_single(token) ==
  IF IsView(token)
  THEN unsubscribe_listener("view", token - VIEW_TOKEN_BASE)
  ELSE unsubscribe_listener("ui", token)

-----------------------------------------------------------------------------
(* Subscribing. *)

Give(token, cb) ==
  /\ given' = given \cup {[token |-> token, cb |-> cb]}
  /\ held' = held \cup {[token |-> token, cb |-> cb]}

NewCallback == callbacks < MaxCallbacks /\ callbacks' = callbacks + 1

(* on_database_closed .. on_view_closed: one inner subscription. *)
Subscribe(th, event) ==
  LET l == event[1] IN
  /\ RunsClientCode(th)
  /\ NewCallback
  /\ subscribe(l, event, callbacks')
  /\ Give(Public(l, next_token[l] + 1), callbacks')
  /\ UNCHANGED <<generic, stack>>

(* on_event and on_event_filtered.  An empty callback is an error. *)
CallOnEvent(th) ==
  /\ RunsClientCode(th)
  /\ Depth(th) < MaxDepth
  /\ NewCallback
  /\ Push(th, [NewCall("on_event") EXCEPT !.cb = callbacks'])
  /\ UNCHANGED <<listeners, generic, given, held>>

(* The next of its inner subscriptions. *)
SubscribeInner(th) ==
  LET event == Inner[Len(Top(th).tokens) + 1] IN
  /\ In(th, "on_event")
  /\ Len(Top(th).tokens) < Len(Inner)
  /\ subscribe(event[1], event, Top(th).cb)
  /\ SetTop(th, [Top(th) EXCEPT !.tokens =
                   Append(@, Public(event[1], next_token[event[1]] + 1))])
  /\ UNCHANGED <<generic, clients>>

(* make_generic_token increments the counter without a lock.  Its load and *)
(* its store are two steps: another thread may come in between.            *)
LoadGeneric(th) ==
  /\ In(th, "on_event")
  /\ Len(Top(th).tokens) = Len(Inner)
  /\ SetTop(th, [Top(th) EXCEPT !.op = "make_token", !.read = next_generic])
  /\ UNCHANGED <<listeners, generic, clients>>

StoreGeneric(th) ==
  /\ In(th, "make_token")
  /\ next_generic' = Top(th).read + 1
  /\ SetTop(th, [Top(th) EXCEPT !.op = "add_route", !.read = @ + 1])
  /\ UNCHANGED <<listeners, routes, clients>>

(* The value returned is the sum just stored or, if the build loads the    *)
(* counter again, what is there by then.  emplace does not replace a route *)
(* that is already there.                                                  *)
AddRoute(th, count) ==
  LET token == GENERIC_TOKEN_BASE + count IN
  /\ In(th, "add_route")
  /\ count \in {Top(th).read, next_generic}
  /\ routes' = [t \in DOMAIN routes \cup {token} |->
                  IF t \in DOMAIN routes THEN routes[t] ELSE Top(th).tokens]
  /\ Give(token, Top(th).cb)
  /\ Pop(th)
  /\ UNCHANGED <<listeners, next_generic, callbacks>>

-----------------------------------------------------------------------------
(* Unsubscribing, also by ScopedSubscription.  A token that was given back *)
(* before is not found.                                                    *)

UnsubscribeSingle(th, h) ==
  /\ RunsClientCode(th)
  /\ h.token < GENERIC_TOKEN_BASE
  /\ unsubscribe_single(h.token)
  /\ held' = held \ {h}
  /\ UNCHANGED <<generic, stack, callbacks, given>>

UnsubscribeGeneric_DropsRoute(th, h) ==
  /\ RunsClientCode(th)
  /\ Depth(th) < MaxDepth
  /\ h.token >= GENERIC_TOKEN_BASE
  /\ routes' = [t \in DOMAIN routes \ {h.token} |-> routes[t]]
  /\ held' = held \ {h}
  /\ UNCHANGED <<listeners, next_generic, stack, callbacks, given>>

(* A generic token: its route is taken out first. *)
UnsubscribeGeneric(th, h) ==
  /\ RunsClientCode(th)
  /\ Depth(th) < MaxDepth
  /\ h.token >= GENERIC_TOKEN_BASE
  /\ held' = held \ {h}
  /\ IF h.token \in DOMAIN routes
     THEN /\ routes' = [t \in DOMAIN routes \ {h.token} |-> routes[t]]
          /\ Push(th, [NewCall("unsubscribe") EXCEPT !.cb = h.cb,
                                                     !.tokens = routes[h.token]])
     ELSE UNCHANGED <<routes, stack>>
  /\ UNCHANGED <<listeners, next_generic, callbacks, given>>

(* Then its inner tokens one by one. *)
UnsubscribeInner(th) ==
  /\ In(th, "unsubscribe")
  /\ Top(th).tokens # << >>
  /\ unsubscribe_single(Head(Top(th).tokens))
  /\ IF Len(Top(th).tokens) = 1
     THEN Pop(th)
     ELSE SetTop(th, [Top(th) EXCEPT !.tokens = Tail(@)])
  /\ UNCHANGED <<generic, clients>>

-----------------------------------------------------------------------------
(* EventListener::on_event. *)

Matched(event) ==
  LET entries == subs[event[1]]
      matching == Picked(entries, {i \in DOMAIN entries : entries[i].event = event})
  IN  [i \in DOMAIN matching |-> matching[i].cb]

Notify(th, event) ==
  /\ hooked[event[1]]
  /\ RunsClientCode(th)
  /\ Depth(th) < MaxDepth
  /\ Matched(event) # << >>
  /\ Push(th, [NewCall("dispatch") EXCEPT !.todo = Matched(event)])
  /\ UNCHANGED <<listeners, generic, clients>>

(* The handler calls the client, or not: a widget handler ignores the      *)
(* widgets it is not for, and a filter rejects the event.                  *)
CallHandler(th, calls) ==
  /\ In(th, "dispatch")
  /\ ~Top(th).running
  /\ Top(th).todo # << >>
  /\ SetTop(th, [Top(th) EXCEPT !.todo = Tail(@), !.running = calls])
  /\ UNCHANGED <<listeners, generic, clients>>

HandlerReturns(th) ==
  /\ In(th, "dispatch")
  /\ Top(th).running
  /\ SetTop(th, [Top(th) EXCEPT !.running = FALSE])
  /\ UNCHANGED <<listeners, generic, clients>>

DispatchReturns(th) ==
  /\ In(th, "dispatch")
  /\ ~Top(th).running
  /\ Top(th).todo = << >>
  /\ Pop(th)
  /\ UNCHANGED <<listeners, generic, clients>>

-----------------------------------------------------------------------------
Next ==
  \/ \E th \in Threads :
       \/ \E event \in Events : Subscribe(th, event) \/ Notify(th, event)
       \/ SubscribeInner(th)
       \/ LoadGeneric(th)
       \/ StoreGeneric(th)
       \/ \E count \in Callback : AddRoute(th, count)
       \/ \E h \in given : UnsubscribeSingle(th, h) \/ UnsubscribeGeneric(th, h)
       \/ UnsubscribeInner(th)
       \/ \E calls \in BOOLEAN : CallHandler(th, calls)
       \/ HandlerReturns(th)
       \/ DispatchReturns(th)
  \/ \E th \in GenericThreads : CallOnEvent(th)

(* A thread inside the library goes on to its next critical section. *)
Fairness ==
  \A th \in Threads :
    WF_vars(\/ SubscribeInner(th) \/ LoadGeneric(th) \/ StoreGeneric(th)
            \/ UnsubscribeInner(th) \/ \E count \in Callback : AddRoute(th, count))

Spec == Init /\ [][Next]_vars /\ Fairness

-----------------------------------------------------------------------------
(* Properties. *)

(* The listener entries that the inner tokens in `tokens` stand for. *)
Resolve(tokens, cb) ==
  {e \in Listeners \X Subscription :
     /\ e[2].cb = cb
     /\ Public(e[1], e[2].token) \in Range(tokens)
     /\ \E i \in DOMAIN subs[e[1]] : subs[e[1]][i] = e[2]}

(* "Token-family partitioning [...] for safe unsubscribe of composite      *)
(* subscriptions": as long as a client holds a token, nobody else's        *)
(* unsubscribe has touched the subscription behind it.  A single one is in *)
(* the listener its token leads to; a generic one has a route to exactly   *)
(* one live inner subscription for every event.                            *)
HeldTokensWork ==
  \A h \in held :
    IF h.token < GENERIC_TOKEN_BASE
    THEN \E l \in Listeners : \E i \in DOMAIN subs[l] :
           subs[l][i].cb = h.cb /\ h.token = Public(l, subs[l][i].token)
    ELSE /\ h.token \in DOMAIN routes
         /\ \A event \in Events :
              Cardinality({e \in Resolve(routes[h.token], h.cb) :
                             e[2].event = event}) = 1

(* Nothing stays subscribed behind the client's back: every entry of a     *)
(* listener belongs to a token some client holds, or to a generic          *)
(* subscription being made or removed.  (It includes that the variables    *)
(* have their types.)                                                      *)
NothingOrphaned ==
  /\ TypeOK
  /\ \A l \in Listeners : \A i \in DOMAIN subs[l] :
       \/ \E h \in held : h.cb = subs[l][i].cb
       \/ \E th \in Threads : \E k \in DOMAIN stack[th] :
            stack[th][k].cb = subs[l][i].cb

(* Once the client gave the last token back, both listeners let go of      *)
(* their hooks, whatever is interleaved with the removal of a generic      *)
(* subscription, unless a new subscription comes.                          *)
HooksReleased ==
  (held = {} /\ callbacks = MaxCallbacks)
    ~> (\A l \in Listeners : ~hooked[l]) \/ held # {}

(* Each of the two listeners keeps the promises every event domain makes   *)
(* about tokens and about its hook.                                        *)
LiveRaw(l) == {subs[l][i].token : i \in DOMAIN subs[l]}

UiRegistry == INSTANCE SubscriptionRegistry WITH
  Tokens <- Raw,
  live <- LiveRaw("ui"),
  issued <- 1 .. next_token["ui"],
  hooked <- hooked["ui"]

ViewRegistry == INSTANCE SubscriptionRegistry WITH
  Tokens <- Raw,
  live <- LiveRaw("view"),
  issued <- 1 .. next_token["view"],
  hooked <- hooked["view"]

ImplementRegistries == UiRegistry!Spec /\ ViewRegistry!Spec
=============================================================================
