------------------------- MODULE RustSubscriptions -------------------------
(***************************************************************************)
(* The event subscriptions of the Rust binding: event.rs over event.cpp,   *)
(* debugger.rs over the debugger listener and ui.rs over the UI and view   *)
(* listeners.  Every on_* boxes a context with the client's closures; the  *)
(* C++ subscription calls it through the raw pointer, and the table        *)
(* SUB_CONTEXTS of the Rust module, under the token that the library gave, *)
(* remembers to drop it.  The three families share nothing: a behaviour is *)
(* about one of them and about one kind of typed subscription, beside the  *)
(* generic ones.                                                           *)
(*                                                                         *)
(* The library calls, the table update behind each and the dispatches run  *)
(* on one thread, where client code runs inside callbacks; that other      *)
(* threads come between a call and the table is in RustDecompilerEvents.   *)
(***************************************************************************)
EXTENDS RustClosures

CONSTANTS
  UiCodes, ViewCodes,   \* the codes that a generic UI subscription covers
  MaxSubscriptions      \* bound: subscriptions that clients ask for

ASSUME SubscriptionsAssumption ==
  IsFiniteSet(UiCodes) /\ IsFiniteSet(ViewCodes) /\ MaxSubscriptions \in Nat

VARIABLES
  wrapper,        \* the on_* function of typed subscriptions
  asked,          \* how many subscriptions were asked for
  contexts_boxed, \* the contexts allocated and not dropped yet
  subs,           \* C++: the entries of the listeners, by token
  routes,         \* C++: g_generic_routes, generic token -> inner tokens
  last_token,     \* C++: the token counters
  returned,       \* the tokens that clients were given
  SUB_CONTEXTS,   \* Rust: token -> context
  dispatching     \* the calls of the dispatches under way, the innermost last

subscribed == <<subs, routes, last_token, returned>>
subvars == <<wrapper, asked, contexts_boxed, subscribed, SUB_CONTEXTS, dispatching>>

Hooks == {"idb", "dbg", "ui", "view", "generic"}
SubToken == Hooks \X Nat
Context == 1 .. MaxSubscriptions

-----------------------------------------------------------------------------
(* The functions of the shim and the kernel code each subscribes to.  They *)
(* refuse null arguments, which the binding never passes, and, those about *)
(* one widget, a widget that is not valid.                                 *)

On(hook, code, widget) == [hook |-> hook, code |-> code, for_widget |-> widget]

idax_event_on(code) == On("idb", code, FALSE)
idax_debugger_on(code) == On("dbg", code, FALSE)
idax_ui_on(code) == On("ui", code, FALSE)
idax_ui_on_for_widget(code) == On("ui", code, TRUE)
idax_ui_on_view(code) == On("view", code, FALSE)
idax_ui_on_popup_ready == On("ui", "ui_finish_populating_widget_popup", FALSE)
idax_ui_on_rendering_info == On("ui", "ui_get_lines_rendering_info", FALSE)

(* event.rs *)
on_segment_added == idax_event_on("segm_added")
on_segment_deleted == idax_event_on("segm_deleted")
on_function_added == idax_event_on("func_added")
on_function_deleted == idax_event_on("func_deleted")
on_renamed == idax_event_on("renamed")
on_byte_patched == idax_event_on("byte_patched")
on_comment_changed == idax_event_on("cmt_changed")

(* debugger.rs *)
on_process_started == idax_debugger_on("dbg_process_start")
on_process_exited == idax_debugger_on("dbg_process_exit")
on_process_suspended == idax_debugger_on("dbg_suspend_process")
on_breakpoint_hit == idax_debugger_on("dbg_bpt")
on_trace == idax_debugger_on("dbg_trace")
on_exception == idax_debugger_on("dbg_exception")
on_thread_started == idax_debugger_on("dbg_thread_start")
on_thread_exited == idax_debugger_on("dbg_thread_exit")
on_library_loaded == idax_debugger_on("dbg_library_load")
on_library_unloaded == idax_debugger_on("dbg_library_unload")
on_breakpoint_changed == idax_debugger_on("dbg_bpt_changed")

(* ui.rs *)
on_database_closed == idax_ui_on("ui_database_closed")
on_database_inited == idax_ui_on("ui_database_inited")
on_ready_to_run == idax_ui_on("ui_ready_to_run")
on_screen_ea_changed == idax_ui_on("ui_screen_ea_changed")
on_current_widget_changed == idax_ui_on("ui_current_widget_changed")
on_widget_visible == idax_ui_on("ui_widget_visible")
on_widget_invisible == idax_ui_on("ui_widget_invisible")
on_widget_closing == idax_ui_on("ui_widget_closing")
on_widget_visible_for_widget == idax_ui_on_for_widget("ui_widget_visible")
on_widget_invisible_for_widget == idax_ui_on_for_widget("ui_widget_invisible")
on_widget_closing_for_widget == idax_ui_on_for_widget("ui_widget_closing")
on_cursor_changed == idax_ui_on_view("view_curpos")
on_view_activated == idax_ui_on_view("view_activated")
on_view_deactivated == idax_ui_on_view("view_deactivated")
on_view_created == idax_ui_on_view("view_created")
on_view_closed == idax_ui_on_view("view_close")
on_popup_ready == idax_ui_on_popup_ready
on_rendering_info == idax_ui_on_rendering_info

Wrappers ==
  {on_segment_added, on_segment_deleted, on_function_added, on_function_deleted,
   on_renamed, on_byte_patched, on_comment_changed,
   on_process_started, on_process_exited, on_process_suspended, on_breakpoint_hit,
   on_trace, on_exception, on_thread_started, on_thread_exited, on_library_loaded,
   on_library_unloaded, on_breakpoint_changed,
   on_database_closed, on_database_inited, on_ready_to_run, on_screen_ea_changed,
   on_current_widget_changed, on_widget_visible, on_widget_invisible,
   on_widget_closing, on_widget_visible_for_widget, on_widget_invisible_for_widget,
   on_widget_closing_for_widget, on_cursor_changed, on_view_activated,
   on_view_deactivated, on_view_created, on_view_closed, on_popup_ready,
   on_rendering_info}

-----------------------------------------------------------------------------
Codes == UiCodes \cup ViewCodes \cup {w.code : w \in Wrappers} \cup {"generic"}

(* What a listener keeps of a subscription; a filtered one has a filter in *)
(* its context too, which is called before the callback.                   *)
ListenerEntry == [code : Codes, filtered : BOOLEAN, context : Context \cup {None}]
(* A call that a dispatch makes, the first, or still has to make.          *)
DueCall == [token : SubToken, context : Context \cup {None}, in_filter : BOOLEAN]

SubscriptionsTypeOK ==
  /\ wrapper \in Wrappers
  /\ asked \in 0 .. MaxSubscriptions /\ contexts_boxed \subseteq 1 .. asked
  /\ DOMAIN subs \subseteq SubToken /\ DOMAIN routes \subseteq SubToken
  /\ \A t \in DOMAIN subs : subs[t] \in ListenerEntry
  /\ \A t \in DOMAIN routes : routes[t] \subseteq SubToken
  /\ last_token \in [Hooks -> Nat]
  /\ returned \subseteq SubToken
  /\ DOMAIN SUB_CONTEXTS \subseteq SubToken /\ Range(SUB_CONTEXTS) \subseteq Context
  /\ dispatching \in Seq(SUBSET DueCall)

SubscriptionsInit ==
  /\ wrapper \in Wrappers
  /\ asked = 0 /\ contexts_boxed = {}
  /\ subs = << >> /\ routes = << >>
  /\ last_token = [h \in Hooks |-> 0]
  /\ returned = {}
  /\ SUB_CONTEXTS = << >>
  /\ dispatching = << >>

-----------------------------------------------------------------------------
(* Subscribing. *)

(* The C++ side puts the entry under the next token of its listener. *)
Hooked(hook, entry) ==
  LET token == <<hook, last_token[hook] + 1>> IN
  /\ asked < MaxSubscriptions
  /\ asked' = asked + 1
  /\ last_token' = [last_token EXCEPT ![hook] = @ + 1]
  /\ subs' = Set(subs, token, entry)
  /\ returned' = returned \cup {token}
  /\ UNCHANGED <<wrapper, routes, dispatching>>

SaveContext_BeforeCall(token, context) ==
  /\ contexts_boxed' = contexts_boxed \cup {context}
  /\ SUB_CONTEXTS' = Set(SUB_CONTEXTS, <<token[1], last_token[token[1]]>>, context)

(* save_context, after the call: the table owns the boxed context. *)
SaveContext(token, context) ==
  /\ contexts_boxed' = contexts_boxed \cup {context}
  /\ SUB_CONTEXTS' = Set(SUB_CONTEXTS, token, context)

SubscribeTyped ==
  LET hook == wrapper.hook IN
  /\ Hooked(hook, [code |-> wrapper.code, filtered |-> FALSE, context |-> asked + 1])
  /\ SaveContext(<<hook, last_token[hook] + 1>>, asked + 1)

(* The widget is not valid: the context is dropped before the error is     *)
(* read, and nothing stays behind.                                         *)
SubscribeRefused ==
  /\ wrapper.for_widget
  /\ asked < MaxSubscriptions
  /\ asked' = asked + 1
  /\ UNCHANGED <<wrapper, contexts_boxed, subscribed, SUB_CONTEXTS, dispatching>>

idax_event_on_event(context, filtered) ==
  /\ wrapper.hook = "idb"
  /\ Hooked("idb", [code |-> "generic", filtered |-> filtered, context |-> context])

(* event::on_event and on_event_filtered. *)
SubscribeGenericEvent(filtered) ==
  /\ idax_event_on_event(asked + 1, filtered)
  /\ SaveContext(<<"idb", last_token["idb"] + 1>>, asked + 1)

(* event::subscribe: the context is the caller's own, the table unaware.   *)
SubscribeRawEvent ==
  /\ idax_event_on_event(None, FALSE)
  /\ UNCHANGED <<contexts_boxed, SUB_CONTEXTS>>

(* ui::on_event of the library: an entry per code in the two listeners,    *)
(* which all call the one context, and a generic token that stands for     *)
(* their tokens.                                                           *)
Routed(context, filtered) ==
  LET ui == SetToSeq(UiCodes)
      view == SetToSeq(ViewCodes)
      outer == <<"generic", last_token["generic"] + 1>>
      tokens(hook, codes) == {<<hook, last_token[hook] + i>> : i \in DOMAIN codes}
      inner == tokens("ui", ui) \cup tokens("view", view)
      code(t) == LET i == t[2] - last_token[t[1]]
                 IN  IF t[1] = "ui" THEN ui[i] ELSE view[i]
  IN  /\ wrapper.hook \in {"ui", "view"}
      /\ asked < MaxSubscriptions
      /\ asked' = asked + 1
      /\ subs' = [t \in DOMAIN subs \cup inner |->
                    IF t \in inner
                    THEN [code |-> code(t), filtered |-> filtered, context |-> context]
                    ELSE subs[t]]
      /\ routes' = Set(routes, outer, inner)
      /\ last_token' = [last_token EXCEPT !["ui"] = @ + Len(ui), !["view"] = @ + Len(view),
                                          !["generic"] = @ + 1]
      /\ returned' = returned \cup {outer}
      /\ UNCHANGED <<wrapper, dispatching>>

idax_ui_on_event(context, filtered) == Routed(context, filtered)

(* ui::on_event and on_event_filtered. *)
SubscribeGenericUi(filtered) ==
  /\ idax_ui_on_event(asked + 1, filtered)
  /\ SaveContext(<<"generic", last_token["generic"] + 1>>, asked + 1)

(* ui::subscribe: filtered by its kind in the shim, the context is the     *)
(* caller's own.                                                           *)
SubscribeRawUi ==
  /\ Routed(None, FALSE)
  /\ UNCHANGED <<contexts_boxed, SUB_CONTEXTS>>

-----------------------------------------------------------------------------
(* Unsubscribing.  Clients pass tokens that they were given, also old ones.*)

Stand(tokens) == subs' = Restrict(subs, tokens)

unsubscribe_route_ViewStays(token) ==
  /\ routes' = Without(routes, token)
  /\ Stand(DOMAIN subs \ {t \in routes[token] : t[1] = "ui"})

(* The route is taken out first, then each inner subscription. *)
unsubscribe_route(token) ==
  /\ routes' = Without(routes, token)
  /\ Stand(DOMAIN subs \ routes[token])

(* What the library does with a token that it knows. *)
Unhooked(token) ==
  IF token[1] = "generic"
  THEN unsubscribe_route(token)
  ELSE Stand(DOMAIN subs \ {token}) /\ UNCHANGED routes

DropSubscription(token) ==
  /\ SUB_CONTEXTS' = Without(SUB_CONTEXTS, token)
  /\ contexts_boxed' = contexts_boxed \ Kept(SUB_CONTEXTS, token)

(* On success, and only then, the context is removed and dropped.  The     *)
(* guard of a ScopedSubscription does the same and ignores the result.     *)
unsubscribe(token) ==
  /\ token \in returned
  /\ IF token \in DOMAIN subs \cup DOMAIN routes
     THEN Unhooked(token) /\ DropSubscription(token)
     ELSE UNCHANGED <<subs, routes, SUB_CONTEXTS, contexts_boxed>>
  /\ UNCHANGED <<wrapper, asked, last_token, returned, dispatching>>

-----------------------------------------------------------------------------
(* Dispatching.  The debugger, UI and view listeners copy the functions    *)
(* that match and call the copies, in the order of their tokens; the IDB   *)
(* listener walks its map, typed subscriptions before generic ones.        *)

Start(token) ==
  [token |-> token, context |-> subs[token].context, in_filter |-> subs[token].filtered]

Walked(code, after) ==
  LET generic(t) == subs[t].code = "generic"
      later(t, u) == \/ generic(u) /\ ~generic(t)
                     \/ (generic(u) <=> generic(t)) /\ u[2] > t[2]
      left == {t \in DOMAIN subs : /\ subs[t].code \in {code, "generic"}
                                   /\ \A u \in after : later(u, t)}
      first == {t \in left : \A u \in left \ {t} : later(t, u)}
  IN  {Start(t) : t \in first}

Matched(code) ==
  IF wrapper.hook = "idb"
  THEN Walked(code, {})
  ELSE {Start(t) : t \in {u \in DOMAIN subs : subs[u].code = code}}

FireEvent(code) ==
  /\ Len(dispatching) < MaxRunning
  /\ Matched(code) # {}
  /\ dispatching' = Append(dispatching, Matched(code))
  /\ UNCHANGED <<wrapper, asked, contexts_boxed, subscribed, SUB_CONTEXTS>>

(* The call under way. *)
Called(call) ==
  /\ dispatching # << >>
  /\ call \in Last(dispatching)
  /\ \A other \in Last(dispatching) : call.token[2] <= other.token[2]

(* The filter of the context accepts, and its callback is next. *)
EventAccepted(call) ==
  /\ Called(call)
  /\ call.in_filter
  /\ dispatching' =
       Append(Front(dispatching),
              (Last(dispatching) \ {call}) \cup {[call EXCEPT !.in_filter = FALSE]})
  /\ UNCHANGED <<wrapper, asked, contexts_boxed, subscribed, SUB_CONTEXTS>>

(* A callback returns, or a filter rejects.  What the IDB listener does    *)
(* when the entry under its iterator was erased is undefined (IdbEvents).  *)
TrampolineReturns(call) ==
  LET rest == IF wrapper.hook = "idb"
              THEN Walked(wrapper.code, {call.token})
              ELSE Last(dispatching) \ {call}
  IN  /\ Called(call)
      /\ wrapper.hook = "idb" => call.token \in DOMAIN subs
      /\ dispatching' = IF rest = {} THEN Front(dispatching)
                        ELSE Append(Front(dispatching), rest)
      /\ UNCHANGED <<wrapper, asked, contexts_boxed, subscribed, SUB_CONTEXTS>>

-----------------------------------------------------------------------------
SubscriptionsNext ==
  \/ SubscribeTyped
  \/ SubscribeRefused
  \/ \E filtered \in BOOLEAN : SubscribeGenericEvent(filtered) \/ SubscribeGenericUi(filtered)
  \/ SubscribeRawEvent
  \/ SubscribeRawUi
  \/ \E token \in returned : unsubscribe(token)
  \/ \E code \in {wrapper.code} \cup UiCodes \cup ViewCodes : FireEvent(code)
  \/ \E call \in UNION Range(dispatching) : EventAccepted(call) \/ TrampolineReturns(call)

SubscriptionsSpec == SubscriptionsInit /\ [][SubscriptionsNext]_subvars

-----------------------------------------------------------------------------
(* Properties. *)

(* Every context has one owner, the table entry under the token that its   *)
(* client holds, from the end of on_* until an unsubscribe succeeds; and   *)
(* as long as any entry of a listener can call the context, also one of    *)
(* the many behind a generic token, it is there.  A context is never kept  *)
(* for a token that the library no longer knows, so that the client could  *)
(* not have it dropped.  Only the copies of a dispatch under way still     *)
(* point at a context that a callback before them had dropped.             *)
SubscriptionsSound ==
  /\ SubscriptionsTypeOK
  /\ \A c \in contexts_boxed :
       Cardinality({t \in DOMAIN SUB_CONTEXTS : SUB_CONTEXTS[t] = c}) = 1
  /\ Range(SUB_CONTEXTS) \subseteq contexts_boxed
  /\ \A t \in DOMAIN subs : subs[t].context \in contexts_boxed \cup {None}
  /\ DOMAIN SUB_CONTEXTS \subseteq returned \cap (DOMAIN subs \cup DOMAIN routes)
  /\ \A t \in DOMAIN routes : routes[t] \subseteq DOMAIN subs
  /\ \A i \in DOMAIN dispatching : \A call \in dispatching[i] :
       call.context \notin contexts_boxed \cup {None} => call.token \notin DOMAIN subs

(* No closure that Rust left with the library is lost: those of timers,    *)
(* actions, popups and viewers, and the contexts of subscriptions.         *)
NoClosureLost == ClosuresSound /\ SubscriptionsSound
=============================================================================
