-------------------------------- MODULE MCUi --------------------------------
(* The events of the user interface and those of the debugger, which       *)
(* arrive in any thread, the widgets of a client, and the backends and     *)
(* calls of the debugger: parts that share no state.  A behaviour          *)
(* exercises one of them.                                                  *)
EXTENDS UiEvents, DbgEvents, Widgets, DebuggerControl

VARIABLE part

(* Floats that both sides have (0), that IDC has not (2), that lose digits *)
(* on their way back (11 to 1), and that no double can say (12).           *)
SomeReals == {0, 1, 11, 12}
SomeRounding == [real \in SomeReals |-> CASE real = 11 -> 1 [] real = 12 -> 9 [] OTHER -> real]
SomeTexts == {<<5>>, <<5, 0, 5>>}

OneEach == {<<"ui", "widget_visible">>, <<"view", "curpos">>}

UiInit ==
  /\ part \in {"events", "debugger", "widgets", "backends", "appcalls"}
  /\ Init /\ DbgInit /\ WidgetsInit
  /\ DebuggerInit /\ (part # "backends" => infos = << >>)

(* The callbacks of the bound are given, nothing is subscribed or running. *)
ClientsStop ==
  /\ part = "events" /\ callbacks = MaxCallbacks /\ \A th \in Threads : Idle(th)
  /\ UNCHANGED <<vars, dbgvars, widgetvars, debuggervars>>

UiNext ==
  /\ \/ part = "events" /\ Next /\ UNCHANGED <<dbgvars, widgetvars, debuggervars>>
     \/ part = "debugger" /\ DbgNext /\ UNCHANGED <<vars, widgetvars, debuggervars>>
     \/ part = "widgets" /\ WidgetsNext /\ UNCHANGED <<vars, dbgvars, debuggervars>>
     \/ /\ \/ part = "backends" /\ BackendsNext
           \/ part = "appcalls" /\ AppcallsNext
        /\ UNCHANGED <<vars, dbgvars, widgetvars>>
     \/ ClientsStop
  /\ UNCHANGED part

UiSpec ==
  UiInit /\ [][UiNext]_<<part, vars, dbgvars, widgetvars, debuggervars>> /\ Fairness /\ DbgFairness

(* The three listeners, of the debugger, of the user interface and of the  *)
(* views, each implement the abstract registry of subscriptions.           *)
ListenersImplementRegistry == DbgImplementsRegistry /\ ImplementRegistries
=============================================================================
