------------------------------- MODULE MCRust -------------------------------
(* The Rust binding: five parts that share no state.  A behaviour          *)
(* exercises one of them; the others stay where they start.                *)
EXTENDS RustDecompilerEvents, FfiMarshal, ShimErrors, RustSubscriptions

VARIABLE part

(* The threads, and the sessions of the decompiler, are interchangeable.   *)
Symmetric == Permutations(Threads \cup RustThreads) \cup Permutations(Handles)

(* Of the functions that subscribe, one for each way that the library      *)
(* keeps and calls a subscription; the others differ in the event only.    *)
SomeWrappers ==
  {on_renamed, on_trace, on_screen_ea_changed, on_widget_visible,
   on_widget_closing_for_widget, on_cursor_changed, on_popup_ready}

BindingInit ==
  /\ part \in {"events", "results", "errors", "closures", "subscriptions"}
  /\ RustInit /\ (part # "events" => loadable)
  /\ MarshalInit
  /\ ErrorsInit
  /\ ClosuresInit
  /\ SubscriptionsInit /\ wrapper \in IF part = "subscriptions" THEN SomeWrappers ELSE {on_trace}

(* The calls, or closures, of the bound are made and all have returned. *)
CallsOver ==
  /\ \/ part = "errors" /\ calls_made = MaxCalls /\ \A th \in RustThreads : exported[th] = << >>
     \/ part = "closures" /\ made = MaxClosures
     \/ part = "subscriptions" /\ asked = MaxSubscriptions
  /\ UNCHANGED <<rvars, mvars, errvars, closurevars, subvars>>

BindingNext ==
  /\ \/ part = "events" /\ RustNext /\ UNCHANGED <<mvars, errvars, closurevars, subvars>>
     \/ part = "results" /\ MarshalNext /\ UNCHANGED <<rvars, errvars, closurevars, subvars>>
     \/ part = "errors" /\ ErrorsNext /\ UNCHANGED <<rvars, mvars, closurevars, subvars>>
     \/ part = "closures" /\ ClosuresNext /\ UNCHANGED <<rvars, mvars, errvars, subvars>>
     \/ part = "subscriptions" /\ SubscriptionsNext /\ UNCHANGED <<rvars, mvars, errvars, closurevars>>
     \/ CallsOver
  /\ UNCHANGED part

BindingSpec ==
  BindingInit /\ [][BindingNext]_<<part, rvars, mvars, errvars, closurevars, subvars>>
=============================================================================
