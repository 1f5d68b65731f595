----------------------------- MODULE MCUiEvents -----------------------------
(* The instances of UiEvents that TLC checks. *)
EXTENDS UiEvents

OneEach == {<<"ui", "widget_visible">>, <<"view", "curpos">>}
=============================================================================
