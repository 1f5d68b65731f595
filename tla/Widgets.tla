------------------------------- MODULE Widgets -------------------------------
(***************************************************************************)
(* Docked widgets and custom text viewers (src/ui.cpp).  A Widget handle   *)
(* of a client holds the address of an SDK window and an id.  A custom     *)
(* viewer shows lines the library keeps for it, in a table under the       *)
(* address of the window.  The SDK may give the address of a closed window *)
(* to a new one, and the user may close a window without the library.      *)
(*                                                                         *)
(* What the SDK does with the address of a closed window is undefined:     *)
(* calls on handles whose window is gone are left out.                     *)
(***************************************************************************)
EXTENDS Naturals, FiniteSets

CONSTANTS
  WidgetHandles,   \* the Widget objects clients have
  Panels,          \* the addresses SDK windows may have
  NoPanel,         \* the null pointer
  MaxLines,        \* bound: lines given to a viewer
  MaxWidgetId      \* bound: ids given to handles

ASSUME WidgetAssumption == MaxLines \in Nat /\ MaxWidgetId \in Nat /\ NoPanel \notin Panels

VARIABLES
  windows,            \* external: the open windows by address
  g_custom_viewers,   \* the lines of custom viewers by address
  widgets,            \* the handles
  g_next_widget_id

widgetvars == <<windows, g_custom_viewers, widgets, g_next_widget_id>>

-----------------------------------------------------------------------------
(* external: a window of the SDK.  A viewer reads the lines object it was  *)
(* created with, and stands on one of the lines up to the end of its range.*)
Plain == [viewer |-> FALSE, reads |-> 0, end |-> 0, line |-> 0]
Showing(object, end, line) == [viewer |-> TRUE, reads |-> object, end |-> end, line |-> line]

IsOpen(panel) == panel \in DOMAIN windows
Put(f, x, v) == [y \in DOMAIN f \cup {x} |-> IF y = x THEN v ELSE f[y]]
Without(f, x) == [y \in DOMAIN f \ {x} |-> f[y]]

Handle(panel, id) == [impl |-> panel, id |-> id]
NullHandle == Handle(NoPanel, 0)

(* A text without lines is one empty line; the last line ends the range.   *)
make_custom_viewer_state(object, count) ==
  LET size == IF count = 0 THEN 1 ELSE count IN
  [object |-> object, size |-> size, end |-> size - 1, cur |-> 0]

(* WidgetAccess::make: every handle made has an id of its own. *)
MakeHandle(h, panel) ==
  /\ g_next_widget_id <= MaxWidgetId
  /\ widgets' = [widgets EXCEPT ![h] = Handle(panel, g_next_widget_id)]
  /\ g_next_widget_id' = g_next_widget_id + 1

-----------------------------------------------------------------------------
WidgetsInit ==
  /\ windows = << >>
  /\ g_custom_viewers = << >>
  /\ widgets = [h \in WidgetHandles |-> NullHandle]
  /\ g_next_widget_id = 1

create_widget(h, panel) ==
  /\ ~IsOpen(panel)
  /\ windows' = Put(windows, panel, Plain)
  /\ MakeHandle(h, panel)
  /\ UNCHANGED g_custom_viewers

(* An entry that a closed window left under the address is replaced.  The  *)
(* object the lines are in is named by the handle made with it.            *)
create_custom_viewer_KeepsEntry(h, panel, count) ==
  LET state == make_custom_viewer_state(g_next_widget_id, count) IN
  /\ ~IsOpen(panel)
  /\ windows' = Put(windows, panel, Showing(state.object, state.end, state.cur))
  /\ g_custom_viewers' = Put(g_custom_viewers, panel,
                            IF panel \in DOMAIN g_custom_viewers
                            THEN g_custom_viewers[panel] ELSE state)
  /\ MakeHandle(h, panel)

create_custom_viewer(h, panel, count) ==
  LET state == make_custom_viewer_state(g_next_widget_id, count) IN
  /\ ~IsOpen(panel)
  /\ windows' = Put(windows, panel, Showing(state.object, state.end, state.cur))
  /\ g_custom_viewers' = Put(g_custom_viewers, panel, state)
  /\ MakeHandle(h, panel)

(* The lines are replaced inside the object the SDK reads, which goes to   *)
(* the line that cur, clamped, names.                                      *)
set_custom_viewer_lines(h, count) ==
  LET panel == widgets[h].impl
      state == g_custom_viewers[panel]
      next == make_custom_viewer_state(state.object, count)
      clamped == IF state.cur > next.end THEN next.end ELSE state.cur
  IN
  /\ IsOpen(panel) /\ panel \in DOMAIN g_custom_viewers
  /\ g_custom_viewers' = [g_custom_viewers EXCEPT ![panel] = [next EXCEPT !.cur = clamped]]
  /\ windows' = [windows EXCEPT ![panel] =
                   IF @.viewer THEN Showing(@.reads, next.end, clamped) ELSE @]
  /\ UNCHANGED <<widgets, g_next_widget_id>>

(* The library does not remember where it sent the viewer. *)
custom_viewer_jump_to_line(h, index) ==
  LET panel == widgets[h].impl IN
  /\ IsOpen(panel) /\ panel \in DOMAIN g_custom_viewers
  /\ index < g_custom_viewers[panel].size
  /\ windows' = [windows EXCEPT ![panel] = IF @.viewer THEN [@ EXCEPT !.line = index] ELSE @]
  /\ UNCHANGED <<g_custom_viewers, widgets, g_next_widget_id>>

(* Closing a window takes the entry under its address with it, whichever   *)
(* of the two functions does it; only this handle forgets the address.     *)
CloseBy(h) ==
  LET panel == widgets[h].impl IN
  /\ IsOpen(panel)
  /\ windows' = Without(windows, panel)
  /\ g_custom_viewers' = Without(g_custom_viewers, panel)
  /\ widgets' = [widgets EXCEPT ![h] = NullHandle]
  /\ UNCHANGED g_next_widget_id

close_custom_viewer(h) == widgets[h].impl \in DOMAIN g_custom_viewers /\ CloseBy(h)
close_widget(h) == widgets[h].impl # NoPanel /\ CloseBy(h)

(* find_widget, and the handles events bring, name a window once more. *)
find_widget(h, panel) ==
  /\ IsOpen(panel)
  /\ MakeHandle(h, panel)
  /\ UNCHANGED <<windows, g_custom_viewers>>

(* A handle is copied, or ends. *)
CopyHandle(h, from) ==
  /\ h # from
  /\ widgets' = [widgets EXCEPT ![h] = widgets[from]]
  /\ UNCHANGED <<windows, g_custom_viewers, g_next_widget_id>>

(* external: the user closes a window, or moves in a viewer. *)
UserCloses(panel) ==
  /\ IsOpen(panel)
  /\ windows' = Without(windows, panel)
  /\ UNCHANGED <<g_custom_viewers, widgets, g_next_widget_id>>

UserMoves(panel, line) ==
  /\ IsOpen(panel) /\ windows[panel].viewer /\ line <= windows[panel].end
  /\ windows' = [windows EXCEPT ![panel].line = line]
  /\ UNCHANGED <<g_custom_viewers, widgets, g_next_widget_id>>

WidgetsNext ==
  \/ \E h \in WidgetHandles :
       \/ \E panel \in Panels :
            \/ create_widget(h, panel)
            \/ \E count \in 0 .. MaxLines : create_custom_viewer(h, panel, count)
            \/ find_widget(h, panel)
       \/ \E count \in 0 .. MaxLines : set_custom_viewer_lines(h, count)
       \/ \E index \in 0 .. MaxLines - 1 : custom_viewer_jump_to_line(h, index)
       \/ close_custom_viewer(h)
       \/ close_widget(h)
       \/ \E from \in WidgetHandles : CopyHandle(h, from)
  \/ \E panel \in Panels :
       UserCloses(panel) \/ \E line \in 0 .. MaxLines - 1 : UserMoves(panel, line)

WidgetsSpec == WidgetsInit /\ [][WidgetsNext]_widgetvars

-----------------------------------------------------------------------------
(* Properties. *)

(* Every open viewer reads an object that is still in the table, under its *)
(* address, and its range and its line are those of the text in it: after  *)
(* any closing by client or user, reuse of the address, and new text.      *)
ViewersReadLiveLines ==
  \A panel \in DOMAIN windows : windows[panel].viewer =>
    /\ panel \in DOMAIN g_custom_viewers
    /\ LET state == g_custom_viewers[panel] IN
       /\ windows[panel].reads = state.object
       /\ windows[panel].end = state.size - 1
       /\ windows[panel].line < state.size
=============================================================================
