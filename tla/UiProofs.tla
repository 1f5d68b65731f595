------------------------------ MODULE UiProofs ------------------------------
(***************************************************************************)
(* Proofs about UiEvents, Widgets and DebuggerControl, for every value of  *)
(* their constants.                                                        *)
(***************************************************************************)
EXTENDS UiEvents, Widgets, DebuggerControl, StackLemmas

(***************************************************************************)
(* Widgets: the table of custom viewers and the windows of the SDK.  The   *)
(* library learns of no window the user closes, so its table may keep what *)
(* no window shows; what a window shows is always in the table.            *)
(***************************************************************************)
Window == [viewer : BOOLEAN, reads : Nat, end : Nat, line : Nat]
ViewerState == [object : Nat, size : Nat \ {0}, end : Nat, cur : Nat]

(* The range of a text and the line remembered are those of its lines. *)
StateInv(state) ==
  /\ state \in ViewerState
  /\ state.end = state.size - 1 /\ state.cur <= state.end

(* A viewer shows the lines that the table has for it. *)
ShowsInv(window, state) ==
  /\ window.reads = state.object
  /\ window.end = state.end
  /\ window.line <= state.end

WidgetsInv ==
  /\ windows \in [DOMAIN windows -> Window]
  /\ g_custom_viewers \in [DOMAIN g_custom_viewers -> ViewerState]
  /\ g_next_widget_id \in Nat
  /\ \A panel \in DOMAIN g_custom_viewers : StateInv(g_custom_viewers[panel])
  /\ \A panel \in DOMAIN windows : windows[panel].viewer =>
       /\ panel \in DOMAIN g_custom_viewers
       /\ ShowsInv(windows[panel], g_custom_viewers[panel])

LEMMA NewState ==
  ASSUME NEW object \in Nat, NEW count \in Nat
  PROVE  /\ StateInv(make_custom_viewer_state(object, count))
         /\ make_custom_viewer_state(object, count).object = object
         /\ make_custom_viewer_state(object, count).cur = 0
BY DEF StateInv, ViewerState, make_custom_viewer_state

(* A window comes up, with or without lines of its own. *)
LEMMA WindowMade ==
  ASSUME WidgetsInv, NEW panel, NEW h, MakeHandle(h, panel),
         windows' = Put(windows, panel, Plain), UNCHANGED g_custom_viewers
  PROVE  WidgetsInv'
<1>1. windows' = [y \in DOMAIN windows \cup {panel} |-> IF y = panel THEN Plain ELSE windows[y]]
  BY DEF Put
<1>2. Plain \in Window /\ ~Plain.viewer
  BY DEF Plain, Window
<1>3. g_next_widget_id' \in Nat
  BY DEF WidgetsInv, MakeHandle
<1> QED
  BY <1>1, <1>2, <1>3 DEF WidgetsInv

LEMMA ViewerMade ==
  ASSUME WidgetsInv, NEW panel, NEW h, NEW count \in Nat, create_custom_viewer(h, panel, count)
  PROVE  WidgetsInv'
<1> DEFINE state == make_custom_viewer_state(g_next_widget_id, count)
           window == Showing(state.object, state.end, state.cur)
<1>1. /\ windows' = [y \in DOMAIN windows \cup {panel} |-> IF y = panel THEN window ELSE windows[y]]
      /\ g_custom_viewers' = [y \in DOMAIN g_custom_viewers \cup {panel} |->
                                IF y = panel THEN state ELSE g_custom_viewers[y]]
  BY DEF create_custom_viewer, Put
<1>2. g_next_widget_id \in Nat /\ g_next_widget_id' \in Nat
  BY DEF WidgetsInv, MakeHandle, create_custom_viewer
<1>3. StateInv(state)
  BY <1>2, NewState
<1> HIDE DEF state
<1>4. window \in Window /\ ShowsInv(window, state)
  BY <1>3 DEF StateInv, ViewerState, Window, Showing, ShowsInv
<1> HIDE DEF window
<1> QED
  BY <1>1, <1>2, <1>3, <1>4 DEF WidgetsInv, StateInv

LEMMA LinesSet ==
  ASSUME WidgetsInv, NEW h, NEW count \in Nat, set_custom_viewer_lines(h, count)
  PROVE  WidgetsInv'
<1> DEFINE panel == widgets[h].impl
           state == g_custom_viewers[panel]
           next == make_custom_viewer_state(state.object, count)
           clamped == IF state.cur > next.end THEN next.end ELSE state.cur
           after == [next EXCEPT !.cur = clamped]
           window == IF windows[panel].viewer
                     THEN Showing(windows[panel].reads, next.end, clamped) ELSE windows[panel]
<1>1. /\ panel \in DOMAIN windows /\ panel \in DOMAIN g_custom_viewers
      /\ g_custom_viewers' = [g_custom_viewers EXCEPT ![panel] = after]
      /\ windows' = [windows EXCEPT ![panel] = window]
      /\ g_next_widget_id' = g_next_widget_id
  BY DEF set_custom_viewer_lines, IsOpen
<1>2. StateInv(state) /\ windows[panel] \in Window
  BY <1>1 DEF WidgetsInv
<1>3. StateInv(next) /\ next.object = state.object
  <2>1. state.object \in Nat
    BY <1>2 DEF StateInv, ViewerState
  <2> HIDE DEF state
  <2> QED
    BY <2>1, NewState
<1> HIDE DEF next
<1>4. clamped \in Nat /\ clamped <= next.end
  BY <1>2, <1>3 DEF StateInv, ViewerState
<1> HIDE DEF clamped
<1>5. StateInv(after) /\ after.object = state.object /\ after.end = next.end
  BY <1>3, <1>4 DEF StateInv, ViewerState
<1>6. /\ window \in Window
      /\ window.viewer => windows[panel].viewer /\ ShowsInv(window, after)
  <2>1. windows[panel].viewer => windows[panel].reads = state.object
    BY <1>1 DEF WidgetsInv, ShowsInv
  <2> QED
    BY <1>2, <1>3, <1>4, <1>5, <2>1 DEF Window, Showing, ShowsInv, StateInv, ViewerState
<1> HIDE DEF window, after
<1> QED
  BY <1>1, <1>5, <1>6 DEF WidgetsInv, StateInv

(* The client or the user goes to another line of a viewer. *)
LEMMA LineMoved ==
  ASSUME WidgetsInv, NEW panel \in DOMAIN windows, NEW window \in Window,
         window.viewer = windows[panel].viewer, window.reads = windows[panel].reads,
         window.end = windows[panel].end,
         windows[panel].viewer => window.line <= windows[panel].end,
         windows' = [windows EXCEPT ![panel] = window],
         UNCHANGED <<g_custom_viewers, g_next_widget_id>>
  PROVE  WidgetsInv'
BY DEF WidgetsInv, ShowsInv

LEMMA WindowsClosed ==
  ASSUME WidgetsInv, NEW panel, windows' = Without(windows, panel),
         \/ g_custom_viewers' = g_custom_viewers
         \/ g_custom_viewers' = Without(g_custom_viewers, panel),
         UNCHANGED g_next_widget_id
  PROVE  WidgetsInv'
<1>1. /\ DOMAIN windows' = DOMAIN windows \ {panel}
      /\ windows' = [x \in DOMAIN windows' |-> windows[x]]
  BY DEF Without
<1>2. /\ DOMAIN g_custom_viewers' \subseteq DOMAIN g_custom_viewers
      /\ DOMAIN g_custom_viewers \ {panel} \subseteq DOMAIN g_custom_viewers'
      /\ g_custom_viewers' = [x \in DOMAIN g_custom_viewers' |-> g_custom_viewers[x]]
  BY DEF Without, WidgetsInv
<1> QED
  BY <1>1, <1>2 DEF WidgetsInv

LEMMA WidgetsStep == WidgetsInv /\ [WidgetsNext]_widgetvars => WidgetsInv'
<1> SUFFICES ASSUME WidgetsInv, [WidgetsNext]_widgetvars PROVE WidgetsInv'
  OBVIOUS
<1>0. 0 .. MaxLines \subseteq Nat /\ 0 .. MaxLines - 1 \subseteq Nat
  BY WidgetAssumption
<1>1. CASE \/ UNCHANGED widgetvars
           \/ \E h, from \in WidgetHandles : CopyHandle(h, from)
           \/ \E h \in WidgetHandles, panel \in Panels : find_widget(h, panel)
  <2>1. g_next_widget_id' \in Nat
    BY <1>1 DEF WidgetsInv, widgetvars, CopyHandle, find_widget, MakeHandle
  <2> QED
    BY <1>1, <2>1 DEF WidgetsInv, widgetvars, CopyHandle, find_widget
<1>2. ASSUME NEW h \in WidgetHandles, NEW panel \in Panels, create_widget(h, panel)
      PROVE  WidgetsInv'
  BY <1>2, WindowMade DEF create_widget
<1>3. ASSUME NEW h \in WidgetHandles, NEW index \in 0 .. MaxLines - 1,
             custom_viewer_jump_to_line(h, index)
      PROVE  WidgetsInv'
  <2> DEFINE panel == widgets[h].impl
             window == IF windows[panel].viewer THEN [windows[panel] EXCEPT !.line = index]
                       ELSE windows[panel]
  <2>1. /\ panel \in DOMAIN windows /\ panel \in DOMAIN g_custom_viewers
        /\ index < g_custom_viewers[panel].size
        /\ windows' = [windows EXCEPT ![panel] = window]
        /\ UNCHANGED <<g_custom_viewers, g_next_widget_id>>
    BY <1>3 DEF custom_viewer_jump_to_line, IsOpen
  <2>2. windows[panel] \in Window /\ StateInv(g_custom_viewers[panel]) /\ index \in Nat
    BY <1>0, <2>1 DEF WidgetsInv
  <2>3. windows[panel].viewer => windows[panel].end = g_custom_viewers[panel].end
    BY <2>1 DEF WidgetsInv, ShowsInv
  <2>4. /\ window \in Window /\ window.viewer = windows[panel].viewer
        /\ window.reads = windows[panel].reads /\ window.end = windows[panel].end
        /\ windows[panel].viewer => window.line = index
    BY <2>2 DEF Window
  <2>5. windows[panel].viewer => index <= windows[panel].end
    BY <2>1, <2>2, <2>3 DEF StateInv, ViewerState
  <2> HIDE DEF window
  <2> QED
    BY <2>1, <2>4, <2>5, LineMoved
<1>4. ASSUME NEW panel \in Panels, NEW line \in 0 .. MaxLines - 1, UserMoves(panel, line)
      PROVE  WidgetsInv'
  <2> DEFINE window == [windows[panel] EXCEPT !.line = line]
  <2>1. /\ panel \in DOMAIN windows /\ windows[panel] \in Window /\ line \in Nat
        /\ line <= windows[panel].end
        /\ windows' = [windows EXCEPT ![panel] = window]
        /\ UNCHANGED <<g_custom_viewers, g_next_widget_id>>
    BY <1>0, <1>4 DEF UserMoves, IsOpen, WidgetsInv
  <2>2. /\ window \in Window /\ window.viewer = windows[panel].viewer
        /\ window.reads = windows[panel].reads /\ window.end = windows[panel].end
        /\ window.line = line
    BY <2>1 DEF Window
  <2> HIDE DEF window
  <2> QED
    BY <2>1, <2>2, LineMoved
<1>5. ASSUME NEW h \in WidgetHandles, close_custom_viewer(h) \/ close_widget(h)
      PROVE  WidgetsInv'
  BY <1>5, WindowsClosed DEF close_custom_viewer, close_widget, CloseBy
<1>6. ASSUME NEW panel \in Panels, UserCloses(panel) PROVE WidgetsInv'
  BY <1>6, WindowsClosed DEF UserCloses
<1> QED
  BY <1>0, <1>1, <1>2, <1>3, <1>4, <1>5, <1>6, ViewerMade, LinesSet DEF WidgetsNext

(* Whatever clients do with their handles and the user with the windows, a *)
(* viewer that is open reads lines that are still there, and stands inside *)
(* them.                                                                   *)
THEOREM ViewersHaveLines == WidgetsSpec => []ViewersReadLiveLines
<1>1. WidgetsInit => WidgetsInv
  <2> SUFFICES ASSUME WidgetsInit PROVE WidgetsInv
    OBVIOUS
  <2>1. DOMAIN windows = {} /\ DOMAIN g_custom_viewers = {} /\ g_next_widget_id = 1
    BY DEF WidgetsInit
  <2> QED
    BY <2>1 DEF WidgetsInit, WidgetsInv
<1>2. WidgetsInv => ViewersReadLiveLines
  BY DEF WidgetsInv, ViewersReadLiveLines, ShowsInv, StateInv, ViewerState, Window
<1> QED
  BY <1>1, <1>2, WidgetsStep, PTL DEF WidgetsSpec

(***************************************************************************)
(* UiEvents: what the constants are.                                       *)
(***************************************************************************)
LEMMA EventsListened == \A event \in Events : event[1] \in Listeners
<1>1. \A i \in DOMAIN SupportedEvents : SupportedEvents[i][1] \in Listeners
  BY DEF SupportedEvents, Listeners
<1> QED
  BY <1>1, UiAssumption DEF Range

(* The supported events are different ones. *)
LEMMA SupportedOnce ==
  \A i, j \in DOMAIN SupportedEvents : SupportedEvents[i] = SupportedEvents[j] => i = j
BY DEF SupportedEvents

(* A generic subscription has one inner one for every event. *)
LEMMA InnerEvents ==
  /\ Len(Inner) \in Nat
  /\ \A k \in 1 .. Len(Inner) : Inner[k] \in Events /\ Inner[k][1] \in Listeners
  /\ \A event \in Events : \E k \in 1 .. Len(Inner) : Inner[k] = event
  /\ \A j, k \in 1 .. Len(Inner) : Inner[j] = Inner[k] => j = k
<1> DEFINE C == Range(SupportedEvents)
           keep == {i \in DOMAIN SupportedEvents : SupportedEvents[i] \in Events}
           n == Len(SupportedEvents)
<1>1. SupportedEvents \in Seq(C)
  BY DEF SupportedEvents, Range
<1>2. DOMAIN SupportedEvents = 1 .. n
  BY <1>1, LenProperties
<1> HIDE DEF C
<1>3. Inner \in Seq(C) /\ \E place : Places(SupportedEvents, keep, n, Inner, place)
  BY <1>1, PickedInOrder DEF Inner, Selects
<1>4. PICK place : Places(SupportedEvents, keep, n, Inner, place)
  BY <1>3
<1> HIDE DEF n
<1>5. /\ Len(Inner) \in Nat
      /\ place \in [1 .. Len(Inner) -> 1 .. n]
      /\ \A k \in 1 .. Len(Inner) : place[k] \in keep /\ Inner[k] = SupportedEvents[place[k]]
      /\ \A i, j \in 1 .. Len(Inner) : i < j => place[i] < place[j]
      /\ \A i \in 1 .. n : i \in keep => \E k \in 1 .. Len(Inner) : place[k] = i
  <2>1. Len(Inner) \in Nat
    BY <1>3, LenProperties
  <2> QED
    BY <1>4, <2>1 DEF Places
<1>6. \A k \in 1 .. Len(Inner) : Inner[k] \in Events
  BY <1>5
<1>7. ASSUME NEW event \in Events PROVE \E k \in 1 .. Len(Inner) : Inner[k] = event
  <2>1. PICK i \in DOMAIN SupportedEvents : SupportedEvents[i] = event
    BY UiAssumption DEF Range
  <2>2. i \in 1 .. n /\ i \in keep
    BY <1>2, <2>1
  <2>3. PICK k \in 1 .. Len(Inner) : place[k] = i
    BY <1>5, <2>2
  <2> QED
    BY <1>5, <2>1, <2>3
<1>8. ASSUME NEW j \in 1 .. Len(Inner), NEW k \in 1 .. Len(Inner), Inner[j] = Inner[k]
      PROVE  j = k
  <2>1. place[j] = place[k]
    BY <1>5, <1>8, SupportedOnce
  <2>2. ~(j < k) /\ ~(k < j)
    <3>1. place[j] \in Int
      BY <1>5
    <3> QED
      BY <1>5, <2>1, <3>1
  <2> QED
    BY <1>5, <2>2
<1> QED
  BY <1>5, <1>6, <1>7, <1>8, EventsListened

(* The tokens of the two listeners meet neither each other nor those of    *)
(* the generic subscriptions.                                              *)
LEMMA RawTokens ==
  /\ MaxRaw \in Nat /\ 0 .. Len(Inner) \subseteq Nat
  /\ \A l \in Listeners, r \in Raw :
       /\ Public(l, r) \in PublicToken /\ Public(l, r) < GENERIC_TOKEN_BASE
       /\ IsView(Public(l, r)) <=> l = "view"
       /\ l = "view" => Public(l, r) - VIEW_TOKEN_BASE = r
       /\ l = "ui" => Public(l, r) = r
  /\ \A l, m \in Listeners, r, q \in Raw : Public(l, r) = Public(m, q) => l = m /\ r = q
<1>1. Len(Inner) \in Nat /\ MaxCallbacks \in Nat
  BY InnerEvents, UiAssumption
<1>2. MaxRaw \in Nat
  BY <1>1 DEF MaxRaw
<1>3. \A r \in Raw : r \in Nat /\ r >= 1 /\ r <= MaxRaw
  BY <1>2 DEF Raw
<1>4. /\ VIEW_TOKEN_BASE \in Nat /\ GENERIC_TOKEN_BASE \in Nat
      /\ MaxRaw < VIEW_TOKEN_BASE /\ VIEW_TOKEN_BASE + MaxRaw < GENERIC_TOKEN_BASE
  BY UiAssumption
<1>5. ASSUME NEW l \in Listeners, NEW r \in Raw
      PROVE  /\ Public(l, r) \in PublicToken /\ Public(l, r) < GENERIC_TOKEN_BASE
             /\ IsView(Public(l, r)) <=> l = "view"
             /\ l = "view" => Public(l, r) - VIEW_TOKEN_BASE = r
             /\ l = "ui" => Public(l, r) = r
  <2>1. r \in Nat /\ r <= MaxRaw
    BY <1>3
  <2>2. CASE l = "view"
    BY <1>2, <1>4, <2>1, <2>2 DEF Public, PublicToken, IsView
  <2>3. CASE l = "ui"
    BY <1>2, <1>4, <2>1, <2>3 DEF Public, PublicToken, IsView
  <2> QED
    BY <2>2, <2>3 DEF Listeners
<1>6. ASSUME NEW l \in Listeners, NEW m \in Listeners, NEW r \in Raw, NEW q \in Raw,
             Public(l, r) = Public(m, q)
      PROVE  l = m /\ r = q
  <2>1. r \in Nat /\ r <= MaxRaw /\ q \in Nat /\ q <= MaxRaw
    BY <1>3
  <2> QED
    BY <1>2, <1>4, <1>6, <2>1 DEF Public, Listeners
<1> QED
  BY <1>1, <1>2, <1>5, <1>6

(***************************************************************************)
(* UiEvents: the two listeners.  The subscriptions of a listener ascend in *)
(* the tokens it gave out, and it is hooked while it has one.              *)
(***************************************************************************)
ListenerInv(l) ==
  /\ subs[l] \in Seq(Subscription) /\ next_token[l] \in Nat /\ hooked[l] \in BOOLEAN
  /\ TokensAscend(subs[l])
  /\ \A e \in Entries(subs[l]) : e.token <= next_token[l]
  /\ hooked[l] = (subs[l] # << >>)

ListenersInv ==
  /\ DOMAIN subs = Listeners /\ DOMAIN next_token = Listeners /\ DOMAIN hooked = Listeners
  /\ subs = [l \in Listeners |-> subs[l]]
  /\ next_token = [l \in Listeners |-> next_token[l]]
  /\ hooked = [l \in Listeners |-> hooked[l]]
  /\ \A l \in Listeners : ListenerInv(l)

LEMMA TokensAreNumbers == \A e \in Subscription : e.token \in Int /\ e.token \in Raw
BY RawTokens DEF Subscription, Raw

LEMMA Subscribed ==
  ASSUME ListenersInv, NEW l \in Listeners, NEW event \in Events, NEW cb \in Callback,
         next_token[l] + 1 <= MaxRaw, subscribe(l, event, cb)
  PROVE  /\ ListenersInv'
         /\ next_token[l] + 1 \in Raw /\ next_token'[l] = next_token[l] + 1
         /\ Entries(subs'[l]) =
              Entries(subs[l]) \cup {[token |-> next_token[l] + 1, event |-> event, cb |-> cb]}
         /\ hooked'[l] = TRUE
         /\ \A m \in Listeners \ {l} : /\ subs'[m] = subs[m] /\ next_token'[m] = next_token[m]
                                       /\ hooked'[m] = hooked[m]
<1> DEFINE t == next_token[l] + 1
           e == [token |-> t, event |-> event, cb |-> cb]
<1>1. t \in Raw /\ t \in Int /\ next_token[l] \in Nat
  BY RawTokens DEF Raw, ListenersInv, ListenerInv
<1>2. e \in Subscription
  BY <1>1 DEF Subscription
<1>3. /\ subs' = [subs EXCEPT ![l] = Append(subs[l], e)]
      /\ next_token' = [next_token EXCEPT ![l] = t]
      /\ hooked' = [hooked EXCEPT ![l] = TRUE]
  BY DEF subscribe, ListenersInv
<1>4. e.token = t
  OBVIOUS
<1> HIDE DEF t, e
<1>5. \A d \in Entries(subs[l]) : d.token < e.token
  <2>1. ASSUME NEW d \in Entries(subs[l]) PROVE d.token \in Int /\ d.token <= next_token[l]
    BY EntriesTyped, TokensAreNumbers DEF ListenersInv, ListenerInv
  <2> QED
    BY <1>1, <1>4, <2>1 DEF t
<1>6. /\ Append(subs[l], e) \in Seq(Subscription)
      /\ TokensAscend(Append(subs[l], e))
      /\ Entries(Append(subs[l], e)) = Entries(subs[l]) \cup {e}
  <2>1. subs[l] \in Seq(Subscription) /\ TokensAscend(subs[l])
    BY DEF ListenersInv, ListenerInv
  <2>2. \A c \in Subscription : c.token \in Int
    BY TokensAreNumbers
  <2> QED
    BY <1>2, <1>5, <2>1, <2>2, EntryAppended
<1>7. /\ subs'[l] = Append(subs[l], e) /\ next_token'[l] = t /\ hooked'[l] = TRUE
      /\ \A m \in Listeners \ {l} : /\ subs'[m] = subs[m] /\ next_token'[m] = next_token[m]
                                    /\ hooked'[m] = hooked[m]
  BY <1>3 DEF ListenersInv
<1>8. Append(subs[l], e) # << >>
  BY <1>2, EntriesTyped, <1>6
<1>9. \A d \in Entries(subs[l]) \cup {e} : d.token <= t
  BY <1>1, <1>4, <1>5, EntriesTyped, TokensAreNumbers DEF ListenersInv, ListenerInv
<1>10. ListenerInv(l)'
  <2>1. hooked'[l] = (subs'[l] # << >>) /\ hooked'[l] \in BOOLEAN
    BY <1>7, <1>8
  <2>2. subs'[l] \in Seq(Subscription) /\ TokensAscend(subs'[l])
    BY <1>6, <1>7
  <2>3. next_token'[l] \in Nat
    BY <1>1, <1>7 DEF t
  <2>4. \A d \in Entries(subs'[l]) : d.token <= next_token'[l]
    BY <1>6, <1>7, <1>9
  <2> QED
    BY <2>1, <2>2, <2>3, <2>4 DEF ListenerInv
<1>11. \A m \in Listeners \ {l} : ListenerInv(m)'
  BY <1>7 DEF ListenersInv, ListenerInv
<1>12. ListenersInv'
  BY <1>3, <1>10, <1>11 DEF ListenersInv
<1> QED
  BY <1>1, <1>6, <1>7, <1>12 DEF e, t

(* The subscription with a token is taken out, if there is one. *)
LEMMA Unsubscribed ==
  ASSUME ListenersInv, NEW l \in Listeners, NEW raw, unsubscribe_listener(l, raw)
  PROVE  /\ ListenersInv' /\ next_token' = next_token
         /\ Entries(subs'[l]) = {e \in Entries(subs[l]) : e.token # raw}
         /\ \A m \in Listeners \ {l} : subs'[m] = subs[m] /\ hooked'[m] = hooked[m]
<1> DEFINE rest == WithoutToken(subs[l], raw)
           found == \E i \in DOMAIN subs[l] : subs[l][i].token = raw
<1>1. /\ subs' = [subs EXCEPT ![l] = rest]
      /\ hooked' = [hooked EXCEPT ![l] = IF found THEN subs'[l] # << >> ELSE hooked[l]]
      /\ next_token' = next_token
  BY DEF unsubscribe_listener, WithoutToken, ListenersInv
<1>2. subs[l] \in Seq(Subscription) /\ TokensAscend(subs[l]) /\ ListenerInv(l)
  BY DEF ListenersInv, ListenerInv
<1>3. /\ rest \in Seq(Subscription) /\ TokensAscend(rest)
      /\ Entries(rest) = {e \in Entries(subs[l]) : e.token # raw}
  <2>1. \A c \in Subscription : c.token \in Int
    BY TokensAreNumbers
  <2> QED
    BY <1>2, <2>1, EntryRemoved
<1> HIDE DEF rest
<1>4. /\ subs'[l] = rest
      /\ \A m \in Listeners \ {l} : subs'[m] = subs[m] /\ hooked'[m] = hooked[m]
      /\ hooked'[l] = IF found THEN rest # << >> ELSE hooked[l]
  BY <1>1 DEF ListenersInv
<1>5. hooked'[l] = (rest # << >>)
  <2>1. CASE found
    BY <1>4, <2>1
  <2>2. CASE ~found
    <3>1. Entries(rest) = Entries(subs[l])
      BY <1>3, <2>2 DEF Entries
    <3>2. (rest # << >>) = (subs[l] # << >>)
      BY <1>2, <1>3, <3>1, EntriesTyped
    <3> QED
      BY <1>2, <1>4, <2>2, <3>2 DEF ListenerInv
  <2> QED
    BY <2>1, <2>2
<1>6. ListenerInv(l)'
  <2>1. hooked'[l] \in BOOLEAN
    BY <1>5
  <2>2. \A e \in Entries(rest) : e.token <= next_token[l]
    BY <1>2, <1>3 DEF ListenerInv
  <2> QED
    BY <1>1, <1>2, <1>3, <1>4, <1>5, <2>1, <2>2 DEF ListenerInv
<1>7. \A m \in Listeners \ {l} : ListenerInv(m)'
  BY <1>1, <1>4 DEF ListenersInv, ListenerInv
<1>8. ListenersInv'
  BY <1>1, <1>6, <1>7 DEF ListenersInv
<1> QED
  BY <1>1, <1>3, <1>4, <1>8

(* All subscriptions, each with its listener, and the public token of one. *)
Live == {e \in Listeners \X Subscription : e[2] \in Entries(subs[e[1]])}
TokenOf(e) == Public(e[1], e[2].token)
Fresh(l, event, cb) == [token |-> next_token[l] + 1, event |-> event, cb |-> cb]

LEMMA LiveFacts ==
  ASSUME ListenersInv
  PROVE  /\ \A l \in Listeners : \A s \in Entries(subs[l]) : <<l, s>> \in Live
         /\ \A e \in Live : /\ e = <<e[1], e[2]>> /\ e[1] \in Listeners
                            /\ e[2] \in Subscription /\ e[2] \in Entries(subs[e[1]])
                            /\ TokenOf(e) \in PublicToken /\ TokenOf(e) < GENERIC_TOKEN_BASE
         /\ \A d, e \in Live : TokenOf(d) = TokenOf(e) => d = e
<1>1. \A l \in Listeners : Entries(subs[l]) \subseteq Subscription
  BY EntriesTyped DEF ListenersInv, ListenerInv
<1>2. ASSUME NEW e \in Live
      PROVE  /\ e = <<e[1], e[2]>> /\ e[1] \in Listeners
             /\ e[2] \in Subscription /\ e[2] \in Entries(subs[e[1]])
             /\ TokenOf(e) \in PublicToken /\ TokenOf(e) < GENERIC_TOKEN_BASE
  BY RawTokens, TokensAreNumbers DEF Live, TokenOf
<1>3. ASSUME NEW d \in Live, NEW e \in Live, TokenOf(d) = TokenOf(e) PROVE d = e
  <2>1. d[1] = e[1] /\ d[2].token = e[2].token
    BY <1>2, <1>3, RawTokens, TokensAreNumbers DEF TokenOf
  <2>2. subs[e[1]] \in Seq(Subscription) /\ TokensAscend(subs[e[1]])
    BY <1>2 DEF ListenersInv, ListenerInv
  <2>3. \A c \in Subscription : c.token \in Int
    BY TokensAreNumbers
  <2>4. d[2] = e[2]
    BY <1>2, <2>1, <2>2, <2>3, OneEntryPerToken
  <2> QED
    BY <1>2, <2>1, <2>4
<1> QED
  BY <1>1, <1>2, <1>3 DEF Live

LEMMA LiveSubscribed ==
  ASSUME ListenersInv, NEW l \in Listeners, NEW event \in Events, NEW cb \in Callback,
         next_token[l] + 1 <= MaxRaw, subscribe(l, event, cb)
  PROVE  /\ <<l, Fresh(l, event, cb)>> \in Listeners \X Subscription
         /\ Live' = Live \cup {<<l, Fresh(l, event, cb)>>}
<1>1. /\ next_token[l] + 1 \in Raw
      /\ Entries(subs'[l]) = Entries(subs[l]) \cup {Fresh(l, event, cb)}
      /\ \A m \in Listeners \ {l} : subs'[m] = subs[m]
  BY Subscribed DEF Fresh
<1>2. Fresh(l, event, cb) \in Subscription
  BY <1>1 DEF Fresh, Subscription
<1> QED
  BY <1>1, <1>2 DEF Live

(* A token that is not a generic one is one of at most one subscription,   *)
(* and giving it back takes that one out.                                  *)
LEMMA SingleUnsubscribed ==
  ASSUME ListenersInv, NEW token \in PublicToken, token < GENERIC_TOKEN_BASE,
         unsubscribe_single(token)
  PROVE  /\ ListenersInv' /\ next_token' = next_token
         /\ Live' = {e \in Live : TokenOf(e) # token}
         /\ \E l \in Listeners :
              /\ \E raw : Entries(subs'[l]) = {e \in Entries(subs[l]) : e.token # raw}
              /\ \A m \in Listeners \ {l} : subs'[m] = subs[m] /\ hooked'[m] = hooked[m]
<1> DEFINE l == IF IsView(token) THEN "view" ELSE "ui"
           raw == IF IsView(token) THEN token - VIEW_TOKEN_BASE ELSE token
<1>1. unsubscribe_listener(l, raw) /\ l \in Listeners
  BY DEF unsubscribe_single, Listeners
<1>2. raw \in Raw /\ token = Public(l, raw)
  <2>1. MaxRaw \in Nat /\ MaxCallbacks \in Nat /\ VIEW_TOKEN_BASE \in Nat /\ GENERIC_TOKEN_BASE \in Nat
        /\ MaxRaw < VIEW_TOKEN_BASE /\ VIEW_TOKEN_BASE + MaxRaw < GENERIC_TOKEN_BASE
    BY RawTokens, UiAssumption
  <2>2. token \notin {GENERIC_TOKEN_BASE + c : c \in Callback}
    BY <2>1 DEF Callback
  <2>3. CASE token \in Raw
    BY <2>1, <2>3 DEF Raw, Public, IsView
  <2>4. CASE token \in {VIEW_TOKEN_BASE + r : r \in Raw}
    <3>1. PICK r \in Raw : token = VIEW_TOKEN_BASE + r
      BY <2>4
    <3>2. r \in Nat /\ r <= MaxRaw
      BY <2>1 DEF Raw
    <3>3. IsView(token) /\ token - VIEW_TOKEN_BASE = r
      BY <2>1, <3>1, <3>2 DEF IsView
    <3> QED
      BY <3>1, <3>3 DEF Public
  <2> QED
    BY <2>2, <2>3, <2>4 DEF PublicToken
<1> HIDE DEF l, raw
<1>3. /\ ListenersInv' /\ next_token' = next_token
      /\ Entries(subs'[l]) = {e \in Entries(subs[l]) : e.token # raw}
      /\ \A m \in Listeners \ {l} : subs'[m] = subs[m] /\ hooked'[m] = hooked[m]
  BY <1>1, Unsubscribed
<1>4. ASSUME NEW e \in Listeners \X Subscription
      PROVE  TokenOf(e) # token <=> e[1] # l \/ e[2].token # raw
  BY <1>1, <1>2, RawTokens, TokensAreNumbers DEF TokenOf
<1>5. ASSUME NEW e \in Listeners \X Subscription
      PROVE  e \in Live' <=> e \in Live /\ TokenOf(e) # token
  <2>1. CASE e[1] = l
    BY <1>3, <1>4, <2>1 DEF Live
  <2>2. CASE e[1] # l
    BY <1>3, <1>4, <2>2 DEF Live
  <2> QED
    BY <2>1, <2>2
<1>6. Live' = {e \in Live : TokenOf(e) # token}
  BY <1>5 DEF Live
<1> QED
  BY <1>1, <1>3, <1>6

(***************************************************************************)
(* UiEvents: types.  Tokens are bounded because every callback accounts    *)
(* for the raw tokens its subscriptions took, one for every event and one  *)
(* for itself, and for one value of the generic counter.                   *)
(***************************************************************************)
Frames == FramesOf(Threads, stack)
At(p) == FrameAt(stack, p)
TopPlace(th) == <<th, Depth(th)>>
NewPlace(th) == <<th, Depth(th) + 1>>

(* The calls that will yet store a new value of the generic counter. *)
Counting == {"on_event", "make_token"}

(* The inner subscriptions a callback is still to get, each with its       *)
(* callback, and those that are used up.                                   *)
Remaining ==
  {x \in Callback \X (1 .. Len(Inner)) :
     \E p \in Frames : /\ At(p).op = "on_event" /\ At(p).cb = x[1]
                       /\ Len(At(p).tokens) < x[2]}
Used == ((1 .. callbacks) \X (0 .. Len(Inner))) \ Remaining
Stored == {cb \in 1 .. callbacks : \A p \in Frames : At(p).op \in Counting => At(p).cb # cb}

ClientsInv ==
  /\ next_generic \in Nat
  /\ DOMAIN routes \subseteq PublicToken
  /\ routes \in [DOMAIN routes -> Seq(PublicToken)]
  /\ stack \in [Threads -> Seq(Call)]
  /\ callbacks \in 0 .. MaxCallbacks
  /\ given \subseteq Held
  /\ held \subseteq given

CallbacksInv ==
  /\ \A p \in Frames : At(p).op # "dispatch" => At(p).cb \in Callback
  /\ \A p \in Frames : At(p).op \in Counting =>
       At(p).cb \in 1 .. callbacks /\ Len(At(p).tokens) <= Len(Inner)
  /\ \A p, q \in Frames :
       p # q /\ At(p).op \in Counting /\ At(q).op \in Counting => At(p).cb # At(q).cb

CountInv ==
  /\ \A l \in Listeners : next_token[l] <= Cardinality(Used)
  /\ next_generic <= Cardinality(Stored)
  /\ \A p \in Frames : At(p).op = "make_token" => At(p).read <= Cardinality(Stored)

UiInv == ListenersInv /\ ClientsInv /\ CallbacksInv /\ CountInv

LEMMA CallsMade ==
  \A op \in {"on_event", "make_token", "add_route", "unsubscribe", "dispatch"} :
    NewCall(op) \in Call
<1>1. << >> \in Seq(PublicToken) /\ << >> \in Seq(Callback)
  BY EmptySeq
<1> QED
  BY <1>1 DEF NewCall, Call

LEMMA Entered ==
  ASSUME ClientsInv, NEW th \in Threads, NEW call \in Call, Push(th, call)
  PROVE  /\ stack' \in [Threads -> Seq(Call)]
         /\ \E new : /\ new = NewPlace(th) /\ new \notin Frames
                     /\ Frames' = Frames \cup {new} /\ At(new)' = call
                     /\ \A q \in Frames : At(q)' = At(q)
         /\ \A u \in Threads \ {th} : stack'[u] = stack[u]
         /\ Depth(th)' = Depth(th) + 1 /\ Depth(th) \in Nat
<1>1. stack \in [Threads -> Seq(Call)] /\ stack' = Pushed(stack, th, call)
  BY DEF ClientsInv, Push, Pushed
<1> DEFINE p == <<th, Len(stack[th]) + 1>>
<1>2. /\ stack' \in [Threads -> Seq(Call)]
      /\ p \notin FramesOf(Threads, stack)
      /\ FramesOf(Threads, stack') = FramesOf(Threads, stack) \cup {p}
      /\ FrameAt(stack', p) = call
      /\ \A q \in FramesOf(Threads, stack) : FrameAt(stack', q) = FrameAt(stack, q)
      /\ \A u \in Threads \ {th} : stack'[u] = stack[u]
      /\ Len(stack'[th]) = Len(stack[th]) + 1 /\ Len(stack[th]) \in Nat
  BY <1>1, FramePushed
<1>3. PICK new : new = p
  OBVIOUS
<1> QED
  BY <1>2, <1>3 DEF Frames, At, NewPlace, Depth

LEMMA Advanced ==
  ASSUME ClientsInv, NEW th \in Threads, ~Idle(th), NEW call \in Call, SetTop(th, call)
  PROVE  /\ stack' \in [Threads -> Seq(Call)]
         /\ \E top \in Frames : /\ top = TopPlace(th) /\ At(top) = Top(th)
                                /\ Frames' = Frames /\ At(top)' = call
                                /\ \A q \in Frames \ {top} : At(q)' = At(q)
         /\ \A u \in Threads : Depth(u)' = Depth(u)
<1>1. stack \in [Threads -> Seq(Call)] /\ stack' = TopSet(stack, th, call) /\ stack[th] # << >>
  BY DEF ClientsInv, SetTop, TopSet, Idle
<1> DEFINE p == <<th, Len(stack[th])>>
<1>2. /\ stack' \in [Threads -> Seq(Call)]
      /\ p \in FramesOf(Threads, stack)
      /\ FramesOf(Threads, stack') = FramesOf(Threads, stack)
      /\ FrameAt(stack', p) = call
      /\ \A q \in FramesOf(Threads, stack) \ {p} : FrameAt(stack', q) = FrameAt(stack, q)
      /\ \A u \in Threads : Len(stack'[u]) = Len(stack[u])
  BY <1>1, FrameSet
<1>3. PICK top : top = p
  OBVIOUS
<1> QED
  BY <1>2, <1>3 DEF Frames, At, TopPlace, Depth, Top, FrameAt

LEMMA Left ==
  ASSUME ClientsInv, NEW th \in Threads, ~Idle(th), Pop(th)
  PROVE  /\ stack' \in [Threads -> Seq(Call)]
         /\ \E top \in Frames : /\ top = TopPlace(th) /\ At(top) = Top(th)
                                /\ Frames' = Frames \ {top}
                                /\ \A q \in Frames \ {top} : At(q)' = At(q)
         /\ \A u \in Threads \ {th} : stack'[u] = stack[u]
         /\ Depth(th)' = Depth(th) - 1 /\ Depth(th) \in Nat \ {0}
<1>1. stack \in [Threads -> Seq(Call)] /\ stack' = Popped(stack, th) /\ stack[th] # << >>
  BY DEF ClientsInv, Pop, Popped, Idle
<1> DEFINE p == <<th, Len(stack[th])>>
<1>2. /\ stack' \in [Threads -> Seq(Call)]
      /\ p \in FramesOf(Threads, stack)
      /\ FramesOf(Threads, stack') = FramesOf(Threads, stack) \ {p}
      /\ \A q \in FramesOf(Threads, stack) \ {p} : FrameAt(stack', q) = FrameAt(stack, q)
      /\ \A u \in Threads \ {th} : stack'[u] = stack[u]
      /\ Len(stack'[th]) = Len(stack[th]) - 1 /\ Len(stack[th]) \in Nat \ {0}
  BY <1>1, FramePopped
<1>3. PICK top : top = p
  OBVIOUS
<1> QED
  BY <1>2, <1>3 DEF Frames, At, TopPlace, Depth, Top, FrameAt

LEMMA TopIsFrame ==
  ASSUME ClientsInv, NEW th \in Threads, ~Idle(th)
  PROVE  TopPlace(th) \in Frames /\ At(TopPlace(th)) = Top(th) /\ Top(th) \in Call
<1>1. stack \in [Threads -> Seq(Call)] /\ stack[th] # << >>
  BY DEF ClientsInv, Idle
<1> QED
  BY <1>1, TopFrame DEF Frames, At, TopPlace, Top, Depth

LEMMA FramesAreCalls ==
  ASSUME ClientsInv, NEW p \in Frames
  PROVE  At(p) \in Call /\ p = <<p[1], p[2]>> /\ p[1] \in Threads
BY FramesTyped DEF ClientsInv, Frames, At

-----------------------------------------------------------------------------
(* Counting. *)

LEMMA Grows ==
  ASSUME NEW U, NEW V, IsFiniteSet(V), U \subseteq V
  PROVE  /\ IsFiniteSet(U) /\ Cardinality(U) \in Nat /\ Cardinality(V) \in Nat
         /\ Cardinality(U) <= Cardinality(V)
         /\ \A x \in V \ U : Cardinality(U) + 1 <= Cardinality(V)
<1>1. IsFiniteSet(U) /\ Cardinality(U) <= Cardinality(V)
  BY FS_Subset
<1>2. Cardinality(U) \in Nat /\ Cardinality(V) \in Nat
  BY <1>1, FS_CardinalityType
<1>3. ASSUME NEW x \in V \ U PROVE Cardinality(U) + 1 <= Cardinality(V)
  <2>1. Cardinality(U \cup {x}) = Cardinality(U) + 1
    BY <1>1, FS_AddElement
  <2>2. U \cup {x} \subseteq V
    BY <1>3
  <2>3. Cardinality(U \cup {x}) <= Cardinality(V)
    BY <2>2, FS_Subset
  <2> QED
    BY <2>1, <2>3
<1> QED
  BY <1>1, <1>2, <1>3

LEMMA Room ==
  ASSUME NEW n \in 0 .. MaxCallbacks
  PROVE  /\ \A U : U \subseteq (1 .. n) \X (0 .. Len(Inner)) =>
                     IsFiniteSet(U) /\ Cardinality(U) <= MaxRaw
         /\ \A S : S \subseteq 1 .. n => IsFiniteSet(S) /\ Cardinality(S) <= MaxCallbacks
<1> DEFINE K == Len(Inner)
           A == 1 .. MaxCallbacks
           B == 0 .. K
<1>0. K \in Nat /\ MaxCallbacks \in Nat /\ n \in Nat /\ n <= MaxCallbacks
  BY InnerEvents, UiAssumption
<1>1. IsFiniteSet(A) /\ Cardinality(A) = MaxCallbacks
  <2>1. IsFiniteSet(A)
    BY <1>0, FS_Interval
  <2>2. Cardinality(A) = IF 1 <= MaxCallbacks THEN MaxCallbacks - 1 + 1 ELSE 0
    BY <1>0, FS_Interval
  <2> QED
    BY <1>0, <2>1, <2>2
<1>2. IsFiniteSet(B) /\ Cardinality(B) = K + 1
  <2>1. IsFiniteSet(B)
    BY <1>0, FS_Interval
  <2>2. Cardinality(B) = IF 0 <= K THEN K - 0 + 1 ELSE 0
    BY <1>0, FS_Interval
  <2> QED
    BY <1>0, <2>1, <2>2
<1> HIDE DEF K
<1>3. (1 .. n) \subseteq A
  BY <1>0
<1> HIDE DEF A, B
<1>4. IsFiniteSet(A \X B) /\ Cardinality(A \X B) = MaxCallbacks * (K + 1)
  <2>1. IsFiniteSet(A \X B) /\ Cardinality(A \X B) = Cardinality(A) * Cardinality(B)
    BY <1>1, <1>2, FS_Product
  <2> QED
    BY <1>1, <1>2, <2>1
<1>5. MaxRaw = MaxCallbacks * (K + 1)
  BY DEF MaxRaw, K
<1>6. ASSUME NEW U, U \subseteq (1 .. n) \X B PROVE IsFiniteSet(U) /\ Cardinality(U) <= MaxRaw
  <2>1. U \subseteq A \X B
    BY <1>3, <1>6
  <2>2. IsFiniteSet(U) /\ Cardinality(U) <= Cardinality(A \X B)
    BY <1>4, <2>1, FS_Subset
  <2> QED
    BY <1>4, <1>5, <2>2
<1>7. ASSUME NEW S, S \subseteq 1 .. n
      PROVE  IsFiniteSet(S) /\ Cardinality(S) <= MaxCallbacks
  <2>1. S \subseteq A
    BY <1>3, <1>7
  <2>2. IsFiniteSet(S) /\ Cardinality(S) <= Cardinality(A)
    BY <1>1, <2>1, FS_Subset
  <2> QED
    BY <1>1, <2>2
<1> QED
  BY <1>6, <1>7 DEF B, K

LEMMA Counted ==
  ASSUME UiInv, callbacks' \in 0 .. MaxCallbacks, Used \subseteq Used', Stored \subseteq Stored'
  PROVE  /\ Cardinality(Used) <= Cardinality(Used') /\ Cardinality(Used') <= MaxRaw
         /\ \A x \in Used' \ Used : Cardinality(Used) + 1 <= Cardinality(Used')
         /\ Cardinality(Stored) <= Cardinality(Stored') /\ Cardinality(Stored') <= MaxCallbacks
         /\ \A x \in Stored' \ Stored : Cardinality(Stored) + 1 <= Cardinality(Stored')
         /\ Cardinality(Used) \in Nat /\ Cardinality(Used') \in Nat
         /\ Cardinality(Stored) \in Nat /\ Cardinality(Stored') \in Nat
<1>1. /\ Used' \subseteq (1 .. callbacks') \X (0 .. Len(Inner))
      /\ Stored' \subseteq 1 .. callbacks'
  BY DEF Used, Stored
<1>2. /\ IsFiniteSet(Used') /\ Cardinality(Used') <= MaxRaw
      /\ IsFiniteSet(Stored') /\ Cardinality(Stored') <= MaxCallbacks
  BY <1>1, Room
<1> QED
  BY <1>2, Grows

(* The bounds of the types follow. *)
LEMMA UiInvTypes == UiInv => TypeOK
<1> SUFFICES ASSUME UiInv PROVE TypeOK
  OBVIOUS
<1>1. callbacks \in 0 .. MaxCallbacks
  BY DEF UiInv, ClientsInv
<1>2. Used \subseteq (1 .. callbacks) \X (0 .. Len(Inner)) /\ Stored \subseteq 1 .. callbacks
  BY DEF Used, Stored
<1>3. /\ IsFiniteSet(Used) /\ Cardinality(Used) <= MaxRaw
      /\ IsFiniteSet(Stored) /\ Cardinality(Stored) <= MaxCallbacks
  BY <1>1, <1>2, Room
<1>4. Cardinality(Used) \in Nat /\ Cardinality(Stored) \in Nat
  BY <1>3, FS_CardinalityType
<1>5. \A l \in Listeners : next_token[l] \in 0 .. MaxRaw
  BY <1>3, <1>4, RawTokens DEF UiInv, CountInv, ListenersInv, ListenerInv
<1>6. next_generic \in 0 .. MaxCallbacks
  BY <1>3, <1>4, UiAssumption DEF UiInv, CountInv, ClientsInv
<1>7. subs \in [Listeners -> Seq(Subscription)] /\ hooked \in [Listeners -> BOOLEAN]
  BY DEF UiInv, ListenersInv, ListenerInv
<1>8. next_token \in [Listeners -> 0 .. MaxRaw]
  BY <1>5 DEF UiInv, ListenersInv
<1> QED
  BY <1>6, <1>7, <1>8 DEF UiInv, ClientsInv, TypeOK

-----------------------------------------------------------------------------
(* The steps.  A call only ever uses up what it has counted. *)
KeepsCount(p) ==
  \/ /\ p \in Frames /\ At(p).op \in Counting /\ At(p)'.cb = At(p).cb
     /\ At(p)'.op = "on_event" =>
          At(p).op = "on_event" /\ Len(At(p).tokens) <= Len(At(p)'.tokens)
  \/ At(p)'.cb \notin 1 .. callbacks

LEMMA Monotone ==
  ASSUME UiInv, callbacks' \in 0 .. MaxCallbacks, callbacks <= callbacks',
         stack' \in [Threads -> Seq(Call)],
         \A p \in Frames' : At(p)'.op \in Counting => KeepsCount(p)
  PROVE  Used \subseteq Used' /\ Stored \subseteq Stored'
<1>0. callbacks \in Nat /\ callbacks' \in Nat /\ 1 .. callbacks \subseteq 1 .. callbacks'
  BY UiAssumption DEF UiInv, ClientsInv
<1>1. ASSUME NEW x \in Used, x \in Remaining' PROVE FALSE
  <2>1. PICK p \in Frames' : /\ At(p)'.op = "on_event" /\ At(p)'.cb = x[1]
                             /\ Len(At(p)'.tokens) < x[2]
    BY <1>1 DEF Remaining
  <2>2. x[1] \in 1 .. callbacks /\ x \notin Remaining
    BY DEF Used
  <2>3. /\ p \in Frames /\ At(p).op = "on_event" /\ At(p).cb = x[1]
        /\ Len(At(p).tokens) <= Len(At(p)'.tokens)
    BY <2>1, <2>2 DEF KeepsCount, Counting
  <2>4. Len(At(p).tokens) \in Nat
    BY <2>3, FramesAreCalls DEF UiInv, Call
  <2>5. Len(At(p)'.tokens) \in Nat
    <3>1. At(p)' \in Call
      BY FramesTyped DEF Frames, At
    <3> QED
      BY <3>1 DEF Call
  <2>6. x \in Callback \X (1 .. Len(Inner))
    BY <1>1 DEF Remaining
  <2>7. Len(At(p).tokens) < x[2]
    BY <2>1, <2>3, <2>4, <2>5, <2>6
  <2>8. x \in Remaining
    BY <2>3, <2>6, <2>7 DEF Remaining
  <2> QED
    BY <2>2, <2>8
<1>2. ASSUME NEW cb \in Stored PROVE cb \in Stored'
  <2>1. cb \in 1 .. callbacks /\ \A p \in Frames : At(p).op \in Counting => At(p).cb # cb
    BY DEF Stored
  <2>2. \A p \in Frames' : At(p)'.op \in Counting => At(p)'.cb # cb
    BY <2>1 DEF KeepsCount
  <2> QED
    BY <1>0, <2>1, <2>2 DEF Stored
<1>3. ASSUME NEW x \in Used PROVE x \in Used'
  BY <1>0, <1>1 DEF Used
<1> QED
  BY <1>2, <1>3

(* A step that takes no token of a listener and no value of the counter. *)
LEMMA NothingTaken ==
  ASSUME UiInv, ListenersInv', ClientsInv', UNCHANGED <<next_token, next_generic, callbacks>>,
         \A p \in Frames' : At(p)'.op # "dispatch" => At(p)'.cb \in Callback,
         \A p \in Frames' : At(p)'.op \in Counting => p \in Frames /\ At(p)' = At(p)
  PROVE  UiInv'
<1>1. \A p \in Frames' : At(p)'.op \in Counting => KeepsCount(p)
  <2>1. \A p \in Frames : Len(At(p).tokens) \in Nat
    BY FramesAreCalls DEF UiInv, Call
  <2> QED
    BY <2>1 DEF KeepsCount
<1>2. Used \subseteq Used' /\ Stored \subseteq Stored'
  BY <1>1, Monotone, UiAssumption DEF UiInv, ClientsInv
<1>3. /\ Cardinality(Used) <= Cardinality(Used') /\ Cardinality(Stored) <= Cardinality(Stored')
      /\ Cardinality(Used) \in Nat /\ Cardinality(Used') \in Nat
      /\ Cardinality(Stored) \in Nat /\ Cardinality(Stored') \in Nat
  BY <1>2, Counted DEF UiInv, ClientsInv
<1>4. CallbacksInv'
  BY DEF UiInv, CallbacksInv
<1>5. CountInv'
  <2>1. \A l \in Listeners : next_token[l] \in Nat
    BY DEF UiInv, ListenersInv, ListenerInv
  <2>2. \A p \in Frames : At(p).read \in Nat
    BY FramesAreCalls DEF UiInv, Call
  <2>3. next_generic \in Nat
    BY DEF UiInv, ClientsInv
  <2>4. \A l \in Listeners : next_token'[l] <= Cardinality(Used')
    BY <1>3, <2>1 DEF UiInv, CountInv
  <2>5. next_generic' <= Cardinality(Stored')
    BY <1>3, <2>3 DEF UiInv, CountInv
  <2>6. ASSUME NEW p \in Frames', At(p)'.op = "make_token"
        PROVE  At(p)'.read <= Cardinality(Stored')
    <3>1. p \in Frames /\ At(p)' = At(p)
      BY <2>6 DEF Counting
    <3>2. At(p).read <= Cardinality(Stored) /\ At(p).read \in Nat
      BY <2>2, <2>6, <3>1 DEF UiInv, CountInv
    <3> QED
      BY <1>3, <3>1, <3>2
  <2> QED
    BY <2>4, <2>5, <2>6 DEF CountInv
<1> QED
  BY <1>4, <1>5 DEF UiInv

LEMMA CallbackIssued ==
  ASSUME UiInv, NewCallback
  PROVE  /\ callbacks \in Nat /\ callbacks' = callbacks + 1 /\ callbacks' \in 0 .. MaxCallbacks
         /\ callbacks' \in Callback /\ callbacks' \in 1 .. callbacks'
         /\ callbacks' \notin 1 .. callbacks /\ callbacks <= callbacks'
         /\ 1 .. callbacks \subseteq 1 .. callbacks'
BY UiAssumption DEF UiInv, ClientsInv, NewCallback, Callback

(* on_... subscribes to one event. *)
LEMMA SubscribeStep ==
  ASSUME UiInv, NEW th \in Threads, NEW event \in Events, Subscribe(th, event)
  PROVE  /\ UiInv'
         /\ next_token[event[1]] + 1 <= MaxRaw
<1> DEFINE l == event[1]
           h == [token |-> Public(l, next_token[l] + 1), cb |-> callbacks']
<1>0. /\ NewCallback /\ subscribe(l, event, callbacks') /\ l \in Listeners
      /\ UNCHANGED <<routes, next_generic, stack>>
      /\ given' = given \cup {h} /\ held' = held \cup {h}
  BY EventsListened DEF Subscribe, Give, generic
<1>1. /\ callbacks \in Nat /\ callbacks' = callbacks + 1 /\ callbacks' \in 0 .. MaxCallbacks
      /\ callbacks' \in Callback /\ callbacks' \in 1 .. callbacks'
      /\ callbacks' \notin 1 .. callbacks /\ callbacks <= callbacks'
      /\ 1 .. callbacks \subseteq 1 .. callbacks'
  BY <1>0, CallbackIssued
<1> HIDE DEF l
<1>2. Frames' = Frames /\ \A p \in Frames : At(p)' = At(p)
  BY <1>0 DEF Frames, At
<1>3. Used \subseteq Used' /\ Stored \subseteq Stored'
  <2>1. \A p \in Frames' : At(p)'.op \in Counting => KeepsCount(p)
    <3>1. \A p \in Frames : Len(At(p).tokens) \in Nat
      BY FramesAreCalls DEF UiInv, Call
    <3> QED
      BY <1>2, <3>1 DEF KeepsCount
  <2>2. stack' \in [Threads -> Seq(Call)]
    BY <1>0 DEF UiInv, ClientsInv
  <2> QED
    BY <1>1, <2>1, <2>2, Monotone
<1>4. <<callbacks', 0>> \in Used' \ Used
  BY <1>1, InnerEvents DEF Used, Remaining
<1>5. /\ Cardinality(Used) <= Cardinality(Used') /\ Cardinality(Stored) <= Cardinality(Stored')
      /\ Cardinality(Used) \in Nat /\ Cardinality(Used') \in Nat
      /\ Cardinality(Stored) \in Nat /\ Cardinality(Stored') \in Nat
      /\ Cardinality(Used) + 1 <= Cardinality(Used') /\ Cardinality(Used') <= MaxRaw
  BY <1>1, <1>3, <1>4, Counted
<1>6. /\ \A m \in Listeners : next_token[m] \in Nat /\ next_token[m] <= Cardinality(Used)
      /\ next_token[l] + 1 <= MaxRaw
  <2>1. \A m \in Listeners : next_token[m] \in Nat /\ next_token[m] <= Cardinality(Used)
    BY DEF UiInv, ListenersInv, ListenerInv, CountInv
  <2> QED
    BY <1>0, <1>5, <2>1, RawTokens
<1>7. /\ ListenersInv' /\ next_token[l] + 1 \in Raw /\ next_token'[l] = next_token[l] + 1
      /\ \A m \in Listeners \ {l} : next_token'[m] = next_token[m]
  BY <1>0, <1>1, <1>6, Subscribed DEF UiInv
<1>8. ClientsInv'
  <2>1. h \in Held
    BY <1>0, <1>1, <1>7, RawTokens DEF Held
  <2> QED
    BY <1>0, <1>1, <2>1 DEF UiInv, ClientsInv
<1>9. CallbacksInv'
  BY <1>1, <1>2 DEF UiInv, CallbacksInv
<1>10. CountInv'
  <2>1. \A m \in Listeners : next_token'[m] <= Cardinality(Used')
    BY <1>5, <1>6, <1>7
  <2>2. next_generic' <= Cardinality(Stored')
    BY <1>0, <1>5 DEF UiInv, CountInv, ClientsInv
  <2>3. ASSUME NEW p \in Frames, At(p).op = "make_token" PROVE At(p).read <= Cardinality(Stored')
    BY <1>5, <2>3, FramesAreCalls DEF UiInv, CountInv, Call
  <2> QED
    BY <1>2, <2>1, <2>2, <2>3 DEF CountInv
<1> QED
  BY <1>6, <1>7, <1>8, <1>9, <1>10 DEF UiInv, l

(* The counts hold after a step that uses up what it takes. *)
LEMMA CountsHold ==
  ASSUME UiInv, callbacks' \in 0 .. MaxCallbacks, Used \subseteq Used', Stored \subseteq Stored',
         \A l \in Listeners : \/ next_token'[l] = next_token[l]
                              \/ next_token'[l] = next_token[l] + 1 /\ Used' \ Used # {},
         next_generic' = next_generic \/ next_generic' <= Cardinality(Stored'),
         \A p \in Frames' : At(p)'.op = "make_token" =>
           (p \in Frames /\ At(p)' = At(p)) \/ At(p)'.read <= Cardinality(Stored')
  PROVE  CountInv'
<1>1. /\ Cardinality(Used) <= Cardinality(Used') /\ Cardinality(Stored) <= Cardinality(Stored')
      /\ Cardinality(Used) \in Nat /\ Cardinality(Used') \in Nat
      /\ Cardinality(Stored) \in Nat /\ Cardinality(Stored') \in Nat
      /\ Used' \ Used # {} => Cardinality(Used) + 1 <= Cardinality(Used')
  BY Counted
<1>2. \A l \in Listeners : next_token[l] \in Nat /\ next_token[l] <= Cardinality(Used)
  BY DEF UiInv, ListenersInv, ListenerInv, CountInv
<1>3. ASSUME NEW l \in Listeners PROVE next_token'[l] <= Cardinality(Used')
  BY <1>1, <1>2
<1>4. next_generic' <= Cardinality(Stored')
  BY <1>1 DEF UiInv, CountInv, ClientsInv
<1>5. ASSUME NEW p \in Frames', At(p)'.op = "make_token"
      PROVE  At(p)'.read <= Cardinality(Stored')
  <2>1. ASSUME p \in Frames, At(p)' = At(p)
        PROVE  At(p).read \in Nat /\ At(p).read <= Cardinality(Stored)
    BY <1>5, <2>1, FramesAreCalls DEF UiInv, CountInv, Call
  <2>2. CASE p \in Frames /\ At(p)' = At(p)
    <3>1. At(p).read \in Nat /\ At(p).read <= Cardinality(Stored)
      BY <2>1, <2>2
    <3> QED
      BY <1>1, <2>2, <3>1
  <2> QED
    BY <1>5, <2>2
<1> QED
  BY <1>3, <1>4, <1>5 DEF CountInv

(* on_event begins. *)
LEMMA OnEventStep ==
  ASSUME UiInv, NEW th \in Threads, CallOnEvent(th)
  PROVE  UiInv'
<1> DEFINE call == [NewCall("on_event") EXCEPT !.cb = callbacks']
<1>0. /\ NewCallback /\ Push(th, call)
      /\ UNCHANGED <<subs, next_token, hooked, routes, next_generic, given, held>>
  BY DEF CallOnEvent, listeners, generic
<1>1. /\ callbacks \in Nat /\ callbacks' = callbacks + 1 /\ callbacks' \in 0 .. MaxCallbacks
      /\ callbacks' \in Callback /\ callbacks' \in 1 .. callbacks'
      /\ callbacks' \notin 1 .. callbacks /\ callbacks <= callbacks'
      /\ 1 .. callbacks \subseteq 1 .. callbacks'
  BY <1>0, CallbackIssued
<1>2. call \in Call /\ call.op = "on_event" /\ call.cb = callbacks' /\ call.tokens = << >>
  BY <1>1, CallsMade DEF Call, NewCall
<1> HIDE DEF call
<1>3. stack' \in [Threads -> Seq(Call)]
  BY <1>0, <1>2, Entered DEF UiInv
<1>4. PICK new : /\ new \notin Frames /\ Frames' = Frames \cup {new} /\ At(new)' = call
                 /\ \A q \in Frames : At(q)' = At(q)
  BY <1>0, <1>2, Entered DEF UiInv
<1>5. Used \subseteq Used' /\ Stored \subseteq Stored'
  <2>1. \A p \in Frames' : At(p)'.op \in Counting => KeepsCount(p)
    <3>1. \A p \in Frames : Len(At(p).tokens) \in Nat
      BY FramesAreCalls DEF UiInv, Call
    <3> QED
      BY <1>1, <1>2, <1>3, <1>4, <3>1 DEF KeepsCount
  <2> QED
    BY <1>1, <1>3, <2>1, Monotone
<1>6. ListenersInv'
  BY <1>0 DEF UiInv, ListenersInv, ListenerInv
<1>7. ClientsInv'
  BY <1>0, <1>1, <1>3 DEF UiInv, ClientsInv
<1>8. CallbacksInv'
  <2>1. Len(call.tokens) <= Len(Inner)
    <3>1. Len(<< >>) = 0
      BY EmptySeq
    <3> QED
      BY <1>2, <3>1, InnerEvents
  <2>2. \A p \in Frames : At(p).op \in Counting => At(p).cb # call.cb
    BY <1>1, <1>2 DEF UiInv, CallbacksInv
  <2>3. \A p \in Frames' : At(p)'.op # "dispatch" => At(p)'.cb \in Callback
    BY <1>1, <1>2, <1>3, <1>4 DEF UiInv, CallbacksInv
  <2>4. \A p \in Frames' : At(p)'.op \in Counting =>
          At(p)'.cb \in 1 .. callbacks' /\ Len(At(p)'.tokens) <= Len(Inner)
    BY <1>1, <1>2, <1>3, <1>4, <2>1 DEF UiInv, CallbacksInv
  <2>5. \A p, q \in Frames' :
          p # q /\ At(p)'.op \in Counting /\ At(q)'.op \in Counting => At(p)'.cb # At(q)'.cb
    BY <1>3, <1>4, <2>2 DEF UiInv, CallbacksInv
  <2> QED
    BY <2>3, <2>4, <2>5 DEF CallbacksInv
<1>9. CountInv'
  <2>1. \A p \in Frames' : At(p)'.op = "make_token" => p \in Frames /\ At(p)' = At(p)
    BY <1>2, <1>4
  <2> QED
    BY <1>0, <1>1, <1>5, <2>1, CountsHold
<1> QED
  BY <1>6, <1>7, <1>8, <1>9 DEF UiInv

(* A call that counts gets on, and keeps its callback. *)
LEMMA CountingCallMoves ==
  ASSUME UiInv, NEW th \in Threads, ~Idle(th), Top(th).op \in Counting, NEW call \in Call,
         SetTop(th, call), call.cb = Top(th).cb, call.op # "dispatch",
         call.op = "on_event" => Top(th).op = "on_event" /\ Len(Top(th).tokens) <= Len(call.tokens),
         call.op \in Counting => Len(call.tokens) <= Len(Inner),
         callbacks' = callbacks
  PROVE  /\ stack' \in [Threads -> Seq(Call)]
         /\ Used \subseteq Used' /\ Stored \subseteq Stored'
         /\ CallbacksInv'
         /\ Top(th).cb \in 1 .. callbacks /\ Top(th).cb \in Callback
         /\ \E top \in Frames :
              /\ top = TopPlace(th) /\ At(top) = Top(th)
              /\ Frames' = Frames /\ At(top)' = call
              /\ \A q \in Frames \ {top} :
                   At(q)' = At(q) /\ (At(q).op \in Counting => At(q).cb # call.cb)
<1>0. stack' \in [Threads -> Seq(Call)]
  BY Advanced DEF UiInv
<1>1. PICK top \in Frames : /\ top = TopPlace(th) /\ At(top) = Top(th)
                            /\ Frames' = Frames /\ At(top)' = call
                            /\ \A q \in Frames \ {top} : At(q)' = At(q)
  BY Advanced DEF UiInv
<1>2. Top(th).cb \in 1 .. callbacks /\ Top(th).cb \in Callback
  BY <1>1 DEF UiInv, CallbacksInv, Counting
<1>3. \A q \in Frames \ {top} : At(q).op \in Counting => At(q).cb # call.cb
  BY <1>1 DEF UiInv, CallbacksInv
<1>4. \A p \in Frames' : At(p)'.op \in Counting => KeepsCount(p)
  <2>1. \A p \in Frames : Len(At(p).tokens) \in Nat
    BY FramesAreCalls DEF UiInv, Call
  <2>2. KeepsCount(top)
    BY <1>1 DEF KeepsCount
  <2>3. \A p \in Frames \ {top} : At(p)'.op \in Counting => KeepsCount(p)
    BY <1>1, <2>1 DEF KeepsCount
  <2> QED
    BY <1>1, <2>2, <2>3
<1>5. Used \subseteq Used' /\ Stored \subseteq Stored'
  <2>1. callbacks' \in 0 .. MaxCallbacks /\ callbacks <= callbacks'
    BY UiAssumption DEF UiInv, ClientsInv
  <2> QED
    BY <1>0, <1>4, <2>1, Monotone
<1>6. CallbacksInv'
  <2>1. \A p \in Frames' : At(p)'.op # "dispatch" => At(p)'.cb \in Callback
    BY <1>1, <1>2 DEF UiInv, CallbacksInv
  <2>2. \A p \in Frames' : At(p)'.op \in Counting =>
          At(p)'.cb \in 1 .. callbacks' /\ Len(At(p)'.tokens) <= Len(Inner)
    BY <1>1, <1>2 DEF UiInv, CallbacksInv
  <2>3. \A p, q \in Frames' :
          p # q /\ At(p)'.op \in Counting /\ At(q)'.op \in Counting => At(p)'.cb # At(q)'.cb
    BY <1>1, <1>3 DEF UiInv, CallbacksInv
  <2> QED
    BY <2>1, <2>2, <2>3 DEF CallbacksInv
<1> QED
  BY <1>0, <1>1, <1>2, <1>3, <1>5, <1>6

(* What a step does to the listeners. *)
ListenersMove ==
  \/ UNCHANGED listeners
  \/ \E l \in Listeners, event \in Events, cb \in Callback :
       next_token[l] + 1 <= MaxRaw /\ subscribe(l, event, cb)
  \/ \E l \in Listeners : \E raw : unsubscribe_listener(l, raw)

(* on_event subscribes to the next event. *)
LEMMA SubscribeInnerStep ==
  ASSUME UiInv, NEW th \in Threads, SubscribeInner(th)
  PROVE  UiInv' /\ ListenersMove
<1> DEFINE n == Len(Top(th).tokens)
           event == Inner[n + 1]
           l == event[1]
           t == Public(l, next_token[l] + 1)
           call == [Top(th) EXCEPT !.tokens = Append(Top(th).tokens, t)]
           cb == Top(th).cb
<1>0. /\ ~Idle(th) /\ Top(th).op = "on_event" /\ n < Len(Inner)
      /\ subscribe(l, event, cb) /\ SetTop(th, call)
      /\ UNCHANGED <<routes, next_generic, callbacks, given, held>>
  BY DEF SubscribeInner, In, generic, clients
<1>1. /\ Top(th) \in Call /\ TopPlace(th) \in Frames /\ At(TopPlace(th)) = Top(th)
  BY <1>0, TopIsFrame DEF UiInv
<1>2. n \in Nat /\ n + 1 \in 1 .. Len(Inner) /\ Top(th).tokens \in Seq(PublicToken)
  BY <1>0, <1>1, InnerEvents DEF Call
<1>3. event \in Events /\ l \in Listeners
  BY <1>2, InnerEvents
<1>4. cb \in 1 .. callbacks /\ cb \in Callback /\ callbacks' \in 0 .. MaxCallbacks
  BY <1>0, <1>1 DEF UiInv, CallbacksInv, ClientsInv, Counting
<1> HIDE DEF event, l
<1>5. next_token[l] \in Nat /\ next_token[l] <= Cardinality(Used)
  BY <1>3 DEF UiInv, ListenersInv, ListenerInv, CountInv
(* The inner subscription is one that is used up now. *)
<1>6. <<cb, n + 1>> \notin Used
  <2>1. <<cb, n + 1>> \in Remaining
    BY <1>0, <1>1, <1>2, <1>4 DEF Remaining
  <2> QED
    BY <2>1 DEF Used
<1>7. Cardinality(Used) + 1 <= MaxRaw /\ Cardinality(Used) \in Nat
  <2>1. callbacks \in 0 .. MaxCallbacks
    BY DEF UiInv, ClientsInv
  <2>2. <<cb, n + 1>> \in (1 .. callbacks) \X (0 .. Len(Inner))
    BY <1>2, <1>4
  <2>3. Used \subseteq (1 .. callbacks) \X (0 .. Len(Inner))
    BY DEF Used
  <2> DEFINE V == Used \cup {<<cb, n + 1>>}
  <2>4. V \subseteq (1 .. callbacks) \X (0 .. Len(Inner))
    BY <2>2, <2>3
  <2>5. IsFiniteSet(V) /\ Cardinality(V) <= MaxRaw
    BY <2>1, <2>4, Room
  <2>6. <<cb, n + 1>> \in V \ Used /\ Used \subseteq V
    BY <1>6
  <2> HIDE DEF V
  <2>7. /\ Cardinality(Used) \in Nat /\ Cardinality(V) \in Nat
        /\ Cardinality(Used) + 1 <= Cardinality(V)
    BY <2>5, <2>6, Grows
  <2> QED
    BY <2>5, <2>7, RawTokens
<1>8. next_token[l] + 1 <= MaxRaw
  BY <1>5, <1>7, RawTokens
<1>9. /\ ListenersInv' /\ next_token[l] + 1 \in Raw /\ next_token'[l] = next_token[l] + 1
      /\ \A m \in Listeners \ {l} : next_token'[m] = next_token[m]
  BY <1>0, <1>3, <1>4, <1>8, Subscribed DEF UiInv
<1>10. t \in PublicToken
  BY <1>3, <1>9, RawTokens
<1> HIDE DEF t
<1>11. /\ Append(Top(th).tokens, t) \in Seq(PublicToken)
       /\ Len(Append(Top(th).tokens, t)) = n + 1
  BY <1>2, <1>10, AppendProperties
<1>12. /\ call \in Call /\ call.op = "on_event" /\ call.cb = cb /\ Len(call.tokens) = n + 1
  BY <1>0, <1>1, <1>11 DEF Call
<1> HIDE DEF call
<1>13. n <= n + 1 /\ n + 1 <= Len(Inner)
  BY <1>2, InnerEvents
<1>14. /\ stack' \in [Threads -> Seq(Call)]
       /\ Used \subseteq Used' /\ Stored \subseteq Stored'
       /\ CallbacksInv'
  <2> HIDE DEF n
  <2> HIDE DEF cb
  <2>1. Top(th).op \in Counting /\ call.op # "dispatch" /\ call.cb = Top(th).cb
        /\ Len(Top(th).tokens) <= Len(call.tokens) /\ Len(call.tokens) <= Len(Inner)
    BY <1>0, <1>12, <1>13 DEF Counting, n, cb
  <2> QED
    BY <1>0, <1>12, <2>1, CountingCallMoves
<1>15. PICK top \in Frames : /\ top = TopPlace(th) /\ At(top) = Top(th)
                             /\ Frames' = Frames /\ At(top)' = call
                             /\ \A q \in Frames \ {top} :
                                  At(q)' = At(q) /\ (At(q).op \in Counting => At(q).cb # call.cb)
  <2> HIDE DEF n
  <2> HIDE DEF cb
  <2>1. Top(th).op \in Counting /\ call.op # "dispatch" /\ call.cb = Top(th).cb
        /\ Len(Top(th).tokens) <= Len(call.tokens) /\ Len(call.tokens) <= Len(Inner)
    BY <1>0, <1>12, <1>13 DEF Counting, n, cb
  <2> QED
    BY <1>0, <1>12, <2>1, CountingCallMoves
<1>16. <<cb, n + 1>> \in Used'
  <2>1. ASSUME NEW p \in Frames', At(p)'.op = "on_event", At(p)'.cb = cb,
               Len(At(p)'.tokens) < n + 1
        PROVE  FALSE
    <3>1. p # top
      BY <1>2, <1>12, <1>15, <2>1
    <3> QED
      BY <1>12, <1>15, <2>1, <3>1 DEF Counting
  <2>2. <<cb, n + 1>> \notin Remaining'
    BY <2>1 DEF Remaining
  <2>3. <<cb, n + 1>> \in (1 .. callbacks') \X (0 .. Len(Inner))
    BY <1>0, <1>2, <1>4
  <2> QED
    BY <2>2, <2>3 DEF Used
<1>17. CountInv'
  <2>1. \A p \in Frames' : At(p)'.op = "make_token" => p \in Frames /\ At(p)' = At(p)
    BY <1>12, <1>15
  <2>2. Used' \ Used # {}
    BY <1>6, <1>16
  <2>3. \A m \in Listeners : \/ next_token'[m] = next_token[m]
                             \/ next_token'[m] = next_token[m] + 1 /\ Used' \ Used # {}
    BY <1>9, <2>2
  <2> QED
    BY <1>0, <1>4, <1>14, <2>1, <2>3, CountsHold
<1>18. ClientsInv'
  BY <1>0, <1>14 DEF UiInv, ClientsInv
<1>19. ListenersMove
  BY <1>0, <1>3, <1>4, <1>8 DEF ListenersMove
<1> QED
  BY <1>9, <1>14, <1>17, <1>18, <1>19 DEF UiInv

(* make_generic_token loads the counter. *)
LEMMA LoadGenericStep ==
  ASSUME UiInv, NEW th \in Threads, LoadGeneric(th)
  PROVE  UiInv' /\ ListenersMove
<1> DEFINE call == [Top(th) EXCEPT !.op = "make_token", !.read = next_generic]
<1>0. /\ ~Idle(th) /\ Top(th).op = "on_event" /\ Len(Top(th).tokens) = Len(Inner)
      /\ SetTop(th, call)
      /\ UNCHANGED <<listeners, routes, next_generic, callbacks, given, held>>
  BY DEF LoadGeneric, In, generic, clients
<1>1. Top(th) \in Call /\ next_generic \in Nat /\ callbacks' \in 0 .. MaxCallbacks
  BY <1>0, TopIsFrame DEF UiInv, ClientsInv
<1>2. /\ call \in Call /\ call.op = "make_token" /\ call.cb = Top(th).cb
      /\ call.tokens = Top(th).tokens /\ call.read = next_generic
  BY <1>1 DEF Call
<1> HIDE DEF call
<1>3. /\ Top(th).op \in Counting /\ call.op # "dispatch" /\ call.op # "on_event"
      /\ Len(call.tokens) <= Len(Inner) /\ callbacks' = callbacks
  BY <1>0, <1>2, InnerEvents DEF Counting
<1>4. /\ stack' \in [Threads -> Seq(Call)]
      /\ Used \subseteq Used' /\ Stored \subseteq Stored'
      /\ CallbacksInv'
      /\ \E top \in Frames :
           /\ top = TopPlace(th) /\ At(top) = Top(th)
           /\ Frames' = Frames /\ At(top)' = call
           /\ \A q \in Frames \ {top} :
                At(q)' = At(q) /\ (At(q).op \in Counting => At(q).cb # call.cb)
  BY <1>0, <1>2, <1>3, CountingCallMoves
<1>5. PICK top \in Frames : /\ Frames' = Frames /\ At(top)' = call
                            /\ \A q \in Frames \ {top} : At(q)' = At(q)
  BY <1>4
<1>6. next_generic <= Cardinality(Stored')
  <2>1. /\ Cardinality(Stored) \in Nat /\ Cardinality(Stored') \in Nat
        /\ Cardinality(Stored) <= Cardinality(Stored')
    BY <1>1, <1>4, Counted
  <2> QED
    BY <1>1, <2>1 DEF UiInv, CountInv
<1>7. CountInv'
  <2>1. \A p \in Frames' : At(p)'.op = "make_token" =>
          (p \in Frames /\ At(p)' = At(p)) \/ At(p)'.read <= Cardinality(Stored')
    BY <1>2, <1>5, <1>6
  <2>2. next_token' = next_token
    BY <1>0 DEF listeners
  <2> QED
    BY <1>0, <1>1, <1>4, <2>1, <2>2, CountsHold
<1>8. ClientsInv'
  BY <1>0, <1>4 DEF UiInv, ClientsInv
<1>9. ListenersInv'
  BY <1>0 DEF UiInv, ListenersInv, ListenerInv, listeners
<1> QED
  BY <1>0, <1>4, <1>7, <1>8, <1>9 DEF UiInv, ListenersMove

(* It stores the value it read plus one. *)
LEMMA StoreGenericStep ==
  ASSUME UiInv, NEW th \in Threads, StoreGeneric(th)
  PROVE  UiInv' /\ ListenersMove
<1> DEFINE call == [Top(th) EXCEPT !.op = "add_route", !.read = Top(th).read + 1]
           cb == Top(th).cb
<1>0. /\ ~Idle(th) /\ Top(th).op = "make_token" /\ next_generic' = Top(th).read + 1
      /\ SetTop(th, call)
      /\ UNCHANGED <<listeners, routes, callbacks, given, held>>
  BY DEF StoreGeneric, In, clients
<1>1. /\ Top(th) \in Call /\ callbacks' \in 0 .. MaxCallbacks
      /\ TopPlace(th) \in Frames /\ At(TopPlace(th)) = Top(th)
  BY <1>0, TopIsFrame DEF UiInv, ClientsInv
<1>2. /\ call \in Call /\ call.op = "add_route" /\ call.cb = cb /\ Top(th).read \in Nat
  <2>1. Top(th).read \in Nat
    BY <1>1 DEF Call
  <2>2. Top(th).read + 1 \in Nat
    BY <2>1
  <2>3. \A k \in Nat : [Top(th) EXCEPT !.op = "add_route", !.read = k] \in Call
    BY <1>1 DEF Call
  <2>4. call \in Call
    BY <2>2, <2>3
  <2> QED
    BY <1>1, <2>1, <2>4 DEF Call
<1> HIDE DEF call
<1>3. /\ Top(th).op \in Counting /\ call.op # "dispatch" /\ call.op # "on_event"
      /\ call.op \notin Counting /\ callbacks' = callbacks
  BY <1>0, <1>2 DEF Counting
<1>4. /\ stack' \in [Threads -> Seq(Call)]
      /\ Used \subseteq Used' /\ Stored \subseteq Stored'
      /\ CallbacksInv'
      /\ cb \in 1 .. callbacks
      /\ \E top \in Frames :
           /\ top = TopPlace(th) /\ At(top) = Top(th)
           /\ Frames' = Frames /\ At(top)' = call
           /\ \A q \in Frames \ {top} :
                At(q)' = At(q) /\ (At(q).op \in Counting => At(q).cb # call.cb)
  BY <1>0, <1>2, <1>3, CountingCallMoves
<1>5. PICK top \in Frames : /\ Frames' = Frames /\ At(top)' = call
                            /\ \A q \in Frames \ {top} :
                                 At(q)' = At(q) /\ (At(q).op \in Counting => At(q).cb # cb)
  BY <1>2, <1>4
<1>6. cb \in Stored' \ Stored
  <2>1. cb \notin Stored
    BY <1>1, <1>3 DEF Stored
  <2>2. cb \in Stored'
    BY <1>3, <1>4, <1>5 DEF Stored
  <2> QED
    BY <2>1, <2>2
<1>7. next_generic' <= Cardinality(Stored')
  <2>1. /\ Cardinality(Stored) \in Nat /\ Cardinality(Stored') \in Nat
        /\ Cardinality(Stored) + 1 <= Cardinality(Stored')
    BY <1>1, <1>4, <1>6, Counted
  <2>2. Top(th).read <= Cardinality(Stored)
    BY <1>0, <1>1 DEF UiInv, CountInv
  <2> QED
    BY <1>0, <1>2, <2>1, <2>2
<1>8. CountInv'
  <2>1. \A p \in Frames' : At(p)'.op = "make_token" => p \in Frames /\ At(p)' = At(p)
    BY <1>2, <1>5
  <2>2. next_token' = next_token
    BY <1>0 DEF listeners
  <2> QED
    BY <1>0, <1>1, <1>4, <1>7, <2>1, <2>2, CountsHold
<1>9. ClientsInv'
  <2>1. next_generic' \in Nat
    BY <1>0, <1>2
  <2> QED
    BY <1>0, <1>4, <2>1 DEF UiInv, ClientsInv
<1>10. ListenersInv'
  BY <1>0 DEF UiInv, ListenersInv, ListenerInv, listeners
<1> QED
  BY <1>0, <1>4, <1>8, <1>9, <1>10 DEF UiInv, ListenersMove

(* A call returns that no longer counts, or an entry of the route table or *)
(* of a listener goes: no token is taken.                                  *)
LEMMA CallReturns ==
  ASSUME UiInv, NEW th \in Threads, ~Idle(th), Pop(th),
         DOMAIN routes' \subseteq PublicToken, routes' \in [DOMAIN routes' -> Seq(PublicToken)],
         given' \subseteq Held, held' \subseteq given', ListenersInv',
         UNCHANGED <<next_token, next_generic, callbacks>>
  PROVE  UiInv'
<1>1. stack' \in [Threads -> Seq(Call)]
  BY Left DEF UiInv
<1>2. PICK top \in Frames : /\ Frames' = Frames \ {top}
                            /\ \A q \in Frames \ {top} : At(q)' = At(q)
  BY Left DEF UiInv
<1>3. ClientsInv'
  BY <1>1 DEF UiInv, ClientsInv
<1>4. \A p \in Frames' : At(p)'.op # "dispatch" => At(p)'.cb \in Callback
  BY <1>2 DEF UiInv, CallbacksInv
<1>5. \A p \in Frames' : At(p)'.op \in Counting => p \in Frames /\ At(p)' = At(p)
  BY <1>2
<1> QED
  BY <1>3, <1>4, <1>5, NothingTaken

(* A call that does not count gets on. *)
LEMMA OtherCallMoves ==
  ASSUME UiInv, NEW th \in Threads, ~Idle(th), NEW call \in Call, SetTop(th, call),
         call.op \notin Counting, call.cb = Top(th).cb, call.op = Top(th).op,
         ListenersInv', UNCHANGED <<next_token, routes, next_generic, callbacks, given, held>>
  PROVE  UiInv'
<1>1. stack' \in [Threads -> Seq(Call)]
  BY Advanced DEF UiInv
<1>2. PICK top \in Frames : /\ At(top) = Top(th) /\ Frames' = Frames /\ At(top)' = call
                            /\ \A q \in Frames \ {top} : At(q)' = At(q)
  BY Advanced DEF UiInv
<1>3. ClientsInv'
  BY <1>1 DEF UiInv, ClientsInv
<1>4. \A p \in Frames' : At(p)'.op # "dispatch" => At(p)'.cb \in Callback
  BY <1>2 DEF UiInv, CallbacksInv
<1>5. \A p \in Frames' : At(p)'.op \in Counting => p \in Frames /\ At(p)' = At(p)
  BY <1>2
<1> QED
  BY <1>3, <1>4, <1>5, NothingTaken

(* A call that does not count is entered. *)
LEMMA OtherCallEntered ==
  ASSUME UiInv, NEW th \in Threads, NEW call \in Call, Push(th, call),
         call.op \notin Counting, call.op # "dispatch" => call.cb \in Callback,
         DOMAIN routes' \subseteq PublicToken, routes' \in [DOMAIN routes' -> Seq(PublicToken)],
         held' \subseteq held, UNCHANGED <<listeners, next_generic, callbacks, given>>
  PROVE  UiInv'
<1>1. stack' \in [Threads -> Seq(Call)]
  BY Entered DEF UiInv
<1>2. PICK new : /\ Frames' = Frames \cup {new} /\ At(new)' = call
                 /\ \A q \in Frames : At(q)' = At(q)
  BY Entered DEF UiInv
<1>3. ClientsInv'
  BY <1>1 DEF UiInv, ClientsInv
<1>4. \A p \in Frames' : At(p)'.op # "dispatch" => At(p)'.cb \in Callback
  BY <1>2 DEF UiInv, CallbacksInv
<1>5. \A p \in Frames' : At(p)'.op \in Counting => p \in Frames /\ At(p)' = At(p)
  BY <1>2
<1>6. ListenersInv'
  BY DEF UiInv, ListenersInv, ListenerInv, listeners
<1>7. UNCHANGED <<next_token, next_generic, callbacks>>
  BY DEF listeners
<1> QED
  BY <1>3, <1>4, <1>5, <1>6, <1>7, NothingTaken

LEMMA GenericTokens == \A c \in Callback : GENERIC_TOKEN_BASE + c \in PublicToken
BY DEF PublicToken

(* on_event puts its route in and returns. *)
LEMMA AddRouteStep ==
  ASSUME UiInv, NEW th \in Threads, NEW count \in Callback, AddRoute(th, count)
  PROVE  UiInv' /\ ListenersMove
<1> DEFINE token == GENERIC_TOKEN_BASE + count
           h == [token |-> token, cb |-> Top(th).cb]
<1>0. /\ ~Idle(th) /\ Top(th).op = "add_route"
      /\ routes' = [t \in DOMAIN routes \cup {token} |->
                      IF t \in DOMAIN routes THEN routes[t] ELSE Top(th).tokens]
      /\ given' = given \cup {h} /\ held' = held \cup {h}
      /\ Pop(th) /\ UNCHANGED <<listeners, next_generic, callbacks>>
  BY DEF AddRoute, In, Give
<1>1. Top(th) \in Call /\ TopPlace(th) \in Frames /\ At(TopPlace(th)) = Top(th)
  BY <1>0, TopIsFrame DEF UiInv
<1>2. Top(th).cb \in Callback /\ Top(th).tokens \in Seq(PublicToken)
  BY <1>0, <1>1 DEF UiInv, CallbacksInv, Call
<1>3. token \in PublicToken
  BY GenericTokens
<1>4. h \in Held
  BY <1>2, <1>3 DEF Held
<1> HIDE DEF token, h
<1>5. DOMAIN routes' \subseteq PublicToken /\ routes' \in [DOMAIN routes' -> Seq(PublicToken)]
  BY <1>0, <1>2, <1>3 DEF UiInv, ClientsInv
<1>6. given' \subseteq Held /\ held' \subseteq given'
  BY <1>0, <1>4 DEF UiInv, ClientsInv
<1>7. ListenersInv' /\ next_token' = next_token
  BY <1>0 DEF UiInv, ListenersInv, ListenerInv, listeners
<1>8. UiInv'
  BY <1>0, <1>5, <1>6, <1>7, CallReturns
<1> QED
  BY <1>0, <1>8 DEF ListenersMove

(* Whatever token is given back, one listener takes it. *)
LEMMA OneListenerTakesIt ==
  ASSUME ListenersInv, NEW token, unsubscribe_single(token)
  PROVE  /\ ListenersInv' /\ next_token' = next_token
         /\ ListenersMove
<1> DEFINE l == IF IsView(token) THEN "view" ELSE "ui"
           raw == IF IsView(token) THEN token - VIEW_TOKEN_BASE ELSE token
<1>1. unsubscribe_listener(l, raw) /\ l \in Listeners
  BY DEF unsubscribe_single, Listeners
<1> HIDE DEF l, raw
<1>2. ListenersInv' /\ next_token' = next_token
  BY <1>1, Unsubscribed
<1> QED
  BY <1>1, <1>2 DEF ListenersMove

LEMMA UnsubscribeSingleStep ==
  ASSUME UiInv, NEW th \in Threads, NEW h \in given, UnsubscribeSingle(th, h)
  PROVE  UiInv' /\ ListenersMove
<1>0. /\ unsubscribe_single(h.token) /\ held' = held \ {h}
      /\ UNCHANGED <<routes, next_generic, stack, callbacks, given>>
  BY DEF UnsubscribeSingle, generic
<1>1. ListenersInv' /\ next_token' = next_token /\ ListenersMove
  BY <1>0, OneListenerTakesIt DEF UiInv
<1>2. Frames' = Frames /\ \A p \in Frames : At(p)' = At(p)
  BY <1>0 DEF Frames, At
<1>3. ClientsInv'
  BY <1>0 DEF UiInv, ClientsInv
<1>4. /\ \A p \in Frames' : At(p)'.op # "dispatch" => At(p)'.cb \in Callback
      /\ \A p \in Frames' : At(p)'.op \in Counting => p \in Frames /\ At(p)' = At(p)
  BY <1>2 DEF UiInv, CallbacksInv
<1>5. UNCHANGED <<next_token, next_generic, callbacks>>
  BY <1>0, <1>1
<1>6. UiInv'
  BY <1>1, <1>3, <1>4, <1>5, NothingTaken
<1> QED
  BY <1>1, <1>6

LEMMA UnsubscribeGenericStep ==
  ASSUME UiInv, NEW th \in Threads, NEW h \in given, UnsubscribeGeneric(th, h)
  PROVE  UiInv' /\ ListenersMove
<1>0. held' = held \ {h} /\ UNCHANGED <<listeners, next_generic, callbacks, given>>
  BY DEF UnsubscribeGeneric
<1>1. ListenersMove
  BY <1>0 DEF ListenersMove
<1>2. CASE h.token \in DOMAIN routes
  <2> DEFINE tokens == routes[h.token]
             call == [NewCall("unsubscribe") EXCEPT !.cb = h.cb, !.tokens = tokens]
  <2>1. /\ routes' = [t \in DOMAIN routes \ {h.token} |-> routes[t]]
        /\ Push(th, call)
    BY <1>2 DEF UnsubscribeGeneric
  <2>2. h.cb \in Callback /\ tokens \in Seq(PublicToken)
    BY <1>2 DEF UiInv, ClientsInv, Held
  <2>3. NewCall("unsubscribe") \in Call /\ NewCall("unsubscribe").op = "unsubscribe"
    BY CallsMade DEF NewCall
  <2>4. call \in Call /\ call.op = "unsubscribe" /\ call.cb = h.cb
    BY <2>2, <2>3 DEF Call
  <2> HIDE DEF call, tokens
  <2>5. DOMAIN routes' \subseteq PublicToken /\ routes' \in [DOMAIN routes' -> Seq(PublicToken)]
    BY <2>1 DEF UiInv, ClientsInv
  <2>6. call.op \notin Counting /\ (call.op # "dispatch" => call.cb \in Callback)
    BY <2>2, <2>4 DEF Counting
  <2> QED
    BY <1>0, <1>1, <2>1, <2>4, <2>5, <2>6, OtherCallEntered
<1>3. CASE h.token \notin DOMAIN routes
  <2>0. UNCHANGED <<routes, stack>>
    BY <1>3 DEF UnsubscribeGeneric
  <2>1. ListenersInv' /\ next_token' = next_token
    BY <1>0 DEF UiInv, ListenersInv, ListenerInv, listeners
  <2>2. Frames' = Frames /\ \A p \in Frames : At(p)' = At(p)
    BY <2>0 DEF Frames, At
  <2>3. ClientsInv'
    BY <1>0, <2>0 DEF UiInv, ClientsInv
  <2>4. /\ \A p \in Frames' : At(p)'.op # "dispatch" => At(p)'.cb \in Callback
        /\ \A p \in Frames' : At(p)'.op \in Counting => p \in Frames /\ At(p)' = At(p)
    BY <2>2 DEF UiInv, CallbacksInv
  <2>5. UNCHANGED <<next_token, next_generic, callbacks>>
    BY <1>0, <2>1
  <2>6. UiInv'
    BY <2>1, <2>3, <2>4, <2>5, NothingTaken
  <2> QED
    BY <1>1, <2>6
<1> QED
  BY <1>2, <1>3

LEMMA UnsubscribeInnerStep ==
  ASSUME UiInv, NEW th \in Threads, UnsubscribeInner(th)
  PROVE  UiInv' /\ ListenersMove
<1> DEFINE call == [Top(th) EXCEPT !.tokens = Tail(Top(th).tokens)]
<1>0. /\ ~Idle(th) /\ Top(th).op = "unsubscribe" /\ Top(th).tokens # << >>
      /\ unsubscribe_single(Head(Top(th).tokens))
      /\ Pop(th) \/ SetTop(th, call)
      /\ UNCHANGED <<routes, next_generic, callbacks, given, held>>
  BY DEF UnsubscribeInner, In, generic, clients
<1>1. ListenersInv' /\ next_token' = next_token /\ ListenersMove
  BY <1>0, OneListenerTakesIt DEF UiInv
<1>2. Top(th) \in Call
  BY <1>0, TopIsFrame DEF UiInv
<1>3. call \in Call /\ call.op = "unsubscribe" /\ call.cb = Top(th).cb
  <2>1. Tail(Top(th).tokens) \in Seq(PublicToken)
    BY <1>0, <1>2, HeadTailProperties DEF Call
  <2> QED
    BY <1>0, <1>2, <2>1 DEF Call
<1> HIDE DEF call
<1>4. call.op \notin Counting /\ call.op = Top(th).op
  BY <1>0, <1>3 DEF Counting
<1>5. CASE SetTop(th, call)
  BY <1>0, <1>1, <1>3, <1>4, <1>5, OtherCallMoves
<1>6. CASE Pop(th)
  BY <1>0, <1>1, <1>6, CallReturns DEF UiInv, ClientsInv
<1> QED
  BY <1>0, <1>1, <1>5, <1>6

LEMMA CallbacksMatched ==
  ASSUME ListenersInv, NEW event \in Events
  PROVE  Matched(event) \in Seq(Callback)
<1> DEFINE entries == subs[event[1]]
           keep == {i \in DOMAIN entries : entries[i].event = event}
           matching == Picked(entries, keep)
<1>1. entries \in Seq(Subscription)
  BY EventsListened DEF ListenersInv, ListenerInv
<1>2. matching \in Seq(Subscription)
  BY <1>1, PickedInOrder DEF Selects
<1>3. Matched(event) = [i \in DOMAIN matching |-> matching[i].cb]
  BY DEF Matched
<1> HIDE DEF matching
<1>4. /\ Len(matching) \in Nat /\ DOMAIN matching = 1 .. Len(matching)
      /\ \A i \in DOMAIN matching : matching[i] \in Subscription
  BY <1>2, LenProperties, ElementOfSeq
<1>5. \A i \in 1 .. Len(matching) : matching[i].cb \in Callback
  BY <1>4 DEF Subscription
<1>6. [i \in 1 .. Len(matching) |-> matching[i].cb] \in Seq(Callback)
  BY <1>4, <1>5, IsASeq
<1> QED
  BY <1>3, <1>4, <1>6

LEMMA NotifyStep ==
  ASSUME UiInv, NEW th \in Threads, NEW event \in Events, Notify(th, event)
  PROVE  UiInv' /\ ListenersMove
<1> DEFINE call == [NewCall("dispatch") EXCEPT !.todo = Matched(event)]
<1>0. /\ Push(th, call)
      /\ UNCHANGED <<listeners, routes, next_generic, callbacks, given, held>>
  BY DEF Notify, generic, clients
<1>1. Matched(event) \in Seq(Callback)
  BY CallbacksMatched DEF UiInv
<1>2. NewCall("dispatch") \in Call /\ NewCall("dispatch").op = "dispatch"
  BY CallsMade DEF NewCall
<1>3. call \in Call /\ call.op = "dispatch"
  BY <1>1, <1>2 DEF Call
<1> HIDE DEF call
<1>4. DOMAIN routes' \subseteq PublicToken /\ routes' \in [DOMAIN routes' -> Seq(PublicToken)]
  BY <1>0 DEF UiInv, ClientsInv
<1>5. call.op \notin Counting /\ held' \subseteq held
  BY <1>0, <1>3 DEF Counting
<1>6. UiInv'
  BY <1>0, <1>3, <1>4, <1>5, OtherCallEntered
<1> QED
  BY <1>0, <1>6 DEF ListenersMove

(* A dispatch gets on to its next handler, or comes back from one. *)
LEMMA DispatchMoves ==
  ASSUME UiInv, NEW th \in Threads,
         (\E calls \in BOOLEAN : CallHandler(th, calls)) \/ HandlerReturns(th)
  PROVE  UiInv' /\ ListenersMove
<1>0. /\ ~Idle(th) /\ Top(th).op = "dispatch"
      /\ UNCHANGED <<listeners, routes, next_generic, callbacks, given, held>>
  BY DEF CallHandler, HandlerReturns, In, generic, clients
<1>1. Top(th) \in Call
  BY <1>0, TopIsFrame DEF UiInv
<1>2. \E call \in Call : SetTop(th, call) /\ call.op = "dispatch" /\ call.cb = Top(th).cb
  <2>1. ASSUME NEW calls \in BOOLEAN, CallHandler(th, calls)
        PROVE  \E call \in Call : SetTop(th, call) /\ call.op = "dispatch" /\ call.cb = Top(th).cb
    <3> DEFINE call == [Top(th) EXCEPT !.todo = Tail(Top(th).todo), !.running = calls]
    <3>1. SetTop(th, call) /\ Top(th).todo # << >>
      BY <2>1 DEF CallHandler
    <3>2. Tail(Top(th).todo) \in Seq(Callback)
      BY <1>1, <3>1, HeadTailProperties DEF Call
    <3>3. call \in Call /\ call.op = "dispatch" /\ call.cb = Top(th).cb
      BY <1>0, <1>1, <3>2 DEF Call
    <3> HIDE DEF call
    <3> QED
      BY <3>1, <3>3
  <2>2. ASSUME HandlerReturns(th)
        PROVE  \E call \in Call : SetTop(th, call) /\ call.op = "dispatch" /\ call.cb = Top(th).cb
    <3> DEFINE call == [Top(th) EXCEPT !.running = FALSE]
    <3>1. SetTop(th, call)
      BY <2>2 DEF HandlerReturns
    <3>2. call \in Call /\ call.op = "dispatch" /\ call.cb = Top(th).cb
      BY <1>0, <1>1 DEF Call
    <3> HIDE DEF call
    <3> QED
      BY <3>1, <3>2
  <2> QED
    BY <2>1, <2>2
<1>3. PICK call \in Call : SetTop(th, call) /\ call.op = "dispatch" /\ call.cb = Top(th).cb
  BY <1>2
<1>4. ListenersInv' /\ next_token' = next_token
  BY <1>0 DEF UiInv, ListenersInv, ListenerInv, listeners
<1>5. UiInv'
  BY <1>0, <1>3, <1>4, OtherCallMoves DEF Counting
<1> QED
  BY <1>0, <1>5 DEF ListenersMove

LEMMA DispatchReturnsStep ==
  ASSUME UiInv, NEW th \in Threads, DispatchReturns(th)
  PROVE  UiInv' /\ ListenersMove
<1>0. /\ ~Idle(th) /\ Pop(th)
      /\ UNCHANGED <<listeners, routes, next_generic, callbacks, given, held>>
  BY DEF DispatchReturns, In, generic, clients
<1>1. ListenersInv' /\ next_token' = next_token
  BY <1>0 DEF UiInv, ListenersInv, ListenerInv, listeners
<1>2. UiInv'
  BY <1>0, <1>1, CallReturns DEF UiInv, ClientsInv
<1> QED
  BY <1>0, <1>2 DEF ListenersMove

LEMMA UiStep == UiInv /\ [Next]_vars => UiInv' /\ ListenersMove
<1> SUFFICES ASSUME UiInv, [Next]_vars PROVE UiInv' /\ ListenersMove
  OBVIOUS
<1>1. CASE UNCHANGED vars
  <2>1. /\ UNCHANGED <<listeners, subs, next_token, hooked, routes, next_generic, stack>>
        /\ UNCHANGED <<callbacks, given, held>>
    BY <1>1 DEF vars, listeners, generic, clients
  <2>2. ListenersInv' /\ ListenersMove
    BY <2>1 DEF UiInv, ListenersInv, ListenerInv, ListenersMove
  <2>3. Frames' = Frames /\ \A p \in Frames : At(p)' = At(p)
    BY <2>1 DEF Frames, At
  <2>4. ClientsInv'
    BY <2>1 DEF UiInv, ClientsInv
  <2>5. /\ \A p \in Frames' : At(p)'.op # "dispatch" => At(p)'.cb \in Callback
        /\ \A p \in Frames' : At(p)'.op \in Counting => p \in Frames /\ At(p)' = At(p)
    BY <2>3 DEF UiInv, CallbacksInv
  <2>6. UiInv'
    BY <2>1, <2>2, <2>4, <2>5, NothingTaken
  <2> QED
    BY <2>2, <2>6
<1>2. ASSUME NEW th \in Threads, NEW event \in Events, Subscribe(th, event)
      PROVE  UiInv' /\ ListenersMove
  <2>1. UiInv' /\ next_token[event[1]] + 1 <= MaxRaw
    BY <1>2, SubscribeStep
  <2>2. event[1] \in Listeners /\ callbacks' \in Callback /\ subscribe(event[1], event, callbacks')
    BY <1>2, EventsListened, CallbackIssued DEF Subscribe
  <2>3. ListenersMove
    BY <2>1, <2>2 DEF ListenersMove
  <2> QED
    BY <2>1, <2>3
<1>3. ASSUME NEW th \in GenericThreads, CallOnEvent(th) PROVE UiInv' /\ ListenersMove
  BY <1>3, OnEventStep, UiAssumption DEF CallOnEvent, ListenersMove
<1>4. ASSUME NEW th \in Threads, DispatchReturns(th) PROVE UiInv' /\ ListenersMove
  BY <1>4, DispatchReturnsStep
<1> QED
  BY <1>1, <1>2, <1>3, <1>4, SubscribeInnerStep, LoadGenericStep, StoreGenericStep, AddRouteStep,
     UnsubscribeSingleStep, UnsubscribeGenericStep, UnsubscribeInnerStep, NotifyStep, DispatchMoves
     DEF Next

LEMMA UiInitially == Init => UiInv
<1> SUFFICES ASSUME Init PROVE UiInv
  OBVIOUS
<1>1. /\ subs = [l \in Listeners |-> << >>] /\ next_token = [l \in Listeners |-> 0]
      /\ hooked = [l \in Listeners |-> FALSE] /\ routes = << >> /\ next_generic = 0
      /\ stack = [th \in Threads |-> << >>] /\ callbacks = 0 /\ given = {} /\ held = {}
  BY DEF Init
<1>2. << >> \in Seq(Subscription) /\ << >> \in Seq(Call) /\ DOMAIN << >> = {}
  BY EmptySeq
<1>3. Frames = {}
  BY <1>1, <1>2 DEF Frames, FramesOf
<1>4. ASSUME NEW l \in Listeners PROVE ListenerInv(l)
  <2>1. subs[l] = << >> /\ next_token[l] = 0 /\ hooked[l] = FALSE
    BY <1>1
  <2>2. subs[l] \in Seq(Subscription) /\ next_token[l] \in Nat /\ hooked[l] \in BOOLEAN
    <3>1. 0 \in Nat /\ FALSE \in BOOLEAN
      OBVIOUS
    <3> QED
      BY <1>2, <2>1, <3>1, Zenon
  <2>3. TokensAscend(subs[l]) /\ \A e \in Entries(subs[l]) : e.token <= next_token[l]
    BY <1>2, <2>1 DEF TokensAscend, Entries
  <2>4. hooked[l] = (subs[l] # << >>)
    BY <2>1
  <2> QED
    BY <2>2, <2>3, <2>4 DEF ListenerInv
<1>5. ListenersInv
  BY <1>1, <1>4 DEF ListenersInv
<1>6. ClientsInv
  <2>1. DOMAIN routes = {} /\ routes \in [DOMAIN routes -> Seq(PublicToken)]
    BY <1>1, <1>2
  <2> QED
    BY <1>1, <1>2, <2>1, UiAssumption DEF ClientsInv
<1>7. CallbacksInv
  BY <1>3 DEF CallbacksInv
<1>8. CountInv
  <2>1. Used \subseteq (1 .. 0) \X (0 .. Len(Inner)) /\ Stored \subseteq 1 .. 0 /\ 0 \in 0 .. MaxCallbacks
    BY <1>1, UiAssumption DEF Used, Stored
  <2>2. IsFiniteSet(Used) /\ IsFiniteSet(Stored)
    BY <2>1, Room
  <2>3. Cardinality(Used) >= 0 /\ Cardinality(Stored) >= 0
    BY <2>2, FS_CardinalityType
  <2> QED
    BY <1>1, <1>3, <2>3 DEF CountInv
<1> QED
  BY <1>5, <1>6, <1>7, <1>8 DEF UiInv

(* Whatever threads do, no listener and no generic subscription runs out   *)
(* of its range of tokens: every token is one of PublicToken.              *)
THEOREM UiTypeCorrect == Spec => []TypeOK
<1> QED
  BY UiInitially, UiStep, UiInvTypes, PTL DEF Spec

LEMMA ListenerRefines ==
  ASSUME ListenersInv, ListenersMove, NEW m \in Listeners
  PROVE  \/ /\ LiveRaw(m)' = LiveRaw(m) /\ next_token'[m] = next_token[m]
            /\ hooked'[m] = hooked[m]
         \/ /\ next_token[m] + 1 \in Raw /\ next_token[m] \in Nat
            /\ next_token'[m] = next_token[m] + 1
            /\ LiveRaw(m)' = LiveRaw(m) \cup {next_token[m] + 1}
            /\ hooked'[m] = TRUE
         \/ \E t \in LiveRaw(m) : /\ LiveRaw(m)' = LiveRaw(m) \ {t}
                                  /\ hooked'[m] = (LiveRaw(m)' # {})
                                  /\ next_token'[m] = next_token[m]
<1>0. LiveRaw(m) = {e.token : e \in Entries(subs[m])} /\ LiveRaw(m)' = {e.token : e \in Entries(subs'[m])}
  BY DEF LiveRaw, Entries
<1>1. CASE UNCHANGED listeners
  BY <1>1 DEF listeners, LiveRaw
<1>2. ASSUME NEW l \in Listeners, NEW event \in Events, NEW cb \in Callback,
             next_token[l] + 1 <= MaxRaw, subscribe(l, event, cb), m # l
      PROVE  UNCHANGED <<LiveRaw(m), next_token[m], hooked[m]>>
  <2>1. subs'[m] = subs[m] /\ next_token'[m] = next_token[m] /\ hooked'[m] = hooked[m]
    BY <1>2, Subscribed
  <2> QED
    BY <1>0, <2>1
<1>3. ASSUME NEW event \in Events, NEW cb \in Callback,
             next_token[m] + 1 <= MaxRaw, subscribe(m, event, cb)
      PROVE  /\ next_token[m] + 1 \in Raw /\ next_token[m] \in Nat
             /\ next_token'[m] = next_token[m] + 1
             /\ LiveRaw(m)' = LiveRaw(m) \cup {next_token[m] + 1}
             /\ hooked'[m] = TRUE
  <2> DEFINE e == [token |-> next_token[m] + 1, event |-> event, cb |-> cb]
  <2>1. /\ next_token[m] + 1 \in Raw /\ next_token'[m] = next_token[m] + 1
        /\ Entries(subs'[m]) = Entries(subs[m]) \cup {e}
        /\ hooked'[m] = TRUE
    BY <1>3, Subscribed
  <2>2. e.token = next_token[m] + 1 /\ next_token[m] \in Nat
    BY DEF ListenersInv, ListenerInv
  <2> HIDE DEF e
  <2> QED
    BY <1>0, <2>1, <2>2
<1>4. ASSUME NEW l \in Listeners, NEW raw, unsubscribe_listener(l, raw), m # l
      PROVE  UNCHANGED <<LiveRaw(m), next_token[m], hooked[m]>>
  <2>1. subs'[m] = subs[m] /\ next_token' = next_token /\ hooked'[m] = hooked[m]
    BY <1>4, Unsubscribed
  <2> QED
    BY <1>0, <2>1
<1>5. ASSUME NEW raw, unsubscribe_listener(m, raw)
      PROVE  \/ UNCHANGED <<LiveRaw(m), next_token[m], hooked[m]>>
             \/ \E t \in LiveRaw(m) : /\ LiveRaw(m)' = LiveRaw(m) \ {t}
                                      /\ hooked'[m] = (LiveRaw(m)' # {})
                                      /\ next_token'[m] = next_token[m]
  <2>1. /\ ListenersInv' /\ next_token' = next_token
        /\ Entries(subs'[m]) = {e \in Entries(subs[m]) : e.token # raw}
    BY <1>5, Unsubscribed
  <2>2. LiveRaw(m)' = LiveRaw(m) \ {raw}
    BY <1>0, <2>1
  <2>3. /\ hooked[m] = (Entries(subs[m]) # {}) /\ hooked'[m] = (Entries(subs'[m]) # {})
    <3>1. \A s \in Seq(Subscription) : s = << >> <=> Entries(s) = {}
      BY EntriesTyped
    <3>2. /\ subs[m] \in Seq(Subscription) /\ subs'[m] \in Seq(Subscription)
          /\ hooked[m] = (subs[m] # << >>) /\ hooked'[m] = (subs'[m] # << >>)
      BY <2>1 DEF ListenersInv, ListenerInv
    <3> QED
      BY <3>1, <3>2
  <2>4. (Entries(subs'[m]) # {}) = (LiveRaw(m)' # {})
    BY <1>0
  <2>5. CASE raw \in LiveRaw(m)
    BY <2>1, <2>2, <2>3, <2>4, <2>5
  <2>6. CASE raw \notin LiveRaw(m)
    <3>1. Entries(subs'[m]) = Entries(subs[m])
      BY <1>0, <2>1, <2>6
    <3> QED
      BY <1>0, <2>1, <2>3, <3>1
  <2> QED
    BY <2>5, <2>6
<1> QED
  BY <1>1, <1>2, <1>3, <1>4, <1>5 DEF ListenersMove

(* The listener of the UI and the listener of the views each keep the      *)
(* promises that every event domain makes about tokens and its hook.       *)
THEOREM UiRefinesRegistries == Spec => ImplementRegistries
<1>1. Init => UiRegistry!Init /\ ViewRegistry!Init
  BY DEF Init, UiRegistry!Init, ViewRegistry!Init, LiveRaw, Listeners
<1>2. UiInv /\ [Next]_vars =>
        [UiRegistry!Next]_UiRegistry!vars /\ [ViewRegistry!Next]_ViewRegistry!vars
  <2> SUFFICES ASSUME UiInv, [Next]_vars
               PROVE  [UiRegistry!Next]_UiRegistry!vars /\ [ViewRegistry!Next]_ViewRegistry!vars
    OBVIOUS
  <2>1. ListenersInv /\ ListenersMove
    BY UiStep DEF UiInv
  <2>2. \A n \in Nat : n + 1 \notin 1 .. n /\ 1 .. (n + 1) = (1 .. n) \cup {n + 1}
    OBVIOUS
  <2>3. [UiRegistry!Next]_UiRegistry!vars
    <3>1. "ui" \in Listeners
      BY DEF Listeners
    <3> QED
      BY <2>1, <2>2, <3>1, ListenerRefines
         DEF UiRegistry!Next, UiRegistry!Subscribe, UiRegistry!Unsubscribe, UiRegistry!vars
  <2>4. [ViewRegistry!Next]_ViewRegistry!vars
    <3>1. "view" \in Listeners
      BY DEF Listeners
    <3> QED
      BY <2>1, <2>2, <3>1, ListenerRefines
         DEF ViewRegistry!Next, ViewRegistry!Subscribe, ViewRegistry!Unsubscribe, ViewRegistry!vars
  <2> QED
    BY <2>3, <2>4
<1> QED
  BY <1>1, <1>2, UiInitially, UiStep, PTL
     DEF Spec, ImplementRegistries, UiRegistry!Spec, ViewRegistry!Spec

(***************************************************************************)
(* UiEvents: whom the subscriptions belong to, when one thread at most     *)
(* makes composite subscriptions.                                          *)
(***************************************************************************)
Making == {"on_event", "make_token", "add_route"}

(* All these tokens were given out by the listeners. *)
Issued(counts, tokens) ==
  \A t \in tokens : \E l \in Listeners, r \in Raw : t = Public(l, r) /\ r <= counts[l]

(* The subscriptions of a callback are those behind these tokens. *)
Owns(live, tokens, cb) == \A e \in live : e[2].cb = cb <=> TokenOf(e) \in tokens

Record(live, counts, tokens, cb) == Issued(counts, tokens) /\ Owns(live, tokens, cb)

(* The tokens lead to the first inner subscriptions of a composite one. *)
AllThere(live, tokens) ==
  /\ Len(tokens) <= Len(Inner)
  /\ \A k \in 1 .. Len(tokens) :
       \E e \in live : TokenOf(e) = tokens[k] /\ e[2].event = Inner[k]

(* Only a dispatch calls the client, and only the client makes and gives   *)
(* back subscriptions, so these calls are the innermost ones.              *)
StackInv ==
  \A p \in Frames :
    /\ At(p).running => At(p).op = "dispatch"
    /\ At(p).op # "dispatch" => p = TopPlace(p[1])
    /\ At(p).op \in Making => p[1] \in GenericThreads

GivenInv(h) ==
  /\ h.cb \in 1 .. callbacks
  /\ h.token < GENERIC_TOKEN_BASE => Record(Live, next_token, {h.token}, h.cb)
  /\ ~(h.token < GENERIC_TOKEN_BASE) => h.token <= GENERIC_TOKEN_BASE + next_generic

(* A callback has one token, and a composite token is given once. *)
GivenOnce ==
  \A g, h \in given :
    /\ g.cb = h.cb => g = h
    /\ g.token = h.token /\ ~(g.token < GENERIC_TOKEN_BASE) => g = h

HeldInv(h) ==
  IF h.token < GENERIC_TOKEN_BASE
  THEN \E e \in Live : TokenOf(e) = h.token
  ELSE h.token \in DOMAIN routes

(* A composite subscription on its way: nobody was given a token for its   *)
(* callback, nor the token it is going to get.                             *)
MakingInv(f) ==
  /\ f.cb \in 1 .. callbacks
  /\ \A h \in given : h.cb # f.cb
  /\ Record(Live, next_token, Range(f.tokens), f.cb)
  /\ AllThere(Live, f.tokens)
  /\ f.op # "on_event" => Len(f.tokens) = Len(Inner) /\ f.read = next_generic
  /\ f.op = "add_route" => \A h \in given : h.token # GENERIC_TOKEN_BASE + next_generic

(* One on its way out: its token was given back. *)
RemovingInv(f) ==
  /\ Record(Live, next_token, Range(f.tokens), f.cb)
  /\ \E h \in given \ held : h.cb = f.cb

CallsInv ==
  \A p \in Frames : \A f \in Call : At(p) = f =>
    /\ f.op \in Making => MakingInv(f)
    /\ f.op = "unsubscribe" => RemovingInv(f)

RouteInv(t) ==
  /\ \E h \in held : h.token = t /\ Record(Live, next_token, Range(routes[t]), h.cb)
  /\ ~(t < GENERIC_TOKEN_BASE)
  /\ AllThere(Live, routes[t]) /\ Len(routes[t]) = Len(Inner)

OwnerOf(cb) ==
  \/ \E h \in held : h.cb = cb
  \/ \E p \in Frames : At(p).op # "dispatch" /\ At(p).cb = cb
OwnedInv == \A e \in Live : e[2].cb \in 1 .. callbacks /\ OwnerOf(e[2].cb)

TokensInv ==
  /\ StackInv
  /\ \A h \in given : GivenInv(h)
  /\ GivenOnce
  /\ \A h \in held : HeldInv(h)
  /\ CallsInv
  /\ \A t \in DOMAIN routes : RouteInv(t)
  /\ OwnedInv

-----------------------------------------------------------------------------
(* What changes for one callback leaves the others alone. *)

Moves(live, counts, live2, counts2, c) ==
  /\ \A l \in Listeners : counts[l] \in Nat /\ counts2[l] \in Nat /\ counts[l] <= counts2[l]
  /\ \A e \in live : e[2].cb # c => e \in live2
  /\ \A e \in live2 : e \notin live => e[2].cb = c /\ ~Issued(counts, {TokenOf(e)})

LEMMA RecordMoves ==
  ASSUME NEW live, NEW counts, NEW live2, NEW counts2, NEW c,
         Moves(live, counts, live2, counts2, c),
         NEW tokens, NEW cb, cb # c, Record(live, counts, tokens, cb)
  PROVE  Record(live2, counts2, tokens, cb)
<1>1. Issued(counts2, tokens)
  <2> SUFFICES ASSUME NEW t \in tokens
               PROVE  \E l \in Listeners, r \in Raw : t = Public(l, r) /\ r <= counts2[l]
    BY DEF Issued
  <2>1. PICK l \in Listeners, r \in Raw : t = Public(l, r) /\ r <= counts[l]
    BY DEF Record, Issued
  <2>2. counts[l] \in Nat /\ counts2[l] \in Nat /\ counts[l] <= counts2[l] /\ r \in Nat
    BY DEF Moves, Raw
  <2>3. r <= counts2[l]
    BY <2>1, <2>2
  <2> QED
    BY <2>1, <2>3
<1>2. ASSUME NEW e \in live2 PROVE e[2].cb = cb <=> TokenOf(e) \in tokens
  <2>1. CASE e \in live
    BY <2>1 DEF Record, Owns
  <2>2. CASE e \notin live
    <3>1. e[2].cb = c /\ ~Issued(counts, {TokenOf(e)})
      BY <2>2 DEF Moves
    <3>2. TokenOf(e) \notin tokens
      BY <3>1 DEF Record, Issued
    <3> QED
      BY <3>1, <3>2
  <2> QED
    BY <2>1, <2>2
<1> QED
  BY <1>1, <1>2 DEF Record, Owns

LEMMA AllThereMoves ==
  ASSUME NEW live, NEW counts, NEW live2, NEW counts2, NEW c,
         Moves(live, counts, live2, counts2, c),
         NEW C, NEW tokens \in Seq(C), NEW cb, cb # c,
         Owns(live, Range(tokens), cb), AllThere(live, tokens)
  PROVE  AllThere(live2, tokens)
<1>1. DOMAIN tokens = 1 .. Len(tokens)
  BY LenProperties
<1>2. ASSUME NEW k \in 1 .. Len(tokens)
      PROVE  \E e \in live2 : TokenOf(e) = tokens[k] /\ e[2].event = Inner[k]
  <2>1. PICK e \in live : TokenOf(e) = tokens[k] /\ e[2].event = Inner[k]
    BY DEF AllThere
  <2>2. tokens[k] \in Range(tokens)
    BY <1>1 DEF Range
  <2>3. e \in live2
    BY <2>1, <2>2 DEF Owns, Moves
  <2> QED
    BY <2>1, <2>3
<1> QED
  BY <1>2 DEF AllThere

(* Taking out subscriptions does not make the tokens of a callback wrong. *)
LEMMA RecordShrinks ==
  ASSUME NEW live, NEW counts, NEW live2, live2 \subseteq live,
         NEW tokens, NEW cb, Record(live, counts, tokens, cb)
  PROVE  Record(live2, counts, tokens, cb)
BY DEF Record, Owns

(* A subscription is made for a callback. *)
Joined(live, live2, event, cb, t) ==
  \E e : live2 = live \cup {e} /\ e[2].event = event /\ e[2].cb = cb /\ TokenOf(e) = t

LEMMA LiveIssued ==
  ASSUME ListenersInv, NEW e \in Live
  PROVE  Issued(next_token, {TokenOf(e)})
<1>1. /\ e[1] \in Listeners /\ e[2] \in Subscription /\ e[2] \in Entries(subs[e[1]])
  BY LiveFacts
<1>2. e[2].token \in Raw /\ e[2].token <= next_token[e[1]]
  BY <1>1, TokensAreNumbers DEF ListenersInv, ListenerInv
<1> QED
  BY <1>1, <1>2 DEF Issued, TokenOf

LEMMA SubscribedMoves ==
  ASSUME ListenersInv, NEW l \in Listeners, NEW event \in Events, NEW cb \in Callback,
         next_token[l] + 1 <= MaxRaw, subscribe(l, event, cb),
         NEW t, t = Public(l, next_token[l] + 1)
  PROVE  /\ Moves(Live, next_token, Live', next_token', cb)
         /\ Issued(next_token', {t}) /\ ~Issued(next_token, {t})
         /\ \A e \in Live : TokenOf(e) # t
         /\ Joined(Live, Live', event, cb, t)
<1> DEFINE e == <<l, Fresh(l, event, cb)>>
<1>1. e \in Listeners \X Subscription /\ Live' = Live \cup {e}
  BY LiveSubscribed
<1>2. e[1] = l /\ e[2].event = event /\ e[2].cb = cb /\ TokenOf(e) = t
  BY DEF Fresh, TokenOf
<1>3. /\ next_token[l] + 1 \in Raw
      /\ \A m \in Listeners : next_token[m] \in Nat
      /\ next_token' = [next_token EXCEPT ![l] = @ + 1]
      /\ DOMAIN next_token = Listeners
  <2>1. next_token[l] + 1 \in Raw
    BY Subscribed
  <2> QED
    BY <2>1 DEF ListenersInv, ListenerInv, subscribe
<1>4. /\ next_token'[l] = next_token[l] + 1
      /\ \A m \in Listeners \ {l} : next_token'[m] = next_token[m]
  BY <1>3
<1>5. \A m \in Listeners : next_token[m] \in Nat /\ next_token'[m] \in Nat
                           /\ next_token[m] <= next_token'[m]
  BY <1>3, <1>4
<1>6. Issued(next_token', {t})
  <2>1. next_token[l] + 1 <= next_token'[l]
    BY <1>3, <1>4
  <2> QED
    BY <1>3, <2>1 DEF Issued
<1>7. ~Issued(next_token, {t})
  <2> SUFFICES ASSUME NEW m \in Listeners, NEW r \in Raw, t = Public(m, r), r <= next_token[m]
               PROVE  FALSE
    BY DEF Issued
  <2>1. m = l /\ r = next_token[l] + 1
    BY <1>3, RawTokens
  <2> QED
    BY <1>3, <2>1
<1>8. \A d \in Live : TokenOf(d) # t
  BY <1>7, LiveIssued
<1> HIDE DEF e
<1>9. Moves(Live, next_token, Live', next_token', cb)
  BY <1>1, <1>2, <1>5, <1>7 DEF Moves
<1> QED
  BY <1>1, <1>2, <1>6, <1>7, <1>8, <1>9 DEF Joined

(* The subscription behind a token of a callback is taken out. *)
LEMMA UnsubscribedMoves ==
  ASSUME ListenersInv, NEW token \in PublicToken, token < GENERIC_TOKEN_BASE,
         unsubscribe_single(token), NEW tokens, token \in tokens, NEW c,
         Owns(Live, tokens, c)
  PROVE  /\ Moves(Live, next_token, Live', next_token', c)
         /\ Live' = {e \in Live : TokenOf(e) # token}
         /\ next_token' = next_token
<1>1. /\ next_token' = next_token
      /\ Live' = {e \in Live : TokenOf(e) # token}
  BY SingleUnsubscribed
<1>2. \A e \in Live : e[2].cb # c => e \in Live'
  BY <1>1 DEF Owns
<1>3. \A m \in Listeners : next_token[m] \in Nat /\ next_token[m] <= next_token[m]
  BY DEF ListenersInv, ListenerInv
<1> QED
  BY <1>1, <1>2, <1>3 DEF Moves

LEMMA NothingMoves ==
  ASSUME ListenersInv, UNCHANGED listeners, NEW c
  PROVE  Moves(Live, next_token, Live', next_token', c) /\ Live' = Live /\ next_token' = next_token
<1>1. Live' = Live /\ next_token' = next_token
  BY DEF listeners, Live
<1>2. \A m \in Listeners : next_token[m] \in Nat /\ next_token[m] <= next_token[m]
  BY DEF ListenersInv, ListenerInv
<1> QED
  BY <1>1, <1>2 DEF Moves

-----------------------------------------------------------------------------
(* Calls enter and leave. *)

OneMaker == \A g, h \in GenericThreads : g = h

LEMMA OneMaking ==
  ASSUME OneMaker, StackInv, NEW p \in Frames, NEW q \in Frames,
         At(p).op \in Making, At(q).op \in Making
  PROVE  p = q
<1>1. p[1] = q[1]
  BY DEF StackInv, OneMaker
<1>2. p = TopPlace(p[1]) /\ q = TopPlace(q[1])
  BY DEF StackInv, Making
<1> QED
  BY <1>1, <1>2

LEMMA StackEntered ==
  ASSUME ClientsInv, StackInv, NEW th \in Threads, RunsClientCode(th),
         NEW call \in Call, ~call.running, call.op \in Making => th \in GenericThreads,
         Push(th, call)
  PROVE  StackInv'
<1>1. PICK new : /\ new = NewPlace(th) /\ new \notin Frames
                 /\ Frames' = Frames \cup {new} /\ At(new)' = call
                 /\ \A q \in Frames : At(q)' = At(q)
  BY Entered
<1>2. /\ \A u \in Threads \ {th} : stack'[u] = stack[u]
      /\ Depth(th)' = Depth(th) + 1 /\ Depth(th) \in Nat
  BY Entered
<1>3. new = TopPlace(th)' /\ new[1] = th
  BY <1>1, <1>2 DEF NewPlace, TopPlace
<1>4. ASSUME NEW p \in Frames, At(p).op # "dispatch" PROVE p = TopPlace(p[1])'
  <2>1. p = TopPlace(p[1]) /\ p[1] \in Threads
    BY <1>4, FramesAreCalls DEF StackInv
  <2>2. p[1] # th
    <3> SUFFICES ASSUME p[1] = th PROVE FALSE
      OBVIOUS
    <3>1. ~Idle(th)
      <4>1. p[2] = Depth(th) /\ p[2] \in DOMAIN stack[th]
        BY <2>1, FramesTyped DEF TopPlace, Frames, FramesOf
      <4> QED
        BY <4>1 DEF Idle
    <3>2. At(p) = Top(th)
      BY <2>1, <3>1, TopIsFrame
    <3>3. At(p).running
      BY <3>1, <3>2 DEF RunsClientCode
    <3> QED
      BY <1>4, <3>3 DEF StackInv
  <2>3. Depth(p[1])' = Depth(p[1])
    BY <1>2, <2>1, <2>2 DEF Depth
  <2> QED
    BY <2>1, <2>3 DEF TopPlace
<1> SUFFICES ASSUME NEW p \in Frames'
             PROVE  /\ At(p)'.running => At(p)'.op = "dispatch"
                    /\ At(p)'.op # "dispatch" => p = TopPlace(p[1])'
                    /\ At(p)'.op \in Making => p[1] \in GenericThreads
  BY DEF StackInv
<1>5. CASE p \in Frames
  BY <1>1, <1>4, <1>5 DEF StackInv
<1>6. CASE p = new
  BY <1>1, <1>3, <1>6
<1> QED
  BY <1>1, <1>5, <1>6

LEMMA StackAdvanced ==
  ASSUME ClientsInv, StackInv, NEW th \in Threads, ~Idle(th),
         NEW call \in Call, call.running => call.op = "dispatch",
         call.op # "dispatch" => Top(th).op # "dispatch",
         call.op \in Making => Top(th).op \in Making,
         SetTop(th, call)
  PROVE  StackInv'
<1>1. PICK top \in Frames : /\ top = TopPlace(th) /\ At(top) = Top(th)
                            /\ Frames' = Frames /\ At(top)' = call
                            /\ \A q \in Frames \ {top} : At(q)' = At(q)
  BY Advanced
<1>2. \A u \in Threads : Depth(u)' = Depth(u)
  BY Advanced
<1>3. \A p \in Frames : TopPlace(p[1])' = TopPlace(p[1])
  BY <1>2, FramesAreCalls DEF TopPlace
<1> SUFFICES ASSUME NEW p \in Frames'
             PROVE  /\ At(p)'.running => At(p)'.op = "dispatch"
                    /\ At(p)'.op # "dispatch" => p = TopPlace(p[1])'
                    /\ At(p)'.op \in Making => p[1] \in GenericThreads
  BY DEF StackInv
<1>4. CASE p = top
  BY <1>1, <1>3, <1>4 DEF StackInv
<1>5. CASE p # top
  BY <1>1, <1>3, <1>5 DEF StackInv
<1> QED
  BY <1>4, <1>5

LEMMA StackLeft ==
  ASSUME ClientsInv, StackInv, NEW th \in Threads, ~Idle(th), Pop(th)
  PROVE  StackInv'
<1>1. PICK top \in Frames : /\ top = TopPlace(th) /\ At(top) = Top(th)
                            /\ Frames' = Frames \ {top}
                            /\ \A q \in Frames \ {top} : At(q)' = At(q)
  BY Left
<1>2. \A u \in Threads \ {th} : stack'[u] = stack[u]
  BY Left
<1>3. \A u \in Threads \ {th} : TopPlace(u)' = TopPlace(u)
  BY <1>2 DEF TopPlace, Depth
<1> SUFFICES ASSUME NEW p \in Frames'
             PROVE  /\ At(p)'.running => At(p)'.op = "dispatch"
                    /\ At(p)'.op # "dispatch" => p = TopPlace(p[1])'
                    /\ At(p)'.op \in Making => p[1] \in GenericThreads
  BY DEF StackInv
<1>4. p \in Frames /\ p # top /\ At(p)' = At(p) /\ p[1] \in Threads
  BY <1>1, FramesAreCalls
<1>5. ASSUME At(p).op # "dispatch" PROVE p = TopPlace(p[1])'
  <2>1. p = TopPlace(p[1])
    BY <1>4, <1>5 DEF StackInv
  <2>2. p[1] # th
    BY <1>1, <1>4, <2>1
  <2> QED
    BY <1>3, <1>4, <2>1, <2>2
<1> QED
  BY <1>4, <1>5 DEF StackInv

(* Nobody's calls move. *)
LEMMA StackStays ==
  ASSUME UNCHANGED stack
  PROVE  /\ Frames' = Frames /\ \A p \in Frames : At(p)' = At(p)
         /\ StackInv => StackInv'
<1>1. Frames' = Frames /\ \A p \in Frames : At(p)' = At(p)
  BY DEF Frames, FramesOf, At, FrameAt
<1>2. \A u : TopPlace(u)' = TopPlace(u)
  BY DEF TopPlace, Depth
<1> QED
  BY <1>1, <1>2 DEF StackInv

-----------------------------------------------------------------------------
(* What is kept of a callback for which nothing changes. *)

Others(c) == Moves(Live, next_token, Live', next_token', c)

LEMMA GivenKept ==
  ASSUME NEW c, Others(c), NEW h \in Held, GivenInv(h), h.cb # c,
         callbacks \in Nat, callbacks' \in Nat, callbacks <= callbacks',
         next_generic \in Nat, next_generic' \in Nat, next_generic <= next_generic'
  PROVE  GivenInv(h)'
<1>1. h.cb \in 1 .. callbacks'
  BY DEF GivenInv
<1>2. h.token < GENERIC_TOKEN_BASE => Record(Live', next_token', {h.token}, h.cb)
  BY RecordMoves DEF GivenInv, Others
<1>3. h.token \in Nat /\ GENERIC_TOKEN_BASE \in Nat
  BY UiAssumption, RawTokens DEF Held, PublicToken, Raw, Callback
<1>4. ~(h.token < GENERIC_TOKEN_BASE) => h.token <= GENERIC_TOKEN_BASE + next_generic'
  BY <1>3 DEF GivenInv
<1> QED
  BY <1>1, <1>2, <1>4 DEF GivenInv

LEMMA SingleKept ==
  ASSUME NEW c, Others(c), NEW h \in Held, GivenInv(h), h.cb # c,
         h.token < GENERIC_TOKEN_BASE, HeldInv(h)
  PROVE  HeldInv(h)'
<1>1. PICK e \in Live : TokenOf(e) = h.token
  BY DEF HeldInv
<1>2. e[2].cb = h.cb
  BY <1>1 DEF GivenInv, Record, Owns
<1>3. e \in Live'
  BY <1>2 DEF Others, Moves
<1> QED
  BY <1>1, <1>3 DEF HeldInv

LEMMA MakingKept ==
  ASSUME NEW c, Others(c), NEW f \in Call, MakingInv(f), f.cb # c,
         callbacks \in Nat, callbacks' \in Nat, callbacks <= callbacks',
         next_generic' = next_generic,
         \A h \in given' \ given : h.cb # f.cb /\ h.token # GENERIC_TOKEN_BASE + next_generic
  PROVE  MakingInv(f)'
<1>1. f.tokens \in Seq(PublicToken)
  BY DEF Call
<1>2. Record(Live', next_token', Range(f.tokens), f.cb)
  BY RecordMoves DEF MakingInv, Others
<1>3. AllThere(Live', f.tokens)
  BY <1>1, AllThereMoves DEF MakingInv, Others, Record
<1>4. f.cb \in 1 .. callbacks'
  BY DEF MakingInv
<1> QED
  BY <1>2, <1>3, <1>4 DEF MakingInv

LEMMA RemovingKept ==
  ASSUME NEW c, Others(c), NEW f \in Call, RemovingInv(f), f.cb # c,
         given \subseteq given', \A h \in given : h \in held' => h \in held
  PROVE  RemovingInv(f)'
<1>1. Record(Live', next_token', Range(f.tokens), f.cb)
  BY RecordMoves DEF RemovingInv, Others
<1> QED
  BY <1>1 DEF RemovingInv

LEMMA RouteKept ==
  ASSUME ClientsInv, NEW c, Others(c), NEW t \in DOMAIN routes, RouteInv(t),
         routes'[t] = routes[t], \A h \in held : h.token = t => h.cb # c /\ h \in held'
  PROVE  RouteInv(t)'
<1>1. PICK h \in held : h.token = t /\ Record(Live, next_token, Range(routes[t]), h.cb)
  BY DEF RouteInv
<1>2. routes[t] \in Seq(PublicToken)
  BY DEF ClientsInv
<1>3. Record(Live', next_token', Range(routes[t]), h.cb)
  BY <1>1, RecordMoves DEF Others
<1>4. AllThere(Live', routes[t])
  BY <1>1, <1>2, AllThereMoves DEF RouteInv, Others, Record
<1> QED
  BY <1>1, <1>3, <1>4 DEF RouteInv

-----------------------------------------------------------------------------
(* Every step keeps the invariant. *)

LEMMA CallsAre ==
  ASSUME CallsInv, ClientsInv, NEW p \in Frames
  PROVE  /\ At(p) \in Call
         /\ At(p).op \in Making => MakingInv(At(p))
         /\ At(p).op = "unsubscribe" => RemovingInv(At(p))
BY FramesAreCalls DEF CallsInv

LEMMA SubscribeTokens ==
  ASSUME UiInv, UiInv', TokensInv, NEW th \in Threads, NEW event \in Events,
         Subscribe(th, event)
  PROVE  TokensInv'
<1>0. PICK l, c : l = event[1] /\ c = callbacks'
  OBVIOUS
<1>1. /\ subscribe(l, event, c) /\ l \in Listeners /\ NewCallback
      /\ UNCHANGED <<routes, next_generic, stack>>
  BY <1>0, EventsListened DEF Subscribe, generic
<1>2. /\ callbacks \in Nat /\ c = callbacks + 1 /\ c \in Callback /\ c \in Nat
      /\ c \in 1 .. c /\ c \notin 1 .. callbacks /\ callbacks <= c
      /\ 1 .. callbacks \subseteq 1 .. c
  BY <1>0, <1>1, CallbackIssued DEF Callback
<1>3. ListenersInv /\ ClientsInv /\ ClientsInv' /\ next_token[l] + 1 <= MaxRaw
  BY <1>0, SubscribeStep DEF UiInv
<1>4. PICK t : t = Public(l, next_token[l] + 1)
  OBVIOUS
<1>5. /\ Others(c) /\ Issued(next_token', {t})
      /\ \A d \in Live : TokenOf(d) # t
      /\ Joined(Live, Live', event, c, t)
  <2>1. /\ Moves(Live, next_token, Live', next_token', c)
        /\ Issued(next_token', {t})
        /\ \A e \in Live : TokenOf(e) # t
        /\ Joined(Live, Live', event, c, t)
    BY <1>1, <1>2, <1>3, <1>4, SubscribedMoves
  <2> QED
    BY <2>1 DEF Others
<1>e. PICK e : Live' = Live \cup {e} /\ e[2].cb = c /\ TokenOf(e) = t
  BY <1>5 DEF Joined
<1>6. PICK h : h = [token |-> t, cb |-> c]
  OBVIOUS
<1>7. given' = given \cup {h} /\ held' = held \cup {h}
  BY <1>0, <1>4, <1>6 DEF Subscribe, Give
<1>8. t < GENERIC_TOKEN_BASE
  <2>1. next_token[l] + 1 \in Raw
    BY <1>1, <1>2, <1>3, Subscribed
  <2> QED
    BY <1>1, <1>4, <2>1, RawTokens
<1>9. \A g \in given : g.cb \in 1 .. callbacks /\ g.cb # c /\ g \in Held
  BY <1>2, <1>3 DEF TokensInv, GivenInv, ClientsInv
<1>10. Frames' = Frames /\ (\A p \in Frames : At(p)' = At(p)) /\ StackInv'
  BY <1>1, StackStays DEF TokensInv
<1>11. next_generic \in Nat
  BY <1>3 DEF ClientsInv
<1>12. \A g \in given' : GivenInv(g)'
  <2>1. \A g \in given : GivenInv(g)'
    BY <1>0, <1>1, <1>2, <1>5, <1>9, <1>11, GivenKept DEF TokensInv
  <2>2. GivenInv(h)'
    <3>1. Record(Live', next_token', {t}, c)
      <4>1. \A d \in Live : d[2].cb \in 1 .. callbacks
        BY DEF TokensInv, OwnedInv
      <4>2. Owns(Live', {t}, c)
        BY <1>2, <1>5, <1>e, <4>1 DEF Owns
      <4> QED
        BY <1>5, <4>2 DEF Record
    <3> QED
      BY <1>0, <1>2, <1>6, <1>8, <3>1 DEF GivenInv
  <2> QED
    BY <1>7, <2>1, <2>2
<1>13. GivenOnce'
  BY <1>6, <1>7, <1>8, <1>9 DEF TokensInv, GivenOnce
<1>14. \A g \in held' : HeldInv(g)'
  <2>1. ASSUME NEW g \in held PROVE HeldInv(g)'
    <3>1. g \in given /\ HeldInv(g) /\ GivenInv(g)
      BY <1>3 DEF TokensInv, ClientsInv
    <3>2. CASE g.token < GENERIC_TOKEN_BASE
      BY <1>5, <1>9, <3>1, <3>2, SingleKept
    <3>3. CASE ~(g.token < GENERIC_TOKEN_BASE)
      BY <1>1, <3>1, <3>3 DEF HeldInv
    <3> QED
      BY <3>2, <3>3
  <2>2. HeldInv(h)'
    BY <1>e, <1>6, <1>8 DEF HeldInv
  <2> QED
    BY <1>7, <2>1, <2>2
<1>15. CallsInv'
  <2> SUFFICES ASSUME NEW p \in Frames', NEW f \in Call, At(p)' = f
               PROVE  /\ f.op \in Making => MakingInv(f)'
                      /\ f.op = "unsubscribe" => RemovingInv(f)'
    BY DEF CallsInv
  <2>1. p \in Frames /\ At(p) = f
    BY <1>10
  <2>2. /\ f.op \in Making => MakingInv(f)
        /\ f.op = "unsubscribe" => RemovingInv(f)
    BY <2>1 DEF TokensInv, CallsInv
  <2>3. ASSUME f.op \in Making PROVE MakingInv(f)'
    <3>1. MakingInv(f) /\ f.cb # c
      BY <1>2, <2>2, <2>3 DEF MakingInv
    <3>2. \A g \in given' \ given : g.cb # f.cb /\ g.token # GENERIC_TOKEN_BASE + next_generic
      <4>1. h.cb = c /\ h.token = t
        BY <1>6
      <4>2. t # GENERIC_TOKEN_BASE + next_generic
        BY <1>8, <1>11, UiAssumption
      <4> QED
        BY <1>7, <3>1, <4>1, <4>2
    <3> QED
      BY <1>0, <1>1, <1>2, <1>5, <3>1, <3>2, MakingKept
  <2>4. ASSUME f.op = "unsubscribe" PROVE RemovingInv(f)'
    <3>1. RemovingInv(f) /\ f.cb # c
      BY <1>9, <2>2, <2>4 DEF RemovingInv
    <3>2. h \notin given
      BY <1>6, <1>9
    <3> QED
      BY <1>5, <1>7, <3>1, <3>2, RemovingKept
  <2> QED
    BY <2>3, <2>4
<1>16. ASSUME NEW u \in DOMAIN routes' PROVE RouteInv(u)'
  <2>1. u \in DOMAIN routes /\ routes'[u] = routes[u] /\ RouteInv(u)
    BY <1>1 DEF TokensInv
  <2>2. \A g \in held : g.token = u => g.cb # c /\ g \in held'
    BY <1>3, <1>7, <1>9 DEF ClientsInv
  <2> QED
    BY <1>3, <1>5, <2>1, <2>2, RouteKept
<1>17. OwnedInv'
  <2>1. ASSUME NEW d \in Live PROVE d[2].cb \in 1 .. c /\ OwnerOf(d[2].cb)'
    <3>1. d[2].cb \in 1 .. callbacks /\ OwnerOf(d[2].cb)
      BY DEF TokensInv, OwnedInv
    <3> QED
      BY <1>2, <1>7, <1>10, <3>1 DEF OwnerOf
  <2>2. OwnerOf(c)'
    BY <1>6, <1>7 DEF OwnerOf
  <2> QED
    BY <1>0, <1>2, <1>e, <2>1, <2>2 DEF OwnedInv
<1> QED
  BY <1>10, <1>12, <1>13, <1>14, <1>15, <1>16, <1>17 DEF TokensInv

(* No listener, client or counter changes. *)
LEMMA ClientsStay ==
  ASSUME UNCHANGED <<listeners, callbacks, given, next_generic>>, held' \subseteq held
  PROVE  /\ Live' = Live
         /\ \A f : MakingInv(f) => MakingInv(f)'
         /\ \A f : RemovingInv(f) => RemovingInv(f)'
         /\ \A h : GivenInv(h) => GivenInv(h)'
         /\ GivenOnce => GivenOnce'
<1>1. Live' = Live /\ next_token' = next_token
  BY DEF listeners, Live
<1> QED
  BY <1>1 DEF MakingInv, RemovingInv, GivenInv, GivenOnce

LEMMA DispatchTokens ==
  ASSUME UiInv, TokensInv, UNCHANGED <<listeners, generic, clients>>, StackInv',
         stack' \in [Threads -> Seq(Call)],
         \A p \in Frames' : At(p)'.op # "dispatch" => p \in Frames /\ At(p)' = At(p),
         \A p \in Frames : At(p).op # "dispatch" => p \in Frames' /\ At(p)' = At(p)
  PROVE  TokensInv'
<1>1. UNCHANGED <<routes, next_generic, callbacks, given, held, next_token>>
  BY DEF generic, clients, listeners
<1>2. /\ Live' = Live
      /\ \A f : MakingInv(f) => MakingInv(f)'
      /\ \A f : RemovingInv(f) => RemovingInv(f)'
      /\ \A h : GivenInv(h) => GivenInv(h)'
      /\ GivenOnce => GivenOnce'
  BY <1>1, ClientsStay
<1>3. (\A h \in given' : GivenInv(h)') /\ GivenOnce'
  BY <1>1, <1>2 DEF TokensInv
<1>4. \A h \in held' : HeldInv(h)'
  BY <1>1, <1>2 DEF TokensInv, HeldInv
<1>5. \A t \in DOMAIN routes' : RouteInv(t)'
  BY <1>1, <1>2 DEF TokensInv, RouteInv
<1>6. CallsInv'
  <2> SUFFICES ASSUME NEW p \in Frames', NEW f \in Call, At(p)' = f
               PROVE  /\ f.op \in Making => MakingInv(f)'
                      /\ f.op = "unsubscribe" => RemovingInv(f)'
    BY DEF CallsInv
  <2>1. CASE f.op = "dispatch"
    BY <2>1 DEF Making
  <2>2. CASE f.op # "dispatch"
    <3>1. p \in Frames /\ At(p) = f
      BY <2>2
    <3> QED
      BY <1>2, <3>1 DEF TokensInv, CallsInv
  <2> QED
    BY <2>1, <2>2
<1>7. OwnedInv'
  BY <1>1, <1>2 DEF TokensInv, OwnedInv, OwnerOf
<1> QED
  BY <1>3, <1>4, <1>5, <1>6, <1>7 DEF TokensInv

LEMMA NotifyTokens ==
  ASSUME UiInv, UiInv', TokensInv, NEW th \in Threads, NEW event \in Events, Notify(th, event)
  PROVE  TokensInv'
<1> DEFINE call == [NewCall("dispatch") EXCEPT !.todo = Matched(event)]
<1>1. /\ RunsClientCode(th) /\ Push(th, call) /\ UNCHANGED <<listeners, generic, clients>>
      /\ ClientsInv /\ StackInv /\ stack' \in [Threads -> Seq(Call)]
  BY DEF Notify, UiInv, TokensInv, ClientsInv
<1>2. call \in Call /\ call.op = "dispatch" /\ ~call.running
  <2>1. Matched(event) \in Seq(Callback)
    BY CallbacksMatched, EventsListened DEF UiInv
  <2> QED
    BY <2>1, CallsMade DEF Call, NewCall
<1> HIDE DEF call
<1>3. StackInv'
  <2>1. call.op \notin Making
    BY <1>2 DEF Making
  <2> QED
    BY <1>1, <1>2, <2>1, StackEntered
<1>4. PICK new : /\ new \notin Frames /\ Frames' = Frames \cup {new} /\ At(new)' = call
                 /\ \A q \in Frames : At(q)' = At(q)
  BY <1>1, <1>2, Entered
<1> QED
  BY <1>1, <1>2, <1>3, <1>4, DispatchTokens

LEMMA HandlerTokens ==
  ASSUME UiInv, UiInv', TokensInv, NEW th \in Threads,
         \/ \E calls \in BOOLEAN : CallHandler(th, calls)
         \/ HandlerReturns(th)
         \/ DispatchReturns(th)
  PROVE  TokensInv'
<1>1. /\ ~Idle(th) /\ Top(th).op = "dispatch" /\ UNCHANGED <<listeners, generic, clients>>
      /\ ClientsInv /\ StackInv /\ stack' \in [Threads -> Seq(Call)]
  BY DEF CallHandler, HandlerReturns, DispatchReturns, In, UiInv, TokensInv, ClientsInv
<1>2. Top(th) \in Call
  BY <1>1, TopIsFrame
<1>3. ASSUME NEW call \in Call, call.op = "dispatch", SetTop(th, call) PROVE TokensInv'
  <2>1. PICK top \in Frames : /\ At(top) = Top(th) /\ Frames' = Frames /\ At(top)' = call
                              /\ \A q \in Frames \ {top} : At(q)' = At(q)
    BY <1>1, <1>3, Advanced
  <2>2. StackInv'
    <3>1. call.op \notin Making
      BY <1>3 DEF Making
    <3> QED
      BY <1>1, <1>3, <3>1, StackAdvanced
  <2> QED
    BY <1>1, <1>3, <2>1, <2>2, DispatchTokens
<1>4. ASSUME NEW calls \in BOOLEAN, CallHandler(th, calls) PROVE TokensInv'
  <2>1. /\ Top(th).todo # << >>
        /\ SetTop(th, [Top(th) EXCEPT !.todo = Tail(Top(th).todo), !.running = calls])
    BY <1>4 DEF CallHandler
  <2>2. Tail(Top(th).todo) \in Seq(Callback)
    BY <1>2, <2>1, HeadTailProperties DEF Call
  <2>3. PICK call : call = [Top(th) EXCEPT !.todo = Tail(Top(th).todo), !.running = calls]
    OBVIOUS
  <2>4. call \in Call /\ call.op = "dispatch"
    BY <1>1, <1>2, <2>2, <2>3 DEF Call
  <2> QED
    BY <1>3, <2>1, <2>3, <2>4
<1>5. ASSUME HandlerReturns(th) PROVE TokensInv'
  <2>1. PICK call : call = [Top(th) EXCEPT !.running = FALSE]
    OBVIOUS
  <2>2. call \in Call /\ call.op = "dispatch"
    BY <1>1, <1>2, <2>1 DEF Call
  <2> QED
    BY <1>3, <1>5, <2>1, <2>2 DEF HandlerReturns
<1>6. ASSUME DispatchReturns(th) PROVE TokensInv'
  <2>1. Pop(th)
    BY <1>6 DEF DispatchReturns
  <2>2. PICK top \in Frames : /\ At(top) = Top(th) /\ Frames' = Frames \ {top}
                              /\ \A q \in Frames \ {top} : At(q)' = At(q)
    BY <1>1, <2>1, Left
  <2>3. StackInv'
    BY <1>1, <2>1, StackLeft
  <2> QED
    BY <1>1, <2>2, <2>3, DispatchTokens
<1> QED
  BY <1>4, <1>5, <1>6

(* on_event is called. *)
LEMMA OnEventTokens ==
  ASSUME UiInv, UiInv', TokensInv, NEW th \in GenericThreads, CallOnEvent(th)
  PROVE  TokensInv'
<1>0. PICK c : c = callbacks'
  OBVIOUS
<1> DEFINE call == [NewCall("on_event") EXCEPT !.cb = c]
<1>1. /\ RunsClientCode(th) /\ Push(th, call) /\ NewCallback /\ th \in Threads
      /\ UNCHANGED <<listeners, routes, next_generic, given, held>>
      /\ ListenersInv /\ ClientsInv /\ StackInv
  BY <1>0, UiAssumption DEF CallOnEvent, UiInv, TokensInv, generic
<1>2. /\ callbacks \in Nat /\ c = callbacks + 1 /\ c \in Callback /\ c \in Nat
      /\ c \in 1 .. c /\ c \notin 1 .. callbacks /\ callbacks <= c
      /\ 1 .. callbacks \subseteq 1 .. c
  BY <1>0, <1>1, CallbackIssued DEF Callback
<1>3. Others(c) /\ Live' = Live /\ next_token' = next_token
  BY <1>1, NothingMoves DEF Others
<1>4. /\ call \in Call /\ call.op = "on_event" /\ ~call.running
      /\ call.cb = c /\ call.tokens = << >>
  BY <1>2, CallsMade DEF Call, NewCall
<1> HIDE DEF call
<1>5. StackInv'
  BY <1>1, <1>4, StackEntered
<1>6. PICK new : /\ new \notin Frames /\ Frames' = Frames \cup {new} /\ At(new)' = call
                 /\ \A q \in Frames : At(q)' = At(q)
  BY <1>1, <1>4, Entered
<1>7. \A g \in given : g.cb \in 1 .. callbacks /\ g.cb # c /\ g \in Held
  BY <1>1, <1>2 DEF TokensInv, GivenInv, ClientsInv
<1>8. next_generic \in Nat /\ next_generic <= next_generic
  BY <1>1 DEF ClientsInv
<1>9. \A g \in given' : GivenInv(g)'
  BY <1>0, <1>1, <1>2, <1>3, <1>7, <1>8, GivenKept DEF TokensInv
<1>10. GivenOnce' /\ \A g \in held' : HeldInv(g)'
  BY <1>1, <1>3 DEF TokensInv, GivenOnce, HeldInv
<1>11. \A t \in DOMAIN routes' : RouteInv(t)'
  BY <1>1, <1>3 DEF TokensInv, RouteInv
<1>12. MakingInv(call)'
  <2>1. Range(call.tokens) = {} /\ Len(call.tokens) = 0
    BY <1>4 DEF Range
  <2>2. \A e \in Live : e[2].cb # c
    BY <1>2 DEF TokensInv, OwnedInv
  <2>3. Record(Live, next_token, {}, c)
    BY <2>2 DEF Record, Issued, Owns
  <2>4. AllThere(Live, call.tokens)
    BY <2>1, InnerEvents DEF AllThere
  <2> QED
    BY <1>0, <1>1, <1>2, <1>3, <1>4, <1>7, <2>1, <2>3, <2>4 DEF MakingInv
<1>13. CallsInv'
  <2> SUFFICES ASSUME NEW p \in Frames', NEW f \in Call, At(p)' = f
               PROVE  /\ f.op \in Making => MakingInv(f)'
                      /\ f.op = "unsubscribe" => RemovingInv(f)'
    BY DEF CallsInv
  <2>1. CASE p = new
    BY <1>4, <1>6, <1>12, <2>1
  <2>2. CASE p \in Frames
    <3>1. At(p) = f
      BY <1>6, <2>2
    <3>2. /\ f.op \in Making => MakingInv(f) /\ f.cb # c
          /\ f.op = "unsubscribe" => RemovingInv(f) /\ f.cb # c
      BY <1>2, <1>7, <2>2, <3>1 DEF TokensInv, CallsInv, MakingInv, RemovingInv
    <3> QED
      BY <1>0, <1>1, <1>2, <1>3, <3>2, MakingKept, RemovingKept
  <2> QED
    BY <1>6, <2>1, <2>2
<1>14. OwnedInv'
  <2>1. \A b : OwnerOf(b) => OwnerOf(b)'
    BY <1>1, <1>6 DEF OwnerOf
  <2> QED
    BY <1>0, <1>2, <1>3, <2>1 DEF TokensInv, OwnedInv
<1> QED
  BY <1>5, <1>9, <1>10, <1>11, <1>13, <1>14 DEF TokensInv

(* The call that makes a composite subscription moves on. *)
LEMMA MakingMoves ==
  ASSUME OneMaker, UiInv, TokensInv, NEW th \in Threads, ~Idle(th), Top(th).op \in Making,
         NEW call \in Call, SetTop(th, call), call.op \in Making, ~call.running,
         call.cb = Top(th).cb, MakingInv(call)',
         \A f \in Call : RemovingInv(f) /\ f.cb # call.cb => RemovingInv(f)',
         UNCHANGED held
  PROVE  /\ StackInv' /\ CallsInv'
         /\ \A b : OwnerOf(b) => OwnerOf(b)'
<1>1. PICK top \in Frames : /\ At(top) = Top(th) /\ Frames' = Frames /\ At(top)' = call
                            /\ \A q \in Frames \ {top} : At(q)' = At(q)
  BY Advanced DEF UiInv
<1>2. StackInv'
  BY StackAdvanced DEF UiInv, TokensInv, Making
<1>3. CallsInv'
  <2> SUFFICES ASSUME NEW p \in Frames', NEW f \in Call, At(p)' = f
               PROVE  /\ f.op \in Making => MakingInv(f)'
                      /\ f.op = "unsubscribe" => RemovingInv(f)'
    BY DEF CallsInv
  <2>1. CASE p = top
    BY <1>1, <2>1 DEF Making
  <2>2. CASE p # top
    <3>1. p \in Frames /\ At(p) = f
      BY <1>1, <2>2
    <3>2. f.op \notin Making
      BY <1>1, <2>2, <3>1, OneMaking DEF TokensInv
    <3>3. ASSUME f.op = "unsubscribe" PROVE RemovingInv(f)'
      <4>1. RemovingInv(f)
        BY <3>1, <3>3 DEF TokensInv, CallsInv
      <4>2. MakingInv(At(top))
        BY <1>1, CallsAre DEF UiInv, TokensInv
      <4>3. f.cb # call.cb
        BY <1>1, <4>1, <4>2 DEF MakingInv, RemovingInv
      <4> QED
        BY <4>1, <4>3
    <3> QED
      BY <3>2, <3>3
  <2> QED
    BY <2>1, <2>2
<1>4. \A b : OwnerOf(b) => OwnerOf(b)'
  <2>1. At(top).op # "dispatch" /\ call.op # "dispatch"
    BY <1>1 DEF Making
  <2> QED
    BY <1>1, <2>1 DEF OwnerOf
<1> QED
  BY <1>2, <1>3, <1>4

(* make_generic_token reads the counter. *)
LEMMA LoadGenericTokens ==
  ASSUME OneMaker, UiInv, UiInv', TokensInv, NEW th \in Threads, LoadGeneric(th)
  PROVE  TokensInv'
<1>0. PICK call : call = [Top(th) EXCEPT !.op = "make_token", !.read = next_generic]
  OBVIOUS
<1>1. /\ ~Idle(th) /\ Top(th).op = "on_event" /\ Len(Top(th).tokens) = Len(Inner)
      /\ SetTop(th, call)
      /\ UNCHANGED <<listeners, routes, next_generic, callbacks, given, held>>
      /\ ClientsInv
  BY <1>0 DEF LoadGeneric, In, generic, clients, UiInv
<1>2. /\ TopPlace(th) \in Frames /\ At(TopPlace(th)) = Top(th)
      /\ Top(th) \in Call /\ Top(th).op \in Making
  BY <1>1, TopIsFrame DEF Making
<1>3. MakingInv(Top(th)) /\ ~Top(th).running
  BY <1>1, <1>2 DEF TokensInv, CallsInv, StackInv
<1>4. /\ call \in Call /\ call.op = "make_token" /\ call.read = next_generic
      /\ call.cb = Top(th).cb /\ call.tokens = Top(th).tokens /\ ~call.running
  BY <1>0, <1>1, <1>2, <1>3 DEF Call, ClientsInv
<1>5. /\ Live' = Live
      /\ \A f : MakingInv(f) => MakingInv(f)'
      /\ \A f : RemovingInv(f) => RemovingInv(f)'
      /\ \A h : GivenInv(h) => GivenInv(h)'
      /\ GivenOnce => GivenOnce'
  BY <1>1, ClientsStay
<1>6. MakingInv(call)'
  <2>1. MakingInv(call)
    BY <1>1, <1>3, <1>4 DEF MakingInv
  <2> QED
    BY <1>5, <2>1
<1>7. StackInv' /\ CallsInv' /\ \A b : OwnerOf(b) => OwnerOf(b)'
  <2>1. call.op \in Making
    BY <1>4 DEF Making
  <2> QED
    BY <1>1, <1>2, <1>4, <1>5, <1>6, <2>1, MakingMoves
<1>8. (\A h \in given' : GivenInv(h)') /\ GivenOnce'
  BY <1>1, <1>5 DEF TokensInv
<1>9. \A h \in held' : HeldInv(h)'
  BY <1>1, <1>5 DEF TokensInv, HeldInv
<1>10. \A t \in DOMAIN routes' : RouteInv(t)'
  BY <1>1, <1>5 DEF TokensInv, RouteInv, listeners
<1>11. OwnedInv'
  BY <1>1, <1>5, <1>7 DEF TokensInv, OwnedInv
<1> QED
  BY <1>7, <1>8, <1>9, <1>10, <1>11 DEF TokensInv

(* ... and writes it: no token that was given is the new value. *)
LEMMA StoreGenericTokens ==
  ASSUME OneMaker, UiInv, UiInv', TokensInv, NEW th \in Threads, StoreGeneric(th)
  PROVE  TokensInv'
<1>0. PICK call : call = [Top(th) EXCEPT !.op = "add_route", !.read = Top(th).read + 1]
  OBVIOUS
<1>1. /\ ~Idle(th) /\ Top(th).op = "make_token" /\ SetTop(th, call)
      /\ next_generic' = Top(th).read + 1
      /\ UNCHANGED <<listeners, routes, callbacks, given, held>>
      /\ ListenersInv /\ ClientsInv
  BY <1>0 DEF StoreGeneric, In, clients, UiInv
<1>2. /\ TopPlace(th) \in Frames /\ At(TopPlace(th)) = Top(th)
      /\ Top(th) \in Call /\ Top(th).op \in Making
  BY <1>1, TopIsFrame DEF Making
<1>3. MakingInv(Top(th)) /\ ~Top(th).running
  BY <1>1, <1>2 DEF TokensInv, CallsInv, StackInv
<1>4. /\ call \in Call /\ call.op = "add_route" /\ call.read = Top(th).read + 1
      /\ call.cb = Top(th).cb /\ call.tokens = Top(th).tokens /\ ~call.running
  <2>1. Top(th).read + 1 \in Nat
    BY <1>2 DEF Call
  <2>2. call \in Call /\ call.running = Top(th).running
    BY <1>0, <1>2, <2>1 DEF Call
  <2>3. /\ call.op = "add_route" /\ call.read = Top(th).read + 1
        /\ call.cb = Top(th).cb /\ call.tokens = Top(th).tokens
    BY <1>0, <1>2 DEF Call
  <2> QED
    BY <1>3, <2>2, <2>3
<1>5. /\ next_generic \in Nat /\ next_generic' = next_generic + 1
      /\ call.read = next_generic' /\ next_generic' \in Nat
      /\ next_generic <= next_generic' /\ GENERIC_TOKEN_BASE \in Nat
  BY <1>1, <1>3, <1>4, UiAssumption DEF ClientsInv, MakingInv
<1>6. Others(0) /\ Live' = Live /\ next_token' = next_token
  BY <1>1, NothingMoves DEF Others
<1>7. \A h \in given : h \in Held /\ GivenInv(h) /\ h.cb \in 1 .. callbacks /\ h.cb # 0
  BY <1>1 DEF TokensInv, GivenInv, ClientsInv
<1>8. \A h \in given' : GivenInv(h)'
  <2>1. callbacks \in Nat /\ callbacks <= callbacks
    BY <1>1 DEF ClientsInv
  <2> QED
    BY <1>1, <1>5, <1>6, <1>7, <2>1, GivenKept
<1>9. GivenOnce' /\ \A g \in held' : HeldInv(g)'
  BY <1>1, <1>6 DEF TokensInv, GivenOnce, HeldInv
<1>10. MakingInv(call)'
  <2>1. ASSUME NEW h \in given PROVE h.token # GENERIC_TOKEN_BASE + next_generic'
    <3>1. h.token \in Nat
      BY <1>7, RawTokens, UiAssumption DEF Held, PublicToken, Raw, Callback
    <3>2. h.token < GENERIC_TOKEN_BASE \/ h.token <= GENERIC_TOKEN_BASE + next_generic
      BY <1>7 DEF GivenInv
    <3> QED
      BY <1>5, <3>1, <3>2
  <2> QED
    BY <1>1, <1>3, <1>4, <1>5, <1>6, <2>1 DEF MakingInv
<1>11. StackInv' /\ CallsInv' /\ \A b : OwnerOf(b) => OwnerOf(b)'
  <2>1. call.op \in Making
    BY <1>4 DEF Making
  <2>2. \A f : RemovingInv(f) => RemovingInv(f)'
    BY <1>1, <1>6 DEF RemovingInv
  <2> QED
    BY <1>1, <1>2, <1>4, <1>10, <2>1, <2>2, MakingMoves
<1>12. \A t \in DOMAIN routes' : RouteInv(t)'
  BY <1>1, <1>6 DEF TokensInv, RouteInv
<1>13. OwnedInv'
  BY <1>1, <1>6, <1>11 DEF TokensInv, OwnedInv
<1> QED
  BY <1>8, <1>9, <1>11, <1>12, <1>13 DEF TokensInv

(* The route goes in, under a token nobody has. *)
LEMMA AddRouteTokens ==
  ASSUME OneMaker, UiInv, UiInv', TokensInv, NEW th \in Threads, NEW count \in Callback,
         AddRoute(th, count)
  PROVE  TokensInv'
<1>0. PICK token, h, f : /\ token = GENERIC_TOKEN_BASE + count /\ f = Top(th)
                         /\ h = [token |-> token, cb |-> Top(th).cb]
  OBVIOUS
<1>1. /\ ~Idle(th) /\ f.op = "add_route" /\ Pop(th)
      /\ count \in {f.read, next_generic}
      /\ routes' = [t \in DOMAIN routes \cup {token} |->
                      IF t \in DOMAIN routes THEN routes[t] ELSE f.tokens]
      /\ given' = given \cup {h} /\ held' = held \cup {h}
      /\ UNCHANGED <<listeners, next_generic, callbacks>>
      /\ ListenersInv /\ ClientsInv /\ ClientsInv'
  BY <1>0 DEF AddRoute, In, Give, UiInv
<1>2. PICK top \in Frames : /\ At(top) = f /\ Frames' = Frames \ {top}
                            /\ \A q \in Frames \ {top} : At(q)' = At(q)
  BY <1>0, <1>1, Left
<1>3. f \in Call /\ f.op \in Making /\ MakingInv(f)
  BY <1>1, <1>2, CallsAre DEF TokensInv, Making
<1>4. /\ next_generic \in Nat /\ GENERIC_TOKEN_BASE \in Nat
      /\ token = GENERIC_TOKEN_BASE + next_generic /\ ~(token < GENERIC_TOKEN_BASE)
      /\ h.token = token /\ h.cb = f.cb
  <2>1. next_generic \in Nat /\ GENERIC_TOKEN_BASE \in Nat /\ f.read = next_generic
    BY <1>1, <1>3, UiAssumption DEF ClientsInv, MakingInv
  <2>2. token = GENERIC_TOKEN_BASE + next_generic
    BY <1>0, <1>1, <2>1
  <2> QED
    BY <1>0, <2>1, <2>2
<1>5. \A g \in given : g.token # token /\ g.cb # f.cb /\ g \in Held /\ g.cb \in 1 .. callbacks
  BY <1>1, <1>3, <1>4 DEF MakingInv, TokensInv, GivenInv, ClientsInv
<1>6. token \notin DOMAIN routes /\ h \notin given /\ held \subseteq given
  BY <1>1, <1>4, <1>5 DEF TokensInv, RouteInv, ClientsInv
<1>7. Others(0) /\ Live' = Live /\ next_token' = next_token
  BY <1>1, NothingMoves DEF Others
<1>8. /\ \A t \in DOMAIN routes : routes'[t] = routes[t]
      /\ routes'[token] = f.tokens /\ DOMAIN routes' = DOMAIN routes \cup {token}
  BY <1>1, <1>6
<1>9. StackInv'
  BY <1>1, StackLeft DEF TokensInv
<1>10. \A g \in given' : GivenInv(g)'
  <2>1. \A g \in given : GivenInv(g)'
    BY <1>1, <1>7 DEF TokensInv, GivenInv
  <2>2. f.cb \in 1 .. callbacks'
    BY <1>1, <1>3 DEF MakingInv
  <2>3. token <= GENERIC_TOKEN_BASE + next_generic'
    BY <1>1, <1>4
  <2>4. GivenInv(h)'
    BY <1>4, <2>2, <2>3 DEF GivenInv
  <2> QED
    BY <1>1, <2>1, <2>4
<1>11. GivenOnce'
  BY <1>1, <1>4, <1>5 DEF TokensInv, GivenOnce
<1>12. \A g \in held' : HeldInv(g)'
  BY <1>1, <1>4, <1>7, <1>8 DEF TokensInv, HeldInv
<1>13. CallsInv'
  <2> SUFFICES ASSUME NEW p \in Frames', NEW g \in Call, At(p)' = g
               PROVE  /\ g.op \in Making => MakingInv(g)'
                      /\ g.op = "unsubscribe" => RemovingInv(g)'
    BY DEF CallsInv
  <2>1. p \in Frames /\ At(p) = g /\ p # top
    BY <1>2
  <2>2. g.op \notin Making
    BY <1>2, <1>3, <2>1, OneMaking DEF TokensInv
  <2>3. ASSUME g.op = "unsubscribe" PROVE RemovingInv(g)'
    <3>1. RemovingInv(g)
      BY <2>1, <2>3 DEF TokensInv, CallsInv
    <3>2. PICK d \in given : d \notin held /\ d.cb = g.cb
      BY <3>1 DEF RemovingInv
    <3>3. d \in given' /\ d \notin held'
      BY <1>1, <1>6, <3>2
    <3> QED
      BY <1>7, <3>1, <3>2, <3>3 DEF RemovingInv
  <2> QED
    BY <2>2, <2>3
<1>14. ASSUME NEW t \in DOMAIN routes' PROVE RouteInv(t)'
  <2>1. CASE t \in DOMAIN routes
    <3>1. RouteInv(t) /\ routes'[t] = routes[t] /\ held \subseteq held'
      BY <1>1, <1>8, <2>1 DEF TokensInv
    <3> QED
      BY <1>7, <3>1 DEF RouteInv
  <2>2. CASE t = token
    <3>1. /\ Record(Live', next_token', Range(routes'[t]), h.cb) /\ h \in held'
          /\ AllThere(Live', routes'[t]) /\ Len(routes'[t]) = Len(Inner)
      BY <1>1, <1>3, <1>4, <1>7, <1>8, <2>2 DEF MakingInv
    <3> QED
      BY <1>4, <2>2, <3>1 DEF RouteInv
  <2> QED
    BY <1>8, <2>1, <2>2
<1>15. OwnedInv'
  <2>1. \A b : OwnerOf(b) => OwnerOf(b)'
    <3>1. OwnerOf(f.cb)'
      BY <1>1, <1>4 DEF OwnerOf
    <3>2. \A b : OwnerOf(b) /\ b # f.cb => OwnerOf(b)'
      BY <1>1, <1>2 DEF OwnerOf
    <3> QED
      BY <3>1, <3>2
  <2> QED
    BY <1>1, <1>7, <2>1 DEF TokensInv, OwnedInv
<1> QED
  BY <1>9, <1>10, <1>11, <1>12, <1>13, <1>14, <1>15 DEF TokensInv

(* The next inner subscription. *)
LEMMA TokensAppended ==
  ASSUME NEW tokens \in Seq(PublicToken), NEW t \in PublicToken,
         NEW live, NEW counts, NEW live2, NEW counts2, NEW c, NEW event,
         Moves(live, counts, live2, counts2, c), Joined(live, live2, event, c, t),
         Issued(counts2, {t}), \A e \in live : TokenOf(e) # t,
         Record(live, counts, Range(tokens), c), AllThere(live, tokens),
         Len(tokens) + 1 \in 1 .. Len(Inner), event = Inner[Len(tokens) + 1]
  PROVE  /\ Record(live2, counts2, Range(Append(tokens, t)), c)
         /\ AllThere(live2, Append(tokens, t))
<1>1. PICK d : live2 = live \cup {d} /\ d[2].event = event /\ d[2].cb = c /\ TokenOf(d) = t
  BY DEF Joined
<1> DEFINE r == Append(tokens, t)
           n == Len(tokens)
<1>2. /\ n \in Nat /\ DOMAIN tokens = 1 .. n
      /\ r \in Seq(PublicToken) /\ Len(r) = n + 1
      /\ \A i \in 1 .. n : r[i] = tokens[i]
      /\ r[n + 1] = t
  BY AppendProperties, LenProperties
<1>3. DOMAIN r = 1 .. n + 1
  BY <1>2, LenProperties
<1> HIDE DEF r, n
<1>4. Range(r) = Range(tokens) \cup {t}
  <2>1. \A i : i \in 1 .. n + 1 <=> i \in 1 .. n \/ i = n + 1
    BY <1>2
  <2> QED
    BY <1>2, <1>3, <2>1 DEF Range
<1>5. Issued(counts2, Range(r))
  <2> SUFFICES ASSUME NEW u \in Range(tokens)
               PROVE  \E l \in Listeners, q \in Raw : u = Public(l, q) /\ q <= counts2[l]
    BY <1>4 DEF Issued
  <2>1. PICK l \in Listeners, q \in Raw : u = Public(l, q) /\ q <= counts[l]
    BY DEF Record, Issued
  <2>2. counts[l] \in Nat /\ counts2[l] \in Nat /\ counts[l] <= counts2[l] /\ q \in Nat
    BY DEF Moves, Raw
  <2>3. q <= counts2[l]
    BY <2>1, <2>2
  <2> QED
    BY <2>1, <2>3
<1>6. Owns(live2, Range(r), c)
  BY <1>1, <1>4 DEF Record, Owns
<1>7. AllThere(live2, r)
  <2>1. ASSUME NEW k \in 1 .. n
        PROVE  \E e \in live2 : TokenOf(e) = r[k] /\ e[2].event = Inner[k]
    BY <1>1, <1>2 DEF AllThere, n
  <2>2. \E e \in live2 : TokenOf(e) = r[n + 1] /\ e[2].event = Inner[n + 1]
    BY <1>1, <1>2 DEF n
  <2>3. \A k \in 1 .. n + 1 : k \in 1 .. n \/ k = n + 1
    BY <1>2
  <2>4. n + 1 <= Len(Inner)
    BY InnerEvents DEF n
  <2> QED
    BY <1>2, <2>1, <2>2, <2>3, <2>4 DEF AllThere
<1> QED
  BY <1>5, <1>6, <1>7 DEF Record, r

LEMMA SubscribeInnerTokens ==
  ASSUME OneMaker, UiInv, UiInv', TokensInv, NEW th \in Threads, SubscribeInner(th)
  PROVE  TokensInv'
<1>0. PICK f, c, l, event, t, call :
        /\ f = Top(th) /\ c = f.cb /\ event = Inner[Len(f.tokens) + 1] /\ l = event[1]
        /\ t = Public(l, next_token[l] + 1)
        /\ call = [f EXCEPT !.tokens = Append(f.tokens, t)]
  OBVIOUS
<1>1. /\ ~Idle(th) /\ f.op = "on_event" /\ Len(f.tokens) < Len(Inner)
      /\ subscribe(l, event, c) /\ SetTop(th, call)
      /\ UNCHANGED <<routes, next_generic, callbacks, given, held>>
      /\ ListenersInv /\ ClientsInv
  BY <1>0 DEF SubscribeInner, In, generic, clients, UiInv
<1>2. PICK top \in Frames : At(top) = f
  BY <1>0, <1>1, TopIsFrame
<1>3. f \in Call /\ f.op \in Making /\ MakingInv(f) /\ ~f.running
  BY <1>1, <1>2, CallsAre DEF TokensInv, Making, StackInv
<1>4. /\ f.tokens \in Seq(PublicToken) /\ Len(f.tokens) \in Nat
      /\ Len(f.tokens) + 1 \in 1 .. Len(Inner)
  BY <1>1, <1>3, InnerEvents DEF Call
<1>5. event \in Events /\ l \in Listeners
  BY <1>0, <1>4, InnerEvents
<1>6. c \in 1 .. callbacks /\ c \in Callback
  BY <1>0, <1>1, <1>3, UiAssumption DEF MakingInv, ClientsInv, Callback
<1>7. next_token[l] + 1 \in Raw /\ next_token[l] + 1 <= MaxRaw
  <2>1. next_token'[l] = next_token[l] + 1 /\ next_token[l] \in Nat
    BY <1>1, <1>5 DEF subscribe, ListenersInv, ListenerInv
  <2>2. next_token'[l] \in 0 .. MaxRaw
    <3>1. TypeOK'
      BY UiInvTypes, PTL
    <3> QED
      BY <1>5, <3>1 DEF TypeOK
  <2> QED
    BY <2>1, <2>2, RawTokens DEF Raw
<1>8. t \in PublicToken
  BY <1>0, <1>5, <1>7, RawTokens
<1>9. /\ Others(c) /\ Issued(next_token', {t})
      /\ \A e \in Live : TokenOf(e) # t
      /\ Joined(Live, Live', event, c, t)
  <2>1. /\ Moves(Live, next_token, Live', next_token', c)
        /\ Issued(next_token', {t})
        /\ \A e \in Live : TokenOf(e) # t
        /\ Joined(Live, Live', event, c, t)
    BY <1>0, <1>1, <1>5, <1>6, <1>7, SubscribedMoves
  <2> QED
    BY <2>1 DEF Others
<1>10. /\ call \in Call /\ call.op = f.op /\ call.cb = c /\ call.read = f.read
       /\ call.running = f.running /\ call.tokens = Append(f.tokens, t)
  <2>1. Append(f.tokens, t) \in Seq(PublicToken)
    BY <1>4, <1>8, AppendProperties
  <2> QED
    BY <1>0, <1>3, <2>1 DEF Call
<1>11. MakingInv(call)'
  <2>1. /\ Record(Live', next_token', Range(call.tokens), c)
        /\ AllThere(Live', call.tokens)
    <3>1. Record(Live, next_token, Range(f.tokens), c) /\ AllThere(Live, f.tokens)
      BY <1>0, <1>3 DEF MakingInv
    <3>2. /\ Moves(Live, next_token, Live', next_token', c)
          /\ event = Inner[Len(f.tokens) + 1]
      BY <1>0, <1>9 DEF Others
    <3> QED
      BY <1>4, <1>8, <1>9, <1>10, <3>1, <3>2, TokensAppended
  <2> QED
    BY <1>0, <1>1, <1>3, <1>6, <1>10, <2>1 DEF MakingInv
<1>12. \A g \in given : g \in Held /\ GivenInv(g) /\ g.cb # c
  BY <1>0, <1>1, <1>3 DEF TokensInv, ClientsInv, MakingInv
<1>13. StackInv' /\ CallsInv' /\ \A b : OwnerOf(b) => OwnerOf(b)'
  <2>1. \A g \in Call : RemovingInv(g) /\ g.cb # c => RemovingInv(g)'
    BY <1>1, <1>9, RemovingKept
  <2> QED
    BY <1>0, <1>1, <1>3, <1>10, <1>11, <2>1, MakingMoves
<1>14. \A g \in given' : GivenInv(g)'
  <2>1. callbacks \in Nat /\ callbacks <= callbacks /\ next_generic \in Nat /\ next_generic <= next_generic
    BY <1>1 DEF ClientsInv
  <2> QED
    BY <1>1, <1>9, <1>12, <2>1, GivenKept
<1>15. GivenOnce'
  BY <1>1 DEF TokensInv, GivenOnce
<1>16. ASSUME NEW g \in held' PROVE HeldInv(g)'
  <2>1. g \in given /\ HeldInv(g)
    BY <1>1 DEF TokensInv, ClientsInv
  <2>2. CASE g.token < GENERIC_TOKEN_BASE
    BY <1>9, <1>12, <2>1, <2>2, SingleKept
  <2>3. CASE ~(g.token < GENERIC_TOKEN_BASE)
    BY <1>1, <2>1, <2>3 DEF HeldInv
  <2> QED
    BY <2>2, <2>3
<1>17. ASSUME NEW u \in DOMAIN routes' PROVE RouteInv(u)'
  <2>1. u \in DOMAIN routes /\ routes'[u] = routes[u] /\ RouteInv(u)
    BY <1>1 DEF TokensInv
  <2>2. \A g \in held : g.token = u => g.cb # c /\ g \in held'
    BY <1>1, <1>12 DEF ClientsInv
  <2> QED
    BY <1>1, <1>9, <2>1, <2>2, RouteKept
<1>18. OwnedInv'
  <2>1. OwnerOf(c)
    BY <1>0, <1>1, <1>2 DEF OwnerOf
  <2>2. \A e \in Live' : e \in Live \/ e[2].cb = c
    BY <1>9 DEF Joined
  <2> QED
    BY <1>1, <1>6, <1>13, <2>1, <2>2 DEF TokensInv, OwnedInv
<1> QED
  BY <1>13, <1>14, <1>15, <1>16, <1>17, <1>18 DEF TokensInv

(* A single token is given back, perhaps not for the first time. *)
LEMMA SingleTokens ==
  ASSUME UiInv, UiInv', TokensInv, NEW th \in Threads, NEW h \in given, UnsubscribeSingle(th, h)
  PROVE  TokensInv'
<1>1. /\ h.token < GENERIC_TOKEN_BASE /\ unsubscribe_single(h.token)
      /\ held' = held \ {h}
      /\ UNCHANGED <<routes, next_generic, stack, callbacks, given>>
      /\ ListenersInv /\ ClientsInv
  BY DEF UnsubscribeSingle, generic, UiInv
<1>2. h.token \in PublicToken /\ GivenInv(h) /\ held \subseteq given
  BY <1>1 DEF ClientsInv, Held, TokensInv
<1>3. Record(Live, next_token, {h.token}, h.cb)
  BY <1>1, <1>2 DEF GivenInv
<1>4. Others(h.cb) /\ Live' = {e \in Live : TokenOf(e) # h.token} /\ next_token' = next_token
  <2>1. Owns(Live, {h.token}, h.cb)
    BY <1>3 DEF Record
  <2> QED
    BY <1>1, <1>2, <2>1, UnsubscribedMoves DEF Others
<1>5. /\ Live' \subseteq Live
      /\ \A e \in Live' : e[2].cb # h.cb
  BY <1>3, <1>4 DEF Record, Owns
<1>6. \A g \in given : g.cb = h.cb => g = h
  BY DEF TokensInv, GivenOnce
<1>7. Frames' = Frames /\ (\A p \in Frames : At(p)' = At(p)) /\ StackInv'
  BY <1>1, StackStays DEF TokensInv
<1>8. \A tokens, cb : Record(Live, next_token, tokens, cb) => Record(Live', next_token', tokens, cb)
  BY <1>4, <1>5, RecordShrinks
<1>9. (\A g \in given' : GivenInv(g)') /\ GivenOnce'
  BY <1>1, <1>8 DEF TokensInv, GivenInv, GivenOnce
<1>10. ASSUME NEW g \in held' PROVE HeldInv(g)'
  <2>1. g \in given /\ g \in Held /\ HeldInv(g) /\ GivenInv(g) /\ g.cb # h.cb
    BY <1>1, <1>2, <1>6 DEF TokensInv, ClientsInv
  <2>2. CASE g.token < GENERIC_TOKEN_BASE
    BY <1>4, <2>1, <2>2, SingleKept
  <2>3. CASE ~(g.token < GENERIC_TOKEN_BASE)
    BY <1>1, <2>1, <2>3 DEF HeldInv
  <2> QED
    BY <2>2, <2>3
<1>11. CallsInv'
  <2> SUFFICES ASSUME NEW p \in Frames', NEW f \in Call, At(p)' = f
               PROVE  /\ f.op \in Making => MakingInv(f)'
                      /\ f.op = "unsubscribe" => RemovingInv(f)'
    BY DEF CallsInv
  <2>1. p \in Frames /\ At(p) = f
    BY <1>7
  <2>2. ASSUME f.op \in Making PROVE MakingInv(f)'
    <3>1. MakingInv(f) /\ f.cb # h.cb
      BY <2>1, <2>2 DEF TokensInv, CallsInv, MakingInv
    <3>2. callbacks \in Nat /\ callbacks <= callbacks
      BY <1>1 DEF ClientsInv
    <3> QED
      BY <1>1, <1>4, <3>1, <3>2, MakingKept
  <2>3. ASSUME f.op = "unsubscribe" PROVE RemovingInv(f)'
    <3>1. RemovingInv(f)
      BY <2>1, <2>3 DEF TokensInv, CallsInv
    <3> QED
      BY <1>1, <1>8, <3>1 DEF RemovingInv
  <2> QED
    BY <2>2, <2>3
<1>12. ASSUME NEW u \in DOMAIN routes' PROVE RouteInv(u)'
  <2>1. u \in DOMAIN routes /\ routes'[u] = routes[u] /\ RouteInv(u)
    BY <1>1 DEF TokensInv
  <2>2. \A g \in held : g.token = u => g.cb # h.cb /\ g \in held'
    BY <1>1, <1>2, <1>6, <2>1 DEF RouteInv
  <2> QED
    BY <1>1, <1>4, <2>1, <2>2, RouteKept
<1>13. OwnedInv'
  <2>1. \A b : OwnerOf(b) /\ b # h.cb => OwnerOf(b)'
    BY <1>1, <1>7 DEF OwnerOf
  <2> QED
    BY <1>1, <1>5, <2>1 DEF TokensInv, OwnedInv
<1> QED
  BY <1>7, <1>9, <1>10, <1>11, <1>12, <1>13 DEF TokensInv

(* A composite token is given back: its route, if it has one, leaves with  *)
(* the call.                                                               *)
LEMMA GenericTokensBack ==
  ASSUME UiInv, UiInv', TokensInv, NEW th \in Threads, NEW h \in given, UnsubscribeGeneric(th, h)
  PROVE  TokensInv'
<1>1. /\ ~(h.token < GENERIC_TOKEN_BASE) /\ held' = held \ {h} /\ RunsClientCode(th)
      /\ UNCHANGED <<listeners, next_generic, callbacks, given>>
      /\ ListenersInv /\ ClientsInv
  <2>1. h.token \in Nat /\ GENERIC_TOKEN_BASE \in Nat
    <3>1. h \in Held
      BY DEF UiInv, ClientsInv
    <3>2. h.token \in PublicToken
      BY <3>1 DEF Held
    <3> QED
      BY <3>2, UiAssumption, RawTokens DEF PublicToken, Raw, Callback
  <2> QED
    BY <2>1 DEF UnsubscribeGeneric, UiInv
<1>2. /\ \A g \in given : g.cb = h.cb => g = h
      /\ \A g \in given : g.token = h.token => g = h
      /\ held \subseteq given /\ h \in Held
  BY <1>1 DEF TokensInv, GivenOnce, ClientsInv
<1>3. /\ Live' = Live /\ next_token' = next_token
      /\ \A f : MakingInv(f) => MakingInv(f)'
      /\ \A f : RemovingInv(f) => RemovingInv(f)'
      /\ \A g : GivenInv(g) => GivenInv(g)'
      /\ GivenOnce => GivenOnce'
  BY <1>1, ClientsStay DEF listeners
<1>4. (\A g \in given' : GivenInv(g)') /\ GivenOnce'
  BY <1>1, <1>3 DEF TokensInv
<1>5. CASE h.token \in DOMAIN routes
  <2>0. PICK call : call = [NewCall("unsubscribe") EXCEPT !.cb = h.cb, !.tokens = routes[h.token]]
    OBVIOUS
  <2>1. /\ routes' = [t \in DOMAIN routes \ {h.token} |-> routes[t]]
        /\ Push(th, call)
    BY <1>5, <2>0 DEF UnsubscribeGeneric
  <2>2. RouteInv(h.token) /\ routes[h.token] \in Seq(PublicToken)
    BY <1>1, <1>5 DEF TokensInv, ClientsInv
  <2>3. h \in held /\ Record(Live, next_token, Range(routes[h.token]), h.cb)
    BY <1>2, <2>2 DEF RouteInv
  <2>4. /\ call \in Call /\ call.op = "unsubscribe" /\ ~call.running
        /\ call.cb = h.cb /\ call.tokens = routes[h.token]
    BY <1>2, <2>0, <2>2, CallsMade DEF Call, NewCall, Held
  <2>5. PICK new : /\ new \notin Frames /\ Frames' = Frames \cup {new} /\ At(new)' = call
                   /\ \A q \in Frames : At(q)' = At(q)
    BY <1>1, <2>1, <2>4, Entered
  <2>6. StackInv'
    <3>1. call.op \notin Making
      BY <2>4 DEF Making
    <3> QED
      BY <1>1, <2>1, <2>4, <3>1, StackEntered DEF TokensInv
  <2>7. ASSUME NEW g \in held' PROVE HeldInv(g)'
    <3>1. g \in held /\ g.token # h.token /\ HeldInv(g)
      BY <1>1, <1>2 DEF TokensInv
    <3> QED
      BY <1>3, <2>1, <3>1 DEF HeldInv
  <2>8. RemovingInv(call)'
    BY <1>1, <1>3, <2>3, <2>4 DEF RemovingInv
  <2>9. CallsInv'
    <3> SUFFICES ASSUME NEW p \in Frames', NEW f \in Call, At(p)' = f
                 PROVE  /\ f.op \in Making => MakingInv(f)'
                        /\ f.op = "unsubscribe" => RemovingInv(f)'
      BY DEF CallsInv
    <3>1. CASE p = new
      BY <2>4, <2>5, <2>8, <3>1 DEF Making
    <3>2. CASE p \in Frames
      BY <1>3, <2>5, <3>2 DEF TokensInv, CallsInv
    <3> QED
      BY <2>5, <3>1, <3>2
  <2>10. ASSUME NEW u \in DOMAIN routes' PROVE RouteInv(u)'
    <3>1. u \in DOMAIN routes /\ u # h.token /\ routes'[u] = routes[u] /\ RouteInv(u)
      BY <2>1 DEF TokensInv
    <3>2. \A g \in held : g.token = u => g \in held'
      BY <1>1, <3>1
    <3> QED
      BY <1>3, <3>1, <3>2 DEF RouteInv
  <2>11. OwnedInv'
    <3>1. \A b : OwnerOf(b) => OwnerOf(b)'
      <4>1. OwnerOf(h.cb)'
        BY <2>4, <2>5 DEF OwnerOf
      <4>2. \A b : OwnerOf(b) /\ b # h.cb => OwnerOf(b)'
        BY <1>1, <2>5 DEF OwnerOf
      <4> QED
        BY <4>1, <4>2
    <3> QED
      BY <1>1, <1>3, <3>1 DEF TokensInv, OwnedInv
  <2> QED
    BY <1>4, <2>6, <2>7, <2>9, <2>10, <2>11 DEF TokensInv
<1>6. CASE h.token \notin DOMAIN routes
  <2>1. UNCHANGED <<routes, stack>>
    BY <1>6 DEF UnsubscribeGeneric
  <2>2. held' = held
    <3>1. h \notin held
      BY <1>1, <1>6 DEF TokensInv, HeldInv
    <3> QED
      BY <1>1, <3>1
  <2>3. Frames' = Frames /\ (\A p \in Frames : At(p)' = At(p)) /\ StackInv'
    BY <2>1, StackStays DEF TokensInv
  <2>4. \A g \in held' : HeldInv(g)'
    BY <1>3, <2>1, <2>2 DEF TokensInv, HeldInv
  <2>5. CallsInv'
    BY <1>3, <2>3 DEF TokensInv, CallsInv
  <2>6. \A u \in DOMAIN routes' : RouteInv(u)'
    BY <1>3, <2>1, <2>2 DEF TokensInv, RouteInv
  <2>7. OwnedInv'
    BY <1>1, <1>3, <2>2, <2>3 DEF TokensInv, OwnedInv, OwnerOf
  <2> QED
    BY <1>4, <2>3, <2>4, <2>5, <2>6, <2>7 DEF TokensInv
<1> QED
  BY <1>5, <1>6

(* One of the inner tokens it still has. *)
LEMMA UnsubscribeInnerTokens ==
  ASSUME UiInv, UiInv', TokensInv, NEW th \in Threads, UnsubscribeInner(th)
  PROVE  TokensInv'
<1>0. PICK f, t, call : /\ f = Top(th) /\ t = Head(f.tokens)
                        /\ call = [f EXCEPT !.tokens = Tail(f.tokens)]
  OBVIOUS
<1>1. /\ ~Idle(th) /\ f.op = "unsubscribe" /\ f.tokens # << >>
      /\ unsubscribe_single(t)
      /\ IF Len(f.tokens) = 1 THEN Pop(th) ELSE SetTop(th, call)
      /\ UNCHANGED <<routes, next_generic, callbacks, given, held>>
      /\ ListenersInv /\ ClientsInv
  BY <1>0 DEF UnsubscribeInner, In, generic, clients, UiInv
<1>2. PICK place \in Frames : At(place) = f /\ place = TopPlace(th)
  BY <1>0, <1>1, TopIsFrame
<1>3. f \in Call /\ RemovingInv(f) /\ ~f.running
  BY <1>1, <1>2, CallsAre DEF TokensInv, StackInv
<1>4. /\ f.tokens \in Seq(PublicToken) /\ Tail(f.tokens) \in Seq(PublicToken)
      /\ Range(f.tokens) = Range(Tail(f.tokens)) \cup {t}
      /\ Len(f.tokens) = 1 => Range(f.tokens) = {t}
      /\ t \in PublicToken
  <2> DEFINE s == f.tokens
             n == Len(s)
             r == Tail(s)
  <2>1. /\ s \in Seq(PublicToken) /\ n \in Nat \ {0} /\ DOMAIN s = 1 .. n
        /\ r \in Seq(PublicToken) /\ Len(r) = n - 1
        /\ \A i \in 1 .. n - 1 : r[i] = s[i + 1]
        /\ t \in PublicToken
    <3>1. s \in Seq(PublicToken) /\ s # << >>
      BY <1>1, <1>3 DEF Call
    <3> QED
      BY <1>0, <3>1, HeadTailProperties, LenProperties, EmptySeq
  <2>2. DOMAIN r = 1 .. n - 1
    BY <2>1, LenProperties
  <2>3. t = s[1]
    BY <1>0, <2>1
  <2> HIDE DEF s, n, r
  <2>4. Range(s) = Range(r) \cup {t}
    <3>1. \A i \in 1 .. n : i = 1 \/ (i - 1 \in 1 .. n - 1 /\ i = (i - 1) + 1)
      BY <2>1
    <3>2. \A i \in 1 .. n - 1 : i + 1 \in 1 .. n
      BY <2>1
    <3>3. 1 \in 1 .. n
      BY <2>1
    <3>4. \A x : x \in Range(s) <=> \E i \in 1 .. n : x = s[i]
      BY <2>1 DEF Range
    <3>5. \A x : x \in Range(r) <=> \E i \in 1 .. n - 1 : x = s[i + 1]
      BY <2>1, <2>2 DEF Range
    <3>6. ASSUME NEW i \in 1 .. n, i # 1 PROVE s[i] \in Range(r)
      BY <3>1, <3>5, <3>6
    <3> QED
      BY <2>3, <3>2, <3>3, <3>4, <3>5, <3>6
  <2>5. ASSUME n = 1 PROVE Range(s) = {t}
    <3>1. DOMAIN s = {1}
      BY <2>1, <2>5
    <3> QED
      BY <2>3, <3>1 DEF Range
  <2> QED
    BY <2>1, <2>4, <2>5 DEF s, n, r
<1>5. /\ Record(Live, next_token, Range(f.tokens), f.cb)
      /\ Owns(Live, Range(f.tokens), f.cb) /\ t \in Range(f.tokens)
  BY <1>3, <1>4 DEF RemovingInv, Record
<1>6. t < GENERIC_TOKEN_BASE
  <2>1. PICK l \in Listeners, r \in Raw : t = Public(l, r)
    BY <1>5 DEF Record, Issued
  <2> QED
    BY <2>1, RawTokens
<1>7. Others(f.cb) /\ Live' = {e \in Live : TokenOf(e) # t} /\ next_token' = next_token
  BY <1>1, <1>4, <1>5, <1>6, UnsubscribedMoves DEF Others
<1>8. Live' \subseteq Live
  BY <1>7
<1>9. PICK d \in given : d \notin held /\ d.cb = f.cb
  BY <1>3 DEF RemovingInv
<1>10. \A g \in held : g \in given /\ g \in Held /\ GivenInv(g) /\ HeldInv(g) /\ g.cb # f.cb
  BY <1>1, <1>9 DEF TokensInv, GivenOnce, ClientsInv
<1>11. \A tokens, cb : Record(Live, next_token, tokens, cb) => Record(Live', next_token', tokens, cb)
  BY <1>7, <1>8, RecordShrinks
<1>12. (\A g \in given' : GivenInv(g)') /\ GivenOnce'
  BY <1>1, <1>11 DEF TokensInv, GivenInv, GivenOnce
<1>13. ASSUME NEW g \in held' PROVE HeldInv(g)'
  <2>1. g \in Held /\ GivenInv(g) /\ HeldInv(g) /\ g.cb # f.cb
    BY <1>1, <1>10
  <2>2. CASE g.token < GENERIC_TOKEN_BASE
    BY <1>7, <2>1, <2>2, SingleKept
  <2>3. CASE ~(g.token < GENERIC_TOKEN_BASE)
    BY <1>1, <2>1, <2>3 DEF HeldInv
  <2> QED
    BY <2>2, <2>3
<1>14. ASSUME NEW u \in DOMAIN routes' PROVE RouteInv(u)'
  <2>1. u \in DOMAIN routes /\ routes'[u] = routes[u] /\ RouteInv(u)
    BY <1>1 DEF TokensInv
  <2>2. \A g \in held : g.token = u => g.cb # f.cb /\ g \in held'
    BY <1>1, <1>10
  <2> QED
    BY <1>1, <1>7, <2>1, <2>2, RouteKept
<1>15. ASSUME NEW g \in Call
       PROVE  /\ MakingInv(g) => MakingInv(g)'
              /\ RemovingInv(g) => RemovingInv(g)'
  <2>1. ASSUME MakingInv(g) PROVE MakingInv(g)'
    <3>1. g.cb # f.cb
      BY <1>9, <2>1 DEF MakingInv
    <3>2. callbacks \in Nat /\ callbacks <= callbacks
      BY <1>1 DEF ClientsInv
    <3> QED
      BY <1>1, <1>7, <2>1, <3>1, <3>2, MakingKept
  <2>2. ASSUME RemovingInv(g) PROVE RemovingInv(g)'
    BY <1>1, <1>11, <2>2 DEF RemovingInv
  <2> QED
    BY <2>1, <2>2
<1>16. /\ StackInv' /\ CallsInv'
       /\ \A e \in Live' : OwnerOf(e[2].cb) => OwnerOf(e[2].cb)'
  <2>1. CASE Len(f.tokens) = 1
    <3>1. Pop(th)
      BY <1>1, <2>1
    <3>2. PICK top \in Frames : /\ At(top) = Top(th) /\ Frames' = Frames \ {top}
                                /\ \A q \in Frames \ {top} : At(q)' = At(q)
      BY <1>1, <3>1, Left
    <3>3. StackInv'
      BY <1>1, <3>1, StackLeft DEF TokensInv
    <3>4. CallsInv'
      BY <1>15, <3>2 DEF TokensInv, CallsInv
    <3>5. \A e \in Live' : e[2].cb # f.cb
      BY <1>4, <1>5, <1>7, <2>1 DEF Owns
    <3>6. \A b : OwnerOf(b) /\ b # f.cb => OwnerOf(b)'
      BY <1>0, <1>1, <3>2 DEF OwnerOf
    <3> QED
      BY <3>3, <3>4, <3>5, <3>6
  <2>2. CASE Len(f.tokens) # 1
    <3>1. SetTop(th, call)
      BY <1>1, <2>2
    <3>2. /\ call \in Call /\ call.op = f.op /\ call.cb = f.cb
          /\ call.running = f.running /\ call.tokens = Tail(f.tokens)
      BY <1>0, <1>3, <1>4 DEF Call
    <3>3. PICK top \in Frames : /\ At(top) = f /\ Frames' = Frames /\ At(top)' = call
                                /\ \A q \in Frames \ {top} : At(q)' = At(q)
      BY <1>0, <1>1, <3>1, <3>2, Advanced
    <3>4. StackInv'
      <4>1. call.op \notin Making /\ call.op = "unsubscribe" /\ ~call.running
        BY <1>1, <1>3, <3>2 DEF Making
      <4> QED
        BY <1>0, <1>1, <3>1, <3>2, <4>1, StackAdvanced DEF TokensInv
    <3>5. RemovingInv(call)'
      <4>1. Owns(Live', Range(call.tokens), call.cb)
        BY <1>4, <1>5, <1>7, <3>2 DEF Owns
      <4>2. Issued(next_token', Range(call.tokens))
        BY <1>4, <1>5, <1>7, <3>2 DEF Record, Issued
      <4> QED
        BY <1>1, <1>9, <3>2, <4>1, <4>2 DEF RemovingInv, Record
    <3>6. CallsInv'
      <4> SUFFICES ASSUME NEW p \in Frames', NEW g \in Call, At(p)' = g
                   PROVE  /\ g.op \in Making => MakingInv(g)'
                          /\ g.op = "unsubscribe" => RemovingInv(g)'
        BY DEF CallsInv
      <4>1. CASE p = top
        BY <1>1, <3>2, <3>3, <3>5, <4>1 DEF Making
      <4>2. CASE p # top
        BY <1>15, <3>3, <4>2 DEF TokensInv, CallsInv
      <4> QED
        BY <4>1, <4>2
    <3>7. \A b : OwnerOf(b) => OwnerOf(b)'
      BY <1>1, <3>2, <3>3 DEF OwnerOf
    <3> QED
      BY <3>4, <3>6, <3>7
  <2> QED
    BY <2>1, <2>2
<1>17. OwnedInv'
  BY <1>1, <1>8, <1>16 DEF TokensInv, OwnedInv
<1> QED
  BY <1>12, <1>13, <1>14, <1>16, <1>17 DEF TokensInv

LEMMA TokensStep ==
  ASSUME OneMaker, UiInv, UiInv', TokensInv, [Next]_vars
  PROVE  TokensInv'
<1>1. CASE UNCHANGED vars
  <2>1. UNCHANGED <<listeners, generic, clients, stack>>
    BY <1>1 DEF vars, listeners, generic, clients
  <2>2. Frames' = Frames /\ (\A p \in Frames : At(p)' = At(p)) /\ StackInv'
    BY <2>1, StackStays DEF TokensInv
  <2>3. stack' \in [Threads -> Seq(Call)]
    BY DEF UiInv, ClientsInv
  <2> QED
    BY <2>1, <2>2, <2>3, DispatchTokens
<1>2. ASSUME NEW th \in Threads, NEW event \in Events, Subscribe(th, event) \/ Notify(th, event)
      PROVE  TokensInv'
  BY <1>2, SubscribeTokens, NotifyTokens
<1>3. ASSUME NEW th \in Threads, SubscribeInner(th) PROVE TokensInv'
  BY <1>3, SubscribeInnerTokens
<1>4. ASSUME NEW th \in Threads, LoadGeneric(th) \/ StoreGeneric(th) PROVE TokensInv'
  BY <1>4, LoadGenericTokens, StoreGenericTokens
<1>5. ASSUME NEW th \in Threads, NEW count \in Callback, AddRoute(th, count) PROVE TokensInv'
  BY <1>5, AddRouteTokens
<1>6. ASSUME NEW th \in Threads, NEW h \in given,
             UnsubscribeSingle(th, h) \/ UnsubscribeGeneric(th, h)
      PROVE  TokensInv'
  BY <1>6, SingleTokens, GenericTokensBack
<1>7. ASSUME NEW th \in Threads, UnsubscribeInner(th) PROVE TokensInv'
  BY <1>7, UnsubscribeInnerTokens
<1>8. ASSUME NEW th \in Threads,
             \/ \E calls \in BOOLEAN : CallHandler(th, calls)
             \/ HandlerReturns(th)
             \/ DispatchReturns(th)
      PROVE  TokensInv'
  BY <1>8, HandlerTokens
<1>9. ASSUME NEW th \in GenericThreads, CallOnEvent(th) PROVE TokensInv'
  BY <1>9, OnEventTokens
<1> QED
  BY <1>1, <1>2, <1>3, <1>4, <1>5, <1>6, <1>7, <1>8, <1>9 DEF Next

LEMMA TokensInitially == Init => TokensInv
<1> SUFFICES ASSUME Init PROVE TokensInv
  OBVIOUS
<1>1. Frames = {}
  BY DEF Init, Frames, FramesOf
<1>2. Live = {}
  BY DEF Init, Live, Entries
<1>3. given = {} /\ held = {} /\ DOMAIN routes = {}
  BY DEF Init
<1> QED
  BY <1>1, <1>2, <1>3 DEF TokensInv, StackInv, GivenOnce, CallsInv, OwnedInv

(* What the invariant says of a token a client holds. *)
LEMMA SingleTokenWorks ==
  ASSUME UiInv, TokensInv, NEW h \in held, h.token < GENERIC_TOKEN_BASE
  PROVE  \E l \in Listeners : \E i \in DOMAIN subs[l] :
           subs[l][i].cb = h.cb /\ h.token = Public(l, subs[l][i].token)
<1>1. HeldInv(h) /\ GivenInv(h)
  BY DEF TokensInv, UiInv, ClientsInv
<1>2. PICK e \in Live : TokenOf(e) = h.token
  BY <1>1 DEF HeldInv
<1>3. e[2].cb = h.cb
  BY <1>1, <1>2 DEF GivenInv, Record, Owns
<1>4. e[1] \in Listeners /\ e[2] \in Entries(subs[e[1]])
  BY LiveFacts DEF UiInv
<1> QED
  BY <1>2, <1>3, <1>4 DEF Entries, TokenOf

LEMMA CompositeTokenWorks ==
  ASSUME UiInv, TokensInv, NEW h \in held, ~(h.token < GENERIC_TOKEN_BASE)
  PROVE  /\ h.token \in DOMAIN routes
         /\ \A event \in Events :
              Cardinality({e \in Resolve(routes[h.token], h.cb) : e[2].event = event}) = 1
<1>1. h.token \in DOMAIN routes /\ RouteInv(h.token)
  BY DEF TokensInv, HeldInv
<1> DEFINE tokens == routes[h.token]
<1>2. /\ Record(Live, next_token, Range(tokens), h.cb)
      /\ AllThere(Live, tokens) /\ Len(tokens) = Len(Inner)
      /\ tokens \in Seq(PublicToken)
  <2>1. PICK g \in held : g.token = h.token /\ Record(Live, next_token, Range(tokens), g.cb)
    BY <1>1 DEF RouteInv
  <2>2. g = h
    BY <2>1 DEF TokensInv, GivenOnce, UiInv, ClientsInv
  <2> QED
    BY <1>1, <2>1, <2>2 DEF RouteInv, UiInv, ClientsInv
<1> HIDE DEF tokens
<1>3. DOMAIN tokens = 1 .. Len(Inner)
  BY <1>2, LenProperties
<1>4. \A e : e \in Resolve(tokens, h.cb) <=> e \in Live /\ e[2].cb = h.cb /\ TokenOf(e) \in Range(tokens)
  <2>1. \A e \in Listeners \X Subscription :
          (\E i \in DOMAIN subs[e[1]] : subs[e[1]][i] = e[2]) <=> e \in Live
    BY DEF Live, Entries
  <2>2. \A e : e \in Live => e \in Listeners \X Subscription
    BY DEF Live
  <2> QED
    BY <2>1, <2>2 DEF Resolve, TokenOf
<1>5. ASSUME NEW event \in Events
      PROVE  Cardinality({e \in Resolve(tokens, h.cb) : e[2].event = event}) = 1
  <2> DEFINE found == {e \in Resolve(tokens, h.cb) : e[2].event = event}
  <2>1. PICK k \in 1 .. Len(Inner) : Inner[k] = event
    BY InnerEvents
  <2>2. PICK e \in Live : TokenOf(e) = tokens[k] /\ e[2].event = Inner[k]
    BY <1>2 DEF AllThere
  <2>3. e \in found
    <3>1. TokenOf(e) \in Range(tokens)
      BY <1>3, <2>2 DEF Range
    <3>2. e[2].cb = h.cb
      BY <1>2, <3>1 DEF Record, Owns
    <3> QED
      BY <1>4, <2>1, <2>2, <3>1, <3>2
  <2>4. ASSUME NEW d \in found PROVE d = e
    <3>1. d \in Live /\ TokenOf(d) \in Range(tokens) /\ d[2].event = event
      BY <1>4
    <3>2. PICK j \in 1 .. Len(Inner) : TokenOf(d) = tokens[j]
      BY <1>3, <3>1 DEF Range
    <3>3. PICK a \in Live : TokenOf(a) = tokens[j] /\ a[2].event = Inner[j]
      BY <1>2 DEF AllThere
    <3>4. a = d
      BY <3>1, <3>2, <3>3, LiveFacts DEF UiInv
    <3>5. j = k
      BY <2>1, <3>1, <3>3, <3>4, InnerEvents
    <3> QED
      BY <2>2, <3>1, <3>2, <3>5, LiveFacts DEF UiInv
  <2>5. found = {e}
    BY <2>3, <2>4
  <2> HIDE DEF found
  <2>6. Cardinality(found) = 1
    BY <2>5, FS_Singleton
  <2> QED
    BY <2>6 DEF found
<1> QED
  BY <1>1, <1>5 DEF tokens

LEMMA TokensAlways == ASSUME OneMaker PROVE Spec => [](UiInv /\ TokensInv)
<1>1. Init => UiInv /\ TokensInv
  BY UiInitially, TokensInitially
<1>2. UiInv /\ TokensInv /\ [Next]_vars => (UiInv /\ TokensInv)'
  BY UiStep, TokensStep
<1> QED
  BY <1>1, <1>2, PTL DEF Spec

(* When one thread at most makes composite subscriptions, whatever it and  *)
(* the others interleave, and whatever their callbacks do: a token that a  *)
(* client holds leads to its own subscription, and a composite one to      *)
(* exactly one for every event (unsubscribe in src/ui.cpp takes no other). *)
THEOREM TokensWork == OneMaker => (Spec => []HeldTokensWork)
<1> SUFFICES ASSUME OneMaker PROVE Spec => []HeldTokensWork
  OBVIOUS
<1>1. UiInv /\ TokensInv => HeldTokensWork
  BY SingleTokenWorks, CompositeTokenWorks DEF HeldTokensWork
<1> QED
  BY <1>1, TokensAlways, PTL

(* ... and no subscription outlives its token: its callback belongs to a   *)
(* token that is held or to a call that is making or removing it.          *)
THEOREM NothingIsOrphaned == OneMaker => (Spec => []NothingOrphaned)
<1> SUFFICES ASSUME OneMaker PROVE Spec => []NothingOrphaned
  OBVIOUS
<1>1. UiInv /\ TokensInv => NothingOrphaned
  <2> SUFFICES ASSUME UiInv, TokensInv PROVE NothingOrphaned
    OBVIOUS
  <2>1. TypeOK
    BY UiInvTypes
  <2>2. ASSUME NEW l \in Listeners, NEW i \in DOMAIN subs[l]
        PROVE  \/ \E h \in held : h.cb = subs[l][i].cb
               \/ \E th \in Threads : \E k \in DOMAIN stack[th] : stack[th][k].cb = subs[l][i].cb
    <3>1. <<l, subs[l][i]>> \in Live
      <4>1. subs[l][i] \in Entries(subs[l])
        BY DEF Entries
      <4> QED
        BY <4>1, LiveFacts DEF UiInv
    <3>2. OwnerOf(subs[l][i].cb)
      BY <3>1 DEF TokensInv, OwnedInv
    <3>3. ASSUME NEW p \in Frames, At(p).cb = subs[l][i].cb
          PROVE  \E th \in Threads : \E k \in DOMAIN stack[th] : stack[th][k].cb = subs[l][i].cb
      <4>1. p[1] \in Threads /\ p[2] \in DOMAIN stack[p[1]]
        BY DEF Frames, FramesOf
      <4> QED
        BY <3>3, <4>1 DEF At, FrameAt
    <3> QED
      BY <3>2, <3>3 DEF OwnerOf
  <2> QED
    BY <2>1, <2>2 DEF NothingOrphaned
<1> QED
  BY <1>1, TokensAlways, PTL

(***************************************************************************)
(* DebuggerControl: the backend that is loaded is the one asked for, and   *)
(* a call is made with the arguments' own numbers.  That the loaded        *)
(* backend has the name asked for rests on its being chosen from the list, *)
(* and stays true because the list does; every appcall is judged by itself.*)
(***************************************************************************)
Meant(load) ==
  {i \in DOMAIN infos : /\ load.name \in {infos[i].name, infos[i].title}
                        /\ infos[i].remote = load.remote}

LoadInv ==
  /\ infos \in Lists
  /\ loading \in [name : Backends \cup Titles, remote : BOOLEAN, answer : {"ok", "sdk", "over"}]
  /\ loading.answer = "ok" =>
       /\ dbg.remote = loading.remote
       /\ Meant(loading) # {} => \E i \in Meant(loading) : infos[i].name = dbg.name

(* The list is a sequence of entries, and no two of them are both of one   *)
(* plugin and of one kind.                                                 *)
LEMMA ListedEntries ==
  ASSUME NEW list \in Lists
  PROVE  /\ \E n \in Nat : DOMAIN list = 1 .. n
         /\ \A i \in DOMAIN list : list[i] \in DebuggerInfo
         /\ \A i, j \in DOMAIN list :
              list[i].name = list[j].name /\ list[i].remote = list[j].remote => i = j
<1>1. PICK n \in 0 .. MaxBackends : list \in [1 .. n -> DebuggerInfo]
  BY DebuggerAssumption DEF DebuggerAssumption, Lists, BoundedSeq, SeqOf
<1>2. n \in Nat /\ DOMAIN list = 1 .. n
  BY <1>1, DebuggerAssumption DEF DebuggerAssumption
<1> QED
  BY <1>1, <1>2 DEF Lists

(* The first of some entries is one of them. *)
LEMMA FirstEntry ==
  ASSUME infos \in Lists, NEW S \in SUBSET DOMAIN infos, S # {}
  PROVE  Min(S) \in S
<1>1. S \subseteq Nat
  BY ListedEntries
<1> QED
  BY <1>1, MinInSet

(* Only one entry is called loaded, and current_backend answers with what  *)
(* is loaded.                                                              *)
LEMMA LoadedIsOne ==
  ASSUME LoadInv
  PROVE  /\ Cardinality({i \in DOMAIN infos : available_backends[i].loaded}) <= 1
         /\ dbg # NoBackend => /\ current_backend.loaded
                               /\ current_backend.name = dbg.name
                               /\ current_backend.remote = dbg.remote
<1> DEFINE L == {i \in DOMAIN infos : available_backends[i].loaded}
<1>1. \A i \in DOMAIN infos : available_backends[i] = make_backend_info(infos[i])
  BY DEF available_backends
<1>2. \A i \in DOMAIN infos :
        available_backends[i].loaded <=> /\ dbg # NoBackend
                                         /\ dbg.name = infos[i].name
                                         /\ dbg.remote = infos[i].remote
  <2> SUFFICES ASSUME NEW i \in DOMAIN infos
               PROVE  available_backends[i].loaded
                        = (/\ dbg # NoBackend
                           /\ dbg.name = infos[i].name
                           /\ dbg.remote = infos[i].remote)
    OBVIOUS
  <2>1. make_backend_info(infos[i]).loaded = (/\ dbg # NoBackend
                                              /\ dbg.name = infos[i].name
                                              /\ dbg.remote = infos[i].remote)
    BY Zenon DEF make_backend_info
  <2> QED
    BY <1>1, <2>1, Zenon
<1>3. infos \in Lists
  BY DEF LoadInv
<1>4. \A i, j \in L : i = j
  BY <1>2, <1>3, ListedEntries
<1>5. Cardinality(L) <= 1
  <2>1. CASE L = {}
    BY <2>1, FS_EmptySet
  <2>2. CASE L # {}
    <3>1. PICK i \in L : TRUE
      BY <2>2
    <3>2. L = {i}
      BY <1>4, <3>1
    <3> HIDE DEF L
    <3>3. Cardinality({i}) = 1
      BY FS_Singleton
    <3> QED
      BY <3>2, <3>3
  <2> QED
    BY <2>1, <2>2
<1>6. ASSUME dbg # NoBackend
      PROVE  /\ current_backend.loaded
             /\ current_backend.name = dbg.name
             /\ current_backend.remote = dbg.remote
  <2>1. CASE L = {}
    BY <2>1 DEF current_backend
  <2>2. CASE L # {}
    <3>1. current_backend = available_backends[Min(L)]
      BY <2>2 DEF current_backend
    <3>2. Min(L) \in L
      BY <1>3, <2>2, FirstEntry
    <3> DEFINE m == Min(L)
    <3>3. m \in DOMAIN infos /\ dbg.name = infos[m].name /\ dbg.remote = infos[m].remote
      BY <1>2, <3>2
    <3>4. current_backend = make_backend_info(infos[m])
      BY <1>1, <3>1, <3>3
    <3> HIDE DEF m, L
    <3> QED
      BY <1>6, <3>3, <3>4 DEF make_backend_info
  <2> QED
    BY <2>1, <2>2
<1> QED
  BY <1>5, <1>6

(* An entry that has the name or the title asked for matches it.           *)
LEMMA MatchesByName ==
  ASSUME NEW i \in DOMAIN infos, NEW name, name # Unnamed
  PROVE  i \in Matching(name) <=> name \in {infos[i].name, infos[i].title}
<1>1. available_backends[i] = make_backend_info(infos[i])
  BY DEF available_backends
<1>2. /\ available_backends[i].name = infos[i].name
      /\ available_backends[i].display_name = IF infos[i].title = Unnamed THEN infos[i].name ELSE infos[i].title
  BY <1>1 DEF make_backend_info
<1> QED
  BY <1>2 DEF Matching, backend_name_matches

LEMMA LoadKeepsInv ==
  ASSUME LoadInv, NEW name \in Backends \cup Titles, NEW remote \in BOOLEAN,
         load_backend(name, remote)
  PROVE  LoadInv'
<1>1. infos' = infos /\ infos \in Lists /\ name # Unnamed
  BY DEF LoadInv, load_backend
<1>2. CASE loading' = [name |-> name, remote |-> remote, answer |-> "sdk"]
  BY <1>1, <1>2 DEF LoadInv
<1>3. CASE /\ load_debugger(ChosenName(name, remote), remote)
           /\ loading' = [name |-> name, remote |-> remote, answer |-> "ok"]
  <2>1. dbg'.name = ChosenName(name, remote) /\ dbg'.remote = remote
    BY <1>3 DEF load_debugger
  <2> DEFINE exact == {i \in Matching(name) : infos[i].remote = remote}
  <2>2. exact \in SUBSET DOMAIN infos
    BY DEF Matching
  <2>3. Meant(loading') = exact
    BY <1>1, <1>3, MatchesByName DEF Meant, Matching
  <2>4. ASSUME exact # {} PROVE \E i \in exact : infos[i].name = dbg'.name
    <3>1. Min(exact) \in exact
      BY <1>1, <2>2, <2>4, FirstEntry
    <3>2. ChosenName(name, remote) = infos[Min(exact)].name
      BY <2>4 DEF ChosenName
    <3> HIDE DEF exact
    <3> QED
      BY <2>1, <3>1, <3>2
  <2> HIDE DEF exact
  <2>5. loading'.remote = remote
    BY <1>3
  <2>6. loading' \in [name : Backends \cup Titles, remote : BOOLEAN, answer : {"ok", "sdk", "over"}]
    BY <1>3
  <2>7. (Meant(loading))' = Meant(loading')
    BY <1>1 DEF Meant
  <2> QED
    BY <1>1, <2>1, <2>3, <2>4, <2>5, <2>6, <2>7 DEF LoadInv
<1> QED
  BY <1>2, <1>3 DEF load_backend

-----------------------------------------------------------------------------
(* Appcalls. *)

(* What bits say with a sign is a number of IDC, and says the same bits. *)
LEMMA SignedWords ==
  ASSUME NEW word \in Word
  PROVE  /\ AsSigned(word) \in -SignBit .. SignBit - 1
         /\ AsWord(AsSigned(word)) = word
<1>1. SignBit \in Nat /\ SignBit >= 2 /\ word \in Nat /\ word <= 2 * SignBit - 1
  BY DebuggerAssumption DEF DebuggerAssumption, Word
<1>2. CASE word > MaxSigned
  <2>1. AsSigned(word) = word - 2 * SignBit /\ word >= SignBit
    BY <1>1, <1>2 DEF AsSigned, MaxSigned
  <2>2. (word - 2 * SignBit) % (2 * SignBit) = word
    <3>1. word - 2 * SignBit = (2 * SignBit) * (-1) + word
      BY <1>1
    <3> QED
      BY <1>1, <3>1
  <2> QED
    BY <1>1, <2>1, <2>2 DEF AsWord
<1>3. CASE ~(word > MaxSigned)
  <2>1. AsSigned(word) = word /\ word < SignBit
    BY <1>1, <1>3 DEF AsSigned, MaxSigned
  <2>2. word % (2 * SignBit) = word
    BY <1>1, <2>1
  <2> QED
    BY <1>1, <2>1, <2>2 DEF AsWord
<1> QED
  BY <1>2, <1>3

(* A number is passed exactly if IDC can say it, and its bits come back.   *)
NumberConverted(value, pointer) ==
  /\ Convertible(value) <=> Sayable(value)
  /\ Convertible(value) =>
       /\ PassedAs(value, to_idc_value(value))
       /\ ComesBackAs(value, from_idc_value(to_idc_value(value), pointer))

LEMMA WordArgument ==
  ASSUME NEW value \in AppcallValue, NEW pointer,
         value.kind \in {"SignedInteger", "UnsignedInteger", "Address", "Boolean"}
  PROVE  NumberConverted(value, pointer)
<1>1. SignBit \in Nat /\ SignBit >= 2
  BY DebuggerAssumption DEF DebuggerAssumption
<1>2. value.word \in Word
  BY <1>1 DEF AppcallValue, Word
<1>3. Convertible(value) <=> Sayable(value)
  <2>1. CASE value.kind = "SignedInteger"
    BY <1>2, <2>1, SignedWords DEF Convertible, Sayable, Meaning
  <2>2. CASE value.kind \in {"UnsignedInteger", "Address"}
    BY <1>1, <1>2, <2>2 DEF Convertible, Sayable, Meaning, Word, MaxSigned
  <2>3. CASE value.kind = "Boolean"
    <3>1. value.word \in {0, 1}
      BY <2>3 DEF AppcallValue
    <3> QED
      BY <1>1, <2>3, <3>1 DEF Convertible, Sayable, Meaning
  <2> QED
    BY <2>1, <2>2, <2>3
<1>4. to_idc_value(value) = Number(Meaning(value))
  BY DEF to_idc_value, Meaning
<1>5. to_idc_value(value).kind = "number" /\ to_idc_value(value).number = Meaning(value)
  BY <1>4 DEF Number
<1>6. PassedAs(value, to_idc_value(value))
  BY <1>5 DEF PassedAs
<1>7. AsWord(Meaning(value)) = value.word
  <2>1. CASE value.kind = "SignedInteger"
    BY <1>2, <2>1, SignedWords DEF Meaning
  <2>2. CASE value.kind # "SignedInteger"
    <3>1. value.word % (2 * SignBit) = value.word
      BY <1>1, <1>2 DEF Word
    <3> QED
      BY <2>2, <3>1 DEF Meaning, AsWord
  <2> QED
    BY <2>1, <2>2
<1>8. from_idc_value(to_idc_value(value), pointer).word = value.word
  BY <1>5, <1>7 DEF from_idc_value
<1>9. ComesBackAs(value, from_idc_value(to_idc_value(value), pointer))
  BY <1>8 DEF ComesBackAs
<1> QED
  BY <1>3, <1>6, <1>9 DEF NumberConverted

LEMMA FloatArgument ==
  ASSUME NEW value \in AppcallValue, NEW pointer, value.kind = "FloatingPoint"
  PROVE  NumberConverted(value, pointer)
<1>1. value = [kind |-> "FloatingPoint", real |-> value.real] /\ value.real \in Doubles
  BY DEF AppcallValue
<1>2. Convertible(value) <=> Sayable(value)
  BY DEF Convertible, Sayable
<1>3. to_idc_value(value) = [kind |-> "float", real |-> value.real]
  BY DEF to_idc_value
<1>4. to_idc_value(value).kind = "float" /\ to_idc_value(value).real = value.real
  BY <1>3
<1>5. PassedAs(value, to_idc_value(value))
  BY <1>4 DEF PassedAs
<1>6. ASSUME Convertible(value)
      PROVE  ComesBackAs(value, from_idc_value(to_idc_value(value), pointer))
  <2>1. ToDouble[value.real] = value.real /\ value.real # NoDouble
    BY <1>1, <1>6, ConversionAssumption DEF Convertible
  <2>2. from_idc_value(to_idc_value(value), pointer) = value
    BY <1>1, <1>4, <2>1 DEF from_idc_value
  <2> QED
    BY <2>2 DEF ComesBackAs
<1> QED
  BY <1>2, <1>5, <1>6 DEF NumberConverted

(* What comes before the first zero of a text. *)
LEMMA BeforeTheZero ==
  ASSUME NEW text \in Texts
  PROVE  /\ IsPrefix(UpToZero(text), text)
         /\ 0 \notin Range(UpToZero(text))
         /\ UpToZero(text) = text \/ text[Len(UpToZero(text)) + 1] = 0
         /\ 0 \notin Range(text) => UpToZero(text) = text
<1> DEFINE zeros == {i \in DOMAIN text : text[i] = 0}
           cut == UpToZero(text)
<1>1. text \in Seq(Nat) /\ Len(text) \in Nat /\ DOMAIN text = 1 .. Len(text)
  BY ConversionAssumption
<1>2. CASE zeros = {}
  <2>1. cut = text
    BY <1>2 DEF UpToZero
  <2>2. 0 \notin Range(text)
    BY <1>2 DEF Range
  <2>3. IsPrefix(text, text)
    BY <1>1 DEF IsPrefix
  <2> QED
    BY <2>1, <2>2, <2>3
<1>3. CASE zeros # {}
  <2> DEFINE first == Min(zeros)
  <2>1. first \in zeros /\ \A i \in zeros : first <= i
    <3>1. zeros \subseteq Nat
      BY <1>1
    <3> HIDE DEF zeros
    <3> QED
      BY <1>3, <3>1, MinInSet
  <2>2. first \in 1 .. Len(text) /\ text[first] = 0
    BY <1>1, <2>1
  <2>3. cut = SubSeq(text, 1, first - 1)
    BY <1>3 DEF UpToZero
  <2> HIDE DEF first
  <2>4. /\ Len(cut) = first - 1
        /\ \A i \in 1 .. first - 1 : cut[i] = text[i]
        /\ DOMAIN cut = 1 .. first - 1
    BY <1>1, <2>2, <2>3
  <2> HIDE DEF cut
  <2>5. IsPrefix(cut, text)
    <3>1. SubSeq(cut, 1, Len(cut)) = cut
      BY <1>1, <2>2, <2>3, <2>4
    <3> QED
      BY <1>1, <2>2, <2>3, <2>4, <3>1 DEF IsPrefix
  <2>6. 0 \notin Range(cut)
    <3>1. ASSUME NEW i \in DOMAIN cut PROVE cut[i] # 0
      <4>1. i < first /\ i \in DOMAIN text /\ cut[i] = text[i]
        BY <1>1, <2>2, <2>4
      <4>2. i \notin zeros
        BY <1>1, <2>1, <2>2, <4>1
      <4> QED
        BY <4>1, <4>2
    <3> QED
      BY <3>1 DEF Range
  <2>7. text[Len(cut) + 1] = 0
    BY <2>2, <2>4
  <2>8. 0 \in Range(text)
    BY <1>1, <2>2 DEF Range
  <2> QED
    BY <2>5, <2>6, <2>7, <2>8 DEF cut
<1> QED
  BY <1>2, <1>3

LEMMA TextArgument ==
  ASSUME NEW value \in AppcallValue, NEW pointer, value.kind = "String"
  PROVE  NumberConverted(value, pointer)
<1>1. value = [kind |-> "String", text |-> value.text] /\ value.text \in Texts
  BY DEF AppcallValue
<1>2. Convertible(value) /\ Sayable(value)
  BY DEF Convertible, Sayable
<1> DEFINE idc == to_idc_value(value)
<1>3. idc = [kind |-> "string", text |-> UpToZero(value.text)]
  BY DEF to_idc_value
<1>4. idc.kind = "string" /\ idc.text = UpToZero(value.text)
  BY <1>3
<1>5. PassedAs(value, idc)
  BY <1>1, <1>4, BeforeTheZero DEF PassedAs
<1>6. from_idc_value(idc, pointer) = [kind |-> "String", text |-> UpToZero(value.text)]
  BY <1>4 DEF from_idc_value
<1>7. ComesBackAs(value, from_idc_value(idc, pointer))
  BY <1>1, <1>6, BeforeTheZero DEF ComesBackAs
<1> QED
  BY <1>2, <1>5, <1>7 DEF NumberConverted

LEMMA ArgumentConverted ==
  ASSUME NEW value \in AppcallValue, NEW pointer
  PROVE  NumberConverted(value, pointer)
<1>1. value.kind \in {"SignedInteger", "UnsignedInteger", "Address", "Boolean",
                      "FloatingPoint", "String"}
  BY DEF AppcallValue
<1> QED
  BY <1>1, WordArgument, FloatArgument, TextArgument

(* The arguments of a request are values. *)
LEMMA RequestArguments ==
  ASSUME NEW request \in Requests
  PROVE  /\ \E n \in Nat : DOMAIN request.arguments = 1 .. n
         /\ \A i \in DOMAIN request.arguments : request.arguments[i] \in AppcallValue
<1>1. request.arguments \in BoundedSeq(AppcallValue, MaxArguments)
  BY DEF Requests
<1>2. PICK n \in 0 .. MaxArguments : request.arguments \in [1 .. n -> AppcallValue]
  BY <1>1, DebuggerAssumption DEF DebuggerAssumption, BoundedSeq, SeqOf
<1>3. n \in Nat
  BY DebuggerAssumption DEF DebuggerAssumption
<1> QED
  BY <1>2, <1>3

(* What is promised of a request that is answered. *)
InOrder(request) ==
  /\ request.addressed /\ request.type \in Callable
  /\ request.thread # "invalid" /\ request.timeout # "long"
  /\ \A i \in DOMAIN request.arguments : Sayable(request.arguments[i])

LookedUp(request) ==
  request.type \notin {"nameless_alias", "dangling_alias", "dangling_pointer"}

AppcallInv == CalledWithOwnArguments /\ AnsweredWithTheReturned /\ ArgumentsComeBack

LEMMA ObjectionsAreReasons ==
  ASSUME NEW request \in Requests
  PROVE  /\ Objection(request) = "ok" <=> InOrder(request)
         /\ Objection(request) # "ok" =>
              (Objection(request) = "validation" <=> LookedUp(request) \/ ~request.addressed)
<1>1. /\ request.addressed \in BOOLEAN /\ request.type \in Shapes
  BY DEF Requests
<1>2. (\E i \in DOMAIN request.arguments : ~Convertible(request.arguments[i]))
        <=> ~(\A i \in DOMAIN request.arguments : Sayable(request.arguments[i]))
  BY RequestArguments, ArgumentConverted DEF NumberConverted
<1>3. CASE ~request.addressed
  BY <1>3 DEF Objection, InOrder
<1>4. CASE request.addressed /\ request.type \notin Callable
  <2>1. Objection(request) = normalize_appcall_type(request.type)
    BY <1>4 DEF Objection
  <2>2. request.type \in {"nameless_alias", "dangling_alias", "dangling_pointer",
                         "data_pointer", "data"}
    BY <1>1, <1>4 DEF Shapes
  <2>3. /\ normalize_appcall_type(request.type) # "ok"
        /\ normalize_appcall_type(request.type) = "validation" <=> LookedUp(request)
    BY <1>4, <2>2 DEF normalize_appcall_type, LookedUp
  <2> QED
    BY <1>4, <2>1, <2>3 DEF InOrder
<1>5. CASE request.addressed /\ request.type \in Callable
  <2>1. LookedUp(request)
    BY <1>5 DEF LookedUp, Callable
  <2> QED
    BY <1>2, <1>5, <2>1 DEF Objection, InOrder
<1> QED
  BY <1>1, <1>3, <1>4, <1>5

(* A request that is refused. *)
LEMMA RefusedForReason ==
  ASSUME NEW request \in Requests, AppcallRefused(request)
  PROVE  AppcallInv'
<1>1. appcalled' = Called(request, FALSE, Objection(request), << >>, << >>, << >>)
  BY DEF AppcallRefused
<1>2. /\ appcalled'.request = request /\ appcalled'.called = FALSE
      /\ appcalled'.answer = Objection(request)
  BY <1>1 DEF Called
<1>3. /\ ~InOrder(request)
      /\ Objection(request) = "validation" <=> LookedUp(request) \/ ~request.addressed
  BY ObjectionsAreReasons DEF AppcallRefused
<1>4. CalledWithOwnArguments'
  BY <1>2, <1>3 DEF CalledWithOwnArguments, InOrder, LookedUp
<1>5. Objection(request) \notin {"ok", "unsupported"}
  <2>1. Objection(request) \in {"ok", "validation", "sdk", "not_found"}
    BY DEF Objection, normalize_appcall_type
  <2> QED
    BY <2>1 DEF AppcallRefused
<1>6. AnsweredWithTheReturned'
  BY <1>2, <1>5 DEF AnsweredWithTheReturned
<1>7. ArgumentsComeBack'
  BY <1>2 DEF ArgumentsComeBack
<1> QED
  BY <1>4, <1>6, <1>7 DEF AppcallInv

(* One that is in order is called with its arguments. *)
LEMMA CalledExactly ==
  ASSUME NEW request \in Requests, Objection(request) = "ok",
         NEW answer, NEW returned, NEW value,
         appcalled' = Called(request, TRUE, answer, Arguments(request), returned, value)
  PROVE  CalledWithOwnArguments' /\ ArgumentsComeBack'
<1> DEFINE passed == Arguments(request)
<1>1. /\ appcalled'.request = request /\ appcalled'.called = TRUE
      /\ appcalled'.arguments = passed
  BY DEF Called
<1>2. InOrder(request)
  BY ObjectionsAreReasons
<1>3. Len(passed) = Len(request.arguments)
  <2>1. PICK n \in Nat : DOMAIN request.arguments = 1 .. n
    BY RequestArguments
  <2> DEFINE own == request.arguments
  <2>2. DOMAIN passed = 1 .. n
    BY <2>1 DEF Arguments
  <2> HIDE DEF passed, own
  <2>3. Len(passed) = n /\ Len(own) = n
    BY <2>1, <2>2 DEF own
  <2> QED
    BY <2>3 DEF own
<1>4. DOMAIN passed = DOMAIN request.arguments
  BY DEF Arguments
<1>5. ASSUME NEW i \in DOMAIN request.arguments
      PROVE  /\ PassedAs(request.arguments[i], passed[i])
             /\ ComesBackAs(request.arguments[i], from_idc_value(passed[i], request.pointer))
  <2>1. Sayable(request.arguments[i])
    BY <1>2 DEF InOrder
  <2>2. passed[i] = to_idc_value(request.arguments[i])
    BY DEF Arguments
  <2>3. NumberConverted(request.arguments[i], request.pointer)
    BY RequestArguments, ArgumentConverted
  <2> QED
    BY <2>1, <2>2, <2>3 DEF NumberConverted
<1> HIDE DEF passed
<1>6. CalledWithOwnArguments'
  BY <1>1, <1>2, <1>3, <1>5 DEF CalledWithOwnArguments, InOrder
<1>7. ArgumentsComeBack'
  BY <1>1, <1>4, <1>5 DEF ArgumentsComeBack
<1> QED
  BY <1>6, <1>7

(* What is returned, as a value. *)
LEMMA ReturnedConverted ==
  ASSUME NEW request \in Requests, NEW idc \in IdcValue, appcall(request, idc)
  PROVE  AnsweredWithTheReturned'
<1> DEFINE value == from_idc_value(idc, request.pointer)
<1>1. request.pointer \in BOOLEAN
  BY DEF Requests
<1>2. Unsupported.kind = "unsupported"
  BY DEF Unsupported
<1>3. CASE value = Unsupported
  <2>1. appcalled' = Called(request, TRUE, "unsupported", Arguments(request), <<idc>>, << >>)
    BY <1>3 DEF appcall
  <2>2. /\ appcalled'.answer = "unsupported" /\ appcalled'.returned = <<idc>>
        /\ appcalled'.returned # << >> /\ appcalled'.returned[1] = idc
    BY <2>1 DEF Called
  <2>3. idc.kind = "object" \/ (idc.kind = "float" /\ ToDouble[idc.real] \notin Doubles)
    <3>1. value.kind = "unsupported"
      BY <1>2, <1>3
    <3>2. CASE idc.kind \in {"number", "convertible", "pvoid", "string"}
      BY <1>1, <3>1, <3>2 DEF from_idc_value
    <3>3. CASE idc.kind = "float"
      <4>1. ToDouble[idc.real] = NoDouble
        BY <3>1, <3>3 DEF from_idc_value
      <4> QED
        BY <3>3, <4>1, ConversionAssumption
    <3> QED
      BY <3>2, <3>3 DEF IdcValue
  <2> HIDE DEF value
  <2> QED
    BY <2>2, <2>3 DEF AnsweredWithTheReturned
<1>4. CASE value # Unsupported
  <2>1. appcalled' = Called(request, TRUE, "ok", Arguments(request), <<idc>>, <<value>>)
    BY <1>4 DEF appcall
  <2>2. /\ appcalled'.answer = "ok" /\ appcalled'.returned = <<idc>>
        /\ appcalled'.returned # << >> /\ appcalled'.returned[1] = idc
        /\ appcalled'.value[1] = value /\ appcalled'.request = request
    BY <2>1 DEF Called
  <2>3. CASE idc.kind = "string"
    <3>1. value = [kind |-> "String", text |-> idc.text]
      BY <2>3 DEF from_idc_value
    <3> HIDE DEF value
    <3> QED
      BY <2>2, <2>3, <3>1 DEF AnsweredWithTheReturned
  <2>4. CASE idc.kind = "float"
    <3>1. idc.real \in IdcReals
      BY <2>4 DEF IdcValue
    <3>2. /\ value = [kind |-> "FloatingPoint", real |-> ToDouble[idc.real]]
          /\ ToDouble[idc.real] # NoDouble
      BY <1>4, <2>4 DEF from_idc_value
    <3>3. /\ ToDouble[idc.real] \in Doubles
          /\ idc.real \in Doubles => ToDouble[idc.real] = idc.real
      BY <3>1, <3>2, ConversionAssumption
    <3> HIDE DEF value
    <3>4. /\ value.kind = "FloatingPoint" /\ value.real = ToDouble[idc.real]
      BY <3>2
    <3> QED
      BY <2>2, <2>4, <3>3, <3>4 DEF AnsweredWithTheReturned
  <2>5. CASE idc.kind \in {"number", "convertible", "pvoid"}
    <3>1. /\ value.kind = IF idc.kind = "pvoid" \/ request.pointer
                          THEN "Address" ELSE "SignedInteger"
          /\ value.word = IF idc.kind = "pvoid" THEN idc.word ELSE AsWord(idc.number)
      BY <1>1, <2>5 DEF from_idc_value
    <3> HIDE DEF value
    <3> QED
      BY <2>2, <2>5, <3>1 DEF AnsweredWithTheReturned
  <2>6. idc.kind # "object"
    BY <1>4 DEF from_idc_value
  <2> QED
    BY <2>3, <2>4, <2>5, <2>6 DEF IdcValue
<1> QED
  BY <1>3, <1>4

LEMMA AppcallStep ==
  ASSUME AppcallInv, AppcallsNext
  PROVE  AppcallInv'
<1>1. ASSUME NEW request \in Requests, AppcallFails(request) PROVE AppcallInv'
  <2>1. CalledWithOwnArguments' /\ ArgumentsComeBack'
    BY <1>1, CalledExactly DEF AppcallFails
  <2>2. appcalled'.answer = "sdk" /\ appcalled'.returned = << >>
    BY <1>1 DEF AppcallFails, Called
  <2>3. AnsweredWithTheReturned'
    BY <2>2 DEF AnsweredWithTheReturned
  <2> QED
    BY <2>1, <2>3 DEF AppcallInv
<1>2. ASSUME NEW request \in Requests, NEW returned \in IdcValue, appcall(request, returned)
      PROVE  AppcallInv'
  <2>1. Objection(request) = "ok"
    BY <1>2 DEF appcall
  <2>2. \E answer, value :
          appcalled' = Called(request, TRUE, answer, Arguments(request), <<returned>>, value)
    BY <1>2 DEF appcall
  <2>3. CalledWithOwnArguments' /\ ArgumentsComeBack'
    BY <2>1, <2>2, CalledExactly
  <2> QED
    BY <1>2, <2>3, ReturnedConverted DEF AppcallInv
<1>3. CASE NextAppcall
  BY <1>3 DEF NextAppcall, AppcallInv, CalledWithOwnArguments, AnsweredWithTheReturned,
              ArgumentsComeBack
<1> QED
  BY <1>1, <1>2, <1>3, RefusedForReason DEF AppcallsNext

(***************************************************************************)
(* The backend that is loaded is the one asked for; a function is called   *)
(* exactly if the request is in order, with the arguments' own numbers,    *)
(* floats and strings; and the answer is what the function returned, as an *)
(* address also if only IDC says so, or an error when no value of the      *)
(* client can say it (DebuggerSound): for any backends and titles, any     *)
(* width of numbers, any floats of the two sides, any number of arguments. *)
(***************************************************************************)
THEOREM DebuggerAnswers == DebuggerSpec => []DebuggerSound
<1>1. DebuggerInit => LoadInv /\ AppcallInv
  <2> SUFFICES ASSUME DebuggerInit PROVE LoadInv /\ AppcallInv
    OBVIOUS
  <2> QED
    BY DebuggerAssumption DEF DebuggerAssumption, DebuggerInit, LoadInv, AppcallInv,
                              CalledWithOwnArguments, AnsweredWithTheReturned, ArgumentsComeBack
<1>2. LoadInv /\ AppcallInv /\ [BackendsNext \/ AppcallsNext]_debuggervars
      => (LoadInv /\ AppcallInv)'
  <2> SUFFICES ASSUME LoadInv, AppcallInv, [BackendsNext \/ AppcallsNext]_debuggervars
               PROVE  LoadInv' /\ AppcallInv'
    OBVIOUS
  <2>1. ASSUME UNCHANGED <<infos, dbg, loading>> PROVE LoadInv'
    BY <2>1 DEF LoadInv, Meant
  <2>2. ASSUME UNCHANGED appcalled PROVE AppcallInv'
    BY <2>2 DEF AppcallInv, CalledWithOwnArguments, AnsweredWithTheReturned,
                ArgumentsComeBack
  <2>3. CASE UNCHANGED debuggervars
    BY <2>1, <2>2, <2>3 DEF debuggervars
  <2>4. CASE AppcallsNext
    <3>1. UNCHANGED <<infos, dbg, loading>>
      BY <2>4 DEF AppcallsNext, AppcallRefused, AppcallFails, appcall, NextAppcall
    <3> QED
      BY <2>1, <2>4, <3>1, AppcallStep
  <2>5. CASE \E name \in Backends \cup Titles, remote \in BOOLEAN : load_backend(name, remote)
    <3>1. UNCHANGED appcalled
      BY <2>5 DEF load_backend
    <3> QED
      BY <2>2, <2>5, <3>1, LoadKeepsInv
  <2>6. CASE UserSelects
    <3>1. UNCHANGED appcalled /\ infos' = infos
      BY <2>6 DEF UserSelects
    <3>2. loading' = [loading EXCEPT !.answer = "over"]
      BY <2>6 DEF UserSelects
    <3>3. LoadInv'
      BY <3>1, <3>2 DEF LoadInv
    <3> QED
      BY <2>2, <3>1, <3>3
  <2> QED
    BY <2>3, <2>4, <2>5, <2>6 DEF BackendsNext
<1>3. LoadInv /\ AppcallInv => DebuggerSound
  <2> SUFFICES ASSUME LoadInv, AppcallInv PROVE BackendAsAsked
    BY DEF DebuggerSound, AppcallInv
  <2> QED
    BY LoadedIsOne DEF BackendAsAsked, LoadInv, Meant
<1> QED
  BY <1>1, <1>2, <1>3, PTL DEF DebuggerSpec
=============================================================================
