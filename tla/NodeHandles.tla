---------------------------- MODULE NodeHandles ----------------------------
(***************************************************************************)
(* The objects the Node binding hands to JavaScript                        *)
(* (bindings/node/src/decompiler_bind.cpp, database_bind.cpp, ui_bind.cpp):*)
(* decompiled functions, which must be gone when the database closes;      *)
(* microcode contexts, which mean something only while the filter callback *)
(* they were made for runs; and wait boxes, each hidden exactly once.      *)
(*                                                                         *)
(* JavaScript has one thread.  It runs at top level, in the callback of a  *)
(* visit and in a filter's callbacks, which the SDK calls in the middle of *)
(* a decompilation; the garbage collector takes objects at any time.       *)
(***************************************************************************)
EXTENDS Naturals, Sequences, FiniteSets, SequencesExt

CONSTANTS
  Wrappers,       \* DecompiledFunctionWrapper objects
  Contexts,       \* MicrocodeContextWrapper objects
  Boxes,          \* WaitBox objects
  FilterTokens,   \* microcode filters registered from JavaScript
  MaxOpened,      \* bound: databases opened
  MaxFrames       \* bound: nested calls

ASSUME HandlesAssumption ==
  /\ MaxOpened \in Nat /\ MaxFrames \in Nat
  /\ IsFiniteSet(Boxes)

VARIABLES
  database,       \* external: the open database, 0 when there is none
  opened,         \* how many were opened
  live_wrappers,  \* the wrappers that exist
  func_,          \* per wrapper: the database of its function, 0 for null
  contexts,       \* per context object: "none", "valid" or "stale"
  js_filters,     \* g_microcode_filters
  frames,         \* the calls that are running, innermost last
  active_,        \* the WaitBox objects that are active_
  shown           \* external: the SDK's wait boxes on screen

nodevars == <<database, opened, live_wrappers, func_, contexts, js_filters,
              frames, active_, shown>>

Frame == [kind : {"decompile", "visit", "filter"}, object : Wrappers \cup Contexts \cup {"none"}]

HandlesTypeOK ==
  /\ database \in 0 .. opened /\ opened \in 0 .. MaxOpened
  /\ live_wrappers \subseteq Wrappers
  /\ func_ \in [Wrappers -> 0 .. MaxOpened]
  /\ contexts \in [Contexts -> {"none", "valid", "stale"}]
  /\ js_filters \subseteq FilterTokens
  /\ frames \in Seq(Frame) /\ Len(frames) <= MaxFrames
  /\ active_ \subseteq Boxes
  /\ shown \in 0 .. Cardinality(Boxes)

HandlesInit ==
  /\ database = 0 /\ opened = 0
  /\ live_wrappers = {} /\ func_ = [w \in Wrappers |-> 0]
  /\ contexts = [c \in Contexts |-> "none"]
  /\ js_filters = {}
  /\ frames = << >>
  /\ active_ = {} /\ shown = 0

Running(kind) == frames # << >> /\ Last(frames).kind = kind
Within(kind) == \E i \in DOMAIN frames : frames[i].kind = kind
On(kind, object) == [kind |-> kind, object |-> object] \in ToSet(frames)

(* JavaScript is running: the innermost call is not the SDK's. *)
Script == ~Running("decompile")

Enters(kind, object) ==
  /\ Len(frames) < MaxFrames
  /\ frames' = Append(frames, [kind |-> kind, object |-> object])

Returns(kind) == Running(kind) /\ frames' = Front(frames)

-----------------------------------------------------------------------------
(* The database. *)

(* A client opens a database when none is open. *)
Open ==
  /\ Script /\ ~Within("decompile")
  /\ database = 0 /\ opened < MaxOpened
  /\ database' = opened + 1 /\ opened' = opened + 1
  /\ UNCHANGED <<live_wrappers, func_, contexts, js_filters, frames, active_, shown>>

DisposeAllLiveWrappers_SparesVisited ==
  func_' = [w \in Wrappers |->
              IF w \in live_wrappers /\ ~On("visit", w) THEN 0 ELSE func_[w]]

DisposeAllLiveWrappers ==
  func_' = [w \in Wrappers |-> IF w \in live_wrappers THEN 0 ELSE func_[w]]

(* close(): also in the callback of a visit, whose function it frees, but  *)
(* not in the middle of a decompilation.                                   *)
Close ==
  /\ Script /\ ~Within("decompile")
  /\ DisposeAllLiveWrappers
  /\ database' = 0
  /\ UNCHANGED <<opened, live_wrappers, contexts, js_filters, frames, active_, shown>>

-----------------------------------------------------------------------------
(* Decompiled functions. *)

Decompile ==
  /\ Script /\ database # 0
  /\ Enters("decompile", "none")
  /\ UNCHANGED <<database, opened, live_wrappers, func_, contexts, js_filters, active_, shown>>

(* NewInstance hands the function to the constructor it calls, New. *)
NewInstance(w) ==
  /\ w \notin live_wrappers
  /\ Returns("decompile")
  /\ live_wrappers' = live_wrappers \cup {w}
  /\ func_' = [func_ EXCEPT ![w] = database]
  /\ UNCHANGED <<database, opened, contexts, js_filters, active_, shown>>

DecompileFails ==
  /\ Returns("decompile")
  /\ UNCHANGED <<database, opened, live_wrappers, func_, contexts, js_filters, active_, shown>>

(* A script reaches the constructor through an object: no function waits.  *)
New(w) ==
  /\ Script /\ w \notin live_wrappers
  /\ live_wrappers' = live_wrappers \cup {w}
  /\ func_' = [func_ EXCEPT ![w] = 0]
  /\ UNCHANGED <<database, opened, contexts, js_filters, frames, active_, shown>>

(* The destructor: a running method keeps its object alive.  *)
Collected(w) ==
  /\ w \in live_wrappers /\ ~On("visit", w)
  /\ live_wrappers' = live_wrappers \ {w}
  /\ func_' = [func_ EXCEPT ![w] = 0]
  /\ UNCHANGED <<database, opened, contexts, js_filters, frames, active_, shown>>

EnsureAlive(w) == w \in live_wrappers /\ func_[w] # 0

(* forEachExpression and forEachItem look once, before the visit starts.   *)
(* The methods that call nothing back leave this state alone.              *)
ForEach(w) ==
  /\ Script /\ EnsureAlive(w)
  /\ Enters("visit", w)
  /\ UNCHANGED <<database, opened, live_wrappers, func_, contexts, js_filters, active_, shown>>

ForEachReturns ==
  /\ Returns("visit")
  /\ UNCHANGED <<database, opened, live_wrappers, func_, contexts, js_filters, active_, shown>>

-----------------------------------------------------------------------------
(* Microcode filters.  The core may refuse either call, which then throws  *)
(* and changes nothing.                                                    *)

RegisterMicrocodeFilter(token) ==
  /\ Script /\ token \notin js_filters
  /\ js_filters' = js_filters \cup {token}
  /\ UNCHANGED <<database, opened, live_wrappers, func_, contexts, frames, active_, shown>>

UnregisterMicrocodeFilter(token) ==
  /\ Script /\ token \in js_filters
  /\ js_filters' = js_filters \ {token}
  /\ UNCHANGED <<database, opened, live_wrappers, func_, contexts, frames, active_, shown>>

(* match or apply calls its function with a context of its own ... *)
FilterCallback(c) ==
  /\ Running("decompile") /\ js_filters # {}
  /\ contexts[c] = "none"
  /\ Enters("filter", c)
  /\ contexts' = [contexts EXCEPT ![c] = "valid"]
  /\ UNCHANGED <<database, opened, live_wrappers, func_, js_filters, active_, shown>>

(* ... and invalidates it, whether the function returned or threw.         *)
FilterReturns ==
  /\ Returns("filter")
  /\ contexts' = [contexts EXCEPT ![Last(frames).object] = "stale"]
  /\ UNCHANGED <<database, opened, live_wrappers, func_, js_filters, active_, shown>>

ContextCollected(c) ==
  /\ contexts[c] = "stale"
  /\ contexts' = [contexts EXCEPT ![c] = "none"]
  /\ UNCHANGED <<database, opened, live_wrappers, func_, js_filters, frames, active_, shown>>

-----------------------------------------------------------------------------
(* Wait boxes. *)

WaitBox(b) ==
  /\ Script /\ b \notin active_
  /\ active_' = active_ \cup {b} /\ shown' = shown + 1
  /\ UNCHANGED <<database, opened, live_wrappers, func_, contexts, js_filters, frames>>

(* dismiss, the destructor and the collector. *)
dismiss(b) ==
  /\ b \in active_
  /\ active_' = active_ \ {b} /\ shown' = shown - 1
  /\ UNCHANGED <<database, opened, live_wrappers, func_, contexts, js_filters, frames>>

(* C++ clients move boxes: the box assigned to is dismissed first. *)
MoveBox(b, other) ==
  /\ b # other /\ other \in active_
  /\ active_' = (active_ \ {other}) \cup {b}
  /\ shown' = IF b \in active_ THEN shown - 1 ELSE shown
  /\ UNCHANGED <<database, opened, live_wrappers, func_, contexts, js_filters, frames>>

-----------------------------------------------------------------------------
HandlesNext ==
  \/ Open \/ Close \/ Decompile \/ DecompileFails \/ ForEachReturns \/ FilterReturns
  \/ \E w \in Wrappers : NewInstance(w) \/ New(w) \/ Collected(w) \/ ForEach(w)
  \/ \E c \in Contexts : FilterCallback(c) \/ ContextCollected(c)
  \/ \E token \in FilterTokens : RegisterMicrocodeFilter(token) \/ UnregisterMicrocodeFilter(token)
  \/ \E b, other \in Boxes : WaitBox(b) \/ dismiss(b) \/ MoveBox(b, other)

HandlesSpec == HandlesInit /\ [][HandlesNext]_nodevars

-----------------------------------------------------------------------------
(* A function JavaScript can still use belongs to the database that is     *)
(* open: closing, even from the callback of a visit, leaves none behind,   *)
(* and one made before is never used with the next database.  A context is *)
(* valid exactly while the callback it was made for runs, and the boxes on *)
(* screen are those some WaitBox object still has to hide.  (It includes   *)
(* that the variables have their types.)                                   *)
WrappersReachLiveObjects ==
  /\ HandlesTypeOK
  /\ \A w \in Wrappers : EnsureAlive(w) => func_[w] = database
  /\ \A c \in Contexts : contexts[c] = "valid" <=> On("filter", c)
  /\ shown = Cardinality(active_)
=============================================================================
