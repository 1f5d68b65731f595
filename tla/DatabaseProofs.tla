--------------------------- MODULE DatabaseProofs ---------------------------
(***************************************************************************)
(* Proofs about the executors, the walks over the listing, the segments,   *)
(* the plugin policy with its wildcards, a client's graph, the lines of    *)
(* comments and the functions, for every value of their constants.         *)
(***************************************************************************)
EXTENDS Executors, Items, Segments, PluginPolicy, GraphObject, Comments, FunctionListing,
        StackLemmas

(* The calls that all threads are in, each named by its thread and its     *)
(* depth, and the frame of one of them.                                    *)
Frames(calls) == FramesOf(Callers, calls)
At(calls, p) == FrameAt(calls, p)

(* Somebody has a shared pointer to the executor of context c. *)
HoldingPcs == {"boxed", "executing"}
Shared(registry, calls, c) ==
  \/ \E n \in Names : registry[n] = c
  \/ \E p \in Frames(calls) : At(calls, p).pc \in HoldingPcs /\ At(calls, p).ctx = c

-----------------------------------------------------------------------------
(* The invariant. *)

VarsTyped ==
  /\ executors \in [Names -> Context \cup {None}]
  /\ noted \in [Names -> Context \cup {None}]
  /\ created \in 0 .. MaxContext
  /\ drops \in [Context -> 0 .. 2]
  /\ running \in [Callers -> Seq(ExecutorFrame)]

(* Only a context that was boxed is registered. *)
NamesInv == \A n \in Names : executors[n] # None => executors[n] \in 1 .. created

(* A context that is on its way to the registry is not in it, and one that *)
(* was rejected has been dropped once.                                     *)
FrameInv(f) ==
  /\ f.pc # "unregistered" => f.ctx \in 1 .. created
  /\ f.pc = "boxed" => \A n \in Names : executors[n] # f.ctx
  /\ f.pc = "rejected" => drops[f.ctx] = 1
FramesInv == \A p \in Frames(running) : FrameInv(At(running, p))

(* A registration on its way, or rejected, is the only call that knows the *)
(* context it has boxed.                                                   *)
OwnInv ==
  \A p, q \in Frames(running) :
    /\ p # q
    /\ At(running, p).pc \in {"boxed", "rejected"}
    /\ At(running, q).pc \in {"boxed", "rejected", "executing"}
    => At(running, p).ctx # At(running, q).ctx

(* A context has been dropped if and only if nobody shares it. *)
DropsInv ==
  \A c \in Context :
    drops[c] = 0 <=> c \notin 1 .. created \/ Shared(executors, running, c)

ExecutorInv == VarsTyped /\ NamesInv /\ FramesInv /\ OwnInv /\ DropsInv

-----------------------------------------------------------------------------
(* What a step does to the calls. *)

LEMMA FramesAreTyped ==
  ASSUME NEW calls \in [Callers -> Seq(ExecutorFrame)], NEW p \in Frames(calls)
  PROVE  At(calls, p) \in ExecutorFrame
BY FramesTyped DEF Frames, At

LEMMA FrameBegun ==
  ASSUME VarsTyped, NEW u \in Callers, NEW f \in ExecutorFrame, Begin(u, f)
  PROVE  /\ running' \in [Callers -> Seq(ExecutorFrame)]
         /\ \E p \in Callers \X Nat :
              /\ p \notin Frames(running)
              /\ Frames(running') = Frames(running) \cup {p}
              /\ At(running', p) = f
              /\ \A q \in Frames(running) : At(running', q) = At(running, q)
<1> DEFINE p == <<u, Len(running[u]) + 1>>
<1>1. running \in [Callers -> Seq(ExecutorFrame)] /\ running' = Pushed(running, u, f)
  BY DEF VarsTyped, Begin, Pushed
<1>2. /\ running' \in [Callers -> Seq(ExecutorFrame)]
      /\ p \notin FramesOf(Callers, running)
      /\ FramesOf(Callers, running') = FramesOf(Callers, running) \cup {p}
      /\ FrameAt(running', p) = f
      /\ \A q \in FramesOf(Callers, running) : FrameAt(running', q) = FrameAt(running, q)
      /\ Len(running[u]) \in Nat
  BY <1>1, FramePushed
<1>3. p \in Callers \X Nat
  BY <1>2
<1> QED
  BY <1>2, <1>3 DEF Frames, At

LEMMA FrameBecame ==
  ASSUME VarsTyped, NEW u \in Callers, running[u] # << >>, NEW pc \in FramePcs,
         Become(u, pc)
  PROVE  /\ running' \in [Callers -> Seq(ExecutorFrame)]
         /\ Frames(running') = Frames(running)
         /\ \E p \in Frames(running) :
              /\ At(running, p) = Innermost(u)
              /\ At(running', p) = [Innermost(u) EXCEPT !.pc = pc]
              /\ \A q \in Frames(running) \ {p} : At(running', q) = At(running, q)
<1> DEFINE p == <<u, Len(running[u])>>
           f == [Innermost(u) EXCEPT !.pc = pc]
<1>1. running \in [Callers -> Seq(ExecutorFrame)] /\ running' = TopSet(running, u, f)
  BY DEF VarsTyped, Become, TopSet, Innermost
<1>2. /\ Innermost(u) \in ExecutorFrame
      /\ FrameAt(running, p) = Innermost(u)
  BY <1>1, TopFrame DEF Innermost, Last
<1>3. f \in ExecutorFrame
  BY <1>2 DEF ExecutorFrame
<1> HIDE DEF f
<1>4. /\ running' \in [Callers -> Seq(ExecutorFrame)]
      /\ p \in FramesOf(Callers, running)
      /\ FramesOf(Callers, running') = FramesOf(Callers, running)
      /\ FrameAt(running', p) = f
      /\ \A q \in FramesOf(Callers, running) \ {p} : FrameAt(running', q) = FrameAt(running, q)
  BY <1>1, <1>3, FrameSet
<1> QED
  BY <1>2, <1>4 DEF Frames, At, f

LEMMA FrameEnded ==
  ASSUME VarsTyped, NEW u \in Callers, running[u] # << >>, End(u)
  PROVE  /\ running' \in [Callers -> Seq(ExecutorFrame)]
         /\ \E p \in Frames(running) :
              /\ At(running, p) = Innermost(u)
              /\ Frames(running') = Frames(running) \ {p}
              /\ \A q \in Frames(running) \ {p} : At(running', q) = At(running, q)
<1> DEFINE p == <<u, Len(running[u])>>
<1>1. running \in [Callers -> Seq(ExecutorFrame)] /\ running' = Popped(running, u)
  BY DEF VarsTyped, End, Popped
<1>2. FrameAt(running, p) = Innermost(u)
  BY <1>1, TopFrame DEF Innermost, Last
<1>3. /\ running' \in [Callers -> Seq(ExecutorFrame)]
      /\ p \in FramesOf(Callers, running)
      /\ FramesOf(Callers, running') = FramesOf(Callers, running) \ {p}
      /\ \A q \in FramesOf(Callers, running) \ {p} : FrameAt(running', q) = FrameAt(running, q)
  BY <1>1, FramePopped
<1> QED
  BY <1>2, <1>3 DEF Frames, At

-----------------------------------------------------------------------------
(* Sharing. *)

LEMMA SharedBySomebody ==
  ASSUME NEW registry, NEW calls \in [Callers -> Seq(ExecutorFrame)], NEW c
  PROVE  SharedBy(registry, calls, c) # {} <=> Shared(registry, calls, c)
<1>1. \A u \in Callers : DOMAIN calls[u] \subseteq Nat
  <2>1. \A u \in Callers : DOMAIN calls[u] = 1 .. Len(calls[u])
    BY LenProperties
  <2> QED
    BY <2>1
<1>2. ASSUME NEW u \in Callers, NEW i \in DOMAIN calls[u]
      PROVE  <<u, i>> \in Frames(calls) /\ At(calls, <<u, i>>) = calls[u][i]
  BY <1>1 DEF Frames, FramesOf, At, FrameAt
<1>3. ASSUME NEW p \in Frames(calls)
      PROVE  p[1] \in Callers /\ p[2] \in DOMAIN calls[p[1]] /\ At(calls, p) = calls[p[1]][p[2]]
  BY DEF Frames, FramesOf, At, FrameAt
<1>4. ASSUME SharedBy(registry, calls, c) # {} PROVE Shared(registry, calls, c)
  <2>1. PICK x : x \in SharedBy(registry, calls, c)
    BY <1>4
  <2>2. CASE x \in Names /\ registry[x] = c
    BY <2>2 DEF Shared
  <2>3. ASSUME x \in Callers,
               \E i \in DOMAIN calls[x] :
                 calls[x][i].pc \in {"boxed", "executing"} /\ calls[x][i].ctx = c
        PROVE  Shared(registry, calls, c)
    BY <1>2, <2>3 DEF Shared, HoldingPcs
  <2> QED
    BY <2>1, <2>2, <2>3 DEF SharedBy
<1>5. ASSUME Shared(registry, calls, c) PROVE SharedBy(registry, calls, c) # {}
  <2>1. ASSUME NEW n \in Names, registry[n] = c PROVE n \in SharedBy(registry, calls, c)
    BY <2>1 DEF SharedBy
  <2>2. ASSUME NEW p \in Frames(calls), At(calls, p).pc \in HoldingPcs, At(calls, p).ctx = c
        PROVE  p[1] \in SharedBy(registry, calls, c)
    BY <1>3, <2>2 DEF SharedBy, HoldingPcs
  <2> QED
    BY <1>5, <2>1, <2>2 DEF Shared
<1> QED
  BY <1>4, <1>5

(* Nobody shares what was not made. *)
LEMMA SharedIsMade ==
  ASSUME ExecutorInv, NEW c \in Context, Shared(executors, running, c)
  PROVE  c \in 1 .. created
<1>0. c # None
  BY ExecutorAssumption DEF Context
<1>1. ASSUME NEW n \in Names, executors[n] = c PROVE c \in 1 .. created
  BY <1>0, <1>1 DEF ExecutorInv, NamesInv
<1>2. ASSUME NEW p \in Frames(running), At(running, p).pc \in HoldingPcs,
             At(running, p).ctx = c
      PROVE  c \in 1 .. created
  BY <1>2 DEF ExecutorInv, FramesInv, FrameInv, HoldingPcs
<1> QED
  BY <1>1, <1>2 DEF Shared

(* The step that gives up the last pointer to an executor drops its        *)
(* context: no pointer to it comes into being after that.                  *)
LEMMA Released ==
  ASSUME ExecutorInv, running' \in [Callers -> Seq(ExecutorFrame)],
         ReleaseUnshared, created' = created,
         \A c \in 1 .. created : Shared(executors', running', c) => Shared(executors, running, c)
  PROVE  /\ drops' \in [Context -> 0 .. 2]
         /\ DropsInv'
         /\ \A c \in Context : drops[c] # 0 => drops'[c] = drops[c]
         /\ \A c \in 1 .. created :
              drops[c] = 0 /\ ~Shared(executors', running', c) => drops'[c] = 1
<1>0. 1 .. created \subseteq Context
  BY ExecutorAssumption DEF ExecutorInv, VarsTyped, Context
<1>1. drops' = [c \in Context |-> IF /\ Shared(executors, running, c)
                                     /\ ~Shared(executors', running', c)
                                  THEN drops[c] + 1 ELSE drops[c]]
  BY SharedBySomebody DEF ReleaseUnshared, ExecutorInv, VarsTyped
<1>2. ASSUME NEW c \in Context
      PROVE  /\ drops[c] = 0 => drops'[c] \in {0, 1}
             /\ drops[c] # 0 => drops'[c] = drops[c]
             /\ drops'[c] = 0 <=> c \notin 1 .. created \/ Shared(executors', running', c)
             /\ c \in 1 .. created /\ drops[c] = 0 /\ ~Shared(executors', running', c)
                  => drops'[c] = 1
  <2>1. drops[c] \in 0 .. 2
    BY DEF ExecutorInv, VarsTyped
  <2>2. drops[c] = 0 <=> c \notin 1 .. created \/ Shared(executors, running, c)
    BY DEF ExecutorInv, DropsInv
  <2>3. c \in 1 .. created /\ Shared(executors', running', c) => Shared(executors, running, c)
    OBVIOUS
  <2>4. c \notin 1 .. created => ~Shared(executors, running, c)
    BY SharedIsMade
  <2>5. CASE c \in 1 .. created
    BY <1>1, <2>1, <2>2, <2>3, <2>5
  <2>6. CASE c \notin 1 .. created
    BY <1>1, <2>1, <2>2, <2>4, <2>6
  <2> QED
    BY <2>5, <2>6
<1>3. drops' \in [Context -> 0 .. 2]
  <2>1. \A c \in Context : drops'[c] \in 0 .. 2
    BY <1>2 DEF ExecutorInv, VarsTyped
  <2> QED
    BY <1>1, <2>1
<1>4. DropsInv'
  BY <1>2 DEF DropsInv
<1> QED
  BY <1>0, <1>2, <1>3, <1>4

-----------------------------------------------------------------------------
(* The steps. *)

LEMMA RegisterStep ==
  ASSUME ExecutorInv, NEW u \in Callers, NEW n \in Names, register_executor(u, n)
  PROVE  ExecutorInv'
<1> DEFINE c == created + 1
           f == [pc |-> "boxed", name |-> n, ctx |-> c]
<1>0. /\ VarsTyped /\ created \in Nat /\ created < MaxContext /\ created' = c
      /\ c \in Context /\ c \in 1 .. created' /\ c \notin 1 .. created
      /\ 1 .. created' = (1 .. created) \cup {c} /\ c # None
      /\ UNCHANGED <<executors, noted, drops>>
  BY ExecutorAssumption DEF ExecutorInv, VarsTyped, register_executor, Context
<1>1. f \in ExecutorFrame /\ f.pc = "boxed" /\ f.ctx = c
  BY <1>0 DEF ExecutorFrame, FramePcs
<1>2. Begin(u, f)
  BY <1>0 DEF register_executor
<1> HIDE DEF f, c
<1>3. running' \in [Callers -> Seq(ExecutorFrame)]
  BY <1>0, <1>1, <1>2, FrameBegun
<1>4. PICK p \in Callers \X Nat :
        /\ p \notin Frames(running)
        /\ Frames(running') = Frames(running) \cup {p}
        /\ At(running', p) = f
        /\ \A q \in Frames(running) : At(running', q) = At(running, q)
  BY <1>0, <1>1, <1>2, FrameBegun
<1>5. VarsTyped'
  <2>1. created' \in 0 .. MaxContext
    BY <1>0, ExecutorAssumption DEF c
  <2> QED
    BY <1>0, <1>3, <2>1 DEF VarsTyped
<1>6. NamesInv'
  BY <1>0 DEF ExecutorInv, NamesInv
<1>7. \A m \in Names : executors[m] # c
  BY <1>0 DEF ExecutorInv, NamesInv
<1>8. FramesInv'
  <2>1. ASSUME NEW q \in Frames(running) PROVE FrameInv(At(running, q))'
    <3>1. FrameInv(At(running, q))
      BY DEF ExecutorInv, FramesInv
    <3> QED
      BY <1>0, <1>4, <3>1 DEF FrameInv
  <2>2. FrameInv(At(running, p))'
    BY <1>0, <1>1, <1>4, <1>7 DEF FrameInv
  <2> QED
    BY <1>4, <2>1, <2>2 DEF FramesInv
<1>9. \A q \in Frames(running) : At(running, q).pc # "unregistered" => At(running, q).ctx # c
  BY <1>0 DEF ExecutorInv, FramesInv, FrameInv
<1>10. OwnInv'
  BY <1>1, <1>4, <1>9 DEF ExecutorInv, OwnInv
<1>11. DropsInv'
  <2>1. ASSUME NEW d \in Context, d # c
        PROVE  Shared(executors', running', d) <=> Shared(executors, running, d)
    BY <1>0, <1>1, <1>4, <2>1 DEF Shared
  <2>2. Shared(executors', running', c)
    BY <1>1, <1>4 DEF Shared, HoldingPcs
  <2> QED
    BY <1>0, <2>1, <2>2 DEF ExecutorInv, DropsInv
<1> QED
  BY <1>5, <1>6, <1>8, <1>10, <1>11 DEF ExecutorInv

(* The call that registers: in the registry, or rejected. *)
LEMMA NamedStep ==
  ASSUME ExecutorInv, NEW u \in Callers, register_named(u)
  PROVE  ExecutorInv'
<1> DEFINE f == Innermost(u)
<1>0. /\ VarsTyped /\ running[u] # << >> /\ f.pc = "boxed"
      /\ ReleaseUnshared /\ UNCHANGED <<noted, created>>
  BY DEF ExecutorInv, register_named, InCall
<1>1. ASSUME NEW pc \in {"registered", "rejected"}, Become(u, pc)
      PROVE  /\ running' \in [Callers -> Seq(ExecutorFrame)]
             /\ Frames(running') = Frames(running)
             /\ \E p \in Frames(running) :
                  /\ At(running, p) = f
                  /\ At(running', p).pc = pc /\ At(running', p).ctx = f.ctx
                  /\ \A q \in Frames(running) \ {p} : At(running', q) = At(running, q)
                  /\ FrameInv(f) /\ f \in ExecutorFrame
  <2>1. pc \in FramePcs
    BY DEF FramePcs
  <2>2. /\ running' \in [Callers -> Seq(ExecutorFrame)]
        /\ Frames(running') = Frames(running)
    BY <1>0, <1>1, <2>1, FrameBecame
  <2>3. PICK p \in Frames(running) :
              /\ At(running, p) = f
              /\ At(running', p) = [f EXCEPT !.pc = pc]
              /\ \A q \in Frames(running) \ {p} : At(running', q) = At(running, q)
    BY <1>0, <1>1, <2>1, FrameBecame
  <2>4. f \in ExecutorFrame /\ FrameInv(f)
    BY <1>0, <2>3, FramesAreTyped DEF ExecutorInv, FramesInv, VarsTyped
  <2>5. [f EXCEPT !.pc = pc].pc = pc /\ [f EXCEPT !.pc = pc].ctx = f.ctx
    BY <2>4 DEF ExecutorFrame
  <2> QED
    BY <2>2, <2>3, <2>4, <2>5
<1>2. CASE f.name # EmptyName /\ executors[f.name] = None
  <2>0. executors' = [executors EXCEPT ![f.name] = f.ctx] /\ Become(u, "registered")
    BY <1>2 DEF register_named
  <2>1. /\ running' \in [Callers -> Seq(ExecutorFrame)]
        /\ Frames(running') = Frames(running)
    BY <1>1, <2>0
  <2>2. PICK p \in Frames(running) :
              /\ At(running, p) = f
              /\ At(running', p).pc = "registered" /\ At(running', p).ctx = f.ctx
              /\ \A q \in Frames(running) \ {p} : At(running', q) = At(running, q)
              /\ FrameInv(f) /\ f \in ExecutorFrame
    BY <1>1, <2>0
  <2> HIDE DEF f
  <2>3. f.ctx \in 1 .. created /\ f.ctx \in Context /\ f.ctx # None
    BY <1>0, <2>2, ExecutorAssumption DEF FrameInv, VarsTyped, Context
  <2>4. \A m \in Names : executors'[m] = executors[m] \/ executors'[m] = f.ctx
    BY <1>0, <2>0 DEF VarsTyped
  <2>5. ASSUME NEW c \in 1 .. created, Shared(executors', running', c)
        PROVE  Shared(executors, running, c)
    <3>1. f.ctx = c => Shared(executors, running, c)
      BY <1>0, <2>2 DEF Shared, HoldingPcs
    <3>2. ASSUME NEW m \in Names, executors'[m] = c PROVE Shared(executors, running, c)
      BY <2>4, <3>1, <3>2 DEF Shared
    <3>3. ASSUME NEW q \in Frames(running), At(running', q).pc \in HoldingPcs,
                 At(running', q).ctx = c
          PROVE  Shared(executors, running, c)
      BY <2>2, <3>1, <3>3 DEF Shared
    <3> QED
      BY <2>1, <2>5, <3>2, <3>3 DEF Shared
  <2>6. /\ drops' \in [Context -> 0 .. 2]
        /\ DropsInv'
        /\ \A c \in Context : drops[c] # 0 => drops'[c] = drops[c]
    BY <1>0, <2>1, <2>5, Released
  <2>7. VarsTyped'
    BY <1>0, <2>0, <2>1, <2>3, <2>6 DEF VarsTyped
  <2>8. NamesInv'
    BY <1>0, <2>3, <2>4 DEF ExecutorInv, NamesInv
  <2>9. FramesInv'
    <3>1. ASSUME NEW q \in Frames(running) \ {p} PROVE FrameInv(At(running, q))'
      <4>1. FrameInv(At(running, q))
        BY DEF ExecutorInv, FramesInv
      <4>2. At(running, q).pc = "boxed" => At(running, q).ctx # f.ctx
        BY <1>0, <2>2 DEF ExecutorInv, OwnInv
      <4>3. At(running, q).pc = "rejected" => drops'[At(running, q).ctx] = 1
        <5>1. ASSUME At(running, q).pc = "rejected"
              PROVE  At(running, q).ctx \in Context /\ drops[At(running, q).ctx] = 1
          BY <1>0, <4>1, <5>1, ExecutorAssumption DEF FrameInv, VarsTyped, Context
        <5> QED
          BY <2>6, <5>1
      <4> QED
        BY <1>0, <2>2, <2>4, <4>1, <4>2, <4>3 DEF FrameInv
    <3>2. FrameInv(At(running, p))'
      BY <1>0, <2>2, <2>3 DEF FrameInv
    <3> QED
      BY <2>1, <3>1, <3>2 DEF FramesInv
  <2>10. OwnInv'
    BY <2>1, <2>2 DEF ExecutorInv, OwnInv
  <2> QED
    BY <2>6, <2>7, <2>8, <2>9, <2>10 DEF ExecutorInv
<1>3. CASE ~(f.name # EmptyName /\ executors[f.name] = None)
  <2>0. executors' = executors /\ Become(u, "rejected")
    BY <1>3 DEF register_named
  <2>1. /\ running' \in [Callers -> Seq(ExecutorFrame)]
        /\ Frames(running') = Frames(running)
    BY <1>1, <2>0
  <2>2. PICK p \in Frames(running) :
              /\ At(running, p) = f
              /\ At(running', p).pc = "rejected" /\ At(running', p).ctx = f.ctx
              /\ \A q \in Frames(running) \ {p} : At(running', q) = At(running, q)
              /\ FrameInv(f) /\ f \in ExecutorFrame
    BY <1>1, <2>0
  <2> HIDE DEF f
  <2>3. f.ctx \in 1 .. created /\ f.ctx \in Context
    BY <1>0, <2>2, ExecutorAssumption DEF FrameInv, VarsTyped, Context
  <2>4. ASSUME NEW c \in 1 .. created, Shared(executors', running', c)
        PROVE  Shared(executors, running, c)
    BY <2>0, <2>1, <2>2, <2>4 DEF Shared, HoldingPcs
  <2>5. ~Shared(executors', running', f.ctx)
    <3>1. \A m \in Names : executors[m] # f.ctx
      BY <1>0, <2>2 DEF FrameInv
    <3>2. \A q \in Frames(running) \ {p} :
            At(running, q).pc \in HoldingPcs => At(running, q).ctx # f.ctx
      BY <1>0, <2>2 DEF ExecutorInv, OwnInv, HoldingPcs
    <3> QED
      BY <2>0, <2>1, <2>2, <3>1, <3>2 DEF Shared, HoldingPcs
  <2>6. /\ drops' \in [Context -> 0 .. 2]
        /\ DropsInv'
        /\ \A c \in Context : drops[c] # 0 => drops'[c] = drops[c]
        /\ \A c \in 1 .. created :
             drops[c] = 0 /\ ~Shared(executors', running', c) => drops'[c] = 1
    BY <1>0, <2>1, <2>4, Released
  <2>7. drops'[f.ctx] = 1
    <3>1. Shared(executors, running, f.ctx)
      BY <1>0, <2>2 DEF Shared, HoldingPcs
    <3>2. drops[f.ctx] = 0
      BY <2>3, <3>1 DEF ExecutorInv, DropsInv
    <3> QED
      BY <2>3, <2>5, <2>6, <3>2
  <2>8. VarsTyped'
    BY <1>0, <2>0, <2>1, <2>6 DEF VarsTyped
  <2>9. FramesInv'
    <3>1. ASSUME NEW q \in Frames(running) \ {p} PROVE FrameInv(At(running, q))'
      <4>1. FrameInv(At(running, q))
        BY DEF ExecutorInv, FramesInv
      <4>2. At(running, q).pc = "rejected" => drops'[At(running, q).ctx] = 1
        <5>1. ASSUME At(running, q).pc = "rejected"
              PROVE  At(running, q).ctx \in Context /\ drops[At(running, q).ctx] = 1
          BY <1>0, <4>1, <5>1, ExecutorAssumption DEF FrameInv, VarsTyped, Context
        <5> QED
          BY <2>6, <5>1
      <4> QED
        BY <1>0, <2>0, <2>2, <4>1, <4>2 DEF FrameInv
    <3>2. FrameInv(At(running, p))'
      BY <1>0, <2>2, <2>3, <2>7 DEF FrameInv
    <3> QED
      BY <2>1, <3>1, <3>2 DEF FramesInv
  <2>10. OwnInv'
    BY <1>0, <2>1, <2>2 DEF ExecutorInv, OwnInv
  <2> QED
    BY <1>0, <2>0, <2>6, <2>8, <2>9, <2>10 DEF ExecutorInv, NamesInv
<1> QED
  BY <1>2, <1>3

(* A call returns: what the others are in stays as it was. *)
LEMMA CallEnded ==
  ASSUME ExecutorInv, NEW u \in Callers, running[u] # << >>, End(u), executors' = executors
  PROVE  /\ running' \in [Callers -> Seq(ExecutorFrame)]
         /\ Innermost(u) \in ExecutorFrame /\ FrameInv(Innermost(u))
         /\ \A p \in Frames(running') : /\ p \in Frames(running)
                                         /\ At(running', p) = At(running, p)
         /\ OwnInv'
         /\ \A c : Shared(executors', running', c) => Shared(executors, running, c)
         /\ Innermost(u).pc \notin HoldingPcs =>
              \A c : Shared(executors, running, c) => Shared(executors', running', c)
         /\ Innermost(u).pc = "rejected" =>
              \A p \in Frames(running') :
                At(running', p).pc = "rejected" => At(running', p).ctx # Innermost(u).ctx
<1>0. VarsTyped
  BY DEF ExecutorInv
<1>1. PICK p \in Frames(running) :
        /\ At(running, p) = Innermost(u)
        /\ Frames(running') = Frames(running) \ {p}
        /\ \A q \in Frames(running) \ {p} : At(running', q) = At(running, q)
  BY <1>0, FrameEnded
<1>2. Innermost(u) \in ExecutorFrame /\ FrameInv(Innermost(u))
  BY <1>0, <1>1, FramesAreTyped DEF ExecutorInv, FramesInv, VarsTyped
<1>3. \A q \in Frames(running') : /\ q \in Frames(running)
                                  /\ At(running', q) = At(running, q)
  BY <1>1
<1>4. OwnInv'
  BY <1>3 DEF ExecutorInv, OwnInv
<1>5. ASSUME NEW c, Shared(executors', running', c) PROVE Shared(executors, running, c)
  BY <1>3, <1>5 DEF Shared
<1>6. ASSUME Innermost(u).pc \notin HoldingPcs, NEW c, Shared(executors, running, c)
      PROVE  Shared(executors', running', c)
  BY <1>1, <1>6 DEF Shared
<1>7. ASSUME Innermost(u).pc = "rejected", NEW q \in Frames(running'),
             At(running', q).pc = "rejected"
      PROVE  At(running', q).ctx # Innermost(u).ctx
  BY <1>1, <1>7 DEF ExecutorInv, OwnInv
<1>8. running' \in [Callers -> Seq(ExecutorFrame)]
  BY <1>0, FrameEnded
<1> QED
  BY <1>2, <1>3, <1>4, <1>5, <1>6, <1>7, <1>8

LEMMA NotesStep ==
  ASSUME ExecutorInv, NEW u \in Callers, RegisterReturns(u) \/ UnregisterReturns(u)
  PROVE  ExecutorInv'
<1>0. /\ running[u] # << >> /\ Innermost(u).pc \notin HoldingPcs /\ End(u)
      /\ UNCHANGED <<executors, created, drops>>
  BY DEF RegisterReturns, UnregisterReturns, InCall, HoldingPcs
<1>1. /\ running' \in [Callers -> Seq(ExecutorFrame)]
      /\ Innermost(u) \in ExecutorFrame /\ FrameInv(Innermost(u))
      /\ \A p \in Frames(running') : /\ p \in Frames(running)
                                      /\ At(running', p) = At(running, p)
      /\ OwnInv'
      /\ \A c : Shared(executors', running', c) <=> Shared(executors, running, c)
  BY <1>0, CallEnded
<1>2. noted' \in [Names -> Context \cup {None}]
  BY <1>1 DEF RegisterReturns, UnregisterReturns, ExecutorFrame, ExecutorInv, VarsTyped
<1>3. FramesInv'
  BY <1>0, <1>1 DEF ExecutorInv, FramesInv, FrameInv
<1>4. DropsInv'
  BY <1>0, <1>1 DEF ExecutorInv, DropsInv
<1> QED
  BY <1>0, <1>1, <1>2, <1>3, <1>4 DEF ExecutorInv, VarsTyped, NamesInv

LEMMA RejectedStep ==
  ASSUME ExecutorInv, NEW u \in Callers, RegisterFails(u)
  PROVE  ExecutorInv'
<1> DEFINE c == Innermost(u).ctx
<1>0. /\ running[u] # << >> /\ Innermost(u).pc = "rejected" /\ End(u)
      /\ UNCHANGED <<executors, noted, created>>
      /\ drops' = [drops EXCEPT ![c] = drops[c] + 1]
  BY DEF RegisterFails, InCall
<1>1. /\ running' \in [Callers -> Seq(ExecutorFrame)]
      /\ FrameInv(Innermost(u))
      /\ \A p \in Frames(running') : /\ p \in Frames(running)
                                      /\ At(running', p) = At(running, p)
      /\ OwnInv'
      /\ \A d : Shared(executors', running', d) <=> Shared(executors, running, d)
      /\ \A p \in Frames(running') :
           At(running', p).pc = "rejected" => At(running', p).ctx # c
  BY <1>0, CallEnded DEF HoldingPcs
<1>2. c \in 1 .. created /\ c \in Context /\ drops[c] = 1
  BY <1>0, <1>1, ExecutorAssumption DEF FrameInv, ExecutorInv, VarsTyped, Context
<1> HIDE DEF c
<1>3. /\ drops' \in [Context -> 0 .. 2]
      /\ \A d \in Context : drops'[d] = IF d = c THEN 2 ELSE drops[d]
  BY <1>0, <1>2 DEF ExecutorInv, VarsTyped
<1>4. FramesInv'
  <2>1. ASSUME NEW p \in Frames(running') PROVE FrameInv(At(running, p))'
    <3>1. FrameInv(At(running, p)) /\ At(running', p) = At(running, p)
      BY <1>1 DEF ExecutorInv, FramesInv
    <3>2. At(running, p).pc = "rejected" => drops'[At(running, p).ctx] = 1
      <4>1. ASSUME At(running, p).pc = "rejected"
            PROVE  At(running, p).ctx \in Context /\ drops[At(running, p).ctx] = 1
        BY <3>1, <4>1, ExecutorAssumption DEF FrameInv, ExecutorInv, VarsTyped, Context
      <4> QED
        BY <1>1, <1>3, <3>1, <4>1
    <3> QED
      BY <1>0, <3>1, <3>2 DEF FrameInv
  <2> QED
    BY <2>1 DEF FramesInv
<1>5. DropsInv'
  BY <1>0, <1>1, <1>2, <1>3 DEF ExecutorInv, DropsInv
<1> QED
  BY <1>0, <1>1, <1>3, <1>4, <1>5 DEF ExecutorInv, VarsTyped, NamesInv

LEMMA UnregisterStep ==
  ASSUME ExecutorInv, NEW u \in Callers, NEW n \in Names, unregister_named(u, n)
  PROVE  ExecutorInv'
<1> DEFINE f == [pc |-> "unregistered", name |-> n, ctx |-> None]
<1>0. /\ VarsTyped /\ ReleaseUnshared /\ UNCHANGED <<noted, created>>
      /\ executors' = [executors EXCEPT ![n] = None]
      /\ Begin(u, f)
  BY DEF ExecutorInv, unregister_named
<1>1. f \in ExecutorFrame /\ f.pc = "unregistered"
  BY DEF ExecutorFrame, FramePcs
<1> HIDE DEF f
<1>2. running' \in [Callers -> Seq(ExecutorFrame)]
  BY <1>0, <1>1, FrameBegun
<1>3. PICK p \in Callers \X Nat :
        /\ p \notin Frames(running)
        /\ Frames(running') = Frames(running) \cup {p}
        /\ At(running', p) = f
        /\ \A q \in Frames(running) : At(running', q) = At(running, q)
  BY <1>0, <1>1, FrameBegun
<1>4. \A m \in Names : executors'[m] = executors[m] \/ executors'[m] = None
  BY <1>0 DEF VarsTyped
<1>5. \A c \in 1 .. created : c # None /\ c \in Context
  BY <1>0, ExecutorAssumption DEF VarsTyped, Context
<1>6. ASSUME NEW c \in 1 .. created, Shared(executors', running', c)
      PROVE  Shared(executors, running, c)
  BY <1>1, <1>3, <1>4, <1>5, <1>6 DEF Shared, HoldingPcs
<1>7. /\ drops' \in [Context -> 0 .. 2]
      /\ DropsInv'
      /\ \A c \in Context : drops[c] # 0 => drops'[c] = drops[c]
  BY <1>0, <1>2, <1>6, Released
<1>8. VarsTyped'
  BY <1>0, <1>2, <1>7 DEF VarsTyped
<1>9. NamesInv'
  BY <1>0, <1>4 DEF ExecutorInv, NamesInv
<1>10. FramesInv'
  <2>1. ASSUME NEW q \in Frames(running) PROVE FrameInv(At(running, q))'
    <3>1. FrameInv(At(running, q))
      BY DEF ExecutorInv, FramesInv
    <3> QED
      BY <1>0, <1>3, <1>4, <1>5, <1>7, <3>1 DEF FrameInv
  <2>2. FrameInv(At(running, p))'
    BY <1>1, <1>3 DEF FrameInv
  <2> QED
    BY <1>3, <2>1, <2>2 DEF FramesInv
<1>11. OwnInv'
  BY <1>1, <1>3 DEF ExecutorInv, OwnInv
<1> QED
  BY <1>7, <1>8, <1>9, <1>10, <1>11 DEF ExecutorInv

LEMMA CallStep ==
  ASSUME ExecutorInv, NEW u \in Callers, NEW n \in Names, appcall_with_executor(u, n)
  PROVE  ExecutorInv'
<1> DEFINE c == executors[n]
           f == [pc |-> "executing", name |-> n, ctx |-> c]
<1>0. /\ VarsTyped /\ UNCHANGED <<executors, noted, created, drops>>
      /\ c # None /\ c \in 1 .. created /\ c \in Context
      /\ Begin(u, f)
  BY DEF ExecutorInv, NamesInv, VarsTyped, appcall_with_executor
<1>1. f \in ExecutorFrame /\ f.pc = "executing" /\ f.ctx = c
  BY <1>0 DEF ExecutorFrame, FramePcs
<1> HIDE DEF f
<1>2. running' \in [Callers -> Seq(ExecutorFrame)]
  BY <1>0, <1>1, FrameBegun
<1>3. PICK p \in Callers \X Nat :
        /\ p \notin Frames(running)
        /\ Frames(running') = Frames(running) \cup {p}
        /\ At(running', p) = f
        /\ \A q \in Frames(running) : At(running', q) = At(running, q)
  BY <1>0, <1>1, FrameBegun
<1>4. ASSUME NEW d PROVE Shared(executors', running', d) <=> Shared(executors, running, d)
  BY <1>0, <1>1, <1>3 DEF Shared, HoldingPcs
<1>5. ASSUME NEW q \in Frames(running), At(running, q).pc \in {"boxed", "rejected"}
      PROVE  At(running, q).ctx # c
  <2>1. FrameInv(At(running, q))
    BY DEF ExecutorInv, FramesInv
  <2>2. CASE At(running, q).pc = "boxed"
    BY <2>1, <2>2 DEF FrameInv
  <2>3. CASE At(running, q).pc = "rejected"
    <3>1. drops[At(running, q).ctx] = 1
      BY <2>1, <2>3 DEF FrameInv
    <3>2. drops[c] = 0
      BY <1>0 DEF ExecutorInv, DropsInv, Shared
    <3> QED
      BY <3>1, <3>2
  <2> QED
    BY <1>5, <2>2, <2>3
<1> HIDE DEF c
<1>6. VarsTyped'
  BY <1>0, <1>2 DEF VarsTyped
<1>7. FramesInv'
  <2>1. ASSUME NEW q \in Frames(running) PROVE FrameInv(At(running, q))'
    <3>1. FrameInv(At(running, q))
      BY DEF ExecutorInv, FramesInv
    <3> QED
      BY <1>0, <1>3, <3>1 DEF FrameInv
  <2>2. FrameInv(At(running, p))'
    BY <1>0, <1>1, <1>3 DEF FrameInv
  <2> QED
    BY <1>3, <2>1, <2>2 DEF FramesInv
<1>8. OwnInv'
  BY <1>1, <1>3, <1>5 DEF ExecutorInv, OwnInv
<1>9. DropsInv'
  BY <1>0, <1>4 DEF ExecutorInv, DropsInv
<1> QED
  BY <1>0, <1>6, <1>7, <1>8, <1>9 DEF ExecutorInv, NamesInv

LEMMA ExecutedStep ==
  ASSUME ExecutorInv, NEW u \in Callers, ExecuteReturns(u)
  PROVE  ExecutorInv'
<1>0. /\ running[u] # << >> /\ End(u) /\ ReleaseUnshared
      /\ UNCHANGED <<executors, noted, created>>
  BY DEF ExecuteReturns, InCall
<1>1. /\ running' \in [Callers -> Seq(ExecutorFrame)]
      /\ \A p \in Frames(running') : /\ p \in Frames(running)
                                      /\ At(running', p) = At(running, p)
      /\ OwnInv'
      /\ \A c : Shared(executors', running', c) => Shared(executors, running, c)
  BY <1>0, CallEnded
<1>2. /\ drops' \in [Context -> 0 .. 2]
      /\ DropsInv'
      /\ \A c \in Context : drops[c] # 0 => drops'[c] = drops[c]
  BY <1>0, <1>1, Released
<1>3. FramesInv'
  <2>1. ASSUME NEW p \in Frames(running') PROVE FrameInv(At(running, p))'
    <3>1. FrameInv(At(running, p)) /\ At(running', p) = At(running, p)
      BY <1>1 DEF ExecutorInv, FramesInv
    <3>2. At(running, p).pc = "rejected" => drops'[At(running, p).ctx] = 1
      <4>1. ASSUME At(running, p).pc = "rejected"
            PROVE  At(running, p).ctx \in Context /\ drops[At(running, p).ctx] = 1
        BY <3>1, <4>1, ExecutorAssumption DEF FrameInv, ExecutorInv, VarsTyped, Context
      <4> QED
        BY <1>2, <4>1
    <3> QED
      BY <1>0, <3>1, <3>2 DEF FrameInv
  <2> QED
    BY <2>1 DEF FramesInv
<1> QED
  BY <1>0, <1>1, <1>2, <1>3 DEF ExecutorInv, VarsTyped, NamesInv

-----------------------------------------------------------------------------
LEMMA ExecutorStep == ExecutorInv /\ [ExecutorNext]_evars => ExecutorInv'
<1> SUFFICES ASSUME ExecutorInv, [ExecutorNext]_evars PROVE ExecutorInv'
  OBVIOUS
<1>1. CASE UNCHANGED evars
  <2>1. VarsTyped' /\ NamesInv' /\ DropsInv'
    BY <1>1 DEF evars, ExecutorInv, VarsTyped, NamesInv, DropsInv
  <2>2. FramesInv' /\ OwnInv'
    BY <1>1 DEF evars, ExecutorInv, FramesInv, FrameInv, OwnInv
  <2> QED
    BY <2>1, <2>2 DEF ExecutorInv
<1> QED
  BY <1>1, RegisterStep, NamedStep, NotesStep, RejectedStep, UnregisterStep, CallStep,
     ExecutedStep DEF ExecutorNext

(* However threads register, unregister and call executors, also from      *)
(* inside the closures that run: a closure is alive while the registry or  *)
(* a running call has it, and it is dropped when the last of them is done. *)
THEOREM ClosuresLive == ExecutorSpec => []ClosureLivesWhileShared
<1>1. ExecutorInit => ExecutorInv
  <2> SUFFICES ASSUME ExecutorInit PROVE ExecutorInv
    OBVIOUS
  <2>1. VarsTyped
    BY ExecutorAssumption DEF ExecutorInit, VarsTyped
  <2>2. Frames(running) = {}
    BY DEF ExecutorInit, Frames, FramesOf
  <2>3. NamesInv /\ FramesInv /\ OwnInv
    BY <2>2 DEF ExecutorInit, NamesInv, FramesInv, OwnInv
  <2>4. DropsInv
    BY DEF ExecutorInit, DropsInv
  <2> QED
    BY <2>1, <2>3, <2>4 DEF ExecutorInv
<1>2. ExecutorInv => ClosureLivesWhileShared
  <2> SUFFICES ASSUME ExecutorInv PROVE ClosureLivesWhileShared
    OBVIOUS
  <2>1. VarsTyped
    BY DEF ExecutorInv
  <2>2. \A c \in 1 .. created : c \in Context
    BY <2>1, ExecutorAssumption DEF VarsTyped, Context
  <2>3. \A c \in 1 .. created : drops[c] = 0 <=> Shared(executors, running, c)
    BY <2>2 DEF ExecutorInv, DropsInv
  <2>4. \A c : SharedBy(executors, running, c) # {} <=> Shared(executors, running, c)
    BY <2>1, SharedBySomebody DEF VarsTyped
  <2> QED
    BY <2>1, <2>3, <2>4 DEF VarsTyped, ExecutorTypeOK, ClosureLivesWhileShared
<1> QED
  BY <1>1, <1>2, ExecutorStep, PTL DEF ExecutorSpec

-----------------------------------------------------------------------------
(* The walks over the listing.                                             *)

(* A bounded set of numbers has a largest element, and Max is it. *)
LEMMA MaxInSet ==
  ASSUME NEW n \in Nat, NEW S, S \subseteq 0 .. n, S # {}
  PROVE  Max(S) \in S /\ \A y \in S : y <= Max(S)
<1> DEFINE Mirror == {n - x : x \in S}
<1>1. Mirror \subseteq Nat /\ Mirror # {}
  <2>1. \A x \in S : x \in 0 .. n
    OBVIOUS
  <2>2. \A x \in 0 .. n : n - x \in Nat
    OBVIOUS
  <2>3. PICK x \in S : TRUE
    OBVIOUS
  <2> QED
    BY <2>1, <2>2, <2>3, Zenon
<1>2. Min(Mirror) \in Mirror /\ \A y \in Mirror : Min(Mirror) <= y
  BY <1>1, MinInSet
<1>3. PICK x \in S : Min(Mirror) = n - x
  BY <1>2
<1>4. ASSUME NEW y \in S PROVE y <= x
  <2>1. n - y \in Mirror /\ n - x <= n - y /\ x \in 0 .. n /\ y \in 0 .. n
    BY <1>2, <1>3
  <2> QED
    BY <2>1
<1> HIDE DEF Mirror
<1>5. \E z \in S : \A y \in S : z >= y
  BY <1>4
<1>6. Max(S) \in S /\ \A y \in S : Max(S) >= y
  BY <1>5 DEF Max
<1> QED
  BY <1>6

(* The least element of a set, or the end when there is none. *)
LEMMA LowestOrEnd ==
  ASSUME NEW S, S \subseteq Nat, NEW end
  PROVE  \/ S = {} /\ Lowest(S) = {} /\ OrEnd(Lowest(S), end) = end
         \/ /\ Lowest(S) = {OrEnd(Lowest(S), end)}
            /\ OrEnd(Lowest(S), end) \in S
            /\ \A a \in S : OrEnd(Lowest(S), end) <= a
<1>1. CASE S = {}
  BY <1>1 DEF Lowest, OrEnd
<1>2. CASE S # {}
  <2>1. Min(S) \in S /\ \A y \in S : Min(S) <= y
    BY <1>2, MinInSet
  <2>2. Lowest(S) = {Min(S)}
    BY <1>2 DEF Lowest
  <2>3. OrEnd(Lowest(S), end) = Min(S)
    BY <2>2 DEF OrEnd
  <2> QED
    BY <2>1, <2>2, <2>3
<1> QED
  BY <1>1, <1>2

(* What a loop over the heads or over the bytes of a property stops at.    *)
Kinds == Predicates \cup {"Items"}
Stops(p) == {a \in Bytes : Visits(a, p)}

(* The first of the stops in a range, or its end. *)
IsFirst(n, stops, from, end) ==
  /\ n # end => n \in from .. end - 1 /\ n \in stops
  /\ \A a \in stops : ~(from <= a /\ a < n)

LEMMA LeastIsFirst ==
  ASSUME NEW stops \in SUBSET Bytes, NEW from \in Nat, NEW end \in 0 .. MaxAddress,
         NEW S, S = {a \in stops : from <= a /\ a < end}
  PROVE  IsFirst(OrEnd(Lowest(S), end), stops, from, end)
<1>1. S \subseteq Nat /\ MaxAddress \in Nat
  <2>1. MaxAddress \in Nat /\ \A a \in Bytes : a \in Nat
    BY ItemsAssumption DEF Bytes
  <2> QED
    BY <2>1
<1> DEFINE n == OrEnd(Lowest(S), end)
<1>2. \/ S = {} /\ n = end
      \/ n \in S /\ \A a \in S : n <= a
  BY <1>1, LowestOrEnd
<1> HIDE DEF n
<1>3. CASE S = {} /\ n = end
  BY <1>3 DEF IsFirst, n
<1>4. CASE n \in S /\ \A a \in S : n <= a
  <2>1. n \in from .. end - 1 /\ n \in stops
    BY <1>1, <1>4 DEF Bytes
  <2>2. ASSUME NEW a \in stops, from <= a, a < n PROVE FALSE
    <3>1. a < end /\ ~(n <= a)
      BY <1>1, <2>1, <2>2 DEF Bytes
    <3> QED
      BY <1>4, <2>2, <3>1
  <2> QED
    BY <2>1, <2>2 DEF IsFirst, n
<1> QED
  BY <1>2, <1>3, <1>4

LEMMA StopsOfPredicate ==
  ASSUME NEW p \in Predicates PROVE Stops(p) = {a \in Bytes : matches_predicate(a, p)}
BY DEF Predicates, Visits, Stops

LEMMA StopsOfItems == Stops("Items") = Heads
BY DEF Visits, Stops, Heads

(* Where a loop goes from an address it visited ... *)
LEMMA NextStop ==
  ASSUME NEW p \in Kinds, NEW current \in Nat, NEW end \in 0 .. MaxAddress, current < end
  PROVE  IsFirst(IF p = "Items" THEN OrEnd(next_head(current, end), end)
                 ELSE next_match(current, end, p),
                 Stops(p), current + 1, end)
<1> DEFINE S == {a \in Stops(p) : current + 1 <= a /\ a < end}
<1>1. current + 1 \in Nat /\ MaxAddress \in Nat /\ Stops(p) \subseteq Bytes
  BY ItemsAssumption DEF Stops
<1>2. IsFirst(OrEnd(Lowest(S), end), Stops(p), current + 1, end)
  BY <1>1, LeastIsFirst
<1>3. CASE p = "Items"
  <2>1. {h \in Heads : current < h /\ h < end} = S
    BY <1>1, <1>3, StopsOfItems DEF Heads, Bytes
  <2> QED
    BY <1>2, <1>3, <2>1 DEF next_head
<1>4. CASE p # "Items"
  <2>1. S = {a \in Bytes : current + 1 <= a /\ a < end /\ matches_predicate(a, p)}
    BY <1>4, StopsOfPredicate DEF Kinds
  <2>2. ~(current >= end)
    BY <1>1
  <2> QED
    BY <1>2, <1>4, <2>1, <2>2 DEF next_match, first_match
<1> QED
  BY <1>3, <1>4

(* ... and where it begins. *)
LEMMA FirstStop ==
  ASSUME NEW p \in Kinds, NEW from \in 0 .. MaxAddress, NEW end \in 0 .. MaxAddress,
         NEW n, n = IF p = "Items" THEN ItemIterator(from, end) ELSE PredicateIterator(from, end, p)
  PROVE  IF from < end THEN IsFirst(n, Stops(p), from, end) ELSE n = end
<1> DEFINE S == {a \in Stops(p) : from <= a /\ a < end}
<1>1. /\ from \in Nat /\ end \in Nat /\ MaxAddress \in Nat
      /\ Stops(p) \subseteq Bytes /\ \A a \in Stops(p) : a \in Nat
  BY ItemsAssumption DEF Stops, Bytes
<1>2. CASE ~(from < end)
  BY <1>1, <1>2 DEF ItemIterator, PredicateIterator
<1>3. IsFirst(OrEnd(Lowest(S), end), Stops(p), from, end)
  BY <1>1, LeastIsFirst
<1>4. CASE from < end /\ p = "Items" /\ is_head(from)
  <2>1. from < MaxAddress /\ ~(from >= end)
    BY <1>1, <1>4
  <2>2. n = from
    BY <1>4, <2>1 DEF ItemIterator
  <2>3. from \in Stops(p) /\ from \in from .. end - 1
    BY <1>1, <1>4, <2>1, StopsOfItems DEF Bytes, Heads
  <2>4. \A a \in Stops(p) : ~(from <= a /\ a < n)
    BY <1>1, <2>2
  <2> QED
    BY <1>4, <2>2, <2>3, <2>4 DEF IsFirst
<1>5. CASE from < end /\ p = "Items" /\ ~is_head(from)
  <2>1. \A h \in Heads : from <= h <=> from < h
    BY <1>1, <1>5, StopsOfItems DEF Heads
  <2>2. {h \in Heads : from < h /\ h < end} = S
    BY <1>5, <2>1, StopsOfItems
  <2>3. n = OrEnd(Lowest(S), end)
    BY <1>1, <1>5, <2>2 DEF ItemIterator, next_head
  <2> QED
    BY <1>3, <1>5, <2>3
<1>6. CASE from < end /\ p # "Items"
  <2>1. S = {a \in Bytes : from <= a /\ a < end /\ matches_predicate(a, p)}
    BY <1>6, StopsOfPredicate DEF Kinds
  <2>2. n = OrEnd(Lowest(S), end)
    BY <1>6, <2>1 DEF PredicateIterator, first_match
  <2> QED
    BY <1>3, <1>6, <2>2
<1> QED
  BY <1>2, <1>4, <1>5, <1>6

-----------------------------------------------------------------------------
WalkType ==
  [pred : Kinds, from : 0 .. MaxAddress, to : 0 .. MaxAddress, current : 0 .. MaxAddress,
   seen : SUBSET Bytes, changed : BOOLEAN, stood : SUBSET Bytes]

(* A loop stands inside its range until it ends.  Behind it, it has met    *)
(* what stood there all along and, over a listing that nobody changes,     *)
(* nothing else.                                                           *)
StandsInRange(w) == w.current # w.to => w.from <= w.current /\ w.current < w.to
MetWhatStood(w, stops) ==
  \A a \in w.stood : /\ w.from <= a /\ a < w.to
                     /\ a \in stops
                     /\ a < w.current => a \in w.seen
MetNothingElse(w, stops) ==
  /\ \A a \in w.seen : w.from <= a /\ a < w.current
  /\ ~w.changed =>
       /\ w.current # w.to => w.current \in stops
       /\ w.seen = {a \in stops : w.from <= a /\ a < w.current}

WalkInv(w, stops) ==
  /\ w \in WalkType
  /\ StandsInRange(w) /\ MetWhatStood(w, stops) /\ MetNothingElse(w, stops)

ItemsInv == Walking => WalkInv(itemWalk, Stops(itemWalk.pred))

LEMMA WalkBegins ==
  ASSUME NEW stops \in SUBSET Bytes, NEW p \in Kinds, NEW from \in 0 .. MaxAddress,
         NEW end \in 0 .. MaxAddress, NEW n,
         IF from < end THEN IsFirst(n, stops, from, end) ELSE n = end,
         NEW w,
         w = [pred |-> p, from |-> from, to |-> end, current |-> n, seen |-> {}, changed |-> FALSE,
              stood |-> {a \in Bytes : from <= a /\ a < end /\ a \in stops}]
  PROVE  WalkInv(w, stops)
<1>1. /\ from \in Nat /\ end \in Nat /\ MaxAddress \in Nat
      /\ \A a \in Bytes : a \in Nat
  BY ItemsAssumption DEF Bytes
<1>2. /\ n # end => from <= n /\ n < end /\ n \in stops /\ n \in 0 .. MaxAddress
      /\ \A a \in stops : ~(from <= a /\ a < n)
  BY <1>1 DEF IsFirst
<1>3. /\ w.pred = p /\ w.from = from /\ w.to = end /\ w.current = n
      /\ w.seen = {} /\ w.changed = FALSE
      /\ w.stood = {a \in Bytes : from <= a /\ a < end /\ a \in stops}
  OBVIOUS
<1>4. w \in WalkType
  <2>1. n \in 0 .. MaxAddress /\ {} \in SUBSET Bytes /\ FALSE \in BOOLEAN
    BY <1>2
  <2> QED
    BY <2>1 DEF WalkType
<1>5. StandsInRange(w)
  BY <1>2, <1>3 DEF StandsInRange
<1>6. MetWhatStood(w, stops)
  BY <1>2, <1>3 DEF MetWhatStood
<1>7. MetNothingElse(w, stops)
  BY <1>2, <1>3 DEF MetNothingElse
<1> QED
  BY <1>4, <1>5, <1>6, <1>7 DEF WalkInv

LEMMA WalkAdvances ==
  ASSUME NEW stops \in SUBSET Bytes, NEW w, WalkInv(w, stops), w.current # w.to,
         NEW n, IsFirst(n, stops, w.current + 1, w.to),
         NEW next, next = [w EXCEPT !.seen = @ \cup {w.current}, !.current = n]
  PROVE  WalkInv(next, stops)
<1>1. /\ w \in WalkType
      /\ w.from \in Nat /\ w.to \in Nat /\ w.current \in Nat /\ MaxAddress \in Nat
      /\ w.to <= MaxAddress
      /\ \A a \in Bytes : a \in Nat
  BY ItemsAssumption DEF Bytes, WalkInv, WalkType
<1>2. w.from <= w.current /\ w.current < w.to
  BY DEF WalkInv, StandsInRange
<1>3. /\ n # w.to => w.current < n /\ n < w.to /\ n \in stops
      /\ n \in 0 .. MaxAddress /\ w.current < n
      /\ \A a \in stops : ~(w.current + 1 <= a /\ a < n)
  BY <1>1, <1>2 DEF IsFirst
<1>4. /\ next.pred = w.pred /\ next.from = w.from /\ next.to = w.to /\ next.current = n
      /\ next.seen = w.seen \cup {w.current} /\ next.changed = w.changed
      /\ next.stood = w.stood
  BY <1>1 DEF WalkType
<1>5. w.current \in Bytes
  BY <1>1, <1>2 DEF Bytes
<1>6. next \in WalkType
  BY <1>1, <1>3, <1>5 DEF WalkType
<1>7. StandsInRange(next)
  BY <1>1, <1>2, <1>3, <1>4 DEF StandsInRange
<1>8. \A a \in stops : a < n <=> a < w.current \/ a = w.current
  BY <1>1, <1>3
<1>9. MetWhatStood(next, stops)
  BY <1>4, <1>8 DEF MetWhatStood, WalkInv
<1>10. MetNothingElse(next, stops)
  <2>1. \A a \in next.seen : w.from <= a /\ a < n
    BY <1>1, <1>2, <1>3, <1>4 DEF MetNothingElse, WalkInv, WalkType
  <2>2. CASE ~w.changed
    <3>1. w.current \in stops /\ w.seen = {a \in stops : w.from <= a /\ a < w.current}
      BY <2>2 DEF WalkInv, MetNothingElse
    <3>2. next.seen = {a \in stops : w.from <= a /\ a < n}
      BY <1>2, <1>4, <1>8, <3>1
    <3> QED
      BY <1>3, <1>4, <2>1, <3>2 DEF MetNothingElse
  <2> QED
    BY <1>4, <2>1, <2>2 DEF MetNothingElse
<1> QED
  BY <1>6, <1>7, <1>9, <1>10 DEF WalkInv

LEMMA WalkDisturbed ==
  ASSUME NEW stops, NEW others, NEW w, WalkInv(w, stops),
         NEW next, next = [w EXCEPT !.changed = TRUE, !.stood = {a \in @ : a \in others}]
  PROVE  WalkInv(next, others)
<1>1. w \in WalkType
  BY DEF WalkInv
<1>2. /\ next.pred = w.pred /\ next.from = w.from /\ next.to = w.to /\ next.current = w.current
      /\ next.seen = w.seen /\ next.changed = TRUE
      /\ next.stood = {a \in w.stood : a \in others}
  BY <1>1 DEF WalkType
<1>3. next \in WalkType
  BY <1>1 DEF WalkType
<1> QED
  BY <1>2, <1>3 DEF WalkInv, StandsInRange, MetWhatStood, MetNothingElse

LEMMA ItemsInvStep ==
  ASSUME ItemsInv, [ItemsNext]_itemvars PROVE ItemsInv'
<1>1. ASSUME NEW r \in Ranges, NEW p \in Kinds, NEW n,
             n = IF p = "Items" THEN ItemIterator(r[1], r[2]) ELSE PredicateIterator(r[1], r[2], p),
             WalkFrom(r, p, n)
      PROVE  ItemsInv'
  <2>1. r[1] \in 0 .. MaxAddress /\ r[2] \in 0 .. MaxAddress
    BY ItemsAssumption
  <2>2. IF r[1] < r[2] THEN IsFirst(n, Stops(p), r[1], r[2]) ELSE n = r[2]
    BY <1>1, <2>1, FirstStop
  <2>3. itemWalk' = [pred |-> p, from |-> r[1], to |-> r[2], current |-> n,
                     seen |-> {}, changed |-> FALSE,
                     stood |-> {a \in Bytes : r[1] <= a /\ a < r[2] /\ Visits(a, p)}]
    BY <1>1 DEF WalkFrom
  <2>4. \A a \in Bytes : Visits(a, p) <=> a \in Stops(p)
    BY DEF Stops
  <2>5. itemWalk' = [pred |-> p, from |-> r[1], to |-> r[2], current |-> n,
                     seen |-> {}, changed |-> FALSE,
                     stood |-> {a \in Bytes : r[1] <= a /\ a < r[2] /\ a \in Stops(p)}]
    BY <2>3, <2>4
  <2>6. Stops(p) \in SUBSET Bytes
    BY DEF Stops
  <2>7. WalkInv(itemWalk', Stops(p))
    BY <2>1, <2>2, <2>5, <2>6, WalkBegins
  <2>8. class' = class /\ itemWalk'.pred = p
    BY <1>1, <2>3 DEF WalkFrom
  <2>9. Stops(itemWalk.pred)' = Stops(p)
    BY <2>8 DEF Stops, Visits, Heads, is_head, HasFlags, matches_predicate, is_mapped,
                byte_loaded, is_code, is_data, is_unknown, is_tail
  <2> QED
    BY <2>7, <2>9 DEF ItemsInv
<1>2. CASE Advance
  <2>1. Walking /\ itemWalk.current # itemWalk.to /\ class' = class
    BY <1>2 DEF Advance
  <2>2. WalkInv(itemWalk, Stops(itemWalk.pred)) /\ itemWalk \in WalkType
    BY <2>1 DEF ItemsInv, WalkInv
  <2> DEFINE next == IF itemWalk.pred = "Items"
                     THEN OrEnd(next_head(itemWalk.current, itemWalk.to), itemWalk.to)
                     ELSE next_match(itemWalk.current, itemWalk.to, itemWalk.pred)
  <2>3. itemWalk' = [itemWalk EXCEPT !.seen = @ \cup {itemWalk.current}, !.current = next]
    BY <1>2, <2>2 DEF Advance, WalkType
  <2>4. IsFirst(next, Stops(itemWalk.pred), itemWalk.current + 1, itemWalk.to)
    <3>1. /\ itemWalk.pred \in Kinds /\ itemWalk.current \in Nat
          /\ itemWalk.to \in 0 .. MaxAddress /\ itemWalk.current < itemWalk.to
      BY <2>1, <2>2 DEF WalkInv, WalkType, StandsInRange
    <3> QED
      BY <3>1, NextStop
  <2> HIDE DEF next
  <2>5. Stops(itemWalk.pred) \in SUBSET Bytes
    BY DEF Stops
  <2>6. WalkInv(itemWalk', Stops(itemWalk.pred))
    BY <2>1, <2>2, <2>3, <2>4, <2>5, WalkAdvances
  <2>7. itemWalk'.pred = itemWalk.pred
    BY <2>2, <2>3 DEF WalkType
  <2>8. Stops(itemWalk.pred)' = Stops(itemWalk.pred)
    BY <2>1, <2>7 DEF Stops, Visits, Heads, is_head, HasFlags, matches_predicate, is_mapped,
                byte_loaded, is_code, is_data, is_unknown, is_tail
  <2> QED
    BY <2>6, <2>8 DEF ItemsInv
<1>3. ASSUME NEW f, Reclassified(f) PROVE ItemsInv'
  <2>1. CASE ~Walking
    BY <1>3, <2>1 DEF Reclassified, ItemsInv, Walking
  <2>2. CASE Walking
    <3>1. WalkInv(itemWalk, Stops(itemWalk.pred)) /\ itemWalk \in WalkType
      BY <2>2 DEF ItemsInv, WalkInv
    <3>2. PICK p \in {itemWalk.pred} :
            itemWalk' = [itemWalk EXCEPT !.changed = TRUE, !.stood = {a \in @ : Visits(a, p)'}]
      BY <1>3, <2>2, Zenon DEF Reclassified
    <3> DEFINE others == {a \in Bytes : Visits(a, p)'}
    <3>3. itemWalk.stood \subseteq Bytes
      BY <3>1 DEF WalkType
    <3>4. itemWalk' = [itemWalk EXCEPT !.changed = TRUE, !.stood = {a \in @ : a \in others}]
      BY <3>2, <3>3
    <3>5. itemWalk'.pred = p
      BY <3>1, <3>2 DEF WalkType
    <3>6. Stops(itemWalk.pred)' = others
      BY <3>5 DEF Stops
    <3> HIDE DEF others
    <3>7. WalkInv(itemWalk', others)
      BY <3>1, <3>4, WalkDisturbed
    <3> QED
      BY <3>6, <3>7 DEF ItemsInv
  <2> QED
    BY <2>1, <2>2
<1>4. CASE LeaveLoop
  BY <1>4 DEF LeaveLoop, ItemsInv, Walking
<1>5. CASE UNCHANGED itemvars
  <2>1. itemWalk' = itemWalk /\ class' = class
    BY <1>5 DEF itemvars
  <2> QED
    BY <2>1 DEF ItemsInv, Walking, Stops, Visits, Heads, is_head, HasFlags, matches_predicate,
                is_mapped, byte_loaded, is_code, is_data, is_unknown, is_tail
<1>6. \/ \E f : Reclassified(f)
      \/ \E r \in Ranges : items(r) \/ \E p \in Predicates : PredicateRange(r, p)
      \/ Advance \/ LeaveLoop \/ UNCHANGED itemvars
  BY DEF ItemsNext, MakeItem, Undefine
<1>7. ASSUME NEW r \in Ranges, items(r) PROVE ItemsInv'
  BY <1>1, <1>7 DEF items, Kinds
<1>8. ASSUME NEW r \in Ranges, NEW p \in Predicates, PredicateRange(r, p) PROVE ItemsInv'
  BY <1>1, <1>8 DEF PredicateRange, Kinds, Predicates
<1> QED
  BY <1>2, <1>3, <1>4, <1>5, <1>6, <1>7, <1>8

-----------------------------------------------------------------------------
LEMMA InvBoundsWalk ==
  ASSUME ItemsInv PROVE WalkStaysInRange
<1> SUFFICES ASSUME Walking, itemWalk \in WalkType, WalkInv(itemWalk, Stops(itemWalk.pred))
             PROVE  WalkStaysInRange
  BY DEF ItemsInv, WalkInv, WalkStaysInRange
<1>1. \A a \in itemWalk.seen : itemWalk.from <= a /\ a < itemWalk.current
  BY DEF WalkInv, MetNothingElse
<1>2. itemWalk.current <= itemWalk.to
  BY ItemsAssumption DEF WalkInv, StandsInRange, WalkType
<1>3. {a \in itemWalk.stood : a < itemWalk.current} \subseteq itemWalk.seen
  BY DEF WalkInv, MetWhatStood
<1> QED
  BY <1>1, <1>2, <1>3 DEF WalkStaysInRange

LEMMA InvCompletesWalk ==
  ASSUME ItemsInv PROVE WalkIsComplete
<1> SUFFICES ASSUME Walking, ~itemWalk.changed, WalkInv(itemWalk, Stops(itemWalk.pred))
             PROVE  /\ itemWalk.seen = Visited
                    /\ itemWalk.current # itemWalk.to => Visits(itemWalk.current, itemWalk.pred)
  BY DEF ItemsInv, WalkIsComplete
<1>1. itemWalk.seen = {a \in Stops(itemWalk.pred) : itemWalk.from <= a /\ a < itemWalk.current}
  BY DEF WalkInv, MetNothingElse
<1>2. itemWalk.current # itemWalk.to => itemWalk.current \in Stops(itemWalk.pred)
  BY DEF WalkInv, MetNothingElse
<1> QED
  BY <1>1, <1>2 DEF Visited, Stops

LEMMA InvSeparatesItems ==
  ASSUME ItemsInv PROVE ItemsAreApart
<1> SUFFICES ASSUME Walking, ~itemWalk.changed, itemWalk.pred = "Items", NEW a \in itemWalk.seen
             PROVE  /\ item_start(a) = a /\ a + item_size(a) = item_end(a)
                    /\ \A b \in itemWalk.seen : a < b => item_end(a) <= b
                    /\ \A b \in next_defined(a, AddressEnd) : prev_defined(b, 0) = {a}
  BY DEF ItemsAreApart
<1>1. \A b \in itemWalk.seen : b \in Heads
  BY StopsOfItems DEF ItemsInv, WalkInv, MetNothingElse
<1>2. /\ MaxAddress \in Nat /\ Bytes \subseteq 0 .. MaxAddress /\ Bytes \subseteq Nat
      /\ \A b \in Bytes : b < MaxAddress
  BY ItemsAssumption DEF Bytes
<1>3. \A b \in Heads : b \in Bytes /\ class[b] # "tail"
  BY DEF Heads, is_head
<1>4. a \in Heads /\ a \in Bytes /\ a \in Nat
  BY <1>1, <1>2, <1>3
<1>5. item_start(a) = a
  <2> DEFINE S == {b \in Bytes : b <= a /\ class[b] # "tail"}
  <2>1. S \subseteq 0 .. MaxAddress /\ a \in S
    <3>1. a <= a /\ class[a] # "tail"
      BY <1>3, <1>4
    <3> QED
      BY <1>2, <1>4, <3>1
  <2>2. Max(S) \in S /\ \A b \in S : b <= Max(S)
    BY <1>2, <2>1, MaxInSet
  <2>3. Max(S) <= a /\ a <= Max(S) /\ Max(S) \in Nat
    BY <1>2, <2>1, <2>2
  <2> QED
    BY <1>4, <2>3 DEF item_start
<1> DEFINE E == {b \in Bytes : b > a /\ class[b] # "tail"} \cup {MaxAddress}
<1>6. item_end(a) \in E /\ \A b \in E : item_end(a) <= b
  <2>1. E \subseteq Nat /\ E # {}
    BY <1>2
  <2> QED
    BY <2>1, MinInSet DEF item_end
<1>7. item_end(a) \in Nat
  BY <1>2, <1>6
<1>8. a + item_size(a) = item_end(a)
  BY <1>4, <1>5, <1>7 DEF item_size
<1>9. ASSUME NEW b \in itemWalk.seen, a < b PROVE item_end(a) <= b
  BY <1>1, <1>2, <1>3, <1>4, <1>6, <1>9
<1>10. ASSUME NEW b \in next_defined(a, AddressEnd) PROVE prev_defined(b, 0) = {a}
  <2> DEFINE N == {h \in Heads : a < h /\ h < AddressEnd}
             P == {h \in Heads : h < b /\ 0 <= h}
  <2>1. N \subseteq Nat /\ P \subseteq 0 .. MaxAddress
    BY <1>2, <1>3
  <2>2. b \in Lowest(N)
    BY DEF next_defined, next_head
  <2>3. b \in N /\ \A h \in N : b <= h
    <3> HIDE DEF N, P
    <3>1. N # {} /\ b = Min(N)
      BY <2>2 DEF Lowest
    <3> QED
      BY <2>1, <3>1, MinInSet
  <2>4. a \in P
    BY <1>4, <2>3
  <2>5. \A h \in P : h <= a
    BY <1>2, <1>3, <1>4, <2>3 DEF AddressEnd
  <2>6. Max(P) \in P /\ \A h \in P : h <= Max(P)
    <3> HIDE DEF P
    <3> QED
      BY <1>2, <2>1, <2>4, MaxInSet
  <2>7. Max(P) = a
    <3>1. Max(P) <= a /\ a <= Max(P) /\ Max(P) \in Nat
      BY <1>2, <2>1, <2>4, <2>5, <2>6
    <3> QED
      BY <1>4, <3>1
  <2>8. prev_defined(b, 0) = Highest(P)
    BY DEF prev_defined, prev_head
  <2> HIDE DEF P
  <2> QED
    BY <2>4, <2>7, <2>8 DEF Highest
<1> QED
  BY <1>5, <1>8, <1>9, <1>10

LEMMA LowestIs ==
  ASSUME NEW S, S \subseteq Nat, NEW c \in S, \A a \in S : c <= a
  PROVE  Lowest(S) = {c}
<1>1. Min(S) \in S /\ \A y \in S : Min(S) <= y
  BY MinInSet
<1>2. Min(S) <= c /\ c <= Min(S) /\ c \in Nat /\ Min(S) \in Nat
  BY <1>1
<1>3. Min(S) = c
  BY <1>2
<1> QED
  BY <1>3 DEF Lowest

(* From behind all that a loop has met, a search finds where it stands. *)
LEMMA SearchFindsStop ==
  ASSUME NEW w, NEW p \in Predicates, WalkInv(w, Stops(p)), ~w.changed,
         NEW start \in Nat, w.from <= start, \A a \in w.seen : a < start,
         w.current # w.to => start <= w.current
  PROVE  first_match(start, w.to, p) = IF w.current = w.to THEN {} ELSE {w.current}
<1> DEFINE S == {a \in Bytes : start <= a /\ a < w.to /\ matches_predicate(a, p)}
<1>1. /\ w.from \in Nat /\ w.to \in Nat /\ w.current \in Nat
      /\ \A a \in Bytes : a \in Nat
  BY DEF WalkInv, WalkType, Bytes
<1>2. /\ w.seen = {a \in Stops(p) : w.from <= a /\ a < w.current}
      /\ w.current # w.to => w.current \in Stops(p) /\ w.current < w.to
  BY DEF WalkInv, MetNothingElse, StandsInRange
<1>3. S = {a \in Stops(p) : start <= a /\ a < w.to}
  BY StopsOfPredicate
<1>4. S \subseteq Nat
  BY <1>1
<1>5. first_match(start, w.to, p) = Lowest(S)
  BY DEF first_match
<1> HIDE DEF S
<1>6. \A a \in S : a \notin w.seen /\ w.from <= a /\ a \in Stops(p) /\ a \in Nat /\ a < w.to
  BY <1>1, <1>3, <1>4
<1>7. \A a \in S : ~(a < w.current)
  BY <1>2, <1>6
<1>8. CASE w.current = w.to
  <2>1. S = {}
    BY <1>6, <1>7, <1>8
  <2> QED
    BY <1>5, <1>8, <2>1 DEF Lowest
<1>9. CASE w.current # w.to
  <2>1. w.current \in S
    BY <1>2, <1>3, <1>9
  <2>2. \A a \in S : w.current <= a
    BY <1>1, <1>6, <1>7
  <2>3. Lowest(S) = {w.current}
    BY <1>4, <2>1, <2>2, LowestIs
  <2> QED
    BY <1>5, <1>9, <2>3
<1> QED
  BY <1>8, <1>9

LEMMA InvAgreesWithSearch ==
  ASSUME ItemsInv PROVE SearchAgrees
<1> DEFINE w == itemWalk
           rest == IF w.current = w.to THEN {} ELSE {w.current}
<1> SUFFICES ASSUME Walking, ~w.changed, w.pred \in Predicates, WalkInv(w, Stops(w.pred))
             PROVE  IF w.seen = {} THEN find_first(w.from, w.to, w.pred) = rest
                    ELSE find_next(Max(w.seen), w.pred, w.to) = rest
  BY DEF ItemsInv, SearchAgrees
<1>1. /\ w.from \in Nat /\ w.to \in Nat /\ w.current \in Nat /\ MaxAddress \in Nat
      /\ w.seen \subseteq 0 .. MaxAddress
      /\ w.current # w.to => w.from <= w.current /\ w.current < w.to
      /\ \A a \in w.seen : w.from <= a /\ a < w.current
  BY ItemsAssumption DEF WalkInv, WalkType, StandsInRange, MetNothingElse, Bytes
<1> HIDE DEF w
<1>2. CASE w.seen = {} /\ w.from >= w.to
  <2>1. w.current = w.to
    BY <1>1, <1>2
  <2> QED
    BY <1>2, <2>1 DEF find_first
<1>3. CASE w.seen = {} /\ ~(w.from >= w.to)
  <2>1. first_match(w.from, w.to, w.pred) = rest
    BY <1>1, <1>3, SearchFindsStop
  <2> QED
    BY <1>3, <2>1 DEF find_first
<1>4. CASE w.seen # {}
  <2>1. Max(w.seen) \in w.seen /\ \A a \in w.seen : a <= Max(w.seen)
    BY <1>1, <1>4, MaxInSet
  <2> DEFINE m == Max(w.seen)
  <2> HIDE DEF m
  <2>2. /\ m \in Nat /\ w.from <= m /\ m < w.current /\ w.current <= w.to
        /\ \A a \in w.seen : a \in Nat /\ a <= m
    BY <1>1, <2>1 DEF m
  <2>3. /\ m + 1 \in Nat /\ w.from <= m + 1 /\ m + 1 <= w.current /\ ~(m >= w.to)
        /\ \A a \in w.seen : a < m + 1
    BY <1>1, <2>2
  <2>4. first_match(m + 1, w.to, w.pred) = rest
    BY <2>3, SearchFindsStop
  <2> QED
    BY <1>4, <2>3, <2>4 DEF find_next, m
<1> QED
  BY <1>2, <1>3, <1>4

(* Whatever a client does to the items under a loop, for every listing and *)
(* every range, the loop stays in the range and misses nothing that stood  *)
(* there all along; undisturbed it meets nothing else, items do not        *)
(* overlap, and the searches find where the loop stands.                   *)
THEOREM WalksSound == ItemsSpec => []ItemWalksSound
<1>1. ItemsInit => ItemsInv
  BY DEF ItemsInit, ItemsInv, Walking
<1>2. ItemsInv /\ [ItemsNext]_itemvars => ItemsInv'
  BY ItemsInvStep
<1>3. ItemsInv => ItemWalksSound
  BY InvBoundsWalk, InvCompletesWalk, InvSeparatesItems, InvAgreesWithSearch DEF ItemWalksSound
<1> QED
  BY <1>1, <1>2, <1>3, PTL DEF ItemsSpec

-----------------------------------------------------------------------------
(* Segments.  Navigation rests on their order: they lie one behind the     *)
(* other and are not empty.                                                *)
Apart(list) ==
  /\ \A i \in 1 .. Len(list) : list[i].start < list[i].end
  /\ \A i, j \in 1 .. Len(list) : i < j => list[i].end <= list[j].start

(* A loop that nobody disturbs has seen the first segments. *)
LoopSawFirst ==
  segmentWalk.on /\ ~segmentWalk.changed =>
    /\ segmentWalk.total = Len(segments)
    /\ Len(segmentWalk.seen) = segmentWalk.next
    /\ \A i \in 1 .. segmentWalk.next : segmentWalk.seen[i] = PopulateSegment(segments[i])

Object == {NoObject} \cup {PopulateSegment(s) : s \in Segment}
SegmentWalk == [total : Nat, next : Nat, seen : Seq(Object), changed : BOOLEAN, on : BOOLEAN]

SegmentsInv ==
  /\ SegmentsTypeOK
  /\ segmentWalk \in SegmentWalk
  /\ Apart(segments)
  /\ LoopSawFirst
  /\ ResizeIsWholeOrHalf

LEMMA SegmentFields ==
  ASSUME NEW s \in Segment
  PROVE  /\ s.start \in Nat /\ s.end \in Nat /\ s.start \in 0 .. SegmentLimit
         /\ s.end \in 0 .. SegmentLimit
         /\ DOMAIN s = {"start", "end", "type", "bitness", "perm", "name", "text"}
  BY SegmentsAssumption DEF Segment

LEMMA SegmentElements ==
  ASSUME NEW list \in Seq(Segment)
  PROVE  /\ Len(list) \in Nat /\ DOMAIN list = 1 .. Len(list)
         /\ \A i \in 1 .. Len(list) : /\ list[i] \in Segment
                                      /\ list[i].start \in Nat /\ list[i].end \in Nat
<1>1. Len(list) \in Nat /\ DOMAIN list = 1 .. Len(list)
  BY LenProperties
<1>2. \A i \in 1 .. Len(list) : list[i] \in Segment
  BY ElementOfSeq
<1> QED  BY <1>1, <1>2, SegmentFields

-----------------------------------------------------------------------------
(* The ways in which the list changes keep it apart. *)
LEMMA PlacedApart ==
  ASSUME NEW list \in Seq(Segment), Apart(list), NEW s \in Segment, s.start < s.end,
         \A i \in 1 .. Len(list) : s.end <= list[i].start \/ list[i].end <= s.start,
         NEW r \in Placed(list, s)
  PROVE  r \in Seq(Segment) /\ Apart(r)
<1> DEFINE n == Len(list)
<1>1. /\ n \in Nat /\ DOMAIN list = 1 .. n
      /\ \A i \in 1 .. n : list[i].start \in Nat /\ list[i].end \in Nat
  BY SegmentElements
<1>2. s.start \in Nat /\ s.end \in Nat
  BY SegmentFields
<1>3. PICK k \in 0 .. n : /\ r = InsertAt(list, k + 1, s)
                          /\ \A i \in 1 .. n : i <= k <=> list[i].start < s.start
  BY <1>1 DEF Placed
<1>4. r \in Seq(Segment) /\ Grown(list, k, s, r)
  BY <1>3, InsertGrows
<1>5. /\ Len(r) = n + 1
      /\ \A j \in 1 .. n + 1 : r[j] = IF j <= k THEN list[j] ELSE IF j = k + 1 THEN s ELSE list[j - 1]
  BY <1>4 DEF Grown
<1>6. /\ \A i \in 1 .. n : list[i].start < list[i].end
      /\ \A i, j \in 1 .. n : i < j => list[i].end <= list[j].start
      /\ \A i \in 1 .. n : s.end <= list[i].start \/ list[i].end <= s.start
  BY DEF Apart
<1> HIDE DEF n
<1>7. \A i \in 1 .. n : i <= k => list[i].end <= s.start
  BY <1>1, <1>2, <1>3, <1>6
<1>8. \A i \in 1 .. n : i > k => s.end <= list[i].start
  <2> SUFFICES ASSUME NEW i \in 1 .. n, i > k PROVE s.end <= list[i].start
    OBVIOUS
  <2>1. s.start <= list[i].start /\ list[i].start < list[i].end
    BY <1>1, <1>2, <1>3, <1>6
  <2> QED  BY <2>1, <1>1, <1>2, <1>6
<1>9. \A j \in 1 .. n + 1 : \/ j <= k /\ j \in 1 .. n /\ r[j] = list[j]
                            \/ j = k + 1 /\ r[j] = s
                            \/ j > k + 1 /\ j - 1 \in 1 .. n /\ j - 1 > k /\ r[j] = list[j - 1]
  BY <1>1, <1>5
<1>10. \A j \in 1 .. n + 1 : r[j].start < r[j].end
  BY <1>6, <1>9
<1>11. ASSUME NEW i \in 1 .. n + 1, NEW j \in 1 .. n + 1, i < j
       PROVE  r[i].end <= r[j].start
  <2>1. CASE i <= k /\ j <= k
    BY <1>1, <1>5, <1>6, <1>9, <1>11, <2>1
  <2>2. CASE i <= k /\ j = k + 1
    BY <1>1, <1>5, <1>7, <1>9, <2>2
  <2>3. CASE i <= k /\ j > k + 1
    <3>1. r[i] = list[i] /\ r[j] = list[j - 1] /\ i < j - 1 /\ i \in 1 .. n /\ j - 1 \in 1 .. n
      BY <1>1, <1>9, <2>3
    <3> QED  BY <1>6, <3>1
  <2>4. CASE i = k + 1
    <3>1. r[i] = s /\ r[j] = list[j - 1] /\ j - 1 \in 1 .. n /\ j - 1 > k
      BY <1>1, <1>9, <1>11, <2>4
    <3> QED  BY <1>8, <3>1
  <2>5. CASE i > k + 1
    <3>1. /\ r[i] = list[i - 1] /\ r[j] = list[j - 1]
          /\ i - 1 \in 1 .. n /\ j - 1 \in 1 .. n /\ i - 1 < j - 1
      BY <1>1, <1>9, <1>11, <2>5
    <3> QED  BY <1>6, <3>1
  <2> QED  BY <1>11, <2>1, <2>2, <2>3, <2>4, <2>5
<1> QED  BY <1>4, <1>5, <1>10, <1>11 DEF Apart

LEMMA RemovedApart ==
  ASSUME NEW list \in Seq(Segment), Apart(list), NEW i \in 1 .. Len(list)
  PROVE  LET r == RemoveAt(list, i) IN
         /\ r \in Seq(Segment) /\ Apart(r)
         /\ \A j \in 1 .. Len(r) : \E k \in 1 .. Len(list) \ {i} : r[j] = list[k]
<1> DEFINE n == Len(list)
           r == RemoveAt(list, i)
           old(j) == IF j < i THEN j ELSE j + 1
<1>1. n \in Nat /\ i \in 1 .. n
  BY SegmentElements
<1>2. /\ r \in Seq(Segment) /\ Len(r) = n - 1
      /\ \A j \in 1 .. n - 1 : r[j] = IF j < i THEN list[j] ELSE list[j + 1]
  BY RemovedAt
<1> HIDE DEF r
<1>3. \A j \in 1 .. n - 1 : old(j) \in 1 .. n \ {i} /\ r[j] = list[old(j)]
  BY <1>1, <1>2
<1>4. \A j, k \in 1 .. n - 1 : j < k => old(j) < old(k)
  BY <1>1
<1> HIDE DEF old, n
<1>5. Apart(r)
  <2>1. \A j \in 1 .. n - 1 : r[j].start < r[j].end
    BY <1>3 DEF Apart, n
  <2>2. \A j, k \in 1 .. n - 1 : j < k => r[j].end <= r[k].start
    BY <1>3, <1>4 DEF Apart, n
  <2> QED  BY <1>2, <2>1, <2>2 DEF Apart
<1>6. \A j \in 1 .. Len(r) : \E k \in 1 .. n \ {i} : r[j] = list[k]
  BY <1>2, <1>3
<1> QED  BY <1>2, <1>5, <1>6 DEF r, n

(* A segment that keeps its place between its neighbours. *)
Between(list, i, s) ==
  /\ s.start < s.end
  /\ \A j \in 1 .. Len(list) : j < i => list[j].end <= s.start
  /\ \A j \in 1 .. Len(list) : i < j => s.end <= list[j].start

LEMMA ReplacedApart ==
  ASSUME NEW list \in Seq(Segment), Apart(list), NEW i \in 1 .. Len(list), NEW s \in Segment,
         Between(list, i, s)
  PROVE  [list EXCEPT ![i] = s] \in Seq(Segment) /\ Apart([list EXCEPT ![i] = s])
<1> DEFINE r == [list EXCEPT ![i] = s]
<1>1. /\ r \in Seq(Segment) /\ Len(r) = Len(list) /\ Len(list) \in Nat
      /\ r[i] = s /\ \A j \in 1 .. Len(list) \ {i} : r[j] = list[j]
  BY SegmentElements, ExceptSeq
<1> HIDE DEF r
<1>2. \A j \in 1 .. Len(list) : r[j].start < r[j].end
  BY <1>1 DEF Apart, Between
<1>3. ASSUME NEW j \in 1 .. Len(list), NEW k \in 1 .. Len(list), j < k
      PROVE  r[j].end <= r[k].start
  <2>1. CASE j = i
    BY <1>1, <1>3, <2>1 DEF Between
  <2>2. CASE k = i
    BY <1>1, <1>3, <2>2 DEF Between
  <2>3. CASE j # i /\ k # i
    BY <1>1, <1>3, <2>3 DEF Apart
  <2> QED  BY <2>1, <2>2, <2>3
<1>4. Apart(r)
  BY <1>1, <1>2, <1>3 DEF Apart
<1> QED  BY <1>1, <1>4 DEF r

-----------------------------------------------------------------------------
(* The steps. *)
LEMMA SegmentsUnfold ==
  ASSUME SegmentsInv
  PROVE  /\ segments \in Seq(Segment) /\ Apart(segments)
         /\ Len(segments) \in Nat /\ DOMAIN segments = 1 .. Len(segments)
         /\ \A i \in 1 .. Len(segments) :
              segments[i] \in Segment /\ segments[i].start \in Nat /\ segments[i].end \in Nat
         /\ edits \in 0 .. MaxEdits /\ edits \in Nat /\ segmentWalk \in SegmentWalk
         /\ segmentWalk.on => segmentWalk.next \in 0 .. segmentWalk.total
<1>1. /\ segments \in Seq(Segment) /\ Apart(segments) /\ edits \in 0 .. MaxEdits
      /\ segmentWalk \in SegmentWalk
      /\ segmentWalk.on => segmentWalk.next \in 0 .. segmentWalk.total
  BY DEF SegmentsInv, SegmentsTypeOK
<1>2. edits \in Nat
  BY <1>1, SegmentsAssumption
<1> QED  BY <1>1, <1>2, SegmentElements

LEMMA ChangedByInv ==
  ASSUME SegmentsInv, NEW list \in Seq(Segment), Apart(list), NEW resize,
         ChangedBy(list, resize), ResizeIsWholeOrHalf'
  PROVE  SegmentsInv'
<1>1. /\ edits \in Nat /\ edits < MaxEdits /\ edits' = edits + 1 /\ segments' = list
      /\ segmentWalk \in SegmentWalk
      /\ segmentWalk.on => segmentWalk.next \in 0 .. segmentWalk.total
  BY SegmentsUnfold DEF ChangedBy
<1>2. edits' \in 0 .. MaxEdits
  BY <1>1, SegmentsAssumption
<1>3. /\ segmentWalk' \in SegmentWalk /\ segmentWalk'.on = segmentWalk.on
      /\ segmentWalk'.next = segmentWalk.next /\ segmentWalk'.total = segmentWalk.total
      /\ segmentWalk.on => segmentWalk'.changed
  <2>1. CASE segmentWalk.on
    <3>1. segmentWalk' = [segmentWalk EXCEPT !.changed = TRUE]
      BY <2>1 DEF ChangedBy
    <3> QED  BY <1>1, <3>1 DEF SegmentWalk
  <2>2. CASE ~segmentWalk.on
    BY <1>1, <2>2 DEF ChangedBy
  <2> QED  BY <2>1, <2>2
<1>4. SegmentsTypeOK'
  BY <1>1, <1>2, <1>3 DEF SegmentsTypeOK
<1>5. LoopSawFirst'
  BY <1>3 DEF LoopSawFirst
<1> QED  BY <1>1, <1>3, <1>4, <1>5 DEF SegmentsInv

LEMMA ChangedInv ==
  ASSUME SegmentsInv, NEW list \in Seq(Segment), Apart(list), Changed(list)
  PROVE  SegmentsInv'
<1>1. ResizeIsWholeOrHalf'
  BY DEF Changed, ChangedBy, NotResized, ResizeIsWholeOrHalf
<1> QED  BY <1>1, ChangedByInv DEF Changed

(* The place of a segment among those around it. *)
LEMMA StaysBetween ==
  ASSUME SegmentsInv, NEW i \in 1 .. Len(segments), NEW s \in Segment,
         s.start = segments[i].start, s.end = segments[i].end
  PROVE  [segments EXCEPT ![i] = s] \in Seq(Segment) /\ Apart([segments EXCEPT ![i] = s])
<1>1. Between(segments, i, s)
  BY SegmentsUnfold DEF Apart, Between
<1> QED  BY <1>1, SegmentsUnfold, ReplacedApart

LEMMA FieldSet ==
  ASSUME NEW s \in Segment, NEW field, NEW value,
         \/ field = "text" /\ value \in {"new", "set"}
         \/ field = "name" /\ value \in SegmentNames
         \/ field = "type" /\ value \in SdkTypes
         \/ field = "perm" /\ value \in SUBSET Permission
         \/ field = "bitness" /\ value \in 0 .. 2
  PROVE  LET r == [s EXCEPT ![field] = value] IN
         r \in Segment /\ r.start = s.start /\ r.end = s.end
<1>1. CASE field = "text" /\ value \in {"new", "set"}
  BY <1>1 DEF Segment
<1>2. CASE field = "name" /\ value \in SegmentNames
  BY <1>2 DEF Segment
<1>3. CASE field = "type" /\ value \in SdkTypes
  BY <1>3 DEF Segment
<1>4. CASE field = "perm" /\ value \in SUBSET Permission
  BY <1>4 DEF Segment
<1>5. CASE field = "bitness" /\ value \in 0 .. 2
  BY <1>5 DEF Segment
<1> QED  BY <1>1, <1>2, <1>3, <1>4, <1>5

LEMMA FieldStep ==
  ASSUME SegmentsInv, NEW a, NEW field, NEW value, SegmentSet(a, field, value),
         \/ field = "text" /\ value \in {"new", "set"}
         \/ field = "name" /\ value \in SegmentNames
         \/ field = "type" /\ value \in SdkTypes
         \/ field = "perm" /\ value \in SUBSET Permission
         \/ field = "bitness" /\ value \in 0 .. 2
  PROVE  SegmentsInv'
<1>1. PICK i \in 1 .. Len(segments) : Changed([segments EXCEPT ![i][field] = value])
  BY SegmentsUnfold DEF SegmentSet, getseg
<1> DEFINE s == [segments[i] EXCEPT ![field] = value]
<1>2. segments[i] \in Segment
  BY SegmentsUnfold
<1>3. s \in Segment /\ s.start = segments[i].start /\ s.end = segments[i].end
  BY <1>2, FieldSet
<1>4. Changed([segments EXCEPT ![i] = s])
  BY <1>1
<1> HIDE DEF s
<1> QED  BY <1>3, <1>4, StaysBetween, ChangedInv

LEMMA SdkTypeOf == \A t \in {"Import", "Group"} : type_to_sdk_type(t) \in SdkTypes
<1>1. /\ "IMP" \in SdkTypes \ {"other"} /\ sdk_type_to_type("IMP") = "Import"
      /\ "GRP" \in SdkTypes \ {"other"} /\ sdk_type_to_type("GRP") = "Group"
  BY DEF SdkTypes, sdk_type_to_type
<1> QED  BY <1>1 DEF type_to_sdk_type

LEMMA CreateStep ==
  ASSUME SegmentsInv, NEW start \in 0 .. SegmentLimit, NEW end \in 0 .. SegmentLimit,
         NEW name \in SegmentNames, start < end, CreateSegment(start, end, name, "Import")
  PROVE  SegmentsInv'
<1> DEFINE s == [start |-> start, end |-> end, type |-> type_to_sdk_type("Import"), bitness |-> 1,
                 perm |-> Permission, name |-> name, text |-> "new"]
<1>1. s \in Segment /\ s.start < s.end /\ s.start = start /\ s.end = end
  BY SdkTypeOf DEF Segment
<1>2. Fits(s, ToSet(segments)) /\ \E list \in Placed(segments, s) : Changed(list)
  BY DEF CreateSegment
<1> HIDE DEF s
<1>3. \A i \in 1 .. Len(segments) : s.end <= segments[i].start \/ segments[i].end <= s.start
  BY <1>2, SegmentsUnfold DEF Fits, ToSet
<1>4. PICK list \in Placed(segments, s) : Changed(list)
  BY <1>2
<1>5. list \in Seq(Segment) /\ Apart(list)
  BY <1>1, <1>3, SegmentsUnfold, PlacedApart
<1> QED  BY <1>4, <1>5, ChangedInv

LEMMA RemoveStep ==
  ASSUME SegmentsInv, NEW a, RemoveSegment(a)
  PROVE  SegmentsInv'
<1>1. PICK i \in 1 .. Len(segments) : Changed(RemoveAt(segments, i))
  BY SegmentsUnfold DEF RemoveSegment, getseg
<1>2. RemoveAt(segments, i) \in Seq(Segment) /\ Apart(RemoveAt(segments, i))
  BY SegmentsUnfold, RemovedApart
<1> QED  BY <1>1, <1>2, ChangedInv

LEMMA MoveStep ==
  ASSUME SegmentsInv, NEW a, NEW new_start \in SegAddresses, MoveSegment(a, new_start)
  PROVE  SegmentsInv'
<1>1. PICK i \in 1 .. Len(segments) :
        LET s == segments[i]
            moved == [s EXCEPT !.start = new_start, !.end = new_start + (s.end - s.start)]
        IN /\ moved.end <= SegmentLimit /\ Fits(moved, Others(i))
           /\ \E list \in Placed(RemoveAt(segments, i), moved) : Changed(list)
  BY SegmentsUnfold DEF MoveSegment, getseg
<1> DEFINE s == segments[i]
           moved == [s EXCEPT !.start = new_start, !.end = new_start + (s.end - s.start)]
           rest == RemoveAt(segments, i)
<1>2. s \in Segment /\ s.start \in Nat /\ s.end \in Nat /\ s.start < s.end
  BY SegmentsUnfold DEF Apart
<1>3. moved.end <= SegmentLimit /\ Fits(moved, Others(i))
  BY <1>1
<1>4. /\ moved.start = new_start /\ moved.end = new_start + (s.end - s.start)
      /\ new_start \in 0 .. SegmentLimit
  BY <1>2, SegmentsAssumption DEF Segment, SegAddresses
<1>5. moved.start < moved.end /\ moved.end \in 0 .. SegmentLimit
  <2> HIDE DEF moved, s
  <2> QED  BY <1>2, <1>3, <1>4, SegmentsAssumption
<1>6. moved \in Segment
  <2>1. new_start + (s.end - s.start) \in 0 .. SegmentLimit
    BY <1>4, <1>5
  <2> HIDE DEF s
  <2> QED  BY <1>2, <1>4, <2>1 DEF Segment
<1>7. /\ rest \in Seq(Segment) /\ Apart(rest)
      /\ \A j \in 1 .. Len(rest) : \E k \in 1 .. Len(segments) \ {i} : rest[j] = segments[k]
  BY SegmentsUnfold, RemovedApart
<1>8. PICK list \in Placed(rest, moved) : Changed(list)
  BY <1>1
<1> HIDE DEF moved, rest
<1>9. \A j \in 1 .. Len(rest) : moved.end <= rest[j].start \/ rest[j].end <= moved.start
  BY <1>3, <1>7, SegmentsUnfold DEF Fits, Others
<1>10. list \in Seq(Segment) /\ Apart(list)
  BY <1>5, <1>6, <1>7, <1>9, PlacedApart
<1> QED  BY <1>8, <1>10, ChangedInv

LEMMA TextOfAllStep ==
  ASSUME SegmentsInv, SetTextOfAll("set")
  PROVE  SegmentsInv'
<1> DEFINE list == [i \in DOMAIN segments |-> [segments[i] EXCEPT !.text = "set"]]
           n == Len(segments)
<1>1. n \in Nat /\ DOMAIN segments = 1 .. n /\ \A i \in 1 .. n : segments[i] \in Segment
  BY SegmentsUnfold
<1>2. \A i \in 1 .. n : /\ list[i] \in Segment
                        /\ list[i].start = segments[i].start /\ list[i].end = segments[i].end
  BY <1>1 DEF Segment
<1>3. list \in Seq(Segment) /\ Len(list) = n
  BY <1>1, <1>2
<1>4. Changed(list)
  BY DEF SetTextOfAll
<1> HIDE DEF list
<1>5. Apart(list)
  BY <1>2, <1>3, SegmentsUnfold DEF Apart
<1> QED  BY <1>3, <1>4, <1>5, ChangedInv

(* The start of a segment that fits stays behind what was before it, and   *)
(* so does an end that fits with it.                                       *)
LEMMA ResizedBetween ==
  ASSUME SegmentsInv, NEW i \in 1 .. Len(segments),
         NEW new_start \in Nat, NEW new_end \in Nat,
         new_start < new_end, new_start < segments[i].end,
         \A j \in 1 .. Len(segments) \ {i} :
           segments[i].end <= segments[j].start \/ segments[j].end <= new_start
  PROVE  /\ \A j \in 1 .. Len(segments) : j < i => segments[j].end <= new_start
         /\ \A j \in 1 .. Len(segments) : i < j => segments[i].end <= segments[j].start
         /\ (\A j \in 1 .. Len(segments) \ {i} :
               new_end <= segments[j].start \/ segments[j].end <= new_start)
              => \A j \in 1 .. Len(segments) : i < j => new_end <= segments[j].start
<1>1. /\ \A j \in 1 .. Len(segments) : segments[j].start \in Nat /\ segments[j].end \in Nat
      /\ \A j \in 1 .. Len(segments) : segments[j].start < segments[j].end
      /\ \A j, k \in 1 .. Len(segments) : j < k => segments[j].end <= segments[k].start
      /\ Len(segments) \in Nat
  BY SegmentsUnfold DEF Apart
<1>2. ASSUME NEW j \in 1 .. Len(segments), j < i PROVE segments[j].end <= new_start
  <2>1. /\ segments[j].end <= segments[i].start /\ segments[i].start < segments[i].end
        /\ segments[j].start < segments[j].end
    BY <1>1, <1>2
  <2>2. j \in 1 .. Len(segments) \ {i}
    BY <1>1, <1>2
  <2> QED  BY <1>1, <2>1, <2>2
<1>3. ASSUME NEW j \in 1 .. Len(segments), i < j,
             \A k \in 1 .. Len(segments) \ {i} :
               new_end <= segments[k].start \/ segments[k].end <= new_start
      PROVE  new_end <= segments[j].start
  <2>1. segments[i].end <= segments[j].start /\ segments[j].start < segments[j].end
    BY <1>1, <1>3
  <2>2. j \in 1 .. Len(segments) \ {i}
    BY <1>1, <1>3
  <2> QED  BY <1>1, <1>3, <2>1, <2>2
<1> QED  BY <1>1, <1>2, <1>3

LEMMA ResizeStep ==
  ASSUME SegmentsInv, NEW a, NEW new_start \in 0 .. SegmentLimit,
         NEW new_end \in 0 .. SegmentLimit, Resize(a, new_start, new_end)
  PROVE  SegmentsInv'
<1>1. PICK i \in 1 .. Len(segments) :
        LET old == segments[i]
            started == [old EXCEPT !.start = new_start]
            ended == [started EXCEPT !.end = new_end]
            asked(result) == [on |-> TRUE, before |-> old, start |-> new_start,
                              end |-> new_end, result |-> result]
            startable == new_start < new_end /\ new_start < old.end /\ Fits(started, Others(i))
        IN \/ /\ ~startable
              /\ resized' = NotResized
              /\ UNCHANGED <<segments, segmentWalk, edits>>
           \/ /\ startable /\ Fits(ended, Others(i))
              /\ ChangedBy([segments EXCEPT ![i] = ended], asked("ok"))
           \/ /\ startable /\ ~Fits(ended, Others(i))
              /\ ChangedBy([segments EXCEPT ![i] = started], asked("half"))
  BY SegmentsUnfold DEF Resize, getseg
<1> DEFINE old == segments[i]
           started == [old EXCEPT !.start = new_start]
           ended == [started EXCEPT !.end = new_end]
           asked(result) == [on |-> TRUE, before |-> old, start |-> new_start,
                             end |-> new_end, result |-> result]
           startable == new_start < new_end /\ new_start < old.end /\ Fits(started, Others(i))
<1>2. old \in Segment /\ new_start \in Nat /\ new_end \in Nat
  BY SegmentsUnfold, SegmentsAssumption
<1>3. /\ started \in Segment /\ started.start = new_start /\ started.end = old.end
      /\ ended \in Segment /\ ended.start = new_start /\ ended.end = new_end
      /\ ended = [old EXCEPT !.start = new_start, !.end = new_end]
      /\ new_end = old.end => ended = started
  BY <1>2 DEF Segment
<1>4. /\ Others(i) = {segments[j] : j \in 1 .. Len(segments) \ {i}}
  BY SegmentsUnfold DEF Others
<1>5. CASE ~startable /\ resized' = NotResized /\ UNCHANGED <<segments, segmentWalk, edits>>
  BY <1>5 DEF SegmentsInv, SegmentsTypeOK, LoopSawFirst, ResizeIsWholeOrHalf, NotResized
<1>6. startable =>
        /\ Between(segments, i, started)
        /\ Fits(ended, Others(i)) => Between(segments, i, ended)
  <2> SUFFICES ASSUME startable
               PROVE  /\ Between(segments, i, started)
                      /\ Fits(ended, Others(i)) => Between(segments, i, ended)
    OBVIOUS
  <2>1. /\ new_start < new_end /\ new_start < segments[i].end
        /\ \A j \in 1 .. Len(segments) \ {i} :
             segments[i].end <= segments[j].start \/ segments[j].end <= new_start
    BY <1>3, <1>4 DEF Fits
  <2>2. Fits(ended, Others(i)) =>
          \A j \in 1 .. Len(segments) \ {i} :
            new_end <= segments[j].start \/ segments[j].end <= new_start
    BY <1>3, <1>4 DEF Fits
  <2> HIDE DEF started, ended, startable
  <2> QED  BY <1>2, <1>3, <2>1, <2>2, ResizedBetween DEF Between
<1> HIDE DEF started, ended, startable
<1>7. CASE startable /\ Fits(ended, Others(i)) /\ ChangedBy([segments EXCEPT ![i] = ended], asked("ok"))
  <2> DEFINE list == [segments EXCEPT ![i] = ended]
  <2>1. list \in Seq(Segment) /\ Apart(list)
    BY <1>3, <1>6, <1>7, SegmentsUnfold, ReplacedApart
  <2>2. segments' = list /\ resized' = asked("ok")
    BY <1>7 DEF ChangedBy
  <2>3. ended \in ToSet(segments')
    BY <2>2, SegmentsUnfold DEF ToSet
  <2>4. /\ resized'.result = "ok"
        /\ [resized'.before EXCEPT !.start = resized'.start, !.end = resized'.end] = ended
    BY <1>3, <2>2
  <2>5. ResizeIsWholeOrHalf'
    BY <2>3, <2>4 DEF ResizeIsWholeOrHalf
  <2> HIDE DEF list
  <2> QED  BY <1>7, <2>1, <2>5, ChangedByInv DEF list
<1>8. CASE startable /\ ~Fits(ended, Others(i)) /\ ChangedBy([segments EXCEPT ![i] = started], asked("half"))
  <2> DEFINE list == [segments EXCEPT ![i] = started]
  <2>1. list \in Seq(Segment) /\ Apart(list)
    BY <1>3, <1>6, <1>8, SegmentsUnfold, ReplacedApart
  <2>2. segments' = list /\ resized' = asked("half")
    BY <1>8 DEF ChangedBy
  <2>3. started \in ToSet(segments')
    BY <2>2, SegmentsUnfold DEF ToSet
  <2>4. new_end # old.end
    BY <1>3, <1>8 DEF startable
  <2>5. /\ resized'.result = "half"
        /\ [resized'.before EXCEPT !.start = resized'.start] = started
        /\ resized'.end # resized'.before.end
    BY <2>2, <2>4 DEF started
  <2>6. ResizeIsWholeOrHalf'
    BY <2>3, <2>5 DEF ResizeIsWholeOrHalf
  <2> HIDE DEF list
  <2> QED  BY <1>8, <2>1, <2>6, ChangedByInv DEF list
<1> QED  BY <1>1, <1>5, <1>7, <1>8 DEF started, ended, startable

-----------------------------------------------------------------------------
(* Loops. *)
LEMMA WalkStep ==
  ASSUME SegmentsInv, AllSegments \/ VisitSegment \/ EndSegmentLoop
  PROVE  SegmentsInv'
<1>1. /\ segmentWalk \in SegmentWalk /\ UNCHANGED <<segments, resized, edits>>
      /\ Len(segments) \in Nat
      /\ segmentWalk.on => segmentWalk.next \in 0 .. segmentWalk.total
  BY SegmentsUnfold DEF AllSegments, VisitSegment, EndSegmentLoop
<1>2. << >> \in Seq(Object) /\ Len(<< >>) = 0
  BY EmptySeq
<1>3. NoSegmentWalk \in SegmentWalk
  BY <1>2 DEF NoSegmentWalk, SegmentWalk
<1>4. ResizeIsWholeOrHalf'
  BY <1>1 DEF SegmentsInv, ResizeIsWholeOrHalf
<1>5. CASE AllSegments
  <2>1. segmentWalk' = [NoSegmentWalk EXCEPT !.on = TRUE, !.total = Len(segments)]
    BY <1>5 DEF AllSegments
  <2>2. /\ segmentWalk' \in SegmentWalk /\ segmentWalk'.next = 0
        /\ segmentWalk'.total = Len(segments) /\ segmentWalk'.seen = << >>
    BY <1>1, <1>3, <2>1 DEF SegmentWalk, NoSegmentWalk
  <2>3. LoopSawFirst' /\ SegmentsTypeOK'
    BY <1>1, <1>2, <2>2 DEF LoopSawFirst, SegmentsInv, SegmentsTypeOK
  <2> QED  BY <1>1, <1>4, <2>2, <2>3 DEF SegmentsInv
<1>6. CASE VisitSegment
  <2> DEFINE object == IF segmentWalk.next < Len(segments)
                       THEN PopulateSegment(segments[segmentWalk.next + 1]) ELSE NoObject
  <2>1. /\ segmentWalk.on /\ segmentWalk.next < segmentWalk.total
        /\ segmentWalk' = [segmentWalk EXCEPT !.next = @ + 1, !.seen = Append(@, object)]
    BY <1>6 DEF VisitSegment
  <2>2. segmentWalk.next \in Nat /\ segmentWalk.total \in Nat /\ segmentWalk.seen \in Seq(Object)
    BY <1>1 DEF SegmentWalk
  <2>3. object \in Object
    <3>1. CASE segmentWalk.next < Len(segments)
      <4>1. segments[segmentWalk.next + 1] \in Segment
        BY <2>2, <3>1, SegmentsUnfold
      <4> QED  BY <3>1, <4>1 DEF Object
    <3> QED  BY <3>1 DEF Object
  <2>4. segmentWalk.next < Len(segments) => object = PopulateSegment(segments[segmentWalk.next + 1])
    OBVIOUS
  <2> HIDE DEF object
  <2>5. /\ Append(segmentWalk.seen, object) \in Seq(Object)
        /\ Len(segmentWalk.seen) \in Nat
        /\ Len(Append(segmentWalk.seen, object)) = Len(segmentWalk.seen) + 1
        /\ \A i \in 1 .. Len(segmentWalk.seen) :
             Append(segmentWalk.seen, object)[i] = segmentWalk.seen[i]
        /\ Append(segmentWalk.seen, object)[Len(segmentWalk.seen) + 1] = object
    BY <2>2, <2>3, AppendProperties, LenProperties
  <2>6. /\ segmentWalk' \in SegmentWalk /\ segmentWalk'.on
        /\ segmentWalk'.changed = segmentWalk.changed
        /\ segmentWalk'.total = segmentWalk.total /\ segmentWalk'.next = segmentWalk.next + 1
        /\ segmentWalk'.seen = Append(segmentWalk.seen, object)
    <3>1. segmentWalk.on \in BOOLEAN /\ segmentWalk.changed \in BOOLEAN
      BY <1>1 DEF SegmentWalk
    <3>2. segmentWalk' = [total |-> segmentWalk.total, next |-> segmentWalk.next + 1,
                          seen |-> Append(segmentWalk.seen, object),
                          changed |-> segmentWalk.changed, on |-> segmentWalk.on]
      BY <1>1, <2>1 DEF SegmentWalk
    <3>3. segmentWalk.next + 1 \in Nat
      BY <2>2
    <3> QED  BY <2>1, <2>2, <2>5, <3>1, <3>2, <3>3 DEF SegmentWalk
  <2>7. LoopSawFirst'
    <3> SUFFICES ASSUME ~segmentWalk.changed
                 PROVE  /\ segmentWalk.total = Len(segments)
                        /\ Len(segmentWalk'.seen) = segmentWalk.next + 1
                        /\ \A i \in 1 .. segmentWalk.next + 1 :
                             segmentWalk'.seen[i] = PopulateSegment(segments[i])
      BY <1>1, <2>6 DEF LoopSawFirst
    <3>1. /\ segmentWalk.total = Len(segments) /\ Len(segmentWalk.seen) = segmentWalk.next
          /\ \A i \in 1 .. segmentWalk.next : segmentWalk.seen[i] = PopulateSegment(segments[i])
      BY <2>1 DEF SegmentsInv, LoopSawFirst
    <3>2. object = PopulateSegment(segments[segmentWalk.next + 1])
      BY <2>1, <2>4, <3>1
    <3>3. ASSUME NEW i \in 1 .. segmentWalk.next + 1
          PROVE  segmentWalk'.seen[i] = PopulateSegment(segments[i])
      <4>1. CASE i = segmentWalk.next + 1
        BY <2>5, <2>6, <3>1, <3>2, <4>1
      <4>2. CASE i # segmentWalk.next + 1
        <5>1. i \in 1 .. segmentWalk.next
          BY <2>2, <4>2
        <5> QED  BY <2>5, <2>6, <3>1, <5>1
      <4> QED  BY <4>1, <4>2
    <3> QED  BY <2>5, <2>6, <3>1, <3>3
  <2>8. SegmentsTypeOK'
    BY <1>1, <2>1, <2>2, <2>6 DEF SegmentsInv, SegmentsTypeOK
  <2> QED  BY <1>1, <1>4, <2>6, <2>7, <2>8 DEF SegmentsInv
<1>7. CASE EndSegmentLoop
  <2>1. segmentWalk' = NoSegmentWalk /\ ~segmentWalk'.on
    BY <1>7 DEF EndSegmentLoop, NoSegmentWalk
  <2> QED  BY <1>1, <1>3, <1>4, <2>1 DEF SegmentsInv, SegmentsTypeOK, LoopSawFirst
<1> QED  BY <1>5, <1>6, <1>7

LEMMA SegmentsStep == SegmentsInv /\ [SegmentsNext]_segmentvars => SegmentsInv'
<1> SUFFICES ASSUME SegmentsInv, [SegmentsNext]_segmentvars PROVE SegmentsInv'
  OBVIOUS
<1>1. CASE \E s, e \in 0 .. SegmentLimit, n \in SegmentNames :
             s < e /\ CreateSegment(s, e, n, "Import")
  BY <1>1, CreateStep
<1>2. CASE \E a \in SegAddresses : RemoveSegment(a)
  BY <1>2, RemoveStep
<1>3. CASE \E a \in SegAddresses, n \in SegmentNames : SetName(a, n)
  BY <1>3, FieldStep DEF SetName
<1>4. CASE \E a \in SegAddresses : SetType(a, "Group")
  BY <1>4, SdkTypeOf, FieldStep DEF SetType
<1>5. CASE \E a \in SegAddresses : SetText(a, "set")
  BY <1>5, FieldStep DEF SetText
<1>6. CASE SetTextOfAll("set")
  BY <1>6, TextOfAllStep
<1>7. CASE \E a \in SegAddresses : SetPermissions(a, {"read"})
  <2>1. {"read"} \in SUBSET Permission
    BY DEF Permission
  <2> QED  BY <1>7, <2>1, FieldStep DEF SetPermissions
<1>8. CASE \E a \in SegAddresses, bits \in {16, 64, 24} : SetBitness(a, bits)
  <2>1. PICK a \in SegAddresses, b \in 0 .. 2 : SegmentSet(a, "bitness", b)
    BY <1>8 DEF SetBitness, bits_to_bitness
  <2> QED  BY <2>1, FieldStep
<1>9. CASE \E a \in SegAddresses, s, e \in 0 .. SegmentLimit : Resize(a, s, e)
  BY <1>9, ResizeStep
<1>10. CASE \E a, s \in SegAddresses : MoveSegment(a, s)
  BY <1>10, MoveStep
<1>11. CASE AllSegments \/ VisitSegment \/ EndSegmentLoop
  BY <1>11, WalkStep
<1>12. CASE UNCHANGED segmentvars
  BY <1>12 DEF segmentvars, SegmentsInv, SegmentsTypeOK, LoopSawFirst, ResizeIsWholeOrHalf
<1> QED
  BY <1>1, <1>2, <1>3, <1>4, <1>5, <1>6, <1>7, <1>8, <1>9, <1>10, <1>11, <1>12 DEF SegmentsNext

LEMMA SegmentsStart == SegmentsInit => SegmentsInv
<1> SUFFICES ASSUME SegmentsInit PROVE SegmentsInv
  OBVIOUS
<1>1. << >> \in Seq(Segment) /\ Len(<< >>) = 0 /\ << >> \in Seq(Object)
  BY EmptySeq
<1>2. segments = << >> /\ segmentWalk = NoSegmentWalk /\ resized = NotResized /\ edits = 0
  BY DEF SegmentsInit
<1>3. segmentWalk \in SegmentWalk /\ ~segmentWalk.on
  BY <1>1, <1>2 DEF SegmentWalk, NoSegmentWalk
<1>4. SegmentsTypeOK
  BY <1>1, <1>2, <1>3, SegmentsAssumption DEF SegmentsTypeOK
<1>5. Apart(segments)
  BY <1>1, <1>2 DEF Apart
<1>6. LoopSawFirst /\ ResizeIsWholeOrHalf
  BY <1>2, <1>3 DEF LoopSawFirst, ResizeIsWholeOrHalf, NotResized
<1> QED  BY <1>3, <1>4, <1>5, <1>6 DEF SegmentsInv

-----------------------------------------------------------------------------
(* Navigation. *)
LEMMA OneSegmentAt ==
  ASSUME SegmentsInv, NEW i \in 1 .. Len(segments),
         NEW a \in segments[i].start .. segments[i].end - 1
  PROVE  /\ getseg(a) = {i}
         /\ SegmentAt(a) = {PopulateSegment(segments[i])}
<1>1. /\ Len(segments) \in Nat /\ DOMAIN segments = 1 .. Len(segments)
      /\ \A j \in 1 .. Len(segments) : segments[j].start \in Nat /\ segments[j].end \in Nat
      /\ \A j \in 1 .. Len(segments) : segments[j].start < segments[j].end
      /\ \A j, k \in 1 .. Len(segments) : j < k => segments[j].end <= segments[k].start
  BY SegmentsUnfold DEF Apart
<1>2. segments[i].start <= a /\ a < segments[i].end /\ a \in Nat
  BY <1>1
<1>3. ASSUME NEW j \in 1 .. Len(segments), segments[j].start <= a, a < segments[j].end
      PROVE  j = i
  <2>1. ~(j < i)
    BY <1>1, <1>2, <1>3
  <2>2. ~(i < j)
    BY <1>1, <1>2, <1>3
  <2> QED  BY <1>1, <2>1, <2>2
<1>4. getseg(a) = {i}
  BY <1>1, <1>2, <1>3 DEF getseg, InSegment
<1> QED  BY <1>4 DEF SegmentAt

LEMMA FoundByStart ==
  ASSUME SegmentsInv, NEW i \in 1 .. Len(segments)
  PROVE  find_segment_index_by_start(segments[i].start) = i
<1>1. /\ Len(segments) \in Nat /\ DOMAIN segments = 1 .. Len(segments)
      /\ \A j \in 1 .. Len(segments) : segments[j].start \in Nat /\ segments[j].end \in Nat
      /\ \A j \in 1 .. Len(segments) : segments[j].start < segments[j].end
      /\ \A j, k \in 1 .. Len(segments) : j < k => segments[j].end <= segments[k].start
  BY SegmentsUnfold DEF Apart
<1>2. ASSUME NEW j \in 1 .. Len(segments), segments[j].start = segments[i].start
      PROVE  j = i
  <2>1. ~(j < i)
    BY <1>1, <1>2
  <2>2. ~(i < j)
    BY <1>1, <1>2
  <2> QED  BY <1>1, <2>1, <2>2
<1>3. {j \in DOMAIN segments : segments[j].start = segments[i].start} = {i}
  BY <1>1, <1>2
<1>4. (CHOOSE k \in {i} : \A j \in {i} : k <= j) = i
  OBVIOUS
<1> QED  BY <1>3, <1>4 DEF find_segment_index_by_start

LEMMA Navigates ==
  ASSUME SegmentsInv PROVE NavigationIsOrdered
<1> DEFINE n == Len(segments)
<1>1. /\ n \in Nat /\ DOMAIN segments = 1 .. n /\ segments \in Seq(Segment)
      /\ \A j \in 1 .. n : segments[j].start \in Nat /\ segments[j].end \in Nat
      /\ \A j \in 1 .. n : segments[j].start < segments[j].end
  BY SegmentsUnfold DEF Apart
<1>2. segments = << >> <=> n = 0
  BY <1>1, EmptySeq
<1>3. \A i \in 1 .. n : SegmentByIndex(i) = {PopulateSegment(segments[i])}
  BY <1>1 DEF SegmentByIndex
<1>4. SegmentByIndex(n + 1) = {}
  BY <1>1 DEF SegmentByIndex
<1>5. /\ FirstSegment = (IF segments = << >> THEN {} ELSE {PopulateSegment(segments[1])})
      /\ LastSegment = (IF segments = << >> THEN {} ELSE {PopulateSegment(segments[n])})
  <2>1. CASE n = 0
    BY <1>2, <2>1 DEF FirstSegment, LastSegment
  <2>2. CASE n # 0
    <3>1. 1 \in 1 .. n /\ n \in 1 .. n
      BY <1>1, <2>2
    <3>2. SegmentByIndex(1) = {PopulateSegment(segments[1])}
      BY <1>3, <3>1
    <3>3. SegmentByIndex(n) = {PopulateSegment(segments[n])}
      BY <1>3, <3>1
    <3> QED  BY <1>2, <2>2, <3>2, <3>3 DEF FirstSegment, LastSegment
  <2> QED  BY <2>1, <2>2
<1>6. ASSUME NEW i \in 1 .. n, NEW a \in segments[i].start .. segments[i].end - 1
      PROVE  /\ NextSegment(a) =
                  (IF i = n THEN {} ELSE {PopulateSegment(segments[i + 1])})
             /\ \A s \in NextSegment(a) : PrevSegment(s.start) = SegmentAt(a)
             /\ i = 1 => PrevSegment(a) = {}
  <2>1. getseg(a) = {i} /\ SegmentAt(a) = {PopulateSegment(segments[i])}
    BY OneSegmentAt
  <2>2. NextSegment(a) = SegmentByIndex(i + 1)
    BY <2>1, FoundByStart DEF NextSegment
  <2>3. NextSegment(a) = (IF i = n THEN {} ELSE {PopulateSegment(segments[i + 1])})
    <3>1. CASE i = n
      BY <1>4, <2>2, <3>1
    <3>2. CASE i # n
      <4>1. i + 1 \in 1 .. n
        <5>1. n \in Nat /\ i \in 1 .. n
          BY <1>1
        <5> HIDE DEF n
        <5> QED  BY <3>2, <5>1
      <4> QED  BY <1>3, <2>2, <3>2, <4>1
    <3> QED  BY <3>1, <3>2
  <2>4. i = 1 => PrevSegment(a) = {}
    BY <2>1, FoundByStart DEF PrevSegment
  <2>5. ASSUME NEW s \in NextSegment(a) PROVE PrevSegment(s.start) = SegmentAt(a)
    <3>0. i # n /\ s = PopulateSegment(segments[i + 1])
      BY <2>3, <2>5
    <3>1. i + 1 \in 1 .. n /\ s = PopulateSegment(segments[i + 1]) /\ s.start = segments[i + 1].start
      <4>1. i + 1 \in 1 .. n
        <5>1. n \in Nat /\ i \in 1 .. n
          BY <1>1
        <5> HIDE DEF n
        <5> QED  BY <3>0, <5>1
      <4> QED  BY <3>0, <4>1 DEF PopulateSegment
    <3>2. s.start \in segments[i + 1].start .. segments[i + 1].end - 1
      BY <1>1, <3>1
    <3>3. getseg(s.start) = {i + 1} /\ find_segment_index_by_start(segments[i + 1].start) = i + 1
      BY <3>1, <3>2, OneSegmentAt, FoundByStart
    <3>4. ~(i + 1 <= 1) /\ (i + 1) - 1 = i
      BY <1>1
    <3>5. PrevSegment(s.start) = SegmentByIndex(i)
      BY <3>3, <3>4 DEF PrevSegment
    <3> QED  BY <1>3, <2>1, <3>5
  <2> QED  BY <2>3, <2>4, <2>5
<1>7. ASSUME NEW name \in SegmentNames, NEW s \in SegmentByName(name) PROVE s.name = name
  <2> DEFINE named == {i \in DOMAIN segments : segments[i].name = name}
  <2>1. named # {} /\ s \in SegmentByIndex(CHOOSE i \in named : \A j \in named : i <= j)
    BY <1>7 DEF SegmentByName
  <2>2. named \subseteq Nat
    BY <1>1
  <2>3. \E i \in named : \A j \in named : i <= j
    BY <2>1, <2>2, MinInSet
  <2>4. (CHOOSE i \in named : \A j \in named : i <= j) \in named
    BY <2>3
  <2>5. PICK i \in named : s \in SegmentByIndex(i)
    BY <2>1, <2>4
  <2>6. s = PopulateSegment(segments[i])
    BY <1>1, <1>3, <2>5
  <2> QED  BY <2>6 DEF PopulateSegment
<1> QED  BY <1>1, <1>5, <1>6, <1>7 DEF NavigationIsOrdered

(* Whatever is created, removed, moved and resized, also by halves, a loop *)
(* over segments nobody changes is complete, and first, next, previous and *)
(* the names lead where they should.                                       *)
THEOREM SegmentsAreSound == SegmentsSpec => []SegmentsSound
<1>1. ASSUME SegmentsInv PROVE SegmentsSound
  <2>1. ASSUME segmentWalk.on, ~segmentWalk.changed
        PROVE  /\ segmentWalk.total = Len(segments)
               /\ \A i \in DOMAIN segmentWalk.seen :
                    Refreshed(segmentWalk.seen[i]) = {segmentWalk.seen[i]}
               /\ segmentWalk.seen = [i \in 1 .. segmentWalk.next |-> PopulateSegment(segments[i])]
    <3>1. /\ segmentWalk.total = Len(segments) /\ Len(segmentWalk.seen) = segmentWalk.next
          /\ \A i \in 1 .. segmentWalk.next : segmentWalk.seen[i] = PopulateSegment(segments[i])
      BY <1>1, <2>1 DEF SegmentsInv, LoopSawFirst
    <3>2. /\ segmentWalk.seen \in Seq(Object) /\ segmentWalk.next \in 0 .. Len(segments)
          /\ Len(segments) \in Nat
          /\ DOMAIN segmentWalk.seen = 1 .. segmentWalk.next
      BY <1>1, <2>1, <3>1, SegmentsUnfold, LenProperties DEF SegmentWalk
    <3>3. segmentWalk.seen = [i \in 1 .. segmentWalk.next |-> PopulateSegment(segments[i])]
      BY <3>1, <3>2
    <3>4. ASSUME NEW i \in 1 .. segmentWalk.next
          PROVE  Refreshed(segmentWalk.seen[i]) = {segmentWalk.seen[i]}
      <4>1. i \in 1 .. Len(segments) /\ segmentWalk.seen[i] = PopulateSegment(segments[i])
        BY <3>1, <3>2
      <4>2. /\ segmentWalk.seen[i].start = segments[i].start
            /\ segments[i].start \in segments[i].start .. segments[i].end - 1
        BY <1>1, <4>1, SegmentsUnfold DEF Apart, PopulateSegment
      <4> QED  BY <1>1, <4>1, <4>2, OneSegmentAt DEF Refreshed
    <3> QED  BY <3>1, <3>2, <3>3, <3>4
  <2>2. SegmentLoopIsComplete
    BY <2>1 DEF SegmentLoopIsComplete
  <2>3. NavigationIsOrdered
    BY <1>1, Navigates
  <2> QED  BY <1>1, <2>2, <2>3 DEF SegmentsSound, SegmentsInv
<1> QED  BY <1>1, SegmentsStart, SegmentsStep, PTL DEF SegmentsSpec

-----------------------------------------------------------------------------
(* The wildcard matcher.  A file name is taken literally: a star in one is *)
(* consumed by a star of the pattern like any other character.             *)
Literal(text) == \A i \in 1 .. Len(text) : text[i] # "*"
Comparable(text, pattern) ==
  /\ Len(text) \in Nat /\ Literal(text)
  /\ Len(pattern) \in Nat /\ DOMAIN pattern = 1 .. Len(pattern)

(* What is left of the text after t characters matches what is left of the *)
(* pattern after p.                                                        *)
Piece(text, pattern, k, from, to) ==
  IF pattern[k] = "*" THEN to >= from
  ELSE to = from + 1 /\ pattern[k] \in {"?", text[to]}

Rest(text, pattern, t, p) ==
  \E cut \in [p .. Len(pattern) -> 0 .. Len(text)] :
    /\ cut[p] = t /\ cut[Len(pattern)] = Len(text)
    /\ \A k \in p + 1 .. Len(pattern) : Piece(text, pattern, k, cut[k - 1], cut[k])

LEMMA MatchesIsRest ==
  ASSUME NEW text, NEW pattern, Comparable(text, pattern)
  PROVE  Matches(text, pattern) <=> Rest(text, pattern, 0, 0)
<1>1. DOMAIN pattern = 0 + 1 .. Len(pattern)
  BY DEF Comparable
<1> QED  BY <1>1 DEF Matches, Rest, Piece

LEMMA RestAtEnd ==
  ASSUME NEW text, NEW pattern, Comparable(text, pattern), NEW t \in 0 .. Len(text)
  PROVE  Rest(text, pattern, t, Len(pattern)) <=> t = Len(text)
<1> DEFINE P == Len(pattern)
<1>1. P \in Nat /\ Len(text) \in Nat
  BY DEF Comparable
<1>2. Rest(text, pattern, t, P) => t = Len(text)
  BY DEF Rest
<1>3. ASSUME t = Len(text) PROVE Rest(text, pattern, t, P)
  <2> DEFINE cut == [k \in P .. P |-> t]
  <2>1. cut \in [P .. P -> 0 .. Len(text)] /\ cut[P] = t
    BY <1>1
  <2>2. P + 1 .. P = {}
    BY <1>1
  <2> HIDE DEF cut
  <2> QED  BY <1>3, <2>1, <2>2 DEF Rest
<1> QED  BY <1>2, <1>3

LEMMA RestGoesOn ==
  ASSUME NEW text, NEW pattern, Comparable(text, pattern), NEW t \in 0 .. Len(text),
         NEW p \in 0 .. Len(pattern) - 1
  PROVE  Rest(text, pattern, t, p)
           <=> \E u \in 0 .. Len(text) :
                 Piece(text, pattern, p + 1, t, u) /\ Rest(text, pattern, u, p + 1)
<1> DEFINE P == Len(pattern)
           N == Len(text)
<1>1. P \in Nat /\ N \in Nat /\ p \in Nat /\ p + 1 <= P
  BY DEF Comparable
<1>2. ASSUME Rest(text, pattern, t, p)
      PROVE  \E u \in 0 .. N : Piece(text, pattern, p + 1, t, u) /\ Rest(text, pattern, u, p + 1)
  <2>1. PICK cut \in [p .. P -> 0 .. N] :
          /\ cut[p] = t /\ cut[P] = N
          /\ \A k \in p + 1 .. P : Piece(text, pattern, k, cut[k - 1], cut[k])
    BY <1>2 DEF Rest
  <2> DEFINE tail == [k \in p + 1 .. P |-> cut[k]]
  <2>2. /\ tail \in [p + 1 .. P -> 0 .. N]
        /\ \A k \in p + 1 .. P : tail[k] = cut[k]
    BY <1>1
  <2> HIDE DEF tail, P, N
  <2>3. tail[P] = N /\ tail[p + 1] \in 0 .. N /\ tail[p + 1] = cut[p + 1]
    BY <1>1, <2>1, <2>2
  <2>4. \A k \in p + 2 .. P : Piece(text, pattern, k, tail[k - 1], tail[k])
    <3>1. \A k \in p + 2 .. P : k \in p + 1 .. P /\ k - 1 \in p + 1 .. P
      BY <1>1
    <3> QED  BY <2>1, <2>2, <3>1
  <2>5. Piece(text, pattern, p + 1, t, tail[p + 1])
    <3>1. p + 1 \in p + 1 .. P /\ (p + 1) - 1 = p
      BY <1>1
    <3> QED  BY <2>1, <2>3, <3>1
  <2>6. (p + 1) + 1 = p + 2
    BY <1>1
  <2>7. Rest(text, pattern, tail[p + 1], p + 1)
    BY <2>2, <2>3, <2>4, <2>6 DEF Rest, P, N
  <2> QED  BY <2>3, <2>5, <2>7
<1>3. ASSUME NEW u \in 0 .. N, Piece(text, pattern, p + 1, t, u), Rest(text, pattern, u, p + 1)
      PROVE  Rest(text, pattern, t, p)
  <2>1. PICK cut \in [p + 1 .. P -> 0 .. N] :
          /\ cut[p + 1] = u /\ cut[P] = N
          /\ \A k \in (p + 1) + 1 .. P : Piece(text, pattern, k, cut[k - 1], cut[k])
    BY <1>3 DEF Rest
  <2> DEFINE all == [k \in p .. P |-> IF k = p THEN t ELSE cut[k]]
  <2>2. /\ all \in [p .. P -> 0 .. N] /\ all[p] = t
        /\ \A k \in p + 1 .. P : all[k] = cut[k]
    BY <1>1
  <2> HIDE DEF all, P, N
  <2>3. all[P] = N
    BY <1>1, <2>1, <2>2
  <2>4. ASSUME NEW k \in p + 1 .. P PROVE Piece(text, pattern, k, all[k - 1], all[k])
    <3>1. CASE k = p + 1
      <4>1. k - 1 = p /\ k \in p + 1 .. P
        BY <1>1, <3>1
      <4>2. all[k] = u
        BY <2>1, <2>2, <3>1, <4>1
      <4> QED  BY <1>3, <2>2, <3>1, <4>1, <4>2
    <3>2. CASE k # p + 1
      <4>1. k \in (p + 1) + 1 .. P /\ k - 1 \in p + 1 .. P
        BY <1>1, <3>2
      <4> QED  BY <2>1, <2>2, <4>1
    <3> QED  BY <3>1, <3>2
  <2> QED  BY <2>2, <2>3, <2>4 DEF Rest, P, N
<1> QED  BY <1>2, <1>3

(* What a character and a star of the pattern make of it. *)
LEMMA RestAtChar ==
  ASSUME NEW text, NEW pattern, Comparable(text, pattern), NEW t \in 0 .. Len(text),
         NEW p \in 0 .. Len(pattern) - 1, pattern[p + 1] # "*"
  PROVE  Rest(text, pattern, t, p)
           <=> /\ t < Len(text) /\ pattern[p + 1] \in {"?", text[t + 1]}
               /\ Rest(text, pattern, t + 1, p + 1)
<1>1. Len(text) \in Nat
  BY DEF Comparable
<1>2. \A u \in 0 .. Len(text) :
        Piece(text, pattern, p + 1, t, u) <=> u = t + 1 /\ pattern[p + 1] \in {"?", text[u]}
  BY DEF Piece
<1>3. t + 1 \in 0 .. Len(text) <=> t < Len(text)
  BY <1>1
<1> QED  BY <1>2, <1>3, RestGoesOn

LEMMA RestAtStar ==
  ASSUME NEW text, NEW pattern, Comparable(text, pattern), NEW t \in 0 .. Len(text),
         NEW p \in 0 .. Len(pattern) - 1, pattern[p + 1] = "*"
  PROVE  Rest(text, pattern, t, p) <=> \E u \in t .. Len(text) : Rest(text, pattern, u, p + 1)
<1>1. Len(text) \in Nat
  BY DEF Comparable
<1>2. \A u \in 0 .. Len(text) : Piece(text, pattern, p + 1, t, u) <=> u \in t .. Len(text)
  BY <1>1 DEF Piece
<1>3. t .. Len(text) \subseteq 0 .. Len(text)
  BY <1>1
<1> QED  BY <1>2, <1>3, RestGoesOn

(* At the end of the text only stars may follow. *)
LEMMA RestOfStars ==
  ASSUME NEW text, NEW pattern, Comparable(text, pattern), NEW p \in 0 .. Len(pattern)
  PROVE  Rest(text, pattern, Len(text), p) <=> \A k \in p + 1 .. Len(pattern) : pattern[k] = "*"
<1> DEFINE P == Len(pattern)
           N == Len(text)
           Stars(q) == \A k \in q + 1 .. P : pattern[k] = "*"
           Good(q) == Rest(text, pattern, N, q) <=> Stars(q)
           S == {d \in Nat : d <= P => Good(P - d)}
<1>1. P \in Nat /\ N \in Nat /\ N \in 0 .. N
  BY DEF Comparable
<1>2. 0 \in S
  <2>1. Rest(text, pattern, N, P)
    BY <1>1, RestAtEnd
  <2>2. Stars(P)
    BY <1>1
  <2>3. P - 0 = P
    BY <1>1
  <2> HIDE DEF P, N, Stars
  <2> QED  BY <2>1, <2>2, <2>3
<1>3. ASSUME NEW d \in Nat, d \in S PROVE d + 1 \in S
  <2> SUFFICES ASSUME d + 1 <= P PROVE Good(P - (d + 1))
    OBVIOUS
  <2> DEFINE q == P - (d + 1)
  <2>1. q \in 0 .. P - 1 /\ q + 1 = P - d /\ d <= P
    BY <1>1
  <2>2. Good(q + 1)
    BY <1>3, <2>1
  <2> HIDE DEF q
  <2>3. Stars(q) <=> pattern[q + 1] = "*" /\ Stars(q + 1)
    <3>1. \A k \in q + 1 .. P : k = q + 1 \/ k \in (q + 1) + 1 .. P
      BY <1>1, <2>1
    <3>2. q + 1 \in q + 1 .. P /\ (q + 1) + 1 .. P \subseteq q + 1 .. P
      BY <1>1, <2>1
    <3> HIDE DEF P
    <3> QED  BY <3>1, <3>2
  <2>4. CASE pattern[q + 1] = "*"
    <3>1. N .. N = {N}
      BY <1>1
    <3>2. Rest(text, pattern, N, q) <=> Rest(text, pattern, N, q + 1)
      BY <1>1, <2>1, <2>4, <3>1, RestAtStar
    <3> HIDE DEF Stars, P, N
    <3> QED  BY <2>2, <2>3, <2>4, <3>2 DEF q
  <2>5. CASE pattern[q + 1] # "*"
    <3>1. ~Rest(text, pattern, N, q)
      BY <1>1, <2>1, <2>5, RestAtChar
    <3> HIDE DEF Stars, P, N
    <3> QED  BY <2>3, <2>5, <3>1 DEF q
  <2> QED  BY <2>4, <2>5
<1>4. Nat \subseteq S
  <2> HIDE DEF S
  <2> QED  BY <1>2, <1>3, SetInduction
<1>5. P - p \in Nat /\ P - p <= P /\ P - (P - p) = p
  BY <1>1
<1>6. Good(p)
  BY <1>4, <1>5
<1> QED  BY <1>6

(* A piece of the pattern without stars takes as many characters. *)
LEMMA RestBehind ==
  ASSUME NEW text, NEW pattern, Comparable(text, pattern), NEW a \in 0 .. Len(text),
         NEW p \in 0 .. Len(pattern), NEW q \in p .. Len(pattern),
         \A k \in p + 1 .. q : pattern[k] # "*", Rest(text, pattern, a, p)
  PROVE  a + (q - p) <= Len(text) /\ Rest(text, pattern, a + (q - p), q)
<1> DEFINE P == Len(pattern)
           N == Len(text)
           Good(n) == a + n <= N /\ Rest(text, pattern, a + n, p + n)
           S == {n \in Nat : p + n <= q => Good(n)}
<1>1. P \in Nat /\ N \in Nat /\ p \in Nat /\ q \in Nat /\ a \in Nat /\ a <= N /\ q <= P
  BY DEF Comparable
<1>2. 0 \in S
  <2>1. a + 0 = a /\ p + 0 = p
    BY <1>1
  <2> HIDE DEF P, N
  <2> QED  BY <1>1, <2>1
<1>3. ASSUME NEW n \in Nat, n \in S PROVE n + 1 \in S
  <2> SUFFICES ASSUME p + (n + 1) <= q PROVE Good(n + 1)
    OBVIOUS
  <2>1. Good(n)
    BY <1>1, <1>3
  <2>2. /\ p + n \in 0 .. P - 1 /\ a + n \in 0 .. N /\ (p + n) + 1 \in p + 1 .. q
        /\ (p + n) + 1 = p + (n + 1) /\ (a + n) + 1 = a + (n + 1)
    BY <1>1, <2>1
  <2>3. pattern[(p + n) + 1] # "*"
    BY <2>2
  <2>4. a + n < N /\ Rest(text, pattern, (a + n) + 1, (p + n) + 1)
    BY <2>1, <2>2, <2>3, RestAtChar
  <2>5. a + (n + 1) <= N
    BY <1>1, <2>4
  <2> HIDE DEF P, N
  <2> QED  BY <2>2, <2>4, <2>5
<1>4. Nat \subseteq S
  <2> HIDE DEF S
  <2> QED  BY <1>2, <1>3, SetInduction
<1>5. q - p \in Nat /\ p + (q - p) = q
  BY <1>1
<1>6. Good(q - p)
  <2> HIDE DEF Good
  <2> QED  BY <1>1, <1>4, <1>5
<1> QED  BY <1>5, <1>6

(* The matcher.  Between its last star and where it stands the pattern has *)
(* no star and the text as many characters; the text matches if what is    *)
(* left does, or if it does after the last star from a later character on. *)
Later(text, pattern, m) ==
  /\ m.star_index >= 0
  /\ \E a \in m.match_after_star + 1 .. Len(text) : Rest(text, pattern, a, m.star_index + 1)

MatchTyped(text, pattern, m) ==
  m \in [text_index : 0 .. Len(text), pattern_index : 0 .. Len(pattern),
         star_index : -1 .. Len(pattern) - 1, match_after_star : 0 .. Len(text),
         failed : BOOLEAN]

MatchInv(text, pattern, m) ==
  /\ MatchTyped(text, pattern, m)
  /\ m.star_index + 1 <= m.pattern_index
  /\ m.text_index - m.match_after_star = m.pattern_index - (m.star_index + 1)
  /\ \A k \in m.star_index + 2 .. m.pattern_index : pattern[k] # "*"
  /\ Matches(text, pattern) <=>
       /\ ~m.failed
       /\ Rest(text, pattern, m.text_index, m.pattern_index) \/ Later(text, pattern, m)

LEMMA MatchStarts ==
  ASSUME NEW text, NEW pattern, Comparable(text, pattern)
  PROVE  MatchInv(text, pattern, MatchStart)
<1>1. Len(text) \in Nat /\ Len(pattern) \in Nat
  BY DEF Comparable
<1>2. MatchTyped(text, pattern, MatchStart)
  BY <1>1 DEF MatchTyped, MatchStart
<1>3. /\ MatchStart.text_index = 0 /\ MatchStart.pattern_index = 0
      /\ MatchStart.star_index = -1 /\ MatchStart.match_after_star = 0 /\ ~MatchStart.failed
  BY DEF MatchStart
<1>4. ~Later(text, pattern, MatchStart)
  BY <1>3 DEF Later
<1>5. \A k \in -1 + 2 .. 0 : pattern[k] # "*"
  OBVIOUS
<1>6. Matches(text, pattern) <=> Rest(text, pattern, 0, 0)
  BY MatchesIsRest
<1> QED  BY <1>2, <1>3, <1>4, <1>5, <1>6 DEF MatchInv

(* A later start after the last star leads over the same piece of pattern. *)
LEMMA LaterIsBehind ==
  ASSUME NEW text, NEW pattern, Comparable(text, pattern), NEW m,
         MatchInv(text, pattern, m), Later(text, pattern, m)
  PROVE  \E a \in m.text_index + 1 .. Len(text) : Rest(text, pattern, a, m.pattern_index)
<1> DEFINE N == Len(text)
           P == Len(pattern)
           q == m.pattern_index
           p == m.star_index + 1
<1>1. /\ N \in Nat /\ P \in Nat /\ m.text_index \in Nat /\ m.match_after_star \in Nat
      /\ p \in 0 .. P /\ q \in p .. P /\ m.text_index - m.match_after_star = q - p
      /\ p + 1 = m.star_index + 2
  BY DEF MatchInv, MatchTyped, Comparable
<1>2. \A k \in p + 1 .. q : pattern[k] # "*"
  BY <1>1 DEF MatchInv
<1>3. PICK a \in m.match_after_star + 1 .. N : Rest(text, pattern, a, p)
  BY DEF Later
<1>4. a \in 0 .. N
  BY <1>1, <1>3
<1> HIDE DEF N, P, p, q
<1>5. a + (q - p) <= N /\ Rest(text, pattern, a + (q - p), q)
  BY <1>1, <1>2, <1>3, <1>4, RestBehind DEF N, P
<1>6. a + (q - p) \in m.text_index + 1 .. N
  BY <1>1, <1>3, <1>4, <1>5
<1> QED  BY <1>5, <1>6 DEF N, q

MatchEnded(text, m) == m.failed \/ m.text_index = Len(text)

LEMMA MatchKeeps ==
  ASSUME NEW text, NEW pattern, Comparable(text, pattern), NEW m, MatchInv(text, pattern, m)
  PROVE  MatchInv(text, pattern, MatchTurn(text, pattern, m))
<1> DEFINE N == Len(text)
           P == Len(pattern)
           t == m.text_index
           p == m.pattern_index
           star == m.star_index
           after == m.match_after_star
           r == MatchTurn(text, pattern, m)
<1>1. /\ N \in Nat /\ P \in Nat /\ t \in 0 .. N /\ p \in 0 .. P /\ star \in -1 .. P - 1
      /\ after \in 0 .. N /\ m.failed \in BOOLEAN
      /\ star + 1 <= p /\ t - after = p - (star + 1)
      /\ m = [text_index |-> t, pattern_index |-> p, star_index |-> star,
              match_after_star |-> after, failed |-> m.failed]
  BY DEF MatchInv, MatchTyped, Comparable
<1>2. \A k \in star + 2 .. p : pattern[k] # "*"
  BY DEF MatchInv
<1>3. Matches(text, pattern) <=>
        ~m.failed /\ (Rest(text, pattern, t, p) \/ Later(text, pattern, m))
  BY DEF MatchInv
<1>4. \A i \in 1 .. N : text[i] # "*"
  BY DEF Comparable, Literal
<1>5. CASE MatchEnded(text, m)
  BY <1>5 DEF MatchTurn, MatchEnded
<1>6. CASE ~MatchEnded(text, m) /\ p < P /\ pattern[p + 1] \in {"?", text[t + 1]}
  <2>1. ~m.failed /\ t < N /\ t + 1 \in 1 .. N
    BY <1>1, <1>6 DEF MatchEnded
  <2>2. r = [m EXCEPT !.text_index = @ + 1, !.pattern_index = @ + 1]
    BY <1>6 DEF MatchTurn, MatchEnded
  <2>3. r = [text_index |-> t + 1, pattern_index |-> p + 1, star_index |-> star,
             match_after_star |-> after, failed |-> FALSE]
    BY <1>1, <2>1, <2>2
  <2>4. pattern[p + 1] # "*"
    BY <1>4, <1>6, <2>1
  <2>5. p \in 0 .. P - 1
    BY <1>1, <1>6
  <2>6. Rest(text, pattern, t, p) <=> Rest(text, pattern, t + 1, p + 1)
    BY <1>1, <1>6, <2>1, <2>4, <2>5, RestAtChar
  <2>7. /\ r.text_index = t + 1 /\ r.pattern_index = p + 1 /\ r.star_index = star
        /\ r.match_after_star = after /\ ~r.failed
    BY <2>3
  <2>8. Later(text, pattern, r) <=> Later(text, pattern, m)
    BY <2>7 DEF Later
  <2>9. MatchTyped(text, pattern, r)
    BY <1>1, <1>6, <2>1, <2>3 DEF MatchTyped
  <2> HIDE DEF r, N, P
  <2>10. \A k \in star + 2 .. p + 1 : k \in star + 2 .. p \/ k = p + 1
    BY <1>1
  <2>11. star + 1 <= p + 1 /\ (t + 1) - after = (p + 1) - (star + 1)
    BY <1>1
  <2>12. Matches(text, pattern) <=>
           ~r.failed /\ (Rest(text, pattern, t + 1, p + 1) \/ Later(text, pattern, r))
    BY <1>3, <2>1, <2>6, <2>7, <2>8
  <2>13. \A k \in star + 2 .. p + 1 : pattern[k] # "*"
    BY <1>2, <2>4, <2>10
  <2> HIDE DEF t, p, star, after
  <2>20. MatchInv(text, pattern, r)
    BY <2>7, <2>9, <2>11, <2>12, <2>13 DEF MatchInv
  <2> QED  BY <2>20 DEF r
<1>7. CASE ~MatchEnded(text, m) /\ p < P /\ pattern[p + 1] = "*"
  <2>1. ~m.failed /\ t < N /\ t + 1 \in 1 .. N /\ p \in 0 .. P - 1
    BY <1>1, <1>7 DEF MatchEnded
  <2>2. pattern[p + 1] \notin {"?", text[t + 1]}
    BY <1>4, <1>7, <2>1
  <2>3. r = [m EXCEPT !.pattern_index = @ + 1, !.star_index = p, !.match_after_star = t]
    BY <1>7, <2>2 DEF MatchTurn, MatchEnded
  <2>4. r = [text_index |-> t, pattern_index |-> p + 1, star_index |-> p,
             match_after_star |-> t, failed |-> FALSE]
    BY <1>1, <2>1, <2>3
  <2>5. /\ r.text_index = t /\ r.pattern_index = p + 1 /\ r.star_index = p
        /\ r.match_after_star = t /\ ~r.failed
    BY <2>4
  <2>6. MatchTyped(text, pattern, r)
    BY <1>1, <2>1, <2>4 DEF MatchTyped
  <2> HIDE DEF r
  <2>7. Rest(text, pattern, t, p) <=> \E u \in t .. N : Rest(text, pattern, u, p + 1)
    BY <1>1, <1>7, <2>1, RestAtStar
  <2>8. Later(text, pattern, m) => Rest(text, pattern, t, p)
    <3> SUFFICES ASSUME Later(text, pattern, m) PROVE Rest(text, pattern, t, p)
      OBVIOUS
    <3>1. PICK a \in t + 1 .. N : Rest(text, pattern, a, p)
      BY LaterIsBehind
    <3>2. a \in 0 .. N
      BY <1>1, <3>1
    <3>3. PICK u \in a .. N : Rest(text, pattern, u, p + 1)
      BY <1>7, <2>1, <3>1, <3>2, RestAtStar
    <3>4. u \in t .. N
      BY <1>1, <3>1, <3>3
    <3> QED  BY <2>7, <3>3, <3>4
  <2> HIDE DEF N, P
  <2>9. Later(text, pattern, r) <=> \E u \in t + 1 .. N : Rest(text, pattern, u, p + 1)
    BY <2>1, <2>5 DEF Later, N
  <2>10. Rest(text, pattern, t, p) <=> Rest(text, pattern, t, p + 1) \/ Later(text, pattern, r)
    <3>1. \A u \in t .. N : u = t \/ u \in t + 1 .. N
      BY <1>1
    <3>2. t \in t .. N /\ t + 1 .. N \subseteq t .. N
      BY <1>1
    <3> HIDE DEF t, p
    <3> QED  BY <2>7, <2>9, <3>1, <3>2
  <2>11. p + 2 .. p + 1 = {} /\ p + 1 <= p + 1 /\ t - t = (p + 1) - (p + 1)
    BY <1>1
  <2>12. Matches(text, pattern) <=>
           ~r.failed /\ (Rest(text, pattern, t, p + 1) \/ Later(text, pattern, r))
    BY <1>3, <2>1, <2>5, <2>8, <2>10
  <2> HIDE DEF t, p, star, after
  <2>20. MatchInv(text, pattern, r)
    BY <2>5, <2>6, <2>11, <2>12 DEF MatchInv
  <2> QED  BY <2>20 DEF r
<1>8. CASE /\ ~MatchEnded(text, m)
           /\ ~(p < P /\ pattern[p + 1] \in {"?", text[t + 1]})
           /\ ~(p < P /\ pattern[p + 1] = "*")
  <2>1. ~m.failed /\ t < N
    BY <1>1, <1>8 DEF MatchEnded
  <2>2. r = TryAgain(m)
    BY <1>8 DEF MatchTurn, MatchEnded
  <2>3. ~Rest(text, pattern, t, p)
    <3>1. CASE p = P
      BY <1>1, <2>1, <3>1, RestAtEnd
    <3>2. CASE p # P
      <4>1. p \in 0 .. P - 1 /\ p < P
        BY <1>1, <3>2
      <4> QED  BY <1>1, <1>8, <4>1, RestAtChar
    <3> QED  BY <3>1, <3>2
  <2>4. Matches(text, pattern) <=> Later(text, pattern, m)
    BY <1>3, <2>1, <2>3
  <2>5. CASE star < 0
    <3>1. r = [m EXCEPT !.failed = TRUE]
      BY <2>2, <2>5 DEF TryAgain
    <3>2. /\ r.text_index = t /\ r.pattern_index = p /\ r.star_index = star
          /\ r.match_after_star = after /\ r.failed /\ MatchTyped(text, pattern, r)
      BY <1>1, <3>1 DEF MatchTyped
    <3>3. ~Later(text, pattern, m)
      BY <1>1, <2>5 DEF Later
    <3> HIDE DEF r
    <3>4. Matches(text, pattern) <=>
            ~r.failed /\ (Rest(text, pattern, t, p) \/ Later(text, pattern, r))
      BY <2>4, <3>2, <3>3
    <3>5. star + 1 <= p /\ t - after = p - (star + 1)
      BY <1>1
    <3> HIDE DEF t, p, star, after, N, P
    <3>20. MatchInv(text, pattern, r)
      BY <1>2, <3>2, <3>4, <3>5 DEF MatchInv
    <3> QED  BY <3>20 DEF r
  <2>6. CASE star >= 0
    <3>1. r = [m EXCEPT !.pattern_index = star + 1, !.text_index = after + 1,
                        !.match_after_star = @ + 1]
      BY <1>1, <2>2, <2>6 DEF TryAgain
    <3>2. /\ r = [text_index |-> after + 1, pattern_index |-> star + 1, star_index |-> star,
                  match_after_star |-> after + 1, failed |-> FALSE]
      BY <1>1, <2>1, <3>1
    <3>3. after + 1 \in 0 .. N /\ star + 1 \in 0 .. P
      BY <1>1, <2>1
    <3>4. /\ r.text_index = after + 1 /\ r.pattern_index = star + 1 /\ r.star_index = star
          /\ r.match_after_star = after + 1 /\ ~r.failed /\ MatchTyped(text, pattern, r)
      BY <1>1, <3>2, <3>3 DEF MatchTyped
    <3> HIDE DEF r
    <3>5. Later(text, pattern, m) <=> \E a \in after + 1 .. N : Rest(text, pattern, a, star + 1)
      BY <2>6 DEF Later
    <3>6. Later(text, pattern, r)
            <=> \E a \in (after + 1) + 1 .. N : Rest(text, pattern, a, star + 1)
      BY <2>6, <3>4 DEF Later
    <3> HIDE DEF N, P
    <3>7. Later(text, pattern, m)
            <=> Rest(text, pattern, after + 1, star + 1) \/ Later(text, pattern, r)
      <4>1. \A a \in after + 1 .. N : a = after + 1 \/ a \in (after + 1) + 1 .. N
        BY <1>1, <3>3
      <4>2. after + 1 \in after + 1 .. N /\ (after + 1) + 1 .. N \subseteq after + 1 .. N
        BY <1>1, <3>3
      <4> HIDE DEF after, star
      <4> QED  BY <3>5, <3>6, <4>1, <4>2
    <3>8. /\ star + 2 .. star + 1 = {} /\ star + 1 <= star + 1
          /\ (after + 1) - (after + 1) = (star + 1) - (star + 1)
      BY <1>1
    <3>9. Matches(text, pattern) <=>
            ~r.failed /\ (Rest(text, pattern, after + 1, star + 1) \/ Later(text, pattern, r))
      BY <2>4, <3>4, <3>7
    <3> HIDE DEF t, p, star, after
    <3>20. MatchInv(text, pattern, r)
      BY <3>4, <3>8, <3>9 DEF MatchInv
    <3> QED  BY <3>20 DEF r
  <2> QED  BY <1>1, <2>5, <2>6
<1> HIDE DEF r
<1> QED  BY <1>5, <1>6, <1>7, <1>8

(* Every turn gets on. *)
Progress(text, m) ==
  (m.star_index + m.match_after_star) * (Len(text) + 2) + (m.text_index - m.match_after_star)

LEMMA FurtherFirst ==
  ASSUME NEW c \in Nat, NEW x \in Int, NEW y \in Int, x + 1 <= y,
         NEW k \in 0 .. c, NEW l \in Nat
  PROVE  x * (c + 2) + k + 1 <= y * (c + 2) + l
<1>1. \A i \in Nat : (x + i) * (c + 2) = x * (c + 2) + i * (c + 2)
  OBVIOUS
<1>2. \A i \in Nat \ {0} : i * (c + 2) >= c + 2
  <2> SUFFICES ASSUME NEW i \in Nat \ {0} PROVE i * (c + 2) >= c + 2
    OBVIOUS
  <2>1. i * (c + 2) = (i - 1) * (c + 2) + (c + 2) /\ i - 1 \in Nat
    OBVIOUS
  <2>2. \A j \in Nat : j * (c + 2) \in Nat
    OBVIOUS
  <2> QED  BY <2>1, <2>2
<1>3. y - x \in Nat \ {0} /\ x + (y - x) = y
  OBVIOUS
<1>4. x * (c + 2) \in Int /\ y * (c + 2) \in Int /\ (y - x) * (c + 2) \in Int
  OBVIOUS
<1>5. y * (c + 2) = x * (c + 2) + (y - x) * (c + 2)
  BY <1>1, <1>3
<1>6. (y - x) * (c + 2) >= c + 2
  BY <1>2, <1>3
<1> DEFINE X == x * (c + 2)
           Y == y * (c + 2)
           D == (y - x) * (c + 2)
<1>7. X \in Int /\ Y \in Int /\ D \in Int /\ Y = X + D /\ D >= c + 2
  BY <1>4, <1>5, <1>6
<1> HIDE DEF X, Y, D
<1>8. X + k + 1 <= Y + l
  BY <1>7
<1> QED  BY <1>8 DEF X, Y

LEMMA ProgressBound ==
  ASSUME NEW text, NEW pattern, Comparable(text, pattern), NEW m, MatchInv(text, pattern, m)
  PROVE  Progress(text, m) \in Int
         /\ Progress(text, m) + (Len(text) + 2) < MatchTurns(text, pattern)
<1> DEFINE N == Len(text)
           P == Len(pattern)
           x == m.star_index + m.match_after_star
           k == m.text_index - m.match_after_star
<1>1. N \in Nat /\ P \in Nat /\ x \in Int /\ x + 1 <= N + P /\ k \in 0 .. N
  BY DEF Comparable, MatchInv, MatchTyped
<1>2. Progress(text, m) = x * (N + 2) + k
  BY DEF Progress
<1>3. MatchTurns(text, pattern) = (N + P + 1) * (N + 2)
  BY DEF MatchTurns
<1> HIDE DEF N, P, x, k
<1>4. (N + P + 1) * (N + 2) = (N + P) * (N + 2) + (N + 2)
  BY <1>1
<1>5. x * (N + 2) + k + 1 <= (N + P) * (N + 2) + 0
  <2>1. N + P \in Int
    BY <1>1
  <2> QED  BY <1>1, <2>1, FurtherFirst
<1>6. x * (N + 2) \in Int /\ (N + P) * (N + 2) \in Int
  BY <1>1
<1> DEFINE X == x * (N + 2)
           Y == (N + P) * (N + 2)
<1>7. X \in Int /\ Y \in Int /\ X + k + 1 <= Y
  BY <1>5, <1>6
<1> HIDE DEF X, Y
<1>8. X + k \in Int /\ (X + k) + (N + 2) < Y + (N + 2)
  BY <1>1, <1>7
<1> QED  BY <1>2, <1>3, <1>4, <1>8 DEF X, Y, N

LEMMA TurnGetsOn ==
  ASSUME NEW text, NEW pattern, Comparable(text, pattern), NEW m, MatchInv(text, pattern, m),
         ~MatchEnded(text, MatchTurn(text, pattern, m))
  PROVE  /\ ~MatchEnded(text, m)
         /\ Progress(text, MatchTurn(text, pattern, m)) >= Progress(text, m) + 1
<1> DEFINE N == Len(text)
           r == MatchTurn(text, pattern, m)
           t == m.text_index
           p == m.pattern_index
           star == m.star_index
           after == m.match_after_star
           more == p < Len(pattern)
<1>1. /\ N \in Nat /\ t \in 0 .. N /\ p \in Nat /\ star \in Int /\ star >= -1
      /\ after \in 0 .. N /\ star + 1 <= p /\ t - after = p - (star + 1) /\ t - after \in 0 .. N
      /\ m = [text_index |-> t, pattern_index |-> p, star_index |-> star,
              match_after_star |-> after, failed |-> m.failed]
  BY DEF MatchInv, MatchTyped, Comparable
<1>2. ~MatchEnded(text, m)
  BY DEF MatchTurn, MatchEnded
<1>3. CASE more /\ pattern[p + 1] \in {"?", text[t + 1]}
  <2>1. r = [m EXCEPT !.text_index = @ + 1, !.pattern_index = @ + 1]
    BY <1>2, <1>3 DEF MatchTurn, MatchEnded
  <2>2. r.text_index = t + 1 /\ r.star_index = star /\ r.match_after_star = after
    BY <1>1, <2>1
  <2>3. Progress(text, r) = (star + after) * (N + 2) + ((t + 1) - after)
    BY <2>2 DEF Progress
  <2>4. Progress(text, m) = (star + after) * (N + 2) + (t - after)
    BY DEF Progress
  <2>5. (star + after) * (N + 2) \in Int
    BY <1>1
  <2> DEFINE X == (star + after) * (N + 2)
  <2> HIDE DEF r, N, X, t, after
  <2>6. X + ((t + 1) - after) >= X + (t - after) + 1
    BY <1>1, <2>5 DEF X
  <2> QED  BY <1>2, <2>3, <2>4, <2>6 DEF X, r
<1>4. CASE ~(more /\ pattern[p + 1] \in {"?", text[t + 1]}) /\ more /\ pattern[p + 1] = "*"
  <2>1. r = [m EXCEPT !.pattern_index = @ + 1, !.star_index = p, !.match_after_star = t]
    BY <1>2, <1>4 DEF MatchTurn, MatchEnded
  <2>2. r.text_index = t /\ r.star_index = p /\ r.match_after_star = t
    BY <1>1, <2>1
  <2>3. Progress(text, r) = (p + t) * (N + 2) + 0
    BY <1>1, <2>2 DEF Progress
  <2>4. Progress(text, m) = (star + after) * (N + 2) + (t - after)
    BY DEF Progress
  <2>5. (star + after) + 1 <= p + t /\ star + after \in Int /\ p + t \in Int
    BY <1>1
  <2> HIDE DEF r, N, t, after, star, p
  <2>6. (star + after) * (N + 2) + (t - after) + 1 <= (p + t) * (N + 2) + 0
    BY <1>1, <2>5, FurtherFirst
  <2>7. (star + after) * (N + 2) + (t - after) \in Int /\ (p + t) * (N + 2) + 0 \in Int
    BY <1>1, <2>5
  <2> QED  BY <1>2, <2>3, <2>4, <2>6, <2>7 DEF r
<1>5. CASE ~(more /\ pattern[p + 1] \in {"?", text[t + 1]}) /\ ~(more /\ pattern[p + 1] = "*")
  <2>1. r = TryAgain(m)
    BY <1>2, <1>5 DEF MatchTurn, MatchEnded
  <2>2. ~(star < 0)
    BY <2>1, <1>1 DEF TryAgain, MatchEnded
  <2>3. r = [m EXCEPT !.pattern_index = star + 1, !.text_index = after + 1,
                      !.match_after_star = @ + 1]
    BY <2>1, <2>2 DEF TryAgain
  <2>4. r.text_index = after + 1 /\ r.star_index = star /\ r.match_after_star = after + 1
    BY <1>1, <2>3
  <2>5. Progress(text, r) = (star + (after + 1)) * (N + 2) + 0
    BY <1>1, <2>4 DEF Progress
  <2>6. Progress(text, m) = (star + after) * (N + 2) + (t - after)
    BY DEF Progress
  <2>7. (star + after) + 1 <= star + (after + 1) /\ star + after \in Int /\ star + (after + 1) \in Int
    BY <1>1
  <2> HIDE DEF r, N, t, after, star, p
  <2>8. (star + after) * (N + 2) + (t - after) + 1 <= (star + (after + 1)) * (N + 2) + 0
    BY <1>1, <2>7, FurtherFirst
  <2>9. (star + after) * (N + 2) + (t - after) \in Int /\ (star + (after + 1)) * (N + 2) + 0 \in Int
    BY <1>1, <2>7
  <2> QED  BY <1>2, <2>5, <2>6, <2>8, <2>9 DEF r
<1> QED  BY <1>3, <1>4, <1>5

(* The loop, turn by turn. *)
TurnOf(text, pattern, turn, i) ==
  turn[i] = IF i = 0 THEN MatchStart ELSE MatchTurn(text, pattern, turn[i - 1])

LEMMA TurnsExist ==
  ASSUME NEW text, NEW pattern, NEW n \in Nat
  PROVE  \E turn : \A i \in 0 .. n : TurnOf(text, pattern, turn, i)
<1> DEFINE Exists(m) == \E turn : \A i \in 0 .. m : TurnOf(text, pattern, turn, i)
           S == {m \in Nat : Exists(m)}
<1>1. 0 \in S
  <2> DEFINE none == [i \in {0} |-> MatchStart]
  <2>1. none[0] = MatchStart
    OBVIOUS
  <2> HIDE DEF none
  <2>2. \A i \in 0 .. 0 : TurnOf(text, pattern, none, i)
    BY <2>1 DEF TurnOf
  <2> QED  BY <2>2
<1>2. ASSUME NEW m \in Nat, m \in S PROVE m + 1 \in S
  <2>1. PICK turn : \A i \in 0 .. m : TurnOf(text, pattern, turn, i)
    BY <1>2
  <2> DEFINE next == MatchTurn(text, pattern, turn[m])
             longer == [i \in 0 .. m + 1 |-> IF i = m + 1 THEN next ELSE turn[i]]
  <2>2. longer[m + 1] = next /\ \A i \in 0 .. m : longer[i] = turn[i]
    OBVIOUS
  <2> HIDE DEF longer
  <2>3. ASSUME NEW i \in 0 .. m PROVE TurnOf(text, pattern, longer, i)
    <3>1. TurnOf(text, pattern, turn, i) /\ longer[i] = turn[i]
      BY <2>1, <2>2
    <3>2. i # 0 => i - 1 \in 0 .. m
      OBVIOUS
    <3> QED  BY <3>1, <3>2, <2>2 DEF TurnOf
  <2>4. TurnOf(text, pattern, longer, m + 1)
    <3>1. m + 1 # 0 /\ (m + 1) - 1 = m /\ m \in 0 .. m
      OBVIOUS
    <3> QED  BY <3>1, <2>2 DEF TurnOf
  <2>5. \A i \in 0 .. m + 1 : TurnOf(text, pattern, longer, i)
    <3>1. \A i \in 0 .. m + 1 : i \in 0 .. m \/ i = m + 1
      OBVIOUS
    <3> QED  BY <3>1, <2>3, <2>4
  <2> QED  BY <2>5
<1>3. Nat \subseteq S
  <2> HIDE DEF S
  <2> QED  BY <1>1, <1>2, SetInduction
<1> QED  BY <1>3

LEMMA MatchAfterDef ==
  ASSUME NEW text, NEW pattern, MatchTurns(text, pattern) \in Nat
  PROVE  \A i \in 0 .. MatchTurns(text, pattern) :
           TurnOf(text, pattern, MatchAfter(text, pattern), i)
<1> DEFINE n == MatchTurns(text, pattern)
           Body(f) == [i \in 0 .. n |->
                         IF i = 0 THEN MatchStart ELSE MatchTurn(text, pattern, f[i - 1])]
<1>1. PICK any : \A i \in 0 .. n : TurnOf(text, pattern, any, i)
  BY TurnsExist
<1> DEFINE turn == [i \in 0 .. n |-> any[i]]
<1>2. \A i \in 0 .. n : turn[i] = any[i]
  OBVIOUS
<1>3. turn = Body(turn)
  <2>1. ASSUME NEW i \in 0 .. n
        PROVE  any[i] = IF i = 0 THEN MatchStart ELSE MatchTurn(text, pattern, turn[i - 1])
    <3>1. i # 0 => i - 1 \in 0 .. n
      OBVIOUS
    <3>2. i # 0 => turn[i - 1] = any[i - 1]
      BY <3>1
    <3> HIDE DEF turn
    <3> QED  BY <1>1, <3>2 DEF TurnOf
  <2> QED  BY <2>1
<1> HIDE DEF turn
<1>4. MatchAfter(text, pattern) = Body(MatchAfter(text, pattern))
  BY <1>3 DEF MatchAfter
<1> QED  BY <1>4 DEF TurnOf

(* Whatever stars and question marks a pattern has, going back to the last *)
(* star finds the cut of the text if there is one.                         *)
LEMMA WildcardsMatch ==
  ASSUME NEW text, NEW pattern, Comparable(text, pattern)
  PROVE  wildcard_match(text, pattern) <=> Matches(text, pattern)
<1> DEFINE n == MatchTurns(text, pattern)
           N == Len(text)
           turn == MatchAfter(text, pattern)
           Good(i) == /\ MatchInv(text, pattern, turn[i])
                      /\ ~MatchEnded(text, turn[i]) => Progress(text, turn[i]) >= i - (N + 2)
           S == {i \in Nat : i <= n => Good(i)}
<1>1. N \in Nat /\ Len(pattern) \in Nat
  BY DEF Comparable
<1>2. n \in Nat
  <2>1. \A x, y \in Nat : x * y \in Nat
    OBVIOUS
  <2>2. N + Len(pattern) + 1 \in Nat /\ N + 2 \in Nat
    BY <1>1
  <2> HIDE DEF N
  <2>3. (N + Len(pattern) + 1) * (N + 2) \in Nat
    BY <2>1, <2>2
  <2> QED  BY <2>3 DEF MatchTurns, N
<1>3. \A i \in 0 .. n : TurnOf(text, pattern, turn, i)
  BY <1>2, MatchAfterDef
<1>4. wildcard_match(text, pattern) <=>
        /\ ~turn[n].failed /\ turn[n].text_index = N
        /\ \A k \in turn[n].pattern_index + 1 .. Len(pattern) : pattern[k] = "*"
  BY DEF wildcard_match
<1> HIDE DEF n, turn
<1>5. 0 \in S
  <2>1. turn[0] = MatchStart
    BY <1>2, <1>3 DEF TurnOf
  <2>2. MatchInv(text, pattern, turn[0])
    BY <2>1, MatchStarts
  <2>3. Progress(text, MatchStart) = -1 * (N + 2)
    BY <1>1 DEF Progress, MatchStart
  <2>4. -1 * (N + 2) >= 0 - (N + 2)
    BY <1>1
  <2> QED  BY <2>1, <2>2, <2>3, <2>4
<1>6. ASSUME NEW i \in Nat, i \in S PROVE i + 1 \in S
  <2> SUFFICES ASSUME i + 1 <= n PROVE Good(i + 1)
    OBVIOUS
  <2>1. Good(i)
    BY <1>2, <1>6
  <2>2. turn[i + 1] = MatchTurn(text, pattern, turn[i])
    <3>1. i + 1 \in 0 .. n /\ i + 1 # 0 /\ (i + 1) - 1 = i
      BY <1>2
    <3> QED  BY <1>3, <3>1 DEF TurnOf
  <2>3. MatchInv(text, pattern, turn[i + 1])
    BY <2>1, <2>2, MatchKeeps
  <2>4. ASSUME ~MatchEnded(text, turn[i + 1])
        PROVE  Progress(text, turn[i + 1]) >= (i + 1) - (N + 2)
    <3>1. ~MatchEnded(text, turn[i]) /\ Progress(text, turn[i + 1]) >= Progress(text, turn[i]) + 1
      BY <2>1, <2>2, <2>4, TurnGetsOn
    <3>2. Progress(text, turn[i]) \in Int /\ Progress(text, turn[i + 1]) \in Int
      BY <2>1, <2>3, ProgressBound
    <3>3. Progress(text, turn[i]) >= i - (N + 2)
      BY <2>1, <3>1
    <3> HIDE DEF N
    <3> QED  BY <1>1, <3>1, <3>2, <3>3
  <2> QED  BY <2>3, <2>4
<1>7. Nat \subseteq S
  <2> HIDE DEF S
  <2> QED  BY <1>5, <1>6, SetInduction
<1>8. Good(n)
  BY <1>2, <1>7
<1> DEFINE m == turn[n]
<1>9. MatchEnded(text, m)
  <2> SUFFICES ASSUME ~MatchEnded(text, m) PROVE FALSE
    OBVIOUS
  <2>1. Progress(text, m) \in Int /\ Progress(text, m) + (N + 2) < n
    BY <1>8, ProgressBound DEF n
  <2>2. Progress(text, m) >= n - (N + 2)
    BY <1>8
  <2> HIDE DEF N, m
  <2> QED  BY <1>1, <1>2, <2>1, <2>2
<1>10. MatchInv(text, pattern, m)
  BY <1>8
<1> HIDE DEF Good, S, m
<1>11. /\ m.text_index \in 0 .. N /\ m.pattern_index \in 0 .. Len(pattern)
       /\ Matches(text, pattern) <=>
            ~m.failed /\ (Rest(text, pattern, m.text_index, m.pattern_index)
                            \/ Later(text, pattern, m))
  BY <1>10 DEF MatchInv, MatchTyped
<1>12. CASE m.failed
  BY <1>4, <1>11, <1>12 DEF m
<1>13. CASE ~m.failed /\ m.text_index = N
  <2>1. N + 1 .. N = {}
    BY <1>1
  <2>2. ~Later(text, pattern, m)
    BY <1>10, <1>13, <2>1, LaterIsBehind
  <2>3. Rest(text, pattern, N, m.pattern_index)
          <=> \A k \in m.pattern_index + 1 .. Len(pattern) : pattern[k] = "*"
    BY <1>11, RestOfStars
  <2>4. Matches(text, pattern)
          <=> \A k \in m.pattern_index + 1 .. Len(pattern) : pattern[k] = "*"
    BY <1>11, <1>13, <2>2, <2>3
  <2> QED  BY <1>4, <1>13, <2>4 DEF m
<1> QED  BY <1>9, <1>12, <1>13 DEF MatchEnded

-----------------------------------------------------------------------------
(* Initialisation.  A sandbox is filled from the directory that IDAUSR     *)
(* leads to until it is done, and only then does IDAUSR lead to it.        *)
SandboxDir == dirs[Len(dirs)]
SourceOthers == IF dirs[source_user_dir].readable THEN dirs[source_user_dir].others ELSE {}
SourcePlugins == {name \in dirs[source_user_dir].plugins :
                    dirs[source_user_dir].readable /\ matches_any_allowlist_pattern(name)}

Building ==
  doing \in {"mirror", "set"} =>
    /\ requested(policy) /\ idausr = source_user_dir /\ source_user_dir < Len(dirs)
    /\ doing = "mirror" => SandboxDir.others \cup left = SourceOthers /\ SandboxDir.plugins = {}
    /\ doing = "set" => SandboxDir.others = SourceOthers /\ SandboxDir.plugins \cup left = SourcePlugins

InForce ==
  doing \in {"library", "ready"} =>
    IF requested(policy)
    THEN /\ idausr = Len(dirs) /\ source_user_dir < Len(dirs)
         /\ SandboxDir.others = SourceOthers /\ SandboxDir.plugins = SourcePlugins
    ELSE idausr = source_user_dir

PolicyInv ==
  /\ PolicyTypeOK
  /\ dirs[UserDir].others = OtherEntries
  /\ \A i \in 2 .. Len(dirs) : dirs[i].readable
  /\ dirs[UserDir].readable => dirs[idausr].others = OtherEntries
  /\ Building
  /\ InForce

LEMMA PolicyUnfold ==
  ASSUME PolicyInv
  PROVE  /\ dirs \in Seq(Directory) /\ Len(dirs) \in Nat /\ DOMAIN dirs = 1 .. Len(dirs)
         /\ \A i \in 1 .. Len(dirs) : dirs[i] \in Directory
         /\ idausr \in 1 .. Len(dirs) /\ source_user_dir \in 1 .. Len(dirs)
         /\ UserDir \in 1 .. Len(dirs) /\ policy \in Policy /\ inits \in 0 .. MaxInits
         /\ left \subseteq OtherEntries \cup PluginNames
<1>1. /\ dirs \in Seq(Directory) /\ idausr \in DOMAIN dirs /\ source_user_dir \in DOMAIN dirs
      /\ policy \in Policy /\ inits \in 0 .. MaxInits
      /\ left \subseteq OtherEntries \cup PluginNames
  BY DEF PolicyInv, PolicyTypeOK
<1>2. Len(dirs) \in Nat /\ DOMAIN dirs = 1 .. Len(dirs)
  BY <1>1, LenProperties
<1>3. \A i \in 1 .. Len(dirs) : dirs[i] \in Directory
  BY <1>1, ElementOfSeq
<1>4. UserDir \in 1 .. Len(dirs)
  BY <1>1, <1>2 DEF UserDir
<1> QED  BY <1>1, <1>2, <1>3, <1>4

LEMMA PolicyStart == PolicyInit => PolicyInv
<1> SUFFICES ASSUME PolicyInit PROVE PolicyInv
  OBVIOUS
<1>1. PICK plugins \in SUBSET PluginNames, readable \in BOOLEAN :
        dirs = <<[others |-> OtherEntries, plugins |-> plugins, readable |-> readable]>>
  BY DEF PolicyInit
<1> DEFINE d == [others |-> OtherEntries, plugins |-> plugins, readable |-> readable]
<1>2. d \in Directory /\ d.others = OtherEntries
  BY DEF Directory
<1> HIDE DEF d
<1>3. dirs \in Seq(Directory) /\ Len(dirs) = 1 /\ dirs[1] = d /\ DOMAIN dirs = 1 .. 1
  BY <1>1, <1>2 DEF d
<1>4. /\ idausr = 1 /\ doing = "nothing" /\ source_user_dir = 1 /\ left = {} /\ inits = 0
      /\ policy = [disable_user_plugins |-> FALSE, allowlist_patterns |-> {}]
  BY DEF PolicyInit, UserDir
<1>5. policy \in Policy /\ inits \in 0 .. MaxInits
  BY <1>4, PolicyAssumption DEF Policy
<1>6. PolicyTypeOK
  BY <1>3, <1>4, <1>5 DEF PolicyTypeOK
<1>7. Building /\ InForce
  BY <1>4 DEF Building, InForce
<1> QED  BY <1>2, <1>3, <1>4, <1>6, <1>7 DEF PolicyInv, UserDir

(* A new sandbox is empty and behind all others. *)
LEMMA CallInitStep ==
  ASSUME PolicyInv, NEW p \in Policy, CallInit(p)
  PROVE  PolicyInv'
<1> DEFINE new == [others |-> {}, plugins |-> {}, readable |-> TRUE]
<1>1. new \in Directory
  BY DEF Directory
<1>2. /\ doing = "nothing" /\ inits < MaxInits /\ inits' = inits + 1 /\ policy' = p
      /\ source_user_dir' = idausr /\ idausr' = idausr
      /\ left' = IF requested(p) /\ dirs[idausr].readable THEN dirs[idausr].others ELSE {}
  BY DEF CallInit
<1>3. inits' \in 0 .. MaxInits
  BY <1>2, PolicyUnfold, PolicyAssumption
<1>4. dirs[idausr] \in Directory /\ left' \subseteq OtherEntries
  BY <1>2, PolicyUnfold DEF Directory
<1>5. CASE requested(p)
  <2>1. dirs' = Append(dirs, new) /\ doing' = "mirror" /\ requested(policy')
    BY <1>2, <1>5 DEF CallInit
  <2> HIDE DEF new
  <2>2. /\ dirs' \in Seq(Directory) /\ Len(dirs') = Len(dirs) + 1
        /\ \A i \in 1 .. Len(dirs) : dirs'[i] = dirs[i]
        /\ dirs'[Len(dirs) + 1] = new
    BY <1>1, <2>1, PolicyUnfold, AppendProperties
  <2>3. DOMAIN dirs' = 1 .. Len(dirs) + 1
    BY <2>2, LenProperties
  <2>4. idausr \in 1 .. Len(dirs) /\ idausr \in DOMAIN dirs' /\ idausr < Len(dirs')
    BY <2>2, <2>3, PolicyUnfold
  <2>5. PolicyTypeOK'
    BY <1>2, <1>3, <1>4, <2>1, <2>2, <2>4 DEF PolicyTypeOK
  <2>6. dirs'[UserDir] = dirs[UserDir] /\ dirs'[idausr] = dirs[idausr]
    BY <2>2, <2>4, PolicyUnfold
  <2>7. /\ dirs'[UserDir].others = OtherEntries
        /\ dirs'[UserDir].readable => dirs'[idausr].others = OtherEntries
    BY <2>6 DEF PolicyInv
  <2>8. ASSUME NEW i \in 2 .. Len(dirs') PROVE dirs'[i].readable
    <3>1. i = Len(dirs) + 1 \/ i \in 2 .. Len(dirs)
      BY <2>2, PolicyUnfold
    <3>2. new.readable
      BY DEF new
    <3>3. CASE i \in 2 .. Len(dirs)
      <4>1. i \in 1 .. Len(dirs)
        BY <3>3
      <4> QED  BY <2>2, <3>3, <4>1 DEF PolicyInv
    <3> QED  BY <2>2, <3>1, <3>2, <3>3
  <2>9. Building'
    <3>1. SandboxDir' = new /\ SandboxDir'.others = {} /\ SandboxDir'.plugins = {}
      BY <2>2 DEF SandboxDir, new
    <3>2. SourceOthers' = left'
      BY <1>2, <1>5, <2>6 DEF SourceOthers
    <3> QED  BY <1>2, <2>1, <2>4, <3>1, <3>2 DEF Building
  <2>10. InForce'
    BY <2>1 DEF InForce
  <2> QED  BY <1>2, <2>5, <2>7, <2>8, <2>9, <2>10 DEF PolicyInv
<1>6. CASE ~requested(p)
  <2>1. dirs' = dirs /\ doing' = "library" /\ ~requested(policy')
    BY <1>2, <1>6 DEF CallInit
  <2>2. PolicyTypeOK'
    BY <1>2, <1>3, <1>4, <2>1, PolicyUnfold DEF PolicyTypeOK
  <2>3. Building' /\ InForce'
    BY <1>2, <2>1 DEF Building, InForce
  <2> QED  BY <1>2, <2>1, <2>2, <2>3 DEF PolicyInv
<1> QED  BY <1>5, <1>6

LEMMA MirrorStep ==
  ASSUME PolicyInv, NEW entry, mirror_entry(entry)
  PROVE  PolicyInv'
<1> DEFINE n == Len(dirs)
           d == SandboxDir
           d2 == IF doing = "mirror" THEN [d EXCEPT !.others = @ \cup {entry}]
                 ELSE [d EXCEPT !.plugins = @ \cup {entry}]
<1>1. /\ doing \in {"mirror", "set"} /\ entry \in left /\ left' = left \ {entry}
      /\ UNCHANGED <<idausr, doing, policy, source_user_dir, inits>>
  BY DEF mirror_entry
<1>2. /\ requested(policy) /\ idausr = source_user_dir /\ source_user_dir < n
      /\ doing = "mirror" => d.others \cup left = SourceOthers /\ d.plugins = {}
      /\ doing = "set" => d.others = SourceOthers /\ d.plugins \cup left = SourcePlugins
  BY <1>1 DEF PolicyInv, Building
<1>3. n \in Nat /\ n \in 2 .. n /\ n \in 1 .. n /\ d \in Directory /\ d.readable
  <2>1. n \in Nat /\ n \in 2 .. n /\ n \in 1 .. n
    BY <1>2, PolicyUnfold
  <2> QED  BY <2>1, PolicyUnfold DEF PolicyInv, SandboxDir
<1>4. /\ doing = "mirror" => entry \in OtherEntries
      /\ doing = "set" => entry \in PluginNames
  <2>1. dirs[source_user_dir] \in Directory
    BY PolicyUnfold
  <2> QED  BY <1>1, <1>2, <2>1 DEF Directory, SourceOthers, SourcePlugins
<1>5. dirs' = [dirs EXCEPT ![n] = d2]
  BY DEF mirror_entry, Mirrored, SandboxDir
<1>6. /\ d2 \in Directory /\ d2.readable
      /\ doing = "mirror" => d2.others = d.others \cup {entry} /\ d2.plugins = d.plugins
      /\ doing = "set" => d2.others = d.others /\ d2.plugins = d.plugins \cup {entry}
  BY <1>1, <1>3, <1>4 DEF Directory
<1> HIDE DEF d2
<1>7. /\ dirs' \in Seq(Directory) /\ Len(dirs') = n
      /\ dirs'[n] = d2 /\ \A i \in 1 .. n \ {n} : dirs'[i] = dirs[i]
  <2>1. dirs \in Seq(Directory) /\ n \in 1 .. Len(dirs)
    BY <1>3, PolicyUnfold
  <2> HIDE DEF d
  <2> QED  BY <1>5, <1>6, <2>1, ExceptSeq
<1>8. DOMAIN dirs' = DOMAIN dirs
  BY <1>7, PolicyUnfold, LenProperties
<1>9. /\ dirs'[UserDir] = dirs[UserDir] /\ dirs'[source_user_dir] = dirs[source_user_dir]
      /\ dirs'[idausr] = dirs[idausr]
  <2>1. UserDir \in 1 .. n \ {n} /\ source_user_dir \in 1 .. n \ {n}
    BY <1>2, PolicyUnfold DEF UserDir
  <2> QED  BY <1>2, <1>7, <2>1
<1>10. PolicyTypeOK'
  BY <1>1, <1>7, <1>8 DEF PolicyInv, PolicyTypeOK
<1>11. ASSUME NEW i \in 2 .. Len(dirs') PROVE dirs'[i].readable
  <2>1. i \in 2 .. n /\ (i = n \/ i \in 1 .. n \ {n})
    BY <1>3, <1>7
  <2> QED  BY <1>6, <1>7, <2>1 DEF PolicyInv
<1>12. SourceOthers' = SourceOthers
  BY <1>1, <1>9 DEF SourceOthers
<1>13. SourcePlugins' = SourcePlugins
  BY <1>1, <1>9 DEF SourcePlugins, matches_any_allowlist_pattern
<1>14. SandboxDir' = d2
  BY <1>7 DEF SandboxDir
<1>15. Building'
  <2>1. doing = "mirror" => d2.others \cup left' = SourceOthers /\ d2.plugins = {}
    BY <1>1, <1>2, <1>6
  <2>2. doing = "set" => d2.others = SourceOthers /\ d2.plugins \cup left' = SourcePlugins
    BY <1>1, <1>2, <1>6
  <2>3. requested(policy')
    BY <1>1, <1>2
  <2> HIDE DEF d
  <2> QED  BY <1>1, <1>2, <1>7, <1>12, <1>13, <1>14, <2>1, <2>2, <2>3 DEF Building
<1>16. InForce'
  BY <1>1 DEF InForce
<1>17. /\ dirs'[UserDir].others = OtherEntries
       /\ dirs'[UserDir].readable => dirs'[idausr'].others = OtherEntries
  BY <1>1, <1>9 DEF PolicyInv
<1> QED  BY <1>10, <1>11, <1>15, <1>16, <1>17 DEF PolicyInv

LEMMA OtherPolicySteps ==
  ASSUME PolicyInv, NEW p \in Policy,
         \/ NoSandbox(p) \/ MirrorFails \/ SelectPlugins \/ SetIdausr \/ init_library
  PROVE  PolicyInv'
<1>1. dirs' = dirs /\ SandboxDir' = SandboxDir /\ UserDir \in 1 .. Len(dirs)
  BY PolicyUnfold
     DEF NoSandbox, MirrorFails, SelectPlugins, SetIdausr, init_library, SandboxDir
<1>2. CASE NoSandbox(p)
  <2>1. inits' \in 0 .. MaxInits
    BY <1>2, PolicyUnfold, PolicyAssumption DEF NoSandbox
  <2>2. PolicyTypeOK' /\ doing' = "nothing" /\ idausr' = idausr
    BY <1>1, <1>2, <2>1, PolicyUnfold DEF NoSandbox, PolicyTypeOK
  <2>3. Building' /\ InForce'
    BY <2>2 DEF Building, InForce
  <2> QED  BY <1>1, <2>2, <2>3 DEF PolicyInv
<1>3. CASE MirrorFails
  <2>1. PolicyTypeOK' /\ doing' = "nothing" /\ idausr' = idausr
    BY <1>1, <1>3, PolicyUnfold DEF MirrorFails, ReturnError, PolicyTypeOK
  <2>2. Building' /\ InForce'
    BY <2>1 DEF Building, InForce
  <2> QED  BY <1>1, <2>1, <2>2 DEF PolicyInv
<1>4. CASE SelectPlugins
  <2>1. /\ doing = "mirror" /\ left = {} /\ doing' = "set" /\ left' = SourcePlugins
        /\ UNCHANGED <<idausr, policy, source_user_dir, inits>>
    BY <1>4 DEF SelectPlugins, SourcePlugins
  <2>2. SourceOthers' = SourceOthers /\ SourcePlugins' = SourcePlugins
    BY <1>1, <2>1 DEF SourceOthers, SourcePlugins, matches_any_allowlist_pattern
  <2>3. dirs[source_user_dir] \in Directory
    BY PolicyUnfold
  <2>4. left' \subseteq PluginNames
    BY <2>1, <2>3 DEF SourcePlugins, Directory
  <2>5. PolicyTypeOK'
    BY <1>1, <2>1, <2>4, PolicyUnfold DEF PolicyTypeOK
  <2>6. /\ requested(policy) /\ idausr = source_user_dir /\ source_user_dir < Len(dirs)
        /\ SandboxDir.others \cup left = SourceOthers /\ SandboxDir.plugins = {}
    BY <2>1 DEF PolicyInv, Building
  <2>7. requested(policy')
    BY <2>1, <2>6
  <2>8. Building' /\ InForce'
    BY <1>1, <2>1, <2>2, <2>6, <2>7 DEF Building, InForce
  <2> QED  BY <1>1, <2>1, <2>5, <2>8 DEF PolicyInv
<1>5. CASE SetIdausr
  <2>1. /\ doing = "set" /\ left = {} /\ left' = left
        /\ UNCHANGED <<policy, source_user_dir, inits>>
        /\ \/ doing' = "library" /\ idausr' = Len(dirs)
           \/ doing' = "nothing" /\ idausr' = idausr
    BY <1>5 DEF SetIdausr
  <2>2. /\ requested(policy) /\ idausr = source_user_dir /\ source_user_dir < Len(dirs)
        /\ SandboxDir.others = SourceOthers /\ SandboxDir.plugins = SourcePlugins
    BY <2>1 DEF PolicyInv, Building
  <2>3. CASE doing' = "nothing" /\ idausr' = idausr
    <3>1. PolicyTypeOK' /\ Building' /\ InForce'
      BY <1>1, <2>1, <2>3, PolicyUnfold DEF PolicyTypeOK, Building, InForce
    <3> QED  BY <1>1, <2>3, <3>1 DEF PolicyInv
  <2>4. CASE doing' = "library" /\ idausr' = Len(dirs)
    <3>1. SourceOthers' = SourceOthers /\ SourcePlugins' = SourcePlugins
      BY <1>1, <2>1 DEF SourceOthers, SourcePlugins, matches_any_allowlist_pattern
    <3>2. Len(dirs) \in 1 .. Len(dirs)
      BY <1>1, PolicyUnfold
    <3>3. PolicyTypeOK'
      BY <1>1, <2>1, <2>4, <3>2, PolicyUnfold DEF PolicyTypeOK
    <3>4. dirs[UserDir].readable => SandboxDir.others = OtherEntries
      <4> SUFFICES ASSUME dirs[UserDir].readable PROVE SandboxDir.others = OtherEntries
        OBVIOUS
      <4>1. dirs[source_user_dir].others = OtherEntries
        BY <2>2 DEF PolicyInv
      <4>2. source_user_dir = UserDir \/ source_user_dir \in 2 .. Len(dirs)
        BY PolicyUnfold DEF UserDir
      <4>3. dirs[source_user_dir].readable
        BY <4>2 DEF PolicyInv
      <4> QED  BY <2>2, <4>1, <4>3 DEF SourceOthers
    <3>5. dirs'[UserDir].readable => dirs'[idausr'].others = OtherEntries
      BY <1>1, <2>4, <3>4 DEF SandboxDir
    <3>6. requested(policy')
      BY <2>1, <2>2
    <3>7. Building' /\ InForce'
      BY <1>1, <2>1, <2>2, <2>4, <3>1, <3>6 DEF Building, InForce
    <3> QED  BY <1>1, <3>3, <3>5, <3>7 DEF PolicyInv
  <2> QED  BY <2>1, <2>3, <2>4
<1>6. CASE init_library
  <2>1. /\ doing = "library" /\ doing' \in {"nothing", "ready"}
        /\ UNCHANGED <<idausr, policy, source_user_dir, left, inits>>
    BY <1>6 DEF init_library
  <2>2. SourceOthers' = SourceOthers /\ SourcePlugins' = SourcePlugins
    BY <1>1, <2>1 DEF SourceOthers, SourcePlugins, matches_any_allowlist_pattern
  <2>3. PolicyTypeOK'
    BY <1>1, <2>1, PolicyUnfold DEF PolicyTypeOK
  <2>4. requested(policy') <=> requested(policy)
    BY <2>1
  <2>5. IF requested(policy)
        THEN /\ idausr = Len(dirs) /\ source_user_dir < Len(dirs)
             /\ SandboxDir.others = SourceOthers /\ SandboxDir.plugins = SourcePlugins
        ELSE idausr = source_user_dir
    BY <2>1 DEF PolicyInv, InForce
  <2>6. Building' /\ InForce'
    BY <1>1, <2>1, <2>2, <2>4, <2>5 DEF Building, InForce
  <2> QED  BY <1>1, <2>1, <2>3, <2>6 DEF PolicyInv
<1> QED  BY <1>2, <1>3, <1>4, <1>5, <1>6

LEMMA PolicyStep == PolicyInv /\ [PolicyNext]_pvars => PolicyInv'
<1> SUFFICES ASSUME PolicyInv, [PolicyNext]_pvars PROVE PolicyInv'
  OBVIOUS
<1>1. CASE UNCHANGED pvars
  BY <1>1 DEF pvars, PolicyInv, PolicyTypeOK, Building, InForce, SandboxDir, SourceOthers,
              SourcePlugins, matches_any_allowlist_pattern
<1>2. CASE \E p \in Policy : CallInit(p) \/ NoSandbox(p)
  BY <1>2, CallInitStep, OtherPolicySteps
<1>3. CASE \E entry \in left : mirror_entry(entry)
  BY <1>3, MirrorStep
<1>4. CASE MirrorFails \/ SelectPlugins \/ SetIdausr \/ init_library
  <2>1. policy \in Policy
    BY PolicyUnfold
  <2> QED  BY <1>4, <2>1, OtherPolicySteps
<1> QED  BY <1>1, <1>2, <1>3, <1>4 DEF PolicyNext

(* A star in the name of a file is no wildcard, and names have none here.  *)
NamesAreLiteral == \A name \in PluginNames : Literal(name)

LEMMA AllowlistMeans ==
  ASSUME NamesAreLiteral, policy \in Policy, NEW name \in PluginNames
  PROVE  matches_any_allowlist_pattern(name)
           <=> \E pattern \in policy.allowlist_patterns : Matches(name, pattern)
<1>1. policy.allowlist_patterns \subseteq Patterns
  BY DEF Policy
<1>2. IsText(name) /\ name # << >> /\ Literal(name)
  BY PolicyAssumption DEF NamesAreLiteral
<1>3. ASSUME NEW pattern \in Patterns
      PROVE  Matches(name, pattern) <=> pattern # << >> /\ wildcard_match(name, pattern)
  <2>1. Comparable(name, pattern)
    BY <1>2, PolicyAssumption DEF Comparable, IsText
  <2>2. wildcard_match(name, pattern) <=> Matches(name, pattern)
    BY <2>1, WildcardsMatch
  <2>3. pattern = << >> => ~Matches(name, pattern)
    <3> SUFFICES ASSUME pattern = << >>, Matches(name, pattern) PROVE FALSE
      OBVIOUS
    <3>1. Len(pattern) = 0
      BY EmptySeq
    <3>2. Len(name) = 0
      BY <3>1 DEF Matches
    <3>3. DOMAIN name = {}
      BY <1>2, <3>2 DEF IsText
    <3>4. \A x : x \notin DOMAIN << >>
      OBVIOUS
    <3> QED  BY <1>2, <3>2, <3>3
  <2> QED  BY <2>2, <2>3
<1> QED  BY <1>1, <1>3 DEF matches_any_allowlist_pattern

(* Whichever step fails and however often init is called, a policy's       *)
(* plugins and all other entries are there, or nothing has changed; what a *)
(* pattern means is decided by going back to its last star only.           *)
THEOREM PoliciesApply == NamesAreLiteral => (PolicySpec => []PluginPolicyApplied)
<1> SUFFICES ASSUME NamesAreLiteral PROVE PolicySpec => []PluginPolicyApplied
  OBVIOUS
<1>1. ASSUME PolicyInv PROVE PluginPolicyApplied
  <2>1. SandboxIsComplete
    BY <1>1 DEF PolicyInv, SandboxIsComplete
  <2>2. ASSUME doing = "ready", source_user_dir = UserDir, dirs[UserDir].readable
        PROVE  /\ dirs[idausr].others = OtherEntries
               /\ dirs[idausr].plugins = {name \in dirs[UserDir].plugins : Allowed(name)}
    <3>1. /\ dirs[idausr].others = OtherEntries /\ policy \in Policy
          /\ dirs[UserDir] \in Directory
      BY <1>1, <2>2, PolicyUnfold DEF PolicyInv
    <3>2. CASE requested(policy)
      <4>1. dirs[idausr].plugins = SourcePlugins
        BY <1>1, <2>2, <3>2 DEF PolicyInv, InForce, SandboxDir
      <4>2. \A name \in dirs[UserDir].plugins : matches_any_allowlist_pattern(name) <=> Allowed(name)
        <5>1. dirs[UserDir].plugins \subseteq PluginNames
          BY <3>1 DEF Directory
        <5> QED  BY <1>1, <3>1, <3>2, <5>1, AllowlistMeans DEF Allowed, requested
      <4> QED  BY <2>2, <3>1, <4>1, <4>2 DEF SourcePlugins
    <3>3. CASE ~requested(policy)
      <4>1. idausr = UserDir
        BY <1>1, <2>2, <3>3 DEF PolicyInv, InForce
      <4>2. \A name : Allowed(name)
        BY <3>1, <3>3 DEF Allowed, requested, Policy
      <4> QED  BY <3>1, <4>1, <4>2
    <3> QED  BY <3>2, <3>3
  <2>3. PolicyDecidesPlugins
    BY <2>2 DEF PolicyDecidesPlugins
  <2> QED  BY <2>1, <2>3 DEF PluginPolicyApplied
<1> QED  BY <1>1, PolicyStart, PolicyStep, PTL DEF PolicySpec

-----------------------------------------------------------------------------
(* The search of a graph.                                                  *)

SearchState == [cur : Ids, queue : Seq(Ids), visited : SUBSET Ids, found : BOOLEAN]

(* Fields of a search. *)
LEMMA SearchFields ==
  ASSUME NEW b \in SearchState
  PROVE  /\ b.cur \in Ids /\ b.queue \in Seq(Ids) /\ b.visited \subseteq Ids
         /\ b.found \in BOOLEAN
BY DEF SearchState

LEMMA VisitTyped ==
  ASSUME NEW target, NEW b \in SearchState, NEW e
  PROVE  Visit(target, b, e) \in SearchState
<1>1. ASSUME e[2] \in Ids PROVE Append(b.queue, e[2]) \in Seq(Ids)
  BY <1>1, SearchFields, AppendProperties
<1>2. ASSUME NEW q \in Seq(Ids), NEW v \in SUBSET Ids
      PROVE  [b EXCEPT !.visited = v, !.queue = q] \in SearchState
  BY DEF SearchState
<1>3. [b EXCEPT !.found = TRUE] \in SearchState
  BY DEF SearchState
<1>4. CASE b.found \/ e[1] # b.cur
  BY <1>4 DEF Visit
<1>5. CASE ~(b.found \/ e[1] # b.cur) /\ e[2] = target
  BY <1>3, <1>5 DEF Visit
<1>6. CASE ~(b.found \/ e[1] # b.cur) /\ e[2] # target /\ e[2] \in Ids /\ e[2] \notin b.visited
  <2>1. b.visited \cup {e[2]} \in SUBSET Ids
    BY <1>6, SearchFields
  <2>2. Visit(target, b, e) = [b EXCEPT !.visited = b.visited \cup {e[2]}, !.queue = Append(b.queue, e[2])]
    BY <1>6 DEF Visit, Ids
  <2> QED
    BY <1>1, <1>2, <1>6, <2>1, <2>2
<1>7. CASE ~(b.found \/ e[1] # b.cur) /\ e[2] # target /\ ~(e[2] \in Ids /\ e[2] \notin b.visited)
  BY <1>7 DEF Visit, Ids
<1> QED
  BY <1>4, <1>5, <1>6, <1>7

(* What Visit does, by the edge. *)
VisitMakes(target, b, e, a) ==
  LET matters == ~b.found /\ e[1] = b.cur
      fresh == e[2] \in Ids /\ e[2] \notin b.visited
  IN  /\ a.cur = b.cur
      /\ ~matters => a = b
      /\ matters /\ e[2] = target => a.found /\ a.queue = b.queue /\ a.visited = b.visited
      /\ matters /\ e[2] # target /\ fresh =>
           ~a.found /\ a.queue = Append(b.queue, e[2]) /\ a.visited = b.visited \cup {e[2]}
      /\ matters /\ e[2] # target /\ ~fresh => a = b

LEMMA VisitCases ==
  ASSUME NEW target, NEW b \in SearchState, NEW e
  PROVE  VisitMakes(target, b, e, Visit(target, b, e))
BY DEF VisitMakes, Visit, Ids, SearchState

(* The inner loop: what it has made of the search after each edge. *)
ScanStart(b) == [b EXCEPT !.cur = Head(b.queue), !.queue = Tail(b.queue)]

LEMMA ScanSteps ==
  ASSUME edge_list \in Seq(Endpoint \X Endpoint),
         NEW target, NEW b \in SearchState, b.queue # << >>
  PROVE  \E f \in [0 .. Len(edge_list) -> SearchState] :
           /\ f[0] = ScanStart(b)
           /\ \A i \in 1 .. Len(edge_list) : f[i] = Visit(target, f[i - 1], edge_list[i])
           /\ Scan(target, b) = f[Len(edge_list)]
<1> DEFINE n == Len(edge_list)
           F == [i \in 1 .. n |-> [a \in SearchState |-> Visit(target, a, edge_list[i])]]
           Body(f) == [i \in 0 .. n |->
                         IF i = 0 THEN ScanStart(b) ELSE Visit(target, f[i - 1], edge_list[i])]
<1>1. n \in Nat
  BY LenProperties
<1>2. ScanStart(b) \in SearchState
  <2>1. Head(b.queue) \in Ids /\ Tail(b.queue) \in Seq(Ids)
    BY SearchFields, HeadTailProperties
  <2> QED
    BY <2>1 DEF ScanStart, SearchState
<1>3. F \in [1 .. n -> [SearchState -> SearchState]]
  BY VisitTyped
<1>4. PICK g \in [0 .. n -> SearchState] : Iterates(g, ScanStart(b), n, F)
  <2> HIDE DEF F, n
  <2> QED
    BY <1>1, <1>2, <1>3, IterationExists
<1>5. \A i \in 1 .. n : g[i - 1] \in SearchState /\ F[i][g[i - 1]] = Visit(target, g[i - 1], edge_list[i])
  BY <1>1
<1>6. g[0] = ScanStart(b) /\ \A i \in 1 .. n : g[i] = Visit(target, g[i - 1], edge_list[i])
  <2> HIDE DEF F
  <2> QED
    BY <1>4, <1>5 DEF Iterates
<1> HIDE DEF F
<1>7. g = Body(g)
  <2>1. \A i \in 0 .. n : i # 0 => i \in 1 .. n
    BY <1>1
  <2>2. \A i \in 0 .. n : g[i] = Body(g)[i]
    BY <1>6, <2>1
  <2> QED
    BY <2>2
<1> DEFINE f == CHOOSE h : h = Body(h)
<1>8. f = Body(f)
  BY <1>7
<1>9. Scan(target, b) = f[n]
  BY DEF Scan, ScanStart
<1> HIDE DEF f
<1>10. DOMAIN f = 0 .. n /\ f[0] = ScanStart(b)
  BY <1>1, <1>8
<1>11. \A i \in 1 .. n : f[i] = Visit(target, f[i - 1], edge_list[i])
  <2>1. \A i \in 1 .. n : i \in 0 .. n /\ i # 0
    BY <1>1
  <2> QED
    BY <1>8, <2>1
<1>12. f \in [0 .. n -> SearchState]
  <2> DEFINE S == {m \in Nat : m <= n => f[m] \in SearchState}
  <2>1. 0 \in S
    BY <1>2, <1>10
  <2>2. ASSUME NEW m \in Nat, m \in S PROVE m + 1 \in S
    <3> SUFFICES ASSUME m + 1 <= n PROVE f[m + 1] \in SearchState
      OBVIOUS
    <3>1. m <= n /\ m + 1 \in 1 .. n /\ (m + 1) - 1 = m
      BY <1>1
    <3>2. f[m + 1] = Visit(target, f[m], edge_list[m + 1])
      BY <1>11, <3>1
    <3> QED
      BY <2>2, <3>1, <3>2, VisitTyped
  <2>3. Nat \subseteq S
    <3> HIDE DEF S
    <3> QED
      BY <2>1, <2>2, SetInduction
  <2>4. \A i \in 0 .. n : f[i] \in SearchState
    BY <1>1, <2>3
  <2> QED
    BY <1>8, <2>4
<1> QED
  BY <1>9, <1>10, <1>11, <1>12

(* What is true of a turn after i edges: the ids it found are those that   *)
(* edges lead to, they went to the end of the queue, and no edge so far    *)
(* was left out.                                                           *)
TurnInv(target, b, a, i) ==
  LET x == Head(b.queue) IN
  /\ a.cur = x
  /\ b.visited \subseteq a.visited
  /\ \A v \in a.visited : v \in b.visited \/ (v # target /\ <<x, v>> \in Edges)
  /\ Range(a.queue) = Range(Tail(b.queue)) \cup (a.visited \ b.visited)
  /\ Cardinality(a.visited) - Len(a.queue) = Cardinality(b.visited) - Len(b.queue) + 1
  /\ a.found => <<x, target>> \in Edges
  /\ ~a.found => \A j \in 1 .. i :
                   edge_list[j][1] = x =>
                     /\ edge_list[j][2] # target
                     /\ edge_list[j][2] \in Ids => edge_list[j][2] \in a.visited

LEMMA TurnGoesOn ==
  ASSUME edge_list \in Seq(Endpoint \X Endpoint), GraphAssumption, total_count \in Nat,
         NEW target, NEW b \in SearchState, b.queue # << >>,
         NEW i \in 1 .. Len(edge_list), NEW a \in SearchState, TurnInv(target, b, a, i - 1)
  PROVE  TurnInv(target, b, Visit(target, a, edge_list[i]), i)
<1> DEFINE e == edge_list[i]
           x == Head(b.queue)
           c == Visit(target, a, e)
           matters == ~a.found /\ e[1] = a.cur
<1>1. e \in Endpoint \X Endpoint /\ e = <<e[1], e[2]>> /\ e \in Edges
  <2>1. e \in Endpoint \X Endpoint /\ i \in DOMAIN edge_list
    BY ElementOfSeq, LenProperties
  <2> QED
    BY <2>1 DEF Edges, Range
<1>2. /\ a.cur = x /\ b.visited \subseteq a.visited
      /\ \A v \in a.visited : v \in b.visited \/ (v # target /\ <<x, v>> \in Edges)
      /\ Range(a.queue) = Range(Tail(b.queue)) \cup (a.visited \ b.visited)
      /\ Cardinality(a.visited) - Len(a.queue) = Cardinality(b.visited) - Len(b.queue) + 1
      /\ a.found => <<x, target>> \in Edges
      /\ ~a.found => \A j \in 1 .. i - 1 :
                       edge_list[j][1] = x =>
                         /\ edge_list[j][2] # target
                         /\ edge_list[j][2] \in Ids => edge_list[j][2] \in a.visited
  BY DEF TurnInv
<1>3. \A j \in 1 .. i : j = i \/ j \in 1 .. i - 1
  BY LenProperties
<1>4. a.queue \in Seq(Ids) /\ a.visited \subseteq Ids /\ a.found \in BOOLEAN
  BY SearchFields
<1>5. IsFiniteSet(a.visited) /\ Cardinality(a.visited) \in Nat
  <2>1. IsFiniteSet(Ids)
    BY FS_Interval DEF Ids
  <2> QED
    BY <1>4, <2>1, FS_Subset, FS_CardinalityType
<1>6. Cardinality(b.visited) \in Nat /\ Len(b.queue) \in Nat /\ Len(a.queue) \in Nat
  <2>1. IsFiniteSet(Ids)
    BY FS_Interval DEF Ids
  <2>2. b.visited \subseteq Ids /\ b.queue \in Seq(Ids)
    BY SearchFields
  <2>3. IsFiniteSet(b.visited)
    BY <2>1, <2>2, FS_Subset
  <2>4. Cardinality(b.visited) \in Nat
    BY <2>3, FS_CardinalityType
  <2> QED
    BY <1>4, <2>2, <2>4, LenProperties
<1> HIDE DEF e
<1>0. VisitMakes(target, a, e, c)
  BY VisitCases
<1> HIDE DEF c
<1>7. CASE ~matters
  <2>1. c = a
    BY <1>0, <1>7 DEF VisitMakes
  <2>2. ~a.found => e[1] # x
    BY <1>2, <1>7
  <2> QED
    BY <1>2, <1>3, <2>1, <2>2 DEF TurnInv, e, c
<1>8. CASE matters /\ e[2] = target
  <2>1. c.cur = a.cur /\ c.found /\ c.queue = a.queue /\ c.visited = a.visited
    BY <1>0, <1>8 DEF VisitMakes
  <2>2. <<x, target>> \in Edges
    BY <1>1, <1>2, <1>8
  <2> QED
    BY <1>2, <2>1, <2>2 DEF TurnInv, e, c
<1>9. CASE matters /\ e[2] # target /\ e[2] \in Ids /\ e[2] \notin a.visited
  <2>1. /\ c.cur = a.cur /\ ~c.found
        /\ c.queue = Append(a.queue, e[2]) /\ c.visited = a.visited \cup {e[2]}
    BY <1>0, <1>9 DEF VisitMakes
  <2>2. Range(c.queue) = Range(a.queue) \cup {e[2]} /\ Len(c.queue) = Len(a.queue) + 1
    BY <1>4, <1>9, <2>1, RangeOfAppend, AppendProperties
  <2>3. Cardinality(c.visited) = Cardinality(a.visited) + 1
    <3>1. Cardinality(a.visited \cup {e[2]}) = Cardinality(a.visited) + 1
      BY <1>5, <1>9, FS_AddElement
    <3> QED
      BY <2>1, <3>1
  <2>4. <<x, e[2]>> \in Edges
    BY <1>1, <1>2, <1>9
  <2>5. \A v \in c.visited : v \in b.visited \/ (v # target /\ <<x, v>> \in Edges)
    BY <1>2, <1>9, <2>1, <2>4
  <2>6. Range(c.queue) = Range(Tail(b.queue)) \cup (c.visited \ b.visited)
    BY <1>2, <1>9, <2>1, <2>2
  <2>7. Cardinality(c.visited) - Len(c.queue) = Cardinality(b.visited) - Len(b.queue) + 1
    BY <1>2, <1>5, <1>6, <2>2, <2>3
  <2>8. \A j \in 1 .. i : edge_list[j][1] = x =>
          /\ edge_list[j][2] # target
          /\ edge_list[j][2] \in Ids => edge_list[j][2] \in c.visited
    BY <1>2, <1>3, <1>9, <2>1 DEF e
  <2>9. c.cur = x /\ b.visited \subseteq c.visited
    BY <1>2, <2>1
  <2>10. TurnInv(target, b, c, i)
    BY <2>1, <2>5, <2>6, <2>7, <2>8, <2>9 DEF TurnInv
  <2> QED
    BY <2>10 DEF c, e
<1>10. CASE matters /\ e[2] # target /\ ~(e[2] \in Ids /\ e[2] \notin a.visited)
  <2>1. c = a
    BY <1>0, <1>10 DEF VisitMakes
  <2>2. \A j \in 1 .. i : edge_list[j][1] = x =>
          /\ edge_list[j][2] # target
          /\ edge_list[j][2] \in Ids => edge_list[j][2] \in a.visited
    BY <1>2, <1>3, <1>10 DEF e
  <2> QED
    BY <1>2, <2>1, <2>2 DEF TurnInv, e, c
<1> QED
  BY <1>7, <1>8, <1>9, <1>10

LEMMA TurnResult ==
  ASSUME edge_list \in Seq(Endpoint \X Endpoint), GraphAssumption, total_count \in Nat,
         NEW target, NEW b \in SearchState, b.queue # << >>, ~b.found
  PROVE  Scan(target, b) \in SearchState /\ TurnInv(target, b, Scan(target, b), Len(edge_list))
<1> DEFINE n == Len(edge_list)
<1>1. n \in Nat
  BY LenProperties
<1>2. PICK f \in [0 .. n -> SearchState] :
        /\ f[0] = ScanStart(b)
        /\ \A i \in 1 .. n : f[i] = Visit(target, f[i - 1], edge_list[i])
        /\ Scan(target, b) = f[n]
  BY ScanSteps
<1> DEFINE S == {m \in Nat : m <= n => TurnInv(target, b, f[m], m)}
<1>3. 0 \in S
  <2>1. /\ f[0].cur = Head(b.queue) /\ f[0].queue = Tail(b.queue)
        /\ f[0].visited = b.visited /\ f[0].found = FALSE
    BY <1>2 DEF ScanStart, SearchState
  <2>2. b.queue \in Seq(Ids) /\ b.visited \subseteq Ids
    BY SearchFields
  <2>3. Len(b.queue) \in Nat /\ Len(Tail(b.queue)) = Len(b.queue) - 1
    BY <2>2, HeadTailProperties, LenProperties
  <2>4. Cardinality(b.visited) \in Nat
    <3>1. IsFiniteSet(Ids)
      BY FS_Interval DEF Ids
    <3> QED
      BY <2>2, <3>1, FS_Subset, FS_CardinalityType
  <2>5. Cardinality(b.visited) - Len(Tail(b.queue)) = Cardinality(b.visited) - Len(b.queue) + 1
    BY <2>3, <2>4
  <2>6. TurnInv(target, b, f[0], 0)
    BY <2>1, <2>5 DEF TurnInv
  <2> QED
    BY <2>6
<1>4. ASSUME NEW m \in Nat, m \in S PROVE m + 1 \in S
  <2> SUFFICES ASSUME m + 1 <= n PROVE TurnInv(target, b, f[m + 1], m + 1)
    OBVIOUS
  <2>1. /\ m <= n /\ m + 1 \in 1 .. n /\ (m + 1) - 1 = m
        /\ TurnInv(target, b, f[m], m) /\ f[m] \in SearchState
    BY <1>1, <1>4
  <2>2. f[m + 1] = Visit(target, f[m], edge_list[m + 1])
    BY <1>2, <2>1
  <2> QED
    BY <2>1, <2>2, TurnGoesOn
<1>5. Nat \subseteq S
  <2> HIDE DEF S
  <2> QED
    BY <1>3, <1>4, SetInduction
<1>6. TurnInv(target, b, f[n], n) /\ f[n] \in SearchState
  BY <1>1, <1>5
<1> QED
  BY <1>2, <1>6

(* The outer loop: the search after each turn. *)
SearchStart(source) == [cur |-> source, queue |-> <<source>>, visited |-> {source}, found |-> FALSE]
NextTurn(target, b) == IF Over(b) THEN b ELSE Scan(target, b)

LEMMA SearchSteps ==
  ASSUME edge_list \in Seq(Endpoint \X Endpoint), GraphAssumption, total_count \in Nat,
         NEW source \in Ids, NEW target
  PROVE  \E f \in [0 .. total_count -> SearchState] :
           /\ f[0] = SearchStart(source)
           /\ \A n \in 1 .. total_count : f[n] = NextTurn(target, f[n - 1])
           /\ Search(source, target) = f[total_count]
<1> DEFINE n == total_count
           F == [i \in 1 .. n |-> [b \in SearchState |-> NextTurn(target, b)]]
           Body(f) == [i \in 0 .. n |->
                         IF i = 0 THEN SearchStart(source)
                         ELSE LET b == f[i - 1] IN IF Over(b) THEN b ELSE Scan(target, b)]
<1>1. n \in Nat
  OBVIOUS
<1>2. SearchStart(source) \in SearchState
  BY DEF SearchStart, SearchState
<1>3. ASSUME NEW b \in SearchState PROVE NextTurn(target, b) \in SearchState
  BY TurnResult DEF NextTurn, Over
<1>4. F \in [1 .. n -> [SearchState -> SearchState]]
  BY <1>3
<1> HIDE DEF n
<1>5. PICK g \in [0 .. n -> SearchState] : Iterates(g, SearchStart(source), n, F)
  <2> HIDE DEF F
  <2> QED
    BY <1>1, <1>2, <1>4, IterationExists
<1>6. \A i \in 1 .. n : g[i - 1] \in SearchState /\ F[i][g[i - 1]] = NextTurn(target, g[i - 1])
  BY <1>1
<1>7. g[0] = SearchStart(source) /\ \A i \in 1 .. n : g[i] = NextTurn(target, g[i - 1])
  <2> HIDE DEF F
  <2> QED
    BY <1>5, <1>6 DEF Iterates
<1> HIDE DEF F
<1>8. g = Body(g)
  <2>1. \A i \in 0 .. n : i # 0 => i \in 1 .. n
    BY <1>1
  <2>2. \A i \in 0 .. n : g[i] = Body(g)[i]
    BY <1>7, <2>1 DEF NextTurn
  <2> QED
    BY <2>2
<1> DEFINE f == CHOOSE h : h = Body(h)
<1>9. f = Body(f)
  BY <1>8
<1>10. Search(source, target) = f[n]
  BY DEF Search, SearchStart, n
<1> HIDE DEF f
<1>11. DOMAIN f = 0 .. n /\ f[0] = SearchStart(source)
  BY <1>1, <1>9
<1>12. \A i \in 1 .. n : f[i] = NextTurn(target, f[i - 1])
  <2>1. \A i \in 1 .. n : i \in 0 .. n /\ i # 0
    BY <1>1
  <2> QED
    BY <1>9, <2>1 DEF NextTurn
<1>13. f \in [0 .. n -> SearchState]
  <2> DEFINE S == {m \in Nat : m <= n => f[m] \in SearchState}
  <2>1. 0 \in S
    BY <1>2, <1>11
  <2>2. ASSUME NEW m \in Nat, m \in S PROVE m + 1 \in S
    <3> SUFFICES ASSUME m + 1 <= n PROVE f[m + 1] \in SearchState
      OBVIOUS
    <3>1. m <= n /\ m + 1 \in 1 .. n /\ (m + 1) - 1 = m
      BY <1>1
    <3>2. f[m + 1] = NextTurn(target, f[m])
      BY <1>12, <3>1
    <3> QED
      BY <1>3, <2>2, <3>1, <3>2
  <2>3. Nat \subseteq S
    <3> HIDE DEF S
    <3> QED
      BY <2>1, <2>2, SetInduction
  <2>4. \A i \in 0 .. n : f[i] \in SearchState
    BY <1>1, <2>3
  <2> QED
    BY <1>9, <2>4
<1> QED
  BY <1>10, <1>11, <1>12, <1>13 DEF n

(* After n turns: what was visited is reached from the source, and when    *)
(* the target was not found every edge of the ids that have left the queue *)
(* was followed.  As long as the queue is not empty n ids have left it.    *)
SearchInv(source, target, s, n) ==
  /\ source \in s.visited
  /\ Range(s.queue) \subseteq s.visited
  /\ \A S \in SUBSET Ids : source \in S /\ Closed(S) => s.visited \subseteq S
  /\ s.found => Reaches(source, target)
  /\ source # target => target \notin s.visited
  /\ ~s.found => \A e \in Edges : e[1] \in s.visited \ Range(s.queue) =>
                   e[2] # target /\ (e[2] \in Ids => e[2] \in s.visited)
  /\ ~Over(s) => Cardinality(s.visited) - Len(s.queue) = n

LEMMA SearchBegins ==
  ASSUME NEW source \in Ids, NEW target
  PROVE  SearchInv(source, target, SearchStart(source), 0)
<1> DEFINE s == SearchStart(source)
<1>1. s.visited = {source} /\ s.queue = <<source>> /\ ~s.found
  BY DEF SearchStart
<1>2. Range(<<source>>) = {source} /\ Len(<<source>>) = 1
  BY DEF Range
<1>3. Cardinality({source}) = 1
  BY FS_Singleton
<1> HIDE DEF s
<1>4. SearchInv(source, target, s, 0)
  BY <1>1, <1>2, <1>3 DEF SearchInv
<1> QED
  BY <1>4 DEF s

LEMMA SearchGoesOn ==
  ASSUME edge_list \in Seq(Endpoint \X Endpoint), GraphAssumption, total_count \in Nat,
         NEW source \in Ids, NEW target \in Ids, NEW n \in Nat,
         NEW b \in SearchState, SearchInv(source, target, b, n)
  PROVE  SearchInv(source, target, NextTurn(target, b), n + 1)
<1>1. CASE Over(b)
  BY <1>1 DEF NextTurn, SearchInv
<1>2. CASE ~Over(b)
  <2> DEFINE x == Head(b.queue)
             a == Scan(target, b)
  <2>1. b.queue # << >> /\ ~b.found
    BY <1>2 DEF Over
  <2>2. a \in SearchState /\ TurnInv(target, b, a, Len(edge_list))
    BY <2>1, TurnResult
  <2>3. Range(b.queue) = {x} \cup Range(Tail(b.queue)) /\ Range(b.queue) \subseteq b.visited
    BY <2>1, SearchFields, RangeOfTail DEF SearchInv
  <2>4. NextTurn(target, b) = a
    BY <1>2 DEF NextTurn
  <2> HIDE DEF a, x
  <2>5. /\ b.visited \subseteq a.visited
        /\ \A v \in a.visited : v \in b.visited \/ (v # target /\ <<x, v>> \in Edges)
        /\ Range(a.queue) = Range(Tail(b.queue)) \cup (a.visited \ b.visited)
        /\ Cardinality(a.visited) - Len(a.queue) = Cardinality(b.visited) - Len(b.queue) + 1
        /\ a.found => <<x, target>> \in Edges
        /\ ~a.found => \A j \in 1 .. Len(edge_list) :
                         edge_list[j][1] = x =>
                           /\ edge_list[j][2] # target
                           /\ edge_list[j][2] \in Ids => edge_list[j][2] \in a.visited
    BY <2>2 DEF TurnInv, x
  <2>6. x \in b.visited /\ a.visited \subseteq Ids
    BY <2>2, <2>3, SearchFields
  <2>7. source \in a.visited /\ Range(a.queue) \subseteq a.visited
    BY <2>3, <2>5 DEF SearchInv
  <2>8. ASSUME NEW S \in SUBSET Ids, source \in S, Closed(S)
        PROVE  a.visited \subseteq S /\ (<<x, target>> \in Edges => target \in S)
    <3>1. b.visited \subseteq S
      BY <2>8 DEF SearchInv
    <3>2. \A v \in Ids : <<x, v>> \in Edges => v \in S
      <4>1. ASSUME NEW v \in Ids, <<x, v>> \in Edges PROVE v \in S
        <5>1. <<x, v>>[1] \in S /\ <<x, v>>[2] \in Ids
          BY <2>6, <3>1
        <5>2. <<x, v>>[2] \in S
          BY <2>8, <4>1, <5>1 DEF Closed
        <5> QED
          BY <5>2
      <4> QED
        BY <4>1
    <3> QED
      BY <2>5, <2>6, <3>1, <3>2
  <2>9. a.found => Reaches(source, target)
    BY <2>5, <2>8 DEF Reaches
  <2>10. source # target => target \notin a.visited
    BY <2>5 DEF SearchInv
  <2>11. ASSUME ~a.found, NEW e \in Edges, e[1] \in a.visited \ Range(a.queue)
         PROVE  e[2] # target /\ (e[2] \in Ids => e[2] \in a.visited)
    <3>1. PICK j \in 1 .. Len(edge_list) : e = edge_list[j]
      BY LenProperties DEF Edges, Range
    <3>2. CASE e[1] = x
      BY <2>5, <2>11, <3>1, <3>2
    <3>3. CASE e[1] # x
      <4>1. e[1] \in b.visited \ Range(b.queue)
        BY <2>3, <2>5, <2>11, <3>3
      <4> QED
        BY <2>1, <2>5, <4>1 DEF SearchInv
    <3> QED
      BY <3>2, <3>3
  <2>12. Cardinality(a.visited) - Len(a.queue) = n + 1
    BY <1>2, <2>5 DEF SearchInv
  <2> QED
    BY <2>4, <2>7, <2>8, <2>9, <2>10, <2>11, <2>12 DEF SearchInv
<1> QED
  BY <1>1, <1>2

(* The search ends, and finds the target when the source reaches it. *)
LEMMA SearchIsRight ==
  ASSUME edge_list \in Seq(Endpoint \X Endpoint), GraphAssumption, total_count \in Nat,
         NEW source \in Ids, NEW target \in Ids
  PROVE  /\ Over(Search(source, target))
         /\ source # target => (Search(source, target).found <=> Reaches(source, target))
<1> DEFINE n == total_count
<1>1. PICK f \in [0 .. n -> SearchState] :
        /\ f[0] = SearchStart(source)
        /\ \A i \in 1 .. n : f[i] = NextTurn(target, f[i - 1])
        /\ Search(source, target) = f[n]
  BY SearchSteps
<1> DEFINE S == {m \in Nat : m <= n => SearchInv(source, target, f[m], m)}
<1>2. 0 \in S
  BY <1>1, SearchBegins
<1>3. ASSUME NEW m \in Nat, m \in S PROVE m + 1 \in S
  <2> SUFFICES ASSUME m + 1 <= n PROVE SearchInv(source, target, f[m + 1], m + 1)
    OBVIOUS
  <2>1. m <= n /\ m + 1 \in 1 .. n /\ (m + 1) - 1 = m /\ m \in 0 .. n
    OBVIOUS
  <2>2. f[m + 1] = NextTurn(target, f[m]) /\ f[m] \in SearchState
    BY <1>1, <2>1
  <2>3. SearchInv(source, target, f[m], m)
    BY <1>3, <2>1
  <2> QED
    BY <2>2, <2>3, SearchGoesOn
<1>4. Nat \subseteq S
  <2> HIDE DEF S
  <2> QED
    BY <1>2, <1>3, SetInduction
<1> DEFINE s == f[n]
<1>5. SearchInv(source, target, s, n) /\ s \in SearchState /\ Search(source, target) = s
  BY <1>1, <1>4
<1> HIDE DEF s, S
<1>6. s.queue \in Seq(Ids) /\ s.visited \subseteq Ids /\ s.found \in BOOLEAN
  BY <1>5, SearchFields
<1>7. Over(s)
  <2> SUFFICES ASSUME ~Over(s) PROVE FALSE
    OBVIOUS
  <2>1. Cardinality(s.visited) - Len(s.queue) = n
    BY <1>5 DEF SearchInv
  <2>2. s.queue # << >>
    BY DEF Over
  <2>3. Len(s.queue) \in Nat \ {0}
    BY <1>6, <2>2, EmptySeq
  <2>4. IsFiniteSet(Ids) /\ Cardinality(Ids) = n
    <3>1. 0 \in Int /\ n - 1 \in Int
      OBVIOUS
    <3>2. /\ IsFiniteSet(0 .. n - 1)
          /\ Cardinality(0 .. n - 1) = IF 0 > n - 1 THEN 0 ELSE (n - 1) - 0 + 1
      BY <3>1, FS_Interval
    <3> QED
      BY <3>2 DEF Ids
  <2>5. Cardinality(s.visited) <= n /\ Cardinality(s.visited) \in Nat
    BY <1>6, <2>4, FS_Subset, FS_CardinalityType
  <2> QED
    BY <2>1, <2>3, <2>5
<1>8. ASSUME source # target, ~s.found PROVE ~Reaches(source, target)
  <2>1. s.queue = << >>
    BY <1>7, <1>8 DEF Over
  <2>2. Range(s.queue) = {}
    BY <2>1 DEF Range
  <2>3. Closed(s.visited)
    BY <1>5, <1>8, <2>2 DEF SearchInv, Closed
  <2> QED
    BY <1>5, <1>6, <1>8, <2>3 DEF SearchInv, Reaches
<1>9. s.found => Reaches(source, target)
  BY <1>5 DEF SearchInv
<1> QED
  BY <1>5, <1>7, <1>8, <1>9

-----------------------------------------------------------------------------
(* The types of the graph, and the theorems.                               *)

LEMMA PlainTyped == Plain \in NodeData
BY EmptySeq DEF Plain, NodeData

(* A graph whose nodes changed one by one is one. *)
LEMMA NodesTyped ==
  ASSUME nodes \in Seq(NodeData), NEW m \in Nat, NEW new \in [1 .. m -> NodeData]
  PROVE  new \in Seq(NodeData)
BY SeqDef

LEMMA RemoveNodeTyped ==
  ASSUME GraphTypeOK, NEW n \in NodeId, remove_node(n) PROVE GraphTypeOK'
<1>1. DOMAIN nodes = 1 .. Len(nodes) /\ Len(nodes) \in Nat /\ nodes \in [1 .. Len(nodes) -> NodeData]
  BY LenProperties DEF GraphTypeOK
<1>2. nodes' \in [1 .. Len(nodes) -> NodeData]
  BY <1>1 DEF remove_node, NodeData
<1>3. nodes' \in Seq(NodeData)
  BY <1>1, <1>2, NodesTyped DEF GraphTypeOK
<1>4. edge_list' \in Seq(Endpoint \X Endpoint)
  <2> DEFINE keep == {i \in DOMAIN edge_list : ~Incident(n, edge_list[i])}
  <2>1. edge_list' = Picked(edge_list, keep)
    BY DEF remove_node
  <2> HIDE DEF keep
  <2>2. Picked(edge_list, keep) \in Seq(Endpoint \X Endpoint)
    BY PickedInOrder DEF GraphTypeOK, Selects
  <2> QED
    BY <2>1, <2>2
<1> QED
  BY <1>3, <1>4 DEF GraphTypeOK

LEMMA FirstEdge ==
  ASSUME GraphTypeOK, NEW s, NEW t, <<s, t>> \in Edges
  PROVE  \E i \in 1 .. Len(edge_list) :
           /\ RemoveFirst(edge_list, <<s, t>>) = RemoveAt(edge_list, i)
           /\ \A u, v : replace_edge(s, t, u, v) =>
                edge_list' = [edge_list EXCEPT ![i] = <<u, v>>]
<1> DEFINE I == {i \in 1 .. Len(edge_list) : edge_list[i] = <<s, t>>}
<1>1. DOMAIN edge_list = 1 .. Len(edge_list)
  BY LenProperties DEF GraphTypeOK
<1>2. I # {} /\ I \subseteq Nat
  BY <1>1 DEF Edges, Range
<1>3. RemoveFirst(edge_list, <<s, t>>) = RemoveAt(edge_list, Min(I))
  BY <1>2 DEF RemoveFirst, SelectInSeq
<1>4. ASSUME NEW u, NEW v, replace_edge(s, t, u, v)
      PROVE  edge_list' = [edge_list EXCEPT ![Min(I)] = <<u, v>>]
  BY <1>2, <1>4 DEF replace_edge, SelectInSeq
<1>5. Min(I) \in I
  <2> HIDE DEF I
  <2> QED
    BY <1>2, MinInSet
<1> QED
  BY <1>3, <1>4, <1>5

LEMMA EdgeStepsTyped ==
  ASSUME GraphTypeOK, NEW s, NEW t, NEW u \in Endpoint, NEW v \in Endpoint,
         \/ add_edge(u, v) \/ remove_edge(s, t) \/ replace_edge(s, t, u, v)
  PROVE  GraphTypeOK'
<1> DEFINE T == Endpoint \X Endpoint
<1>1. edge_list \in Seq(T) /\ nodes \in Seq(NodeData) /\ <<u, v>> \in T
  BY DEF GraphTypeOK
<1>2. CASE add_edge(u, v)
  <2>1. Append(edge_list, <<u, v>>) \in Seq(T)
    BY <1>1, AppendProperties
  <2> QED
    BY <1>1, <1>2, <2>1 DEF add_edge, GraphTypeOK
<1>3. CASE remove_edge(s, t)
  <2>1. PICK i \in 1 .. Len(edge_list) :
          RemoveFirst(edge_list, <<s, t>>) = RemoveAt(edge_list, i)
    BY <1>3, FirstEdge DEF remove_edge
  <2> HIDE DEF T
  <2>2. RemoveAt(edge_list, i) \in Seq(T)
    BY <1>1, RemovedAt
  <2> QED
    BY <1>1, <1>3, <2>1, <2>2 DEF remove_edge, GraphTypeOK, T
<1>4. CASE replace_edge(s, t, u, v)
  <2>1. <<s, t>> \in Edges /\ nodes' = nodes
    BY <1>4 DEF replace_edge
  <2>2. PICK i \in 1 .. Len(edge_list) : edge_list' = [edge_list EXCEPT ![i] = <<u, v>>]
    BY <1>4, <2>1, FirstEdge
  <2> HIDE DEF T
  <2>3. [edge_list EXCEPT ![i] = <<u, v>>] \in Seq(T)
    BY <1>1, ExceptSeq
  <2> QED
    BY <1>1, <2>1, <2>2, <2>3 DEF GraphTypeOK, T
<1> QED
  BY <1>2, <1>3, <1>4

LEMMA CreateGroupTyped ==
  ASSUME GraphTypeOK, NEW members \in Seq(Int), create_group(members), GraphAssumption
  PROVE  GraphTypeOK'
<1> DEFINE keep == {k \in DOMAIN members : valid(members[k]) \/ members[k] = total_count}
           known == Picked(members, keep)
           gid == total_count
<1>1. /\ gid \in Nat /\ gid < MaxNodes
      /\ nodes \in [1 .. gid -> NodeData]
  BY LenProperties DEF GraphTypeOK, total_count, create_group, RoomForNode
<1>2. \A k \in keep : members[k] \in NodeId
  <2>1. \A k \in DOMAIN members : members[k] \in Int
    BY LenProperties, ElementOfSeq
  <2> QED
    BY <1>1, <2>1 DEF valid, NodeId, GraphAssumption
<1>3. Selects(Int, members, keep, Len(members), known)
  BY PickedInOrder
<1>4. known \in Seq(NodeId)
  <2>1. PICK place : Places(members, keep, Len(members), known, place)
    BY <1>3 DEF Selects
  <2>2. \A k \in 1 .. Len(known) : known[k] \in NodeId
    BY <1>2, <2>1 DEF Places
  <2>3. known \in Seq(Int) /\ Len(known) \in Nat /\ known \in [1 .. Len(known) -> Int]
    BY <1>3, LenProperties DEF Selects
  <2> HIDE DEF known
  <2>4. known \in [1 .. Len(known) -> NodeId]
    BY <2>2, <2>3
  <2> QED
    BY <2>3, <2>4, SeqDef
<1>5. nodes' = GroupOf(known) /\ edge_list' = edge_list
  BY DEF create_group
<1> HIDE DEF known, keep
<1>6. GroupOf(known) \in [1 .. gid + 1 -> NodeData]
  <2> DEFINE node(i) == IF i = gid + 1
                        THEN [Plain EXCEPT !.is_group = TRUE, !.children = known]
                        ELSE nodes[i]
  <2>1. ASSUME NEW i \in 1 .. gid + 1 PROVE node(i) \in NodeData
    <3>1. CASE i = gid + 1
      BY <1>4, <3>1 DEF Plain, NodeData
    <3>2. CASE i # gid + 1
      <4>1. i \in 1 .. gid
        BY <1>1, <3>2
      <4> QED
        BY <1>1, <3>2, <4>1
    <3> QED
      BY <3>1, <3>2
  <2>2. \A d \in NodeData : [d EXCEPT !.parent_group = gid] \in NodeData
    <3>1. gid \in NodeId
      BY <1>1 DEF NodeId, GraphAssumption
    <3> HIDE DEF gid
    <3> QED
      BY <3>1 DEF NodeData
  <2>3. GroupOf(known) = [i \in 1 .. gid + 1 |->
                            IF i - 1 \in ToSet(known) THEN [node(i) EXCEPT !.parent_group = gid]
                            ELSE node(i)]
    BY DEF GroupOf
  <2> HIDE DEF node, gid
  <2> QED
    BY <2>1, <2>2, <2>3
<1>7. GroupOf(known) \in Seq(NodeData)
  <2>1. gid + 1 \in Nat
    BY <1>1
  <2> QED
    BY <1>6, <2>1, NodesTyped DEF GraphTypeOK
<1> QED
  BY <1>5, <1>7 DEF GraphTypeOK

LEMMA GraphStepTyped ==
  ASSUME GraphAssumption, GraphTypeOK, [GraphNext]_gvars PROVE GraphTypeOK'
<1>1. DOMAIN nodes = 1 .. Len(nodes) /\ Len(nodes) \in Nat /\ nodes \in [1 .. Len(nodes) -> NodeData]
  BY LenProperties DEF GraphTypeOK
<1>2. CASE add_node
  <2>1. Append(nodes, Plain) \in Seq(NodeData)
    BY PlainTyped, AppendProperties DEF GraphTypeOK
  <2> QED
    BY <1>2, <2>1 DEF add_node, GraphTypeOK
<1>3. ASSUME NEW n \in NodeId, remove_node(n) \/ delete_group(n) PROVE GraphTypeOK'
  <2>1. CASE remove_node(n)
    BY <2>1, RemoveNodeTyped
  <2>2. CASE delete_group(n)
    <3>1. nodes' \in [1 .. Len(nodes) -> NodeData]
      BY <1>1, <2>2 DEF delete_group, NodeData
    <3> QED
      BY <1>1, <2>2, <3>1, NodesTyped DEF GraphTypeOK, delete_group
  <2> QED
    BY <1>3, <2>1, <2>2
<1>4. ASSUME NEW s \in NodeId, NEW t \in NodeId, add_edge(s, t) PROVE GraphTypeOK'
  BY <1>4, EdgeStepsTyped DEF Endpoint
<1>5. ASSUME NEW e \in Edges, remove_edge(e[1], e[2]) PROVE GraphTypeOK'
  <2>1. e[1] \in Endpoint
    BY LenProperties, ElementOfSeq DEF GraphTypeOK, Edges, Range
  <2> QED
    BY <1>5, <2>1, EdgeStepsTyped
<1>6. ASSUME NEW e \in Edges, NEW s \in Targets, NEW t \in Targets,
             replace_edge(e[1], e[2], s, t)
      PROVE  GraphTypeOK'
  <2>1. s \in Endpoint /\ t \in Endpoint
    BY DEF Endpoint
  <2> QED
    BY <1>6, <2>1, EdgeStepsTyped
<1>7. ASSUME NEW members \in MemberLists, create_group(members) PROVE GraphTypeOK'
  <2>1. members \in Seq(Int)
    BY DEF GraphAssumption
  <2> QED
    BY <1>7, <2>1, CreateGroupTyped
<1>8. ASSUME NEW g \in NodeId, NEW expanded \in BOOLEAN, set_group_expanded(g, expanded)
      PROVE  GraphTypeOK'
  <2>1. nodes' \in [1 .. Len(nodes) -> NodeData]
    BY <1>1, <1>8 DEF set_group_expanded, NodeData
  <2> QED
    BY <1>1, <1>8, <2>1, NodesTyped DEF GraphTypeOK, set_group_expanded
<1>9. CASE clear
  BY <1>9, EmptySeq DEF clear, GraphTypeOK
<1>10. CASE UNCHANGED gvars
  BY <1>10 DEF gvars, GraphTypeOK, NodeData, NodeId, Endpoint
<1> QED
  BY <1>2, <1>3, <1>4, <1>5, <1>6, <1>7, <1>8, <1>9, <1>10 DEF GraphNext

LEMMA PathsRight ==
  ASSUME GraphAssumption, GraphTypeOK PROVE PathExistsIsReachability
<1>1. total_count \in Nat
  BY LenProperties DEF GraphTypeOK, total_count
<1>2. ASSUME NEW s \in visible_nodes, NEW t \in visible_nodes
      PROVE  Over(Search(s, t)) /\ (path_exists(s, t) <=> Reaches(s, t))
  <2>1. s \in Ids /\ t \in Ids /\ valid(s) /\ valid(t)
    BY DEF visible_nodes, valid, Ids
  <2>2. /\ Over(Search(s, t))
        /\ s # t => (Search(s, t).found <=> Reaches(s, t))
    BY <1>1, <2>1, SearchIsRight DEF GraphTypeOK
  <2>3. CASE s = t
    BY <2>2, <2>3 DEF path_exists, Reaches
  <2>4. CASE s # t
    BY <2>1, <2>2, <2>4 DEF path_exists
  <2> QED
    BY <2>2, <2>3, <2>4
<1> QED
  BY <1>2 DEF PathExistsIsReachability

(* path_exists: the breadth-first search of a graph always ends, and       *)
(* between live nodes it answers whether the one reaches the other, in     *)
(* every graph that add_node, remove_node, the edge operations, the groups *)
(* and clear() can build.                                                  *)
THEOREM PathsAreReachability == GraphSpec => []PathExistsIsReachability
<1>1. GraphInit => GraphTypeOK
  BY EmptySeq DEF GraphInit, GraphTypeOK
<1>2. GraphTypeOK /\ [GraphNext]_gvars => GraphTypeOK'
  BY GraphStepTyped, GraphAssumption
<1>3. GraphTypeOK => PathExistsIsReachability
  BY PathsRight, GraphAssumption
<1> QED
  BY <1>1, <1>2, <1>3, PTL DEF GraphSpec

(* A node stays alive through every step but its own end and clear(). *)
LEMMA StaysAlive ==
  ASSUME GraphAssumption, GraphTypeOK, [GraphNext]_gvars, NEW n, valid(n),
         ~clear, ~remove_node(n), ~delete_group(n)
  PROVE  valid(n)'
<1> DEFINE gid == Len(nodes)
<1>1. /\ DOMAIN nodes = 1 .. gid /\ gid \in Nat
      /\ nodes \in [1 .. gid -> NodeData]
      /\ n \in 0 .. gid - 1 /\ nodes[n + 1].alive
  BY LenProperties DEF GraphTypeOK, valid, total_count
<1>2. n + 1 \in 1 .. gid /\ nodes[n + 1] \in NodeData
  BY <1>1
<1>3. ASSUME NEW m \in Nat, m >= gid, nodes' \in Seq(NodeData), DOMAIN nodes' = 1 .. m,
             (nodes')[n + 1].alive
      PROVE  valid(n)'
  <2>1. Len(nodes') = m
    BY <1>3, LenProperties
  <2> QED
    BY <1>1, <1>3, <2>1 DEF valid, total_count
<1>4. nodes' \in Seq(NodeData)
  BY GraphStepTyped DEF GraphTypeOK
<1>e. gid \in Nat /\ gid >= gid
  BY <1>1
<1>5. CASE UNCHANGED nodes
  BY <1>5 DEF valid, total_count
<1>6. CASE add_node
  <2>1. DOMAIN nodes' = 1 .. gid + 1 /\ (nodes')[n + 1] = nodes[n + 1]
    <3>1. nodes' = Append(nodes, Plain) /\ nodes \in Seq(NodeData) /\ Plain \in NodeData
      BY <1>6, PlainTyped DEF add_node, GraphTypeOK
    <3>2. /\ Append(nodes, Plain) \in Seq(NodeData) /\ Len(Append(nodes, Plain)) = gid + 1
          /\ \A i \in 1 .. gid : Append(nodes, Plain)[i] = nodes[i]
      BY <3>1, AppendProperties
    <3> QED
      BY <1>2, <3>1, <3>2, LenProperties
  <2>2. gid + 1 \in Nat /\ gid + 1 >= gid
    BY <1>1
  <2> HIDE DEF gid
  <2> QED
    BY <1>1, <1>3, <1>4, <2>1, <2>2
<1>7. ASSUME NEW members, create_group(members) PROVE valid(n)'
  <2> DEFINE known == Picked(members, {k \in DOMAIN members :
                                         valid(members[k]) \/ members[k] = total_count})
  <2>1. nodes' = GroupOf(known)
    BY <1>7 DEF create_group
  <2> HIDE DEF known
  <2>2. DOMAIN nodes' = 1 .. gid + 1 /\ (nodes')[n + 1].alive
    <3>1. n + 1 \in 1 .. gid + 1 /\ n + 1 # gid + 1
      BY <1>1
    <3>2. \A d \in NodeData : [d EXCEPT !.parent_group = gid].alive = d.alive
      BY DEF NodeData
    <3>3. DOMAIN GroupOf(known) = 1 .. gid + 1
      BY DEF GroupOf, total_count
    <3>4. GroupOf(known)[n + 1] = IF (n + 1) - 1 \in ToSet(known)
                                  THEN [nodes[n + 1] EXCEPT !.parent_group = gid]
                                  ELSE nodes[n + 1]
      BY <3>1 DEF GroupOf, total_count
    <3> QED
      BY <1>1, <1>2, <2>1, <3>2, <3>3, <3>4
  <2>3. gid + 1 \in Nat /\ gid + 1 >= gid
    BY <1>1
  <2> HIDE DEF gid
  <2> QED
    BY <1>1, <1>3, <1>4, <2>2, <2>3
<1>8. ASSUME NEW m \in NodeId, remove_node(m) \/ delete_group(m) PROVE valid(n)'
  <2>1. m # n /\ m \in Int
    BY <1>8 DEF NodeId
  <2>2. m + 1 # n + 1
    BY <1>1, <2>1
  <2>3. CASE remove_node(m)
    <3>1. DOMAIN nodes' = 1 .. gid /\ (nodes')[n + 1].alive
      BY <1>1, <1>2, <2>2, <2>3 DEF remove_node
    <3> HIDE DEF gid
    <3> QED
      BY <1>e, <1>3, <1>4, <3>1
  <2>4. CASE delete_group(m)
    <3>1. DOMAIN nodes' = 1 .. gid /\ (nodes')[n + 1].alive
      BY <1>1, <1>2, <2>2, <2>4 DEF delete_group, NodeData
    <3> HIDE DEF gid
    <3> QED
      BY <1>e, <1>3, <1>4, <3>1
  <2> QED
    BY <1>8, <2>3, <2>4
<1>9. ASSUME NEW g, NEW expanded, set_group_expanded(g, expanded) PROVE valid(n)'
  <2>1. DOMAIN nodes' = 1 .. gid /\ (nodes')[n + 1].alive
    BY <1>1, <1>2, <1>9 DEF set_group_expanded, NodeData
  <2> HIDE DEF gid
  <2> QED
    BY <1>e, <1>3, <1>4, <2>1
<1> QED
  BY <1>5, <1>6, <1>7, <1>8, <1>9
     DEF GraphNext, gvars, add_edge, remove_edge, replace_edge

(* The step of remove_node takes all edges of the node out of the list. *)
LEMMA NoEdgeLeft ==
  ASSUME GraphTypeOK, NEW n, remove_node(n) PROVE \A e \in Edges' : ~Incident(n, e)
<1> DEFINE keep == {i \in DOMAIN edge_list : ~Incident(n, edge_list[i])}
           r == Picked(edge_list, keep)
<1>1. edge_list \in Seq(Endpoint \X Endpoint) /\ edge_list' = r
  BY DEF GraphTypeOK, remove_node
<1>2. Selects(Endpoint \X Endpoint, edge_list, keep, Len(edge_list), r)
  BY <1>1, PickedInOrder
<1> HIDE DEF r
<1>3. PICK place : Places(edge_list, keep, Len(edge_list), r, place)
  BY <1>2 DEF Selects
<1>4. DOMAIN r = 1 .. Len(r)
  BY <1>2, LenProperties DEF Selects
<1>5. \A k \in DOMAIN r : ~Incident(n, r[k])
  BY <1>3, <1>4 DEF Places
<1> QED
  BY <1>1, <1>5 DEF Edges, Range

(* remove_node takes the edges of a node with it: while an edge is in the  *)
(* list its ends stay alive, unless delete_group kills one of them.        *)
THEOREM EdgesKeepEnds == GraphSpec => EdgesKeepTheirEnds
<1> DEFINE Kept == \A e \in Edges \cap Edges' :
                     valid(e[1]) /\ valid(e[2]) =>
                       \/ (valid(e[1]) /\ valid(e[2]))'
                       \/ delete_group(e[1]) \/ delete_group(e[2])
<1>1. GraphInit => GraphTypeOK
  BY EmptySeq DEF GraphInit, GraphTypeOK
<1>2. GraphTypeOK /\ [GraphNext]_gvars => GraphTypeOK'
  BY GraphStepTyped, GraphAssumption
<1>3. GraphTypeOK /\ [GraphNext]_gvars => [Kept]_gvars
  <2> SUFFICES ASSUME GraphTypeOK, [GraphNext]_gvars, NEW e \in Edges \cap Edges',
                      valid(e[1]), valid(e[2]), ~delete_group(e[1]), ~delete_group(e[2])
               PROVE  valid(e[1])' /\ valid(e[2])'
    BY DEF valid, total_count
  <2>1. ~clear
    BY DEF clear, Edges, Range
  <2>2. ~remove_node(e[1]) /\ ~remove_node(e[2])
    BY NoEdgeLeft DEF Incident
  <2> QED
    BY <2>1, <2>2, StaysAlive, GraphAssumption
<1> HIDE DEF Kept
<1>4. GraphSpec => [][Kept]_gvars
  BY <1>1, <1>2, <1>3, PTL DEF GraphSpec
<1> QED
  BY <1>4 DEF EdgesKeepTheirEnds, Kept

(* Lines under numbers. *)
IsLines(lines) ==
  /\ DOMAIN lines \in SUBSET Nat
  /\ IsFiniteSet(DOMAIN lines)
  /\ lines \in [DOMAIN lines -> AllTexts]

(* The numbers of a side. *)
InSide(side, n) == IF side = "Anterior" THEN n < Capacity ELSE Capacity <= n

(* The numbers with a line are an interval from E_PREV on and one from     *)
(* E_NEXT on, which may meet.                                              *)
SpansTo(lines, a, b) ==
  lines \in [(0 .. a - 1) \cup (Capacity .. b - 1) -> AllTexts]
Spans(lines) == \E a \in 0 .. Capacity, b \in Nat : Capacity <= b /\ SpansTo(lines, a, b)

CommentsInv ==
  /\ Spans(extra)
  /\ comments \in [regular : AllTexts, repeatable : AllTexts]

-----------------------------------------------------------------------------
LEMMA CommentBases ==
  /\ Capacity \in Nat \ {0}
  /\ FirstNumber["Anterior"] = 0
  /\ FirstNumber["Posterior"] = Capacity
  /\ Other("Anterior") = "Posterior"
  /\ Other("Posterior") = "Anterior"
  /\ \A side \in Sides : FirstNumber[side] \in Nat /\ Other(side) \in Sides
BY CommentsAssumption DEF CommentsAssumption, FirstNumber, E_PREV, E_NEXT, Other, Sides

(* Among as many numbers as a set has elements, and one more, one is       *)
(* outside; the first of these has all before it inside.                   *)
Outside(D, H, base) == {n \in base .. base + Cardinality(D) : n \notin H}

LEMMA FirstOutside ==
  ASSUME NEW D \in SUBSET Nat, IsFiniteSet(D), NEW H \in SUBSET D, NEW base \in Nat,
         NEW g, g = Min(Outside(D, H, base))
  PROVE  /\ g \in Nat /\ base <= g /\ g \notin H
         /\ \A m \in base .. g - 1 : m \in H
<1> DEFINE c == Cardinality(D)
           W == base .. base + c
           S == {n \in W : n \notin H}
<1>1. c \in Nat
  BY FS_CardinalityType
<1>2. S # {}
  <2> SUFFICES ASSUME S = {} PROVE FALSE
    OBVIOUS
  <2>1. W \in SUBSET D
    OBVIOUS
  <2>2. Cardinality(W) <= c
    BY <2>1, FS_Subset
  <2> HIDE DEF c
  <2> DEFINE e == base + c
  <2>3. base \in Int /\ e \in Int
    BY <1>1
  <2> HIDE DEF e
  <2>4. Cardinality(base .. e) = IF base > e THEN 0 ELSE e - base + 1
    BY <2>3, FS_Interval
  <2> QED
    BY <1>1, <2>2, <2>4 DEF e
<1>3. S \subseteq Nat
  BY <1>1
<1>4. g \in S /\ \A y \in S : g <= y
  BY <1>2, <1>3, MinInSet DEF Outside
<1>5. g \in Nat /\ base <= g /\ g <= base + c /\ g \notin H
  BY <1>1, <1>4
<1>6. ASSUME NEW m \in base .. g - 1 PROVE m \in H
  <2>1. m \in W /\ ~(g <= m)
    BY <1>1, <1>5
  <2> QED
    BY <1>4, <2>1
<1> QED
  BY <1>5, <1>6

(* The first gap of some lines. *)
LEMMA GapIsFirst ==
  ASSUME NEW lines, IsLines(lines), NEW base \in Nat
  PROVE  /\ FirstGap(lines, base) \in Nat
         /\ base <= FirstGap(lines, base)
         /\ ~HasLine(lines, FirstGap(lines, base))
         /\ \A m \in base .. FirstGap(lines, base) - 1 : HasLine(lines, m)
<1> DEFINE H == {n \in DOMAIN lines : lines[n] # NoText}
<1>1. \A n : HasLine(lines, n) <=> n \in H
  BY DEF HasLine
<1>2. {n \in Window(lines, base) : ~HasLine(lines, n)}
        = Outside(DOMAIN lines, H, base)
  BY <1>1 DEF Window, Outside
<1>3. H \in SUBSET DOMAIN lines
  OBVIOUS
<1> HIDE DEF H
<1>4. FirstGap(lines, base) = Min(Outside(DOMAIN lines, H, base))
  BY <1>2 DEF FirstGap
<1>5. /\ FirstGap(lines, base) \in Nat
      /\ base <= FirstGap(lines, base)
      /\ FirstGap(lines, base) \notin H
      /\ \A m \in base .. FirstGap(lines, base) - 1 : m \in H
  <2>1. DOMAIN lines \in SUBSET Nat /\ IsFiniteSet(DOMAIN lines)
    BY DEF IsLines
  <2> DEFINE g == FirstGap(lines, base)
  <2>2. g = Min(Outside(DOMAIN lines, H, base))
    BY <1>4
  <2> HIDE DEF g
  <2>3. g \in Nat /\ base <= g /\ g \notin H /\ \A m \in base .. g - 1 : m \in H
    BY <1>3, <2>1, <2>2, FirstOutside
  <2> QED
    BY <2>3 DEF g
<1> QED
  BY <1>1, <1>5

(* The lines that a side shows. *)
LEMMA CollectedLines ==
  ASSUME NEW lines, IsLines(lines), NEW side \in Sides
  PROVE  /\ CollectFrom(lines, side) \in Seq(AllTexts)
         /\ \A i \in 1 .. Len(CollectFrom(lines, side)) :
              /\ HasLine(lines, FirstNumber[side] + i - 1)
              /\ CollectFrom(lines, side)[i] = lines[FirstNumber[side] + i - 1]
              /\ CollectFrom(lines, side)[i] # NoText
         /\ ~HasLine(lines, FirstNumber[side] + Len(CollectFrom(lines, side)))
         /\ FirstGap(lines, FirstNumber[side]) = FirstNumber[side] + Len(CollectFrom(lines, side))
<1> DEFINE base == FirstNumber[side]
           gap == FirstGap(lines, base)
           n == gap - base
           c == CollectFrom(lines, side)
<1>1. base \in Nat
  BY CommentBases
<1>2. /\ gap \in Nat /\ base <= gap /\ ~HasLine(lines, gap)
      /\ \A m \in base .. gap - 1 : HasLine(lines, m)
  BY <1>1, GapIsFirst
<1>3. c = [i \in 1 .. n |-> lines[base + i - 1]]
  BY DEF CollectFrom
<1> HIDE DEF base, gap, c
<1>4. n \in Nat /\ \A i \in 1 .. n : base + i - 1 \in base .. gap - 1
  BY <1>1, <1>2
<1>5. \A i \in 1 .. n : HasLine(lines, base + i - 1)
  BY <1>2, <1>4
<1>6. \A i \in 1 .. n : lines[base + i - 1] \in AllTexts /\ lines[base + i - 1] # NoText
  BY <1>5 DEF HasLine, IsLines
<1>7. c \in [1 .. n -> AllTexts]
  BY <1>3, <1>6
<1>8. c \in Seq(AllTexts)
  BY <1>4, <1>7
<1>9. Len(c) = n
  BY <1>4, <1>7, <1>8, LenProperties
<1>10. base + n = gap
  BY <1>1, <1>2
<1> QED
  BY <1>2, <1>3, <1>5, <1>6, <1>8, <1>9, <1>10 DEF base, gap, c

(* r is list up to its first empty text. *)
Cut(list, r) ==
  /\ r \in Seq(AllTexts)
  /\ Len(r) <= Len(list)
  /\ \A i \in 1 .. Len(r) : r[i] = list[i] /\ r[i] # NoText
  /\ Len(r) < Len(list) => list[Len(r) + 1] = NoText

LEMMA OneCut ==
  ASSUME NEW list \in Seq(AllTexts), NEW r, NEW q, Cut(list, r), Cut(list, q)
  PROVE  r = q
<1>1. Len(list) \in Nat /\ Len(r) \in Nat /\ Len(q) \in Nat
  BY LenProperties DEF Cut
<1>2. ~(Len(r) < Len(q))
  <2> SUFFICES ASSUME Len(r) < Len(q) PROVE FALSE
    OBVIOUS
  <2>1. Len(r) + 1 \in 1 .. Len(q) /\ Len(r) < Len(list)
    BY <1>1 DEF Cut
  <2> QED
    BY <2>1 DEF Cut
<1>3. ~(Len(q) < Len(r))
  <2> SUFFICES ASSUME Len(q) < Len(r) PROVE FALSE
    OBVIOUS
  <2>1. Len(q) + 1 \in 1 .. Len(r) /\ Len(q) < Len(list)
    BY <1>1 DEF Cut
  <2> QED
    BY <2>1 DEF Cut
<1>4. Len(r) = Len(q)
  BY <1>1, <1>2, <1>3
<1>5. \A i \in 1 .. Len(r) : r[i] = q[i]
  BY <1>4 DEF Cut
<1> QED
  BY <1>4, <1>5, SeqEqual DEF Cut

LEMMA UpToEmptyCuts ==
  ASSUME NEW list \in Seq(AllTexts)
  PROVE  Cut(list, UpToEmpty(list))
<1> DEFINE n == Len(list)
           S == {i \in 1 .. n + 1 : i > n \/ list[i] = NoText}
           k == Min(S)
           r == UpToEmpty(list)
<1>1. n \in Nat /\ \A i \in 1 .. n : list[i] \in AllTexts
  BY LenProperties, ElementOfSeq
<1>2. n + 1 \in S /\ S \subseteq Nat
  BY <1>1
<1>3. k \in S /\ \A y \in S : k <= y
  BY <1>2, MinInSet
<1>4. r = SubSeq(list, 1, k - 1)
  BY DEF UpToEmpty
<1> HIDE DEF k, r
<1>5. k \in 1 .. n + 1 /\ (k > n \/ list[k] = NoText)
  BY <1>3
<1>6. \A i \in 1 .. k - 1 : i \in 1 .. n /\ list[i] # NoText
  BY <1>1, <1>3, <1>5
<1>7. /\ r \in Seq(AllTexts)
      /\ Len(r) = IF 1 <= k - 1 THEN k - 1 - 1 + 1 ELSE 0
      /\ \A i \in 1 .. k - 1 - 1 + 1 : r[i] = list[1 + i - 1]
  <2>1. 1 \in Int /\ k - 1 \in Int /\ \A i \in 1 .. k - 1 : list[i] \in AllTexts
    BY <1>1, <1>5, <1>6
  <2> QED
    BY <1>4, <2>1, SubSeqProperties
<1> HIDE DEF n
<1>8. Len(r) = k - 1 /\ \A i \in 1 .. k - 1 : r[i] = list[i]
  BY <1>1, <1>5, <1>7
<1>9. Len(r) < n => list[Len(r) + 1] = NoText
  BY <1>1, <1>5, <1>8
<1> QED
  BY <1>1, <1>5, <1>6, <1>7, <1>8, <1>9 DEF Cut, n, r

(* A list without an empty text is not cut. *)
LEMMA NothingToCut ==
  ASSUME NEW list \in Seq(AllTexts), \A i \in 1 .. Len(list) : list[i] # NoText
  PROVE  UpToEmpty(list) = list
<1>1. Len(list) \in Nat
  BY LenProperties
<1>2. Cut(list, list)
  BY <1>1 DEF Cut
<1> QED
  BY <1>2, UpToEmptyCuts, OneCut

-----------------------------------------------------------------------------
(* Numbered lines in two intervals. *)
LEMMA SpansAreLines ==
  ASSUME NEW lines, Spans(lines)
  PROVE  IsLines(lines)
<1>1. PICK a \in 0 .. Capacity, b \in Nat : Capacity <= b /\ SpansTo(lines, a, b)
  BY DEF Spans
<1>2. DOMAIN lines = (0 .. a - 1) \cup (Capacity .. b - 1) /\ lines \in [DOMAIN lines -> AllTexts]
  BY <1>1 DEF SpansTo
<1>3. 0 \in Int /\ a - 1 \in Int /\ Capacity \in Int /\ b - 1 \in Int /\ Capacity \in Nat
  BY CommentBases
<1>4. IsFiniteSet(0 .. a - 1) /\ IsFiniteSet(Capacity .. b - 1)
  BY <1>3, FS_Interval
<1>5. IsFiniteSet((0 .. a - 1) \cup (Capacity .. b - 1))
  BY <1>4, FS_Union
<1>6. (0 .. a - 1) \cup (Capacity .. b - 1) \in SUBSET Nat
  BY <1>3
<1> QED
  BY <1>2, <1>5, <1>6 DEF IsLines

(* Lines stored from the first number of a side on keep the intervals.     *)
LEMMA SpansGrow ==
  ASSUME NEW lines, Spans(lines), NEW side \in Sides, NEW k \in Nat, NEW longer,
         longer \in [DOMAIN lines \cup (FirstNumber[side] .. FirstNumber[side] + k - 1) -> AllTexts]
  PROVE  Spans(longer)
<1>0. Capacity \in Nat
  BY CommentBases
<1>1. PICK a \in 0 .. Capacity, b \in Nat : Capacity <= b /\ SpansTo(lines, a, b)
  BY DEF Spans
<1>2. DOMAIN lines = (0 .. a - 1) \cup (Capacity .. b - 1)
  BY <1>1 DEF SpansTo
<1>3. CASE side = "Posterior"
  <2> DEFINE d == IF Capacity + k > b THEN Capacity + k ELSE b
  <2>1. FirstNumber[side] = Capacity
    BY <1>3, CommentBases
  <2>2. d \in Nat /\ Capacity <= d
    BY <1>0, <1>1
  <2>3. DOMAIN lines \cup (Capacity .. Capacity + k - 1) = (0 .. a - 1) \cup (Capacity .. d - 1)
    BY <1>0, <1>1, <1>2
  <2> HIDE DEF d
  <2>4. SpansTo(longer, a, d)
    BY <2>1, <2>3 DEF SpansTo
  <2> QED
    BY <1>1, <2>2, <2>4 DEF Spans
<1>4. CASE side = "Anterior"
  <2> DEFINE d == IF k > b THEN k ELSE b
             e == IF k > Capacity THEN Capacity ELSE IF k > a THEN k ELSE a
  <2>1. FirstNumber[side] = 0
    BY <1>4, CommentBases
  <2>2. d \in Nat /\ Capacity <= d /\ e \in 0 .. Capacity
    BY <1>0, <1>1
  <2>3. DOMAIN lines \cup (0 .. 0 + k - 1) = (0 .. e - 1) \cup (Capacity .. d - 1)
    <3>1. CASE k > Capacity
      BY <1>0, <1>1, <1>2, <3>1
    <3>2. CASE ~(k > Capacity)
      BY <1>0, <1>1, <1>2, <3>2
    <3> QED
      BY <3>1, <3>2
  <2> HIDE DEF d, e
  <2>4. SpansTo(longer, e, d)
    BY <2>1, <2>3 DEF SpansTo
  <2> QED
    BY <1>1, <2>2, <2>4 DEF Spans
<1> QED
  BY <1>3, <1>4 DEF Sides

(* What deleting the lines of a side leaves. *)
LEMMA DeletedLines ==
  ASSUME NEW lines, IsLines(lines), NEW base \in Nat
  PROVE  \E gap \in Nat :
           /\ base <= gap /\ gap \notin DOMAIN lines
           /\ \A m \in base .. gap - 1 : m \in DOMAIN lines
           /\ Deleted(lines, base) = [n \in DOMAIN lines \ (base .. gap - 1) |-> lines[n]]
<1> DEFINE g == Min(Outside(DOMAIN lines, DOMAIN lines, base))
<1>1. DOMAIN lines \in SUBSET Nat /\ IsFiniteSet(DOMAIN lines) /\ DOMAIN lines \in SUBSET DOMAIN lines
  BY DEF IsLines
<1>2. Deleted(lines, base) = [n \in DOMAIN lines \ (base .. g - 1) |-> lines[n]]
  BY DEF Deleted, Window, Outside
<1>3. g = Min(Outside(DOMAIN lines, DOMAIN lines, base))
  OBVIOUS
<1> HIDE DEF g
<1>4. g \in Nat /\ base <= g /\ g \notin DOMAIN lines /\ \A m \in base .. g - 1 : m \in DOMAIN lines
  BY <1>1, <1>3, FirstOutside
<1> QED
  BY <1>2, <1>4

LEMMA SpansDeleted ==
  ASSUME NEW lines, Spans(lines), NEW side \in Sides
  PROVE  Spans(Deleted(lines, FirstNumber[side]))
<1>0. Capacity \in Nat /\ FirstNumber[side] \in Nat
  BY CommentBases
<1>1. PICK a \in 0 .. Capacity, b \in Nat : Capacity <= b /\ SpansTo(lines, a, b)
  BY DEF Spans
<1>2. DOMAIN lines = (0 .. a - 1) \cup (Capacity .. b - 1) /\ \A n \in DOMAIN lines : lines[n] \in AllTexts
  BY <1>1 DEF SpansTo
<1>3. PICK gap \in Nat :
        /\ FirstNumber[side] <= gap /\ gap \notin DOMAIN lines
        /\ \A m \in FirstNumber[side] .. gap - 1 : m \in DOMAIN lines
        /\ Deleted(lines, FirstNumber[side]) = [n \in DOMAIN lines \ (FirstNumber[side] .. gap - 1) |-> lines[n]]
  BY <1>0, SpansAreLines, DeletedLines
<1> DEFINE shorter == Deleted(lines, FirstNumber[side])
<1>4. shorter \in [DOMAIN lines \ (FirstNumber[side] .. gap - 1) -> AllTexts]
  BY <1>2, <1>3
<1> HIDE DEF shorter
<1>5. CASE side = "Posterior"
  <2>1. FirstNumber[side] = Capacity
    BY <1>5, CommentBases
  <2>2. ~(gap < b) /\ ~(gap > b)
    <3>1. ASSUME gap < b PROVE FALSE
      BY <1>0, <1>1, <1>2, <1>3, <2>1, <3>1
    <3>2. ASSUME gap > b PROVE FALSE
      <4>1. b \in Capacity .. gap - 1
        BY <1>0, <1>1, <3>2
      <4>2. b \notin DOMAIN lines
        BY <1>0, <1>1, <1>2
      <4> QED
        BY <1>3, <2>1, <4>1, <4>2
    <3> QED
      BY <3>1, <3>2
  <2>3. DOMAIN lines \ (Capacity .. gap - 1) = (0 .. a - 1) \cup (Capacity .. Capacity - 1)
    BY <1>0, <1>1, <1>2, <2>2
  <2>4. SpansTo(shorter, a, Capacity)
    BY <1>4, <2>1, <2>3 DEF SpansTo
  <2> QED
    BY <1>0, <1>1, <2>4 DEF Spans, shorter
<1>6. CASE side = "Anterior" /\ a < Capacity
  <2>1. FirstNumber[side] = 0
    BY <1>6, CommentBases
  <2>2. ~(gap < a) /\ ~(gap > a)
    <3>1. ASSUME gap < a PROVE FALSE
      BY <1>0, <1>1, <1>2, <1>3, <2>1, <3>1
    <3>2. ASSUME gap > a PROVE FALSE
      <4>1. a \in 0 .. gap - 1
        BY <1>0, <1>1, <3>2
      <4>2. a \notin DOMAIN lines
        BY <1>0, <1>1, <1>2, <1>6
      <4> QED
        BY <1>3, <2>1, <4>1, <4>2
    <3> QED
      BY <3>1, <3>2
  <2>3. DOMAIN lines \ (0 .. gap - 1) = (0 .. 0 - 1) \cup (Capacity .. b - 1)
    BY <1>0, <1>1, <1>2, <1>6, <2>2
  <2>4. SpansTo(shorter, 0, b)
    BY <1>4, <2>1, <2>3 DEF SpansTo
  <2> QED
    BY <1>0, <1>1, <2>4 DEF Spans, shorter
<1>7. CASE side = "Anterior" /\ ~(a < Capacity)
  <2>1. FirstNumber[side] = 0
    BY <1>7, CommentBases
  <2>2. DOMAIN lines = 0 .. b - 1
    BY <1>0, <1>1, <1>2, <1>7
  <2>3. ~(gap < b)
    BY <1>3, <2>1, <2>2
  <2>4. DOMAIN lines \ (0 .. gap - 1) = (0 .. 0 - 1) \cup (Capacity .. Capacity - 1)
    BY <1>0, <1>1, <2>2, <2>3
  <2>5. SpansTo(shorter, 0, Capacity)
    BY <1>4, <2>1, <2>4 DEF SpansTo
  <2> QED
    BY <1>0, <1>1, <2>5 DEF Spans, shorter
<1> QED
  BY <1>5, <1>6, <1>7 DEF Sides

(* In order, the numbers of a side that have a line are those shown.       *)
LEMMA ShownNumbers ==
  ASSUME NEW lines, Spans(lines), Orderly(lines), NEW side \in Sides
  PROVE  LET last == FirstNumber[side] + Len(CollectFrom(lines, side))
         IN  /\ last \in Nat /\ FirstNumber[side] <= last /\ InSide(side, last)
             /\ \A n \in Nat : InSide(side, n) => (n \in DOMAIN lines <=> FirstNumber[side] <= n /\ n < last)
<1> DEFINE c == CollectFrom(lines, side)
           last == FirstNumber[side] + Len(c)
<1>0. Capacity \in Nat /\ FirstNumber[side] \in Nat
  BY CommentBases
<1>1. PICK a \in 0 .. Capacity, b \in Nat : Capacity <= b /\ SpansTo(lines, a, b)
  BY DEF Spans
<1>2. DOMAIN lines = (0 .. a - 1) \cup (Capacity .. b - 1)
  BY <1>1 DEF SpansTo
<1>3. IsLines(lines)
  BY SpansAreLines
<1>4. /\ c \in Seq(AllTexts)
      /\ \A i \in 1 .. Len(c) : HasLine(lines, FirstNumber[side] + i - 1)
      /\ ~HasLine(lines, last)
  BY <1>3, CollectedLines
<1>5. Len(c) \in Nat /\ last \in Nat /\ FirstNumber[side] <= last
  BY <1>0, <1>4, LenProperties
<1>6. \A n : HasLine(lines, n) <=> n \in DOMAIN lines
  BY DEF HasLine, Orderly
<1>7. last \notin DOMAIN lines
  BY <1>4, <1>6
<1>8. ASSUME NEW n \in FirstNumber[side] .. last - 1 PROVE n \in DOMAIN lines
  <2>1. n - FirstNumber[side] + 1 \in 1 .. Len(c)
    BY <1>0, <1>5
  <2>2. HasLine(lines, FirstNumber[side] + (n - FirstNumber[side] + 1) - 1)
    BY <1>4, <2>1
  <2>3. FirstNumber[side] + (n - FirstNumber[side] + 1) - 1 = n
    BY <1>0
  <2> QED
    BY <1>6, <2>2, <2>3
<1>9. side = "Anterior" => Len(c) < Capacity
  BY DEF Orderly, SidesApart
<1> HIDE DEF c, last
<1>10. CASE side = "Anterior"
  <2>1. FirstNumber[side] = 0 /\ last < Capacity
    BY <1>0, <1>5, <1>9, <1>10, CommentBases DEF last
  <2>2. last = a
    <3>1. ASSUME last < a PROVE FALSE
      BY <1>1, <1>2, <1>5, <1>7, <3>1
    <3>2. ASSUME a < last PROVE FALSE
      <4>1. a \in FirstNumber[side] .. last - 1
        BY <1>1, <1>5, <2>1, <3>2
      <4> QED
        BY <1>0, <1>1, <1>2, <1>5, <1>8, <2>1, <3>2, <4>1
    <3> QED
      BY <1>1, <1>5, <3>1, <3>2
  <2> QED
    BY <1>0, <1>1, <1>2, <1>5, <1>10, <2>1, <2>2 DEF InSide, c, last
<1>11. CASE side = "Posterior"
  <2>1. FirstNumber[side] = Capacity /\ Capacity <= last
    BY <1>0, <1>5, <1>11, CommentBases
  <2>2. last = b
    <3>1. ASSUME last < b PROVE FALSE
      BY <1>1, <1>2, <1>5, <1>7, <2>1, <3>1
    <3>2. ASSUME b < last PROVE FALSE
      <4>1. b \in FirstNumber[side] .. last - 1
        BY <1>1, <1>5, <2>1, <3>2
      <4> QED
        BY <1>0, <1>1, <1>2, <1>5, <1>8, <2>1, <3>2, <4>1
    <3> QED
      BY <1>1, <1>5, <3>1, <3>2
  <2> QED
    BY <1>0, <1>1, <1>2, <1>5, <1>11, <2>1, <2>2 DEF InSide, c, last
<1> QED
  BY <1>10, <1>11 DEF Sides

(* The lines after show list on a side, and are else those before. *)
Becomes(before, after, side, list) ==
  LET base == FirstNumber[side]
  IN  /\ IsLines(after)
      /\ list \in Seq(AllTexts)
      /\ \A i \in 1 .. Len(list) : base + i - 1 \in DOMAIN after /\ after[base + i - 1] = list[i]
      /\ InSide(side, base + Len(list)) => base + Len(list) \notin DOMAIN after
      /\ \A n \in Nat :
           ~InSide(side, n) /\ n \notin base .. base + Len(list) - 1 =>
             /\ n \in DOMAIN after <=> n \in DOMAIN before
             /\ n \in DOMAIN before => after[n] = before[n]

LEMMA BecomesShown ==
  ASSUME NEW before, NEW after, NEW side \in Sides, NEW list,
         Becomes(before, after, side, list), SidesApart(after)
  PROVE  CollectFrom(after, side) = UpToEmpty(list)
<1> DEFINE base == FirstNumber[side]
           c == CollectFrom(after, side)
           n == Len(list)
<1>0. Capacity \in Nat /\ base \in Nat
  BY CommentBases
<1>1. /\ IsLines(after) /\ list \in Seq(AllTexts)
      /\ \A i \in 1 .. n : base + i - 1 \in DOMAIN after /\ after[base + i - 1] = list[i]
      /\ InSide(side, base + n) => base + n \notin DOMAIN after
  BY DEF Becomes
<1>2. /\ c \in Seq(AllTexts)
      /\ \A i \in 1 .. Len(c) : HasLine(after, base + i - 1) /\ c[i] = after[base + i - 1] /\ c[i] # NoText
      /\ ~HasLine(after, base + Len(c))
  BY <1>1, CollectedLines
<1>3. n \in Nat /\ Len(c) \in Nat
  BY <1>1, <1>2, LenProperties
<1>4. side = "Anterior" => Len(c) < Capacity /\ base = 0
  BY CommentBases DEF SidesApart
<1>5. side = "Posterior" => base = Capacity
  BY CommentBases
<1>6. side = "Anterior" \/ side = "Posterior"
  BY DEF Sides
<1> HIDE DEF base, c, n
<1>7. ~(n < Len(c))
  <2> SUFFICES ASSUME n < Len(c) PROVE FALSE
    OBVIOUS
  <2>1. n + 1 \in 1 .. Len(c) /\ base + (n + 1) - 1 = base + n
    BY <1>0, <1>3
  <2>2. base + n \in DOMAIN after
    BY <1>2, <2>1 DEF HasLine
  <2>3. InSide(side, base + n)
    BY <1>0, <1>3, <1>4, <1>5, <1>6 DEF InSide
  <2> QED
    BY <1>1, <2>2, <2>3
<1>8. ASSUME NEW i \in 1 .. Len(c) PROVE c[i] = list[i] /\ c[i] # NoText
  <2>1. i \in 1 .. n
    BY <1>3, <1>7
  <2> QED
    BY <1>1, <1>2, <2>1
<1>9. Len(c) < n => list[Len(c) + 1] = NoText
  <2> SUFFICES ASSUME Len(c) < n PROVE list[Len(c) + 1] = NoText
    OBVIOUS
  <2>1. Len(c) + 1 \in 1 .. n /\ base + (Len(c) + 1) - 1 = base + Len(c)
    BY <1>0, <1>3
  <2>2. base + Len(c) \in DOMAIN after /\ after[base + Len(c)] = list[Len(c) + 1]
    BY <1>1, <2>1
  <2> QED
    BY <1>2, <2>2 DEF HasLine
<1>10. Cut(list, c)
  BY <1>2, <1>3, <1>7, <1>8, <1>9 DEF Cut, n
<1>11. Cut(list, UpToEmpty(list))
  BY <1>1, UpToEmptyCuts
<1>12. c = UpToEmpty(list)
  BY <1>1, <1>10, <1>11, OneCut
<1> QED
  BY <1>12 DEF c

(* When every line has text and the sides stay apart, the other side shows *)
(* what it showed.                                                         *)
LEMMA OtherSideKept ==
  ASSUME NEW before, NEW after, NEW side \in Sides, NEW list,
         Spans(before), Orderly(before), Orderly(after),
         Becomes(before, after, side, list)
  PROVE  CollectFrom(after, Other(side)) = CollectFrom(before, Other(side))
<1> DEFINE other == Other(side)
           base == FirstNumber[side]
           obase == FirstNumber[other]
           o == CollectFrom(before, other)
           c == CollectFrom(after, side)
           n == Len(list)
<1>0. /\ Capacity \in Nat /\ base \in Nat /\ obase \in Nat /\ other \in Sides
      /\ side = "Anterior" => base = 0 /\ obase = Capacity /\ other = "Posterior"
      /\ side = "Posterior" => base = Capacity /\ obase = 0 /\ other = "Anterior"
  BY CommentBases
<1>1. /\ IsLines(after) /\ list \in Seq(AllTexts)
      /\ \A i \in 1 .. n : base + i - 1 \in DOMAIN after
      /\ \A m \in Nat :
           ~InSide(side, m) /\ m \notin base .. base + n - 1 =>
             /\ m \in DOMAIN after <=> m \in DOMAIN before
             /\ m \in DOMAIN before => after[m] = before[m]
  BY DEF Becomes
<1>2. /\ c \in Seq(AllTexts) /\ ~HasLine(after, base + Len(c))
  BY <1>1, CollectedLines
<1>3. n \in Nat /\ Len(c) \in Nat
  BY <1>1, <1>2, LenProperties
<1>4. side = "Anterior" \/ side = "Posterior"
  BY DEF Sides
<1>5. IsLines(before)
  BY SpansAreLines
<1>6. /\ o \in Seq(AllTexts)
      /\ \A i \in 1 .. Len(o) : HasLine(before, obase + i - 1) /\ o[i] = before[obase + i - 1] /\ o[i] # NoText
      /\ ~HasLine(before, obase + Len(o))
  BY <1>0, <1>5, CollectedLines
<1>7. Len(o) \in Nat
  BY <1>6, LenProperties
<1>8. /\ obase + Len(o) \in Nat /\ InSide(other, obase + Len(o))
      /\ \A m \in Nat : InSide(other, m) => (m \in DOMAIN before <=> obase <= m /\ m < obase + Len(o))
  BY <1>0, ShownNumbers
<1>9. side = "Anterior" => Len(c) < Capacity
  BY DEF Orderly, SidesApart
<1>10. \A m : HasLine(after, m) <=> m \in DOMAIN after
  BY DEF HasLine, Orderly
<1>11. SidesApart(after)
  BY DEF Orderly
<1> HIDE DEF other, base, obase, o, c, n
<1>12. side = "Anterior" => n < Capacity
  <2> SUFFICES ASSUME side = "Anterior", n >= Capacity PROVE FALSE
    BY <1>0, <1>3
  <2>1. Len(c) + 1 \in 1 .. n /\ base + (Len(c) + 1) - 1 = base + Len(c)
    BY <1>0, <1>3, <1>9
  <2> QED
    BY <1>1, <1>2, <1>10, <2>1
<1>13. ASSUME NEW m \in Nat, InSide(other, m)
       PROVE  ~InSide(side, m) /\ m \notin base .. base + n - 1
  BY <1>0, <1>3, <1>4, <1>12, <1>13 DEF InSide
<1>14. ASSUME NEW i \in 1 .. Len(o) PROVE obase + i - 1 \in Nat /\ InSide(other, obase + i - 1)
  BY <1>0, <1>4, <1>7, <1>8 DEF InSide
<1>15. \A i \in 1 .. Len(o) : obase + i - 1 \in DOMAIN after /\ after[obase + i - 1] = o[i]
  BY <1>1, <1>6, <1>13, <1>14 DEF HasLine
<1>16. obase + Len(o) \notin DOMAIN before
  BY <1>8
<1>17. obase + Len(o) \notin DOMAIN after
  BY <1>1, <1>8, <1>13, <1>16
<1>18. Becomes(after, after, other, o)
  BY <1>1, <1>6, <1>15, <1>17 DEF Becomes, obase
<1>19. CollectFrom(after, other) = UpToEmpty(o)
  BY <1>0, <1>11, <1>18, BecomesShown
<1>20. UpToEmpty(o) = o
  BY <1>6, NothingToCut
<1> QED
  BY <1>19, <1>20 DEF other, o

(* The two conclusions together, for a step that made one list of another. *)
LEMMA StepOfLists ==
  ASSUME NEW before, NEW after, Spans(before), NEW s, s.side \in Sides,
         Orderly(before) /\ s.at < Capacity => \E list :
           /\ Becomes(before, after, s.side, list)
           /\ ShownAs(s, CollectFrom(before, s.side), UpToEmpty(list))
  PROVE  StepShows(s, before, after)
<1>1. ASSUME Orderly(before), SidesApart(after), s.at < Capacity
      PROVE  ShownAs(s, CollectFrom(before, s.side), CollectFrom(after, s.side))
  <2>1. PICK list : /\ Becomes(before, after, s.side, list)
                    /\ ShownAs(s, CollectFrom(before, s.side), UpToEmpty(list))
    BY <1>1
  <2>2. CollectFrom(after, s.side) = UpToEmpty(list)
    BY <1>1, <2>1, BecomesShown
  <2> QED
    BY <2>1, <2>2
<1>2. ASSUME Orderly(before), Orderly(after), s.at < Capacity
      PROVE  CollectFrom(after, Other(s.side)) = CollectFrom(before, Other(s.side))
  <2>1. PICK list : Becomes(before, after, s.side, list)
    BY <1>2
  <2> QED
    BY <1>2, <2>1, OtherSideKept
<1> QED
  BY <1>1, <1>2 DEF StepShows

-----------------------------------------------------------------------------
(* What each operation makes of the lines. *)

(* Lines that stay show what they showed.                                  *)
LEMMA Unchanged ==
  ASSUME NEW lines, Spans(lines), Orderly(lines), NEW side \in Sides
  PROVE  Becomes(lines, lines, side, CollectFrom(lines, side))
<1> DEFINE c == CollectFrom(lines, side)
           base == FirstNumber[side]
<1>1. IsLines(lines)
  BY SpansAreLines
<1>2. /\ c \in Seq(AllTexts)
      /\ \A i \in 1 .. Len(c) : HasLine(lines, base + i - 1) /\ c[i] = lines[base + i - 1]
  BY <1>1, CollectedLines
<1>3. /\ base + Len(c) \in Nat /\ InSide(side, base + Len(c))
      /\ \A n \in Nat : InSide(side, n) => (n \in DOMAIN lines <=> base <= n /\ n < base + Len(c))
  BY ShownNumbers
<1> HIDE DEF c, base
<1>4. base + Len(c) \notin DOMAIN lines
  BY <1>3
<1> QED
  BY <1>1, <1>2, <1>4 DEF Becomes, HasLine, c, base

(* A line stored at a number of the lines keeps their intervals.           *)
LEMMA StoredSpans ==
  ASSUME NEW lines, Spans(lines), NEW side \in Sides, NEW n \in Nat, FirstNumber[side] <= n,
         \A m \in FirstNumber[side] .. n - 1 : m \in DOMAIN lines, NEW text \in AllTexts
  PROVE  Spans(StoredLine(lines, n, text))
<1> DEFINE base == FirstNumber[side]
           k == n - base + 1
<1>1. base \in Nat
  BY CommentBases
<1>2. k \in Nat /\ base + k - 1 = n /\ base <= n
  BY <1>1
<1>3. IsLines(lines)
  BY SpansAreLines
<1>4. DOMAIN lines \cup {n} = DOMAIN lines \cup (base .. n)
  <2>1. \A m \in base .. n - 1 : m \in DOMAIN lines
    OBVIOUS
  <2>2. base .. n = (base .. n - 1) \cup {n}
    BY <1>1, <1>2
  <2> QED
    BY <2>1, <2>2
<1>5. \A m \in DOMAIN lines : lines[m] \in AllTexts
  BY <1>3 DEF IsLines
<1>6. StoredLine(lines, n, text) \in [DOMAIN lines \cup {n} -> AllTexts]
  BY <1>5 DEF StoredLine
<1> HIDE DEF k, base
<1>7. StoredLine(lines, n, text) \in [DOMAIN lines \cup (base .. base + k - 1) -> AllTexts]
  BY <1>2, <1>4, <1>6
<1> QED
  BY <1>2, <1>7, SpansGrow DEF base

LEMMA AddedSpans ==
  ASSUME NEW lines, Spans(lines), NEW side \in Sides, NEW text \in AllTexts
  PROVE  Spans(StoredLine(lines, FirstGap(lines, FirstNumber[side]), text))
<1> DEFINE g == FirstGap(lines, FirstNumber[side])
<1>1. FirstNumber[side] \in Nat
  BY CommentBases
<1>2. IsLines(lines)
  BY SpansAreLines
<1>3. g \in Nat /\ FirstNumber[side] <= g /\ \A m \in FirstNumber[side] .. g - 1 : HasLine(lines, m)
  BY <1>1, <1>2, GapIsFirst
<1> HIDE DEF g
<1>4. \A m \in FirstNumber[side] .. g - 1 : m \in DOMAIN lines
  BY <1>3 DEF HasLine
<1>5. Spans(StoredLine(lines, g, text))
  BY <1>3, <1>4, StoredSpans
<1> QED
  BY <1>5 DEF g

LEMMA ReplacedSpans ==
  ASSUME NEW lines, Spans(lines), NEW n \in DOMAIN lines, NEW text \in AllTexts
  PROVE  Spans(StoredLine(lines, n, text))
<1>1. PICK a \in 0 .. Capacity, b \in Nat : Capacity <= b /\ SpansTo(lines, a, b)
  BY DEF Spans
<1>2. DOMAIN lines \cup {n} = DOMAIN lines
  OBVIOUS
<1>3. SpansTo(StoredLine(lines, n, text), a, b)
  BY <1>1, <1>2 DEF SpansTo, StoredLine
<1> QED
  BY <1>1, <1>3 DEF Spans

LEMMA StoredAllSpans ==
  ASSUME NEW lines, Spans(lines), NEW side \in Sides, NEW list \in Seq(AllTexts)
  PROVE  Spans(StoredAll(lines, FirstNumber[side], list))
<1> DEFINE base == FirstNumber[side]
           k == Len(list)
           r == StoredAll(lines, base, list)
<1>1. base \in Nat /\ k \in Nat /\ \A i \in 1 .. k : list[i] \in AllTexts
  BY CommentBases, LenProperties, ElementOfSeq
<1>2. IsLines(lines)
  BY SpansAreLines
<1>3. \A m \in DOMAIN lines : lines[m] \in AllTexts
  BY <1>2 DEF IsLines
<1>4. \A m \in base .. base + k - 1 : list[m - base + 1] \in AllTexts
  BY <1>1
<1>5. r \in [DOMAIN lines \cup (base .. base + k - 1) -> AllTexts]
  BY <1>3, <1>4 DEF StoredAll
<1> HIDE DEF k, r
<1>6. Spans(r)
  BY <1>1, <1>5, SpansGrow
<1> QED
  BY <1>6 DEF r

(* Adding appends. *)
LEMMA AddedLine ==
  ASSUME NEW lines, Spans(lines), Orderly(lines), NEW side \in Sides, NEW text \in AllTexts
  PROVE  Becomes(lines, StoredLine(lines, FirstGap(lines, FirstNumber[side]), text), side,
                 Append(CollectFrom(lines, side), text))
<1> DEFINE c == CollectFrom(lines, side)
           base == FirstNumber[side]
           g == base + Len(c)
           r == StoredLine(lines, g, text)
           list == Append(c, text)
<1>0. Capacity \in Nat /\ base \in Nat
  BY CommentBases
<1>1. IsLines(lines)
  BY SpansAreLines
<1>2. /\ c \in Seq(AllTexts)
      /\ \A i \in 1 .. Len(c) : HasLine(lines, base + i - 1) /\ c[i] = lines[base + i - 1]
      /\ FirstGap(lines, base) = g
  BY <1>1, CollectedLines
<1>3. /\ g \in Nat /\ InSide(side, g)
      /\ \A n \in Nat : InSide(side, n) => (n \in DOMAIN lines <=> base <= n /\ n < g)
  BY ShownNumbers
<1>4. Len(c) \in Nat
  BY <1>2, LenProperties
<1>5. /\ list \in Seq(AllTexts) /\ Len(list) = Len(c) + 1
      /\ \A i \in 1 .. Len(c) : list[i] = c[i]
      /\ list[Len(c) + 1] = text
  BY <1>2, AppendProperties
<1>6. Spans(StoredLine(lines, FirstGap(lines, base), text))
  BY AddedSpans
<1>7. IsLines(r)
  BY <1>2, <1>6, SpansAreLines
<1>8. /\ DOMAIN r = DOMAIN lines \cup {g}
      /\ r[g] = text
      /\ \A m \in DOMAIN lines : m # g => r[m] = lines[m]
  BY DEF StoredLine
<1> HIDE DEF c, base, r, list
<1>9. ASSUME NEW i \in 1 .. Len(list) PROVE base + i - 1 \in DOMAIN r /\ r[base + i - 1] = list[i]
  <2>1. CASE i = Len(c) + 1
    <3>1. base + i - 1 = g
      BY <1>0, <1>4, <2>1
    <3> QED
      BY <1>5, <1>8, <2>1, <3>1
  <2>2. CASE i # Len(c) + 1
    <3>1. i \in 1 .. Len(c) /\ base + i - 1 # g
      BY <1>0, <1>4, <1>5, <2>2
    <3>2. base + i - 1 \in DOMAIN lines /\ lines[base + i - 1] = c[i]
      BY <1>2, <3>1 DEF HasLine
    <3> QED
      BY <1>5, <1>8, <3>1, <3>2
  <2> QED
    BY <2>1, <2>2
<1>10. InSide(side, base + Len(list)) => base + Len(list) \notin DOMAIN r
  <2>1. base + Len(list) = g + 1 /\ g + 1 \in Nat /\ g + 1 # g /\ ~(g + 1 < g)
    BY <1>0, <1>3, <1>4, <1>5
  <2> QED
    BY <1>3, <1>8, <2>1
<1>11. ASSUME NEW n \in Nat, ~InSide(side, n)
       PROVE  /\ n \in DOMAIN r <=> n \in DOMAIN lines
              /\ n \in DOMAIN lines => r[n] = lines[n]
  BY <1>3, <1>8, <1>11
<1>12. Becomes(lines, r, side, list)
  BY <1>5, <1>7, <1>9, <1>10, <1>11 DEF Becomes, base
<1> QED
  BY <1>2, <1>12 DEF r, list, c, base

LEMMA AddedShown ==
  ASSUME NEW c \in Seq(AllTexts), \A i \in 1 .. Len(c) : c[i] # NoText, NEW text \in AllTexts
  PROVE  UpToEmpty(Append(c, text)) = c \o UpToEmpty(<<text>>)
<1> DEFINE list == Append(c, text)
<1>1. /\ Len(c) \in Nat
      /\ list \in Seq(AllTexts) /\ Len(list) = Len(c) + 1
      /\ \A i \in 1 .. Len(c) : list[i] = c[i]
      /\ list[Len(c) + 1] = text
  BY AppendProperties, LenProperties
<1>2. <<text>> \in Seq(AllTexts) /\ Len(<<text>>) = 1 /\ <<text>>[1] = text
  OBVIOUS
<1> HIDE DEF list
<1>3. CASE text = NoText
  <2>1. Cut(list, c)
    BY <1>1, <1>3 DEF Cut
  <2>2. Cut(<<text>>, << >>)
    BY <1>2, <1>3 DEF Cut
  <2>3. Cut(list, UpToEmpty(list)) /\ Cut(<<text>>, UpToEmpty(<<text>>))
    BY <1>1, <1>2, UpToEmptyCuts
  <2>4. UpToEmpty(list) = c
    BY <1>1, <2>1, <2>3, OneCut
  <2>5. UpToEmpty(<<text>>) = << >>
    BY <1>2, <2>2, <2>3, OneCut
  <2>6. c \o << >> = c
    BY ConcatEmptySeq
  <2> QED
    BY <2>4, <2>5, <2>6 DEF list
<1>4. CASE text # NoText
  <2>1. \A i \in 1 .. Len(list) : list[i] # NoText
    BY <1>1, <1>4
  <2>2. UpToEmpty(list) = list
    BY <1>1, <2>1, NothingToCut
  <2> DEFINE one == <<text>>
  <2>3. UpToEmpty(one) = one
    <3>1. one \in Seq(AllTexts) /\ \A i \in 1 .. Len(one) : one[i] # NoText
      BY <1>2, <1>4
    <3> HIDE DEF one
    <3> QED
      BY <3>1, NothingToCut
  <2>4. list = c \o <<text>>
    BY AppendIsConcat DEF list
  <2> QED
    BY <2>2, <2>3, <2>4 DEF list
<1> QED
  BY <1>3, <1>4

(* Replacing a line that is there replaces it in the list.                 *)
LEMMA ReplacedLine ==
  ASSUME NEW lines, Spans(lines), Orderly(lines), NEW side \in Sides, NEW text \in AllTexts,
         NEW index \in Nat, index < Capacity, HasLine(lines, FirstNumber[side] + index)
  PROVE  Becomes(lines, StoredLine(lines, FirstNumber[side] + index, text), side,
                 [CollectFrom(lines, side) EXCEPT ![index + 1] = text])
<1> DEFINE c == CollectFrom(lines, side)
           base == FirstNumber[side]
           at == base + index
           r == StoredLine(lines, at, text)
           list == [c EXCEPT ![index + 1] = text]
<1>0. /\ Capacity \in Nat /\ base \in Nat /\ at \in Nat
      /\ side = "Anterior" => base = 0
      /\ side = "Posterior" => base = Capacity
      /\ side = "Anterior" \/ side = "Posterior"
  BY CommentBases DEF Sides
<1>1. IsLines(lines)
  BY SpansAreLines
<1>2. /\ c \in Seq(AllTexts)
      /\ \A i \in 1 .. Len(c) : HasLine(lines, base + i - 1) /\ c[i] = lines[base + i - 1]
  BY <1>1, CollectedLines
<1>3. /\ base + Len(c) \in Nat /\ InSide(side, base + Len(c))
      /\ \A n \in Nat : InSide(side, n) => (n \in DOMAIN lines <=> base <= n /\ n < base + Len(c))
  BY ShownNumbers
<1>4. Len(c) \in Nat /\ DOMAIN c = 1 .. Len(c) /\ c \in [1 .. Len(c) -> AllTexts]
  BY <1>2, LenProperties
<1>5. at \in DOMAIN lines
  BY DEF HasLine
<1>6. Spans(r)
  BY <1>5, ReplacedSpans
<1>7. IsLines(r)
  BY <1>6, SpansAreLines
<1>8. /\ DOMAIN r = DOMAIN lines
      /\ r[at] = text
      /\ \A m \in DOMAIN lines : m # at => r[m] = lines[m]
  BY <1>5 DEF StoredLine
<1>9. list \in [1 .. Len(c) -> AllTexts]
  BY <1>4
<1>10. list \in Seq(AllTexts) /\ Len(list) = Len(c)
  <2>1. list \in Seq(AllTexts)
    BY <1>4, <1>9
  <2> QED
    BY <1>4, <1>9, <2>1, LenProperties
<1>11. \A i \in 1 .. Len(c) : list[i] = IF i = index + 1 THEN text ELSE c[i]
  BY <1>4
<1>12. InSide(side, at)
  BY <1>0 DEF InSide
<1> HIDE DEF c, base, r, list
<1>13. ASSUME NEW i \in 1 .. Len(list) PROVE base + i - 1 \in DOMAIN r /\ r[base + i - 1] = list[i]
  <2>1. base + i - 1 = at <=> i = index + 1
    BY <1>0
  <2>2. i \in 1 .. Len(c)
    BY <1>10
  <2>3. base + i - 1 \in DOMAIN lines /\ lines[base + i - 1] = c[i]
    BY <1>2, <2>2 DEF HasLine
  <2> QED
    BY <1>8, <1>11, <2>1, <2>2, <2>3
<1>14. base + Len(list) \notin DOMAIN r
  BY <1>3, <1>8, <1>10
<1>15. ASSUME NEW n \in Nat, ~InSide(side, n)
       PROVE  /\ n \in DOMAIN r <=> n \in DOMAIN lines
              /\ n \in DOMAIN lines => r[n] = lines[n]
  BY <1>8, <1>12, <1>15
<1>16. Becomes(lines, r, side, list)
  BY <1>7, <1>10, <1>13, <1>14, <1>15 DEF Becomes, base
<1> QED
  BY <1>16 DEF r, list, c, base

(* Deleting the lines of a side, and storing others, shows those.          *)
LEMMA ClearedSide ==
  ASSUME NEW lines, Spans(lines), Orderly(lines), NEW side \in Sides
  PROVE  \A n \in Nat :
           /\ n \in DOMAIN Deleted(lines, FirstNumber[side]) <=> n \in DOMAIN lines /\ ~InSide(side, n)
           /\ n \in DOMAIN Deleted(lines, FirstNumber[side]) =>
                Deleted(lines, FirstNumber[side])[n] = lines[n]
<1> DEFINE base == FirstNumber[side]
           last == base + Len(CollectFrom(lines, side))
           d == Deleted(lines, base)
<1>0. /\ Capacity \in Nat /\ base \in Nat
      /\ side = "Anterior" => base = 0
      /\ side = "Posterior" => base = Capacity
      /\ side = "Anterior" \/ side = "Posterior"
  BY CommentBases DEF Sides
<1>1. IsLines(lines)
  BY SpansAreLines
<1>2. PICK gap \in Nat :
        /\ base <= gap /\ gap \notin DOMAIN lines
        /\ \A m \in base .. gap - 1 : m \in DOMAIN lines
        /\ d = [n \in DOMAIN lines \ (base .. gap - 1) |-> lines[n]]
  BY <1>0, <1>1, DeletedLines
<1>3. /\ last \in Nat /\ base <= last /\ InSide(side, last)
      /\ \A n \in Nat : InSide(side, n) => (n \in DOMAIN lines <=> base <= n /\ n < last)
  BY ShownNumbers
<1> HIDE DEF base, last, d
<1>4. ~(gap < last)
  <2> SUFFICES ASSUME gap < last PROVE FALSE
    OBVIOUS
  <2>1. InSide(side, gap)
    BY <1>0, <1>2, <1>3 DEF InSide
  <2> QED
    BY <1>2, <1>3, <2>1
<1>5. ~(last < gap)
  <2> SUFFICES ASSUME last < gap PROVE FALSE
    OBVIOUS
  <2>1. last \in base .. gap - 1
    BY <1>0, <1>3
  <2> QED
    BY <1>2, <1>3, <2>1
<1>6. gap = last
  BY <1>2, <1>3, <1>4, <1>5
<1>7. \A n \in Nat : n \in DOMAIN lines => (n \in base .. gap - 1 <=> InSide(side, n))
  BY <1>0, <1>3, <1>6 DEF InSide
<1>8. /\ DOMAIN d = DOMAIN lines \ (base .. gap - 1)
      /\ \A n \in DOMAIN d : d[n] = lines[n]
  BY <1>2
<1>9. \A n \in Nat :
        /\ n \in DOMAIN d <=> n \in DOMAIN lines /\ ~InSide(side, n)
        /\ n \in DOMAIN d => d[n] = lines[n]
  BY <1>7, <1>8
<1> QED
  BY <1>9 DEF d, base

LEMMA ClearedLines ==
  ASSUME NEW lines, Spans(lines), Orderly(lines), NEW side \in Sides
  PROVE  Becomes(lines, Deleted(lines, FirstNumber[side]), side, << >>)
<1> DEFINE base == FirstNumber[side]
           d == Deleted(lines, base)
<1>1. IsLines(d)
  BY SpansDeleted, SpansAreLines
<1>2. \A n \in Nat : /\ n \in DOMAIN d <=> n \in DOMAIN lines /\ ~InSide(side, n)
                     /\ n \in DOMAIN d => d[n] = lines[n]
  BY ClearedSide
<1>3. base \in Nat
  BY CommentBases
<1>4. << >> \in Seq(AllTexts) /\ Len(<< >>) = 0 /\ base + 0 = base
  BY <1>3
<1> HIDE DEF d, base
<1>5. Becomes(lines, d, side, << >>)
  BY <1>1, <1>2, <1>3, <1>4 DEF Becomes, base
<1> QED
  BY <1>5 DEF d, base

LEMMA ListedLines ==
  ASSUME NEW lines, Spans(lines), Orderly(lines), NEW side \in Sides, NEW list \in Seq(AllTexts)
  PROVE  Becomes(lines, StoredAll(Deleted(lines, FirstNumber[side]), FirstNumber[side], list), side, list)
<1> DEFINE base == FirstNumber[side]
           d == Deleted(lines, base)
           r == StoredAll(d, base, list)
           n == Len(list)
<1>0. /\ Capacity \in Nat /\ base \in Nat /\ n \in Nat
      /\ side = "Anterior" => base = 0
      /\ side = "Posterior" => base = Capacity
      /\ side = "Anterior" \/ side = "Posterior"
  BY CommentBases, LenProperties DEF Sides
<1>1. Spans(d)
  BY SpansDeleted
<1>2. Spans(r)
  BY <1>1, StoredAllSpans
<1>3. IsLines(r) /\ IsLines(d)
  BY <1>1, <1>2, SpansAreLines
<1>4. \A m \in Nat : /\ m \in DOMAIN d <=> m \in DOMAIN lines /\ ~InSide(side, m)
                     /\ m \in DOMAIN d => d[m] = lines[m]
  BY ClearedSide
<1> HIDE DEF d
<1>5. /\ DOMAIN r = DOMAIN d \cup (base .. base + n - 1)
      /\ \A m \in base .. base + n - 1 : r[m] = list[m - base + 1]
      /\ \A m \in DOMAIN d : m \notin base .. base + n - 1 => r[m] = d[m]
  BY DEF StoredAll
<1> HIDE DEF base, r, n
<1>6. ASSUME NEW i \in 1 .. n PROVE base + i - 1 \in DOMAIN r /\ r[base + i - 1] = list[i]
  <2>1. base + i - 1 \in base .. base + n - 1 /\ (base + i - 1) - base + 1 = i
    BY <1>0
  <2> QED
    BY <1>5, <2>1
<1>7. InSide(side, base + n) => base + n \notin DOMAIN r
  <2>1. base + n \in Nat /\ base + n \notin base .. base + n - 1
    BY <1>0
  <2> QED
    BY <1>4, <1>5, <2>1
<1>8. ASSUME NEW m \in Nat, ~InSide(side, m), m \notin base .. base + n - 1
      PROVE  /\ m \in DOMAIN r <=> m \in DOMAIN lines
             /\ m \in DOMAIN lines => r[m] = lines[m]
  BY <1>4, <1>5, <1>8
<1>9. Becomes(lines, r, side, list)
  BY <1>3, <1>6, <1>7, <1>8 DEF Becomes, base, n
<1> QED
  BY <1>9 DEF r, d, base

(* The first lines of a list show a part of what the list shows.           *)
LEMMA PartShown ==
  ASSUME NEW list \in Seq(AllTexts), NEW n \in 0 .. Len(list)
  PROVE  /\ SubSeq(list, 1, n) \in Seq(AllTexts)
         /\ IsPrefix(UpToEmpty(SubSeq(list, 1, n)), UpToEmpty(list))
         /\ n = Len(list) => SubSeq(list, 1, n) = list
<1> DEFINE part == SubSeq(list, 1, n)
           q == UpToEmpty(part)
           r == UpToEmpty(list)
<1>1. Len(list) \in Nat /\ n \in Nat /\ \A i \in 1 .. Len(list) : list[i] \in AllTexts
  BY LenProperties, ElementOfSeq
<1>2. /\ part \in Seq(AllTexts)
      /\ Len(part) = IF 1 <= n THEN n - 1 + 1 ELSE 0
      /\ \A i \in 1 .. n - 1 + 1 : part[i] = list[1 + i - 1]
  <2>1. 1 \in Int /\ n \in Int /\ \A i \in 1 .. n : list[i] \in AllTexts
    BY <1>1
  <2> QED
    BY <2>1, SubSeqProperties
<1> HIDE DEF part
<1>3. Len(part) = n /\ \A i \in 1 .. n : part[i] = list[i]
  BY <1>1, <1>2
<1>4. Cut(part, q) /\ Cut(list, r)
  BY <1>2, UpToEmptyCuts
<1> HIDE DEF q, r
<1>5. Len(q) \in Nat /\ Len(r) \in Nat /\ q \in Seq(AllTexts) /\ r \in Seq(AllTexts)
  BY <1>4, LenProperties DEF Cut
<1>6. Len(q) <= n /\ \A i \in 1 .. Len(q) : q[i] = list[i] /\ q[i] # NoText
  BY <1>1, <1>3, <1>4, <1>5 DEF Cut
<1>7. ~(Len(r) < Len(q))
  <2> SUFFICES ASSUME Len(r) < Len(q) PROVE FALSE
    OBVIOUS
  <2>1. Len(r) + 1 \in 1 .. Len(q) /\ Len(r) < Len(list)
    BY <1>1, <1>5, <1>6
  <2> QED
    BY <1>4, <1>6, <2>1 DEF Cut
<1>8. \A i \in 1 .. Len(q) : q[i] = r[i]
  <2>1. \A i \in 1 .. Len(q) : i \in 1 .. Len(r)
    BY <1>5, <1>7
  <2> QED
    BY <1>4, <1>6, <2>1 DEF Cut
<1>9. SubSeq(r, 1, Len(q)) = q
  <2>1. \A i \in 1 .. Len(q) : r[i] \in AllTexts
    BY <1>5, <1>7, ElementOfSeq
  <2>2. 1 \in Int /\ Len(q) \in Int
    BY <1>5
  <2>3. /\ SubSeq(r, 1, Len(q)) \in Seq(AllTexts)
        /\ Len(SubSeq(r, 1, Len(q))) = IF 1 <= Len(q) THEN Len(q) - 1 + 1 ELSE 0
        /\ \A i \in 1 .. Len(q) - 1 + 1 : SubSeq(r, 1, Len(q))[i] = r[1 + i - 1]
    BY <2>1, <2>2, SubSeqProperties
  <2> DEFINE u == SubSeq(r, 1, Len(q))
  <2> HIDE DEF u
  <2>4. u \in Seq(AllTexts) /\ Len(u) = Len(q) /\ \A i \in 1 .. Len(u) : u[i] = q[i]
    BY <1>5, <1>8, <2>3 DEF u
  <2>5. u = q
    BY <1>5, <2>4, SeqEqual
  <2> QED
    BY <2>5 DEF u
<1>10. Len(q) <= Len(r)
  BY <1>5, <1>7
<1>11. IsPrefix(q, r)
  BY <1>9, <1>10 DEF IsPrefix
<1>12. n = Len(list) => part = list
  BY <1>2, <1>3, SeqEqual
<1> QED
  BY <1>2, <1>11, <1>12 DEF part, q, r

-----------------------------------------------------------------------------
(* Whatever is there is rendered.                                          *)
LEMMA ConcatElements ==
  ASSUME NEW C, NEW s \in Seq(C), NEW r \in Seq(C)
  PROVE  s \o r \in Seq(C) /\ ToSet(s \o r) = ToSet(s) \cup ToSet(r)
<1> DEFINE u == s \o r
<1>1. /\ Len(s) \in Nat /\ Len(r) \in Nat
      /\ DOMAIN s = 1 .. Len(s) /\ DOMAIN r = 1 .. Len(r)
  BY LenProperties
<1>2. /\ u \in Seq(C) /\ Len(u) = Len(s) + Len(r)
      /\ \A i \in 1 .. Len(s) + Len(r) : u[i] = IF i <= Len(s) THEN s[i] ELSE r[i - Len(s)]
  BY ConcatProperties
<1> HIDE DEF u
<1>3. DOMAIN u = 1 .. Len(s) + Len(r)
  BY <1>2, LenProperties
<1>4. ASSUME NEW x \in ToSet(u) PROVE x \in ToSet(s) \cup ToSet(r)
  <2>1. PICK i \in 1 .. Len(s) + Len(r) : x = u[i]
    BY <1>3 DEF ToSet
  <2>2. CASE i <= Len(s)
    <3>1. i \in DOMAIN s /\ x = s[i]
      BY <1>1, <1>2, <2>1, <2>2
    <3> QED
      BY <3>1 DEF ToSet
  <2>3. CASE ~(i <= Len(s))
    <3>1. i - Len(s) \in DOMAIN r /\ x = r[i - Len(s)]
      BY <1>1, <1>2, <2>1, <2>3
    <3> QED
      BY <3>1 DEF ToSet
  <2> QED
    BY <2>2, <2>3
<1>5. ASSUME NEW x \in ToSet(s) PROVE x \in ToSet(u)
  <2>1. PICK i \in 1 .. Len(s) : x = s[i]
    BY <1>1 DEF ToSet
  <2>2. i \in DOMAIN u /\ u[i] = x
    BY <1>1, <1>2, <1>3, <2>1
  <2> QED
    BY <2>2 DEF ToSet
<1>6. ASSUME NEW x \in ToSet(r) PROVE x \in ToSet(u)
  <2>1. PICK i \in 1 .. Len(r) : x = r[i]
    BY <1>1 DEF ToSet
  <2>2. i + Len(s) \in DOMAIN u /\ u[i + Len(s)] = x
    <3>1. i + Len(s) \in 1 .. Len(s) + Len(r) /\ ~(i + Len(s) <= Len(s)) /\ i + Len(s) - Len(s) = i
      BY <1>1
    <3> QED
      BY <1>2, <1>3, <2>1, <3>1
  <2> QED
    BY <2>2 DEF ToSet
<1> QED
  BY <1>2, <1>4, <1>5, <1>6 DEF u

LEMMA PickedElements ==
  ASSUME NEW C, NEW s \in Seq(C), NEW keep
  PROVE  /\ Picked(s, keep) \in Seq(C)
         /\ ToSet(Picked(s, keep)) = {s[i] : i \in DOMAIN s \cap keep}
<1> DEFINE r == Picked(s, keep)
<1>1. Selects(C, s, keep, Len(s), r)
  BY PickedInOrder
<1>2. DOMAIN s = 1 .. Len(s)
  BY LenProperties
<1> HIDE DEF r
<1>3. PICK place : Places(s, keep, Len(s), r, place)
  BY <1>1 DEF Selects
<1>4. r \in Seq(C) /\ DOMAIN r = 1 .. Len(r)
  BY <1>1, LenProperties DEF Selects
<1>5. ASSUME NEW x \in ToSet(r) PROVE \E i \in DOMAIN s \cap keep : x = s[i]
  <2>1. PICK k \in 1 .. Len(r) : x = r[k]
    BY <1>4 DEF ToSet
  <2> QED
    BY <1>2, <1>3, <2>1 DEF Places
<1>6. ASSUME NEW i \in DOMAIN s \cap keep PROVE s[i] \in ToSet(r)
  <2>1. PICK k \in 1 .. Len(r) : place[k] = i
    BY <1>2, <1>3 DEF Places
  <2>2. r[k] = s[i]
    BY <1>3, <2>1 DEF Places
  <2> QED
    BY <1>4, <2>2 DEF ToSet
<1> QED
  BY <1>4, <1>5, <1>6 DEF r

RenderedFrom(one, other, lines) ==
  LET texts == IF other = one THEN <<one>> ELSE <<one, other>>
  IN  Picked(texts, {i \in DOMAIN texts : texts[i] # NoText})
        \o CollectFrom(lines, "Anterior") \o CollectFrom(lines, "Posterior")

LEMMA AllRendered ==
  ASSUME NEW one \in AllTexts, NEW other \in AllTexts, NEW lines, Spans(lines)
  PROVE  ToSet(RenderedFrom(one, other, lines))
           = (ToSet(CollectFrom(lines, "Anterior")) \cup ToSet(CollectFrom(lines, "Posterior"))
               \cup {one, other}) \ {NoText}
<1> DEFINE texts == IF other = one THEN <<one>> ELSE <<one, other>>
           keep == {i \in DOMAIN texts : texts[i] # NoText}
           p == Picked(texts, keep)
           a == CollectFrom(lines, "Anterior")
           b == CollectFrom(lines, "Posterior")
<1>1. texts \in Seq(AllTexts)
  OBVIOUS
<1>2. {texts[i] : i \in DOMAIN texts \cap keep} = {one, other} \ {NoText}
  <2>1. CASE other = one
    <3>1. DOMAIN texts = {1} /\ texts[1] = one
      BY <2>1
    <3> HIDE DEF texts
    <3> QED
      BY <2>1, <3>1
  <2>2. CASE other # one
    <3>1. DOMAIN texts = {1, 2} /\ texts[1] = one /\ texts[2] = other
      BY <2>2
    <3> HIDE DEF texts
    <3> QED
      BY <3>1
  <2> QED
    BY <2>1, <2>2
<1>3. RenderedFrom(one, other, lines) = p \o a \o b
  BY DEF RenderedFrom
<1> HIDE DEF texts, keep
<1>4. p \in Seq(AllTexts) /\ ToSet(p) = {one, other} \ {NoText}
  <2>1. p \in Seq(AllTexts) /\ ToSet(p) = {texts[i] : i \in DOMAIN texts \cap keep}
    BY <1>1, PickedElements
  <2> QED
    BY <1>2, <2>1
<1>5. IsLines(lines)
  BY SpansAreLines
<1>6. ASSUME NEW side \in Sides
      PROVE  CollectFrom(lines, side) \in Seq(AllTexts) /\ NoText \notin ToSet(CollectFrom(lines, side))
  <2> DEFINE c == CollectFrom(lines, side)
  <2>1. c \in Seq(AllTexts) /\ \A i \in 1 .. Len(c) : c[i] # NoText
    BY <1>5, CollectedLines
  <2> HIDE DEF c
  <2>2. DOMAIN c = 1 .. Len(c)
    BY <2>1, LenProperties
  <2>3. NoText \notin ToSet(c)
    BY <2>1, <2>2 DEF ToSet
  <2> QED
    BY <2>1, <2>3 DEF c
<1>7. /\ a \in Seq(AllTexts) /\ NoText \notin ToSet(a)
      /\ b \in Seq(AllTexts) /\ NoText \notin ToSet(b)
  BY <1>6 DEF Sides
<1> HIDE DEF p, a, b
<1>8. p \o a \in Seq(AllTexts) /\ ToSet(p \o a) = ToSet(p) \cup ToSet(a)
  BY <1>4, <1>7, ConcatElements
<1>9. ToSet(p \o a \o b) = ToSet(p \o a) \cup ToSet(b)
  <2> DEFINE pa == p \o a
  <2>1. pa \in Seq(AllTexts)
    BY <1>8
  <2> HIDE DEF pa
  <2>2. ToSet(pa \o b) = ToSet(pa) \cup ToSet(b)
    BY <1>7, <2>1, ConcatElements
  <2> QED
    BY <2>2 DEF pa
<1>10. ToSet(p \o a \o b) = (ToSet(a) \cup ToSet(b) \cup {one, other}) \ {NoText}
  BY <1>4, <1>7, <1>8, <1>9
<1> QED
  BY <1>3, <1>10 DEF a, b

-----------------------------------------------------------------------------
(* The steps. *)
LinesStep == Spans(extra') /\ StepShows(step', extra, extra') /\ (step'.op = "none" => extra' = extra)

(* A step that leaves the lines, and says so.                              *)
LEMMA NothingChanges ==
  ASSUME NEW lines, Spans(lines), NEW s, s.side \in Sides,
         Orderly(lines) /\ s.at < Capacity =>
           ShownAs(s, CollectFrom(lines, s.side), CollectFrom(lines, s.side))
  PROVE  StepShows(s, lines, lines)
<1>1. ASSUME Orderly(lines), s.at < Capacity
      PROVE  \E list : /\ Becomes(lines, lines, s.side, list)
                       /\ ShownAs(s, CollectFrom(lines, s.side), UpToEmpty(list))
  <2> DEFINE c == CollectFrom(lines, s.side)
  <2>1. Becomes(lines, lines, s.side, c)
    BY <1>1, Unchanged
  <2>2. IsLines(lines)
    BY SpansAreLines
  <2>3. c \in Seq(AllTexts) /\ \A i \in 1 .. Len(c) : c[i] # NoText
    BY <2>2, CollectedLines
  <2>4. ShownAs(s, c, c)
    BY <1>1
  <2> HIDE DEF c
  <2>5. UpToEmpty(c) = c
    BY <2>3, NothingToCut
  <2>6. ShownAs(s, c, UpToEmpty(c))
    BY <2>4, <2>5
  <2> QED
    BY <2>1, <2>6 DEF c
<1> QED
  BY <1>1, StepOfLists

LEMMA CommentStep ==
  ASSUME CommentsInv, step' = Idle, extra' = extra
  PROVE  LinesStep
<1>1. step'.side \in Sides /\ step'.op = "none" /\ step'.at = 0
  BY DEF Idle, Sides
<1>2. \A c : ShownAs(step', c, c)
  BY <1>1 DEF ShownAs
<1>3. StepShows(step', extra, extra)
  BY <1>1, <1>2, NothingChanges DEF CommentsInv
<1> QED
  BY <1>3 DEF LinesStep, CommentsInv

LEMMA AddStep ==
  ASSUME CommentsInv, NEW side \in Sides, NEW text \in AllTexts, AddLine(side, text)
  PROVE  LinesStep
<1>1. Spans(extra)
  BY DEF CommentsInv
<1>2. step' = [op |-> "add", side |-> side, at |-> 0, lines |-> <<text>>, result |-> "ok"]
  BY DEF AddLine, Did
<1>3. step'.op = "add" /\ step'.side = side /\ step'.lines = <<text>>
  BY <1>2
<1>4. CASE extra' = extra
  <2>1. \A c : ShownAs(step', c, c)
    BY <1>3 DEF ShownAs
  <2>2. StepShows(step', extra, extra)
    BY <1>1, <1>3, <2>1, NothingChanges
  <2> QED
    BY <1>1, <1>3, <1>4, <2>2 DEF LinesStep
<1>5. CASE extra' = StoredLine(extra, FirstGap(extra, FirstNumber[side]), text)
  <2> DEFINE k == StoredLine(extra, FirstGap(extra, FirstNumber[side]), text)
             c == CollectFrom(extra, side)
  <2>1. Spans(k)
    BY <1>1, AddedSpans
  <2>2. ASSUME Orderly(extra)
        PROVE  \E list : Becomes(extra, k, side, list) /\ ShownAs(step', c, UpToEmpty(list))
    <3>1. Becomes(extra, k, side, Append(c, text))
      BY <1>1, <2>2, AddedLine
    <3>2. IsLines(extra)
      BY <1>1, SpansAreLines
    <3>3. c \in Seq(AllTexts) /\ \A i \in 1 .. Len(c) : c[i] # NoText
      BY <3>2, CollectedLines
    <3> HIDE DEF c, k
    <3>4. UpToEmpty(Append(c, text)) = c \o UpToEmpty(<<text>>)
      BY <3>3, AddedShown
    <3>5. ShownAs(step', c, UpToEmpty(Append(c, text)))
      BY <1>3, <3>4 DEF ShownAs
    <3> QED
      BY <3>1, <3>5
  <2>3. StepShows(step', extra, k)
    <3> HIDE DEF k
    <3> QED
      BY <1>1, <1>3, <2>2, StepOfLists
  <2> QED
    BY <1>3, <1>5, <2>1, <2>3 DEF LinesStep
<1> QED
  BY <1>4, <1>5 DEF AddLine

LEMMA SetStep ==
  ASSUME CommentsInv, NEW side \in Sides, NEW index \in Int, NEW text \in AllTexts,
         SetLine(side, index, text)
  PROVE  LinesStep
<1>1. Spans(extra)
  BY DEF CommentsInv
<1>2. CASE extra' = extra /\ Did("set", side, index, <<text>>, "error")
  <2>1. step'.op = "set" /\ step'.side = side /\ step'.result = "error"
    BY <1>2 DEF Did
  <2>2. \A c : ShownAs(step', c, c)
    BY <2>1 DEF ShownAs
  <2>3. StepShows(step', extra, extra)
    BY <1>1, <2>1, <2>2, NothingChanges
  <2> QED
    BY <1>1, <1>2, <2>1, <2>3 DEF LinesStep
<1>3. CASE /\ index >= 0 /\ HasLine(extra, FirstNumber[side] + index)
           /\ extra' = StoredLine(extra, FirstNumber[side] + index, text)
           /\ Did("set", side, index, <<text>>, "ok")
  <2> DEFINE k == StoredLine(extra, FirstNumber[side] + index, text)
             c == CollectFrom(extra, side)
             list == [c EXCEPT ![index + 1] = text]
  <2>1. /\ step'.op = "set" /\ step'.side = side /\ step'.result = "ok" /\ step'.at = index
        /\ step'.lines = <<text>> /\ <<text>>[1] = text
    BY <1>3 DEF Did
  <2>2. FirstNumber[side] + index \in DOMAIN extra
    BY <1>3 DEF HasLine
  <2>3. Spans(k)
    BY <1>1, <2>2, ReplacedSpans
  <2>4. ASSUME Orderly(extra), step'.at < Capacity
        PROVE  \E l : Becomes(extra, k, side, l) /\ ShownAs(step', c, UpToEmpty(l))
    <3>1. index \in Nat /\ index < Capacity
      BY <1>3, <2>1, <2>4
    <3>2. Becomes(extra, k, side, list)
      BY <1>1, <1>3, <2>4, <3>1, ReplacedLine
    <3>3. ShownAs(step', c, UpToEmpty(list))
      <4> HIDE DEF c
      <4> QED
        BY <2>1 DEF ShownAs
    <3> QED
      BY <3>2, <3>3
  <2>5. StepShows(step', extra, k)
    <3> HIDE DEF k
    <3> QED
      BY <1>1, <2>1, <2>4, StepOfLists
  <2> QED
    BY <1>3, <2>1, <2>3, <2>5 DEF LinesStep
<1> QED
  BY <1>2, <1>3 DEF SetLine

(* A list that is set in full, or up to a refusal, on behalf of operation  *)
(* op, of which a client is shown a list or a part of it.                  *)
LEMMA ListStep ==
  ASSUME CommentsInv, NEW side \in Sides, NEW list \in Seq(AllTexts), NEW op, NEW at \in Int,
         op # "none",
         set_extra_lines(side, list, op, at),
         Orderly(extra) => \A r, new :
           /\ r = "ok" => new = UpToEmpty(list)
           /\ r = "error" => IsPrefix(new, UpToEmpty(list))
           /\ r \in {"ok", "error"}
           => ShownAs([op |-> op, side |-> side, at |-> at, lines |-> list, result |-> r],
                      CollectFrom(extra, side), new)
  PROVE  LinesStep
<1>1. Spans(extra)
  BY DEF CommentsInv
<1>2. PICK n \in 0 .. Len(list) :
        /\ extra' = StoredAll(Deleted(extra, FirstNumber[side]), FirstNumber[side], SubSeq(list, 1, n))
        /\ Did(op, side, at, list, IF n = Len(list) THEN "ok" ELSE "error")
  BY DEF set_extra_lines
<1> DEFINE part == SubSeq(list, 1, n)
           r == IF n = Len(list) THEN "ok" ELSE "error"
           k == StoredAll(Deleted(extra, FirstNumber[side]), FirstNumber[side], part)
           c == CollectFrom(extra, side)
<1>3. /\ part \in Seq(AllTexts)
      /\ IsPrefix(UpToEmpty(part), UpToEmpty(list))
      /\ n = Len(list) => part = list
  BY PartShown
<1>4. step' = [op |-> op, side |-> side, at |-> at, lines |-> list, result |-> r]
  BY <1>2 DEF Did
<1>5. step'.op # "none" /\ step'.side = side
  BY <1>4
<1>6. r \in {"ok", "error"} /\ (r = "ok" => n = Len(list))
  OBVIOUS
<1>7. extra' = k
  BY <1>2
<1> HIDE DEF part, r
<1>8. Spans(k)
  <2>1. Spans(Deleted(extra, FirstNumber[side]))
    BY <1>1, SpansDeleted
  <2> QED
    BY <1>3, <2>1, StoredAllSpans
<1>9. ASSUME Orderly(extra)
      PROVE  \E l : Becomes(extra, k, side, l) /\ ShownAs(step', c, UpToEmpty(l))
  <2>1. Becomes(extra, k, side, part)
    BY <1>1, <1>3, <1>9, ListedLines
  <2>2. r = "ok" => UpToEmpty(part) = UpToEmpty(list)
    BY <1>3, <1>6
  <2>3. ShownAs(step', c, UpToEmpty(part))
    BY <1>3, <1>4, <1>6, <1>9, <2>2
  <2> QED
    BY <2>1, <2>3
<1>10. StepShows(step', extra, k)
  <2> HIDE DEF k
  <2> QED
    BY <1>1, <1>5, <1>9, StepOfLists
<1> QED
  BY <1>5, <1>7, <1>8, <1>10 DEF LinesStep

LEMMA SetLinesStep ==
  ASSUME CommentsInv, NEW side \in Sides, NEW list \in Seq(AllTexts), SetLines(side, list)
  PROVE  LinesStep
<1>1. ASSUME NEW r, NEW new, NEW c,
             r = "ok" => new = UpToEmpty(list),
             r = "error" => IsPrefix(new, UpToEmpty(list)),
             r \in {"ok", "error"}
      PROVE  ShownAs([op |-> "lines", side |-> side, at |-> 0, lines |-> list, result |-> r], c, new)
  BY <1>1 DEF ShownAs
<1> QED
  BY <1>1, ListStep DEF SetLines

LEMMA RemoveLineStep ==
  ASSUME CommentsInv, NEW side \in Sides, NEW index \in Int, RemoveLine(side, index)
  PROVE  LinesStep
<1> DEFINE c == CollectFrom(extra, side)
<1>1. Spans(extra)
  BY DEF CommentsInv
<1>2. IsLines(extra)
  BY <1>1, SpansAreLines
<1>3. c \in Seq(AllTexts) /\ \A i \in 1 .. Len(c) : c[i] # NoText
  BY <1>2, CollectedLines
<1>4. c = collect_extra_lines(side)
  BY DEF collect_extra_lines
<1>5. CASE extra' = extra /\ Did("remove", side, index, c, "error")
  <2>1. step'.op = "remove" /\ step'.side = side /\ step'.result = "error"
    BY <1>5 DEF Did
  <2>2. \A d : ShownAs(step', d, d)
    BY <2>1 DEF ShownAs
  <2>3. StepShows(step', extra, extra)
    BY <1>1, <2>1, <2>2, NothingChanges
  <2> QED
    BY <1>1, <1>5, <2>1, <2>3 DEF LinesStep
<1>6. CASE /\ index >= 0 /\ index < Len(c)
           /\ set_extra_lines(side, RemoveAt(c, index + 1), "remove", index)
  <2> DEFINE list == RemoveAt(c, index + 1)
  <2>1. Len(c) \in Nat /\ index + 1 \in 1 .. Len(c)
    BY <1>3, <1>6, LenProperties
  <2>2. /\ list \in Seq(AllTexts)
        /\ Len(list) = Len(c) - 1
        /\ \A j \in 1 .. Len(c) - 1 : list[j] = IF j < index + 1 THEN c[j] ELSE c[j + 1]
    <3> HIDE DEF c
    <3> QED
      BY <1>3, <2>1, RemovedAt
  <2>3. \A j \in 1 .. Len(list) : list[j] # NoText
    <3> HIDE DEF c, list
    <3> QED
      BY <1>3, <2>1, <2>2
  <2>4. UpToEmpty(list) = list
    <3> HIDE DEF list
    <3> QED
      BY <2>2, <2>3, NothingToCut
  <2>5. ASSUME NEW r, NEW new,
               r = "ok" => new = UpToEmpty(list),
               r = "error" => IsPrefix(new, UpToEmpty(list)),
               r \in {"ok", "error"}
        PROVE  ShownAs([op |-> "remove", side |-> side, at |-> index, lines |-> list, result |-> r], c, new)
    BY <2>4, <2>5 DEF ShownAs
  <2>6. set_extra_lines(side, list, "remove", index)
    BY <1>6
  <2> HIDE DEF list
  <2> QED
    BY <2>2, <2>5, <2>6, ListStep
<1> QED
  BY <1>4, <1>5, <1>6 DEF RemoveLine

LEMMA ClearStep ==
  ASSUME CommentsInv, NEW side \in Sides, ClearLines(side)
  PROVE  LinesStep
<1> DEFINE k == Deleted(extra, FirstNumber[side])
           c == CollectFrom(extra, side)
<1>1. Spans(extra)
  BY DEF CommentsInv
<1>2. /\ step'.op = "clear" /\ step'.side = side /\ step'.lines = << >> /\ step'.result = "ok"
      /\ extra' = k
  BY DEF ClearLines, Did
<1>3. Spans(k)
  BY <1>1, SpansDeleted
<1>4. ASSUME Orderly(extra)
      PROVE  \E l : Becomes(extra, k, side, l) /\ ShownAs(step', c, UpToEmpty(l))
  <2>1. Becomes(extra, k, side, << >>)
    BY <1>1, <1>4, ClearedLines
  <2>2. ShownAs(step', c, UpToEmpty(<< >>))
    <3> HIDE DEF c
    <3> QED
      BY <1>2 DEF ShownAs
  <2> QED
    BY <2>1, <2>2
<1>5. StepShows(step', extra, k)
  <2> HIDE DEF k
  <2> QED
    BY <1>1, <1>2, <1>4, StepOfLists
<1> QED
  BY <1>2, <1>3, <1>5 DEF LinesStep

LEMMA EveryLinesStep ==
  ASSUME CommentsInv, CommentOperation
  PROVE  LinesStep /\ CommentsInv'
<1>1. comments \in [regular : AllTexts, repeatable : AllTexts]
  BY DEF CommentsInv
<1>2. ASSUME NEW which \in {"regular", "repeatable"}, NEW text \in AllTexts, SetComment(which, text)
      PROVE  LinesStep /\ CommentsInv'
  <2>1. extra' = extra /\ step' = Idle /\ comments' = [comments EXCEPT ![which] = text]
    BY <1>2 DEF SetComment
  <2>2. comments' \in [regular : AllTexts, repeatable : AllTexts]
    <3>1. CASE which = "regular"
      BY <1>1, <2>1, <3>1
    <3>2. CASE which = "repeatable"
      BY <1>1, <2>1, <3>2
    <3> QED
      BY <3>1, <3>2
  <2> QED
    BY <2>1, <2>2, CommentStep DEF CommentsInv
<1>3. ASSUME LinesStep, comments' = comments PROVE LinesStep /\ CommentsInv'
  BY <1>1, <1>3 DEF LinesStep, CommentsInv
<1>4. NoText \in AllTexts /\ Texts \subseteq AllTexts
  BY DEF AllTexts
<1>5. CASE \E which \in {"regular", "repeatable"}, text \in Texts : SetComment(which, text)
  BY <1>2, <1>4, <1>5
<1>6. CASE \E which \in {"regular", "repeatable"} : RemoveComment(which)
  BY <1>2, <1>4, <1>6 DEF RemoveComment
<1>7. CASE \E side \in Sides, text \in AllTexts : AddLine(side, text)
  <2>1. PICK side \in Sides, text \in AllTexts : AddLine(side, text)
    BY <1>7
  <2>2. comments' = comments
    BY <2>1 DEF AddLine
  <2> QED
    BY <1>3, <2>1, <2>2, AddStep
<1>8. CASE \E side \in Sides, index \in -1 .. Capacity, text \in AllTexts : SetLine(side, index, text)
  <2>1. PICK side \in Sides, index \in -1 .. Capacity, text \in AllTexts : SetLine(side, index, text)
    BY <1>8
  <2>2. comments' = comments
    BY <2>1 DEF SetLine
  <2> QED
    BY <1>3, <2>1, <2>2, SetStep
<1>9. CASE \E side \in Sides, index \in -1 .. Capacity : RemoveLine(side, index)
  <2>1. PICK side \in Sides, index \in -1 .. Capacity : RemoveLine(side, index)
    BY <1>9
  <2>2. comments' = comments
    BY <2>1 DEF RemoveLine, set_extra_lines
  <2> QED
    BY <1>3, <2>1, <2>2, RemoveLineStep
<1>10. CASE \E side \in Sides, list \in Lists : SetLines(side, list)
  <2>1. PICK side \in Sides, list \in Lists : SetLines(side, list)
    BY <1>10
  <2>2. list \in Seq(AllTexts)
    <3>1. PICK n \in 0 .. MaxLines : list \in [1 .. n -> AllTexts]
      BY DEF Lists
    <3>2. n \in Nat
      BY CommentsAssumption DEF CommentsAssumption
    <3> QED
      BY <3>1, <3>2
  <2>3. comments' = comments
    BY <2>1 DEF SetLines, set_extra_lines
  <2> QED
    BY <1>3, <2>1, <2>2, <2>3, SetLinesStep
<1>11. CASE \E side \in Sides : ClearLines(side)
  <2>1. PICK side \in Sides : ClearLines(side)
    BY <1>11
  <2>2. comments' = comments
    BY <2>1 DEF ClearLines
  <2> QED
    BY <1>3, <2>1, <2>2, ClearStep
<1> QED
  BY <1>5, <1>6, <1>7, <1>8, <1>9, <1>10, <1>11 DEF CommentOperation

-----------------------------------------------------------------------------
(* The extra lines of an address (src/src/comment.cpp) through any number  *)
(* of operations, refused ones among them: a client sees the lines it      *)
(* asked for on the side it named, those of the other side stay, and all   *)
(* of them are rendered with the comments.                                 *)
THEOREM LinesAreAsAsked ==
  CommentsSpec => CommentLinesSound
<1>1. CommentsInit => CommentsInv
  <2> SUFFICES ASSUME CommentsInit PROVE CommentsInv
    OBVIOUS
  <2>1. 0 \in 0 .. Capacity /\ Capacity \in Nat /\ Capacity <= Capacity
    BY CommentBases
  <2>2. (0 .. 0 - 1) \cup (Capacity .. Capacity - 1) = {}
    BY <2>1
  <2>3. SpansTo(extra, 0, Capacity)
    BY <2>2 DEF SpansTo, CommentsInit
  <2>4. Spans(extra)
    BY <2>1, <2>3 DEF Spans
  <2> QED
    BY <2>4 DEF CommentsInv, CommentsInit, AllTexts
<1>2. CommentsInv /\ [CommentsNext]_commentvars => CommentsInv'
  <2> SUFFICES ASSUME CommentsInv, [CommentsNext]_commentvars PROVE CommentsInv'
    OBVIOUS
  <2>1. CASE CommentsNext
    BY <2>1, EveryLinesStep DEF CommentsNext
  <2>2. CASE UNCHANGED commentvars
    BY <2>2 DEF CommentsInv, commentvars
  <2> QED
    BY <2>1, <2>2
<1> DEFINE Sound ==
             /\ StepShows(step', extra, extra')
             /\ step'.op = "none" => extra' = extra
             /\ ToSet(render') = (ToSet(CollectFrom(extra', "Anterior"))
                                    \cup ToSet(CollectFrom(extra', "Posterior"))
                                    \cup {comments'.regular, comments'.repeatable}) \ {NoText}
<1>3. CommentsInv /\ CommentsInv' /\ [CommentsNext]_commentvars => [steps' # steps => Sound]_commentvars
  <2> SUFFICES ASSUME CommentsInv, CommentsInv', CommentsNext PROVE Sound
    BY DEF commentvars
  <2>1. LinesStep
    BY EveryLinesStep DEF CommentsNext
  <2>2. /\ comments' \in [regular : AllTexts, repeatable : AllTexts]
        /\ Spans(extra')
    BY DEF CommentsInv
  <2>3. comments'.regular \in AllTexts /\ comments'.repeatable \in AllTexts
    BY <2>2
  <2>4. render' = RenderedFrom(comments'.regular, comments'.repeatable, extra')
    BY DEF render, RenderedComments, RenderedFrom, collect_extra_lines
  <2>5. ToSet(RenderedFrom(comments'.regular, comments'.repeatable, extra'))
          = (ToSet(CollectFrom(extra', "Anterior")) \cup ToSet(CollectFrom(extra', "Posterior"))
              \cup {comments'.regular, comments'.repeatable}) \ {NoText}
    BY <2>2, <2>3, AllRendered
  <2> QED
    BY <2>1, <2>4, <2>5 DEF LinesStep
<1> QED
  BY <1>1, <1>2, <1>3, PTL DEF CommentsSpec, CommentLinesSound

-----------------------------------------------------------------------------
(* FunctionListing: what its lists are made of.                            *)

(* The members of a set stand in a list, each once.                        *)
Enumerates(s, S) ==
  /\ s \in Seq(S)
  /\ Len(s) = Cardinality(S)
  /\ IsInjective(s)
  /\ Range(s) = S

(* A key that tells the members of a finite set apart puts them in order:  *)
(* the number of members with a smaller key is the place of a member.      *)
LEMMA OrderEnumerates ==
  ASSUME NEW S, IsFiniteSet(S), NEW key \in [S -> Nat],
         \A x, y \in S : key[x] = key[y] => x = y
  PROVE  Enumerates(InOrderOf(S, key), S)
<1> DEFINE n == Cardinality(S)
           Below(x) == {y \in S : key[y] < key[x]}
           rank == [x \in S |-> Cardinality(Below(x))]
           r == InOrderOf(S, key)
<1>1. n \in Nat
  BY FS_CardinalityType
<1>2. ASSUME NEW x \in S
      PROVE  /\ IsFiniteSet(Below(x)) /\ Cardinality(Below(x)) \in Nat
             /\ Cardinality(Below(x)) < n
  <2>1. Below(x) \in SUBSET S /\ x \notin Below(x)
    OBVIOUS
  <2>2. IsFiniteSet(S \ {x}) /\ Cardinality(S \ {x}) = n - 1
    BY FS_RemoveElement
  <2>3. Below(x) \in SUBSET (S \ {x})
    BY <2>1
  <2> HIDE DEF Below
  <2>4. IsFiniteSet(Below(x)) /\ Cardinality(Below(x)) <= n - 1
    BY <2>2, <2>3, FS_Subset
  <2>5. Cardinality(Below(x)) \in Nat
    BY <2>4, FS_CardinalityType
  <2> QED
    BY <1>1, <2>4, <2>5
<1>3. \A x, y \in S : key[x] < key[y] => Cardinality(Below(x)) < Cardinality(Below(y))
  <2> SUFFICES ASSUME NEW x \in S, NEW y \in S, key[x] < key[y]
               PROVE  Cardinality(Below(x)) < Cardinality(Below(y))
    OBVIOUS
  <2>1. Below(x) \in SUBSET Below(y) /\ x \in Below(y) /\ x \notin Below(x)
    OBVIOUS
  <2>2. IsFiniteSet(Below(x)) /\ IsFiniteSet(Below(y))
        /\ Cardinality(Below(x)) \in Nat /\ Cardinality(Below(y)) \in Nat
    BY <1>2
  <2> HIDE DEF Below
  <2>3. /\ Cardinality(Below(x)) <= Cardinality(Below(y))
        /\ Cardinality(Below(y)) = Cardinality(Below(x)) => Below(y) = Below(x)
    BY <2>1, <2>2, FS_Subset
  <2> QED
    BY <2>1, <2>2, <2>3
<1>4. rank \in [S -> 0 .. n - 1]
  <2> HIDE DEF Below
  <2> QED
    BY <1>1, <1>2
<1>5. \A x, y \in S : rank[x] = rank[y] => x = y
  <2> SUFFICES ASSUME NEW x \in S, NEW y \in S, rank[x] = rank[y] PROVE x = y
    OBVIOUS
  <2> DEFINE a == Cardinality(Below(x))
             b == Cardinality(Below(y))
  <2>1. a = b
    OBVIOUS
  <2>2. a \in Nat /\ b \in Nat
    BY <1>2
  <2>3. (key[x] < key[y] => a < b) /\ (key[y] < key[x] => b < a)
    <3> HIDE DEF Below
    <3> QED
      BY <1>3
  <2> HIDE DEF a, b
  <2>4. key[x] \in Nat /\ key[y] \in Nat
    OBVIOUS
  <2>5. key[x] = key[y]
    BY <2>1, <2>2, <2>3, <2>4
  <2> QED
    BY <2>5
<1>6. \A i \in 0 .. n - 1 : \E x \in S : rank[x] = i
  <2>1. rank \in Injection(S, 0 .. n - 1)
    <3> HIDE DEF rank
    <3> QED
      BY <1>4, <1>5 DEF Injection, IsInjective
  <2>2. IsFiniteSet(0 .. n - 1) /\ Cardinality(0 .. n - 1) = n
    <3> DEFINE b == n - 1
    <3>1. b \in Int /\ 0 \in Int
      BY <1>1
    <3> HIDE DEF b
    <3>2. IsFiniteSet(0 .. b) /\ Cardinality(0 .. b) = IF 0 > b THEN 0 ELSE b - 0 + 1
      BY <3>1, FS_Interval
    <3>3. b = n - 1
      BY DEF b
    <3> HIDE DEF n
    <3> QED
      BY <1>1, <3>2, <3>3
  <2> HIDE DEF rank, n
  <2>3. rank \in Surjection(S, 0 .. n - 1)
    BY <2>1, <2>2, FS_Injection DEF n
  <2> QED
    BY <2>3 DEF Surjection
<1>7. \A i \in 1 .. n : r[i] \in S /\ rank[r[i]] = i - 1
  <2> SUFFICES ASSUME NEW i \in 1 .. n PROVE r[i] \in S /\ rank[r[i]] = i - 1
    OBVIOUS
  <2>1. r[i] = CHOOSE x \in S : Cardinality(Below(x)) = i - 1
    BY DEF InOrderOf
  <2>2. i - 1 \in 0 .. n - 1
    BY <1>1
  <2>3. \E x \in S : Cardinality(Below(x)) = i - 1
    BY <1>6, <2>2
  <2> HIDE DEF Below, r
  <2>4. r[i] \in S /\ Cardinality(Below(r[i])) = i - 1
    BY <2>1, <2>3
  <2> QED
    BY <2>4
<1>8. r = [i \in 1 .. n |-> r[i]]
  <2> DEFINE Member(i) == CHOOSE x \in S : Cardinality({y \in S : key[y] < key[x]}) = i - 1
  <2>1. r = [i \in 1 .. n |-> Member(i)]
    BY DEF InOrderOf
  <2> HIDE DEF Member, r, n
  <2> QED
    BY <2>1
<1> HIDE DEF r, rank, n
<1>9. r \in [1 .. n -> S]
  BY <1>7, <1>8
<1>10. r \in Seq(S) /\ Len(r) = n /\ DOMAIN r = 1 .. n
  BY <1>1, <1>9
<1>11. IsInjective(r)
  <2> SUFFICES ASSUME NEW i \in 1 .. n, NEW j \in 1 .. n, r[i] = r[j] PROVE i = j
    BY <1>10 DEF IsInjective
  <2> QED
    BY <1>1, <1>7
<1>12. Range(r) = S
  <2>1. \A x \in S : \E i \in 1 .. n : r[i] = x
    <3> SUFFICES ASSUME NEW x \in S PROVE \E i \in 1 .. n : r[i] = x
      OBVIOUS
    <3>1. rank[x] \in 0 .. n - 1
      BY <1>4
    <3>2. rank[x] + 1 \in 1 .. n /\ (rank[x] + 1) - 1 = rank[x]
      BY <1>1, <3>1
    <3> QED
      BY <1>5, <1>7, <3>2
  <2> QED
    BY <1>9, <1>10, <2>1 DEF Range
<1> QED
  BY <1>10, <1>11, <1>12 DEF Enumerates, n, r

-----------------------------------------------------------------------------
(* One list behind another.                                                *)
LEMMA ConcatRange ==
  ASSUME NEW C, NEW s \in Seq(C), NEW t \in Seq(C)
  PROVE  Range(s \o t) = Range(s) \cup Range(t)
<1> DEFINE r == s \o t
           m == Len(s)
           n == Len(t)
<1>1. /\ r \in Seq(C) /\ Len(r) = m + n /\ m \in Nat /\ n \in Nat
      /\ \A i \in 1 .. m + n : r[i] = IF i <= m THEN s[i] ELSE t[i - m]
      /\ DOMAIN s = 1 .. m /\ DOMAIN t = 1 .. n /\ DOMAIN r = 1 .. Len(r)
  BY ConcatProperties, LenProperties
<1> HIDE DEF r, m, n
<1>2. \A i \in 1 .. m + n : r[i] \in Range(s) \cup Range(t)
  <2> SUFFICES ASSUME NEW i \in 1 .. m + n PROVE r[i] \in Range(s) \cup Range(t)
    OBVIOUS
  <2>1. CASE i <= m
    <3>1. i \in 1 .. m /\ r[i] = s[i]
      BY <1>1, <2>1
    <3> QED
      BY <1>1, <3>1 DEF Range
  <2>2. CASE ~(i <= m)
    <3>1. i - m \in 1 .. n /\ r[i] = t[i - m]
      BY <1>1, <2>2
    <3> QED
      BY <1>1, <3>1 DEF Range
  <2> QED
    BY <2>1, <2>2
<1>3. \A i \in 1 .. m : s[i] \in Range(r)
  <2> SUFFICES ASSUME NEW i \in 1 .. m PROVE s[i] \in Range(r)
    OBVIOUS
  <2>1. i \in 1 .. m + n /\ r[i] = s[i]
    BY <1>1
  <2> QED
    BY <1>1, <2>1 DEF Range
<1>4. \A i \in 1 .. n : t[i] \in Range(r)
  <2> SUFFICES ASSUME NEW i \in 1 .. n PROVE t[i] \in Range(r)
    OBVIOUS
  <2>1. m + i \in 1 .. m + n /\ ~(m + i <= m) /\ (m + i) - m = i
    BY <1>1
  <2>2. r[m + i] = t[i]
    BY <1>1, <2>1
  <2> QED
    BY <1>1, <2>1, <2>2 DEF Range
<1>5. Range(r) \subseteq Range(s) \cup Range(t)
  BY <1>1, <1>2 DEF Range
<1>6. Range(s) \subseteq Range(r) /\ Range(t) \subseteq Range(r)
  <2>1. Range(s) \subseteq Range(r)
    BY <1>1, <1>3 DEF Range
  <2>2. Range(t) \subseteq Range(r)
    BY <1>1, <1>4 DEF Range
  <2> QED
    BY <2>1, <2>2
<1> QED
  BY <1>5, <1>6 DEF r

LEMMA ConcatInjective ==
  ASSUME NEW C, NEW s \in Seq(C), NEW t \in Seq(C), IsInjective(s), IsInjective(t),
         Range(s) \cap Range(t) = {}
  PROVE  IsInjective(s \o t)
<1> DEFINE r == s \o t
           m == Len(s)
           n == Len(t)
<1>1. /\ r \in Seq(C) /\ Len(r) = m + n /\ m \in Nat /\ n \in Nat
      /\ \A i \in 1 .. m + n : r[i] = IF i <= m THEN s[i] ELSE t[i - m]
      /\ DOMAIN s = 1 .. m /\ DOMAIN t = 1 .. n /\ DOMAIN r = 1 .. Len(r)
  BY ConcatProperties, LenProperties
<1> HIDE DEF r, m, n
<1>2. SUFFICES ASSUME NEW i \in 1 .. m + n, NEW j \in 1 .. m + n, r[i] = r[j] PROVE i = j
  BY <1>1 DEF IsInjective, r
<1>3. \A a \in 1 .. m, b \in 1 .. n : s[a] # t[b]
  BY <1>1 DEF Range
<1>4. \A a \in 1 .. m + n : ~(a <= m) => a - m \in 1 .. n /\ r[a] = t[a - m]
  BY <1>1
<1>5. \A a \in 1 .. m + n : a <= m => a \in 1 .. m /\ r[a] = s[a]
  BY <1>1
<1>6. \A a, b \in 1 .. m : s[a] = s[b] => a = b
  BY <1>1 DEF IsInjective
<1>7. \A a, b \in 1 .. n : t[a] = t[b] => a = b
  BY <1>1 DEF IsInjective
<1>8. CASE i <= m /\ j <= m
  BY <1>2, <1>5, <1>6, <1>8
<1>9. CASE ~(i <= m) /\ ~(j <= m)
  <2>1. i - m = j - m
    BY <1>2, <1>4, <1>7, <1>9
  <2> QED
    BY <1>1, <2>1
<1>10. CASE i <= m /\ ~(j <= m)
  BY <1>2, <1>3, <1>4, <1>5, <1>10
<1>11. CASE ~(i <= m) /\ j <= m
  BY <1>2, <1>3, <1>4, <1>5, <1>11
<1> QED
  BY <1>8, <1>9, <1>10, <1>11

(* The loop that joins lists goes through them one after the other.        *)
LEMMA JoinsOneByOne ==
  ASSUME NEW C, NEW lists \in Seq(Seq(C))
  PROVE  /\ JoinedUpTo(lists)[0] = << >>
         /\ \A i \in 1 .. Len(lists) : JoinedUpTo(lists)[i] = JoinedUpTo(lists)[i - 1] \o lists[i]
         /\ \A i \in 0 .. Len(lists) : JoinedUpTo(lists)[i] \in Seq(C)
<1> DEFINE n == Len(lists)
           D == Seq(C)
           F == [i \in 1 .. n |-> [d \in D |-> d \o lists[i]]]
           Body(f) == [i \in 0 .. n |-> IF i = 0 THEN << >> ELSE f[i - 1] \o lists[i]]
<1>1. n \in Nat /\ \A i \in 1 .. n : lists[i] \in D
  BY LenProperties, ElementOfSeq
<1>2. F \in [1 .. n -> [D -> D]] /\ << >> \in D
  <2>1. \A i \in 1 .. n, d \in D : d \o lists[i] \in D
    BY <1>1, ConcatProperties
  <2> QED
    BY <2>1, EmptySeq
<1>3. PICK g \in [0 .. n -> D] : Iterates(g, << >>, n, F)
  <2> HIDE DEF F, n, D
  <2> QED
    BY <1>1, <1>2, IterationExists
<1>4. g[0] = << >> /\ \A i \in 1 .. n : g[i] = g[i - 1] \o lists[i]
  <2>1. \A i \in 1 .. n : i - 1 \in 0 .. n
    BY <1>1
  <2>2. \A i \in 1 .. n : g[i - 1] \in D /\ F[i][g[i - 1]] = g[i - 1] \o lists[i]
    BY <2>1
  <2> HIDE DEF F
  <2> QED
    BY <1>3, <2>2 DEF Iterates
<1> HIDE DEF F
<1>5. g = Body(g)
  <2>1. \A i \in 0 .. n : i # 0 => i \in 1 .. n
    BY <1>1
  <2>2. \A i \in 0 .. n : g[i] = Body(g)[i]
    BY <1>4, <2>1
  <2> QED
    BY <2>2
<1> DEFINE f == CHOOSE h : h = Body(h)
<1>6. f = Body(f)
  BY <1>5
<1>7. JoinedUpTo(lists) = f
  BY DEF JoinedUpTo
<1> HIDE DEF f, n
<1>8. f[0] = << >>
  BY <1>1, <1>6
<1>9. \A i \in 1 .. n : f[i] = f[i - 1] \o lists[i]
  <2>1. \A i \in 1 .. n : i \in 0 .. n /\ i # 0
    BY <1>1
  <2> QED
    BY <1>6, <2>1
<1>10. \A i \in 0 .. n : f[i] \in D
  <2> DEFINE S == {m \in Nat : m <= n => f[m] \in D}
  <2>1. 0 \in S
    BY <1>2, <1>8
  <2>2. ASSUME NEW m \in Nat, m \in S PROVE m + 1 \in S
    <3> SUFFICES ASSUME m + 1 <= n PROVE f[m + 1] \in D
      OBVIOUS
    <3>1. m + 1 \in 1 .. n /\ (m + 1) - 1 = m /\ f[m] \in D
      BY <1>1, <2>2
    <3>2. f[m + 1] = f[m] \o lists[m + 1]
      BY <1>9, <3>1
    <3> QED
      BY <1>1, <3>1, <3>2, ConcatProperties
  <2>3. Nat \subseteq S
    <3> HIDE DEF S
    <3> QED
      BY <2>1, <2>2, SetInduction
  <2> QED
    BY <1>1, <2>3
<1> QED
  BY <1>7, <1>8, <1>9, <1>10 DEF n

(* What is in a joined list is in one of its parts; it repeats nothing if  *)
(* no part does and the parts have nothing in common.                      *)
PartsApart(lists) ==
  /\ \A i \in 1 .. Len(lists) : IsInjective(lists[i])
  /\ \A i, j \in 1 .. Len(lists) : i < j => Range(lists[i]) \cap Range(lists[j]) = {}

LEMMA JoinedParts ==
  ASSUME NEW C, NEW lists \in Seq(Seq(C))
  PROVE  /\ Joined(lists) \in Seq(C)
         /\ \A x : x \in Range(Joined(lists)) <=> \E i \in 1 .. Len(lists) : x \in Range(lists[i])
         /\ PartsApart(lists) => IsInjective(Joined(lists))
<1> DEFINE n == Len(lists)
           f == JoinedUpTo(lists)
           InOne(m, x) == \E i \in 1 .. m : x \in Range(lists[i])
           Good(m) == /\ \A x : x \in Range(f[m]) <=> InOne(m, x)
                      /\ PartsApart(lists) => IsInjective(f[m])
           S == {m \in Nat : m <= n => Good(m)}
<1>1. n \in Nat /\ \A i \in 1 .. n : lists[i] \in Seq(C)
  BY LenProperties, ElementOfSeq
<1>2. /\ f[0] = << >>
      /\ \A i \in 1 .. n : f[i] = f[i - 1] \o lists[i]
      /\ \A i \in 0 .. n : f[i] \in Seq(C)
  BY JoinsOneByOne
<1> HIDE DEF f
<1>3. 0 \in S
  <2>1. Range(f[0]) = {} /\ IsInjective(f[0])
    <3>1. DOMAIN << >> = {}
      OBVIOUS
    <3> QED
      BY <1>2, <3>1 DEF Range, IsInjective
  <2>2. \A x : ~InOne(0, x)
    OBVIOUS
  <2> HIDE DEF InOne
  <2>3. Good(0)
    BY <2>1, <2>2
  <2> QED
    BY <2>3
<1>4. ASSUME NEW m \in Nat, m \in S PROVE m + 1 \in S
  <2> SUFFICES ASSUME m + 1 <= n PROVE Good(m + 1)
    OBVIOUS
  <2>1. m + 1 \in 1 .. n /\ (m + 1) - 1 = m /\ m \in 0 .. n /\ Good(m)
    <3>1. m + 1 \in 1 .. n /\ (m + 1) - 1 = m /\ m \in 0 .. n /\ m <= n
      BY <1>1
    <3> HIDE DEF Good
    <3> QED
      BY <1>4, <3>1
  <2>2. f[m + 1] = f[m] \o lists[m + 1] /\ f[m] \in Seq(C) /\ lists[m + 1] \in Seq(C)
    BY <1>1, <1>2, <2>1
  <2>3. Range(f[m + 1]) = Range(f[m]) \cup Range(lists[m + 1])
    BY <2>2, ConcatRange
  <2>4. \A x : InOne(m + 1, x) <=> InOne(m, x) \/ x \in Range(lists[m + 1])
    <3>1. 1 .. m + 1 = (1 .. m) \cup {m + 1}
      OBVIOUS
    <3> QED
      BY <3>1
  <2>5. ASSUME PartsApart(lists) PROVE IsInjective(f[m + 1])
    <3>1. IsInjective(f[m]) /\ IsInjective(lists[m + 1])
      BY <2>1, <2>5 DEF PartsApart
    <3>2. ASSUME NEW x, x \in Range(f[m]), x \in Range(lists[m + 1]) PROVE FALSE
      <4>1. PICK i \in 1 .. m : x \in Range(lists[i])
        BY <2>1, <3>2
      <4>2. i \in 1 .. n /\ m + 1 \in 1 .. n /\ i < m + 1
        BY <1>1, <2>1
      <4> QED
        BY <2>5, <3>2, <4>1, <4>2 DEF PartsApart
    <3>3. Range(f[m]) \cap Range(lists[m + 1]) = {}
      BY <3>2
    <3> QED
      BY <2>2, <3>1, <3>3, ConcatInjective
  <2>6. \A x : x \in Range(f[m]) <=> InOne(m, x)
    BY <2>1
  <2> HIDE DEF InOne
  <2>7. \A x : x \in Range(f[m + 1]) <=> InOne(m + 1, x)
    BY <2>3, <2>4, <2>6
  <2> QED
    BY <2>5, <2>7
<1>5. Nat \subseteq S
  <2> HIDE DEF S
  <2> QED
    BY <1>3, <1>4, SetInduction
<1>6. Good(n)
  <2> HIDE DEF Good
  <2> QED
    BY <1>1, <1>5
<1>7. Joined(lists) = f[n] /\ f[n] \in Seq(C)
  BY <1>1, <1>2 DEF Joined, f
<1> QED
  BY <1>6, <1>7

-----------------------------------------------------------------------------
(* What is appended unless it is listed.  A step finds one thing at most.  *)
AtMostOne(F) == \A x, y \in F : x = y

LEMMA ListingStep ==
  ASSUME NEW C, NEW list \in Seq(C), NEW found \in SUBSET C, AtMostOne(found),
         NEW anywhere \in BOOLEAN
  PROVE  /\ Listing(list, found, anywhere) \in Seq(C)
         /\ Range(Listing(list, found, anywhere)) = Range(list) \cup found
         /\ anywhere /\ IsInjective(list) => IsInjective(Listing(list, found, anywhere))
         /\ NoneTwiceInARow(list) => NoneTwiceInARow(Listing(list, found, anywhere))
<1> DEFINE new == found \ Listed(list, anywhere)
           x == CHOOSE e \in new : TRUE
<1>1. Listed(list, anywhere) \subseteq Range(list)
  <2>1. CASE anywhere \/ list = << >>
    BY <2>1 DEF Listed
  <2>2. CASE ~(anywhere \/ list = << >>)
    <3>1. Len(list) \in Nat \ {0} /\ DOMAIN list = 1 .. Len(list)
      BY <2>2, EmptySeq, LenProperties
    <3>2. Last(list) \in Range(list)
      BY <3>1 DEF Last, Range
    <3> QED
      BY <2>2, <3>2 DEF Listed
  <2> QED
    BY <2>1, <2>2
<1>2. CASE new = {}
  <2>1. Listing(list, found, anywhere) = list
    BY <1>2 DEF Listing
  <2>2. found \subseteq Range(list)
    BY <1>1, <1>2
  <2>3. Range(list) \cup found = Range(list)
    BY <2>2
  <2> QED
    BY <2>1, <2>3
<1>3. CASE new # {}
  <2>1. x \in found /\ x \notin Listed(list, anywhere)
    BY <1>3
  <2>2. Listing(list, found, anywhere) = Append(list, x)
    BY <1>3 DEF Listing
  <2> HIDE DEF x, new
  <2>3. found = {x} /\ x \in C
    BY <2>1 DEF AtMostOne
  <2>4. Append(list, x) \in Seq(C) /\ Range(Append(list, x)) = Range(list) \cup {x}
    BY <2>3, RangeOfAppend, AppendProperties
  <2>5. ASSUME anywhere, IsInjective(list) PROVE IsInjective(Append(list, x))
    <3> DEFINE n == Len(list)
               r == Append(list, x)
    <3>1. /\ n \in Nat /\ DOMAIN list = 1 .. n /\ DOMAIN r = 1 .. n + 1
          /\ \A i \in 1 .. n : r[i] = list[i]
          /\ r[n + 1] = x
      BY <2>3, AppendProperties, LenProperties
    <3>2. x \notin Range(list)
      BY <2>1, <2>5 DEF Listed
    <3>3. \A i \in 1 .. n : list[i] # x
      BY <3>1, <3>2 DEF Range
    <3>4. \A i, j \in 1 .. n : list[i] = list[j] => i = j
      BY <2>5, <3>1 DEF IsInjective
    <3> HIDE DEF n, r
    <3>5. SUFFICES ASSUME NEW i \in 1 .. n + 1, NEW j \in 1 .. n + 1, r[i] = r[j] PROVE i = j
      BY <3>1 DEF IsInjective, r
    <3>6. \A k \in 1 .. n + 1 : k \in 1 .. n \/ k = n + 1
      BY <3>1
    <3> QED
      BY <3>1, <3>3, <3>4, <3>5, <3>6
  <2>6. ASSUME NoneTwiceInARow(list) PROVE NoneTwiceInARow(Append(list, x))
    <3> DEFINE n == Len(list)
               r == Append(list, x)
    <3>1. /\ n \in Nat /\ DOMAIN list = 1 .. n /\ Len(r) = n + 1
          /\ \A i \in 1 .. n : r[i] = list[i]
          /\ r[n + 1] = x
      BY <2>3, AppendProperties, LenProperties
    <3>2. n # 0 => list[n] # x
      <4> SUFFICES ASSUME n # 0 PROVE list[n] # x
        OBVIOUS
      <4>1. list # << >> /\ n \in 1 .. n
        BY <3>1, EmptySeq
      <4>2. list[n] \in Listed(list, anywhere)
        BY <3>1, <4>1 DEF Listed, Last, Range
      <4> QED
        BY <2>1, <4>2
    <3>3. \A i \in 1 .. n - 1 : list[i] # list[i + 1]
      BY <2>6 DEF NoneTwiceInARow
    <3> HIDE DEF n, r
    <3>4. ASSUME NEW i \in 1 .. n PROVE r[i] # r[i + 1]
      <4>1. CASE i = n
        BY <3>1, <3>2, <4>1
      <4>2. CASE i # n
        <5>1. i \in 1 .. n - 1 /\ i + 1 \in 1 .. n
          BY <3>1, <4>2
        <5> QED
          BY <3>1, <3>3, <5>1
      <4> QED
        BY <4>1, <4>2
    <3>5. Len(r) - 1 = n
      BY <3>1
    <3> QED
      BY <3>4, <3>5 DEF NoneTwiceInARow, r
  <2> QED
    BY <2>2, <2>3, <2>4, <2>5, <2>6
<1> QED
  BY <1>2, <1>3

(* The loop that lists goes through what is found one after the other.     *)
Finds(C, founds) == /\ founds \in Seq(SUBSET C)
                    /\ \A i \in 1 .. Len(founds) : AtMostOne(founds[i])

LEMMA ListsOneByOne ==
  ASSUME NEW C, NEW founds, Finds(C, founds), NEW anywhere \in BOOLEAN
  PROVE  /\ ListedUpTo(founds, anywhere)[0] = << >>
         /\ \A i \in 1 .. Len(founds) :
              ListedUpTo(founds, anywhere)[i] =
                Listing(ListedUpTo(founds, anywhere)[i - 1], founds[i], anywhere)
<1> DEFINE n == Len(founds)
           D == Seq(C)
           F == [i \in 1 .. n |-> [d \in D |-> Listing(d, founds[i], anywhere)]]
           Body(f) == [i \in 0 .. n |-> IF i = 0 THEN << >> ELSE Listing(f[i - 1], founds[i], anywhere)]
<1>1. n \in Nat /\ \A i \in 1 .. n : founds[i] \in SUBSET C /\ AtMostOne(founds[i])
  BY LenProperties, ElementOfSeq DEF Finds
<1>2. F \in [1 .. n -> [D -> D]] /\ << >> \in D
  <2>1. \A i \in 1 .. n, d \in D : Listing(d, founds[i], anywhere) \in D
    BY <1>1, ListingStep
  <2> QED
    BY <2>1, EmptySeq
<1>3. PICK g \in [0 .. n -> D] : Iterates(g, << >>, n, F)
  <2> HIDE DEF F, n, D
  <2> QED
    BY <1>1, <1>2, IterationExists
<1>4. g[0] = << >> /\ \A i \in 1 .. n : g[i] = Listing(g[i - 1], founds[i], anywhere)
  <2>1. \A i \in 1 .. n : i - 1 \in 0 .. n
    BY <1>1
  <2>2. \A i \in 1 .. n : g[i - 1] \in D /\ F[i][g[i - 1]] = Listing(g[i - 1], founds[i], anywhere)
    BY <2>1
  <2> HIDE DEF F
  <2> QED
    BY <1>3, <2>2 DEF Iterates
<1> HIDE DEF F
<1>5. g = Body(g)
  <2>1. \A i \in 0 .. n : i # 0 => i \in 1 .. n
    BY <1>1
  <2>2. \A i \in 0 .. n : g[i] = Body(g)[i]
    BY <1>4, <2>1
  <2> QED
    BY <2>2
<1> DEFINE f == CHOOSE h : h = Body(h)
<1>6. f = Body(f)
  BY <1>5
<1>7. ListedUpTo(founds, anywhere) = f
  BY DEF ListedUpTo
<1> HIDE DEF f, n
<1>8. f[0] = << >>
  BY <1>1, <1>6
<1>9. \A i \in 1 .. n : f[i] = Listing(f[i - 1], founds[i], anywhere)
  <2>1. \A i \in 1 .. n : i \in 0 .. n /\ i # 0
    BY <1>1
  <2> QED
    BY <1>6, <2>1
<1> QED
  BY <1>7, <1>8, <1>9 DEF n

(* Everything that was found is listed, and nothing else; a list that is   *)
(* searched as a whole names nothing twice, and no list twice in a row.    *)
LEMMA ListedAll ==
  ASSUME NEW C, NEW founds, Finds(C, founds), NEW anywhere \in BOOLEAN
  PROVE  LET list == ListedUpTo(founds, anywhere)[Len(founds)]
         IN  /\ list \in Seq(C)
             /\ \A x : x \in Range(list) <=> \E i \in 1 .. Len(founds) : x \in founds[i]
             /\ anywhere => IsInjective(list)
             /\ NoneTwiceInARow(list)
<1> DEFINE n == Len(founds)
           f == ListedUpTo(founds, anywhere)
           InOne(m, x) == \E i \in 1 .. m : x \in founds[i]
           Good(m) == /\ f[m] \in Seq(C)
                      /\ \A x : x \in Range(f[m]) <=> InOne(m, x)
                      /\ anywhere => IsInjective(f[m])
                      /\ NoneTwiceInARow(f[m])
           S == {m \in Nat : m <= n => Good(m)}
<1>1. n \in Nat /\ \A i \in 1 .. n : founds[i] \in SUBSET C /\ AtMostOne(founds[i])
  BY LenProperties, ElementOfSeq DEF Finds
<1>2. /\ f[0] = << >>
      /\ \A i \in 1 .. n : f[i] = Listing(f[i - 1], founds[i], anywhere)
  BY ListsOneByOne
<1> HIDE DEF f
<1>3. 0 \in S
  <2>1. Range(f[0]) = {} /\ IsInjective(f[0]) /\ f[0] \in Seq(C) /\ NoneTwiceInARow(f[0])
    <3>1. DOMAIN << >> = {} /\ << >> \in Seq(C) /\ Len(<< >>) = 0
      BY EmptySeq
    <3>2. NoneTwiceInARow(f[0])
      BY <1>2, <3>1 DEF NoneTwiceInARow
    <3> QED
      BY <1>2, <3>1, <3>2 DEF Range, IsInjective
  <2>2. \A x : ~InOne(0, x)
    OBVIOUS
  <2> HIDE DEF InOne
  <2>3. Good(0)
    BY <2>1, <2>2
  <2> QED
    BY <2>3
<1>4. ASSUME NEW m \in Nat, m \in S PROVE m + 1 \in S
  <2> SUFFICES ASSUME m + 1 <= n PROVE Good(m + 1)
    OBVIOUS
  <2>1. m + 1 \in 1 .. n /\ (m + 1) - 1 = m /\ Good(m)
    <3>1. m + 1 \in 1 .. n /\ (m + 1) - 1 = m /\ m \in 0 .. n /\ m <= n
      BY <1>1
    <3> HIDE DEF Good
    <3> QED
      BY <1>4, <3>1
  <2>2. f[m + 1] = Listing(f[m], founds[m + 1], anywhere)
    BY <1>2, <2>1
  <2>3. /\ f[m + 1] \in Seq(C)
        /\ Range(f[m + 1]) = Range(f[m]) \cup founds[m + 1]
        /\ anywhere /\ IsInjective(f[m]) => IsInjective(f[m + 1])
        /\ NoneTwiceInARow(f[m]) => NoneTwiceInARow(f[m + 1])
    BY <1>1, <2>1, <2>2, ListingStep
  <2>4. \A x : InOne(m + 1, x) <=> InOne(m, x) \/ x \in founds[m + 1]
    <3>1. 1 .. m + 1 = (1 .. m) \cup {m + 1}
      OBVIOUS
    <3> QED
      BY <3>1
  <2>5. /\ \A x : x \in Range(f[m]) <=> InOne(m, x)
        /\ anywhere => IsInjective(f[m])
        /\ NoneTwiceInARow(f[m])
    BY <2>1
  <2> HIDE DEF InOne
  <2>6. \A x : x \in Range(f[m + 1]) <=> InOne(m + 1, x)
    BY <2>3, <2>4, <2>5
  <2> QED
    BY <2>3, <2>5, <2>6
<1>5. Nat \subseteq S
  <2> HIDE DEF S
  <2> QED
    BY <1>3, <1>4, SetInduction
<1>6. Good(n)
  <2> HIDE DEF Good
  <2> QED
    BY <1>1, <1>5
<1> QED
  BY <1>6 DEF f

(* What is picked of a list by what stands at an index.                    *)
LEMMA PickedRange ==
  ASSUME NEW C, NEW s \in Seq(C), NEW P
  PROVE  LET r == Picked(s, {i \in DOMAIN s : s[i] \in P})
         IN  /\ r \in Seq(C)
             /\ Range(r) = Range(s) \cap P
<1> DEFINE keep == {i \in DOMAIN s : s[i] \in P}
           r == Picked(s, keep)
           n == Len(s)
<1>1. n \in Nat /\ DOMAIN s = 1 .. n
  BY LenProperties
<1>2. Selects(C, s, keep, n, r)
  <2> HIDE DEF keep
  <2> QED
    BY PickedInOrder
<1>3. PICK place : Places(s, keep, n, r, place)
  BY <1>2 DEF Selects
<1>4. r \in Seq(C) /\ DOMAIN r = 1 .. Len(r)
  BY <1>2, LenProperties DEF Selects
<1> HIDE DEF r, n
<1>5. \A k \in 1 .. Len(r) : place[k] \in 1 .. n /\ s[place[k]] \in P /\ r[k] = s[place[k]]
  BY <1>1, <1>3 DEF Places
<1>6. \A i \in 1 .. n : s[i] \in P => \E k \in 1 .. Len(r) : r[k] = s[i]
  BY <1>1, <1>3, <1>5 DEF Places
<1>7. Range(r) \subseteq Range(s) \cap P
  BY <1>1, <1>4, <1>5 DEF Range
<1>8. Range(s) \cap P \subseteq Range(r)
  BY <1>1, <1>4, <1>6 DEF Range
<1> QED
  BY <1>4, <1>7, <1>8 DEF r, keep

-----------------------------------------------------------------------------
(* The functions and the tails of a database: n ids were given, no two     *)
(* chunks overlap, and a tail belongs to one of its users.                 *)
FunctionRecord == [id : Nat, start : Nat, end : Nat]
TailRecord == [start : Nat, end : Nat, owner : Nat, users : SUBSET Nat]
OneBehind(c, d) == c.end <= d.start \/ d.end <= c.start

Lying(S, T, n) ==
  /\ IsFiniteSet(S) /\ IsFiniteSet(T) /\ n \in Nat
  /\ S \subseteq FunctionRecord /\ T \subseteq TailRecord
  /\ \A f \in S : f.start < f.end /\ f.end <= CodeLimit /\ f.id < n
  /\ \A t \in T : t.start < t.end /\ t.end <= CodeLimit
  /\ \A f, g \in S : f # g => f.id # g.id /\ OneBehind(f, g)
  /\ \A t, u \in T : t # u => OneBehind(t, u)
  /\ \A f \in S, t \in T : OneBehind(f, t)
  /\ \A t \in T : t.owner \in t.users /\ \A id \in t.users : \E f \in S : f.id = id

WalkRecord == [on : BOOLEAN, total : Nat, seen : Seq(Nat), changed : BOOLEAN]
Undisturbed(walk) == walk.on /\ ~walk.changed
LoopInv ==
  /\ functionWalk \in WalkRecord
  /\ Undisturbed(functionWalk) =>
       /\ functionWalk.total = Len(functions)
       /\ Len(functionWalk.seen) <= functionWalk.total
       /\ \A i \in 1 .. Len(functionWalk.seen) : functionWalk.seen[i] = functions[i].start

ListingInv ==
  /\ functions \in Seq(FunctionRecord)
  /\ Lying(AllOf, tails, madeFunctions)
  /\ LoopInv

(* Lists of chunks by their starts. *)
LEMMA ByEntryEnumerates ==
  ASSUME NEW S, IsFiniteSet(S), \A c \in S : c.start \in Nat,
         \A c, d \in S : c.start = d.start => c = d
  PROVE  Enumerates(ByEntry(S), S)
<1> DEFINE key == [c \in S |-> c.start]
<1>1. key \in [S -> Nat] /\ \A c, d \in S : key[c] = key[d] => c = d
  OBVIOUS
<1> HIDE DEF key
<1>2. Enumerates(InOrderOf(S, key), S)
  BY <1>1, OrderEnumerates
<1> QED
  BY <1>2 DEF ByEntry, key

LEMMA CallsEnumerate ==
  ASSUME FunctionsAssumption, NEW sites \in SUBSET CallSites
  PROVE  Enumerates(CallsOf(sites), sites)
<1> DEFINE key == [c \in sites |-> CodeLimit * c[1] + c[2]]
<1>1. CodeLimit \in Nat \ {0} /\ CodeBytes \subseteq 0 .. CodeLimit - 1
      /\ CallSites \subseteq CodeBytes \X CodeBytes
  BY DEF FunctionsAssumption
<1>2. \A c \in sites : c = <<c[1], c[2]>> /\ c[1] \in 0 .. CodeLimit - 1 /\ c[2] \in 0 .. CodeLimit - 1
  <2> SUFFICES ASSUME NEW c \in sites
               PROVE  c = <<c[1], c[2]>> /\ c[1] \in CodeBytes /\ c[2] \in CodeBytes
    BY <1>1
  <2>1. c \in CodeBytes \X CodeBytes
    BY <1>1
  <2> QED
    BY <2>1
<1>3. IsFiniteSet(sites)
  <2> DEFINE b == CodeLimit - 1
  <2>1. b \in Int /\ 0 \in Int
    BY <1>1
  <2>2. sites \subseteq (0 .. b) \X (0 .. b)
    BY <1>1
  <2> HIDE DEF b
  <2>3. IsFiniteSet(0 .. b)
    BY <2>1, FS_Interval
  <2>4. IsFiniteSet((0 .. b) \X (0 .. b))
    BY <2>3, FS_Product
  <2> QED
    BY <2>2, <2>4, FS_Subset
<1>4. key \in [sites -> Nat]
  <2>1. \A c \in sites : CodeLimit * c[1] + c[2] \in Nat
    <3> SUFFICES ASSUME NEW c \in sites PROVE CodeLimit * c[1] + c[2] \in Nat
      OBVIOUS
    <3>1. c[1] \in Nat /\ c[2] \in Nat /\ CodeLimit \in Nat
      BY <1>1, <1>2
    <3> QED
      BY <3>1
  <2> QED
    BY <2>1
<1>5. \A c, d \in sites : key[c] = key[d] => c = d
  <2> SUFFICES ASSUME NEW c \in sites, NEW d \in sites, key[c] = key[d] PROVE c = d
    OBVIOUS
  <2> DEFINE a == c[1]
             b == c[2]
             p == d[1]
             q == d[2]
             L == CodeLimit
  <2>1. L * a + b = L * p + q
    OBVIOUS
  <2>2. /\ L \in Nat \ {0}
        /\ a \in 0 .. L - 1 /\ b \in 0 .. L - 1
        /\ p \in 0 .. L - 1 /\ q \in 0 .. L - 1
    BY <1>1, <1>2
  <2> HIDE DEF a, b, p, q, L, key
  <2>3. ~(a < p)
    <3> SUFFICES ASSUME a < p PROVE FALSE
      OBVIOUS
    <3>1. L * p = L * a + L * (p - a)
      BY <2>2
    <3>2. L * (p - a) >= L
      BY <2>2
    <3> QED
      BY <2>1, <2>2, <3>1, <3>2
  <2>4. ~(p < a)
    <3> SUFFICES ASSUME p < a PROVE FALSE
      OBVIOUS
    <3>1. L * a = L * p + L * (a - p)
      BY <2>2
    <3>2. L * (a - p) >= L
      BY <2>2
    <3> QED
      BY <2>1, <2>2, <3>1, <3>2
  <2>5. a = p
    BY <2>2, <2>3, <2>4
  <2>6. b = q
    BY <2>1, <2>2, <2>5
  <2> QED
    BY <1>2, <2>5, <2>6 DEF a, b, p, q
<1> HIDE DEF key
<1>6. Enumerates(InOrderOf(sites, key), sites)
  BY <1>3, <1>4, <1>5, OrderEnumerates
<1> QED
  BY <1>6 DEF CallsOf, key

(* A chunk is a range of numbers, and its list holds each of them once.    *)
LEMMA AddressesOfChunk ==
  ASSUME NEW c, c.start \in Nat, c.end \in Nat, c.start < c.end
  PROVE  /\ Addresses(c) \in Seq(Nat)
         /\ IsInjective(Addresses(c))
         /\ Range(Addresses(c)) = ChunkSpan(c)
<1> DEFINE a == c.start
           b == c.end
           r == Addresses(c)
<1>1. a \in Nat /\ b \in Nat /\ a < b
  OBVIOUS
<1>2. r = [i \in 1 .. b - a |-> a + i - 1]
  BY DEF Addresses
<1>3. ChunkSpan(c) = a .. b - 1
  BY DEF ChunkSpan
<1> HIDE DEF a, b, r
<1>4. b - a \in Nat /\ r \in [1 .. b - a -> Nat] /\ DOMAIN r = 1 .. b - a
  BY <1>1, <1>2
<1>5. r \in Seq(Nat)
  BY <1>4
<1>6. IsInjective(r)
  BY <1>1, <1>2, <1>4 DEF IsInjective
<1>7. \A x \in a .. b - 1 : \E i \in 1 .. b - a : r[i] = x
  <2> SUFFICES ASSUME NEW x \in a .. b - 1 PROVE \E i \in 1 .. b - a : r[i] = x
    OBVIOUS
  <2>1. x - a + 1 \in 1 .. b - a /\ r[x - a + 1] = x
    BY <1>1, <1>2
  <2> QED
    BY <2>1
<1>8. \A i \in 1 .. b - a : r[i] \in a .. b - 1
  BY <1>1, <1>2
<1>9. Range(r) = a .. b - 1
  BY <1>4, <1>7, <1>8 DEF Range
<1> QED
  BY <1>3, <1>5, <1>6, <1>9 DEF r

(* The ranges of the tails a function uses, which tell the tails apart.    *)
UsedTails(f) == {t \in tails : f.id \in t.users}
UsedRanges(f) == {[start |-> t.start, end |-> t.end] : t \in UsedTails(f)}

LEMMA TailsListed ==
  ASSUME NEW n, Lying(AllOf, tails, n), NEW f \in AllOf
  PROVE  /\ Enumerates(TailsOf(f), UsedRanges(f))
         /\ Cardinality(UsedRanges(f)) = Cardinality(UsedTails(f))
         /\ Cardinality(UsedTails(f)) \in Nat
<1> DEFINE U == UsedTails(f)
           R == UsedRanges(f)
           range == [t \in U |-> [start |-> t.start, end |-> t.end]]
<1>1. IsFiniteSet(U) /\ Cardinality(U) \in Nat
  <2>1. U \in SUBSET tails /\ IsFiniteSet(tails)
    BY DEF Lying, UsedTails
  <2> HIDE DEF U
  <2>2. IsFiniteSet(U)
    BY <2>1, FS_Subset
  <2> QED
    BY <2>2, FS_CardinalityType
<1>2. \A t \in U : t.start \in Nat /\ t.end \in Nat /\ t.start < t.end
  BY DEF Lying, UsedTails, TailRecord
<1>3. \A t, u \in U : t.start = u.start => t = u
  <2> SUFFICES ASSUME NEW t \in U, NEW u \in U, t.start = u.start, t # u PROVE FALSE
    OBVIOUS
  <2>1. OneBehind(t, u)
    BY DEF Lying, UsedTails
  <2> QED
    BY <1>2, <2>1 DEF OneBehind
<1>4. R = {range[t] : t \in U}
  BY DEF UsedRanges
<1>5. range \in Surjection(U, R)
  BY <1>4 DEF Surjection
<1>6. \A t, u \in U : range[t] = range[u] => t = u
  BY <1>3
<1>7. range \in Injection(U, R)
  <2> HIDE DEF range
  <2> QED
    BY <1>5, <1>6 DEF Surjection, Injection, IsInjective
<1>8. IsFiniteSet(R) /\ Cardinality(R) = Cardinality(U)
  <2> HIDE DEF range, R, U
  <2> QED
    BY <1>1, <1>5, <1>7, FS_Surjection
<1>9. \A c \in R : c.start \in Nat
  BY <1>2 DEF UsedRanges
<1>10. \A c, d \in R : c.start = d.start => c = d
  <2> SUFFICES ASSUME NEW c \in R, NEW d \in R, c.start = d.start PROVE c = d
    OBVIOUS
  <2>1. PICK t \in U : c = [start |-> t.start, end |-> t.end]
    BY DEF UsedRanges
  <2>2. PICK u \in U : d = [start |-> u.start, end |-> u.end]
    BY DEF UsedRanges
  <2>3. t = u
    BY <1>3, <2>1, <2>2
  <2> QED
    BY <2>1, <2>2, <2>3
<1>11. Enumerates(ByEntry(R), R)
  <2> HIDE DEF R
  <2> QED
    BY <1>8, <1>9, <1>10, ByEntryEnumerates
<1>12. TailsOf(f) = ByEntry(R)
  BY DEF TailsOf, UsedRanges, UsedTails
<1> QED
  BY <1>1, <1>8, <1>11, <1>12

(* The chunks of a function are its entry and what it uses.                *)
ChunkRecord == [start : Nat, end : Nat]
LEMMA ChunksListed ==
  ASSUME NEW n, Lying(AllOf, tails, n), NEW f \in AllOf
  PROVE  /\ chunks(f) \in Seq(ChunkRecord)
         /\ Len(chunks(f)) = chunk_count(f)
         /\ chunks(f)[1] = Entry(f)
         /\ tail_chunks(f) = Tail(chunks(f))
         /\ Range(chunks(f)) = {Entry(f)} \cup UsedRanges(f)
         /\ \A i \in 1 .. Len(chunks(f)) : chunks(f)[i].start < chunks(f)[i].end
         /\ \A i, j \in 1 .. Len(chunks(f)) : i < j => OneBehind(chunks(f)[i], chunks(f)[j])
<1> DEFINE e == Entry(f)
           r == TailsOf(f)
           R == UsedRanges(f)
           m == Len(r)
           s == chunks(f)
<1>1. Enumerates(r, R) /\ Cardinality(R) = Cardinality(UsedTails(f)) /\ Cardinality(UsedTails(f)) \in Nat
  BY TailsListed
<1>2. \A c \in R : c \in ChunkRecord /\ c.start < c.end /\ OneBehind(e, c)
  <2> SUFFICES ASSUME NEW t \in UsedTails(f), NEW c, c = [start |-> t.start, end |-> t.end]
               PROVE  c \in ChunkRecord /\ c.start < c.end /\ OneBehind(e, c)
    BY DEF UsedRanges
  <2>1. t \in tails /\ t \in TailRecord /\ t.start < t.end /\ OneBehind(f, t)
    BY DEF Lying, UsedTails
  <2> QED
    BY <2>1 DEF TailRecord, ChunkRecord, OneBehind, Entry
<1>3. e \in ChunkRecord /\ e.start < e.end
  BY DEF Lying, FunctionRecord, Entry, ChunkRecord
<1>4. \A c, d \in R : c # d => OneBehind(c, d)
  <2> SUFFICES ASSUME NEW t \in UsedTails(f), NEW u \in UsedTails(f), NEW c, NEW d,
                      c = [start |-> t.start, end |-> t.end],
                      d = [start |-> u.start, end |-> u.end], c # d
               PROVE  OneBehind(c, d)
    BY DEF UsedRanges
  <2>1. t # u /\ t \in tails /\ u \in tails
    BY DEF UsedTails
  <2>2. OneBehind(t, u)
    BY <2>1 DEF Lying
  <2> QED
    BY <2>2 DEF OneBehind
<1> HIDE DEF e, R, r
<1>5. r \in Seq(R) /\ m = Cardinality(R) /\ m \in Nat /\ IsInjective(r) /\ Range(r) = R
      /\ DOMAIN r = 1 .. m
  BY <1>1, LenProperties DEF Enumerates
<1>6. R \subseteq ChunkRecord
  BY <1>2
<1>7. r \in Seq(ChunkRecord)
  BY <1>5, <1>6, SeqMonotonic
<1>8. s = <<e>> \o r
  BY DEF chunks, e, r
<1>9. <<e>> \in Seq(ChunkRecord) /\ Len(<<e>>) = 1 /\ <<e>>[1] = e /\ Range(<<e>>) = {e}
  <2>1. <<e>> \in Seq(ChunkRecord) /\ Len(<<e>>) = 1 /\ <<e>>[1] = e /\ DOMAIN <<e>> = {1}
    BY <1>3
  <2> QED
    BY <2>1 DEF Range
<1> HIDE DEF s, m
<1>10. /\ s \in Seq(ChunkRecord) /\ Len(s) = 1 + m
       /\ \A i \in 1 .. 1 + m : s[i] = IF i <= 1 THEN e ELSE r[i - 1]
  <2>1. /\ s \in Seq(ChunkRecord) /\ Len(s) = Len(<<e>>) + Len(r)
        /\ \A i \in 1 .. Len(<<e>>) + Len(r) : s[i] = IF i <= Len(<<e>>) THEN <<e>>[i] ELSE r[i - Len(<<e>>)]
    BY <1>7, <1>8, <1>9, ConcatProperties
  <2>2. \A i \in 1 .. 1 + m : i <= 1 => i = 1
    BY <1>5
  <2> QED
    BY <1>9, <2>1, <2>2 DEF m
<1>11. s[1] = e
  BY <1>5, <1>10
<1>12. \A i \in 2 .. 1 + m : i - 1 \in 1 .. m /\ s[i] = r[i - 1] /\ s[i] \in R
  <2> SUFFICES ASSUME NEW i \in 2 .. 1 + m PROVE i - 1 \in 1 .. m /\ s[i] = r[i - 1] /\ s[i] \in R
    OBVIOUS
  <2>1. i - 1 \in 1 .. m /\ i \in 1 .. 1 + m /\ ~(i <= 1)
    BY <1>5
  <2>2. r[i - 1] \in R
    BY <1>5, <2>1, ElementOfSeq DEF m
  <2> QED
    BY <1>10, <2>1, <2>2
<1>13. \A i \in 1 .. 1 + m : i = 1 \/ i \in 2 .. 1 + m
  BY <1>5
<1>14. Range(s) = {e} \cup R
  <2>1. \A q \in Seq(ChunkRecord) : Range(q \o r) = Range(q) \cup Range(r)
    BY <1>7, ConcatRange
  <2>2. Range(<<e>> \o r) = Range(<<e>>) \cup Range(r)
    BY <1>9, <2>1
  <2>3. Range(<<e>>) = {e} /\ Range(r) = R
    BY <1>5, <1>9
  <2> QED
    BY <1>8, <2>2, <2>3
<1>15. \A i \in 1 .. 1 + m : s[i].start < s[i].end
  BY <1>2, <1>3, <1>11, <1>12, <1>13
<1>16. ASSUME NEW i \in 1 .. 1 + m, NEW j \in 1 .. 1 + m, i < j PROVE OneBehind(s[i], s[j])
  <2>1. j \in 2 .. 1 + m
    BY <1>13, <1>16
  <2>2. CASE i = 1
    BY <1>2, <1>11, <1>12, <2>1, <2>2
  <2>3. CASE i \in 2 .. 1 + m
    <3>1. i - 1 \in 1 .. m /\ j - 1 \in 1 .. m /\ i - 1 # j - 1
      BY <1>12, <1>16, <2>1, <2>3
    <3>2. r[i - 1] # r[j - 1]
      BY <1>5, <3>1 DEF IsInjective
    <3> QED
      BY <1>4, <1>12, <2>1, <2>3, <3>2
  <2> QED
    BY <1>13, <2>2, <2>3
<1>17. tail_chunks(f) = Tail(s)
  <2>1. s # << >>
    BY <1>5, <1>10, EmptySeq
  <2>2. /\ Tail(s) \in Seq(ChunkRecord) /\ Len(Tail(s)) = Len(s) - 1
        /\ \A i \in 1 .. Len(Tail(s)) : Tail(s)[i] = s[i + 1]
    BY <1>10, <2>1, HeadTailProperties
  <2>3. Len(Tail(s)) = m
    BY <1>5, <1>10, <2>2
  <2>4. \A i \in 1 .. m : r[i] = Tail(s)[i]
    <3> SUFFICES ASSUME NEW i \in 1 .. m PROVE r[i] = Tail(s)[i]
      OBVIOUS
    <3>1. i + 1 \in 2 .. 1 + m /\ (i + 1) - 1 = i
      BY <1>5
    <3> QED
      BY <1>12, <2>2, <2>3, <3>1
  <2>5. r = Tail(s)
    BY <1>7, <2>2, <2>3, <2>4, SeqEqual DEF m
  <2> QED
    BY <2>5 DEF tail_chunks, r
<1>18. chunk_count(f) = 1 + m
  BY <1>1, <1>5 DEF chunk_count, UsedTails, R
<1>19. Len(s) = 1 + m
  BY <1>10
<1> QED
  BY <1>10, <1>11, <1>14, <1>15, <1>16, <1>17, <1>18, <1>19 DEF s, e, R

(* The addresses of a function are those of its chunks, each once.         *)
HasAddress(f, a) == a \in ChunkSpan(f) \/ \E t \in UsedTails(f) : a \in ChunkSpan(t)

LEMMA AddressesListed ==
  ASSUME NEW n, Lying(AllOf, tails, n), NEW f \in AllOf
  PROVE  /\ item_addresses(f) \in Seq(Nat)
         /\ IsInjective(item_addresses(f))
         /\ \A a : a \in Range(item_addresses(f)) <=> HasAddress(f, a)
         /\ \A a : a \in Covered(f) <=> HasAddress(f, a)
<1> DEFINE s == chunks(f)
           m == Len(s)
           lists == [i \in DOMAIN s |-> Addresses(s[i])]
<1>1. /\ s \in Seq(ChunkRecord) /\ Range(s) = {Entry(f)} \cup UsedRanges(f)
      /\ \A i \in 1 .. m : s[i].start < s[i].end
      /\ \A i, j \in 1 .. m : i < j => OneBehind(s[i], s[j])
  BY ChunksListed
<1> HIDE DEF s
<1>2. m \in Nat /\ DOMAIN s = 1 .. m /\ \A i \in 1 .. m : s[i] \in ChunkRecord
  BY <1>1, LenProperties, ElementOfSeq
<1> HIDE DEF m
<1>3. \A i \in 1 .. m : /\ s[i].start \in Nat /\ s[i].end \in Nat
                        /\ Addresses(s[i]) \in Seq(Nat)
                        /\ IsInjective(Addresses(s[i]))
                        /\ Range(Addresses(s[i])) = ChunkSpan(s[i])
  <2> SUFFICES ASSUME NEW i \in 1 .. m
               PROVE  /\ s[i].start \in Nat /\ s[i].end \in Nat
                      /\ Addresses(s[i]) \in Seq(Nat)
                      /\ IsInjective(Addresses(s[i]))
                      /\ Range(Addresses(s[i])) = ChunkSpan(s[i])
    OBVIOUS
  <2>1. s[i].start \in Nat /\ s[i].end \in Nat /\ s[i].start < s[i].end
    BY <1>1, <1>2 DEF ChunkRecord, m
  <2> QED
    BY <2>1, AddressesOfChunk
<1>4. /\ lists \in Seq(Seq(Nat)) /\ Len(lists) = m
      /\ \A i \in 1 .. m : lists[i] = Addresses(s[i])
  <2>1. lists \in [1 .. m -> Seq(Nat)] /\ \A i \in 1 .. m : lists[i] = Addresses(s[i])
    BY <1>2, <1>3
  <2> HIDE DEF lists
  <2> QED
    BY <1>2, <2>1
<1>5. item_addresses(f) = Joined(lists)
  BY DEF item_addresses, s
<1> HIDE DEF lists
<1>6. PartsApart(lists)
  <2>1. \A i \in 1 .. m : IsInjective(lists[i])
    BY <1>3, <1>4
  <2>2. ASSUME NEW i \in 1 .. m, NEW j \in 1 .. m, i < j
        PROVE  Range(lists[i]) \cap Range(lists[j]) = {}
    <3>1. OneBehind(s[i], s[j])
      BY <1>1, <2>2 DEF m
    <3>2. Range(lists[i]) = ChunkSpan(s[i]) /\ Range(lists[j]) = ChunkSpan(s[j])
      BY <1>3, <1>4
    <3>3. s[i].start \in Nat /\ s[i].end \in Nat /\ s[j].start \in Nat /\ s[j].end \in Nat
      BY <1>3
    <3>4. ASSUME NEW a \in ChunkSpan(s[i]), a \in ChunkSpan(s[j]) PROVE FALSE
      BY <3>1, <3>3, <3>4 DEF ChunkSpan, OneBehind
    <3> QED
      BY <3>2, <3>4
  <2> QED
    BY <1>4, <2>1, <2>2 DEF PartsApart
<1>7. /\ Joined(lists) \in Seq(Nat) /\ IsInjective(Joined(lists))
      /\ \A a : a \in Range(Joined(lists)) <=> \E i \in 1 .. m : a \in Range(lists[i])
  <2>1. /\ Joined(lists) \in Seq(Nat)
        /\ \A a : a \in Range(Joined(lists)) <=> \E i \in 1 .. Len(lists) : a \in Range(lists[i])
        /\ PartsApart(lists) => IsInjective(Joined(lists))
    BY <1>4, JoinedParts
  <2> QED
    BY <1>4, <1>6, <2>1
<1>8. \A a : (\E i \in 1 .. m : a \in Range(lists[i])) <=> \E c \in Range(s) : a \in ChunkSpan(c)
  <2>1. \A i \in 1 .. m : s[i] \in Range(s) /\ Range(lists[i]) = ChunkSpan(s[i])
    BY <1>2, <1>3, <1>4 DEF Range
  <2>2. \A c \in Range(s) : \E i \in 1 .. m : c = s[i]
    BY <1>2 DEF Range
  <2> QED
    BY <2>1, <2>2
<1>9. \A a : (\E c \in Range(s) : a \in ChunkSpan(c)) <=> HasAddress(f, a)
  <2>1. ChunkSpan(Entry(f)) = ChunkSpan(f)
    BY DEF ChunkSpan, Entry
  <2>2. \A t \in UsedTails(f) : ChunkSpan([start |-> t.start, end |-> t.end]) = ChunkSpan(t)
    BY DEF ChunkSpan
  <2>3. \A a : (\E c \in UsedRanges(f) : a \in ChunkSpan(c)) <=> \E t \in UsedTails(f) : a \in ChunkSpan(t)
    <3> SUFFICES ASSUME NEW a
                 PROVE  (\E c \in UsedRanges(f) : a \in ChunkSpan(c))
                        <=> \E t \in UsedTails(f) : a \in ChunkSpan(t)
      OBVIOUS
    <3>1. ASSUME NEW c \in UsedRanges(f), a \in ChunkSpan(c) PROVE \E t \in UsedTails(f) : a \in ChunkSpan(t)
      <4>1. PICK t \in UsedTails(f) : c = [start |-> t.start, end |-> t.end]
        BY DEF UsedRanges
      <4> QED
        BY <2>2, <3>1, <4>1
    <3>2. ASSUME NEW t \in UsedTails(f), a \in ChunkSpan(t) PROVE \E c \in UsedRanges(f) : a \in ChunkSpan(c)
      <4>1. [start |-> t.start, end |-> t.end] \in UsedRanges(f)
        BY DEF UsedRanges
      <4> QED
        BY <2>2, <3>2, <4>1
    <3> QED
      BY <3>1, <3>2
  <2>4. Range(s) = {Entry(f)} \cup UsedRanges(f)
    BY <1>1
  <2> QED
    BY <2>1, <2>3, <2>4 DEF HasAddress
<1>10. \A a : a \in Covered(f) <=> \E c \in Range(s) : a \in ChunkSpan(c)
  BY DEF Covered, s
<1> QED
  BY <1>5, <1>7, <1>8, <1>9, <1>10

(* An address has at most one function, which has the address.             *)
LEMMA FunctionOfAddress ==
  ASSUME NEW n, Lying(AllOf, tails, n), NEW a
  PROVE  /\ get_func(a) \subseteq AllOf
         /\ \A f, g \in get_func(a) : f = g
         /\ \A f \in get_func(a) : HasAddress(f, a)
         /\ \A f \in AllOf : a \in ChunkSpan(f) => get_func(a) = {f}
<1> DEFINE E == {f \in AllOf : a \in ChunkSpan(f)}
<1>1. \A f, g \in E : f = g
  <2> SUFFICES ASSUME NEW f \in E, NEW g \in E, f # g PROVE FALSE
    OBVIOUS
  <2>1. OneBehind(f, g)
    BY DEF Lying
  <2>2. f \in FunctionRecord /\ g \in FunctionRecord
    BY DEF Lying
  <2> QED
    BY <2>1, <2>2 DEF OneBehind, ChunkSpan, FunctionRecord
<1>2. \A t, u \in tails : a \in ChunkSpan(t) /\ a \in ChunkSpan(u) => t = u
  <2> SUFFICES ASSUME NEW t \in tails, NEW u \in tails, a \in ChunkSpan(t), a \in ChunkSpan(u), t # u
               PROVE  FALSE
    OBVIOUS
  <2>1. OneBehind(t, u)
    BY DEF Lying
  <2>2. t \in TailRecord /\ u \in TailRecord
    BY DEF Lying
  <2> QED
    BY <2>1, <2>2 DEF OneBehind, ChunkSpan, TailRecord
<1>3. \A f, g \in AllOf : f.id = g.id => f = g
  BY DEF Lying
<1>4. get_func(a) = IF E # {} THEN E
                    ELSE {f \in AllOf : \E t \in tails : a \in ChunkSpan(t) /\ t.owner = f.id}
  BY DEF get_func
<1> HIDE DEF E
<1>5. E \subseteq AllOf /\ \A f \in AllOf : f \in E <=> a \in ChunkSpan(f)
  BY DEF E
<1>6. get_func(a) \subseteq AllOf
  BY <1>4, <1>5
<1>7. ASSUME NEW f \in get_func(a), NEW g \in get_func(a) PROVE f = g
  <2>1. CASE E # {}
    BY <1>1, <1>4, <1>7, <2>1
  <2>2. CASE E = {}
    <3>1. PICK t \in tails : a \in ChunkSpan(t) /\ t.owner = f.id
      BY <1>4, <1>7, <2>2
    <3>2. PICK u \in tails : a \in ChunkSpan(u) /\ u.owner = g.id
      BY <1>4, <1>7, <2>2
    <3>3. f.id = g.id
      BY <1>2, <3>1, <3>2
    <3> QED
      BY <1>3, <1>6, <3>3
  <2> QED
    BY <2>1, <2>2
<1>8. ASSUME NEW f \in get_func(a) PROVE HasAddress(f, a)
  <2>1. CASE E # {}
    BY <1>4, <1>5, <2>1 DEF HasAddress
  <2>2. CASE E = {}
    <3>1. PICK t \in tails : a \in ChunkSpan(t) /\ t.owner = f.id
      BY <1>4, <2>2
    <3>2. t.owner \in t.users
      BY DEF Lying
    <3>3. t \in UsedTails(f)
      BY <3>1, <3>2 DEF UsedTails
    <3> QED
      BY <3>1, <3>3 DEF HasAddress
  <2> QED
    BY <2>1, <2>2
<1>9. ASSUME NEW f \in AllOf, a \in ChunkSpan(f) PROVE get_func(a) = {f}
  <2>1. f \in E
    BY <1>5, <1>9
  <2>2. E = {f}
    BY <1>1, <2>1
  <2> QED
    BY <1>4, <2>2
<1> QED
  BY <1>6, <1>7, <1>8, <1>9

-----------------------------------------------------------------------------
(* The call graph: what each end of a list of calls finds.                 *)
LEMMA EntriesFound ==
  ASSUME NEW n, Lying(AllOf, tails, n), NEW calls \in Seq(CallSites), NEW end \in {1, 2},
         NEW anywhere \in BOOLEAN
  PROVE  LET list == ListedUpTo(EntriesAt(calls, end), anywhere)[Len(calls)]
         IN  /\ list \in Seq(Nat)
             /\ \A x : x \in Range(list) <=>
                  \E c \in Range(calls) : \E g \in get_func(c[end]) : x = g.start
             /\ anywhere => IsInjective(list)
             /\ NoneTwiceInARow(list)
<1> DEFINE m == Len(calls)
           Found(i) == {g.start : g \in get_func(calls[i][end])}
           founds == EntriesAt(calls, end)
           list == ListedUpTo(founds, anywhere)[m]
<1>1. m \in Nat /\ DOMAIN calls = 1 .. m
  BY LenProperties
<1>2. \A i \in 1 .. m : Found(i) \in SUBSET Nat /\ AtMostOne(Found(i))
  <2> SUFFICES ASSUME NEW i \in 1 .. m PROVE Found(i) \in SUBSET Nat /\ AtMostOne(Found(i))
    OBVIOUS
  <2> DEFINE a == calls[i][end]
  <2>1. get_func(a) \subseteq AllOf /\ \A f, g \in get_func(a) : f = g
    BY FunctionOfAddress
  <2>2. \A f \in AllOf : f.start \in Nat
    BY DEF Lying, FunctionRecord
  <2> HIDE DEF a
  <2>3. {g.start : g \in get_func(a)} \in SUBSET Nat /\ AtMostOne({g.start : g \in get_func(a)})
    BY <2>1, <2>2 DEF AtMostOne
  <2> QED
    BY <2>3 DEF a
<1>3. founds = [i \in 1 .. m |-> Found(i)]
  BY <1>1 DEF EntriesAt
<1> HIDE DEF m, founds, Found
<1>4. founds \in [1 .. m -> SUBSET Nat] /\ \A i \in 1 .. m : founds[i] = Found(i)
  BY <1>2, <1>3
<1>5. founds \in Seq(SUBSET Nat) /\ Len(founds) = m
  BY <1>1, <1>4
<1>6. Finds(Nat, founds)
  BY <1>2, <1>4, <1>5 DEF Finds
<1>7. /\ list \in Seq(Nat)
      /\ \A x : x \in Range(list) <=> \E i \in 1 .. m : x \in founds[i]
      /\ anywhere => IsInjective(list)
      /\ NoneTwiceInARow(list)
  <2>1. LET l == ListedUpTo(founds, anywhere)[Len(founds)]
        IN  /\ l \in Seq(Nat)
            /\ \A x : x \in Range(l) <=> \E i \in 1 .. Len(founds) : x \in founds[i]
            /\ anywhere => IsInjective(l)
            /\ NoneTwiceInARow(l)
    BY <1>6, ListedAll
  <2> QED
    BY <1>5, <2>1
<1> HIDE DEF list
<1>8. \A x : (\E i \in 1 .. m : x \in founds[i])
             <=> \E c \in Range(calls) : \E g \in get_func(c[end]) : x = g.start
  <2> SUFFICES ASSUME NEW x
               PROVE  (\E i \in 1 .. m : x \in founds[i])
                      <=> \E c \in Range(calls) : \E g \in get_func(c[end]) : x = g.start
    OBVIOUS
  <2>1. \A i \in 1 .. m : x \in founds[i] <=> \E g \in get_func(calls[i][end]) : x = g.start
    BY <1>4 DEF Found
  <2>2. \A i \in 1 .. m : calls[i] \in Range(calls)
    BY <1>1 DEF Range
  <2>3. \A c \in Range(calls) : \E i \in 1 .. m : c = calls[i]
    BY <1>1 DEF Range
  <2> QED
    BY <2>1, <2>2, <2>3
<1> QED
  BY <1>7, <1>8 DEF list, founds, m

LEMMA CallersFound ==
  ASSUME FunctionsAssumption, NEW n, Lying(AllOf, tails, n), NEW f
  PROVE  /\ callers(f) \in Seq(Nat)
         /\ NoneTwiceInARow(callers(f))
         /\ \A x : x \in Range(callers(f)) <=>
              \E c \in CallSites : c[2] = f.start /\ \E g \in get_func(c[1]) : x = g.start
<1> DEFINE sites == {c \in CallSites : c[2] = f.start}
           calls == CallsOf(sites)
<1>1. Enumerates(calls, sites)
  BY CallsEnumerate
<1>2. sites \subseteq CallSites /\ \A c : c \in sites <=> c \in CallSites /\ c[2] = f.start
  OBVIOUS
<1>3. callers(f) = ListedUpTo(EntriesAt(calls, 1), FALSE)[Len(calls)]
  BY DEF callers
<1> HIDE DEF calls, sites
<1>4. calls \in Seq(CallSites) /\ Range(calls) = sites
  BY <1>1, <1>2, SeqMonotonic DEF Enumerates
<1>5. LET list == ListedUpTo(EntriesAt(calls, 1), FALSE)[Len(calls)]
      IN  /\ list \in Seq(Nat)
          /\ \A x : x \in Range(list) <=>
               \E c \in Range(calls) : \E g \in get_func(c[1]) : x = g.start
          /\ NoneTwiceInARow(list)
  BY <1>4, EntriesFound
<1> QED
  BY <1>2, <1>3, <1>4, <1>5

LEMMA CalleesFound ==
  ASSUME FunctionsAssumption, NEW n, Lying(AllOf, tails, n), NEW f \in AllOf
  PROVE  /\ callees(f) \in Seq(Nat)
         /\ IsInjective(callees(f))
         /\ \A x : x \in Range(callees(f)) <=>
              \E c \in CallSites : HasAddress(f, c[1]) /\ \E g \in get_func(c[2]) : x = g.start
<1> DEFINE all == item_addresses(f)
           code == code_addresses(f)
           From(a) == {c \in CallSites : c[1] = a}
           lists == [i \in DOMAIN code |-> CallsOf(From(code[i]))]
           calls == Joined(lists)
           m == Len(code)
<1>1. all \in Seq(Nat) /\ \A a : a \in Range(all) <=> HasAddress(f, a)
  BY AddressesListed
<1>2. code \in Seq(Nat) /\ Range(code) = Range(all) \cap CodeBytes
  <2>1. code = Picked(all, {i \in DOMAIN all : all[i] \in CodeBytes})
    BY DEF code_addresses
  <2> HIDE DEF all, code
  <2>2. LET r == Picked(all, {i \in DOMAIN all : all[i] \in CodeBytes})
        IN  r \in Seq(Nat) /\ Range(r) = Range(all) \cap CodeBytes
    BY <1>1, PickedRange
  <2> QED
    BY <2>1, <2>2
<1>3. callees(f) = ListedUpTo(EntriesAt(calls, 2), TRUE)[Len(calls)]
  BY DEF callees, CalleesFrom
<1> HIDE DEF all, code
<1>4. m \in Nat /\ DOMAIN code = 1 .. m
  BY <1>2, LenProperties
<1> HIDE DEF m
<1>5. \A a : /\ CallsOf(From(a)) \in Seq(CallSites)
             /\ Range(CallsOf(From(a))) = From(a)
  <2> SUFFICES ASSUME NEW a
               PROVE  CallsOf(From(a)) \in Seq(CallSites) /\ Range(CallsOf(From(a))) = From(a)
    OBVIOUS
  <2>1. From(a) \in SUBSET CallSites
    OBVIOUS
  <2> HIDE DEF From
  <2>2. Enumerates(CallsOf(From(a)), From(a))
    BY <2>1, CallsEnumerate
  <2> QED
    BY <2>1, <2>2, SeqMonotonic DEF Enumerates
<1>6. \A a : \A c : c \in From(a) <=> c \in CallSites /\ c[1] = a
  OBVIOUS
<1> HIDE DEF From
<1>7. /\ lists \in [1 .. m -> Seq(CallSites)]
      /\ \A i \in 1 .. m : lists[i] = CallsOf(From(code[i]))
  BY <1>4, <1>5
<1> HIDE DEF lists
<1>8. lists \in Seq(Seq(CallSites)) /\ Len(lists) = m
  BY <1>4, <1>7
<1>9. /\ calls \in Seq(CallSites)
      /\ \A c : c \in Range(calls) <=> \E i \in 1 .. m : c \in Range(lists[i])
  <2>1. /\ Joined(lists) \in Seq(CallSites)
        /\ \A c : c \in Range(Joined(lists)) <=> \E i \in 1 .. Len(lists) : c \in Range(lists[i])
    BY <1>8, JoinedParts
  <2> QED
    BY <1>8, <2>1
<1> HIDE DEF calls
<1>10. \A c : c \in Range(calls) <=> c \in CallSites /\ HasAddress(f, c[1])
  <2> SUFFICES ASSUME NEW c
               PROVE  c \in Range(calls) <=> c \in CallSites /\ HasAddress(f, c[1])
    OBVIOUS
  <2>1. c \in Range(calls) <=> \E i \in 1 .. m : c \in From(code[i])
    BY <1>5, <1>7, <1>9
  <2>2. (\E i \in 1 .. m : c \in From(code[i])) <=> c \in CallSites /\ c[1] \in Range(code)
    <3>1. \A i \in 1 .. m : code[i] \in Range(code)
      BY <1>4 DEF Range
    <3>2. \A a \in Range(code) : \E i \in 1 .. m : a = code[i]
      BY <1>4 DEF Range
    <3> QED
      BY <1>6, <3>1, <3>2
  <2>3. c \in CallSites => c[1] \in CodeBytes
    BY DEF FunctionsAssumption
  <2>4. c \in CallSites => (c[1] \in Range(code) <=> HasAddress(f, c[1]))
    BY <1>1, <1>2, <2>3
  <2> QED
    BY <2>1, <2>2, <2>4
<1>11. LET list == ListedUpTo(EntriesAt(calls, 2), TRUE)[Len(calls)]
       IN  /\ list \in Seq(Nat)
           /\ \A x : x \in Range(list) <=>
                \E c \in Range(calls) : \E g \in get_func(c[2]) : x = g.start
           /\ TRUE => IsInjective(list)
  BY <1>9, EntriesFound
<1> QED
  BY <1>3, <1>10, <1>11

(* What the three parts of FunctionsSound say follows from the invariant.  *)
LEMMA ChunksRight == ASSUME NEW n, Lying(AllOf, tails, n) PROVE ChunksMakeTheFunction
<1> SUFFICES ASSUME NEW f \in AllOf
             PROVE  /\ chunk_count(f) = Len(chunks(f))
                    /\ chunks(f)[1] = Entry(f) /\ tail_chunks(f) = Tail(chunks(f))
                    /\ \A i, j \in DOMAIN chunks(f) :
                         i # j => ChunkSpan(chunks(f)[i]) \cap ChunkSpan(chunks(f)[j]) = {}
                    /\ \A a \in FunctionAddresses : f \in get_func(a) => a \in Covered(f)
                    /\ IsInjective(item_addresses(f))
                    /\ Range(item_addresses(f)) \subseteq Covered(f)
                    /\ Range(code_addresses(f)) = Covered(f) \cap CodeBytes
                    /\ Range(code_addresses(f)) \subseteq Range(item_addresses(f))
  BY DEF ChunksMakeTheFunction
<1>1. chunk_count(f) = Len(chunks(f)) /\ chunks(f)[1] = Entry(f) /\ tail_chunks(f) = Tail(chunks(f))
  BY ChunksListed
<1>2. ASSUME NEW i \in DOMAIN chunks(f), NEW j \in DOMAIN chunks(f), i # j
      PROVE  ChunkSpan(chunks(f)[i]) \cap ChunkSpan(chunks(f)[j]) = {}
  <2> DEFINE c == chunks(f)[i]
             d == chunks(f)[j]
  <2>1. chunks(f) \in Seq(ChunkRecord)
    BY ChunksListed
  <2>2. /\ DOMAIN chunks(f) = 1 .. Len(chunks(f)) /\ Len(chunks(f)) \in Nat
        /\ c \in ChunkRecord /\ d \in ChunkRecord
    BY <2>1, LenProperties, ElementOfSeq
  <2>3. i < j \/ j < i
    BY <1>2, <2>2
  <2>4. OneBehind(c, d) \/ OneBehind(d, c)
    BY <2>2, <2>3, ChunksListed
  <2> HIDE DEF c, d
  <2>5. ASSUME NEW a \in ChunkSpan(c), a \in ChunkSpan(d) PROVE FALSE
    BY <2>2, <2>4, <2>5 DEF ChunkSpan, OneBehind, ChunkRecord
  <2> QED
    BY <2>5 DEF c, d
<1>3. /\ IsInjective(item_addresses(f)) /\ item_addresses(f) \in Seq(Nat)
      /\ Range(item_addresses(f)) = Covered(f)
  BY AddressesListed
<1>4. \A a \in FunctionAddresses : f \in get_func(a) => a \in Covered(f)
  BY FunctionOfAddress, AddressesListed
<1>5. Range(code_addresses(f)) = Range(item_addresses(f)) \cap CodeBytes
  <2> DEFINE all == item_addresses(f)
  <2>1. code_addresses(f) = Picked(all, {i \in DOMAIN all : all[i] \in CodeBytes})
    BY DEF code_addresses
  <2> HIDE DEF all
  <2>2. Range(Picked(all, {i \in DOMAIN all : all[i] \in CodeBytes})) = Range(all) \cap CodeBytes
    BY <1>3, PickedRange DEF all
  <2> QED
    BY <2>1, <2>2 DEF all
<1> QED
  BY <1>1, <1>2, <1>3, <1>4, <1>5

LEMMA CallGraphRight ==
  ASSUME FunctionsAssumption, NEW n, Lying(AllOf, tails, n)
  PROVE  CallGraphAgrees
<1> SUFFICES ASSUME NEW f \in AllOf, NEW g \in AllOf
             PROVE  /\ IsInjective(callees(f)) /\ NoneTwiceInARow(callers(f))
                    /\ Contains(callers(g), f.start) => Contains(callees(f), g.start)
                    /\ /\ Contains(callees(f), g.start)
                       /\ \A c \in CallSites :
                            g \in get_func(c[2]) /\ c[1] \in Covered(f) =>
                              c[2] = g.start /\ get_func(c[1]) = {f}
                       => Contains(callers(g), f.start)
  BY DEF CallGraphAgrees
<1>1. /\ IsInjective(callees(f))
      /\ \A x : Contains(callees(f), x) <=>
           \E c \in CallSites : HasAddress(f, c[1]) /\ \E h \in get_func(c[2]) : x = h.start
  BY CalleesFound, InRange
<1>0. NoneTwiceInARow(callers(f))
  BY CallersFound
<1>2. \A x : Contains(callers(g), x) <=>
         \E c \in CallSites : c[2] = g.start /\ \E h \in get_func(c[1]) : x = h.start
  BY CallersFound, InRange
<1>3. \A h, k \in AllOf : h.start = k.start => h = k
  <2> SUFFICES ASSUME NEW h \in AllOf, NEW k \in AllOf, h.start = k.start, h # k PROVE FALSE
    OBVIOUS
  <2>1. OneBehind(h, k) /\ h.start < h.end /\ k.start < k.end
    BY DEF Lying
  <2>2. h \in FunctionRecord /\ k \in FunctionRecord
    BY DEF Lying
  <2> QED
    BY <2>1, <2>2 DEF OneBehind, FunctionRecord
<1>4. get_func(g.start) = {g}
  <2>1. g.start \in ChunkSpan(g)
    BY DEF Lying, FunctionRecord, ChunkSpan
  <2> QED
    BY <2>1, FunctionOfAddress
<1>5. ASSUME Contains(callers(g), f.start) PROVE Contains(callees(f), g.start)
  <2>1. PICK c \in CallSites : c[2] = g.start /\ \E h \in get_func(c[1]) : f.start = h.start
    BY <1>2, <1>5
  <2>2. PICK h \in get_func(c[1]) : f.start = h.start
    BY <2>1
  <2>3. h = f /\ HasAddress(h, c[1])
    BY <1>3, <2>2, FunctionOfAddress
  <2>4. g \in get_func(c[2])
    BY <1>4, <2>1
  <2> QED
    BY <1>1, <2>3, <2>4
<1>6. ASSUME Contains(callees(f), g.start),
             \A c \in CallSites :
               g \in get_func(c[2]) /\ c[1] \in Covered(f) =>
                 c[2] = g.start /\ get_func(c[1]) = {f}
      PROVE  Contains(callers(g), f.start)
  <2>1. PICK c \in CallSites : HasAddress(f, c[1]) /\ \E h \in get_func(c[2]) : g.start = h.start
    BY <1>1, <1>6
  <2>2. PICK h \in get_func(c[2]) : g.start = h.start
    BY <2>1
  <2>3. h = g
    BY <1>3, <2>2, FunctionOfAddress
  <2>4. c[1] \in Covered(f)
    BY <2>1, AddressesListed
  <2>5. c[2] = g.start /\ f \in get_func(c[1])
    BY <1>6, <2>2, <2>3, <2>4
  <2> QED
    BY <1>2, <2>5
<1> QED
  BY <1>0, <1>1, <1>5, <1>6

-----------------------------------------------------------------------------
(* The steps.  Functions are listed anew by their entries.                 *)
LEMMA Relisted ==
  ASSUME NEW S, NEW T, NEW n, Lying(S, T, n)
  PROVE  ByEntry(S) \in Seq(FunctionRecord) /\ Range(ByEntry(S)) = S
<1>1. IsFiniteSet(S) /\ S \subseteq FunctionRecord
  BY DEF Lying
<1>2. \A f \in S : f.start \in Nat /\ f.end \in Nat
  BY <1>1 DEF FunctionRecord
<1>3. \A f, g \in S : f.start = g.start => f = g
  <2> SUFFICES ASSUME NEW f \in S, NEW g \in S, f.start = g.start, f # g PROVE FALSE
    OBVIOUS
  <2>1. OneBehind(f, g) /\ f.start < f.end /\ g.start < g.end
    BY DEF Lying
  <2> QED
    BY <1>2, <2>1 DEF OneBehind
<1>4. Enumerates(ByEntry(S), S)
  BY <1>1, <1>2, <1>3, ByEntryEnumerates
<1> QED
  BY <1>1, <1>4, SeqMonotonic DEF Enumerates

(* Some tails change their users, others go; the functions stay or go.     *)
Keeps(t, v, S) ==
  /\ v \in TailRecord /\ v.start = t.start /\ v.end = t.end
  /\ v.owner \in v.users
  /\ \A id \in v.users : \E f \in S : f.id = id

LEMMA TailsChanged ==
  ASSUME NEW S, NEW T, NEW n, Lying(S, T, n), NEW S2 \in SUBSET S, NEW U \in SUBSET T,
         NEW after, DOMAIN after = U, \A t \in U : Keeps(t, after[t], S2)
  PROVE  Lying(S2, {after[t] : t \in U}, n)
<1> DEFINE V == {after[t] : t \in U}
<1>1. IsFiniteSet(S2)
  BY FS_Subset DEF Lying
<1>2. IsFiniteSet(V)
  <2> DEFINE h == [t \in U |-> after[t]]
  <2>1. h \in Surjection(U, V)
    BY DEF Surjection
  <2>2. IsFiniteSet(U)
    BY FS_Subset DEF Lying
  <2> HIDE DEF h, V
  <2> QED
    BY <2>1, <2>2, FS_Surjection
<1>3. \A t \in U : t \in TailRecord /\ t.start < t.end /\ t.end <= CodeLimit
  BY DEF Lying
<1>4. \A v \in V : \E t \in U : v = after[t] /\ Keeps(t, v, S2)
  OBVIOUS
<1>5. \A t, u \in U : t # u => OneBehind(t, u)
  BY DEF Lying
<1>6. \A f \in S2, t \in U : OneBehind(f, t)
  BY DEF Lying
<1>7. /\ n \in Nat /\ S2 \subseteq FunctionRecord
      /\ \A f \in S2 : f.start < f.end /\ f.end <= CodeLimit /\ f.id < n
      /\ \A f, g \in S2 : f # g => f.id # g.id /\ OneBehind(f, g)
  BY DEF Lying
<1> HIDE DEF V
<1>8. V \subseteq TailRecord
  BY <1>4 DEF Keeps
<1>9. \A v \in V : v.start < v.end /\ v.end <= CodeLimit
  BY <1>3, <1>4 DEF Keeps
<1>10. ASSUME NEW v \in V, NEW w \in V, v # w PROVE OneBehind(v, w)
  <2>1. PICK t \in U : v = after[t] /\ Keeps(t, v, S2)
    BY <1>4
  <2>2. PICK u \in U : w = after[u] /\ Keeps(u, w, S2)
    BY <1>4
  <2>3. OneBehind(t, u)
    BY <1>5, <1>10, <2>1, <2>2
  <2> QED
    BY <2>1, <2>2, <2>3 DEF Keeps, OneBehind
<1>11. ASSUME NEW f \in S2, NEW v \in V PROVE OneBehind(f, v)
  <2>1. PICK t \in U : v = after[t] /\ Keeps(t, v, S2)
    BY <1>4
  <2>2. OneBehind(f, t)
    BY <1>6
  <2> QED
    BY <2>1, <2>2 DEF Keeps, OneBehind
<1>12. \A v \in V : v.owner \in v.users /\ \A id \in v.users : \E f \in S2 : f.id = id
  BY <1>4 DEF Keeps
<1>13. Lying(S2, V, n)
  BY <1>1, <1>2, <1>7, <1>8, <1>9, <1>10, <1>11, <1>12 DEF Lying
<1> QED
  BY <1>13 DEF V

(* A function takes free room, or keeps its id and changes its room.       *)
LEMMA FunctionPut ==
  ASSUME NEW S, NEW T, NEW n, Lying(S, T, n), NEW m \in Nat, n <= m,
         NEW f, f \in FunctionRecord, f.start < f.end, f.end <= CodeLimit, f.id < m,
         NEW old, \A g \in S \ old : f.id # g.id /\ OneBehind(f, g),
         \A t \in T : OneBehind(f, t),
         \A g \in old \cap S : g.id = f.id
  PROVE  Lying((S \ old) \cup {f}, T, m)
<1> DEFINE R == (S \ old) \cup {f}
<1>1. IsFiniteSet(R)
  <2>1. IsFiniteSet(S \ old)
    BY FS_Subset DEF Lying
  <2> QED
    BY <2>1, FS_AddElement
<1>2. n \in Nat /\ S \subseteq FunctionRecord
      /\ \A g \in S : g.start < g.end /\ g.end <= CodeLimit /\ g.id < n
  BY DEF Lying
<1>3. R \subseteq FunctionRecord /\ \A g \in R : g = f \/ g \in S \ old
  BY <1>2
<1>4. \A g \in R : g.start < g.end /\ g.end <= CodeLimit /\ g.id < m
  <2>1. \A g \in S : g.id \in Nat /\ g.id < n
    BY <1>2 DEF FunctionRecord
  <2> QED
    BY <1>2, <1>3, <2>1
<1>5. \A g, h \in R : g # h => g.id # h.id /\ OneBehind(g, h)
  <2> SUFFICES ASSUME NEW g \in R, NEW h \in R, g # h PROVE g.id # h.id /\ OneBehind(g, h)
    OBVIOUS
  <2>1. CASE g = f
    BY <1>3, <2>1
  <2>2. CASE h = f
    <3>1. h.id # g.id /\ OneBehind(h, g)
      BY <1>3, <2>2
    <3> QED
      BY <3>1 DEF OneBehind
  <2>3. CASE g # f /\ h # f
    BY <1>3, <2>3 DEF Lying
  <2> QED
    BY <2>1, <2>2, <2>3
<1>6. \A g \in R, t \in T : OneBehind(g, t)
  BY <1>3 DEF Lying
<1>7. \A t \in T : t.owner \in t.users /\ \A id \in t.users : \E g \in R : g.id = id
  <2>1. \A g \in S : \E h \in R : h.id = g.id
    <3> SUFFICES ASSUME NEW g \in S PROVE \E h \in R : h.id = g.id
      OBVIOUS
    <3>1. CASE g \in old
      BY <3>1
    <3>2. CASE g \notin old
      BY <3>2
    <3> QED
      BY <3>1, <3>2
  <2>2. \A t \in T : t.owner \in t.users /\ \A id \in t.users : \E g \in S : g.id = id
    BY DEF Lying
  <2> HIDE DEF R
  <2> QED
    BY <2>1, <2>2
<1>8. IsFiniteSet(T) /\ T \subseteq TailRecord
      /\ (\A t \in T : t.start < t.end /\ t.end <= CodeLimit)
      /\ \A t, u \in T : t # u => OneBehind(t, u)
  BY DEF Lying
<1> HIDE DEF R
<1>9. Lying(R, T, m)
  BY <1>1, <1>3, <1>4, <1>5, <1>6, <1>7, <1>8 DEF Lying
<1> QED
  BY <1>9 DEF R

(* A loop over functions that change goes on, and nothing more is said.    *)
LEMMA LoopChanged == ASSUME LoopInv, FunctionsChanged PROVE LoopInv'
<1>1. CASE functionWalk.on
  <2>1. functionWalk' = [functionWalk EXCEPT !.changed = TRUE]
    BY <1>1 DEF FunctionsChanged
  <2>2. functionWalk' \in WalkRecord /\ functionWalk'.changed = TRUE
    BY <2>1 DEF LoopInv, WalkRecord
  <2>3. ~Undisturbed(functionWalk')
    BY <2>2 DEF Undisturbed
  <2> QED
    BY <2>2, <2>3 DEF LoopInv
<1>2. CASE ~functionWalk.on
  <2>1. functionWalk' = functionWalk
    BY <1>2 DEF FunctionsChanged
  <2>2. ~Undisturbed(functionWalk')
    BY <1>2, <2>1 DEF Undisturbed
  <2> QED
    BY <2>1, <2>2 DEF LoopInv
<1> QED
  BY <1>1, <1>2

LEMMA FunctionsRelisted ==
  ASSUME ListingInv, FunctionsChanged, NEW S, NEW T,
         functions' = ByEntry(S), tails' = T, Lying(S, T, madeFunctions')
  PROVE  ListingInv'
<1>1. functions' \in Seq(FunctionRecord) /\ Range(functions') = S
  BY Relisted
<1>2. LoopInv'
  BY LoopChanged DEF ListingInv
<1> QED
  BY <1>1, <1>2 DEF ListingInv, AllOf

(* create: the id of a new function is one that no function had. *)
LEMMA FunctionCreated ==
  ASSUME ListingInv, FunctionsAssumption, NEW r \in FunctionRanges,
         CreateFunction(r.start, r.end)
  PROVE  ListingInv'
<1> DEFINE f == [id |-> madeFunctions, start |-> r.start, end |-> r.end]
<1>1. /\ Lying(AllOf, tails, madeFunctions) /\ madeFunctions \in Nat
      /\ CodeLimit \in Nat
  BY DEF ListingInv, Lying, FunctionsAssumption
<1>2. /\ FunctionFree([start |-> r.start, end |-> r.end])
      /\ functions' = ByEntry(AllOf \cup {f})
      /\ madeFunctions' = madeFunctions + 1
      /\ FunctionsChanged /\ tails' = tails
  BY DEF CreateFunction
<1>3. /\ f \in FunctionRecord /\ f.start < f.end /\ f.end <= CodeLimit
      /\ f.id = madeFunctions
  BY <1>1 DEF FunctionRanges, FunctionAddresses, FunctionRecord
<1>4. \A c \in AllOf \cup tails : f.end <= c.start \/ c.end <= f.start
  BY <1>2 DEF FunctionFree
<1> HIDE DEF f
<1>5. \A g \in AllOf \ {} : f.id # g.id /\ OneBehind(f, g)
  <2>1. \A g \in AllOf : g.id \in Nat /\ g.id < madeFunctions
    BY <1>1 DEF Lying, FunctionRecord
  <2> QED
    BY <1>1, <1>3, <1>4, <2>1 DEF OneBehind
<1>6. \A t \in tails : OneBehind(f, t)
  BY <1>4 DEF OneBehind
<1>7. /\ madeFunctions + 1 \in Nat /\ madeFunctions <= madeFunctions + 1
      /\ f.id < madeFunctions + 1
  BY <1>1, <1>3
<1>8. \A g \in {} \cap AllOf : g.id = f.id
  OBVIOUS
<1>9. Lying((AllOf \ {}) \cup {f}, tails, madeFunctions + 1)
  BY <1>1, <1>3, <1>5, <1>6, <1>7, <1>8, FunctionPut
<1>10. (AllOf \ {}) \cup {f} = AllOf \cup {f}
  OBVIOUS
<1>11. Lying(AllOf \cup {f}, tails', madeFunctions')
  BY <1>2, <1>9, <1>10
<1> QED
  BY <1>2, <1>11, FunctionsRelisted

(* set_start and set_end. *)
LEMMA BoundsSet ==
  ASSUME ListingInv, NEW a, NEW f, NEW start \in Nat, NEW end \in Nat, end <= CodeLimit,
         SetBounds(a, start, end)
  PROVE  ListingInv'
<1>1. PICK g \in get_func(a) :
        /\ start < end
        /\ \A c \in (AllOf \ {g}) \cup tails : end <= c.start \/ c.end <= start
        /\ functions' = ByEntry((AllOf \ {g}) \cup {[g EXCEPT !.start = start, !.end = end]})
        /\ FunctionsChanged
        /\ UNCHANGED <<tails, marked, madeFunctions>>
  BY DEF SetBounds
<1> DEFINE h == [g EXCEPT !.start = start, !.end = end]
<1>2. Lying(AllOf, tails, madeFunctions) /\ madeFunctions \in Nat
  BY DEF ListingInv, Lying
<1>3. g \in AllOf
  BY <1>2, FunctionOfAddress
<1>4. g \in FunctionRecord /\ g.id < madeFunctions
  BY <1>2, <1>3 DEF Lying
<1>5. /\ h \in FunctionRecord /\ h.id = g.id /\ h.start = start /\ h.end = end
  BY <1>4 DEF FunctionRecord
<1> HIDE DEF h
<1>6. \A k \in AllOf \ {g} : h.id # k.id /\ OneBehind(h, k)
  <2>1. \A k \in AllOf \ {g} : g.id # k.id
    BY <1>2, <1>3 DEF Lying
  <2> QED
    BY <1>1, <1>5, <2>1 DEF OneBehind
<1>7. \A t \in tails : OneBehind(h, t)
  BY <1>1, <1>5 DEF OneBehind
<1>8. \A k \in {g} \cap AllOf : k.id = h.id
  BY <1>5
<1>9. h.start < h.end /\ h.end <= CodeLimit /\ h.id < madeFunctions /\ madeFunctions <= madeFunctions
  BY <1>1, <1>2, <1>4, <1>5
<1>10. Lying((AllOf \ {g}) \cup {h}, tails, madeFunctions)
  BY <1>2, <1>5, <1>6, <1>7, <1>8, <1>9, FunctionPut
<1>11. Lying((AllOf \ {g}) \cup {h}, tails', madeFunctions')
  BY <1>1, <1>10
<1>12. functions' = ByEntry((AllOf \ {g}) \cup {h})
  BY <1>1 DEF h
<1> QED
  BY <1>1, <1>11, <1>12, FunctionsRelisted

(* A tail that loses a user goes to the first of those that are left.      *)
Handed(t, id) ==
  [start |-> t.start, end |-> t.end,
   owner |-> IF t.owner = id THEN Min(t.users \ {id}) ELSE t.owner,
   users |-> t.users \ {id}]

LEMMA HandedKeeps ==
  ASSUME NEW S, NEW t \in TailRecord, t.owner \in t.users, NEW id, t.users \ {id} # {},
         \A i \in t.users \ {id} : \E f \in S : f.id = i
  PROVE  Keeps(t, Handed(t, id), S)
<1> DEFINE users == t.users \ {id}
           v == Handed(t, id)
<1>1. /\ users \subseteq Nat /\ users # {} /\ t.start \in Nat /\ t.end \in Nat
      /\ t.owner \in Nat
  BY DEF TailRecord
<1>2. t.owner # id => t.owner \in users
  OBVIOUS
<1>3. /\ v.start = t.start /\ v.end = t.end /\ v.users = users
      /\ v.owner = IF t.owner = id THEN Min(users) ELSE t.owner
      /\ v = [start |-> v.start, end |-> v.end, owner |-> v.owner, users |-> v.users]
  BY DEF Handed
<1> HIDE DEF users, v
<1>4. Min(users) \in users
  BY <1>1, MinInSet
<1>5. v.owner \in users
  BY <1>2, <1>3, <1>4
<1>6. v \in TailRecord
  BY <1>1, <1>3, <1>5 DEF TailRecord
<1> QED
  BY <1>3, <1>5, <1>6 DEF Keeps, users, v

(* Handing on as remove and as remove_tail write it.                       *)
LEMMA HandedBySteps ==
  ASSUME NEW t \in TailRecord, NEW id
  PROVE  LET less == [t EXCEPT !.users = @ \ {id}]
         IN  /\ less.users = t.users \ {id}
             /\ [less EXCEPT !.owner = IF less.owner = id THEN Min(less.users) ELSE less.owner]
                  = Handed(t, id)
<1> DEFINE users == t.users \ {id}
           less == [t EXCEPT !.users = users]
           owner == IF t.owner = id THEN Min(users) ELSE t.owner
<1>1. t = [start |-> t.start, end |-> t.end, owner |-> t.owner, users |-> t.users]
  BY DEF TailRecord
<1>2. Handed(t, id) = [start |-> t.start, end |-> t.end, owner |-> owner, users |-> users]
  BY DEF Handed
<1> HIDE DEF users
<1>3. less = [start |-> t.start, end |-> t.end, owner |-> t.owner, users |-> users]
  BY <1>1
<1> HIDE DEF less
<1>4. less.users = users /\ less.owner = t.owner
  BY <1>3
<1>5. (IF less.owner = id THEN Min(less.users) ELSE less.owner) = owner
  BY <1>4
<1> HIDE DEF owner
<1>6. [less EXCEPT !.owner = owner] = Handed(t, id)
  BY <1>2, <1>3
<1> QED
  BY <1>4, <1>5, <1>6 DEF less, users

LEMMA HandedAtOnce ==
  ASSUME NEW t \in TailRecord, NEW id, NEW users, users = t.users \ {id}
  PROVE  [t EXCEPT !.users = users, !.owner = IF @ = id THEN Min(users) ELSE @] = Handed(t, id)
<1> DEFINE owner == IF t.owner = id THEN Min(users) ELSE t.owner
<1>1. t = [start |-> t.start, end |-> t.end, owner |-> t.owner, users |-> t.users]
  BY DEF TailRecord
<1>2. Handed(t, id) = [start |-> t.start, end |-> t.end, owner |-> owner, users |-> users]
  BY DEF Handed
<1> HIDE DEF owner
<1> DEFINE less == [t EXCEPT !.users = users]
<1>3. less = [start |-> t.start, end |-> t.end, owner |-> t.owner, users |-> users]
  BY <1>1
<1>4. [t EXCEPT !.users = users, !.owner = owner] = [less EXCEPT !.owner = owner]
  OBVIOUS
<1> HIDE DEF less
<1>5. [less EXCEPT !.owner = owner] = Handed(t, id)
  BY <1>2, <1>3
<1>6. [t EXCEPT !.users = users, !.owner = owner] = Handed(t, id)
  BY <1>4, <1>5
<1> QED
  BY <1>6 DEF owner

(* remove: the tails the function used are handed on or freed.             *)
LEMMA FunctionRemoved ==
  ASSUME ListingInv, NEW a, RemoveFunction(a)
  PROVE  ListingInv'
<1>1. PICK f \in get_func(a) :
        /\ functions' = ByEntry(AllOf \ {f})
        /\ LET reduced == {[t EXCEPT !.users = @ \ {f.id}] : t \in tails}
           IN tails' = {[t EXCEPT !.owner = IF t.owner = f.id THEN Min(t.users) ELSE t.owner]
                         : t \in {u \in reduced : u.users # {}}}
        /\ FunctionsChanged
        /\ UNCHANGED madeFunctions
  BY DEF RemoveFunction
<1> DEFINE S == AllOf \ {f}
           U == {t \in tails : t.users \ {f.id} # {}}
           after == [t \in U |-> Handed(t, f.id)]
           Less(t) == [t EXCEPT !.users = @ \ {f.id}]
           Own(t) == [t EXCEPT !.owner = IF t.owner = f.id THEN Min(t.users) ELSE t.owner]
<1>2. Lying(AllOf, tails, madeFunctions)
  BY DEF ListingInv
<1>3. S \in SUBSET AllOf /\ U \in SUBSET tails
  OBVIOUS
<1>4. \A t \in tails : t \in TailRecord /\ t.owner \in t.users
                      /\ \A i \in t.users : \E g \in AllOf : g.id = i
  BY <1>2 DEF Lying
<1>5. \A t \in U : Keeps(t, after[t], S)
  <2> SUFFICES ASSUME NEW t \in U PROVE Keeps(t, Handed(t, f.id), S)
    OBVIOUS
  <2>1. t \in TailRecord /\ t.owner \in t.users /\ t.users \ {f.id} # {}
    BY <1>4
  <2>2. \A i \in t.users \ {f.id} : \E g \in S : g.id = i
    BY <1>4
  <2> QED
    BY <2>1, <2>2, HandedKeeps
<1>7. \A t \in tails : Less(t).users = t.users \ {f.id} /\ Own(Less(t)) = Handed(t, f.id)
  BY <1>4, HandedBySteps
<1>8. tails' = {Own(t) : t \in {u \in {Less(t) : t \in tails} : u.users # {}}}
  BY <1>1
<1> HIDE DEF Own, Less
<1>9. tails' = {after[t] : t \in U}
  <2>1. ASSUME NEW v \in tails' PROVE \E t \in U : v = after[t]
    <3>1. PICK u \in {u \in {Less(t) : t \in tails} : u.users # {}} : v = Own(u)
      BY <1>8, <2>1
    <3>2. PICK t \in tails : u = Less(t)
      BY <3>1
    <3>3. t \in U
      BY <1>7, <3>1, <3>2
    <3> QED
      BY <1>7, <3>1, <3>2, <3>3
  <2>2. ASSUME NEW t \in U PROVE after[t] \in tails'
    <3>1. Less(t) \in {u \in {Less(w) : w \in tails} : u.users # {}}
      BY <1>7
    <3>2. Own(Less(t)) \in tails'
      BY <1>8, <3>1
    <3> QED
      BY <1>7, <3>2
  <2> HIDE DEF after, U
  <2> QED
    BY <2>1, <2>2
<1> HIDE DEF S, U
<1>10. DOMAIN after = U
  OBVIOUS
<1> HIDE DEF after
<1>11. Lying(S, {after[t] : t \in U}, madeFunctions)
  BY <1>2, <1>3, <1>5, <1>10, TailsChanged
<1>12. functions' = ByEntry(S)
  BY <1>1 DEF S
<1>13. Lying(S, tails', madeFunctions')
  BY <1>1, <1>9, <1>11
<1> QED
  BY <1>1, <1>12, <1>13, FunctionsRelisted

-----------------------------------------------------------------------------
(* The steps that leave the functions where they are.                      *)
LEMMA FunctionsStay ==
  ASSUME ListingInv, FunctionsChanged, functions' = functions,
         Lying(AllOf, tails', madeFunctions')
  PROVE  ListingInv'
<1>1. LoopInv'
  BY LoopChanged DEF ListingInv
<1> QED
  BY <1>1 DEF ListingInv, AllOf

(* add_tail: free room becomes a tail, or a tail gets one more user.       *)
LEMMA TailPut ==
  ASSUME NEW S, NEW T, NEW n, Lying(S, T, n), NEW t \in TailRecord,
         t.start < t.end, t.end <= CodeLimit,
         \A c \in S \cup T : OneBehind(c, t),
         t.owner \in t.users, \A id \in t.users : \E f \in S : f.id = id
  PROVE  Lying(S, T \cup {t}, n)
<1> DEFINE V == T \cup {t}
<1>1. IsFiniteSet(V)
  BY FS_AddElement DEF Lying
<1>2. \A v \in V : v = t \/ v \in T
  OBVIOUS
<1> HIDE DEF V
<1>3. V \subseteq TailRecord /\ \A v \in V : v.start < v.end /\ v.end <= CodeLimit
  BY <1>2 DEF Lying
<1>4. \A v, w \in V : v # w => OneBehind(v, w)
  <2> SUFFICES ASSUME NEW v \in V, NEW w \in V, v # w PROVE OneBehind(v, w)
    OBVIOUS
  <2>1. CASE w = t
    BY <1>2, <2>1
  <2>2. CASE v = t
    <3>1. OneBehind(w, t)
      BY <1>2, <2>2
    <3> QED
      BY <2>2, <3>1 DEF OneBehind
  <2>3. CASE v # t /\ w # t
    BY <1>2, <2>3 DEF Lying
  <2> QED
    BY <2>1, <2>2, <2>3
<1>5. \A f \in S, v \in V : OneBehind(f, v)
  BY <1>2 DEF Lying
<1>6. \A v \in V : v.owner \in v.users /\ \A id \in v.users : \E f \in S : f.id = id
  BY <1>2 DEF Lying
<1>7. /\ IsFiniteSet(S) /\ n \in Nat /\ S \subseteq FunctionRecord
      /\ \A f \in S : f.start < f.end /\ f.end <= CodeLimit /\ f.id < n
      /\ \A f, g \in S : f # g => f.id # g.id /\ OneBehind(f, g)
  BY DEF Lying
<1>8. Lying(S, V, n)
  BY <1>1, <1>3, <1>4, <1>5, <1>6, <1>7 DEF Lying
<1> QED
  BY <1>8 DEF V

LEMMA TailAdded ==
  ASSUME ListingInv, FunctionsAssumption, NEW a, NEW range \in FunctionRanges,
         AddTail(a, range)
  PROVE  ListingInv'
<1>1. PICK f \in get_func(a) :
        /\ \/ /\ FunctionFree(range)
              /\ tails' = tails \cup {[start |-> range.start, end |-> range.end,
                                   owner |-> f.id, users |-> {f.id}]}
           \/ \E t \in tails :
                /\ t.start = range.start /\ t.end = range.end /\ f.id \notin t.users
                /\ tails' = (tails \ {t}) \cup {[t EXCEPT !.users = @ \cup {f.id}]}
        /\ FunctionsChanged
        /\ UNCHANGED <<functions, marked, madeFunctions>>
  BY DEF AddTail
<1>2. Lying(AllOf, tails, madeFunctions) /\ CodeLimit \in Nat
  BY DEF ListingInv, FunctionsAssumption
<1>3. f \in AllOf /\ f.id \in Nat
  <2>1. f \in AllOf
    BY <1>2, FunctionOfAddress
  <2> QED
    BY <1>2, <2>1 DEF Lying, FunctionRecord
<1>4. ASSUME FunctionFree(range),
             tails' = tails \cup {[start |-> range.start, end |-> range.end,
                                  owner |-> f.id, users |-> {f.id}]}
      PROVE  Lying(AllOf, tails', madeFunctions)
  <2> DEFINE t == [start |-> range.start, end |-> range.end, owner |-> f.id, users |-> {f.id}]
  <2>1. /\ t \in TailRecord /\ t.start < t.end /\ t.end <= CodeLimit
        /\ t.owner \in t.users /\ t.start = range.start /\ t.end = range.end
        /\ t.users = {f.id}
    BY <1>2, <1>3 DEF FunctionRanges, FunctionAddresses, TailRecord
  <2> HIDE DEF t
  <2>2. \A c \in AllOf \cup tails : OneBehind(c, t)
    BY <1>4, <2>1 DEF FunctionFree, OneBehind
  <2>3. \A id \in t.users : \E g \in AllOf : g.id = id
    BY <1>3, <2>1
  <2>4. Lying(AllOf, tails \cup {t}, madeFunctions)
    BY <1>2, <2>1, <2>2, <2>3, TailPut
  <2> QED
    BY <1>4, <2>4 DEF t
<1>5. ASSUME NEW t \in tails, tails' = (tails \ {t}) \cup {[t EXCEPT !.users = @ \cup {f.id}]}
      PROVE  Lying(AllOf, tails', madeFunctions)
  <2> DEFINE more == [t EXCEPT !.users = @ \cup {f.id}]
             after == [u \in tails |-> IF u = t THEN more ELSE u]
  <2>1. \A u \in tails : u \in TailRecord /\ u.owner \in u.users
                        /\ \A id \in u.users : \E g \in AllOf : g.id = id
    BY <1>2 DEF Lying
  <2>2. /\ more \in TailRecord /\ more.start = t.start /\ more.end = t.end
        /\ more.owner = t.owner /\ more.users = t.users \cup {f.id}
    BY <1>3, <2>1 DEF TailRecord
  <2> HIDE DEF more
  <2>3. Keeps(t, more, AllOf)
    BY <1>3, <2>1, <2>2 DEF Keeps
  <2>4. \A u \in tails : Keeps(u, after[u], AllOf)
    BY <2>1, <2>3 DEF Keeps
  <2>5. tails' = {after[u] : u \in tails}
    <3>1. tails' = (tails \ {t}) \cup {more}
      BY <1>5 DEF more
    <3> QED
      BY <3>1
  <2>6. DOMAIN after = tails /\ tails \in SUBSET tails /\ AllOf \in SUBSET AllOf
    OBVIOUS
  <2> HIDE DEF after
  <2>7. Lying(AllOf, {after[u] : u \in tails}, madeFunctions)
    BY <1>2, <2>4, <2>6, TailsChanged
  <2> QED
    BY <2>5, <2>7
<1>6. Lying(AllOf, tails', madeFunctions')
  BY <1>1, <1>4, <1>5
<1> QED
  BY <1>1, <1>6, FunctionsStay

(* remove_tail: the use of one function is taken back.                     *)
LEMMA TailRemoved ==
  ASSUME ListingInv, NEW a, NEW b, RemoveTail(a, b)
  PROVE  ListingInv'
<1>1. PICK f \in get_func(a), t \in tails :
        /\ f.id \in t.users
        /\ LET users == t.users \ {f.id}
           IN tails' = (tails \ {t}) \cup
                (IF users = {} THEN {}
                 ELSE {[t EXCEPT !.users = users,
                                 !.owner = IF @ = f.id THEN Min(users) ELSE @]})
        /\ FunctionsChanged
        /\ UNCHANGED <<functions, marked, madeFunctions>>
  BY DEF RemoveTail
<1> DEFINE users == t.users \ {f.id}
           U == IF users = {} THEN tails \ {t} ELSE tails
           after == [u \in U |-> IF u = t THEN Handed(t, f.id) ELSE u]
<1>2. Lying(AllOf, tails, madeFunctions)
  BY DEF ListingInv
<1>3. \A u \in tails : u \in TailRecord /\ u.owner \in u.users
                      /\ \A id \in u.users : \E g \in AllOf : g.id = id
  BY <1>2 DEF Lying
<1>4. users # {} => Keeps(t, Handed(t, f.id), AllOf)
  <2>1. t \in TailRecord /\ t.owner \in t.users
        /\ \A id \in t.users \ {f.id} : \E g \in AllOf : g.id = id
    BY <1>3
  <2> QED
    BY <2>1, HandedKeeps
<1>5. \A u \in U : u \in tails /\ (u = t => users # {})
  OBVIOUS
<1>6. \A u \in U : Keeps(u, after[u], AllOf)
  <2> HIDE DEF users, U
  <2> QED
    BY <1>3, <1>4, <1>5 DEF Keeps
<1>7. [t EXCEPT !.users = users, !.owner = IF @ = f.id THEN Min(users) ELSE @] = Handed(t, f.id)
  BY <1>3, HandedAtOnce
<1>8. tails' = {after[u] : u \in U}
  <2>1. tails' = (tails \ {t}) \cup (IF users = {} THEN {} ELSE {Handed(t, f.id)})
    BY <1>1, <1>7
  <2> HIDE DEF users
  <2> QED
    BY <2>1
<1>9. DOMAIN after = U /\ U \in SUBSET tails /\ AllOf \in SUBSET AllOf
  OBVIOUS
<1> HIDE DEF after, U
<1>10. Lying(AllOf, {after[u] : u \in U}, madeFunctions)
  BY <1>2, <1>6, <1>9, TailsChanged
<1>11. Lying(AllOf, tails', madeFunctions')
  BY <1>1, <1>8, <1>10
<1> QED
  BY <1>1, <1>11, FunctionsStay

(* What is stored with a function is no chunk of it.                       *)
LEMMA OnlyMarked ==
  ASSUME ListingInv, FunctionsChanged, UNCHANGED <<functions, tails, madeFunctions>>
  PROVE  ListingInv'
<1>1. Lying(AllOf, tails', madeFunctions')
  BY DEF ListingInv
<1> QED
  BY <1>1, FunctionsStay

-----------------------------------------------------------------------------
(* The client's loop.                                                      *)
LEMMA LoopStepped ==
  ASSUME ListingInv, UNCHANGED <<functions, tails, madeFunctions>>, LoopInv'
  PROVE  ListingInv'
  BY DEF ListingInv, AllOf

LEMMA LoopBegun == ASSUME ListingInv, AllFunctions PROVE LoopInv'
<1>1. /\ functionWalk' = [NoFunctionWalk EXCEPT !.on = TRUE, !.total = Len(functions)]
      /\ functions' = functions
  BY DEF AllFunctions
<1>2. Len(functions) \in Nat
  BY LenProperties DEF ListingInv
<1>3. /\ functionWalk' = [on |-> TRUE, total |-> Len(functions), seen |-> << >>,
                         changed |-> FALSE]
  BY <1>1 DEF NoFunctionWalk
<1>4. << >> \in Seq(Nat) /\ Len(<< >>) = 0
  BY EmptySeq
<1>5. functionWalk' \in WalkRecord /\ functionWalk'.total = Len(functions)
      /\ functionWalk'.seen = << >>
  BY <1>2, <1>3, <1>4 DEF WalkRecord
<1>6. Len(functionWalk'.seen) = 0 /\ 0 <= Len(functions)
  BY <1>2, <1>4, <1>5
<1> QED
  BY <1>1, <1>5, <1>6 DEF LoopInv

LEMMA FunctionVisited ==
  ASSUME ListingInv, FunctionsAssumption, VisitFunction
  PROVE  LoopInv'
<1> DEFINE next == Len(functionWalk.seen) + 1
           e == IF next <= Len(functions) THEN functions[next].start ELSE EmptyFunction
           s == functionWalk.seen
<1>1. /\ functionWalk.on /\ next <= functionWalk.total
      /\ functionWalk' = [functionWalk EXCEPT !.seen = Append(@, e)]
      /\ functions' = functions
  BY DEF VisitFunction
<1>2. functionWalk \in WalkRecord /\ s \in Seq(Nat)
  BY DEF ListingInv, LoopInv, WalkRecord
<1>3. Len(s) \in Nat /\ next \in Nat /\ Len(functions) \in Nat
  BY <1>2, LenProperties DEF ListingInv
<1>4. e \in Nat
  <2>1. CASE next <= Len(functions)
    <3>1. next \in 1 .. Len(functions)
      BY <1>3, <2>1
    <3>2. functions[next] \in FunctionRecord
      BY <3>1, ElementOfSeq DEF ListingInv
    <3> QED
      BY <2>1, <3>2 DEF FunctionRecord
  <2>2. CASE ~(next <= Len(functions))
    BY <2>2 DEF EmptyFunction, FunctionsAssumption
  <2> QED
    BY <2>1, <2>2
<1>5. e = IF next <= Len(functions) THEN functions[next].start ELSE EmptyFunction
  OBVIOUS
<1> HIDE DEF e
<1>6. /\ functionWalk' \in WalkRecord /\ functionWalk'.seen = Append(s, e)
      /\ functionWalk'.on = functionWalk.on /\ functionWalk'.changed = functionWalk.changed
      /\ functionWalk'.total = functionWalk.total
  <2>1. Append(s, e) \in Seq(Nat)
    BY <1>2, <1>4, AppendProperties
  <2> QED
    BY <1>1, <1>2, <2>1 DEF WalkRecord
<1>7. /\ Len(Append(s, e)) = next /\ Append(s, e)[next] = e
      /\ \A i \in 1 .. Len(s) : Append(s, e)[i] = s[i]
  BY <1>2, <1>4, AppendProperties
<1>8. ASSUME Undisturbed(functionWalk')
      PROVE  /\ functionWalk'.total = Len(functions)
             /\ Len(functionWalk'.seen) <= functionWalk'.total
             /\ \A i \in 1 .. Len(functionWalk'.seen) : functionWalk'.seen[i] = functions[i].start
  <2>1. Undisturbed(functionWalk)
    BY <1>6, <1>8 DEF Undisturbed
  <2>2. /\ functionWalk.total = Len(functions)
        /\ \A i \in 1 .. Len(s) : s[i] = functions[i].start
    BY <2>1 DEF ListingInv, LoopInv
  <2>3. e = functions[next].start
    BY <1>1, <1>5, <2>2
  <2>4. \A i \in 1 .. next : i \in 1 .. Len(s) \/ i = next
    BY <1>3
  <2> QED
    BY <1>1, <1>6, <1>7, <2>2, <2>3, <2>4
<1> QED
  BY <1>1, <1>6, <1>8 DEF LoopInv

LEMMA LoopEnded == ASSUME EndFunctionLoop PROVE LoopInv'
<1>1. functionWalk' = [on |-> FALSE, total |-> 0, seen |-> << >>, changed |-> FALSE]
  BY DEF EndFunctionLoop, NoFunctionWalk
<1>2. functionWalk' \in WalkRecord /\ functionWalk'.on = FALSE
  BY <1>1, EmptySeq DEF WalkRecord
<1> QED
  BY <1>2 DEF LoopInv, Undisturbed

LEMMA LoopComplete == ASSUME ListingInv PROVE FunctionLoopIsComplete
<1> SUFFICES ASSUME functionWalk.on, ~functionWalk.changed
             PROVE  /\ functionWalk.total = Len(functions)
                    /\ functionWalk.seen =
                         [i \in DOMAIN functionWalk.seen |-> functions[i].start]
  BY DEF FunctionLoopIsComplete
<1> DEFINE s == functionWalk.seen
<1>1. /\ functionWalk.total = Len(functions)
      /\ \A i \in 1 .. Len(s) : s[i] = functions[i].start
  BY DEF ListingInv, LoopInv, Undisturbed
<1>2. s \in Seq(Nat)
  BY DEF ListingInv, LoopInv, WalkRecord
<1> HIDE DEF s
<1>3. s \in [1 .. Len(s) -> Nat] /\ DOMAIN s = 1 .. Len(s)
  BY <1>2, LenProperties
<1>4. s = [i \in DOMAIN s |-> functions[i].start]
  BY <1>1, <1>3
<1> QED
  BY <1>1, <1>4 DEF s

-----------------------------------------------------------------------------
LEMMA ListingBegins == ASSUME FunctionsInit PROVE ListingInv
<1>1. /\ functions = << >> /\ tails = {} /\ functionWalk = NoFunctionWalk
      /\ madeFunctions = 0
  BY DEF FunctionsInit
<1>2. functions \in Seq(FunctionRecord) /\ AllOf = {}
  <2>1. << >> \in Seq(FunctionRecord) /\ DOMAIN << >> = {}
    BY EmptySeq
  <2> QED
    BY <1>1, <2>1 DEF AllOf, Range
<1>3. IsFiniteSet({})
  BY FS_EmptySet
<1>4. Lying({}, {}, 0)
  BY <1>3 DEF Lying
<1>5. functionWalk \in WalkRecord /\ functionWalk.on = FALSE
  <2>1. functionWalk = [on |-> FALSE, total |-> 0, seen |-> << >>, changed |-> FALSE]
    BY <1>1 DEF NoFunctionWalk
  <2> QED
    BY <2>1, EmptySeq DEF WalkRecord
<1>6. LoopInv
  BY <1>5 DEF LoopInv, Undisturbed
<1> QED
  BY <1>1, <1>2, <1>4, <1>6 DEF ListingInv

LEMMA BoundsChanged ==
  ASSUME ListingInv, FunctionsAssumption, NEW a, NEW b,
         \/ b \in FunctionAddresses /\ SetFunctionStart(a, b)
         \/ b \in 1 .. CodeLimit /\ SetFunctionEnd(a, b)
  PROVE  ListingInv'
<1>1. CodeLimit \in Nat /\ \A f \in get_func(a) : f \in AllOf
  BY FunctionOfAddress DEF ListingInv, FunctionsAssumption
<1>2. \A f \in AllOf : f.start \in Nat /\ f.end \in Nat /\ f.end <= CodeLimit
  BY DEF ListingInv, Lying, FunctionRecord
<1>3. CASE b \in FunctionAddresses /\ SetFunctionStart(a, b)
  <2>1. PICK f \in get_func(a) : SetBounds(a, b, f.end)
    BY <1>3 DEF SetFunctionStart
  <2>2. b \in Nat
    BY <1>1, <1>3 DEF FunctionAddresses
  <2> QED
    BY <1>1, <1>2, <2>1, <2>2, BoundsSet
<1>4. CASE b \in 1 .. CodeLimit /\ SetFunctionEnd(a, b)
  <2>1. PICK f \in get_func(a) : SetBounds(a, f.start, b)
    BY <1>4 DEF SetFunctionEnd
  <2>2. b \in Nat /\ b <= CodeLimit
    BY <1>1, <1>4
  <2> QED
    BY <1>1, <1>2, <2>1, <2>2, BoundsSet
<1> QED
  BY <1>3, <1>4

LEMMA ListingPreserved ==
  ASSUME ListingInv, FunctionsAssumption, [FunctionsNext]_functionsvars
  PROVE  ListingInv'
<1>1. CASE UNCHANGED functionsvars
  BY <1>1 DEF functionsvars, ListingInv, LoopInv, AllOf
<1>2. ASSUME NEW r \in FunctionRanges, CreateFunction(r.start, r.end) PROVE ListingInv'
  BY <1>2, FunctionCreated
<1>3. ASSUME NEW a, RemoveFunction(a) PROVE ListingInv'
  BY <1>3, FunctionRemoved
<1>4. ASSUME NEW a, NEW b,
             \/ b \in FunctionAddresses /\ SetFunctionStart(a, b)
             \/ b \in 1 .. CodeLimit /\ SetFunctionEnd(a, b)
      PROVE  ListingInv'
  BY <1>4, BoundsChanged
<1>5. ASSUME NEW a, NEW r \in FunctionRanges, AddTail(a, r) PROVE ListingInv'
  BY <1>5, TailAdded
<1>6. ASSUME NEW a, NEW b, RemoveTail(a, b) PROVE ListingInv'
  BY <1>6, TailRemoved
<1>7. ASSUME NEW a, NEW what, NEW value, Mark(a, what, value) PROVE ListingInv'
  BY <1>7, OnlyMarked DEF Mark
<1>8. ASSUME NEW a, NEW where, RemoveVariable(a, where) PROVE ListingInv'
  BY <1>8, OnlyMarked DEF RemoveVariable
<1>9. CASE AllFunctions
  BY <1>9, LoopBegun, LoopStepped DEF AllFunctions
<1>10. CASE VisitFunction
  BY <1>10, FunctionVisited, LoopStepped DEF VisitFunction
<1>11. CASE EndFunctionLoop
  BY <1>11, LoopEnded, LoopStepped DEF EndFunctionLoop
<1>12. ASSUME NEW a, SetFunctionComment(a) \/ SetPrototype(a) PROVE ListingInv'
  <2>1. \E what : Mark(a, what, TRUE)
    BY <1>12 DEF SetFunctionComment, SetPrototype
  <2> QED
    BY <1>7, <2>1
<1>13. ASSUME NEW a, NEW v, SetOutlined(a, v) PROVE ListingInv'
  BY <1>7, <1>13 DEF SetOutlined
<1>14. ASSUME NEW a, NEW where, NEW name, AddVariable(a, where, name) \/ RenameVariable(a, where, name)
       PROVE  ListingInv'
  BY <1>7, <1>14 DEF AddVariable, RenameVariable
<1>15. CASE FunctionsNext
  BY <1>2, <1>3, <1>4, <1>5, <1>6, <1>8, <1>9, <1>10, <1>11, <1>12, <1>13, <1>14, <1>15
     DEF FunctionsNext
<1> QED
  BY <1>1, <1>15

LEMMA ListingSpeaksTrue ==
  ASSUME ListingInv, FunctionsAssumption PROVE FunctionsSound
<1>1. Lying(AllOf, tails, madeFunctions)
  BY DEF ListingInv
<1>2. ChunksMakeTheFunction /\ CallGraphAgrees
  BY <1>1, ChunksRight, CallGraphRight
<1> QED
  BY <1>2, LoopComplete DEF FunctionsSound

(* Listing the functions, cutting one into its chunks and following the    *)
(* calls between them meet everything there is, once, whatever was created,*)
(* removed, moved, shared and taken back before                            *)
(* (function.cpp:218-275, 494-625).                                        *)
THEOREM FunctionsAreSound == FunctionsSpec => []FunctionsSound
<1>1. FunctionsInit => ListingInv
  BY ListingBegins
<1>2. ListingInv /\ [FunctionsNext]_functionsvars => ListingInv'
  BY FunctionsAssumption, ListingPreserved
<1>3. ListingInv => FunctionsSound
  BY FunctionsAssumption, ListingSpeaksTrue
<1> QED
  BY <1>1, <1>2, <1>3, PTL DEF FunctionsSpec
=============================================================================
