--------------------------- MODULE HexraysProofs ---------------------------
(***************************************************************************)
(* Proofs about Hexrays and RustDecompilerEvents, for every value of their *)
(* constants.                                                              *)
(***************************************************************************)
EXTENDS RustDecompilerEvents, StackLemmas

(* No thread is in more calls than the bound allows, so that Subscribing   *)
(* holds every on_* call that waits for its token.                         *)
DepthInv == \A th \in Threads : Depth(th) <= MaxDepth

(* Tokens are counted up, one is left for every on_* call under way, and   *)
(* the bridge is installed exactly while there is a callback.              *)
RegistryInv ==
  /\ Live \subseteq 1 .. next_token - 1
  /\ next_token + Cardinality(Subscribing) <= MaxToken + 1
  /\ installed = (Live # {})

-----------------------------------------------------------------------------
(* The three ways a step changes the stack of a thread, and what they do   *)
(* to the set of on_* calls under way.                                     *)

LEMMA SubscribingIsFinite ==
  IsFiniteSet(Subscribing) /\ Cardinality(Subscribing) \in Nat
<1>1. IsFiniteSet(1 .. MaxDepth)
  BY FS_Interval, HexraysAssumption
<1>2. IsFiniteSet(Threads \X (1 .. MaxDepth))
  BY <1>1, FS_Product, HexraysAssumption
<1> QED
  BY <1>2, FS_Subset, FS_CardinalityType DEF Subscribing

LEMMA InSubscribing ==
  ASSUME NEW th \in Threads, NEW i \in Nat
  PROVE  <<th, i>> \in Subscribing
           <=> i \in 1 .. MaxDepth /\ i <= Depth(th) /\ stack[th][i].op = "on"
BY DEF Subscribing

LEMMA CallPushed ==
  ASSUME TypeOK, DepthInv, NEW th \in Threads, Depth(th) < MaxDepth,
         NEW call \in Call, Push(th, call)
  PROVE  /\ stack' \in [Threads -> Seq(Call)]
         /\ DepthInv'
         /\ <<th, Depth(th) + 1>> \notin Subscribing
         /\ Subscribing' = IF call.op = "on" THEN Subscribing \cup {<<th, Depth(th) + 1>>}
                                             ELSE Subscribing
<1>1. /\ stack' \in [Threads -> Seq(Call)]
      /\ \A u \in Threads \ {th} : stack'[u] = stack[u]
      /\ Len(stack[th]) \in Nat
      /\ Len(stack'[th]) = Len(stack[th]) + 1
      /\ \A i \in 1 .. Len(stack[th]) : stack'[th][i] = stack[th][i]
      /\ stack'[th][Len(stack[th]) + 1] = call
  <2>1. stack \in [Threads -> Seq(Call)] /\ stack' = Pushed(stack, th, call)
    BY DEF TypeOK, Push, Pushed
  <2> QED
    BY <2>1, StackPushed
<1>2. DepthInv'
  BY <1>1, HexraysAssumption DEF DepthInv, Depth
<1>3. ASSUME NEW u \in Threads, NEW i \in 1 .. MaxDepth
      PROVE  i <= Depth(u)' /\ stack'[u][i].op = "on"
               <=> \/ i <= Depth(u) /\ stack[u][i].op = "on"
                   \/ u = th /\ i = Depth(th) + 1 /\ call.op = "on"
  <2>1. CASE u # th
    BY <1>1, <2>1 DEF Depth
  <2>2. CASE u = th /\ i <= Len(stack[th])
    <3>1. i \in 1 .. Len(stack[th])
      BY <1>1, <2>2
    <3> QED
      BY <1>1, <2>2, <3>1 DEF Depth
  <2>3. CASE u = th /\ ~(i <= Len(stack[th]))
    BY <1>1, <2>3 DEF Depth
  <2> QED
    BY <2>1, <2>2, <2>3
<1> QED
  BY <1>1, <1>2, <1>3, HexraysAssumption DEF Subscribing, Depth

LEMMA CallPopped ==
  ASSUME TypeOK, DepthInv, NEW th \in Threads, ~Idle(th), Pop(th)
  PROVE  /\ stack' \in [Threads -> Seq(Call)]
         /\ DepthInv'
         /\ <<th, Depth(th)>> \in Subscribing <=> Top(th).op = "on"
         /\ Subscribing' = Subscribing \ {<<th, Depth(th)>>}
<1>1. /\ stack' \in [Threads -> Seq(Call)]
      /\ \A u \in Threads \ {th} : stack'[u] = stack[u]
      /\ Len(stack[th]) \in Nat \ {0}
      /\ Len(stack'[th]) = Len(stack[th]) - 1
      /\ \A i \in 1 .. Len(stack[th]) - 1 : stack'[th][i] = stack[th][i]
  <2>1. /\ stack \in [Threads -> Seq(Call)] /\ stack[th] # << >>
        /\ stack' = Popped(stack, th)
    BY DEF TypeOK, Pop, Idle, Popped
  <2> QED
    BY <2>1, StackPopped
<1>2. DepthInv'
  BY <1>1, HexraysAssumption DEF DepthInv, Depth
<1>3. ASSUME NEW u \in Threads, NEW i \in 1 .. MaxDepth
      PROVE  i <= Depth(u)' /\ stack'[u][i].op = "on"
               <=> /\ i <= Depth(u) /\ stack[u][i].op = "on"
                   /\ ~(u = th /\ i = Depth(th))
  BY <1>1 DEF Depth
<1>4. <<th, Depth(th)>> \in Subscribing <=> Top(th).op = "on"
  BY <1>1, HexraysAssumption DEF Subscribing, Depth, Top, DepthInv
<1> QED
  BY <1>1, <1>2, <1>3, <1>4, HexraysAssumption DEF Subscribing

LEMMA TopCallSet ==
  ASSUME TypeOK, DepthInv, NEW th \in Threads, ~Idle(th), NEW call \in Call,
         SetTop(th, call), call.op = Top(th).op
  PROVE  /\ stack' \in [Threads -> Seq(Call)]
         /\ DepthInv'
         /\ Subscribing' = Subscribing
<1>1. /\ stack' \in [Threads -> Seq(Call)]
      /\ \A u \in Threads \ {th} : stack'[u] = stack[u]
      /\ Len(stack[th]) \in Nat \ {0}
      /\ Len(stack'[th]) = Len(stack[th])
      /\ \A i \in 1 .. Len(stack[th]) - 1 : stack'[th][i] = stack[th][i]
      /\ stack'[th][Len(stack[th])] = call
  <2>1. /\ stack \in [Threads -> Seq(Call)] /\ stack[th] # << >>
        /\ stack' = TopSet(stack, th, call)
    BY DEF TypeOK, SetTop, Idle, TopSet
  <2> QED
    BY <2>1, StackTopSet
<1>2. DepthInv'
  BY <1>1, HexraysAssumption DEF DepthInv, Depth
<1>3. ASSUME NEW u \in Threads, NEW i \in 1 .. MaxDepth
      PROVE  i <= Depth(u)' /\ stack'[u][i].op = "on"
               <=> i <= Depth(u) /\ stack[u][i].op = "on"
  BY <1>1 DEF Depth, Top
<1> QED
  BY <1>1, <1>2, <1>3 DEF Subscribing

(* The innermost call of a thread that is in one. *)
LEMMA TopIsCall ==
  ASSUME TypeOK, NEW th \in Threads, ~Idle(th)
  PROVE  Top(th) \in Call
<1>1. stack \in [Threads -> Seq(Call)] /\ stack[th] # << >>
  BY DEF TypeOK, Idle
<1> QED
  BY <1>1, TopOfStack DEF Top, Depth

-----------------------------------------------------------------------------
(* Type correctness, the registry and the bound on calls. *)

IInv == TypeOK /\ DepthInv /\ RegistryInv

(* The part of the state that sessions change has its type. *)
SessionType ==
  /\ {plugin_up, initialized} \subseteq BOOLEAN
  /\ session_count \in Nat
  /\ handles \in [Handles -> BOOLEAN]

LEMMA ReadyStep ==
  ASSUME SessionType, EnsureReady
  PROVE  {plugin_up', initialized'} \subseteq BOOLEAN
BY DEF SessionType, EnsureReady

LEMMA ReleaseStep ==
  ASSUME SessionType, release, initialized' = initialized
  PROVE  {plugin_up', initialized'} \subseteq BOOLEAN /\ session_count' \in Nat
<1>1. plugin_up' \in BOOLEAN
  BY DEF SessionType, release
<1>2. session_count' \in Nat
  BY DEF SessionType, release
<1> QED
  BY <1>1, <1>2 DEF SessionType

(* What the clients do with sessions leaves subscriptions and calls alone. *)
LEMMA SessionsType ==
  ASSUME TypeOK, Sessions
  PROVE  SessionType' /\ UNCHANGED <<loadable, registry, stack>>
<1>0. SessionType
  BY DEF TypeOK, SessionType
<1>1. ASSUME NEW h \in Handles, initialize(h)
      PROVE  SessionType' /\ UNCHANGED <<loadable, registry, stack>>
  BY <1>0, <1>1 DEF initialize, SessionType
<1>2. ASSUME NEW h \in Handles, Close(h)
      PROVE  SessionType' /\ UNCHANGED <<loadable, registry, stack>>
  BY <1>0, <1>2, ReleaseStep DEF Close, SessionType
<1>3. ASSUME NEW h \in Handles, NEW other \in Handles, MoveConstruct(h, other)
      PROVE  SessionType' /\ UNCHANGED <<loadable, registry, stack>>
  BY <1>0, <1>3 DEF MoveConstruct, SessionType
<1>4. ASSUME NEW h \in Handles, NEW other \in Handles, MoveAssign(h, other)
      PROVE  SessionType' /\ UNCHANGED <<loadable, registry, stack>>
  <2>1. handles' \in [Handles -> BOOLEAN]
    BY <1>0, <1>4 DEF MoveAssign, SessionType
  <2> QED
    BY <1>0, <1>4, <2>1, ReleaseStep DEF MoveAssign, SessionType
<1>5. CASE available
  BY <1>0, <1>5, ReadyStep DEF available, SessionType
<1> QED
  BY <1>1, <1>2, <1>3, <1>4, <1>5 DEF Sessions

LEMMA SameRegistry ==
  ASSUME IInv, SessionType', UNCHANGED <<loadable, registry, stack>>
  PROVE  IInv'
BY DEF IInv, TypeOK, DepthInv, RegistryInv, SessionType, registry, Live, Depth, Subscribing

(* An on_* call begins; a token is kept for it. *)
LEMMA CallOnStep ==
  ASSUME IInv, NEW th \in Threads, NEW kind \in Kinds, CallOn(th, kind)
  PROVE  /\ IInv'
         /\ Cardinality(Subscribing') = Cardinality(Subscribing) + 1
         /\ UNCHANGED <<session_count, handles, registry>>
<1> DEFINE call == [op |-> "on", kind |-> kind, todo |-> {}, cur |-> 0]
<1>1. call \in Call /\ call.op = "on"
  BY DEF Call
<1> HIDE DEF call
<1>2. /\ stack' \in [Threads -> Seq(Call)]
      /\ DepthInv'
      /\ <<th, Depth(th) + 1>> \notin Subscribing
      /\ Subscribing' = Subscribing \cup {<<th, Depth(th) + 1>>}
  BY <1>1, CallPushed DEF IInv, CallOn, call
<1>3. Cardinality(Subscribing') = Cardinality(Subscribing) + 1
  BY <1>2, SubscribingIsFinite, FS_AddElement
<1>4. SessionType'
  BY ReadyStep DEF CallOn, IInv, TypeOK, SessionType
<1>5. TypeOK'
  BY <1>2, <1>4 DEF IInv, TypeOK, SessionType, CallOn, registry, Live
<1>6. RegistryInv'
  BY <1>3, SubscribingIsFinite, HexraysAssumption
     DEF IInv, TypeOK, RegistryInv, CallOn, registry, Live
<1> QED
  BY <1>2, <1>3, <1>5, <1>6 DEF IInv, CallOn

(* An on_* call that returns frees the token that was kept for it. *)
LEMMA OnReturns ==
  ASSUME IInv, NEW th \in Threads, AtOn(th), Pop(th)
  PROVE  /\ stack' \in [Threads -> Seq(Call)]
         /\ DepthInv'
         /\ Cardinality(Subscribing) = Cardinality(Subscribing') + 1
         /\ Cardinality(Subscribing') \in Nat
<1>1. /\ stack' \in [Threads -> Seq(Call)]
      /\ DepthInv'
      /\ <<th, Depth(th)>> \in Subscribing
      /\ Subscribing' = Subscribing \ {<<th, Depth(th)>>}
  BY CallPopped DEF IInv, AtOn
<1>2. Cardinality(Subscribing') = Cardinality(Subscribing) - 1
  BY <1>1, SubscribingIsFinite, FS_RemoveElement
<1>3. IsFiniteSet(Subscribing')
  BY <1>1, SubscribingIsFinite, FS_RemoveElement
<1> QED
  BY <1>1, <1>2, <1>3, SubscribingIsFinite, FS_CardinalityType

(* The token that is taken is new. *)
LEMMA SubscribeStep ==
  ASSUME IInv, NEW th \in Threads, Subscribe(th)
  PROVE  /\ IInv'
         /\ next_token \in Token \ (1 .. next_token - 1)
         /\ Live' = Live \cup {next_token}
         /\ 1 .. next_token' - 1 = (1 .. next_token - 1) \cup {next_token}
         /\ installed' = TRUE
         /\ UNCHANGED session
<1>1. /\ stack' \in [Threads -> Seq(Call)]
      /\ DepthInv'
      /\ Cardinality(Subscribing) = Cardinality(Subscribing') + 1
      /\ Cardinality(Subscribing') \in Nat
  BY OnReturns DEF Subscribe
<1>2. /\ next_token \in Nat \ {0} /\ next_token <= MaxToken
      /\ next_token' = next_token + 1
  BY <1>1, HexraysAssumption DEF IInv, RegistryInv, TypeOK, Subscribe
<1>3. Live' = Live \cup {next_token}
  BY DEF Subscribe, Live
<1>4. Top(th).kind \in Kinds
  BY TopIsCall DEF IInv, Subscribe, AtOn, Call
<1>5. callbacks' \in [Live' -> Kinds]
  <2>1. callbacks' = [t \in Live \cup {next_token} |->
                        IF t = next_token THEN Top(th).kind ELSE callbacks[t]]
    BY DEF Subscribe
  <2>2. \A t \in Live : callbacks[t] \in Kinds
    BY DEF IInv, TypeOK
  <2> QED
    BY <1>3, <1>4, <2>1, <2>2
<1>6. TypeOK'
  BY <1>1, <1>2, <1>3, <1>5, HexraysAssumption
     DEF IInv, TypeOK, Subscribe, session, Token
<1>7. RegistryInv'
  <2>1. installed' = (Live' # {})
    BY <1>3 DEF Subscribe
  <2>2. Live' \subseteq 1 .. next_token' - 1
    BY <1>2, <1>3 DEF IInv, RegistryInv
  <2>3. next_token' + Cardinality(Subscribing') <= MaxToken + 1
    BY <1>1, <1>2, HexraysAssumption DEF IInv, RegistryInv
  <2> QED
    BY <2>1, <2>2, <2>3 DEF RegistryInv
<1>8. /\ next_token \in Token \ (1 .. next_token - 1)
      /\ 1 .. next_token' - 1 = (1 .. next_token - 1) \cup {next_token}
  BY <1>2, HexraysAssumption DEF Token
<1> QED
  BY <1>1, <1>3, <1>6, <1>7, <1>8 DEF IInv, Subscribe

LEMMA InstallFailsStep ==
  ASSUME IInv, NEW th \in Threads, InstallFails(th)
  PROVE  IInv' /\ UNCHANGED <<session, registry>>
<1>1. /\ stack' \in [Threads -> Seq(Call)]
      /\ DepthInv'
      /\ Cardinality(Subscribing) = Cardinality(Subscribing') + 1
      /\ Cardinality(Subscribing') \in Nat
  BY OnReturns DEF InstallFails
<1>2. TypeOK'
  BY <1>1 DEF IInv, TypeOK, InstallFails, session, registry, Live
<1>3. RegistryInv'
  BY <1>1, HexraysAssumption DEF IInv, TypeOK, RegistryInv, InstallFails, registry, Live
<1> QED
  BY <1>1, <1>2, <1>3 DEF IInv, InstallFails

LEMMA UnsubscribeStep ==
  ASSUME IInv, NEW th \in Threads, NEW t \in Token, Unsubscribe(th, t)
  PROVE  /\ IInv'
         /\ t \in Live
         /\ Live' = Live \ {t}
         /\ installed' = (Live' # {})
         /\ UNCHANGED <<session, next_token, stack, Subscribing>>
<1>1. Live' = Live \ {t} /\ Subscribing' = Subscribing
  BY DEF Unsubscribe, Live, Subscribing, Depth
<1>2. callbacks' \in [Live' -> Kinds]
  BY <1>1 DEF Unsubscribe, IInv, TypeOK
<1>3. installed' = (Live' # {})
  BY <1>1 DEF Unsubscribe, InstalledAfter
<1> QED
  BY <1>1, <1>2, <1>3
     DEF IInv, TypeOK, RegistryInv, DepthInv, Depth, Unsubscribe, session

(* A dispatch changes nothing but the stack of its thread. *)
LEMMA DispatchStep ==
  ASSUME IInv, NEW th \in Threads, Dispatch(th)
  PROVE  IInv' /\ UNCHANGED <<session, registry, Subscribing>>
<1> DEFINE Goal == stack' \in [Threads -> Seq(Call)] /\ DepthInv' /\ UNCHANGED Subscribing
<1>1. ASSUME NEW kind \in Kinds, Event(th, kind) PROVE Goal
  <2> DEFINE call == [op |-> "bridge", kind |-> kind, todo |-> Copied(kind), cur |-> 0]
  <2>1. call \in Call /\ call.op # "on"
    BY DEF IInv, TypeOK, Call, Copied, Live
  <2>2. Push(th, call) /\ Depth(th) < MaxDepth
    BY <1>1 DEF Event
  <2> HIDE DEF call
  <2> QED
    BY <2>1, <2>2, CallPushed DEF IInv
<1>2. ASSUME NEW t \in Token, CallCallback(th, t) PROVE Goal
  <2> DEFINE call == [Top(th) EXCEPT !.cur = t, !.todo = Top(th).todo \ {t}]
  <2>1. ~Idle(th) /\ SetTop(th, call)
    BY <1>2 DEF CallCallback, AtBridge
  <2>2. Top(th) \in Call
    BY <2>1, TopIsCall DEF IInv
  <2>3. call \in Call /\ call.op = Top(th).op
    BY <2>2 DEF Call
  <2> HIDE DEF call
  <2> QED
    BY <2>1, <2>3, TopCallSet DEF IInv
<1>3. ASSUME CallbackReturns(th) PROVE Goal
  <2> DEFINE call == [Top(th) EXCEPT !.cur = 0]
  <2>1. ~Idle(th) /\ SetTop(th, call)
    BY <1>3 DEF CallbackReturns, AtBridge
  <2>2. Top(th) \in Call
    BY <2>1, TopIsCall DEF IInv
  <2>3. call \in Call /\ call.op = Top(th).op
    BY <2>2 DEF Call
  <2> HIDE DEF call
  <2> QED
    BY <2>1, <2>3, TopCallSet DEF IInv
<1>4. ASSUME AtBridge(th), Pop(th) PROVE Goal
  <2>1. ~Idle(th) /\ Top(th).op # "on"
    BY <1>4 DEF AtBridge
  <2> QED
    BY <1>4, <2>1, CallPopped DEF IInv
<1>5. Goal /\ UNCHANGED <<session, registry>>
  BY <1>1, <1>2, <1>3, <1>4
     DEF Dispatch, Event, CallCallback, CallbackReturns, HintGiven, BridgeReturns
<1> QED
  BY <1>5 DEF IInv, TypeOK, RegistryInv, session, registry, Live

-----------------------------------------------------------------------------
LEMMA Step == IInv /\ [Next]_vars => IInv'
<1> SUFFICES ASSUME IInv, [Next]_vars PROVE IInv'
  OBVIOUS
<1>1. CASE Sessions
  BY <1>1, SessionsType, SameRegistry DEF IInv
<1>2. ASSUME NEW th \in Threads, Subscriptions(th) PROVE IInv'
  BY <1>2, CallOnStep, SubscribeStep, InstallFailsStep, UnsubscribeStep DEF Subscriptions
<1>3. ASSUME NEW th \in Threads, Dispatch(th) PROVE IInv'
  BY <1>3, DispatchStep
<1>4. CASE UNCHANGED vars
  <2>1. SessionType' /\ UNCHANGED <<loadable, registry, stack>>
    BY <1>4 DEF IInv, TypeOK, SessionType, vars, session
  <2> QED
    BY <2>1, SameRegistry
<1> QED
  BY <1>1, <1>2, <1>3, <1>4 DEF Next

LEMMA InitiallyInv == Init => IInv
<1> SUFFICES ASSUME Init PROVE IInv
  OBVIOUS
<1>1. Subscribing = {} /\ Live = {}
  BY HexraysAssumption DEF Init, Subscribing, Depth, Live
<1>2. Cardinality(Subscribing) = 0
  BY <1>1, FS_EmptySet
<1>3. TypeOK
  <2>1. callbacks \in [Live -> Kinds]
    BY <1>1 DEF Init
  <2>2. stack \in [Threads -> Seq(Call)] /\ handles \in [Handles -> BOOLEAN]
    BY DEF Init
  <2>3. next_token \in 1 .. MaxToken + 1 /\ Live \subseteq Token /\ session_count \in Nat
    BY <1>1, HexraysAssumption DEF Init
  <2> QED
    BY <2>1, <2>2, <2>3 DEF Init, TypeOK
<1>4. DepthInv
  BY HexraysAssumption DEF Init, DepthInv, Depth
<1>5. RegistryInv
  <2>1. installed = (Live # {})
    BY <1>1 DEF Init
  <2> QED
    BY <1>1, <1>2, <2>1, HexraysAssumption DEF Init, RegistryInv
<1> QED
  BY <1>3, <1>4, <1>5 DEF IInv

(* Every variable keeps its type: the bound on tokens is never exceeded,   *)
(* because an on_* call only begins when a token is left for it.           *)
THEOREM TypeCorrect == Spec => []TypeOK
<1>1. IInv => TypeOK
  BY DEF IInv
<1> QED
  BY <1>1, InitiallyInv, Step, PTL DEF Spec

(* The callback maps, the token counter and the installed bridge keep the  *)
(* promises that every event domain makes about its subscriptions.         *)
THEOREM RefinesRegistry == Spec => ImplementsRegistry
<1>1. Init => Registry!Init
  BY DEF Init, Registry!Init, Live
<1>2. IInv /\ [Next]_vars => [Registry!Next]_Registry!vars
  <2> SUFFICES ASSUME IInv, [Next]_vars PROVE [Registry!Next]_Registry!vars
    OBVIOUS
  <2>1. ASSUME UNCHANGED registry PROVE UNCHANGED Registry!vars
    BY <2>1 DEF registry, Registry!vars, Live
  <2>2. ASSUME NEW th \in Threads, Subscribe(th) PROVE Registry!Subscribe
    BY <2>2, SubscribeStep DEF Registry!Subscribe
  <2>3. ASSUME NEW th \in Threads, NEW t \in Token, Unsubscribe(th, t)
        PROVE  Registry!Unsubscribe
    BY <2>3, UnsubscribeStep DEF Registry!Unsubscribe
  <2>4. ASSUME NEW th \in Threads, Subscriptions(th)
        PROVE  Registry!Next \/ UNCHANGED Registry!vars
    BY <2>1, <2>2, <2>3, <2>4 DEF Subscriptions, CallOn, InstallFails, Registry!Next
  <2>5. CASE Sessions
    BY <2>1, <2>5, SessionsType DEF IInv
  <2>6. ASSUME NEW th \in Threads, Dispatch(th) PROVE UNCHANGED Registry!vars
    BY <2>1, <2>6, DispatchStep
  <2>7. CASE UNCHANGED vars
    BY <2>1, <2>7 DEF vars
  <2> QED
    BY <2>4, <2>5, <2>6, <2>7 DEF Next
<1> QED
  BY <1>1, <1>2, InitiallyInv, Step, PTL DEF Spec, ImplementsRegistry, Registry!Spec

-----------------------------------------------------------------------------
(* Sessions. *)

(* The handles that hold a session. *)
Active == {h \in Handles : handles[h]}

LEMMA ActiveIsFinite ==
  IsFiniteSet(Active) /\ Cardinality(Active) \in Nat
BY HexraysAssumption, FS_Subset, FS_CardinalityType DEF Active

(* A handle is given away: its session, if it has one, is in the other.    *)
LEMMA Moved ==
  ASSUME NEW h \in Handles, NEW other \in Handles, h # other,
         handles \in [Handles -> BOOLEAN],
         handles' = [handles EXCEPT ![h] = handles[other], ![other] = FALSE]
  PROVE  Active' = IF handles[other] THEN (Active \ {other}) \cup {h}
                                     ELSE Active \ {h}
<1>1. handles' \in [Handles -> BOOLEAN]
  OBVIOUS
<1>2. ASSUME NEW x \in Handles
      PROVE  handles'[x] = IF x = other THEN FALSE ELSE IF x = h THEN handles[other]
                                                         ELSE handles[x]
  BY <1>2
<1> QED
  BY <1>1, <1>2, Zenon DEF Active

LEMMA SessionStep ==
  ASSUME TypeOK, SessionsKeepHexraysUp, Sessions
  PROVE  SessionsKeepHexraysUp'
<1>0. /\ session_count = Cardinality(Active) /\ session_count \in Nat
      /\ handles \in [Handles -> BOOLEAN]
      /\ session_count > 0 => plugin_up
  BY DEF TypeOK, SessionsKeepHexraysUp, Active
<1>1. ASSUME NEW h \in Handles, initialize(h)
      PROVE  SessionsKeepHexraysUp'
  <2>1. Active' = Active \cup {h} /\ h \notin Active
    BY <1>0, <1>1, Zenon DEF initialize, Active
  <2>2. Cardinality(Active') = Cardinality(Active) + 1
    BY <2>1, ActiveIsFinite, FS_AddElement
  <2> QED
    BY <1>0, <1>1, <2>2 DEF initialize, SessionsKeepHexraysUp, Active
<1>2. ASSUME release, Cardinality(Active') = Cardinality(Active) - 1
      PROVE  SessionsKeepHexraysUp'
  BY <1>0, <1>2 DEF release, SessionsKeepHexraysUp, Active
<1>3. ASSUME NEW h \in Handles, Close(h)
      PROVE  SessionsKeepHexraysUp'
  <2>1. Active' = Active \ {h} /\ h \in Active
    BY <1>0, <1>3, Zenon DEF Close, Active
  <2>2. Cardinality(Active') = Cardinality(Active) - 1
    BY <2>1, ActiveIsFinite, FS_RemoveElement
  <2> QED
    BY <1>2, <1>3, <2>2 DEF Close
<1>4. ASSUME NEW h \in Handles, NEW other \in Handles, MoveConstruct(h, other)
      PROVE  SessionsKeepHexraysUp'
  <2>1. h \notin Active /\ h # other
    BY <1>4 DEF MoveConstruct, Active
  <2>2. Active' = IF handles[other] THEN (Active \ {other}) \cup {h} ELSE Active \ {h}
    BY <1>0, <1>4, Moved DEF MoveConstruct
  <2>3. CASE other \in Active
    <3>1. /\ IsFiniteSet(Active \ {other})
          /\ Cardinality(Active \ {other}) = Cardinality(Active) - 1
      BY <2>3, ActiveIsFinite, FS_RemoveElement
    <3>2. Active' = (Active \ {other}) \cup {h}
      BY <2>2, <2>3 DEF Active
    <3>3. Cardinality(Active') = Cardinality(Active \ {other}) + 1
      BY <2>1, <3>1, <3>2, FS_AddElement
    <3>4. Cardinality(Active') = Cardinality(Active)
      BY <3>1, <3>3, ActiveIsFinite
    <3> QED
      BY <1>0, <1>4, <3>4 DEF MoveConstruct, SessionsKeepHexraysUp, Active
  <2>4. CASE other \notin Active
    <3>1. Active' = Active
      BY <2>1, <2>2, <2>4 DEF Active
    <3> QED
      BY <1>0, <1>4, <3>1 DEF MoveConstruct, SessionsKeepHexraysUp, Active
  <2> QED
    BY <2>3, <2>4
<1>5. ASSUME NEW h \in Handles, NEW other \in Handles, MoveAssign(h, other)
      PROVE  SessionsKeepHexraysUp'
  <2>1. h \in Active /\ h # other
    BY <1>5 DEF MoveAssign, Active
  <2>2. Active' = IF handles[other] THEN (Active \ {other}) \cup {h} ELSE Active \ {h}
    BY <1>0, <1>5, Moved DEF MoveAssign
  <2>3. \E x \in Active : Active' = Active \ {x}
    <3>1. CASE other \in Active
      <4>1. Active' = Active \ {other}
        BY <2>1, <2>2, <3>1 DEF Active
      <4> QED
        BY <3>1, <4>1
    <3>2. CASE other \notin Active
      BY <2>1, <2>2, <3>2 DEF Active
    <3> QED
      BY <3>1, <3>2
  <2>4. Cardinality(Active') = Cardinality(Active) - 1
    BY <2>3, ActiveIsFinite, FS_RemoveElement
  <2> QED
    BY <1>2, <1>5, <2>4 DEF MoveAssign
<1>6. CASE available
  BY <1>0, <1>6 DEF available, EnsureReady, SessionsKeepHexraysUp, hexrays_ready
<1> QED
  BY <1>1, <1>3, <1>4, <1>5, <1>6 DEF Sessions

(* g_scoped_session_count is the number of active handles, and Hex-Rays is *)
(* up as long as there is one.                                             *)
THEOREM SessionsCounted == Spec => []SessionsKeepHexraysUp
<1>1. Init => SessionsKeepHexraysUp
  <2> SUFFICES ASSUME Init PROVE SessionsKeepHexraysUp
    OBVIOUS
  <2>1. Active = {}
    BY DEF Init, Active
  <2>2. Cardinality(Active) = 0
    BY <2>1, FS_EmptySet
  <2> QED
    BY <2>1, <2>2 DEF Init, SessionsKeepHexraysUp, Active
<1>2. IInv /\ SessionsKeepHexraysUp /\ [Next]_vars => SessionsKeepHexraysUp'
  <2> SUFFICES ASSUME IInv, SessionsKeepHexraysUp, [Next]_vars
               PROVE  SessionsKeepHexraysUp'
    OBVIOUS
  <2>1. CASE Sessions
    BY <2>1, SessionStep DEF IInv
  <2>2. ASSUME UNCHANGED session PROVE SessionsKeepHexraysUp'
    BY <2>2 DEF session, SessionsKeepHexraysUp
  <2>3. ASSUME NEW th \in Threads, Dispatch(th) PROVE SessionsKeepHexraysUp'
    BY <2>2, <2>3, DispatchStep
  <2>4. ASSUME NEW th \in Threads, NEW kind \in Kinds, CallOn(th, kind)
        PROVE  SessionsKeepHexraysUp'
    BY <2>4 DEF CallOn, EnsureReady, SessionsKeepHexraysUp, hexrays_ready, IInv, TypeOK
  <2>5. ASSUME NEW th \in Threads, Subscriptions(th) PROVE SessionsKeepHexraysUp'
    BY <2>2, <2>4, <2>5 DEF Subscriptions, Subscribe, InstallFails, Unsubscribe
  <2>6. CASE UNCHANGED vars
    BY <2>2, <2>6 DEF vars
  <2> QED
    BY <2>1, <2>3, <2>5, <2>6 DEF Next
<1> QED
  BY <1>1, <1>2, InitiallyInv, Step, PTL DEF Spec

-----------------------------------------------------------------------------
(* The contexts of the Rust side. *)

Saving == PendingTokens("save")
Dropping == PendingTokens("drop")

(* No two threads have a token in hand. *)
PendingInv ==
  /\ pending \in [Threads -> Pending]
  /\ \A th, u \in Threads :
       th # u /\ pending[th].todo # "nothing" /\ pending[u].todo # "nothing"
         => pending[th].token # pending[u].token

(* A token that is being saved is live and not in the table yet, one that  *)
(* is being dropped is not live and still in the table, and one that was   *)
(* dropped is neither: it was given out and will not be given out again.   *)
TableInv ==
  /\ contexts = (Live \ Saving) \cup Dropping
  /\ Saving \subseteq Live
  /\ Live \cap (Dropping \cup dropped) = {}
  /\ Dropping \cap dropped = {}
  /\ Dropping \cup dropped \subseteq 1 .. next_token - 1

BoxesInv ==
  boxes = Cardinality(contexts) + Cardinality(Saving) + Cardinality(Subscribing)

RustInv == IInv /\ PendingInv /\ TableInv /\ BoxesInv

LEMMA TablesAreFinite ==
  ASSUME IInv, TableInv
  PROVE  /\ contexts \subseteq Token /\ dropped \subseteq Token
         /\ IsFiniteSet(contexts) /\ Cardinality(contexts) \in Nat
         /\ IsFiniteSet(Saving) /\ Cardinality(Saving) \in Nat
         /\ Cardinality(Subscribing) \in Nat
<1>1. 1 .. next_token - 1 \subseteq Token /\ Live \subseteq Token
  BY HexraysAssumption DEF IInv, TypeOK, Token
<1>2. contexts \subseteq Token /\ dropped \subseteq Token /\ Saving \subseteq Token
  BY <1>1 DEF TableInv
<1>3. IsFiniteSet(Token)
  BY FS_Interval, HexraysAssumption DEF Token
<1> QED
  BY <1>2, <1>3, FS_Subset, FS_CardinalityType, SubscribingIsFinite

(* A thread that had no token in hand takes one. *)
LEMMA TokenTaken ==
  ASSUME PendingInv, NEW th \in Threads, Unoccupied(th),
         NEW t \in Token, NEW what \in {"save", "drop"}, Postpone(th, what, t),
         t \notin Saving \cup Dropping
  PROVE  /\ PendingInv'
         /\ PendingTokens(what)' = PendingTokens(what) \cup {t}
         /\ \A other \in {"save", "drop"} \ {what} :
              PendingTokens(other)' = PendingTokens(other)
<1>1. /\ pending' \in [Threads -> Pending]
      /\ pending'[th] = [todo |-> what, token |-> t]
      /\ \A u \in Threads \ {th} : pending'[u] = pending[u]
      /\ pending[th].todo = "nothing"
  BY DEF PendingInv, Postpone, Pending, Unoccupied, Nothing
<1>2. ASSUME NEW u \in Threads, pending[u].todo # "nothing" PROVE pending[u].token # t
  <2>1. pending[u].todo \in {"save", "drop"}
    BY <1>2 DEF PendingInv, Pending
  <2> QED
    BY <1>2, <2>1 DEF Saving, Dropping, PendingTokens
<1>3. PendingInv'
  BY <1>1, <1>2 DEF PendingInv
<1>4. PendingTokens(what)' = PendingTokens(what) \cup {t}
  BY <1>1 DEF PendingTokens
<1>5. ASSUME NEW other \in {"save", "drop"} \ {what}
      PROVE  PendingTokens(other)' = PendingTokens(other)
  BY <1>1 DEF PendingTokens
<1> QED
  BY <1>3, <1>4, <1>5

(* A thread is done with the token it had in hand. *)
LEMMA TokenDone ==
  ASSUME PendingInv, NEW th \in Threads, NEW what \in {"save", "drop"},
         pending[th].todo = what, Postpone(th, "nothing", 0)
  PROVE  /\ PendingInv'
         /\ pending[th].token \in PendingTokens(what)
         /\ PendingTokens(what)' = PendingTokens(what) \ {pending[th].token}
         /\ \A other \in {"save", "drop"} \ {what} :
              PendingTokens(other)' = PendingTokens(other)
<1>1. /\ pending' \in [Threads -> Pending]
      /\ pending'[th].todo = "nothing"
      /\ \A u \in Threads \ {th} : pending'[u] = pending[u]
  BY DEF PendingInv, Postpone, Pending
<1>2. \A u \in Threads \ {th} :
        pending[u].todo # "nothing" => pending[u].token # pending[th].token
  BY DEF PendingInv
<1>3. PendingInv'
  BY <1>1 DEF PendingInv
<1>4. pending[th].token \in PendingTokens(what)
  BY DEF PendingTokens
<1>5. PendingTokens(what)' = PendingTokens(what) \ {pending[th].token}
  BY <1>1, <1>2 DEF PendingTokens
<1>6. ASSUME NEW other \in {"save", "drop"} \ {what}
      PROVE  PendingTokens(other)' = PendingTokens(other)
  BY <1>1 DEF PendingTokens
<1> QED
  BY <1>3, <1>4, <1>5, <1>6

-----------------------------------------------------------------------------
(* Steps in which no context changes hands. *)
LEMMA SameContexts ==
  ASSUME RustInv, IInv', UNCHANGED <<Live, next_token, contexts, pending, dropped>>,
         boxes' - Cardinality(Subscribing') = boxes - Cardinality(Subscribing),
         boxes' \in Int, Cardinality(Subscribing') \in Nat
  PROVE  RustInv'
<1>1. Saving' = Saving /\ Dropping' = Dropping
  BY DEF Saving, Dropping, PendingTokens
<1>2. PendingInv' /\ TableInv'
  BY <1>1 DEF RustInv, PendingInv, TableInv
<1>3. BoxesInv'
  <2>1. Cardinality(contexts) \in Nat /\ Cardinality(Saving) \in Nat
        /\ Cardinality(Subscribing) \in Nat
    BY TablesAreFinite DEF RustInv
  <2> QED
    BY <1>1, <2>1 DEF RustInv, BoxesInv
<1> QED
  BY <1>2, <1>3 DEF RustInv

LEMMA RustSubscribedStep ==
  ASSUME RustInv, NEW th \in Threads, RustSubscribed(th)
  PROVE  RustInv'
<1>1. /\ IInv'
      /\ next_token \in Token \ (1 .. next_token - 1)
      /\ Live' = Live \cup {next_token}
      /\ 1 .. next_token' - 1 = (1 .. next_token - 1) \cup {next_token}
  BY SubscribeStep DEF RustInv, RustSubscribed
<1>2. next_token \notin Live \cup Saving \cup Dropping \cup dropped
  BY <1>1 DEF RustInv, TableInv, IInv, RegistryInv
<1>3. PendingInv' /\ Saving' = Saving \cup {next_token} /\ Dropping' = Dropping
  BY <1>1, <1>2, TokenTaken DEF RustInv, RustSubscribed, Saving, Dropping
<1>4. TableInv'
  BY <1>1, <1>2, <1>3 DEF RustInv, TableInv, RustSubscribed
<1>5. BoxesInv'
  <2>1. Cardinality(Saving') = Cardinality(Saving) + 1
    BY <1>2, <1>3, TablesAreFinite, FS_AddElement DEF RustInv
  <2>2. Cardinality(Subscribing) = Cardinality(Subscribing') + 1
    BY OnReturns DEF RustInv, RustSubscribed, Subscribe
  <2>3. Cardinality(Subscribing') \in Nat
    BY OnReturns DEF RustInv, RustSubscribed, Subscribe
  <2> QED
    BY <2>1, <2>2, <2>3, TablesAreFinite DEF RustInv, BoxesInv, RustSubscribed
<1> QED
  BY <1>1, <1>3, <1>4, <1>5 DEF RustInv

LEMMA SaveStep ==
  ASSUME RustInv, NEW th \in Threads, save_context(th)
  PROVE  RustInv'
<1> DEFINE t == pending[th].token
<1>1. IInv' /\ UNCHANGED <<Live, next_token, Subscribing>>
  <2>1. SessionType' /\ UNCHANGED <<loadable, registry, stack>>
    BY DEF save_context, vars, session, RustInv, IInv, TypeOK, SessionType
  <2> QED
    BY <2>1, SameRegistry DEF RustInv, registry, Live, Subscribing, Depth
<1>2. PendingInv' /\ t \in Saving /\ Saving' = Saving \ {t} /\ Dropping' = Dropping
  BY TokenDone DEF RustInv, save_context, Saving, Dropping
<1> HIDE DEF t
<1>3. contexts' = contexts \cup {t} /\ UNCHANGED <<dropped, boxes>>
  BY DEF save_context, t
<1>4. t \notin contexts
  BY <1>2 DEF RustInv, TableInv
<1>5. TableInv'
  BY <1>1, <1>2, <1>3 DEF RustInv, TableInv
<1>6. BoxesInv'
  <2>1. Cardinality(contexts') = Cardinality(contexts) + 1
    BY <1>3, <1>4, TablesAreFinite, FS_AddElement DEF RustInv
  <2>2. Cardinality(Saving') = Cardinality(Saving) - 1
    BY <1>2, TablesAreFinite, FS_RemoveElement DEF RustInv
  <2> QED
    BY <1>1, <1>3, <2>1, <2>2, TablesAreFinite DEF RustInv, BoxesInv
<1> QED
  BY <1>1, <1>2, <1>5, <1>6 DEF RustInv

LEMMA RustUnsubscribeStep ==
  ASSUME RustInv, NEW th \in Threads, NEW t \in Token, RustUnsubscribe(th, t)
  PROVE  RustInv'
<1>1. IInv' /\ t \in Live /\ Live' = Live \ {t} /\ UNCHANGED <<next_token, Subscribing>>
  BY UnsubscribeStep DEF RustInv, RustUnsubscribe
<1>2. t \notin Saving \cup Dropping \cup dropped
  <2>1. ASSUME t \in Saving PROVE FALSE
    <3>1. PICK u \in Threads : pending[u].todo = "save" /\ pending[u].token = t
      BY <2>1 DEF Saving, PendingTokens
    <3>2. pending[u] \in Pending
      BY DEF RustInv, PendingInv
    <3>3. pending[u] = [todo |-> "save", token |-> t]
      BY <3>1, <3>2 DEF Pending
    <3> QED
      BY <3>3 DEF RustUnsubscribe
  <2> QED
    BY <1>1, <2>1 DEF RustInv, TableInv
<1>3. PendingInv' /\ Dropping' = Dropping \cup {t} /\ Saving' = Saving
  BY <1>2, TokenTaken DEF RustInv, RustUnsubscribe, Saving, Dropping
<1>4. t \in 1 .. next_token - 1
  BY <1>1 DEF RustInv, IInv, RegistryInv
<1>5. TableInv'
  BY <1>1, <1>2, <1>3, <1>4 DEF RustInv, TableInv, RustUnsubscribe
<1>6. BoxesInv'
  BY <1>1, <1>3 DEF RustInv, BoxesInv, RustUnsubscribe
<1> QED
  BY <1>1, <1>3, <1>5, <1>6 DEF RustInv

LEMMA DropStep ==
  ASSUME RustInv, NEW th \in Threads, drop_saved_context(th)
  PROVE  RustInv'
<1> DEFINE t == pending[th].token
<1>1. IInv' /\ UNCHANGED <<Live, next_token, Subscribing>>
  <2>1. SessionType' /\ UNCHANGED <<loadable, registry, stack>>
    BY DEF drop_saved_context, vars, session, RustInv, IInv, TypeOK, SessionType
  <2> QED
    BY <2>1, SameRegistry DEF RustInv, registry, Live, Subscribing, Depth
<1>2. PendingInv' /\ t \in Dropping /\ Dropping' = Dropping \ {t} /\ Saving' = Saving
  BY TokenDone DEF RustInv, drop_saved_context, Saving, Dropping
<1>3. t \in contexts
  BY <1>2 DEF RustInv, TableInv
<1>4. contexts' = contexts \ {t} /\ dropped' = dropped \cup {t} /\ boxes' = boxes - 1
  BY <1>3 DEF drop_saved_context
<1> HIDE DEF t
<1>5. TableInv'
  BY <1>1, <1>2, <1>4 DEF RustInv, TableInv
<1>6. BoxesInv'
  <2>1. Cardinality(contexts') = Cardinality(contexts) - 1
    BY <1>3, <1>4, TablesAreFinite, FS_RemoveElement DEF RustInv
  <2> QED
    BY <1>1, <1>2, <1>4, <2>1, TablesAreFinite DEF RustInv, BoxesInv
<1> QED
  BY <1>1, <1>2, <1>5, <1>6 DEF RustInv

LEMMA RustStep == RustInv /\ [RustNext]_rvars => RustInv'
<1> SUFFICES ASSUME RustInv, [RustNext]_rvars PROVE RustInv'
  OBVIOUS
<1>0. boxes \in Int /\ Cardinality(Subscribing) \in Nat
  BY TablesAreFinite DEF RustInv, BoxesInv
<1>1. ASSUME IInv', UNCHANGED <<registry, Subscribing, rust>> PROVE RustInv'
  BY <1>0, <1>1, SameContexts DEF registry, rust, Live
<1>2. CASE Sessions /\ UNCHANGED rust
  <2>1. SessionType' /\ UNCHANGED <<loadable, registry, stack>>
    BY <1>2, SessionsType DEF RustInv, IInv
  <2>2. IInv' /\ UNCHANGED Subscribing
    BY <2>1, SameRegistry DEF RustInv, Subscribing, Depth
  <2> QED
    BY <1>1, <1>2, <2>1, <2>2
<1>3. ASSUME NEW th \in Threads, Dispatch(th), UNCHANGED rust PROVE RustInv'
  BY <1>1, <1>3, DispatchStep DEF RustInv
<1>4. ASSUME NEW th \in Threads, NEW kind \in Kinds, RustOn(th, kind) PROVE RustInv'
  <2>1. /\ IInv'
        /\ Cardinality(Subscribing') = Cardinality(Subscribing) + 1
        /\ UNCHANGED registry
    BY <1>4, CallOnStep DEF RustInv, RustOn
  <2> QED
    BY <1>0, <1>4, <2>1, SameContexts DEF RustOn, registry, Live
<1>5. ASSUME NEW th \in Threads, RustSubscribeFails(th) PROVE RustInv'
  <2>1. IInv' /\ UNCHANGED registry
    BY <1>5, InstallFailsStep DEF RustInv, RustSubscribeFails
  <2>2. /\ Cardinality(Subscribing) = Cardinality(Subscribing') + 1
        /\ Cardinality(Subscribing') \in Nat
    BY <1>5, OnReturns DEF RustInv, RustSubscribeFails, InstallFails
  <2> QED
    BY <1>0, <1>5, <2>1, <2>2, SameContexts DEF RustSubscribeFails, registry, Live
<1>6. CASE UNCHANGED rvars
  <2>1. SessionType' /\ UNCHANGED <<loadable, registry, stack, rust>>
    BY <1>6 DEF rvars, vars, session, RustInv, IInv, TypeOK, SessionType
  <2>2. IInv' /\ UNCHANGED Subscribing
    BY <2>1, SameRegistry DEF RustInv, Subscribing, Depth
  <2> QED
    BY <1>1, <2>1, <2>2
<1> QED
  BY <1>2, <1>3, <1>4, <1>5, <1>6, RustSubscribedStep, SaveStep, RustUnsubscribeStep,
     DropStep DEF RustNext

(* The box of a closure has one owner at any time and is freed once, only  *)
(* after the C++ side has given its token up.                              *)
THEOREM ContextsOwned == RustSpec => []ContextsOwnedOnce
<1>1. RustInit => RustInv
  <2> SUFFICES ASSUME RustInit PROVE RustInv
    OBVIOUS
  <2>1. IInv
    BY InitiallyInv DEF RustInit
  <2>2. Live = {} /\ Saving = {} /\ Dropping = {} /\ Subscribing = {}
    BY HexraysAssumption
       DEF RustInit, Init, Live, Saving, Dropping, PendingTokens, Nothing, Subscribing, Depth
  <2>3. PendingInv
    BY DEF RustInit, PendingInv, Pending, Nothing
  <2>4. TableInv
    BY <2>2 DEF RustInit, TableInv
  <2>5. BoxesInv
    BY <2>2, FS_EmptySet DEF RustInit, BoxesInv
  <2> QED
    BY <2>1, <2>3, <2>4, <2>5 DEF RustInv
<1>2. RustInv => ContextsOwnedOnce
  <2> SUFFICES ASSUME RustInv PROVE ContextsOwnedOnce
    OBVIOUS
  <2>1. RustTypeOK
    BY TablesAreFinite DEF RustInv, RustTypeOK, IInv, PendingInv, BoxesInv
  <2> QED
    BY <2>1 DEF RustInv, TableInv, BoxesInv, ContextsOwnedOnce, Saving, Dropping
<1> QED
  BY <1>1, <1>2, RustStep, PTL DEF RustSpec
=============================================================================
