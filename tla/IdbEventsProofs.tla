-------------------------- MODULE IdbEventsProofs --------------------------
(***************************************************************************)
(* Proofs about IdbEvents, for every value of its constants.               *)
(***************************************************************************)
EXTENDS IdbEvents, StackLemmas

(* Whatever NextCall answers other than "done" is a call of a live entry. *)
LEMMA NextCallType ==
  ASSUME TypeOK, NEW event \in EventKinds, NEW stage \in Stages, NEW after \in Nat
  PROVE  LET call == NextCall(event, stage, after) IN
         call.stage # "done" => call.stage \in Stages /\ call.cur \in Live
<1> DEFINE typed == IF stage = "typed" THEN TypedAfter(after, event) ELSE {}
           generic == GenericAfter(IF stage = "typed" THEN 0 ELSE after)
<1>1. typed \subseteq Live /\ generic \subseteq Live /\ Live \subseteq Nat
  BY IdbAssumption DEF TypeOK, Token, TypedAfter, GenericAfter
<1>2. typed # {} => Min(typed) \in Live
  BY <1>1, MinInSet
<1>3. generic # {} => Min(generic) \in Live
  BY <1>1, MinInSet
<1> QED
  BY <1>2, <1>3 DEF NextCall, GenericCall, Stages

-----------------------------------------------------------------------------
(* Type correctness. *)

LEMMA EraseType ==
  ASSUME TypeOK, NEW t, Erase(t)
  PROVE  /\ Live' \subseteq Token
         /\ subscriptions' \in [Live' -> Subscription]
         /\ loose' \subseteq Token
         /\ listener' \in Nat
         /\ misused' \in BOOLEAN
<1>1. CASE t \in Live
  <2>1. misused' \in BOOLEAN
    BY <1>1 DEF Erase
  <2> QED
    BY <1>1, <2>1 DEF TypeOK, Erase, Live, Restrict, ListenerAfter
<1>2. CASE t \notin Live
  BY <1>2 DEF TypeOK, Erase, Live
<1> QED
  BY <1>1, <1>2

LEMMA TypeStep == TypeOK /\ [Next]_vars => TypeOK'
<1> SUFFICES ASSUME TypeOK, [Next]_vars PROVE TypeOK'
  OBVIOUS
<1> USE IdbAssumption
<1>1. ASSUME NEW sub \in Subscription, Subscribe(sub) PROVE TypeOK'
  <2>1. subscriptions' \in [Live' -> Subscription] /\ Live' \subseteq Token
    BY <1>1 DEF TypeOK, Subscribe, Live, Token
  <2>2. listener' \in Nat /\ listeners' \in Nat
    BY <1>1 DEF TypeOK, Subscribe, ensure_listener
  <2> QED
    BY <1>1, <2>1, <2>2 DEF TypeOK, Subscribe
<1>2. ASSUME NEW t \in Token, Unsubscribe(t) PROVE TypeOK'
  BY <1>2, EraseType DEF TypeOK, Unsubscribe
<1>3. ASSUME NEW g \in Guards, NEW t \in Token, GuardConstruct(g, t) PROVE TypeOK'
  BY <1>3 DEF TypeOK, GuardConstruct, Live
<1>4. ASSUME NEW g \in Guards, GuardDestroy(g) PROVE TypeOK'
  BY <1>4, EraseType DEF TypeOK, GuardDestroy
<1>5. ASSUME NEW g \in Guards, NEW other \in Guards, GuardMoveConstruct(g, other)
      PROVE TypeOK'
  BY <1>5 DEF TypeOK, GuardMoveConstruct, owners, Live
<1>6. ASSUME NEW g \in Guards, NEW other \in Guards, GuardMoveAssign(g, other)
      PROVE TypeOK'
  BY <1>6, EraseType DEF TypeOK, GuardMoveAssign
<1>7. ASSUME NEW event \in EventKinds, Fire(event) PROVE TypeOK'
  <2> DEFINE call == NextCall(event, "typed", 0)
             frame == [event |-> event, stage |-> call.stage, cur |-> call.cur,
                       listener |-> listener, due |-> Matching(event),
                       seen |-> <<call.cur>>]
  <2>1. call.stage \in Stages /\ call.cur \in Token
    BY <1>7, NextCallType DEF Fire, TypeOK, Stages
  <2>2. Matching(event) \subseteq Token
    BY DEF Matching, TypeOK
  <2> HIDE DEF call
  <2>3. frame \in Frame
    BY <2>1, <2>2 DEF Frame, TypeOK
  <2>4. frames' = Append(frames, frame)
    BY <1>7 DEF Fire, call
  <2>5. frames' \in Seq(Frame)
    BY <2>3, <2>4 DEF TypeOK
  <2> QED
    BY <1>7, <2>5 DEF TypeOK, Fire, owners, Live
<1>8. CASE FilterAccepts
  <2>1. Len(frames) \in 1 .. Len(frames) /\ Top \in Frame
    BY <1>8, EmptySeq, ElementOfSeq DEF FilterAccepts, TypeOK, Top
  <2>2. [Top EXCEPT !.stage = "generic"] \in Frame
    BY <2>1 DEF Frame, Stages
  <2>3. frames' = [frames EXCEPT ![Len(frames)] = [Top EXCEPT !.stage = "generic"]]
    BY <1>8 DEF FilterAccepts, Top
  <2>4. frames' \in Seq(Frame)
    BY <2>1, <2>2, <2>3, ExceptSeq DEF TypeOK
  <2> QED
    BY <1>8, <2>4 DEF TypeOK, FilterAccepts, owners, Live
<1>9. CASE CallReturns
  <2> DEFINE call == NextCall(Top.event, Top.stage, Top.cur)
             frame == [Top EXCEPT !.stage = call.stage, !.cur = call.cur,
                                  !.seen = Append(Top.seen, call.cur)]
  <2>1. Len(frames) \in 1 .. Len(frames) /\ Top \in Frame
    BY <1>9, EmptySeq, ElementOfSeq DEF CallReturns, TypeOK, Top
  <2>2. Top.event \in EventKinds /\ Top.stage \in Stages /\ Top.cur \in Nat
    BY <2>1 DEF Frame, Token
  <2>3. CASE call.stage = "done"
    <3>1. frames' = SubSeq(frames, 1, Len(frames) - 1)
      BY <1>9, <2>3 DEF CallReturns
    <3>2. frames' \in Seq(Frame)
      BY <2>1, <3>1, SubSeqProperties, ElementOfSeq DEF TypeOK
    <3> QED
      BY <1>9, <3>2 DEF TypeOK, CallReturns, owners, Live
  <2>4. CASE call.stage # "done"
    <3>1. call.stage \in Stages /\ call.cur \in Token
      BY <2>2, <2>4, NextCallType DEF TypeOK
    <3>2. frames' = [frames EXCEPT ![Len(frames)] = frame]
      BY <1>9, <2>4 DEF CallReturns, Top
    <3> HIDE DEF call
    <3>3. Append(Top.seen, call.cur) \in Seq(Token)
      BY <2>1, <3>1 DEF Frame
    <3>4. frame \in Frame
      BY <2>1, <3>1, <3>3 DEF Frame
    <3>5. frames' \in Seq(Frame)
      BY <2>1, <3>2, <3>4, ExceptSeq DEF TypeOK
    <3> QED
      BY <1>9, <3>5 DEF TypeOK, CallReturns, owners, Live
  <2> QED
    BY <2>3, <2>4
<1>10. CASE IteratorInvalid
  BY <1>10 DEF TypeOK, IteratorInvalid, owners, Live
<1>11. CASE UNCHANGED vars
  BY <1>11 DEF TypeOK, vars, owners, Live
<1> QED
  BY <1>1, <1>2, <1>3, <1>4, <1>5, <1>6, <1>7, <1>8, <1>9, <1>10, <1>11
     DEF Next, Client, Dispatch

(* Every reachable state of ida::event is well typed: tokens stay within   *)
(* the ones handed out, and a dispatch always stands on a real entry.      *)
THEOREM TypeCorrect == Spec => []TypeOK
<1>1. Init => TypeOK
  <2> SUFFICES ASSUME Init PROVE TypeOK
    OBVIOUS
  <2>1. Live = {}
    BY DEF Init, Live
  <2>2. subscriptions \in [Live -> Subscription]
    BY <2>1 DEF Init, Live
  <2>3. frames \in Seq(Frame)
    BY EmptySeq DEF Init
  <2>4. /\ misused \in BOOLEAN /\ undefined \in BOOLEAN
        /\ loose \subseteq Token /\ reused \subseteq Token
    BY DEF Init
  <2>5. /\ next_token \in 1 .. MaxToken + 1
        /\ listener \in Nat /\ listeners \in Nat
        /\ guards \in [Guards -> Token \cup {0}]
    BY IdbAssumption DEF Init
  <2> QED
    BY <2>1, <2>2, <2>3, <2>4, <2>5 DEF TypeOK
<1> QED
  BY <1>1, TypeStep, PTL DEF Spec

-----------------------------------------------------------------------------
(* The registry. *)

(* What makes the registry implement SubscriptionRegistry: no token from   *)
(* next_token on is in the map, and there is a listener exactly while the  *)
(* map has an entry (ensure_listener and the end of unsubscribe).          *)
RegistryInv ==
  /\ Live \subseteq 1 .. next_token - 1
  /\ listener # 0 <=> Live # {}

(* unsubscribe removes the named entry, if there is one, and unhooks the   *)
(* listener with the last one; an entry in use is a misuse.                *)
LEMMA EraseEffect ==
  ASSUME NEW t, Erase(t)
  PROVE  \/ /\ t \in Live
            /\ Live' = Live \ {t}
            /\ listener' = IF Live' = {} THEN 0 ELSE listener
            /\ ~misused' => ~misused /\ t \notin Running
         \/ t \notin Live /\ UNCHANGED <<Live, listener, misused>>
<1>1. CASE t \in Live
  BY <1>1 DEF Erase, Live, Restrict, ListenerAfter
<1>2. CASE t \notin Live
  BY <1>2 DEF Erase, Live
<1> QED
  BY <1>1, <1>2

(* on_*: the entry that is added has the next token, and a listener exists. *)
LEMMA SubscribeEffect ==
  ASSUME TypeOK, NEW sub \in Subscription, Subscribe(sub)
  PROVE  /\ Live' = Live \cup {next_token}
         /\ next_token \in Token
         /\ next_token' = next_token + 1
         /\ listener' \in Nat \ {0}
         /\ listener # 0 => listener' = listener
<1>1. Live' = Live \cup {next_token}
  BY DEF Subscribe, Live
<1>2. next_token \in Token
  BY IdbAssumption DEF Subscribe, TypeOK, Token
<1>3. listener' \in Nat \ {0} /\ (listener # 0 => listener' = listener)
  BY DEF Subscribe, ensure_listener, TypeOK
<1> QED
  BY <1>1, <1>2, <1>3 DEF Subscribe

(* The actions that only call client code or return from it. *)
LEMMA OtherSteps ==
  ASSUME \/ \E g \in Guards, t \in Token : GuardConstruct(g, t)
         \/ \E g, other \in Guards : GuardMoveConstruct(g, other)
         \/ Dispatch
         \/ UNCHANGED vars
  PROVE  UNCHANGED <<Live, next_token, listener>>
BY DEF GuardConstruct, GuardMoveConstruct, Dispatch, Fire, FilterAccepts,
       CallReturns, IteratorInvalid, vars, Live

(* The actions that unsubscribe something. *)
LEMMA ErasingSteps ==
  ASSUME \/ \E t \in Token : Unsubscribe(t)
         \/ \E g \in Guards : GuardDestroy(g)
         \/ \E g, other \in Guards : GuardMoveAssign(g, other)
  PROVE  /\ \E t : Erase(t)
         /\ UNCHANGED <<next_token, frames, undefined>>
         /\ ~undefined
BY DEF Unsubscribe, GuardDestroy, GuardMoveAssign

LEMMA RegistryStep == TypeOK /\ RegistryInv /\ [Next]_vars => RegistryInv'
<1> SUFFICES ASSUME TypeOK, RegistryInv, [Next]_vars PROVE RegistryInv'
  OBVIOUS
<1>1. ASSUME NEW sub \in Subscription, Subscribe(sub) PROVE RegistryInv'
  <2>1. Live' \subseteq 1 .. next_token' - 1
    <3>1. next_token \in Nat
      BY IdbAssumption DEF TypeOK
    <3>2. Live' = Live \cup {next_token} /\ next_token' = next_token + 1
      BY <1>1, SubscribeEffect
    <3>3. Live \subseteq 1 .. next_token - 1 /\ next_token # 0
      BY IdbAssumption DEF RegistryInv, TypeOK
    <3> QED
      BY <3>1, <3>2, <3>3
  <2>2. listener' # 0 /\ Live' # {}
    BY <1>1, SubscribeEffect
  <2> QED
    BY <2>1, <2>2 DEF RegistryInv
<1>2. ASSUME NEW t, Erase(t), UNCHANGED next_token PROVE RegistryInv'
  <2>1. Live' \subseteq Live
    BY <1>2, EraseEffect
  <2>2. listener' # 0 <=> Live' # {}
    BY <1>2, EraseEffect DEF RegistryInv
  <2> QED
    BY <1>2, <2>1, <2>2 DEF RegistryInv
<1>3. ASSUME UNCHANGED <<Live, next_token, listener>> PROVE RegistryInv'
  BY <1>3 DEF RegistryInv
<1> QED
  BY <1>1, <1>2, <1>3, OtherSteps, ErasingSteps DEF Next, Client

LEMMA RegistryInit == Init => RegistryInv
<1> SUFFICES ASSUME Init PROVE RegistryInv
  OBVIOUS
<1>1. Live = {} /\ listener = 0
  BY DEF Init, Live
<1> QED
  BY <1>1 DEF RegistryInv

(* The registry keeps that in every reachable state. *)
LEMMA RegistryConsistent == Spec => []RegistryInv
<1> QED
  BY TypeCorrect, RegistryInit, RegistryStep, PTL DEF Spec

(* ida::event implements SubscriptionRegistry, whatever its clients erase  *)
(* and however deeply dispatches nest.                                     *)
THEOREM RefinesRegistry == Spec => ImplementsRegistry
<1>1. Init => Registry!Init
  <2> SUFFICES ASSUME Init PROVE Registry!Init
    OBVIOUS
  <2>1. Live = {}
    BY DEF Init, Live
  <2>2. 1 .. next_token - 1 = {}
    BY DEF Init
  <2>3. (listener # 0) = FALSE
    BY DEF Init
  <2> QED
    BY <2>1, <2>2, <2>3 DEF Registry!Init
<1>2. TypeOK /\ RegistryInv /\ [Next]_vars => [Registry!Next]_(Registry!vars)
  <2> SUFFICES ASSUME TypeOK, RegistryInv, [Next]_vars
               PROVE  Registry!Next \/ UNCHANGED Registry!vars
    OBVIOUS
  <2>1. ASSUME NEW sub \in Subscription, Subscribe(sub) PROVE Registry!Next
    <3>1. next_token \in Token \ (1 .. next_token - 1)
      BY <2>1, SubscribeEffect DEF Token
    <3>2. Live' = Live \cup {next_token}
      BY <2>1, SubscribeEffect
    <3>3. 1 .. next_token' - 1 = (1 .. next_token - 1) \cup {next_token}
      BY <2>1, SubscribeEffect DEF TypeOK
    <3>4. (listener' # 0) = TRUE
      BY <2>1, SubscribeEffect
    <3> QED
      BY <3>1, <3>2, <3>3, <3>4 DEF Registry!Next, Registry!Subscribe
  <2>2. ASSUME NEW t, Erase(t), UNCHANGED next_token
        PROVE  Registry!Next \/ UNCHANGED Registry!vars
    <3>1. CASE t \in Live
      <4>1. Live' = Live \ {t} /\ (listener' # 0) = (Live' # {})
        BY <2>2, <3>1, EraseEffect DEF RegistryInv
      <4> QED
        BY <2>2, <3>1, <4>1 DEF Registry!Next, Registry!Unsubscribe
    <3>2. CASE t \notin Live
      <4>1. Live' = Live /\ listener' = listener
        BY <2>2, <3>2, EraseEffect
      <4> QED
        BY <2>2, <4>1 DEF Registry!vars
    <3> QED
      BY <3>1, <3>2
  <2>3. ASSUME UNCHANGED <<Live, next_token, listener>>
        PROVE  UNCHANGED Registry!vars
    BY <2>3 DEF Registry!vars
  <2> QED
    BY <2>1, <2>2, <2>3, OtherSteps, ErasingSteps DEF Next, Client
<1> QED
  BY <1>1, <1>2, TypeCorrect, RegistryConsistent, PTL
     DEF Spec, ImplementsRegistry, Registry!Spec

-----------------------------------------------------------------------------
(* Guards. *)

(* A loose token is live and in no guard, and no guard has a token that    *)
(* was not handed out.                                                     *)
GuardsInv ==
  /\ SubscriptionsOwned
  /\ loose \subseteq Live \ Range(guards)
  /\ \A g \in Guards : guards[g] < next_token

(* What unsubscribing means to the owners. *)
LEMMA EraseOwners ==
  ASSUME NEW t, Erase(t), loose \subseteq Live
  PROVE  Live' = Live \ {t} /\ loose' = loose \ {t}
BY EraseEffect DEF Erase

LEMMA HeldTokens ==
  ASSUME TypeOK
  PROVE  \A t : t \in Range(guards) <=> \E g \in Guards : guards[g] = t
BY DEF TypeOK, Range

LEMMA HeldTokensNext ==
  ASSUME TypeOK'
  PROVE  \A t : t \in Range(guards') <=> \E g \in Guards : guards'[g] = t
BY DEF TypeOK, Range

LEMMA GuardsStep ==
  TypeOK /\ TypeOK' /\ RegistryInv /\ GuardsInv /\ [Next]_vars => GuardsInv'
<1> SUFFICES ASSUME TypeOK, TypeOK', RegistryInv, GuardsInv, [Next]_vars
             PROVE  GuardsInv'
  OBVIOUS
<1> USE DEF GuardsInv, SubscriptionsOwned
<1>0. /\ guards \in [Guards -> Token \cup {0}]
      /\ next_token \in Nat \ {0}
      /\ Token \subseteq Nat \ {0}
      /\ Live \subseteq 1 .. next_token - 1
      /\ \A g \in Guards : guards[g] \in Nat
  BY IdbAssumption DEF TypeOK, RegistryInv, Token
<1>00. 0 \notin Live /\ 0 \notin loose
  BY <1>0
<1>1. ASSUME NEW sub \in Subscription, Subscribe(sub) PROVE GuardsInv'
  <2>1. /\ Live' = Live \cup {next_token}
        /\ next_token' = next_token + 1
        /\ loose' = loose \cup {next_token}
        /\ UNCHANGED <<guards, reused>>
    BY <1>1, SubscribeEffect DEF Subscribe
  <2>2. next_token \notin Range(guards)
    BY <1>0, HeldTokens
  <2>3. SubscriptionsOwned'
    BY <2>1
  <2>4. loose' \subseteq Live' \ Range(guards')
    BY <2>1, <2>2
  <2>5. \A g \in Guards : guards'[g] < next_token'
    BY <1>0, <2>1
  <2> QED
    BY <2>3, <2>4, <2>5
<1>2. ASSUME NEW t \in Token, Unsubscribe(t) PROVE GuardsInv'
  <2>1. /\ Live' = Live \ {t} /\ loose' = loose \ {t}
        /\ reused' = reused \cup ({t} \cap Range(guards))
        /\ UNCHANGED <<guards, next_token>>
    BY <1>2, EraseOwners DEF Unsubscribe
  <2>2. ASSUME NEW g \in Guards, guards[g] \notin reused' \cup {0}
        PROVE  guards[g] \in Live'
    BY <2>1, <2>2, HeldTokens
  <2> QED
    BY <2>1, <2>2
<1>3. ASSUME NEW g \in Guards, NEW t \in Token, GuardConstruct(g, t) PROVE GuardsInv'
  <2>1. /\ guards[g] = 0 /\ t < next_token
        /\ guards' = [guards EXCEPT ![g] = t]
        /\ loose' = loose \ {t}
        /\ reused' = IF t \in loose THEN reused ELSE reused \cup {t}
        /\ Live' = Live /\ next_token' = next_token
    BY <1>3 DEF GuardConstruct, Live
  <2>2. Range(guards') \subseteq Range(guards) \cup {t} /\ Range(guards) \subseteq Range(guards') \cup {0}
    BY <1>0, <2>1, HeldTokens, HeldTokensNext
  <2>3. t \in Range(guards')
    BY <1>0, <2>1, HeldTokensNext
  <2>4. Live' \subseteq loose' \cup Range(guards')
    BY <1>00, <2>1, <2>2, <2>3
  <2>5. ASSUME NEW h \in Guards, guards'[h] \notin reused' \cup {0},
               NEW other \in Guards \ {h}
        PROVE  guards'[h] \in Live' /\ guards'[other] # guards'[h]
    <3>1. CASE h = g
      BY <1>0, <2>1, <2>5, <3>1, HeldTokens
    <3>2. CASE h # g
      BY <1>0, <2>1, <2>5, <3>2, HeldTokens
    <3> QED
      BY <3>1, <3>2
  <2>6. ASSUME NEW h \in Guards, guards'[h] \notin reused' \cup {0} PROVE guards'[h] \in Live'
    BY <1>0, <2>1, <2>6
  <2>7. loose' \subseteq Live' \ Range(guards')
    BY <2>1, <2>2
  <2>8. \A h \in Guards : guards'[h] < next_token'
    BY <1>0, <2>1
  <2> QED
    BY <2>4, <2>5, <2>6, <2>7, <2>8
<1>4. ASSUME NEW g \in Guards, GuardDestroy(g) PROVE GuardsInv'
  <2>1. /\ guards[g] # 0
        /\ guards' = [guards EXCEPT ![g] = 0]
        /\ Live' = Live \ {guards[g]} /\ loose' = loose \ {guards[g]}
        /\ reused' = reused \cap Range(guards')
        /\ next_token' = next_token
    BY <1>4, EraseOwners DEF GuardDestroy
  <2>2. /\ Range(guards) \subseteq Range(guards') \cup {guards[g]}
        /\ Range(guards') \subseteq Range(guards) \cup {0}
    <3>1. ASSUME NEW h \in Guards
          PROVE  /\ guards[h] \in Range(guards') \cup {guards[g]}
                 /\ guards'[h] \in Range(guards) \cup {0}
      BY <1>0, <2>1, HeldTokens, HeldTokensNext
    <3> QED
      BY <3>1, HeldTokens, HeldTokensNext
  <2>3. Live' \subseteq loose' \cup Range(guards')
    BY <2>1, <2>2
  <2>4. ASSUME NEW h \in Guards, guards'[h] \notin reused' \cup {0}
        PROVE  guards'[h] \in Live' /\ \A other \in Guards \ {h} : guards'[other] # guards'[h]
    <3>1. h # g /\ guards'[h] = guards[h]
      BY <1>0, <2>1, <2>4
    <3>2. guards[h] \notin reused \cup {0}
      <4>1. guards'[h] \in Range(guards')
        BY HeldTokensNext
      <4> QED
        BY <2>1, <2>4, <3>1, <4>1
    <3>3. guards[h] \in Live /\ \A other \in Guards \ {h} : guards[other] # guards[h]
      BY <3>2
    <3>4. guards'[h] \in Live'
      BY <2>1, <3>1, <3>3
    <3>5. ASSUME NEW other \in Guards \ {h} PROVE guards'[other] # guards'[h]
      BY <1>0, <2>1, <3>1, <3>2, <3>3
    <3> QED
      BY <3>4, <3>5
  <2>5. loose' \subseteq Live' \ Range(guards')
    BY <1>0, <1>00, <2>1, <2>2
  <2>6. \A h \in Guards : guards'[h] < next_token'
    BY <1>0, <2>1
  <2> QED
    BY <2>3, <2>4, <2>5, <2>6
<1>5. ASSUME NEW g \in Guards, NEW other \in Guards, GuardMoveConstruct(g, other)
      PROVE GuardsInv'
  <2>1. /\ g # other /\ guards[g] = 0
        /\ guards' = [guards EXCEPT ![g] = guards[other], ![other] = 0]
        /\ Live' = Live
        /\ UNCHANGED <<loose, reused, next_token>>
    BY <1>5 DEF GuardMoveConstruct, owners, Live
  <2>2. /\ Range(guards) \subseteq Range(guards') \cup {0}
        /\ Range(guards') \subseteq Range(guards) \cup {0}
    <3>1. ASSUME NEW h \in Guards
          PROVE  /\ guards[h] \in Range(guards') \cup {0}
                 /\ guards'[h] \in Range(guards) \cup {0}
      <4>1. CASE h = g
        BY <1>0, <2>1, <4>1, HeldTokens
      <4>2. CASE h = other
        <5>1. guards'[g] = guards[h] /\ guards'[h] = 0
          BY <1>0, <2>1, <4>2
        <5> QED
          BY <5>1, HeldTokensNext
      <4>3. CASE h # g /\ h # other
        <5>1. guards'[h] = guards[h]
          BY <1>0, <2>1, <4>3
        <5> QED
          BY <5>1, HeldTokens, HeldTokensNext
      <4> QED
        BY <4>1, <4>2, <4>3
    <3> QED
      BY <3>1, HeldTokens, HeldTokensNext
  <2>3. Live' \subseteq loose' \cup Range(guards')
    BY <1>0, <1>00, <2>1, <2>2
  <2>4. ASSUME NEW h \in Guards, guards'[h] \notin reused' \cup {0}
        PROVE  guards'[h] \in Live' /\ \A k \in Guards \ {h} : guards'[k] # guards'[h]
    BY <1>0, <2>1, <2>4
  <2>5. loose' \subseteq Live' \ Range(guards')
    BY <1>0, <1>00, <2>1, <2>2
  <2>6. \A h \in Guards : guards'[h] < next_token'
    BY <1>0, <2>1
  <2> QED
    BY <2>3, <2>4, <2>5, <2>6
<1>6. ASSUME NEW g \in Guards, NEW other \in Guards, GuardMoveAssign(g, other)
      PROVE GuardsInv'
  <2>1. /\ g # other /\ guards[g] # 0
        /\ guards' = [guards EXCEPT ![g] = guards[other], ![other] = 0]
        /\ Live' = Live \ {guards[g]} /\ loose' = loose \ {guards[g]}
        /\ reused' = reused \cap Range(guards')
        /\ next_token' = next_token
    BY <1>6, EraseOwners DEF GuardMoveAssign
  <2>2. /\ Range(guards) \subseteq Range(guards') \cup {guards[g]}
        /\ Range(guards') \subseteq Range(guards) \cup {0}
    <3>1. ASSUME NEW h \in Guards
          PROVE  /\ guards[h] \in Range(guards') \cup {guards[g]}
                 /\ guards'[h] \in Range(guards) \cup {0}
      BY <1>0, <2>1, HeldTokens, HeldTokensNext
    <3> QED
      BY <3>1, HeldTokens, HeldTokensNext
  <2>3. Live' \subseteq loose' \cup Range(guards')
    BY <2>1, <2>2
  <2>4. ASSUME NEW h \in Guards, guards'[h] \notin reused' \cup {0}
        PROVE  guards'[h] \in Live' /\ \A k \in Guards \ {h} : guards'[k] # guards'[h]
    <3> DEFINE from == IF h = g THEN other ELSE h
    <3>1. from \in Guards /\ from # g /\ guards'[h] = guards[from]
      BY <1>0, <2>1, <2>4
    <3>2. guards[from] \notin reused \cup {0}
      <4>1. guards'[h] \in Range(guards')
        BY HeldTokensNext
      <4> QED
        BY <2>1, <2>4, <3>1, <4>1
    <3> HIDE DEF from
    <3>3. guards[from] \in Live /\ \A k \in Guards \ {from} : guards[k] # guards[from]
      BY <3>1, <3>2
    <3>4. guards'[h] \in Live'
      BY <2>1, <3>1, <3>3
    <3>5. ASSUME NEW k \in Guards \ {h} PROVE guards'[k] # guards'[h]
      BY <1>0, <2>1, <3>1, <3>2, <3>3 DEF from
    <3> QED
      BY <3>4, <3>5
  <2>5. loose' \subseteq Live' \ Range(guards')
    BY <1>0, <1>00, <2>1, <2>2
  <2>6. \A h \in Guards : guards'[h] < next_token'
    BY <1>0, <2>1
  <2> QED
    BY <2>3, <2>4, <2>5, <2>6
<1>7. ASSUME Dispatch \/ UNCHANGED vars PROVE GuardsInv'
  <2>1. UNCHANGED <<Live, next_token, guards, loose, reused>>
    BY <1>7 DEF Dispatch, Fire, FilterAccepts, CallReturns, IteratorInvalid, vars,
                owners, Live
  <2> QED
    BY <2>1
<1> QED
  BY <1>1, <1>2, <1>3, <1>4, <1>5, <1>6, <1>7 DEF Next, Client

(* No subscription is ever without an owner, and a token that was given to *)
(* one guard and left alone stays in one guard, with its subscription,     *)
(* whatever ScopedSubscription objects are built, moved, assigned over and *)
(* destroyed, in callbacks and outside.                                    *)
THEOREM GuardsOwnTheirTokens == Spec => []SubscriptionsOwned
<1>1. Init => GuardsInv
  <2> SUFFICES ASSUME Init PROVE GuardsInv
    OBVIOUS
  <2>1. Live = {} /\ loose = {}
    BY DEF Init, Live
  <2>2. \A g \in Guards : guards[g] = 0 /\ next_token = 1
    BY DEF Init
  <2> QED
    BY <2>1, <2>2 DEF GuardsInv, SubscriptionsOwned
<1>2. GuardsInv => SubscriptionsOwned
  BY DEF GuardsInv
<1> QED
  BY <1>1, <1>2, TypeCorrect, RegistryConsistent, GuardsStep, PTL DEF Spec

-----------------------------------------------------------------------------
(* Dispatch. *)

LEMMA DispatchStep ==
  TypeOK /\ RegistryInv /\ DispatchWellDefined /\ [Next]_vars
    => DispatchWellDefined'
<1> SUFFICES ASSUME TypeOK, RegistryInv, DispatchWellDefined, [Next]_vars, ~misused'
             PROVE  DispatchWellDefined'
  BY DEF DispatchWellDefined
<1> DEFINE Stands(f) == f.cur \in Live' /\ f.listener = listener' /\ listener' # 0
<1>1. ASSUME NEW sub \in Subscription, Subscribe(sub) PROVE DispatchWellDefined'
  BY <1>1, SubscribeEffect DEF DispatchWellDefined, Subscribe
<1>2. ASSUME NEW t, Erase(t), UNCHANGED <<frames, undefined>>
      PROVE  DispatchWellDefined'
  <2>0. ~misused /\ (t \in Live => t \notin Running)
    BY <1>2, EraseEffect
  <2>1. ASSUME NEW i \in DOMAIN frames PROVE Stands(frames[i])
    <3>1. frames[i].cur \in Live'
      BY <1>2, <2>0, EraseEffect DEF DispatchWellDefined, Running
    <3>2. listener' = listener /\ listener # 0
      BY <1>2, <2>0, <3>1, EraseEffect DEF DispatchWellDefined
    <3> QED
      BY <2>0, <3>1, <3>2 DEF DispatchWellDefined
  <2> QED
    BY <1>2, <2>0, <2>1 DEF DispatchWellDefined
<1>3. ASSUME UNCHANGED <<Live, listener, frames, misused, undefined>>
      PROVE  DispatchWellDefined'
  BY <1>3 DEF DispatchWellDefined
<1>4. ASSUME NEW event \in EventKinds, Fire(event) PROVE DispatchWellDefined'
  <2> DEFINE call == NextCall(event, "typed", 0)
             frame == [event |-> event, stage |-> call.stage, cur |-> call.cur,
                       listener |-> listener, due |-> Matching(event),
                       seen |-> <<call.cur>>]
  <2>1. frames' = Append(frames, frame) /\ UNCHANGED <<Live, listener, misused, undefined>>
    BY <1>4 DEF Fire, Live
  <2>2. call.cur \in Live /\ listener # 0
    BY <1>4, NextCallType DEF Fire, Stages
  <2> HIDE DEF call
  <2>3. Stands(frame)
    BY <2>1, <2>2
  <2> HIDE DEF frame
  <2>4. ASSUME NEW i \in DOMAIN frames' PROVE Stands(frames'[i])
    BY <2>1, <2>3 DEF DispatchWellDefined, TypeOK
  <2> QED
    BY <2>1, <2>4 DEF DispatchWellDefined
<1>5. ASSUME frames # << >>, UNCHANGED <<Live, listener, misused, undefined>>, NEW f,
             f.listener = Top.listener, f.cur \in Live,
             frames' = [frames EXCEPT ![Len(frames)] = f]
      PROVE  DispatchWellDefined'
  <2>1. Len(frames) \in DOMAIN frames
    BY <1>5, EmptySeq, LenProperties DEF TypeOK
  <2>2. f.listener = listener /\ listener # 0
    BY <1>5, <2>1 DEF DispatchWellDefined, Top
  <2>3. ASSUME NEW i \in DOMAIN frames' PROVE Stands(frames'[i])
    BY <1>5, <2>1, <2>2 DEF DispatchWellDefined
  <2> QED
    BY <1>5, <2>3 DEF DispatchWellDefined
<1>6. CASE FilterAccepts
  <2>1. Top \in Frame
    BY <1>6, EmptySeq, ElementOfSeq DEF FilterAccepts, TypeOK, Top
  <2> DEFINE f == [Top EXCEPT !.stage = "generic"]
  <2>2. f.listener = Top.listener /\ f.cur = Top.cur
    BY <2>1 DEF Frame
  <2>3. frames' = [frames EXCEPT ![Len(frames)] = f]
    BY <1>6 DEF FilterAccepts, Top
  <2> HIDE DEF f
  <2> QED
    BY <1>5, <1>6, <2>2, <2>3 DEF FilterAccepts, Live
<1>7. CASE CallReturns
  <2> DEFINE call == NextCall(Top.event, Top.stage, Top.cur)
             f == [Top EXCEPT !.stage = call.stage, !.cur = call.cur,
                              !.seen = Append(Top.seen, call.cur)]
  <2>1. Len(frames) \in 1 .. Len(frames) /\ Top \in Frame
    BY <1>7, EmptySeq, ElementOfSeq DEF CallReturns, TypeOK, Top
  <2>2. UNCHANGED <<Live, listener, misused, undefined>>
    BY <1>7 DEF CallReturns, Live
  <2>3. CASE call.stage = "done"
    <3>1. frames' = SubSeq(frames, 1, Len(frames) - 1)
      BY <1>7, <2>3 DEF CallReturns
    <3>2. ASSUME NEW i \in DOMAIN frames' PROVE i \in DOMAIN frames /\ frames'[i] = frames[i]
      BY <2>1, <3>1, SubSeqProperties, ElementOfSeq, LenProperties DEF TypeOK
    <3> QED
      BY <2>2, <3>2 DEF DispatchWellDefined
  <2>4. CASE call.stage # "done"
    <3>1. Top.event \in EventKinds /\ Top.stage \in Stages /\ Top.cur \in Nat
      BY <2>1 DEF Frame, Token
    <3>2. call.cur \in Live
      BY <2>4, <3>1, NextCallType
    <3>3. frames' = [frames EXCEPT ![Len(frames)] = f]
      BY <1>7, <2>4 DEF CallReturns
    <3> HIDE DEF call
    <3>4. f.listener = Top.listener /\ f.cur = call.cur
      BY <2>1 DEF Frame
    <3> HIDE DEF f
    <3> QED
      BY <1>5, <1>7, <2>2, <3>2, <3>3, <3>4 DEF CallReturns
  <2> QED
    BY <2>3, <2>4
<1>8. ASSUME IteratorInvalid PROVE FALSE
  <2>1. Len(frames) \in DOMAIN frames
    BY <1>8, EmptySeq, LenProperties DEF IteratorInvalid, TypeOK
  <2> QED
    BY <1>8, <2>1 DEF IteratorInvalid, DispatchWellDefined, Top
<1> QED
  <2>1. ASSUME \/ \E g \in Guards, t \in Token : GuardConstruct(g, t)
               \/ \E g, other \in Guards : GuardMoveConstruct(g, other)
               \/ UNCHANGED vars
        PROVE  UNCHANGED <<Live, listener, frames, misused, undefined>>
    BY <2>1 DEF GuardConstruct, GuardMoveConstruct, vars, Live
  <2> QED
    BY <1>1, <1>2, <1>3, <1>4, <1>6, <1>7, <1>8, <2>1, ErasingSteps
       DEF Next, Client, Dispatch

(* As long as no client has erased an entry being visited, no loop of      *)
(* on_event ever uses an invalid iterator and no running on_event outlives *)
(* its listener: the map cannot become empty under a dispatch.             *)
THEOREM DispatchSafe == Spec => []DispatchWellDefined
<1>1. Init => DispatchWellDefined
  BY DEF Init, DispatchWellDefined
<1> QED
  BY <1>1, DispatchStep, TypeCorrect, RegistryConsistent, PTL DEF Spec
=============================================================================
