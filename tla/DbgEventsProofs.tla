-------------------------- MODULE DbgEventsProofs --------------------------
(***************************************************************************)
(* Proofs about DbgEvents, for every value of its constants.               *)
(***************************************************************************)
EXTENDS DbgEvents, StackLemmas

Ascending(s) == \A i, j \in DOMAIN s : i < j => s[i] < s[j]

(* The handlers of an event that were not told to return yet. *)
ToReturn(call) == IF call.cur = 0 THEN call.todo ELSE <<call.cur>> \o call.todo

(* The calls of which the handlers ascend in their tokens; there is one    *)
(* only while it runs, and only an event code is subscribed to.            *)
OrderedCall ==
  {call \in DbgCall :
     /\ Ascending(ToReturn(call))
     /\ call.pc # "handler" => call.cur = 0
     /\ call.op = "subscribe" => call.code \in Codes}

(* The subscriptions ascend in tokens that were given out, and the         *)
(* listener is hooked exactly while there is one.                          *)
SubsInv ==
  /\ \A i, j \in DOMAIN dbg_subs : i < j => dbg_subs[i].token < dbg_subs[j].token
  /\ \A i \in DOMAIN dbg_subs : dbg_subs[i].token <= next_token_
  /\ dbg_hooked = (dbg_subs # << >>)

(* The stacks hold ordered calls, no more than the bound allows. *)
BoundInv == \A th \in DbgThreads : DbgDepth(th) <= MaxDbgDepth
StackInv == dbg_stack \in [DbgThreads -> Seq(OrderedCall)] /\ BoundInv

(* A token is left for every subscribe call under way. *)
RoomInv == next_token_ + Cardinality(Subscribing) <= MaxDbgToken

DbgInv == DbgTypeOK /\ StackInv /\ SubsInv /\ RoomInv

-----------------------------------------------------------------------------
(* What CopyMatched copies. *)

(* The copy has the tokens of all subscriptions to the code and no others, *)
(* in their order.                                                         *)
LEMMA MatchedInOrder ==
  ASSUME DbgTypeOK, SubsInv, NEW code
  PROVE  /\ DbgMatched(code) \in Seq(DbgToken)
         /\ Ascending(DbgMatched(code))
         /\ {DbgMatched(code)[k] : k \in DOMAIN DbgMatched(code)}
              = {dbg_subs[j].token : j \in {x \in DOMAIN dbg_subs : dbg_subs[x].code = code}}
<1> DEFINE n == Len(dbg_subs)
           keep == {i \in DOMAIN dbg_subs : dbg_subs[i].code = code}
           matching == Picked(dbg_subs, keep)
           copy == [k \in DOMAIN matching |-> matching[k].token]
<1>1. /\ dbg_subs \in Seq(DbgSubscription) /\ n \in Nat /\ DOMAIN dbg_subs = 1 .. n
      /\ \A i \in 1 .. n : dbg_subs[i].token \in DbgToken
  <2>1. dbg_subs \in Seq(DbgSubscription)
    BY DEF DbgTypeOK
  <2>2. n \in Nat /\ DOMAIN dbg_subs = 1 .. n
    BY <2>1, LenProperties
  <2>3. \A i \in 1 .. n : dbg_subs[i] \in DbgSubscription
    BY <2>1, ElementOfSeq
  <2> HIDE DEF n
  <2> QED
    BY <2>1, <2>2, <2>3 DEF DbgSubscription
<1>2. Selects(DbgSubscription, dbg_subs, keep, n, matching)
  BY <1>1, PickedInOrder
<1>3. DbgMatched(code) = copy
  BY DEF DbgMatched
<1> HIDE DEF matching, n
<1>4. matching \in Seq(DbgSubscription) /\ DOMAIN matching = 1 .. Len(matching) /\ Len(matching) \in Nat
  BY <1>2, LenProperties DEF Selects
<1>5. PICK place : Places(dbg_subs, keep, n, matching, place)
  BY <1>2 DEF Selects
<1>6. /\ place \in [DOMAIN matching -> 1 .. n]
      /\ \A k \in DOMAIN matching : place[k] \in keep /\ copy[k] = dbg_subs[place[k]].token
      /\ \A i, j \in DOMAIN matching : i < j => place[i] < place[j]
      /\ \A i \in 1 .. n : i \in keep => \E k \in DOMAIN matching : place[k] = i
  BY <1>4, <1>5 DEF Places
<1>7. copy \in Seq(DbgToken)
  <2>1. \A k \in DOMAIN matching : copy[k] \in DbgToken
    BY <1>1, <1>6
  <2>2. [k \in 1 .. Len(matching) |-> matching[k].token] \in Seq(DbgToken)
    BY <1>4, <2>1, IsASeq
  <2> QED
    BY <1>4, <2>2
<1>8. Ascending(copy)
  BY <1>1, <1>6 DEF Ascending, SubsInv
<1>9. {copy[k] : k \in DOMAIN copy} = {dbg_subs[j].token : j \in keep}
  BY <1>1, <1>6
<1> HIDE DEF copy
<1> QED
  BY <1>3, <1>7, <1>8, <1>9

-----------------------------------------------------------------------------
(* The three ways a step changes the stack of a thread, and what they do   *)
(* to the set of subscribe calls under way.                                *)

LEMMA SubscribingIsFinite ==
  IsFiniteSet(Subscribing) /\ Cardinality(Subscribing) \in Nat
<1>1. IsFiniteSet(1 .. MaxDbgDepth)
  BY FS_Interval, DbgAssumption
<1>2. IsFiniteSet(DbgThreads \X (1 .. MaxDbgDepth))
  BY <1>1, FS_Product, DbgAssumption
<1> QED
  BY <1>2, FS_Subset, FS_CardinalityType DEF Subscribing

(* A call is entered. *)
LEMMA Entered ==
  ASSUME StackInv, NEW th \in DbgThreads, DbgDepth(th) < MaxDbgDepth,
         NEW call \in OrderedCall, DbgPush(th, call)
  PROVE  /\ StackInv'
         /\ \A u \in DbgThreads \ {th} : dbg_stack'[u] = dbg_stack[u]
         /\ \A i \in DOMAIN dbg_stack[th] : dbg_stack'[th][i] = dbg_stack[th][i]
         /\ DbgDepth(th)' = DbgDepth(th) + 1 /\ DbgTop(th)' = call
         /\ <<th, DbgDepth(th) + 1>> \notin Subscribing
         /\ Subscribing' = IF call.op = "subscribe"
                           THEN Subscribing \cup {<<th, DbgDepth(th) + 1>>}
                           ELSE Subscribing
<1>1. /\ dbg_stack' \in [DbgThreads -> Seq(OrderedCall)]
      /\ \A u \in DbgThreads \ {th} : dbg_stack'[u] = dbg_stack[u]
      /\ Len(dbg_stack[th]) \in Nat
      /\ Len(dbg_stack'[th]) = Len(dbg_stack[th]) + 1
      /\ DOMAIN dbg_stack[th] = 1 .. Len(dbg_stack[th])
      /\ \A i \in 1 .. Len(dbg_stack[th]) : dbg_stack'[th][i] = dbg_stack[th][i]
      /\ dbg_stack'[th][Len(dbg_stack[th]) + 1] = call
  <2>1. /\ dbg_stack \in [DbgThreads -> Seq(OrderedCall)]
        /\ dbg_stack' = Pushed(dbg_stack, th, call)
    BY DEF StackInv, DbgPush, Pushed
  <2> QED
    BY <2>1, StackPushed
<1>2. StackInv'
  <2>1. BoundInv
    BY DEF StackInv
  <2>2. BoundInv'
    BY <1>1, <2>1, DbgAssumption DEF BoundInv, DbgDepth
  <2> QED
    BY <1>1, <2>2 DEF StackInv
<1>3. ASSUME NEW u \in DbgThreads, NEW i \in 1 .. MaxDbgDepth
      PROVE  i <= DbgDepth(u)' /\ dbg_stack'[u][i].op = "subscribe"
               <=> \/ i <= DbgDepth(u) /\ dbg_stack[u][i].op = "subscribe"
                   \/ u = th /\ i = DbgDepth(th) + 1 /\ call.op = "subscribe"
  BY <1>1 DEF DbgDepth
<1>4. /\ <<th, DbgDepth(th) + 1>> \notin Subscribing
      /\ Subscribing' = IF call.op = "subscribe"
                        THEN Subscribing \cup {<<th, DbgDepth(th) + 1>>}
                        ELSE Subscribing
  <2> DEFINE new == <<th, DbgDepth(th) + 1>>
  <2>1. new \in DbgThreads \X (1 .. MaxDbgDepth) /\ ~(new[2] <= DbgDepth(new[1]))
    BY <1>1, DbgAssumption DEF DbgDepth
  <2>2. ASSUME NEW c \in DbgThreads \X (1 .. MaxDbgDepth)
        PROVE  c \in Subscribing' <=> c \in Subscribing \/ (c = new /\ call.op = "subscribe")
    <3>1. c[1] \in DbgThreads /\ c[2] \in 1 .. MaxDbgDepth
      OBVIOUS
    <3>2. c = new <=> c[1] = th /\ c[2] = DbgDepth(th) + 1
      <4>1. c = <<c[1], c[2]>>
        OBVIOUS
      <4> HIDE DEF DbgDepth
      <4> QED
        BY <4>1
    <3> HIDE DEF new
    <3> QED
      BY <1>3, <3>1, <3>2 DEF Subscribing
  <2> HIDE DEF new
  <2>3. new \notin Subscribing
    BY <2>1 DEF Subscribing
  <2>4. /\ Subscribing \subseteq DbgThreads \X (1 .. MaxDbgDepth)
        /\ Subscribing' \subseteq DbgThreads \X (1 .. MaxDbgDepth)
    BY DEF Subscribing
  <2>5. Subscribing' = IF call.op = "subscribe" THEN Subscribing \cup {new} ELSE Subscribing
    BY <2>1, <2>2, <2>4
  <2> QED
    BY <2>3, <2>5 DEF new
<1> QED
  BY <1>1, <1>2, <1>4 DEF DbgDepth, DbgTop

(* The innermost call returns. *)
LEMMA Left ==
  ASSUME StackInv, NEW th \in DbgThreads, ~DbgIdle(th), DbgPop(th)
  PROVE  /\ StackInv'
         /\ \A u \in DbgThreads \ {th} : dbg_stack'[u] = dbg_stack[u]
         /\ DOMAIN dbg_stack[th] = 1 .. DbgDepth(th)
         /\ DOMAIN dbg_stack'[th] = 1 .. DbgDepth(th) - 1
         /\ \A i \in DOMAIN dbg_stack'[th] : dbg_stack'[th][i] = dbg_stack[th][i]
         /\ DbgDepth(th) \in Nat \ {0} /\ DbgDepth(th)' = DbgDepth(th) - 1
         /\ <<th, DbgDepth(th)>> \in Subscribing <=> DbgTop(th).op = "subscribe"
         /\ Subscribing' = Subscribing \ {<<th, DbgDepth(th)>>}
<1>1. /\ dbg_stack' \in [DbgThreads -> Seq(OrderedCall)]
      /\ \A u \in DbgThreads \ {th} : dbg_stack'[u] = dbg_stack[u]
      /\ Len(dbg_stack[th]) \in Nat \ {0}
      /\ Len(dbg_stack'[th]) = Len(dbg_stack[th]) - 1
      /\ DOMAIN dbg_stack[th] = 1 .. Len(dbg_stack[th])
      /\ DOMAIN dbg_stack'[th] = 1 .. Len(dbg_stack[th]) - 1
      /\ \A i \in 1 .. Len(dbg_stack[th]) - 1 : dbg_stack'[th][i] = dbg_stack[th][i]
  <2>1. /\ dbg_stack \in [DbgThreads -> Seq(OrderedCall)] /\ dbg_stack[th] # << >>
        /\ dbg_stack' = Popped(dbg_stack, th)
    BY DEF StackInv, DbgPop, DbgIdle, Popped
  <2> QED
    BY <2>1, StackPopped
<1>2. StackInv'
  <2>1. BoundInv
    BY DEF StackInv
  <2>2. BoundInv'
    BY <1>1, <2>1, DbgAssumption DEF BoundInv, DbgDepth
  <2> QED
    BY <1>1, <2>2 DEF StackInv
<1>3. ASSUME NEW u \in DbgThreads, NEW i \in 1 .. MaxDbgDepth
      PROVE  i <= DbgDepth(u)' /\ dbg_stack'[u][i].op = "subscribe"
               <=> /\ i <= DbgDepth(u) /\ dbg_stack[u][i].op = "subscribe"
                   /\ ~(u = th /\ i = DbgDepth(th))
  BY <1>1 DEF DbgDepth
<1>4. <<th, DbgDepth(th)>> \in Subscribing <=> DbgTop(th).op = "subscribe"
  BY <1>1, DbgAssumption DEF Subscribing, DbgDepth, DbgTop, StackInv, BoundInv
<1>5. Subscribing' = Subscribing \ {<<th, DbgDepth(th)>>}
  BY <1>1, <1>3, DbgAssumption DEF Subscribing, DbgDepth
<1> QED
  BY <1>1, <1>2, <1>4, <1>5 DEF DbgDepth

(* The innermost call gets on. *)
LEMMA Advanced ==
  ASSUME StackInv, NEW th \in DbgThreads, ~DbgIdle(th), NEW call \in OrderedCall,
         DbgSetTop(th, call), call.op = DbgTop(th).op
  PROVE  /\ StackInv'
         /\ \A u \in DbgThreads \ {th} : dbg_stack'[u] = dbg_stack[u]
         /\ DOMAIN dbg_stack[th] = 1 .. DbgDepth(th)
         /\ \A i \in 1 .. DbgDepth(th) - 1 : dbg_stack'[th][i] = dbg_stack[th][i]
         /\ DbgDepth(th) \in Nat \ {0} /\ DbgDepth(th)' = DbgDepth(th) /\ DbgTop(th)' = call
         /\ Subscribing' = Subscribing
<1>1. /\ dbg_stack' \in [DbgThreads -> Seq(OrderedCall)]
      /\ \A u \in DbgThreads \ {th} : dbg_stack'[u] = dbg_stack[u]
      /\ Len(dbg_stack[th]) \in Nat \ {0}
      /\ Len(dbg_stack'[th]) = Len(dbg_stack[th])
      /\ DOMAIN dbg_stack[th] = 1 .. Len(dbg_stack[th])
      /\ \A i \in 1 .. Len(dbg_stack[th]) - 1 : dbg_stack'[th][i] = dbg_stack[th][i]
      /\ dbg_stack'[th][Len(dbg_stack[th])] = call
  <2>1. /\ dbg_stack \in [DbgThreads -> Seq(OrderedCall)] /\ dbg_stack[th] # << >>
        /\ dbg_stack' = TopSet(dbg_stack, th, call)
    BY DEF StackInv, DbgSetTop, DbgIdle, TopSet
  <2> QED
    BY <2>1, StackTopSet
<1>2. StackInv'
  <2>1. BoundInv
    BY DEF StackInv
  <2>2. BoundInv'
    BY <1>1, <2>1, DbgAssumption DEF BoundInv, DbgDepth
  <2> QED
    BY <1>1, <2>2 DEF StackInv
<1>3. ASSUME NEW u \in DbgThreads, NEW i \in 1 .. MaxDbgDepth
      PROVE  i <= DbgDepth(u)' /\ dbg_stack'[u][i].op = "subscribe"
               <=> i <= DbgDepth(u) /\ dbg_stack[u][i].op = "subscribe"
  BY <1>1 DEF DbgDepth, DbgTop
<1>4. Subscribing' = Subscribing
  BY <1>1, <1>3 DEF Subscribing
<1> QED
  BY <1>1, <1>2, <1>4 DEF DbgDepth, DbgTop

(* The innermost call of a thread that is in one. *)
LEMMA TopIsOrdered ==
  ASSUME StackInv, NEW th \in DbgThreads, ~DbgIdle(th)
  PROVE  DbgTop(th) \in OrderedCall
<1>1. dbg_stack \in [DbgThreads -> Seq(OrderedCall)] /\ dbg_stack[th] # << >>
  BY DEF StackInv, DbgIdle
<1> QED
  BY <1>1, TopOfStack DEF DbgTop, DbgDepth

LEMMA StacksAreTyped ==
  ASSUME NEW st \in [DbgThreads -> Seq(OrderedCall)]
  PROVE  st \in [DbgThreads -> Seq(DbgCall)]
<1>1. \A s \in Seq(OrderedCall) : s \in Seq(DbgCall)
  BY DEF OrderedCall
<1> QED
  BY <1>1

-----------------------------------------------------------------------------
(* Steps that leave the subscriptions alone. *)
LEMMA SameSubs ==
  ASSUME DbgInv, StackInv', UNCHANGED <<dbg_subs, next_token_, dbg_hooked>>,
         mutex' \in DbgThreads \cup {NoThread},
         next_token_ + Cardinality(Subscribing') <= MaxDbgToken
  PROVE  DbgInv'
<1>1. dbg_stack' \in [DbgThreads -> Seq(DbgCall)]
  BY StacksAreTyped DEF StackInv
<1> QED
  BY <1>1 DEF DbgInv, DbgTypeOK, SubsInv, RoomInv

LEMMA CallStep ==
  ASSUME DbgInv, NEW th \in DbgThreads, NEW op, NEW code, NEW token,
         Enter(th, NewDbgCall(op, code, token)),
         NewDbgCall(op, code, token) \in DbgCall,
         op = "subscribe" => code \in Codes /\ next_token_ + Cardinality(Subscribing) < MaxDbgToken
  PROVE  DbgInv'
<1> DEFINE call == NewDbgCall(op, code, token)
<1>1. call \in OrderedCall /\ call.op = op
  BY DEF OrderedCall, NewDbgCall, Ascending, ToReturn
<1>2. DbgDepth(th) < MaxDbgDepth /\ DbgPush(th, call)
  BY DEF Enter
<1> HIDE DEF call
<1>3. /\ StackInv'
      /\ <<th, DbgDepth(th) + 1>> \notin Subscribing
      /\ Subscribing' = IF call.op = "subscribe"
                        THEN Subscribing \cup {<<th, DbgDepth(th) + 1>>}
                        ELSE Subscribing
  BY <1>1, <1>2, Entered DEF DbgInv
<1>4. next_token_ \in Nat
  BY DbgAssumption DEF DbgInv, DbgTypeOK
<1>5. next_token_ + Cardinality(Subscribing') <= MaxDbgToken
  <2>1. CASE op = "subscribe"
    <3>1. Cardinality(Subscribing') = Cardinality(Subscribing) + 1
      BY <1>1, <1>3, <2>1, SubscribingIsFinite, FS_AddElement
    <3> QED
      BY <1>4, <2>1, <3>1, SubscribingIsFinite, DbgAssumption
  <2>2. CASE op # "subscribe"
    BY <1>1, <1>3, <2>2 DEF DbgInv, RoomInv
  <2> QED
    BY <2>1, <2>2
<1> QED
  BY <1>3, <1>5, SameSubs DEF DbgInv, DbgTypeOK, Enter

(* A call that gets on without changing what it is for. *)
LEMMA AdvanceStep ==
  ASSUME DbgInv, NEW th \in DbgThreads, ~DbgIdle(th), NEW call \in OrderedCall,
         DbgSetTop(th, call), call.op = DbgTop(th).op,
         UNCHANGED <<dbg_subs, next_token_, dbg_hooked>>,
         mutex' \in DbgThreads \cup {NoThread}
  PROVE  DbgInv'
<1>1. StackInv' /\ Subscribing' = Subscribing
  BY Advanced DEF DbgInv
<1> QED
  BY <1>1, SameSubs DEF DbgInv, RoomInv

(* The call that each step makes of the innermost one. *)
Locked(call) == [call EXCEPT !.pc = "locked"]
Copied(call) == [call EXCEPT !.pc = "calling", !.todo = DbgMatched(call.code)]
InHandler(call) ==
  [call EXCEPT !.pc = "handler", !.cur = Head(call.todo), !.todo = Tail(call.todo)]
Answered(call, r) ==
  [call EXCEPT !.pc = "calling",
               !.cur = 0,
               !.read = IF SharedVaList THEN call.read + 1 ELSE call.read,
               !.result = CombineResult(call.result, r)]

LEMMA LockedCall ==
  ASSUME NEW call \in OrderedCall, call.pc = "enter"
  PROVE  /\ Locked(call) \in OrderedCall /\ Locked(call).op = call.op
         /\ Locked(call).pc = "locked" /\ Locked(call).result = call.result
BY DEF Locked, OrderedCall, DbgCall, Pcs, ToReturn

LEMMA CopiedCall ==
  ASSUME DbgInv, NEW call \in OrderedCall, call.pc = "locked", call.op = "on_event"
  PROVE  /\ Copied(call) \in OrderedCall /\ Copied(call).op = call.op
         /\ Copied(call).pc = "calling" /\ Copied(call).result = call.result
<1>1. DbgMatched(call.code) \in Seq(DbgToken) /\ Ascending(DbgMatched(call.code))
  BY MatchedInOrder DEF DbgInv
<1>2. /\ Copied(call) \in DbgCall
      /\ Copied(call).op = call.op /\ Copied(call).pc = "calling"
      /\ Copied(call).cur = 0 /\ Copied(call).todo = DbgMatched(call.code)
      /\ Copied(call).result = call.result
  BY <1>1 DEF Copied, OrderedCall, DbgCall, Pcs
<1> QED
  BY <1>1, <1>2 DEF OrderedCall, ToReturn

LEMMA InHandlerCall ==
  ASSUME NEW call \in OrderedCall, call.pc = "calling", call.op = "on_event",
         call.todo # << >>
  PROVE  /\ InHandler(call) \in OrderedCall /\ InHandler(call).op = call.op
         /\ InHandler(call).pc = "handler" /\ InHandler(call).result = call.result
<1>1. call \in DbgCall /\ call.cur = 0 /\ call.todo \in Seq(DbgToken)
  BY DEF OrderedCall, DbgCall
<1>2. Ascending(call.todo)
  BY <1>1 DEF OrderedCall, ToReturn
<1>3. /\ Head(call.todo) \in DbgToken /\ Tail(call.todo) \in Seq(DbgToken)
      /\ Head(call.todo) # 0
  <2>1. Head(call.todo) \in DbgToken /\ Tail(call.todo) \in Seq(DbgToken)
    BY <1>1, HeadTailProperties
  <2> QED
    BY <2>1 DEF DbgToken
<1>4. <<Head(call.todo)>> \o Tail(call.todo) = call.todo
  BY <1>1
<1>5. /\ InHandler(call) \in DbgCall
      /\ InHandler(call).op = call.op /\ InHandler(call).pc = "handler"
      /\ InHandler(call).cur = Head(call.todo) /\ InHandler(call).todo = Tail(call.todo)
      /\ InHandler(call).result = call.result
  BY <1>1, <1>3 DEF InHandler, DbgCall, Pcs
<1>6. ToReturn(InHandler(call)) = call.todo
  BY <1>3, <1>4, <1>5 DEF ToReturn
<1> QED
  BY <1>2, <1>5, <1>6 DEF OrderedCall

LEMMA AnsweredCall ==
  ASSUME NEW call \in OrderedCall, call.pc = "handler", call.op = "on_event",
         NEW r \in {0, 1}
  PROVE  /\ Answered(call, r) \in OrderedCall /\ Answered(call, r).op = call.op
         /\ Answered(call, r).pc = "calling"
         /\ call.result <= Answered(call, r).result
<1>1. call \in DbgCall /\ call.result \in {0, 1} /\ call.todo \in Seq(DbgToken)
  BY DEF OrderedCall, DbgCall
<1>2. CombineResult(call.result, r) \in {0, 1} /\ call.result <= CombineResult(call.result, r)
  BY <1>1 DEF CombineResult
<1>3. /\ Answered(call, r) \in DbgCall
      /\ Answered(call, r).op = call.op /\ Answered(call, r).pc = "calling"
      /\ Answered(call, r).cur = 0 /\ Answered(call, r).todo = call.todo
      /\ Answered(call, r).result = CombineResult(call.result, r)
  <2>1. ASSUME NEW n \in Nat, NEW v \in {0, 1}
        PROVE  LET c == [call EXCEPT !.pc = "calling", !.cur = 0, !.read = n, !.result = v] IN
               /\ c \in DbgCall /\ c.op = call.op /\ c.pc = "calling"
               /\ c.cur = 0 /\ c.todo = call.todo /\ c.result = v
    BY <1>1 DEF DbgCall, Pcs
  <2> DEFINE n == IF SharedVaList THEN call.read + 1 ELSE call.read
             v == CombineResult(call.result, r)
  <2>2. n \in Nat /\ v \in {0, 1}
    BY <1>1, <1>2 DEF DbgCall
  <2>3. Answered(call, r)
          = [call EXCEPT !.pc = "calling", !.cur = 0, !.read = n, !.result = v]
    BY DEF Answered
  <2> HIDE DEF n, v
  <2>4. LET c == [call EXCEPT !.pc = "calling", !.cur = 0, !.read = n, !.result = v] IN
        /\ c \in DbgCall /\ c.op = call.op /\ c.pc = "calling"
        /\ c.cur = 0 /\ c.todo = call.todo /\ c.result = v
    BY <2>1, <2>2
  <2> QED
    BY <2>3, <2>4 DEF v
<1>4. Ascending(call.todo)
  <2>1. CASE call.cur = 0
    BY <2>1 DEF OrderedCall, ToReturn
  <2>2. CASE call.cur # 0
    <3>1. Ascending(<<call.cur>> \o call.todo)
      BY <2>2 DEF OrderedCall, ToReturn
    <3>2. SUFFICES ASSUME NEW i \in DOMAIN call.todo, NEW j \in DOMAIN call.todo, i < j
                   PROVE  call.todo[i] < call.todo[j]
      BY DEF Ascending
    <3> DEFINE whole == <<call.cur>> \o call.todo
    <3>3. /\ i \in 1 .. Len(call.todo) /\ j \in 1 .. Len(call.todo)
          /\ Len(call.todo) \in Nat
      BY <1>1
    <3>4. /\ DOMAIN whole = 1 .. Len(call.todo) + 1
          /\ whole[i + 1] = call.todo[i] /\ whole[j + 1] = call.todo[j]
      BY <1>1, <3>3
    <3>5. i + 1 \in DOMAIN whole /\ j + 1 \in DOMAIN whole /\ i + 1 < j + 1
      BY <3>2, <3>3, <3>4
    <3> HIDE DEF whole
    <3>6. Ascending(whole)
      BY <3>1 DEF whole
    <3> QED
      BY <3>4, <3>5, <3>6 DEF Ascending
  <2> QED
    BY <2>1, <2>2
<1> QED
  BY <1>2, <1>3, <1>4 DEF OrderedCall, ToReturn
-----------------------------------------------------------------------------
(* The steps of a call. *)

LEMMA LockStep ==
  ASSUME DbgInv, NEW th \in DbgThreads, Lock(th)
  PROVE  DbgInv'
<1>1. /\ ~DbgIdle(th) /\ DbgTop(th).pc = "enter"
      /\ DbgSetTop(th, Locked(DbgTop(th)))
  BY DEF Lock, Locked
<1>2. DbgTop(th) \in OrderedCall
  BY <1>1, TopIsOrdered DEF DbgInv
<1>3. Locked(DbgTop(th)) \in OrderedCall /\ Locked(DbgTop(th)).op = DbgTop(th).op
  BY <1>1, <1>2, LockedCall
<1> QED
  BY <1>1, <1>3, AdvanceStep DEF Lock

LEMMA CopyStep ==
  ASSUME DbgInv, NEW th \in DbgThreads, CopyMatched(th)
  PROVE  DbgInv'
<1>1. /\ ~DbgIdle(th) /\ DbgTop(th).pc = "locked" /\ DbgTop(th).op = "on_event"
      /\ DbgSetTop(th, Copied(DbgTop(th)))
  BY DEF CopyMatched, Holding, Copied
<1>2. DbgTop(th) \in OrderedCall
  BY <1>1, TopIsOrdered DEF DbgInv
<1>3. Copied(DbgTop(th)) \in OrderedCall /\ Copied(DbgTop(th)).op = DbgTop(th).op
  BY <1>1, <1>2, CopiedCall
<1> QED
  BY <1>1, <1>3, AdvanceStep DEF CopyMatched

LEMMA CallHandlerStep ==
  ASSUME DbgInv, NEW th \in DbgThreads, CallDbgHandler(th)
  PROVE  DbgInv'
<1>1. /\ ~DbgIdle(th) /\ DbgTop(th).pc = "calling" /\ DbgTop(th).op = "on_event"
      /\ DbgTop(th).todo # << >>
      /\ DbgSetTop(th, InHandler(DbgTop(th)))
  BY DEF CallDbgHandler, Dispatching, InHandler
<1>2. DbgTop(th) \in OrderedCall
  BY <1>1, TopIsOrdered DEF DbgInv
<1>3. InHandler(DbgTop(th)) \in OrderedCall /\ InHandler(DbgTop(th)).op = DbgTop(th).op
  BY <1>1, <1>2, InHandlerCall
<1> QED
  BY <1>1, <1>3, AdvanceStep DEF CallDbgHandler, DbgInv, DbgTypeOK

LEMMA HandlerReturnsStep ==
  ASSUME DbgInv, NEW th \in DbgThreads, NEW r \in {0, 1}, DbgHandlerReturns(th, r)
  PROVE  DbgInv'
<1>1. /\ ~DbgIdle(th) /\ DbgTop(th).pc = "handler" /\ DbgTop(th).op = "on_event"
      /\ DbgSetTop(th, Answered(DbgTop(th), r))
  BY DEF DbgHandlerReturns, Dispatching, Answered
<1>2. DbgTop(th) \in OrderedCall
  BY <1>1, TopIsOrdered DEF DbgInv
<1>3. Answered(DbgTop(th), r) \in OrderedCall /\ Answered(DbgTop(th), r).op = DbgTop(th).op
  BY <1>1, <1>2, AnsweredCall
<1> QED
  BY <1>1, <1>3, AdvanceStep DEF DbgHandlerReturns, DbgInv, DbgTypeOK

(* A call that is not a subscribe leaves the room for tokens as it was. *)
LEMMA LeaveStep ==
  ASSUME DbgInv, NEW th \in DbgThreads, ~DbgIdle(th), DbgTop(th).op # "subscribe",
         DbgPop(th)
  PROVE  StackInv' /\ Subscribing' = Subscribing
<1>1. /\ StackInv'
      /\ <<th, DbgDepth(th)>> \notin Subscribing
      /\ Subscribing' = Subscribing \ {<<th, DbgDepth(th)>>}
  BY Left DEF DbgInv
<1> QED
  BY <1>1

LEMMA OnEventReturnsStep ==
  ASSUME DbgInv, NEW th \in DbgThreads, OnEventReturns(th)
  PROVE  DbgInv'
<1>1. StackInv' /\ Subscribing' = Subscribing
  BY LeaveStep DEF OnEventReturns, Dispatching
<1> QED
  BY <1>1, SameSubs DEF OnEventReturns, DbgInv, DbgTypeOK, RoomInv

(* The token that is taken is new, and greater than those before it. *)
LEMMA SubscribeStep ==
  ASSUME DbgInv, NEW th \in DbgThreads, SubscribeDbg(th)
  PROVE  /\ DbgInv'
         /\ next_token_' \in DbgToken \ (1 .. next_token_)
         /\ LiveTokens' = LiveTokens \cup {next_token_'}
         /\ 1 .. next_token_' = (1 .. next_token_) \cup {next_token_'}
         /\ dbg_hooked' = TRUE
<1>1. ~DbgIdle(th) /\ DbgTop(th).op = "subscribe" /\ DbgPop(th)
  BY DEF SubscribeDbg, Holding
<1>2. /\ StackInv'
      /\ <<th, DbgDepth(th)>> \in Subscribing
      /\ Subscribing' = Subscribing \ {<<th, DbgDepth(th)>>}
  BY <1>1, Left DEF DbgInv
<1>3. /\ Cardinality(Subscribing') = Cardinality(Subscribing) - 1
      /\ IsFiniteSet(Subscribing')
  BY <1>2, SubscribingIsFinite, FS_RemoveElement
<1>4. Cardinality(Subscribing') \in Nat
  BY <1>3, FS_CardinalityType
<1> DEFINE t == next_token_ + 1
           s == [token |-> t, code |-> DbgTop(th).code]
<1>5. /\ next_token_ \in Nat /\ next_token_' = t
      /\ dbg_subs' = Append(dbg_subs, s)
      /\ dbg_hooked' = TRUE /\ mutex' = NoThread
  BY DbgAssumption DEF SubscribeDbg, DbgInv, DbgTypeOK
<1>6. next_token_' + Cardinality(Subscribing') <= MaxDbgToken /\ t \in DbgToken
  BY <1>3, <1>4, <1>5, SubscribingIsFinite, DbgAssumption DEF DbgInv, RoomInv, DbgToken
<1>7. DbgTop(th).code \in Codes
  BY <1>1, TopIsOrdered DEF DbgInv, OrderedCall
<1>8. s \in DbgSubscription /\ s.token = t
  BY <1>6, <1>7 DEF DbgSubscription
<1> HIDE DEF s
<1>9. /\ dbg_subs' \in Seq(DbgSubscription)
      /\ Len(dbg_subs) \in Nat
      /\ DOMAIN dbg_subs = 1 .. Len(dbg_subs)
      /\ DOMAIN dbg_subs' = 1 .. Len(dbg_subs) + 1
      /\ \A i \in 1 .. Len(dbg_subs) : dbg_subs'[i] = dbg_subs[i]
      /\ dbg_subs'[Len(dbg_subs) + 1] = s
  <2>1. dbg_subs \in Seq(DbgSubscription)
    BY DEF DbgInv, DbgTypeOK
  <2> QED
    BY <1>5, <1>8, <2>1, AppendProperties, LenProperties
<1>10. SubsInv'
  <2>1. \A i \in 1 .. Len(dbg_subs) :
          dbg_subs[i].token \in Int /\ dbg_subs[i].token <= next_token_
    <3>1. \A i \in 1 .. Len(dbg_subs) : dbg_subs[i] \in DbgSubscription
      BY ElementOfSeq DEF DbgInv, DbgTypeOK
    <3> QED
      BY <1>9, <3>1 DEF DbgInv, SubsInv, DbgSubscription, DbgToken
  <2>2. ASSUME NEW i \in 1 .. Len(dbg_subs) + 1, NEW j \in 1 .. Len(dbg_subs) + 1, i < j
        PROVE  dbg_subs'[i].token < dbg_subs'[j].token
    <3>1. i \in 1 .. Len(dbg_subs)
      BY <1>9, <2>2
    <3>2. CASE j = Len(dbg_subs) + 1
      BY <1>5, <1>8, <1>9, <2>1, <3>1, <3>2
    <3>3. CASE j # Len(dbg_subs) + 1
      <4>1. j \in 1 .. Len(dbg_subs)
        BY <1>9, <3>3
      <4> QED
        BY <1>9, <2>2, <3>1, <4>1 DEF DbgInv, SubsInv
    <3> QED
      BY <3>2, <3>3
  <2>3. ASSUME NEW i \in 1 .. Len(dbg_subs) + 1 PROVE dbg_subs'[i].token <= next_token_'
    <3>1. CASE i = Len(dbg_subs) + 1
      BY <1>5, <1>8, <1>9, <3>1
    <3>2. CASE i # Len(dbg_subs) + 1
      <4>1. i \in 1 .. Len(dbg_subs)
        BY <1>9, <3>2
      <4> QED
        BY <1>5, <1>9, <2>1, <4>1
    <3> QED
      BY <3>1, <3>2
  <2>4. dbg_subs' # << >>
    BY <1>9
  <2> QED
    BY <1>5, <1>9, <2>2, <2>3, <2>4 DEF SubsInv
<1>11. DbgTypeOK'
  <2>1. dbg_stack' \in [DbgThreads -> Seq(DbgCall)]
    BY <1>2, StacksAreTyped DEF StackInv
  <2> QED
    BY <1>5, <1>6, <1>9, <2>1, DbgAssumption DEF DbgTypeOK, DbgToken
<1>12. LiveTokens' = LiveTokens \cup {t}
  <2>1. 1 .. Len(dbg_subs) + 1 = (1 .. Len(dbg_subs)) \cup {Len(dbg_subs) + 1}
    BY <1>9
  <2> QED
    BY <1>8, <1>9, <2>1 DEF LiveTokens
<1> QED
  BY <1>2, <1>5, <1>6, <1>10, <1>11, <1>12 DEF DbgInv, RoomInv

(* A token is given back: its subscription is gone, the others stay in     *)
(* their order, and without any the listener is unhooked.                  *)
Without(t) == RemoveFirstMatch(dbg_subs, LAMBDA s : s.token = t)

LEMMA FirstMatch ==
  ASSUME DbgTypeOK, NEW t
  PROVE  LET I == {i \in 1 .. Len(dbg_subs) : dbg_subs[i].token = t} IN
         /\ t \in LiveTokens => Without(t) = RemoveAt(dbg_subs, Min(I))
         /\ t \notin LiveTokens => Without(t) = dbg_subs
<1>1. DOMAIN dbg_subs = 1 .. Len(dbg_subs)
  BY LenProperties DEF DbgTypeOK
<1> QED
  BY <1>1 DEF Without, RemoveFirstMatch, SelectInSeq, LiveTokens

(* The subscriptions without the i-th, whose token is t. *)
LEMMA WithoutSub ==
  ASSUME DbgTypeOK, SubsInv, NEW i \in 1 .. Len(dbg_subs)
  PROVE  LET rest == RemoveAt(dbg_subs, i) IN
         /\ rest \in Seq(DbgSubscription)
         /\ \A j, k \in DOMAIN rest : j < k => rest[j].token < rest[k].token
         /\ \A j \in DOMAIN rest : rest[j].token <= next_token_
         /\ {rest[j].token : j \in DOMAIN rest} = LiveTokens \ {dbg_subs[i].token}
<1> DEFINE n == Len(dbg_subs)
           rest == RemoveAt(dbg_subs, i)
           From(j) == IF j < i THEN j ELSE j + 1
<1>1. dbg_subs \in Seq(DbgSubscription) /\ n \in Nat /\ DOMAIN dbg_subs = 1 .. n
  BY LenProperties DEF DbgTypeOK
<1>2. /\ rest \in Seq(DbgSubscription) /\ Len(rest) = n - 1
      /\ \A j \in 1 .. n - 1 : rest[j] = IF j < i THEN dbg_subs[j] ELSE dbg_subs[j + 1]
  BY <1>1, RemovedAt
<1>3. DOMAIN rest = 1 .. n - 1
  BY <1>2, LenProperties
<1> HIDE DEF rest
<1>4. ASSUME NEW j \in 1 .. n - 1
      PROVE  From(j) \in 1 .. n /\ From(j) # i /\ rest[j] = dbg_subs[From(j)]
  BY <1>1, <1>2
<1>5. ASSUME NEW j \in 1 .. n - 1, NEW k \in 1 .. n - 1, j < k
      PROVE  From(j) < From(k)
  BY <1>1, <1>5
<1>6. ASSUME NEW m \in (1 .. n) \ {i}
      PROVE  \E j \in 1 .. n - 1 : From(j) = m
  <2>1. CASE m < i
    <3>1. m \in 1 .. n - 1 /\ From(m) = m
      BY <1>1, <2>1
    <3> QED
      BY <3>1
  <2>2. CASE m > i
    <3>1. m - 1 \in 1 .. n - 1 /\ From(m - 1) = m
      BY <1>1, <2>2
    <3> QED
      BY <3>1
  <2> QED
    BY <1>1, <2>1, <2>2
<1> HIDE DEF From
<1>7. \A j, k \in DOMAIN rest : j < k => rest[j].token < rest[k].token
  BY <1>1, <1>3, <1>4, <1>5 DEF SubsInv
<1>8. \A j \in DOMAIN rest : rest[j].token <= next_token_
  BY <1>1, <1>3, <1>4 DEF SubsInv
<1>9. \A m \in (1 .. n) \ {i} : dbg_subs[m].token # dbg_subs[i].token
  <2>1. \A m \in 1 .. n : dbg_subs[m] \in DbgSubscription
    BY <1>1, ElementOfSeq
  <2>2. \A m \in 1 .. n : dbg_subs[m].token \in Int
    BY <2>1 DEF DbgSubscription, DbgToken
  <2>3. SUFFICES ASSUME NEW m \in (1 .. n) \ {i} PROVE dbg_subs[m].token # dbg_subs[i].token
    OBVIOUS
  <2>4. m < i \/ i < m
    BY <1>1
  <2> QED
    BY <1>1, <2>2, <2>4 DEF SubsInv
<1>10. {rest[j].token : j \in DOMAIN rest} = LiveTokens \ {dbg_subs[i].token}
  <2>1. {rest[j].token : j \in DOMAIN rest} \subseteq LiveTokens \ {dbg_subs[i].token}
    BY <1>1, <1>3, <1>4, <1>9 DEF LiveTokens
  <2>2. ASSUME NEW x \in LiveTokens \ {dbg_subs[i].token}
        PROVE  x \in {rest[j].token : j \in DOMAIN rest}
    <3>1. PICK m \in 1 .. n : x = dbg_subs[m].token
      BY <1>1 DEF LiveTokens
    <3>2. m \in (1 .. n) \ {i}
      BY <3>1
    <3>3. PICK j \in 1 .. n - 1 : From(j) = m
      BY <1>6, <3>2
    <3>4. j \in DOMAIN rest /\ rest[j].token = x
      BY <1>3, <1>4, <3>1, <3>3
    <3> QED
      BY <3>4
  <2> QED
    BY <2>1, <2>2
<1> QED
  BY <1>2, <1>7, <1>8, <1>10 DEF rest

LEMMA UnsubscribeStep ==
  ASSUME DbgInv, NEW th \in DbgThreads, UnsubscribeDbg(th)
  PROVE  /\ DbgInv'
         /\ LiveTokens' = LiveTokens \ {DbgTop(th).token}
         /\ DbgTop(th).token \notin LiveTokens => UNCHANGED <<dbg_subs, dbg_hooked>>
         /\ DbgTop(th).token \in LiveTokens => dbg_hooked' = (LiveTokens' # {})
         /\ UNCHANGED next_token_
<1> DEFINE t == DbgTop(th).token
<1>1. ~DbgIdle(th) /\ DbgTop(th).op # "subscribe" /\ DbgPop(th)
  BY DEF UnsubscribeDbg, Holding
<1>2. StackInv' /\ Subscribing' = Subscribing
  BY <1>1, LeaveStep
<1>3. dbg_stack' \in [DbgThreads -> Seq(DbgCall)]
  BY <1>2, StacksAreTyped DEF StackInv
<1>4. /\ dbg_subs' = Without(t)
      /\ dbg_hooked' = IF t \in LiveTokens THEN dbg_subs' # << >> ELSE dbg_hooked
      /\ mutex' = NoThread /\ next_token_' = next_token_
  BY DEF UnsubscribeDbg, Without
<1>5. DbgTypeOK /\ SubsInv
  BY DEF DbgInv
<1> HIDE DEF t
<1>6. CASE t \in LiveTokens
  <2> DEFINE I == {i \in 1 .. Len(dbg_subs) : dbg_subs[i].token = t}
             m == Min(I)
  <2>1. I # {} /\ I \subseteq Nat
    <3>1. DOMAIN dbg_subs = 1 .. Len(dbg_subs)
      BY <1>5, LenProperties DEF DbgTypeOK
    <3> QED
      BY <1>6, <3>1 DEF LiveTokens
  <2>2. m \in I
    BY <2>1, MinInSet
  <2>3. dbg_subs' = RemoveAt(dbg_subs, m)
    BY <1>4, <1>5, <1>6, FirstMatch
  <2>4. m \in 1 .. Len(dbg_subs) /\ dbg_subs[m].token = t
    BY <2>2
  <2> HIDE DEF I, m
  <2>5. /\ dbg_subs' \in Seq(DbgSubscription)
        /\ \A j, k \in DOMAIN dbg_subs' : j < k => dbg_subs'[j].token < dbg_subs'[k].token
        /\ \A j \in DOMAIN dbg_subs' : dbg_subs'[j].token <= next_token_
        /\ {dbg_subs'[j].token : j \in DOMAIN dbg_subs'} = LiveTokens \ {t}
    BY <1>5, <2>3, <2>4, WithoutSub
  <2>6. LiveTokens' = LiveTokens \ {t}
    BY <2>5 DEF LiveTokens
  <2>7. dbg_hooked' = (dbg_subs' # << >>) /\ dbg_hooked' \in BOOLEAN
    BY <1>4, <1>6
  <2>8. (dbg_subs' # << >>) <=> (LiveTokens' # {})
    <3>1. dbg_subs' = << >> <=> Len(dbg_subs') = 0
      BY <2>5, EmptySeq
    <3>2. DOMAIN dbg_subs' = 1 .. Len(dbg_subs') /\ Len(dbg_subs') \in Nat
      BY <2>5, LenProperties
    <3>3. Len(dbg_subs') = 0 <=> DOMAIN dbg_subs' = {}
      BY <3>2
    <3> QED
      BY <3>1, <3>3 DEF LiveTokens
  <2>9. DbgTypeOK' /\ SubsInv'
    BY <1>3, <1>4, <1>5, <2>5, <2>7 DEF DbgTypeOK, SubsInv
  <2> QED
    BY <1>2, <1>4, <1>6, <2>6, <2>7, <2>8, <2>9 DEF t, DbgInv, RoomInv
<1>7. CASE t \notin LiveTokens
  <2>1. UNCHANGED <<dbg_subs, dbg_hooked>>
    <3>1. dbg_subs' = dbg_subs
      BY <1>4, <1>5, <1>7, FirstMatch
    <3> QED
      BY <1>4, <1>7, <3>1
  <2>2. LiveTokens' = LiveTokens \ {t}
    BY <1>7, <2>1 DEF LiveTokens
  <2>3. DbgTypeOK' /\ SubsInv'
    BY <1>3, <1>4, <1>5, <2>1 DEF DbgTypeOK, SubsInv
  <2> QED
    BY <1>2, <1>4, <1>7, <2>1, <2>2, <2>3 DEF t, DbgInv, RoomInv
<1> QED
  BY <1>6, <1>7

-----------------------------------------------------------------------------
LEMMA DbgInvStep == DbgInv /\ [DbgNext]_dbgvars => DbgInv'
<1> SUFFICES ASSUME DbgInv, [DbgNext]_dbgvars PROVE DbgInv'
  OBVIOUS
<1>1. ASSUME NEW th \in DbgThreads, Step(th) PROVE DbgInv'
  BY <1>1, LockStep, SubscribeStep, UnsubscribeStep, CopyStep, CallHandlerStep,
     OnEventReturnsStep DEF Step
<1>2. ASSUME NEW th \in DbgThreads, NEW code \in Codes, CallSubscribe(th, code)
      PROVE  DbgInv'
  <2>1. NewDbgCall("subscribe", code, 0) \in DbgCall
    BY DEF NewDbgCall, DbgCall, Pcs
  <2> QED
    BY <1>2, <2>1, CallStep DEF CallSubscribe
<1>3. ASSUME NEW th \in DbgThreads, NEW code \in Codes, DbgNotify(th, code)
      PROVE  DbgInv'
  <2>1. NewDbgCall("on_event", code, 0) \in DbgCall
    BY DEF NewDbgCall, DbgCall, Pcs
  <2> QED
    BY <1>3, <2>1, CallStep DEF DbgNotify
<1>4. ASSUME NEW th \in DbgThreads, NEW token \in DbgToken \cup {0},
             CallUnsubscribe(th, token)
      PROVE  DbgInv'
  <2>1. NewDbgCall("unsubscribe", "none", token) \in DbgCall
    BY DEF NewDbgCall, DbgCall, Pcs
  <2> QED
    BY <1>4, <2>1, CallStep DEF CallUnsubscribe
<1>5. ASSUME NEW th \in DbgThreads, ClientCalls(th) PROVE DbgInv'
  BY <1>2, <1>3, <1>4, <1>5, HandlerReturnsStep DEF ClientCalls
<1>6. CASE UNCHANGED dbgvars
  <2>1. StackInv' /\ Subscribing' = Subscribing
    BY <1>6 DEF dbgvars, DbgInv, StackInv, BoundInv, DbgDepth, Subscribing
  <2> QED
    BY <1>6, <2>1, SameSubs DEF dbgvars, DbgInv, DbgTypeOK, RoomInv
<1> QED
  BY <1>1, <1>5, <1>6 DEF DbgNext

LEMMA DbgInitiallyInv == DbgInit => DbgInv
<1> SUFFICES ASSUME DbgInit PROVE DbgInv
  OBVIOUS
<1>1. DbgTypeOK
  <2>1. dbg_subs \in Seq(DbgSubscription) /\ dbg_stack \in [DbgThreads -> Seq(DbgCall)]
    BY DEF DbgInit
  <2>2. dbg_hooked \in BOOLEAN
    BY DEF DbgInit
  <2>3. next_token_ \in 0 .. MaxDbgToken /\ mutex \in DbgThreads \cup {NoThread}
    BY DbgAssumption DEF DbgInit
  <2> QED
    BY <2>1, <2>2, <2>3 DEF DbgTypeOK
<1>2. StackInv
  BY DbgAssumption DEF DbgInit, StackInv, BoundInv, DbgDepth
<1>3. SubsInv
  <2>1. dbg_hooked = (dbg_subs # << >>)
    BY DEF DbgInit
  <2>2. DOMAIN dbg_subs = {}
    BY DEF DbgInit
  <2> QED
    BY <2>1, <2>2 DEF SubsInv
<1>4. Subscribing = {}
  BY DbgAssumption DEF DbgInit, Subscribing, DbgDepth
<1>5. RoomInv
  BY <1>4, FS_EmptySet, DbgAssumption DEF DbgInit, RoomInv
<1> QED
  BY <1>1, <1>2, <1>3, <1>5 DEF DbgInv

(* Handlers run in the order in which they were subscribed, whatever the   *)
(* threads do: subs_ ascends in the tokens, and so does what is left to    *)
(* call of every event.                                                    *)
THEOREM HandlersRunInOrder == DbgSpec => []HandlersInOrder
<1>1. DbgInv => HandlersInOrder
  <2> SUFFICES ASSUME DbgInv PROVE HandlersInOrder
    OBVIOUS
  <2>1. ASSUME NEW i \in DOMAIN dbg_subs, NEW j \in DOMAIN dbg_subs, i < j
        PROVE  [k \in DOMAIN dbg_subs |-> dbg_subs[k].token][i]
                 < [k \in DOMAIN dbg_subs |-> dbg_subs[k].token][j]
    BY <2>1 DEF DbgInv, SubsInv
  <2>2. ASSUME NEW th \in DbgThreads, NEW i \in DOMAIN dbg_stack[th]
        PROVE  Ascending(ToReturn(dbg_stack[th][i]))
    <3>1. dbg_stack[th] \in Seq(OrderedCall)
      BY DEF DbgInv, StackInv
    <3>2. dbg_stack[th][i] \in OrderedCall
      BY <3>1, LenProperties, ElementOfSeq
    <3> QED
      BY <3>2 DEF OrderedCall
  <2> QED
    BY <2>1, <2>2 DEF HandlersInOrder, DbgInv, Ascending, ToReturn
<1> QED
  BY <1>1, DbgInitiallyInv, DbgInvStep, PTL DEF DbgSpec

(* subs_, next_token_ and hooked_ keep the promises that every event       *)
(* domain makes about its subscriptions.                                   *)
THEOREM DbgRefinesRegistry == DbgSpec => DbgImplementsRegistry
<1>1. DbgInit => DbgRegistry!Init
  BY DEF DbgInit, DbgRegistry!Init, LiveTokens
<1>2. DbgInv /\ [DbgNext]_dbgvars => [DbgRegistry!Next]_DbgRegistry!vars
  <2> SUFFICES ASSUME DbgInv, [DbgNext]_dbgvars
               PROVE  [DbgRegistry!Next]_DbgRegistry!vars
    OBVIOUS
  <2>1. ASSUME UNCHANGED <<dbg_subs, next_token_, dbg_hooked>>
        PROVE  UNCHANGED DbgRegistry!vars
    BY <2>1 DEF DbgRegistry!vars, LiveTokens
  <2>2. ASSUME NEW th \in DbgThreads, SubscribeDbg(th) PROVE DbgRegistry!Subscribe
    BY <2>2, SubscribeStep DEF DbgRegistry!Subscribe
  <2>3. ASSUME NEW th \in DbgThreads, UnsubscribeDbg(th)
        PROVE  DbgRegistry!Unsubscribe \/ UNCHANGED DbgRegistry!vars
    <3>1. CASE DbgTop(th).token \in LiveTokens
      BY <2>3, <3>1, UnsubscribeStep DEF DbgRegistry!Unsubscribe
    <3>2. CASE DbgTop(th).token \notin LiveTokens
      BY <2>1, <2>3, <3>2, UnsubscribeStep
    <3> QED
      BY <3>1, <3>2
  <2>4. ASSUME NEW th \in DbgThreads, Step(th)
        PROVE  DbgRegistry!Next \/ UNCHANGED DbgRegistry!vars
    BY <2>1, <2>2, <2>3, <2>4
       DEF Step, Lock, CopyMatched, CallDbgHandler, OnEventReturns, DbgRegistry!Next
  <2>5. ASSUME NEW th \in DbgThreads, ClientCalls(th) PROVE UNCHANGED DbgRegistry!vars
    BY <2>1, <2>5
       DEF ClientCalls, CallSubscribe, DbgNotify, CallUnsubscribe, Enter, DbgHandlerReturns
  <2>6. CASE UNCHANGED dbgvars
    BY <2>1, <2>6 DEF dbgvars
  <2> QED
    BY <2>4, <2>5, <2>6 DEF DbgNext
<1> QED
  BY <1>1, <1>2, DbgInitiallyInv, DbgInvStep, PTL
     DEF DbgSpec, DbgImplementsRegistry, DbgRegistry!Spec

-----------------------------------------------------------------------------
(* What a step does to the calls that are there before and after it. *)

Sticks ==
  \A th \in DbgThreads :
    \A i \in DOMAIN dbg_stack[th] \cap DOMAIN dbg_stack'[th] :
      /\ dbg_stack[th][i].op = "on_event"
      /\ dbg_stack'[th][i].op = "on_event"
      => dbg_stack[th][i].result <= dbg_stack'[th][i].result

LEMMA OneThreadMoves ==
  ASSUME DbgInv, NEW th \in DbgThreads,
         \A u \in DbgThreads \ {th} : dbg_stack'[u] = dbg_stack[u],
         \A i \in DOMAIN dbg_stack[th] \cap DOMAIN dbg_stack'[th] :
           \/ dbg_stack'[th][i] = dbg_stack[th][i]
           \/ dbg_stack[th][i].result <= dbg_stack'[th][i].result
  PROVE  Sticks
<1>1. ASSUME NEW u \in DbgThreads, NEW i \in DOMAIN dbg_stack[u]
      PROVE  dbg_stack[u][i].result \in {0, 1}
  <2>1. dbg_stack[u] \in Seq(OrderedCall)
    BY DEF DbgInv, StackInv
  <2>2. dbg_stack[u][i] \in OrderedCall
    BY <2>1, LenProperties, ElementOfSeq
  <2> QED
    BY <2>2 DEF OrderedCall, DbgCall
<1>2. \A n \in {0, 1} : n <= n
  OBVIOUS
<1> QED
  BY <1>1, <1>2 DEF Sticks

LEMMA EnterSticks ==
  ASSUME DbgInv, NEW th \in DbgThreads, NEW call \in OrderedCall, Enter(th, call)
  PROVE  Sticks
<1>1. /\ \A u \in DbgThreads \ {th} : dbg_stack'[u] = dbg_stack[u]
      /\ \A i \in DOMAIN dbg_stack[th] : dbg_stack'[th][i] = dbg_stack[th][i]
  BY Entered DEF Enter, DbgInv
<1> QED
  BY <1>1, OneThreadMoves

LEMMA PopSticks ==
  ASSUME DbgInv, NEW th \in DbgThreads, ~DbgIdle(th), DbgPop(th)
  PROVE  Sticks
<1>1. /\ \A u \in DbgThreads \ {th} : dbg_stack'[u] = dbg_stack[u]
      /\ \A i \in DOMAIN dbg_stack'[th] : dbg_stack'[th][i] = dbg_stack[th][i]
  BY Left DEF DbgInv
<1> QED
  BY <1>1, OneThreadMoves

LEMMA TopSticks ==
  ASSUME DbgInv, NEW th \in DbgThreads, ~DbgIdle(th), NEW call \in OrderedCall,
         DbgSetTop(th, call), call.op = DbgTop(th).op,
         DbgTop(th).result <= call.result
  PROVE  Sticks
<1>1. /\ \A u \in DbgThreads \ {th} : dbg_stack'[u] = dbg_stack[u]
      /\ DOMAIN dbg_stack[th] = 1 .. DbgDepth(th)
      /\ \A i \in 1 .. DbgDepth(th) - 1 : dbg_stack'[th][i] = dbg_stack[th][i]
      /\ DbgDepth(th) \in Nat \ {0} /\ DbgDepth(th)' = DbgDepth(th) /\ DbgTop(th)' = call
  BY Advanced DEF DbgInv
<1>2. ASSUME NEW i \in DOMAIN dbg_stack[th]
      PROVE  \/ dbg_stack'[th][i] = dbg_stack[th][i]
             \/ dbg_stack[th][i].result <= dbg_stack'[th][i].result
  <2>1. CASE i = DbgDepth(th)
    BY <1>1, <2>1 DEF DbgTop
  <2>2. CASE i # DbgDepth(th)
    <3>1. i \in 1 .. DbgDepth(th) - 1
      BY <1>1, <2>2
    <3> QED
      BY <1>1, <3>1
  <2> QED
    BY <2>1, <2>2
<1> QED
  BY <1>1, <1>2, OneThreadMoves

(* A call as it is entered is ordered. *)
LEMMA NewCallOrdered ==
  /\ \A code \in Codes : NewDbgCall("subscribe", code, 0) \in OrderedCall
  /\ \A code \in Codes : NewDbgCall("on_event", code, 0) \in OrderedCall
  /\ \A token \in DbgToken \cup {0} :
       NewDbgCall("unsubscribe", "none", token) \in OrderedCall
BY DEF NewDbgCall, OrderedCall, DbgCall, Pcs, Ascending, ToReturn

(* An event that some handler asked to suppress stays suppressed. *)
THEOREM SuppressionLasts == DbgSpec => SuppressionSticks
<1>1. DbgInv /\ [DbgNext]_dbgvars => [Sticks]_dbgvars
  <2> SUFFICES ASSUME DbgInv, DbgNext PROVE Sticks
    OBVIOUS
  <2>1. ASSUME NEW th \in DbgThreads, NEW next, NEW call,
               ~DbgIdle(th), call = DbgTop(th), DbgSetTop(th, next),
               call \in OrderedCall
                 => next \in OrderedCall /\ next.op = call.op /\ call.result <= next.result
        PROVE  Sticks
    <3>1. DbgTop(th) \in OrderedCall
      BY <2>1, TopIsOrdered DEF DbgInv
    <3> QED
      BY <2>1, <3>1, TopSticks
  <2>2. \A call \in OrderedCall : call.result <= call.result
    BY DEF OrderedCall, DbgCall
  <2>3. ASSUME NEW th \in DbgThreads, Lock(th) PROVE Sticks
    BY <2>1, <2>2, <2>3, LockedCall DEF Lock, Locked
  <2>4. ASSUME NEW th \in DbgThreads, CopyMatched(th) PROVE Sticks
    BY <2>1, <2>2, <2>4, CopiedCall DEF CopyMatched, Holding, Copied
  <2>5. ASSUME NEW th \in DbgThreads, CallDbgHandler(th) PROVE Sticks
    BY <2>1, <2>2, <2>5, InHandlerCall DEF CallDbgHandler, Dispatching, InHandler
  <2>6. ASSUME NEW th \in DbgThreads, NEW r \in {0, 1}, DbgHandlerReturns(th, r)
        PROVE  Sticks
    BY <2>1, <2>6, AnsweredCall DEF DbgHandlerReturns, Dispatching, Answered
  <2>7. ASSUME NEW th \in DbgThreads, Step(th) PROVE Sticks
    BY <2>3, <2>4, <2>5, <2>7, PopSticks
       DEF Step, SubscribeDbg, UnsubscribeDbg, OnEventReturns, Holding, Dispatching
  <2>8. ASSUME NEW th \in DbgThreads, ClientCalls(th) PROVE Sticks
    BY <2>6, <2>8, NewCallOrdered, EnterSticks
       DEF ClientCalls, CallSubscribe, DbgNotify, CallUnsubscribe
  <2> QED
    BY <2>7, <2>8 DEF DbgNext
<1>2. SuppressionSticks <=> [][Sticks]_dbgvars
  BY DEF SuppressionSticks, Sticks
<1> QED
  BY <1>1, <1>2, DbgInitiallyInv, DbgInvStep, PTL DEF DbgSpec

-----------------------------------------------------------------------------
(* The mutex is held by the thread whose innermost call is in its locked   *)
(* part, and by no other: the calls around it wait in a handler, so that   *)
(* no handler runs, and none enters the listener again, under the mutex.   *)
LockInv ==
  /\ \A th \in DbgThreads :
       mutex = th <=> ~DbgIdle(th) /\ DbgTop(th).pc = "locked"
  /\ \A th \in DbgThreads :
       \A i \in 1 .. DbgDepth(th) - 1 : dbg_stack[th][i].pc = "handler"

(* The same for one thread. *)
LockOf(th) ==
  /\ mutex = th <=> ~DbgIdle(th) /\ DbgTop(th).pc = "locked"
  /\ \A i \in 1 .. DbgDepth(th) - 1 : dbg_stack[th][i].pc = "handler"

LEMMA OneThreadLocks ==
  ASSUME LockInv, NEW th \in DbgThreads, LockOf(th)',
         \A u \in DbgThreads \ {th} :
           dbg_stack'[u] = dbg_stack[u] /\ (mutex' = u <=> mutex = u)
  PROVE  LockInv'
BY DEF LockInv, LockOf, DbgIdle, DbgTop, DbgDepth

LEMMA EnterLocks ==
  ASSUME DbgInv, LockInv, NEW th \in DbgThreads, NEW call \in OrderedCall,
         Enter(th, call), call.pc = "enter"
  PROVE  LockInv'
<1>1. /\ \A u \in DbgThreads \ {th} : dbg_stack'[u] = dbg_stack[u]
      /\ \A i \in DOMAIN dbg_stack[th] : dbg_stack'[th][i] = dbg_stack[th][i]
      /\ DbgDepth(th)' = DbgDepth(th) + 1 /\ DbgTop(th)' = call
  BY Entered DEF Enter, DbgInv
<1>2. DOMAIN dbg_stack[th] = 1 .. DbgDepth(th) /\ DbgDepth(th) \in Nat
  <2>1. dbg_stack[th] \in Seq(OrderedCall)
    BY DEF DbgInv, StackInv
  <2> QED
    BY <2>1, LenProperties DEF DbgDepth
<1>3. mutex # th
  BY DEF Enter, RunsDbgClient, LockInv
<1>4. ASSUME NEW i \in 1 .. DbgDepth(th) PROVE dbg_stack[th][i].pc = "handler"
  <2>1. CASE i = DbgDepth(th)
    <3>1. ~DbgIdle(th)
      BY <1>2, <1>4 DEF DbgIdle, DbgDepth
    <3> QED
      BY <2>1, <3>1 DEF Enter, RunsDbgClient, DbgTop
  <2>2. CASE i # DbgDepth(th)
    <3>1. i \in 1 .. DbgDepth(th) - 1
      BY <1>2, <2>2
    <3> QED
      BY <3>1 DEF LockInv
  <2> QED
    BY <2>1, <2>2
<1>5. LockOf(th)'
  <2>1. \A i \in 1 .. DbgDepth(th)' - 1 : dbg_stack'[th][i].pc = "handler"
    BY <1>1, <1>2, <1>4
  <2>2. mutex' = mutex /\ DbgTop(th)'.pc # "locked"
    BY <1>1 DEF Enter
  <2> QED
    BY <1>3, <2>1, <2>2 DEF LockOf
<1> QED
  BY <1>1, <1>5, OneThreadLocks DEF Enter

LEMMA PopLocks ==
  ASSUME DbgInv, LockInv, NEW th \in DbgThreads, ~DbgIdle(th), DbgPop(th),
         mutex' # th,
         \A u \in DbgThreads \ {th} : mutex' = u <=> mutex = u
  PROVE  LockInv'
<1>1. /\ \A u \in DbgThreads \ {th} : dbg_stack'[u] = dbg_stack[u]
      /\ DOMAIN dbg_stack'[th] = 1 .. DbgDepth(th) - 1
      /\ \A i \in DOMAIN dbg_stack'[th] : dbg_stack'[th][i] = dbg_stack[th][i]
      /\ DbgDepth(th) \in Nat \ {0} /\ DbgDepth(th)' = DbgDepth(th) - 1
  BY Left DEF DbgInv
<1>2. \A i \in 1 .. DbgDepth(th) - 1 : dbg_stack'[th][i].pc = "handler"
  BY <1>1 DEF LockInv
<1>3. LockOf(th)'
  <2>1. \A i \in 1 .. DbgDepth(th)' - 1 : dbg_stack'[th][i].pc = "handler"
    BY <1>1, <1>2
  <2>2. ASSUME ~DbgIdle(th)' PROVE DbgTop(th)'.pc # "locked"
    <3>1. DbgDepth(th)' # 0
      <4>1. dbg_stack'[th] \in Seq(OrderedCall)
        BY Left DEF DbgInv, StackInv
      <4> QED
        BY <2>2, <4>1, EmptySeq DEF DbgIdle, DbgDepth
    <3>2. DbgDepth(th)' \in 1 .. DbgDepth(th) - 1
      BY <1>1, <3>1
    <3> QED
      BY <1>2, <3>2 DEF DbgTop
  <2> QED
    BY <2>1, <2>2 DEF LockOf
<1> QED
  BY <1>1, <1>3, OneThreadLocks

LEMMA TopLocks ==
  ASSUME DbgInv, LockInv, NEW th \in DbgThreads, ~DbgIdle(th), NEW call,
         DbgTop(th) \in OrderedCall => call \in OrderedCall /\ call.op = DbgTop(th).op,
         DbgSetTop(th, call), mutex' = th <=> call.pc = "locked",
         \A u \in DbgThreads \ {th} : mutex' = u <=> mutex = u
  PROVE  LockInv'
<1>0. call \in OrderedCall /\ call.op = DbgTop(th).op
  BY TopIsOrdered DEF DbgInv
<1>1. /\ \A u \in DbgThreads \ {th} : dbg_stack'[u] = dbg_stack[u]
      /\ \A i \in 1 .. DbgDepth(th) - 1 : dbg_stack'[th][i] = dbg_stack[th][i]
      /\ DbgDepth(th) \in Nat \ {0} /\ DbgDepth(th)' = DbgDepth(th) /\ DbgTop(th)' = call
  BY <1>0, Advanced DEF DbgInv
<1>2. ~DbgIdle(th)'
  BY <1>1 DEF DbgIdle, DbgDepth
<1>3. \A i \in 1 .. DbgDepth(th)' - 1 : dbg_stack'[th][i].pc = "handler"
  BY <1>1 DEF LockInv
<1>4. LockOf(th)'
  BY <1>1, <1>2, <1>3 DEF LockOf
<1> QED
  BY <1>1, <1>4, OneThreadLocks

(* No two threads are in the locked part of the listener, and no thread    *)
(* that runs a handler has the mutex, wherever the calls are nested.       *)
THEOREM LockHeldInside == DbgSpec => []LockInv
<1>1. DbgInit => LockInv
  <2> SUFFICES ASSUME DbgInit PROVE LockInv
    OBVIOUS
  <2>1. ASSUME NEW th \in DbgThreads PROVE DbgIdle(th) /\ DbgDepth(th) = 0 /\ mutex # th
    BY DbgAssumption DEF DbgInit, DbgIdle, DbgDepth
  <2> QED
    BY <2>1 DEF LockInv
<1>2. DbgInv /\ LockInv /\ [DbgNext]_dbgvars => LockInv'
  <2> SUFFICES ASSUME DbgInv, LockInv, [DbgNext]_dbgvars PROVE LockInv'
    OBVIOUS
  <2>1. ASSUME NEW th \in DbgThreads, Lock(th) PROVE LockInv'
    <3>1. /\ ~DbgIdle(th) /\ DbgTop(th).pc = "enter" /\ DbgSetTop(th, Locked(DbgTop(th)))
          /\ mutex = NoThread /\ mutex' = th
      BY <2>1 DEF Lock, Locked
    <3>2. Locked(DbgTop(th)).pc = "locked"
      BY <3>1, TopIsOrdered, LockedCall DEF DbgInv
    <3> QED
      BY <3>1, <3>2, TopLocks, LockedCall, DbgAssumption
  <2>2. ASSUME NEW th \in DbgThreads, NEW op, Holding(th, op), mutex' = NoThread
        PROVE  mutex' # th /\ \A u \in DbgThreads \ {th} : mutex' = u <=> mutex = u
    BY <2>2, DbgAssumption DEF Holding, LockInv
  <2>3. ASSUME NEW th \in DbgThreads, CopyMatched(th) PROVE LockInv'
    <3>1. /\ ~DbgIdle(th) /\ DbgTop(th).pc = "locked" /\ DbgTop(th).op = "on_event"
          /\ DbgSetTop(th, Copied(DbgTop(th)))
      BY <2>3 DEF CopyMatched, Holding, Copied
    <3>2. Copied(DbgTop(th)).pc # "locked"
      BY <3>1, TopIsOrdered, CopiedCall DEF DbgInv
    <3>3. mutex' # th /\ \A u \in DbgThreads \ {th} : mutex' = u <=> mutex = u
      BY <2>2, <2>3 DEF CopyMatched
    <3> QED
      BY <3>1, <3>2, <3>3, TopLocks, CopiedCall
  <2>4. ASSUME NEW th \in DbgThreads, CallDbgHandler(th) PROVE LockInv'
    <3>1. /\ ~DbgIdle(th) /\ DbgTop(th).pc = "calling" /\ DbgTop(th).op = "on_event"
          /\ DbgTop(th).todo # << >> /\ DbgSetTop(th, InHandler(DbgTop(th)))
          /\ mutex' = mutex
      BY <2>4 DEF CallDbgHandler, Dispatching, InHandler
    <3>2. InHandler(DbgTop(th)).pc # "locked"
      BY <3>1, TopIsOrdered, InHandlerCall DEF DbgInv
    <3>3. mutex # th
      BY <3>1 DEF LockInv
    <3> QED
      BY <3>1, <3>2, <3>3, TopLocks, InHandlerCall
  <2>5. ASSUME NEW th \in DbgThreads, NEW r \in {0, 1}, DbgHandlerReturns(th, r)
        PROVE  LockInv'
    <3>1. /\ ~DbgIdle(th) /\ DbgTop(th).pc = "handler" /\ DbgTop(th).op = "on_event"
          /\ DbgSetTop(th, Answered(DbgTop(th), r))
          /\ mutex' = mutex
      BY <2>5 DEF DbgHandlerReturns, Dispatching, Answered
    <3>2. Answered(DbgTop(th), r).pc # "locked"
      BY <3>1, TopIsOrdered, AnsweredCall DEF DbgInv
    <3>3. mutex # th
      BY <3>1 DEF LockInv
    <3> QED
      BY <3>1, <3>2, <3>3, TopLocks, AnsweredCall
  <2>6. ASSUME NEW th \in DbgThreads, SubscribeDbg(th) PROVE LockInv'
    BY <2>2, <2>6, PopLocks DEF SubscribeDbg, Holding
  <2>7. ASSUME NEW th \in DbgThreads, UnsubscribeDbg(th) PROVE LockInv'
    BY <2>2, <2>7, PopLocks DEF UnsubscribeDbg, Holding
  <2>8. ASSUME NEW th \in DbgThreads, OnEventReturns(th) PROVE LockInv'
    <3>1. mutex' = mutex /\ mutex # th
      BY <2>8 DEF OnEventReturns, Dispatching, LockInv
    <3> QED
      BY <2>8, <3>1, PopLocks DEF OnEventReturns, Dispatching
  <2>9. ASSUME NEW th \in DbgThreads, ClientCalls(th) PROVE LockInv'
    <3>1. ASSUME NEW op, NEW code, NEW token PROVE NewDbgCall(op, code, token).pc = "enter"
      BY DEF NewDbgCall
    <3> QED
      BY <2>5, <2>9, <3>1, NewCallOrdered, EnterLocks
         DEF ClientCalls, CallSubscribe, DbgNotify, CallUnsubscribe
  <2>10. CASE UNCHANGED dbgvars
    BY <2>10 DEF dbgvars, LockInv, DbgIdle, DbgTop, DbgDepth
  <2> QED
    BY <2>1, <2>3, <2>4, <2>5, <2>6, <2>7, <2>8, <2>9, <2>10 DEF DbgNext, Step
<1> QED
  BY <1>1, <1>2, DbgInitiallyInv, DbgInvStep, PTL DEF DbgSpec

=============================================================================
