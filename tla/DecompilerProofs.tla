-------------------------- MODULE DecompilerProofs --------------------------
(***************************************************************************)
(* Proofs about the decompiler's side, for every value of the constants:   *)
(* microcode filters, the block they emit into, what the Node binding      *)
(* hands to JavaScript, helper calls, decompiled functions and the         *)
(* settings of their variables.                                            *)
(***************************************************************************)
EXTENDS MicrocodeFilters, MicrocodeBlock, NodeHandles, HelperCalls,
        DecompiledFunctions, LvarSettings, StackLemmas

(* A registration under way: a call on some stack that is not a run. *)
Registers(th, i) == stack[th][i].op # "run"

(* Bridges and tokens are counted up: nothing names one before its time,   *)
(* and a token is returned to a client before it can be unregistered.      *)
NumbersInv ==
  /\ kernel \cup destroyed \subseteq 1 .. bridges
  /\ given \subseteq 1 .. next_token - 1
  /\ DOMAIN filters \subseteq given

(* Between installing and entering, a bridge is in nobody else's hands and *)
(* its token, once taken, was never returned.                              *)
RegistrationsInv ==
  /\ \A th \in Threads : \A i \in DOMAIN stack[th] :
       Registers(th, i) =>
         /\ \A t \in DOMAIN filters : filters[t] # stack[th][i].bridge
         /\ stack[th][i].op = "numbered" =>
              stack[th][i].token \in (1 .. next_token - 1) \ given
  /\ \A th, u \in Threads : \A i \in DOMAIN stack[th], j \in DOMAIN stack[u] :
       /\ Registers(th, i)
       /\ Registers(u, j)
       /\ \/ stack[th][i].bridge = stack[u][j].bridge
          \/ /\ stack[th][i].op = "numbered"
             /\ stack[u][j].op = "numbered"
             /\ stack[th][i].token = stack[u][j].token
       => th = u /\ i = j

(* Every bridge was allocated by a registration that took a token, or that *)
(* is still waiting to take one: this bounds next_token.                   *)
Waiting ==
  {b \in Bridge : \E th \in Threads : \E i \in DOMAIN stack[th] :
     stack[th][i].op = "installed" /\ stack[th][i].bridge = b}

CountInv == Cardinality(Waiting) + next_token = bridges + 1

IInv == TypeOK /\ NumbersInv /\ RegistrationsInv /\ InstalledIsOwned /\ CountInv

-----------------------------------------------------------------------------
(* The three ways a step changes the stack of a thread. *)

(* The innermost call of a thread that is in one. *)
LEMMA TopIsThere ==
  ASSUME TypeOK, NEW th \in Threads, ~Idle(th)
  PROVE  /\ Depth(th) \in DOMAIN stack[th]
         /\ Top(th) = stack[th][Depth(th)]
         /\ Top(th) \in Call
<1>1. stack[th] \in Seq(Call) /\ stack[th] # << >>
  BY DEF TypeOK, Idle
<1> QED
  BY <1>1 DEF Depth, Top

(* Whatever is on a stack is a call. *)
LEMMA EntryType ==
  ASSUME TypeOK, NEW th \in Threads, NEW i \in DOMAIN stack[th]
  PROVE  stack[th][i] \in Call /\ stack[th][i].bridge \in Bridge
<1>1. stack[th] \in Seq(Call)
  BY DEF TypeOK
<1>2. stack[th][i] \in Call
  BY <1>1
<1> QED
  BY <1>2 DEF Call

(* A call is entered: nothing below it moves. *)
LEMMA CallPushed ==
  ASSUME TypeOK, NEW th \in Threads, NEW pushed \in Call, Push(th, pushed)
  PROVE  /\ stack' \in [Threads -> Seq(Call)]
         /\ \A u \in Threads \ {th} : stack'[u] = stack[u]
         /\ DOMAIN stack'[th] = DOMAIN stack[th] \cup {Depth(th) + 1}
         /\ Depth(th) + 1 \notin DOMAIN stack[th]
         /\ \A i \in DOMAIN stack[th] : stack'[th][i] = stack[th][i]
         /\ stack'[th][Depth(th) + 1] = pushed
<1>1. stack \in [Threads -> Seq(Call)]
  BY DEF TypeOK
<1>2. stack' = Pushed(stack, th, pushed)
  BY DEF Push, Pushed
<1>3. /\ stack' \in [Threads -> Seq(Call)]
      /\ \A u \in Threads \ {th} : stack'[u] = stack[u]
      /\ Len(stack[th]) \in Nat
      /\ DOMAIN stack[th] = 1 .. Len(stack[th])
      /\ DOMAIN stack'[th] = 1 .. Len(stack[th]) + 1
      /\ \A i \in 1 .. Len(stack[th]) : stack'[th][i] = stack[th][i]
      /\ stack'[th][Len(stack[th]) + 1] = pushed
  BY <1>1, <1>2, StackPushed
<1> QED
  BY <1>3 DEF Depth

(* The innermost call returns. *)
LEMMA CallPopped ==
  ASSUME TypeOK, NEW th \in Threads, ~Idle(th), Pop(th)
  PROVE  /\ stack' \in [Threads -> Seq(Call)]
         /\ \A u \in Threads \ {th} : stack'[u] = stack[u]
         /\ DOMAIN stack'[th] = DOMAIN stack[th] \ {Depth(th)}
         /\ \A i \in DOMAIN stack'[th] : stack'[th][i] = stack[th][i]
<1>1. stack \in [Threads -> Seq(Call)] /\ stack[th] # << >>
  BY DEF TypeOK, Idle
<1>2. stack' = Popped(stack, th)
  BY DEF Pop, Popped
<1>3. /\ stack' \in [Threads -> Seq(Call)]
      /\ \A u \in Threads \ {th} : stack'[u] = stack[u]
      /\ Len(stack[th]) \in Nat \ {0}
      /\ DOMAIN stack[th] = 1 .. Len(stack[th])
      /\ DOMAIN stack'[th] = 1 .. Len(stack[th]) - 1
      /\ \A i \in 1 .. Len(stack[th]) - 1 : stack'[th][i] = stack[th][i]
  BY <1>1, <1>2, StackPopped
<1> QED
  BY <1>3 DEF Depth

(* The innermost call gets on. *)
LEMMA CallSet ==
  ASSUME TypeOK, NEW th \in Threads, ~Idle(th), NEW pushed \in Call, SetTop(th, pushed)
  PROVE  /\ stack' \in [Threads -> Seq(Call)]
         /\ \A u \in Threads \ {th} : stack'[u] = stack[u]
         /\ DOMAIN stack'[th] = DOMAIN stack[th]
         /\ \A i \in DOMAIN stack[th] \ {Depth(th)} : stack'[th][i] = stack[th][i]
         /\ stack'[th][Depth(th)] = pushed
<1>1. stack \in [Threads -> Seq(Call)] /\ stack[th] # << >>
  BY DEF TypeOK, Idle
<1>2. stack' = TopSet(stack, th, pushed)
  BY DEF SetTop, TopSet
<1>3. /\ stack' \in [Threads -> Seq(Call)]
      /\ \A u \in Threads \ {th} : stack'[u] = stack[u]
      /\ Len(stack[th]) \in Nat \ {0}
      /\ DOMAIN stack[th] = 1 .. Len(stack[th])
      /\ DOMAIN stack'[th] = 1 .. Len(stack[th])
      /\ \A i \in 1 .. Len(stack[th]) - 1 : stack'[th][i] = stack[th][i]
      /\ stack'[th][Len(stack[th])] = pushed
  BY <1>1, <1>2, StackTopSet
<1> QED
  BY <1>3 DEF Depth

LEMMA WaitingIsFinite == IsFiniteSet(Waiting) /\ Cardinality(Waiting) \in Nat
<1>1. IsFiniteSet(Bridge)
  BY FS_Interval, FiltersAssumption DEF Bridge
<1> QED
  BY <1>1, FS_Subset, FS_CardinalityType DEF Waiting

-----------------------------------------------------------------------------
(* The steps of a registration. *)

(* A new bridge is nobody's yet. *)
LEMMA InstallStep ==
  ASSUME IInv, NEW th \in Threads, Install(th)
  PROVE  IInv'
<1> DEFINE pushed == [op |-> "installed", bridge |-> bridges', token |-> 0]
           top == Depth(th) + 1
<1>1. bridges \in 0 .. MaxFilters - 1 /\ bridges' = bridges + 1 /\ MaxFilters \in Nat
  BY FiltersAssumption DEF Install, IInv, TypeOK
<1>2. pushed \in Call
  BY <1>1 DEF Call, Bridge
<1>3. /\ stack' \in [Threads -> Seq(Call)]
      /\ \A u \in Threads \ {th} : stack'[u] = stack[u]
      /\ DOMAIN stack'[th] = DOMAIN stack[th] \cup {top}
      /\ top \notin DOMAIN stack[th]
      /\ \A i \in DOMAIN stack[th] : stack'[th][i] = stack[th][i]
      /\ stack'[th][top] = pushed
  BY <1>2, CallPushed DEF Install, IInv
<1>4. pushed.op = "installed" /\ pushed.bridge = bridges + 1
  BY <1>1
<1> HIDE DEF pushed, top
<1>5. \A u \in Threads : \A i \in DOMAIN stack[u] :
        Registers(u, i) => stack[u][i].bridge \in Registering
  BY EntryType DEF IInv, Registers, Registering
<1>6. Registering \subseteq 1 .. bridges /\ \A t \in DOMAIN filters : filters[t] \in 1 .. bridges
  BY DEF IInv, NumbersInv, InstalledIsOwned
<1>7. bridges + 1 \notin 1 .. bridges /\ bridges + 1 \in Bridge
  BY <1>1 DEF Bridge
<1>8. TypeOK'
  BY <1>1, <1>3, <1>7 DEF IInv, TypeOK, Install
<1>9. NumbersInv'
  BY <1>1 DEF IInv, NumbersInv, Install
<1>10. RegistrationsInv'
  <2>1. \A u \in Threads : \A i \in DOMAIN stack'[u] :
          \/ u = th /\ i = top /\ stack'[u][i] = pushed
          \/ i \in DOMAIN stack[u] /\ stack'[u][i] = stack[u][i]
    BY <1>3
  <2>2. ASSUME NEW u \in Threads, NEW i \in DOMAIN stack'[u], Registers(u, i)'
        PROVE  /\ \A t \in DOMAIN filters' : filters'[t] # stack'[u][i].bridge
               /\ stack'[u][i].op = "numbered" =>
                    stack'[u][i].token \in (1 .. next_token' - 1) \ given'
    <3>1. CASE u = th /\ i = top /\ stack'[u][i] = pushed
      BY <1>4, <1>6, <1>7, <3>1 DEF Install
    <3>2. CASE i \in DOMAIN stack[u] /\ stack'[u][i] = stack[u][i]
      BY <2>2, <3>2 DEF IInv, RegistrationsInv, Registers, Install
    <3> QED
      BY <2>1, <3>1, <3>2
  <2>3. ASSUME NEW u \in Threads, NEW v \in Threads,
               NEW i \in DOMAIN stack'[u], NEW j \in DOMAIN stack'[v],
               Registers(u, i)', Registers(v, j)',
               \/ stack'[u][i].bridge = stack'[v][j].bridge
               \/ /\ stack'[u][i].op = "numbered"
                  /\ stack'[v][j].op = "numbered"
                  /\ stack'[u][i].token = stack'[v][j].token
        PROVE  u = v /\ i = j
    <3>1. \A w \in Threads : \A k \in DOMAIN stack[w] :
            Registers(w, k) => stack[w][k].bridge # pushed.bridge
      BY <1>4, <1>5, <1>6, <1>7
    <3>2. CASE u = th /\ i = top /\ stack'[u][i] = pushed
      BY <1>4, <2>1, <2>3, <3>1, <3>2 DEF Registers
    <3>3. CASE v = th /\ j = top /\ stack'[v][j] = pushed
      BY <1>4, <2>1, <2>3, <3>1, <3>3 DEF Registers
    <3>4. CASE /\ i \in DOMAIN stack[u] /\ stack'[u][i] = stack[u][i]
               /\ j \in DOMAIN stack[v] /\ stack'[v][j] = stack[v][j]
      BY <2>3, <3>4 DEF IInv, RegistrationsInv, Registers
    <3> QED
      BY <2>1, <3>2, <3>3, <3>4
  <2> QED
    BY <2>2, <2>3 DEF RegistrationsInv
<1>11. Registering' = Registering \cup {bridges + 1}
  <2>1. ASSUME NEW b \in Registering' PROVE b \in Registering \cup {bridges + 1}
    <3>0. PICK u \in Threads : \E i \in DOMAIN stack'[u] :
            b \in Bridge /\ stack'[u][i].op # "run" /\ stack'[u][i].bridge = b
      BY DEF Registering
    <3>1. PICK i \in DOMAIN stack'[u] :
            b \in Bridge /\ stack'[u][i].op # "run" /\ stack'[u][i].bridge = b
      BY <3>0
    <3>2. CASE u = th /\ i = top
      BY <1>3, <1>4, <3>1, <3>2
    <3>3. CASE ~(u = th /\ i = top)
      BY <1>3, <3>1, <3>3 DEF Registering
    <3> QED
      BY <3>2, <3>3
  <2>2. ASSUME NEW b \in Registering PROVE b \in Registering'
    BY <1>3 DEF Registering
  <2>3. bridges + 1 \in Registering'
    BY <1>3, <1>4, <1>7 DEF Registering
  <2> QED
    BY <2>1, <2>2, <2>3
<1>12. InstalledIsOwned'
  BY <1>1, <1>7, <1>11 DEF IInv, InstalledIsOwned, NumbersInv, Install, IsInjective
<1>13. CountInv'
  <2>1. Waiting' = Waiting \cup {bridges + 1}
    <3>1. ASSUME NEW b \in Waiting' PROVE b \in Waiting \cup {bridges + 1}
      BY <1>3, <1>4 DEF Waiting
    <3>2. ASSUME NEW b \in Waiting PROVE b \in Waiting'
      BY <1>3 DEF Waiting
    <3>3. bridges + 1 \in Waiting'
      BY <1>3, <1>4, <1>7 DEF Waiting
    <3> QED
      BY <3>1, <3>2, <3>3
  <2>2. bridges + 1 \notin Waiting
    BY <1>5, <1>6, <1>7 DEF Waiting, Registers
  <2>3. Cardinality(Waiting') = Cardinality(Waiting) + 1
    BY <2>1, <2>2, WaitingIsFinite, FS_AddElement
  <2>4. next_token' = next_token /\ next_token \in Int
    BY DEF Install, IInv, TypeOK
  <2> QED
    BY <1>1, <2>3, <2>4, WaitingIsFinite DEF IInv, CountInv
<1> QED
  BY <1>8, <1>9, <1>10, <1>12, <1>13 DEF IInv

(* Its token is one that no other registration took. *)
LEMMA TakeTokenStep ==
  ASSUME IInv, NEW th \in Threads, TakeToken(th)
  PROVE  IInv'
<1> DEFINE old == Top(th)
           pushed == [old EXCEPT !.op = "numbered", !.token = next_token]
           top == Depth(th)
<1>1. /\ ~Idle(th)
      /\ top \in DOMAIN stack[th] /\ old = stack[th][top] /\ old \in Call
      /\ old.op = "installed"
  BY TopIsThere DEF TakeToken, In, IInv
<1>2. next_token \in 1 .. MaxFilters /\ next_token' = next_token + 1 /\ MaxFilters \in Nat
  <2>1. old.bridge \in Waiting
    BY <1>1 DEF Waiting, Call
  <2>2. Cardinality(Waiting) # 0
    BY <2>1, WaitingIsFinite, FS_EmptySet
  <2> QED
    BY <2>2, WaitingIsFinite, FiltersAssumption DEF IInv, TypeOK, CountInv, TakeToken
<1>3. /\ pushed \in Call
      /\ pushed.op = "numbered" /\ pushed.bridge = old.bridge /\ pushed.token = next_token
  BY <1>1, <1>2 DEF Call, Token
<1>4. /\ stack' \in [Threads -> Seq(Call)]
      /\ \A u \in Threads \ {th} : stack'[u] = stack[u]
      /\ DOMAIN stack'[th] = DOMAIN stack[th]
      /\ \A i \in DOMAIN stack[th] \ {top} : stack'[th][i] = stack[th][i]
      /\ stack'[th][top] = pushed
  BY <1>1, <1>3, CallSet DEF TakeToken, IInv
<1> HIDE DEF pushed, top, old
<1>5. UNCHANGED <<kernel, filters, bridges, destroyed, handles, given>>
  BY DEF TakeToken
<1>6. TypeOK'
  BY <1>2, <1>4, <1>5 DEF IInv, TypeOK
<1>7. NumbersInv'
  BY <1>2, <1>5 DEF IInv, NumbersInv
<1>8. RegistrationsInv'
  <2>1. \A u \in Threads : DOMAIN stack'[u] = DOMAIN stack[u]
    BY <1>4
  <2>2. \A u \in Threads : \A i \in DOMAIN stack[u] :
          /\ stack'[u][i].bridge = stack[u][i].bridge
          /\ Registers(u, i)' <=> Registers(u, i)
          /\ u # th \/ i # top => stack'[u][i] = stack[u][i]
    BY <1>1, <1>3, <1>4 DEF Registers
  <2>3. next_token \notin 1 .. next_token - 1 /\ next_token \notin given
        /\ 1 .. next_token - 1 \subseteq 1 .. next_token' - 1
        /\ next_token \in 1 .. next_token' - 1
    BY <1>2 DEF IInv, NumbersInv
  <2>4. \A u \in Threads : \A i \in DOMAIN stack[u] :
          stack'[u][i].op = "numbered" =>
            \/ u = th /\ i = top /\ stack'[u][i].token = next_token
            \/ stack'[u][i] = stack[u][i] /\ stack[u][i].token \in (1 .. next_token - 1) \ given
    BY <1>3, <1>4, <2>2 DEF IInv, RegistrationsInv, Registers
  <2>5. ASSUME NEW u \in Threads, NEW i \in DOMAIN stack'[u], Registers(u, i)'
        PROVE  /\ \A t \in DOMAIN filters' : filters'[t] # stack'[u][i].bridge
               /\ stack'[u][i].op = "numbered" =>
                    stack'[u][i].token \in (1 .. next_token' - 1) \ given'
    BY <1>5, <2>1, <2>2, <2>3, <2>4, <2>5 DEF IInv, RegistrationsInv
  <2>6. ASSUME NEW u \in Threads, NEW v \in Threads,
               NEW i \in DOMAIN stack'[u], NEW j \in DOMAIN stack'[v],
               Registers(u, i)', Registers(v, j)',
               \/ stack'[u][i].bridge = stack'[v][j].bridge
               \/ /\ stack'[u][i].op = "numbered"
                  /\ stack'[v][j].op = "numbered"
                  /\ stack'[u][i].token = stack'[v][j].token
        PROVE  u = v /\ i = j
    <3>1. CASE stack'[u][i].bridge = stack'[v][j].bridge
      BY <2>1, <2>2, <2>6, <3>1 DEF IInv, RegistrationsInv
    <3>2. CASE /\ stack'[u][i].op = "numbered"
               /\ stack'[v][j].op = "numbered"
               /\ stack'[u][i].token = stack'[v][j].token
      BY <2>1, <2>2, <2>3, <2>4, <2>6, <3>2 DEF IInv, RegistrationsInv
    <3> QED
      BY <2>6, <3>1, <3>2
  <2> QED
    BY <2>5, <2>6 DEF RegistrationsInv
<1>9. Registering' = Registering
  <2>1. ASSUME NEW b \in Registering' PROVE b \in Registering
    BY <1>1, <1>3, <1>4 DEF Registering
  <2>2. ASSUME NEW b \in Registering PROVE b \in Registering'
    BY <1>1, <1>3, <1>4 DEF Registering
  <2> QED
    BY <2>1, <2>2
<1>10. InstalledIsOwned'
  BY <1>5, <1>9 DEF IInv, InstalledIsOwned, IsInjective
<1>11. CountInv'
  <2>1. Waiting' = Waiting \ {old.bridge}
    <3>1. \A u \in Threads : \A i \in DOMAIN stack[u] :
            stack[u][i].op = "installed" /\ stack[u][i].bridge = old.bridge => u = th /\ i = top
      BY <1>1 DEF IInv, RegistrationsInv, Registers
    <3> QED
      BY <1>1, <1>3, <1>4, <3>1 DEF Waiting
  <2>2. old.bridge \in Waiting
    BY <1>1 DEF Waiting, Call
  <2>3. Cardinality(Waiting') = Cardinality(Waiting) - 1
    BY <2>1, <2>2, WaitingIsFinite, FS_RemoveElement
  <2> QED
    BY <1>2, <1>5, <2>3, WaitingIsFinite DEF IInv, CountInv, TypeOK
<1> QED
  BY <1>6, <1>7, <1>8, <1>10, <1>11 DEF IInv

(* Its entry goes into the table, which never had one under this token: no *)
(* registered bridge is dropped for lack of a place.                       *)
LEMMA EnterStep ==
  ASSUME IInv, NEW th \in Threads, Enter(th)
  PROVE  /\ IInv'
         /\ Top(th).token \notin given
         /\ DOMAIN filters' = DOMAIN filters \cup {Top(th).token}
<1> DEFINE old == Top(th)
           t == old.token
           b == old.bridge
           top == Depth(th)
<1>1. /\ ~Idle(th)
      /\ top \in DOMAIN stack[th] /\ old = stack[th][top] /\ old \in Call
      /\ old.op = "numbered"
  BY TopIsThere DEF Enter, In, IInv
<1>2. /\ stack' \in [Threads -> Seq(Call)]
      /\ \A u \in Threads \ {th} : stack'[u] = stack[u]
      /\ DOMAIN stack'[th] = DOMAIN stack[th] \ {top}
      /\ \A i \in DOMAIN stack'[th] : stack'[th][i] = stack[th][i]
  BY <1>1, CallPopped DEF Enter, IInv
<1>3. /\ t \in (1 .. next_token - 1) \ given
      /\ \A u \in DOMAIN filters : filters[u] # b
      /\ b \in Bridge
  BY <1>1, EntryType DEF IInv, RegistrationsInv, Registers
<1>4. t \notin DOMAIN filters /\ t \in Token
  BY <1>3, FiltersAssumption DEF IInv, NumbersInv, TypeOK, Token
<1>5. /\ filters' = [u \in DOMAIN filters \cup {t} |-> IF u = t THEN b ELSE filters[u]]
      /\ given' = given \cup {t}
      /\ UNCHANGED <<kernel, next_token, bridges, destroyed, handles>>
  BY <1>4 DEF Enter
<1> HIDE DEF top, b, t, old
<1>6. TypeOK'
  BY <1>2, <1>3, <1>4, <1>5 DEF IInv, TypeOK
<1>7. NumbersInv'
  BY <1>3, <1>5 DEF IInv, NumbersInv
<1>8. \A u \in Threads : \A i \in DOMAIN stack'[u] :
        i \in DOMAIN stack[u] /\ stack'[u][i] = stack[u][i] /\ ~(u = th /\ i = top)
  BY <1>2
<1>9. \A u \in Threads : \A i \in DOMAIN stack[u] :
        /\ Registers(u, i)
        /\ stack[u][i].bridge = b \/ (stack[u][i].op = "numbered" /\ stack[u][i].token = t)
        => u = th /\ i = top
  BY <1>1 DEF IInv, RegistrationsInv, Registers, b, t
<1>10. RegistrationsInv'
  BY <1>5, <1>8, <1>9 DEF IInv, RegistrationsInv, Registers
<1>11. Registering' = Registering \ {b}
  <2>1. ASSUME NEW c \in Registering' PROVE c \in Registering \ {b}
    <3>0. PICK u \in Threads : \E i \in DOMAIN stack'[u] :
            c \in Bridge /\ stack'[u][i].op # "run" /\ stack'[u][i].bridge = c
      BY DEF Registering
    <3>1. PICK i \in DOMAIN stack'[u] :
            c \in Bridge /\ stack'[u][i].op # "run" /\ stack'[u][i].bridge = c
      BY <3>0
    <3> QED
      BY <1>8, <1>9, <3>1 DEF Registering, Registers
  <2>2. ASSUME NEW c \in Registering \ {b} PROVE c \in Registering'
    <3>0. PICK u \in Threads : \E i \in DOMAIN stack[u] :
            c \in Bridge /\ stack[u][i].op # "run" /\ stack[u][i].bridge = c
      BY DEF Registering
    <3>1. PICK i \in DOMAIN stack[u] :
            c \in Bridge /\ stack[u][i].op # "run" /\ stack[u][i].bridge = c
      BY <3>0
    <3>2. ~(u = th /\ i = top)
      BY <1>1, <2>2, <3>1 DEF b
    <3>3. i \in DOMAIN stack'[u] /\ stack'[u][i] = stack[u][i]
      BY <1>2, <3>2
    <3> QED
      BY <3>1, <3>3 DEF Registering
  <2> QED
    BY <2>1, <2>2
<1>12. InstalledIsOwned'
  <2>1. b \in Registering
    BY <1>1, <1>3 DEF Registering, b
  <2>2. {filters'[u] : u \in DOMAIN filters'} = {filters[u] : u \in DOMAIN filters} \cup {b}
    BY <1>4, <1>5
  <2>3. IsInjective(filters')
    BY <1>3, <1>4, <1>5 DEF IInv, InstalledIsOwned, IsInjective
  <2> QED
    BY <1>5, <1>11, <2>1, <2>2, <2>3 DEF IInv, InstalledIsOwned
<1>13. CountInv'
  <2>1. ASSUME NEW c \in Waiting' PROVE c \in Waiting
    BY <1>8 DEF Waiting
  <2>2. ASSUME NEW c \in Waiting PROVE c \in Waiting'
    <3>0. PICK u \in Threads : \E i \in DOMAIN stack[u] :
            c \in Bridge /\ stack[u][i].op = "installed" /\ stack[u][i].bridge = c
      BY DEF Waiting
    <3>1. PICK i \in DOMAIN stack[u] :
            c \in Bridge /\ stack[u][i].op = "installed" /\ stack[u][i].bridge = c
      BY <3>0
    <3>2. ~(u = th /\ i = top)
      BY <1>1, <3>1
    <3> QED
      BY <1>2, <3>1, <3>2 DEF Waiting
  <2>3. Waiting' = Waiting
    BY <2>1, <2>2
  <2> QED
    BY <1>5, <2>3 DEF IInv, CountInv
<1> QED
  BY <1>3, <1>5, <1>6, <1>7, <1>10, <1>12, <1>13 DEF IInv, t, old

-----------------------------------------------------------------------------
(* Runs of filters, which registrations do not notice. *)

LEMMA RunStep ==
  ASSUME IInv, NEW th \in Threads,
         (\E b \in Bridge : Run(th, b)) \/ RunReturns(th)
  PROVE  IInv'
<1>1. /\ stack' \in [Threads -> Seq(Call)]
      /\ \A u \in Threads : \A i \in DOMAIN stack'[u] :
           stack'[u][i].op = "run" \/ (i \in DOMAIN stack[u] /\ stack'[u][i] = stack[u][i])
      /\ \A u \in Threads : \A i \in DOMAIN stack[u] :
           stack[u][i].op = "run" \/ (i \in DOMAIN stack'[u] /\ stack'[u][i] = stack[u][i])
  <2>1. ASSUME NEW b \in Bridge, Run(th, b)
        PROVE  /\ stack' \in [Threads -> Seq(Call)]
               /\ \A u \in Threads : \A i \in DOMAIN stack'[u] :
                    stack'[u][i].op = "run" \/ (i \in DOMAIN stack[u] /\ stack'[u][i] = stack[u][i])
               /\ \A u \in Threads : \A i \in DOMAIN stack[u] :
                    stack[u][i].op = "run" \/ (i \in DOMAIN stack'[u] /\ stack'[u][i] = stack[u][i])
    <3> DEFINE pushed == [op |-> "run", bridge |-> b, token |-> 0]
    <3>1. pushed \in Call /\ pushed.op = "run"
      BY DEF Call
    <3>2. Push(th, pushed)
      BY <2>1 DEF Run
    <3> HIDE DEF pushed
    <3> QED
      BY <3>1, <3>2, CallPushed DEF IInv
  <2>2. CASE RunReturns(th)
    <3>1. /\ ~Idle(th) /\ Pop(th)
          /\ Depth(th) \in DOMAIN stack[th] /\ stack[th][Depth(th)].op = "run"
      BY <2>2, TopIsThere DEF RunReturns, In, IInv
    <3> QED
      BY <3>1, CallPopped DEF IInv
  <2> QED
    BY <2>1, <2>2
<1>2. UNCHANGED <<kernel, filters, next_token, bridges, destroyed, handles, given>>
  BY DEF Run, RunReturns
<1>3. TypeOK'
  BY <1>1, <1>2 DEF IInv, TypeOK
<1>4. RegistrationsInv'
  BY <1>1, <1>2 DEF IInv, RegistrationsInv, Registers
<1>5. Registering' = Registering
  <2>1. ASSUME NEW b \in Registering' PROVE b \in Registering
    BY <1>1 DEF Registering
  <2>2. ASSUME NEW b \in Registering PROVE b \in Registering'
    BY <1>1 DEF Registering
  <2> QED
    BY <2>1, <2>2
<1>6. Waiting' = Waiting
  <2>1. ASSUME NEW b \in Waiting' PROVE b \in Waiting
    BY <1>1 DEF Waiting
  <2>2. ASSUME NEW b \in Waiting PROVE b \in Waiting'
    BY <1>1 DEF Waiting
  <2> QED
    BY <2>1, <2>2
<1> QED
  BY <1>2, <1>3, <1>4, <1>5, <1>6 DEF IInv, NumbersInv, InstalledIsOwned, CountInv

-----------------------------------------------------------------------------
(* Unregistering, by hand or by an owner: the entry and the installed      *)
(* bridge go together, or both stay.                                       *)

LEMMA UnregisterStep ==
  ASSUME IInv, NEW t, unregister(t),
         UNCHANGED <<next_token, bridges, given, stack>>,
         handles' \in [Handles -> Token \cup {0}]
  PROVE  /\ IInv'
         /\ \/ UNCHANGED filters
            \/ t \in DOMAIN filters /\ DOMAIN filters' = DOMAIN filters \ {t}
<1>1. Registering' = Registering /\ Waiting' = Waiting
  BY DEF Registering, Waiting
<1>2. CASE UNCHANGED <<kernel, filters, destroyed>>
  BY <1>1, <1>2
  DEF IInv, TypeOK, NumbersInv, RegistrationsInv, InstalledIsOwned, CountInv,
      Registers, IsInjective
<1>3. CASE /\ t \in DOMAIN filters
           /\ kernel' = kernel \ {filters[t]}
           /\ destroyed' = destroyed \cup {filters[t]}
           /\ filters' = [u \in DOMAIN filters \ {t} |-> filters[u]]
  <2> DEFINE b == filters[t]
  <2>1. /\ DOMAIN filters' = DOMAIN filters \ {t}
        /\ \A u \in DOMAIN filters' : filters'[u] = filters[u] /\ filters[u] # b
        /\ b \in Bridge /\ b \in kernel
    BY <1>3 DEF IInv, TypeOK, InstalledIsOwned, IsInjective
  <2>2. b \notin Registering
    <3> SUFFICES ASSUME b \in Registering PROVE FALSE
      OBVIOUS
    <3>1. PICK th \in Threads : \E i \in DOMAIN stack[th] :
            stack[th][i].op # "run" /\ stack[th][i].bridge = b
      BY DEF Registering
    <3> QED
      BY <1>3, <3>1 DEF IInv, RegistrationsInv, Registers
  <2>3. TypeOK'
    BY <1>3, <2>1 DEF IInv, TypeOK
  <2>4. NumbersInv'
    BY <1>3, <2>1 DEF IInv, NumbersInv
  <2>5. RegistrationsInv'
    BY <1>3, <2>1 DEF IInv, RegistrationsInv, Registers
  <2>6. InstalledIsOwned'
    <3>1. {filters'[u] : u \in DOMAIN filters'} = {filters[u] : u \in DOMAIN filters} \ {b}
      BY <1>3, <2>1
    <3>2. kernel' = {filters'[u] : u \in DOMAIN filters'} \cup Registering'
      BY <1>1, <1>3, <2>2, <3>1 DEF IInv, InstalledIsOwned
    <3>3. kernel' \cap destroyed' = {}
      BY <1>3 DEF IInv, InstalledIsOwned
    <3>4. IsInjective(filters)'
      BY <1>3, <2>1 DEF IInv, InstalledIsOwned, IsInjective
    <3> QED
      BY <3>2, <3>3, <3>4 DEF InstalledIsOwned
  <2> QED
    BY <1>1, <1>3, <2>1, <2>3, <2>4, <2>5, <2>6 DEF IInv, CountInv
<1> QED
  BY <1>2, <1>3 DEF unregister

(* An owner holds a token of a client, one of another owner, or nothing. *)
LEMMA HandlesKeepTheirType ==
  ASSUME TypeOK,
         \/ UNCHANGED handles
         \/ \E h \in Handles, t \in Token : Construct(h, t)
         \/ \E h \in Handles : Reset(h)
         \/ \E h, other \in Handles : MoveAssign(h, other)
  PROVE  handles' \in [Handles -> Token \cup {0}]
BY DEF TypeOK, Construct, Reset, MoveAssign

(* The steps that leave every stack alone are unregistrations, of nothing  *)
(* when an owner takes a token over.                                       *)
LEMMA OwnerStep ==
  ASSUME IInv,
         \/ \E t \in Token : Unregister(t)
         \/ \E h \in Handles, t \in Token : Construct(h, t)
         \/ \E h \in Handles : Reset(h)
         \/ \E h, other \in Handles : MoveAssign(h, other)
  PROVE  /\ IInv'
         /\ UNCHANGED given
         /\ \/ UNCHANGED filters
            \/ \E t \in DOMAIN filters : DOMAIN filters' = DOMAIN filters \ {t}
<1>1. \E t : unregister(t)
  <2>1. CASE \E t \in Token : Unregister(t)
    BY <2>1 DEF Unregister
  <2>2. CASE \E h \in Handles, t \in Token : Construct(h, t)
    BY <2>2 DEF Construct, unregister
  <2>3. CASE \E h \in Handles : Reset(h)
    BY <2>3 DEF Reset
  <2>4. CASE \E h, other \in Handles : MoveAssign(h, other)
    BY <2>4 DEF MoveAssign
  <2> QED
    BY <2>1, <2>2, <2>3, <2>4
<1>2. UNCHANGED <<next_token, bridges, given, stack>>
  BY DEF Unregister, Construct, Reset, MoveAssign
<1>3. handles' \in [Handles -> Token \cup {0}]
  BY HandlesKeepTheirType DEF IInv, Unregister
<1> QED
  BY <1>1, <1>2, <1>3, UnregisterStep

-----------------------------------------------------------------------------
(* The invariant holds initially and every step preserves it. *)

(* No registration was made. *)
LEMMA InitIInv ==
  ASSUME Init
  PROVE  IInv
<1>1. Registering = {} /\ Waiting = {}
  BY DEF Init, Registering, Waiting
<1>2. TypeOK
  BY FiltersAssumption DEF Init, TypeOK
<1>3. NumbersInv /\ RegistrationsInv
  BY DEF Init, NumbersInv, RegistrationsInv
<1>4. InstalledIsOwned
  BY <1>1 DEF Init, InstalledIsOwned, IsInjective
<1>5. CountInv
  BY <1>1, FS_EmptySet DEF Init, CountInv
<1> QED
  BY <1>2, <1>3, <1>4, <1>5 DEF IInv

(* One step per kind of action; the owners' share a lemma. *)
LEMMA IInvStep ==
  ASSUME IInv, [Next]_vars
  PROVE  IInv'
<1>1. ASSUME NEW th \in Threads, Install(th) PROVE IInv'
  BY <1>1, InstallStep
<1>2. ASSUME NEW th \in Threads, TakeToken(th) PROVE IInv'
  BY <1>2, TakeTokenStep
<1>3. ASSUME NEW th \in Threads, Enter(th) PROVE IInv'
  BY <1>3, EnterStep
<1>4. ASSUME NEW th \in Threads, (\E b \in Bridge : Run(th, b)) \/ RunReturns(th)
      PROVE  IInv'
  BY <1>4, RunStep
<1>5. CASE \/ \E t \in Token : Unregister(t)
           \/ \E h \in Handles, t \in Token : Construct(h, t)
           \/ \E h \in Handles : Reset(h)
           \/ \E h, other \in Handles : MoveAssign(h, other)
  BY <1>5, OwnerStep
<1>6. CASE UNCHANGED vars
  <2>1. unregister(0) /\ UNCHANGED <<next_token, bridges, given, stack>>
    BY <1>6 DEF vars, unregister
  <2>2. handles' \in [Handles -> Token \cup {0}]
    BY <1>6 DEF vars, IInv, TypeOK
  <2> QED
    BY <2>1, <2>2, UnregisterStep
<1> QED
  BY <1>1, <1>2, <1>3, <1>4, <1>5, <1>6 DEF Next

(* Every reachable state satisfies the invariant. *)
LEMMA IInvHolds == Spec => []IInv
<1>1. Init => IInv
  BY InitIInv
<1>2. IInv /\ [Next]_vars => IInv'
  BY IInvStep
<1> QED
  BY <1>1, <1>2, PTL DEF Spec

-----------------------------------------------------------------------------
(* What follows from it. *)

(* register_microcode_filter, unregister_microcode_filter and the owners   *)
(* keep every variable in its type; in particular no more tokens are taken *)
(* than bridges were installed.                                            *)
THEOREM TypeCorrect == Spec => []TypeOK
<1>1. IInv => TypeOK
  BY DEF IInv
<1> QED
  BY <1>1, IInvHolds, PTL

(* However threads interleave the steps of register_microcode_filter with  *)
(* those of others, with unregistering and with running filters: a bridge  *)
(* the decompiler may call is not deleted, and it can still be unregistered *)
(* because exactly one token names it, or will once its registration ends. *)
THEOREM OwnershipHolds == Spec => []InstalledIsOwned
<1>1. IInv => InstalledIsOwned
  BY DEF IInv
<1> QED
  BY <1>1, IInvHolds, PTL

(* The table of filters with its tokens is a subscription registry: Enter  *)
(* subscribes under a token never returned before, whatever other threads  *)
(* do between taking and entering it; an unregistration that the           *)
(* decompiler accepts unsubscribes; no other step changes the table.       *)
THEOREM RefinesRegistry == Spec => ImplementsRegistry
<1>1. Init => Registry!Init
  BY DEF Init, Registry!Init
<1>2. ASSUME IInv, [Next]_vars PROVE [Registry!Next]_Registry!vars
  <2>1. ASSUME NEW th \in Threads, Enter(th) PROVE Registry!Next
    <3> DEFINE t == Top(th).token
    <3>1. /\ t \notin given /\ t \in DOMAIN filters'
          /\ DOMAIN filters' = DOMAIN filters \cup {t}
      BY <1>2, <2>1, EnterStep
    <3>2. given' = given \cup {t}
      BY <2>1 DEF Enter
    <3>3. t \in Token
      BY <1>2, <2>1, <3>1, EnterStep DEF IInv, TypeOK
    <3> QED
      BY <3>1, <3>2, <3>3 DEF Registry!Next, Registry!Subscribe
  <2>2. CASE \/ \E t \in Token : Unregister(t)
             \/ \E h \in Handles, t \in Token : Construct(h, t)
             \/ \E h \in Handles : Reset(h)
             \/ \E h, other \in Handles : MoveAssign(h, other)
    <3>1. CASE UNCHANGED filters
      BY <1>2, <2>2, <3>1, OwnerStep DEF Registry!vars
    <3>2. CASE \E t \in DOMAIN filters : DOMAIN filters' = DOMAIN filters \ {t}
      BY <1>2, <2>2, <3>2, OwnerStep DEF Registry!Next, Registry!Unsubscribe
    <3> QED
      BY <1>2, <2>2, <3>1, <3>2, OwnerStep
  <2>3. ASSUME NEW th \in Threads,
               \/ Install(th) \/ TakeToken(th)
               \/ \E b \in Bridge : Run(th, b)
               \/ RunReturns(th)
        PROVE  UNCHANGED Registry!vars
    BY <2>3 DEF Install, TakeToken, Run, RunReturns, Registry!vars
  <2>4. CASE UNCHANGED vars
    BY <2>4 DEF vars, Registry!vars
  <2> QED
    BY <1>2, <2>1, <2>2, <2>3, <2>4 DEF Next
<1> QED
  BY <1>1, <1>2, IInvHolds, PTL DEF Spec, ImplementsRegistry, Registry!Spec
-----------------------------------------------------------------------------
(* The objects of the Node binding.                                        *)

(* A callback of a filter runs with a context of its own, valid until it   *)
(* returns: no two of the calls that are running share one.                *)
CallbacksInv ==
  /\ \A i \in DOMAIN frames :
       frames[i].kind = "filter" =>
         frames[i].object \in Contexts /\ contexts[frames[i].object] = "valid"
  /\ \A i, j \in DOMAIN frames :
       frames[i].kind = "filter" /\ frames[j] = frames[i] => i = j

HandlesInv == WrappersReachLiveObjects /\ CallbacksInv

(* What the properties say of the stack of calls, place by place. *)
LEMMA OnCalls ==
  ASSUME NEW fs \in Seq(Frame), NEW kind, NEW object
  PROVE  [kind |-> kind, object |-> object] \in ToSet(fs) <=>
           \E i \in DOMAIN fs : fs[i].kind = kind /\ fs[i].object = object
<1>1. \A i \in DOMAIN fs : fs[i] \in Frame
  BY ElementOfSeq, LenProperties
<1>2. \A f \in Frame : f = [kind |-> kind, object |-> object] <=> f.kind = kind /\ f.object = object
  BY DEF Frame
<1> QED
  BY <1>1, <1>2 DEF ToSet

(* A call is entered. *)
LEMMA CallEnters ==
  ASSUME HandlesTypeOK, NEW kind, NEW object,
         [kind |-> kind, object |-> object] \in Frame, Enters(kind, object)
  PROVE  /\ frames' \in Seq(Frame) /\ Len(frames') <= MaxFrames
         /\ Len(frames) \in Nat
         /\ DOMAIN frames = 1 .. Len(frames) /\ DOMAIN frames' = 1 .. Len(frames) + 1
         /\ \A i \in DOMAIN frames : frames'[i] = frames[i]
         /\ frames'[Len(frames) + 1] = [kind |-> kind, object |-> object]
<1>1. frames \in Seq(Frame) /\ Len(frames) < MaxFrames
  BY DEF HandlesTypeOK, Enters
<1>2. frames' = Append(frames, [kind |-> kind, object |-> object])
  BY DEF Enters
<1>3. Len(frames) \in Nat /\ DOMAIN frames = 1 .. Len(frames)
  BY <1>1, LenProperties
<1>4. /\ frames' \in Seq(Frame)
      /\ Len(frames') = Len(frames) + 1
      /\ \A i \in 1 .. Len(frames) : frames'[i] = frames[i]
      /\ frames'[Len(frames) + 1] = [kind |-> kind, object |-> object]
  BY <1>1, <1>2, AppendProperties
<1>5. DOMAIN frames' = 1 .. Len(frames) + 1
  BY <1>4, LenProperties
<1>6. Len(frames) + 1 <= MaxFrames
  BY <1>1, <1>3, HandlesAssumption
<1> QED
  BY <1>3, <1>4, <1>5, <1>6

(* The innermost call returns. *)
LEMMA CallReturns ==
  ASSUME HandlesTypeOK, NEW kind, Returns(kind)
  PROVE  /\ frames' \in Seq(Frame) /\ Len(frames') <= MaxFrames
         /\ Len(frames) \in Nat \ {0}
         /\ DOMAIN frames = 1 .. Len(frames) /\ DOMAIN frames' = 1 .. Len(frames) - 1
         /\ \A i \in DOMAIN frames' : frames'[i] = frames[i]
         /\ Last(frames) = frames[Len(frames)] /\ frames[Len(frames)].kind = kind
<1>1. frames \in Seq(Frame) /\ frames # << >> /\ Len(frames) <= MaxFrames
  BY DEF HandlesTypeOK, Returns, Running
<1>2. frames' = Front(frames) /\ Last(frames).kind = kind /\ Last(frames) = frames[Len(frames)]
  BY DEF Returns, Running, Last
<1>3. Len(frames) \in Nat \ {0} /\ DOMAIN frames = 1 .. Len(frames)
  BY <1>1, EmptySeq, LenProperties
<1>4. /\ frames' \in Seq(Frame)
      /\ Len(frames') = Len(frames) - 1
      /\ \A i \in 1 .. Len(frames) - 1 : frames'[i] = frames[i]
  BY <1>1, <1>2, FrontOfSeq
<1>5. DOMAIN frames' = 1 .. Len(frames) - 1
  BY <1>4, LenProperties
<1>6. Len(frames) - 1 <= MaxFrames
  BY <1>1, <1>3, HandlesAssumption
<1> QED
  BY <1>2, <1>3, <1>4, <1>5, <1>6

(* Neither the filters nor calls that are no callbacks of one matter to    *)
(* the contexts.                                                           *)
LEMMA CallbacksKept ==
  ASSUME HandlesInv, HandlesTypeOK', UNCHANGED contexts,
         \A i \in DOMAIN frames :
           frames[i].kind = "filter" => i \in DOMAIN frames' /\ frames'[i] = frames[i],
         \A i \in DOMAIN frames' :
           frames'[i].kind = "filter" => i \in DOMAIN frames /\ frames'[i] = frames[i]
  PROVE  CallbacksInv' /\ \A c \in Contexts : contexts'[c] = "valid" <=> On("filter", c)'
<1>0. frames \in Seq(Frame) /\ frames' \in Seq(Frame)
  BY DEF HandlesTypeOK, HandlesInv, WrappersReachLiveObjects
<1>1. HandlesTypeOK /\ CallbacksInv
  BY DEF HandlesInv, WrappersReachLiveObjects
<1>2. CallbacksInv'
  BY <1>1 DEF CallbacksInv
<1>3. ASSUME NEW c \in Contexts PROVE contexts'[c] = "valid" <=> On("filter", c)'
  <2>1. contexts[c] = "valid" <=> On("filter", c)
    BY DEF HandlesInv, WrappersReachLiveObjects
  <2>2. On("filter", c) <=> \E i \in DOMAIN frames : frames[i].kind = "filter" /\ frames[i].object = c
    BY <1>0, OnCalls DEF On
  <2>3. On("filter", c)' <=> \E i \in DOMAIN frames' : frames'[i].kind = "filter" /\ frames'[i].object = c
    BY <1>0, OnCalls DEF On
  <2> QED
    BY <2>1, <2>2, <2>3
<1> QED
  BY <1>2, <1>3

-----------------------------------------------------------------------------
(* Steps that leave the calls and the contexts alone. *)
LEMMA NoCallMoves ==
  ASSUME HandlesInv, HandlesTypeOK', UNCHANGED <<frames, contexts>>
  PROVE  CallbacksInv' /\ \A c \in Contexts : contexts'[c] = "valid" <=> On("filter", c)'
BY CallbacksKept

(* Nor does a call that is no callback of a filter, entered ... *)
LEMMA OtherEnters ==
  ASSUME HandlesInv, HandlesTypeOK', UNCHANGED contexts,
         NEW kind \in {"decompile", "visit"}, NEW object \in Wrappers \cup Contexts \cup {"none"},
         Enters(kind, object)
  PROVE  CallbacksInv' /\ \A c \in Contexts : contexts'[c] = "valid" <=> On("filter", c)'
<1>1. [kind |-> kind, object |-> object] \in Frame /\ HandlesTypeOK /\ kind # "filter"
  BY DEF Frame, HandlesInv, WrappersReachLiveObjects
<1>2. /\ Len(frames) \in Nat
      /\ DOMAIN frames = 1 .. Len(frames) /\ DOMAIN frames' = 1 .. Len(frames) + 1
      /\ \A i \in DOMAIN frames : frames'[i] = frames[i]
      /\ frames'[Len(frames) + 1] = [kind |-> kind, object |-> object]
  BY <1>1, CallEnters
<1>3. \A i \in DOMAIN frames' : frames'[i].kind = "filter" => i \in DOMAIN frames
  BY <1>1, <1>2
<1>4. DOMAIN frames \subseteq DOMAIN frames'
  BY <1>2
<1> QED
  BY <1>2, <1>3, <1>4, CallbacksKept

(* ... or left. *)
LEMMA OtherReturns ==
  ASSUME HandlesInv, HandlesTypeOK', UNCHANGED contexts,
         NEW kind \in {"decompile", "visit"}, Returns(kind)
  PROVE  CallbacksInv' /\ \A c \in Contexts : contexts'[c] = "valid" <=> On("filter", c)'
<1>1. HandlesTypeOK /\ kind # "filter"
  BY DEF HandlesInv, WrappersReachLiveObjects
<1>2. /\ Len(frames) \in Nat \ {0}
      /\ DOMAIN frames = 1 .. Len(frames) /\ DOMAIN frames' = 1 .. Len(frames) - 1
      /\ \A i \in DOMAIN frames' : frames'[i] = frames[i]
      /\ frames[Len(frames)].kind = kind
  BY <1>1, CallReturns
<1>3. \A i \in DOMAIN frames : frames[i].kind = "filter" => i \in DOMAIN frames'
  BY <1>1, <1>2
<1>4. DOMAIN frames' \subseteq DOMAIN frames
  BY <1>2
<1> QED
  BY <1>2, <1>3, <1>4, CallbacksKept

(* A callback gets the context its filter made for it ... *)
LEMMA CallbackEnters ==
  ASSUME HandlesInv, HandlesTypeOK', NEW c \in Contexts, FilterCallback(c)
  PROVE  CallbacksInv' /\ \A d \in Contexts : contexts'[d] = "valid" <=> On("filter", d)'
<1>0. frames \in Seq(Frame) /\ frames' \in Seq(Frame)
  BY DEF HandlesTypeOK, HandlesInv, WrappersReachLiveObjects
<1>1. /\ HandlesTypeOK /\ CallbacksInv
      /\ \A d \in Contexts : contexts[d] = "valid" <=> On("filter", d)
  BY DEF HandlesInv, WrappersReachLiveObjects
<1>2. /\ [kind |-> "filter", object |-> c] \in Frame
      /\ Enters("filter", c) /\ contexts[c] = "none"
      /\ contexts' = [contexts EXCEPT ![c] = "valid"]
  BY DEF Frame, FilterCallback
<1>3. /\ Len(frames) \in Nat
      /\ DOMAIN frames = 1 .. Len(frames) /\ DOMAIN frames' = 1 .. Len(frames) + 1
      /\ \A i \in DOMAIN frames : frames'[i] = frames[i]
      /\ frames'[Len(frames) + 1] = [kind |-> "filter", object |-> c]
  BY <1>1, <1>2, CallEnters
<1>4. contexts'[c] = "valid" /\ \A d \in Contexts : d # c => contexts'[d] = contexts[d]
  BY <1>1, <1>2 DEF HandlesTypeOK
<1>5. \A i \in DOMAIN frames : frames[i].kind = "filter" => frames[i].object \in Contexts \ {c}
  BY <1>1, <1>2 DEF CallbacksInv
<1>6. CallbacksInv'
  <2>1. \A i \in DOMAIN frames' :
          frames'[i].kind = "filter" =>
            frames'[i].object \in Contexts /\ contexts'[frames'[i].object] = "valid"
    BY <1>1, <1>3, <1>4, <1>5 DEF CallbacksInv
  <2>2. ASSUME NEW i \in DOMAIN frames', NEW j \in DOMAIN frames',
               frames'[i].kind = "filter", frames'[j] = frames'[i]
        PROVE  i = j
    <3>1. CASE i \in DOMAIN frames /\ j \in DOMAIN frames
      BY <1>1, <1>3, <2>2, <3>1 DEF CallbacksInv
    <3>2. ~(i \in DOMAIN frames /\ j = Len(frames) + 1)
      BY <1>3, <1>5, <2>2
    <3>3. ~(j \in DOMAIN frames /\ i = Len(frames) + 1)
      BY <1>3, <1>5, <2>2
    <3> QED
      BY <1>3, <3>1, <3>2, <3>3
  <2> QED
    BY <2>1, <2>2 DEF CallbacksInv
<1>7. ASSUME NEW d \in Contexts PROVE contexts'[d] = "valid" <=> On("filter", d)'
  <2>1. On("filter", d) <=> \E i \in DOMAIN frames : frames[i].kind = "filter" /\ frames[i].object = d
    BY <1>0, OnCalls DEF On
  <2>2. On("filter", d)' <=> \E i \in DOMAIN frames' : frames'[i].kind = "filter" /\ frames'[i].object = d
    BY <1>0, OnCalls DEF On
  <2>3. Len(frames) + 1 \in DOMAIN frames' /\ DOMAIN frames \subseteq DOMAIN frames'
    BY <1>3
  <2>4. CASE d = c
    BY <1>3, <1>4, <2>2, <2>3, <2>4
  <2>5. CASE d # c
    <3>1. \A i \in DOMAIN frames' : frames'[i].object = d => i \in DOMAIN frames
      BY <1>3, <2>5
    <3> QED
      BY <1>1, <1>3, <1>4, <2>1, <2>2, <2>3, <2>5, <3>1
  <2> QED
    BY <2>4, <2>5
<1> QED
  BY <1>6, <1>7

(* ... which is stale when it returns. *)
LEMMA CallbackReturns ==
  ASSUME HandlesInv, HandlesTypeOK', FilterReturns
  PROVE  CallbacksInv' /\ \A d \in Contexts : contexts'[d] = "valid" <=> On("filter", d)'
<1> DEFINE n == Len(frames)
           c == frames[n].object
<1>0. frames \in Seq(Frame) /\ frames' \in Seq(Frame)
  BY DEF HandlesTypeOK, HandlesInv, WrappersReachLiveObjects
<1>1. /\ HandlesTypeOK /\ CallbacksInv
      /\ \A d \in Contexts : contexts[d] = "valid" <=> On("filter", d)
  BY DEF HandlesInv, WrappersReachLiveObjects
<1>2. Returns("filter") /\ contexts' = [contexts EXCEPT ![Last(frames).object] = "stale"]
  BY DEF FilterReturns
<1>3. /\ n \in Nat \ {0}
      /\ DOMAIN frames = 1 .. n /\ DOMAIN frames' = 1 .. n - 1
      /\ \A i \in DOMAIN frames' : frames'[i] = frames[i]
      /\ Last(frames) = frames[n] /\ frames[n].kind = "filter"
  BY <1>1, <1>2, CallReturns
<1>4. n \in DOMAIN frames /\ DOMAIN frames' = DOMAIN frames \ {n}
  BY <1>3
<1>5. c \in Contexts
  BY <1>1, <1>3, <1>4 DEF CallbacksInv
<1>6. contexts'[c] = "stale" /\ \A d \in Contexts : d # c => contexts'[d] = contexts[d]
  BY <1>1, <1>2, <1>3, <1>5 DEF HandlesTypeOK
<1>7. \A i \in DOMAIN frames : frames[i] \in Frame
  BY <1>1, ElementOfSeq, LenProperties DEF HandlesTypeOK
<1>8. \A f, g \in Frame : f.kind = g.kind /\ f.object = g.object => f = g
  BY DEF Frame
<1>9. \A i \in DOMAIN frames' : frames'[i].kind = "filter" => frames'[i].object # c
  BY <1>1, <1>3, <1>4, <1>7, <1>8 DEF CallbacksInv
<1> HIDE DEF n, c
<1>10. CallbacksInv'
  BY <1>1, <1>3, <1>4, <1>6, <1>9 DEF CallbacksInv
<1>11. ASSUME NEW d \in Contexts PROVE contexts'[d] = "valid" <=> On("filter", d)'
  <2>1. On("filter", d) <=> \E i \in DOMAIN frames : frames[i].kind = "filter" /\ frames[i].object = d
    BY <1>0, OnCalls DEF On
  <2>2. On("filter", d)' <=> \E i \in DOMAIN frames' : frames'[i].kind = "filter" /\ frames'[i].object = d
    BY <1>0, OnCalls DEF On
  <2>3. CASE d = c
    BY <1>6, <1>9, <2>2, <2>3
  <2>4. CASE d # c
    <3>1. \A i \in DOMAIN frames : frames[i].object = d => i # n
      BY <2>4 DEF c
    <3> QED
      BY <1>1, <1>3, <1>4, <1>6, <2>1, <2>2, <2>4, <3>1
  <2> QED
    BY <2>3, <2>4
<1> QED
  BY <1>10, <1>11

-----------------------------------------------------------------------------
(* The boxes on screen are counted. *)
LEMMA BoxesCounted ==
  ASSUME active_ \subseteq Boxes, shown = Cardinality(active_),
         \/ UNCHANGED <<active_, shown>>
         \/ \E b, other \in Boxes : WaitBox(b) \/ dismiss(b) \/ MoveBox(b, other)
  PROVE  active_' \subseteq Boxes /\ shown' = Cardinality(active_') /\ shown' \in 0 .. Cardinality(Boxes)
<1>1. IsFiniteSet(Boxes) /\ IsFiniteSet(active_) /\ Cardinality(active_) \in Nat
  BY HandlesAssumption, FS_Subset, FS_CardinalityType
<1>2. active_' \subseteq Boxes /\ shown' = Cardinality(active_')
  <2>1. CASE UNCHANGED <<active_, shown>>
    BY <2>1
  <2>2. ASSUME NEW b \in Boxes, WaitBox(b)
        PROVE  active_' \subseteq Boxes /\ shown' = Cardinality(active_')
    <3>1. Cardinality(active_ \cup {b}) = Cardinality(active_) + 1
      BY <1>1, <2>2, FS_AddElement DEF WaitBox
    <3> QED
      BY <2>2, <3>1 DEF WaitBox
  <2>3. ASSUME NEW b \in Boxes, dismiss(b)
        PROVE  active_' \subseteq Boxes /\ shown' = Cardinality(active_')
    <3>1. Cardinality(active_ \ {b}) = Cardinality(active_) - 1
      BY <1>1, <2>3, FS_RemoveElement DEF dismiss
    <3> QED
      BY <2>3, <3>1 DEF dismiss
  <2>4. ASSUME NEW b \in Boxes, NEW other \in Boxes, MoveBox(b, other)
        PROVE  active_' \subseteq Boxes /\ shown' = Cardinality(active_')
    <3>1. b # other /\ other \in active_ /\ active_' = (active_ \ {other}) \cup {b}
      BY <2>4 DEF MoveBox
    <3>2. Cardinality(active_ \ {other}) = Cardinality(active_) - 1
      BY <1>1, <3>1, FS_RemoveElement
    <3>3. IsFiniteSet(active_ \ {other})
      BY <1>1, FS_Subset
    <3>4. CASE b \in active_
      <4>1. active_' = active_ \ {other} /\ shown' = shown - 1
        BY <2>4, <3>1, <3>4 DEF MoveBox
      <4> QED
        BY <3>2, <4>1
    <3>5. CASE b \notin active_
      <4>1. shown' = shown
        BY <2>4, <3>5 DEF MoveBox
      <4>2. Cardinality(active_') = Cardinality(active_ \ {other}) + 1
        BY <3>1, <3>3, <3>5, FS_AddElement
      <4> QED
        BY <1>1, <3>1, <3>2, <4>1, <4>2
    <3> QED
      BY <3>1, <3>4, <3>5
  <2> QED
    BY <2>1, <2>2, <2>3, <2>4
<1>3. Cardinality(active_') \in Nat /\ Cardinality(active_') <= Cardinality(Boxes) /\ Cardinality(Boxes) \in Nat
  BY <1>1, <1>2, FS_Subset, FS_CardinalityType
<1> QED
  BY <1>2, <1>3

(* What the scripts hold on to: databases, functions, contexts, filters. *)
HoldingsOK ==
  /\ database \in 0 .. opened /\ opened \in 0 .. MaxOpened
  /\ live_wrappers \subseteq Wrappers
  /\ func_ \in [Wrappers -> 0 .. MaxOpened]
  /\ contexts \in [Contexts -> {"none", "valid", "stale"}]
  /\ js_filters \subseteq FilterTokens
  /\ \A w \in Wrappers : EnsureAlive(w) => func_[w] = database

LEMMA DatabaseSteps ==
  ASSUME HoldingsOK, Open \/ Close PROVE HoldingsOK'
<1>1. MaxOpened \in Nat
  BY HandlesAssumption
<1>2. CASE Open
  <2>1. database = 0 /\ opened + 1 \in 0 .. MaxOpened /\ database' = opened + 1 /\ opened' = opened + 1
    BY <1>1, <1>2 DEF Open, HoldingsOK
  <2>2. \A w \in Wrappers : ~EnsureAlive(w)
    BY <2>1 DEF HoldingsOK, EnsureAlive
  <2>3. UNCHANGED <<live_wrappers, func_, contexts, js_filters>>
    BY <1>2 DEF Open
  <2>4. database' \in 0 .. opened'
    BY <1>1, <2>1
  <2> QED
    BY <2>1, <2>2, <2>3, <2>4 DEF HoldingsOK, EnsureAlive
<1>3. CASE Close
  <2>1. database' = 0 /\ UNCHANGED <<opened, live_wrappers, contexts, js_filters>>
    BY <1>3 DEF Close
  <2>2. /\ func_' \in [Wrappers -> 0 .. MaxOpened]
        /\ \A w \in live_wrappers : func_'[w] = 0
    BY <1>1, <1>3 DEF Close, DisposeAllLiveWrappers, HoldingsOK
  <2> QED
    BY <1>1, <2>1, <2>2 DEF HoldingsOK, EnsureAlive
<1> QED
  BY <1>2, <1>3

LEMMA WrapperSteps ==
  ASSUME HoldingsOK, NEW w \in Wrappers, NewInstance(w) \/ New(w) \/ Collected(w)
  PROVE  HoldingsOK'
<1>1. MaxOpened \in Nat /\ database \in 0 .. MaxOpened /\ 0 \in 0 .. MaxOpened
  BY HandlesAssumption DEF HoldingsOK
<1>2. UNCHANGED <<database, opened, contexts, js_filters>>
  BY DEF NewInstance, New, Collected
<1>3. live_wrappers' \subseteq live_wrappers \cup {w}
  BY DEF NewInstance, New, Collected
<1>4. PICK d \in {0, database} : func_' = [func_ EXCEPT ![w] = d]
  BY DEF NewInstance, New, Collected
<1>5. ASSUME NEW v \in Wrappers, EnsureAlive(v)' PROVE func_'[v] = database'
  <2>1. v \in live_wrappers' /\ func_'[v] # 0
    BY <1>5 DEF EnsureAlive
  <2>2. func_'[v] = IF v = w THEN d ELSE func_[v]
    BY <1>4 DEF HoldingsOK
  <2> QED
    BY <1>2, <1>3, <1>4, <2>1, <2>2 DEF HoldingsOK, EnsureAlive
<1>6. func_' \in [Wrappers -> 0 .. MaxOpened]
  BY <1>1, <1>4 DEF HoldingsOK
<1> QED
  BY <1>2, <1>3, <1>5, <1>6 DEF HoldingsOK

LEMMA OtherSteps ==
  ASSUME HoldingsOK, UNCHANGED <<database, opened, live_wrappers, func_>>,
         js_filters' \subseteq FilterTokens, contexts' \in [Contexts -> {"none", "valid", "stale"}]
  PROVE  HoldingsOK'
BY DEF HoldingsOK, EnsureAlive

LEMMA InitHandlesInv ==
  ASSUME HandlesInit PROVE HandlesInv
<1>1. MaxOpened \in Nat /\ MaxFrames \in Nat /\ Cardinality({}) = 0 /\ Cardinality(Boxes) \in Nat
  BY HandlesAssumption, FS_EmptySet, FS_CardinalityType
<1>2. << >> \in Seq(Frame) /\ Len(<< >>) = 0 /\ DOMAIN << >> = {}
  BY EmptySeq
<1>3. HandlesTypeOK
  BY <1>1, <1>2 DEF HandlesTypeOK, HandlesInit
<1>4. CallbacksInv
  BY <1>2 DEF CallbacksInv, HandlesInit
<1>5. \A c \in Contexts : contexts[c] = "valid" <=> On("filter", c)
  BY <1>2 DEF HandlesInit, On, ToSet
<1> QED
  BY <1>1, <1>3, <1>4, <1>5 DEF HandlesInv, WrappersReachLiveObjects, EnsureAlive, HandlesInit

LEMMA HandlesInvStep ==
  ASSUME HandlesInv, [HandlesNext]_nodevars PROVE HandlesInv'
<1>1. /\ HandlesTypeOK /\ HoldingsOK /\ CallbacksInv
      /\ active_ \subseteq Boxes /\ shown = Cardinality(active_)
  BY DEF HandlesInv, WrappersReachLiveObjects, HandlesTypeOK, HoldingsOK
<1>2. frames' \in Seq(Frame) /\ Len(frames') <= MaxFrames
  <2>1. CASE UNCHANGED frames
    BY <1>1, <2>1 DEF HandlesTypeOK
  <2>2. ASSUME NEW kind \in {"decompile", "visit", "filter"}, Returns(kind)
        PROVE  frames' \in Seq(Frame) /\ Len(frames') <= MaxFrames
    BY <1>1, <2>2, CallReturns
  <2>3. ASSUME NEW kind \in {"decompile", "visit", "filter"},
               NEW object \in Wrappers \cup Contexts \cup {"none"}, Enters(kind, object)
        PROVE  frames' \in Seq(Frame) /\ Len(frames') <= MaxFrames
    <3>1. [kind |-> kind, object |-> object] \in Frame
      BY DEF Frame
    <3> QED
      BY <1>1, <2>3, <3>1, CallEnters
  <2>4. \/ UNCHANGED frames
        \/ \E kind \in {"decompile", "visit", "filter"} : Returns(kind)
        \/ \E kind \in {"decompile", "visit", "filter"},
              object \in Wrappers \cup Contexts \cup {"none"} : Enters(kind, object)
    BY DEF HandlesNext, nodevars, Open, Close, Decompile, DecompileFails, ForEachReturns,
           FilterReturns, NewInstance, New, Collected, ForEach, FilterCallback,
           ContextCollected, RegisterMicrocodeFilter, UnregisterMicrocodeFilter,
           WaitBox, dismiss, MoveBox
  <2> QED
    BY <2>1, <2>2, <2>3, <2>4
<1>3. contexts' \in [Contexts -> {"none", "valid", "stale"}]
  <2>1. CASE UNCHANGED contexts
    BY <1>1, <2>1 DEF HandlesTypeOK
  <2>2. ASSUME NEW c, NEW value \in {"none", "valid", "stale"},
               contexts' = [contexts EXCEPT ![c] = value]
        PROVE  contexts' \in [Contexts -> {"none", "valid", "stale"}]
    BY <1>1, <2>2 DEF HandlesTypeOK
  <2>3. \/ UNCHANGED contexts
        \/ \E c : \E value \in {"none", "valid", "stale"} : contexts' = [contexts EXCEPT ![c] = value]
    BY DEF HandlesNext, nodevars, Open, Close, Decompile, DecompileFails, ForEachReturns,
           FilterReturns, NewInstance, New, Collected, ForEach, FilterCallback,
           ContextCollected, RegisterMicrocodeFilter, UnregisterMicrocodeFilter,
           WaitBox, dismiss, MoveBox
  <2> QED
    BY <2>1, <2>2, <2>3
<1>4. HoldingsOK'
  <2>1. js_filters' \subseteq FilterTokens
    BY <1>1 DEF HandlesTypeOK, HandlesNext, nodevars, Open, Close, Decompile, DecompileFails,
           ForEachReturns, FilterReturns, NewInstance, New, Collected, ForEach, FilterCallback,
           ContextCollected, RegisterMicrocodeFilter, UnregisterMicrocodeFilter,
           WaitBox, dismiss, MoveBox
  <2>2. \/ Open \/ Close
        \/ \E w \in Wrappers : NewInstance(w) \/ New(w) \/ Collected(w)
        \/ UNCHANGED <<database, opened, live_wrappers, func_>>
    BY DEF HandlesNext, nodevars, Decompile, DecompileFails, ForEachReturns, FilterReturns,
           ForEach, FilterCallback, ContextCollected, RegisterMicrocodeFilter,
           UnregisterMicrocodeFilter, WaitBox, dismiss, MoveBox
  <2> QED
    BY <1>1, <1>3, <2>1, <2>2, DatabaseSteps, WrapperSteps, OtherSteps
<1>5. active_' \subseteq Boxes /\ shown' = Cardinality(active_') /\ shown' \in 0 .. Cardinality(Boxes)
  <2>1. \/ UNCHANGED <<active_, shown>>
        \/ \E b, other \in Boxes : WaitBox(b) \/ dismiss(b) \/ MoveBox(b, other)
    BY DEF HandlesNext, nodevars, Open, Close, Decompile, DecompileFails, ForEachReturns,
           FilterReturns, NewInstance, New, Collected, ForEach, FilterCallback,
           ContextCollected, RegisterMicrocodeFilter, UnregisterMicrocodeFilter
  <2> QED
    BY <1>1, <2>1, BoxesCounted
<1>6. HandlesTypeOK'
  BY <1>2, <1>4, <1>5 DEF HandlesTypeOK, HoldingsOK
<1>7. CallbacksInv' /\ \A c \in Contexts : contexts'[c] = "valid" <=> On("filter", c)'
  <2>1. CASE UNCHANGED <<frames, contexts>>
    BY <1>6, <2>1, NoCallMoves
  <2>2. CASE Decompile \/ DecompileFails \/ ForEachReturns
             \/ \E w \in Wrappers : NewInstance(w) \/ ForEach(w)
    <3>1. UNCHANGED contexts
      BY <2>2 DEF Decompile, DecompileFails, ForEachReturns, NewInstance, ForEach
    <3>2. \/ \E kind \in {"decompile", "visit"} : Returns(kind)
          \/ \E kind \in {"decompile", "visit"},
                object \in Wrappers \cup Contexts \cup {"none"} : Enters(kind, object)
      BY <2>2 DEF Decompile, DecompileFails, ForEachReturns, NewInstance, ForEach
    <3> QED
      BY <1>6, <3>1, <3>2, OtherEnters, OtherReturns
  <2>3. CASE FilterReturns
    BY <1>6, <2>3, CallbackReturns
  <2>4. ASSUME NEW c \in Contexts, FilterCallback(c)
        PROVE  CallbacksInv' /\ \A d \in Contexts : contexts'[d] = "valid" <=> On("filter", d)'
    BY <1>6, <2>4, CallbackEnters
  <2>5. ASSUME NEW c \in Contexts, ContextCollected(c)
        PROVE  CallbacksInv' /\ \A d \in Contexts : contexts'[d] = "valid" <=> On("filter", d)'
    <3>1. /\ contexts[c] = "stale" /\ contexts' = [contexts EXCEPT ![c] = "none"]
          /\ UNCHANGED frames
      BY <2>5 DEF ContextCollected
    <3>2. \A d \in Contexts : contexts'[d] = "valid" <=> contexts[d] = "valid"
      BY <1>1, <3>1 DEF HandlesTypeOK
    <3>3. \A d : On("filter", d)' <=> On("filter", d)
      BY <3>1 DEF On
    <3>4. \A d \in Contexts : contexts[d] = "valid" <=> On("filter", d)
      BY DEF HandlesInv, WrappersReachLiveObjects
    <3>5. CallbacksInv'
      BY <1>1, <3>1, <3>2 DEF CallbacksInv
    <3> QED
      BY <3>2, <3>3, <3>4, <3>5
  <2>6. \/ UNCHANGED <<frames, contexts>>
        \/ Decompile \/ DecompileFails \/ ForEachReturns
        \/ \E w \in Wrappers : NewInstance(w) \/ ForEach(w)
        \/ FilterReturns
        \/ \E c \in Contexts : FilterCallback(c) \/ ContextCollected(c)
    BY DEF HandlesNext, nodevars, Open, Close, New, Collected, RegisterMicrocodeFilter,
           UnregisterMicrocodeFilter, WaitBox, dismiss, MoveBox
  <2> QED
    BY <2>1, <2>2, <2>3, <2>4, <2>5, <2>6
<1> QED
  BY <1>4, <1>5, <1>6, <1>7 DEF HandlesInv, WrappersReachLiveObjects, HoldingsOK

(* Whatever scripts open, decompile, visit and close, from whichever       *)
(* callback, a function they can still use is one of the open database, a  *)
(* context is valid while its callback runs, and the boxes on screen are   *)
(* those that somebody still has to hide.                                  *)
THEOREM ObjectsAreLive == HandlesSpec => []WrappersReachLiveObjects
<1>1. HandlesInit => HandlesInv
  BY InitHandlesInv
<1>2. HandlesInv /\ [HandlesNext]_nodevars => HandlesInv'
  BY HandlesInvStep
<1>3. HandlesInv => WrappersReachLiveObjects
  BY DEF HandlesInv
<1> QED
  BY <1>1, <1>2, <1>3, PTL DEF HandlesSpec

-----------------------------------------------------------------------------
(* The block being lifted.                                                 *)

LEMMA AppendGrows ==
  ASSUME NEW C, NEW b \in Seq(C), NEW m \in C
  PROVE  Append(b, m) \in Seq(C) /\ Grown(b, Len(b), m, Append(b, m))
<1>1. Len(b) \in Nat
  BY LenProperties
<1> QED  BY <1>1, AppendProperties DEF Grown

(* What grows by something new has nothing twice. *)
LEMMA GrownOnce ==
  ASSUME NEW C, NEW b \in Seq(C), NEW m, NEW a, NEW r \in Seq(C), Grown(b, a, m, r)
  PROVE  /\ Contains(r, m)
         /\ \A x : Contains(r, x) <=> (x = m \/ Contains(b, x))
         /\ IsInjective(b) /\ ~Contains(b, m) => IsInjective(r)
<1> DEFINE n == Len(b)
<1>0. n \in Nat /\ a \in 0 .. n /\ DOMAIN b = 1 .. n /\ DOMAIN r = 1 .. n + 1 /\ Len(r) = n + 1
  BY LenProperties DEF Grown
<1>1. \A j \in 1 .. n + 1 :
        r[j] = IF j <= a THEN b[j] ELSE IF j = a + 1 THEN m ELSE b[j - 1]
  BY DEF Grown
<1> HIDE DEF n
<1>2. a + 1 \in 1 .. n + 1 /\ r[a + 1] = m
  BY <1>0, <1>1
<1>3. Contains(r, m)
  BY <1>0, <1>2 DEF Contains
<1>4. ASSUME NEW x, Contains(b, x) PROVE Contains(r, x)
  <2>1. PICK i \in 1 .. n : b[i] = x
    BY <1>4 DEF Contains, n
  <2>2. CASE i <= a
    BY <2>1, <2>2, <1>0, <1>1 DEF Contains
  <2>3. CASE i > a
    <3>1. i + 1 \in 1 .. n + 1 /\ ~(i + 1 <= a) /\ i + 1 # a + 1 /\ (i + 1) - 1 = i
      BY <2>3, <1>0
    <3> QED  BY <2>1, <3>1, <1>0, <1>1 DEF Contains
  <2> QED  BY <1>0, <2>2, <2>3
<1>5. ASSUME NEW x, Contains(r, x), x # m PROVE Contains(b, x)
  <2>1. PICK j \in 1 .. n + 1 : r[j] = x
    BY <1>5, <1>0 DEF Contains
  <2>2. CASE j <= a
    BY <2>1, <2>2, <1>0, <1>1 DEF Contains, n
  <2>3. CASE j > a + 1
    <3>1. j - 1 \in 1 .. n
      BY <2>3, <1>0
    <3> QED  BY <2>1, <2>3, <3>1, <1>0, <1>1 DEF Contains, n
  <2> QED  BY <1>0, <1>5, <2>1, <1>2, <2>2, <2>3
<1>6. ASSUME IsInjective(b), ~Contains(b, m) PROVE IsInjective(r)
  <2> DEFINE old(j) == IF j <= a THEN j ELSE j - 1
  <2>1. \A j \in (1 .. n + 1) \ {a + 1} : old(j) \in 1 .. n /\ r[j] = b[old(j)]
    BY <1>0, <1>1
  <2>2. \A j \in (1 .. n + 1) \ {a + 1} : r[j] # m
    BY <2>1, <1>6 DEF Contains, n
  <2>3. \A j, k \in (1 .. n + 1) \ {a + 1} : r[j] = r[k] => old(j) = old(k)
    BY <2>1, <1>0, <1>6 DEF IsInjective
  <2>4. \A j, k \in (1 .. n + 1) \ {a + 1} : old(j) = old(k) => j = k
    BY <1>0
  <2> HIDE DEF old
  <2> QED  BY <2>2, <2>3, <2>4, <1>0, <1>2 DEF IsInjective
<1> QED  BY <1>3, <1>4, <1>5, <1>6

(* Taking out of a block what was appended to it leaves the block. *)
LEMMA AppendedTakenOut ==
  ASSUME NEW C, NEW b \in Seq(C), NEW m \in C, ~Contains(b, m)
  PROVE  Without(Append(b, m), m) = b
<1> DEFINE n == Len(b)
           s == Append(b, m)
           keep == {i \in DOMAIN s : s[i] # m}
           f == PickedUpTo(s, keep)
           S == {i \in Nat : i <= n => /\ f[i] \in Seq(C) /\ Len(f[i]) = i
                                       /\ \A k \in 1 .. i : f[i][k] = b[k]}
<1>0. /\ n \in Nat /\ s \in Seq(C) /\ Len(s) = n + 1 /\ DOMAIN s = 1 .. n + 1
      /\ s[n + 1] = m /\ \A i \in 1 .. n : s[i] = b[i]
  BY LenProperties, AppendProperties
<1>1. \A i \in 1 .. n : i \in keep
  BY <1>0 DEF Contains
<1>2. n + 1 \notin keep
  BY <1>0
<1>3. Without(s, m) = f[n + 1]
  BY <1>0 DEF Without, Picked
<1> HIDE DEF keep, s
<1>4. \A i \in 0 .. n + 1 : PicksUpTo(s, keep, f, i)
  BY <1>0, PickedUpToDef
<1> HIDE DEF f
<1>5. 0 \in S
  <2>1. f[0] = << >>
    BY <1>0, <1>4 DEF PicksUpTo
  <2>2. << >> \in Seq(C) /\ Len(<< >>) = 0
    BY EmptySeq
  <2>3. f[0] \in Seq(C) /\ Len(f[0]) = 0
    BY <2>1, <2>2
  <2>4. \A k \in 1 .. 0 : f[0][k] = b[k]
    OBVIOUS
  <2> QED  BY <2>3, <2>4
<1>6. ASSUME NEW i \in Nat, i \in S PROVE i + 1 \in S
  <2> SUFFICES ASSUME i + 1 <= n
               PROVE  /\ f[i + 1] \in Seq(C) /\ Len(f[i + 1]) = i + 1
                      /\ \A k \in 1 .. i + 1 : f[i + 1][k] = b[k]
    OBVIOUS
  <2>0. i + 1 \in 0 .. n + 1 /\ i + 1 # 0 /\ (i + 1) - 1 = i /\ i + 1 \in 1 .. n
    BY <1>0
  <2>1. f[i] \in Seq(C) /\ Len(f[i]) = i /\ \A k \in 1 .. i : f[i][k] = b[k]
    BY <1>0, <1>6
  <2>2. f[i + 1] = Append(f[i], s[i + 1])
    BY <2>0, <1>1, <1>4 DEF PicksUpTo
  <2>3. s[i + 1] = b[i + 1] /\ b[i + 1] \in C
    BY <2>0, <1>0, ElementOfSeq
  <2> QED  BY <2>1, <2>2, <2>3, AppendProperties
<1>7. Nat \subseteq S
  <2> HIDE DEF S
  <2> QED  BY <1>5, <1>6, SetInduction
<1>8. f[n] \in Seq(C) /\ Len(f[n]) = n /\ \A k \in 1 .. n : f[n][k] = b[k]
  BY <1>0, <1>7
<1>9. f[n + 1] = f[n]
  <2>1. n + 1 \in 0 .. n + 1 /\ n + 1 # 0 /\ (n + 1) - 1 = n
    BY <1>0
  <2> QED  BY <2>1, <1>2, <1>4 DEF PicksUpTo
<1>10. f[n] = b
  BY <1>8, SeqEqual
<1> QED  BY <1>3, <1>9, <1>10 DEF s

(* Where an emission puts a new instruction. *)
LEMMA EmittedGrows ==
  ASSUME NEW C, NEW b \in Seq(C), NEW m \in C, ~Contains(b, m), NEW policy \in InsertPolicy
  PROVE  LET r == reposition(Append(b, m), m, policy) IN
         /\ anchor_for(b, policy) \in 0 .. Len(b)
         /\ r \in Seq(C) /\ Grown(b, anchor_for(b, policy), m, r)
<1>1. Len(b) \in Nat /\ (b # << >> => Len(b) > 0)
  BY LenProperties, EmptySeq
<1>2. anchor_for(b, policy) \in 0 .. Len(b)
  BY <1>1 DEF anchor_for, InsertPolicy
<1>3. CASE policy = "Tail"
  <2>1. reposition(Append(b, m), m, policy) = Append(b, m) /\ anchor_for(b, policy) = Len(b)
    BY <1>3 DEF reposition, anchor_for
  <2> QED  BY <2>1, <1>2, AppendGrows
<1>4. CASE policy # "Tail"
  <2>1. Without(Append(b, m), m) = b
    BY AppendedTakenOut
  <2>2. reposition(Append(b, m), m, policy) = InsertAfter(b, anchor_for(b, policy), m)
    BY <1>4, <2>1 DEF reposition
  <2> QED  BY <1>2, <2>2, InsertGrows DEF InsertAfter
<1> QED  BY <1>3, <1>4

(* What removals leave. *)
LEMMA TakenOut ==
  ASSUME NEW C, NEW b \in Seq(C), NEW m
  PROVE  LET r == Without(b, m) IN
         /\ r \in Seq(C)
         /\ \A x : Contains(r, x) => Contains(b, x)
         /\ IsInjective(b) => IsInjective(r)
<1> DEFINE keep == {i \in DOMAIN b : b[i] # m}
           r == Picked(b, keep)
           n == Len(b)
<1>0. Without(b, m) = r /\ n \in Nat /\ DOMAIN b = 1 .. n
  BY LenProperties DEF Without
<1>1. Selects(C, b, keep, n, r)
  BY PickedInOrder
<1> HIDE DEF keep, r
<1>2. PICK place : Places(b, keep, n, r, place)
  BY <1>1 DEF Selects
<1>3. r \in Seq(C) /\ Len(r) \in Nat /\ DOMAIN r = 1 .. Len(r)
  BY <1>1, LenProperties DEF Selects
<1>4. /\ place \in [1 .. Len(r) -> 1 .. n]
      /\ \A k \in 1 .. Len(r) : place[k] \in 1 .. n /\ r[k] = b[place[k]]
      /\ \A i, j \in 1 .. Len(r) : i < j => place[i] < place[j]
  BY <1>2 DEF Places
<1>5. \A i, j \in 1 .. Len(r) : place[i] = place[j] => i = j
  <2> SUFFICES ASSUME NEW i \in 1 .. Len(r), NEW j \in 1 .. Len(r), place[i] = place[j], i # j
               PROVE  FALSE
    OBVIOUS
  <2>1. place[i] \in Nat /\ place[j] \in Nat
    BY <1>0, <1>4
  <2>2. i < j \/ j < i
    BY <1>3
  <2> QED  BY <1>4, <2>1, <2>2
<1>6. \A x : Contains(r, x) => Contains(b, x)
  BY <1>4 DEF Contains, n
<1>7. IsInjective(b) => IsInjective(r)
  BY <1>0, <1>3, <1>4, <1>5 DEF IsInjective
<1> QED  BY <1>0, <1>3, <1>6, <1>7

LEMMA TakenOutAt ==
  ASSUME NEW C, NEW b \in Seq(C), NEW i \in 1 .. Len(b)
  PROVE  LET r == RemoveAt(b, i) IN
         /\ r \in Seq(C)
         /\ \A x : Contains(r, x) => Contains(b, x)
         /\ \A x : Contains(b, x) /\ x # b[i] => Contains(r, x)
         /\ IsInjective(b) => IsInjective(r)
<1> DEFINE n == Len(b)
           r == RemoveAt(b, i)
           old(j) == IF j < i THEN j ELSE j + 1
<1>1. /\ n \in Nat /\ i \in 1 .. n /\ DOMAIN b = 1 .. n
      /\ r \in Seq(C) /\ Len(r) = n - 1 /\ DOMAIN r = 1 .. n - 1
  BY RemovedAt, LenProperties
<1>2. \A j \in 1 .. n - 1 : r[j] = IF j < i THEN b[j] ELSE b[j + 1]
  BY RemovedAt
<1> HIDE DEF r
<1>3. \A j \in 1 .. n - 1 : old(j) \in 1 .. n /\ r[j] = b[old(j)]
  BY <1>1, <1>2
<1>4. \A j, k \in 1 .. n - 1 : old(j) = old(k) => j = k
  BY <1>1
<1>5. ASSUME NEW x, Contains(b, x), x # b[i] PROVE Contains(r, x)
  <2>1. PICK k \in 1 .. n : b[k] = x
    BY <1>5 DEF Contains
  <2>2. k # i
    BY <1>5, <2>1
  <2>3. CASE k < i
    BY <2>1, <2>3, <1>1, <1>2 DEF Contains
  <2>4. CASE k > i
    <3>1. k - 1 \in 1 .. n - 1 /\ ~(k - 1 < i) /\ (k - 1) + 1 = k
      BY <2>4, <1>1
    <3> QED  BY <2>1, <3>1, <1>1, <1>2 DEF Contains
  <2> QED  BY <1>1, <2>2, <2>3, <2>4
<1> HIDE DEF old
<1>6. \A x : Contains(r, x) => Contains(b, x)
  BY <1>1, <1>3 DEF Contains, n
<1>7. IsInjective(b) => IsInjective(r)
  BY <1>1, <1>3, <1>4 DEF IsInjective
<1> USE DEF r
<1> QED  BY <1>1, <1>5, <1>6, <1>7

-----------------------------------------------------------------------------
(* A vector of instructions, one after the other. *)
EmitsUpTo(b, new, policy, after, i) ==
  after[i] = IF i = 0 THEN b
             ELSE reposition(Append(after[i - 1], new[i]), new[i], policy)

LEMMA EmittedUpToExists ==
  ASSUME NEW b, NEW new, NEW policy, NEW n \in Nat
  PROVE  \E after : \A i \in 0 .. n : EmitsUpTo(b, new, policy, after, i)
<1> DEFINE Exists(m) == \E after : \A i \in 0 .. m : EmitsUpTo(b, new, policy, after, i)
           S == {m \in Nat : Exists(m)}
<1>1. 0 \in S
  <2> DEFINE none == [i \in {0} |-> b]
  <2>1. none[0] = b
    OBVIOUS
  <2> HIDE DEF none
  <2>2. \A i \in 0 .. 0 : EmitsUpTo(b, new, policy, none, i)
    BY <2>1 DEF EmitsUpTo
  <2> QED  BY <2>2
<1>2. ASSUME NEW m \in Nat, m \in S PROVE m + 1 \in S
  <2>1. PICK after : \A i \in 0 .. m : EmitsUpTo(b, new, policy, after, i)
    BY <1>2
  <2> DEFINE next == reposition(Append(after[m], new[m + 1]), new[m + 1], policy)
             longer == [i \in 0 .. m + 1 |-> IF i = m + 1 THEN next ELSE after[i]]
  <2>2. longer[m + 1] = next /\ \A i \in 0 .. m : longer[i] = after[i]
    OBVIOUS
  <2> HIDE DEF longer
  <2>3. ASSUME NEW i \in 0 .. m PROVE EmitsUpTo(b, new, policy, longer, i)
    <3>1. EmitsUpTo(b, new, policy, after, i) /\ longer[i] = after[i]
      BY <2>1, <2>2
    <3>2. i # 0 => i - 1 \in 0 .. m
      OBVIOUS
    <3> QED  BY <3>1, <3>2, <2>2 DEF EmitsUpTo
  <2>4. EmitsUpTo(b, new, policy, longer, m + 1)
    <3>1. m + 1 # 0 /\ (m + 1) - 1 = m /\ m \in 0 .. m
      OBVIOUS
    <3> QED  BY <3>1, <2>2 DEF EmitsUpTo
  <2>5. \A i \in 0 .. m + 1 : EmitsUpTo(b, new, policy, longer, i)
    <3>1. \A i \in 0 .. m + 1 : i \in 0 .. m \/ i = m + 1
      OBVIOUS
    <3> QED  BY <3>1, <2>3, <2>4
  <2> QED  BY <2>5
<1>3. Nat \subseteq S
  <2> HIDE DEF S
  <2> QED  BY <1>1, <1>2, SetInduction
<1> QED  BY <1>3

LEMMA EmittedUpToDef ==
  ASSUME NEW b, NEW new, NEW policy, Len(new) \in Nat
  PROVE  \A i \in 0 .. Len(new) : EmitsUpTo(b, new, policy, EmittedUpTo(b, new, policy), i)
<1> DEFINE n == Len(new)
           Body(f) == [i \in 0 .. n |->
                         IF i = 0 THEN b
                         ELSE reposition(Append(f[i - 1], new[i]), new[i], policy)]
<1>1. PICK any : \A i \in 0 .. n : EmitsUpTo(b, new, policy, any, i)
  BY EmittedUpToExists
<1> DEFINE after == [i \in 0 .. n |-> any[i]]
<1>2. \A i \in 0 .. n : after[i] = any[i]
  OBVIOUS
<1>3. after = Body(after)
  <2>1. ASSUME NEW i \in 0 .. n
        PROVE  any[i] = IF i = 0 THEN b
                        ELSE reposition(Append(after[i - 1], new[i]), new[i], policy)
    <3>1. i # 0 => i - 1 \in 0 .. n
      OBVIOUS
    <3>2. i # 0 => after[i - 1] = any[i - 1]
      BY <3>1
    <3> HIDE DEF after
    <3> QED  BY <1>1, <3>2 DEF EmitsUpTo
  <2> QED  BY <2>1
<1> HIDE DEF after
<1>4. EmittedUpTo(b, new, policy) = Body(EmittedUpTo(b, new, policy))
  BY <1>3 DEF EmittedUpTo
<1> QED  BY <1>4 DEF EmitsUpTo

(* The block r after i instructions numbered from c + 1 were emitted into  *)
(* b, which had none of them.                                              *)
BatchDone(b, c, policy, i, r) ==
  /\ r \in Seq(Nat) /\ Len(r) = Len(b) + i
  /\ \A x : Contains(r, x) <=> (Contains(b, x) \/ x \in (c + 1) .. (c + i))
  /\ IsInjective(r)
  /\ policy = "Tail" => \A k \in 1 .. i : r[Len(b) + k] = c + k
  /\ policy = "BeforeTail" /\ Len(b) > 0 => \A k \in 1 .. i : r[(Len(b) - 1) + k] = c + k

LEMMA BatchGoesOn ==
  ASSUME NEW b \in Seq(Nat), NEW c \in Nat, NEW policy \in InsertPolicy, NEW i \in Nat, NEW r,
         \A x : Contains(b, x) => x \in 1 .. c, BatchDone(b, c, policy, i, r)
  PROVE  BatchDone(b, c, policy, i + 1,
                   reposition(Append(r, c + (i + 1)), c + (i + 1), policy))
<1> DEFINE m == c + (i + 1)
           r2 == reposition(Append(r, m), m, policy)
           a == anchor_for(r, policy)
<1>1. /\ r \in Seq(Nat) /\ Len(r) = Len(b) + i /\ Len(b) \in Nat /\ m \in Nat
      /\ IsInjective(r)
      /\ \A x : Contains(r, x) <=> (Contains(b, x) \/ x \in (c + 1) .. (c + i))
  BY LenProperties DEF BatchDone
<1>2. ~Contains(r, m)
  <2>1. m \notin 1 .. c /\ m \notin (c + 1) .. (c + i)
    OBVIOUS
  <2> QED  BY <1>1, <2>1
<1>3. a \in 0 .. Len(r) /\ r2 \in Seq(Nat) /\ Grown(r, a, m, r2)
  BY <1>1, <1>2, EmittedGrows
<1> HIDE DEF r2
<1>4. \A x : Contains(r2, x) <=> (x = m \/ Contains(r, x))
  BY <1>1, <1>3, GrownOnce
<1>9. IsInjective(r2)
  BY <1>1, <1>2, <1>3, GrownOnce
<1>5. \A x : Contains(r2, x) <=> (Contains(b, x) \/ x \in (c + 1) .. (c + (i + 1)))
  <2>0. (c + 1) .. (c + (i + 1)) = ((c + 1) .. (c + i)) \cup {c + (i + 1)}
    <3>1. ASSUME NEW p \in Int, NEW q \in Int, p <= q + 1
          PROVE  p .. (q + 1) = (p .. q) \cup {q + 1}
      BY <3>1
    <3>2. c + 1 \in Int /\ c + i \in Int /\ c + 1 <= (c + i) + 1 /\ c + (i + 1) = (c + i) + 1
      OBVIOUS
    <3> QED  BY <3>1, <3>2
  <2>1. \A x : x \in (c + 1) .. (c + (i + 1)) <=> (x = m \/ x \in (c + 1) .. (c + i))
    BY <2>0
  <2> HIDE DEF m
  <2> QED  BY <1>1, <1>4, <2>1
<1>6. /\ Len(r2) = Len(b) + (i + 1)
      /\ \A j \in 1 .. a : r2[j] = r[j]
      /\ r2[a + 1] = m
  <2>1. Grown(r, a, m, r2) /\ a \in 0 .. Len(r) /\ Len(r) = Len(b) + i /\ Len(b) \in Nat
    BY <1>1, <1>3
  <2> HIDE DEF a, m
  <2>2. Len(r2) = Len(r) + 1 /\ r2[a + 1] = m /\ \A j \in 1 .. a : r2[j] = r[j]
    BY <2>1 DEF Grown
  <2> QED  BY <2>1, <2>2
<1>7. ASSUME policy = "Tail", NEW k \in 1 .. i + 1
      PROVE  r2[Len(b) + k] = c + k
  <2>1. a = Len(b) + i
    BY <1>1, <1>7 DEF anchor_for
  <2>2. CASE k = i + 1
    <3>1. Len(b) + k = a + 1 /\ c + k = m
      BY <2>1, <2>2, <1>1
    <3> QED  BY <3>1, <1>6
  <2>3. CASE k # i + 1
    <3>1. k \in 1 .. i /\ Len(b) + k \in 1 .. a
      BY <2>1, <2>3, <1>1
    <3> QED  BY <3>1, <1>6, <1>7 DEF BatchDone
  <2> QED  BY <2>2, <2>3
<1>8. ASSUME policy = "BeforeTail", Len(b) > 0, NEW k \in 1 .. i + 1
      PROVE  r2[(Len(b) - 1) + k] = c + k
  <2>0. r # << >>
    <3>1. Len(<< >>) = 0
      BY EmptySeq
    <3> QED  BY <3>1, <1>1, <1>8
  <2>1. a = (Len(b) - 1) + i
    BY <1>1, <1>8, <2>0 DEF anchor_for
  <2>2. CASE k = i + 1
    <3>1. (Len(b) - 1) + k = a + 1 /\ c + k = m
      BY <2>1, <2>2, <1>1
    <3> QED  BY <3>1, <1>6
  <2>3. CASE k # i + 1
    <3>1. k \in 1 .. i /\ (Len(b) - 1) + k \in 1 .. a
      BY <2>1, <2>3, <1>1, <1>8
    <3> QED  BY <3>1, <1>6, <1>8 DEF BatchDone
  <2> QED  BY <2>2, <2>3
<1> QED  BY <1>3, <1>5, <1>6, <1>7, <1>8, <1>9 DEF BatchDone, r2

LEMMA BatchEmitted ==
  ASSUME NEW b \in Seq(Nat), NEW c \in Nat, NEW policy \in InsertPolicy, NEW done \in Nat,
         \A x : Contains(b, x) => x \in 1 .. c, IsInjective(b)
  PROVE  BatchDone(b, c, policy, done, Emitted(b, [i \in 1 .. done |-> c + i], policy))
<1> DEFINE new == [i \in 1 .. done |-> c + i]
           f == EmittedUpTo(b, new, policy)
           S == {i \in Nat : i <= done => BatchDone(b, c, policy, i, f[i])}
<1>1. Len(new) = done /\ \A i \in 1 .. done : new[i] = c + i
  OBVIOUS
<1> HIDE DEF new
<1>2. \A i \in 0 .. done : EmitsUpTo(b, new, policy, f, i)
  BY <1>1, EmittedUpToDef
<1>3. Emitted(b, new, policy) = f[done]
  BY <1>1 DEF Emitted
<1> HIDE DEF f
<1>4. 0 \in S
  <2>1. f[0] = b
    BY <1>2 DEF EmitsUpTo
  <2>2. Len(b) \in Nat /\ (c + 1) .. (c + 0) = {}
    BY LenProperties
  <2>3. BatchDone(b, c, policy, 0, b)
    BY <2>2 DEF BatchDone
  <2> QED  BY <2>1, <2>3
<1>5. ASSUME NEW i \in Nat, i \in S PROVE i + 1 \in S
  <2> SUFFICES ASSUME i + 1 <= done PROVE BatchDone(b, c, policy, i + 1, f[i + 1])
    OBVIOUS
  <2>1. BatchDone(b, c, policy, i, f[i])
    BY <1>5
  <2>2. i + 1 \in 0 .. done /\ i + 1 # 0 /\ (i + 1) - 1 = i /\ i + 1 \in 1 .. done
    OBVIOUS
  <2>3. f[i + 1] = reposition(Append(f[i], new[i + 1]), new[i + 1], policy)
    BY <1>2, <2>2 DEF EmitsUpTo
  <2>4. new[i + 1] = c + (i + 1)
    BY <1>1, <2>2
  <2> QED  BY <2>1, <2>3, <2>4, BatchGoesOn
<1>6. Nat \subseteq S
  <2> HIDE DEF S
  <2> QED  BY <1>4, <1>5, SetInduction
<1>7. BatchDone(b, c, policy, done, f[done])
  BY <1>6
<1> QED  BY <1>3, <1>7 DEF new

-----------------------------------------------------------------------------
(* The invariant of a block: its instructions were created, each once.     *)
BlockInv ==
  /\ BlockTypeOK
  /\ IsInjective(block)
  /\ Range(block) \subseteq 1 .. created
  /\ last_emitted # 0 /\ applying => Contains(block, last_emitted)

(* What every emission does: the block has the new instructions, each once,*)
(* and what it had; the last emitted one, if it changes, is in the block.  *)
Emits(n) ==
  /\ created' = created + n
  /\ created' \in 0 .. MaxInstructions
  /\ block' \in Seq(Nat) /\ IsInjective(block')
  /\ \A x : Contains(block', x) <=> (Contains(block, x) \/ x \in (created + 1) .. created')

LEMMA EmitsInv ==
  ASSUME BlockInv, NEW n \in Nat, Emits(n),
         last_emitted' \in {last_emitted, 0} \/ (n > 0 /\ last_emitted' = created'),
         applying' \in BOOLEAN, applying' => applying,
         emitted_noop' \in BOOLEAN, answer' \in {"none", "MERR_OK", "MERR_INSN"},
         kept' = kept
  PROVE  BlockInv'
<1>1. /\ block \in Seq(Nat) /\ created \in Nat /\ created' \in Nat /\ created <= created'
      /\ Instruction = 1 .. MaxInstructions
  <2>1. Instruction \subseteq Nat /\ block \in Seq(Instruction)
    BY DEF BlockInv, BlockTypeOK, Instruction
  <2>2. block \in Seq(Nat)
    BY <2>1, SeqMonotonic
  <2> QED  BY <2>2, BlockAssumption DEF BlockInv, BlockTypeOK, Emits, Instruction
<1>2. Range(block') \subseteq 1 .. created'
  <2> SUFFICES ASSUME NEW x \in Range(block') PROVE x \in 1 .. created'
    OBVIOUS
  <2>1. Contains(block', x)
    BY InRange DEF Emits
  <2>2. x \in Range(block) \/ x \in (created + 1) .. created'
    BY <1>1, <2>1, InRange DEF Emits
  <2> QED  BY <1>1, <2>2 DEF BlockInv
<1>3. block' \in Seq(Instruction)
  <2>1. Range(block') \subseteq Instruction
    <3>1. MaxInstructions \in Nat /\ created' \in 0 .. MaxInstructions
      BY BlockAssumption DEF Emits
    <3>2. 1 .. created' \subseteq Instruction
      BY <1>1, <3>1
    <3> QED  BY <1>2, <3>2
  <2> QED  BY <2>1, SeqOfElements DEF Emits
<1>4. last_emitted' # 0 /\ applying' => Contains(block', last_emitted')
  <2>1. CASE last_emitted' \in {last_emitted, 0}
    BY <2>1 DEF BlockInv, Emits
  <2>2. CASE n > 0 /\ last_emitted' = created'
    <3>1. created' \in (created + 1) .. created'
      BY <1>1, <2>2 DEF Emits
    <3> QED  BY <2>2, <3>1 DEF Emits
  <2> QED  BY <2>1, <2>2
<1>5. last_emitted' \in Instruction \cup {0}
  <2>1. CASE last_emitted' \in {last_emitted, 0}
    BY <2>1 DEF BlockInv, BlockTypeOK
  <2>2. CASE n > 0 /\ last_emitted' = created'
    BY <1>1, <2>2 DEF Emits
  <2> QED  BY <2>1, <2>2
<1> QED
  BY <1>2, <1>3, <1>4, <1>5 DEF BlockInv, BlockTypeOK, Emits

LEMMA BlockUnfolds ==
  ASSUME BlockInv
  PROVE  /\ block \in Seq(Nat) /\ created \in Nat /\ IsInjective(block)
         /\ created \in 0 .. MaxInstructions
         /\ \A x : Contains(block, x) => x \in 1 .. created
         /\ applying \in BOOLEAN /\ emitted_noop \in BOOLEAN
         /\ answer \in {"none", "MERR_OK", "MERR_INSN"}
<1>1. Instruction \subseteq Nat /\ block \in Seq(Instruction)
  BY DEF BlockInv, BlockTypeOK, Instruction
<1>2. block \in Seq(Nat)
  BY <1>1, SeqMonotonic
<1>3. \A x : Contains(block, x) => x \in 1 .. created
  BY <1>2, InRange DEF BlockInv
<1>4. created \in 0 .. MaxInstructions /\ created \in Nat
  BY BlockAssumption DEF BlockInv, BlockTypeOK
<1>5. applying \in BOOLEAN /\ emitted_noop \in BOOLEAN
  BY Zenon DEF BlockInv, BlockTypeOK
<1> QED  BY <1>2, <1>3, <1>4, <1>5, Zenon DEF BlockInv, BlockTypeOK

(* One instruction, put anywhere. *)
LEMMA OneEmitted ==
  ASSUME BlockInv, RoomFor(1), created' = created + 1, block' \in Seq(Nat),
         NEW a, Grown(block, a, created', block')
  PROVE  Emits(1)
<1>1. /\ block \in Seq(Nat) /\ created \in Nat /\ IsInjective(block)
      /\ \A x : Contains(block, x) => x \in 1 .. created
  BY BlockUnfolds
<1>2. ~Contains(block, created') /\ (created + 1) .. created' = {created'}
  BY <1>1
<1>3. /\ \A x : Contains(block', x) <=> (x = created' \/ Contains(block, x))
      /\ IsInjective(block')
  BY <1>1, <1>2, GrownOnce
<1>4. created' \in 0 .. MaxInstructions
  BY <1>1, BlockAssumption DEF RoomFor
<1> QED  BY <1>2, <1>3, <1>4 DEF Emits

LEMMA NewIsNew ==
  ASSUME BlockInv
  PROVE  /\ block \in Seq(Nat) /\ created + 1 \in Nat
         /\ ~Contains(block, created + 1)
<1>1. /\ block \in Seq(Nat) /\ created \in Nat
      /\ \A x : Contains(block, x) => x \in 1 .. created
  BY BlockUnfolds
<1> QED  BY <1>1

LEMMA EmitEmits ==
  ASSUME BlockInv, NEW policy \in InsertPolicy, NEW noop, Emit(policy, noop)
  PROVE  /\ Emits(1)
         /\ Grown(block, anchor_for(block, policy), created', block')
<1>1. block \in Seq(Nat) /\ created + 1 \in Nat /\ ~Contains(block, created + 1)
  BY NewIsNew
<1>2. block' \in Seq(Nat) /\ Grown(block, anchor_for(block, policy), created', block')
  BY <1>1, EmittedGrows DEF Emit
<1> QED  BY <1>2, OneEmitted DEF Emit

LEMMA EmitCallEmits ==
  ASSUME BlockInv, NEW policy \in InsertPolicy, EmitCall(policy)
  PROVE  /\ Emits(1)
         /\ Grown(block, anchor_for(block, policy), created', block')
<1>1. block \in Seq(Nat) /\ created + 1 \in Nat /\ ~Contains(block, created + 1)
  BY NewIsNew
<1>2. anchor_for(block, policy) \in 0 .. Len(block)
  BY <1>1, EmittedGrows
<1>3. block' \in Seq(Nat) /\ Grown(block, anchor_for(block, policy), created', block')
  BY <1>1, <1>2, InsertGrows DEF EmitCall, InsertAfter
<1> QED  BY <1>3, OneEmitted DEF EmitCall

LEMMA AppendEmits ==
  ASSUME BlockInv, RoomFor(1), created' = created + 1, block' = Append(block, created')
  PROVE  Emits(1)
<1>1. block \in Seq(Nat) /\ created + 1 \in Nat
  BY NewIsNew
<1>2. block' \in Seq(Nat) /\ Grown(block, Len(block), created', block')
  BY <1>1, AppendGrows
<1> QED  BY <1>2, OneEmitted

LEMMA BatchEmits ==
  ASSUME BlockInv, NEW policy \in InsertPolicy, NEW done \in 1 .. MaxBatch,
         EmitBatch(policy, done)
  PROVE  Emits(done) /\ BatchDone(block, created, policy, done, block')
<1>1. /\ block \in Seq(Nat) /\ created \in Nat /\ IsInjective(block)
      /\ \A x : Contains(block, x) => x \in 1 .. created
  BY BlockUnfolds
<1>2. done \in Nat
  BY BlockAssumption
<1>3. block' = Emitted(block, [i \in 1 .. done |-> created + i], policy)
  BY DEF EmitBatch
<1>4. BatchDone(block, created, policy, done, block')
  BY <1>1, <1>2, <1>3, BatchEmitted
<1>5. created' = created + done /\ created' \in 0 .. MaxInstructions
  BY <1>1, <1>2, BlockAssumption DEF EmitBatch, RoomFor
<1> QED  BY <1>4, <1>5 DEF Emits, BatchDone

LEMMA RemovedInv ==
  ASSUME BlockInv, UNCHANGED <<created, applying, emitted_noop, kept, answer>>,
         block' \in Seq(Nat), \A x : Contains(block', x) => Contains(block, x),
         IsInjective(block'),
         last_emitted' = 0 \/ (last_emitted' = last_emitted
                               /\ (Contains(block, last_emitted) => Contains(block', last_emitted)))
  PROVE  BlockInv'
<1>1. block \in Seq(Nat) /\ block \in Seq(Instruction)
  BY BlockUnfolds DEF BlockInv, BlockTypeOK
<1>2. Range(block') \subseteq Range(block)
  BY <1>1, InRange
<1>3. Range(block) \subseteq Instruction
  BY <1>1, InRange, ElementOfSeq DEF Contains
<1>4. block' \in Seq(Instruction)
  BY <1>2, <1>3, SeqOfElements
<1> QED  BY <1>2, <1>4 DEF BlockInv, BlockTypeOK

LEMMA BlockStep == BlockInv /\ [BlockNext]_bvars => BlockInv'
<1> SUFFICES ASSUME BlockInv, [BlockNext]_bvars PROVE BlockInv'
  OBVIOUS
<1> USE DEF context
<1>0. /\ block \in Seq(Nat) /\ IsInjective(block) /\ applying \in BOOLEAN
      /\ emitted_noop \in BOOLEAN /\ answer \in {"none", "MERR_OK", "MERR_INSN"}
  BY BlockUnfolds
<1>1. CASE Lift
  <2>1. Emits(1)
    BY <1>1, AppendEmits DEF Lift
  <2> QED  BY <1>0, <1>1, <2>1, EmitsInv DEF Lift
<1>2. CASE CallApply
  BY <1>2 DEF CallApply, BlockInv, BlockTypeOK
<1>3. ASSUME NEW policy \in InsertPolicy, NEW noop \in BOOLEAN, Emit(policy, noop)
      PROVE  BlockInv'
  <2>1. Emits(1)
    BY <1>3, EmitEmits
  <2> QED  BY <1>0, <1>3, <2>1, EmitsInv DEF Emit
<1>4. ASSUME NEW policy \in InsertPolicy, NEW width,
             \/ emit_move_register(policy, width)
             \/ emit_load_memory_register(policy, width, 8)
             \/ emit_store_memory_register(policy, 4, width)
      PROVE  BlockInv'
  BY <1>3, <1>4 DEF emit_move_register, emit_load_memory_register, emit_store_memory_register
<1>5. ASSUME NEW policy \in InsertPolicy, EmitCall(policy) PROVE BlockInv'
  <2>1. Emits(1)
    BY <1>5, EmitCallEmits
  <2> QED  BY <1>0, <1>5, <2>1, EmitsInv DEF EmitCall
<1>6. ASSUME NEW policy \in InsertPolicy, EmitNotInserted(policy) PROVE BlockInv'
  BY <1>6, BlockAssumption DEF EmitNotInserted, RoomFor, BlockInv, BlockTypeOK
<1>7. ASSUME NEW policy \in InsertPolicy, NEW done \in 1 .. MaxBatch, EmitBatch(policy, done)
      PROVE  BlockInv'
  <2>1. Emits(done) /\ done \in Nat /\ done > 0
    BY <1>7, BatchEmits
  <2>2. emitted_noop' \in BOOLEAN
    BY <1>0, <1>7 DEF EmitBatch
  <2> QED  BY <1>0, <1>7, <2>1, <2>2, EmitsInv DEF EmitBatch
<1>8. CASE EmitUntracked
  <2>1. Emits(1)
    BY <1>8, AppendEmits DEF EmitUntracked
  <2> QED  BY <1>0, <1>8, <2>1, EmitsInv DEF EmitUntracked
<1>9. CASE remove_last_emitted_instruction
  <2>1. /\ block' \in Seq(Nat) /\ IsInjective(block')
        /\ \A x : Contains(block', x) => Contains(block, x)
    BY <1>0, <1>9, TakenOut DEF remove_last_emitted_instruction
  <2> QED  BY <1>9, <2>1, RemovedInv DEF remove_last_emitted_instruction
<1>10. ASSUME NEW i \in DOMAIN block, remove_instruction_at_index(i) PROVE BlockInv'
  <2>1. i \in 1 .. Len(block)
    BY <1>0, LenProperties
  <2>2. /\ block' \in Seq(Nat) /\ IsInjective(block')
        /\ \A x : Contains(block', x) => Contains(block, x)
        /\ \A x : Contains(block, x) /\ x # block[i] => Contains(block', x)
    BY <1>0, <1>10, <2>1, TakenOutAt DEF remove_instruction_at_index
  <2> QED  BY <1>10, <2>2, RemovedInv DEF remove_instruction_at_index
<1>11. CASE ReturnHandled
  <2>1. CASE emitted_noop
    BY <1>11, <2>1 DEF ReturnHandled, BlockInv, BlockTypeOK
  <2>2. CASE ~emitted_noop
    <3>1. Emits(1)
      BY <1>11, <2>2, AppendEmits DEF ReturnHandled
    <3> QED  BY <1>0, <1>11, <2>2, <3>1, EmitsInv DEF ReturnHandled
  <2> QED  BY <2>1, <2>2
<1>12. CASE ReturnOtherwise
  BY <1>12 DEF ReturnOtherwise, BlockInv, BlockTypeOK
<1>13. CASE UNCHANGED bvars
  BY <1>13 DEF bvars, BlockInv, BlockTypeOK
<1> QED
  BY <1>1, <1>2, <1>3, <1>4, <1>5, <1>6, <1>7, <1>8, <1>9, <1>10, <1>11, <1>12, <1>13
     DEF BlockNext

LEMMA BlockStart == BlockInit => BlockInv
<1> SUFFICES ASSUME BlockInit PROVE BlockInv
  OBVIOUS
<1>1. << >> \in Seq(Instruction) /\ DOMAIN << >> = {}
  BY EmptySeq
<1>2. block = << >> /\ kept = << >> /\ last_emitted = 0
  BY DEF BlockInit
<1>3. 0 \in 0 .. MaxInstructions
  BY BlockAssumption
<1>4. BlockTypeOK
  BY <1>1, <1>2, <1>3 DEF BlockInit, BlockTypeOK
<1>5. IsInjective(block) /\ Range(block) = {}
  BY <1>1, <1>2 DEF IsInjective, Range
<1> QED  BY <1>2, <1>4, <1>5 DEF BlockInv

(* However a filter emits, whatever the SDK refuses and whatever the filter *)
(* takes away again, the instruction its context tracks is in the block.    *)
THEOREM LastEmittedIsThere == BlockSpec => []LastEmittedInBlock
<1>1. BlockInv => LastEmittedInBlock
  BY DEF BlockInv, LastEmittedInBlock
<1> QED  BY <1>1, BlockStart, BlockStep, PTL DEF BlockSpec

(* The three places of an instruction. *)
LEMMA PlacesAreThree ==
  ASSUME NEW b \in Seq(Nat), NEW m \in Nat, NEW policy \in InsertPolicy, NEW r \in Seq(Nat),
         Grown(b, anchor_for(b, policy), m, r)
  PROVE  CASE policy = "Tail" -> r = Append(b, m)
           [] policy = "Beginning" -> r = <<m>> \o b
           [] policy = "BeforeTail" ->
                IF b = << >> THEN r = <<m>> ELSE r = Front(b) \o <<m, Last(b)>>
<1>0. Len(b) \in Nat /\ \A i \in 1 .. Len(b) : b[i] \in Nat
  BY LenProperties, ElementOfSeq
<1>1. CASE policy = "Tail"
  <2>1. anchor_for(b, policy) = Len(b)
    BY <1>1 DEF anchor_for
  <2>2. Append(b, m) \in Seq(Nat) /\ Grown(b, Len(b), m, Append(b, m))
    BY AppendGrows
  <2>3. r = Append(b, m)
    BY <2>1, <2>2, GrownIsOne
  <2> QED  BY <1>1, <2>3
<1>2. CASE policy = "Beginning"
  <2>1. anchor_for(b, policy) = 0
    BY <1>2 DEF anchor_for
  <2>2. <<m>> \in Seq(Nat) /\ Len(<<m>>) = 1 /\ <<m>>[1] = m
    OBVIOUS
  <2>3. /\ <<m>> \o b \in Seq(Nat) /\ Len(<<m>> \o b) = Len(<<m>>) + Len(b)
        /\ \A j \in 1 .. Len(<<m>>) + Len(b) :
             (<<m>> \o b)[j] = IF j <= Len(<<m>>) THEN <<m>>[j] ELSE b[j - Len(<<m>>)]
    BY <2>2, ConcatProperties
  <2> DEFINE q == <<m>> \o b
  <2> HIDE DEF q
  <2>4. Len(q) = Len(b) + 1
    BY <1>0, <2>2, <2>3 DEF q
  <2>5. ASSUME NEW j \in 1 .. Len(b) + 1
        PROVE  q[j] = IF j <= 0 THEN b[j] ELSE IF j = 0 + 1 THEN m ELSE b[j - 1]
    <3>1. j \in 1 .. Len(<<m>>) + Len(b) /\ ~(j <= 0)
      BY <1>0, <2>2
    <3>2. q[j] = IF j <= 1 THEN <<m>>[j] ELSE b[j - 1]
      BY <2>2, <2>3, <3>1 DEF q
    <3> QED  BY <2>2, <3>1, <3>2
  <2>6. q \in Seq(Nat) /\ Grown(b, 0, m, q)
    BY <1>0, <2>3, <2>4, <2>5 DEF Grown, q
  <2>7. r = q
    BY <2>1, <2>6, GrownIsOne
  <2> QED  BY <1>2, <2>7 DEF q
<1>3. CASE policy = "BeforeTail" /\ b = << >>
  <2>1. anchor_for(b, policy) = 0 /\ Len(b) = 0
    BY <1>3, EmptySeq DEF anchor_for
  <2>2. Len(r) = 1 /\ r[1] = m
    BY <2>1 DEF Grown
  <2>3. <<m>> \in Seq(Nat) /\ Len(<<m>>) = 1 /\ <<m>>[1] = m
    OBVIOUS
  <2>4. Len(r) = Len(<<m>>) /\ \A i \in 1 .. Len(r) : r[i] = <<m>>[i]
    BY <2>2, <2>3
  <2>5. r = <<m>>
    BY <2>3, <2>4, SeqEqual
  <2> QED  BY <1>3, <2>5
<1>4. CASE policy = "BeforeTail" /\ b # << >>
  <2> DEFINE n == Len(b)
             f == Front(b)
             e == <<m, Last(b)>>
  <2>1. n > 0 /\ anchor_for(b, policy) = n - 1
    BY <1>0, <1>4, EmptySeq DEF anchor_for
  <2>2. f \in Seq(Nat) /\ Len(f) = n - 1 /\ \A i \in 1 .. n - 1 : f[i] = b[i]
    BY <1>4, FrontOfSeq
  <2>3. e \in Seq(Nat) /\ Len(e) = 2 /\ e[1] = m /\ e[2] = b[n]
    <3>1. b[n] \in Nat
      BY <1>0, <2>1
    <3> QED  BY <3>1 DEF Last
  <2> HIDE DEF f, e
  <2>4. /\ f \o e \in Seq(Nat) /\ Len(f \o e) = Len(f) + Len(e)
        /\ \A j \in 1 .. Len(f) + Len(e) :
             (f \o e)[j] = IF j <= Len(f) THEN f[j] ELSE e[j - Len(f)]
    BY <2>2, <2>3, ConcatProperties
  <2> DEFINE q == f \o e
  <2> HIDE DEF q
  <2>5. q \in Seq(Nat) /\ Len(q) = n + 1
    BY <1>0, <2>2, <2>3, <2>4 DEF q
  <2>6. ASSUME NEW j \in 1 .. n + 1
        PROVE  q[j] = IF j <= n - 1 THEN b[j] ELSE IF j = (n - 1) + 1 THEN m ELSE b[j - 1]
    <3>1. j \in 1 .. Len(f) + Len(e)
      BY <1>0, <2>2, <2>3
    <3>2. q[j] = IF j <= n - 1 THEN f[j] ELSE e[j - (n - 1)]
      BY <2>2, <2>4, <3>1 DEF q
    <3>3. CASE j <= n - 1
      BY <1>0, <2>2, <3>2, <3>3
    <3>4. CASE j = n
      <4>1. j - (n - 1) = 1 /\ ~(j <= n - 1) /\ j = (n - 1) + 1
        BY <1>0, <3>4
      <4> QED  BY <2>3, <3>2, <4>1
    <3>5. CASE j = n + 1
      <4>1. j - (n - 1) = 2 /\ ~(j <= n - 1) /\ j # (n - 1) + 1 /\ j - 1 = n
        BY <1>0, <3>5
      <4> QED  BY <2>3, <3>2, <4>1
    <3>6. j <= n - 1 \/ j = n \/ j = n + 1
      BY <1>0
    <3> QED  BY <3>3, <3>4, <3>5, <3>6
  <2>7. Grown(b, n - 1, m, q)
    BY <1>0, <2>1, <2>5, <2>6 DEF Grown
  <2>8. r = q
    BY <2>1, <2>5, <2>7, GrownIsOne
  <2> QED  BY <1>4, <2>8 DEF q, f, e
<1> QED  BY <1>1, <1>2, <1>3, <1>4 DEF InsertPolicy

(* An instruction that is emitted stands where its policy says, in any     *)
(* block and after any history.                                            *)
THEOREM PoliciesPlace == BlockSpec => PlacedByPolicy
<1>1. ASSUME BlockInv, NEW policy \in InsertPolicy, NEW noop \in BOOLEAN,
             Emit(policy, noop) \/ EmitCall(policy)
      PROVE  StandsByPolicy(policy)
  <2>1. Emits(1) /\ Grown(block, anchor_for(block, policy), created', block')
    BY <1>1, EmitEmits, EmitCallEmits
  <2>2. block \in Seq(Nat) /\ block' \in Seq(Nat) /\ created' \in Nat
    BY <1>1, <2>1, BlockUnfolds DEF Emits
  <2> QED  BY <2>1, <2>2, PlacesAreThree DEF StandsByPolicy
<1>2. BlockInv => \A policy \in InsertPolicy, noop \in BOOLEAN :
                    Emit(policy, noop) \/ EmitCall(policy) => StandsByPolicy(policy)
  BY <1>1
<1> QED  BY <1>2, BlockStart, BlockStep, PTL DEF BlockSpec, PlacedByPolicy

(* The instructions of a vector of any length stand in its order, next to  *)
(* each other, at the tail or before the tail of a block that has one.     *)
THEOREM BatchesKeepOrder == BlockSpec => BatchInOrder
<1>1. ASSUME BlockInv, NEW policy \in InsertPolicy \ {"Beginning"},
             NEW done \in 1 .. MaxBatch, EmitBatch(policy, done),
             policy = "BeforeTail" => block # << >>
      PROVE  StandInOrder(done)
  <2>1. BatchDone(block, created, policy, done, block')
    BY <1>1, BatchEmits
  <2>2. block \in Seq(Nat) /\ Len(block) \in Nat /\ done \in Nat
    BY <1>1, BlockUnfolds, LenProperties, BlockAssumption
  <2>3. Len(block') - done = Len(block)
    BY <2>1, <2>2 DEF BatchDone
  <2>4. CASE policy = "Tail"
    <3>1. Len(block) \in 0 .. Len(block') - done
      BY <2>2, <2>3
    <3> QED  BY <2>1, <2>4, <3>1 DEF BatchDone, StandInOrder
  <2>5. CASE policy = "BeforeTail"
    <3>1. Len(block) > 0
      BY <1>1, <2>2, <2>5, EmptySeq
    <3>2. Len(block) - 1 \in 0 .. Len(block') - done
      BY <2>2, <2>3, <3>1
    <3> QED  BY <2>1, <2>5, <3>1, <3>2 DEF BatchDone, StandInOrder
  <2> QED  BY <1>1, <2>4, <2>5 DEF InsertPolicy
<1>2. BlockInv =>
        \A policy \in InsertPolicy \ {"Beginning"}, done \in 1 .. MaxBatch :
           EmitBatch(policy, done) /\ (policy = "BeforeTail" => block # << >>)
             => StandInOrder(done)
  BY <1>1
<1> QED  BY <1>2, BlockStart, BlockStep, PTL DEF BlockSpec, BatchInOrder

(***************************************************************************)
(* HelperCalls: the layout of arguments on the stack.  The loop that       *)
(* builds the arguments keeps the next free offset above everything it has *)
(* placed, whatever each argument adds to it.                              *)
(***************************************************************************)
Sizes == [type : Int, size : Int]
MicroArgument ==
  [type : Int, size : Int, automatic : BOOLEAN, flags : SUBSET MicrocodeArgumentFlags,
   alignment : Nat \ {0}, where : MicrocodeValueLocation]
Built == [arguments : Seq(MicroArgument), offset : Nat, explicit : BOOLEAN]
DoneSet == {Refused} \cup {<<b>> : b \in Built}

LEMMA OneIsNotNone ==
  ASSUME NEW b
  PROVE  <<b>> # << >> /\ <<b>>[1] = b
OBVIOUS

LEMMA DoneOne ==
  ASSUME NEW done \in DoneSet, done # Refused
  PROVE  /\ done[1] \in Built /\ done = <<done[1]>>
         /\ done[1].arguments \in Seq(MicroArgument)
         /\ done[1].offset \in Nat /\ done[1].explicit \in BOOLEAN
<1>1. PICK b \in Built : done = <<b>>
  BY DEF DoneSet
<1>2. done[1] = b
  BY <1>1, OneIsNotNone
<1> QED
  BY <1>1, <1>2 DEF Built

-----------------------------------------------------------------------------
(* The sizes of an argument are numbers. *)
TypedOrRefused(t) == t # Refused => t[1] \in Sizes

LEMMA TypedSizes ==
  ASSUME NEW a \in Int, NEW b \in Int
  PROVE  TypedOrRefused(Typed(a, b))
<1>1. Typed(a, b)[1] = [type |-> a, size |-> b]
  BY OneIsNotNone DEF Typed
<1> QED
  BY <1>1 DEF TypedOrRefused, Sizes

LEMMA RefusedIsTyped == TypedOrRefused(Refused)
BY DEF TypedOrRefused

LEMMA InferredTyped ==
  ASSUME NEW width \in Int
  PROVE  TypedOrRefused(infer_typed_value_type(width))
BY TypedSizes, RefusedIsTyped DEF infer_typed_value_type

LEMMA DeclarationTyped ==
  ASSUME NEW declaration \in Int, NEW width \in Int, NEW inferred, TypedOrRefused(inferred)
  PROVE  TypedOrRefused(WithDeclaration(declaration, width, inferred))
BY TypedSizes, RefusedIsTyped DEF WithDeclaration

LEMMA OperandTyped ==
  ASSUME NEW x, x.width \in Int, x.declaration \in Int
  PROVE  TypedOrRefused(OperandArgument(x))
BY TypedSizes, RefusedIsTyped, InferredTyped, HelperCallsAssumption DEF OperandArgument

LEMMA VectorTyped ==
  ASSUME NEW x \in MicrocodeValue, NEW auto
  PROVE  TypedOrRefused(vector_argument(x, auto))
<1> DEFINE widths == IF x.kind = "Vector" THEN IntegerWidth ELSE {4, 8}
           basis == IF x.element \in widths THEN Typed(x.element, x.element) ELSE Refused
           element == WithDeclaration(x.declaration, x.element, basis)
           e == element[1].size
           n == IF x.count > 0 THEN x.count
                ELSE IF e > 0 /\ x.width > 0 /\ x.width % e = 0 THEN x.width \div e
                ELSE 0
           total == IF e > 0 THEN n * e ELSE BadSize
<1>1. x.element \in Int /\ x.declaration \in Int /\ x.count \in Int /\ x.width \in Int
  BY DEF MicrocodeValue
<1>2. TypedOrRefused(basis)
  BY <1>1, TypedSizes, RefusedIsTyped
<1>3. TypedOrRefused(element)
  <2> HIDE DEF basis
  <2> QED
    BY <1>1, <1>2, DeclarationTyped
<1>4. CASE element = Refused
  BY <1>4, RefusedIsTyped DEF vector_argument
<1>5. CASE element # Refused
  <2>1. e \in Int
    BY <1>3, <1>5 DEF TypedOrRefused, Sizes
  <2>2. vector_argument(x, auto) \in {Refused, Typed(total, 0)}
    BY <1>5 DEF vector_argument
  <2> HIDE DEF e
  <2>3. n \in Int
    BY <1>1, <2>1
  <2> HIDE DEF n
  <2>4. total \in Int
    BY <2>1, <2>3 DEF BadSize
  <2> HIDE DEF total
  <2> QED
    BY <2>2, <2>4, TypedSizes, RefusedIsTyped
<1> QED
  BY <1>4, <1>5

LEMMA ArgumentTyped ==
  ASSUME NEW x \in MicrocodeValue, NEW auto
  PROVE  TypedOrRefused(build_argument(x, auto))
<1>1. /\ x.width \in Int /\ x.declaration \in Int /\ x.id \in Int
      /\ x.kind \in MicrocodeValueKinds
  BY DEF MicrocodeValue
<1>2. TypedOrRefused(register_argument(x))
  BY <1>1, InferredTyped, DeclarationTyped, RefusedIsTyped DEF register_argument
<1>3. TypedOrRefused(register_pair_argument(x))
  BY <1>1, InferredTyped, DeclarationTyped, RefusedIsTyped DEF register_pair_argument
<1>4. TypedOrRefused(OperandArgument(x))
  BY <1>1, OperandTyped
<1>5. TypedOrRefused(nested_instruction_argument(x))
  <2> DEFINE y == [x EXCEPT !.width = IF @ > 0 THEN @ ELSE OperandWidth]
  <2>1. y.width \in Int /\ y.declaration \in Int
    BY <1>1, HelperCallsAssumption DEF MicrocodeValue
  <2>2. TypedOrRefused(OperandArgument(y))
    <3> HIDE DEF y
    <3> QED
      BY <2>1, OperandTyped
  <2> QED
    BY <2>2, RefusedIsTyped DEF nested_instruction_argument
<1>6. TypedOrRefused(immediate_argument(x))
  <2> DEFINE basis == IF x.width \in IntegerWidth THEN Typed(x.width, x.width) ELSE Refused
  <2>1. TypedOrRefused(basis)
    BY <1>1, TypedSizes, RefusedIsTyped
  <2>2. immediate_argument(x) = WithDeclaration(x.declaration, x.width, basis)
    BY DEF immediate_argument
  <2> HIDE DEF basis
  <2> QED
    BY <1>1, <2>1, <2>2, DeclarationTyped
<1>7. TypedOrRefused(float_argument(x, 4)) /\ TypedOrRefused(float_argument(x, 8))
  BY TypedSizes, RefusedIsTyped DEF float_argument
<1>8. TypedOrRefused(byte_array_argument(x, auto))
  BY <1>1, TypedSizes, RefusedIsTyped DEF byte_array_argument
<1>9. TypedOrRefused(type_declaration_argument(x, auto))
  BY <1>1, TypedSizes, RefusedIsTyped DEF type_declaration_argument
<1>10. build_argument(x, auto) \in
         {register_argument(x), register_pair_argument(x), local_variable_argument(x),
          global_address_argument(x), stack_variable_argument(x),
          helper_reference_argument(x), block_reference_argument(x),
          nested_instruction_argument(x), immediate_argument(x), float_argument(x, 4),
          float_argument(x, 8), byte_array_argument(x, auto), vector_argument(x, auto),
          type_declaration_argument(x, auto)}
  BY <1>1 DEF build_argument, MicrocodeValueKinds
<1>11. \A a \in {local_variable_argument(x), global_address_argument(x),
                 stack_variable_argument(x), helper_reference_argument(x),
                 block_reference_argument(x)} : TypedOrRefused(a)
  BY <1>4, RefusedIsTyped
     DEF local_variable_argument, global_address_argument, stack_variable_argument,
         helper_reference_argument, block_reference_argument
<1> QED
  BY <1>2, <1>3, <1>5, <1>6, <1>7, <1>8, <1>9, <1>10, <1>11, VectorTyped

-----------------------------------------------------------------------------
(* Alignments, and the next offset that has one. *)
LEMMA AlignmentForSize ==
  ASSUME NEW size \in Int
  PROVE  stack_alignment_for_size(size) \in {8, 16, 32, 64}
<1> DEFINE Fits(a) == a >= size /\ \A b \in {8, 16, 32, 64} : b >= size => a <= b
<1>1. CASE size > 64
  BY <1>1 DEF stack_alignment_for_size
<1>2. CASE ~(size > 64)
  <2>1. \E a \in {8, 16, 32, 64} : Fits(a)
    <3>1. CASE size <= 8
      <4>1. Fits(8)  BY <3>1
      <4> QED  BY <4>1
    <3>2. CASE size > 8 /\ size <= 16
      <4>1. Fits(16)  BY <3>2
      <4> QED  BY <4>1
    <3>3. CASE size > 16 /\ size <= 32
      <4>1. Fits(32)  BY <3>3
      <4> QED  BY <4>1
    <3>4. CASE size > 32
      <4>1. Fits(64)  BY <1>2, <3>4
      <4> QED  BY <4>1
    <3> QED  BY <3>1, <3>2, <3>3, <3>4
  <2>2. stack_alignment_for_size(size) = CHOOSE a \in {8, 16, 32, 64} : Fits(a)
    BY <1>2 DEF stack_alignment_for_size
  <2> HIDE DEF Fits
  <2> QED
    BY <2>1, <2>2
<1> QED
  BY <1>1, <1>2

LEMMA NextAligned ==
  ASSUME NEW offset \in Nat, NEW alignment \in PowersOfTwo
  PROVE  /\ AlignedUp(offset, alignment) \in Nat
         /\ AlignedUp(offset, alignment) >= offset
         /\ AlignedUp(offset, alignment) % alignment = 0
<1>1. CASE alignment = 1
  BY <1>1 DEF AlignedUp
<1>2. CASE alignment = 2
  BY <1>2 DEF AlignedUp
<1>3. CASE alignment = 4
  BY <1>3 DEF AlignedUp
<1>4. CASE alignment = 8
  BY <1>4 DEF AlignedUp
<1>5. CASE alignment = 16
  BY <1>5 DEF AlignedUp
<1>6. CASE alignment = 32
  BY <1>6 DEF AlignedUp
<1>7. CASE alignment = 64
  BY <1>7 DEF AlignedUp
<1> QED
  BY <1>1, <1>2, <1>3, <1>4, <1>5, <1>6, <1>7 DEF PowersOfTwo

-----------------------------------------------------------------------------
(* One turn of the loop: what it makes of an argument. *)
TurnAlignment(x, options, size) ==
  ValueOr(options.alignment, stack_alignment_for_size(size))
NextEntry(x, typed, automatic, options, offset) ==
  LET alignment == TurnAlignment(x, options, StackSize(typed)) IN
  [type |-> typed.type, size |-> typed.size, automatic |-> automatic,
   flags |-> ImpliedFlags(x.flags),
   alignment |-> IF automatic THEN alignment ELSE 1,
   where |-> IF automatic THEN OnStack(AlignedUp(offset, alignment)) ELSE x.where]

(* An argument that was made: one placed automatically has a size, is      *)
(* aligned and not below the offset it was given, and the next offset is   *)
(* above it; another one leaves the offset.                                *)
Placed(entry, before, after) ==
  /\ entry \in MicroArgument
  /\ after \in Nat
  /\ ~entry.automatic => after = before
  /\ entry.automatic =>
       /\ Offset(entry) \in Nat /\ Offset(entry) >= before
       /\ Offset(entry) % entry.alignment = 0
       /\ StackSize(entry) \in Nat \ {0}
       /\ after = Offset(entry) + StackSize(entry)

Turned(done, x, next) ==
  next # Refused =>
    /\ done # Refused
    /\ \E entry \in MicroArgument, after \in Nat, explicit \in BOOLEAN :
         /\ next = <<[arguments |-> Append(done[1].arguments, entry),
                      offset |-> after, explicit |-> explicit]>>
         /\ Placed(entry, done[1].offset, after)
         /\ done[1].explicit => explicit
         /\ entry.where.kind # "Unspecified" => explicit

LEMMA TurnMakes ==
  ASSUME NEW done \in DoneSet, NEW x \in MicrocodeValue, NEW options,
         OptionsAcceptable(options)
  PROVE  Turned(done, x, NextArgument(done, x, options))
<1> DEFINE next == NextArgument(done, x, options)
           built == build_argument(x, options.auto)
           typed == built[1]
           automatic == x.where.kind = "Unspecified" /\ options.auto
           size == StackSize(typed)
           alignment == TurnAlignment(x, options, size)
           at == AlignedUp(done[1].offset, alignment)
           entry == NextEntry(x, typed, automatic, options, done[1].offset)
           after == IF automatic THEN at + size ELSE done[1].offset
           explicit == done[1].explicit \/ automatic \/ x.where.kind # "Unspecified"
<1> SUFFICES ASSUME next # Refused
             PROVE  /\ done # Refused
                    /\ next = <<[arguments |-> Append(done[1].arguments, entry),
                                 offset |-> after, explicit |-> explicit]>>
                    /\ Placed(entry, done[1].offset, after)
                    /\ explicit \in BOOLEAN
                    /\ entry.where.kind # "Unspecified" => explicit
  BY DEF Turned, Placed
<1>1. /\ done # Refused /\ built # Refused
      /\ automatic => ~(size <= 0)
  BY DEF NextArgument
<1>2. next = <<[arguments |-> Append(done[1].arguments, entry),
                offset |-> after, explicit |-> explicit]>>
  BY DEF NextArgument, NextEntry, TurnAlignment
<1>3. typed \in Sizes
  BY <1>1, ArgumentTyped DEF TypedOrRefused
<1>4. size \in Int /\ typed.type \in Int /\ typed.size \in Int
  BY <1>3 DEF Sizes, StackSize
<1>5. done[1].offset \in Nat /\ done[1].explicit \in BOOLEAN
  BY <1>1, DoneOne
<1> HIDE DEF next, built, size
<1>6. alignment \in PowersOfTwo
  <2>1. CASE Given(options.alignment)
    BY <2>1 DEF TurnAlignment, ValueOr, OptionsAcceptable
  <2>2. CASE ~Given(options.alignment)
    BY <1>4, <2>2, AlignmentForSize DEF TurnAlignment, ValueOr, PowersOfTwo
  <2> QED
    BY <2>1, <2>2
<1>7. at \in Nat /\ at >= done[1].offset /\ at % alignment = 0
  BY <1>5, <1>6, NextAligned
<1>8. automatic \in BOOLEAN /\ explicit \in BOOLEAN
  BY Zenon
<1>9. x.where \in MicrocodeValueLocation /\ x.flags \in SUBSET MicrocodeArgumentFlags
  BY DEF MicrocodeValue
<1>10. ImpliedFlags(x.flags) \in SUBSET MicrocodeArgumentFlags
  BY <1>9 DEF ImpliedFlags, MicrocodeArgumentFlags, SupportedFlags
<1>11. OnStack(at) \in MicrocodeValueLocation
  <2>1. << >> \in Seq(MicrocodeLocationPart)
    OBVIOUS
  <2> HIDE DEF at
  <2> QED
    BY <1>7, <2>1 DEF OnStack, MicrocodeValueLocation, LocationKinds
<1>12. alignment \in Nat \ {0}
  BY <1>6 DEF PowersOfTwo
<1> HIDE DEF automatic, explicit, typed, alignment, at
<1>13. /\ entry.type = typed.type /\ entry.size = typed.size
       /\ entry.automatic = automatic /\ entry.flags = ImpliedFlags(x.flags)
       /\ entry.alignment = (IF automatic THEN alignment ELSE 1)
       /\ entry.where = (IF automatic THEN OnStack(at) ELSE x.where)
  BY DEF NextEntry, alignment, at, size
<1>14. entry \in MicroArgument
  <2> DEFINE a == IF automatic THEN alignment ELSE 1
             w == IF automatic THEN OnStack(at) ELSE x.where
  <2>1. a \in Nat \ {0} /\ w \in MicrocodeValueLocation
    BY <1>9, <1>11, <1>12
  <2>2. entry = [type |-> typed.type, size |-> typed.size, automatic |-> automatic,
                 flags |-> ImpliedFlags(x.flags), alignment |-> a, where |-> w]
    BY DEF NextEntry, alignment, at, size
  <2> HIDE DEF a, w, entry
  <2> QED
    BY <1>4, <1>8, <1>10, <2>1, <2>2 DEF MicroArgument
<1> HIDE DEF entry
<1>15. StackSize(entry) = size
  BY <1>13 DEF StackSize, size
<1>16. automatic => Offset(entry) = at /\ entry.where.kind = "StackOffset"
  BY <1>13 DEF Offset, OnStack
<1>17. Placed(entry, done[1].offset, after)
  <2>1. CASE automatic
    BY <1>1, <1>4, <1>5, <1>7, <1>13, <1>14, <1>15, <1>16, <2>1 DEF Placed
  <2>2. CASE ~automatic
    BY <1>5, <1>13, <1>14, <2>2 DEF Placed
  <2> QED
    BY <2>1, <2>2
<1>18. entry.where.kind # "Unspecified" => explicit
  BY <1>13, <1>16 DEF explicit
<1> QED
  BY <1>1, <1>2, <1>8, <1>17, <1>18

LEMMA TurnTyped ==
  ASSUME NEW done \in DoneSet, NEW x \in MicrocodeValue, NEW options,
         OptionsAcceptable(options)
  PROVE  NextArgument(done, x, options) \in DoneSet
<1> DEFINE next == NextArgument(done, x, options)
<1>1. CASE next = Refused
  BY <1>1 DEF DoneSet
<1>2. CASE next # Refused
  <2>1. /\ done # Refused
        /\ \E entry \in MicroArgument, after \in Nat, explicit \in BOOLEAN :
             next = <<[arguments |-> Append(done[1].arguments, entry),
                       offset |-> after, explicit |-> explicit]>>
    BY <1>2, TurnMakes DEF Turned
  <2> HIDE DEF next
  <2>2. PICK entry \in MicroArgument, after \in Nat, explicit \in BOOLEAN :
             next = <<[arguments |-> Append(done[1].arguments, entry),
                       offset |-> after, explicit |-> explicit]>>
    BY <2>1
  <2>3. done[1].arguments \in Seq(MicroArgument)
    BY <2>1, DoneOne
  <2>4. Append(done[1].arguments, entry) \in Seq(MicroArgument)
    BY <2>3, AppendProperties
  <2>5. [arguments |-> Append(done[1].arguments, entry),
         offset |-> after, explicit |-> explicit] \in Built
    BY <2>4 DEF Built
  <2> QED
    BY <2>2, <2>5 DEF DoneSet, next
<1> QED
  BY <1>1, <1>2
-----------------------------------------------------------------------------
(* The loop: what is placed so far stays below the next free offset, one   *)
(* argument above the other, and every location given is remembered.       *)
LayoutInv(b) ==
  /\ \A k \in 1 .. Len(b.arguments) : b.arguments[k].automatic =>
       /\ Offset(b.arguments[k]) \in Nat
       /\ Offset(b.arguments[k]) % b.arguments[k].alignment = 0
       /\ StackSize(b.arguments[k]) \in Nat \ {0}
       /\ Offset(b.arguments[k]) + StackSize(b.arguments[k]) <= b.offset
  /\ \A j, k \in 1 .. Len(b.arguments) :
       j < k /\ b.arguments[j].automatic /\ b.arguments[k].automatic =>
         Offset(b.arguments[j]) + StackSize(b.arguments[j]) <= Offset(b.arguments[k])
  /\ \A k \in 1 .. Len(b.arguments) : b.arguments[k].where.kind # "Unspecified" => b.explicit
DoneInv(done) == done # Refused => LayoutInv(done[1])

(* What an argument that is appended keeps of a layout. *)
LEMMA LayoutGrows ==
  ASSUME NEW b \in Built, LayoutInv(b), NEW entry \in MicroArgument, NEW after \in Nat,
         NEW explicit \in BOOLEAN, Placed(entry, b.offset, after),
         b.explicit => explicit, entry.where.kind # "Unspecified" => explicit
  PROVE  LayoutInv([arguments |-> Append(b.arguments, entry),
                    offset |-> after, explicit |-> explicit])
<1> DEFINE s == b.arguments
           r == Append(s, entry)
           n == Len(s)
           c == [arguments |-> r, offset |-> after, explicit |-> explicit]
<1>1. s \in Seq(MicroArgument) /\ b.offset \in Nat
  BY DEF Built
<1>2. /\ n \in Nat /\ Len(r) = n + 1 /\ r[n + 1] = entry
      /\ \A k \in 1 .. n : r[k] = s[k]
  BY <1>1, LenProperties, AppendProperties
<1>3. c.arguments = r /\ c.offset = after /\ c.explicit = explicit
  OBVIOUS
<1> HIDE DEF c, r, n
<1>4. \A k \in 1 .. n + 1 : k = n + 1 \/ k \in 1 .. n
  BY <1>2
<1>5. b.offset <= after
  BY <1>1 DEF Placed
<1>6. ASSUME NEW k \in 1 .. n, s[k].automatic
      PROVE  /\ Offset(s[k]) \in Nat /\ Offset(s[k]) % s[k].alignment = 0
             /\ StackSize(s[k]) \in Nat \ {0}
             /\ Offset(s[k]) + StackSize(s[k]) <= b.offset
  BY <1>6 DEF LayoutInv, n
<1>7. ASSUME NEW k \in 1 .. n + 1, r[k].automatic
      PROVE  /\ Offset(r[k]) \in Nat /\ Offset(r[k]) % r[k].alignment = 0
             /\ StackSize(r[k]) \in Nat \ {0}
             /\ Offset(r[k]) + StackSize(r[k]) <= after
  <2>1. CASE k = n + 1
    BY <1>2, <1>7, <2>1 DEF Placed
  <2>2. CASE k \in 1 .. n
    <3>1. s[k].automatic /\ r[k] = s[k]
      BY <1>2, <1>7, <2>2
    <3> HIDE DEF s
    <3> QED
      BY <1>1, <1>5, <1>6, <2>2, <3>1
  <2> QED
    BY <1>4, <2>1, <2>2
<1>8. ASSUME NEW j \in 1 .. n + 1, NEW k \in 1 .. n + 1, j < k, r[j].automatic, r[k].automatic
      PROVE  Offset(r[j]) + StackSize(r[j]) <= Offset(r[k])
  <2>1. j \in 1 .. n /\ r[j] = s[j] /\ s[j].automatic
    BY <1>2, <1>8
  <2>2. CASE k = n + 1
    <3>1. Offset(r[k]) \in Nat /\ Offset(r[k]) >= b.offset
      BY <1>2, <1>8, <2>2 DEF Placed
    <3>2. Offset(r[j]) \in Nat /\ StackSize(r[j]) \in Nat
          /\ Offset(r[j]) + StackSize(r[j]) <= b.offset
      BY <1>6, <2>1
    <3> QED
      BY <1>1, <3>1, <3>2
  <2>3. CASE k \in 1 .. n
    <3>1. r[k] = s[k] /\ s[k].automatic
      BY <1>2, <1>8, <2>3
    <3> QED
      BY <1>8, <2>1, <2>3, <3>1 DEF LayoutInv, n
  <2> QED
    BY <1>4, <2>2, <2>3
<1>9. ASSUME NEW k \in 1 .. n + 1, r[k].where.kind # "Unspecified" PROVE explicit
  <2>1. CASE k = n + 1
    BY <1>2, <1>9, <2>1
  <2>2. CASE k \in 1 .. n
    <3>1. s[k].where.kind # "Unspecified"
      BY <1>2, <1>9, <2>2
    <3> QED
      BY <2>2, <3>1 DEF LayoutInv, n
  <2> QED
    BY <1>4, <2>1, <2>2
<1>10. LayoutInv(c)
  BY <1>2, <1>3, <1>7, <1>8, <1>9 DEF LayoutInv
<1> QED
  BY <1>10 DEF c, r

LEMMA TurnKeepsLayout ==
  ASSUME NEW done \in DoneSet, DoneInv(done), NEW x \in MicrocodeValue, NEW options,
         OptionsAcceptable(options)
  PROVE  DoneInv(NextArgument(done, x, options))
<1> DEFINE next == NextArgument(done, x, options)
<1> SUFFICES ASSUME next # Refused PROVE LayoutInv(next[1])
  BY DEF DoneInv
<1>1. Turned(done, x, next)
  BY TurnMakes
<1> HIDE DEF next
<1>2. PICK entry \in MicroArgument, after \in Nat, explicit \in BOOLEAN :
         /\ next = <<[arguments |-> Append(done[1].arguments, entry),
                      offset |-> after, explicit |-> explicit]>>
         /\ Placed(entry, done[1].offset, after)
         /\ done[1].explicit => explicit
         /\ entry.where.kind # "Unspecified" => explicit
  BY <1>1 DEF Turned
<1>3. done # Refused
  BY <1>1 DEF Turned
<1>4. done[1] \in Built /\ LayoutInv(done[1])
  BY <1>3, DoneOne DEF DoneInv
<1>5. next[1] = [arguments |-> Append(done[1].arguments, entry),
                 offset |-> after, explicit |-> explicit]
  BY <1>2, OneIsNotNone
<1> QED
  BY <1>2, <1>4, <1>5, LayoutGrows

(* Before the first argument nothing is placed.                            *)
LoopStart(options) ==
  <<[arguments |-> << >>, offset |-> ValueOr(options.start, 0), explicit |-> FALSE]>>

LEMMA LoopBegins ==
  ASSUME NEW options, OptionsAcceptable(options), options.start \in Int
  PROVE  LoopStart(options) \in DoneSet /\ DoneInv(LoopStart(options))
<1> DEFINE b == [arguments |-> << >>, offset |-> ValueOr(options.start, 0), explicit |-> FALSE]
<1>1. ValueOr(options.start, 0) \in Nat
  BY DEF ValueOr, OptionsAcceptable
<1>2. << >> \in Seq(MicroArgument) /\ Len(<< >>) = 0
  OBVIOUS
<1>3. b \in Built
  BY <1>1, <1>2 DEF Built
<1>4. LayoutInv(b)
  <2>1. 1 .. Len(b.arguments) = {}
    BY <1>2
  <2> HIDE DEF b
  <2> QED
    BY <2>1 DEF LayoutInv
<1>5. LoopStart(options) = <<b>>
  BY DEF LoopStart
<1> HIDE DEF b
<1>6. LoopStart(options)[1] = b
  BY <1>5, OneIsNotNone
<1> QED
  BY <1>3, <1>4, <1>5, <1>6 DEF DoneSet, DoneInv

(* The loop goes through the arguments one after the other.                *)
LEMMA LoopSteps ==
  ASSUME NEW list \in Seq(MicrocodeValue), NEW options, OptionsAcceptable(options),
         options.start \in Int
  PROVE  /\ BuiltUpTo(list, options)[0] = LoopStart(options)
         /\ \A i \in 1 .. Len(list) : BuiltUpTo(list, options)[i] =
              NextArgument(BuiltUpTo(list, options)[i - 1], list[i], options)
<1> DEFINE n == Len(list)
           Turn(f, i) == NextArgument(f[i - 1], list[i], options)
           F == [i \in 1 .. n |-> [done \in DoneSet |-> NextArgument(done, list[i], options)]]
           Body(f) == [i \in 0 .. n |-> IF i = 0 THEN LoopStart(options) ELSE Turn(f, i)]
<1>1. n \in Nat /\ \A i \in 1 .. n : list[i] \in MicrocodeValue
  BY LenProperties, ElementOfSeq
<1>2. F \in [1 .. n -> [DoneSet -> DoneSet]]
  BY <1>1, TurnTyped
<1>3. PICK g \in [0 .. n -> DoneSet] : Iterates(g, LoopStart(options), n, F)
  <2> HIDE DEF F, n
  <2> QED
    BY <1>1, <1>2, LoopBegins, IterationExists
<1>4. \A i \in 1 .. n : g[i - 1] \in DoneSet /\ F[i][g[i - 1]] = Turn(g, i)
  BY <1>1
<1>5. g[0] = LoopStart(options) /\ \A i \in 1 .. n : g[i] = Turn(g, i)
  <2> HIDE DEF F
  <2> QED
    BY <1>3, <1>4 DEF Iterates
<1> HIDE DEF F, Turn
<1>6. g = Body(g)
  <2>1. \A i \in 0 .. n : i # 0 => i \in 1 .. n
    BY <1>1
  <2>2. \A i \in 0 .. n : g[i] = Body(g)[i]
    BY <1>5, <2>1
  <2> QED
    BY <2>2
<1> DEFINE f == CHOOSE h : h = Body(h)
<1>7. f = Body(f)
  BY <1>6
<1>8. BuiltUpTo(list, options) = f
  BY DEF BuiltUpTo, LoopStart, Turn
<1> HIDE DEF f
<1>9. f[0] = LoopStart(options)
  BY <1>1, <1>7
<1>10. \A i \in 1 .. n : f[i] = Turn(f, i)
  <2>1. \A i \in 1 .. n : i \in 0 .. n /\ i # 0
    BY <1>1
  <2> QED
    BY <1>7, <2>1
<1> QED
  BY <1>8, <1>9, <1>10 DEF Turn

LEMMA LayoutRight ==
  ASSUME NEW list \in Seq(MicrocodeValue), NEW options, options.start \in Int,
         build_call_arguments(list, options) # Refused
  PROVE  /\ build_call_arguments(list, options)[1] \in Built
         /\ LayoutInv(build_call_arguments(list, options)[1])
<1> DEFINE n == Len(list)
           f == BuiltUpTo(list, options)
           S == {m \in Nat : m <= n => f[m] \in DoneSet /\ DoneInv(f[m])}
<1>1. OptionsAcceptable(options) /\ build_call_arguments(list, options) = f[n]
  BY DEF build_call_arguments
<1>2. n \in Nat /\ \A i \in 1 .. n : list[i] \in MicrocodeValue
  BY LenProperties, ElementOfSeq
<1>3. f[0] = LoopStart(options) /\ \A i \in 1 .. n : f[i] = NextArgument(f[i - 1], list[i], options)
  BY <1>1, LoopSteps
<1> HIDE DEF f, n
<1>4. 0 \in S
  BY <1>1, <1>3, LoopBegins
<1>5. ASSUME NEW m \in Nat, m \in S PROVE m + 1 \in S
  <2> SUFFICES ASSUME m + 1 <= n PROVE f[m + 1] \in DoneSet /\ DoneInv(f[m + 1])
    OBVIOUS
  <2>1. m <= n /\ m + 1 \in 1 .. n /\ (m + 1) - 1 = m
    BY <1>2
  <2>2. f[m + 1] = NextArgument(f[m], list[m + 1], options)
    BY <1>3, <2>1
  <2>3. f[m] \in DoneSet /\ DoneInv(f[m])
    BY <1>5, <2>1
  <2>4. list[m + 1] \in MicrocodeValue
    BY <1>2, <2>1
  <2> QED
    BY <1>1, <2>2, <2>3, <2>4, TurnTyped, TurnKeepsLayout
<1>6. n \in S
  <2> HIDE DEF S
  <2> QED
    BY <1>2, <1>4, <1>5, SetInduction
<1>7. f[n] \in DoneSet /\ DoneInv(f[n])
  BY <1>2, <1>6
<1> QED
  BY <1>1, <1>7, DoneOne DEF DoneInv

-----------------------------------------------------------------------------
(* A call. *)
CallSound(c) == ArgumentsApart(c) /\ LocationsAnnounced(c) /\ RegistersSpoiled(c)

LEMMA LayoutApart ==
  ASSUME NEW b \in Built, LayoutInv(b), NEW c, c.arguments = b.arguments
  PROVE  ArgumentsApart(c)
<1> DEFINE s == b.arguments
<1>1. Len(s) \in Nat /\ DOMAIN s = 1 .. Len(s)
  <2>1. s \in Seq(MicroArgument)
    BY DEF Built
  <2> QED
    BY <2>1, LenProperties
<1>2. ASSUME NEW i \in 1 .. Len(s), s[i].automatic
      PROVE  /\ Offset(s[i]) \in Nat /\ Offset(s[i]) % s[i].alignment = 0
             /\ StackSize(s[i]) \in Nat \ {0}
  BY <1>2 DEF LayoutInv
<1>3. ASSUME NEW i \in 1 .. Len(s), NEW j \in 1 .. Len(s), i < j, s[i].automatic, s[j].automatic
      PROVE  /\ Offset(s[i]) < Offset(s[j])
             /\ ByteRange(s[i]) \cap ByteRange(s[j]) = {}
  <2>1. Offset(s[i]) + StackSize(s[i]) <= Offset(s[j])
    BY <1>3 DEF LayoutInv
  <2>2. /\ Offset(s[i]) \in Nat /\ StackSize(s[i]) \in Nat \ {0}
        /\ Offset(s[j]) \in Nat /\ StackSize(s[j]) \in Nat \ {0}
    BY <1>2, <1>3
  <2> QED
    BY <2>1, <2>2 DEF ByteRange
<1>4. c.arguments = s
  OBVIOUS
<1> HIDE DEF s
<1>5. \A i \in DOMAIN s : s[i].automatic => Offset(s[i]) >= 0 /\ Offset(s[i]) % s[i].alignment = 0
  <2> SUFFICES ASSUME NEW i \in 1 .. Len(s), s[i].automatic
               PROVE  Offset(s[i]) >= 0 /\ Offset(s[i]) % s[i].alignment = 0
    BY <1>1
  <2>1. Offset(s[i]) \in Nat /\ Offset(s[i]) % s[i].alignment = 0
    BY <1>2
  <2> QED
    BY <2>1
<1>6. \A i, j \in DOMAIN s : i < j /\ s[i].automatic /\ s[j].automatic =>
         Offset(s[i]) < Offset(s[j]) /\ ByteRange(s[i]) \cap ByteRange(s[j]) = {}
  BY <1>1, <1>3, Zenon
<1> QED
  BY <1>4, <1>5, <1>6, Zenon DEF ArgumentsApart

LEMMA MadeCallSound ==
  ASSUME NEW list \in Seq(MicrocodeValue), NEW options, options.start \in Int,
         NEW destination, MakeCall(list, options, destination) # Refused
  PROVE  CallSound(MakeCall(list, options, destination)[1])
<1> DEFINE built == build_call_arguments(list, options)
           b == built[1]
           returned == apply_register_ranges(options.returned, DefaultReturned)
           spoiled == apply_register_ranges(options.spoiled, DefaultSpoiled) \cup returned
           passed == apply_register_ranges(options.passed, {})
           solid == ValueOr(options.solid, Len(b.arguments))
           c == [arguments |-> b.arguments, solid |-> solid,
                 explicit |-> options.explicit \/ b.explicit,
                 spoiled |-> spoiled, returned |-> returned, passed |-> passed]
<1>1. built # Refused /\ MakeCall(list, options, destination) = apply_call_options(b, options)
  BY DEF MakeCall
<1>2. b \in Built /\ LayoutInv(b)
  BY <1>1, LayoutRight
<1> HIDE DEF built, b
<1>3. passed \subseteq spoiled /\ apply_call_options(b, options) = <<c>>
  BY <1>1 DEF apply_call_options
<1>4. MakeCall(list, options, destination)[1] = c
  BY <1>1, <1>3, OneIsNotNone
<1>5. /\ c.arguments = b.arguments /\ c.spoiled = spoiled
      /\ c.returned = returned /\ c.passed = passed
  OBVIOUS
<1>6. b.explicit => c.explicit
  BY Zenon
<1>7. returned \subseteq spoiled
  OBVIOUS
<1> HIDE DEF c, returned, spoiled, passed
<1>8. ArgumentsApart(c)
  BY <1>2, <1>5, LayoutApart
<1>9. LocationsAnnounced(c)
  <2>1. b.arguments \in Seq(MicroArgument)
    BY <1>2 DEF Built
  <2>2. DOMAIN b.arguments = 1 .. Len(b.arguments)
    BY <2>1, LenProperties
  <2> QED
    BY <1>2, <1>5, <1>6, <2>2 DEF LocationsAnnounced, LayoutInv
<1>10. RegistersSpoiled(c)
  BY <1>3, <1>5, <1>7 DEF RegistersSpoiled
<1> QED
  BY <1>4, <1>8, <1>9, <1>10 DEF CallSound

LEMMA PlainCallSound ==
  ASSUME emit_helper_call
  PROVE  CallSound(call'[1])
<1> DEFINE c == [arguments |-> << >>, solid |-> 0, explicit |-> FALSE,
                 spoiled |-> DefaultSpoiled, returned |-> DefaultReturned, passed |-> {}]
<1>1. call'[1] = c
  BY OneIsNotNone DEF emit_helper_call
<1>2. /\ DOMAIN c.arguments = {} /\ c.spoiled = DefaultSpoiled
      /\ c.returned = DefaultReturned /\ c.passed = {}
  OBVIOUS
<1> HIDE DEF c
<1>3. DefaultReturned \subseteq DefaultSpoiled
  BY HelperCallsAssumption
<1>4. ArgumentsApart(c) /\ LocationsAnnounced(c)
  BY <1>2 DEF ArgumentsApart, LocationsAnnounced
<1>5. RegistersSpoiled(c)
  BY <1>2, <1>3 DEF RegistersSpoiled
<1> QED
  BY <1>1, <1>4, <1>5 DEF CallSound

(***************************************************************************)
(* A helper call that is inserted has its automatic arguments aligned, in  *)
(* order and apart from each other on the stack, tells the decompiler of   *)
(* every location, and spoils what it returns in or passes through         *)
(* (HelperCallSound), for lists of any length of values of every kind.     *)
(***************************************************************************)
THEOREM HelperCallsAreSound == CallsSpec => []HelperCallSound
<1>1. CallsInit => HelperCallSound
  BY DEF CallsInit, HelperCallSound
<1>2. HelperCallSound /\ [CallsNext]_callvars => HelperCallSound'
  <2> SUFFICES ASSUME HelperCallSound, [CallsNext]_callvars PROVE HelperCallSound'
    OBVIOUS
  <2>1. CASE UNCHANGED callvars
    BY <2>1 DEF callvars, HelperCallSound
  <2>2. CASE emit_helper_call
    BY <2>2, PlainCallSound DEF CallSound, HelperCallSound
  <2>3. ASSUME NEW input \in HelperCallInputs,
               \/ emit_helper_call_with_arguments(input[1], input[2], input[3])
               \/ emit_helper_call_to_operand(input[1], input[2], input[3])
        PROVE  HelperCallSound'
    <3>1. input[1] \in Seq(MicrocodeValue) /\ input[2].start \in Int
      BY HelperCallsAssumption
    <3>2. /\ MakeCall(input[1], input[2], input[3]) # Refused
          /\ call' = MakeCall(input[1], input[2], input[3])
      BY <2>3 DEF emit_helper_call_with_arguments, emit_helper_call_to_operand
    <3>3. CallSound(call'[1])
      BY <3>1, <3>2, MadeCallSound
    <3> QED
      BY <3>3 DEF CallSound, HelperCallSound
  <2> QED
    BY <2>1, <2>2, <2>3 DEF CallsNext
<1> QED
  BY <1>1, <1>2, PTL DEF CallsSpec

(***************************************************************************)
(* DecompiledFunctions: lines and addresses.  The offsets tried around a   *)
(* line are those from -5 to 5, the nearer ones first.                     *)
(***************************************************************************)
Magnitude(d) == IF d < 0 THEN -d ELSE d

LEMMA ProbesInOrder ==
  ASSUME NEW k \in 0 .. 10
  PROVE  /\ Probe(k) \in -5 .. 5
         /\ Probe(0) = 0
         /\ \A j \in k .. 10 : Magnitude(Probe(k)) <= Magnitude(Probe(j))
BY DEF Probe, Magnitude

LEMMA EveryProbe ==
  ASSUME NEW d \in -5 .. 5
  PROVE  \E k \in 0 .. 10 : Probe(k) = d
<1>1. CASE d >= 0
  <2>1. 2 * d \in 0 .. 10 /\ Probe(2 * d) = d
    BY <1>1 DEF Probe
  <2> QED
    BY <2>1
<1>2. CASE d < 0
  <2>1. -2 * d - 1 \in 0 .. 10 /\ Probe(-2 * d - 1) = d
    BY <1>2 DEF Probe
  <2> QED
    BY <2>1
<1> QED
  BY <1>1, <1>2

(* The text of a function has header lines, lines and items. *)
LEMMA TextTyped ==
  ASSUME NEW t \in PrintedTexts
  PROVE  /\ t.header \in Nat
         /\ Len(t.text) \in Nat /\ DOMAIN t.text = 1 .. Len(t.text)
         /\ Len(t.items) \in Nat /\ DOMAIN t.items = 1 .. Len(t.items)
BY DecompiledAssumption DEF DecompiledAssumption

(* The probes of a line that find an address, and the first of them. *)
ProbesOf(t, line) == {k \in 0 .. 10 : HasAddress(t, item_line(t, line) + Probe(k))}
NearestOf(probes) == CHOOSE k \in probes : \A j \in probes : k <= j

LEMMA NearestIsFirst ==
  ASSUME NEW t, NEW line, ProbesOf(t, line) # {}
  PROVE  /\ NearestOf(ProbesOf(t, line)) \in ProbesOf(t, line)
         /\ \A j \in ProbesOf(t, line) : NearestOf(ProbesOf(t, line)) <= j
<1> DEFINE P == ProbesOf(t, line)
<1>1. P \subseteq Nat
  BY DEF ProbesOf
<1> HIDE DEF P
<1>2. \E k \in P : \A j \in P : k <= j
  BY <1>1, MinInSet DEF P
<1>3. NearestOf(P) \in P /\ \A j \in P : NearestOf(P) <= j
  BY <1>2 DEF NearestOf
<1> QED
  BY <1>3 DEF P

(* An entry of the address map is an item with an address, and the probe   *)
(* as far from a line as the entry is finds it.                            *)
LEMMA MappedItem ==
  ASSUME NEW t \in PrintedTexts, NEW m \in address_map(t)
  PROVE  \E k \in 1 .. Len(t.items) : /\ t.items[k] # NowhereAddress
                                      /\ m.address = t.items[k]
                                      /\ m.line_number = (k - 1) + t.header
<1>1. PICK k \in {j \in DOMAIN t.items : t.items[j] # NowhereAddress} :
        m = [address |-> t.items[k], line_number |-> (k - 1) + t.header]
  BY DEF address_map
<1>2. m.address = t.items[k] /\ m.line_number = (k - 1) + t.header
  BY <1>1
<1> QED
  BY <1>1, <1>2, TextTyped

LEMMA MappedProbe ==
  ASSUME NEW t \in PrintedTexts, NEW m \in address_map(t), NEW line \in Int,
         NEW k \in 0 .. 10, Probe(k) = m.line_number - line
  PROVE  /\ k \in ProbesOf(t, line)
         /\ t.items[item_line(t, line) + Probe(k) + 1] = m.address
<1>1. PICK i \in 1 .. Len(t.items) : /\ t.items[i] # NowhereAddress
                                     /\ m.address = t.items[i]
                                     /\ m.line_number = (i - 1) + t.header
  BY MappedItem
<1>2. t.header \in Nat /\ Len(t.items) \in Nat /\ DOMAIN t.items = 1 .. Len(t.items)
  BY TextTyped
<1>3. item_line(t, line) + Probe(k) + 1 = i
  BY <1>1, <1>2 DEF item_line
<1> QED
  BY <1>1, <1>2, <1>3 DEF ProbesOf, HasAddress

LEMMA ProbedEntry ==
  ASSUME NEW t \in PrintedTexts, NEW line \in Int, NEW k \in ProbesOf(t, line)
  PROVE  \E m \in address_map(t) :
           /\ m.address = t.items[item_line(t, line) + Probe(k) + 1]
           /\ m.line_number \in Int /\ m.line_number - line = Probe(k)
<1> DEFINE i == item_line(t, line) + Probe(k) + 1
           m == [address |-> t.items[i], line_number |-> (i - 1) + t.header]
<1>1. i \in DOMAIN t.items /\ t.items[i] # NowhereAddress
  BY DEF ProbesOf, HasAddress
<1>2. m \in address_map(t)
  BY <1>1 DEF address_map
<1>3. Probe(k) \in Int /\ t.header \in Nat
  BY ProbesInOrder, TextTyped DEF ProbesOf
<1>4. m.address = t.items[i] /\ m.line_number = (i - 1) + t.header
  OBVIOUS
<1> HIDE DEF m
<1>5. m.line_number \in Int /\ m.line_number - line = Probe(k)
  BY <1>3, <1>4 DEF item_line
<1>6. m.address = t.items[item_line(t, line) + Probe(k) + 1]
  BY <1>4
<1> HIDE DEF i
<1> QED
  BY <1>2, <1>5, <1>6

LEMMA LineFound ==
  ASSUME NEW t \in PrintedTexts, NEW line \in 0 .. Len(t.text) - 1
  PROVE  /\ ProbesOf(t, line) = {} => line_to_address(t, line) = LineError("NotFound")
         /\ ProbesOf(t, line) # {} =>
              line_to_address(t, line) =
                LineAt(t.items[item_line(t, line) + Probe(NearestOf(ProbesOf(t, line))) + 1])
BY DEF line_to_address, ProbesOf, NearestOf

EntryDistance(m, line) ==
  IF m.line_number < line THEN line - m.line_number ELSE m.line_number - line

LEMMA EntryTyped ==
  ASSUME NEW t \in PrintedTexts, NEW m \in address_map(t), NEW line \in Int
  PROVE  /\ m.line_number \in Nat
         /\ EntryDistance(m, line) = Magnitude(m.line_number - line)
         /\ EntryDistance(m, line) <= 5 => \E k \in 0 .. 10 : Probe(k) = m.line_number - line
<1>1. m.line_number \in Nat
  BY MappedItem, TextTyped
<1>2. EntryDistance(m, line) = Magnitude(m.line_number - line)
  BY <1>1 DEF EntryDistance, Magnitude
<1>3. EntryDistance(m, line) <= 5 => m.line_number - line \in -5 .. 5
  BY <1>1 DEF EntryDistance
<1> QED
  BY <1>1, <1>2, <1>3, EveryProbe

LEMMA LinesAgree == LinesAndAddressesAgree
<1> SUFFICES ASSUME NEW t \in PrintedTexts
    PROVE
      /\ \A m \in address_map(t) :
            m.line_number < Len(t.text) => line_to_address(t, m.line_number) = LineAt(m.address)
      /\ \A line \in 0 .. Len(t.text) - 1 :
            LET near == {m \in address_map(t) : EntryDistance(m, line) <= 5}
                found == line_to_address(t, line)
            IN IF near = {} THEN found = LineError("NotFound")
               ELSE \E m \in near :
                      /\ found = LineAt(m.address) /\ m.address # NowhereAddress
                      /\ \A other \in near : EntryDistance(m, line) <= EntryDistance(other, line)
      /\ \A line \in {-1, Len(t.text)} :
            line_to_address(t, line) = LineError("Validation")
      /\ \A k \in 1 .. Len(t.text) : k <= t.header => ~is_ctree_line(t, t.text[k])
  BY DEF LinesAndAddressesAgree, EntryDistance
<1>0. Len(t.text) \in Nat /\ t.header \in Nat
  BY TextTyped
<1>1. ASSUME NEW m \in address_map(t), m.line_number < Len(t.text)
      PROVE  line_to_address(t, m.line_number) = LineAt(m.address)
  <2> DEFINE line == m.line_number
             P == ProbesOf(t, line)
  <2>1. line \in Int /\ line \in 0 .. Len(t.text) - 1
    BY <1>0, <1>1, EntryTyped
  <2>2. Probe(0) = m.line_number - line
    BY <2>1, ProbesInOrder
  <2>3. 0 \in P /\ t.items[item_line(t, line) + Probe(0) + 1] = m.address
    BY <2>1, <2>2, MappedProbe
  <2>4. NearestOf(P) \in P /\ NearestOf(P) <= 0
    BY <2>3, NearestIsFirst
  <2>5. NearestOf(P) = 0
    BY <2>4 DEF ProbesOf
  <2>6. line_to_address(t, line)
         = LineAt(t.items[item_line(t, line) + Probe(NearestOf(P)) + 1])
    BY <2>1, <2>3, LineFound
  <2> QED
    BY <2>3, <2>5, <2>6
<1>2. ASSUME NEW line \in 0 .. Len(t.text) - 1
      PROVE  LET near == {m \in address_map(t) : EntryDistance(m, line) <= 5}
                 found == line_to_address(t, line)
             IN IF near = {} THEN found = LineError("NotFound")
                ELSE \E m \in near :
                       /\ found = LineAt(m.address) /\ m.address # NowhereAddress
                       /\ \A other \in near : EntryDistance(m, line) <= EntryDistance(other, line)
  <2> DEFINE near == {m \in address_map(t) : EntryDistance(m, line) <= 5}
             found == line_to_address(t, line)
             P == ProbesOf(t, line)
             n == NearestOf(P)
  <2>0. line \in Int
    BY <1>0
  <2>1. ASSUME NEW m \in near
        PROVE  \E k \in P : /\ EntryDistance(m, line) = Magnitude(Probe(k))
                            /\ Probe(k) = m.line_number - line
    BY <2>0, EntryTyped, MappedProbe
  <2>2. CASE P = {}
    <3>1. near = {}
      BY <2>1, <2>2
    <3>2. found = LineError("NotFound")
      BY <2>2, LineFound
    <3> QED
      BY <3>1, <3>2
  <2>3. CASE P # {}
    <3>1. n \in P /\ \A j \in P : n <= j
      BY <2>3, NearestIsFirst
    <3>2. PICK m \in address_map(t) :
            /\ m.address = t.items[item_line(t, line) + Probe(n) + 1]
            /\ m.line_number \in Int /\ m.line_number - line = Probe(n)
      BY <2>0, <3>1, ProbedEntry
    <3>3. found = LineAt(m.address)
      BY <2>3, <3>2, LineFound
    <3>4. EntryDistance(m, line) = Magnitude(Probe(n))
      BY <2>0, <3>2, EntryTyped
    <3>5. P \subseteq 0 .. 10
      BY DEF ProbesOf
    <3> HIDE DEF P, n
    <3>6. Magnitude(Probe(n)) <= 5
      <4>1. Probe(n) \in -5 .. 5
        BY <3>1, <3>5, ProbesInOrder
      <4> QED
        BY <4>1 DEF Magnitude
    <3>7. m \in near
      BY <3>4, <3>6
    <3>8. ASSUME NEW other \in near PROVE EntryDistance(m, line) <= EntryDistance(other, line)
      <4>1. PICK j \in P : EntryDistance(other, line) = Magnitude(Probe(j))
        BY <2>1
      <4>2. n \in 0 .. 10 /\ j \in n .. 10
        BY <3>1, <3>5
      <4>3. Magnitude(Probe(n)) <= Magnitude(Probe(j))
        BY <4>2, ProbesInOrder
      <4> QED
        BY <3>4, <4>1, <4>3
    <3>9. m.address # NowhereAddress
      BY <3>2, MappedItem
    <3> HIDE DEF near, found
    <3> QED
      BY <3>3, <3>7, <3>8, <3>9 DEF near, found
  <2> QED
    BY <2>2, <2>3
<1>3. ASSUME NEW k \in 1 .. Len(t.text), k <= t.header PROVE ~is_ctree_line(t, t.text[k])
  <2>1. k \in 1 .. t.header /\ k <= Len(t.text)
    BY <1>0, <1>3
  <2> QED
    BY <2>1 DEF is_ctree_line
<1>4. ASSUME NEW line \in {-1, Len(t.text)}
      PROVE  line_to_address(t, line) = LineError("Validation")
  <2>1. line \notin 0 .. Len(t.text) - 1
    BY <1>0
  <2> QED
    BY <2>1 DEF line_to_address
<1> QED
  BY <1>1, <1>2, <1>3, <1>4

(***************************************************************************)
(* DecompiledFunctions: the objects, what they share, and the record of a  *)
(* failure.  The SDK keeps a decompilation under the function it is of; it *)
(* reuses a cfunc_t only when nobody keeps it.                             *)
(***************************************************************************)
Comments0 == [CommentPlaces -> CommentTexts \cup {0}]
Cfunc == [function : Functions, sv : {"none", "current", "stale"},
          edits : SUBSET Nat, comments : Comments0]

FunctionsInv ==
  /\ impl_ \in [Objects -> Cfuncs \cup {NoCfunc}]
  /\ cache \in [Functions -> Cfuncs \cup {NoCfunc}]
  /\ cfuncs \in [Cfuncs -> Cfunc]
  /\ user_cmts \in [Functions -> Comments0]
  /\ EditsOfPrintedText

LEMMA NewCfuncTyped ==
  ASSUME FunctionsInv, NEW f \in Functions
  PROVE  /\ NewCfunc(f) \in Cfunc
         /\ NewCfunc(f).edits = {} /\ NewCfunc(f).function = f
<1>1. user_cmts[f] \in Comments0
  BY DEF FunctionsInv
<1> QED
  BY <1>1 DEF NewCfunc, Cfunc

(* What is kept afterwards was kept before, or has been made just now.     *)
LEMMA KeepsFewer ==
  ASSUME FunctionsInv, NEW S \in SUBSET Kept,
         impl_' \in [Objects -> S \cup {NoCfunc}], cache' \in [Functions -> S \cup {NoCfunc}],
         \A f \in Functions : cache'[f] \in {cache[f], NoCfunc},
         UNCHANGED <<cfuncs, user_cmts>>
  PROVE  FunctionsInv'
<1>1. Kept \subseteq Cfuncs \cup {NoCfunc}
  BY DEF Kept, FunctionsInv
<1>2. Kept' \subseteq Kept \cup {NoCfunc}
  BY DEF Kept
<1>3. EditsOfPrintedText'
  BY <1>2 DEF EditsOfPrintedText, FunctionsInv
<1> QED
  BY <1>1, <1>3 DEF FunctionsInv

(* A change to a cfunc_t that is kept.                                     *)
LEMMA ChangedKeepsInv ==
  ASSUME FunctionsInv, NEW c \in Kept \ {NoCfunc}, NEW new \in Cfunc,
         Changed(c, new), UNCHANGED user_cmts,
         new.function = cfuncs[c].function, new.edits # {} => new.sv # "none"
  PROVE  FunctionsInv'
<1>1. c \in Cfuncs
  BY DEF Kept, FunctionsInv
<1>2. /\ cfuncs' = [cfuncs EXCEPT ![c] = new] /\ impl_' = impl_ /\ cache' = cache
      /\ user_cmts' = user_cmts
  BY DEF Changed
<1>3. Kept' = Kept
  BY <1>2 DEF Kept
<1>4. Kept \ {NoCfunc} \subseteq Cfuncs
  BY DEF Kept, FunctionsInv
<1>5. \A d \in Cfuncs : cfuncs'[d] = IF d = c THEN new ELSE cfuncs[d]
  BY <1>2 DEF FunctionsInv
<1>6. EditsOfPrintedText'
  BY <1>1, <1>2, <1>3, <1>4, <1>5 DEF EditsOfPrintedText, FunctionsInv
<1> QED
  BY <1>1, <1>2, <1>6 DEF FunctionsInv

(* The fields of a cfunc_t that is kept. *)
LEMMA KeptFields ==
  ASSUME FunctionsInv, NEW c \in Kept \ {NoCfunc}
  PROVE  /\ c \in Cfuncs /\ cfuncs[c] \in Cfunc
         /\ cfuncs[c].function \in Functions /\ cfuncs[c].comments \in Comments0
         /\ cfuncs[c].edits \in SUBSET Nat
         /\ cfuncs[c].sv \in {"none", "current", "stale"}
         /\ cfuncs[c].edits # {} => cfuncs[c].sv # "none"
<1>1. c \in Cfuncs
  BY DEF Kept, FunctionsInv
<1>2. cfuncs[c] \in Cfunc
  BY <1>1 DEF FunctionsInv
<1> QED
  BY <1>1, <1>2 DEF Cfunc, FunctionsInv, EditsOfPrintedText

LEMMA CommentSet ==
  ASSUME FunctionsInv, NEW c \in Kept \ {NoCfunc}, NEW place \in CommentPlaces,
         NEW text \in CommentTexts \cup {0}, set_comment(c, place, text)
  PROVE  FunctionsInv'
<1> DEFINE left == [cfuncs[c].comments EXCEPT ![place] = text]
           new == [cfuncs[c] EXCEPT !.comments = left]
<1>1. left \in Comments0
  BY KeptFields DEF Comments0
<1>2. Changed(c, new) /\ UNCHANGED user_cmts
  BY DEF set_comment
<1> HIDE DEF left
<1>3. /\ new \in Cfunc /\ new.function = cfuncs[c].function
      /\ new.edits # {} => new.sv # "none"
  BY <1>1, KeptFields DEF Cfunc
<1> HIDE DEF new
<1> QED
  BY <1>2, <1>3, ChangedKeepsInv

LEMMA CfuncStep ==
  ASSUME FunctionsInv, NEW c \in Kept \ {NoCfunc}, CfuncNext(c)
  PROVE  FunctionsInv'
<1>1. CASE get_pseudocode(c)
  <2> DEFINE new == [cfuncs[c] EXCEPT !.sv = "current", !.edits = {}]
  <2>1. new \in Cfunc /\ new.function = cfuncs[c].function /\ new.edits = {}
    BY KeptFields DEF Cfunc
  <2> HIDE DEF new
  <2> QED
    BY <1>1, <2>1, ChangedKeepsInv DEF get_pseudocode, new
<1>2. CASE refresh(c)
  <2>1. PICK sv \in {"none", "stale"} :
          Changed(c, [cfuncs[c] EXCEPT !.sv = IF @ = "none" THEN "none" ELSE sv,
                                       !.edits = IF sv = "none" THEN {} ELSE @])
    BY <1>2 DEF refresh
  <2> DEFINE new == [cfuncs[c] EXCEPT !.sv = IF @ = "none" THEN "none" ELSE sv,
                                      !.edits = IF sv = "none" THEN {} ELSE @]
  <2>2. /\ new \in Cfunc /\ new.function = cfuncs[c].function
        /\ new.edits # {} => new.sv # "none"
    BY KeptFields DEF Cfunc
  <2>3. UNCHANGED user_cmts
    BY <1>2 DEF refresh
  <2> HIDE DEF new
  <2> QED
    BY <2>1, <2>2, <2>3, ChangedKeepsInv DEF new
<1>3. CASE save_comments(c)
  <2>1. /\ user_cmts' = [user_cmts EXCEPT ![cfuncs[c].function] = cfuncs[c].comments]
        /\ UNCHANGED <<impl_, cfuncs, cache>>
    BY <1>3 DEF save_comments
  <2>2. user_cmts' \in [Functions -> Comments0]
    BY <2>1, KeptFields DEF FunctionsInv
  <2> QED
    BY <2>1, <2>2 DEF FunctionsInv, EditsOfPrintedText, Kept
<1>4. CASE remove_orphan_comments(c)
  <2> DEFINE old == cfuncs[c].comments
             left == [place \in CommentPlaces |-> IF place \in Orphans(c) THEN 0 ELSE old[place]]
             new == [cfuncs[c] EXCEPT !.comments = left]
  <2>1. left \in Comments0
    BY KeptFields DEF Comments0
  <2>2. Changed(c, new) /\ UNCHANGED user_cmts
    BY <1>4 DEF remove_orphan_comments
  <2> HIDE DEF left
  <2>3. /\ new \in Cfunc /\ new.function = cfuncs[c].function
        /\ new.edits # {} => new.sv # "none"
    BY <2>1, KeptFields DEF Cfunc
  <2> HIDE DEF new
  <2> QED
    BY <2>2, <2>3, ChangedKeepsInv
<1>5. ASSUME NEW line \in 0 .. 1, set_raw_line(c, line) PROVE FunctionsInv'
  <2> DEFINE new == [cfuncs[c] EXCEPT !.edits = @ \cup {line}]
  <2>1. cfuncs[c].sv # "none"
    BY <1>5 DEF set_raw_line, Lines
  <2>2. /\ new \in Cfunc /\ new.function = cfuncs[c].function
        /\ new.sv # "none"
    BY <2>1, KeptFields DEF Cfunc
  <2>3. Changed(c, new) /\ UNCHANGED user_cmts
    BY <1>5 DEF set_raw_line
  <2> HIDE DEF new
  <2> QED
    BY <2>2, <2>3, ChangedKeepsInv
<1>6. ASSUME NEW place \in CommentPlaces, NEW text \in CommentTexts \cup {0},
             set_comment(c, place, text)
      PROVE  FunctionsInv'
  BY <1>6, CommentSet
<1> QED
  BY <1>1, <1>2, <1>3, <1>4, <1>5, <1>6 DEF CfuncNext

LEMMA DecompileKeepsInv ==
  ASSUME FunctionsInv, NEW f \in Functions, NEW c \in Cfuncs, decompile_func(f, c),
         \/ UNCHANGED impl_
         \/ \E o \in Objects : impl_' = [impl_ EXCEPT ![o] = c],
         UNCHANGED user_cmts
  PROVE  FunctionsInv'
<1>0. impl_' \in [Objects -> Cfuncs \cup {NoCfunc}] /\ \A o \in Objects : impl_'[o] \in {impl_[o], c}
  BY DEF FunctionsInv
<1>1. CASE c = cache[f] /\ c # NoCfunc /\ UNCHANGED <<cfuncs, cache>>
  <2>1. Kept' \subseteq Kept
    BY <1>0, <1>1 DEF Kept
  <2> QED
    BY <1>0, <1>1, <2>1 DEF FunctionsInv, EditsOfPrintedText
<1>2. CASE /\ c \in Cfuncs \ Kept
           /\ cfuncs' = [cfuncs EXCEPT ![c] = NewCfunc(f)]
           /\ cache' \in {cache, [cache EXCEPT ![f] = c]}
  <2>1. \A g \in Functions : cache'[g] = cache[g] \/ (g = f /\ cache'[g] = c)
    BY <1>2 DEF FunctionsInv
  <2>2. \A g \in Functions : cache[g] # c
    BY <1>2 DEF Kept
  <2>3. Kept' \subseteq Kept \cup {c}
    BY <1>0, <2>1 DEF Kept
  <2>4. Kept \subseteq Cfuncs \cup {NoCfunc}
    BY DEF Kept, FunctionsInv
  <2>5. \A d \in Cfuncs : cfuncs'[d] = IF d = c THEN NewCfunc(f) ELSE cfuncs[d]
    BY <1>2 DEF FunctionsInv
  <2>6. cache' \in [Functions -> Cfuncs \cup {NoCfunc}]
    BY <1>2 DEF FunctionsInv
  <2>7. cfuncs' \in [Cfuncs -> Cfunc]
    BY <1>2, NewCfuncTyped DEF FunctionsInv
  <2>8. EditsOfPrintedText'
    <3> SUFFICES ASSUME NEW d \in Kept', d # NoCfunc
                 PROVE  /\ cfuncs'[d].edits # {} => cfuncs'[d].sv # "none"
                        /\ \A g \in Functions : cache'[g] = d => cfuncs'[d].function = g
      BY DEF EditsOfPrintedText
    <3>1. CASE d = c
      <4>1. cfuncs'[d] = NewCfunc(f)
        BY <1>2, <2>5, <3>1
      <4>2. cfuncs'[d].edits = {} /\ cfuncs'[d].function = f
        BY <4>1, NewCfuncTyped
      <4> QED
        BY <2>1, <2>2, <3>1, <4>2
    <3>2. CASE d # c
      <4>1. d \in Kept \ {NoCfunc} /\ cfuncs'[d] = cfuncs[d]
        BY <2>3, <2>4, <2>5, <3>2
      <4> QED
        BY <2>1, <3>2, <4>1 DEF FunctionsInv, EditsOfPrintedText
    <3> QED
      BY <3>1, <3>2
  <2> QED
    BY <1>0, <2>6, <2>7, <2>8 DEF FunctionsInv
<1> QED
  BY <1>1, <1>2 DEF decompile_func

LEMMA DecompileStep ==
  ASSUME FunctionsInv, FailureRecordTrue, NEW o \in Objects,
         NEW address \in Functions \cup {OutsideAddress},
         decompile(o, address), UNCHANGED user_cmts
  PROVE  FunctionsInv' /\ FailureRecordTrue'
<1>1. FailureRecordTrue'
  BY DEF decompile, FailureRecordTrue, Failed
<1>2. ASSUME UNCHANGED <<impl_, cfuncs, cache>> PROVE FunctionsInv'
  BY <1>2 DEF FunctionsInv, EditsOfPrintedText, Kept
<1>3. ASSUME address \in Functions,
             \E c \in Cfuncs : decompile_func(address, c) /\ impl_' = [impl_ EXCEPT ![o] = c]
      PROVE  FunctionsInv'
  BY <1>3, DecompileKeepsInv
<1> QED
  BY <1>1, <1>2, <1>3 DEF decompile

LEMMA ForgetKeepsInv ==
  ASSUME FunctionsInv, NEW addresses, Forget(addresses)
  PROVE  FunctionsInv'
<1>1. /\ cache' = [f \in Functions |-> IF f \in addresses THEN NoCfunc ELSE cache[f]]
      /\ UNCHANGED <<impl_, cfuncs, user_cmts>>
  BY DEF Forget
<1>2. \A f \in Functions : cache'[f] \in {cache[f], NoCfunc}
  BY <1>1
<1>3. cache' \in [Functions -> Kept \cup {NoCfunc}]
  BY <1>1 DEF Kept
<1>4. impl_' \in [Objects -> Kept \cup {NoCfunc}]
  BY <1>1 DEF Kept, FunctionsInv
<1> QED
  BY <1>1, <1>2, <1>3, <1>4, KeepsFewer

LEMMA ObjectStep ==
  ASSUME FunctionsInv,
         \/ \E o, p \in Objects : MoveObject(o, p)
         \/ \E o \in Objects : DestroyObject(o)
  PROVE  FunctionsInv'
<1>1. UNCHANGED <<cfuncs, cache, user_cmts>>
  BY DEF MoveObject, DestroyObject
<1>2. impl_' \in [Objects -> Kept \cup {NoCfunc}]
  BY DEF MoveObject, DestroyObject, Kept, FunctionsInv
<1>3. cache' \in [Functions -> Kept \cup {NoCfunc}]
  BY <1>1 DEF Kept, FunctionsInv
<1>4. \A f \in Functions : cache'[f] \in {cache[f], NoCfunc}
  BY <1>1
<1> QED
  BY <1>1, <1>2, <1>3, <1>4, KeepsFewer

LEMMA ViewStep ==
  ASSUME FunctionsInv, NEW f \in Functions,
         \/ ViewSaveComments(f)
         \/ \E place \in CommentPlaces, text \in CommentTexts \cup {0} : ViewSetComment(f, place, text)
  PROVE  FunctionsInv'
<1>1. CASE ViewCall(f)
  BY <1>1, DecompileKeepsInv DEF ViewCall
<1>2. ASSUME cache[f] # NoCfunc PROVE cache[f] \in Kept \ {NoCfunc}
  BY <1>2 DEF Kept
<1> QED
  BY <1>1, <1>2, CfuncStep DEF ViewSaveComments, ViewSetComment, CfuncNext

(***************************************************************************)
(* What a client holds of a decompiled function speaks of the function     *)
(* that was asked for: lines and addresses lead to each other, edits are   *)
(* of printed text, what the SDK keeps of a function is a decompilation of *)
(* it, and the record of a failure is that of the last call                *)
(* (DecompiledFunctionsSound), for any functions, texts, objects and       *)
(* comments.                                                               *)
(***************************************************************************)
THEOREM FunctionsSpeakTrue == DecompiledSpec => []DecompiledFunctionsSound
<1>1. DecompiledInit => FunctionsInv /\ FailureRecordTrue
  <2> SUFFICES ASSUME DecompiledInit PROVE FunctionsInv /\ FailureRecordTrue
    OBVIOUS
  <2>1. NoComments \in Comments0
    BY DEF NoComments, Comments0
  <2>2. user_cmts \in [Functions -> Comments0]
    BY <2>1 DEF DecompiledInit
  <2>3. \A f \in Functions : NewCfunc(f) \in Cfunc
    BY <2>2 DEF NewCfunc, Cfunc
  <2>4. cfuncs \in [Cfuncs -> Cfunc]
    BY <2>3 DEF DecompiledInit
  <2>5. Kept \subseteq {NoCfunc}
    BY DEF DecompiledInit, Kept
  <2> QED
    BY <2>2, <2>4, <2>5 DEF DecompiledInit, FunctionsInv, EditsOfPrintedText, FailureRecordTrue
<1>2. FunctionsInv /\ FailureRecordTrue /\ [DecompiledNext]_functionvars
      => FunctionsInv' /\ FailureRecordTrue'
  <2> SUFFICES ASSUME FunctionsInv, FailureRecordTrue, [DecompiledNext]_functionvars
               PROVE  FunctionsInv' /\ FailureRecordTrue'
    OBVIOUS
  <2>1. ASSUME UNCHANGED <<failure, decompiled>> PROVE FailureRecordTrue'
    BY <2>1 DEF FailureRecordTrue
  <2>2. CASE UNCHANGED functionvars
    BY <2>1, <2>2 DEF functionvars, FunctionsInv, EditsOfPrintedText, Kept
  <2>3. CASE \E o \in Objects, address \in Functions \cup {OutsideAddress} :
               decompile(o, address) /\ UNCHANGED user_cmts
    BY <2>3, DecompileStep
  <2>4. CASE \/ \E o, p \in Objects : MoveObject(o, p)
             \/ \E o \in Objects : DestroyObject(o)
    <3>1. UNCHANGED <<failure, decompiled>>
      BY <2>4 DEF MoveObject, DestroyObject
    <3> QED
      BY <2>1, <2>4, <3>1, ObjectStep
  <2>5. CASE \E c \in Kept \ {NoCfunc} : CfuncNext(c)
    <3>1. UNCHANGED <<failure, decompiled>>
      BY <2>5 DEF CfuncNext, get_pseudocode, refresh, save_comments, remove_orphan_comments,
                  set_raw_line, set_comment, Changed
    <3> QED
      BY <2>1, <2>5, <3>1, CfuncStep
  <2>6. ASSUME NEW f \in Functions, mark_dirty(f) \/ mark_dirty_with_callers(f)
        PROVE  FunctionsInv' /\ FailureRecordTrue'
    <3>1. \E addresses : Forget(addresses)
      BY <2>6 DEF mark_dirty, mark_dirty_with_callers
    <3>2. UNCHANGED <<failure, decompiled>>
      BY <3>1 DEF Forget
    <3> QED
      BY <2>1, <3>1, <3>2, ForgetKeepsInv
  <2>7. ASSUME NEW f \in Functions,
               \/ ViewSaveComments(f)
               \/ \E place \in CommentPlaces, text \in CommentTexts \cup {0} : ViewSetComment(f, place, text)
        PROVE  FunctionsInv' /\ FailureRecordTrue'
    <3>1. UNCHANGED <<failure, decompiled>>
      BY <2>7 DEF ViewSaveComments, ViewSetComment, ViewCall, save_comments, set_comment, Changed
    <3> QED
      BY <2>1, <2>7, <3>1, ViewStep
  <2> QED
    BY <2>2, <2>3, <2>4, <2>5, <2>6, <2>7 DEF DecompiledNext
<1>3. FunctionsInv /\ FailureRecordTrue => DecompiledFunctionsSound
  BY LinesAgree DEF DecompiledFunctionsSound, FunctionsInv, DecompiledTypeOK, Cfunc, Comments0
<1> QED
  BY <1>1, <1>2, <1>3, PTL DEF DecompiledSpec

(* Settings of some variables. *)
SettingsOf == UNION {[S -> Setting] : S \in SUBSET Locators}
SavedSettings == {s \in SettingsOf : IsFiniteSet(DOMAIN s)}
Kinds == RegisterVariables \cup StackVariables

(* The records of some settings: one for each variable, in some order.     *)
RecordsOf(records, settings, order) ==
  /\ order \in [1 .. Len(order) -> DOMAIN settings] /\ Len(order) \in Nat
  /\ IsInjective(order)
  /\ \A v \in DOMAIN settings : \E i \in 1 .. Len(order) : order[i] = v
  /\ records = [i \in 1 .. Len(order) |-> make_lvar_user_setting(order[i], settings[order[i]])]

LvarInv ==
  /\ saved \in SavedSettings
  /\ \A s \in Snapshots : snapshots[s] # << >> => snapshots[s][1] \in SavedSettings
  /\ DOMAIN snapshots = Snapshots
  /\ origin \in SavedSettings
  /\ \E order : RecordsOf(written, origin, order)

-----------------------------------------------------------------------------
LEMMA SettingsUnfold ==
  ASSUME NEW s
  PROVE  s \in SavedSettings <=> /\ DOMAIN s \in SUBSET Locators
                        /\ IsFiniteSet(DOMAIN s)
                        /\ s \in [DOMAIN s -> Setting]
<1>1. ASSUME s \in SavedSettings
      PROVE  DOMAIN s \in SUBSET Locators /\ IsFiniteSet(DOMAIN s) /\ s \in [DOMAIN s -> Setting]
  <2>1. PICK S \in SUBSET Locators : s \in [S -> Setting]
    BY <1>1 DEF SavedSettings, SettingsOf
  <2>2. DOMAIN s = S
    BY <2>1
  <2> QED
    BY <1>1, <2>1, <2>2 DEF SavedSettings
<1>2. ASSUME DOMAIN s \in SUBSET Locators, IsFiniteSet(DOMAIN s), s \in [DOMAIN s -> Setting]
      PROVE  s \in SavedSettings
  BY <1>2 DEF SavedSettings, SettingsOf
<1> QED
  BY <1>1, <1>2

LEMMA NoSettings == << >> \in SavedSettings /\ DOMAIN << >> = {}
<1>1. DOMAIN << >> = {} /\ << >> \in [{} -> Setting]
  OBVIOUS
<1>2. IsFiniteSet({})
  BY FS_EmptySet
<1> QED
  BY <1>1, <1>2, SettingsUnfold

(* A setting some fields of which are replaced. *)
Has(settings, v) == IF v \in DOMAIN settings THEN settings[v] ELSE Nothing
Overlaid(old, fields, value) ==
  [field \in Fields |-> IF field \in fields THEN value[field] ELSE old[field]]

Fills(fields, value) ==
  \A field \in Fields : field \in fields => value[field] \in Texts \cup TypeTexts \cup {0}

(* r is s with some fields of l replaced. *)
Replaces(r, s, l, fields, value) ==
  /\ r \in SavedSettings
  /\ DOMAIN r = DOMAIN s \cup {l}
  /\ \A m \in DOMAIN s : m # l => r[m] = s[m]
  /\ r[l] = Overlaid(Has(s, l), fields, value)

LEMMA ModifiedKept ==
  ASSUME NEW s \in SavedSettings, NEW l \in Locators, NEW fields, NEW value,
         Fills(fields, value)
  PROVE  Replaces(Modified(s, l, fields, value), s, l, fields, value)
<1> DEFINE old == IF l \in DOMAIN s THEN s[l] ELSE Nothing
           new == [field \in Fields |-> IF field \in fields THEN value[field] ELSE old[field]]
           r == Modified(s, l, fields, value)
<1>1. DOMAIN s \in SUBSET Locators /\ IsFiniteSet(DOMAIN s) /\ s \in [DOMAIN s -> Setting]
  BY SettingsUnfold
<1>2. Nothing \in Setting
  BY DEF Nothing, Setting
<1>3. old \in Setting
  BY <1>1, <1>2
<1>4. r = [m \in DOMAIN s \cup {l} |-> IF m = l THEN new ELSE s[m]]
  BY DEF Modified
<1> HIDE DEF old, r
<1>5. \A field \in Fields : old[field] \in Texts \cup TypeTexts \cup {0}
  BY <1>3 DEF Setting
<1>6. new \in Setting
  BY <1>5 DEF Setting, Fills
<1> HIDE DEF new
<1>7. r \in [DOMAIN s \cup {l} -> Setting] /\ DOMAIN r = DOMAIN s \cup {l}
  BY <1>1, <1>4, <1>6
<1>8. IsFiniteSet(DOMAIN s \cup {l})
  BY <1>1, FS_AddElement
<1>9. DOMAIN s \cup {l} \in SUBSET Locators
  BY <1>1
<1>10. r \in SavedSettings
  BY <1>7, <1>8, <1>9, SettingsUnfold
<1>11. r[l] = new /\ \A m \in DOMAIN s : m # l => r[m] = s[m]
  BY <1>4
<1> QED
  BY <1>7, <1>10, <1>11 DEF new, old, r, Overlaid, Has, Replaces

(* A record, applied. *)
Record(record) == record.locator \in Locators /\ record.fields \in Setting

LEMMA AppliedKept ==
  ASSUME NEW s \in SavedSettings, NEW record, Record(record)
  PROVE  apply_user_lvar_setting(s, record) \in SavedSettings
<1>1. Fills(Flags(record), record.fields)
  BY DEF Record, Setting, Fills
<1>2. Modified(s, record.locator, Flags(record), record.fields) \in SavedSettings
  BY <1>1, ModifiedKept DEF Record, Replaces
<1> QED
  BY <1>2 DEF apply_user_lvar_setting

LEMMA RecordsTyped ==
  ASSUME NEW records, NEW settings \in SavedSettings, NEW order, RecordsOf(records, settings, order)
  PROVE  /\ Len(records) = Len(order) /\ Len(order) \in Nat
         /\ \A i \in 1 .. Len(order) :
              /\ order[i] \in DOMAIN settings
              /\ records[i] = make_lvar_user_setting(order[i], settings[order[i]])
              /\ Record(records[i])
              /\ settings[order[i]] \in Setting
<1>1. DOMAIN settings \in SUBSET Locators /\ settings \in [DOMAIN settings -> Setting]
  BY SettingsUnfold
<1>2. Len(order) \in Nat /\ order \in [1 .. Len(order) -> DOMAIN settings]
  BY DEF RecordsOf
<1>3. records = [i \in 1 .. Len(order) |-> make_lvar_user_setting(order[i], settings[order[i]])]
  BY DEF RecordsOf
<1>4. Len(records) = Len(order)
  <2> DEFINE n == Len(order)
  <2>1. n \in Nat /\ records = [i \in 1 .. n |-> make_lvar_user_setting(order[i], settings[order[i]])]
    BY <1>2, <1>3
  <2> HIDE DEF n
  <2> QED
    BY <2>1 DEF n
<1>5. ASSUME NEW i \in 1 .. Len(order)
      PROVE  /\ order[i] \in DOMAIN settings
             /\ records[i] = make_lvar_user_setting(order[i], settings[order[i]])
             /\ Record(records[i])
             /\ settings[order[i]] \in Setting
  <2>1. order[i] \in DOMAIN settings /\ records[i] = make_lvar_user_setting(order[i], settings[order[i]])
    BY <1>2, <1>3
  <2>2. settings[order[i]] \in Setting /\ order[i] \in Locators /\ NoLocation \in Locators
    BY <1>1, <2>1 DEF Locators
  <2>3. Record(records[i])
    BY <2>1, <2>2 DEF Record, make_lvar_user_setting
  <2> QED
    BY <2>1, <2>2, <2>3
<1> QED
  BY <1>2, <1>4, <1>5

(* The records are applied one after the other. *)
LEMMA ApplySteps ==
  ASSUME NEW records, NEW n, n = Len(records), n \in Nat,
         \A i \in 1 .. n : Record(records[i]), NEW s \in SavedSettings
  PROVE  /\ AppliedUpTo(s, records)[0] = s
         /\ \A i \in 1 .. n :
              AppliedUpTo(s, records)[i] = apply_user_lvar_setting(AppliedUpTo(s, records)[i - 1], records[i])
         /\ \A i \in 0 .. n : AppliedUpTo(s, records)[i] \in SavedSettings
<1> DEFINE Turn(f, i) == apply_user_lvar_setting(f[i - 1], records[i])
           F == [i \in 1 .. n |-> [t \in SavedSettings |-> apply_user_lvar_setting(t, records[i])]]
           Body(f) == [i \in 0 .. n |-> IF i = 0 THEN s ELSE Turn(f, i)]
<1>1. F \in [1 .. n -> [SavedSettings -> SavedSettings]]
  BY AppliedKept
<1>2. PICK g \in [0 .. n -> SavedSettings] : Iterates(g, s, n, F)
  <2> HIDE DEF F
  <2> QED
    BY <1>1, IterationExists
<1>3. \A i \in 1 .. n : g[i - 1] \in SavedSettings /\ F[i][g[i - 1]] = Turn(g, i)
  <2>1. \A i \in 1 .. n : i - 1 \in 0 .. n
    OBVIOUS
  <2> QED
    BY <2>1
<1>4. g[0] = s /\ \A i \in 1 .. n : g[i] = Turn(g, i)
  <2> HIDE DEF F
  <2> QED
    BY <1>2, <1>3 DEF Iterates
<1> HIDE DEF F, Turn
<1>5. g = Body(g)
  <2>1. \A i \in 0 .. n : i # 0 => i \in 1 .. n
    OBVIOUS
  <2>2. \A i \in 0 .. n : g[i] = Body(g)[i]
    BY <1>4, <2>1
  <2> QED
    BY <2>2
<1> DEFINE f == CHOOSE h : h = Body(h)
<1>6. f = Body(f)
  BY <1>5
<1>7. AppliedUpTo(s, records) = f
  BY DEF AppliedUpTo, Turn
<1> HIDE DEF f
<1>8. f[0] = s
  BY <1>6
<1>9. \A i \in 1 .. n : f[i] = Turn(f, i)
  <2>1. \A i \in 1 .. n : i \in 0 .. n /\ i # 0
    OBVIOUS
  <2> QED
    BY <1>6, <2>1
<1> DEFINE S == {m \in Nat : m <= n => f[m] \in SavedSettings}
<1>10. Nat \subseteq S
  <2>1. 0 \in S
    BY <1>8
  <2>2. ASSUME NEW m \in Nat, m \in S PROVE m + 1 \in S
    <3> SUFFICES ASSUME m + 1 <= n PROVE f[m + 1] \in SavedSettings
      OBVIOUS
    <3>1. m + 1 \in 1 .. n /\ m + 1 - 1 = m /\ f[m] \in SavedSettings
      BY <2>2
    <3>2. f[m + 1] = apply_user_lvar_setting(f[m], records[m + 1])
      BY <1>9, <3>1 DEF Turn
    <3> QED
      BY <3>1, <3>2, AppliedKept
  <2> HIDE DEF S
  <2> QED
    BY <2>1, <2>2, SetInduction
<1>11. \A i \in 0 .. n : f[i] \in SavedSettings
  BY <1>10
<1> QED
  BY <1>7, <1>8, <1>9, <1>11 DEF Turn

-----------------------------------------------------------------------------
(* What a record of a variable carries; what i records give the variable.  *)
Had(settings, v) == IF v \in DOMAIN settings THEN Carried(settings[v]) ELSE Nothing

(* A record gives its variable what it carries, when that has nothing yet, *)
(* and no other variable of a kind that a record can name anything.        *)
LEMMA RecordGives ==
  ASSUME NEW s \in SavedSettings, NEW w \in Locators, NEW setting \in Setting, NEW v \in Kinds
  PROVE  LET r == apply_user_lvar_setting(s, make_lvar_user_setting(w, setting))
         IN  /\ v # w => Has(r, v) = Has(s, v)
             /\ v = w /\ Has(s, v) = Nothing => Has(r, v) = Carried(setting)
<1> DEFINE record == make_lvar_user_setting(w, setting)
           flags == Flags(record)
           r == apply_user_lvar_setting(s, record)
           m == Modified(s, record.locator, flags, record.fields)
<1>1. /\ record.locator \in Locators /\ record.fields = setting
      /\ v # w => record.locator # v
      /\ v = w => record.locator = v
  BY LvarAssumption DEF make_lvar_user_setting, Locators, Kinds, LvarAssumption
<1>2. \A field \in Fields : setting[field] \in Texts \cup TypeTexts \cup {0}
  BY DEF Setting
<1>3. DOMAIN setting = Fields
  BY DEF Setting
<1>4. flags = {field \in Fields :
                 setting[field] # 0 /\ (field = "type" => setting["type"] \notin UnparsableTypes)}
  BY <1>1 DEF Flags
<1>5. r = IF flags = {} THEN s ELSE m
  BY DEF apply_user_lvar_setting
<1> HIDE DEF record, flags, r, m
<1>6. Carried(setting) = [field \in Fields |-> IF field \in flags THEN setting[field] ELSE 0]
  <2>1. Carried(setting) = [field \in Fields |->
          IF field = "type" THEN IF setting["type"] \in UnparsableTypes THEN 0 ELSE setting["type"]
          ELSE setting[field]]
    BY <1>3 DEF Carried, Fields
  <2>2. ASSUME NEW field \in Fields
        PROVE  (IF field = "type" THEN IF setting["type"] \in UnparsableTypes THEN 0 ELSE setting["type"]
                ELSE setting[field]) = IF field \in flags THEN setting[field] ELSE 0
    BY <1>4
  <2> QED
    BY <2>1, <2>2
<1>7. CASE flags = {}
  <2>1. Carried(setting) = Nothing
    BY <1>6, <1>7 DEF Nothing
  <2> QED
    BY <1>5, <1>7, <2>1 DEF r, record
<1>8. CASE flags # {}
  <2>1. /\ DOMAIN m = DOMAIN s \cup {record.locator}
        /\ \A l \in DOMAIN s : l # record.locator => m[l] = s[l]
        /\ m[record.locator] = Overlaid(Has(s, record.locator), flags, record.fields)
    <3> DEFINE l == record.locator
               value == record.fields
    <3>1. l \in Locators /\ Fills(flags, value)
      BY <1>1, <1>2 DEF Fills
    <3>2. m = Modified(s, l, flags, value)
      BY DEF m
    <3> HIDE DEF l, value
    <3>3. Replaces(m, s, l, flags, value)
      BY <3>1, <3>2, ModifiedKept
    <3> QED
      BY <3>3 DEF l, value, Replaces
  <2>2. r = m
    BY <1>5, <1>8
  <2>3. v # w => Has(r, v) = Has(s, v)
    BY <1>1, <2>1, <2>2 DEF Has
  <2>4. ASSUME v = w, Has(s, v) = Nothing PROVE Has(r, v) = Carried(setting)
    <3>1. record.locator = v
      BY <1>1, <2>4
    <3>2. r[v] = [field \in Fields |-> IF field \in flags THEN setting[field] ELSE Nothing[field]]
      BY <1>1, <2>1, <2>2, <2>4, <3>1 DEF Overlaid
    <3>3. \A field \in Fields : Nothing[field] = 0
      BY DEF Nothing
    <3>4. r[v] = Carried(setting)
      BY <1>6, <3>2, <3>3
    <3> QED
      BY <2>1, <2>2, <3>1, <3>4 DEF Has
  <2> QED
    BY <2>3, <2>4 DEF r, record
<1> QED
  BY <1>7, <1>8

(* After i records, the variables of these have what they had, and the     *)
(* others nothing.                                                         *)
GivenBy(order, i, settings, v) ==
  IF \E j \in 1 .. i : order[j] = v THEN Carried(settings[v]) ELSE Nothing

LEMMA RecordsGive ==
  ASSUME NEW records, NEW settings \in SavedSettings, NEW order, RecordsOf(records, settings, order),
         NEW k \in 0 .. Len(records), NEW v \in Kinds
  PROVE  Has(AppliedUpTo(<< >>, records)[k], v) = GivenBy(order, k, settings, v)
<1> DEFINE n == Len(order)
           f == AppliedUpTo(<< >>, records)
           S == {m \in Nat : m <= n => Has(f[m], v) = GivenBy(order, m, settings, v)}
<1>1. /\ Len(records) = n /\ n \in Nat
      /\ \A i \in 1 .. n :
           /\ order[i] \in DOMAIN settings
           /\ records[i] = make_lvar_user_setting(order[i], settings[order[i]])
           /\ Record(records[i])
           /\ settings[order[i]] \in Setting
  BY RecordsTyped
<1>2. DOMAIN settings \in SUBSET Locators
  BY SettingsUnfold
<1>3. /\ f[0] = << >>
      /\ \A i \in 1 .. n : f[i] = apply_user_lvar_setting(f[i - 1], records[i])
      /\ \A i \in 0 .. n : f[i] \in SavedSettings
  <2> HIDE DEF n
  <2>1. n = Len(records) /\ n \in Nat /\ (\A i \in 1 .. n : Record(records[i])) /\ << >> \in SavedSettings
    BY <1>1, NoSettings
  <2> QED
    BY <2>1, ApplySteps, ZenonT(30)
<1>4. \A i, j \in 1 .. n : order[i] = order[j] => i = j
  BY DEF RecordsOf, IsInjective
<1> HIDE DEF n, f
<1>5. 0 \in S
  BY <1>3, NoSettings DEF Has, GivenBy
<1>6. ASSUME NEW m \in Nat, m \in S PROVE m + 1 \in S
  <2> SUFFICES ASSUME m + 1 <= n PROVE Has(f[m + 1], v) = GivenBy(order, m + 1, settings, v)
    OBVIOUS
  <2>1. m + 1 \in 1 .. n /\ m \in 0 .. n /\ m + 1 - 1 = m
    BY <1>1
  <2> DEFINE w == order[m + 1]
  <2>2. f[m + 1] = apply_user_lvar_setting(f[m], make_lvar_user_setting(w, settings[w]))
    BY <1>1, <1>3, <2>1
  <2>3. f[m] \in SavedSettings /\ w \in Locators /\ settings[w] \in Setting
    BY <1>1, <1>2, <1>3, <2>1
  <2>4. Has(f[m], v) = GivenBy(order, m, settings, v)
    BY <1>6, <2>1
  <2> HIDE DEF w
  <2>5. /\ v # w => Has(f[m + 1], v) = Has(f[m], v)
        /\ v = w /\ Has(f[m], v) = Nothing => Has(f[m + 1], v) = Carried(settings[w])
    BY <2>2, <2>3, RecordGives
  <2>6. \A j \in 1 .. m + 1 : j = m + 1 \/ j \in 1 .. m
    OBVIOUS
  <2>7. CASE v # w
    <3>1. (\E j \in 1 .. m + 1 : order[j] = v) <=> (\E j \in 1 .. m : order[j] = v)
      BY <2>6, <2>7 DEF w
    <3> QED
      BY <2>4, <2>5, <2>7, <3>1 DEF GivenBy
  <2>8. CASE v = w
    <3>1. ~\E j \in 1 .. m : order[j] = v
      BY <1>1, <1>4, <2>1, <2>8 DEF w
    <3>2. m + 1 \in 1 .. m + 1 /\ order[m + 1] = v
      BY <2>8 DEF w
    <3> QED
      BY <2>4, <2>5, <2>8, <3>1, <3>2 DEF GivenBy
  <2> QED
    BY <2>7, <2>8
<1>7. Nat \subseteq S
  <2> HIDE DEF S
  <2> QED
    BY <1>5, <1>6, SetInduction
<1>8. k \in Nat /\ k <= n
  BY <1>1
<1>9. Has(f[k], v) = GivenBy(order, k, settings, v)
  BY <1>7, <1>8
<1> QED
  BY <1>9 DEF f

-----------------------------------------------------------------------------
(* The steps. *)
LEMMA LvarInitial ==
  ASSUME LvarInit
  PROVE  LvarInv
<1>1. << >> \in SavedSettings
  BY NoSettings
<1>2. RecordsOf(<< >>, << >>, << >>)
  BY NoSettings DEF RecordsOf, IsInjective
<1>3. snapshots = [s \in Snapshots |-> << << >> >>]
  BY DEF LvarInit
<1>4. \A s \in Snapshots : snapshots[s][1] = << >>
  BY <1>3
<1> QED
  BY <1>1, <1>2, <1>3, <1>4 DEF LvarInit, LvarInv

LEMMA WrittenOut ==
  ASSUME NEW settings \in SavedSettings, NEW records,
         records = LET order == SetToSeq(DOMAIN settings) IN
                   [i \in DOMAIN order |-> make_lvar_user_setting(order[i], settings[order[i]])]
  PROVE  \E order : RecordsOf(records, settings, order)
<1> DEFINE order == SetToSeq(DOMAIN settings)
           n == Cardinality(DOMAIN settings)
<1>1. IsFiniteSet(DOMAIN settings)
  BY SettingsUnfold
<1>2. /\ n \in Nat /\ order \in [1 .. n -> DOMAIN settings] /\ Len(order) = n
      /\ IsInjective(order)
      /\ \A x \in DOMAIN settings : \E i \in 1 .. n : order[i] = x
  BY <1>1, SetAsSeq
<1>3. records = [i \in DOMAIN order |-> make_lvar_user_setting(order[i], settings[order[i]])]
  OBVIOUS
<1> HIDE DEF order, n
<1>4. DOMAIN order = 1 .. n
  BY <1>2
<1>5. RecordsOf(records, settings, order)
  BY <1>2, <1>3, <1>4 DEF RecordsOf
<1> QED
  BY <1>5

LEMMA LvarStep ==
  ASSUME LvarInv, LvarNext
  PROVE  LvarInv'
<1>1. /\ saved \in SavedSettings /\ origin \in SavedSettings /\ DOMAIN snapshots = Snapshots
      /\ \A s \in Snapshots : snapshots[s] # << >> => snapshots[s][1] \in SavedSettings
      /\ \E order : RecordsOf(written, origin, order)
  BY DEF LvarInv
<1>2. CASE \E v \in Variables, field \in Fields : \E text \in Editable[field] : Edit(v, field, text)
  <2>1. PICK v \in Variables, field \in Fields : \E text \in Editable[field] : Edit(v, field, text)
    BY <1>2
  <2>2. PICK text \in Editable[field] : Edit(v, field, text)
    BY <2>1
  <2> DEFINE value == [Nothing EXCEPT ![field] = text]
  <2>3. text \in Texts \cup TypeTexts \cup {0}
    BY DEF Editable, Fields
  <2>4. Fills({field}, value)
    BY <2>3 DEF Nothing, Fills
  <2>5. v \in Locators
    BY DEF Locators
  <2>6. /\ saved' = Modified(saved, v, {field}, value)
        /\ UNCHANGED <<snapshots, written, origin>>
    BY <2>2 DEF Edit
  <2> HIDE DEF value
  <2>7. saved' \in SavedSettings
    BY <1>1, <2>4, <2>5, <2>6, ModifiedKept DEF Replaces
  <2> QED
    BY <1>1, <2>6, <2>7 DEF LvarInv
<1>3. ASSUME NEW s \in Snapshots, capture_user_lvar_settings(s) PROVE LvarInv'
  <2>1. snapshots' = [snapshots EXCEPT ![s] = <<saved>>] /\ UNCHANGED <<saved, written, origin>>
    BY <1>3 DEF capture_user_lvar_settings
  <2>2. <<saved>>[1] \in SavedSettings
    BY <1>1
  <2>3. DOMAIN snapshots' = Snapshots
    BY <1>1, <2>1
  <2>4. ASSUME NEW t \in Snapshots, snapshots'[t] # << >> PROVE snapshots'[t][1] \in SavedSettings
    BY <1>1, <2>1, <2>2, <2>4
  <2> QED
    BY <1>1, <2>1, <2>3, <2>4 DEF LvarInv
<1>4. ASSUME NEW s \in Snapshots, restore_user_lvar_settings(s) PROVE LvarInv'
  BY <1>1, <1>4 DEF restore_user_lvar_settings, LvarInv
<1>5. ASSUME NEW s \in Snapshots, NEW other \in Snapshots,
             CopySnapshot(s, other) \/ MoveSnapshot(s, other)
      PROVE  LvarInv'
  <2>1. UNCHANGED <<saved, written, origin>>
    BY <1>5 DEF CopySnapshot, MoveSnapshot
  <2>2. DOMAIN snapshots' = Snapshots
    BY <1>1, <1>5 DEF CopySnapshot, MoveSnapshot
  <2>3. ASSUME NEW t \in Snapshots, snapshots'[t] # << >> PROVE snapshots'[t][1] \in SavedSettings
    <3>1. snapshots'[t] = snapshots[t] \/ snapshots'[t] = snapshots[other]
      BY <1>1, <1>5, <2>3 DEF CopySnapshot, MoveSnapshot
    <3> QED
      BY <1>1, <2>3, <3>1
  <2> QED
    BY <1>1, <2>1, <2>2, <2>3 DEF LvarInv
<1>6. CASE saved_user_lvar_settings
  <2>1. \E order : RecordsOf(written', saved, order)
    BY <1>1, <1>6, WrittenOut DEF saved_user_lvar_settings
  <2>2. origin' = saved /\ UNCHANGED <<saved, snapshots>>
    BY <1>6 DEF saved_user_lvar_settings
  <2> QED
    BY <1>1, <2>1, <2>2 DEF LvarInv
<1>7. CASE \E k \in 0 .. Len(written) : apply_user_lvar_settings(k)
  <2>1. PICK k \in 0 .. Len(written) : apply_user_lvar_settings(k)
    BY <1>7
  <2>2. PICK order : RecordsOf(written, origin, order)
    BY <1>1
  <2>3. Len(written) \in Nat /\ \A i \in 1 .. Len(written) : Record(written[i])
    BY <1>1, <2>2, RecordsTyped
  <2>4. saved' = AppliedUpTo(saved, written)[k] /\ UNCHANGED <<snapshots, written, origin>>
    BY <2>1 DEF apply_user_lvar_settings, Applied
  <2>5. saved' \in SavedSettings
    BY <1>1, <2>3, <2>4, ApplySteps
  <2> QED
    BY <1>1, <2>4, <2>5 DEF LvarInv
<1> QED
  BY <1>2, <1>3, <1>4, <1>5, <1>6, <1>7 DEF LvarNext

-----------------------------------------------------------------------------
(* What a user said of the local variables of a function                   *)
(* (src/src/decompiler.cpp) comes back when the settings that were written *)
(* out are applied to a function without any, for every variable a record  *)
(* can name, in whatever order they were written; and applied in part they *)
(* give no variable anything it had not.                                   *)
THEOREM SettingsComeBack ==
  LvarSpec => WrittenSettingsComeBack
<1>1. LvarInit => LvarInv
  BY LvarInitial
<1>2. LvarInv /\ [LvarNext]_lvarvars => LvarInv'
  <2> SUFFICES ASSUME LvarInv, [LvarNext]_lvarvars PROVE LvarInv'
    OBVIOUS
  <2>1. CASE LvarNext
    BY <2>1, LvarStep
  <2>2. CASE UNCHANGED lvarvars
    BY <2>2 DEF LvarInv, lvarvars
  <2> QED
    BY <2>1, <2>2
<1> DEFINE Back ==
      \A k \in 0 .. Len(written) :
       apply_user_lvar_settings(k) /\ saved = << >> =>
         \A v \in RegisterVariables \cup StackVariables :
           LET had == IF v \in DOMAIN origin THEN Carried(origin[v]) ELSE Nothing
               has == IF v \in DOMAIN saved' THEN saved'[v] ELSE Nothing
           IN has = had \/ (k < Len(written) /\ has = Nothing)
<1>3. LvarInv => Back
  <2> SUFFICES ASSUME LvarInv, NEW k \in 0 .. Len(written),
                      apply_user_lvar_settings(k), saved = << >>,
                      NEW v \in Kinds
               PROVE  \/ Has(saved', v) = Had(origin, v)
                      \/ k < Len(written) /\ Has(saved', v) = Nothing
    BY DEF Has, Had, Kinds
  <2>1. origin \in SavedSettings
    BY DEF LvarInv
  <2>2. PICK order : RecordsOf(written, origin, order)
    BY DEF LvarInv
  <2>3. saved' = AppliedUpTo(<< >>, written)[k]
    BY DEF apply_user_lvar_settings, Applied
  <2>4. Has(saved', v) = IF \E i \in 1 .. k : order[i] = v THEN Carried(origin[v]) ELSE Nothing
    <3>1. Has(AppliedUpTo(<< >>, written)[k], v) = GivenBy(order, k, origin, v)
      BY <2>1, <2>2, RecordsGive
    <3> QED
      BY <2>3, <3>1 DEF GivenBy
  <2>5. /\ Len(written) = Len(order) /\ Len(order) \in Nat
        /\ \A i \in 1 .. Len(order) : order[i] \in DOMAIN origin
    BY <2>1, <2>2, RecordsTyped
  <2>6. CASE v \notin DOMAIN origin
    <3>1. ~\E i \in 1 .. k : order[i] = v
      BY <2>5, <2>6
    <3> QED
      BY <2>4, <2>6, <3>1 DEF Had
  <2>7. CASE v \in DOMAIN origin /\ \E i \in 1 .. k : order[i] = v
    BY <2>4, <2>7 DEF Had
  <2>8. CASE v \in DOMAIN origin /\ ~\E i \in 1 .. k : order[i] = v
    <3>1. PICK i \in 1 .. Len(order) : order[i] = v
      BY <2>2, <2>8 DEF RecordsOf
    <3>2. k < Len(written)
      BY <2>5, <2>8, <3>1
    <3> QED
      BY <2>4, <2>8, <3>2
  <2> QED
    BY <2>6, <2>7, <2>8
<1>4. LvarInv /\ LvarInv' /\ [LvarNext]_lvarvars => [Back]_lvarvars
  BY <1>3
<1>5. LvarSpec => [][Back]_lvarvars
  BY <1>1, <1>2, <1>4, PTL DEF LvarSpec
<1> QED
  BY <1>5 DEF WrittenSettingsComeBack
=============================================================================
