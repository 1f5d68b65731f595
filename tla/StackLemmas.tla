---------------------------- MODULE StackLemmas ----------------------------
(***************************************************************************)
(* Facts about numbers, sequences and stacks of calls that the proofs of   *)
(* several components rest on.  A component keeps the calls its threads    *)
(* are in as a function from threads to sequences, the innermost call      *)
(* last; it pushes a call, pops one, or replaces the innermost one.        *)
(***************************************************************************)
EXTENDS Integers, Selections, SequencesExt, SequenceTheorems, FiniteSetTheorems,
        WellFoundedInduction, TLAPS

(* A nonempty set of naturals has a least element, and Min is it. *)
LEMMA MinInSet ==
  ASSUME NEW S, S \subseteq Nat, S # {}
  PROVE  /\ Min(S) \in S
         /\ \A y \in S : Min(S) <= y
<1> DEFINE R == OpToRel(<, Nat)
<1>1. \E x \in S : \A y \in S : ~(<<y, x>> \in R)
  BY NatLessThanWellFounded, WFMin
<1>2. \A x, y \in Nat : y < x => <<y, x>> \in R
  BY DEF OpToRel
<1> HIDE DEF R
<1>3. PICK x \in S : \A y \in S : ~(<<y, x>> \in R)
  BY <1>1
<1>4. \A y \in S : ~(y < x)
  BY <1>2, <1>3
<1>5. \A y \in S : x =< y
  BY <1>4
<1> QED
  BY <1>5 DEF Min

(* Induction, for a property that a set of numbers has. *)
LEMMA SetInduction ==
  ASSUME NEW S, 0 \in S, \A n \in Nat : n \in S => n + 1 \in S
  PROVE  Nat \subseteq S
<1> SUFFICES ASSUME Nat \ S # {} PROVE FALSE
  OBVIOUS
<1> DEFINE m == Min(Nat \ S)
<1>1. m \in Nat \ S /\ \A y \in Nat \ S : m <= y
  BY MinInSet
<1> HIDE DEF m
<1>2. m - 1 \in Nat /\ m - 1 \notin Nat \ S
  BY <1>1
<1>3. (m - 1) + 1 \in S
  BY <1>2
<1> QED
  BY <1>1, <1>3

-----------------------------------------------------------------------------
(* All but the last element of a sequence. *)
LEMMA FrontOfSeq ==
  ASSUME NEW C, NEW s \in Seq(C), s # << >>
  PROVE  /\ Front(s) \in Seq(C)
         /\ Len(Front(s)) = Len(s) - 1
         /\ \A i \in 1 .. Len(s) - 1 : Front(s)[i] = s[i]
<1> DEFINE n == Len(s) - 1
<1>1. n \in Nat /\ Len(s) = n + 1
  BY EmptySeq
<1>2. \A i \in 1 .. n : s[i] \in C
  BY <1>1, ElementOfSeq
<1>3. Front(s) = SubSeq(s, 1, n)
  BY DEF Front
<1> HIDE DEF n
<1>4. /\ SubSeq(s, 1, n) \in Seq(C)
      /\ Len(SubSeq(s, 1, n)) = n
      /\ \A i \in 1 .. n : SubSeq(s, 1, n)[i] = s[i]
  BY <1>1, <1>2, SubSeqProperties
<1> QED
  BY <1>1, <1>3, <1>4

(* A sequence whose last element is replaced. *)
LEMMA LastReplaced ==
  ASSUME NEW C, NEW s \in Seq(C), s # << >>, NEW c \in C
  PROVE  /\ Append(Front(s), c) \in Seq(C)
         /\ Len(Append(Front(s), c)) = Len(s)
         /\ \A i \in 1 .. Len(s) - 1 : Append(Front(s), c)[i] = s[i]
         /\ Append(Front(s), c)[Len(s)] = c
<1>1. Len(s) \in Nat \ {0}
  BY EmptySeq
<1> QED
  BY <1>1, FrontOfSeq, AppendProperties

(* The parts of a sequence before and after a place. *)
LEMMA FirstPart ==
  ASSUME NEW C, NEW s \in Seq(C), NEW a \in 0 .. Len(s)
  PROVE  LET p == SubSeq(s, 1, a) IN
         p \in Seq(C) /\ Len(p) = a /\ \A k \in 1 .. a : p[k] = s[k]
<1> DEFINE p == SubSeq(s, 1, a)
<1>1. 1 \in Int /\ a \in Int /\ a \in Nat /\ \A k \in 1 .. a : s[k] \in C
  BY LenProperties, ElementOfSeq
<1>2. /\ p \in Seq(C)
      /\ Len(p) = IF 1 <= a THEN a - 1 + 1 ELSE 0
      /\ \A k \in 1 .. a - 1 + 1 : p[k] = s[1 + k - 1]
  BY <1>1, SubSeqProperties
<1> HIDE DEF p
<1>3. Len(p) = a
  BY <1>1, <1>2
<1>4. ASSUME NEW k \in 1 .. a PROVE p[k] = s[k]
  <2>1. k \in 1 .. a - 1 + 1 /\ 1 + k - 1 = k
    BY <1>1
  <2> QED  BY <1>2, <2>1, Zenon
<1> USE DEF p
<1> QED  BY <1>2, <1>3, <1>4

LEMMA LastPart ==
  ASSUME NEW C, NEW s \in Seq(C), NEW a \in 0 .. Len(s)
  PROVE  LET p == SubSeq(s, a + 1, Len(s)) IN
         p \in Seq(C) /\ Len(p) = Len(s) - a /\ \A k \in 1 .. Len(s) - a : p[k] = s[k + a]
<1> DEFINE n == Len(s)
           p == SubSeq(s, a + 1, n)
<1>0. n \in Nat /\ a \in 0 .. n /\ \A k \in 1 .. n : s[k] \in C
  BY LenProperties, ElementOfSeq
<1>1. a + 1 \in Int /\ n \in Int /\ \A k \in a + 1 .. n : s[k] \in C
  BY <1>0
<1>2. /\ p \in Seq(C)
      /\ Len(p) = IF a + 1 <= n THEN n - (a + 1) + 1 ELSE 0
      /\ \A k \in 1 .. n - (a + 1) + 1 : p[k] = s[(a + 1) + k - 1]
  BY <1>1, SubSeqProperties
<1> HIDE DEF p
<1>3. Len(p) = n - a
  BY <1>0, <1>2
<1>4. ASSUME NEW k \in 1 .. n - a PROVE p[k] = s[k + a]
  <2>1. k \in 1 .. n - (a + 1) + 1 /\ (a + 1) + k - 1 = k + a
    BY <1>0
  <2> QED  BY <1>2, <2>1, Zenon
<1> USE DEF p
<1> QED  BY <1>2, <1>3, <1>4

(* r is b with m after its first a elements. *)
Grown(b, a, m, r) ==
  /\ a \in 0 .. Len(b)
  /\ Len(r) = Len(b) + 1
  /\ \A j \in 1 .. Len(b) + 1 :
       r[j] = IF j <= a THEN b[j] ELSE IF j = a + 1 THEN m ELSE b[j - 1]

LEMMA GrownIsOne ==
  ASSUME NEW C, NEW b \in Seq(C), NEW a, NEW m,
         NEW r \in Seq(C), NEW q \in Seq(C), Grown(b, a, m, r), Grown(b, a, m, q)
  PROVE  r = q
<1>1. Len(r) = Len(q) /\ Len(r) = Len(b) + 1
  BY DEF Grown
<1>2. \A j \in 1 .. Len(r) : r[j] = q[j]
  BY <1>1 DEF Grown
<1>3. DOMAIN r = 1 .. Len(r) /\ DOMAIN q = 1 .. Len(q)
  BY LenProperties
<1> QED
  BY <1>1, <1>2, SeqEqual

LEMMA InsertGrows ==
  ASSUME NEW C, NEW b \in Seq(C), NEW a \in 0 .. Len(b), NEW m \in C
  PROVE  InsertAt(b, a + 1, m) \in Seq(C) /\ Grown(b, a, m, InsertAt(b, a + 1, m))
<1> DEFINE n == Len(b)
           p == SubSeq(b, 1, a)
           q == SubSeq(b, a + 1, n)
           pm == p \o <<m>>
<1>0. n \in Nat /\ a \in 0 .. n
  BY LenProperties
<1>1. p \in Seq(C) /\ Len(p) = a /\ \A k \in 1 .. a : p[k] = b[k]
  BY FirstPart
<1>2. q \in Seq(C) /\ Len(q) = n - a /\ \A k \in 1 .. n - a : q[k] = b[k + a]
  BY LastPart
<1>3. <<m>> \in Seq(C) /\ Len(<<m>>) = 1 /\ <<m>>[1] = m
  OBVIOUS
<1>4. InsertAt(b, a + 1, m) = pm \o q
  <2>1. (a + 1) - 1 = a
    BY <1>0
  <2> QED  BY <2>1 DEF InsertAt
<1> HIDE DEF p, q, n
<1>5. pm \in Seq(C) /\ Len(pm) = a + 1 /\ pm[a + 1] = m /\ \A k \in 1 .. a : pm[k] = b[k]
  <2>1. /\ pm \in Seq(C) /\ Len(pm) = Len(p) + Len(<<m>>)
        /\ \A k \in 1 .. Len(p) + Len(<<m>>) :
             pm[k] = IF k <= Len(p) THEN p[k] ELSE <<m>>[k - Len(p)]
    BY <1>1, <1>3, ConcatProperties
  <2> HIDE DEF pm
  <2>2. a \in Nat /\ a + 1 \in 1 .. Len(p) + Len(<<m>>) /\ ~(a + 1 <= Len(p))
        /\ (a + 1) - Len(p) = 1
    BY <1>0, <1>1, <1>3
  <2>3. pm[a + 1] = m
    BY <2>1, <2>2, <1>3
  <2>4. ASSUME NEW k \in 1 .. a PROVE pm[k] = b[k]
    BY <2>1, <2>2, <1>1, <1>3
  <2> QED  BY <2>1, <2>3, <2>4, <1>1, <1>3
<1> HIDE DEF pm
<1>6. /\ pm \o q \in Seq(C) /\ Len(pm \o q) = Len(pm) + Len(q)
      /\ \A k \in 1 .. Len(pm) + Len(q) :
           (pm \o q)[k] = IF k <= Len(pm) THEN pm[k] ELSE q[k - Len(pm)]
  BY <1>2, <1>5, ConcatProperties
<1>7. Len(pm \o q) = n + 1
  BY <1>0, <1>2, <1>5, <1>6
<1>8. ASSUME NEW j \in 1 .. n + 1
      PROVE  (pm \o q)[j] = IF j <= a THEN b[j] ELSE IF j = a + 1 THEN m ELSE b[j - 1]
  <2>0. Len(pm) + Len(q) = n + 1 /\ a \in Nat
    BY <1>0, <1>2, <1>5
  <2>1. (pm \o q)[j] = IF j <= a + 1 THEN pm[j] ELSE q[j - (a + 1)]
    BY <2>0, <1>5, <1>6
  <2>2. CASE j <= a
    BY <2>1, <2>2, <1>0, <1>5
  <2>3. CASE j = a + 1
    BY <2>1, <2>3, <1>0, <1>5
  <2>4. CASE j > a + 1
    <3>1. j - (a + 1) \in 1 .. n - a /\ (j - (a + 1)) + a = j - 1
      BY <2>4, <1>0
    <3> QED  BY <2>1, <2>4, <3>1, <1>0, <1>2
  <2>5. j \in Nat /\ (j <= a \/ j = a + 1 \/ j > a + 1)
    BY <1>0
  <2> QED  BY <2>2, <2>3, <2>4, <2>5, Zenon
<1> QED  BY <1>0, <1>4, <1>6, <1>7, <1>8 DEF Grown, n

(* The elements of a sequence are its range. *)
LEMMA InRange ==
  ASSUME NEW C, NEW s \in Seq(C)
  PROVE  \A x : x \in Range(s) <=> Contains(s, x)
<1>1. DOMAIN s = 1 .. Len(s)
  BY LenProperties
<1> QED  BY <1>1 DEF Range, Contains

LEMMA SeqOfElements ==
  ASSUME NEW C, NEW s \in Seq(C), NEW D, Range(s) \subseteq D
  PROVE  s \in Seq(D)
<1>1. Len(s) \in Nat /\ DOMAIN s = 1 .. Len(s) /\ s \in [1 .. Len(s) -> C]
  BY LenProperties
<1>2. \A i \in 1 .. Len(s) : s[i] \in D
  BY <1>1 DEF Range
<1> QED  BY <1>1, <1>2

(* The elements of a sequence, and what Append, Head and Tail do to them. *)
LEMMA RangeOfAppend ==
  ASSUME NEW C, NEW s \in Seq(C), NEW e \in C
  PROVE  Range(Append(s, e)) = Range(s) \cup {e}
<1> DEFINE n == Len(s)
           r == Append(s, e)
<1>1. /\ n \in Nat /\ DOMAIN s = 1 .. n /\ DOMAIN r = 1 .. n + 1
      /\ \A i \in 1 .. n : r[i] = s[i]
      /\ r[n + 1] = e
  BY LenProperties, AppendProperties
<1> HIDE DEF n, r
<1>2. 1 .. n + 1 = (1 .. n) \cup {n + 1}
  BY <1>1
<1>3. Range(r) = Range(s) \cup {e}
  BY <1>1, <1>2 DEF Range
<1> QED
  BY <1>3 DEF r

LEMMA RangeOfTail ==
  ASSUME NEW C, NEW s \in Seq(C), s # << >>
  PROVE  /\ Range(s) = {Head(s)} \cup Range(Tail(s))
         /\ Range(s) \subseteq C
<1> DEFINE n == Len(s)
           r == Tail(s)
<1>1. n \in Nat \ {0} /\ DOMAIN s = 1 .. n
  BY EmptySeq, LenProperties
<1>2. /\ r \in Seq(C) /\ Len(r) = n - 1 /\ DOMAIN r = 1 .. n - 1
      /\ \A i \in 1 .. n - 1 : r[i] = s[i + 1]
  <2>1. r \in Seq(C) /\ Len(r) = n - 1 /\ \A i \in 1 .. Len(r) : r[i] = s[i + 1]
    BY HeadTailProperties
  <2> HIDE DEF r, n
  <2> QED
    BY <2>1, LenProperties
<1>3. Head(s) = s[1]
  BY <1>1
<1> HIDE DEF n, r
<1>4. ASSUME NEW i \in 1 .. n, i # 1 PROVE \E j \in 1 .. n - 1 : s[i] = r[j]
  <2>1. i - 1 \in 1 .. n - 1 /\ (i - 1) + 1 = i
    BY <1>1, <1>4
  <2> QED
    BY <1>2, <2>1
<1>5. \A j \in 1 .. n - 1 : j + 1 \in 1 .. n
  BY <1>1
<1>6. 1 \in 1 .. n
  BY <1>1
<1>7. Range(s) = {Head(s)} \cup Range(r)
  <2>1. ASSUME NEW v \in Range(s) PROVE v \in {Head(s)} \cup Range(r)
    <3>1. PICK i \in 1 .. n : v = s[i]
      BY <1>1 DEF Range
    <3> QED
      BY <1>2, <1>3, <1>4, <3>1 DEF Range
  <2>2. Head(s) \in Range(s)
    BY <1>1, <1>3, <1>6 DEF Range
  <2>3. Range(r) \subseteq Range(s)
    BY <1>1, <1>2, <1>5 DEF Range
  <2> QED
    BY <2>1, <2>2, <2>3
<1>8. Range(s) \subseteq C
  BY <1>1, ElementOfSeq DEF Range, n
<1> QED
  BY <1>7, <1>8 DEF r

(* A finite set as a sequence: every element stands in it once. *)
LEMMA SetAsSeq ==
  ASSUME NEW S, IsFiniteSet(S)
  PROVE  /\ Cardinality(S) \in Nat
         /\ SetToSeq(S) \in [1 .. Cardinality(S) -> S]
         /\ Len(SetToSeq(S)) = Cardinality(S)
         /\ IsInjective(SetToSeq(S))
         /\ \A x \in S : \E i \in 1 .. Cardinality(S) : SetToSeq(S)[i] = x
<1> DEFINE n == Cardinality(S)
           s == SetToSeq(S)
           T == {s[i] : i \in 1 .. n}
<1>1. n \in Nat /\ \E f : f \in Bijection(1 .. n, S)
  BY FS_CardinalityType DEF ExistsBijection
<1>2. PICK f : f \in Bijection(1 .. n, S)
  BY <1>1
<1>3. f \in [1 .. n -> S] /\ IsInjective(f)
  BY <1>2 DEF Bijection, Injection, Surjection, IsInjective
<1>4. s \in [1 .. n -> S] /\ IsInjective(s)
  BY <1>3 DEF SetToSeq
<1>5. Len(s) = n
  <2> HIDE DEF s
  <2> QED
    BY <1>1, <1>4
<1> HIDE DEF n, s
<1>6. T \in SUBSET S
  BY <1>4
<1>7. s \in Bijection(1 .. n, T)
  BY <1>4 DEF Bijection, Injection, Surjection, IsInjective
<1>8. IsFiniteSet(T)
  BY <1>6, FS_Subset
<1>9. Cardinality(T) = n
  <2> HIDE DEF T
  <2>1. ExistsBijection(1 .. n, T)
    BY <1>7 DEF ExistsBijection
  <2> QED
    BY <1>1, <2>1, FS_CountingElements
<1>10. S = T
  <2> HIDE DEF T
  <2> QED
    BY <1>6, <1>9, FS_Subset DEF n
<1> QED
  BY <1>1, <1>4, <1>5, <1>10 DEF n, s

(* A sequence without its i-th element. *)
LEMMA RemovedAt ==
  ASSUME NEW C, NEW s \in Seq(C), NEW i \in 1 .. Len(s)
  PROVE  /\ RemoveAt(s, i) \in Seq(C)
         /\ Len(RemoveAt(s, i)) = Len(s) - 1
         /\ \A j \in 1 .. Len(s) - 1 :
              RemoveAt(s, i)[j] = IF j < i THEN s[j] ELSE s[j + 1]
<1> DEFINE before == SubSeq(s, 1, i - 1)
           after == SubSeq(s, i + 1, Len(s))
           n == Len(s)
<1>1. n \in Nat /\ i \in 1 .. n /\ \A k \in 1 .. n : s[k] \in C
  BY LenProperties, ElementOfSeq
<1>2. /\ before \in Seq(C) /\ Len(before) = i - 1
      /\ \A k \in 1 .. i - 1 : before[k] = s[k]
  <2>1. i - 1 \in 0 .. Len(s)
    BY <1>1
  <2> QED  BY <2>1, FirstPart
<1>3. /\ after \in Seq(C) /\ Len(after) = n - i
      /\ \A k \in 1 .. n - i : after[k] = s[k + i]
  <2>1. i \in 0 .. Len(s)
    BY <1>1
  <2> QED  BY <2>1, LastPart
<1>4. RemoveAt(s, i) = before \o after
  BY DEF RemoveAt
<1> HIDE DEF before, after
<1> HIDE DEF n
<1>5. /\ before \o after \in Seq(C)
      /\ Len(before \o after) = n - 1
  <2>1. before \o after \in Seq(C) /\ Len(before \o after) = Len(before) + Len(after)
    BY <1>2, <1>3, ConcatProperties
  <2> QED
    BY <1>1, <1>2, <1>3, <2>1
<1>6. ASSUME NEW j \in 1 .. n - 1
      PROVE  (before \o after)[j] = IF j < i THEN s[j] ELSE s[j + 1]
  <2>1. (before \o after)[j] = IF j <= Len(before) THEN before[j] ELSE after[j - Len(before)]
    BY <1>1, <1>2, <1>3, ConcatProperties
  <2>2. CASE j < i
    BY <1>1, <1>2, <2>1, <2>2
  <2>3. CASE j >= i
    <3>1. j - (i - 1) \in 1 .. n - i /\ (j - (i - 1)) + i = j + 1 /\ ~(j <= i - 1)
      BY <1>1, <2>3
    <3> QED
      BY <1>2, <1>3, <2>1, <2>3, <3>1
  <2>4. j < i \/ j >= i
    BY <1>1
  <2> QED
    BY <2>2, <2>3, <2>4
<1> QED
  BY <1>4, <1>5, <1>6 DEF n

(* The three ways in which the calls of a thread change. *)
Pushed(st, t, c) == [st EXCEPT ![t] = Append(st[t], c)]
Popped(st, t) == [st EXCEPT ![t] = Front(st[t])]
TopSet(st, t, c) == [st EXCEPT ![t] = Append(Front(st[t]), c)]

(* The innermost call of a thread that is in one. *)
LEMMA TopOfStack ==
  ASSUME NEW C, NEW T, NEW st \in [T -> Seq(C)], NEW t \in T, st[t] # << >>
  PROVE  /\ Len(st[t]) \in Nat \ {0}
         /\ Len(st[t]) \in DOMAIN st[t]
         /\ DOMAIN st[t] = 1 .. Len(st[t])
         /\ st[t][Len(st[t])] \in C
<1>1. st[t] \in Seq(C)
  OBVIOUS
<1>2. Len(st[t]) \in Nat \ {0} /\ DOMAIN st[t] = 1 .. Len(st[t])
  BY <1>1, EmptySeq, LenProperties
<1> QED
  BY <1>1, <1>2, ElementOfSeq

(* A call is entered: nothing below it moves. *)
LEMMA StackPushed ==
  ASSUME NEW C, NEW T, NEW st \in [T -> Seq(C)], NEW t \in T, NEW c \in C
  PROVE  LET next == Pushed(st, t, c) IN
         /\ next \in [T -> Seq(C)]
         /\ \A u \in T \ {t} : next[u] = st[u]
         /\ Len(st[t]) \in Nat
         /\ Len(next[t]) = Len(st[t]) + 1
         /\ DOMAIN st[t] = 1 .. Len(st[t])
         /\ DOMAIN next[t] = 1 .. Len(st[t]) + 1
         /\ \A i \in 1 .. Len(st[t]) : next[t][i] = st[t][i]
         /\ next[t][Len(st[t]) + 1] = c
<1> DEFINE next == Pushed(st, t, c)
<1>1. st[t] \in Seq(C)
  OBVIOUS
<1>2. next[t] = Append(st[t], c)
  BY DEF Pushed
<1>3. next[t] \in Seq(C)
  BY <1>1, <1>2, AppendProperties
<1>4. next \in [T -> Seq(C)] /\ \A u \in T \ {t} : next[u] = st[u]
  BY <1>2, <1>3 DEF Pushed
<1> QED
  BY <1>1, <1>2, <1>3, <1>4, AppendProperties, LenProperties

(* The innermost call returns. *)
LEMMA StackPopped ==
  ASSUME NEW C, NEW T, NEW st \in [T -> Seq(C)], NEW t \in T, st[t] # << >>
  PROVE  LET next == Popped(st, t) IN
         /\ next \in [T -> Seq(C)]
         /\ \A u \in T \ {t} : next[u] = st[u]
         /\ Len(st[t]) \in Nat \ {0}
         /\ Len(next[t]) = Len(st[t]) - 1
         /\ DOMAIN st[t] = 1 .. Len(st[t])
         /\ DOMAIN next[t] = 1 .. Len(st[t]) - 1
         /\ \A i \in 1 .. Len(st[t]) - 1 : next[t][i] = st[t][i]
<1> DEFINE next == Popped(st, t)
<1>1. st[t] \in Seq(C) /\ Len(st[t]) \in Nat \ {0}
  BY EmptySeq
<1>2. next[t] = Front(st[t])
  BY DEF Popped
<1>3. next[t] \in Seq(C)
  BY <1>1, <1>2, FrontOfSeq
<1>4. next \in [T -> Seq(C)] /\ \A u \in T \ {t} : next[u] = st[u]
  BY <1>2, <1>3 DEF Popped
<1> QED
  BY <1>1, <1>2, <1>3, <1>4, FrontOfSeq, LenProperties

(* The innermost call gets on. *)
LEMMA StackTopSet ==
  ASSUME NEW C, NEW T, NEW st \in [T -> Seq(C)], NEW t \in T, st[t] # << >>,
         NEW c \in C
  PROVE  LET next == TopSet(st, t, c) IN
         /\ next \in [T -> Seq(C)]
         /\ \A u \in T \ {t} : next[u] = st[u]
         /\ Len(st[t]) \in Nat \ {0}
         /\ Len(next[t]) = Len(st[t])
         /\ DOMAIN st[t] = 1 .. Len(st[t])
         /\ DOMAIN next[t] = 1 .. Len(st[t])
         /\ \A i \in 1 .. Len(st[t]) - 1 : next[t][i] = st[t][i]
         /\ next[t][Len(st[t])] = c
<1> DEFINE next == TopSet(st, t, c)
<1>1. st[t] \in Seq(C) /\ Len(st[t]) \in Nat \ {0}
  BY EmptySeq
<1>2. next[t] = Append(Front(st[t]), c)
  BY DEF TopSet
<1>3. next[t] \in Seq(C)
  BY <1>1, <1>2, LastReplaced
<1>4. next \in [T -> Seq(C)] /\ \A u \in T \ {t} : next[u] = st[u]
  BY <1>2, <1>3 DEF TopSet
<1> QED
  BY <1>1, <1>2, <1>3, <1>4, LastReplaced, LenProperties

-----------------------------------------------------------------------------
(* All the calls that threads are in, each named by its thread and its     *)
(* depth.                                                                  *)
FramesOf(T, st) == {p \in T \X Nat : p[2] \in DOMAIN st[p[1]]}
FrameAt(st, p) == st[p[1]][p[2]]

LEMMA FramesTyped ==
  ASSUME NEW C, NEW T, NEW st \in [T -> Seq(C)], NEW p \in FramesOf(T, st)
  PROVE  /\ p = <<p[1], p[2]>> /\ p[1] \in T /\ p[2] \in 1 .. Len(st[p[1]])
         /\ FrameAt(st, p) \in C
<1>1. p = <<p[1], p[2]>> /\ p[1] \in T /\ st[p[1]] \in Seq(C) /\ p[2] \in DOMAIN st[p[1]]
  BY DEF FramesOf
<1>2. p[2] \in 1 .. Len(st[p[1]])
  BY <1>1, LenProperties
<1> QED
  BY <1>1, <1>2, ElementOfSeq DEF FrameAt

LEMMA TopFrame ==
  ASSUME NEW C, NEW T, NEW st \in [T -> Seq(C)], NEW t \in T, st[t] # << >>
  PROVE  /\ <<t, Len(st[t])>> \in FramesOf(T, st)
         /\ FrameAt(st, <<t, Len(st[t])>>) = st[t][Len(st[t])]
         /\ st[t][Len(st[t])] \in C
BY TopOfStack DEF FramesOf, FrameAt

LEMMA FramePushed ==
  ASSUME NEW C, NEW T, NEW st \in [T -> Seq(C)], NEW t \in T, NEW c \in C,
         NEW next, next = Pushed(st, t, c)
  PROVE  LET p == <<t, Len(st[t]) + 1>>
         IN
         /\ next \in [T -> Seq(C)]
         /\ p \notin FramesOf(T, st)
         /\ FramesOf(T, next) = FramesOf(T, st) \cup {p}
         /\ FrameAt(next, p) = c
         /\ \A q \in FramesOf(T, st) : FrameAt(next, q) = FrameAt(st, q)
         /\ \A u \in T \ {t} : next[u] = st[u]
         /\ Len(next[t]) = Len(st[t]) + 1 /\ Len(st[t]) \in Nat
<1> DEFINE n == Len(st[t])
           p == <<t, n + 1>>
<1>1. /\ next \in [T -> Seq(C)]
      /\ \A v \in T \ {t} : next[v] = st[v]
      /\ n \in Nat
      /\ DOMAIN st[t] = 1 .. n
      /\ DOMAIN next[t] = 1 .. n + 1
      /\ \A i \in 1 .. n : next[t][i] = st[t][i]
      /\ next[t][n + 1] = c
      /\ Len(next[t]) = n + 1
  BY StackPushed
<1> HIDE DEF n
<1>2. p \in T \X Nat /\ p \notin FramesOf(T, st)
  BY <1>1 DEF FramesOf
<1>3. ASSUME NEW v \in T, NEW i \in Nat
      PROVE  i \in DOMAIN next[v] <=> i \in DOMAIN st[v] \/ <<v, i>> = p
  BY <1>1
<1>4. FramesOf(T, next) = FramesOf(T, st) \cup {p}
  BY <1>1, <1>2, <1>3 DEF FramesOf
<1>5. ASSUME NEW q \in FramesOf(T, st) PROVE FrameAt(next, q) = FrameAt(st, q)
  <2>1. CASE q[1] = t
    BY <1>1, <2>1 DEF FramesOf, FrameAt
  <2>2. CASE q[1] # t
    BY <1>1, <2>2 DEF FramesOf, FrameAt
  <2> QED
    BY <2>1, <2>2
<1>6. FrameAt(next, p) = c
  BY <1>1 DEF FrameAt
<1> QED
  BY <1>1, <1>2, <1>4, <1>5, <1>6 DEF n

LEMMA FrameSet ==
  ASSUME NEW C, NEW T, NEW st \in [T -> Seq(C)], NEW t \in T, st[t] # << >>, NEW c \in C,
         NEW next, next = TopSet(st, t, c)
  PROVE  LET p == <<t, Len(st[t])>>
         IN
         /\ next \in [T -> Seq(C)]
         /\ p \in FramesOf(T, st)
         /\ FramesOf(T, next) = FramesOf(T, st)
         /\ FrameAt(next, p) = c
         /\ \A q \in FramesOf(T, st) \ {p} : FrameAt(next, q) = FrameAt(st, q)
         /\ \A u \in T : Len(next[u]) = Len(st[u])
<1> DEFINE n == Len(st[t])
           p == <<t, n>>
<1>1. /\ next \in [T -> Seq(C)]
      /\ \A v \in T \ {t} : next[v] = st[v]
      /\ n \in Nat \ {0}
      /\ DOMAIN st[t] = 1 .. n
      /\ DOMAIN next[t] = 1 .. n
      /\ \A i \in 1 .. n - 1 : next[t][i] = st[t][i]
      /\ next[t][n] = c
      /\ Len(next[t]) = n
  BY StackTopSet
<1>0. \A u \in T : Len(next[u]) = Len(st[u])
  BY <1>1
<1> HIDE DEF n
<1>2. p \in FramesOf(T, st)
  BY <1>1 DEF FramesOf
<1>3. \A v \in T : DOMAIN next[v] = DOMAIN st[v]
  BY <1>1
<1>4. FramesOf(T, next) = FramesOf(T, st)
  BY <1>3 DEF FramesOf
<1>5. ASSUME NEW q \in FramesOf(T, st) \ {p} PROVE FrameAt(next, q) = FrameAt(st, q)
  <2>1. CASE q[1] = t
    <3>0. q = <<q[1], q[2]>> /\ q[2] \in DOMAIN st[q[1]]
      BY DEF FramesOf
    <3>1. q[2] \in 1 .. n /\ q[2] # n
      BY <1>1, <2>1, <3>0
    <3>2. q[2] \in 1 .. n - 1
      BY <1>1, <3>1
    <3> QED
      BY <1>1, <2>1, <3>2 DEF FrameAt
  <2>2. CASE q[1] # t
    BY <1>1, <2>2 DEF FramesOf, FrameAt
  <2> QED
    BY <2>1, <2>2
<1>6. FrameAt(next, p) = c
  BY <1>1 DEF FrameAt
<1> QED
  BY <1>0, <1>1, <1>2, <1>4, <1>5, <1>6 DEF n

LEMMA FramePopped ==
  ASSUME NEW C, NEW T, NEW st \in [T -> Seq(C)], NEW t \in T, st[t] # << >>,
         NEW next, next = Popped(st, t)
  PROVE  LET p == <<t, Len(st[t])>>
         IN
         /\ next \in [T -> Seq(C)]
         /\ p \in FramesOf(T, st)
         /\ FramesOf(T, next) = FramesOf(T, st) \ {p}
         /\ \A q \in FramesOf(T, st) \ {p} : FrameAt(next, q) = FrameAt(st, q)
         /\ \A u \in T \ {t} : next[u] = st[u]
         /\ Len(next[t]) = Len(st[t]) - 1 /\ Len(st[t]) \in Nat \ {0}
<1> DEFINE n == Len(st[t])
           p == <<t, n>>
<1>1. /\ next \in [T -> Seq(C)]
      /\ \A v \in T \ {t} : next[v] = st[v]
      /\ n \in Nat \ {0}
      /\ DOMAIN st[t] = 1 .. n
      /\ DOMAIN next[t] = 1 .. n - 1
      /\ \A i \in 1 .. n - 1 : next[t][i] = st[t][i]
      /\ Len(next[t]) = n - 1
  BY StackPopped
<1> HIDE DEF n
<1>2. p \in FramesOf(T, st)
  BY <1>1 DEF FramesOf
<1>3. ASSUME NEW v \in T, NEW i \in Nat
      PROVE  i \in DOMAIN next[v] <=> i \in DOMAIN st[v] /\ <<v, i>> # p
  BY <1>1
<1>4. FramesOf(T, next) = FramesOf(T, st) \ {p}
  BY <1>3 DEF FramesOf
<1>5. ASSUME NEW q \in FramesOf(T, st) \ {p} PROVE FrameAt(next, q) = FrameAt(st, q)
  <2>1. CASE q[1] = t
    <3>0. q = <<q[1], q[2]>> /\ q[2] \in DOMAIN st[q[1]]
      BY DEF FramesOf
    <3>1. q[2] \in 1 .. n /\ q[2] # n
      BY <1>1, <2>1, <3>0
    <3>2. q[2] \in 1 .. n - 1
      BY <1>1, <3>1
    <3> QED
      BY <1>1, <2>1, <3>2 DEF FrameAt
  <2>2. CASE q[1] # t
    BY <1>1, <2>2 DEF FramesOf, FrameAt
  <2> QED
    BY <2>1, <2>2
<1> QED
  BY <1>1, <1>2, <1>4, <1>5 DEF n

-----------------------------------------------------------------------------
(* Loops: what a loop that changes a value step by step has made of it     *)
(* after every number of steps.                                            *)
Iterates(f, b, n, F) == f[0] = b /\ \A i \in 1 .. n : f[i] = F[i][f[i - 1]]

LEMMA IterationExists ==
  ASSUME NEW D, NEW n \in Nat, NEW b \in D, NEW F \in [1 .. n -> [D -> D]]
  PROVE  \E f \in [0 .. n -> D] : Iterates(f, b, n, F)
<1> DEFINE Exists(m) == \E f \in [0 .. m -> D] : Iterates(f, b, m, F)
           S == {m \in Nat : m <= n => Exists(m)}
<1>1. 0 \in S
  <2>1. [i \in 0 .. 0 |-> b] \in [0 .. 0 -> D] /\ Iterates([i \in 0 .. 0 |-> b], b, 0, F)
    BY DEF Iterates
  <2> QED
    BY <2>1
<1>2. ASSUME NEW m \in Nat, m \in S PROVE m + 1 \in S
  <2> SUFFICES ASSUME m + 1 <= n PROVE Exists(m + 1)
    OBVIOUS
  <2>1. PICK f \in [0 .. m -> D] : Iterates(f, b, m, F)
    BY <1>2
  <2> DEFINE longer == [i \in 0 .. m + 1 |-> IF i = m + 1 THEN F[m + 1][f[m]] ELSE f[i]]
  <2>2. m + 1 \in 1 .. n /\ f[m] \in D
    OBVIOUS
  <2>3. F[m + 1][f[m]] \in D
    BY <2>2
  <2>4. longer[m + 1] = F[m + 1][f[m]] /\ \A i \in 0 .. m : longer[i] = f[i]
    OBVIOUS
  <2>5. longer \in [0 .. m + 1 -> D]
    BY <2>3
  <2> HIDE DEF longer
  <2>6. ASSUME NEW i \in 1 .. m + 1 PROVE longer[i] = F[i][longer[i - 1]]
    <3>1. CASE i = m + 1
      BY <2>4, <3>1
    <3>2. CASE i # m + 1
      <4>1. i \in 1 .. m /\ i \in 0 .. m /\ i - 1 \in 0 .. m
        BY <3>2
      <4> QED
        BY <2>1, <2>4, <4>1 DEF Iterates
    <3> QED
      BY <3>1, <3>2
  <2>7. longer[0] = b
    <3>1. 0 \in 0 .. m
      OBVIOUS
    <3> QED
      BY <2>1, <2>4, <3>1 DEF Iterates
  <2> QED
    BY <2>5, <2>6, <2>7 DEF Iterates
<1>3. Nat \subseteq S
  <2> HIDE DEF S
  <2> QED
    BY <1>1, <1>2, SetInduction
<1>4. Exists(n)
  <2> HIDE DEF Exists
  <2> QED
    BY <1>3
<1> QED
  BY <1>4

-----------------------------------------------------------------------------
(* Selections: a selection exists, and PickedUpTo is it. *)
PicksUpTo(s, keep, picked, i) ==
  picked[i] = IF i = 0 THEN << >>
              ELSE IF i \in keep THEN Append(picked[i - 1], s[i])
              ELSE picked[i - 1]

LEMMA SelectionExists ==
  ASSUME NEW C, NEW s \in Seq(C), NEW keep
  PROVE  \E picked \in [0 .. Len(s) -> Seq(C)] :
           \A i \in 0 .. Len(s) : PicksUpTo(s, keep, picked, i)
<1> DEFINE Exists(m) == \E picked \in [0 .. m -> Seq(C)] :
                          \A i \in 0 .. m : PicksUpTo(s, keep, picked, i)
           S == {m \in Nat : m <= Len(s) => Exists(m)}
<1>0. Len(s) \in Nat
  BY LenProperties
<1>1. 0 \in S
  <2>1. [i \in 0 .. 0 |-> << >>] \in [0 .. 0 -> Seq(C)]
    OBVIOUS
  <2>2. \A i \in 0 .. 0 : PicksUpTo(s, keep, [k \in 0 .. 0 |-> << >>], i)
    BY DEF PicksUpTo
  <2>3. Exists(0)
    BY <2>1, <2>2
  <2> QED
    BY <2>3
<1>2. ASSUME NEW m \in Nat, m \in S PROVE m + 1 \in S
  <2> SUFFICES ASSUME m + 1 <= Len(s) PROVE Exists(m + 1)
    OBVIOUS
  <2>0. m <= Len(s)
    BY <1>0
  <2>1. PICK picked \in [0 .. m -> Seq(C)] : \A i \in 0 .. m : PicksUpTo(s, keep, picked, i)
    BY <1>2, <2>0
  <2> DEFINE next == IF m + 1 \in keep THEN Append(picked[m], s[m + 1]) ELSE picked[m]
             longer == [i \in 0 .. m + 1 |-> IF i = m + 1 THEN next ELSE picked[i]]
  <2>2. s[m + 1] \in C /\ picked[m] \in Seq(C)
    BY <1>0, <2>0, ElementOfSeq
  <2>3. next \in Seq(C)
    BY <2>2, AppendProperties
  <2>4. longer[m + 1] = next /\ \A i \in 0 .. m : longer[i] = picked[i]
    OBVIOUS
  <2>5. longer \in [0 .. m + 1 -> Seq(C)]
    BY <2>3
  <2>6. ASSUME NEW i \in 0 .. m + 1 PROVE PicksUpTo(s, keep, longer, i)
    <3>1. CASE i = m + 1
      <4>1. i # 0 /\ i - 1 = m /\ m \in 0 .. m
        BY <3>1
      <4> HIDE DEF longer
      <4> QED
        BY <2>4, <3>1, <4>1 DEF PicksUpTo
    <3>2. CASE i # m + 1
      <4>1. i \in 0 .. m /\ (i # 0 => i - 1 \in 0 .. m)
        BY <3>2
      <4> HIDE DEF longer
      <4> QED
        BY <2>1, <2>4, <4>1 DEF PicksUpTo
    <3> QED
      BY <3>1, <3>2
  <2> HIDE DEF longer
  <2> QED
    BY <2>5, <2>6
<1>3. Nat \subseteq S
  <2> HIDE DEF S
  <2> QED
    BY <1>1, <1>2, SetInduction
<1>4. \A m \in Nat : m <= Len(s) => Exists(m)
  BY <1>3
<1>5. Exists(Len(s))
  <2> HIDE DEF Exists
  <2> QED
    BY <1>0, <1>4
<1> QED
  BY <1>5

LEMMA PickedUpToDef ==
  ASSUME NEW C, NEW s \in Seq(C), NEW keep
  PROVE  \A i \in 0 .. Len(s) : PicksUpTo(s, keep, PickedUpTo(s, keep), i)
<1> DEFINE n == Len(s)
           Body(f) == [i \in 0 .. n |->
                         IF i = 0 THEN << >>
                         ELSE IF i \in keep THEN Append(f[i - 1], s[i])
                         ELSE f[i - 1]]
<1>2. PICK picked \in [0 .. n -> Seq(C)] : \A i \in 0 .. n : PicksUpTo(s, keep, picked, i)
  BY SelectionExists
<1>3. picked = Body(picked)
  BY <1>2 DEF PicksUpTo
<1>4. PickedUpTo(s, keep) = Body(PickedUpTo(s, keep))
  BY <1>3 DEF PickedUpTo
<1>5. ASSUME NEW i \in 0 .. n PROVE PicksUpTo(s, keep, PickedUpTo(s, keep), i)
  BY <1>4 DEF PicksUpTo
<1> QED
  BY <1>5

(* What is selected of the first m elements stands, in the same order, at  *)
(* all their indices to keep.                                              *)
Places(s, keep, m, r, place) ==
  /\ place \in [1 .. Len(r) -> 1 .. m]
  /\ \A i, j \in 1 .. Len(r) : i < j => place[i] < place[j]
  /\ \A k \in 1 .. Len(r) : place[k] \in keep /\ r[k] = s[place[k]]
  /\ \A i \in 1 .. m : i \in keep => \E k \in 1 .. Len(r) : place[k] = i
Selects(C, s, keep, m, r) == r \in Seq(C) /\ \E place : Places(s, keep, m, r, place)

LEMMA SelectsNext ==
  ASSUME NEW C, NEW s \in Seq(C), NEW keep, NEW m \in Nat, m + 1 <= Len(s),
         NEW r, Selects(C, s, keep, m, r)
  PROVE  Selects(C, s, keep, m + 1, IF m + 1 \in keep THEN Append(r, s[m + 1]) ELSE r)
<1>0. r \in Seq(C) /\ Len(r) \in Nat /\ s[m + 1] \in C
  BY LenProperties, ElementOfSeq DEF Selects
<1>1. PICK place : Places(s, keep, m, r, place)
  BY DEF Selects
<1> DEFINE n == Len(r)
<1>2. CASE m + 1 \in keep
  <2> DEFINE r2 == Append(r, s[m + 1])
             place2 == [k \in 1 .. n + 1 |-> IF k = n + 1 THEN m + 1 ELSE place[k]]
  <2>1. /\ r2 \in Seq(C) /\ Len(r2) = n + 1
        /\ \A k \in 1 .. n : r2[k] = r[k]
        /\ r2[n + 1] = s[m + 1]
    BY <1>0, AppendProperties
  <2> HIDE DEF r2
  <2>2. /\ place2 \in [1 .. n + 1 -> 1 .. m + 1]
        /\ place2[n + 1] = m + 1
        /\ \A k \in 1 .. n : place2[k] = place[k] /\ place2[k] \in 1 .. m
    <3>1. n \in Nat /\ place \in [1 .. n -> 1 .. m]
      BY <1>0, <1>1 DEF Places
    <3> HIDE DEF n
    <3>2. n + 1 \in 1 .. n + 1 /\ m + 1 \in 1 .. m + 1
      BY <3>1
    <3>3. \A k \in 1 .. n : place[k] \in 1 .. m /\ place[k] \in 1 .. m + 1
      BY <3>1
    <3>4. \A k \in 1 .. n + 1 : k # n + 1 => k \in 1 .. n
      BY <3>1
    <3>5. \A k \in 1 .. n : k \in 1 .. n + 1 /\ k # n + 1
      BY <3>1
    <3> QED
      BY <3>2, <3>3, <3>4, <3>5
  <2> HIDE DEF place2
  <2>3. ASSUME NEW i \in 1 .. n + 1, NEW j \in 1 .. n + 1, i < j PROVE place2[i] < place2[j]
    <3>1. i \in 1 .. n
      BY <1>0, <2>3
    <3>2. CASE j = n + 1
      BY <2>2, <3>1, <3>2
    <3>3. CASE j # n + 1
      <4>1. j \in 1 .. n
        BY <1>0, <3>3
      <4> QED
        BY <1>1, <2>2, <2>3, <3>1, <4>1 DEF Places
    <3> QED
      BY <3>2, <3>3
  <2>4. ASSUME NEW k \in 1 .. n + 1 PROVE place2[k] \in keep /\ r2[k] = s[place2[k]]
    <3>1. CASE k = n + 1
      BY <1>2, <2>1, <2>2, <3>1
    <3>2. CASE k # n + 1
      <4>1. k \in 1 .. n
        BY <1>0, <3>2
      <4> QED
        BY <1>1, <2>1, <2>2, <4>1 DEF Places
    <3> QED
      BY <3>1, <3>2
  <2>5. ASSUME NEW i \in 1 .. m + 1, i \in keep PROVE \E k \in 1 .. n + 1 : place2[k] = i
    <3>1. CASE i = m + 1
      <4>1. n + 1 \in 1 .. n + 1
        BY <1>0
      <4> QED
        BY <2>2, <3>1, <4>1
    <3>2. CASE i # m + 1
      <4>1. i \in 1 .. m
        BY <3>2
      <4>2. PICK k \in 1 .. n : place[k] = i
        BY <1>1, <2>5, <4>1 DEF Places
      <4>3. k \in 1 .. n + 1
        BY <1>0
      <4> QED
        BY <2>2, <4>2, <4>3
    <3> QED
      BY <3>1, <3>2
  <2>6. Places(s, keep, m + 1, r2, place2)
    BY <2>1, <2>2, <2>3, <2>4, <2>5 DEF Places
  <2> QED
    BY <1>2, <2>1, <2>6 DEF Selects, r2
<1>3. CASE m + 1 \notin keep
  <2>1. \A i \in 1 .. m + 1 : i \in keep => i \in 1 .. m
    BY <1>3
  <2>2. place \in [1 .. Len(r) -> 1 .. m + 1]
    BY <1>1 DEF Places
  <2>3. Places(s, keep, m + 1, r, place)
    BY <1>1, <2>1, <2>2 DEF Places
  <2> QED
    BY <1>0, <1>3, <2>3 DEF Selects
<1> QED
  BY <1>2, <1>3

LEMMA PickedInOrder ==
  ASSUME NEW C, NEW s \in Seq(C), NEW keep
  PROVE  Selects(C, s, keep, Len(s), Picked(s, keep))
<1> DEFINE n == Len(s)
           f == PickedUpTo(s, keep)
           S == {m \in Nat : m <= n => Selects(C, s, keep, m, f[m])}
<1>0. n \in Nat
  BY LenProperties
<1>1. \A i \in 0 .. n : PicksUpTo(s, keep, f, i)
  BY PickedUpToDef
<1> HIDE DEF f
<1>2. 0 \in S
  <2>1. f[0] = << >>
    BY <1>0, <1>1 DEF PicksUpTo
  <2>2. << >> \in Seq(C) /\ Len(<< >>) = 0
    BY EmptySeq
  <2>3. Places(s, keep, 0, << >>, << >>)
    BY <2>2 DEF Places
  <2> QED
    BY <2>1, <2>2, <2>3 DEF Selects
<1>3. ASSUME NEW m \in Nat, m \in S PROVE m + 1 \in S
  <2> SUFFICES ASSUME m + 1 <= n PROVE Selects(C, s, keep, m + 1, f[m + 1])
    OBVIOUS
  <2>1. Selects(C, s, keep, m, f[m])
    BY <1>0, <1>3
  <2>2. f[m + 1] = IF m + 1 \in keep THEN Append(f[m], s[m + 1]) ELSE f[m]
    <3>1. m + 1 \in 0 .. n /\ m + 1 # 0 /\ (m + 1) - 1 = m
      BY <1>0
    <3> QED
      BY <1>1, <3>1 DEF PicksUpTo
  <2> QED
    BY <2>1, <2>2, SelectsNext
<1>4. Nat \subseteq S
  <2> HIDE DEF S
  <2> QED
    BY <1>2, <1>3, SetInduction
<1>5. Selects(C, s, keep, n, f[n])
  BY <1>0, <1>4
<1> QED
  BY <1>5 DEF Picked, f

-----------------------------------------------------------------------------
(* Lists of subscriptions, which ascend in their tokens. *)
TokensAscend(s) == \A i, j \in DOMAIN s : i < j => s[i].token < s[j].token
Entries(s) == {s[i] : i \in DOMAIN s}

LEMMA EntriesTyped ==
  ASSUME NEW C, NEW s \in Seq(C)
  PROVE  /\ Entries(s) \subseteq C
         /\ s = << >> <=> Entries(s) = {}
<1>1. DOMAIN s = 1 .. Len(s) /\ Len(s) \in Nat /\ (s = << >> <=> Len(s) = 0)
  BY LenProperties, EmptySeq
<1>2. \A i \in DOMAIN s : s[i] \in C
  BY <1>1, ElementOfSeq
<1>3. DOMAIN s = {} <=> Len(s) = 0
  <2>1. Len(s) # 0 => 1 \in DOMAIN s
    BY <1>1
  <2>2. Len(s) = 0 => DOMAIN s = {}
    BY <1>1
  <2> QED
    BY <2>1, <2>2
<1> QED
  BY <1>1, <1>2, <1>3 DEF Entries

(* An entry is its token's only one. *)
LEMMA OneEntryPerToken ==
  ASSUME NEW C, \A c \in C : c.token \in Int, NEW s \in Seq(C), TokensAscend(s)
  PROVE  /\ \A d, e \in Entries(s) : d.token = e.token => d = e
         /\ \A i, j \in DOMAIN s : s[i].token = s[j].token => i = j
<1>1. DOMAIN s \subseteq Int /\ \A i \in DOMAIN s : s[i] \in C
  BY LenProperties, ElementOfSeq
<1>2. ASSUME NEW i \in DOMAIN s, NEW j \in DOMAIN s, s[i].token = s[j].token PROVE i = j
  <2>1. s[i].token \in Int /\ s[j].token \in Int /\ i \in Int /\ j \in Int
    BY <1>1
  <2>2. ~(s[i].token < s[j].token) /\ ~(s[j].token < s[i].token)
    BY <1>2, <2>1
  <2>3. ~(i < j) /\ ~(j < i)
    BY <2>2 DEF TokensAscend
  <2> QED
    BY <2>1, <2>3
<1> QED
  BY <1>2 DEF Entries

LEMMA EntryAppended ==
  ASSUME NEW C, \A c \in C : c.token \in Int, NEW s \in Seq(C), TokensAscend(s),
         NEW e \in C, \A d \in Entries(s) : d.token < e.token
  PROVE  /\ Append(s, e) \in Seq(C)
         /\ TokensAscend(Append(s, e))
         /\ Entries(Append(s, e)) = Entries(s) \cup {e}
<1> DEFINE n == Len(s)
           r == Append(s, e)
<1>1. /\ n \in Nat /\ DOMAIN s = 1 .. n
      /\ r \in Seq(C) /\ DOMAIN r = 1 .. n + 1
      /\ \A i \in 1 .. n : r[i] = s[i]
      /\ r[n + 1] = e
  BY LenProperties, AppendProperties
<1> HIDE DEF n, r
<1>2. 1 .. n + 1 = (1 .. n) \cup {n + 1}
  BY <1>1
<1>3. ASSUME NEW i \in 1 .. n + 1, NEW j \in 1 .. n + 1, i < j PROVE r[i].token < r[j].token
  <2>1. i \in 1 .. n
    BY <1>1, <1>3
  <2>2. CASE j = n + 1
    BY <1>1, <2>1, <2>2 DEF Entries
  <2>3. CASE j # n + 1
    <3>1. j \in 1 .. n
      BY <1>1, <2>3
    <3> QED
      BY <1>1, <1>3, <2>1, <3>1 DEF TokensAscend
  <2> QED
    BY <2>2, <2>3
<1>4. Entries(r) = Entries(s) \cup {e}
  BY <1>1, <1>2 DEF Entries
<1> QED
  BY <1>1, <1>3, <1>4 DEF r, TokensAscend

(* The list without the entry of a token. *)
WithoutToken(s, t) == RemoveFirstMatch(s, LAMBDA e : e.token = t)

LEMMA FirstWithToken ==
  ASSUME NEW C, NEW s \in Seq(C), NEW t
  PROVE  LET I == {i \in 1 .. Len(s) : s[i].token = t} IN
         /\ I # {} => WithoutToken(s, t) = RemoveAt(s, Min(I))
         /\ I = {} => WithoutToken(s, t) = s
<1>1. DOMAIN s = 1 .. Len(s)
  BY LenProperties
<1> QED
  BY <1>1 DEF WithoutToken, RemoveFirstMatch, SelectInSeq

LEMMA EntryRemoved ==
  ASSUME NEW C, \A c \in C : c.token \in Int, NEW s \in Seq(C), TokensAscend(s), NEW t
  PROVE  /\ WithoutToken(s, t) \in Seq(C)
         /\ TokensAscend(WithoutToken(s, t))
         /\ Entries(WithoutToken(s, t)) = {e \in Entries(s) : e.token # t}
<1> DEFINE n == Len(s)
           I == {i \in 1 .. n : s[i].token = t}
<1>0. n \in Nat /\ DOMAIN s = 1 .. n
  BY LenProperties
<1>1. CASE I = {}
  <2>1. WithoutToken(s, t) = s
    BY <1>1, FirstWithToken
  <2>2. Entries(s) = {e \in Entries(s) : e.token # t}
    BY <1>0, <1>1 DEF Entries
  <2> QED
    BY <2>1, <2>2
<1>2. CASE I # {}
  <2> DEFINE m == Min(I)
             r == RemoveAt(s, m)
             From(j) == IF j < m THEN j ELSE j + 1
  <2>1. m \in I
    <3>1. I \subseteq Nat
      OBVIOUS
    <3> HIDE DEF I
    <3> QED
      BY <1>2, <3>1, MinInSet
  <2>2. WithoutToken(s, t) = r
    BY <1>2, FirstWithToken
  <2>3. m \in 1 .. n /\ s[m].token = t
    BY <2>1
  <2> HIDE DEF I, m
  <2>4. /\ r \in Seq(C) /\ Len(r) = n - 1
        /\ \A j \in 1 .. n - 1 : r[j] = IF j < m THEN s[j] ELSE s[j + 1]
    BY <2>3, RemovedAt
  <2>5. DOMAIN r = 1 .. n - 1
    BY <2>4, LenProperties
  <2> HIDE DEF r, n
  <2>6. ASSUME NEW j \in 1 .. n - 1
        PROVE  From(j) \in 1 .. n /\ From(j) # m /\ r[j] = s[From(j)]
    BY <1>0, <2>3, <2>4
  <2>7. ASSUME NEW j \in 1 .. n - 1, NEW k \in 1 .. n - 1, j < k
        PROVE  From(j) < From(k)
    BY <1>0, <2>3, <2>7
  <2>8. ASSUME NEW i \in (1 .. n) \ {m}
        PROVE  \E j \in 1 .. n - 1 : From(j) = i
    <3>1. CASE i < m
      <4>1. i \in 1 .. n - 1 /\ From(i) = i
        BY <1>0, <2>3, <3>1
      <4> QED
        BY <4>1
    <3>2. CASE i > m
      <4>1. i - 1 \in 1 .. n - 1 /\ From(i - 1) = i
        BY <1>0, <2>3, <3>2
      <4> QED
        BY <4>1
    <3> QED
      BY <1>0, <2>3, <3>1, <3>2
  <2> HIDE DEF From
  <2>9. TokensAscend(r)
    BY <1>0, <2>5, <2>6, <2>7 DEF TokensAscend
  <2>10. \A i \in 1 .. n : s[i].token = t => i = m
    BY <1>0, <2>3, OneEntryPerToken
  <2>11. Entries(r) = {e \in Entries(s) : e.token # t}
    <3>1. ASSUME NEW e \in Entries(r) PROVE e \in Entries(s) /\ e.token # t
      BY <1>0, <2>5, <2>6, <2>10 DEF Entries
    <3>2. ASSUME NEW e \in Entries(s), e.token # t PROVE e \in Entries(r)
      <4>1. PICK i \in 1 .. n : e = s[i]
        BY <1>0 DEF Entries
      <4>2. i \in (1 .. n) \ {m}
        BY <2>3, <3>2, <4>1
      <4>3. PICK j \in 1 .. n - 1 : From(j) = i
        BY <2>8, <4>2
      <4> QED
        BY <2>5, <2>6, <4>1, <4>3 DEF Entries
    <3> QED
      BY <3>1, <3>2
  <2> QED
    BY <2>2, <2>4, <2>9, <2>11
<1> QED
  BY <1>1, <1>2
=============================================================================
