---------------------------- MODULE CommonLemmas ----------------------------
(***************************************************************************)
(* What the proofs about several components need: what the queue           *)
(* operations of ThreadQueueOps preserve and return, and induction on the  *)
(* natural numbers, derived from the library's theorem that every set of   *)
(* them has a least element.                                               *)
(***************************************************************************)
EXTENDS ThreadQueueOps, SequenceTheorems, WellFoundedInduction, TLAPS

\* The index that deq finds is one at which the thread stands.
LEMMA IndexInFinds ==
    ASSUME NEW s, NEW t, t \in InQueue(s)
    PROVE  IndexIn(s, t) \in 1..Len(s) /\ s[IndexIn(s, t)] = t
<1>1. \E i \in 1..Len(s) : s[i] = t
  BY DEF InQueue
<1> QED BY <1>1 DEF IndexIn

\* deq, spelled out: what stands before the thread stays, the rest moves up.
LEMMA WithoutElements ==
    ASSUME NEW S, NEW s \in Seq(S), NEW t \in InQueue(s)
    PROVE  LET i == IndexIn(s, t) IN
            /\ Without(s, t) \in Seq(S)
            /\ Len(Without(s, t)) = Len(s) - 1
            /\ \A j \in 1..(Len(s) - 1) :
                 Without(s, t)[j] = IF j < i THEN s[j] ELSE s[j + 1]
<1> DEFINE i == IndexIn(s, t)
           a == SubSeq(s, 1, i - 1)
           b == SubSeq(s, i + 1, Len(s))
<1>1. i \in 1..Len(s) /\ Len(s) \in Nat
  BY IndexInFinds
<1>2. \A j \in 1..Len(s) : s[j] \in S
  OBVIOUS
<1>3. /\ a \in Seq(S) /\ Len(a) = i - 1
      /\ \A j \in 1..(i - 1) : a[j] = s[j]
  <2> HIDE DEF i
  <2> QED BY <1>1, <1>2, SubSeqProperties
<1>4. /\ b \in Seq(S) /\ Len(b) = Len(s) - i
      /\ \A j \in 1..(Len(s) - i) : b[j] = s[i + j]
  <2> HIDE DEF i
  <2> QED BY <1>1, <1>2, SubSeqProperties
<1>5. Without(s, t) = a \o b
  BY DEF Without
<1> QED
  <2> HIDE DEF i, a, b
  <2> QED BY <1>1, <1>3, <1>4, <1>5, ConcatProperties, SMTT(60) DEF i

\* deq takes out the given thread, and nothing else, and repeats nothing.
LEMMA WithoutLemma ==
    ASSUME NEW S, NEW s \in Seq(S), NEW t, NoRepeats(s)
    PROVE  /\ Without(s, t) \in Seq(S)
           /\ InQueue(Without(s, t)) = InQueue(s) \ {t}
           /\ NoRepeats(Without(s, t))
<1>1. CASE t \notin InQueue(s)
  BY <1>1 DEF Without
<1>2. CASE t \in InQueue(s)
  <2> DEFINE i == IndexIn(s, t)
             w == Without(s, t)
             n == Len(s)
  <2>1. i \in 1..n /\ s[i] = t /\ n \in Nat
    BY <1>2, IndexInFinds
  <2>2. /\ w \in Seq(S) /\ Len(w) = n - 1
        /\ \A j \in 1..(n - 1) : w[j] = IF j < i THEN s[j] ELSE s[j + 1]
    BY <1>2, WithoutElements
  <2>3. \A j, k \in 1..n : s[j] = s[k] => j = k
    BY DEF NoRepeats
  <2> HIDE DEF i, w, n
  <2>4. NoRepeats(w)
    BY <2>1, <2>2, <2>3 DEF NoRepeats
  <2>5. InQueue(w) \subseteq InQueue(s) \ {t}
    BY <2>1, <2>2, <2>3 DEF InQueue, n
  <2>6. ASSUME NEW x \in InQueue(s), x # t PROVE x \in InQueue(w)
    <3>1. PICK j \in 1..n : s[j] = x
      BY <2>6 DEF InQueue, n
    <3>2. j # i
      BY <3>1, <2>1, <2>6
    <3>3. \/ j < i /\ j \in 1..(n - 1) /\ w[j] = x
          \/ j > i /\ j - 1 \in 1..(n - 1) /\ w[j - 1] = x
      BY <3>1, <3>2, <2>1, <2>2
    <3> QED BY <3>3, <2>2 DEF InQueue
  <2> QED BY <2>2, <2>4, <2>5, <2>6 DEF w
<1> QED BY <1>1, <1>2

\* enq adds the given thread, and nothing else.
LEMMA PushFrontLemma ==
    ASSUME NEW S, NEW s \in Seq(S), NEW t \in S
    PROVE  /\ PushFront(s, t) \in Seq(S)
           /\ InQueue(PushFront(s, t)) = InQueue(s) \cup {t}
           /\ NoRepeats(s) /\ t \notin InQueue(s) => NoRepeats(PushFront(s, t))
<1> DEFINE p == PushFront(s, t)
<1>1. /\ p \in Seq(S) /\ Len(p) = Len(s) + 1 /\ Len(s) \in Nat
      /\ p[1] = t /\ \A j \in 1..Len(s) : p[j + 1] = s[j]
  <2>1. <<t>> \in Seq(S) /\ Len(<<t>>) = 1 /\ <<t>>[1] = t
    OBVIOUS
  <2> QED BY <2>1, ConcatProperties DEF PushFront
<1> HIDE DEF p
<1>2. \A j \in 1..Len(p) : j = 1 \/ (j - 1 \in 1..Len(s) /\ p[j] = s[j - 1])
  BY <1>1
<1>3. InQueue(p) = InQueue(s) \cup {t}
  <2>1. InQueue(p) \subseteq InQueue(s) \cup {t}
    BY <1>1, <1>2 DEF InQueue
  <2>2. t \in InQueue(p)
    BY <1>1 DEF InQueue
  <2>3. ASSUME NEW x \in InQueue(s) PROVE x \in InQueue(p)
    <3>1. PICK j \in 1..Len(s) : s[j] = x
      BY DEF InQueue
    <3>2. j + 1 \in 1..Len(p) /\ p[j + 1] = x
      BY <3>1, <1>1
    <3> QED BY <3>2 DEF InQueue
  <2> QED BY <2>1, <2>2, <2>3
<1>4. ASSUME NoRepeats(s), t \notin InQueue(s) PROVE NoRepeats(p)
  <2> SUFFICES ASSUME NEW i \in 1..Len(p), NEW j \in 1..Len(p), p[i] = p[j]
               PROVE  i = j
    BY DEF NoRepeats
  <2>1. \A k \in 1..Len(s) : s[k] # t
    BY <1>4 DEF InQueue
  <2> QED BY <1>1, <1>2, <1>4, <2>1 DEF NoRepeats
<1> QED BY <1>1, <1>3, <1>4 DEF p

\* The head pointer is null exactly for the empty queue.
LEMMA FirstLemma ==
    ASSUME NEW S, NEW s \in Seq(S), 0 \notin S
    PROVE  /\ First(s) = 0 <=> s = << >>
           /\ s # << >> => First(s) \in InQueue(s) /\ First(s) \in S
BY DEF First, InQueue

\* The next pointer of a queued thread is null or leads to another queued thread.
LEMMA FollowerLemma ==
    ASSUME NEW S, NEW s \in Seq(S), NEW t, NoRepeats(s), Follower(s, t) # 0
    PROVE  /\ Follower(s, t) \in InQueue(s) /\ Follower(s, t) \in S
           /\ Follower(s, t) # t
<1>1. t \in InQueue(s) /\ IndexIn(s, t) < Len(s)
  BY DEF Follower
<1>2. IndexIn(s, t) \in 1..Len(s) /\ s[IndexIn(s, t)] = t /\ Len(s) \in Nat
  BY <1>1, IndexInFinds
<1> DEFINE i == IndexIn(s, t)
<1>3. Follower(s, t) = s[i + 1] /\ i + 1 \in 1..Len(s)
  BY <1>1, <1>2 DEF Follower
<1> HIDE DEF i
<1>4. s[i + 1] # t
  BY <1>2, <1>3 DEF NoRepeats, i
<1> QED BY <1>3, <1>4 DEF InQueue
-----------------------------------------------------------------------------
\* A set of natural numbers that is not empty has a least element.
LEMMA LeastElement ==
    ASSUME NEW T, T \subseteq Nat, T # {}
    PROVE  \E x \in T : \A y \in T : x <= y
<1> DEFINE Less == {ss \in Nat \X Nat : ss[1] < ss[2]}
<1>1. IsWellFoundedOn(Less, Nat)
  BY NatLessThanWellFounded DEF OpToRel
<1> HIDE DEF Less
<1>2. PICK x \in T : \A y \in T : ~(<<y, x>> \in Less)
  BY <1>1, WFMin
<1>3. ASSUME NEW y \in T PROVE x <= y
  <2>1. <<y, x>> \in Nat \X Nat /\ <<y, x>> \notin Less
    BY <1>2
  <2>2. ~(y < x)
    BY <2>1 DEF Less
  <2> QED BY <2>2
<1> QED BY <1>3

\* Induction, for sets.
LEMMA InductionOnNat ==
    ASSUME NEW T, 0 \in T, \A n \in Nat : n \in T => n + 1 \in T
    PROVE  Nat \subseteq T
<1> DEFINE Outside == {n \in Nat : n \notin T}
<1> SUFFICES ASSUME Outside # {} PROVE FALSE
  OBVIOUS
<1>1. PICK x \in Outside : \A y \in Outside : x <= y
  BY LeastElement
<1>2. x # 0 /\ x \in Nat
  OBVIOUS
<1>3. x - 1 \in Nat /\ x - 1 \notin Outside
  BY <1>1, <1>2
<1> QED BY <1>2, <1>3
=============================================================================
