-------------------------- MODULE ConnectionProofs ---------------------------
(***************************************************************************)
(* Proofs about Connection: read-from returns the lines of the input.  The *)
(* reader is a loop over characters, so what it returns is shown by        *)
(* induction over them.                                                    *)
(***************************************************************************)
EXTENDS Connection, CommonLemmas, FiniteSetTheorems

-----------------------------------------------------------------------------
(* The reader's loop.                                                      *)

Start(line) == [line |-> line, eatNl |-> eatNl, taken |-> taken, end |-> "no"]

\* The recursive definition of Reading has a solution, so that Reading is one.
LEMMA ReadingIs ==
    ASSUME NEW line, Unread \in Nat
    PROVE  /\ Reading(line)[0] = Start(line)
           /\ \A i \in 1..Unread :
                Reading(line)[i] = GetChar(Reading(line)[i - 1], sent[taken + i])
<1> DEFINE Def(f, i) == IF i = 0 THEN Start(line) ELSE GetChar(f[i - 1], sent[taken + i])
           T == {n \in Nat : \E f : f = [i \in 0..n |-> Def(f, i)]}
<1>1. 0 \in T
  <2>1. [i \in 0..0 |-> Start(line)] = [i \in 0..0 |-> Def([j \in 0..0 |-> Start(line)], i)]
    OBVIOUS
  <2> QED BY <2>1
<1>2. ASSUME NEW n \in Nat, n \in T PROVE n + 1 \in T
  <2>1. PICK f : f = [i \in 0..n |-> Def(f, i)]
    BY <1>2
  <2> DEFINE g == [i \in 0..(n + 1) |-> IF i = n + 1 THEN Def(f, n + 1) ELSE f[i]]
  <2>2. ASSUME NEW i \in 0..(n + 1) PROVE g[i] = Def(g, i)
    <3>1. CASE i = n + 1
      <4>1. g[i - 1] = f[i - 1]
        BY <3>1
      <4> QED BY <3>1, <4>1
    <3>2. CASE i # n + 1
      <4>1. i \in 0..n /\ g[i] = f[i] /\ (i # 0 => g[i - 1] = f[i - 1])
        BY <3>2
      <4>2. f[i] = Def(f, i)
        BY <2>1, <4>1
      <4> QED BY <4>1, <4>2
    <3> QED BY <3>1, <3>2
  <2>3. g = [i \in 0..(n + 1) |-> Def(g, i)]
    BY <2>2
  <2> HIDE DEF g
  <2>4. \E f1 : f1 = [i \in 0..(n + 1) |-> Def(f1, i)]
    BY <2>3
  <2> QED BY <2>4
<1>3. Unread \in T
  <2> HIDE DEF T
  <2> QED BY <1>1, <1>2, InductionOnNat
<1>4. \E f : f = [i \in 0..Unread |-> Def(f, i)]
  BY <1>3
<1>5. Reading(line) = CHOOSE f : f = [i \in 0..Unread |-> Def(f, i)]
  BY DEF Reading, Start
<1>6. Reading(line) = [i \in 0..Unread |-> Def(Reading(line), i)]
  BY <1>4, <1>5
<1> QED BY <1>6

-----------------------------------------------------------------------------
(* The reference: what one more character makes of the lines of the input. *)

Longer(in, out, b) == in \in Seq(Int) /\ b \in Int /\ out = Append(in, b)

IsEnd(in, b) == b = CR \/ (b = NL /\ Alone(in, Len(in) + 1))

\* The characters that were there are the same.
LEMMA Extended ==
    ASSUME NEW in, NEW out, NEW b, Longer(in, out, b)
    PROVE  /\ Len(in) \in Nat /\ DOMAIN in = 1..Len(in) /\ in \in Seq(Int)
           /\ out \in Seq(Int) /\ Len(out) = Len(in) + 1 /\ DOMAIN out = 1..(Len(in) + 1)
           /\ out[Len(in) + 1] = b /\ \A i \in 1..Len(in) : out[i] = in[i]
           /\ \A i \in 1..(Len(in) + 1) : Alone(out, i) <=> Alone(in, i)
           /\ Plain(out) <=> Plain(in) /\ b \notin High
<1>1. /\ Len(in) \in Nat /\ DOMAIN in = 1..Len(in) /\ in \in Seq(Int)
      /\ out \in Seq(Int) /\ Len(out) = Len(in) + 1 /\ DOMAIN out = 1..(Len(in) + 1)
      /\ out[Len(in) + 1] = b /\ \A i \in 1..Len(in) : out[i] = in[i]
  BY DEF Longer
<1>2. ASSUME NEW i \in 1..(Len(in) + 1) PROVE Alone(out, i) <=> Alone(in, i)
  <2>1. CASE i = 1
    BY <2>1 DEF Alone
  <2>2. CASE i # 1
    <3>1. i - 1 \in 1..Len(in)
      BY <1>1, <2>2
    <3> QED BY <1>1, <3>1 DEF Alone
  <2> QED BY <2>1, <2>2
<1>3. Plain(out) <=> Plain(in) /\ b \notin High
  BY <1>1, SMTT(30) DEF Plain
<1> QED BY <1>1, <1>2, <1>3

LEMMA EndsStep ==
    ASSUME NEW in, NEW out, NEW b, Longer(in, out, b)
    PROVE  /\ IsEnd(in, b) => Ends(out) = Ends(in) \cup {Len(in) + 1}
           /\ ~IsEnd(in, b) => Ends(out) = Ends(in)
           /\ b \notin Newlines => Characters(out) = Characters(in) \cup {Len(in) + 1}
           /\ b \in Newlines => Characters(out) = Characters(in)
           /\ b \notin Newlines => ~IsEnd(in, b)
           /\ IsEnd(in, b) => b \in Newlines
<1>1. ASSUME NEW i \in 1..Len(in) PROVE i \in Ends(out) <=> i \in Ends(in)
  BY <1>1, Extended, SMTT(30) DEF Ends
<1>2. Len(in) + 1 \in Ends(out) <=> IsEnd(in, b)
  BY Extended DEF Ends, IsEnd
<1>3. Ends(in) \subseteq 1..Len(in) /\ Ends(out) \subseteq 1..(Len(in) + 1)
  BY Extended DEF Ends
<1>4. /\ IsEnd(in, b) => Ends(out) = Ends(in) \cup {Len(in) + 1}
      /\ ~IsEnd(in, b) => Ends(out) = Ends(in)
  <2>1. ASSUME NEW i \in 1..(Len(in) + 1)
        PROVE  i \in Ends(out) <=> i \in Ends(in) \/ (i = Len(in) + 1 /\ IsEnd(in, b))
    BY <1>1, <1>2, <1>3, Extended
  <2>2. Ends(in) \subseteq 1..(Len(in) + 1) /\ Len(in) + 1 \in 1..(Len(in) + 1)
    BY <1>3, Extended
  <2> QED BY <1>3, <2>1, <2>2
<1>5. /\ b \notin Newlines => Characters(out) = Characters(in) \cup {Len(in) + 1}
      /\ b \in Newlines => Characters(out) = Characters(in)
  <2>1. \A i \in 1..Len(in) : i \in Characters(out) <=> i \in Characters(in)
    BY Extended, SMTT(30) DEF Characters
  <2>2. Len(in) + 1 \in Characters(out) <=> b \notin Newlines
    BY Extended DEF Characters
  <2>3. Characters(in) \subseteq 1..Len(in) /\ Characters(out) \subseteq 1..(Len(in) + 1)
    BY Extended DEF Characters
  <2>4. ASSUME NEW i \in 1..(Len(in) + 1)
        PROVE  i \in Characters(out) <=> i \in Characters(in) \/ (i = Len(in) + 1 /\ b \notin Newlines)
    BY <2>1, <2>2, <2>3, Extended
  <2>5. Characters(in) \subseteq 1..(Len(in) + 1) /\ Len(in) + 1 \in 1..(Len(in) + 1)
    BY <2>3, Extended
  <2> QED BY <2>3, <2>4, <2>5
<1>6. (b \notin Newlines => ~IsEnd(in, b)) /\ (IsEnd(in, b) => b \in Newlines)
  BY DEF IsEnd, Newlines
<1> QED BY <1>4, <1>5, <1>6

\* Ends, characters and breaks are places of the input, finitely many.
LEMMA PlacesFinite ==
    ASSUME NEW in \in Seq(Int)
    PROVE  /\ Len(in) \in Nat
           /\ Ends(in) \subseteq 1..Len(in) /\ Characters(in) \subseteq 1..Len(in)
           /\ Breaks(in) \subseteq 1..Len(in)
           /\ \A S : S \subseteq 1..Len(in) => IsFiniteSet(S) /\ Cardinality(S) \in Nat
<1>1. Len(in) \in Nat /\ DOMAIN in = 1..Len(in)
  OBVIOUS
<1>2. Ends(in) \subseteq 1..Len(in) /\ Characters(in) \subseteq 1..Len(in)
  BY <1>1 DEF Ends, Characters
<1>3. Breaks(in) \subseteq 1..Len(in)
  BY <1>2 DEF Breaks
<1>4. IsFiniteSet(1..Len(in))
  BY <1>1, FS_Interval
<1>5. ASSUME NEW S, S \subseteq 1..Len(in) PROVE IsFiniteSet(S) /\ Cardinality(S) \in Nat
  BY <1>4, <1>5, FS_Subset, FS_CardinalityType
<1> QED BY <1>1, <1>2, <1>3, <1>5

\* One more, modulo L.
LEMMA ModStep ==
    ASSUME NEW L \in Nat \ {0}, NEW a \in Nat
    PROVE  /\ a % L \in 0..(L - 1)
           /\ (a % L) + 1 = L => (a + 1) % L = 0
           /\ (a % L) + 1 # L => (a + 1) % L = (a % L) + 1
<1> DEFINE q == a \div L
           r == a % L
<1>1. a = L * q + r /\ r \in 0..(L - 1) /\ q \in Int
  BY SMT
<1> HIDE DEF q, r
<1>2. \A p \in Int, x \in 0..(L - 1) : (L * p + x) % L = x
  BY SMT
<1>3. ASSUME r + 1 = L PROVE (a + 1) % L = 0
  <2>1. a + 1 = L * (q + 1) + 0 /\ q + 1 \in Int /\ 0 \in 0..(L - 1)
    BY <1>1, <1>3
  <2> QED BY <1>2, <2>1
<1>4. ASSUME r + 1 # L PROVE (a + 1) % L = r + 1
  <2>1. a + 1 = L * q + (r + 1) /\ r + 1 \in 0..(L - 1)
    BY <1>1, <1>4
  <2> QED BY <1>1, <1>2, <2>1
<1> QED BY <1>1, <1>3, <1>4 DEF r

LEMMA WidthStep ==
    ASSUME NEW in, NEW out, NEW b, Longer(in, out, b)
    PROVE  /\ Width(in) \in Nat
           /\ IsEnd(in, b) => Width(out) = 0
           /\ b \notin Newlines => Width(out) = Width(in) + 1
           /\ b \in Newlines /\ ~IsEnd(in, b) => Width(out) = Width(in)
<1> DEFINE W(s) == {i \in Characters(s) : \A e \in Ends(s) : e < i}
           k == Len(in) + 1
<1>0. in \in Seq(Int) /\ out \in Seq(Int) /\ Len(in) \in Nat
  BY Extended
<1>1. /\ Ends(in) \subseteq 1..Len(in) /\ Characters(in) \subseteq 1..Len(in)
      /\ IsFiniteSet(W(in)) /\ Cardinality(W(in)) \in Nat
  <2>1. W(in) \subseteq 1..Len(in)
    BY <1>0, PlacesFinite
  <2> QED BY <1>0, <2>1, PlacesFinite
<1>2. ASSUME IsEnd(in, b) PROVE W(out) = {}
  <2>1. k \in Ends(out) /\ Characters(out) = Characters(in)
    BY <1>2, EndsStep
  <2>2. ASSUME NEW i \in Characters(in) PROVE ~(k < i)
    BY <1>0, <1>1
  <2> QED BY <2>1, <2>2
<1>3. ASSUME b \notin Newlines PROVE Cardinality(W(out)) = Cardinality(W(in)) + 1
  <2>1. Ends(out) = Ends(in) /\ Characters(out) = Characters(in) \cup {k}
    BY <1>3, EndsStep
  <2>2. k \notin W(in) /\ \A e \in Ends(in) : e < k
    BY <1>0, <1>1
  <2>3. W(out) = W(in) \cup {k}
    BY <2>1, <2>2
  <2> QED BY <1>1, <2>2, <2>3, FS_AddElement
<1>4. ASSUME b \in Newlines, ~IsEnd(in, b) PROVE W(out) = W(in)
  <2>1. Ends(out) = Ends(in) /\ Characters(out) = Characters(in)
    BY <1>4, EndsStep
  <2> QED BY <2>1
<1> QED BY <1>1, <1>2, <1>3, <1>4, FS_EmptySet DEF Width

LEMMA ColumnStep ==
    ASSUME NEW in, NEW out, NEW b, Longer(in, out, b)
    PROVE  /\ \A i \in 1..Len(in) : Column(out, i) = Column(in, i)
           /\ b \notin Newlines => Column(out, Len(in) + 1) = Width(in) + 1
<1> DEFINE k == Len(in) + 1
           C(s, i) == {j \in Characters(s) : j <= i /\ \A e \in Ends(s) : ~(j < e /\ e < i)}
<1>0. /\ in \in Seq(Int) /\ out \in Seq(Int) /\ Len(in) \in Nat /\ k \in Nat
      /\ Ends(in) \subseteq 1..Len(in) /\ Characters(in) \subseteq 1..Len(in)
  BY Extended, PlacesFinite
<1>1. ASSUME NEW i \in 1..Len(in) PROVE C(out, i) = C(in, i)
  <2>1. \A j \in 1..Len(in) : ~(k <= i) /\ ~(k < i)
    BY <1>0
  <2>2. ASSUME NEW j \in C(out, i) PROVE j \in C(in, i)
    <3>1. j \in Characters(out) /\ j <= i /\ j # k
      BY <1>0, <2>1
    <3>2. j \in Characters(in)
      BY <3>1, EndsStep
    <3>3. Ends(in) \subseteq Ends(out)
      BY EndsStep
    <3> QED BY <3>1, <3>2, <3>3
  <2>3. ASSUME NEW j \in C(in, i) PROVE j \in C(out, i)
    BY <1>0, <2>1, <2>3, EndsStep, SMTT(30)
  <2> QED BY <2>2, <2>3
<1>2. ASSUME b \notin Newlines PROVE Cardinality(C(out, k)) = Width(in) + 1
  <2>1. Ends(out) = Ends(in) /\ Characters(out) = Characters(in) \cup {k}
    BY <1>2, EndsStep
  <2> DEFINE W == {i \in Characters(in) : \A e \in Ends(in) : e < i}
  <2>2. k \notin W /\ (\A e \in Ends(in) : e < k) /\ (\A i \in Characters(in) : i < k)
    BY <1>0
  <2>3. \A e \in Ends(in), i \in Characters(in) : e < i <=> ~(i < e)
    <3>1. ASSUME NEW i \in Characters(in) PROVE i \notin Ends(in)
      BY DEF Characters, Ends, Newlines
    <3> QED BY <1>0, <3>1
  <2>4. C(out, k) = W \cup {k}
    <3>1. ASSUME NEW i \in Characters(in) PROVE i \in C(out, k) <=> i \in W
      BY <1>0, <2>1, <2>2, <2>3
    <3>2. k \in C(out, k)
      BY <1>0, <2>1, <2>2
    <3>3. C(out, k) \subseteq Characters(in) \cup {k} /\ W \subseteq Characters(in)
      BY <2>1
    <3> QED BY <3>1, <3>2, <3>3
  <2>5. IsFiniteSet(W)
    <3>1. W \subseteq 1..Len(in)
      BY <1>0
    <3> QED BY <1>0, <3>1, PlacesFinite
  <2> QED BY <2>2, <2>4, <2>5, FS_AddElement, ZenonT(30) DEF Width
<1> QED BY <1>1, <1>2 DEF Column

\* Where the input breaks: at an end of a line, and where a line becomes too long.
LEMMA BreaksStep ==
    ASSUME NEW in, NEW out, NEW b, Longer(in, out, b)
    PROVE  /\ IsEnd(in, b) => Breaks(out) = Breaks(in) \cup {Len(in) + 1}
           /\ b \in Newlines /\ ~IsEnd(in, b) => Breaks(out) = Breaks(in)
           /\ b \notin Newlines /\ (Width(in) + 1) % LineMax = 0
                => Breaks(out) = Breaks(in) \cup {Len(in) + 1}
           /\ b \notin Newlines /\ (Width(in) + 1) % LineMax # 0
                => Breaks(out) = Breaks(in)
<1> DEFINE k == Len(in) + 1
<1>0. /\ in \in Seq(Int) /\ out \in Seq(Int) /\ Len(in) \in Nat /\ k \notin 1..Len(in)
      /\ Ends(in) \subseteq 1..Len(in) /\ Characters(in) \subseteq 1..Len(in)
      /\ Breaks(in) \subseteq 1..Len(in) /\ Breaks(out) \subseteq 1..k
  <2>1. out \in Seq(Int) /\ Len(out) = k
    BY Extended
  <2> QED BY <2>1, Extended, PlacesFinite
<1>1. ASSUME NEW i \in 1..Len(in) PROVE i \in Breaks(out) <=> i \in Breaks(in)
  <2>1. Column(out, i) = Column(in, i)
    BY ColumnStep
  <2>2. (i \in Ends(out) <=> i \in Ends(in)) /\ (i \in Characters(out) <=> i \in Characters(in))
    BY <1>0, EndsStep
  <2> QED BY <2>1, <2>2 DEF Breaks
<1>2. k \in Breaks(out) <=> \/ IsEnd(in, b)
                            \/ b \notin Newlines /\ (Width(in) + 1) % LineMax = 0
  <2>1. k \in Ends(out) <=> IsEnd(in, b)
    BY <1>0, EndsStep
  <2>2. k \in Characters(out) <=> b \notin Newlines
    BY <1>0, EndsStep
  <2>3. b \notin Newlines => Column(out, k) = Width(in) + 1
    BY ColumnStep
  <2> QED BY <2>1, <2>2, <2>3 DEF Breaks
<1>3. ASSUME k \in Breaks(out) PROVE Breaks(out) = Breaks(in) \cup {k}
  BY <1>0, <1>1, <1>3
<1>4. ASSUME k \notin Breaks(out) PROVE Breaks(out) = Breaks(in)
  <2>1. Breaks(out) \subseteq 1..Len(in)
    BY <1>0, <1>4
  <2> QED BY <1>0, <1>1, <2>1
<1> QED BY <1>2, <1>3, <1>4, EndsStep

\* The lines that were there are the same, and have the same ranks.
LEMMA OldLines ==
    ASSUME NEW in, NEW out, NEW b, Longer(in, out, b)
    PROVE  /\ Breaks(in) \subseteq Breaks(out)
           /\ \A x \in Breaks(in) : LineAt(out, x) = LineAt(in, x) /\ Rank(out, x) = Rank(in, x)
<1> DEFINE k == Len(in) + 1
<1>0. /\ Len(in) \in Nat /\ k \notin 1..Len(in) /\ in \in Seq(Int)
      /\ Characters(in) \subseteq 1..Len(in) /\ Breaks(in) \subseteq 1..Len(in)
  BY Extended, PlacesFinite
<1>1. Breaks(out) = Breaks(in) \/ Breaks(out) = Breaks(in) \cup {k}
  BY BreaksStep
<1>2. Characters(out) = Characters(in) \/ Characters(out) = Characters(in) \cup {k}
  BY EndsStep
<1>3. ASSUME NEW x \in Breaks(in)
      PROVE  LineAt(out, x) = LineAt(in, x) /\ Rank(out, x) = Rank(in, x)
  <2>1. x \in 1..Len(in) /\ ~(k <= x) /\ ~(k < x)
    BY <1>0
  <2>2. \A i : i \in Characters(out) /\ i <= x <=> i \in Characters(in) /\ i <= x
    BY <1>2, <2>1
  <2>3. \A c : c \in Breaks(out) /\ c < x <=> c \in Breaks(in) /\ c < x
    BY <1>1, <2>1
  <2>4. LineAt(out, x) = LineAt(in, x)
    BY <2>2, <2>3 DEF LineAt
  <2>5. {c \in Breaks(out) : c <= x} = {c \in Breaks(in) : c <= x}
    BY <1>1, <2>1
  <2> QED BY <2>4, <2>5 DEF Rank
<1> QED BY <1>1, <1>3

\* A new line is the last one.
LEMMA NewLine ==
    ASSUME NEW in, NEW out, NEW b, Longer(in, out, b),
           Breaks(out) = Breaks(in) \cup {Len(in) + 1}
    PROVE  /\ Rank(out, Len(in) + 1) = Cardinality(Breaks(out))
           /\ Cardinality(Breaks(out)) = Cardinality(Breaks(in)) + 1
           /\ LineAt(out, Len(in) + 1) = Begun(in) \cup {i \in {Len(in) + 1} : b \notin Newlines}
           /\ Begun(out) = {}
<1> DEFINE k == Len(in) + 1
<1>0. /\ Len(in) \in Nat /\ k \notin 1..Len(in) /\ in \in Seq(Int)
      /\ Characters(in) \subseteq 1..Len(in) /\ Breaks(in) \subseteq 1..Len(in)
  BY Extended, PlacesFinite
<1>1. \A c \in Breaks(in) : c < k /\ c \in Int
  BY <1>0
<1>2. \A i \in Characters(in) : i < k /\ i \in Int
  BY <1>0
<1>3. {c \in Breaks(out) : c <= k} = Breaks(out)
  BY <1>0, <1>1
<1>4. Cardinality(Breaks(out)) = Cardinality(Breaks(in)) + 1
  <2>1. IsFiniteSet(Breaks(in)) /\ k \notin Breaks(in)
    BY <1>0, PlacesFinite
  <2> QED BY <2>1, FS_AddElement
<1>5. LineAt(out, k) = Begun(in) \cup {i \in {k} : b \notin Newlines}
  <2>1. ASSUME NEW i \in Characters(in) PROVE i \in LineAt(out, k) <=> i \in Begun(in)
    <3>1. i \in Characters(out) /\ i <= k /\ i \in Int /\ i < k
      BY <1>0, <1>2, EndsStep
    <3>2. i \in LineAt(out, k) <=> \A c \in Breaks(in) : ~(i <= c)
      BY <1>0, <1>1, <3>1 DEF LineAt
    <3>3. \A c \in Breaks(in) : ~(i <= c) <=> c < i
      BY <1>1, <3>1
    <3> QED BY <3>2, <3>3 DEF Begun
  <2>2. k \in LineAt(out, k) <=> b \notin Newlines
    <3>1. \A c \in Breaks(out) : ~(k <= c /\ c < k)
      BY <1>0, <1>1
    <3>2. k \in Characters(out) <=> b \notin Newlines
      BY <1>0, EndsStep
    <3> QED BY <1>0, <3>1, <3>2 DEF LineAt
  <2>3. LineAt(out, k) \subseteq Characters(in) \cup {k} /\ Begun(in) \subseteq Characters(in)
    BY EndsStep DEF LineAt, Begun
  <2> QED BY <2>1, <2>2, <2>3
<1>6. Begun(out) = {}
  <2>1. \A i \in Characters(out) : ~(k < i)
    BY <1>0, <1>2, EndsStep
  <2> QED BY <2>1 DEF Begun
<1> QED BY <1>3, <1>4, <1>5, <1>6 DEF Rank

LEMMA ToSetAppend ==
    ASSUME NEW s \in Seq(Nat), NEW e \in Nat
    PROVE  ToSet(Append(s, e)) = ToSet(s) \cup {e} /\ Len(Append(s, e)) = Len(s) + 1
<1> DEFINE l == Append(s, e)
<1>1. /\ DOMAIN s = 1..Len(s) /\ DOMAIN l = 1..(Len(s) + 1) /\ Len(l) = Len(s) + 1
      /\ l[Len(s) + 1] = e /\ (\A i \in 1..Len(s) : l[i] = s[i]) /\ Len(s) \in Nat
  OBVIOUS
<1> HIDE DEF l
<1>2. ASSUME NEW x \in ToSet(l) PROVE x \in ToSet(s) \cup {e}
  <2>1. PICK i \in DOMAIN l : x = l[i]
    BY DEF ToSet
  <2>2. i = Len(s) + 1 \/ i \in DOMAIN s
    BY <1>1, <2>1
  <2> QED BY <1>1, <2>1, <2>2 DEF ToSet
<1>3. ASSUME NEW x \in ToSet(s) PROVE x \in ToSet(l)
  <2>1. PICK i \in DOMAIN s : x = s[i]
    BY DEF ToSet
  <2>2. i \in DOMAIN l /\ x = l[i]
    BY <1>1, <2>1
  <2> QED BY <2>2 DEF ToSet
<1>4. e \in ToSet(l)
  <2>1. Len(s) + 1 \in DOMAIN l
    BY <1>1
  <2> QED BY <1>1, <2>1 DEF ToSet
<1>5. ToSet(l) = ToSet(s) \cup {e}
  BY <1>2, <1>3, <1>4
<1> QED BY <1>1, <1>5 DEF l

\* The line that the input ends in the middle of, after one more character.
LEMMA BegunStep ==
    ASSUME LineMax \in Nat \ {0},
           NEW in, NEW out, NEW b, Longer(in, out, b),
           NEW line \in Seq(Nat), IsBegun(in, line), Len(line) < LineMax
    PROVE  /\ IsEnd(in, b) =>
                /\ Breaks(out) = Breaks(in) \cup {Len(in) + 1}
                /\ LineAt(out, Len(in) + 1) = ToSet(line) /\ IsBegun(out, << >>)
           /\ b \in Newlines /\ ~IsEnd(in, b) =>
                Breaks(out) = Breaks(in) /\ IsBegun(out, line)
           /\ b \notin Newlines /\ Len(line) + 1 = LineMax =>
                /\ Breaks(out) = Breaks(in) \cup {Len(in) + 1}
                /\ LineAt(out, Len(in) + 1) = ToSet(Append(line, Len(in) + 1))
                /\ IsBegun(out, << >>)
           /\ b \notin Newlines /\ Len(line) + 1 # LineMax =>
                Breaks(out) = Breaks(in) /\ IsBegun(out, Append(line, Len(in) + 1))
<1> DEFINE k == Len(in) + 1
<1>0. /\ Len(in) \in Nat /\ k \notin 1..Len(in) /\ in \in Seq(Int)
      /\ Characters(in) \subseteq 1..Len(in) /\ Breaks(in) \subseteq 1..Len(in)
      /\ Width(in) \in Nat /\ Len(line) \in Nat
  BY Extended, PlacesFinite, WidthStep, SMTT(30)
<1>1. ToSet(<< >>) = {} /\ Len(<< >>) = 0
  BY DEF ToSet
<1>2. ToSet(Append(line, k)) = ToSet(line) \cup {k} /\ Len(Append(line, k)) = Len(line) + 1
  BY <1>0, ToSetAppend
<1>3. 0 % LineMax = 0
  BY SMT
<1>4. ToSet(line) = Begun(in) /\ Len(line) = Width(in) % LineMax
  BY DEF IsBegun
<1>5. /\ Len(line) + 1 = LineMax => (Width(in) + 1) % LineMax = 0
      /\ Len(line) + 1 # LineMax => (Width(in) + 1) % LineMax = Len(line) + 1
  BY <1>0, <1>4, ModStep
<1>6. ASSUME IsEnd(in, b)
      PROVE  /\ Breaks(out) = Breaks(in) \cup {k}
             /\ LineAt(out, k) = ToSet(line) /\ IsBegun(out, << >>)
  <2>1. Breaks(out) = Breaks(in) \cup {k} /\ b \in Newlines
    BY <1>6, BreaksStep, EndsStep
  <2>2. LineAt(out, k) = ToSet(line) /\ Begun(out) = {}
    <3>1. {i \in {k} : b \notin Newlines} = {}
      BY <2>1
    <3>2. LineAt(out, k) = Begun(in) \cup {i \in {k} : b \notin Newlines} /\ Begun(out) = {}
      BY <2>1, NewLine
    <3> HIDE DEF k
    <3> QED BY <1>4, <3>1, <3>2
  <2>3. Width(out) = 0
    BY <1>6, WidthStep
  <2> QED BY <1>1, <1>3, <2>1, <2>2, <2>3 DEF IsBegun
<1>7. ASSUME b \in Newlines, ~IsEnd(in, b)
      PROVE  Breaks(out) = Breaks(in) /\ IsBegun(out, line)
  <2>1. /\ Breaks(out) = Breaks(in) /\ Characters(out) = Characters(in)
        /\ Width(out) = Width(in)
    BY <1>7, BreaksStep, EndsStep, WidthStep
  <2>2. Begun(out) = Begun(in)
    BY <2>1 DEF Begun
  <2> QED BY <1>4, <2>1, <2>2 DEF IsBegun
<1>8. ASSUME b \notin Newlines, Len(line) + 1 = LineMax
      PROVE  /\ Breaks(out) = Breaks(in) \cup {k}
             /\ LineAt(out, k) = ToSet(Append(line, k)) /\ IsBegun(out, << >>)
  <2>1. Breaks(out) = Breaks(in) \cup {k} /\ Width(out) = Width(in) + 1
    BY <1>5, <1>8, BreaksStep, WidthStep
  <2>2. LineAt(out, k) = ToSet(line) \cup {k} /\ Begun(out) = {}
    BY <1>4, <1>8, <2>1, NewLine
  <2> QED BY <1>1, <1>2, <1>5, <1>8, <2>1, <2>2 DEF IsBegun
<1>9. ASSUME b \notin Newlines, Len(line) + 1 # LineMax
      PROVE  Breaks(out) = Breaks(in) /\ IsBegun(out, Append(line, k))
  <2>1. /\ Breaks(out) = Breaks(in) /\ Width(out) = Width(in) + 1
        /\ Characters(out) = Characters(in) \cup {k}
    BY <1>0, <1>5, <1>9, BreaksStep, WidthStep, EndsStep
  <2>2. \A c \in Breaks(in) : c < k
    BY <1>0
  <2>3. Begun(out) = Begun(in) \cup {k}
    BY <2>1, <2>2 DEF Begun
  <2> QED BY <1>2, <1>4, <1>5, <1>9, <2>1, <2>3 DEF IsBegun
<1> QED BY <1>6, <1>7, <1>8, <1>9

-----------------------------------------------------------------------------
(* One call of conn_gets, character by character.                          *)

\* What there is before a call: the reader has line, which is not full.
Before(line) ==
    /\ LineMax \in Nat \ {0} /\ ConnTypes /\ ConventionInv /\ EatsRight(Input, eatNl)
    /\ line \in Seq(Nat) /\ Len(line) < LineMax

FirstOnes(k) == SubSeq(sent, 1, k)

\* Sequences grow at their end.
LEMMA FirstOnesStep ==
    ASSUME ConnTypes, NEW k \in 0..Len(sent)
    PROVE  /\ Len(sent) \in Nat /\ FirstOnes(k) \in Seq(Int) /\ Len(FirstOnes(k)) = k
           /\ \A i \in 1..k : FirstOnes(k)[i] = sent[i]
           /\ \A i \in 1..(k + 1) : Alone(FirstOnes(k), i) <=> Alone(sent, i)
           /\ k < Len(sent) => Longer(FirstOnes(k), FirstOnes(k + 1), sent[k + 1])
<1>1. /\ Len(sent) \in Nat /\ sent \in Seq(Int) /\ k \in Int /\ k <= Len(sent)
      /\ \A i \in 1..k : sent[i] \in Int
  BY DEF ConnTypes
<1>2. /\ FirstOnes(k) \in Seq(Int) /\ Len(FirstOnes(k)) = k
      /\ \A i \in 1..k : FirstOnes(k)[i] = sent[i]
  BY <1>1 DEF FirstOnes
<1>3. ASSUME NEW i \in 1..(k + 1) PROVE Alone(FirstOnes(k), i) <=> Alone(sent, i)
  <2>1. i > 1 => i - 1 \in 1..k
    BY <1>1
  <2> QED BY <1>2, <2>1 DEF Alone
<1>4. ASSUME k < Len(sent) PROVE Longer(FirstOnes(k), FirstOnes(k + 1), sent[k + 1])
  <2>1. sent[k + 1] \in Int /\ k + 1 \in Int /\ \A i \in 1..(k + 1) : sent[i] \in Int
    BY <1>1, <1>4
  <2>2. /\ FirstOnes(k + 1) \in Seq(Int) /\ Len(FirstOnes(k + 1)) = k + 1
        /\ \A i \in 1..(k + 1) : FirstOnes(k + 1)[i] = sent[i]
    BY <1>1, <1>4, <2>1 DEF FirstOnes
  <2>3. FirstOnes(k + 1) = Append(FirstOnes(k), sent[k + 1])
    <3> DEFINE A == Append(FirstOnes(k), sent[k + 1])
    <3>1. /\ A \in Seq(Int) /\ Len(A) = k + 1
          /\ \A i \in 1..(k + 1) : A[i] = sent[i]
      BY <1>1, <1>2, <2>1
    <3> HIDE DEF A
    <3>2. /\ Len(FirstOnes(k + 1)) = Len(A)
          /\ \A i \in 1..Len(FirstOnes(k + 1)) : FirstOnes(k + 1)[i] = A[i]
      BY <2>2, <3>1
    <3>3. FirstOnes(k + 1) = A
      BY <2>2, <3>1, <3>2, SeqEqual
    <3> QED BY <3>3 DEF A
  <2> QED BY <1>2, <2>1, <2>3 DEF Longer
<1> QED BY <1>1, <1>2, <1>3, <1>4

\* What a call that began with line has read of the input, and what it has of it.
\* Nothing before it is lost, and nothing is made up.
Holds(line, s) ==
    /\ s \in [line : Seq(Nat), eatNl : BOOLEAN, taken : taken..Len(sent),
              end : {"no", "line", "error", "block"}]
    /\ EatsRight(FirstOnes(s.taken), s.eatNl)
    /\ s.end \in {"no", "error", "block"} => Len(s.line) < LineMax
    /\ s.end # "no" => s.taken > taken
    /\ Len(line) <= Len(s.line) /\ \A i \in 1..Len(line) : s.line[i] = line[i]
    /\ \A i \in (Len(line) + 1)..Len(s.line) :
         /\ s.line[i] \in (taken + 1)..s.taken
         /\ \A j \in (Len(line) + 1)..Len(s.line) : i < j => s.line[i] < s.line[j]

\* And which lines of the input that is.
Lines(line, s) ==
    LET in == FirstOnes(s.taken) IN
    /\ Plain(in) => Plain(Input) /\ s.end \in {"no", "line"}
    /\ Breaks(Input) \subseteq Breaks(in)
    /\ \A x \in Breaks(Input) : LineAt(in, x) = LineAt(Input, x) /\ Rank(in, x) = Rank(Input, x)
    /\ s.end # "line" => Ends(in) = Ends(Input)
    /\ s.end = "line" =>
         /\ Len(s.line) < LineMax => Cardinality(Ends(in)) = Cardinality(Ends(Input)) + 1
         /\ Len(s.line) >= LineMax => Ends(in) = Ends(Input)
    /\ Plain(in) /\ IsBegun(Input, line) =>
         /\ s.end = "no" => Breaks(in) = Breaks(Input) /\ IsBegun(in, s.line)
         /\ s.end = "line" =>
              /\ Breaks(in) = Breaks(Input) \cup {s.taken} /\ LineAt(in, s.taken) = ToSet(s.line)
              /\ Cardinality(Breaks(in)) = Cardinality(Breaks(Input)) + 1
              /\ Rank(in, s.taken) = Cardinality(Breaks(in)) /\ IsBegun(in, << >>)

\* The kinds of characters.
LEMMA CharKinds ==
    ASSUME ConnTypes, NEW k \in DOMAIN sent
    PROVE  /\ sent[k] \in {NL, CR, FF, FE} \/ (sent[k] = k /\ k \notin {NL, CR, FF, FE})
           /\ NL # CR /\ NL # FF /\ NL # FE /\ CR # FF /\ CR # FE /\ FF # FE
           /\ sent[k] \in Int /\ k \in Nat
<1>1. sent[k] \in Newlines \cup High \cup {k} /\ k \in Nat /\ k > 0
  BY DEF ConnTypes
<1> QED BY <1>1 DEF Newlines, High, NL, CR, FF, FE

\* eatNl is right: a newline is eaten if it belongs to a return, and not if it
\* is an end of a line of its own.
LEMMA EatsStep ==
    ASSUME ConnTypes, ConventionInv, NEW k \in 1..Len(sent), NEW e \in BOOLEAN,
           EatsRight(FirstOnes(k - 1), e)
    PROVE  /\ sent[k] = NL => (e <=> ~IsEnd(FirstOnes(k - 1), NL))
           /\ sent[k] = NL => EatsRight(FirstOnes(k), FALSE)
           /\ sent[k] = CR => EatsRight(FirstOnes(k), TRUE)
           /\ sent[k] \notin Newlines => EatsRight(FirstOnes(k), e)
<1>0. Len(sent) \in Nat /\ k - 1 \in 0..Len(sent) /\ k \in 0..Len(sent) /\ k \in DOMAIN sent /\ k >= 1
  BY DEF ConnTypes
<1>1. /\ Len(FirstOnes(k - 1)) = k - 1 /\ Len(FirstOnes(k)) = k
      /\ Alone(FirstOnes(k - 1), k) <=> Alone(sent, k)
      /\ Alone(FirstOnes(k), k + 1) <=> Alone(sent, k + 1)
  <2>1. (k - 1) + 1 = k /\ k \in 1..((k - 1) + 1) /\ k + 1 \in 1..(k + 1)
    BY <1>0
  <2> QED BY <1>0, <2>1, FirstOnesStep
<1>2. Alone(sent, k + 1) <=> sent[k] # CR
  BY <1>0 DEF Alone
<1>3. /\ convention = "unix" => ~e /\ \A i \in DOMAIN sent : sent[i] # CR
      /\ convention = "dos" => (e <=> ~Alone(sent, k)) /\ (sent[k] = NL <=> ~Alone(sent, k))
      /\ convention = "mac" => sent[k] # NL
      /\ convention \in {"unix", "mac", "dos"}
  <2>1. (k - 1) + 1 = k
    BY <1>0
  <2> QED BY <1>0, <1>1, <2>1 DEF EatsRight, ConventionInv, ConnTypes
<1>4. convention = "unix" => Alone(sent, k)
  <2>1. k > 1 => k - 1 \in DOMAIN sent
    BY <1>0 DEF ConnTypes
  <2> QED BY <1>3, <2>1 DEF Alone
<1>5. NL # CR
  BY DEF NL, CR
<1>6. sent[k] = NL => (e <=> ~IsEnd(FirstOnes(k - 1), NL))
  <2>1. (k - 1) + 1 = k
    BY <1>0
  <2> QED BY <1>1, <1>3, <1>4, <1>5, <2>1 DEF IsEnd
<1>7. \A x \in BOOLEAN : EatsRight(FirstOnes(k), x) <=>
        (convention = "unix" => ~x) /\ (convention = "dos" => (x <=> sent[k] = CR))
  BY <1>1, <1>2 DEF EatsRight
<1> QED BY <1>0, <1>3, <1>5, <1>6, <1>7 DEF Newlines

\* GetChar, kind by kind.
LEMMA GetCharIs ==
    ASSUME NEW line, Before(line), NEW s, Holds(line, s), s.end = "no", s.taken < Len(sent),
           NEW t, t = GetChar(s, sent[s.taken + 1])
    PROVE  LET k == s.taken + 1
               b == sent[s.taken + 1]
           IN  /\ t \in [line : Seq(Nat), eatNl : BOOLEAN, taken : taken..Len(sent),
                         end : {"no", "line", "error", "block"}]
               /\ t.taken = k /\ k \in Nat /\ k \in DOMAIN sent /\ s.taken \in 0..Len(sent)
               /\ b = NL => /\ t.line = s.line /\ t.eatNl = FALSE
                            /\ t.end = IF s.eatNl THEN "no" ELSE "line"
               /\ b = CR => t.line = s.line /\ t.eatNl = TRUE /\ t.end = "line"
               /\ b \in High => t.line = s.line /\ t.eatNl = s.eatNl /\ t.end \in {"error", "block"}
               /\ b \notin Newlines \cup High =>
                    /\ b = k /\ t.line = Append(s.line, k) /\ t.eatNl = s.eatNl
                    /\ t.end = IF Len(s.line) + 1 = LineMax THEN "line" ELSE "no"
<1> DEFINE k == s.taken + 1
           b == sent[s.taken + 1]
<1>1. /\ s \in [line : Seq(Nat), eatNl : BOOLEAN, taken : taken..Len(sent),
                end : {"no", "line", "error", "block"}]
      /\ taken \in 0..Len(sent) /\ sent \in Seq(Int) /\ Len(sent) \in Nat
  BY DEF Holds, Before, ConnTypes
<1>2. /\ s.line \in Seq(Nat) /\ s.eatNl \in BOOLEAN /\ s.taken \in taken..Len(sent)
      /\ s.taken \in 0..Len(sent) /\ k \in DOMAIN sent /\ k \in taken..Len(sent) /\ k \in Nat
  BY <1>1
<1>3. /\ b \in {NL, CR, FF, FE} \/ (b = k /\ k \notin {NL, CR, FF, FE})
      /\ NL # CR /\ NL # FF /\ NL # FE /\ CR # FF /\ CR # FE /\ FF # FE
  BY <1>2, CharKinds DEF Before
<1>4. t = GetChar(s, b)
  OBVIOUS
<1> HIDE DEF k, b
<1>5. [s EXCEPT !.taken = @ + 1] = [s EXCEPT !.taken = k]
  BY <1>1 DEF k
<1>6. CASE b = NL
  <2>1. t = IF s.eatNl THEN [[s EXCEPT !.taken = k] EXCEPT !.eatNl = FALSE]
                       ELSE [[s EXCEPT !.taken = k] EXCEPT !.end = "line"]
    BY <1>2, <1>3, <1>4, <1>5, <1>6 DEF GetChar, EatsNl
  <2> QED BY <1>1, <1>2, <1>3, <1>6, <2>1 DEF Newlines, High, k, b
<1>7. CASE b = CR
  <2>1. t = [[s EXCEPT !.taken = k] EXCEPT !.end = "line", !.eatNl = TRUE]
    BY <1>3, <1>4, <1>5, <1>7 DEF GetChar
  <2> QED BY <1>1, <1>2, <1>3, <1>7, <2>1 DEF Newlines, High, k, b
<1>8. CASE b \in High
  <2>1. t = [[s EXCEPT !.taken = k] EXCEPT !.end = IF b = FF THEN "error" ELSE "block"]
    BY <1>3, <1>4, <1>5, <1>8 DEF GetChar, High
  <2> QED BY <1>1, <1>2, <1>3, <1>8, <2>1 DEF Newlines, High, k, b
<1>9. CASE b \notin Newlines \cup High
  <2>1. b = k /\ b \notin {NL, CR, FF, FE}
    BY <1>3, <1>9 DEF Newlines, High
  <2>2. t = [[s EXCEPT !.taken = k] EXCEPT !.line = Append(@, b),
                  !.end = IF Full(Append(s.line, b)) THEN "line" ELSE "no"]
    BY <1>4, <1>5, <2>1 DEF GetChar
  <2>3. Append(s.line, k) \in Seq(Nat) /\ Len(Append(s.line, k)) = Len(s.line) + 1
    BY <1>2
  <2>4. t = [[s EXCEPT !.taken = k] EXCEPT !.line = Append(s.line, k),
                  !.end = IF Len(s.line) + 1 = LineMax THEN "line" ELSE "no"]
    BY <1>1, <2>1, <2>2, <2>3 DEF Full
  <2> HIDE <2>2
  <2> QED BY <1>1, <1>2, <1>3, <1>9, <2>1, <2>3, <2>4 DEF Newlines, High, k, b
<1> QED BY <1>6, <1>7, <1>8, <1>9, <1>3 DEF Newlines, High

LEMMA HoldsStep ==
    ASSUME NEW line, Before(line), NEW s, Holds(line, s), s.end = "no", s.taken < Len(sent)
    PROVE  Holds(line, GetChar(s, sent[s.taken + 1]))
<1> DEFINE k == s.taken + 1
           b == sent[s.taken + 1]
<1>0. PICK t : t = GetChar(s, b)
  OBVIOUS
<1>1. /\ t \in [line : Seq(Nat), eatNl : BOOLEAN, taken : taken..Len(sent),
                end : {"no", "line", "error", "block"}]
      /\ t.taken = k /\ k \in Nat /\ k \in DOMAIN sent /\ s.taken \in 0..Len(sent)
      /\ b = NL => /\ t.line = s.line /\ t.eatNl = FALSE
                   /\ t.end = IF s.eatNl THEN "no" ELSE "line"
      /\ b = CR => t.line = s.line /\ t.eatNl = TRUE /\ t.end = "line"
      /\ b \in High => t.line = s.line /\ t.eatNl = s.eatNl /\ t.end \in {"error", "block"}
      /\ b \notin Newlines \cup High =>
           /\ b = k /\ t.line = Append(s.line, k) /\ t.eatNl = s.eatNl
           /\ t.end = IF Len(s.line) + 1 = LineMax THEN "line" ELSE "no"
  BY <1>0, GetCharIs, ZenonT(30)
<1>2. /\ s.line \in Seq(Nat) /\ Len(s.line) \in Nat /\ Len(s.line) < LineMax /\ LineMax \in Nat
      /\ taken \in Nat /\ s.taken \in taken..Len(sent) /\ Len(sent) \in Nat /\ s.eatNl \in BOOLEAN
      /\ Len(line) \in Nat
  BY DEF Holds, Before, ConnTypes
<1>3. EatsRight(FirstOnes(t.taken), t.eatNl)
  <2>1. k \in 1..Len(sent) /\ k - 1 = s.taken
    BY <1>1, <1>2
  <2>2. ConnTypes /\ ConventionInv /\ EatsRight(FirstOnes(s.taken), s.eatNl)
    BY DEF Before, Holds
  <2>3. /\ b = NL => EatsRight(FirstOnes(k), FALSE)
        /\ b = CR => EatsRight(FirstOnes(k), TRUE)
        /\ b \notin Newlines => EatsRight(FirstOnes(k), s.eatNl)
    BY <1>2, <2>1, <2>2, EatsStep
  <2>4. b \in High => b \notin Newlines
    BY DEF High, Newlines, NL, CR, FF, FE
  <2> HIDE DEF k, b
  <2> QED BY <1>1, <2>3, <2>4 DEF Newlines
<1>4. \/ t.line = s.line
      \/ /\ b = k /\ t.line = Append(s.line, k)
         /\ t.end \in {"no", "error", "block"} => Len(s.line) + 1 < LineMax
  <2> HIDE DEF k, b
  <2> QED BY <1>1, <1>2, SMTT(30) DEF Newlines
<1>5. /\ Len(line) <= Len(s.line) /\ \A i \in 1..Len(line) : s.line[i] = line[i]
      /\ \A i \in (Len(line) + 1)..Len(s.line) :
           /\ s.line[i] \in (taken + 1)..s.taken
           /\ \A j \in (Len(line) + 1)..Len(s.line) : i < j => s.line[i] < s.line[j]
  BY DEF Holds
<1>8. t.taken > taken
  BY <1>1, <1>2
<1>6. ASSUME t.line = s.line PROVE Holds(line, t)
  <2>0. \A m \in (taken + 1)..s.taken : m \in (taken + 1)..k
    BY <1>1, <1>2
  <2> HIDE DEF k, b
  <2>1. \A i \in (Len(line) + 1)..Len(s.line) : s.line[i] \in (taken + 1)..k
    BY <1>5, <2>0
  <2> QED BY <1>1, <1>2, <1>3, <1>5, <1>6, <1>8, <2>1 DEF Holds
<1>7. ASSUME b = k, t.line = Append(s.line, k),
             t.end \in {"no", "error", "block"} => Len(s.line) + 1 < LineMax
      PROVE  Holds(line, t)
  <2>1. /\ Len(t.line) = Len(s.line) + 1 /\ t.line[Len(s.line) + 1] = k
        /\ \A i \in 1..Len(s.line) : t.line[i] = s.line[i]
    BY <1>1, <1>2, <1>7, SMTT(30)
  <2>2. Len(line) <= Len(t.line) /\ \A i \in 1..Len(line) : t.line[i] = line[i]
    <3>1. Len(line) <= Len(s.line) + 1 /\ \A i \in 1..Len(line) : i \in 1..Len(s.line)
      BY <1>2, <1>5
    <3> HIDE DEF k, b
    <3> QED BY <1>5, <2>1, <3>1
  <2>3. ASSUME NEW i \in (Len(line) + 1)..Len(t.line)
        PROVE  /\ t.line[i] \in (taken + 1)..k
               /\ \A j \in (Len(line) + 1)..Len(t.line) : i < j => t.line[i] < t.line[j]
    <3>1. CASE i = Len(s.line) + 1
      <4>1. t.line[i] \in (taken + 1)..k
        BY <1>2, <2>1, <3>1, SMTT(60)
      <4>2. \A j \in (Len(line) + 1)..Len(t.line) : ~(i < j)
        BY <1>2, <2>1, <3>1
      <4> QED BY <4>1, <4>2
    <3>2. CASE i # Len(s.line) + 1
      <4>1. i \in (Len(line) + 1)..Len(s.line) /\ i \in 1..Len(s.line)
        BY <1>2, <2>1, <3>2, SMTT(30)
      <4>2. t.line[i] = s.line[i] /\ s.line[i] \in (taken + 1)..s.taken
        BY <1>5, <2>1, <4>1
      <4>3. ASSUME NEW j \in (Len(line) + 1)..Len(t.line), i < j PROVE t.line[i] < t.line[j]
        <5>1. CASE j = Len(s.line) + 1
          BY <1>2, <2>1, <4>2, <5>1, SMTT(60)
        <5>2. CASE j # Len(s.line) + 1
          <6>1. j \in (Len(line) + 1)..Len(s.line) /\ j \in 1..Len(s.line)
            BY <1>2, <2>1, <5>2, SMTT(30)
          <6> QED BY <1>5, <2>1, <4>1, <4>3, <6>1
        <5> QED BY <5>1, <5>2
      <4> QED BY <1>2, <4>2, <4>3, SMTT(60)
    <3> QED BY <3>1, <3>2
  <2>4. t.end \in {"no", "error", "block"} => Len(t.line) < LineMax
    BY <1>7, <2>1
  <2> HIDE DEF k, b
  <2> QED BY <1>1, <1>3, <1>8, <2>2, <2>3, <2>4 DEF Holds
<1> QED BY <1>0, <1>4, <1>6, <1>7

\* A character ends a line if the reader says so, and goes on with it otherwise.
LEMMA EndsAgree ==
    ASSUME NEW line, Before(line), NEW s, Holds(line, s), s.end = "no", s.taken < Len(sent),
           NEW t, t = GetChar(s, sent[s.taken + 1])
    PROVE  LET in == FirstOnes(s.taken)
               b == sent[s.taken + 1]
           IN  /\ Longer(in, FirstOnes(t.taken), b) /\ Len(in) + 1 = t.taken
               /\ \/ t.end = "line" /\ IsEnd(in, b) /\ t.line = s.line
                  \/ /\ t.end = "no" /\ b \in Newlines /\ ~IsEnd(in, b) /\ t.line = s.line
                  \/ /\ t.end \in {"error", "block"} /\ b \in High /\ ~IsEnd(in, b)
                     /\ b \notin Newlines /\ t.line = s.line
                  \/ /\ b \notin Newlines /\ ~IsEnd(in, b)
                     /\ t.line = Append(s.line, t.taken)
                     /\ t.end = IF Len(s.line) + 1 = LineMax THEN "line" ELSE "no"
<1> DEFINE in == FirstOnes(s.taken)
           b == sent[s.taken + 1]
           k == s.taken + 1
<1>1. /\ t.taken = k /\ k \in Nat /\ k \in DOMAIN sent /\ s.taken \in 0..Len(sent)
      /\ b = NL => /\ t.line = s.line /\ t.eatNl = FALSE
                   /\ t.end = IF s.eatNl THEN "no" ELSE "line"
      /\ b = CR => t.line = s.line /\ t.eatNl = TRUE /\ t.end = "line"
      /\ b \in High => t.line = s.line /\ t.eatNl = s.eatNl /\ t.end \in {"error", "block"}
      /\ b \notin Newlines \cup High =>
           /\ b = k /\ t.line = Append(s.line, k) /\ t.eatNl = s.eatNl
           /\ t.end = IF Len(s.line) + 1 = LineMax THEN "line" ELSE "no"
  BY GetCharIs, ZenonT(30)
<1>2. ConnTypes /\ ConventionInv /\ EatsRight(in, s.eatNl) /\ s.eatNl \in BOOLEAN
  BY DEF Before, Holds
<1>3. Longer(in, FirstOnes(k), b) /\ Len(in) + 1 = k
  BY <1>1, <1>2, FirstOnesStep
<1>4. b = NL => (s.eatNl <=> ~IsEnd(in, NL))
  <2>1. k \in 1..Len(sent) /\ k - 1 = s.taken
    BY <1>1, <1>2, <1>3 DEF ConnTypes
  <2> QED BY <1>2, <2>1, EatsStep
<1>5. /\ b = CR => IsEnd(in, b)
      /\ b \notin Newlines => ~IsEnd(in, b)
      /\ b \in High => b \notin Newlines
      /\ b \in Newlines <=> b = NL \/ b = CR
  BY DEF IsEnd, High, Newlines, NL, CR, FF, FE
<1> HIDE DEF in, b, k
<1>6. \/ t.end = "line" /\ IsEnd(in, b) /\ t.line = s.line
      \/ t.end = "no" /\ b \in Newlines /\ ~IsEnd(in, b) /\ t.line = s.line
      \/ /\ t.end \in {"error", "block"} /\ b \in High /\ ~IsEnd(in, b)
         /\ b \notin Newlines /\ t.line = s.line
      \/ /\ b \notin Newlines /\ ~IsEnd(in, b) /\ t.line = Append(s.line, k)
         /\ t.end = IF Len(s.line) + 1 = LineMax THEN "line" ELSE "no"
  <2>1. CASE b = NL
    BY <1>1, <1>2, <1>4, <1>5, <2>1
  <2>2. CASE b = CR
    BY <1>1, <1>5, <2>2
  <2>3. CASE b \in High
    BY <1>1, <1>5, <2>3
  <2>4. CASE b \notin Newlines \cup High
    BY <1>1, <1>5, <2>4
  <2> QED BY <1>5, <2>1, <2>2, <2>3, <2>4
<1> QED BY <1>1, <1>3, <1>6 DEF in, b, k

LEMMA LinesStep ==
    ASSUME NEW line, Before(line), NEW s, Holds(line, s), Lines(line, s),
           s.end = "no", s.taken < Len(sent)
    PROVE  Lines(line, GetChar(s, sent[s.taken + 1]))
<1>0. PICK t : t = GetChar(s, sent[s.taken + 1])
  OBVIOUS
<1> DEFINE in == FirstOnes(s.taken)
           out == FirstOnes(t.taken)
           b == sent[s.taken + 1]
<1>1. /\ Longer(in, out, b) /\ Len(in) + 1 = t.taken
      /\ \/ t.end = "line" /\ IsEnd(in, b) /\ t.line = s.line
         \/ t.end = "no" /\ b \in Newlines /\ ~IsEnd(in, b) /\ t.line = s.line
         \/ /\ t.end \in {"error", "block"} /\ b \in High /\ ~IsEnd(in, b)
            /\ b \notin Newlines /\ t.line = s.line
         \/ /\ b \notin Newlines /\ ~IsEnd(in, b) /\ t.line = Append(s.line, t.taken)
            /\ t.end = IF Len(s.line) + 1 = LineMax THEN "line" ELSE "no"
  BY <1>0, EndsAgree
<1>2. /\ Plain(in) => Plain(Input)
      /\ Breaks(Input) \subseteq Breaks(in)
      /\ \A x \in Breaks(Input) : LineAt(in, x) = LineAt(Input, x) /\ Rank(in, x) = Rank(Input, x)
      /\ Ends(in) = Ends(Input)
      /\ Plain(in) /\ IsBegun(Input, line) => Breaks(in) = Breaks(Input) /\ IsBegun(in, s.line)
  BY DEF Lines
<1>3. /\ s.line \in Seq(Nat) /\ Len(s.line) \in Nat /\ Len(s.line) < LineMax
      /\ LineMax \in Nat \ {0} /\ t.taken \in Nat /\ in \in Seq(Int)
      /\ Len(Append(s.line, t.taken)) = Len(s.line) + 1
  <2>1. s.line \in Seq(Nat) /\ Len(s.line) < LineMax /\ LineMax \in Nat \ {0}
    BY DEF Holds, Before
  <2>2. in \in Seq(Int) /\ Len(in) \in Nat
    BY <1>1, Extended
  <2> QED BY <1>1, <2>1, <2>2
<1> HIDE DEF in, out, b
<1>4. Plain(out) => Plain(in) /\ t.end \in {"no", "line"} /\ b \notin High
  BY <1>1, Extended
<1>5. /\ Breaks(in) \subseteq Breaks(out)
      /\ \A x \in Breaks(in) : LineAt(out, x) = LineAt(in, x) /\ Rank(out, x) = Rank(in, x)
  BY <1>1, OldLines
<1>6. /\ t.end # "line" => Ends(out) = Ends(in)
      /\ t.end = "line" =>
           /\ Len(t.line) < LineMax => Cardinality(Ends(out)) = Cardinality(Ends(in)) + 1
           /\ Len(t.line) >= LineMax => Ends(out) = Ends(in)
  <2>1. IsEnd(in, b) => Cardinality(Ends(out)) = Cardinality(Ends(in)) + 1
    <3>1. Ends(in) \subseteq 1..Len(in) /\ Len(in) \in Nat /\ IsFiniteSet(Ends(in))
      BY <1>3, PlacesFinite
    <3>2. Len(in) + 1 \notin Ends(in)
      BY <3>1
    <3> QED BY <1>1, <3>1, <3>2, EndsStep, FS_AddElement
  <2>2. ~IsEnd(in, b) => Ends(out) = Ends(in)
    BY <1>1, EndsStep
  <2>3. t.end = "line" /\ ~IsEnd(in, b) => Len(t.line) = LineMax
    BY <1>1, <1>3
  <2>4. IsEnd(in, b) => t.end = "line" /\ Len(t.line) < LineMax
    BY <1>1, <1>3
  <2> QED BY <1>3, <2>1, <2>2, <2>3, <2>4
<1>7. ASSUME Plain(out), IsBegun(Input, line)
      PROVE  /\ t.end = "no" => Breaks(out) = Breaks(Input) /\ IsBegun(out, t.line)
             /\ t.end = "line" =>
                  /\ Breaks(out) = Breaks(Input) \cup {t.taken} /\ LineAt(out, t.taken) = ToSet(t.line)
                  /\ Cardinality(Breaks(out)) = Cardinality(Breaks(Input)) + 1
                  /\ Rank(out, t.taken) = Cardinality(Breaks(out)) /\ IsBegun(out, << >>)
  <2>1. /\ Plain(in) /\ Breaks(in) = Breaks(Input) /\ IsBegun(in, s.line) /\ b \notin High
        /\ t.end \in {"no", "line"}
    BY <1>2, <1>4, <1>7
  <2>2. /\ IsEnd(in, b) =>
             /\ Breaks(out) = Breaks(in) \cup {t.taken}
             /\ LineAt(out, t.taken) = ToSet(s.line) /\ IsBegun(out, << >>)
        /\ b \in Newlines /\ ~IsEnd(in, b) =>
             Breaks(out) = Breaks(in) /\ IsBegun(out, s.line)
        /\ b \notin Newlines /\ Len(s.line) + 1 = LineMax =>
             /\ Breaks(out) = Breaks(in) \cup {t.taken}
             /\ LineAt(out, t.taken) = ToSet(Append(s.line, t.taken))
             /\ IsBegun(out, << >>)
        /\ b \notin Newlines /\ Len(s.line) + 1 # LineMax =>
             Breaks(out) = Breaks(in) /\ IsBegun(out, Append(s.line, t.taken))
    BY <1>1, <1>3, <2>1, BegunStep
  <2>3. Breaks(out) = Breaks(in) \cup {t.taken} =>
          /\ Rank(out, t.taken) = Cardinality(Breaks(out))
          /\ Cardinality(Breaks(out)) = Cardinality(Breaks(in)) + 1
    BY <1>1, NewLine
  <2>4. t.end = "no" => Breaks(out) = Breaks(in) /\ IsBegun(out, t.line)
    BY <1>1, <2>2
  <2>5. t.end = "line" =>
          /\ Breaks(out) = Breaks(in) \cup {t.taken}
          /\ LineAt(out, t.taken) = ToSet(t.line) /\ IsBegun(out, << >>)
    BY <1>1, <2>2
  <2> QED BY <2>1, <2>3, <2>4, <2>5
<1>8. Lines(line, t)
  <2>1. Plain(out) => Plain(Input) /\ t.end \in {"no", "line"}
    BY <1>2, <1>4
  <2>2. /\ Breaks(Input) \subseteq Breaks(out)
        /\ \A x \in Breaks(Input) : LineAt(out, x) = LineAt(Input, x) /\ Rank(out, x) = Rank(Input, x)
    BY <1>2, <1>5
  <2>3. /\ t.end # "line" => Ends(out) = Ends(Input)
        /\ t.end = "line" =>
             /\ Len(t.line) < LineMax => Cardinality(Ends(out)) = Cardinality(Ends(Input)) + 1
             /\ Len(t.line) >= LineMax => Ends(out) = Ends(Input)
    BY <1>2, <1>6
  <2> QED BY <1>7, <2>1, <2>2, <2>3 DEF Lines, out
<1> QED BY <1>0, <1>8

\* The whole of the loop.
LEMMA ReadingRight ==
    ASSUME NEW line, Before(line)
    PROVE  /\ Unread \in Nat
           /\ \A i \in 0..Unread :
                /\ Holds(line, Reading(line)[i]) /\ Lines(line, Reading(line)[i])
                /\ Reading(line)[i].end = "no" => Reading(line)[i].taken = taken + i
<1>0. /\ Unread \in Nat /\ taken \in 0..Len(sent) /\ Len(sent) \in Nat /\ taken + Unread = Len(sent)
      /\ ConnTypes /\ line \in Seq(Nat) /\ Len(line) \in Nat /\ Len(line) < LineMax
      /\ eatNl \in BOOLEAN
  <2>1. ConnTypes /\ line \in Seq(Nat) /\ Len(line) < LineMax /\ Len(line) \in Nat
    BY DEF Before
  <2>2. taken \in 0..Len(sent) /\ Len(sent) \in Nat /\ eatNl \in BOOLEAN
    BY <2>1 DEF ConnTypes
  <2> QED BY <2>1, <2>2 DEF Unread
<1> DEFINE r == Reading(line)
           Right(i) == /\ Holds(line, r[i]) /\ Lines(line, r[i])
                       /\ r[i].end = "no" => r[i].taken = taken + i
           T == {i \in Nat : i <= Unread => Right(i)}
<1>1. r[0] = Start(line) /\ \A i \in 1..Unread : r[i] = GetChar(r[i - 1], sent[taken + i])
  BY <1>0, ReadingIs
<1> HIDE DEF r
<1>2. Right(0)
  <2>1. /\ r[0] \in [line : Seq(Nat), eatNl : BOOLEAN, taken : taken..Len(sent),
                     end : {"no", "line", "error", "block"}]
        /\ r[0].line = line /\ r[0].eatNl = eatNl /\ r[0].taken = taken /\ r[0].end = "no"
    BY <1>0, <1>1 DEF Start
  <2>2. FirstOnes(taken) = Input
    BY DEF FirstOnes, Input
  <2>3. Holds(line, r[0])
    <3>1. (Len(line) + 1)..Len(line) = {}
      BY <1>0
    <3>2. EatsRight(Input, eatNl)
      BY DEF Before
    <3> QED BY <1>0, <2>1, <2>2, <3>1, <3>2 DEF Holds
  <2>4. Lines(line, r[0])
    BY <2>1, <2>2 DEF Lines
  <2> QED BY <1>0, <2>1, <2>3, <2>4
<1>3. ASSUME NEW i \in Nat, i + 1 <= Unread, Right(i) PROVE Right(i + 1)
  <2>1. r[i + 1] = GetChar(r[i], sent[taken + (i + 1)])
    <3>1. i + 1 \in 1..Unread /\ (i + 1) - 1 = i
      BY <1>0, <1>3
    <3> QED BY <1>1, <3>1
  <2>2. CASE r[i].end # "no"
    <3>1. r[i + 1] = r[i]
      BY <2>1, <2>2 DEF GetChar
    <3> QED BY <1>3, <2>2, <3>1
  <2>3. CASE r[i].end = "no"
    <3>1. r[i].taken = taken + i /\ r[i].taken < Len(sent) /\ taken + (i + 1) = r[i].taken + 1
      BY <1>0, <1>3, <2>3
    <3>2. r[i + 1] = GetChar(r[i], sent[r[i].taken + 1])
      BY <2>1, <3>1
    <3>3. Holds(line, r[i + 1]) /\ Lines(line, r[i + 1])
      BY <1>3, <2>3, <3>1, <3>2, HoldsStep, LinesStep
    <3>4. r[i + 1].taken = r[i].taken + 1
      BY <1>3, <2>3, <3>1, <3>2, GetCharIs, ZenonT(60)
    <3> QED BY <3>1, <3>3, <3>4
  <2> QED BY <2>2, <2>3
<1>4. Nat \subseteq T
  <2> HIDE DEF Right
  <2>1. 0 \in T
    BY <1>2
  <2>2. ASSUME NEW i \in Nat, i \in T PROVE i + 1 \in T
    <3>1. ASSUME i + 1 <= Unread PROVE Right(i + 1)
      <4>1. Right(i)
        BY <1>0, <2>2, <3>1
      <4> QED BY <1>3, <3>1, <4>1
    <3> QED BY <3>1
  <2> HIDE DEF T
  <2> QED BY <2>1, <2>2, InductionOnNat
<1>5. ASSUME NEW i \in 0..Unread PROVE Right(i)
  <2>1. i \in Nat /\ i <= Unread
    BY <1>0
  <2> HIDE DEF Right
  <2> QED BY <1>4, <2>1
<1> QED BY <1>0, <1>5 DEF r

\* What conn_gets returns.
LEMMA GetsRight ==
    ASSUME NEW line, Before(line), NEW s, s = Gets(line)
    PROVE  \E t : /\ Holds(line, t) /\ Lines(line, t)
                  /\ s.line = t.line /\ s.eatNl = t.eatNl /\ s.taken = t.taken
                  /\ t.end # "no" => s.end = t.end
                  /\ t.end = "no" => /\ s.end = NoMore /\ s.taken = Len(sent)
                                     /\ s.end \in {"block", "eof", "error"}
<1> DEFINE t == Reading(line)[Unread]
<1>1. /\ Unread \in Nat /\ Holds(line, t) /\ Lines(line, t)
      /\ t.end = "no" => t.taken = taken + Unread
  BY ReadingRight
<1>2. s = IF t.end # "no" THEN t ELSE [t EXCEPT !.end = NoMore]
  BY DEF Gets
<1>3. /\ t \in [line : Seq(Nat), eatNl : BOOLEAN, taken : taken..Len(sent),
                end : {"no", "line", "error", "block"}]
      /\ taken + Unread = Len(sent)
  <2>1. taken \in 0..Len(sent) /\ Len(sent) \in Nat
    BY DEF Before, ConnTypes
  <2> QED BY <1>1, <2>1 DEF Holds, Unread
<1>4. NoMore \in {"block", "eof", "error"}
  BY DEF NoMore, Before, ConnTypes
<1> HIDE DEF t
<1> QED BY <1>1, <1>2, <1>3, <1>4

-----------------------------------------------------------------------------
(* What each step leaves of the threads' lines and parts.                  *)

\* Sequences of lines and parts of lines, place by place.
LEMMA GivenIs ==
    ASSUME ConnTypes, NEW r \in Readers
    PROVE  /\ Len(got) \in Nat /\ DOMAIN got = 1..Len(got)
           /\ \A n \in 1..Len(got) : /\ got[n].by \in Readers /\ got[n].line \in Seq(Nat)
                                     /\ Given(r)[n] = IF got[n].by = r THEN got[n].line ELSE << >>
           /\ Given(r)[Len(got) + 1] = part[r] /\ part[r] \in Seq(Nat)
           /\ \A n \in 1..(Len(got) + 1) : /\ Given(r)[n] \in Seq(Nat)
                                           /\ DOMAIN Given(r)[n] = 1..Len(Given(r)[n])
<1>1. /\ Len(got) \in Nat /\ DOMAIN got = 1..Len(got) /\ part[r] \in Seq(Nat)
      /\ \A n \in 1..Len(got) : got[n].by \in Readers /\ got[n].line \in Seq(Nat)
  <2>1. got \in Seq([by : Readers, line : Seq(Nat)]) /\ part[r] \in Seq(Nat)
    BY DEF ConnTypes
  <2>2. ASSUME NEW n \in 1..Len(got) PROVE got[n] \in [by : Readers, line : Seq(Nat)]
    BY <2>1, ElementOfSeq
  <2>3. DOMAIN got = 1..Len(got) /\ Len(got) \in Nat
    BY <2>1, LenProperties
  <2> QED BY <2>1, <2>2, <2>3
<1>2. \A n \in 1..Len(got) : Given(r)[n] = IF got[n].by = r THEN got[n].line ELSE << >>
  BY <1>1 DEF Given
<1>3. Given(r)[Len(got) + 1] = part[r]
  BY <1>1 DEF Given
<1>4. ASSUME NEW n \in 1..(Len(got) + 1) PROVE Given(r)[n] \in Seq(Nat)
  <2>1. CASE n = Len(got) + 1
    BY <1>1, <1>3, <2>1
  <2>2. CASE n # Len(got) + 1
    <3>1. n \in 1..Len(got)
      BY <1>1, <2>2
    <3>2. << >> \in Seq(Nat)
      OBVIOUS
    <3> QED BY <1>1, <1>2, <3>1, <3>2
  <2> QED BY <2>1, <2>2
<1> QED BY <1>1, <1>2, <1>3, <1>4

\* The same, after a step.
LEMMA GivenIsNext ==
    ASSUME ConnTypes', NEW r \in Readers
    PROVE  /\ Len(got') \in Nat /\ DOMAIN got' = 1..Len(got')
           /\ \A n \in 1..Len(got') : /\ got'[n].by \in Readers /\ got'[n].line \in Seq(Nat)
                                      /\ Given(r)'[n] = IF got'[n].by = r THEN got'[n].line ELSE << >>
           /\ Given(r)'[Len(got') + 1] = part'[r] /\ part'[r] \in Seq(Nat)
           /\ \A n \in 1..(Len(got') + 1) : /\ Given(r)'[n] \in Seq(Nat)
                                            /\ DOMAIN Given(r)'[n] = 1..Len(Given(r)'[n])
<1>1. /\ Len(got') \in Nat /\ DOMAIN got' = 1..Len(got') /\ part'[r] \in Seq(Nat)
      /\ \A n \in 1..Len(got') : got'[n].by \in Readers /\ got'[n].line \in Seq(Nat)
  <2>1. got' \in Seq([by : Readers, line : Seq(Nat)]) /\ part'[r] \in Seq(Nat)
    BY DEF ConnTypes
  <2>2. ASSUME NEW n \in 1..Len(got') PROVE got'[n] \in [by : Readers, line : Seq(Nat)]
    BY <2>1, ElementOfSeq
  <2>3. DOMAIN got' = 1..Len(got') /\ Len(got') \in Nat
    BY <2>1, LenProperties
  <2> QED BY <2>1, <2>2, <2>3
<1>2. \A n \in 1..Len(got') : Given(r)'[n] = IF got'[n].by = r THEN got'[n].line ELSE << >>
  BY <1>1 DEF Given
<1>3. Given(r)'[Len(got') + 1] = part'[r]
  BY <1>1 DEF Given
<1>4. ASSUME NEW n \in 1..(Len(got') + 1) PROVE Given(r)'[n] \in Seq(Nat)
  <2>1. CASE n = Len(got') + 1
    BY <1>1, <1>3, <2>1
  <2>2. CASE n # Len(got') + 1
    <3>1. n \in 1..Len(got')
      BY <1>1, <2>2
    <3>2. << >> \in Seq(Nat)
      OBVIOUS
    <3> QED BY <1>1, <1>2, <3>1, <3>2
  <2> QED BY <2>1, <2>2
<1> QED BY <1>1, <1>2, <1>3, <1>4

\* Nobody gets anything; somebody may lose a part of a line.
NothingGiven ==
    /\ UNCHANGED <<got, taken>>
    /\ \A r \in Readers : \/ part'[r] = part[r] /\ (r \notin blocked' => r \notin blocked)
                          \/ part'[r] = << >>

LEMMA NothingGivenStep ==
    ASSUME LineMax \in Nat \ {0}, ConnTypes, ConnTypes', PartsInv, CharsOnce, NothingGiven
    PROVE  PartsInv' /\ CharsOnce'
<1>1. ASSUME NEW r \in Readers, NEW n \in 1..(Len(got) + 1)
      PROVE  /\ DOMAIN Given(r)'[n] \subseteq DOMAIN Given(r)[n]
             /\ \A i \in DOMAIN Given(r)'[n] : Given(r)'[n][i] = Given(r)[n][i]
  <2>1. CASE n = Len(got) + 1
    <3>1. Given(r)[n] = part[r] /\ Given(r)'[n] = part'[r]
      BY <2>1, GivenIs, GivenIsNext DEF NothingGiven
    <3>2. part'[r] = part[r] \/ (part'[r] = << >> /\ DOMAIN part'[r] = {})
      BY DEF NothingGiven
    <3> QED BY <3>1, <3>2
  <2>2. CASE n # Len(got) + 1
    <3>1. n \in 1..Len(got)
      BY <2>2, GivenIs
    <3>2. got' = got
      BY DEF NothingGiven
    <3>3. Given(r)'[n] = Given(r)[n]
      BY <3>1, <3>2, GivenIs, GivenIsNext
    <3> QED BY <3>3
  <2> QED BY <2>1, <2>2
<1>2. ASSUME NEW r \in Readers
      PROVE  Len(part'[r]) < LineMax /\ (r \notin blocked' => part'[r] = << >>)
  BY DEF NothingGiven, PartsInv
<1>3. got' = got /\ taken' = taken
  BY DEF NothingGiven
<1>4. PartsInv'
  BY <1>1, <1>2, <1>3 DEF PartsInv
<1>5. CharsOnce'
  BY <1>1, <1>3 DEF CharsOnce
<1> QED BY <1>4, <1>5

-----------------------------------------------------------------------------
(* A thread reads.                                                         *)

\* What it does: t is how far the loop came, e how the call ended.
Reads(r, t, e) ==
    /\ Holds(part[r], t) /\ Lines(part[r], t)
    /\ t.end # "no" => e = t.end
    /\ t.end = "no" => e = NoMore /\ t.taken = Len(sent) /\ e \in {"block", "eof", "error"}
    /\ taken' = t.taken /\ eatNl' = t.eatNl /\ sent' = sent /\ convention' = convention
    /\ isFile /\ isFile' = (e # "eof")
    /\ fate' = IF e = "error" /\ fate = "reset" THEN "shut" ELSE fate
    /\ blocked' = IF e = "block" THEN blocked \cup {r} ELSE blocked \ {r}
    /\ part' = [part EXCEPT ![r] = IF e = "block" THEN t.line ELSE << >>]
    /\ got' = IF e = "line" THEN Append(got, [by |-> r, line |-> t.line]) ELSE got
    /\ crossed' = (crossed \/ \E p \in Readers \ {r} : part[p] # << >>)

LEMMA ReadIs ==
    ASSUME ConnInv, LineMax \in Nat \ {0}, NEW r \in Readers, ResumeOpen(r, part[r])
    PROVE  \E t, e : Reads(r, t, e)
<1>1. Before(part[r])
  <2>1. part[r] \in Seq(Nat) /\ Len(part[r]) < LineMax
    BY DEF ConnInv, ConnTypes, PartsInv
  <2> QED BY <2>1 DEF Before, ConnInv
<1> DEFINE s == Gets(part[r])
<1>2. PICK t : /\ Holds(part[r], t) /\ Lines(part[r], t)
               /\ s.line = t.line /\ s.eatNl = t.eatNl /\ s.taken = t.taken
               /\ t.end # "no" => s.end = t.end
               /\ t.end = "no" => /\ s.end = NoMore /\ s.taken = Len(sent)
                                  /\ s.end \in {"block", "eof", "error"}
  BY <1>1, GetsRight
<1>3. /\ taken' = s.taken /\ eatNl' = s.eatNl
      /\ isFile /\ isFile' = (s.end # "eof")
      /\ fate' = IF s.end = "error" /\ fate = "reset" THEN "shut" ELSE fate
      /\ blocked' = IF s.end = "block" THEN blocked \cup {r} ELSE blocked \ {r}
      /\ part' = [part EXCEPT ![r] = IF s.end = "block" THEN s.line ELSE << >>]
      /\ got' = IF s.end = "line" THEN Append(got, [by |-> r, line |-> s.line]) ELSE got
      /\ crossed' = (crossed \/ \E p \in Readers \ {r} : part[p] # << >>)
      /\ sent' = sent /\ convention' = convention
  BY DEF ResumeOpen
<1> HIDE DEF s
<1>4. Reads(r, t, s.end)
  BY <1>2, <1>3 DEF Reads
<1> QED BY <1>4

LEMMA ReadTypes ==
    ASSUME ConnInv, NEW r \in Readers, NEW t, NEW e, Reads(r, t, e)
    PROVE  ConnTypes' /\ ConventionInv' /\ EatsRight(Input, eatNl)'
<1>1. /\ t.line \in Seq(Nat) /\ t.eatNl \in BOOLEAN /\ t.taken \in taken..Len(sent)
      /\ EatsRight(FirstOnes(t.taken), t.eatNl)
  BY DEF Reads, Holds
<1>2. ConnTypes /\ ConventionInv
  BY DEF ConnInv
<1>3. taken' \in 0..Len(sent') /\ sent' = sent
  BY <1>1, <1>2 DEF Reads, ConnTypes
<1>4. got' \in Seq([by : Readers, line : Seq(Nat)])
  <2>1. got \in Seq([by : Readers, line : Seq(Nat)])
    BY <1>2 DEF ConnTypes
  <2> DEFINE x == [by |-> r, line |-> t.line]
             X == [by : Readers, line : Seq(Nat)]
  <2>2. x \in X
    BY <1>1
  <2>3. got' = got \/ got' = Append(got, x)
    BY DEF Reads
  <2> HIDE DEF x, X
  <2>4. got \in Seq(X)
    BY <2>1 DEF X
  <2>5. got' \in Seq(X)
    BY <2>2, <2>3, <2>4
  <2> QED BY <2>5 DEF X
<1>5. part' \in [Readers -> Seq(Nat)]
  <2>1. part \in [Readers -> Seq(Nat)]
    BY <1>2 DEF ConnTypes
  <2>2. << >> \in Seq(Nat)
    OBVIOUS
  <2>3. part' = [part EXCEPT ![r] = IF e = "block" THEN t.line ELSE << >>]
    BY DEF Reads
  <2> QED BY <1>1, <2>1, <2>2, <2>3
<1>6. /\ convention' \in {"unix", "mac", "dos"} /\ fate' \in {"open", "shut", "reset"}
      /\ isFile' \in BOOLEAN /\ eatNl' \in BOOLEAN /\ crossed' \in BOOLEAN
      /\ blocked' \subseteq Readers
  BY <1>1, <1>2 DEF Reads, ConnTypes
<1>7. ConnTypes'
  BY <1>2, <1>3, <1>4, <1>5, <1>6 DEF ConnTypes
<1>8. convention' = convention
  BY DEF Reads
<1>9. ConventionInv'
  BY <1>2, <1>3, <1>8 DEF ConventionInv, Alone
<1>10. EatsRight(Input, eatNl)'
  <2>1. Input' = FirstOnes(t.taken) /\ eatNl' = t.eatNl
    BY <1>3 DEF Input, FirstOnes, Reads
  <2> QED BY <1>1, <1>8, <2>1 DEF EatsRight, Alone
<1> QED BY <1>7, <1>9, <1>10

\* Where what a thread has after the step comes from: the place before the step, or
\* the characters it has just read.
Origin(n) == IF n <= Len(got) THEN n ELSE Len(got) + 1

LEMMA ReadGiven ==
    ASSUME ConnInv, NEW r \in Readers, NEW t, NEW e, Reads(r, t, e),
           NEW p \in Readers, NEW n \in 1..(Len(got') + 1), NEW i \in DOMAIN Given(p)'[n]
    PROVE  \/ /\ i \in DOMAIN Given(p)[Origin(n)]
              /\ Given(p)'[n][i] = Given(p)[Origin(n)][i]
           \/ /\ p = r /\ n = Len(got) + 1 /\ i \in (Len(part[r]) + 1)..Len(t.line)
              /\ Given(p)'[n][i] = t.line[i]
<1>0. ConnTypes /\ ConnTypes' /\ Len(got) \in Nat
  BY ReadTypes, GivenIs DEF ConnInv
<1>1. /\ Len(got') \in {Len(got), Len(got) + 1} /\ \A m \in 1..Len(got) : got'[m] = got[m]
      /\ e = "line" => /\ Len(got') = Len(got) + 1
                       /\ got'[Len(got) + 1] = [by |-> r, line |-> t.line]
      /\ e # "line" => Len(got') = Len(got)
  <2>1. got' = IF e = "line" THEN Append(got, [by |-> r, line |-> t.line]) ELSE got
    BY DEF Reads
  <2>2. got \in Seq([by : Readers, line : Seq(Nat)])
    BY <1>0 DEF ConnTypes
  <2>3. [by |-> r, line |-> t.line] \in [by : Readers, line : Seq(Nat)]
    BY DEF Reads, Holds
  <2> QED BY <2>1, <2>2, <2>3
<1>2. /\ Len(part[r]) <= Len(t.line) /\ \A j \in 1..Len(part[r]) : t.line[j] = part[r][j]
      /\ Len(t.line) \in Nat /\ DOMAIN t.line = 1..Len(t.line)
      /\ Len(part[r]) \in Nat /\ DOMAIN part[r] = 1..Len(part[r])
  <2>1. t.line \in Seq(Nat) /\ part[r] \in Seq(Nat)
    BY <1>0 DEF Reads, Holds, ConnTypes
  <2> QED BY <2>1 DEF Reads, Holds
<1>3. /\ part'[p] = IF p # r THEN part[p] ELSE IF e = "block" THEN t.line ELSE << >>
      /\ DOMAIN << >> = {}
  BY <1>0 DEF Reads, ConnTypes
<1>4. CASE n <= Len(got)
  <2>1. n \in 1..Len(got) /\ n \in 1..Len(got') /\ Origin(n) = n /\ got'[n] = got[n]
    BY <1>0, <1>1, <1>4 DEF Origin
  <2>2. Given(p)'[n] = Given(p)[n]
    <3>1. Given(p)[n] = IF got[n].by = p THEN got[n].line ELSE << >>
      BY <1>0, <2>1, GivenIs
    <3>2. Given(p)'[n] = IF got'[n].by = p THEN got'[n].line ELSE << >>
      BY <1>0, <2>1, GivenIsNext
    <3> QED BY <2>1, <3>1, <3>2
  <2> QED BY <2>1, <2>2
<1>5. CASE n = Len(got) + 1 /\ e = "line"
  <2>1. /\ n \in 1..Len(got') /\ Origin(n) = Len(got) + 1
        /\ got'[n].by = r /\ got'[n].line = t.line
    BY <1>0, <1>1, <1>5 DEF Origin
  <2>2. Given(p)'[n] = IF p = r THEN t.line ELSE << >>
    BY <1>0, <2>1, GivenIsNext
  <2>3. p = r /\ Given(p)[Origin(n)] = part[r]
    BY <1>0, <1>3, <2>1, <2>2, GivenIs
  <2> QED BY <1>2, <1>5, <2>2, <2>3, SMTT(60)
<1>6. CASE n = Len(got') + 1
  <2>1. Given(p)'[n] = part'[p] /\ Origin(n) = Len(got) + 1
    BY <1>0, <1>1, <1>6, GivenIsNext DEF Origin
  <2>2. Given(p)[Origin(n)] = part[p]
    BY <1>0, <2>1, GivenIs
  <2>3. CASE p # r
    BY <1>3, <2>1, <2>2, <2>3
  <2>4. CASE p = r
    <3>1. e = "block"
      BY <1>3, <2>1, <2>4
    <3>2. n = Len(got) + 1
      BY <1>1, <1>6, <3>1
    <3> QED BY <1>2, <1>3, <2>1, <2>2, <2>4, <3>1, <3>2, SMTT(60)
  <2> QED BY <2>3, <2>4
<1> QED BY <1>0, <1>1, <1>4, <1>5, <1>6

\* Places of which neither is empty keep their order.
LEMMA ReadOrder ==
    ASSUME ConnInv, NEW r \in Readers, NEW t, NEW e, Reads(r, t, e),
           NEW p \in Readers,
           NEW m \in 1..(Len(got') + 1), NEW n \in 1..(Len(got') + 1), m < n,
           DOMAIN Given(p)'[m] # {}, DOMAIN Given(p)'[n] # {}
    PROVE  /\ Origin(m) < Origin(n) /\ ~(p = r /\ m = Len(got) + 1)
           /\ Origin(m) \in 1..(Len(got) + 1) /\ Origin(n) \in 1..(Len(got) + 1)
<1>0. ConnTypes /\ ConnTypes' /\ Len(got) \in Nat /\ m \in Int /\ n \in Int
  BY ReadTypes, GivenIs DEF ConnInv
<1>1. /\ e = "line" => /\ Len(got') = Len(got) + 1
                       /\ got'[Len(got) + 1] = [by |-> r, line |-> t.line]
      /\ e # "line" => Len(got') = Len(got)
  <2>1. got' = IF e = "line" THEN Append(got, [by |-> r, line |-> t.line]) ELSE got
    BY DEF Reads
  <2>2. got \in Seq([by : Readers, line : Seq(Nat)])
    BY <1>0 DEF ConnTypes
  <2> QED BY <2>1, <2>2
<1>2. CASE m <= Len(got)
  BY <1>0, <1>2, <1>1 DEF Origin
<1>3. CASE m > Len(got)
  <2>1. m = Len(got) + 1 /\ n = Len(got') + 1 /\ e = "line" /\ m \in 1..Len(got')
    BY <1>0, <1>1, <1>3
  <2>2. p = r
    <3>1. Given(p)'[m] = IF got'[m].by = p THEN got'[m].line ELSE << >>
      BY <1>0, <2>1, GivenIsNext
    <3>2. got'[m].by = r
      BY <1>1, <2>1
    <3>3. DOMAIN << >> = {}
      OBVIOUS
    <3> QED BY <3>1, <3>2, <3>3
  <2>3. DOMAIN Given(p)'[n] = {}
    <3>1. Given(p)'[n] = part'[p]
      BY <1>0, <2>1, GivenIsNext
    <3>2. part'[r] = << >>
      BY <1>0, <2>1 DEF Reads, ConnTypes
    <3>3. DOMAIN << >> = {}
      OBVIOUS
    <3> QED BY <2>2, <3>1, <3>2, <3>3
  <2> QED BY <2>3
<1> QED BY <1>0, <1>2, <1>3

LEMMA ReadParts ==
    ASSUME ConnInv, LineMax \in Nat \ {0}, NEW r \in Readers, NEW t, NEW e, Reads(r, t, e)
    PROVE  PartsInv' /\ CharsOnce'
<1> DEFINE new == (taken + 1)..t.taken
<1>0. /\ ConnTypes /\ ConnTypes' /\ PartsInv /\ CharsOnce /\ taken' = t.taken
      /\ taken \in Nat /\ t.taken \in Nat /\ taken <= t.taken /\ Len(got) \in Nat
  <2>1. ConnTypes /\ ConnTypes' /\ PartsInv /\ CharsOnce
    BY ReadTypes DEF ConnInv
  <2>2. taken \in Nat /\ t.taken \in taken..Len(sent) /\ Len(sent) \in Nat /\ taken' = t.taken
    BY <2>1 DEF Reads, Holds, ConnTypes
  <2> QED BY <2>1, <2>2, GivenIs
<1>1. \A i \in (Len(part[r]) + 1)..Len(t.line) :
        /\ t.line[i] \in new
        /\ \A j \in (Len(part[r]) + 1)..Len(t.line) : i < j => t.line[i] < t.line[j]
  BY DEF Reads, Holds
<1>2. \A n \in 1..(Len(got') + 1) : Origin(n) \in 1..(Len(got) + 1)
  BY <1>0 DEF Origin
<1>3. \A p \in Readers, n \in 1..(Len(got) + 1) :
        \A i \in DOMAIN Given(p)[n] : Given(p)[n][i] \in 1..taken
  BY <1>0 DEF PartsInv
<1>4. ASSUME NEW p \in Readers, NEW n \in 1..(Len(got') + 1), NEW i \in DOMAIN Given(p)'[n]
      PROVE  \/ /\ i \in DOMAIN Given(p)[Origin(n)]
                /\ Given(p)'[n][i] = Given(p)[Origin(n)][i] /\ Given(p)'[n][i] \in 1..taken
             \/ /\ p = r /\ n = Len(got) + 1 /\ i \in (Len(part[r]) + 1)..Len(t.line)
                /\ Given(p)'[n][i] = t.line[i] /\ Given(p)'[n][i] \in new
  BY <1>1, <1>2, <1>3, ReadGiven
<1> HIDE DEF new
<1>5. /\ \A x \in 1..taken, y \in new : x < y /\ x # y
      /\ (\A x \in 1..taken : x \in 1..t.taken) /\ \A y \in new : y \in 1..t.taken
  BY <1>0 DEF new
<1>6. PartsInv'
  <2>1. ASSUME NEW p \in Readers
        PROVE  Len(part'[p]) < LineMax /\ (p \notin blocked' => part'[p] = << >>)
    <3>1. part'[p] = IF p # r THEN part[p] ELSE IF e = "block" THEN t.line ELSE << >>
      BY <1>0 DEF Reads, ConnTypes
    <3>2. e = "block" => Len(t.line) < LineMax
      BY DEF Reads, Holds
    <3>3. Len(<< >>) < LineMax
      OBVIOUS
    <3>4. Len(part[p]) < LineMax /\ (p \notin blocked => part[p] = << >>)
      BY <1>0 DEF PartsInv
    <3>5. (p # r /\ p \notin blocked' => p \notin blocked) /\ (e = "block" => r \in blocked')
      BY DEF Reads
    <3> QED BY <3>1, <3>2, <3>3, <3>4, <3>5
  <2>2. ASSUME NEW p \in Readers, NEW n \in 1..(Len(got') + 1), NEW i \in DOMAIN Given(p)'[n]
        PROVE  Given(p)'[n][i] \in 1..taken'
    BY <1>0, <1>4, <1>5
  <2> QED BY <2>1, <2>2 DEF PartsInv
<1>7. ASSUME NEW p \in Readers, NEW m \in 1..(Len(got') + 1), NEW n \in 1..(Len(got') + 1),
             NEW i \in DOMAIN Given(p)'[m], NEW j \in DOMAIN Given(p)'[n],
             m < n \/ (m = n /\ i < j)
      PROVE  Given(p)'[m][i] < Given(p)'[n][j]
  <2>1. m < n => Origin(m) < Origin(n) /\ ~(p = r /\ m = Len(got) + 1)
    BY <1>0, ReadOrder
  <2>2. CASE /\ i \in DOMAIN Given(p)[Origin(m)]
             /\ Given(p)'[m][i] = Given(p)[Origin(m)][i] /\ Given(p)'[m][i] \in 1..taken
    <3>1. CASE /\ j \in DOMAIN Given(p)[Origin(n)]
               /\ Given(p)'[n][j] = Given(p)[Origin(n)][j]
      <4>1. Origin(m) < Origin(n) \/ (Origin(m) = Origin(n) /\ i < j)
        BY <1>7, <2>1
      <4>2. Given(p)[Origin(m)][i] < Given(p)[Origin(n)][j]
        BY <1>0, <1>2, <2>2, <3>1, <4>1 DEF CharsOnce
      <4> QED BY <2>2, <3>1, <4>2
    <3>2. CASE Given(p)'[n][j] \in new
      BY <1>5, <2>2, <3>2
    <3> QED BY <1>4, <3>1, <3>2
  <2>3. CASE /\ p = r /\ m = Len(got) + 1 /\ i \in (Len(part[r]) + 1)..Len(t.line)
             /\ Given(p)'[m][i] = t.line[i]
    <3>1. m = n /\ i < j
      BY <1>7, <2>1, <2>3
    <3>2. Given(p)[Origin(n)] = part[r] /\ DOMAIN part[r] = 1..Len(part[r]) /\ Len(part[r]) \in Nat
      BY <1>0, <2>3, <3>1, GivenIs DEF Origin
    <3>3. j \notin DOMAIN Given(p)[Origin(n)]
      BY <2>3, <3>1, <3>2
    <3>4. j \in (Len(part[r]) + 1)..Len(t.line) /\ Given(p)'[n][j] = t.line[j]
      BY <1>4, <3>3
    <3> QED BY <1>1, <2>3, <3>1, <3>4
  <2> QED BY <1>4, <2>2, <2>3
<1>8. ASSUME NEW p \in Readers, NEW q \in Readers, p # q,
             NEW m \in 1..(Len(got') + 1), NEW n \in 1..(Len(got') + 1),
             NEW i \in DOMAIN Given(p)'[m], NEW j \in DOMAIN Given(q)'[n]
      PROVE  Given(p)'[m][i] # Given(q)'[n][j]
  <2>1. CASE /\ i \in DOMAIN Given(p)[Origin(m)] /\ j \in DOMAIN Given(q)[Origin(n)]
             /\ Given(p)'[m][i] = Given(p)[Origin(m)][i]
             /\ Given(q)'[n][j] = Given(q)[Origin(n)][j]
    BY <1>0, <1>2, <1>8, <2>1 DEF CharsOnce
  <2>2. CASE Given(p)'[m][i] \in 1..taken /\ Given(q)'[n][j] \in new
    BY <1>5, <2>2
  <2>3. CASE Given(p)'[m][i] \in new /\ Given(q)'[n][j] \in 1..taken
    BY <1>5, <2>3
  <2> QED BY <1>4, <1>8, <2>1, <2>2, <2>3
<1>9. CharsOnce'
  BY <1>7, <1>8 DEF CharsOnce
<1> QED BY <1>6, <1>9

\* The rank of a line is the number of one of the lines.
LEMMA RankRange ==
    ASSUME NEW in \in Seq(Int), NEW b \in Breaks(in)
    PROVE  Rank(in, b) \in 1..Cardinality(Breaks(in)) /\ Cardinality(Breaks(in)) \in Nat
<1> DEFINE upto == {c \in Breaks(in) : c <= b}
<1>1. Breaks(in) \subseteq 1..Len(in) /\ Len(in) \in Nat
  BY PlacesFinite
<1>2. IsFiniteSet(Breaks(in)) /\ Cardinality(Breaks(in)) \in Nat
  BY <1>1, PlacesFinite
<1>3. upto \in SUBSET Breaks(in) /\ b \in upto
  BY <1>1
<1> HIDE DEF upto
<1>4. IsFiniteSet(upto) /\ Cardinality(upto) <= Cardinality(Breaks(in))
  BY <1>2, <1>3, FS_Subset
<1>5. Cardinality(upto) \in Nat /\ Cardinality(upto) # 0
  BY <1>3, <1>4, FS_CardinalityType, FS_EmptySet
<1> QED BY <1>2, <1>4, <1>5 DEF Rank, upto

Short(s) == {i \in DOMAIN s : Len(s[i].line) < LineMax}

\* One more line that is not full is one more of them.
LEMMA ShortLines ==
    ASSUME ConnTypes, LineMax \in Nat, NEW x \in [by : Readers, line : Seq(Nat)],
           NEW longer, longer = Append(got, x)
    PROVE  /\ Cardinality(Short(got)) \in Nat
           /\ Len(x.line) < LineMax => Cardinality(Short(longer)) = Cardinality(Short(got)) + 1
           /\ Len(x.line) >= LineMax => Cardinality(Short(longer)) = Cardinality(Short(got))
<1> DEFINE k == Len(got) + 1
<1>1. /\ Len(got) \in Nat /\ DOMAIN got = 1..Len(got) /\ DOMAIN longer = 1..k
      /\ longer[k] = x /\ \A i \in 1..Len(got) : longer[i] = got[i]
  <2>1. got \in Seq([by : Readers, line : Seq(Nat)])
    BY DEF ConnTypes
  <2> DEFINE X == [by : Readers, line : Seq(Nat)]
  <2> HIDE DEF X
  <2>2. got \in Seq(X) /\ x \in X
    BY <2>1 DEF X
  <2> QED BY <2>2
<1>2. Len(x.line) \in Nat
  OBVIOUS
<1>3. Short(got) \subseteq 1..Len(got) /\ k \notin 1..Len(got)
  BY <1>1 DEF Short
<1>4. IsFiniteSet(Short(got)) /\ Cardinality(Short(got)) \in Nat
  <2>1. IsFiniteSet(1..Len(got))
    BY <1>1, FS_Interval
  <2>2. IsFiniteSet(Short(got))
    BY <1>3, <2>1, FS_Subset
  <2> QED BY <2>2, FS_CardinalityType
<1>5. \A i \in 1..Len(got) : i \in Short(longer) <=> i \in Short(got)
  BY <1>1 DEF Short
<1>6. k \in Short(longer) <=> Len(x.line) < LineMax
  BY <1>1 DEF Short
<1>7. Short(longer) \subseteq 1..k
  BY <1>1 DEF Short
<1>8. ASSUME Len(x.line) < LineMax PROVE Cardinality(Short(longer)) = Cardinality(Short(got)) + 1
  <2>1. Short(longer) = Short(got) \cup {k}
    BY <1>1, <1>3, <1>5, <1>6, <1>7, <1>8
  <2>2. k \notin Short(got)
    BY <1>3
  <2> QED BY <1>4, <2>1, <2>2, FS_AddElement
<1>9. ASSUME Len(x.line) >= LineMax PROVE Short(longer) = Short(got)
  <2>1. k \notin Short(longer)
    BY <1>2, <1>6, <1>9
  <2>2. Short(longer) \subseteq 1..Len(got)
    BY <1>1, <1>7, <2>1
  <2>3. \A i : i \in Short(longer) <=> i \in Short(got)
    BY <1>3, <1>5, <2>2
  <2> QED BY <2>3
<1> QED BY <1>4, <1>8, <1>9

LEMMA ReadLines ==
    ASSUME ConnInv, LineMax \in Nat \ {0}, NEW r \in Readers, NEW t, NEW e, Reads(r, t, e)
    PROVE  LinesInOrder' /\ BegunInv'
<1> DEFINE in == FirstOnes(t.taken)
<1>0. /\ ConnTypes /\ ConnTypes' /\ BegunInv /\ LinesInOrder
      /\ t.line \in Seq(Nat) /\ t.taken \in taken..Len(sent)
      /\ taken \in 0..Len(sent) /\ Len(sent) \in Nat
      /\ t.end \in {"no", "line", "error", "block"}
      /\ Len(got) \in Nat /\ DOMAIN got = 1..Len(got)
  <2>1. ConnTypes /\ ConnTypes' /\ BegunInv /\ LinesInOrder
    BY ReadTypes DEF ConnInv
  <2>2. /\ t.line \in Seq(Nat) /\ t.taken \in taken..Len(sent)
        /\ t.end \in {"no", "line", "error", "block"}
    BY DEF Reads, Holds
  <2> QED BY <2>1, <2>2, GivenIs, SMTT(30) DEF ConnTypes
<1>1. Input' = in /\ in \in Seq(Int)
  <2>1. t.taken \in 0..Len(sent)
    BY <1>0
  <2>2. in \in Seq(Int)
    BY <1>0, <2>1, FirstOnesStep
  <2>3. Input' = in
    BY DEF Reads, Input, FirstOnes
  <2> QED BY <2>2, <2>3
<1>2. /\ Plain(in) => Plain(Input) /\ t.end \in {"no", "line"}
      /\ Breaks(Input) \subseteq Breaks(in)
      /\ \A x \in Breaks(Input) : LineAt(in, x) = LineAt(Input, x) /\ Rank(in, x) = Rank(Input, x)
      /\ t.end # "line" => Ends(in) = Ends(Input)
      /\ t.end = "line" =>
           /\ Len(t.line) < LineMax => Cardinality(Ends(in)) = Cardinality(Ends(Input)) + 1
           /\ Len(t.line) >= LineMax => Ends(in) = Ends(Input)
      /\ Plain(in) /\ IsBegun(Input, part[r]) =>
           /\ t.end = "no" => Breaks(in) = Breaks(Input) /\ IsBegun(in, t.line)
           /\ t.end = "line" =>
                /\ Breaks(in) = Breaks(Input) \cup {t.taken} /\ LineAt(in, t.taken) = ToSet(t.line)
                /\ Cardinality(Breaks(in)) = Cardinality(Breaks(Input)) + 1
                /\ Rank(in, t.taken) = Cardinality(Breaks(in)) /\ IsBegun(in, << >>)
  BY DEF Reads, Lines
<1>3. /\ t.end = "line" <=> e = "line"
      /\ t.end = "no" => t.taken = Len(sent) /\ e = NoMore /\ e \in {"block", "eof", "error"}
      /\ t.end # "no" => t.taken > taken
      /\ got' = IF e = "line" THEN Append(got, [by |-> r, line |-> t.line]) ELSE got
      /\ taken' = t.taken /\ sent' = sent
  BY DEF Reads, Holds
<1>4. e = "line" =>
        /\ Len(got') = Len(got) + 1 /\ got'[Len(got) + 1].line = t.line
        /\ \A i \in 1..Len(got) : got'[i] = got[i]
  <2> DEFINE X == [by : Readers, line : Seq(Nat)]
             x == [by |-> r, line |-> t.line]
  <2>1. x \in X /\ x.line = t.line /\ got \in Seq(X)
    BY <1>0 DEF ConnTypes
  <2>2. e = "line" => got' = Append(got, x)
    BY <1>3
  <2> HIDE DEF X, x
  <2> QED BY <2>1, <2>2
<1> HIDE DEF in
<1>5. ASSUME Plain(in) PROVE Cardinality(Short(got')) = Cardinality(Ends(in))
  <2>1. Cardinality(Short(got)) = Cardinality(Ends(Input)) /\ t.end \in {"no", "line"}
    BY <1>0, <1>2, <1>5 DEF LinesInOrder, Short
  <2>2. CASE t.end = "no"
    BY <1>2, <1>3, <2>1, <2>2
  <2>3. CASE t.end = "line"
    <3> DEFINE x == [by |-> r, line |-> t.line]
    <3>1. x \in [by : Readers, line : Seq(Nat)] /\ x.line = t.line /\ got' = Append(got, x)
      BY <1>0, <1>3, <2>3
    <3>2. Len(t.line) \in Nat
      BY <1>0
    <3> HIDE DEF x
    <3>3. /\ Len(t.line) < LineMax => Cardinality(Short(got')) = Cardinality(Short(got)) + 1
          /\ Len(t.line) >= LineMax => Cardinality(Short(got')) = Cardinality(Short(got))
      BY <1>0, <3>1, ShortLines
    <3> QED BY <1>2, <2>1, <2>3, <3>2, <3>3
  <2> QED BY <2>1, <2>2, <2>3
<1>6. crossed' = (crossed \/ \E p \in Readers \ {r} : part[p] # << >>)
  BY DEF Reads
<1>7. part' = [part EXCEPT ![r] = IF e = "block" THEN t.line ELSE << >>]
      /\ part \in [Readers -> Seq(Nat)]
  BY <1>0 DEF Reads, ConnTypes
<1>8. isFile /\ isFile' = (e # "eof") /\ fate' = IF e = "error" /\ fate = "reset" THEN "shut" ELSE fate
  BY DEF Reads
<1>9. ASSUME Plain(in), ~crossed'
      PROVE  /\ Len(got') = Cardinality(Breaks(in))
             /\ \A b \in Breaks(in) : ToSet(got'[Rank(in, b)].line) = LineAt(in, b)
             /\ \A p, q \in Readers : p # q /\ part'[p] # << >> => part'[q] = << >>
             /\ MoreToCome' => \A p \in Readers :
                  (\A q \in Readers \ {p} : part'[q] = << >>) => IsBegun(in, part'[p])
  <2>1. /\ Plain(Input) /\ ~crossed /\ \A p \in Readers \ {r} : part[p] = << >>
        /\ t.end \in {"no", "line"}
    BY <1>2, <1>6, <1>9
  <2>2. /\ Len(got) = Cardinality(Breaks(Input))
        /\ \A b \in Breaks(Input) : ToSet(got[Rank(Input, b)].line) = LineAt(Input, b)
    BY <1>0, <2>1 DEF LinesInOrder
  <2>3. MoreToCome => IsBegun(Input, part[r])
    BY <1>0, <2>1 DEF BegunInv
  <2>4. \A p \in Readers \ {r} : part'[p] = << >>
    BY <1>7, <2>1
  <2>5. part'[r] = IF e = "block" THEN t.line ELSE << >>
    BY <1>7
  <2>6. ~MoreToCome => t.end = "no" /\ in = Input
    <3>1. ~MoreToCome => t.taken = taken
      BY <1>0, <1>8 DEF MoreToCome
    <3>2. t.taken = taken => t.end = "no" /\ in = Input
      BY <1>0, <1>3 DEF in, Input, FirstOnes
    <3> QED BY <3>1, <3>2
  <2>7. /\ t.end = "no" => Breaks(in) = Breaks(Input)
        /\ t.end = "no" /\ MoreToCome => IsBegun(in, t.line)
        /\ t.end = "line" =>
                /\ Breaks(in) = Breaks(Input) \cup {t.taken} /\ LineAt(in, t.taken) = ToSet(t.line)
                /\ Cardinality(Breaks(in)) = Cardinality(Breaks(Input)) + 1
                /\ Rank(in, t.taken) = Cardinality(Breaks(in)) /\ IsBegun(in, << >>)
    BY <1>2, <1>9, <2>3, <2>6
  <2>8. Len(got') = Cardinality(Breaks(in))
    BY <1>3, <1>4, <2>1, <2>2, <2>7
  <2>9. ASSUME NEW b \in Breaks(in) PROVE ToSet(got'[Rank(in, b)].line) = LineAt(in, b)
    <3>1. CASE b \in Breaks(Input)
      <4>1. Rank(in, b) = Rank(Input, b) /\ LineAt(in, b) = LineAt(Input, b)
        BY <1>2, <3>1
      <4>2. Rank(Input, b) \in 1..Len(got)
        <5>1. Input \in Seq(Int)
          <6>1. taken \in 0..Len(sent) /\ Input = FirstOnes(taken)
            BY <1>0 DEF Input, FirstOnes
          <6> QED BY <1>0, <6>1, FirstOnesStep
        <5> QED BY <2>2, <3>1, <5>1, RankRange
      <4>3. got'[Rank(Input, b)] = got[Rank(Input, b)]
        BY <1>3, <1>4, <4>2
      <4> QED BY <2>2, <3>1, <4>1, <4>3
    <3>2. CASE b \notin Breaks(Input)
      <4>1. t.end = "line" /\ b = t.taken
        BY <2>1, <2>7, <3>2
      <4>2. Rank(in, b) = Len(got) + 1 /\ LineAt(in, b) = ToSet(t.line)
        BY <2>2, <2>7, <4>1
      <4> QED BY <1>3, <1>4, <4>1, <4>2
    <3> QED BY <3>1, <3>2
  <2>10. \A p, q \in Readers : p # q /\ part'[p] # << >> => part'[q] = << >>
    BY <2>4
  <2>11. ASSUME MoreToCome' PROVE IsBegun(in, part'[r])
    <3>1. CASE t.end = "line"
      BY <1>3, <2>5, <2>7, <3>1
    <3>2. CASE t.end = "no"
      <4>1. t.taken = Len(sent) /\ e = NoMore /\ e \in {"block", "eof", "error"}
        BY <1>3, <3>2
      <4>2. e = "block" /\ fate = "open"
        <5>1. fate' = "open"
          BY <1>0, <1>3, <2>11, <4>1 DEF MoreToCome
        <5>2. fate = "open"
          BY <1>8, <5>1
        <5> QED BY <4>1, <5>2 DEF NoMore
      <4>3. MoreToCome
        BY <1>8, <4>2 DEF MoreToCome
      <4> QED BY <2>5, <2>7, <3>2, <4>2, <4>3
    <3> QED BY <2>1, <3>1, <3>2
  <2>12. ASSUME MoreToCome', NEW p \in Readers, \A q \in Readers \ {p} : part'[q] = << >>
         PROVE  IsBegun(in, part'[p])
    <3>1. part'[p] = part'[r]
      BY <2>4, <2>12
    <3> QED BY <2>11, <2>12, <3>1
  <2> QED BY <2>8, <2>9, <2>10, <2>12
<1>10. LinesInOrder'
  BY <1>1, <1>5, <1>9 DEF LinesInOrder, Short
<1>11. BegunInv'
  BY <1>1, <1>9 DEF BegunInv
<1> QED BY <1>10, <1>11

-----------------------------------------------------------------------------
(* The other steps.                                                        *)

\* Nothing is read.
LEMMA NothingRead ==
    ASSUME LineMax \in Nat \ {0}, ConnInv, ConnTypes', ConventionInv', NothingGiven,
           Input' = Input, UNCHANGED <<convention, eatNl>>, ~crossed' => ~crossed,
           MoreToCome' /\ ~crossed' => MoreToCome /\ part' = part
    PROVE  ConnInv'
<1>0. ConnTypes /\ PartsInv /\ CharsOnce /\ BegunInv /\ LinesInOrder /\ EatsRight(Input, eatNl)
  BY DEF ConnInv
<1>1. got' = got /\ \A r \in Readers : part'[r] = part[r] \/ part'[r] = << >>
  BY DEF NothingGiven
<1>2. PartsInv' /\ CharsOnce'
  BY <1>0, NothingGivenStep
<1>3. EatsRight(Input, eatNl)'
  BY <1>0 DEF EatsRight, Alone
<1>4. LinesInOrder'
  BY <1>0, <1>1 DEF LinesInOrder
<1>5. BegunInv'
  <2>1. ASSUME Plain(Input), ~crossed'
        PROVE  \A r, p \in Readers : r # p /\ part'[r] # << >> => part'[p] = << >>
    BY <1>0, <1>1, <2>1 DEF BegunInv
  <2>2. ASSUME Plain(Input), ~crossed', MoreToCome'
        PROVE  \A r \in Readers :
                 (\A p \in Readers \ {r} : part'[p] = << >>) => IsBegun(Input, part'[r])
    <3>1. part' = part /\ MoreToCome /\ ~crossed
      BY <2>2
    <3> QED BY <1>0, <2>2, <3>1 DEF BegunInv
  <2> QED BY <2>1, <2>2 DEF BegunInv
<1> QED BY <1>2, <1>3, <1>4, <1>5 DEF ConnInv

LEMMA ConnInitial == LineMax \in Nat \ {0} /\ ConnInit => ConnInv
<1> SUFFICES ASSUME LineMax \in Nat \ {0}, ConnInit PROVE ConnInv
  OBVIOUS
<1>1. /\ sent = << >> /\ taken = 0 /\ eatNl = FALSE /\ got = << >> /\ blocked = {}
      /\ part = [r \in Readers |-> << >>] /\ crossed = FALSE
      /\ Len(<< >>) = 0 /\ DOMAIN << >> = {}
  BY DEF ConnInit
<1>2. ConnTypes
  <2>1. << >> \in Seq(Int) /\ << >> \in Seq(Nat) /\ << >> \in Seq([by : Readers, line : Seq(Nat)])
    BY EmptySeq
  <2>2. part \in [Readers -> Seq(Nat)] /\ got \in Seq([by : Readers, line : Seq(Nat)])
    BY <1>1, <2>1
  <2>3. sent \in Seq(Int) /\ taken \in 0..Len(sent)
    BY <1>1, <2>1
  <2>4. \A i \in DOMAIN sent : sent[i] \in Newlines \cup High \cup {i}
    BY <1>1
  <2>5. /\ convention \in {"unix", "mac", "dos"} /\ fate \in {"open", "shut", "reset"}
        /\ isFile \in BOOLEAN /\ eatNl \in BOOLEAN /\ crossed \in BOOLEAN
        /\ blocked \subseteq Readers
    BY DEF ConnInit
  <2> QED BY <2>2, <2>3, <2>4, <2>5 DEF ConnTypes
<1>3. ConventionInv
  BY <1>1 DEF ConventionInv
<1>4. Input = << >>
  <2>1. SubSeq(<< >>, 1, 0) = << >>
    BY SubSeqEmpty
  <2> QED BY <1>1, <2>1 DEF Input
<1>5. EatsRight(Input, eatNl)
  BY <1>1, <1>4 DEF EatsRight, Alone
<1>6. \A r \in Readers : part[r] = << >>
  BY <1>1
<1>7. \A r \in Readers, n \in 1..(Len(got) + 1) : DOMAIN Given(r)[n] = {}
  <2>1. ASSUME NEW r \in Readers, NEW n \in 1..(Len(got) + 1) PROVE DOMAIN Given(r)[n] = {}
    <3>1. n = Len(got) + 1
      BY <1>1, <2>1
    <3> QED BY <1>1, <1>2, <1>6, <3>1, GivenIs
  <2> QED BY <2>1
<1>8. PartsInv
  BY <1>1, <1>6, <1>7 DEF PartsInv
<1>9. CharsOnce
  BY <1>7 DEF CharsOnce
<1>10. /\ Characters(<< >>) = {} /\ Ends(<< >>) = {} /\ Breaks(<< >>) = {}
       /\ Cardinality({}) = 0
  BY <1>1, FS_EmptySet DEF Characters, Ends, Breaks
<1>11. IsBegun(<< >>, << >>)
  <2>1. Begun(<< >>) = {} /\ ToSet(<< >>) = {}
    BY <1>1, <1>10 DEF Begun, ToSet
  <2>2. Width(<< >>) = 0
    BY <1>10 DEF Width
  <2>3. 0 % LineMax = 0
    BY SMT
  <2> QED BY <1>1, <2>1, <2>2, <2>3 DEF IsBegun
<1>12. BegunInv
  BY <1>4, <1>6, <1>11 DEF BegunInv
<1>13. LinesInOrder
  <2>1. {i \in DOMAIN got : Len(got[i].line) < LineMax} = {}
    BY <1>1
  <2> QED BY <1>1, <1>4, <1>10, <2>1 DEF LinesInOrder
<1> QED BY <1>2, <1>3, <1>5, <1>8, <1>9, <1>12, <1>13 DEF ConnInv

LEMMA KillStep ==
    ASSUME LineMax \in Nat \ {0}, ConnInv, NEW r \in Readers, Kill(r)
    PROVE  ConnInv'
<1>0. ConnTypes /\ ConventionInv /\ PartsInv
  BY DEF ConnInv
<1>1. part' = [part EXCEPT ![r] = << >>] /\ << >> \in Seq(Nat) /\ part \in [Readers -> Seq(Nat)]
  BY <1>0, EmptySeq DEF Kill, ConnTypes
<1>2. ConnTypes' /\ ConventionInv'
  BY <1>0, <1>1 DEF Kill, peer, ConnTypes, ConventionInv, Alone
<1>3. NothingGiven
  BY <1>1 DEF Kill, NothingGiven
<1>4. Input' = Input /\ UNCHANGED <<convention, eatNl>>
  BY DEF Kill, peer, Input
<1>5. ~crossed' => ~crossed /\ part' = part
  BY <1>1 DEF Kill
<1>6. MoreToCome' => MoreToCome
  BY DEF Kill, peer, MoreToCome
<1> QED BY <1>2, <1>3, <1>4, <1>5, <1>6, NothingRead

LEMMA ResumeClosedStep ==
    ASSUME LineMax \in Nat \ {0}, ConnInv, NEW r \in Readers, ResumeClosed(r)
    PROVE  ConnInv'
<1>0. ConnTypes /\ ConventionInv /\ PartsInv
  BY DEF ConnInv
<1>1. part' = [part EXCEPT ![r] = << >>] /\ << >> \in Seq(Nat) /\ part \in [Readers -> Seq(Nat)]
  BY <1>0, EmptySeq DEF ResumeClosed, ConnTypes
<1>2. ConnTypes' /\ ConventionInv'
  BY <1>0, <1>1 DEF ResumeClosed, peer, ConnTypes, ConventionInv, Alone
<1>3. NothingGiven
  BY <1>1 DEF ResumeClosed, NothingGiven
<1>4. Input' = Input /\ UNCHANGED <<convention, eatNl, crossed>> /\ ~MoreToCome'
  BY DEF ResumeClosed, peer, Input, MoreToCome
<1> QED BY <1>2, <1>3, <1>4, NothingRead

LEMMA ResumeStep ==
    ASSUME LineMax \in Nat \ {0}, ConnInv, NEW r \in Readers, ReadFrom(r) \/ Resume(r)
    PROVE  ConnInv'
<1>1. ResumeReadline(r, part[r])
  BY DEF ReadFrom, Resume, Context, ConnInv, PartsInv
<1>2. CASE ResumeClosed(r)
  BY <1>2, ResumeClosedStep
<1>3. CASE ResumeOpen(r, part[r])
  <2>1. PICK t, e : Reads(r, t, e)
    BY <1>3, ReadIs
  <2> QED BY <2>1, ReadTypes, ReadParts, ReadLines DEF ConnInv
<1> QED BY <1>1, <1>2, <1>3 DEF ResumeReadline

LEMMA CloseStep == LineMax \in Nat \ {0} /\ ConnInv /\ Close => ConnInv'
<1> SUFFICES ASSUME LineMax \in Nat \ {0}, ConnInv, Close PROVE ConnInv'
  OBVIOUS
<1>1. ConnTypes' /\ ConventionInv' /\ NothingGiven /\ Input' = Input /\ ~MoreToCome'
  BY DEF Close, peer, ConnInv, ConnTypes, ConventionInv, Alone, NothingGiven, Input, MoreToCome
<1> QED BY <1>1, NothingRead DEF Close, peer

LEMMA SendStep == LineMax \in Nat \ {0} /\ ConnInv /\ Send => ConnInv'
<1> SUFFICES ASSUME LineMax \in Nat \ {0}, ConnInv, Send PROVE ConnInv'
  OBVIOUS
<1>0. /\ ConnTypes /\ ConventionInv /\ sent \in Seq(Int) /\ Len(sent) \in Nat
      /\ DOMAIN sent = 1..Len(sent) /\ taken \in 0..Len(sent)
  BY DEF ConnInv, ConnTypes
<1>1. PICK b \in Newlines \cup High \cup {Len(sent) + 1} : Sends(b) /\ sent' = Append(sent, b)
  BY DEF Send
<1>2. /\ Longer(sent, sent', b) /\ CR # NL
      /\ UNCHANGED <<convention, taken, fate, isFile, eatNl, blocked, part, got, crossed>>
  BY <1>0, <1>1 DEF Send, Longer, Newlines, High, CR, NL, FF, FE
<1>3. /\ sent' \in Seq(Int) /\ Len(sent') = Len(sent) + 1 /\ DOMAIN sent' = 1..(Len(sent) + 1)
      /\ sent'[Len(sent) + 1] = b /\ \A i \in 1..Len(sent) : sent'[i] = sent[i]
      /\ \A i \in 1..(Len(sent) + 1) : Alone(sent', i) <=> Alone(sent, i)
  BY <1>2, Extended
<1>4. ASSUME NEW i \in DOMAIN sent' PROVE sent'[i] \in Newlines \cup High \cup {i}
  <2>1. \A j \in 1..Len(sent) : sent[j] \in Newlines \cup High \cup {j}
    BY <1>0 DEF ConnTypes
  <2> QED BY <1>0, <1>1, <1>3, <2>1
<1>5. ConnTypes'
  <2>1. taken' \in 0..Len(sent')
    BY <1>0, <1>2, <1>3
  <2> QED BY <1>0, <1>2, <1>3, <1>4, <2>1 DEF ConnTypes
<1>6. AfterReturn <=> ~Alone(sent, Len(sent) + 1)
  <2>1. Last(sent) = sent[Len(sent)]
    BY DEF Last
  <2>2. sent # << >> <=> Len(sent) > 0
    BY <1>0, EmptySeq
  <2>3. (Len(sent) + 1) - 1 = Len(sent) /\ (Len(sent) + 1 > 1 <=> Len(sent) > 0)
    BY <1>0
  <2> QED BY <2>1, <2>2, <2>3 DEF AfterReturn, Alone
<1>7. ConventionInv'
  <2>1. convention \in {"unix", "mac", "dos"}
    BY <1>0 DEF ConnTypes
  <2>2. CASE convention = "unix"
    BY <1>0, <1>1, <1>2, <1>3, <2>2 DEF ConventionInv, Sends
  <2>3. CASE convention = "mac"
    BY <1>0, <1>1, <1>2, <1>3, <2>3 DEF ConventionInv, Sends
  <2>4. CASE convention = "dos"
    <3>1. b = NL <=> ~Alone(sent', Len(sent) + 1)
      BY <1>0, <1>1, <1>3, <1>6, <2>4 DEF Sends
    <3>2. ASSUME NEW i \in 1..Len(sent) PROVE sent'[i] = NL <=> ~Alone(sent', i)
      <4>1. sent[i] = NL <=> ~Alone(sent, i)
        BY <1>0, <2>4 DEF ConventionInv
      <4>2. i \in 1..(Len(sent) + 1)
        BY <1>0
      <4> QED BY <1>3, <4>1, <4>2
    <3>3. \A i \in DOMAIN sent' : sent'[i] = NL <=> ~Alone(sent', i)
      BY <1>0, <1>3, <3>1, <3>2
    <3>4. \A i \in DOMAIN sent' : sent'[i] = NL <=> ~Alone(sent, i)'
      BY <3>3 DEF Alone
    <3> QED BY <1>2, <2>4, <3>4 DEF ConventionInv
  <2> QED BY <2>1, <2>2, <2>3, <2>4
<1>8. Input' = Input
  <2>1. /\ \A i \in 1..taken : sent[i] \in Int /\ sent'[i] \in Int /\ sent'[i] = sent[i]
        /\ taken \in Nat
    BY <1>0, <1>3
  <2>2. /\ SubSeq(sent, 1, taken) \in Seq(Int) /\ Len(SubSeq(sent, 1, taken)) = taken
        /\ \A i \in 1..taken : SubSeq(sent, 1, taken)[i] = sent[i]
    BY <1>0, <2>1
  <2>3. /\ SubSeq(sent', 1, taken) \in Seq(Int) /\ Len(SubSeq(sent', 1, taken)) = taken
        /\ \A i \in 1..taken : SubSeq(sent', 1, taken)[i] = sent'[i]
    BY <1>0, <1>3, <2>1
  <2>4. SubSeq(sent', 1, taken) = SubSeq(sent, 1, taken)
    BY <2>1, <2>2, <2>3, SeqEqual
  <2> QED BY <1>2, <2>4 DEF Input
<1>9. MoreToCome /\ NothingGiven
  BY <1>2 DEF Send, MoreToCome, NothingGiven
<1> QED BY <1>2, <1>5, <1>7, <1>8, <1>9, NothingRead

LEMMA PeerEndsStep == LineMax \in Nat \ {0} /\ ConnInv /\ PeerEnds => ConnInv'
<1> SUFFICES ASSUME LineMax \in Nat \ {0}, ConnInv, PeerEnds PROVE ConnInv'
  OBVIOUS
<1>0. /\ ConnTypes /\ ConventionInv /\ sent \in Seq(Int) /\ Len(sent) \in Nat
      /\ DOMAIN sent = 1..Len(sent) /\ taken \in 0..Len(sent)
      /\ \A i \in 1..Len(sent) : sent[i] \in Newlines \cup High \cup {i}
  BY DEF ConnInv, ConnTypes
<1>1. /\ UNCHANGED <<convention, taken, isFile, eatNl, blocked, part, got, crossed>>
      /\ NothingGiven /\ MoreToCome /\ fate = "open" /\ isFile
  BY DEF PeerEnds, NothingGiven, MoreToCome
<1>2. CASE fate' = "shut" /\ sent' = sent
  <2>1. ConnTypes' /\ ConventionInv' /\ Input' = Input
    BY <1>0, <1>1, <1>2 DEF ConnTypes, ConventionInv, Alone, Input
  <2> QED BY <1>1, <2>1, NothingRead
<1>3. CASE fate' = "reset" /\ sent' = SubSeq(sent, 1, taken)
  <2>1. /\ taken \in Nat /\ \A i \in 1..taken : sent[i] \in Int /\ i \in 1..Len(sent)
    BY <1>0
  <2>2. /\ sent' \in Seq(Int) /\ Len(sent') = taken /\ DOMAIN sent' = 1..taken
        /\ \A i \in 1..taken : sent'[i] = sent[i]
    BY <1>0, <1>3, <2>1
  <2>3. ASSUME NEW i \in 1..taken PROVE Alone(sent', i) <=> Alone(sent, i)
    <3>1. i > 1 => i - 1 \in 1..taken
      BY <2>1
    <3> QED BY <2>2, <3>1 DEF Alone
  <2>4. ConnTypes'
    <3>1. taken' \in 0..Len(sent')
      BY <1>1, <2>1, <2>2
    <3>2. \A i \in DOMAIN sent' : sent'[i] \in Newlines \cup High \cup {i}
      BY <1>0, <2>1, <2>2
    <3> QED BY <1>0, <1>1, <1>3, <2>2, <3>1, <3>2 DEF ConnTypes
  <2>5. ConventionInv'
    <3>1. convention = "dos" => \A i \in DOMAIN sent' : sent'[i] = NL <=> ~Alone(sent', i)
      <4>1. ASSUME convention = "dos", NEW i \in 1..taken
            PROVE  sent'[i] = NL <=> ~Alone(sent', i)
        <5>1. sent[i] = NL <=> ~Alone(sent, i)
          BY <1>0, <2>1, <4>1 DEF ConventionInv
        <5> QED BY <2>2, <2>3, <5>1
      <4> QED BY <2>2, <4>1
    <3>2. convention = "unix" => \A i \in DOMAIN sent' : sent'[i] # CR
      BY <1>0, <2>1, <2>2 DEF ConventionInv
    <3>3. convention = "mac" => \A i \in DOMAIN sent' : sent'[i] # NL
      BY <1>0, <2>1, <2>2 DEF ConventionInv
    <3>4. convention = "dos" => \A i \in DOMAIN sent' : sent'[i] = NL <=> ~Alone(sent, i)'
      BY <3>1 DEF Alone
    <3> QED BY <1>1, <3>2, <3>3, <3>4 DEF ConventionInv
  <2>6. Input' = Input
    <3>1. /\ SubSeq(sent', 1, taken) \in Seq(Int) /\ Len(SubSeq(sent', 1, taken)) = taken
          /\ \A i \in 1..taken : SubSeq(sent', 1, taken)[i] = sent'[i]
      <4>1. \A i \in 1..taken : sent'[i] \in Int
        BY <2>1, <2>2
      <4> QED BY <2>1, <2>2, <4>1
    <3>2. SubSeq(sent', 1, taken) = sent'
      BY <2>2, <3>1, SeqEqual
    <3> QED BY <1>1, <1>3, <3>2 DEF Input
  <2> QED BY <1>1, <2>4, <2>5, <2>6, NothingRead
<1> QED BY <1>2, <1>3 DEF PeerEnds

LEMMA ConnInvStep == LineMax \in Nat \ {0} /\ ConnInv /\ [ConnNext]_cvars => ConnInv'
<1> SUFFICES ASSUME LineMax \in Nat \ {0}, ConnInv, [ConnNext]_cvars PROVE ConnInv'
  OBVIOUS
<1>1. ASSUME NEW r \in Readers, ReadFrom(r) PROVE ConnInv'
  BY <1>1, ResumeStep
<1>2. ASSUME NEW r \in Readers, Resume(r) PROVE ConnInv'
  BY <1>2, ResumeStep
<1>3. ASSUME NEW r \in Readers, Kill(r) PROVE ConnInv'
  BY <1>3, KillStep
<1>4. CASE Close
  BY <1>4, CloseStep
<1>5. CASE Send
  BY <1>5, SendStep
<1>6. CASE PeerEnds
  BY <1>6, PeerEndsStep
<1>7. CASE UNCHANGED cvars
  <2>0. ConnTypes /\ ConventionInv
    BY DEF ConnInv
  <2>1. ConnTypes' /\ ConventionInv'
    BY <1>7, <2>0 DEF cvars, ConnTypes, ConventionInv, Alone
  <2>2. NothingGiven /\ Input' = Input /\ (MoreToCome' => MoreToCome)
    BY <1>7 DEF cvars, NothingGiven, Input, MoreToCome
  <2>3. UNCHANGED <<convention, eatNl, part, crossed>>
    BY <1>7 DEF cvars
  <2> QED BY <2>1, <2>2, <2>3, NothingRead
<1> QED BY <1>1, <1>2, <1>3, <1>4, <1>5, <1>6, <1>7 DEF ConnNext

\* What a connection keeps: its types, the convention of its peer, whether the next
\* newline is to be eaten, the parts its blocked readers hold, and the two properties
\* below, for any number of readers, any length of a line and an input of any length.
THEOREM ConnInvariance == ConnSpec => []ConnInv
<1>0. LineMax \in Nat \ {0}
  BY ConnectionAssumption
<1>1. ConnInit => ConnInv
  BY <1>0, ConnInitial
<1>2. ConnInv /\ [ConnNext]_cvars => ConnInv'
  BY <1>0, ConnInvStep
<1> QED BY <1>1, <1>2, PTL DEF ConnSpec

\* read-from returns the lines of the input, each once, in order and whole, however
\* the input is cut into packets and whichever threads read it (conn_gets and
\* fileconn_getter in conn.c).
THEOREM LinesRead == ConnSpec => []LinesInOrder
<1>1. ConnInv => LinesInOrder
  BY DEF ConnInv
<1> QED BY <1>1, ConnInvariance, PTL

\* No character of the input is given out twice, nor to one thread out of order, even
\* when threads read in the middle of each other's lines or are killed there.
THEOREM CharsGivenOnce == ConnSpec => []CharsOnce
<1>1. ConnInv => CharsOnce
  BY DEF ConnInv
<1> QED BY <1>1, ConnInvariance, PTL
=============================================================================
