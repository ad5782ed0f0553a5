----------------------------- MODULE HeapProofs -----------------------------
(***************************************************************************)
(* Theorems about the heap, for any heap, program, symbol table and number *)
(* of registers: nothing a program can get at is freed, nothing else is    *)
(* kept, the symbol table is rebuilt exactly, descriptors neither leak nor *)
(* are closed in use; a checkpoint loads as the heap it was taken from,    *)
(* none of its proper beginnings is taken for a database, and all of this  *)
(* holds across restarts.  The first part is about Collector, the second   *)
(* about Persist.                                                          *)
(***************************************************************************)
EXTENDS Persist, CommonLemmas, FiniteSetTheorems

-----------------------------------------------------------------------------
(* The lists.                                                              *)

\* Nothing is on the empty list.
LEMMA EmptyList == Elements(<< >>) = {} /\ Distinct(<< >>)
BY DEF Elements, Distinct

\* Pushing adds the element and repeats nothing that was not there.
LEMMA PushList ==
    ASSUME NEW S, NEW s \in Seq(S), NEW x \in S
    PROVE  /\ Push(s, x) \in Seq(S)
           /\ Elements(Push(s, x)) = Elements(s) \cup {x}
           /\ Distinct(s) /\ x \notin Elements(s) => Distinct(Push(s, x))
BY PushFrontLemma DEF Push, PushFront, Elements, InQueue, Distinct, NoRepeats

\* Taking the head off takes off nothing else.
LEMMA TailList ==
    ASSUME NEW S, NEW s \in Seq(S), s # << >>, Distinct(s)
    PROVE  /\ Head(s) \in S /\ Head(s) \in Elements(s) /\ Tail(s) \in Seq(S)
           /\ Elements(Tail(s)) = Elements(s) \ {Head(s)}
           /\ Distinct(Tail(s))
<1> DEFINE t == Tail(s)
<1>1. /\ t \in Seq(S) /\ Len(t) = Len(s) - 1 /\ Len(s) \in Nat \ {0}
      /\ Head(s) = s[1] /\ \A i \in 1..Len(t) : t[i] = s[i + 1]
  BY HeadTailProperties
<1> HIDE DEF t
<1>2. Head(s) \in Elements(s) /\ Head(s) \in S
  <2>1. 1 \in 1..Len(s)
    BY <1>1
  <2> QED BY <2>1, <1>1 DEF Elements
<1>3. \A y \in Elements(t) : y \in Elements(s) \ {Head(s)}
  <2> SUFFICES ASSUME NEW i \in 1..Len(t) PROVE t[i] \in Elements(s) /\ t[i] # s[1]
    BY <1>1 DEF Elements
  <2>1. i + 1 \in 1..Len(s) /\ 1 \in 1..Len(s) /\ i + 1 # 1
    BY <1>1
  <2> QED BY <2>1, <1>1 DEF Elements, Distinct
<1>4. \A y \in Elements(s) \ {Head(s)} : y \in Elements(t)
  <2> SUFFICES ASSUME NEW i \in 1..Len(s), s[i] # s[1] PROVE s[i] \in Elements(t)
    BY <1>1 DEF Elements
  <2>1. i - 1 \in 1..Len(t) /\ (i - 1) + 1 = i
    BY <1>1
  <2> QED BY <2>1, <1>1 DEF Elements
<1>5. Distinct(t)
  <2> SUFFICES ASSUME NEW i \in 1..Len(t), NEW j \in 1..Len(t), t[i] = t[j] PROVE i = j
    BY DEF Distinct
  <2>1. i + 1 \in 1..Len(s) /\ j + 1 \in 1..Len(s) /\ s[i + 1] = s[j + 1]
    BY <1>1
  <2>2. i + 1 = j + 1
    BY <2>1 DEF Distinct
  <2> QED BY <2>2
<1> QED BY <1>1, <1>2, <1>3, <1>4, <1>5 DEF t

-----------------------------------------------------------------------------
(* Closures.                                                               *)

\* A closure holds where it starts, is closed, and is the least such set.
LEMMA ClosureLeast ==
    ASSUME NEW start \in SUBSET Cells, NEW edges \in [Cells -> SUBSET Cells]
    PROVE  /\ start \subseteq Closure(start, edges) /\ Closure(start, edges) \subseteq Cells
           /\ \A x \in Closure(start, edges) : edges[x] \subseteq Closure(start, edges)
           /\ \A S \in SUBSET Cells :
                start \subseteq S /\ (\A x \in S : edges[x] \subseteq S)
                => Closure(start, edges) \subseteq S
BY DEF Closure

\* Nothing is reached from nowhere.
LEMMA ClosureOfNothing ==
    ASSUME NEW edges \in [Cells -> SUBSET Cells]
    PROVE  Closure({}, edges) = {}
BY ClosureLeast

\* What is reached from a cell: the cell, and what is reached from its successors.
LEMMA ClosureStep ==
    ASSUME NEW c \in Cells, NEW edges \in [Cells -> SUBSET Cells]
    PROVE  Closure({c}, edges) = {c} \cup Closure(edges[c], edges)
<1> DEFINE C == Closure({c}, edges)
           D == Closure(edges[c], edges)
<1>1. /\ c \in C /\ C \in SUBSET Cells /\ \A x \in C : edges[x] \subseteq C
      /\ \A S \in SUBSET Cells : c \in S /\ (\A x \in S : edges[x] \subseteq S) => C \subseteq S
  BY ClosureLeast, ZenonT(60) DEF Closure
<1>2. /\ edges[c] \subseteq D /\ D \in SUBSET Cells /\ \A x \in D : edges[x] \subseteq D
      /\ \A S \in SUBSET Cells :
           edges[c] \subseteq S /\ (\A x \in S : edges[x] \subseteq S) => D \subseteq S
  BY ClosureLeast
<1> HIDE DEF C, D
<1>3. C \subseteq {c} \cup D
  <2>1. /\ {c} \cup D \in SUBSET Cells /\ c \in {c} \cup D
        /\ \A x \in {c} \cup D : edges[x] \subseteq {c} \cup D
    BY <1>2
  <2> QED BY <2>1, <1>1
<1>4. D \subseteq C
  BY <1>1, <1>2
<1> QED BY <1>1, <1>3, <1>4 DEF C, D

\* Edges that do not start in the closure do not matter.
LEMMA ClosureAgree ==
    ASSUME NEW start \in SUBSET Cells,
           NEW edges \in [Cells -> SUBSET Cells], NEW others \in [Cells -> SUBSET Cells],
           \A x \in Closure(start, edges) : others[x] = edges[x]
    PROVE  Closure(start, others) = Closure(start, edges)
<1> DEFINE C == Closure(start, edges)
           D == Closure(start, others)
<1>1. /\ start \subseteq C /\ C \in SUBSET Cells /\ \A x \in C : edges[x] \subseteq C
      /\ \A S \in SUBSET Cells : start \subseteq S /\ (\A x \in S : edges[x] \subseteq S) => C \subseteq S
  BY ClosureLeast
<1>2. /\ start \subseteq D /\ D \in SUBSET Cells /\ \A x \in D : others[x] \subseteq D
      /\ \A S \in SUBSET Cells : start \subseteq S /\ (\A x \in S : others[x] \subseteq S) => D \subseteq S
  BY ClosureLeast
<1>3. \A x \in C : others[x] = edges[x]
  OBVIOUS
<1> HIDE DEF C, D
<1>4. D \subseteq C
  BY <1>1, <1>2, <1>3
<1>5. /\ C \cap D \in SUBSET Cells /\ start \subseteq C \cap D
      /\ \A x \in C \cap D : edges[x] \subseteq C \cap D
  BY <1>1, <1>2, <1>3
<1>6. C \subseteq C \cap D
  BY <1>1, <1>5
<1> QED BY <1>4, <1>6 DEF C, D

-----------------------------------------------------------------------------
(* Types.                                                                  *)

\* The heap is well typed at the start.
LEMMA InitTypes == HeapInit => HeapTypeOK
<1>1. << >> \in Seq(Cells)
  OBVIOUS
<1> QED BY <1>1, HeapAssumption DEF HeapInit, HeapTypeOK, Refs, Slots, Buckets

\* What the program does to its heap is well typed.
LEMMA ProgramTypes ==
    ASSUME HeapInv, Program
    PROVE  HeapTypeOK'
<1> USE HeapAssumption DEF HeapInv, HeapTypeOK, Mutating, Refs, Into, gcvars, object
<1>1. \A c \in Cells : Push(all_objects, c) \in Seq(Cells)
  BY PushList
<1> SUFFICES ASSUME NEW r \in Registers,
                    \/ NewVector(r) \/ NewConnection(r) \/ CloseConnection(r) \/ CompileString(r)
                    \/ Unbind(r) \/ Drop(r)
                    \/ \E n \in Names : Intern(r, n)
                    \/ \E s \in Registers, i \in Slots : Load(r, s, i) \/ Store(r, i, s)
             PROVE  HeapTypeOK'
  BY DEF Program
<1>2. CASE NewVector(r)
  BY <1>1, <1>2 DEF NewVector, Getmem
<1>3. CASE NewConnection(r)
  BY <1>1, <1>3 DEF NewConnection, Getmem
<1>4. CASE CloseConnection(r)
  BY <1>4 DEF CloseConnection, ConnClose
<1>5. CASE CompileString(r)
  <2>1. PICK c \in Cells, rest_of \in {reg[r], Null} :
          /\ Getmem(c, "connection") /\ slot' = [slot EXCEPT ![c][Handle] = rest_of]
          /\ finalize' = finalize \cup {c}
    BY <1>5 DEF CompileString
  <2>2. slot' \in [Cells -> [Slots -> Refs]]
    BY <2>1, ZenonT(60)
  <2> QED BY <1>1, <1>5, <2>1, <2>2 DEF CompileString, Getmem
<1>6. CASE Unbind(r)
  BY <1>6 DEF Unbind
<1>7. CASE Drop(r)
  BY <1>7 DEF Drop
<1>8. ASSUME NEW n \in Names, Intern(r, n) PROVE HeapTypeOK'
  <2>1. Mutating /\ UNCHANGED open
    BY <1>8 DEF Intern
  <2>2. CASE Found(r, n)
    <3>1. FirstMatch(n) \subseteq Cells
      BY DEF FirstMatch, Matching, InBucket, Closure
    <3> QED BY <2>1, <2>2, <3>1 DEF Found
  <2>3. ASSUME NEW c \in Cells, NewSymbol(r, n, c) PROVE HeapTypeOK'
    <3>1. HashOf[n] \in Buckets
      OBVIOUS
    <3>2. slot' \in [Cells -> [Slots -> Refs]]
      BY <2>3 DEF NewSymbol
    <3>3. next' \in [Cells -> Cells \cup {Null}]
      BY <2>3, <3>1 DEF NewSymbol
    <3> QED BY <1>1, <2>1, <2>3, <3>2, <3>3 DEF NewSymbol, Getmem
  <2> QED BY <1>8, <2>2, <2>3 DEF Intern
<1>9. ASSUME NEW s \in Registers, NEW i \in Slots, Load(r, s, i) PROVE HeapTypeOK'
  BY <1>9 DEF Load, HasSlot
<1>10. ASSUME NEW s \in Registers, NEW i \in Slots, Store(r, i, s) PROVE HeapTypeOK'
  BY <1>10 DEF Store
<1> QED BY <1>2, <1>3, <1>4, <1>5, <1>6, <1>7, <1>8, <1>9, <1>10

\* What a collection and finalization do to it is well typed.
LEMMA GcTypes ==
    ASSUME HeapInv, Gc
    PROVE  HeapTypeOK'
<1> USE HeapAssumption DEF HeapInv, HeapTypeOK, Collecting, Refs, gcvars, object
<1>1. CASE GcStart
  BY <1>1 DEF GcStart
<1>2. CASE Mark
  BY <1>2 DEF Mark, Children
<1>3. CASE RootsMarked
  BY <1>3 DEF RootsMarked, Buckets
<1>4. CASE MarkSymbol
  BY <1>4 DEF MarkSymbol
<1>5. CASE BucketMarked
  <2>1. << >> \in Seq(Cells) /\ 1 \in Buckets /\ (bucket < NumBuckets => bucket + 1 \in Buckets)
    BY DEF Buckets
  <2> QED BY <1>5, <2>1 DEF BucketMarked
<1>6. CASE Sweep
  <2>1. /\ Head(rest) \in Cells /\ Tail(rest) \in Seq(Cells)
        /\ Push(all_objects, Head(rest)) \in Seq(Cells)
        /\ Push(finalizable_chain, Head(rest)) \in Seq(Cells)
    BY <1>6, TailList, PushList DEF Sweep, ListsInv
  <2>2. CASE SweepFinalizable(Head(rest))
    BY <1>6, <2>1, <2>2 DEF Sweep, SweepFinalizable
  <2>3. CASE SweepGarbage(Head(rest))
    BY <1>6, <2>1, <2>3 DEF Sweep, SweepGarbage
  <2>4. CASE SweepMarked(Head(rest))
    <3> DEFINE c == Head(rest)
    <3>1. c \in Cells /\ SweepMarked(c)
      BY <2>1, <2>4
    <3> HIDE DEF c
    <3>2. ASSUME kind[c] = "symbol", Relink(c)
          PROVE  next' \in [Cells -> Cells \cup {Null}] /\ symtab' \in [Buckets -> Cells \cup {Null}]
      <4>1. HashOf[name[c]] \in Buckets
        BY <3>1, <3>2 DEF CellsInv
      <4> QED BY <3>1, <3>2, <4>1 DEF Relink
    <3>3. next' \in [Cells -> Cells \cup {Null}] /\ symtab' \in [Buckets -> Cells \cup {Null}]
      BY <3>1, <3>2 DEF SweepMarked
    <3> QED BY <1>6, <2>1, <2>4, <3>3 DEF Sweep, SweepMarked
  <2> QED BY <1>6, <2>2, <2>3, <2>4 DEF Sweep
<1>7. CASE Swept
  BY <1>7 DEF Swept
<1>8. CASE CheckpointWritten
  BY <1>8 DEF CheckpointWritten
<1>9. CASE Finalize
  <2>1. /\ Head(finalizable_chain) \in Cells /\ Tail(finalizable_chain) \in Seq(Cells)
        /\ Push(all_objects, Head(finalizable_chain)) \in Seq(Cells)
    BY <1>9, TailList, PushList DEF Finalize, ListsInv
  <2> QED BY <1>9, <2>1 DEF Finalize, ConnClose
<1>10. CASE Finalized
  BY <1>10 DEF Finalized
<1> QED BY <1>1, <1>2, <1>3, <1>4, <1>5, <1>6, <1>7, <1>8, <1>9, <1>10 DEF Gc

-----------------------------------------------------------------------------
(* The lists hold each cell that malloc gave out, once.                    *)

\* A new cell is on one list only.
LEMMA GetmemLists ==
    ASSUME HeapInv, Mutating, NEW c \in Cells, NEW k, k # "free", Getmem(c, k),
           \/ finalize' = finalize
           \/ finalize' = finalize \cup {c} /\ k = "connection"
    PROVE  ListsInv'
<1>1. /\ Elements(all_objects') = Elements(all_objects) \cup {c}
      /\ Distinct(all_objects) /\ c \notin Elements(all_objects) => Distinct(all_objects')
  <2>1. all_objects \in Seq(Cells) /\ all_objects' = Push(all_objects, c)
    BY DEF HeapInv, HeapTypeOK, Getmem
  <2> QED BY <2>1, PushList
<1>2. /\ c \notin Elements(all_objects) /\ c \notin Elements(finalizable_chain)
      /\ c \notin Elements(rest)
  BY DEF HeapInv, ListsInv, Getmem
<1>3. finalizable_chain' = finalizable_chain /\ rest' = rest /\ pc' = pc
  BY DEF Mutating, gcvars
<1>4. /\ \A d \in Cells : kind'[d] = IF d = c THEN k ELSE kind[d]
  BY DEF Getmem, HeapInv, HeapTypeOK
<1>5. finalize \subseteq Cells /\ Elements(finalizable_chain) \subseteq Cells
  BY DEF HeapInv, HeapTypeOK, Elements
<1>6. finalize' \subseteq Elements(all_objects') \cup Elements(rest')
  BY <1>1, <1>3 DEF HeapInv, ListsInv
<1>7. \A d \in finalize' \cup Elements(finalizable_chain') : kind'[d] = "connection"
  BY <1>3, <1>4, <1>5, <1>2 DEF HeapInv, ListsInv
<1> QED BY <1>1, <1>2, <1>3, <1>4, <1>6, <1>7 DEF HeapInv, ListsInv

\* Steps that leave the lists alone.
LEMMA SameLists ==
    ASSUME HeapInv, UNCHANGED <<kind, all_objects, finalizable_chain, rest, finalize>>,
           pc' # "sweep" => rest = << >>
    PROVE  ListsInv'
<1>1. /\ kind' = kind /\ all_objects' = all_objects /\ finalizable_chain' = finalizable_chain
      /\ rest' = rest /\ finalize' = finalize
  OBVIOUS
<1> QED BY <1>1 DEF HeapInv, ListsInv

\* What the program does keeps the lists of the collector apart.
LEMMA ProgramLists ==
    ASSUME HeapInv, Program
    PROVE  ListsInv'
<1> SUFFICES ASSUME NEW r \in Registers,
                    \/ NewVector(r) \/ NewConnection(r) \/ CloseConnection(r) \/ CompileString(r)
                    \/ Unbind(r) \/ Drop(r)
                    \/ \E n \in Names : Intern(r, n)
                    \/ \E s \in Registers, i \in Slots : Load(r, s, i) \/ Store(r, i, s)
             PROVE  ListsInv'
  BY DEF Program
<1> USE DEF gcvars, object
<1>1. rest = << >> /\ Mutating
  BY DEF NewVector, NewConnection, CloseConnection, CompileString, Unbind, Drop, Intern, Load,
         Store, Mutating, HeapInv, ListsInv
<1>2. CASE NewVector(r)
  BY <1>1, <1>2, GetmemLists DEF NewVector
<1>3. CASE NewConnection(r)
  BY <1>1, <1>3, GetmemLists DEF NewConnection
<1>4. CASE CloseConnection(r) \/ Unbind(r) \/ Drop(r)
  BY <1>1, <1>4, SameLists DEF CloseConnection, Unbind, Drop, Mutating
<1>5. CASE CompileString(r)
  BY <1>1, <1>5, GetmemLists DEF CompileString
<1>6. ASSUME NEW n \in Names, Intern(r, n) PROVE ListsInv'
  <2>1. CASE Found(r, n)
    BY <1>1, <2>1, SameLists DEF Found, Mutating
  <2>2. ASSUME NEW c \in Cells, NewSymbol(r, n, c) PROVE ListsInv'
    BY <1>1, <2>2, GetmemLists DEF NewSymbol
  <2> QED BY <1>6, <2>1, <2>2 DEF Intern
<1>7. ASSUME NEW s \in Registers, NEW i \in Slots, Load(r, s, i) \/ Store(r, i, s) PROVE ListsInv'
  BY <1>1, <1>7, SameLists DEF Load, Store, Mutating
<1> QED BY <1>2, <1>3, <1>4, <1>5, <1>6, <1>7

\* The cell that is swept: on rest only.
LEMMA Swept1 ==
    ASSUME HeapInv, Sweep
    PROVE  LET c == Head(rest) IN
            /\ c \in Cells /\ c \in Elements(rest) /\ kind[c] # "free"
            /\ c \notin Elements(all_objects) /\ c \notin Elements(finalizable_chain)
            /\ Elements(rest') = Elements(rest) \ {c} /\ Distinct(rest')
            /\ SweepFinalizable(c) \/ SweepGarbage(c) \/ SweepMarked(c)
<1>1. rest \in Seq(Cells) /\ rest # << >> /\ Distinct(rest) /\ rest' = Tail(rest)
  BY DEF HeapInv, HeapTypeOK, ListsInv, Sweep
<1> DEFINE c == Head(rest)
<1>2. /\ c \in Cells /\ c \in Elements(rest)
      /\ Elements(rest') = Elements(rest) \ {c} /\ Distinct(rest')
  BY <1>1, TailList
<1>3. SweepFinalizable(c) \/ SweepGarbage(c) \/ SweepMarked(c)
  BY DEF Sweep
<1> HIDE DEF c
<1>4. c \notin Elements(all_objects) /\ c \notin Elements(finalizable_chain) /\ kind[c] # "free"
  BY <1>2 DEF HeapInv, ListsInv
<1> QED BY <1>2, <1>3, <1>4 DEF c

\* The connection that is finalized: on the chain only.
LEMMA Finalized1 ==
    ASSUME HeapInv, Finalize
    PROVE  LET c == Head(finalizable_chain) IN
            /\ c \in Cells /\ c \in Elements(finalizable_chain) /\ kind[c] = "connection"
            /\ c \notin Elements(all_objects) /\ rest = << >> /\ c \notin finalize
            /\ Elements(finalizable_chain') = Elements(finalizable_chain) \ {c}
            /\ Distinct(finalizable_chain')
            /\ Elements(all_objects') = Elements(all_objects) \cup {c} /\ Distinct(all_objects')
            /\ ConnClose(c)
<1>1. /\ finalizable_chain \in Seq(Cells) /\ finalizable_chain # << >>
      /\ Distinct(finalizable_chain) /\ finalizable_chain' = Tail(finalizable_chain)
      /\ all_objects \in Seq(Cells) /\ Distinct(all_objects)
      /\ all_objects' = Push(all_objects, Head(finalizable_chain))
  BY DEF HeapInv, HeapTypeOK, ListsInv, Finalize
<1> DEFINE c == Head(finalizable_chain)
<1>2. /\ c \in Cells /\ c \in Elements(finalizable_chain)
      /\ Elements(finalizable_chain') = Elements(finalizable_chain) \ {c}
      /\ Distinct(finalizable_chain')
  BY <1>1, TailList
<1>3. ConnClose(c) /\ all_objects' = Push(all_objects, c)
  BY DEF Finalize
<1> HIDE DEF c
<1>4. c \notin Elements(all_objects) /\ kind[c] = "connection" /\ rest = << >>
  BY <1>2 DEF HeapInv, ListsInv, Finalize, Collecting
<1>5. c \notin finalize
  BY <1>2, <1>4, EmptyList DEF HeapInv, ListsInv
<1>6. Elements(all_objects') = Elements(all_objects) \cup {c} /\ Distinct(all_objects')
  <2>1. all_objects \in Seq(Cells) /\ Distinct(all_objects)
    BY <1>1
  <2> QED BY <1>2, <1>3, <1>4, <2>1, PushList
<1> QED BY <1>2, <1>3, <1>4, <1>5, <1>6 DEF c

\* So does every step of a collection and of finalization.
LEMMA GcLists ==
    ASSUME HeapInv, Gc
    PROVE  ListsInv'
<1> USE DEF gcvars, object
<1>1. CASE \/ GcStart \/ Mark \/ RootsMarked \/ MarkSymbol \/ Swept
           \/ CheckpointWritten \/ Finalized
  <2>1. pc' # "sweep" => rest = << >>
    BY <1>1 DEF GcStart, Mark, RootsMarked, MarkSymbol, Swept, CheckpointWritten, Finalized,
                Collecting, HeapInv, ListsInv
  <2> QED BY <1>1, <2>1, SameLists
          DEF GcStart, Mark, RootsMarked, MarkSymbol, Swept, CheckpointWritten, Finalized, Collecting
<1>2. CASE BucketMarked
  <2>1. rest = << >>
    BY <1>2 DEF BucketMarked, Collecting, HeapInv, ListsInv
  <2>2. CASE bucket < NumBuckets
    BY <1>2, <2>1, <2>2, SameLists DEF BucketMarked, HeapInv, HeapTypeOK, Buckets
  <2>3. CASE rest' = all_objects /\ all_objects' = << >> /\ pc' = "sweep"
    BY <1>2, <2>1, <2>3, EmptyList DEF BucketMarked, HeapInv, ListsInv
  <2> QED BY <1>2, <2>2, <2>3 DEF BucketMarked
<1>3. CASE Sweep
  <2> DEFINE c == Head(rest)
  <2>1. /\ c \in Cells /\ c \in Elements(rest) /\ kind[c] # "free"
        /\ c \notin Elements(all_objects) /\ c \notin Elements(finalizable_chain)
        /\ Elements(rest') = Elements(rest) \ {c} /\ Distinct(rest')
        /\ SweepFinalizable(c) \/ SweepGarbage(c) \/ SweepMarked(c)
    BY <1>3, Swept1
  <2>2. pc = "sweep" /\ pc' = pc
    BY <1>3 DEF Sweep
  <2> HIDE DEF c
  <2>3. all_objects \in Seq(Cells) /\ finalizable_chain \in Seq(Cells)
    BY DEF HeapInv, HeapTypeOK
  <2>4. CASE SweepFinalizable(c)
    <3>1. Elements(finalizable_chain') = Elements(finalizable_chain) \cup {c} /\ Distinct(finalizable_chain')
      BY <2>1, <2>3, <2>4, PushList DEF SweepFinalizable, HeapInv, ListsInv
    <3> QED BY <2>1, <2>2, <2>4, <3>1 DEF SweepFinalizable, HeapInv, ListsInv
  <2>5. CASE SweepGarbage(c)
    <3>1. \A d \in Cells : kind'[d] = IF d = c THEN "free" ELSE kind[d]
      BY <2>1, <2>5 DEF SweepGarbage, HeapInv, HeapTypeOK
    <3>2. UNCHANGED <<finalize, all_objects, finalizable_chain>> /\ c \notin finalize
      BY <2>5 DEF SweepGarbage
    <3>3. finalize \subseteq Cells /\ Elements(finalizable_chain) \subseteq Cells
      BY DEF HeapInv, HeapTypeOK, Elements
    <3> QED BY <2>1, <2>2, <3>1, <3>2, <3>3 DEF HeapInv, ListsInv
  <2>6. CASE SweepMarked(c)
    <3>1. Elements(all_objects') = Elements(all_objects) \cup {c} /\ Distinct(all_objects')
      BY <2>1, <2>3, <2>6, PushList DEF SweepMarked, HeapInv, ListsInv
    <3>2. UNCHANGED <<kind, finalize, finalizable_chain>>
      BY <2>6 DEF SweepMarked
    <3> QED BY <2>1, <2>2, <3>1, <3>2 DEF HeapInv, ListsInv
  <2> QED BY <2>1, <2>4, <2>5, <2>6
<1>4. CASE Finalize
  <2> DEFINE c == Head(finalizable_chain)
  <2>1. /\ c \in Cells /\ c \in Elements(finalizable_chain) /\ kind[c] = "connection"
        /\ c \notin Elements(all_objects) /\ rest = << >> /\ c \notin finalize
        /\ Elements(finalizable_chain') = Elements(finalizable_chain) \ {c}
        /\ Distinct(finalizable_chain')
        /\ Elements(all_objects') = Elements(all_objects) \cup {c} /\ Distinct(all_objects')
    BY <1>4, Finalized1
  <2>2. UNCHANGED <<kind, finalize, rest, pc>>
    BY <1>4 DEF Finalize
  <2> HIDE DEF c
  <2> QED BY <2>1, <2>2, EmptyList DEF HeapInv, ListsInv
<1> QED BY <1>1, <1>2, <1>3, <1>4 DEF Gc

-----------------------------------------------------------------------------
(* The fields of cells, and descriptors.                                   *)

\* A free cell is blank, and on no list.
LEMMA FreeCell ==
    ASSUME HeapInv, NEW c \in Cells, kind[c] = "free"
    PROVE  /\ \A i \in Slots : slot[c][i] = Null
           /\ handle[c] = Null /\ c \notin Elements(all_objects)
           /\ c \notin finalize \cup Elements(finalizable_chain) /\ c \notin Elements(rest)
BY DEF HeapInv, CellsInv, ListsInv

\* Closing a connection changes what it holds and nothing else.
LEMMA Closed ==
    ASSUME HeapInv, NEW c \in Cells, ConnClose(c)
    PROVE  /\ open' = open \ {handle[c]}
           /\ \A d \in Cells : handle'[d] = IF d = c THEN Null ELSE handle[d]
           /\ \A d \in Cells, i \in Slots :
                slot'[d][i] = IF d = c /\ i = Handle THEN Null ELSE slot[d][i]
BY DEF ConnClose, HeapInv, HeapTypeOK

\* Making a cell of a kind, with the fields that its kind asks for.
LEMMA NewCell ==
    ASSUME HeapInv, Mutating, NEW c \in Cells, NEW k, k # "free", Getmem(c, k),
           finalize \subseteq finalize', HandlesOwned,
           \A d \in Cells \ {c} : slot'[d] = slot[d] /\ name'[d] = name[d] /\ handle'[d] = handle[d],
           k = "symbol" => name'[c] \in Names,
           k = "connection" => \A i \in Slots \ {Handle} : slot'[c][i] = slot[c][i],
           handle'[c] # Null => c \in finalize'
    PROVE  CellsInv'
<1>1. \A d \in Cells : kind'[d] = IF d = c THEN k ELSE kind[d]
  BY DEF Getmem, HeapInv, HeapTypeOK
<1>2. finalizable_chain' = finalizable_chain
  BY DEF Mutating
<1>3. /\ \A i \in Slots : slot[c][i] = Null
      /\ kind[c] = "free"
  BY FreeCell DEF Getmem
<1> QED BY <1>1, <1>2, <1>3 DEF CellsInv, HeapInv

\* What the program does keeps the cells as their kinds ask for.
LEMMA ProgramCells ==
    ASSUME HeapInv, Program
    PROVE  CellsInv' /\ HandlesOwned'
<1> SUFFICES ASSUME NEW r \in Registers,
                    \/ NewVector(r) \/ NewConnection(r) \/ CloseConnection(r) \/ CompileString(r)
                    \/ Unbind(r) \/ Drop(r)
                    \/ \E n \in Names : Intern(r, n)
                    \/ \E s \in Registers, i \in Slots : Load(r, s, i) \/ Store(r, i, s)
             PROVE  CellsInv' /\ HandlesOwned'
  BY DEF Program
<1> USE DEF gcvars, object
<1>1. Mutating /\ finalizable_chain' = finalizable_chain
  BY DEF NewVector, NewConnection, CloseConnection, CompileString, Unbind, Drop, Intern, Load,
         Store, Mutating
<1>2. /\ HandlesOwned /\ CellsInv /\ slot \in [Cells -> [Slots -> Refs]]
      /\ name \in [Cells -> Names \cup {Null}] /\ handle \in [Cells -> Handles \cup {Null}]
      /\ reg \in [Registers -> Cells \cup {Null}] /\ kind \in [Cells -> {"free", "vector", "symbol", "connection"}]
      /\ open \subseteq Handles
  BY DEF HeapInv, HeapTypeOK
<1>3. ASSUME UNCHANGED <<handle, open>> PROVE HandlesOwned'
  BY <1>2, <1>3 DEF HandlesOwned
<1>4. CASE NewVector(r)
  <2>1. PICK c \in Cells : Getmem(c, "vector")
    BY <1>4 DEF NewVector
  <2>2. handle'[c] = Null
    BY <1>4, <2>1, FreeCell DEF NewVector, Getmem
  <2> QED BY <1>1, <1>2, <1>3, <1>4, <2>1, <2>2, NewCell DEF NewVector
<1>5. CASE NewConnection(r)
  <2>1. PICK c \in Cells, h \in Handles \ open :
          /\ Getmem(c, "connection") /\ handle' = [handle EXCEPT ![c] = h]
          /\ finalize' = finalize \cup {c} /\ open' = open \cup {h}
          /\ UNCHANGED <<slot, next, name, symtab>>
    BY <1>5 DEF NewConnection
  <2>2. CellsInv'
    BY <1>1, <1>2, <2>1, NewCell
  <2>3. handle[c] = Null
    BY <2>1, FreeCell DEF Getmem
  <2>4. \A d \in Cells : handle'[d] = IF d = c THEN h ELSE handle[d]
    BY <1>2, <2>1
  <2>5. h # Null /\ \A d \in Cells : handle[d] # h
    BY <1>2, HeapAssumption DEF HandlesOwned
  <2>6. HandlesOwned'
    BY <1>2, <2>1, <2>3, <2>4, <2>5 DEF HandlesOwned
  <2> QED BY <2>2, <2>6
<1>6. CASE CloseConnection(r)
  <2> DEFINE c == reg[r]
  <2>1. c \in Cells /\ kind[c] = "connection" /\ ConnClose(c)
        /\ UNCHANGED <<kind, next, name, finalize>>
    BY <1>6 DEF CloseConnection
  <2> HIDE DEF c
  <2>2. /\ open' = open \ {handle[c]}
        /\ \A d \in Cells : handle'[d] = IF d = c THEN Null ELSE handle[d]
        /\ \A d \in Cells, i \in Slots :
             slot'[d][i] = IF d = c /\ i = Handle THEN Null ELSE slot[d][i]
    BY <2>1, Closed
  <2>3. CellsInv'
    BY <1>1, <1>2, <2>1, <2>2 DEF CellsInv
  <2>4. HandlesOwned'
    BY <1>2, <2>1, <2>2 DEF HandlesOwned
  <2> QED BY <2>3, <2>4
<1>7. CASE CompileString(r)
  <2>1. PICK c \in Cells, rest_of \in {reg[r], Null} :
          /\ Getmem(c, "connection") /\ slot' = [slot EXCEPT ![c][Handle] = rest_of]
          /\ finalize' = finalize \cup {c} /\ UNCHANGED <<name, handle, open>>
    BY <1>7 DEF CompileString
  <2>2. /\ \A d \in Cells \ {c} : slot'[d] = slot[d]
        /\ \A i \in Slots \ {Handle} : slot'[c][i] = slot[c][i]
    BY <1>2, <2>1
  <2> QED BY <1>1, <1>2, <1>3, <2>1, <2>2, NewCell
<1>8. CASE Unbind(r)
  <2>1. /\ reg[r] \in Cells /\ kind[reg[r]] = "symbol"
        /\ \A d \in Cells \ {reg[r]} : slot'[d] = slot[d]
        /\ UNCHANGED <<kind, name, handle, finalize, open>>
    BY <1>2, <1>8 DEF Unbind
  <2> QED BY <1>1, <1>2, <1>3, <2>1 DEF CellsInv
<1>9. CASE Drop(r)
  BY <1>1, <1>2, <1>3, <1>9 DEF Drop, CellsInv
<1>10. ASSUME NEW n \in Names, Intern(r, n) PROVE CellsInv' /\ HandlesOwned'
  <2>1. open' = open
    BY <1>10 DEF Intern
  <2>2. CASE Found(r, n)
    BY <1>1, <1>2, <1>3, <2>1, <2>2 DEF Found, CellsInv
  <2>3. ASSUME NEW c \in Cells, NewSymbol(r, n, c) PROVE CellsInv' /\ HandlesOwned'
    <3>1. /\ Getmem(c, "symbol") /\ UNCHANGED <<handle, finalize>>
          /\ \A d \in Cells \ {c} : slot'[d] = slot[d] /\ name'[d] = name[d]
          /\ name'[c] \in Names
      BY <1>2, <2>3 DEF NewSymbol
    <3>2. handle'[c] = Null
      BY <3>1, FreeCell DEF Getmem
    <3> QED BY <1>1, <1>2, <1>3, <2>1, <3>1, <3>2, NewCell
  <2> QED BY <1>10, <2>2, <2>3 DEF Intern
<1>11. ASSUME NEW s \in Registers, NEW i \in Slots, Load(r, s, i) PROVE CellsInv' /\ HandlesOwned'
  BY <1>1, <1>2, <1>3, <1>11 DEF Load, CellsInv
<1>12. ASSUME NEW s \in Registers, NEW i \in Slots, Store(r, i, s) PROVE CellsInv' /\ HandlesOwned'
  <2>1. /\ reg[r] \in Cells /\ kind[reg[r]] \in {"vector", "symbol"}
        /\ \A d \in Cells \ {reg[r]} : slot'[d] = slot[d]
        /\ UNCHANGED <<kind, name, handle, finalize, open>>
    BY <1>2, <1>12 DEF Store, HasSlot
  <2> QED BY <1>1, <1>2, <1>3, <2>1 DEF CellsInv
<1> QED BY <1>4, <1>5, <1>6, <1>7, <1>8, <1>9, <1>10, <1>11, <1>12

\* Steps that leave cells alone.
LEMMA SameCells ==
    ASSUME HeapInv, UNCHANGED <<object, finalizable_chain, open>>
    PROVE  CellsInv' /\ HandlesOwned'
<1>1. /\ kind' = kind /\ slot' = slot /\ name' = name /\ handle' = handle
      /\ finalize' = finalize /\ finalizable_chain' = finalizable_chain /\ open' = open
  BY DEF object
<1> QED BY <1>1 DEF HeapInv, CellsInv, HandlesOwned

\* So does every step of a collection and of finalization.
LEMMA GcCells ==
    ASSUME HeapInv, Gc
    PROVE  CellsInv' /\ HandlesOwned'
<1>1. CASE \/ GcStart \/ Mark \/ RootsMarked \/ MarkSymbol \/ BucketMarked \/ Swept
           \/ CheckpointWritten \/ Finalized
  BY <1>1, SameCells
     DEF GcStart, Mark, RootsMarked, MarkSymbol, BucketMarked, Swept, CheckpointWritten,
         Finalized, Collecting, object
<1>2. CASE Sweep
  <2> DEFINE c == Head(rest)
  <2>1. /\ c \in Cells /\ c \in Elements(rest) /\ kind[c] # "free"
        /\ c \notin Elements(all_objects) /\ c \notin Elements(finalizable_chain)
        /\ SweepFinalizable(c) \/ SweepGarbage(c) \/ SweepMarked(c)
    BY <1>2, Swept1
  <2>2. open' = open
    BY <1>2 DEF Sweep
  <2>3. /\ HandlesOwned /\ CellsInv /\ slot \in [Cells -> [Slots -> Refs]]
        /\ name \in [Cells -> Names \cup {Null}] /\ handle \in [Cells -> Handles \cup {Null}]
        /\ kind \in [Cells -> {"free", "vector", "symbol", "connection"}]
        /\ finalizable_chain \in Seq(Cells)
    BY DEF HeapInv, HeapTypeOK
  <2> HIDE DEF c
  <2>4. CASE SweepFinalizable(c)
    <3>1. /\ finalize' = finalize \ {c} /\ UNCHANGED <<kind, slot, handle, name>>
          /\ Elements(finalizable_chain') = Elements(finalizable_chain) \cup {c}
      BY <2>1, <2>3, <2>4, PushList DEF SweepFinalizable
    <3> QED BY <2>2, <2>3, <3>1 DEF CellsInv, HandlesOwned
  <2>5. CASE SweepGarbage(c)
    <3>1. c \notin finalize /\ UNCHANGED <<finalize, finalizable_chain>>
      BY <2>5 DEF SweepGarbage
    <3>2. handle[c] = Null
      BY <2>1, <2>3, <3>1 DEF CellsInv
    <3>3. /\ \A d \in Cells \ {c} : /\ kind'[d] = kind[d] /\ slot'[d] = slot[d] /\ name'[d] = name[d]
                                    /\ handle'[d] = handle[d]
          /\ kind'[c] = "free" /\ handle'[c] = Null /\ \A i \in Slots : slot'[c][i] = Null
      BY <2>1, <2>3, <2>5 DEF SweepGarbage
    <3>4. \A d \in Cells : handle'[d] = handle[d]
      BY <3>2, <3>3
    <3>5. CellsInv'
      <4> SUFFICES ASSUME NEW d \in Cells
                   PROVE  /\ kind'[d] = "symbol" => name'[d] \in Names
                          /\ kind'[d] = "connection" => \A i \in Slots \ {Handle} : slot'[d][i] = Null
                          /\ handle'[d] # Null => d \in finalize' \cup Elements(finalizable_chain')
                          /\ kind'[d] = "free" => \A i \in Slots : slot'[d][i] = Null
        BY DEF CellsInv
      <4>1. CASE d = c
        BY <3>3, <4>1
      <4>2. CASE d # c
        BY <2>3, <3>1, <3>3, <4>2 DEF CellsInv
      <4> QED BY <4>1, <4>2
    <3>6. HandlesOwned'
      BY <2>2, <2>3, <3>4 DEF HandlesOwned
    <3> QED BY <3>5, <3>6
  <2>6. CASE SweepMarked(c)
    BY <2>2, <2>6, SameCells DEF SweepMarked, CellsInv, HandlesOwned, HeapInv
  <2> QED BY <2>1, <2>4, <2>5, <2>6
<1>3. CASE Finalize
  <2> DEFINE c == Head(finalizable_chain)
  <2>1. /\ c \in Cells /\ kind[c] = "connection" /\ c \notin finalize /\ ConnClose(c)
        /\ Elements(finalizable_chain') = Elements(finalizable_chain) \ {c}
    BY <1>3, Finalized1
  <2>2. UNCHANGED <<kind, finalize, name>>
    BY <1>3 DEF Finalize, Collecting
  <2> HIDE DEF c
  <2>3. /\ open' = open \ {handle[c]}
        /\ \A d \in Cells : handle'[d] = IF d = c THEN Null ELSE handle[d]
        /\ \A d \in Cells, i \in Slots :
             slot'[d][i] = IF d = c /\ i = Handle THEN Null ELSE slot[d][i]
    BY <2>1, Closed
  <2>4. CellsInv'
    BY <2>1, <2>2, <2>3 DEF CellsInv, HeapInv
  <2>5. HandlesOwned'
    BY <2>1, <2>3 DEF HandlesOwned, HeapInv
  <2> QED BY <2>4, <2>5
<1> QED BY <1>1, <1>2, <1>3 DEF Gc

-----------------------------------------------------------------------------
(* The symbol table.                                                       *)

\* A bucket's links do not lead through cells whose links change.
LEMMA BucketAgrees ==
    ASSUME HeapTypeOK, HeapTypeOK', NEW c \in Cells, NEW start \in SUBSET Cells,
           c \notin Closure(start, NextOf), \A d \in Cells \ {c} : next'[d] = next[d]
    PROVE  Closure(start, NextOf') = Closure(start, NextOf)
<1>1. /\ NextOf \in [Cells -> SUBSET Cells] /\ NextOf' \in [Cells -> SUBSET Cells]
      /\ \A d \in Cells \ {c} : NextOf'[d] = NextOf[d]
  BY DEF NextOf
<1>2. \A x \in Closure(start, NextOf) : NextOf'[x] = NextOf[x]
  BY <1>1 DEF Closure
<1> HIDE DEF NextOf
<1> DEFINE e == NextOf
           f == NextOf'
<1>3. e \in [Cells -> SUBSET Cells] /\ f \in [Cells -> SUBSET Cells]
      /\ \A x \in Closure(start, e) : f[x] = e[x]
  BY <1>1, <1>2
<1> HIDE DEF e, f
<1>4. Closure(start, f) = Closure(start, e)
  BY <1>3, ClosureAgree
<1> QED BY <1>4 DEF e, f

\* A symbol put at the head of a bucket that it was not in, nor in any other.
LEMMA BucketsGain ==
    ASSUME HeapTypeOK, HeapTypeOK', NEW c \in Cells, NEW h \in Buckets,
           \A b \in Buckets : c \notin InBucket(b),
           next' = [next EXCEPT ![c] = symtab[h]], symtab' = [symtab EXCEPT ![h] = c]
    PROVE  \A b \in Buckets :
              InBucket(b)' = IF b = h THEN InBucket(b) \cup {c} ELSE InBucket(b)
<1> TAKE b \in Buckets
<1>1. /\ \A d \in Cells \ {c} : next'[d] = next[d]
      /\ next'[c] = symtab[h] /\ symtab'[h] = c /\ (b # h => symtab'[b] = symtab[b])
      /\ \A d \in Cells : NextOf'[d] = {next'[d]} \cap Cells
      /\ NextOf' \in [Cells -> SUBSET Cells]
  BY DEF HeapTypeOK, NextOf
<1>2. CASE b # h
  <2> DEFINE start == {symtab[b]} \cap Cells
  <2>1. c \notin Closure(start, NextOf) /\ start \in SUBSET Cells
    BY DEF InBucket
  <2>2. Closure(start, NextOf') = Closure(start, NextOf)
    <3> HIDE DEF start
    <3> QED BY <1>1, <2>1, BucketAgrees
  <2>3. {symtab'[b]} \cap Cells = start
    BY <1>1, <1>2
  <2> QED BY <1>2, <2>2, <2>3 DEF InBucket
<1>3. CASE b = h
  <2> DEFINE start == {symtab[h]} \cap Cells
             f == NextOf'
  <2>1. c \notin Closure(start, NextOf) /\ start \in SUBSET Cells
    BY DEF InBucket
  <2>2. Closure(start, f) = Closure(start, NextOf)
    <3> HIDE DEF start
    <3> QED BY <1>1, <2>1, BucketAgrees
  <2>3. f[c] = start /\ f \in [Cells -> SUBSET Cells] /\ {symtab'[h]} \cap Cells = {c}
    BY <1>1
  <2> HIDE DEF start, f
  <2>4. Closure({c}, f) = {c} \cup Closure(start, f)
    BY <2>3, ClosureStep
  <2> QED BY <1>3, <2>2, <2>3, <2>4 DEF InBucket, start, f
<1> QED BY <1>2, <1>3

\* Buckets do not change with links of cells that are in none.
LEMMA BucketsKeep ==
    ASSUME HeapTypeOK, HeapTypeOK', NEW c \in Cells, \A b \in Buckets : c \notin InBucket(b),
           \A d \in Cells \ {c} : next'[d] = next[d], symtab' = symtab
    PROVE  \A b \in Buckets : InBucket(b)' = InBucket(b)
<1> TAKE b \in Buckets
<1> DEFINE start == {symtab[b]} \cap Cells
<1>1. c \notin Closure(start, NextOf) /\ start \in SUBSET Cells
  BY DEF InBucket
<1>2. {symtab'[b]} \cap Cells = start
  OBVIOUS
<1> HIDE DEF start
<1>3. Closure(start, NextOf') = Closure(start, NextOf)
  BY <1>1, BucketAgrees
<1> QED BY <1>2, <1>3 DEF InBucket, start

\* Nor when neither links nor heads change.
LEMMA BucketsSame ==
    ASSUME next' = next, symtab' = symtab
    PROVE  \A b \in Buckets : InBucket(b)' = InBucket(b)
BY DEF InBucket, NextOf

\* The symbols on all_objects, by bucket.
LEMMA SymbolsListed ==
    ASSUME HeapInv, NEW c \in Cells, c \notin Elements(all_objects)
    PROVE  \A b \in Buckets : c \notin InBucket(b)
BY DEF HeapInv, SymtabInv

\* A new cell is at the head of all_objects.
LEMMA GetmemList ==
    ASSUME HeapTypeOK, NEW c \in Cells, NEW k, Getmem(c, k)
    PROVE  /\ Elements(all_objects') = Elements(all_objects) \cup {c}
           /\ Elements(all_objects) \subseteq Cells
<1>1. all_objects \in Seq(Cells) /\ all_objects' = Push(all_objects, c)
  BY DEF HeapTypeOK, Getmem
<1>2. Elements(all_objects) \subseteq Cells
  BY <1>1 DEF Elements
<1> QED BY <1>1, <1>2, PushList

\* Steps that change neither symbols nor the table.
LEMMA SameTable ==
    ASSUME HeapInv, next' = next, symtab' = symtab, name' = name,
           pc # "symtab" /\ pc' = "symtab" => bucket' = 1, pc' = "symtab" /\ pc = "symtab" => bucket' = bucket,
           pc = "symtab" => pc' = "symtab",
           {c \in Elements(all_objects') : kind'[c] = "symbol"} =
             {c \in Elements(all_objects) : kind[c] = "symbol"}
    PROVE  SymtabInv'
<1>1. \A b \in Buckets : InBucket(b)' = InBucket(b)
  BY BucketsSame
<1>2. \A b \in Buckets : (pc' = "symtab" /\ b < bucket') <=> (pc = "symtab" /\ b < bucket)
  BY DEF Buckets
<1>3. \A b \in Buckets :
        {c \in Elements(all_objects') : kind'[c] = "symbol" /\ HashOf[name'[c]] = b} =
        {c \in Elements(all_objects) : kind[c] = "symbol" /\ HashOf[name[c]] = b}
  OBVIOUS
<1> QED BY <1>1, <1>2, <1>3 DEF HeapInv, SymtabInv

\* What the program does keeps the symbol table exact and its symbols unique.
LEMMA ProgramTable ==
    ASSUME HeapInv, HeapTypeOK', Program
    PROVE  SymtabInv' /\ InternedOnce'
<1> SUFFICES ASSUME NEW r \in Registers,
                    \/ NewVector(r) \/ NewConnection(r) \/ CloseConnection(r) \/ CompileString(r)
                    \/ Unbind(r) \/ Drop(r)
                    \/ \E n \in Names : Intern(r, n)
                    \/ \E s \in Registers, i \in Slots : Load(r, s, i) \/ Store(r, i, s)
             PROVE  SymtabInv' /\ InternedOnce'
  BY DEF Program
<1> USE DEF gcvars, object
<1>1. Mutating /\ pc = "mutate" /\ pc' = pc
  BY DEF NewVector, NewConnection, CloseConnection, CompileString, Unbind, Drop, Intern, Load,
         Store, Mutating
<1>2. /\ SymtabInv /\ InternedOnce /\ kind \in [Cells -> {"free", "vector", "symbol", "connection"}]
      /\ all_objects \in Seq(Cells) /\ name \in [Cells -> Names \cup {Null}]
  BY DEF HeapInv, HeapTypeOK
<1>3. ASSUME NEW c \in Cells, NEW k \in {"vector", "connection"}, Getmem(c, k),
             UNCHANGED <<next, symtab, name>>
      PROVE  SymtabInv' /\ InternedOnce'
  <2>1. /\ \A d \in Cells : kind'[d] = IF d = c THEN k ELSE kind[d]
        /\ kind[c] = "free"
    BY <1>2, <1>3 DEF Getmem
  <2>2. Elements(all_objects') = Elements(all_objects) \cup {c} /\ Elements(all_objects) \subseteq Cells
    BY <1>3, GetmemList DEF HeapInv
  <2>3. {d \in Elements(all_objects') : kind'[d] = "symbol"} =
          {d \in Elements(all_objects) : kind[d] = "symbol"}
    BY <2>1, <2>2
  <2>4. SymtabInv'
    BY <1>1, <1>3, <2>3, SameTable
  <2> QED BY <1>2, <1>3, <2>1, <2>4 DEF InternedOnce
<1>4. ASSUME UNCHANGED <<kind, next, symtab, name, all_objects>>
      PROVE  SymtabInv' /\ InternedOnce'
  BY <1>1, <1>2, <1>4, SameTable DEF InternedOnce
<1>5. CASE NewVector(r) \/ NewConnection(r) \/ CompileString(r)
  BY <1>3, <1>5 DEF NewVector, NewConnection, CompileString
<1>6. CASE CloseConnection(r) \/ Unbind(r) \/ Drop(r)
  BY <1>4, <1>6 DEF CloseConnection, Unbind, Drop
<1>7. ASSUME NEW s \in Registers, NEW i \in Slots, Load(r, s, i) \/ Store(r, i, s)
      PROVE  SymtabInv' /\ InternedOnce'
  BY <1>4, <1>7 DEF Load, Store
<1>8. ASSUME NEW n \in Names, Intern(r, n) PROVE SymtabInv' /\ InternedOnce'
  <2>1. CASE Found(r, n)
    BY <1>4, <2>1 DEF Found
  <2>2. ASSUME NEW c \in Cells, NewSymbol(r, n, c), Matching(n) = {} PROVE SymtabInv' /\ InternedOnce'
    <3> DEFINE h == HashOf[n]
    <3>1. /\ Getmem(c, "symbol") /\ h \in Buckets
          /\ name' = [name EXCEPT ![c] = n] /\ next' = [next EXCEPT ![c] = symtab[h]]
          /\ symtab' = [symtab EXCEPT ![h] = c]
      BY <2>2, HeapAssumption DEF NewSymbol
    <3> HIDE DEF h
    <3>2. /\ \A d \in Cells : kind'[d] = IF d = c THEN "symbol" ELSE kind[d]
          /\ \A d \in Cells : name'[d] = IF d = c THEN n ELSE name[d]
          /\ kind[c] = "free" /\ c \notin Elements(all_objects)
      BY <1>2, <3>1, FreeCell DEF Getmem
    <3>3. Elements(all_objects') = Elements(all_objects) \cup {c} /\ Elements(all_objects) \subseteq Cells
      BY <3>1, GetmemList DEF HeapInv
    <3>4. \A b \in Buckets :
            InBucket(b)' = IF b = h THEN InBucket(b) \cup {c} ELSE InBucket(b)
      BY <3>1, <3>2, SymbolsListed, BucketsGain DEF HeapInv
    <3>5. \A b \in Buckets :
            InBucket(b) = {d \in Elements(all_objects) : kind[d] = "symbol" /\ HashOf[name[d]] = b}
      BY <1>1, <1>2 DEF SymtabInv
    <3>6. SymtabInv'
      <4> SUFFICES ASSUME NEW b \in Buckets
                   PROVE  InBucket(b)' = {d \in Elements(all_objects') :
                                            kind'[d] = "symbol" /\ HashOf[name'[d]] = b}
        BY <1>1 DEF SymtabInv
      <4>1. {d \in Elements(all_objects') : kind'[d] = "symbol" /\ HashOf[name'[d]] = b}
            = InBucket(b) \cup {d \in {c} : HashOf[n] = b}
        BY <3>2, <3>3, <3>5
      <4> QED BY <3>4, <4>1 DEF h
    <3>7. \A d \in Cells : kind[d] = "symbol" => name[d] # n
      <4> SUFFICES ASSUME NEW d \in Cells, kind[d] = "symbol", name[d] = n PROVE FALSE
        OBVIOUS
      <4>1. d \in Elements(all_objects)
        BY <1>1, EmptyList DEF HeapInv, ListsInv
      <4>2. d \in InBucket(h)
        BY <3>1, <3>5, <4>1 DEF h
      <4> QED BY <2>2, <4>2, HeapAssumption DEF Matching, h
    <3>8. InternedOnce'
      BY <1>2, <3>2, <3>7 DEF InternedOnce
    <3> QED BY <3>6, <3>8
  <2> QED BY <1>8, <2>1, <2>2 DEF Intern
<1> QED BY <1>5, <1>6, <1>7, <1>8

\* So does every step of a collection, which takes the table apart and relinks it.
LEMMA GcTable ==
    ASSUME HeapInv, HeapTypeOK', Gc
    PROVE  SymtabInv' /\ InternedOnce'
<1> USE DEF gcvars, object
<1>1. SymtabInv /\ InternedOnce /\ HeapTypeOK
  BY DEF HeapInv
<1>2. CASE \/ GcStart \/ Mark \/ RootsMarked \/ MarkSymbol \/ CheckpointWritten \/ Finalized \/ Swept
  <2>1. UNCHANGED <<next, symtab, name, all_objects, kind>>
    BY <1>2 DEF GcStart, Mark, RootsMarked, MarkSymbol, CheckpointWritten, Finalized, Swept, Collecting
  <2>2. /\ pc # "symtab" /\ pc' = "symtab" => bucket' = 1
        /\ pc' = "symtab" /\ pc = "symtab" => bucket' = bucket
        /\ pc = "symtab" => pc' = "symtab"
    BY <1>2 DEF GcStart, Mark, RootsMarked, MarkSymbol, CheckpointWritten, Finalized, Swept, Collecting
  <2> QED BY <1>1, <2>1, <2>2, SameTable DEF InternedOnce
<1>3. CASE BucketMarked
  <2>1. /\ pc = "symtab" /\ next' = next /\ kind' = kind /\ name' = name
        /\ symtab' = [symtab EXCEPT ![bucket] = Null] /\ bucket \in Buckets
    BY <1>1, <1>3 DEF BucketMarked, Collecting, HeapTypeOK
  <2>2. /\ NextOf' = NextOf
        /\ \A b \in Buckets : symtab'[b] = IF b = bucket THEN Null ELSE symtab[b]
    BY <1>1, <2>1 DEF NextOf, HeapTypeOK
  <2>3. \A b \in Buckets : InBucket(b)' = IF b = bucket THEN {} ELSE InBucket(b)
    <3> TAKE b \in Buckets
    <3>1. CASE b = bucket
      <4>1. {symtab'[b]} \cap Cells = {}
        BY <2>2, <3>1, HeapAssumption
      <4>2. NextOf \in [Cells -> SUBSET Cells]
        BY DEF NextOf
      <4> HIDE DEF NextOf
      <4>3. Closure({}, NextOf) = {}
        BY <4>2, ClosureOfNothing
      <4> QED BY <2>2, <3>1, <4>1, <4>3 DEF InBucket
    <3>2. CASE b # bucket
      BY <2>2, <3>2 DEF InBucket
    <3> QED BY <3>1, <3>2
  <2>4. \A b \in Buckets :
           InBucket(b) = IF b < bucket THEN {}
                         ELSE {c \in Elements(all_objects) : kind[c] = "symbol" /\ HashOf[name[c]] = b}
    BY <1>1, <2>1 DEF SymtabInv
  <2>5. CASE bucket < NumBuckets /\ bucket' = bucket + 1 /\ UNCHANGED <<pc, all_objects>>
    <3>1. \A b \in Buckets : b < bucket' <=> (b < bucket \/ b = bucket)
      BY <2>1, <2>5 DEF Buckets
    <3> QED BY <1>1, <2>1, <2>3, <2>4, <2>5, <3>1 DEF SymtabInv, InternedOnce
  <2>6. CASE bucket = NumBuckets /\ pc' = "sweep" /\ all_objects' = << >>
    <3>1. \A b \in Buckets : b < bucket \/ b = bucket
      BY <2>6, HeapAssumption DEF Buckets
    <3> QED BY <1>1, <2>1, <2>3, <2>4, <2>6, <3>1, EmptyList DEF SymtabInv, InternedOnce
  <2> QED BY <1>3, <2>5, <2>6 DEF BucketMarked
<1>4. CASE Sweep
  <2> DEFINE c == Head(rest)
  <2>1. /\ c \in Cells /\ c \in Elements(rest)
        /\ c \notin Elements(all_objects) /\ c \notin Elements(finalizable_chain)
        /\ SweepFinalizable(c) \/ SweepGarbage(c) \/ SweepMarked(c)
    BY <1>4, Swept1
  <2>2. pc = "sweep" /\ pc' = pc /\ bucket' = bucket
    BY <1>4 DEF Sweep
  <2> HIDE DEF c
  <2>3. \A b \in Buckets : c \notin InBucket(b)
    BY <2>1, SymbolsListed
  <2>4. \A b \in Buckets :
           InBucket(b) = {d \in Elements(all_objects) : kind[d] = "symbol" /\ HashOf[name[d]] = b}
    BY <1>1, <2>2 DEF SymtabInv
  <2>5. CASE SweepFinalizable(c)
    BY <1>1, <2>2, <2>5, SameTable DEF SweepFinalizable, InternedOnce
  <2>6. CASE SweepGarbage(c)
    <3>1. /\ \A d \in Cells \ {c} : /\ kind'[d] = kind[d] /\ name'[d] = name[d]
                                    /\ next'[d] = next[d]
          /\ kind'[c] = "free" /\ symtab' = symtab /\ all_objects' = all_objects
      BY <1>1, <2>1, <2>6 DEF SweepGarbage, HeapTypeOK
    <3>2. \A b \in Buckets : InBucket(b)' = InBucket(b)
      BY <1>1, <2>1, <2>3, <3>1, BucketsKeep
    <3>3. Elements(all_objects) \subseteq Cells \ {c}
      BY <1>1, <2>1 DEF HeapTypeOK, Elements
    <3>4. SymtabInv'
      BY <2>2, <2>4, <3>1, <3>2, <3>3 DEF SymtabInv
    <3>5. InternedOnce'
      BY <1>1, <3>1 DEF InternedOnce
    <3> QED BY <3>4, <3>5
  <2>7. CASE SweepMarked(c)
    <3>1. /\ UNCHANGED <<kind, name>>
          /\ Elements(all_objects') = Elements(all_objects) \cup {c}
      <4>1. all_objects \in Seq(Cells) /\ all_objects' = Push(all_objects, c)
        BY <1>1, <2>7 DEF HeapTypeOK, SweepMarked
      <4> QED BY <2>1, <2>7, <4>1, PushList DEF SweepMarked
    <3>2. CASE kind[c] = "symbol" /\ Relink(c)
      <4> DEFINE h == HashOf[name[c]]
      <4>1. h \in Buckets
        BY <2>1, <3>2, HeapAssumption DEF HeapInv, CellsInv
      <4>2. next' = [next EXCEPT ![c] = symtab[h]] /\ symtab' = [symtab EXCEPT ![h] = c]
        BY <3>2 DEF Relink
      <4> HIDE DEF h
      <4>3. \A b \in Buckets :
              InBucket(b)' = IF b = h THEN InBucket(b) \cup {c} ELSE InBucket(b)
        BY <1>1, <2>1, <2>3, <4>1, <4>2, BucketsGain
      <4>4. SymtabInv'
        <5> SUFFICES ASSUME NEW b \in Buckets
                     PROVE  InBucket(b)' = {d \in Elements(all_objects) \cup {c} :
                                              kind[d] = "symbol" /\ HashOf[name[d]] = b}
          BY <2>2, <3>1 DEF SymtabInv
        <5>1. CASE b = h
          BY <2>4, <3>2, <4>3, <5>1 DEF h
        <5>2. CASE b # h
          BY <2>4, <3>2, <4>3, <5>2 DEF h
        <5> QED BY <5>1, <5>2
      <4> QED BY <1>1, <3>1, <4>4 DEF InternedOnce
    <3>3. CASE kind[c] # "symbol" /\ UNCHANGED <<next, symtab>>
      <4>1. {d \in Elements(all_objects') : kind'[d] = "symbol"} =
              {d \in Elements(all_objects) : kind[d] = "symbol"}
        BY <3>1, <3>3
      <4> QED BY <1>1, <2>2, <3>1, <3>3, <4>1, SameTable DEF InternedOnce
    <3> QED BY <2>7, <3>2, <3>3 DEF SweepMarked
  <2> QED BY <2>1, <2>5, <2>6, <2>7
<1>5. CASE Finalize
  <2> DEFINE c == Head(finalizable_chain)
  <2>1. c \in Cells /\ kind[c] = "connection" /\ Elements(all_objects') = Elements(all_objects) \cup {c}
    BY <1>5, Finalized1
  <2>2. UNCHANGED <<kind, next, name, symtab, pc, bucket>> /\ pc = "finalize"
    BY <1>5 DEF Finalize, Collecting
  <2> HIDE DEF c
  <2>3. {d \in Elements(all_objects') : kind'[d] = "symbol"} =
          {d \in Elements(all_objects) : kind[d] = "symbol"}
    BY <2>1, <2>2
  <2> QED BY <1>1, <2>2, <2>3, SameTable DEF InternedOnce
<1> QED BY <1>2, <1>3, <1>4, <1>5 DEF Gc

-----------------------------------------------------------------------------
(* What a program can get at is live.                                      *)

\* Between collections: registers and slots hold what is on all_objects.
LEMMA LiveValues ==
    ASSUME HeapInv, pc \in {"mutate", "finalize", "checkpoint"}
    PROVE  /\ \A r \in Registers : reg[r] \in Elements(all_objects) \cup {Null}
           /\ \A d \in Elements(all_objects), i \in Slots :
                slot[d][i] \in Elements(all_objects) \cup {Null, Undefined}
           /\ Elements(all_objects) \subseteq Cells
<1>1. Elements(all_objects) \subseteq Cells
  BY DEF HeapInv, HeapTypeOK, Elements
<1>2. Roots \subseteq Elements(all_objects)
      /\ \A d \in Elements(all_objects) : Children(d) \subseteq Elements(all_objects)
  BY DEF HeapInv, LiveInv, Live
<1>3. \A r \in Registers : reg[r] \in Elements(all_objects) \cup {Null}
  BY <1>2 DEF HeapInv, HeapTypeOK, Roots
<1>4. ASSUME NEW d \in Elements(all_objects), NEW i \in Slots
      PROVE  slot[d][i] \in Elements(all_objects) \cup {Null, Undefined}
  <2>1. slot[d][i] \in Cells \cup {Null, Undefined}
    BY <1>1 DEF HeapInv, HeapTypeOK, Refs
  <2>2. slot[d][i] \in Cells => slot[d][i] \in Children(d)
    BY DEF Children
  <2> QED BY <1>2, <2>1, <2>2
<1> QED BY <1>1, <1>3, <1>4

\* Conversely, that is enough.
LEMMA ValuesLive ==
    ASSUME HeapTypeOK', ListsInv', pc' \notin {"sweep"},
           \A r \in Registers : reg'[r] \in Elements(all_objects') \cup {Null},
           \A d \in Elements(all_objects'), i \in Slots :
              slot'[d][i] \in Elements(all_objects') \cup {Null, Undefined}
    PROVE  LiveInv'
<1>1. Live' = Elements(all_objects')
  BY DEF Live
<1>2. \A c \in Cells : kind'[c] = "symbol" => c \in Elements(all_objects')
  BY EmptyList DEF ListsInv
<1>3. Roots' \subseteq Elements(all_objects')
  BY <1>2, HeapAssumption DEF Roots
<1>4. \A d \in Elements(all_objects') : Children(d)' \subseteq Elements(all_objects')
  BY HeapAssumption DEF Children
<1> QED BY <1>1, <1>3, <1>4 DEF LiveInv

\* What the program does leaves registers and slots with cells of all_objects.
LEMMA ProgramLive ==
    ASSUME HeapInv, HeapTypeOK', ListsInv', Program
    PROVE  LiveInv'
<1> SUFFICES ASSUME NEW r \in Registers,
                    \/ NewVector(r) \/ NewConnection(r) \/ CloseConnection(r) \/ CompileString(r)
                    \/ Unbind(r) \/ Drop(r)
                    \/ \E n \in Names : Intern(r, n)
                    \/ \E s \in Registers, i \in Slots : Load(r, s, i) \/ Store(r, i, s)
             PROVE  LiveInv'
  BY DEF Program
<1> USE DEF gcvars, object
<1>1. pc = "mutate" /\ pc' = pc
  BY DEF NewVector, NewConnection, CloseConnection, CompileString, Unbind, Drop, Intern, Load,
         Store, Mutating
<1> DEFINE E == Elements(all_objects)
<1>2. /\ \A q \in Registers : reg[q] \in E \cup {Null}
      /\ \A d \in E, i \in Slots : slot[d][i] \in E \cup {Null, Undefined}
      /\ E \subseteq Cells
  BY <1>1, LiveValues
<1>3. /\ HeapTypeOK /\ reg \in [Registers -> Cells \cup {Null}] /\ slot \in [Cells -> [Slots -> Refs]]
  BY DEF HeapInv, HeapTypeOK
<1>4. ASSUME all_objects' = all_objects,
             \A q \in Registers : reg'[q] \in E \cup {Null},
             \A d \in E, i \in Slots : slot'[d][i] \in E \cup {Null, Undefined}
      PROVE  LiveInv'
  BY <1>1, <1>4, ValuesLive
<1>5. ASSUME NEW c \in Cells, NEW k, Getmem(c, k),
             \A q \in Registers : reg'[q] \in E \cup {c, Null},
             \A d \in E \ {c} : slot'[d] = slot[d],
             \A i \in Slots : slot'[c][i] \in E \cup {Null, Undefined}
      PROVE  LiveInv'
  <2>1. Elements(all_objects') = E \cup {c}
    BY <1>3, <1>5, GetmemList
  <2> QED BY <1>1, <1>2, <1>5, <2>1, ValuesLive
<1> HIDE DEF E
<1>6. CASE NewVector(r)
  <2>1. PICK c \in Cells : Getmem(c, "vector") /\ Into(r, c)
    BY <1>6 DEF NewVector
  <2>2. \A i \in Slots : slot[c][i] = Null
    BY <2>1, FreeCell DEF Getmem
  <2> QED BY <1>2, <1>3, <1>5, <1>6, <2>1, <2>2 DEF NewVector, Into
<1>7. CASE NewConnection(r)
  <2>1. PICK c \in Cells : Getmem(c, "connection") /\ Into(r, c)
    BY <1>7 DEF NewConnection
  <2>2. \A i \in Slots : slot[c][i] = Null
    BY <2>1, FreeCell DEF Getmem
  <2> QED BY <1>2, <1>3, <1>5, <1>7, <2>1, <2>2 DEF NewConnection, Into
<1>8. CASE CloseConnection(r)
  <2>1. reg[r] \in Cells /\ ConnClose(reg[r]) /\ UNCHANGED <<all_objects, reg>>
    BY <1>8 DEF CloseConnection
  <2>2. \A d \in Cells, i \in Slots : slot'[d][i] \in {slot[d][i], Null}
    BY <2>1, Closed
  <2> QED BY <1>2, <1>4, <2>1, <2>2
<1>9. CASE CompileString(r)
  <2>1. PICK c \in Cells, rest_of \in {reg[r], Null} :
          Getmem(c, "connection") /\ slot' = [slot EXCEPT ![c][Handle] = rest_of]
    BY <1>9 DEF CompileString
  <2>2. \A i \in Slots : slot[c][i] = Null
    BY <2>1, FreeCell DEF Getmem
  <2>3. \A i \in Slots : slot'[c][i] \in {Null, rest_of}
    BY <1>3, <2>1, <2>2
  <2>4. \A d \in E \ {c} : slot'[d] = slot[d]
    BY <1>2, <1>3, <2>1
  <2>5. reg' = reg
    BY <1>9 DEF CompileString
  <2> QED BY <1>2, <1>5, <2>1, <2>3, <2>4, <2>5
<1>10. CASE Unbind(r)
  <2>1. UNCHANGED <<all_objects, reg>> /\ slot' = [slot EXCEPT ![reg[r]][Value] = Undefined]
        /\ reg[r] \in Cells
    BY <1>10 DEF Unbind
  <2>2. \A d \in E, i \in Slots : slot'[d][i] \in {slot[d][i], Undefined}
    BY <1>2, <1>3, <2>1
  <2> QED BY <1>2, <1>4, <2>1, <2>2
<1>11. CASE Drop(r)
  BY <1>2, <1>3, <1>4, <1>11 DEF Drop, Into
<1>12. ASSUME NEW n \in Names, Intern(r, n) PROVE LiveInv'
  <2>1. CASE Found(r, n)
    <3>1. PICK c \in FirstMatch(n) : Into(r, c)
      BY <2>1 DEF Found
    <3>2. c \in E
      BY <1>1, <3>1, HeapAssumption DEF FirstMatch, Matching, HeapInv, SymtabInv, E
    <3> QED BY <1>2, <1>3, <1>4, <2>1, <3>1, <3>2 DEF Found, Into
  <2>2. ASSUME NEW c \in Cells, NewSymbol(r, n, c) PROVE LiveInv'
    <3>1. Getmem(c, "symbol") /\ Into(r, c) /\ slot' = [slot EXCEPT ![c][Value] = Undefined]
      BY <2>2 DEF NewSymbol
    <3>2. \A i \in Slots : slot[c][i] = Null
      BY <3>1, FreeCell DEF Getmem
    <3>3. \A i \in Slots : slot'[c][i] \in {Null, Undefined}
      BY <1>3, <3>1, <3>2
    <3>4. \A d \in E \ {c} : slot'[d] = slot[d]
      BY <1>2, <1>3, <3>1
    <3> QED BY <1>2, <1>3, <1>5, <3>1, <3>3, <3>4 DEF Into
  <2> QED BY <1>12, <2>1, <2>2 DEF Intern
<1>13. ASSUME NEW s \in Registers, NEW i \in Slots, Load(r, s, i) PROVE LiveInv'
  <2>1. UNCHANGED <<all_objects, slot>> /\ reg' = [reg EXCEPT ![r] = slot[reg[s]][i]]
        /\ reg[s] \in Cells /\ slot[reg[s]][i] # Undefined
    BY <1>13 DEF Load, HasSlot, Into
  <2>2. reg[s] \in E
    BY <1>2, <2>1, HeapAssumption
  <2>3. slot[reg[s]][i] \in E \cup {Null}
    BY <1>2, <2>1, <2>2
  <2> QED BY <1>2, <1>3, <1>4, <2>1, <2>3
<1>14. ASSUME NEW s \in Registers, NEW i \in Slots, Store(r, i, s) PROVE LiveInv'
  <2>1. UNCHANGED <<all_objects, reg>> /\ slot' = [slot EXCEPT ![reg[r]][i] = reg[s]]
        /\ reg[r] \in Cells
    BY <1>14 DEF Store, HasSlot
  <2>2. \A d \in E, j \in Slots : slot'[d][j] \in {slot[d][j], reg[s]}
    BY <1>2, <1>3, <2>1
  <2> QED BY <1>2, <1>4, <2>1, <2>2
<1> QED BY <1>6, <1>7, <1>8, <1>9, <1>10, <1>11, <1>12, <1>13, <1>14

-----------------------------------------------------------------------------
(* Marking.                                                                *)

\* What the program does is done while nothing is being marked.
LEMMA ProgramMark ==
    ASSUME HeapInv, Program
    PROVE  MarkInv'
<1>1. Mutating
  BY DEF Program, NewVector, NewConnection, CloseConnection, CompileString, Unbind, Drop, Intern,
         Load, Store
<1>2. pc = "mutate" /\ pc' = pc /\ todo' = todo /\ marked' = marked
  BY <1>1 DEF Mutating, gcvars
<1> QED BY <1>2 DEF HeapInv, MarkInv

\* When the loop over the table begins, all symbols are still to be looked at.
LEMMA AllPending ==
    ASSUME HeapInv, RootsMarked
    PROVE  Pending' = {c \in Elements(all_objects) : kind[c] = "symbol"}
<1>1. /\ pc = "roots" /\ bucket' = 1 /\ cursor' = symtab[1] /\ symtab' = symtab /\ next' = next
  BY DEF RootsMarked, Collecting
<1>2. \A b \in Buckets : InBucket(b)' = InBucket(b)
  BY <1>1, BucketsSame
<1>3. Closure({cursor'} \cap Cells, NextOf') = InBucket(1)
  BY <1>1 DEF InBucket, NextOf
<1>4. 1 \in Buckets /\ \A b \in Buckets : b = 1 \/ b > 1
  BY HeapAssumption DEF Buckets
<1>5. Pending' = UNION {InBucket(b) : b \in Buckets}
  BY <1>1, <1>2, <1>3, <1>4 DEF Pending
<1>6. \A b \in Buckets :
         InBucket(b) = {c \in Elements(all_objects) : kind[c] = "symbol" /\ HashOf[name[c]] = b}
  BY <1>1 DEF HeapInv, SymtabInv
<1>7. \A c \in Elements(all_objects) : kind[c] = "symbol" => HashOf[name[c]] \in Buckets
  BY HeapAssumption DEF HeapInv, HeapTypeOK, CellsInv, Elements
<1> QED BY <1>5, <1>6, <1>7

\* Looking at a symbol takes it off what is to be looked at.
LEMMA OnePending ==
    ASSUME HeapInv, MarkSymbol
    PROVE  cursor \in Cells /\ Pending = {cursor} \cup Pending'
<1>1. /\ cursor \in Cells /\ cursor' = next[cursor] /\ UNCHANGED <<symtab, next, bucket>>
  BY DEF MarkSymbol, HeapInv, HeapTypeOK
<1>2. NextOf' = NextOf /\ \A b \in Buckets : InBucket(b)' = InBucket(b)
  BY <1>1, BucketsSame DEF NextOf
<1>3. NextOf \in [Cells -> SUBSET Cells] /\ NextOf[cursor] = {next[cursor]} \cap Cells
  BY <1>1 DEF NextOf
<1>4. {cursor} \cap Cells = {cursor}
  BY <1>1
<1> HIDE DEF NextOf
<1>5. Closure({cursor}, NextOf) = {cursor} \cup Closure({next[cursor]} \cap Cells, NextOf)
  BY <1>1, <1>3, ClosureStep
<1>6. Pending' = Closure({next[cursor]} \cap Cells, NextOf)
                 \cup UNION {InBucket(b) : b \in {d \in Buckets : d > bucket}}
  BY <1>1, <1>2 DEF Pending
<1>7. Pending = Closure({cursor}, NextOf) \cup UNION {InBucket(b) : b \in {d \in Buckets : d > bucket}}
  BY <1>4 DEF Pending
<1> QED BY <1>1, <1>5, <1>6, <1>7

\* At the end of a bucket the next ones remain.
LEMMA NextPending ==
    ASSUME HeapInv, BucketMarked
    PROVE  /\ bucket' = bucket + 1 => Pending' = Pending
           /\ bucket = NumBuckets => Pending = {}
<1>1. /\ cursor = Null /\ next' = next /\ bucket \in Buckets
      /\ symtab' = [symtab EXCEPT ![bucket] = Null]
  BY DEF BucketMarked, HeapInv, HeapTypeOK
<1>2. NextOf' = NextOf /\ NextOf \in [Cells -> SUBSET Cells]
  BY <1>1 DEF NextOf
<1>3. Closure({cursor} \cap Cells, NextOf) = {}
  <2>1. {cursor} \cap Cells = {}
    BY <1>1, HeapAssumption
  <2> HIDE DEF NextOf
  <2> QED BY <1>2, <2>1, ClosureOfNothing
<1>4. Pending = UNION {InBucket(b) : b \in {d \in Buckets : d > bucket}}
  BY <1>3 DEF Pending
<1>5. ASSUME bucket = NumBuckets PROVE Pending = {}
  BY <1>4, <1>5, HeapAssumption DEF Buckets
<1>6. ASSUME bucket' = bucket + 1 PROVE Pending' = Pending
  <2>1. bucket + 1 \in Buckets /\ cursor' = symtab[bucket + 1]
    BY <1>1, <1>6, HeapAssumption DEF BucketMarked, Buckets
  <2>2. \A b \in Buckets : b # bucket => symtab'[b] = symtab[b] /\ InBucket(b)' = InBucket(b)
    BY <1>1, <1>2 DEF InBucket, HeapInv, HeapTypeOK
  <2>3. Closure({cursor'} \cap Cells, NextOf') = InBucket(bucket + 1)
    BY <1>2, <2>1 DEF InBucket
  <2>4. {d \in Buckets : d > bucket} = {bucket + 1} \cup {d \in Buckets : d > bucket + 1}
    BY <1>1, <2>1 DEF Buckets
  <2>5. Pending' = InBucket(bucket + 1)
                   \cup UNION {InBucket(b)' : b \in {d \in Buckets : d > bucket + 1}}
    BY <1>6, <2>3 DEF Pending
  <2>6. \A d \in Buckets : d > bucket + 1 => d # bucket
    BY <1>1 DEF Buckets
  <2>7. UNION {InBucket(b)' : b \in {d \in Buckets : d > bucket + 1}}
        = UNION {InBucket(b) : b \in {d \in Buckets : d > bucket + 1}}
    BY <2>2, <2>6
  <2> QED BY <1>4, <2>4, <2>5, <2>7
<1> QED BY <1>5, <1>6

\* While the table is marked, Kept symbols and what registers hold are in all_objects.
LEMMA RootsListed ==
    ASSUME HeapInv, pc # "sweep"
    PROVE  /\ \A r \in Registers : reg[r] \in Cells => reg[r] \in Elements(all_objects)
           /\ \A c \in Cells : kind[c] = "symbol" /\ Kept(c) => c \in Elements(all_objects)
           /\ \A c \in Elements(all_objects) : Children(c) \subseteq Elements(all_objects)
BY DEF HeapInv, LiveInv, Live, Roots, Kept

\* Each step of marking keeps what is marked and what is still to be marked in step.
LEMMA GcMark ==
    ASSUME HeapInv, HeapTypeOK', Gc
    PROVE  MarkInv'
<1> USE DEF gcvars, object
<1>1. MarkInv /\ HeapTypeOK
  BY DEF HeapInv
<1>2. CASE GcStart
  <2>1. /\ pc = "mutate" /\ pc' = "roots" /\ todo' = {reg[r] : r \in Registers} \cap Cells
        /\ marked = {} /\ UNCHANGED <<marked, slot, reg, all_objects>>
    BY <1>1, <1>2 DEF GcStart, Collecting, MarkInv
  <2> QED BY <2>1, RootsListed DEF MarkInv
<1>3. CASE Mark
  <2>1. /\ UNCHANGED <<kind, slot, reg, all_objects, symtab, next, pc, bucket, cursor>>
        /\ pc \in {"roots", "symtab"}
    BY <1>3 DEF Mark
  <2>2. PICK c \in todo : /\ marked' = marked \cup {c}
                          /\ todo' = (todo \ {c}) \cup IF c \in marked THEN {} ELSE Children(c)
    BY <1>3 DEF Mark
  <2>3. Pending' = Pending
    BY <2>1 DEF Pending, InBucket, NextOf
  <2>4. \A d \in Cells : Children(d)' = Children(d) /\ Kept(d)' = Kept(d)
    BY <2>1 DEF Children, Kept
  <2>5. marked' \cup todo' = marked \cup todo \cup IF c \in marked THEN {} ELSE Children(c)
    BY <2>2
  <2>6. c \in Cells /\ c \in Elements(all_objects) /\ marked \subseteq Cells
    BY <1>1, <2>1, <2>2 DEF MarkInv, HeapTypeOK
  <2>7. Children(c) \subseteq Elements(all_objects)
    BY <2>1, <2>6, RootsListed
  <2>8. marked' \cup todo' \subseteq Elements(all_objects)
    BY <1>1, <2>1, <2>5, <2>7 DEF MarkInv
  <2>9. \A d \in marked' : Children(d) \subseteq marked' \cup todo'
    BY <1>1, <2>1, <2>2, <2>5 DEF MarkInv
  <2>10. marked \cup todo \subseteq marked' \cup todo'
    BY <2>5
  <2>11. /\ \A r \in Registers : reg[r] \in Cells => reg[r] \in marked' \cup todo'
         /\ pc = "symtab" =>
              /\ Pending \subseteq {d \in Elements(all_objects) : kind[d] = "symbol"}
              /\ \A d \in Cells : kind[d] = "symbol" /\ Kept(d) => d \in marked' \cup todo' \cup Pending
    BY <1>1, <2>1, <2>10 DEF MarkInv
  <2>12. marked' \subseteq Cells
    BY <2>2, <2>6
  <2> QED BY <2>1, <2>3, <2>4, <2>6, <2>8, <2>9, <2>11, <2>12 DEF MarkInv
<1>4. CASE RootsMarked
  <2>1. /\ pc = "roots" /\ pc' = "symtab" /\ todo = {}
        /\ UNCHANGED <<kind, slot, reg, all_objects, marked, todo>>
    BY <1>4 DEF RootsMarked, Collecting
  <2>2. Pending' = {c \in Elements(all_objects) : kind[c] = "symbol"}
    BY <1>4, AllPending
  <2>3. \A d \in Cells : Children(d)' = Children(d) /\ Kept(d)' = Kept(d)
    BY <2>1 DEF Children, Kept
  <2>4. \A d \in Cells : kind[d] = "symbol" /\ Kept(d) => d \in Pending'
    BY <2>1, <2>2, RootsListed
  <2>5. marked \subseteq Cells
    BY <1>1 DEF HeapTypeOK
  <2> QED BY <1>1, <2>1, <2>2, <2>3, <2>4, <2>5 DEF MarkInv
<1>5. CASE MarkSymbol
  <2>1. /\ pc = "symtab" /\ pc' = pc /\ todo = {}
        /\ todo' = IF cursor \notin marked /\ Kept(cursor) THEN {cursor} ELSE {}
        /\ UNCHANGED <<kind, slot, reg, all_objects, marked>>
    BY <1>5 DEF MarkSymbol, Collecting
  <2>2. cursor \in Cells /\ Pending = {cursor} \cup Pending'
    BY <1>5, OnePending
  <2>3. \A d \in Cells : Children(d)' = Children(d) /\ Kept(d)' = Kept(d)
    BY <2>1 DEF Children, Kept
  <2>4. marked \subseteq Cells
    BY <1>1 DEF HeapTypeOK
  <2>5. Pending \subseteq {d \in Elements(all_objects) : kind[d] = "symbol"}
    BY <1>1, <2>1 DEF MarkInv
  <2>6. \A d \in Cells : kind[d] = "symbol" /\ Kept(d) => d \in marked \cup todo' \cup Pending'
    BY <1>1, <2>1, <2>2 DEF MarkInv
  <2> QED BY <1>1, <2>1, <2>2, <2>3, <2>4, <2>5, <2>6 DEF MarkInv
<1>6. CASE BucketMarked
  <2>1. /\ pc = "symtab" /\ todo = {} /\ UNCHANGED <<kind, slot, reg, marked, todo>>
    BY <1>6 DEF BucketMarked, Collecting
  <2>2. /\ bucket' = bucket + 1 => Pending' = Pending
        /\ bucket = NumBuckets => Pending = {}
    BY <1>6, NextPending
  <2>3. \A d \in Cells : Children(d)' = Children(d) /\ Kept(d)' = Kept(d)
    BY <2>1 DEF Children, Kept
  <2>4. marked \subseteq Cells
    BY <1>1 DEF HeapTypeOK
  <2>5. CASE bucket' = bucket + 1 /\ UNCHANGED <<pc, all_objects>>
    BY <1>1, <2>1, <2>2, <2>3, <2>4, <2>5 DEF MarkInv
  <2>6. CASE pc' = "sweep" /\ rest' = all_objects
    BY <1>1, <2>1, <2>6 DEF MarkInv
  <2> QED BY <1>6, <2>5, <2>6 DEF BucketMarked
<1>7. CASE Sweep
  <2> DEFINE c == Head(rest)
  <2>1. /\ Elements(rest') = Elements(rest) \ {c}
        /\ SweepFinalizable(c) \/ SweepGarbage(c) \/ SweepMarked(c)
    BY <1>7, Swept1
  <2>2. pc = "sweep" /\ pc' = pc /\ todo' = todo
    BY <1>7 DEF Sweep
  <2> HIDE DEF c
  <2>3. c \notin marked' /\ marked' \subseteq marked
    BY <2>1 DEF SweepFinalizable, SweepGarbage, SweepMarked
  <2> QED BY <1>1, <2>1, <2>2, <2>3 DEF MarkInv
<1>8. CASE Swept
  <2>1. /\ pc = "sweep" /\ rest = << >> /\ pc' \in {"finalize", "checkpoint", "mutate"}
        /\ UNCHANGED <<marked, todo>>
    BY <1>8 DEF Swept, Collecting
  <2> QED BY <1>1, <2>1, EmptyList DEF MarkInv
<1>9. CASE CheckpointWritten \/ Finalize \/ Finalized
  <2>1. pc \in {"checkpoint", "finalize"} /\ pc' \in {"mutate", "finalize"} /\ UNCHANGED <<marked, todo>>
    BY <1>9 DEF CheckpointWritten, Finalize, Finalized, Collecting
  <2> QED BY <1>1, <2>1 DEF MarkInv
<1> QED BY <1>2, <1>3, <1>4, <1>5, <1>6, <1>7, <1>8, <1>9 DEF Gc

\* When marking is over, what is marked is closed and holds every root.
LEMMA MarkedLive ==
    ASSUME HeapInv, BucketMarked, bucket = NumBuckets
    PROVE  Roots \subseteq marked /\ \A c \in marked : Children(c) \subseteq marked
<1>1. pc = "symtab" /\ todo = {} /\ Pending = {}
  BY NextPending DEF BucketMarked, Collecting
<1> QED BY <1>1 DEF HeapInv, MarkInv, Roots, Kept

\* A collection keeps what registers and slots refer to.
LEMMA GcLive ==
    ASSUME HeapInv, HeapTypeOK', ListsInv', Gc
    PROVE  LiveInv'
<1> USE DEF gcvars, object
<1>1. LiveInv /\ HeapTypeOK /\ MarkInv
  BY DEF HeapInv
<1>2. ASSUME UNCHANGED <<kind, slot, reg>>, Live' = Live PROVE LiveInv'
  <2>1. Roots' = Roots /\ \A c \in Live : Children(c)' = Children(c)
    BY <1>2 DEF Roots, Children
  <2> QED BY <1>1, <1>2, <2>1 DEF LiveInv
<1>3. CASE \/ GcStart \/ Mark \/ RootsMarked \/ MarkSymbol \/ CheckpointWritten \/ Finalized
  <2>1. UNCHANGED <<kind, slot, reg, all_objects>> /\ pc # "sweep" /\ pc' # "sweep"
    BY <1>3 DEF GcStart, Mark, RootsMarked, MarkSymbol, CheckpointWritten, Finalized, Collecting
  <2> QED BY <1>2, <2>1 DEF Live
<1>4. CASE BucketMarked
  <2>1. UNCHANGED <<kind, slot, reg, marked>> /\ pc = "symtab"
    BY <1>4 DEF BucketMarked, Collecting
  <2>2. CASE UNCHANGED <<pc, all_objects>>
    BY <1>2, <2>1, <2>2 DEF Live
  <2>3. CASE bucket = NumBuckets /\ pc' = "sweep" /\ all_objects' = << >>
    <3>1. Live' = marked
      BY <2>1, <2>3, EmptyList DEF Live
    <3>2. Roots' = Roots /\ \A c \in marked : Children(c)' = Children(c)
      BY <2>1 DEF Roots, Children
    <3> QED BY <1>4, <2>3, <3>1, <3>2, MarkedLive DEF LiveInv
  <2> QED BY <1>4, <2>2, <2>3 DEF BucketMarked
<1>5. CASE Sweep
  <2> DEFINE c == Head(rest)
  <2>1. /\ c \in Cells /\ c \in Elements(rest) /\ c \notin Elements(all_objects)
        /\ SweepFinalizable(c) \/ SweepGarbage(c) \/ SweepMarked(c)
    BY <1>5, Swept1
  <2>2. pc = "sweep" /\ pc' = pc /\ reg' = reg
    BY <1>5 DEF Sweep
  <2> HIDE DEF c
  <2>3. CASE SweepFinalizable(c)
    BY <1>2, <2>2, <2>3 DEF SweepFinalizable, Live
  <2>4. CASE SweepMarked(c)
    <3>1. all_objects \in Seq(Cells) /\ all_objects' = Push(all_objects, c)
      BY <1>1, <2>4 DEF HeapTypeOK, SweepMarked
    <3>2. Elements(all_objects') = Elements(all_objects) \cup {c}
      BY <2>1, <3>1, PushList
    <3>3. Live' = Live
      BY <2>2, <2>4, <3>2 DEF Live, SweepMarked
    <3> QED BY <1>2, <2>2, <2>4, <3>3 DEF SweepMarked
  <2>5. CASE SweepGarbage(c)
    <3>1. Live' = Live /\ c \notin Live
      BY <2>1, <2>2, <2>5 DEF Live, SweepGarbage
    <3>2. /\ \A d \in Cells \ {c} : kind'[d] = kind[d] /\ slot'[d] = slot[d]
          /\ kind'[c] = "free"
      BY <1>1, <2>1, <2>5 DEF SweepGarbage, HeapTypeOK
    <3>3. Roots' \subseteq Roots
      BY <2>2, <3>2 DEF Roots
    <3>4. \A d \in Live : d \in Cells /\ Children(d)' = Children(d)
      <4>1. \A d \in Live : d \in Cells /\ d # c
        BY <1>1, <3>1 DEF Live, HeapTypeOK, Elements
      <4> QED BY <3>2, <4>1 DEF Children
    <3> QED BY <1>1, <3>1, <3>3, <3>4 DEF LiveInv
  <2> QED BY <2>1, <2>3, <2>4, <2>5
<1>6. CASE Swept
  <2>1. /\ pc = "sweep" /\ rest = << >> /\ pc' # "sweep"
        /\ UNCHANGED <<kind, slot, reg, all_objects>>
    BY <1>6 DEF Swept, Collecting
  <2>2. marked = {}
    BY <1>1, <2>1, EmptyList DEF MarkInv
  <2> QED BY <1>2, <2>1, <2>2 DEF Live
<1>7. CASE Finalize
  <2> DEFINE c == Head(finalizable_chain)
  <2>1. /\ c \in Cells /\ kind[c] = "connection"
        /\ Elements(all_objects') = Elements(all_objects) \cup {c} /\ ConnClose(c)
    BY <1>7, Finalized1
  <2>2. pc = "finalize" /\ pc' = pc /\ reg' = reg
    BY <1>7 DEF Finalize, Collecting
  <2> HIDE DEF c
  <2>3. \A d \in Cells, i \in Slots :
          slot'[d][i] = IF d = c /\ i = Handle THEN Null ELSE slot[d][i]
    BY <2>1, Closed
  <2>4. \A i \in Slots : slot'[c][i] = Null
    BY <2>1, <2>3 DEF HeapInv, CellsInv
  <2>5. /\ \A r \in Registers : reg[r] \in Elements(all_objects) \cup {Null}
        /\ \A d \in Elements(all_objects), i \in Slots :
             slot[d][i] \in Elements(all_objects) \cup {Null, Undefined}
        /\ Elements(all_objects) \subseteq Cells
    BY <2>2, LiveValues
  <2>6. \A d \in Elements(all_objects'), i \in Slots :
          slot'[d][i] \in Elements(all_objects') \cup {Null, Undefined}
    BY <2>1, <2>3, <2>4, <2>5
  <2> QED BY <2>1, <2>2, <2>5, <2>6, ValuesLive
<1> QED BY <1>3, <1>4, <1>5, <1>6, <1>7 DEF Gc

-----------------------------------------------------------------------------
(* What a program can get at, and nothing else.                            *)

\* The least set with the roots that references do not lead out of.
LEMMA ReachableLeast ==
    ASSUME HeapTypeOK
    PROVE  /\ Roots \subseteq Reachable /\ Reachable \subseteq Cells
           /\ \A c \in Reachable : Children(c) \subseteq Reachable
           /\ \A S \in SUBSET Cells :
                Roots \subseteq S /\ (\A x \in S : Children(x) \subseteq S) => Reachable \subseteq S
<1> DEFINE e == [c \in Cells |-> {slot[c][i] : i \in Slots} \cap Cells]
<1>1. e \in [Cells -> SUBSET Cells] /\ \A c \in Cells : e[c] = Children(c)
  BY DEF Children
<1>2. Roots \in SUBSET Cells /\ Reachable = Closure(Roots, e)
  BY DEF Roots, Reachable
<1> HIDE DEF e
<1>3. /\ Roots \subseteq Reachable /\ Reachable \subseteq Cells
      /\ \A x \in Reachable : e[x] \subseteq Reachable
      /\ \A S \in SUBSET Cells :
           Roots \subseteq S /\ (\A x \in S : e[x] \subseteq S) => Reachable \subseteq S
  BY <1>1, <1>2, ClosureLeast
<1> QED BY <1>1, <1>3

\* It is live.
LEMMA ReachableLive ==
    ASSUME HeapInv
    PROVE  Reachable \subseteq Live
<1>1. Live \in SUBSET Cells
  BY DEF HeapInv, HeapTypeOK, Live, Elements
<1> QED BY <1>1, ReachableLeast DEF HeapInv, LiveInv

\* It stays the same as long as its slots and the roots do.
LEMMA ReachableAgrees ==
    ASSUME HeapTypeOK, HeapTypeOK', Roots' = Roots,
           \A c \in Reachable : slot'[c] = slot[c]
    PROVE  Reachable' = Reachable
<1> DEFINE e == [c \in Cells |-> {slot[c][i] : i \in Slots} \cap Cells]
           f == [c \in Cells |-> {slot'[c][i] : i \in Slots} \cap Cells]
<1>1. /\ e \in [Cells -> SUBSET Cells] /\ f \in [Cells -> SUBSET Cells]
      /\ Reachable = Closure(Roots, e) /\ Reachable' = Closure(Roots', f)
      /\ Roots \in SUBSET Cells
  BY DEF Roots, Reachable
<1>2. \A c \in Cells : slot'[c] = slot[c] => f[c] = e[c]
  OBVIOUS
<1> HIDE DEF e, f
<1>3. \A x \in Closure(Roots, e) : f[x] = e[x]
  BY <1>1, <1>2, ReachableLeast
<1>4. Closure(Roots, f) = Closure(Roots, e)
  BY <1>1, <1>3, ClosureAgree
<1> QED BY <1>1, <1>4

\* A step in which neither kinds, slots nor registers change.
LEMMA ReachableSame ==
    ASSUME kind' = kind, slot' = slot, reg' = reg
    PROVE  Reachable' = Reachable
BY DEF Reachable, Roots

\* What is swept as garbage was not reachable, and its end changes nothing that is.
LEMMA GarbageUnreachable ==
    ASSUME HeapInv, HeapTypeOK', Sweep, SweepGarbage(Head(rest))
    PROVE  Head(rest) \notin Reachable /\ Reachable' = Reachable /\ Live' = Live
<1> DEFINE c == Head(rest)
<1>1. /\ c \in Cells /\ c \notin Elements(all_objects) /\ SweepGarbage(c)
  BY Swept1
<1>2. pc = "sweep" /\ pc' = pc /\ reg' = reg
  BY DEF Sweep
<1> HIDE DEF c
<1>3. c \notin Live /\ Live' = Live
  BY <1>1, <1>2 DEF Live, SweepGarbage
<1>4. c \notin Reachable
  BY <1>3, ReachableLive
<1>5. /\ \A d \in Cells \ {c} : kind'[d] = kind[d] /\ slot'[d] = slot[d]
      /\ kind'[c] = "free" /\ HeapTypeOK
  BY <1>1 DEF SweepGarbage, HeapInv, HeapTypeOK
<1>6. Roots \subseteq Reachable /\ Reachable \subseteq Cells
  BY <1>5, ReachableLeast
<1>7. Roots' = Roots
  <2>1. ASSUME NEW d \in Roots PROVE d \in Roots'
    <3>1. d \in Cells /\ d # c
      BY <1>4, <1>6
    <3> QED BY <1>2, <1>5, <3>1 DEF Roots
  <2>2. ASSUME NEW d \in Roots' PROVE d \in Roots
    <3>1. d \in Cells /\ (d = c => \E r \in Registers : reg[r] = d)
      BY <1>2, <1>5 DEF Roots
    <3> QED BY <1>2, <1>5, <3>1 DEF Roots
  <2> QED BY <2>1, <2>2
<1>8. Reachable' = Reachable
  BY <1>4, <1>5, <1>6, <1>7, ReachableAgrees
<1> QED BY <1>3, <1>4, <1>8 DEF c

\* What the program does is done while nothing is being swept.
LEMMA ProgramExact ==
    ASSUME HeapInv, Program
    PROVE  ExactInv'
<1>1. Mutating
  BY DEF Program, NewVector, NewConnection, CloseConnection, CompileString, Unbind, Drop, Intern,
         Load, Store
<1> QED BY <1>1 DEF Mutating, ExactInv

\* Sweeping and finalizing free what cannot be reached, and only that.
LEMMA GcExact ==
    ASSUME HeapInv, HeapTypeOK', Gc
    PROVE  ExactInv'
<1> USE DEF gcvars, object
<1>1. ExactInv /\ HeapTypeOK /\ MarkInv
  BY DEF HeapInv
<1>2. /\ Roots \subseteq Reachable /\ Reachable \subseteq Cells
      /\ \A c \in Reachable : Children(c) \subseteq Reachable
  BY <1>1, ReachableLeast
<1>3. CASE GcStart
  <2>1. /\ pc = "mutate" /\ pc' = "roots" /\ todo' = {reg[r] : r \in Registers} \cap Cells
        /\ UNCHANGED <<kind, slot, reg, marked>> /\ marked = {}
    BY <1>1, <1>3 DEF GcStart, Collecting, MarkInv
  <2>2. todo' \subseteq Roots
    BY <2>1 DEF Roots
  <2>3. Reachable' = Reachable
    BY <2>1, ReachableSame
  <2> QED BY <1>2, <2>1, <2>2, <2>3 DEF ExactInv
<1>4. CASE Mark
  <2>1. UNCHANGED <<kind, slot, reg, pc>> /\ pc \in {"roots", "symtab"}
    BY <1>4 DEF Mark
  <2>2. marked' \cup todo' \subseteq marked \cup todo \cup UNION {Children(c) : c \in todo}
    BY <1>4 DEF Mark
  <2>3. Reachable' = Reachable
    BY <2>1, ReachableSame
  <2>4. marked \cup todo \subseteq Reachable
    BY <1>1, <2>1 DEF ExactInv
  <2>5. marked' \cup todo' \subseteq Reachable
    BY <1>2, <2>2, <2>4
  <2> QED BY <2>1, <2>3, <2>5 DEF ExactInv
<1>5. CASE RootsMarked
  <2>1. /\ UNCHANGED <<kind, slot, reg, marked, todo>> /\ pc = "roots" /\ pc' = "symtab"
    BY <1>5 DEF RootsMarked, Collecting
  <2>2. Reachable' = Reachable
    BY <2>1, ReachableSame
  <2> QED BY <1>1, <2>1, <2>2 DEF ExactInv
<1>6. CASE MarkSymbol
  <2>1. /\ UNCHANGED <<kind, slot, reg, marked>> /\ pc = "symtab" /\ pc' = pc
        /\ todo' = IF cursor \notin marked /\ Kept(cursor) THEN {cursor} ELSE {}
    BY <1>6 DEF MarkSymbol, Collecting
  <2>2. Reachable' = Reachable
    BY <2>1, ReachableSame
  <2>3. cursor \in Cells /\ cursor \in Pending
    BY <1>6, OnePending
  <2>4. kind[cursor] = "symbol"
    BY <1>1, <2>1, <2>3 DEF MarkInv
  <2>5. Kept(cursor) => cursor \in Roots
    BY <2>3, <2>4 DEF Kept, Roots
  <2> QED BY <1>1, <1>2, <2>1, <2>2, <2>5 DEF ExactInv
<1>7. CASE BucketMarked
  <2>1. UNCHANGED <<kind, slot, reg, marked, todo>> /\ pc = "symtab" /\ pc' \in {"symtab", "sweep"}
    BY <1>7 DEF BucketMarked, Collecting
  <2>2. Reachable' = Reachable
    BY <2>1, ReachableSame
  <2>3. ASSUME pc' = "sweep" PROVE Live' \subseteq Reachable
    <3>1. all_objects' = << >>
      BY <1>7, <2>1, <2>3 DEF BucketMarked
    <3>2. Live' = marked
      BY <2>1, <2>3, <3>1, EmptyList DEF Live
    <3> QED BY <1>1, <2>1, <3>2 DEF ExactInv
  <2> QED BY <1>1, <2>1, <2>2, <2>3 DEF ExactInv
<1>8. CASE Sweep
  <2> DEFINE c == Head(rest)
  <2>1. /\ c \in Cells
        /\ SweepFinalizable(c) \/ SweepGarbage(c) \/ SweepMarked(c)
    BY <1>8, Swept1
  <2>2. pc = "sweep" /\ pc' = pc /\ reg' = reg
    BY <1>8 DEF Sweep
  <2>3. CASE SweepGarbage(c)
    BY <1>1, <1>8, <2>2, <2>3, GarbageUnreachable DEF ExactInv
  <2> HIDE DEF c
  <2>4. CASE SweepFinalizable(c) \/ SweepMarked(c)
    <3>1. UNCHANGED <<kind, slot>>
      BY <2>4 DEF SweepFinalizable, SweepMarked
    <3>2. Reachable' = Reachable
      BY <2>2, <3>1, ReachableSame
    <3>3. CASE SweepFinalizable(c)
      BY <1>1, <2>2, <3>2, <3>3 DEF ExactInv, Live, SweepFinalizable
    <3>4. CASE SweepMarked(c)
      <4>1. all_objects \in Seq(Cells) /\ all_objects' = Push(all_objects, c)
        BY <1>1, <3>4 DEF HeapTypeOK, SweepMarked
      <4>2. Elements(all_objects') = Elements(all_objects) \cup {c}
        BY <2>1, <4>1, PushList
      <4>3. Live' = Live
        BY <2>2, <3>4, <4>2 DEF Live, SweepMarked
      <4> QED BY <1>1, <2>2, <3>2, <4>3 DEF ExactInv
    <3> QED BY <2>4, <3>3, <3>4
  <2> QED BY <2>1, <2>3, <2>4
<1>9. CASE Swept
  <2>1. /\ pc = "sweep" /\ pc' \in {"finalize", "checkpoint", "mutate"}
        /\ UNCHANGED <<kind, slot, reg, all_objects, handle>>
    BY <1>9 DEF Swept, Collecting
  <2>2. Reachable' = Reachable
    BY <2>1, ReachableSame
  <2>3. Elements(all_objects) \subseteq Reachable
    BY <1>1, <2>1 DEF ExactInv, Live
  <2> QED BY <2>1, <2>2, <2>3 DEF ExactInv
<1>10. CASE CheckpointWritten \/ Finalized
  BY <1>10 DEF CheckpointWritten, Finalized, ExactInv
<1>11. CASE Finalize
  <2> DEFINE c == Head(finalizable_chain)
  <2>1. /\ c \in Cells /\ kind[c] = "connection" /\ c \notin Elements(all_objects)
        /\ Elements(all_objects') = Elements(all_objects) \cup {c} /\ ConnClose(c)
    BY <1>11, Finalized1
  <2>2. pc = "finalize" /\ pc' = pc /\ reg' = reg /\ kind' = kind
    BY <1>11 DEF Finalize, Collecting
  <2> HIDE DEF c
  <2>3. /\ \A d \in Cells : handle'[d] = IF d = c THEN Null ELSE handle[d]
        /\ \A d \in Cells, i \in Slots :
             slot'[d][i] = IF d = c /\ i = Handle THEN Null ELSE slot[d][i]
    BY <2>1, Closed
  <2>4. Reachable \subseteq Elements(all_objects)
    BY <2>2, ReachableLive DEF Live
  <2>5. \A d \in Cells \ {c} : slot'[d] = slot[d]
    BY <1>1, <2>1 DEF ConnClose, HeapTypeOK
  <2>6. Roots' = Roots
    BY <2>1, <2>2, <2>5 DEF Roots
  <2>7. Reachable' = Reachable
    BY <1>1, <1>2, <2>1, <2>4, <2>5, <2>6, ReachableAgrees
  <2>8. Elements(all_objects) \subseteq Cells
    BY <1>1 DEF HeapTypeOK, Elements
  <2> QED BY <1>1, <2>1, <2>2, <2>3, <2>7, <2>8 DEF ExactInv
<1> QED BY <1>3, <1>4, <1>5, <1>6, <1>7, <1>8, <1>9, <1>10, <1>11 DEF Gc

-----------------------------------------------------------------------------
(* The inductive invariant.                                                *)

\* It holds at the start.
LEMMA InitInv == HeapInit => HeapInv
<1> SUFFICES ASSUME HeapInit PROVE HeapInv
  OBVIOUS
<1>1. HeapTypeOK
  BY InitTypes
<1>2. /\ all_objects = << >> /\ finalizable_chain = << >> /\ rest = << >> /\ pc = "mutate"
      /\ todo = {} /\ marked = {} /\ finalize = {} /\ open = {}
      /\ kind = [c \in Cells |-> "free"] /\ slot = [c \in Cells |-> [i \in Slots |-> Null]]
      /\ handle = [c \in Cells |-> Null]
  BY DEF HeapInit
<1>3. ListsInv
  BY <1>2, EmptyList DEF ListsInv
<1>4. CellsInv /\ HandlesOwned /\ InternedOnce
  BY <1>2 DEF CellsInv, HandlesOwned, InternedOnce
<1>5. LiveInv
  <2>1. Roots = {} /\ Live = {}
    BY <1>2, EmptyList, HeapAssumption DEF HeapInit, Roots, Live
  <2> QED BY <2>1 DEF LiveInv
<1>6. MarkInv /\ ExactInv
  BY <1>2 DEF MarkInv, ExactInv
<1>7. SymtabInv
  <2>1. \A b \in Buckets : {symtab[b]} \cap Cells = {}
    BY HeapAssumption DEF HeapInit
  <2>2. NextOf \in [Cells -> SUBSET Cells]
    BY DEF NextOf
  <2> HIDE DEF NextOf
  <2>3. \A b \in Buckets : InBucket(b) = {}
    BY <2>1, <2>2, ClosureOfNothing DEF InBucket
  <2> QED BY <1>2, <2>3, EmptyList DEF SymtabInv
<1> QED BY <1>1, <1>3, <1>4, <1>5, <1>6, <1>7 DEF HeapInv

\* It is kept by every step of the program and of a collection.
LEMMA NextInv == HeapInv /\ [HeapNext]_heapvars => HeapInv'
<1> SUFFICES ASSUME HeapInv, [HeapNext]_heapvars PROVE HeapInv'
  OBVIOUS
<1>1. CASE Program
  BY <1>1, ProgramTypes, ProgramLists, ProgramCells, ProgramLive, ProgramMark, ProgramExact,
     ProgramTable DEF HeapInv
<1>2. CASE Gc
  BY <1>2, GcTypes, GcLists, GcCells, GcLive, GcMark, GcExact, GcTable DEF HeapInv
<1>3. CASE UNCHANGED heapvars
  <2> USE <1>3 DEF heapvars, object, gcvars
  <2>1. HeapTypeOK' /\ ListsInv' /\ CellsInv' /\ HandlesOwned' /\ InternedOnce'
    BY SameLists, SameCells DEF HeapInv, HeapTypeOK, InternedOnce, ListsInv
  <2>2. /\ Roots' = Roots /\ Live' = Live /\ Reachable' = Reachable /\ Pending' = Pending
        /\ \A b \in Buckets : InBucket(b)' = InBucket(b)
        /\ \A c \in Cells : Children(c)' = Children(c) /\ Kept(c)' = Kept(c)
    BY DEF Roots, Live, Reachable, Pending, InBucket, NextOf, Children, Kept
  <2>3. Live \subseteq Cells /\ marked \subseteq Cells
    BY DEF HeapInv, HeapTypeOK, Live, Elements
  <2>4. LiveInv' /\ ExactInv' /\ SymtabInv'
    BY <2>2, <2>3 DEF HeapInv, LiveInv, ExactInv, SymtabInv
  <2>5. MarkInv'
    BY <2>2, <2>3 DEF HeapInv, MarkInv
  <2> QED BY <2>1, <2>4, <2>5 DEF HeapInv
<1> QED BY <1>1, <1>2, <1>3 DEF HeapNext

\* What a sweep frees is garbage.
LEMMA SweepFrees ==
    ASSUME HeapInv, HeapInv', HeapNext, NEW d \in Cells, pc = "sweep",
           kind[d] # "free", kind'[d] = "free"
    PROVE  d \notin Reachable
<1>1. CASE Sweep
  <2>1. SweepGarbage(Head(rest)) /\ d = Head(rest)
    BY <1>1 DEF Sweep, SweepFinalizable, SweepGarbage, SweepMarked, HeapInv, HeapTypeOK
  <2> QED BY <1>1, <2>1, GarbageUnreachable DEF HeapInv
<1>2. CASE Swept
  BY <1>2 DEF Swept
<1> QED BY <1>1, <1>2
      DEF HeapNext, Program, Gc, NewVector, NewConnection, CloseConnection, CompileString, Unbind,
          Drop, Intern, Load, Store, Mutating, GcStart, Mark, RootsMarked, MarkSymbol,
          BucketMarked, CheckpointWritten, Finalize, Finalized, Collecting

\* When a sweep is over, what is left is reachable.
LEMMA SweepLeaves ==
    ASSUME HeapInv, HeapInv', HeapNext, pc = "sweep", pc' # "sweep"
    PROVE  Elements(all_objects') = Reachable'
<1>1. Swept
  BY DEF HeapNext, Program, Gc, NewVector, NewConnection, CloseConnection, CompileString, Unbind,
         Drop, Intern, Load, Store, Mutating, GcStart, Mark, RootsMarked, MarkSymbol,
         BucketMarked, Sweep, CheckpointWritten, Finalize, Finalized, Collecting
<1>2. rest = << >> /\ UNCHANGED <<kind, slot, reg, all_objects>>
  BY <1>1 DEF Swept, Collecting
<1>3. Reachable' = Reachable
  BY <1>2, ReachableSame
<1>4. Live = Elements(all_objects)
  BY <1>2, EmptyList DEF Live, HeapInv, MarkInv
<1>5. Live \subseteq Reachable /\ Reachable \subseteq Live
  BY ReachableLive DEF HeapInv, ExactInv
<1> QED BY <1>2, <1>3, <1>4, <1>5

\* What the finalizer closes is garbage.
LEMMA FinalizerCloses ==
    ASSUME HeapInv, HeapInv', HeapNext, NEW d \in Cells, pc = "finalize",
           handle[d] # handle'[d]
    PROVE  d \notin Reachable
<1>1. Finalize
  BY DEF HeapNext, Program, Gc, NewVector, NewConnection, CloseConnection, CompileString, Unbind,
         Drop, Intern, Load, Store, Mutating, GcStart, Mark, RootsMarked, MarkSymbol,
         BucketMarked, Sweep, Swept, CheckpointWritten, Finalized, Collecting
<1> DEFINE c == Head(finalizable_chain)
<1>2. c \in Cells /\ c \notin Elements(all_objects) /\ ConnClose(c)
  BY <1>1, Finalized1
<1> HIDE DEF c
<1>3. d = c
  BY <1>2, Closed
<1> QED BY <1>2, <1>3, ReachableLive DEF Live

\* When it is done, what it leaves open is reachable.
LEMMA FinalizerLeaves ==
    ASSUME HeapInv, HeapInv', HeapNext, NEW d \in Cells,
           pc = "finalize", pc' = "mutate", handle[d] # Null
    PROVE  d \in Reachable
<1>1. Finalized
  BY DEF HeapNext, Program, Gc, NewVector, NewConnection, CloseConnection, CompileString, Unbind,
         Drop, Intern, Load, Store, Mutating, GcStart, Mark, RootsMarked, MarkSymbol,
         BucketMarked, Sweep, Swept, CheckpointWritten, Finalize, Collecting, gcvars
<1>2. d \in finalize \cup Elements(finalizable_chain) /\ finalizable_chain = << >> /\ rest = << >>
  BY <1>1 DEF Finalized, HeapInv, CellsInv, ListsInv
<1>3. d \in Elements(all_objects)
  BY <1>2, EmptyList DEF HeapInv, ListsInv
<1> QED BY <1>3 DEF HeapInv, ExactInv

\* The invariant of the collector, which the theorems below follow from.
THEOREM HeapInvariance == HeapSpec => []HeapInv
BY InitInv, NextInv, PTL DEF HeapSpec

\* For any program and any heap, symbol table and number of registers:

\* between collections no reference that a program can follow dangles or leads
\* to a connection that waits for its finalizer.
THEOREM NothingDangles == HeapSpec => []NoDangling
<1>1. HeapInv => NoDangling
  BY DEF HeapInv, LiveInv, Live, NoDangling
<1> QED BY <1>1, HeapInvariance, PTL

\* the symbol table holds exactly the symbols, each in its bucket.
THEOREM TableExact == HeapSpec => []SymtabExact
<1>1. HeapInv => SymtabExact
  BY DEF HeapInv, SymtabInv, SymtabExact
<1> QED BY <1>1, HeapInvariance, PTL

\* symbols are unique, so that they can be compared by address.
THEOREM SymbolsUnique == HeapSpec => []InternedOnce
<1>1. HeapInv => InternedOnce
  BY DEF HeapInv
<1> QED BY <1>1, HeapInvariance, PTL

\* every open descriptor has exactly one connection.
THEOREM DescriptorsOwned == HeapSpec => []HandlesOwned
<1>1. HeapInv => HandlesOwned
  BY DEF HeapInv
<1> QED BY <1>1, HeapInvariance, PTL

\* no step frees what a program can get at.
THEOREM CollectorSafe == HeapSpec => NothingLiveFreed
<1>1. HeapInv /\ HeapInv' /\ [HeapNext]_heapvars =>
        [\A c \in Cells : pc = "sweep" /\ kind[c] # "free" /\ kind'[c] = "free" => c \notin Reachable]_heapvars
  BY SweepFrees
<1> QED BY <1>1, HeapInvariance, PTL DEF HeapSpec, NothingLiveFreed

\* every collection frees all the rest.
THEOREM CollectorExact == HeapSpec => NoFloatingGarbage
<1>1. HeapInv /\ HeapInv' /\ [HeapNext]_heapvars =>
        [pc = "sweep" /\ pc' # "sweep" => Elements(all_objects') = Reachable']_heapvars
  BY SweepLeaves
<1> QED BY <1>1, HeapInvariance, PTL DEF HeapSpec, NoFloatingGarbage

\* the finalizer closes no connection that a program can get at.
THEOREM FinalizerSafe == HeapSpec => OnlyGarbageClosed
<1>1. HeapInv /\ HeapInv' /\ [HeapNext]_heapvars =>
        [\A c \in Cells : pc = "finalize" /\ handle[c] # handle'[c] => c \notin Reachable]_heapvars
  BY FinalizerCloses
<1> QED BY <1>1, HeapInvariance, PTL DEF HeapSpec, OnlyGarbageClosed

\* when the server goes to sleep, no connection that is garbage is open.
THEOREM FinalizerComplete == HeapSpec => IdleClosesGarbage
<1>1. HeapInv /\ HeapInv' /\ [HeapNext]_heapvars =>
        [pc = "finalize" /\ pc' = "mutate" =>
           \A c \in Cells : handle[c] # Null => c \in Reachable]_heapvars
  BY FinalizerLeaves
<1> QED BY <1>1, HeapInvariance, PTL DEF HeapSpec, IdleClosesGarbage

-----------------------------------------------------------------------------
(* save and load, call by call.                                            *)

\* The successive states of save, and of load.
IsSaving(f, order) ==
    f = [k \in 0..SaveCalls |-> IF k = 0 THEN SaveStart(order) ELSE SaveStep(f[k - 1])]
IsLoading(f, tokens, nroots) ==
    f = [k \in 0..Len(tokens) |->
           IF k = 0 THEN LoadStart(nroots) ELSE LoadToken(f[k - 1], tokens[k])]

LEMMA BoundsAreNat ==
    /\ Cardinality(Cells) \in Nat /\ Cardinality(Registers) \in Nat
    /\ NumSlots \in Nat \ {0} /\ NumBuckets \in Nat \ {0}
    /\ NumRoots \in Nat /\ SaveCalls \in Nat
<1>1. /\ Cardinality(Cells) \in Nat /\ Cardinality(Registers) \in Nat
      /\ NumSlots \in Nat \ {0} /\ NumBuckets \in Nat \ {0}
  BY HeapAssumption, PersistAssumption, FS_CardinalityType
<1>2. NumRoots \in Nat /\ NumSlots + 1 \in Nat
  BY <1>1 DEF NumRoots
<1>3. Cardinality(Cells) * (NumSlots + 1) \in Nat
  BY <1>1, <1>2
<1> QED BY <1>1, <1>2, <1>3 DEF SaveCalls

\* File is the last state of save.
LEMMA SavingExists ==
    ASSUME NEW order
    PROVE  \E f : IsSaving(f, order) /\ File(order) = f[SaveCalls]
<1> DEFINE Body(f, k) == IF k = 0 THEN SaveStart(order) ELSE SaveStep(f[k - 1])
           U == {n \in Nat : \E f : f = [k \in 0..n |-> Body(f, k)]}
<1>1. 0 \in U
  <2> DEFINE g == [k \in 0..0 |-> SaveStart(order)]
  <2>1. g = [k \in 0..0 |-> Body(g, k)]
    OBVIOUS
  <2> HIDE DEF g, Body
  <2> QED BY <2>1
<1>2. ASSUME NEW n \in Nat, n \in U PROVE n + 1 \in U
  <2>1. PICK f : f = [k \in 0..n |-> Body(f, k)]
    BY <1>2
  <2> DEFINE g == [k \in 0..(n + 1) |-> IF k = n + 1 THEN SaveStep(f[n]) ELSE f[k]]
  <2>2. ASSUME NEW k \in 0..(n + 1) PROVE g[k] = Body(g, k)
    <3>1. CASE k = n + 1
      <4>1. k # 0 /\ k - 1 = n /\ n \in 0..(n + 1) /\ n # n + 1
        BY <3>1
      <4> QED BY <3>1, <4>1
    <3>2. CASE k # n + 1 /\ k # 0
      <4>1. k \in 0..n /\ k - 1 \in 0..(n + 1) /\ k - 1 # n + 1
        BY <3>2
      <4>2. f[k] = SaveStep(f[k - 1])
        BY <2>1, <3>2, <4>1
      <4> QED BY <3>2, <4>1, <4>2
    <3>3. CASE k = 0
      <4>1. 0 \in 0..n /\ 0 # n + 1
        OBVIOUS
      <4>2. f[0] = SaveStart(order)
        BY <2>1, <4>1
      <4> QED BY <3>3, <4>1, <4>2
    <3> QED BY <3>1, <3>2, <3>3
  <2>3. g = [k \in 0..(n + 1) |-> g[k]]
    OBVIOUS
  <2> HIDE DEF g, Body
  <2>4. g = [k \in 0..(n + 1) |-> Body(g, k)]
    BY <2>2, <2>3
  <2>5. \E f1 : f1 = [k \in 0..(n + 1) |-> Body(f1, k)]
    BY <2>4
  <2> QED BY <2>5
<1>3. SaveCalls \in U
  <2> HIDE DEF U
  <2> QED BY <1>1, <1>2, InductionOnNat, BoundsAreNat
<1>4. \E f : f = [k \in 0..SaveCalls |-> Body(f, k)]
  BY <1>3
<1> DEFINE g == CHOOSE f : f = [k \in 0..SaveCalls |-> Body(f, k)]
<1>5. g = [k \in 0..SaveCalls |-> Body(g, k)]
  <2> HIDE DEF Body
  <2> QED BY <1>4
<1>6. IsSaving(g, order)
  <2> HIDE DEF g
  <2> QED BY <1>5 DEF IsSaving
<1>7. File(order) = g[SaveCalls]
  BY DEF File
<1> HIDE DEF g
<1> QED BY <1>6, <1>7

\* Loaded is the last state of load.
LEMMA LoadingExists ==
    ASSUME NEW tokens, NEW nroots, Len(tokens) \in Nat
    PROVE  \E f : IsLoading(f, tokens, nroots) /\ Loaded(tokens, nroots) = f[Len(tokens)]
<1> DEFINE Body(f, k) == IF k = 0 THEN LoadStart(nroots) ELSE LoadToken(f[k - 1], tokens[k])
           U == {n \in Nat : \E f : f = [k \in 0..n |-> Body(f, k)]}
<1>1. 0 \in U
  <2> DEFINE g == [k \in 0..0 |-> LoadStart(nroots)]
  <2>1. g = [k \in 0..0 |-> Body(g, k)]
    OBVIOUS
  <2> HIDE DEF g, Body
  <2> QED BY <2>1
<1>2. ASSUME NEW n \in Nat, n \in U PROVE n + 1 \in U
  <2>1. PICK f : f = [k \in 0..n |-> Body(f, k)]
    BY <1>2
  <2> DEFINE g == [k \in 0..(n + 1) |-> IF k = n + 1 THEN LoadToken(f[n], tokens[k]) ELSE f[k]]
  <2>2. ASSUME NEW k \in 0..(n + 1) PROVE g[k] = Body(g, k)
    <3>1. CASE k = n + 1
      <4>1. k # 0 /\ k - 1 = n /\ n \in 0..(n + 1) /\ n # n + 1
        BY <3>1
      <4> QED BY <3>1, <4>1
    <3>2. CASE k # n + 1 /\ k # 0
      <4>1. k \in 0..n /\ k - 1 \in 0..(n + 1) /\ k - 1 # n + 1
        BY <3>2
      <4>2. f[k] = LoadToken(f[k - 1], tokens[k])
        BY <2>1, <3>2, <4>1
      <4> QED BY <3>2, <4>1, <4>2
    <3>3. CASE k = 0
      <4>1. 0 \in 0..n /\ 0 # n + 1
        OBVIOUS
      <4>2. f[0] = LoadStart(nroots)
        BY <2>1, <4>1
      <4> QED BY <3>3, <4>1, <4>2
    <3> QED BY <3>1, <3>2, <3>3
  <2>3. g = [k \in 0..(n + 1) |-> g[k]]
    OBVIOUS
  <2> HIDE DEF g, Body
  <2>4. g = [k \in 0..(n + 1) |-> Body(g, k)]
    BY <2>2, <2>3
  <2>5. \E f1 : f1 = [k \in 0..(n + 1) |-> Body(f1, k)]
    BY <2>4
  <2> QED BY <2>5
<1>3. Len(tokens) \in U
  <2> HIDE DEF U
  <2> QED BY <1>1, <1>2, InductionOnNat
<1>4. \E f : f = [k \in 0..Len(tokens) |-> Body(f, k)]
  BY <1>3
<1> DEFINE g == CHOOSE f : f = [k \in 0..Len(tokens) |-> Body(f, k)]
<1>5. g = [k \in 0..Len(tokens) |-> Body(g, k)]
  <2> HIDE DEF Body
  <2> QED BY <1>4
<1>6. IsLoading(g, tokens, nroots)
  <2> HIDE DEF g
  <2> QED BY <1>5 DEF IsLoading
<1>7. Loaded(tokens, nroots) = g[Len(tokens)]
  BY DEF Loaded
<1> HIDE DEF g
<1> QED BY <1>6, <1>7
-----------------------------------------------------------------------------
(* What save finds in the heap.                                            *)

\* The objects on all_objects, and what their slots hold.
Listed == Elements(all_objects)
Values == Listed \cup {Null, Undefined}

LEMMA AtCheckpoint ==
    ASSUME PersistInv, pc = "checkpoint"
    PROVE  /\ Listed \subseteq Cells /\ marked = {} /\ todo = {} /\ rest = << >>
           /\ \A r \in Registers : reg[r] \in Listed \cup {Null}
           /\ \A d \in Listed, i \in Slots : slot[d][i] \in Values
           /\ \A d \in Listed : kind[d] \in {"vector", "symbol", "connection"}
           /\ \A b \in Buckets :
                InBucket(b) = {c \in Listed : kind[c] = "symbol" /\ HashOf[name[c]] = b}
<1>1. /\ \A r \in Registers : reg[r] \in Listed \cup {Null}
      /\ \A d \in Listed, i \in Slots : slot[d][i] \in Values
      /\ Listed \subseteq Cells
  BY LiveValues DEF PersistInv, Listed, Values
<1>2. HeapTypeOK /\ ListsInv /\ MarkInv /\ SymtabInv
  BY DEF PersistInv, HeapInv
<1>3. marked = {} /\ todo = {} /\ rest = << >>
  BY <1>2 DEF MarkInv, ListsInv
<1>4. \A d \in Listed : kind[d] # "free"
  BY <1>1, <1>2 DEF ListsInv, Listed
<1>5. \A d \in Listed : kind[d] \in {"vector", "symbol", "connection"}
  BY <1>1, <1>2, <1>4 DEF HeapTypeOK
<1>6. \A b \in Buckets :
        InBucket(b) = {c \in Listed : kind[c] = "symbol" /\ HashOf[name[c]] = b}
  BY <1>2 DEF SymtabInv, Listed
<1> QED BY <1>1, <1>3, <1>5, <1>6

\* What the buckets and their links lead to is listed.
LEMMA LinksListed ==
    ASSUME PersistInv, pc = "checkpoint"
    PROVE  /\ \A b \in Buckets : symtab[b] \in Listed \cup {Null}
           /\ \A c \in Listed : next[c] \in Listed \cup {Null}
<1>1. /\ Listed \subseteq Cells
      /\ \A b \in Buckets :
           InBucket(b) = {c \in Listed : kind[c] = "symbol" /\ HashOf[name[c]] = b}
  BY AtCheckpoint
<1>2. HeapTypeOK /\ CellsInv
  BY DEF PersistInv, HeapInv
<1>3. NextOf \in [Cells -> SUBSET Cells]
  BY DEF NextOf
<1>4. ASSUME NEW b \in Buckets
      PROVE  /\ {symtab[b]} \cap Cells \subseteq InBucket(b)
             /\ \A x \in InBucket(b) : NextOf[x] \subseteq InBucket(b)
  BY <1>3, ClosureLeast DEF InBucket
<1>5. ASSUME NEW b \in Buckets PROVE symtab[b] \in Listed \cup {Null}
  <2>1. symtab[b] \in Cells \cup {Null}
    BY <1>2 DEF HeapTypeOK
  <2> QED BY <1>1, <1>4, <2>1
<1>6. ASSUME NEW c \in Listed PROVE next[c] \in Listed \cup {Null}
  <2>1. next[c] \in Cells \cup {Null} /\ c \in Cells
    BY <1>1, <1>2 DEF HeapTypeOK
  <2>2. CASE kind[c] # "symbol"
    BY <2>1, <2>2 DEF PersistInv, FieldsInv
  <2>3. CASE kind[c] = "symbol"
    <3>1. HashOf[name[c]] \in Buckets
      BY <1>2, <2>1, <2>3, HeapAssumption DEF CellsInv
    <3>2. c \in InBucket(HashOf[name[c]])
      BY <1>1, <2>3, <3>1
    <3>3. NextOf[c] \subseteq InBucket(HashOf[name[c]])
      BY <1>4, <3>1, <3>2
    <3>4. next[c] \in Cells => next[c] \in NextOf[c]
      BY <2>1 DEF NextOf
    <3> QED BY <1>1, <2>1, <3>1, <3>3, <3>4
  <2> QED BY <2>2, <2>3
<1> QED BY <1>5, <1>6

\* The slots that are saved of a listed object.
LEMMA SavedSlotsAre ==
    ASSUME PersistInv, pc = "checkpoint", NEW c \in Listed
    PROVE  /\ SavedSlots(c) \in Seq(Values) /\ Len(SavedSlots(c)) <= NumSlots + 1
           /\ kind[c] = "vector" => /\ Len(SavedSlots(c)) = NumSlots
                                    /\ \A i \in Slots : SavedSlots(c)[i] = slot[c][i]
           /\ kind[c] = "symbol" => /\ Len(SavedSlots(c)) = 2
                                    /\ SavedSlots(c)[1] = next[c] /\ SavedSlots(c)[2] = slot[c][Value]
           /\ kind[c] = "connection" => Len(SavedSlots(c)) = 1 /\ SavedSlots(c)[1] = Null
<1>1. /\ c \in Cells /\ kind[c] \in {"vector", "symbol", "connection"}
      /\ \A i \in Slots : slot[c][i] \in Values
      /\ next[c] \in Values
  BY AtCheckpoint, LinksListed DEF Values
<1>2. slot[c] \in [Slots -> Refs]
  BY <1>1 DEF PersistInv, HeapInv, HeapTypeOK
<1>3. NumSlots \in Nat \ {0} /\ Value \in Slots
  BY HeapAssumption DEF Value, Slots
<1>4. CASE kind[c] = "vector"
  <2>1. SavedSlots(c) = slot[c]
    BY <1>4 DEF SavedSlots
  <2>2. slot[c] \in [1..NumSlots -> Values]
    BY <1>1, <1>2 DEF Slots
  <2>3. slot[c] \in Seq(Values) /\ Len(slot[c]) = NumSlots
    BY <1>3, <2>2, LenProperties
  <2> QED BY <1>3, <1>4, <2>1, <2>3
<1>5. CASE kind[c] = "symbol"
  <2>1. SavedSlots(c) = <<next[c], slot[c][Value]>>
    BY <1>5 DEF SavedSlots
  <2> QED BY <1>1, <1>3, <1>5, <2>1
<1>6. CASE kind[c] = "connection"
  <2>1. SavedSlots(c) = <<Null>>
    BY <1>6 DEF SavedSlots
  <2>2. Null \in Values
    BY DEF Values
  <2> QED BY <1>3, <1>6, <2>1, <2>2
<1> QED BY <1>1, <1>4, <1>5, <1>6

\* The roots that are saved.
LEMMA SavedRootsAre ==
    ASSUME PersistInv, pc = "checkpoint", NEW order \in Orders
    PROVE  /\ SavedRoots(order) \in Seq(Values) /\ Len(SavedRoots(order)) = NumRoots
           /\ \A b \in Buckets : SavedRoots(order)[b] = symtab[b]
           /\ \A i \in 1..Cardinality(Registers) :
                SavedRoots(order)[NumBuckets + i] = reg[order[i]]
<1> DEFINE n == Cardinality(Registers)
           regs == [i \in DOMAIN order |-> reg[order[i]]]
<1>1. n \in Nat /\ NumBuckets \in Nat \ {0} /\ order \in [1..n -> Registers]
  BY BoundsAreNat DEF Orders
<1>2. /\ \A r \in Registers : reg[r] \in Values
      /\ \A b \in Buckets : symtab[b] \in Values
  BY AtCheckpoint, LinksListed DEF Values
<1>3. symtab \in [1..NumBuckets -> Values]
  BY <1>2 DEF PersistInv, HeapInv, HeapTypeOK, Buckets
<1>4. regs \in [1..n -> Values] /\ \A i \in 1..n : regs[i] = reg[order[i]]
  <2>1. DOMAIN order = 1..n
    BY <1>1
  <2>2. \A i \in 1..n : reg[order[i]] \in Values
    BY <1>1, <1>2
  <2> QED BY <2>1, <2>2
<1>5. SavedRoots(order) = symtab \o regs
  BY DEF SavedRoots
<1> HIDE DEF n, regs
<1>6. symtab \in Seq(Values) /\ Len(symtab) = NumBuckets
  BY <1>1, <1>3, LenProperties
<1>7. regs \in Seq(Values) /\ Len(regs) = n
  BY <1>1, <1>4, LenProperties
<1>8. /\ SavedRoots(order) \in Seq(Values) /\ Len(SavedRoots(order)) = NumBuckets + n
      /\ \A i \in 1..(NumBuckets + n) :
           SavedRoots(order)[i] = IF i <= NumBuckets THEN symtab[i] ELSE regs[i - NumBuckets]
  <2>1. /\ symtab \o regs \in Seq(Values) /\ Len(symtab \o regs) = Len(symtab) + Len(regs)
        /\ \A i \in 1..(Len(symtab) + Len(regs)) :
             (symtab \o regs)[i] = IF i <= Len(symtab) THEN symtab[i] ELSE regs[i - Len(symtab)]
    BY <1>6, <1>7, ConcatProperties
  <2> QED BY <1>5, <1>6, <1>7, <2>1
<1>9. NumRoots = NumBuckets + n
  BY DEF NumRoots, n
<1>10. \A b \in Buckets : SavedRoots(order)[b] = symtab[b]
  BY <1>1, <1>8 DEF Buckets
<1>11. \A i \in 1..n : SavedRoots(order)[NumBuckets + i] = reg[order[i]]
  <2> SUFFICES ASSUME NEW i \in 1..n PROVE SavedRoots(order)[NumBuckets + i] = reg[order[i]]
    OBVIOUS
  <2>1. NumBuckets + i \in 1..(NumBuckets + n) /\ ~(NumBuckets + i <= NumBuckets)
        /\ (NumBuckets + i) - NumBuckets = i
    BY <1>1
  <2> QED BY <1>4, <1>8, <2>1
<1> QED BY <1>8, <1>9, <1>10, <1>11 DEF n
-----------------------------------------------------------------------------
(* save.                                                                   *)

\* What a file holds for an object, and for a reference.
Tokens ==
    [t : {"N", "S"}] \cup [t : {"R"}, n : Nat]
    \cup [t : {"O"}, n : Nat, kind : {"vector", "symbol", "connection"},
          name : Names \cup {Null}, finalize : BOOLEAN, length : Nat]

LEMMA ObjectToken ==
    ASSUME NEW n \in Nat, NEW k \in {"vector", "symbol", "connection"},
           NEW nm \in Names \cup {Null}, NEW b \in BOOLEAN, NEW l \in Nat
    PROVE  [t |-> "O", n |-> n, kind |-> k, name |-> nm, finalize |-> b, length |-> l] \in Tokens
BY DEF Tokens

\* The objects met so far have the numbers 0 .. m - 1, one each.
Numbering(number, m) ==
    /\ m \in Nat /\ DOMAIN number \subseteq Listed
    /\ number \in [DOMAIN number -> 0..(m - 1)]
    /\ \A c, d \in DOMAIN number : number[c] = number[d] => c = d
    /\ \A n \in 0..(m - 1) : \E c \in DOMAIN number : number[c] = n
    /\ Cardinality(DOMAIN number) = m

SaveOK(s) ==
    /\ s = [todo |-> s.todo, tokens |-> s.tokens, number |-> s.number, next_n |-> s.next_n]
    /\ s.todo \in Seq(Values) /\ s.tokens \in Seq(Tokens)
    /\ Numbering(s.number, s.next_n)

\* What a table is with one more entry.
LEMMA OneMore ==
    ASSUME NEW f, NEW d, NEW e, d \notin DOMAIN f
    PROVE  /\ DOMAIN Bind(f, d, e) = DOMAIN f \cup {d}
           /\ Bind(f, d, e)[d] = e
           /\ \A c \in DOMAIN f : Bind(f, d, e)[c] = f[c]
           /\ Bind(f, d, e) = [c \in DOMAIN f \cup {d} |-> Bind(f, d, e)[c]]
BY DEF Bind

\* A number for one more object.
LEMMA OneMoreNumber ==
    ASSUME PersistInv, pc = "checkpoint", NEW number, NEW m, Numbering(number, m),
           NEW x \in Listed, x \notin DOMAIN number
    PROVE  Numbering(Bind(number, x, m), m + 1)
<1> DEFINE f == Bind(number, x, m)
<1>1. /\ DOMAIN f = DOMAIN number \cup {x} /\ f[x] = m
      /\ \A c \in DOMAIN number : f[c] = number[c]
      /\ f = [c \in DOMAIN number \cup {x} |-> f[c]]
  BY DEF f, Bind
<1> HIDE DEF f
<1>2. /\ m \in Nat /\ DOMAIN number \subseteq Listed
      /\ number \in [DOMAIN number -> 0..(m - 1)]
      /\ \A c, d \in DOMAIN number : number[c] = number[d] => c = d
      /\ \A n \in 0..(m - 1) : \E c \in DOMAIN number : number[c] = n
      /\ Cardinality(DOMAIN number) = m
  BY DEF Numbering
<1>3. \A c \in DOMAIN number : number[c] \in 0..(m - 1)
  BY <1>2
<1>4. \A c \in DOMAIN f : f[c] \in 0..m
  BY <1>1, <1>2, <1>3
<1>5. f \in [DOMAIN f -> 0..((m + 1) - 1)]
  BY <1>1, <1>2, <1>4
<1>6. \A c, d \in DOMAIN f : f[c] = f[d] => c = d
  BY <1>1, <1>2, <1>3
<1>7. ASSUME NEW n \in 0..((m + 1) - 1) PROVE \E c \in DOMAIN f : f[c] = n
  <2>1. n = m \/ n \in 0..(m - 1)
    BY <1>2
  <2> QED BY <1>1, <1>2, <2>1
<1>8. Cardinality(DOMAIN f) = m + 1
  <2>1. IsFiniteSet(DOMAIN number)
    <3>1. DOMAIN number \subseteq Cells
      BY <1>2, AtCheckpoint
    <3> QED BY <3>1, PersistAssumption, FS_Subset
  <2>2. Cardinality(DOMAIN number \cup {x}) = Cardinality(DOMAIN number) + 1
    BY <2>1, FS_AddElement
  <2> QED BY <1>1, <1>2, <2>2
<1>9. m + 1 \in Nat /\ DOMAIN f \subseteq Listed
  BY <1>1, <1>2
<1>10. Numbering(f, m + 1)
  BY <1>5, <1>6, <1>7, <1>8, <1>9 DEF Numbering
<1> QED BY <1>10 DEF f

\* A call of save for NULL, `undefined' or an object that is written already.
LEMMA SaveReference ==
    ASSUME PersistInv, pc = "checkpoint", NEW s, SaveOK(s), s.todo # << >>,
           Head(s.todo) \in {Null, Undefined} \cup DOMAIN s.number
    PROVE  /\ SaveOK(SaveStep(s)) /\ Token(s, Head(s.todo)) \in Tokens
           /\ SaveStep(s).todo = Tail(s.todo)
           /\ SaveStep(s).tokens = Append(s.tokens, Token(s, Head(s.todo)))
           /\ SaveStep(s).number = s.number /\ SaveStep(s).next_n = s.next_n
<1> DEFINE x == Head(s.todo)
           u == SaveStep(s)
<1>1. u = [s EXCEPT !.todo = Tail(@), !.tokens = Append(@, Token(s, x))]
  BY DEF SaveStep
<1> HIDE DEF u
<1>2. u = [todo |-> Tail(s.todo), tokens |-> Append(s.tokens, Token(s, x)),
           number |-> s.number, next_n |-> s.next_n]
  <2> HIDE DEF x
  <2> QED BY <1>1 DEF SaveOK
<1>3. Tail(s.todo) \in Seq(Values)
  BY HeadTailProperties DEF SaveOK
<1>4. Token(s, x) \in Tokens
  <2> HIDE DEF x
  <2>4. Null # Undefined /\ {Null, Undefined} \cap DOMAIN s.number = {}
    BY AtCheckpoint, HeapAssumption DEF SaveOK, Numbering
  <2>5. x \in {Null, Undefined} \cup DOMAIN s.number
    BY DEF x
  <2>1. CASE x = Null
    <3>1. Token(s, x) = [t |-> "N"]
      BY <2>1, <2>4 DEF Token
    <3> QED BY <3>1 DEF Tokens
  <2>2. CASE x # Null /\ x = Undefined
    <3>1. Token(s, x) = [t |-> "S"]
      BY <2>2, <2>4 DEF Token
    <3> QED BY <3>1 DEF Tokens
  <2>3. CASE x # Null /\ x # Undefined
    <3>1. Token(s, x) = [t |-> "R", n |-> s.number[x]] /\ x \in DOMAIN s.number
      BY <2>3, <2>5 DEF Token
    <3>2. s.number[x] \in Nat
      BY <3>1 DEF SaveOK, Numbering
    <3> QED BY <3>1, <3>2 DEF Tokens
  <2> QED BY <2>1, <2>2, <2>3
<1>5. Append(s.tokens, Token(s, x)) \in Seq(Tokens)
  BY <1>4 DEF SaveOK
<1>6. SaveOK(u)
  <2> HIDE DEF x
  <2> QED BY <1>2, <1>3, <1>5 DEF SaveOK
<1> QED BY <1>2, <1>4, <1>6 DEF u

\* A call of save for an object that was not met before.
LEMMA SaveObject ==
    ASSUME PersistInv, pc = "checkpoint", NEW s, SaveOK(s), s.todo # << >>,
           NEW x, x = Head(s.todo), x \notin {Null, Undefined} \cup DOMAIN s.number
    PROVE  /\ x \in Listed /\ SaveOK(SaveStep(s)) /\ Token(s, x) \in Tokens
           /\ Token(s, x) = [t |-> "O", n |-> s.next_n, kind |-> kind[x], name |-> name[x],
                             finalize |-> x \in finalize, length |-> Len(SavedSlots(x))]
           /\ SaveStep(s).todo = SavedSlots(x) \o Tail(s.todo)
           /\ SaveStep(s).tokens = Append(s.tokens, Token(s, x))
           /\ SaveStep(s).number = Bind(s.number, x, s.next_n)
           /\ SaveStep(s).next_n = s.next_n + 1
<1> DEFINE u == SaveStep(s)
           slots == SavedSlots(x)
<1>1. u = [[s EXCEPT !.todo = Tail(@), !.tokens = Append(@, Token(s, x))]
             EXCEPT !.todo = slots \o @, !.number = Bind(@, x, s.next_n), !.next_n = @ + 1]
  BY DEF SaveStep
<1>2. x \in Values /\ Tail(s.todo) \in Seq(Values)
  BY HeadTailProperties DEF SaveOK
<1>3. x \in Listed
  BY <1>2 DEF Values
<1>4. Token(s, x) = [t |-> "O", n |-> s.next_n, kind |-> kind[x], name |-> name[x],
                     finalize |-> x \in finalize, length |-> Len(slots)]
  BY DEF Token
<1>5. slots \in Seq(Values)
  BY <1>3, SavedSlotsAre
<1> HIDE DEF u, slots
<1>6. u = [todo |-> slots \o Tail(s.todo), tokens |-> Append(s.tokens, Token(s, x)),
           number |-> Bind(s.number, x, s.next_n), next_n |-> s.next_n + 1]
  BY <1>1 DEF SaveOK
<1>7. Token(s, x) \in Tokens
  <2>1. kind[x] \in {"vector", "symbol", "connection"} /\ x \in Cells
    BY <1>3, AtCheckpoint
  <2>2. name[x] \in Names \cup {Null} /\ (x \in finalize) \in BOOLEAN
    BY <2>1 DEF PersistInv, HeapInv, HeapTypeOK
  <2>3. s.next_n \in Nat /\ Len(slots) \in Nat
    BY <1>5, LenProperties DEF SaveOK, Numbering
  <2> DEFINE T(b) == [t |-> "O", n |-> s.next_n, kind |-> kind[x], name |-> name[x],
                      finalize |-> b, length |-> Len(slots)]
  <2>4. \A b \in BOOLEAN : T(b) \in Tokens
    BY <2>1, <2>2, <2>3, ObjectToken
  <2>5. Token(s, x) = T(x \in finalize)
    BY <1>4
  <2> HIDE DEF T
  <2>6. T(x \in finalize) \in Tokens
    BY <2>2, <2>4
  <2> QED BY <2>5, <2>6
<1>8. Append(s.tokens, Token(s, x)) \in Seq(Tokens)
  BY <1>7 DEF SaveOK
<1>9. slots \o Tail(s.todo) \in Seq(Values)
  BY <1>2, <1>5, ConcatProperties
<1>10. Numbering(Bind(s.number, x, s.next_n), s.next_n + 1)
  BY <1>3, OneMoreNumber DEF SaveOK
<1>11. SaveOK(u)
  BY <1>6, <1>8, <1>9, <1>10 DEF SaveOK
<1>12. /\ SaveStep(s).todo = slots \o Tail(s.todo)
       /\ SaveStep(s).tokens = Append(s.tokens, Token(s, x))
       /\ SaveStep(s).number = Bind(s.number, x, s.next_n)
       /\ SaveStep(s).next_n = s.next_n + 1
  BY <1>6 DEF u
<1> QED BY <1>3, <1>4, <1>7, <1>11, <1>12 DEF u, slots

\* The later state numbers the objects of the earlier one as it does, and more.
Extends(s, u) ==
    /\ s.next_n \in 0..u.next_n /\ DOMAIN s.number \subseteq DOMAIN u.number
    /\ \A c \in DOMAIN s.number : u.number[c] = s.number[c]

\* Each token is that of the next call, until no call is left to be made; there
\* are not more calls to make than the roots and the slots of the objects met.
SavedBy(f, k) ==
    /\ SaveOK(f[k]) /\ Len(f[k].tokens) <= k /\ f[Len(f[k].tokens)] = f[k]
    /\ f[k].todo # << >> =>
         /\ Len(f[k].tokens) = k
         /\ k + Len(f[k].todo) <= NumRoots + f[k].next_n * (NumSlots + 1)
    /\ \A i \in 1..Len(f[k].tokens) :
         /\ f[i - 1].todo # << >>
         /\ f[k].tokens[i] = Token(f[i - 1], Head(f[i - 1].todo))
    /\ \A i \in 0..k : Extends(f[i], f[k])

LEMMA SavedAtStart ==
    ASSUME PersistInv, pc = "checkpoint", NEW order \in Orders, NEW f, IsSaving(f, order)
    PROVE  SavedBy(f, 0)
<1>1. f[0] = SaveStart(order)
  BY BoundsAreNat DEF IsSaving
<1>2. /\ SavedRoots(order) \in Seq(Values) /\ Len(SavedRoots(order)) = NumRoots
  BY SavedRootsAre
<1>3. /\ f[0].todo = SavedRoots(order) /\ f[0].tokens = << >> /\ f[0].number = << >> /\ f[0].next_n = 0
      /\ f[0] = [todo |-> f[0].todo, tokens |-> f[0].tokens,
                 number |-> f[0].number, next_n |-> f[0].next_n]
  BY <1>1 DEF SaveStart
<1> HIDE DEF SaveStart
<1>4. Numbering(<< >>, 0)
  <2>1. DOMAIN << >> = {}
    OBVIOUS
  <2>2. << >> \in [{} -> 0..(0 - 1)]
    OBVIOUS
  <2>3. Cardinality({}) = 0
    BY FS_EmptySet
  <2>4. 0..(0 - 1) = {}
    OBVIOUS
  <2> QED BY <2>1, <2>2, <2>3, <2>4 DEF Numbering
<1>5. << >> \in Seq(Tokens) /\ Len(<< >>) = 0
  OBVIOUS
<1>6. SaveOK(f[0])
  BY <1>2, <1>3, <1>4, <1>5 DEF SaveOK
<1>7. 0 + Len(f[0].todo) <= NumRoots + f[0].next_n * (NumSlots + 1)
  BY <1>2, <1>3, BoundsAreNat
<1>8. \A i \in 0..0 : Extends(f[i], f[0])
  BY <1>3 DEF Extends
<1> QED BY <1>3, <1>5, <1>6, <1>7, <1>8 DEF SavedBy

\* What numbering one more object does to the bound.
LEMMA OneMoreObject ==
    ASSUME NEW m \in Nat, NEW w \in Nat
    PROVE  (m + 1) * w = m * w + w /\ m * w \in Nat
OBVIOUS

LEMMA SavedStep ==
    ASSUME PersistInv, pc = "checkpoint", NEW order \in Orders, NEW f, IsSaving(f, order),
           NEW k \in Nat, k + 1 <= SaveCalls, SavedBy(f, k)
    PROVE  SavedBy(f, k + 1)
<1> DEFINE s == f[k]
           u == f[k + 1]
           x == Head(s.todo)
           l == Len(s.tokens)
           tk == Token(s, x)
<1>1. u = SaveStep(s)
  <2>1. k + 1 \in 0..SaveCalls /\ k + 1 # 0 /\ (k + 1) - 1 = k
    BY BoundsAreNat
  <2> QED BY <2>1 DEF IsSaving
<1>2. /\ SaveOK(s) /\ l <= k /\ f[l] = s
      /\ s.todo # << >> => l = k /\ k + Len(s.todo) <= NumRoots + s.next_n * (NumSlots + 1)
      /\ \A i \in 1..l : f[i - 1].todo # << >> /\ s.tokens[i] = Token(f[i - 1], Head(f[i - 1].todo))
      /\ \A i \in 0..k : Extends(f[i], s)
  BY DEF SavedBy
<1>3. s.tokens \in Seq(Tokens) /\ s.todo \in Seq(Values) /\ l \in Nat /\ s.next_n \in Nat
  BY <1>2 DEF SaveOK, Numbering
<1>4. CASE s.todo = << >>
  <2>1. u = s
    BY <1>1, <1>4 DEF SaveStep
  <2>2. \A i \in 0..(k + 1) : Extends(f[i], u)
    <3>1. Extends(s, s)
      BY <1>3 DEF Extends
    <3>2. \A i \in 0..(k + 1) : i \in 0..k \/ i = k + 1
      OBVIOUS
    <3> HIDE DEF s
    <3> QED BY <1>2, <2>1, <3>1, <3>2
  <2>3. l <= k + 1
    BY <1>2, <1>3
  <2>4. f[k + 1] = s
    BY <2>1
  <2> HIDE DEF s, u
  <2>5. Len(f[k + 1].tokens) = l
    BY <2>4
  <2> HIDE DEF l
  <2> QED BY <1>2, <1>4, <2>1, <2>2, <2>3, <2>4, <2>5 DEF SavedBy, u
<1>5. CASE s.todo # << >>
  <2>1. l = k /\ k + Len(s.todo) <= NumRoots + s.next_n * (NumSlots + 1)
    BY <1>2, <1>5
  <2> HIDE DEF s, u
  <2>2. /\ SaveOK(u) /\ tk \in Tokens /\ u.tokens = Append(s.tokens, tk)
        /\ Extends(s, u)
        /\ k + 1 + Len(u.todo) <= NumRoots + u.next_n * (NumSlots + 1)
    <3>1. Tail(s.todo) \in Seq(Values) /\ Len(Tail(s.todo)) = Len(s.todo) - 1 /\ Len(s.todo) \in Nat
      BY <1>3, <1>5, HeadTailProperties, LenProperties
    <3>2. CASE x \in {Null, Undefined} \cup DOMAIN s.number
      <4>1. /\ SaveOK(SaveStep(s)) /\ tk \in Tokens
            /\ SaveStep(s).todo = Tail(s.todo) /\ SaveStep(s).tokens = Append(s.tokens, tk)
            /\ SaveStep(s).number = s.number /\ SaveStep(s).next_n = s.next_n
        BY <1>2, <1>5, <3>2, SaveReference
      <4>2. Extends(s, u)
        BY <1>1, <1>3, <4>1 DEF Extends
      <4>3. s.next_n * (NumSlots + 1) \in Nat /\ NumRoots \in Nat
        BY <1>3, BoundsAreNat, OneMoreObject
      <4>4. k + 1 + Len(u.todo) <= NumRoots + u.next_n * (NumSlots + 1)
        <5> DEFINE w == s.next_n * (NumSlots + 1)
        <5>1. Len(u.todo) = Len(s.todo) - 1 /\ u.next_n * (NumSlots + 1) = w
          BY <1>1, <3>1, <4>1
        <5>2. w \in Nat /\ k + Len(s.todo) <= NumRoots + w
          BY <2>1, <4>3
        <5>3. Len(s.todo) \in Nat
          BY <3>1
        <5> HIDE DEF w
        <5> DEFINE a == Len(s.todo)
                   b == Len(u.todo)
        <5> HIDE DEF a, b
        <5>4. a \in Nat /\ b = a - 1 /\ k + a <= NumRoots + w
          BY <5>1, <5>2, <5>3 DEF a, b
        <5>5. k + 1 + b <= NumRoots + w
          BY <4>3, <5>2, <5>4
        <5> QED BY <5>1, <5>5 DEF b
      <4> QED BY <1>1, <4>1, <4>2, <4>4
    <3>3. CASE x \notin {Null, Undefined} \cup DOMAIN s.number
      <4>1. /\ x \in Listed /\ SaveOK(SaveStep(s)) /\ tk \in Tokens
            /\ SaveStep(s).todo = SavedSlots(x) \o Tail(s.todo)
            /\ SaveStep(s).tokens = Append(s.tokens, tk)
            /\ SaveStep(s).number = Bind(s.number, x, s.next_n)
            /\ SaveStep(s).next_n = s.next_n + 1
        BY <1>2, <1>5, <3>3, SaveObject
      <4>2. Extends(s, u)
        <5>1. /\ DOMAIN u.number = DOMAIN s.number \cup {x}
              /\ \A c \in DOMAIN s.number : u.number[c] = s.number[c]
          <6> DEFINE g == Bind(s.number, x, s.next_n)
          <6>1. g = u.number /\ x \notin DOMAIN s.number
            BY <1>1, <3>3, <4>1
          <6>2. DOMAIN g = DOMAIN s.number \cup {x} /\ \A c \in DOMAIN s.number : g[c] = s.number[c]
            BY <6>1 DEF Bind
          <6> QED BY <6>1, <6>2
        <5> QED BY <1>1, <1>3, <4>1, <5>1 DEF Extends
      <4>3. /\ SavedSlots(x) \in Seq(Values) /\ Len(SavedSlots(x)) \in Nat
            /\ Len(SavedSlots(x)) <= NumSlots + 1
        BY <4>1, SavedSlotsAre, LenProperties
      <4>4. Len(u.todo) = Len(SavedSlots(x)) + (Len(s.todo) - 1)
        <5> DEFINE a == SavedSlots(x)
                   b == Tail(s.todo)
        <5>1. a \in Seq(Values) /\ b \in Seq(Values)
          BY <3>1, <4>3
        <5> HIDE DEF a, b
        <5>2. Len(a \o b) = Len(a) + Len(b)
          BY <5>1, ConcatProperties
        <5>3. u.todo = a \o b
          BY <1>1, <4>1 DEF a, b
        <5> QED BY <3>1, <5>2, <5>3 DEF a, b
      <4>5. k + 1 + Len(u.todo) <= NumRoots + u.next_n * (NumSlots + 1)
        <5> DEFINE w == s.next_n * (NumSlots + 1)
        <5>1. NumSlots + 1 \in Nat /\ NumRoots \in Nat
          BY BoundsAreNat
        <5>2. u.next_n * (NumSlots + 1) = w + (NumSlots + 1) /\ w \in Nat
          BY <1>1, <1>3, <4>1, <5>1, OneMoreObject, ZenonT(60)
        <5>3. k + Len(s.todo) <= NumRoots + w
          BY <2>1
        <5> HIDE DEF w
        <5> DEFINE a == Len(s.todo)
                   b == Len(u.todo)
                   c == Len(SavedSlots(x))
        <5> HIDE DEF a, b, c
        <5>4. a \in Nat /\ c \in Nat /\ c <= NumSlots + 1 /\ b = c + (a - 1)
              /\ k + a <= NumRoots + w
          BY <3>1, <4>3, <4>4, <5>3 DEF a, b, c
        <5>5. k + 1 + b <= NumRoots + (w + (NumSlots + 1))
          BY <5>1, <5>2, <5>4
        <5> QED BY <5>2, <5>5 DEF b
      <4> QED BY <1>1, <4>1, <4>2, <4>5
    <3> QED BY <3>2, <3>3
  <2>3. Len(u.tokens) = k + 1 /\ u.tokens[k + 1] = tk /\ \A i \in 1..k : u.tokens[i] = s.tokens[i]
    <3> HIDE DEF tk
    <3> QED BY <1>3, <2>1, <2>2, AppendProperties
  <2>4. \A i \in 0..(k + 1) : Extends(f[i], u)
    <3>1. Extends(u, u)
      BY <2>2 DEF Extends, SaveOK, Numbering
    <3>2. ASSUME NEW i \in 0..k PROVE Extends(f[i], u)
      <4>1. Extends(f[i], s) /\ i \in 0..k
        BY <1>2
      <4>2. f[i].next_n \in 0..s.next_n /\ s.next_n \in 0..u.next_n
        BY <2>2, <4>1 DEF Extends
      <4>3. DOMAIN f[i].number \subseteq DOMAIN s.number /\ DOMAIN s.number \subseteq DOMAIN u.number
        BY <2>2, <4>1 DEF Extends
      <4>4. u.next_n \in Nat /\ s.next_n \in Nat
        BY <1>3, <2>2 DEF SaveOK, Numbering
      <4>5. f[i].next_n \in 0..u.next_n
        BY <4>2, <4>4
      <4>6. \A c \in DOMAIN f[i].number : u.number[c] = f[i].number[c]
        BY <2>2, <4>1 DEF Extends
      <4> QED BY <4>3, <4>5, <4>6 DEF Extends
    <3>3. \A i \in 0..(k + 1) : i \in 0..k \/ i = k + 1
      OBVIOUS
    <3> QED BY <3>1, <3>2, <3>3 DEF u
  <2>5. \A i \in 1..(k + 1) : /\ f[i - 1].todo # << >>
                              /\ u.tokens[i] = Token(f[i - 1], Head(f[i - 1].todo))
    <3>1. \A i \in 1..(k + 1) : i \in 1..k \/ i = k + 1
      OBVIOUS
    <3>2. (k + 1) - 1 = k
      OBVIOUS
    <3> QED BY <1>2, <1>5, <2>1, <2>3, <3>1, <3>2 DEF s
  <2>6. k + 1 <= k + 1
    OBVIOUS
  <2> QED BY <2>2, <2>3, <2>4, <2>5, <2>6 DEF SavedBy, u
<1> QED BY <1>4, <1>5

\* So it is after every call that there is.
LEMMA SavedAlways ==
    ASSUME PersistInv, pc = "checkpoint", NEW order \in Orders, NEW f, IsSaving(f, order)
    PROVE  \A k \in 0..SaveCalls : SavedBy(f, k)
<1> DEFINE T == {k \in Nat : k <= SaveCalls => SavedBy(f, k)}
<1>1. 0 \in T
  BY SavedAtStart
<1>2. ASSUME NEW k \in Nat, k \in T PROVE k + 1 \in T
  <2>1. k + 1 <= SaveCalls => k <= SaveCalls
    BY BoundsAreNat
  <2> QED BY <1>2, <2>1, SavedStep
<1>3. Nat \subseteq T
  <2> HIDE DEF T
  <2> QED BY <1>1, <1>2, InductionOnNat
<1> QED BY <1>3, BoundsAreNat

\* A product grows with its factors.
LEMMA ProductGrows ==
    ASSUME NEW m \in Nat, NEW n \in Nat, m <= n, NEW w \in Nat
    PROVE  m * w <= n * w
<1>1. n = m + (n - m) /\ n - m \in Nat
  OBVIOUS
<1>2. (m + (n - m)) * w = m * w + (n - m) * w /\ (n - m) * w \in Nat /\ m * w \in Nat
  BY <1>1
<1> QED BY <1>1, <1>2

\* And after the last no call is left to be made.
LEMMA AllSaved ==
    ASSUME PersistInv, pc = "checkpoint", NEW order \in Orders, NEW f, IsSaving(f, order)
    PROVE  f[SaveCalls].todo = << >> /\ SavedBy(f, SaveCalls)
<1> DEFINE s == f[SaveCalls]
           N == Cardinality(Cells)
           w == NumSlots + 1
<1>1. SavedBy(f, SaveCalls)
  BY SavedAlways, BoundsAreNat
<1>2. SaveOK(s)
  BY <1>1 DEF SavedBy
<1>3. s.next_n \in Nat /\ s.next_n <= N
  <2>1. Numbering(s.number, s.next_n)
    BY <1>2 DEF SaveOK
  <2>2. DOMAIN s.number \subseteq Cells /\ Cardinality(DOMAIN s.number) = s.next_n /\ s.next_n \in Nat
    BY <2>1, AtCheckpoint DEF Numbering
  <2> HIDE DEF s
  <2>3. Cardinality(DOMAIN s.number) <= N
    BY <2>2, PersistAssumption, FS_Subset
  <2> QED BY <2>2, <2>3
<1>4. N \in Nat /\ w \in Nat /\ NumRoots \in Nat /\ SaveCalls = NumRoots + N * w
  BY BoundsAreNat DEF SaveCalls
<1>5. s.todo # << >> => SaveCalls + Len(s.todo) <= NumRoots + s.next_n * w
  BY <1>1 DEF SavedBy
<1>6. Len(s.todo) \in Nat /\ (s.todo # << >> => Len(s.todo) > 0)
  <2>1. s.todo \in Seq(Values)
    BY <1>2 DEF SaveOK
  <2> HIDE DEF s
  <2> QED BY <2>1, EmptySeq, LenProperties
<1> HIDE DEF s, N, w
<1>7. s.next_n * w <= N * w /\ s.next_n * w \in Nat /\ N * w \in Nat
  BY <1>3, <1>4, ProductGrows, OneMoreObject
<1>8. s.todo = << >>
  <2> DEFINE a == s.next_n * w
             b == N * w
             l == Len(s.todo)
  <2>1. a \in Nat /\ b \in Nat /\ a <= b /\ l \in Nat /\ SaveCalls = NumRoots + b
    BY <1>4, <1>6, <1>7
  <2>2. s.todo # << >> => l > 0 /\ SaveCalls + l <= NumRoots + a
    BY <1>5, <1>6
  <2> HIDE DEF a, b, l
  <2>3. l > 0 => ~(SaveCalls + l <= NumRoots + a)
    BY <1>4, <2>1
  <2> QED BY <2>2, <2>3
<1> QED BY <1>1, <1>8 DEF s

\* The file: its tokens are those of the calls of save, and each call goes on
\* from where the one before it was.
Saves(f, order) ==
    /\ f[0] = SaveStart(order) /\ f[Len(File(order).tokens)] = File(order)
    /\ SaveOK(File(order)) /\ File(order).todo = << >>
    /\ \A i \in 1..Len(File(order).tokens) :
         /\ SaveOK(f[i - 1]) /\ f[i] = SaveStep(f[i - 1]) /\ f[i - 1].todo # << >>
         /\ File(order).tokens[i] = Token(f[i - 1], Head(f[i - 1].todo))
    /\ \A i \in 0..Len(File(order).tokens) : Extends(f[i], File(order))

LEMMA FileIs ==
    ASSUME PersistInv, pc = "checkpoint", NEW order \in Orders
    PROVE  \E f : Saves(f, order)
<1>1. PICK f : IsSaving(f, order) /\ File(order) = f[SaveCalls]
  BY SavingExists
<1> DEFINE F == File(order)
           l == Len(F.tokens)
<1>2. F.todo = << >> /\ SavedBy(f, SaveCalls) /\ \A k \in 0..SaveCalls : SavedBy(f, k)
  BY <1>1, AllSaved, SavedAlways
<1>3. /\ SaveOK(F) /\ l <= SaveCalls /\ f[l] = F
      /\ \A i \in 1..l : f[i - 1].todo # << >> /\ F.tokens[i] = Token(f[i - 1], Head(f[i - 1].todo))
      /\ \A i \in 0..SaveCalls : Extends(f[i], F)
  BY <1>1, <1>2 DEF SavedBy
<1>4. l \in Nat /\ SaveCalls \in Nat
  BY <1>3, BoundsAreNat, LenProperties DEF SaveOK
<1> HIDE DEF l, F
<1>5. f[0] = SaveStart(order) /\ \A k \in 1..SaveCalls : f[k] = SaveStep(f[k - 1])
  BY <1>1, <1>4 DEF IsSaving
<1>6. ASSUME NEW i \in 1..l PROVE SaveOK(f[i - 1]) /\ f[i] = SaveStep(f[i - 1])
  <2>1. i - 1 \in 0..SaveCalls /\ i \in 1..SaveCalls
    BY <1>3, <1>4
  <2>2. SavedBy(f, i - 1)
    BY <1>2, <2>1
  <2> QED BY <1>5, <2>1, <2>2 DEF SavedBy
<1>7. \A i \in 0..l : Extends(f[i], F)
  BY <1>3, <1>4
<1>8. /\ f[0] = SaveStart(order) /\ f[l] = F /\ SaveOK(F) /\ F.todo = << >>
      /\ \A i \in 1..l :
                  /\ SaveOK(f[i - 1]) /\ f[i] = SaveStep(f[i - 1]) /\ f[i - 1].todo # << >>
                  /\ F.tokens[i] = Token(f[i - 1], Head(f[i - 1].todo))
      /\ \A i \in 0..l : Extends(f[i], F)
  BY <1>2, <1>3, <1>5, <1>6, <1>7
<1> QED BY <1>8 DEF l, F, Saves

-----------------------------------------------------------------------------
(* load.                                                                   *)

\* The place of the root i, and of the slot i of the object n.
RootHole(i) == [root |-> TRUE, n |-> 0, i |-> i]
SlotHole(n, i) == [root |-> FALSE, n |-> n, i |-> i]
Holes == [root : BOOLEAN, n : Nat, i : Nat]

\* The place h waits for its value.
Open(g, h) == \E j \in 1..Len(g.holes) : g.holes[j] = h

\* w is what stands for the value v of the heap that was saved.
StandsFor(number, w, v) ==
    /\ v \in Cells => v \in DOMAIN number
    /\ w = IF v \in Cells THEN number[v] ELSE v

\* What is built of the objects 0 .. m - 1.
LoadOK(g, m, nroots) ==
    /\ g = [objects |-> g.objects, roots |-> g.roots, holes |-> g.holes, failed |-> g.failed]
    /\ g.failed = FALSE /\ g.holes \in Seq(Holes)
    /\ g.roots = [i \in 1..nroots |-> g.roots[i]]
    /\ g.objects = [n \in 0..(m - 1) |-> g.objects[n]]
    /\ \A n \in 0..(m - 1) :
         g.objects[n] = [kind |-> g.objects[n].kind, name |-> g.objects[n].name,
                         finalize |-> g.objects[n].finalize, slots |-> g.objects[n].slots]

\* o is the object c but for the contents of its slots.
CopyOf(o, c) ==
    /\ o.kind = kind[c] /\ o.name = name[c] /\ o.finalize = (c \in finalize)
    /\ o.slots = [i \in 1..Len(SavedSlots(c)) |-> o.slots[i]]

\* Every object with a number is copied, every slot of it stands for the slot
\* that was saved or waits for its value; so do the roots.
Copied(number, g, nroots, order) ==
    /\ \A c \in DOMAIN number :
         /\ CopyOf(g.objects[number[c]], c)
         /\ \A i \in 1..Len(SavedSlots(c)) :
              \/ StandsFor(number, g.objects[number[c]].slots[i], SavedSlots(c)[i])
              \/ Open(g, SlotHole(number[c], i))
    /\ \A i \in 1..nroots :
         StandsFor(number, g.roots[i], SavedRoots(order)[i]) \/ Open(g, RootHole(i))

\* The value v goes where h is.
Belongs(number, v, h, nroots, order) ==
    \/ h.root /\ h.i \in 1..nroots /\ SavedRoots(order)[h.i] = v
    \/ /\ ~h.root
       /\ \E c \in DOMAIN number :
            number[c] = h.n /\ h.i \in 1..Len(SavedSlots(c)) /\ SavedSlots(c)[h.i] = v

\* load is where save was: what is still to be loaded is what was still to be
\* saved, but for the roots that are not asked for.
Follows(s, g, nroots, order) ==
    /\ LoadOK(g, s.next_n, nroots) /\ Copied(s.number, g, nroots, order)
    /\ Len(s.todo) = Len(g.holes) + (NumRoots - nroots)
    /\ \A j \in 1..Len(g.holes) : Belongs(s.number, s.todo[j], g.holes[j], nroots, order)

\* Filling the first place.
LEMMA FillIs ==
    ASSUME NEW g, NEW m \in Nat, NEW nroots, LoadOK(g, m, nroots), g.holes # << >>, NEW w,
           NEW h, h = Head(g.holes), ~h.root => h.n \in 0..(m - 1)
    PROVE  /\ LoadOK(Fill(g, w), m, nroots)
           /\ Fill(g, w).holes = Tail(g.holes)
           /\ Fill(g, w).roots = IF h.root THEN [g.roots EXCEPT ![h.i] = w] ELSE g.roots
           /\ h.root => Fill(g, w).objects = g.objects
           /\ \A n \in 0..(m - 1) :
                /\ Fill(g, w).objects[n].kind = g.objects[n].kind
                /\ Fill(g, w).objects[n].name = g.objects[n].name
                /\ Fill(g, w).objects[n].finalize = g.objects[n].finalize
                /\ Fill(g, w).objects[n].slots =
                     IF ~h.root /\ n = h.n THEN [g.objects[n].slots EXCEPT ![h.i] = w]
                     ELSE g.objects[n].slots
<1> DEFINE k == Fill(g, w)
<1>1. Tail(g.holes) \in Seq(Holes)
  BY HeadTailProperties DEF LoadOK
<1>2. CASE h.root
  <2>1. k = [[g EXCEPT !.roots[h.i] = w] EXCEPT !.holes = Tail(@)]
    BY <1>2 DEF Fill
  <2> HIDE DEF k
  <2>2. k = [objects |-> g.objects, roots |-> [g.roots EXCEPT ![h.i] = w],
             holes |-> Tail(g.holes), failed |-> FALSE]
    BY <2>1 DEF LoadOK
  <2>3. [g.roots EXCEPT ![h.i] = w] = [i \in 1..nroots |-> [g.roots EXCEPT ![h.i] = w][i]]
    BY DEF LoadOK
  <2>4. LoadOK(k, m, nroots)
    BY <1>1, <2>2, <2>3 DEF LoadOK
  <2> QED BY <1>2, <2>2, <2>4 DEF k
<1>3. CASE ~h.root
  <2>1. k = [[g EXCEPT !.objects[h.n].slots[h.i] = w] EXCEPT !.holes = Tail(@)]
    BY <1>3 DEF Fill
  <2> DEFINE ob == [g.objects EXCEPT ![h.n].slots[h.i] = w]
  <2> HIDE DEF k
  <2>2. k = [objects |-> ob, roots |-> g.roots, holes |-> Tail(g.holes), failed |-> FALSE]
    BY <2>1 DEF LoadOK
  <2>3. /\ ob = [n \in 0..(m - 1) |-> ob[n]]
        /\ \A n \in 0..(m - 1) : n # h.n => ob[n] = g.objects[n]
        /\ ob[h.n] = [g.objects[h.n] EXCEPT !.slots[h.i] = w]
    BY <1>3 DEF LoadOK
  <2> DEFINE o == g.objects[h.n]
             sl == [o.slots EXCEPT ![h.i] = w]
  <2>4. o = [kind |-> o.kind, name |-> o.name, finalize |-> o.finalize, slots |-> o.slots]
    BY <1>3 DEF LoadOK
  <2> HIDE DEF ob, o
  <2>7. ob[h.n] = [kind |-> o.kind, name |-> o.name, finalize |-> o.finalize, slots |-> sl]
    BY <2>3, <2>4 DEF o
  <2> HIDE DEF sl
  <2>5. ASSUME NEW n \in 0..(m - 1)
        PROVE  /\ ob[n].kind = g.objects[n].kind /\ ob[n].name = g.objects[n].name
               /\ ob[n].finalize = g.objects[n].finalize
               /\ ob[n].slots = IF n = h.n THEN [g.objects[n].slots EXCEPT ![h.i] = w]
                                ELSE g.objects[n].slots
               /\ ob[n] = [kind |-> ob[n].kind, name |-> ob[n].name,
                           finalize |-> ob[n].finalize, slots |-> ob[n].slots]
    <3>1. CASE n = h.n
      <4>1. /\ ob[n].kind = o.kind /\ ob[n].name = o.name /\ ob[n].finalize = o.finalize
            /\ ob[n].slots = sl
            /\ ob[n] = [kind |-> ob[n].kind, name |-> ob[n].name,
                        finalize |-> ob[n].finalize, slots |-> ob[n].slots]
        BY <2>7, <3>1
      <4>2. g.objects[n] = o
        BY <3>1 DEF o
      <4> QED BY <3>1, <4>1, <4>2 DEF sl
    <3>2. CASE n # h.n
      BY <2>3, <3>2 DEF LoadOK
    <3> QED BY <3>1, <3>2
  <2>6. LoadOK(k, m, nroots)
    BY <1>1, <2>2, <2>3, <2>5, ZenonT(60) DEF LoadOK
  <2>8. k.holes = Tail(g.holes) /\ k.roots = g.roots /\ k.objects = ob
    BY <2>2
  <2> QED BY <1>3, <2>5, <2>6, <2>8 DEF k
<1> QED BY <1>2, <1>3

\* What stands for a value goes on doing so when more objects have numbers.
LEMMA StandsForMore ==
    ASSUME NEW number, NEW more, DOMAIN number \subseteq DOMAIN more,
           \A c \in DOMAIN number : more[c] = number[c], NEW w, NEW v, StandsFor(number, w, v)
    PROVE  StandsFor(more, w, v)
BY DEF StandsFor

\* Filling the first place with what stands for the value that belongs there.
LEMMA FillCopies ==
    ASSUME PersistInv, pc = "checkpoint", NEW order \in Orders, NEW s, SaveOK(s), NEW g,
           NEW nroots \in 0..NumRoots, Follows(s, g, nroots, order), g.holes # << >>,
           NEW number, DOMAIN s.number \subseteq DOMAIN number,
           \A c \in DOMAIN s.number : number[c] = s.number[c],
           NEW w, StandsFor(number, w, Head(s.todo))
    PROVE  /\ LoadOK(Fill(g, w), s.next_n, nroots) /\ Fill(g, w).holes = Tail(g.holes)
           /\ \A c \in DOMAIN s.number :
                /\ CopyOf(Fill(g, w).objects[s.number[c]], c)
                /\ \A i \in 1..Len(SavedSlots(c)) :
                     \/ StandsFor(number, Fill(g, w).objects[s.number[c]].slots[i], SavedSlots(c)[i])
                     \/ Open(Fill(g, w), SlotHole(s.number[c], i))
           /\ \A i \in 1..nroots :
                \/ StandsFor(number, Fill(g, w).roots[i], SavedRoots(order)[i])
                \/ Open(Fill(g, w), RootHole(i))
<1> DEFINE k == Fill(g, w)
           h == Head(g.holes)
           m == s.next_n
           v == Head(s.todo)
<1>1. /\ LoadOK(g, m, nroots) /\ Copied(s.number, g, nroots, order)
      /\ Len(s.todo) = Len(g.holes) + (NumRoots - nroots)
      /\ \A j \in 1..Len(g.holes) : Belongs(s.number, s.todo[j], g.holes[j], nroots, order)
  BY DEF Follows
<1>2. /\ g.holes \in Seq(Holes) /\ Len(g.holes) \in Nat \ {0} /\ h = g.holes[1] /\ h \in Holes
      /\ Tail(g.holes) \in Seq(Holes) /\ Len(Tail(g.holes)) = Len(g.holes) - 1
      /\ \A j \in 1..(Len(g.holes) - 1) : Tail(g.holes)[j] = g.holes[j + 1]
  BY <1>1, EmptySeq, LenProperties, HeadTailProperties DEF LoadOK
<1>3. v = s.todo[1] /\ Numbering(s.number, m) /\ m \in Nat
  <2>1. s.todo \in Seq(Values) /\ Numbering(s.number, m)
    BY DEF SaveOK
  <2>2. Len(s.todo) \in Nat /\ Len(s.todo) > 0
    BY <1>1, <1>2, BoundsAreNat
  <2>3. s.todo # << >>
    BY <2>2
  <2> QED BY <2>1, <2>3, HeadTailProperties DEF Numbering
<1>4. Belongs(s.number, v, h, nroots, order)
  BY <1>1, <1>2, <1>3
<1>5. ~h.root => h.n \in 0..(m - 1)
  BY <1>3, <1>4 DEF Belongs, Numbering
<1> HIDE DEF k, h, m, v
<1>6. /\ LoadOK(k, m, nroots)
      /\ k.holes = Tail(g.holes)
      /\ k.roots = IF h.root THEN [g.roots EXCEPT ![h.i] = w] ELSE g.roots
      /\ h.root => k.objects = g.objects
      /\ \A n \in 0..(m - 1) :
           /\ k.objects[n].kind = g.objects[n].kind /\ k.objects[n].name = g.objects[n].name
           /\ k.objects[n].finalize = g.objects[n].finalize
           /\ k.objects[n].slots =
                IF ~h.root /\ n = h.n THEN [g.objects[n].slots EXCEPT ![h.i] = w]
                ELSE g.objects[n].slots
  BY <1>1, <1>3, <1>5, FillIs, SMTT(60) DEF k, h
<1>7. ASSUME NEW p, Open(g, p), p # h PROVE Open(k, p)
  <2>1. PICK j \in 1..Len(g.holes) : g.holes[j] = p
    BY <1>7 DEF Open
  <2>2. j - 1 \in 1..(Len(g.holes) - 1) /\ (j - 1) + 1 = j
    BY <1>2, <1>7, <2>1
  <2>3. k.holes[j - 1] = p /\ j - 1 \in 1..Len(k.holes)
    BY <1>2, <1>6, <2>1, <2>2
  <2> QED BY <2>3 DEF Open
<1>8. ASSUME NEW c \in DOMAIN s.number
      PROVE  /\ CopyOf(k.objects[s.number[c]], c)
             /\ \A i \in 1..Len(SavedSlots(c)) :
                  \/ StandsFor(number, k.objects[s.number[c]].slots[i], SavedSlots(c)[i])
                  \/ Open(k, SlotHole(s.number[c], i))
  <2> DEFINE n == s.number[c]
             sl == SavedSlots(c)
             old == g.objects[n].slots
             new == k.objects[n].slots
  <2>1. n \in 0..(m - 1)
    BY <1>3 DEF Numbering
  <2>2. /\ CopyOf(g.objects[n], c)
        /\ \A i \in 1..Len(sl) :
             StandsFor(s.number, old[i], sl[i]) \/ Open(g, SlotHole(n, i))
    BY <1>1 DEF Copied
  <2>3. old = [i \in 1..Len(sl) |-> old[i]]
    BY <2>2 DEF CopyOf
  <2> HIDE DEF n, sl, old
  <2>4. new = IF ~h.root /\ n = h.n THEN [old EXCEPT ![h.i] = w] ELSE old
    BY <1>6, <2>1 DEF old
  <2>5. k.objects[n].kind = g.objects[n].kind /\ k.objects[n].name = g.objects[n].name
        /\ k.objects[n].finalize = g.objects[n].finalize
    BY <1>6, <2>1
  <2> HIDE DEF new
  <2>6. new = [i \in 1..Len(sl) |-> new[i]]
    BY <2>3, <2>4
  <2>7. CopyOf(k.objects[n], c)
    BY <2>2, <2>5, <2>6 DEF CopyOf, new, sl
  <2>8. ASSUME NEW i \in 1..Len(sl) PROVE StandsFor(number, new[i], sl[i]) \/ Open(k, SlotHole(n, i))
    <3>1. CASE h = SlotHole(n, i)
      <4>1. ~h.root /\ h.n = n /\ h.i = i
        BY <3>1 DEF SlotHole
      <4>2. new[i] = w
        BY <2>3, <2>4, <4>1
      <4>3. PICK d \in DOMAIN s.number : s.number[d] = n /\ SavedSlots(d)[i] = v
        BY <1>4, <4>1 DEF Belongs
      <4>4. d = c
        BY <1>3, <4>3 DEF Numbering, n
      <4>5. sl[i] = v
        BY <4>3, <4>4 DEF sl
      <4> QED BY <4>2, <4>5 DEF v
    <3>2. CASE h # SlotHole(n, i)
      <4>1. ~(~h.root /\ n = h.n /\ h.i = i)
        BY <1>2, <3>2 DEF Holes, SlotHole
      <4>2. new[i] = old[i]
        BY <2>3, <2>4, <4>1
      <4>3. CASE StandsFor(s.number, old[i], sl[i])
        BY <4>2, <4>3, StandsForMore
      <4>4. CASE Open(g, SlotHole(n, i))
        BY <1>7, <3>2, <4>4
      <4> QED BY <2>2, <4>3, <4>4 DEF old, n, sl
    <3> QED BY <3>1, <3>2
  <2> QED BY <2>7, <2>8 DEF n, sl, new
<1>9. ASSUME NEW i \in 1..nroots
      PROVE  StandsFor(number, k.roots[i], SavedRoots(order)[i]) \/ Open(k, RootHole(i))
  <2>1. StandsFor(s.number, g.roots[i], SavedRoots(order)[i]) \/ Open(g, RootHole(i))
    BY <1>1 DEF Copied
  <2>2. g.roots = [q \in 1..nroots |-> g.roots[q]]
    BY <1>1 DEF LoadOK
  <2>3. CASE h.root /\ h.i = i
    <3>1. k.roots[i] = w
      BY <1>6, <2>2, <2>3
    <3>2. SavedRoots(order)[i] = v
      BY <1>4, <2>3 DEF Belongs
    <3> QED BY <3>1, <3>2 DEF v
  <2>4. CASE ~(h.root /\ h.i = i)
    <3>1. k.roots[i] = g.roots[i]
      BY <1>6, <2>2, <2>4
    <3>2. RootHole(i) # h
      BY <2>4 DEF RootHole
    <3>3. CASE StandsFor(s.number, g.roots[i], SavedRoots(order)[i])
      BY <3>1, <3>3, StandsForMore
    <3>4. CASE Open(g, RootHole(i))
      BY <1>7, <3>2, <3>4
    <3> QED BY <2>1, <3>3, <3>4
  <2> QED BY <2>3, <2>4
<1> QED BY <1>6, <1>8, <1>9 DEF k, m

\* The token of a value that is not a new object fills a place with what stands for it.
LEMMA LoadFills ==
    ASSUME PersistInv, pc = "checkpoint", NEW s, SaveOK(s), NEW g, NEW nroots,
           LoadOK(g, s.next_n, nroots), g.holes # << >>,
           NEW x, x \in {Null, Undefined} \cup DOMAIN s.number
    PROVE  \E w : StandsFor(s.number, w, x) /\ LoadToken(g, Token(s, x)) = Fill(g, w)
<1>1. /\ Null # Undefined /\ {Null, Undefined} \cap DOMAIN s.number = {}
      /\ DOMAIN s.number \subseteq Cells /\ {Null, Undefined} \cap Cells = {}
  BY AtCheckpoint, HeapAssumption DEF SaveOK, Numbering
<1>2. g.failed = FALSE
  BY DEF LoadOK
<1>3. CASE x = Null
  <2>1. Token(s, x) = [t |-> "N"]
    BY <1>1, <1>3 DEF Token
  <2>2. LoadToken(g, Token(s, x)) = Fill(g, Null)
    BY <1>2, <2>1 DEF LoadToken
  <2> QED BY <1>1, <1>3, <2>2 DEF StandsFor
<1>4. CASE x = Undefined
  <2>1. Token(s, x) = [t |-> "S"]
    BY <1>1, <1>4 DEF Token
  <2>2. LoadToken(g, Token(s, x)) = Fill(g, Undefined)
    BY <1>2, <2>1 DEF LoadToken
  <2> QED BY <1>1, <1>4, <2>2 DEF StandsFor
<1>5. CASE x \in DOMAIN s.number
  <2>1. Token(s, x) = [t |-> "R", n |-> s.number[x]]
    BY <1>1, <1>5 DEF Token
  <2>2. s.number[x] \in DOMAIN g.objects
    BY <1>5 DEF SaveOK, Numbering, LoadOK
  <2>3. LoadToken(g, Token(s, x)) = Fill(g, s.number[x])
    BY <1>2, <2>1, <2>2 DEF LoadToken
  <2> QED BY <1>1, <1>5, <2>3 DEF StandsFor
<1> QED BY <1>3, <1>4, <1>5

LEMMA FollowsReference ==
    ASSUME PersistInv, pc = "checkpoint", NEW order \in Orders, NEW s, SaveOK(s), NEW g,
           NEW nroots \in 0..NumRoots, Follows(s, g, nroots, order), g.holes # << >>,
           NEW x, x = Head(s.todo), x \in {Null, Undefined} \cup DOMAIN s.number
    PROVE  Follows(SaveStep(s), LoadToken(g, Token(s, x)), nroots, order)
<1> DEFINE u == SaveStep(s)
           k == LoadToken(g, Token(s, x))
           m == s.next_n
<1>1. /\ LoadOK(g, m, nroots) /\ Copied(s.number, g, nroots, order)
      /\ Len(s.todo) = Len(g.holes) + (NumRoots - nroots)
      /\ \A j \in 1..Len(g.holes) : Belongs(s.number, s.todo[j], g.holes[j], nroots, order)
  BY DEF Follows
<1>2. /\ g.holes \in Seq(Holes) /\ Len(g.holes) \in Nat \ {0}
      /\ Len(Tail(g.holes)) = Len(g.holes) - 1
      /\ \A j \in 1..(Len(g.holes) - 1) : Tail(g.holes)[j] = g.holes[j + 1]
  BY <1>1, EmptySeq, LenProperties, HeadTailProperties DEF LoadOK
<1>3. s.todo \in Seq(Values) /\ s.todo # << >> /\ Len(s.todo) \in Nat
  <2>1. s.todo \in Seq(Values) /\ Len(s.todo) \in Nat
    BY LenProperties DEF SaveOK
  <2>2. Len(s.todo) > 0
    BY <1>1, <1>2, <2>1, BoundsAreNat
  <2> QED BY <2>1, <2>2
<1>4. /\ Len(Tail(s.todo)) = Len(s.todo) - 1
      /\ \A j \in 1..(Len(s.todo) - 1) : Tail(s.todo)[j] = s.todo[j + 1]
  BY <1>3, HeadTailProperties
<1>5. u.todo = Tail(s.todo) /\ u.number = s.number /\ u.next_n = m
  BY <1>3, SaveReference
<1>6. PICK w : StandsFor(s.number, w, x) /\ k = Fill(g, w)
  BY <1>1, LoadFills
<1> HIDE DEF u, k, m
<1>7. /\ LoadOK(Fill(g, w), m, nroots) /\ Fill(g, w).holes = Tail(g.holes)
      /\ Copied(s.number, Fill(g, w), nroots, order)
  BY <1>6, FillCopies DEF Copied, m
<1>8. Len(u.todo) = Len(k.holes) + (NumRoots - nroots)
  <2>1. Len(u.todo) = Len(s.todo) - 1 /\ Len(k.holes) = Len(g.holes) - 1
    BY <1>2, <1>4, <1>5, <1>6, <1>7
  <2>2. Len(s.todo) \in Nat /\ Len(g.holes) \in Nat /\ Len(s.todo) = Len(g.holes) + (NumRoots - nroots)
    BY <1>1, <1>2, <1>3
  <2> DEFINE a == Len(s.todo)
             b == Len(g.holes)
  <2> HIDE DEF a, b
  <2>3. a \in Nat /\ b \in Nat /\ a = b + (NumRoots - nroots) /\ NumRoots \in Nat
    BY <2>2, BoundsAreNat DEF a, b
  <2>4. a - 1 = (b - 1) + (NumRoots - nroots)
    BY <2>3
  <2> QED BY <2>1, <2>4 DEF a, b
<1>9. ASSUME NEW j \in 1..Len(k.holes)
      PROVE  Belongs(u.number, u.todo[j], k.holes[j], nroots, order)
  <2>1. j \in 1..(Len(g.holes) - 1) /\ j + 1 \in 1..Len(g.holes) /\ j \in 1..(Len(s.todo) - 1)
    BY <1>1, <1>2, <1>3, <1>6, <1>7, BoundsAreNat
  <2>2. u.todo[j] = s.todo[j + 1] /\ k.holes[j] = g.holes[j + 1]
    BY <1>2, <1>4, <1>5, <1>6, <1>7, <2>1
  <2> QED BY <1>1, <1>5, <2>1, <2>2
<1>10. Follows(u, k, nroots, order)
  BY <1>5, <1>6, <1>7, <1>8, <1>9 DEF Follows
<1> QED BY <1>10 DEF u, k

\* k is h with one more object, numbered m, and a hole for each of its l slots.
WithObject(k, h, m, nroots, kd, nm, fin, l) ==
    /\ LoadOK(k, m + 1, nroots) /\ k.roots = h.roots
    /\ \A n \in 0..(m - 1) : k.objects[n] = h.objects[n]
    /\ k.objects[m] = [kind |-> kd, name |-> nm, finalize |-> fin,
                       slots |-> [i \in 1..l |-> Null]]
    /\ k.holes = [i \in 1..l |-> SlotHole(m, i)] \o h.holes

\* What the token of an object does to what was loaded.
LEMMA LoadObjectIs ==
    ASSUME NEW g, NEW m \in Nat, NEW nroots, LoadOK(g, m, nroots), g.holes # << >>,
           LoadOK(Fill(g, m), m, nroots), NEW l \in Nat, NEW kd, NEW nm, NEW fin,
           NEW token, token = [t |-> "O", n |-> m, kind |-> kd, name |-> nm, finalize |-> fin,
                               length |-> l]
    PROVE  WithObject(LoadToken(g, token), Fill(g, m), m, nroots, kd, nm, fin, l)
<1> DEFINE h == Fill(g, m)
           k == LoadToken(g, token)
           o == [kind |-> kd, name |-> nm, finalize |-> fin, slots |-> [i \in 1..l |-> Null]]
           new == [i \in 1..l |-> SlotHole(m, i)]
           ob == Bind(h.objects, m, o)
<1>1. g.failed = FALSE
  BY DEF LoadOK
<1>2. k = [h EXCEPT !.objects = ob, !.holes = new \o @]
  BY <1>1 DEF LoadToken, SlotHole
<1>3. h = [objects |-> h.objects, roots |-> h.roots, holes |-> h.holes, failed |-> FALSE]
      /\ h.objects = [n \in 0..(m - 1) |-> h.objects[n]] /\ h.holes \in Seq(Holes)
      /\ h.roots = [i \in 1..nroots |-> h.roots[i]]
      /\ \A n \in 0..(m - 1) :
         h.objects[n] = [kind |-> h.objects[n].kind, name |-> h.objects[n].name,
                         finalize |-> h.objects[n].finalize, slots |-> h.objects[n].slots]
  BY DEF LoadOK
<1>4. o = [kind |-> o.kind, name |-> o.name, finalize |-> o.finalize, slots |-> o.slots]
  OBVIOUS
<1> HIDE DEF h, k, o
<1>5. ob = [n \in 0..((m + 1) - 1) |-> ob[n]] /\ ob[m] = o
      /\ \A n \in 0..(m - 1) : ob[n] = h.objects[n]
  <2>1. DOMAIN h.objects \cup {m} = 0..((m + 1) - 1) /\ m \notin DOMAIN h.objects
    BY <1>3
  <2>2. \A n \in 0..(m - 1) : n \in DOMAIN h.objects
    BY <1>3
  <2> QED BY <2>1, <2>2 DEF Bind
<1> HIDE DEF ob
<1>6. new \in Seq(Holes)
  <2>1. \A i \in 1..l : SlotHole(m, i) \in Holes
    BY DEF SlotHole, Holes
  <2> QED BY <2>1
<1>7. new \o h.holes \in Seq(Holes)
  BY <1>3, <1>6, ConcatProperties
<1> HIDE DEF new
<1>8. k = [objects |-> ob, roots |-> h.roots, holes |-> new \o h.holes, failed |-> FALSE]
  <2>1. h = [objects |-> h.objects, roots |-> h.roots, holes |-> h.holes, failed |-> FALSE]
    BY <1>3
  <2> DEFINE y == new \o h.holes
             a == h.objects
             b == h.roots
             c == h.holes
  <2>2. k = [h EXCEPT !.objects = ob, !.holes = y]
    BY <1>2
  <2>3. h = [objects |-> a, roots |-> b, holes |-> c, failed |-> FALSE]
    BY <2>1
  <2> HIDE DEF a, b, c, y
  <2>4. k = [objects |-> ob, roots |-> b, holes |-> y, failed |-> FALSE]
    BY <2>2, <2>3
  <2> QED BY <2>4 DEF b, y
<1>9. \A n \in 0..((m + 1) - 1) :
         ob[n] = [kind |-> ob[n].kind, name |-> ob[n].name,
                  finalize |-> ob[n].finalize, slots |-> ob[n].slots]
  <2> SUFFICES ASSUME NEW n \in 0..((m + 1) - 1)
               PROVE ob[n] = [kind |-> ob[n].kind, name |-> ob[n].name,
                  finalize |-> ob[n].finalize, slots |-> ob[n].slots]
    OBVIOUS
  <2>1. n = m \/ n \in 0..(m - 1)
    OBVIOUS
  <2> QED BY <1>3, <1>4, <1>5, <2>1
<1>10. LoadOK(k, m + 1, nroots)
  BY <1>3, <1>5, <1>7, <1>8, <1>9 DEF LoadOK
<1>11. k.roots = h.roots /\ k.objects = ob /\ k.holes = new \o h.holes
  BY <1>8
<1>12. /\ \A n \in 0..(m - 1) : k.objects[n] = h.objects[n]
       /\ k.objects[m] = o
  BY <1>5, <1>11
<1> QED BY <1>10, <1>11, <1>12 DEF WithObject, h, k, o, new

LEMMA FollowsObject ==
    ASSUME PersistInv, pc = "checkpoint", NEW order \in Orders, NEW s, SaveOK(s), NEW g,
           NEW nroots \in 0..NumRoots, Follows(s, g, nroots, order), g.holes # << >>,
           NEW x, x = Head(s.todo), x \notin {Null, Undefined} \cup DOMAIN s.number
    PROVE  Follows(SaveStep(s), LoadToken(g, Token(s, x)), nroots, order)
<1> DEFINE u == SaveStep(s)
           k == LoadToken(g, Token(s, x))
           m == s.next_n
           sl == SavedSlots(x)
           h == Fill(g, m)
           new == [i \in 1..Len(sl) |-> SlotHole(m, i)]
           number == u.number
           a == Len(s.todo)
           b == Len(g.holes)
           l == Len(sl)
<1>1. /\ LoadOK(g, m, nroots) /\ Copied(s.number, g, nroots, order)
      /\ a = b + (NumRoots - nroots)
      /\ \A j \in 1..b : Belongs(s.number, s.todo[j], g.holes[j], nroots, order)
  BY DEF Follows
<1>2. /\ g.holes \in Seq(Holes) /\ b \in Nat \ {0} /\ Tail(g.holes) \in Seq(Holes)
      /\ Len(Tail(g.holes)) = b - 1
      /\ \A j \in 1..(b - 1) : Tail(g.holes)[j] = g.holes[j + 1]
  BY <1>1, EmptySeq, LenProperties, HeadTailProperties DEF LoadOK
<1>3. s.todo \in Seq(Values) /\ s.todo # << >> /\ a \in Nat
  <2>1. s.todo \in Seq(Values) /\ a \in Nat
    BY LenProperties DEF SaveOK
  <2>2. a > 0
    BY <1>1, <1>2, <2>1, BoundsAreNat
  <2> QED BY <2>1, <2>2
<1>4. /\ Len(Tail(s.todo)) = a - 1 /\ Tail(s.todo) \in Seq(Values)
      /\ \A j \in 1..(a - 1) : Tail(s.todo)[j] = s.todo[j + 1]
  BY <1>3, HeadTailProperties
<1>5. /\ x \in Listed /\ u.todo = sl \o Tail(s.todo)
      /\ Token(s, x) = [t |-> "O", n |-> m, kind |-> kind[x], name |-> name[x],
                        finalize |-> x \in finalize, length |-> l]
      /\ u.number = Bind(s.number, x, m) /\ u.next_n = m + 1 /\ SaveOK(u)
  BY <1>3, SaveObject
<1>6. sl \in Seq(Values) /\ l \in Nat
  BY <1>5, SavedSlotsAre, LenProperties
<1>7. Numbering(s.number, m) /\ m \in Nat
  BY DEF SaveOK, Numbering
<1>8. /\ DOMAIN number = DOMAIN s.number \cup {x} /\ number[x] = m
      /\ \A c \in DOMAIN s.number : number[c] = s.number[c]
      /\ \A c \in DOMAIN s.number : s.number[c] \in 0..(m - 1)
  <2>1. x \notin DOMAIN s.number
    OBVIOUS
  <2>2. \A c \in DOMAIN s.number : s.number[c] \in 0..(m - 1)
    BY <1>7 DEF Numbering
  <2> HIDE DEF u
  <2> QED BY <1>5, <2>1, <2>2 DEF Bind
<1>9. StandsFor(number, m, x)
  <2>1. x \in Cells
    BY <1>5, AtCheckpoint
  <2> QED BY <1>8, <2>1 DEF StandsFor
<1>10. /\ LoadOK(h, m, nroots) /\ h.holes = Tail(g.holes)
       /\ \A c \in DOMAIN s.number :
            /\ CopyOf(h.objects[s.number[c]], c)
            /\ \A i \in 1..Len(SavedSlots(c)) :
                 \/ StandsFor(number, h.objects[s.number[c]].slots[i], SavedSlots(c)[i])
                 \/ Open(h, SlotHole(s.number[c], i))
       /\ \A i \in 1..nroots :
            StandsFor(number, h.roots[i], SavedRoots(order)[i]) \/ Open(h, RootHole(i))
  <2> HIDE DEF u
  <2>1. /\ DOMAIN s.number \subseteq DOMAIN number
        /\ \A c \in DOMAIN s.number : number[c] = s.number[c]
    BY <1>8
  <2>2. StandsFor(number, m, Head(s.todo))
    BY <1>9
  <2> HIDE DEF number, m, h
  <2> QED BY <2>1, <2>2, FillCopies DEF m, h
<1> HIDE DEF k, u, h, sl
<1>11. /\ LoadOK(k, m + 1, nroots) /\ k.roots = h.roots
       /\ \A n \in 0..(m - 1) : k.objects[n] = h.objects[n]
       /\ k.objects[m] = [kind |-> kind[x], name |-> name[x], finalize |-> x \in finalize,
                          slots |-> [i \in 1..l |-> Null]]
       /\ k.holes = new \o h.holes
  <2> DEFINE token == Token(s, x)
             kd == kind[x]
             nm == name[x]
  <2>1. PICK fin : fin = (x \in finalize)
    OBVIOUS
  <2>2. token = [t |-> "O", n |-> m, kind |-> kd, name |-> nm, finalize |-> fin, length |-> l]
    BY <1>5, <2>1
  <2>3. LoadOK(g, m, nroots) /\ LoadOK(Fill(g, m), m, nroots) /\ l \in Nat /\ m \in Nat
    BY <1>1, <1>6, <1>7, <1>10 DEF h
  <2> HIDE DEF token, kd, nm, m, l, new
  <2>4. WithObject(LoadToken(g, token), Fill(g, m), m, nroots, kd, nm, fin, l)
    BY <2>2, <2>3, LoadObjectIs, SMTT(60)
  <2> QED BY <2>1, <2>4 DEF WithObject, k, h, token, kd, nm, new, l
<1>12. /\ Len(k.holes) = l + (b - 1)
       /\ \A j \in 1..l : k.holes[j] = SlotHole(m, j)
       /\ \A j \in 1..(b - 1) : k.holes[l + j] = g.holes[j + 1]
  <2>1. new \in Seq(Holes) /\ Len(new) = l /\ \A j \in 1..l : new[j] = SlotHole(m, j)
    <3>1. \A i \in 1..l : SlotHole(m, i) \in Holes
      BY <1>6, <1>7 DEF SlotHole, Holes
    <3> QED BY <1>6, <3>1
  <2> DEFINE r == Tail(g.holes)
  <2> HIDE DEF new, r
  <2>2. r \in Seq(Holes) /\ Len(r) = b - 1 /\ \A j \in 1..(b - 1) : r[j] = g.holes[j + 1]
    BY <1>2 DEF r
  <2>3. /\ Len(new \o r) = Len(new) + Len(r)
        /\ \A i \in 1..(Len(new) + Len(r)) :
             (new \o r)[i] = IF i <= Len(new) THEN new[i] ELSE r[i - Len(new)]
    BY <2>1, <2>2, ConcatProperties, ZenonT(60)
  <2>4. k.holes = new \o r
    BY <1>10, <1>11 DEF r
  <2> HIDE DEF l, b
  <2>5. \A j \in 1..l : j \in 1..(l + (b - 1)) /\ j <= l
    BY <1>2, <1>6
  <2>6. \A j \in 1..(b - 1) : /\ l + j \in 1..(l + (b - 1)) /\ ~(l + j <= l) /\ (l + j) - l = j
    BY <1>2, <1>6
  <2>7. \A j \in 1..l : k.holes[j] = SlotHole(m, j)
    BY <2>1, <2>2, <2>3, <2>4, <2>5
  <2>8. \A j \in 1..(b - 1) : k.holes[l + j] = g.holes[j + 1]
    BY <2>1, <2>2, <2>3, <2>4, <2>6, ZenonT(60)
  <2> QED BY <2>1, <2>2, <2>3, <2>4, <2>7, <2>8
<1>13. /\ Len(u.todo) = l + (a - 1)
       /\ \A j \in 1..l : u.todo[j] = sl[j]
       /\ \A j \in 1..(a - 1) : u.todo[l + j] = s.todo[j + 1]
  <2> DEFINE r == Tail(s.todo)
  <2> HIDE DEF r
  <2>2. r \in Seq(Values) /\ Len(r) = a - 1 /\ \A j \in 1..(a - 1) : r[j] = s.todo[j + 1]
    BY <1>4 DEF r
  <2>3. /\ Len(sl \o r) = Len(sl) + Len(r)
        /\ \A i \in 1..(Len(sl) + Len(r)) :
             (sl \o r)[i] = IF i <= Len(sl) THEN sl[i] ELSE r[i - Len(sl)]
    BY <1>6, <2>2, ConcatProperties, ZenonT(60)
  <2>4. u.todo = sl \o r /\ Len(sl) = l
    BY <1>5 DEF r
  <2> HIDE DEF l, a
  <2>5. \A j \in 1..l : j \in 1..(l + (a - 1)) /\ j <= l
    BY <1>1, <1>2, <1>3, <1>6, BoundsAreNat
  <2>6. \A j \in 1..(a - 1) : /\ l + j \in 1..(l + (a - 1)) /\ ~(l + j <= l) /\ (l + j) - l = j
    BY <1>3, <1>6
  <2>7. \A j \in 1..l : u.todo[j] = sl[j]
    BY <2>2, <2>3, <2>4, <2>5
  <2>8. \A j \in 1..(a - 1) : u.todo[l + j] = s.todo[j + 1]
    BY <2>2, <2>3, <2>4, <2>6, ZenonT(30)
  <2> QED BY <2>2, <2>3, <2>4, <2>7, <2>8
<1> HIDE DEF a, b, l, new
<1>14. ASSUME NEW p, Open(h, p) PROVE Open(k, p)
  <2>1. PICK j \in 1..(b - 1) : h.holes[j] = p
    BY <1>2, <1>10, <1>14 DEF Open
  <2>2. h.holes[j] = g.holes[j + 1]
    BY <1>2, <1>10, <2>1
  <2>3. k.holes[l + j] = p
    BY <1>12, <2>1, <2>2
  <2>4. l + j \in 1..Len(k.holes)
    BY <1>2, <1>6, <1>12, <2>1
  <2> QED BY <2>3, <2>4 DEF Open
<1>15. ASSUME NEW c \in DOMAIN number
       PROVE  /\ CopyOf(k.objects[number[c]], c)
              /\ \A i \in 1..Len(SavedSlots(c)) :
                   \/ StandsFor(number, k.objects[number[c]].slots[i], SavedSlots(c)[i])
                   \/ Open(k, SlotHole(number[c], i))
  <2>1. CASE c \in DOMAIN s.number
    <3>1. number[c] = s.number[c] /\ s.number[c] \in 0..(m - 1)
      BY <1>8, <2>1
    <3>2. k.objects[number[c]] = h.objects[s.number[c]]
      BY <1>11, <3>1
    <3> QED BY <1>10, <1>14, <2>1, <3>1, <3>2
  <2>2. CASE c = x
    <3> DEFINE o == k.objects[m]
    <3>1. /\ number[c] = m /\ o.kind = kind[x] /\ o.name = name[x]
          /\ o.slots = [i \in 1..l |-> Null]
      BY <1>8, <1>11, <2>2
    <3>2. o.finalize = (x \in finalize)
      BY <1>11
    <3> HIDE DEF o
    <3>3. CopyOf(o, c)
      BY <2>2, <3>1, <3>2 DEF CopyOf, l, sl
    <3>4. \A i \in 1..l : Open(k, SlotHole(m, i))
      BY <1>2, <1>6, <1>12 DEF Open
    <3> QED BY <2>2, <3>1, <3>3, <3>4 DEF o, l, sl
  <2> QED BY <1>8, <2>1, <2>2
<1>16. Copied(number, k, nroots, order)
  BY <1>10, <1>11, <1>14, <1>15 DEF Copied
<1>17. Len(u.todo) = Len(k.holes) + (NumRoots - nroots)
  BY <1>1, <1>2, <1>3, <1>6, <1>12, <1>13, BoundsAreNat
<1>18. ASSUME NEW j \in 1..Len(k.holes)
       PROVE  Belongs(number, u.todo[j], k.holes[j], nroots, order)
  <2>1. j \in 1..l \/ (j - l \in 1..(b - 1) /\ j - l \in 1..(a - 1) /\ l + (j - l) = j
                       /\ (j - l) + 1 \in 1..b)
    BY <1>1, <1>2, <1>3, <1>6, <1>12, BoundsAreNat
  <2>2. CASE j \in 1..l
    <3>1. u.todo[j] = SavedSlots(x)[j] /\ k.holes[j] = SlotHole(m, j)
      BY <1>12, <1>13, <2>2 DEF sl
    <3> QED BY <1>8, <2>2, <3>1 DEF Belongs, SlotHole, l, sl
  <2>3. CASE j \notin 1..l
    <3> DEFINE i == (j - l) + 1
    <3>1. u.todo[j] = s.todo[i] /\ k.holes[j] = g.holes[i] /\ i \in 1..b
      BY <1>12, <1>13, <2>1, <2>3
    <3> HIDE DEF i
    <3>2. Belongs(s.number, s.todo[i], g.holes[i], nroots, order)
      BY <1>1, <3>1
    <3> QED BY <1>8, <3>1, <3>2 DEF Belongs
  <2> QED BY <2>2, <2>3
<1>19. Follows(u, k, nroots, order)
  BY <1>5, <1>11, <1>16, <1>17, <1>18 DEF Follows
<1> QED BY <1>19 DEF u, k

\* load begins where save begins.
LEMMA FollowsStart ==
    ASSUME PersistInv, pc = "checkpoint", NEW order \in Orders, NEW nroots \in 0..NumRoots
    PROVE  Follows(SaveStart(order), LoadStart(nroots), nroots, order)
<1> DEFINE g == LoadStart(nroots)
           v == SavedRoots(order)
<1>1. /\ g = [objects |-> g.objects, roots |-> g.roots, holes |-> g.holes, failed |-> g.failed]
      /\ g.objects = << >> /\ g.roots = [i \in 1..nroots |-> Null] /\ g.failed = FALSE
      /\ g.holes = [i \in 1..nroots |-> RootHole(i)]
  BY DEF LoadStart, RootHole
<1>2. SaveStart(order).todo = v /\ SaveStart(order).number = << >> /\ SaveStart(order).next_n = 0
  BY DEF SaveStart
<1>3. v \in Seq(Values) /\ Len(v) = NumRoots
  BY SavedRootsAre
<1>4. nroots \in Nat /\ nroots <= NumRoots /\ NumRoots \in Nat
  BY BoundsAreNat
<1> HIDE DEF g, v
<1>5. /\ g.holes \in Seq(Holes) /\ Len(g.holes) = nroots
      /\ \A j \in 1..nroots : g.holes[j] = RootHole(j)
  <2>1. \A i \in 1..nroots : RootHole(i) \in Holes
    BY <1>4 DEF RootHole, Holes
  <2> QED BY <1>1, <1>4, <2>1
<1>6. LoadOK(g, 0, nroots)
  <2>1. 0..(0 - 1) = {}
    OBVIOUS
  <2>2. g.objects = [n \in 0..(0 - 1) |-> g.objects[n]]
    BY <1>1, <2>1
  <2>3. g.roots = [i \in 1..nroots |-> g.roots[i]]
    BY <1>1
  <2> QED BY <1>1, <1>5, <2>1, <2>2, <2>3 DEF LoadOK
<1>7. Copied(<< >>, g, nroots, order)
  <2>1. \A i \in 1..nroots : Open(g, RootHole(i))
    BY <1>5 DEF Open
  <2>2. DOMAIN << >> = {}
    OBVIOUS
  <2> QED BY <2>1, <2>2 DEF Copied
<1>8. \A j \in 1..Len(g.holes) : Belongs(<< >>, v[j], g.holes[j], nroots, order)
  <2> SUFFICES ASSUME NEW j \in 1..Len(g.holes)
               PROVE  Belongs(<< >>, v[j], g.holes[j], nroots, order)
    OBVIOUS
  <2>1. g.holes[j] = RootHole(j) /\ j \in 1..nroots
    BY <1>5
  <2>2. RootHole(j).root = TRUE /\ RootHole(j).i = j
    BY DEF RootHole
  <2> QED BY <2>1, <2>2 DEF Belongs, v
<1>9. Len(v) = Len(g.holes) + (NumRoots - nroots)
  BY <1>3, <1>4, <1>5
<1> QED BY <1>2, <1>6, <1>7, <1>8, <1>9 DEF Follows, g

\* After each token load is where save was then, or has all the roots asked for.
LEMMA LoadFollows ==
    ASSUME PersistInv, pc = "checkpoint", NEW order \in Orders, NEW nroots \in 0..NumRoots,
           NEW f, Saves(f, order), NEW tokens, Len(tokens) \in 0..Len(File(order).tokens),
           \A i \in 1..Len(tokens) : tokens[i] = File(order).tokens[i],
           NEW e, IsLoading(e, tokens, nroots)
    PROVE  \A j \in 0..Len(tokens) : \E i \in 0..j :
              /\ SaveOK(f[i]) /\ Follows(f[i], e[j], nroots, order)
              /\ i = j \/ e[j].holes = << >>
<1> DEFINE l == Len(File(order).tokens)
           n == Len(tokens)
           At(j, i) == /\ SaveOK(f[i]) /\ Follows(f[i], e[j], nroots, order)
                       /\ i = j \/ e[j].holes = << >>
           T == {j \in Nat : j <= n => \E i \in 0..j : At(j, i)}
<1>1. l \in Nat /\ n \in Nat /\ n <= l
  <2>1. l \in Nat
    BY LenProperties DEF Saves, SaveOK
  <2> QED BY <2>1
<1>2. \A i \in 0..l : SaveOK(f[i])
  <2> SUFFICES ASSUME NEW i \in 0..l PROVE SaveOK(f[i])
    OBVIOUS
  <2>1. i = l \/ (i + 1 \in 1..l /\ (i + 1) - 1 = i)
    BY <1>1
  <2> HIDE DEF l
  <2>2. SaveOK(f[l]) /\ \A k \in 1..l : SaveOK(f[k - 1])
    BY DEF Saves, l
  <2> QED BY <2>1, <2>2
<1>3. \A i \in 1..l : /\ f[i] = SaveStep(f[i - 1])
                      /\ File(order).tokens[i] = Token(f[i - 1], Head(f[i - 1].todo))
  BY DEF Saves
<1>4. e[0] = LoadStart(nroots) /\ \A j \in 1..n : e[j] = LoadToken(e[j - 1], tokens[j])
  <2> HIDE DEF l, At, T
  <2> QED BY <1>1 DEF IsLoading
<1>5. 0 \in T
  <2>1. At(0, 0)
    BY <1>1, <1>2, <1>4, FollowsStart DEF Saves
  <2> HIDE DEF At
  <2> QED BY <2>1
<1>6. ASSUME NEW j \in Nat, j \in T PROVE j + 1 \in T
  <2> SUFFICES ASSUME j + 1 <= n PROVE \E i \in 0..(j + 1) : At(j + 1, i)
    OBVIOUS
  <2> HIDE DEF At
  <2>1. PICK i \in 0..j : At(j, i)
    BY <1>1, <1>6
  <2>2. j + 1 \in 1..n /\ j + 1 \in 1..l /\ (j + 1) - 1 = j /\ j + 1 \in 0..l
    BY <1>1
  <2> HIDE DEF n, l
  <2>3. e[j + 1] = LoadToken(e[j], tokens[j + 1])
    BY <1>4, <2>2
  <2>4. CASE e[j].holes = << >>
    <3>1. e[j + 1] = e[j]
      BY <2>3, <2>4 DEF LoadToken
    <3>2. At(j + 1, i)
      BY <2>1, <2>4, <3>1 DEF At
    <3> QED BY <3>2
  <2>5. CASE e[j].holes # << >>
    <3> DEFINE s == f[j]
               x == Head(s.todo)
    <3>1. SaveOK(s) /\ Follows(s, e[j], nroots, order)
      BY <2>1, <2>5 DEF At
    <3>2. f[j + 1] = SaveStep(s) /\ tokens[j + 1] = Token(s, x)
      BY <1>3, <2>2 DEF n
    <3>3. Follows(SaveStep(s), LoadToken(e[j], Token(s, x)), nroots, order)
      <4> HIDE DEF s
      <4>1. CASE x \in {Null, Undefined} \cup DOMAIN s.number
        BY <2>5, <3>1, <4>1, FollowsReference
      <4>2. CASE x \notin {Null, Undefined} \cup DOMAIN s.number
        BY <2>5, <3>1, <4>2, FollowsObject
      <4> QED BY <4>1, <4>2
    <3>4. At(j + 1, j + 1)
      BY <1>2, <2>2, <2>3, <3>2, <3>3 DEF At
    <3> QED BY <3>4
  <2> QED BY <2>4, <2>5
<1>7. Nat \subseteq T
  <2> HIDE DEF T
  <2> QED BY <1>5, <1>6, InductionOnNat
<1> QED BY <1>1, <1>7

\* g holds a copy of each object that s has numbered, and every slot and root
\* of it stands for what was saved.
LoadedAs(g, s, nroots, order) ==
    /\ SaveOK(s) /\ Extends(s, File(order)) /\ (nroots = NumRoots => s = File(order))
    /\ LoadOK(g, s.next_n, nroots) /\ g.holes = << >>
    /\ \A c \in DOMAIN s.number :
         /\ CopyOf(g.objects[s.number[c]], c)
         /\ \A i \in 1..Len(SavedSlots(c)) :
              StandsFor(s.number, g.objects[s.number[c]].slots[i], SavedSlots(c)[i])
    /\ \A i \in 1..nroots : StandsFor(s.number, g.roots[i], SavedRoots(order)[i])

\* That is what load makes of a file, with the threads or without.
LEMMA LoadedCopies ==
    ASSUME PersistInv, pc = "checkpoint", NEW order \in Orders, NEW nroots \in 0..NumRoots,
           NEW g, g = Loaded(File(order).tokens, nroots)
    PROVE  \E s : LoadedAs(g, s, nroots, order)
<1> DEFINE F == File(order)
           tokens == F.tokens
           l == Len(tokens)
<1>1. PICK f : Saves(f, order)
  BY FileIs
<1>2. tokens \in Seq(Tokens) /\ l \in Nat
  <2>1. tokens \in Seq(Tokens)
    BY <1>1 DEF Saves, SaveOK
  <2> HIDE DEF tokens
  <2> QED BY <2>1, LenProperties
<1>3. PICK e : IsLoading(e, tokens, nroots) /\ g = e[l]
  BY <1>2, LoadingExists
<1>4. /\ F.todo = << >> /\ f[l] = F
      /\ \A i \in 1..l : f[i - 1].todo # << >>
      /\ \A i \in 0..l : Extends(f[i], F)
  BY <1>1 DEF Saves
<1>5. PICK i \in 0..l : SaveOK(f[i]) /\ Follows(f[i], g, nroots, order) /\ (i = l \/ g.holes = << >>)
  BY <1>1, <1>2, <1>3, LoadFollows
<1> DEFINE s == f[i]
<1>6. /\ SaveOK(s) /\ Extends(s, F) /\ LoadOK(g, s.next_n, nroots) /\ Copied(s.number, g, nroots, order)
      /\ Len(s.todo) = Len(g.holes) + (NumRoots - nroots)
  BY <1>4, <1>5 DEF Follows
<1>7. s.todo \in Seq(Values) /\ Len(s.todo) \in Nat /\ g.holes \in Seq(Holes) /\ Len(g.holes) \in Nat
  <2>1. s.todo \in Seq(Values) /\ g.holes \in Seq(Holes)
    BY <1>6 DEF SaveOK, LoadOK
  <2> HIDE DEF s
  <2> QED BY <2>1, LenProperties
<1>8. g.holes = << >>
  <2>1. CASE i = l
    <3>1. Len(s.todo) = 0
      BY <1>4, <2>1
    <3>2. Len(g.holes) = 0
      BY <1>6, <1>7, <3>1, BoundsAreNat
    <3> QED BY <1>7, <3>2, EmptySeq
  <2> QED BY <1>5, <2>1
<1>9. nroots = NumRoots => s = F
  <2> SUFFICES ASSUME nroots = NumRoots PROVE i = l
    BY <1>4
  <2>1. Len(g.holes) = 0
    BY <1>8
  <2>2. Len(s.todo) = 0
    BY <1>6, <1>7, <2>1, BoundsAreNat
  <2>3. s.todo = << >>
    BY <1>7, <2>2, EmptySeq
  <2>4. i # l => i + 1 \in 1..l /\ (i + 1) - 1 = i
    BY <1>2
  <2> HIDE DEF l
  <2> QED BY <1>4, <2>3, <2>4
<1>10. \A p : ~Open(g, p)
  <2>1. Len(g.holes) = 0
    BY <1>8
  <2> QED BY <2>1 DEF Open
<1>11. /\ \A c \in DOMAIN s.number :
            /\ CopyOf(g.objects[s.number[c]], c)
            /\ \A j \in 1..Len(SavedSlots(c)) :
                 StandsFor(s.number, g.objects[s.number[c]].slots[j], SavedSlots(c)[j])
       /\ \A j \in 1..nroots : StandsFor(s.number, g.roots[j], SavedRoots(order)[j])
  BY <1>6, <1>10 DEF Copied
<1> HIDE DEF s
<1> QED BY <1>6, <1>8, <1>9, <1>11 DEF LoadedAs

\* A proper beginning of a file leaves places open.
LEMMA TruncatedOpen ==
    ASSUME PersistInv, pc = "checkpoint", NEW order \in Orders,
           NEW k \in 0..(Len(File(order).tokens) - 1)
    PROVE  ~Accepted(Loaded(SubSeq(File(order).tokens, 1, k), NumRoots))
<1> DEFINE F == File(order)
           l == Len(F.tokens)
           tokens == SubSeq(F.tokens, 1, k)
           g == Loaded(tokens, NumRoots)
<1>1. PICK f : Saves(f, order)
  BY FileIs
<1>2. F.tokens \in Seq(Tokens) /\ l \in Nat
  <2>1. F.tokens \in Seq(Tokens)
    BY <1>1 DEF Saves, SaveOK
  <2> HIDE DEF F
  <2> QED BY <2>1, LenProperties
<1>3. /\ Len(tokens) = k /\ k \in Nat /\ Len(tokens) \in 0..l
      /\ \A i \in 1..Len(tokens) : tokens[i] = F.tokens[i]
  <2> DEFINE t == F.tokens
  <2> HIDE DEF t
  <2>1. t \in Seq(Tokens) /\ k \in 0..(Len(t) - 1) /\ Len(t) \in Nat
    BY <1>2 DEF t
  <2>2. Len(SubSeq(t, 1, k)) = k /\ \A i \in 1..k : SubSeq(t, 1, k)[i] = t[i]
    BY <2>1
  <2> QED BY <2>1, <2>2 DEF t
<1>4. PICK e : IsLoading(e, tokens, NumRoots) /\ g = e[k]
  <2> HIDE DEF tokens
  <2> QED BY <1>3, LoadingExists
<1>5. NumRoots \in 0..NumRoots
  BY BoundsAreNat
<1>6. PICK i \in 0..k : SaveOK(f[i]) /\ Follows(f[i], g, NumRoots, order)
  <2> HIDE DEF tokens, g
  <2> QED BY <1>1, <1>3, <1>4, <1>5, LoadFollows
<1>7. f[i].todo # << >>
  <2>1. i + 1 \in 1..l /\ (i + 1) - 1 = i
    BY <1>2, <1>3
  <2>2. \A j \in 1..l : f[j - 1].todo # << >>
    BY <1>1 DEF Saves
  <2> HIDE DEF l
  <2> QED BY <2>1, <2>2
<1>8. Len(f[i].todo) = Len(g.holes)
  <2>1. LoadOK(g, f[i].next_n, NumRoots) /\ Len(f[i].todo) = Len(g.holes) + (NumRoots - NumRoots)
    BY <1>6 DEF Follows
  <2>2. g.holes \in Seq(Holes)
    BY <2>1 DEF LoadOK
  <2> HIDE DEF g
  <2>3. Len(g.holes) \in Nat
    BY <2>2, LenProperties
  <2> QED BY <2>1, <2>3, BoundsAreNat
<1>9. Len(f[i].todo) # 0
  <2>1. f[i].todo \in Seq(Values)
    BY <1>6 DEF SaveOK
  <2> QED BY <1>7, <2>1, EmptySeq
<1>10. g.holes # << >>
  <2> HIDE DEF g
  <2> QED BY <1>8, <1>9
<1> QED BY <1>10 DEF Accepted

LEMMA TruncatedIsRejected ==
    ASSUME PersistInv
    PROVE  TruncatedRejected
BY TruncatedOpen DEF TruncatedRejected
-----------------------------------------------------------------------------
(* What is saved and loaded is what can be reached.                        *)

\* What a checkpoint meets is reachable, and no connection that reads a string.
LEMMA ListedReachable ==
    ASSUME PersistInv, pc = "checkpoint"
    PROVE  Listed = Reachable /\ Listed \cap StringConnections = {}
<1> DEFINE S == Listed \ StringConnections
<1>1. HeapTypeOK /\ HeapInv /\ Live = Listed /\ Listed \subseteq Reachable /\ Listed \subseteq Cells
  BY AtCheckpoint DEF PersistInv, HeapInv, Live, Listed
<1>2. Roots \subseteq S /\ \A x \in S : Children(x) \subseteq S
  <2>1. Roots \subseteq Listed /\ \A x \in Listed : Children(x) \subseteq Listed
    BY <1>1 DEF HeapInv, LiveInv
  <2>2. Roots \cap StringConnections = {}
    BY DEF PersistInv, StringsInv, Roots, StringConnections
  <2>3. \A x \in Listed : Children(x) \cap StringConnections = {}
    BY <1>1 DEF PersistInv, StringsInv
  <2> QED BY <2>1, <2>2, <2>3
<1>3. Reachable \subseteq S
  <2> HIDE DEF S
  <2>1. S \in SUBSET Cells
    BY <1>1 DEF S
  <2> QED BY <1>1, <1>2, <2>1, ReachableLeast
<1> QED BY <1>1, <1>3

\* A loaded object stands for the object saved, link and slots included.
LEMMA LoadedFields ==
    ASSUME PersistInv, pc = "checkpoint", NEW order \in Orders, NEW nroots \in 0..NumRoots,
           NEW g, NEW s, LoadedAs(g, s, nroots, order), NEW c \in DOMAIN s.number,
           NEW o, o = g.objects[s.number[c]]
    PROVE  /\ c \in Listed /\ c \in Cells
           /\ o.kind = kind[c] /\ o.name = name[c] /\ o.finalize = (c \in finalize)
           /\ StandsFor(s.number, LoadedNext(o), next[c])
           /\ \A i \in Slots : StandsFor(s.number, LoadedSlot(o, i), slot[c][i])
<1>1. c \in Listed /\ c \in Cells /\ kind[c] \in {"vector", "symbol", "connection"}
  BY AtCheckpoint DEF LoadedAs, SaveOK, Numbering
<1>2. /\ o.kind = kind[c] /\ o.name = name[c] /\ o.finalize = (c \in finalize)
      /\ \A i \in 1..Len(SavedSlots(c)) : StandsFor(s.number, o.slots[i], SavedSlots(c)[i])
  BY DEF LoadedAs, CopyOf
<1>3. StandsFor(s.number, Null, Null)
  BY HeapAssumption DEF StandsFor
<1>4. NumSlots \in Nat \ {0}
  BY BoundsAreNat
<1>5. CASE kind[c] = "vector"
  <2>1. LoadedNext(o) = Null /\ next[c] = Null
    BY <1>1, <1>2, <1>5 DEF LoadedNext, PersistInv, FieldsInv
  <2>2. \A i \in Slots : LoadedSlot(o, i) = o.slots[i]
    BY <1>2, <1>5 DEF LoadedSlot
  <2>3. \A i \in Slots : StandsFor(s.number, o.slots[i], slot[c][i])
    BY <1>1, <1>2, <1>5, SavedSlotsAre DEF Slots
  <2> QED BY <1>1, <1>2, <1>3, <2>1, <2>2, <2>3
<1>6. CASE kind[c] = "symbol"
  <2>1. Len(SavedSlots(c)) = 2 /\ SavedSlots(c)[1] = next[c] /\ SavedSlots(c)[2] = slot[c][Value]
    BY <1>1, <1>6, SavedSlotsAre
  <2>2. StandsFor(s.number, o.slots[1], next[c]) /\ StandsFor(s.number, o.slots[2], slot[c][Value])
    <3>1. 1 \in 1..Len(SavedSlots(c)) /\ 2 \in 1..Len(SavedSlots(c))
      BY <2>1
    <3>2. /\ StandsFor(s.number, o.slots[1], SavedSlots(c)[1])
          /\ StandsFor(s.number, o.slots[2], SavedSlots(c)[2])
      BY <1>2, <3>1, Zenon
    <3> QED BY <2>1, <3>2, Zenon
  <2>3. LoadedNext(o) = o.slots[1]
    BY <1>2, <1>6 DEF LoadedNext
  <2>4. ASSUME NEW i \in Slots PROVE StandsFor(s.number, LoadedSlot(o, i), slot[c][i])
    <3>1. CASE i = Value
      <4>1. LoadedSlot(o, i) = o.slots[2]
        BY <1>2, <1>6, <3>1 DEF LoadedSlot
      <4> QED BY <2>2, <3>1, <4>1
    <3>2. CASE i # Value
      <4>1. LoadedSlot(o, i) = Null
        BY <1>2, <1>6, <3>2 DEF LoadedSlot
      <4>2. slot[c][i] = Null
        BY <1>1, <1>6, <3>2 DEF PersistInv, FieldsInv
      <4> QED BY <1>3, <4>1, <4>2
    <3> QED BY <3>1, <3>2
  <2> QED BY <1>1, <1>2, <2>2, <2>3, <2>4
<1>7. CASE kind[c] = "connection"
  <2>1. LoadedNext(o) = Null /\ next[c] = Null
    BY <1>1, <1>2, <1>7 DEF LoadedNext, PersistInv, FieldsInv
  <2>2. ASSUME NEW i \in Slots PROVE StandsFor(s.number, LoadedSlot(o, i), slot[c][i])
    <3>1. LoadedSlot(o, i) = Null
      BY <1>2, <1>7 DEF LoadedSlot
    <3>2. slot[c][i] = Null
      <4>1. slot[c][Handle] = Null
        BY <1>1, <1>7, ListedReachable DEF StringConnections
      <4> QED BY <1>1, <1>7, <4>1 DEF PersistInv, HeapInv, CellsInv
    <3> QED BY <1>3, <3>1, <3>2
  <2> QED BY <1>1, <1>2, <1>3, <2>1, <2>2
<1> QED BY <1>1, <1>5, <1>6, <1>7

\* What is loaded is closed under links and slots; with symtab it has the symbols.
LEMMA LoadedClosed ==
    ASSUME PersistInv, pc = "checkpoint", NEW order \in Orders, NEW nroots \in NumBuckets..NumRoots,
           NEW g, NEW s, LoadedAs(g, s, nroots, order), NEW D, D = DOMAIN s.number
    PROVE  /\ D \subseteq Listed
           /\ \A c \in D : Children(c) \subseteq D /\ {next[c]} \cap Cells \subseteq D
           /\ \A b \in Buckets : {symtab[b]} \cap Cells \subseteq D /\ InBucket(b) \subseteq D
<1>1. nroots \in 0..NumRoots /\ \A b \in Buckets : b \in 1..nroots
  BY BoundsAreNat DEF Buckets
<1>2. /\ D \subseteq Listed /\ D \subseteq Cells
      /\ \A c \in D : /\ StandsFor(s.number, LoadedNext(g.objects[s.number[c]]), next[c])
                      /\ \A i \in Slots : StandsFor(s.number, LoadedSlot(g.objects[s.number[c]], i), slot[c][i])
  BY <1>1, LoadedFields
<1>3. \A c \in D : Children(c) \subseteq D /\ {next[c]} \cap Cells \subseteq D
  BY <1>2 DEF StandsFor, Children
<1>4. \A b \in Buckets : {symtab[b]} \cap Cells \subseteq D
  <2>1. \A b \in Buckets : StandsFor(s.number, g.roots[b], SavedRoots(order)[b])
    BY <1>1 DEF LoadedAs
  <2>2. \A b \in Buckets : SavedRoots(order)[b] = symtab[b]
    BY SavedRootsAre
  <2> QED BY <2>1, <2>2 DEF StandsFor
<1>5. ASSUME NEW b \in Buckets PROVE InBucket(b) \subseteq D
  <2>1. NextOf \in [Cells -> SUBSET Cells] /\ \A c \in D : NextOf[c] \subseteq D
    BY <1>2, <1>3 DEF NextOf
  <2>2. {symtab[b]} \cap Cells \in SUBSET Cells /\ D \in SUBSET Cells
    BY <1>2
  <2> HIDE DEF NextOf
  <2> QED BY <1>4, <2>1, <2>2, ClosureLeast DEF InBucket
<1> QED BY <1>2, <1>3, <1>4, <1>5

\* Every register is saved.
LEMMA OrderOnto ==
    ASSUME NEW order \in Orders, NEW r \in Registers
    PROVE  \E i \in 1..Cardinality(Registers) : order[i] = r
<1> DEFINE n == Cardinality(Registers)
<1>1. n \in Nat /\ IsFiniteSet(Registers)
  BY BoundsAreNat, PersistAssumption
<1>2. order \in [1..n -> Registers] /\ \A i, j \in 1..n : order[i] = order[j] => i = j
  BY DEF Orders
<1>3. Cardinality(1..n) = n
  BY <1>1, FS_Interval
<1> HIDE DEF n
<1>4. order \in Injection(1..n, Registers)
  BY <1>2 DEF Injection, IsInjective
<1>5. order \in Surjection(1..n, Registers)
  BY <1>1, <1>3, <1>4, FS_Injection DEF n
<1> QED BY <1>5 DEF Surjection, n

\* A file holds what can be reached.
LEMMA FileReachable ==
    ASSUME PersistInv, pc = "checkpoint", NEW order \in Orders, NEW g,
           LoadedAs(g, File(order), NumRoots, order)
    PROVE  DOMAIN File(order).number = Reachable
<1> DEFINE s == File(order)
           D == DOMAIN s.number
<1>1. NumRoots \in NumBuckets..NumRoots /\ NumRoots \in 0..NumRoots
  BY BoundsAreNat DEF NumRoots
<1>2. /\ D \subseteq Listed /\ \A c \in D : Children(c) \subseteq D
      /\ \A b \in Buckets : InBucket(b) \subseteq D
  <2> HIDE DEF s
  <2> QED BY <1>1, LoadedClosed DEF s
<1>3. D \subseteq Cells /\ Listed \subseteq Cells /\ Listed = Reachable /\ HeapTypeOK
  BY <1>2, AtCheckpoint, ListedReachable DEF PersistInv, HeapInv
<1>4. ASSUME NEW c \in Roots PROVE c \in D
  <2>1. CASE c \in Cells /\ \E r \in Registers : reg[r] = c
    <3>1. PICK r \in Registers : reg[r] = c
      BY <2>1
    <3>2. PICK i \in 1..Cardinality(Registers) : order[i] = r
      BY OrderOnto
    <3>3. SavedRoots(order)[NumBuckets + i] = c
      BY <3>1, <3>2, SavedRootsAre
    <3>4. NumBuckets + i \in 1..NumRoots
      BY BoundsAreNat DEF NumRoots
    <3>5. StandsFor(s.number, g.roots[NumBuckets + i], c)
      BY <3>3, <3>4 DEF LoadedAs
    <3> QED BY <2>1, <3>5 DEF StandsFor
  <2>2. CASE c \in Cells /\ kind[c] = "symbol"
    <3>1. c \in Listed
      BY <1>3, ReachableLeast
    <3>2. HashOf[name[c]] \in Buckets
      BY <2>2, HeapAssumption DEF PersistInv, HeapInv, CellsInv
    <3>3. c \in InBucket(HashOf[name[c]])
      BY <2>2, <3>1, <3>2, AtCheckpoint
    <3> QED BY <1>2, <3>2, <3>3
  <2> QED BY <2>1, <2>2 DEF Roots
<1>5. Reachable \subseteq D
  <2> HIDE DEF D
  <2> QED BY <1>2, <1>3, <1>4, ReachableLeast
<1> QED BY <1>2, <1>3, <1>5

\* So a checkpoint loads as the heap that it was taken from.
LEMMA LoadsAsSaved ==
    ASSUME PersistInv
    PROVE  RoundTrip
<1> SUFFICES ASSUME pc = "checkpoint", NEW order \in Orders,
                    NEW g, g = Loaded(File(order).tokens, NumRoots)
             PROVE  LET f == File(order)
                        num(v) == IF v \in Cells THEN f.number[v] ELSE v
                    IN  /\ Accepted(g)
                        /\ DOMAIN f.number = Reachable
                        /\ g.roots = [i \in 1..NumRoots |-> num(SavedRoots(order)[i])]
                        /\ \A c \in Reachable : \A o \in {g.objects[f.number[c]]} :
                              /\ o.kind = kind[c] /\ o.name = name[c] /\ o.finalize = (c \in finalize)
                              /\ LoadedNext(o) = num(next[c])
                              /\ \A i \in Slots : LoadedSlot(o, i) = num(slot[c][i])
  BY DEF RoundTrip
<1> DEFINE f == File(order)
           num(v) == IF v \in Cells THEN f.number[v] ELSE v
<1>1. NumRoots \in 0..NumRoots
  BY BoundsAreNat
<1>2. LoadedAs(g, f, NumRoots, order)
  <2>1. PICK s : LoadedAs(g, s, NumRoots, order)
    BY <1>1, LoadedCopies
  <2>2. s = f
    BY <2>1 DEF LoadedAs
  <2> QED BY <2>1, <2>2
<1>3. DOMAIN f.number = Reachable
  BY <1>2, FileReachable
<1>4. Accepted(g)
  BY <1>2 DEF LoadedAs, LoadOK, Accepted
<1>5. g.roots = [i \in 1..NumRoots |-> num(SavedRoots(order)[i])]
  <2>1. g.roots = [i \in 1..NumRoots |-> g.roots[i]]
    BY <1>2 DEF LoadedAs, LoadOK
  <2>2. \A i \in 1..NumRoots : g.roots[i] = num(SavedRoots(order)[i])
    BY <1>2 DEF LoadedAs, StandsFor
  <2> HIDE DEF num
  <2> QED BY <2>1, <2>2
<1>6. ASSUME NEW c \in Reachable, NEW o, o = g.objects[f.number[c]]
      PROVE  /\ o.kind = kind[c] /\ o.name = name[c] /\ o.finalize = (c \in finalize)
             /\ LoadedNext(o) = num(next[c])
             /\ \A i \in Slots : LoadedSlot(o, i) = num(slot[c][i])
  <2>1. /\ o.kind = kind[c] /\ o.name = name[c] /\ o.finalize = (c \in finalize)
        /\ StandsFor(f.number, LoadedNext(o), next[c])
        /\ \A i \in Slots : StandsFor(f.number, LoadedSlot(o, i), slot[c][i])
    <3> HIDE DEF f
    <3> QED BY <1>1, <1>2, <1>3, <1>6, LoadedFields
  <2> QED BY <2>1 DEF StandsFor
<1> QED BY <1>3, <1>4, <1>5, <1>6
-----------------------------------------------------------------------------
(* The program and the collector leave a heap that can be saved.           *)

\* A cell that stays, or has been blank: its link and slots follow its kind.
LEMMA ProgramFields ==
    ASSUME HeapInv, FieldsInv, Program
    PROVE  FieldsInv'
<1> SUFFICES ASSUME NEW r \in Registers,
                    \/ NewVector(r) \/ NewConnection(r) \/ CloseConnection(r) \/ CompileString(r)
                    \/ Unbind(r) \/ Drop(r)
                    \/ \E n \in Names : Intern(r, n)
                    \/ \E s \in Registers, i \in Slots : Load(r, s, i) \/ Store(r, i, s)
             PROVE  FieldsInv'
  BY DEF Program
<1>1. /\ slot \in [Cells -> [Slots -> Refs]] /\ next \in [Cells -> Cells \cup {Null}]
      /\ kind \in [Cells -> {"free", "vector", "symbol", "connection"}]
  BY DEF HeapInv, HeapTypeOK
<1>2. ASSUME kind' = kind, next' = next,
             \A d \in Cells : kind[d] = "symbol" =>
                \A i \in Slots \ {Value} : slot'[d][i] = slot[d][i]
      PROVE  FieldsInv'
  BY <1>2 DEF FieldsInv
<1>3. ASSUME NEW c \in Cells, NEW k, Getmem(c, k),
             \A d \in Cells \ {c} : slot'[d] = slot[d] /\ next'[d] = next[d],
             k # "symbol" => next'[c] = next[c],
             k = "symbol" => \A i \in Slots \ {Value} : slot'[c][i] = slot[c][i]
      PROVE  FieldsInv'
  <2>1. next[c] = Null /\ \A i \in Slots : slot[c][i] = Null
    BY <1>3, FreeCell DEF Getmem, FieldsInv
  <2>2. kind'[c] = k /\ \A d \in Cells \ {c} : kind'[d] = kind[d]
    BY <1>1, <1>3 DEF Getmem
  <2>3. ASSUME NEW d \in Cells \ {c}
        PROVE  /\ kind'[d] # "symbol" => next'[d] = Null
               /\ kind'[d] = "symbol" => \A i \in Slots \ {Value} : slot'[d][i] = Null
    BY <1>3, <2>2 DEF FieldsInv
  <2>4. /\ kind'[c] # "symbol" => next'[c] = Null
        /\ kind'[c] = "symbol" => \A i \in Slots \ {Value} : slot'[c][i] = Null
    BY <1>3, <2>1, <2>2
  <2> QED BY <2>3, <2>4 DEF FieldsInv
<1>4. CASE NewVector(r)
  BY <1>3, <1>4 DEF NewVector
<1>5. CASE NewConnection(r)
  BY <1>3, <1>5 DEF NewConnection
<1>6. CASE CloseConnection(r)
  <2>1. reg[r] \in Cells /\ kind[reg[r]] = "connection" /\ ConnClose(reg[r])
        /\ UNCHANGED <<kind, next>>
    BY <1>6 DEF CloseConnection
  <2>2. \A d \in Cells \ {reg[r]}, i \in Slots : slot'[d][i] = slot[d][i]
    BY <2>1, Closed
  <2> QED BY <1>2, <2>1, <2>2
<1>7. CASE CompileString(r)
  <2>1. PICK c \in Cells, rest_of \in {reg[r], Null} :
          Getmem(c, "connection") /\ slot' = [slot EXCEPT ![c][Handle] = rest_of]
    BY <1>7 DEF CompileString
  <2>2. next' = next /\ \A d \in Cells \ {c} : slot'[d] = slot[d]
    BY <1>1, <1>7, <2>1 DEF CompileString
  <2> QED BY <1>3, <2>1, <2>2
<1>8. CASE Unbind(r)
  <2>1. UNCHANGED <<kind, next>> /\ slot' = [slot EXCEPT ![reg[r]][Value] = Undefined]
        /\ reg[r] \in Cells
    BY <1>8 DEF Unbind
  <2>2. \A d \in Cells, i \in Slots \ {Value} : slot'[d][i] = slot[d][i]
    BY <1>1, <2>1
  <2> QED BY <1>2, <2>1, <2>2
<1>9. CASE Drop(r)
  BY <1>2, <1>9 DEF Drop, object
<1>10. ASSUME NEW n \in Names, Intern(r, n) PROVE FieldsInv'
  <2>1. CASE Found(r, n)
    BY <1>2, <2>1 DEF Found, object
  <2>2. ASSUME NEW c \in Cells, NewSymbol(r, n, c) PROVE FieldsInv'
    <3>1. /\ Getmem(c, "symbol") /\ slot' = [slot EXCEPT ![c][Value] = Undefined]
          /\ next' = [next EXCEPT ![c] = symtab[HashOf[n]]]
      BY <2>2 DEF NewSymbol
    <3>2. /\ \A d \in Cells \ {c} : slot'[d] = slot[d] /\ next'[d] = next[d]
          /\ \A i \in Slots \ {Value} : slot'[c][i] = slot[c][i]
      BY <1>1, <3>1
    <3> QED BY <1>3, <3>1, <3>2
  <2> QED BY <1>10, <2>1, <2>2 DEF Intern
<1>11. ASSUME NEW s \in Registers, NEW i \in Slots, Load(r, s, i) PROVE FieldsInv'
  BY <1>2, <1>11 DEF Load, object
<1>12. ASSUME NEW s \in Registers, NEW i \in Slots, Store(r, i, s) PROVE FieldsInv'
  <2>1. UNCHANGED <<kind, next>> /\ slot' = [slot EXCEPT ![reg[r]][i] = reg[s]]
        /\ reg[r] \in Cells /\ (kind[reg[r]] = "symbol" => i = Value)
    BY <1>1, <1>12 DEF Store, HasSlot
  <2>2. \A d \in Cells, j \in Slots : d # reg[r] \/ j # i => slot'[d][j] = slot[d][j]
    BY <1>1, <2>1
  <2> QED BY <1>2, <2>1, <2>2
<1> QED BY <1>4, <1>5, <1>6, <1>7, <1>8, <1>9, <1>10, <1>11, <1>12

\* What the collector frees is blank, what it links is a symbol.
LEMMA GcFields ==
    ASSUME HeapInv, FieldsInv, Gc
    PROVE  FieldsInv'
<1>1. /\ slot \in [Cells -> [Slots -> Refs]] /\ next \in [Cells -> Cells \cup {Null}]
      /\ kind \in [Cells -> {"free", "vector", "symbol", "connection"}]
  BY DEF HeapInv, HeapTypeOK
<1>2. CASE \/ GcStart \/ Mark \/ RootsMarked \/ MarkSymbol \/ BucketMarked \/ Swept
           \/ CheckpointWritten \/ Finalized
  <2>1. UNCHANGED <<kind, slot, next>>
    BY <1>2 DEF GcStart, Mark, RootsMarked, MarkSymbol, BucketMarked, Swept, CheckpointWritten,
                Finalized, object
  <2> QED BY <2>1 DEF FieldsInv
<1>3. CASE Sweep
  <2> DEFINE c == Head(rest)
  <2>1. c \in Cells /\ (SweepFinalizable(c) \/ SweepGarbage(c) \/ SweepMarked(c))
    BY <1>3, Swept1
  <2> HIDE DEF c
  <2>2. CASE SweepFinalizable(c)
    BY <2>2 DEF SweepFinalizable, FieldsInv
  <2>3. CASE SweepGarbage(c)
    <3>1. /\ \A d \in Cells \ {c} : kind'[d] = kind[d] /\ slot'[d] = slot[d] /\ next'[d] = next[d]
          /\ kind'[c] = "free" /\ next'[c] = Null
      BY <1>1, <2>1, <2>3 DEF SweepGarbage
    <3> QED BY <3>1 DEF FieldsInv
  <2>4. CASE SweepMarked(c)
    <3>1. UNCHANGED <<kind, slot>> /\ \A d \in Cells : next'[d] = next[d] \/ kind[d] = "symbol"
      BY <1>1, <2>1, <2>4 DEF SweepMarked, Relink
    <3> QED BY <3>1 DEF FieldsInv
  <2> QED BY <2>1, <2>2, <2>3, <2>4
<1>4. CASE Finalize
  <2> DEFINE c == Head(finalizable_chain)
  <2>1. c \in Cells /\ kind[c] = "connection" /\ ConnClose(c)
    BY <1>4, Finalized1
  <2>2. UNCHANGED <<kind, next>>
    BY <1>4 DEF Finalize
  <2> HIDE DEF c
  <2>3. \A d \in Cells \ {c}, i \in Slots : slot'[d][i] = slot[d][i]
    BY <2>1, Closed
  <2> QED BY <2>1, <2>2, <2>3 DEF FieldsInv
<1> QED BY <1>2, <1>3, <1>4 DEF Gc

\* Registers and live cells hold nothing but values of G, where no string is read.
LEMMA StringsKept ==
    ASSUME NEW G, G \cap StringConnections' = {}, \A q \in Registers : reg'[q] \in G,
           \A d \in Live', i \in Slots : slot'[d][i] \in G
    PROVE  StringsInv'
BY DEF StringsInv, Children

\* The connection that `compile' reads is not given to anybody.
LEMMA ProgramStrings ==
    ASSUME HeapInv, StringsInv, Program
    PROVE  StringsInv'
<1> SUFFICES ASSUME NEW r \in Registers,
                    \/ NewVector(r) \/ NewConnection(r) \/ CloseConnection(r) \/ CompileString(r)
                    \/ Unbind(r) \/ Drop(r)
                    \/ \E n \in Names : Intern(r, n)
                    \/ \E s \in Registers, i \in Slots : Load(r, s, i) \/ Store(r, i, s)
             PROVE  StringsInv'
  BY DEF Program
<1> USE DEF gcvars, object
<1>1. pc = "mutate" /\ pc' = pc
  BY DEF NewVector, NewConnection, CloseConnection, CompileString, Unbind, Drop, Intern, Load,
         Store, Mutating
<1> DEFINE E == Elements(all_objects)
           SC == StringConnections
           G == (E \ SC) \cup {Null, Undefined}
<1>2. /\ Live = E /\ Live' = Elements(all_objects')
      /\ HeapTypeOK /\ kind \in [Cells -> {"free", "vector", "symbol", "connection"}]
      /\ reg \in [Registers -> Cells \cup {Null}] /\ slot \in [Cells -> [Slots -> Refs]]
  BY <1>1 DEF Live, HeapInv, HeapTypeOK
<1>3. E \subseteq Cells /\ Null \notin Cells /\ Undefined \notin Cells /\ SC \subseteq Cells
  BY <1>1, LiveValues, HeapAssumption DEF StringConnections
<1>4. /\ \A q \in Registers : reg[q] \in G
      /\ \A d \in E, i \in Slots : slot[d][i] \in G
  <2>1. /\ \A q \in Registers : reg[q] \in E \cup {Null} /\ reg[q] \notin SC
        /\ \A d \in E, i \in Slots : slot[d][i] \in E \cup {Null, Undefined}
    BY <1>1, LiveValues DEF StringsInv
  <2>2. \A d \in E, i \in Slots : slot[d][i] \notin SC
    BY <1>2, <1>3 DEF StringsInv, Children
  <2> HIDE DEF E, SC
  <2> QED BY <2>1, <2>2
<1>5. ASSUME all_objects' = all_objects, StringConnections' \subseteq SC,
             \A q \in Registers : reg'[q] \in G,
             \A d \in E, i \in Slots : slot'[d][i] \in G
      PROVE  StringsInv'
  <2>1. G \cap StringConnections' = {}
    BY <1>3, <1>5
  <2>2. Live' = E
    BY <1>2, <1>5
  <2> HIDE DEF G, E
  <2> QED BY <1>5, <2>1, <2>2, StringsKept
<1>6. ASSUME NEW c \in Cells, NEW k, Getmem(c, k),
             \A d \in Cells \ {c} : slot'[d] = slot[d],
             k = "connection" => slot'[c][Handle] = Null \/ reg' = reg,
             \A q \in Registers : reg'[q] \in G \cup {c},
             \A i \in Slots : slot'[c][i] \in G
      PROVE  StringsInv'
  <2>1. Elements(all_objects') = E \cup {c} /\ c \notin E
    BY <1>2, <1>6, GetmemList, FreeCell DEF Getmem
  <2>2. StringConnections' \subseteq SC \cup {c}
        /\ (c \in StringConnections' => k = "connection" /\ slot'[c][Handle] # Null)
    BY <1>2, <1>6 DEF Getmem, StringConnections
  <2> HIDE DEF E, SC
  <2>3. CASE c \in StringConnections'
    <3>1. G \cap StringConnections' = {}
      BY <1>3, <2>1, <2>2
    <3>2. \A q \in Registers : reg'[q] \in G
      BY <1>4, <1>6, <2>2, <2>3
    <3>3. \A d \in Live', i \in Slots : slot'[d][i] \in G
      BY <1>2, <1>3, <1>4, <1>6, <2>1 DEF E
    <3> HIDE DEF G
    <3> QED BY <3>1, <3>2, <3>3, StringsKept
  <2>4. CASE c \notin StringConnections'
    <3>1. (G \cup {c}) \cap StringConnections' = {}
      BY <1>3, <2>1, <2>2, <2>4
    <3>2. \A d \in Live', i \in Slots : slot'[d][i] \in G \cup {c}
      BY <1>2, <1>3, <1>4, <1>6, <2>1 DEF E
    <3> HIDE DEF G
    <3> QED BY <1>6, <3>1, <3>2, StringsKept
  <2> QED BY <2>3, <2>4
<1>7. Null \in G /\ Undefined \in G
  OBVIOUS
<1>8. ASSUME UNCHANGED <<kind, slot>> PROVE StringConnections' = SC
  BY <1>8 DEF StringConnections
<1> HIDE DEF G, SC
<1>9. CASE NewVector(r)
  <2>1. PICK c \in Cells : Getmem(c, "vector") /\ Into(r, c)
    BY <1>9 DEF NewVector
  <2>2. slot' = slot /\ \A i \in Slots : slot[c][i] = Null
    BY <1>9, <2>1, FreeCell DEF Getmem, NewVector
  <2>3. \A q \in Registers : reg'[q] \in G \cup {c}
    BY <1>2, <1>4, <2>1 DEF Into
  <2> QED BY <1>6, <1>7, <2>1, <2>2, <2>3
<1>10. CASE NewConnection(r)
  <2>1. PICK c \in Cells : Getmem(c, "connection") /\ Into(r, c)
    BY <1>10 DEF NewConnection
  <2>2. slot' = slot /\ \A i \in Slots : slot[c][i] = Null
    BY <1>10, <2>1, FreeCell DEF Getmem, NewConnection
  <2>3. \A q \in Registers : reg'[q] \in G \cup {c}
    BY <1>2, <1>4, <2>1 DEF Into
  <2>4. slot'[c][Handle] = Null
    BY <2>2, HeapAssumption DEF Slots, Handle
  <2> QED BY <1>6, <1>7, <2>1, <2>2, <2>3, <2>4
<1>11. CASE CloseConnection(r)
  <2>1. reg[r] \in Cells /\ ConnClose(reg[r]) /\ UNCHANGED <<kind, all_objects, reg>>
    BY <1>11 DEF CloseConnection
  <2>2. \A d \in Cells, i \in Slots : slot'[d][i] \in {slot[d][i], Null}
    BY <2>1, Closed
  <2>3. StringConnections' \subseteq SC
    BY <2>1, <2>2, HeapAssumption DEF StringConnections, SC, Slots, Handle
  <2>4. \A d \in E, i \in Slots : slot'[d][i] \in G
    BY <1>3, <1>4, <1>7, <2>2
  <2> QED BY <1>4, <1>5, <2>1, <2>3, <2>4
<1>12. CASE CompileString(r)
  <2>1. PICK c \in Cells, rest_of \in {reg[r], Null} :
          Getmem(c, "connection") /\ slot' = [slot EXCEPT ![c][Handle] = rest_of]
    BY <1>12 DEF CompileString
  <2>2. \A i \in Slots : slot[c][i] = Null
    BY <2>1, FreeCell DEF Getmem
  <2>3. \A i \in Slots : slot'[c][i] \in {Null, rest_of}
    BY <1>2, <2>1, <2>2
  <2>4. \A d \in Cells \ {c} : slot'[d] = slot[d]
    BY <1>2, <2>1
  <2>5. reg' = reg
    BY <1>12 DEF CompileString
  <2>6. rest_of \in G
    BY <1>4, <1>7, <2>1
  <2> QED BY <1>4, <1>6, <1>7, <2>1, <2>3, <2>4, <2>5, <2>6
<1>13. CASE Unbind(r)
  <2>1. /\ UNCHANGED <<kind, all_objects, reg>> /\ reg[r] \in Cells /\ kind[reg[r]] = "symbol"
        /\ slot' = [slot EXCEPT ![reg[r]][Value] = Undefined]
    BY <1>13 DEF Unbind
  <2>2. \A d \in Cells, i \in Slots :
           slot'[d][i] \in {slot[d][i], Undefined} /\ (d # reg[r] => slot'[d][i] = slot[d][i])
    BY <1>2, <2>1
  <2>3. StringConnections' \subseteq SC
    BY <2>1, <2>2, HeapAssumption DEF StringConnections, SC, Slots, Handle
  <2>4. \A d \in E, i \in Slots : slot'[d][i] \in G
    BY <1>3, <1>4, <1>7, <2>2
  <2> QED BY <1>4, <1>5, <2>1, <2>3, <2>4
<1>14. CASE Drop(r)
  <2>1. UNCHANGED <<kind, slot, all_objects>> /\ reg' = [reg EXCEPT ![r] = Null]
    BY <1>14 DEF Drop, Into
  <2> QED BY <1>2, <1>4, <1>5, <1>7, <1>8, <2>1
<1>15. ASSUME NEW n \in Names, Intern(r, n) PROVE StringsInv'
  <2>1. CASE Found(r, n)
    <3>1. PICK c \in FirstMatch(n) : Into(r, c)
      BY <2>1 DEF Found
    <3>2. c \in E /\ kind[c] = "symbol"
      BY <1>1, <3>1, HeapAssumption DEF FirstMatch, Matching, HeapInv, SymtabInv, E
    <3>3. c \in G
      BY <3>2 DEF G, SC, StringConnections
    <3>4. \A q \in Registers : reg'[q] \in G
      BY <1>2, <1>4, <3>1, <3>3 DEF Into
    <3> QED BY <1>4, <1>5, <1>8, <2>1, <3>4 DEF Found
  <2>2. ASSUME NEW c \in Cells, NewSymbol(r, n, c) PROVE StringsInv'
    <3>1. Getmem(c, "symbol") /\ Into(r, c) /\ slot' = [slot EXCEPT ![c][Value] = Undefined]
      BY <2>2 DEF NewSymbol
    <3>2. \A i \in Slots : slot[c][i] = Null
      BY <3>1, FreeCell DEF Getmem
    <3>3. \A i \in Slots : slot'[c][i] \in {Null, Undefined}
      BY <1>2, <3>1, <3>2
    <3>4. \A d \in Cells \ {c} : slot'[d] = slot[d]
      BY <1>2, <3>1
    <3>5. \A q \in Registers : reg'[q] \in G \cup {c}
      BY <1>2, <1>4, <3>1 DEF Into
    <3> QED BY <1>6, <1>7, <3>1, <3>3, <3>4, <3>5
  <2> QED BY <1>15, <2>1, <2>2 DEF Intern
<1>16. ASSUME NEW s \in Registers, NEW i \in Slots, Load(r, s, i) PROVE StringsInv'
  <2>1. UNCHANGED <<kind, all_objects, slot>> /\ reg' = [reg EXCEPT ![r] = slot[reg[s]][i]]
        /\ reg[s] \in Cells
    BY <1>16 DEF Load, HasSlot, Into
  <2>2. reg[s] \in E
    BY <1>3, <1>4, <2>1 DEF G
  <2>3. slot[reg[s]][i] \in G
    BY <1>4, <2>2
  <2>4. \A q \in Registers : reg'[q] \in G
    BY <1>2, <1>4, <2>1, <2>3
  <2> QED BY <1>4, <1>5, <1>8, <2>1, <2>4
<1>17. ASSUME NEW s \in Registers, NEW i \in Slots, Store(r, i, s) PROVE StringsInv'
  <2>1. UNCHANGED <<kind, all_objects, reg>> /\ slot' = [slot EXCEPT ![reg[r]][i] = reg[s]]
        /\ reg[r] \in Cells /\ kind[reg[r]] \in {"vector", "symbol"}
    BY <1>17 DEF Store, HasSlot
  <2>2. \A d \in Cells, j \in Slots :
           slot'[d][j] \in {slot[d][j], reg[s]} /\ (d # reg[r] => slot'[d][j] = slot[d][j])
    BY <1>2, <2>1
  <2>3. StringConnections' \subseteq SC
    BY <2>1, <2>2, HeapAssumption DEF StringConnections, SC, Slots, Handle
  <2>4. \A d \in E, j \in Slots : slot'[d][j] \in G
    BY <1>3, <1>4, <1>7, <2>2
  <2> QED BY <1>4, <1>5, <2>1, <2>3, <2>4
<1> QED BY <1>9, <1>10, <1>11, <1>12, <1>13, <1>14, <1>15, <1>16, <1>17

\* A collection and finalization make no reference, and no connection that reads a string.
LEMMA GcStrings ==
    ASSUME HeapInv, StringsInv, Gc
    PROVE  StringsInv'
<1>1. /\ kind \in [Cells -> {"free", "vector", "symbol", "connection"}]
      /\ slot \in [Cells -> [Slots -> Refs]] /\ marked \subseteq Cells
      /\ all_objects \in Seq(Cells) /\ Null \notin Cells /\ Handle \in Slots
  BY HeapAssumption DEF HeapInv, HeapTypeOK, Slots, Handle
<1>2. reg' = reg /\ Live \subseteq Cells
  BY <1>1 DEF Gc, GcStart, Mark, RootsMarked, MarkSymbol, BucketMarked, Sweep, Swept,
         CheckpointWritten, Finalize, Finalized, Collecting, Live, Elements
<1>3. ASSUME \A d \in Cells, i \in Slots : slot'[d][i] \in {slot[d][i], Null},
             \A d \in Cells : kind'[d] \in {kind[d], "free"},
             \A d \in Live' : d \in Live \/ \A i \in Slots : slot'[d][i] = Null
      PROVE  StringsInv'
  <2>1. StringConnections' \subseteq StringConnections
    BY <1>1, <1>3 DEF StringConnections
  <2>2. StringConnections \subseteq Cells
    BY DEF StringConnections
  <2>3. \A q \in Registers : reg'[q] \notin StringConnections'
    BY <1>2, <2>1 DEF StringsInv
  <2>4. \A d \in Live' : Children(d)' \cap StringConnections' = {}
    <3> SUFFICES ASSUME NEW d \in Live', NEW i \in Slots, slot'[d][i] \in Cells
                 PROVE  slot'[d][i] \notin StringConnections'
      BY DEF Children
    <3>1. d \in Live
      BY <1>1, <1>3
    <3>2. slot'[d][i] = slot[d][i]
      BY <1>1, <1>2, <1>3, <3>1
    <3>3. slot[d][i] \in Children(d)
      BY <3>2 DEF Children
    <3> QED BY <2>1, <3>1, <3>2, <3>3 DEF StringsInv
  <2> QED BY <2>3, <2>4 DEF StringsInv
<1>4. CASE \/ GcStart \/ Mark \/ RootsMarked \/ MarkSymbol \/ Swept \/ CheckpointWritten \/ Finalized
  <2>1. UNCHANGED <<kind, slot, all_objects>> /\ pc' # "sweep"
    BY <1>4 DEF GcStart, Mark, RootsMarked, MarkSymbol, Swept, CheckpointWritten, Finalized,
                object, Collecting
  <2>2. Live' \subseteq Live
    BY <2>1 DEF Live
  <2> QED BY <1>3, <2>1, <2>2
<1>5. CASE BucketMarked
  <2>1. UNCHANGED <<kind, slot, marked>> /\ pc = "symtab"
        /\ (UNCHANGED <<all_objects, pc>> \/ (all_objects' = << >> /\ pc' = "sweep"))
    BY <1>5 DEF BucketMarked, Collecting
  <2>2. marked \subseteq Elements(all_objects)
    BY <2>1 DEF HeapInv, MarkInv
  <2>3. Live' \subseteq Live
    BY <2>1, <2>2, EmptyList DEF Live
  <2> QED BY <1>3, <2>1, <2>3
<1>6. CASE Sweep
  <2> DEFINE c == Head(rest)
  <2>1. c \in Cells /\ (SweepFinalizable(c) \/ SweepGarbage(c) \/ SweepMarked(c))
        /\ pc = "sweep" /\ pc' = pc
    BY <1>6, Swept1 DEF Sweep
  <2> HIDE DEF c
  <2>2. Live = Elements(all_objects) \cup marked /\ Live' = Elements(all_objects') \cup marked'
    BY <2>1 DEF Live
  <2>3. CASE SweepFinalizable(c)
    <3>1. UNCHANGED <<kind, slot, marked, all_objects>>
      BY <2>3 DEF SweepFinalizable
    <3> QED BY <1>3, <2>2, <3>1
  <2>4. CASE SweepGarbage(c)
    <3>1. UNCHANGED <<marked, all_objects>> /\ kind' = [kind EXCEPT ![c] = "free"]
          /\ slot' = [slot EXCEPT ![c] = [i \in Slots |-> Null]]
      BY <2>4 DEF SweepGarbage
    <3>2. \A d \in Cells, i \in Slots : slot'[d][i] \in {slot[d][i], Null}
      BY <1>1, <2>1, <3>1
    <3>3. \A d \in Cells : kind'[d] \in {kind[d], "free"}
      BY <1>1, <2>1, <3>1
    <3> QED BY <1>3, <2>2, <3>1, <3>2, <3>3
  <2>5. CASE SweepMarked(c)
    <3>1. UNCHANGED <<kind, slot>> /\ c \in marked /\ marked' = marked \ {c}
          /\ all_objects' = Push(all_objects, c)
      BY <2>5 DEF SweepMarked
    <3>2. Elements(all_objects') = Elements(all_objects) \cup {c}
      BY <1>1, <2>1, <3>1, PushList
    <3>3. Live' \subseteq Live
      BY <2>2, <3>1, <3>2
    <3> QED BY <1>3, <3>1, <3>3
  <2> QED BY <2>1, <2>3, <2>4, <2>5
<1>7. CASE Finalize
  <2> DEFINE c == Head(finalizable_chain)
  <2>1. c \in Cells /\ kind[c] = "connection" /\ ConnClose(c)
        /\ Elements(all_objects') = Elements(all_objects) \cup {c}
    BY <1>7, Finalized1
  <2>2. kind' = kind /\ pc = "finalize" /\ pc' = pc
    BY <1>7 DEF Finalize, Collecting
  <2> HIDE DEF c
  <2>3. \A d \in Cells, i \in Slots :
           slot'[d][i] = IF d = c /\ i = Handle THEN Null ELSE slot[d][i]
    BY <2>1, Closed
  <2>4. \A i \in Slots : slot'[c][i] = Null
    BY <2>1, <2>3 DEF HeapInv, CellsInv
  <2>5. Live' = Live \cup {c}
    BY <2>1, <2>2 DEF Live
  <2>6. \A d \in Cells, i \in Slots : slot'[d][i] \in {slot[d][i], Null}
    BY <2>3
  <2>7. \A d \in Live' : d \in Live \/ \A i \in Slots : slot'[d][i] = Null
    BY <2>4, <2>5
  <2>8. \A d \in Cells : kind'[d] \in {kind[d], "free"}
    BY <2>2
  <2> QED BY <1>3, <2>6, <2>7, <2>8
<1> QED BY <1>4, <1>5, <1>6, <1>7 DEF Gc

\* The server starts with such a heap,
LEMMA InitPersistInv == HeapInit => PersistInv
<1> SUFFICES ASSUME HeapInit PROVE PersistInv
  OBVIOUS
<1>1. HeapInv
  BY InitInv
<1>2. /\ kind = [c \in Cells |-> "free"] /\ next = [c \in Cells |-> Null]
      /\ slot = [c \in Cells |-> [i \in Slots |-> Null]]
      /\ reg = [r \in Registers |-> Null] /\ all_objects = << >> /\ pc = "mutate"
  BY DEF HeapInit
<1>3. FieldsInv
  BY <1>2 DEF FieldsInv
<1>4. StringsInv
  <2>1. StringConnections = {} /\ Live = {}
    BY <1>2, EmptyList DEF StringConnections, Live
  <2> QED BY <2>1 DEF StringsInv
<1> QED BY <1>1, <1>2, <1>3, <1>4 DEF PersistInv

\* and every step of the program and of a collection leaves one.
LEMMA HeapStepPersistInv == PersistInv /\ [HeapNext]_heapvars => PersistInv'
<1> SUFFICES ASSUME PersistInv, [HeapNext]_heapvars PROVE PersistInv'
  OBVIOUS
<1>1. HeapInv /\ HeapInv' /\ FieldsInv /\ StringsInv
  BY NextInv DEF PersistInv
<1>2. CASE HeapNext
  <2>1. FieldsInv' /\ StringsInv'
    BY <1>1, <1>2, ProgramFields, ProgramStrings, GcFields, GcStrings DEF HeapNext
  <2>2. ASSUME pc' = "checkpoint" PROVE Elements(all_objects') \subseteq Reachable'
    <3>1. pc = "sweep"
      BY <1>2, <2>2, ZenonT(30)
         DEF HeapNext, Program, Gc, NewVector, NewConnection, CloseConnection, CompileString, Unbind,
             Drop, Intern, Load, Store, Mutating, GcStart, Mark, RootsMarked, MarkSymbol,
             BucketMarked, Sweep, Swept, CheckpointWritten, Finalize, Finalized, Collecting,
             HeapInv, HeapTypeOK
    <3> QED BY <1>1, <1>2, <2>2, <3>1, SweepLeaves
  <2> QED BY <1>1, <2>1, <2>2 DEF PersistInv
<1>3. CASE UNCHANGED heapvars
  <2>1. /\ StringConnections' = StringConnections /\ Live' = Live /\ Reachable' = Reachable
        /\ \A c \in Live : Children(c)' = Children(c)
        /\ Live \subseteq Cells
    BY <1>1, <1>3 DEF heapvars, object, gcvars, StringConnections, Live, Reachable, Roots, Children,
                      HeapInv, HeapTypeOK, Elements
  <2>2. FieldsInv' /\ StringsInv'
    BY <1>1, <1>3, <2>1 DEF heapvars, object, FieldsInv, StringsInv
  <2> QED BY <1>1, <1>3, <2>1, <2>2 DEF PersistInv, heapvars
<1> QED BY <1>2, <1>3
-----------------------------------------------------------------------------
(* A restart leaves one too.                                               *)

\* The heap of a restart: what was loaded, as it was.
Restarted(D) ==
    /\ D \subseteq Listed
    /\ \A c \in D : Children(c) \subseteq D /\ {next[c]} \cap Cells \subseteq D
    /\ \A b \in Buckets : {symtab[b]} \cap Cells \subseteq D /\ InBucket(b) \subseteq D
    /\ kind' = [c \in Cells |-> IF c \in D THEN kind[c] ELSE "free"]
    /\ name' = [c \in Cells |-> IF c \in D THEN name[c] ELSE Null]
    /\ next' = [c \in Cells |-> IF c \in D THEN next[c] ELSE Null]
    /\ slot' = [c \in Cells |-> [i \in Slots |-> IF c \in D THEN slot[c][i] ELSE Null]]
    /\ finalize' = finalize \cap D
    /\ all_objects' \in Seq(D) /\ Elements(all_objects') = D /\ Distinct(all_objects')
    /\ symtab' = symtab /\ reg' \in [Registers -> D \cup {Null}]

\* The cell at the place of a number; other values are where they were.
LEMMA PlaceIs ==
    ASSUME NEW number, NEW used, \A c, d \in used : number[c] = number[d] => c = d
    PROVE  /\ \A c \in used : Place(number, used, number[c]) = c
           /\ \A v : (\A c \in used : number[c] # v) => Place(number, used, v) = v
<1>1. ASSUME NEW c \in used PROVE Place(number, used, number[c]) = c
  <2> DEFINE d == CHOOSE d \in used : number[d] = number[c]
  <2>1. d \in used /\ number[d] = number[c]
    OBVIOUS
  <2>2. d = c
    <3> HIDE DEF d
    <3> QED BY <2>1
  <2>3. \E d2 \in used : number[d2] = number[c]
    OBVIOUS
  <2>4. Place(number, used, number[c]) = d
    BY <2>3, Zenon DEF Place
  <2> QED BY <2>2, <2>4
<1>2. ASSUME NEW v, \A c \in used : number[c] # v PROVE Place(number, used, v) = v
  BY <1>2 DEF Place
<1> QED BY <1>1, <1>2

\* The numbers that were loaded are those of the objects that load met.
LEMMA UsedIs ==
    ASSUME PersistInv, pc = "checkpoint", NEW order \in Orders, NEW nroots \in 0..NumRoots,
           NEW g, NEW s, LoadedAs(g, s, nroots, order), NEW number, number = File(order).number,
           NEW used, used = {c \in DOMAIN number : number[c] \in DOMAIN g.objects}
    PROVE  /\ used = DOMAIN s.number /\ Cardinality(used) = s.next_n /\ s.next_n \in Nat
           /\ \A c \in used : number[c] = s.number[c] /\ number[c] \in 0..(s.next_n - 1)
           /\ \A c, d \in used : number[c] = number[d] => c = d
           /\ \A n \in 0..(s.next_n - 1) : \E c \in used : number[c] = n
<1> DEFINE m == s.next_n
           D == DOMAIN s.number
<1>1. Numbering(s.number, m) /\ Numbering(number, File(order).next_n)
  <2>1. PICK f : Saves(f, order)
    BY FileIs
  <2>2. SaveOK(File(order))
    BY <2>1 DEF Saves
  <2> QED BY <2>2 DEF LoadedAs, SaveOK
<1>2. D \subseteq DOMAIN number /\ \A c \in D : number[c] = s.number[c]
  BY DEF LoadedAs, Extends
<1>3. DOMAIN g.objects = 0..(m - 1)
  BY DEF LoadedAs, LoadOK
<1>4. \A c \in D : s.number[c] \in 0..(m - 1)
  BY <1>1 DEF Numbering
<1>5. \A n \in 0..(m - 1) : \E c \in D : number[c] = n
  BY <1>1, <1>2 DEF Numbering
<1>6. \A c, d \in DOMAIN number : number[c] = number[d] => c = d
  BY <1>1 DEF Numbering
<1>7. m \in Nat /\ Cardinality(D) = m
  BY <1>1 DEF Numbering
<1> HIDE DEF m, D
<1>8. used = D
  BY <1>2, <1>3, <1>4, <1>5, <1>6
<1> QED BY <1>2, <1>4, <1>5, <1>6, <1>7, <1>8 DEF m, D

\* So a value is back where it was.
LEMMA PlacedBack ==
    ASSUME NEW saved, NEW number, NEW used, used = DOMAIN saved,
           \A c \in used : number[c] = saved[c] /\ number[c] \in Nat,
           \A c, d \in used : number[c] = number[d] => c = d,
           NEW v \in Cells \cup {Null, Undefined}, NEW w, StandsFor(saved, w, v)
    PROVE  Place(number, used, w) = v
<1>1. /\ used = DOMAIN saved
      /\ \A c \in used : number[c] = saved[c] /\ number[c] \in Nat
      /\ \A c, d \in used : number[c] = number[d] => c = d
  OBVIOUS
<1>2. CASE v \in Cells
  <2>1. v \in used /\ w = number[v]
    BY <1>1, <1>2 DEF StandsFor
  <2> QED BY <1>1, <2>1, PlaceIs
<1>3. CASE v \notin Cells
  <2>1. w = v /\ v \notin Nat
    BY <1>3, PersistAssumption DEF StandsFor
  <2>2. \A c \in used : number[c] # w
    BY <1>1, <2>1
  <2> QED BY <1>1, <2>1, <2>2, PlaceIs
<1> QED BY <1>2, <1>3

LEMMA RestartIs ==
    ASSUME PersistInv, Restart
    PROVE  \E D : Restarted(D)
<1>1. pc = "checkpoint"
  BY DEF Restart
<1>2. PICK order \in Orders, threads \in BOOLEAN : \E f \in {File(order)} :
        \E g \in {Loaded(f.tokens, IF threads THEN NumRoots ELSE NumBuckets)} :
          Restored(g, f.number, {c \in DOMAIN f.number : f.number[c] \in DOMAIN g.objects},
                   order, threads)
  BY DEF Restart
<1>3. PICK nroots, g, number, D :
        /\ nroots = IF threads THEN NumRoots ELSE NumBuckets
        /\ g = Loaded(File(order).tokens, nroots)
        /\ number = File(order).number
        /\ D = {c \in DOMAIN number : number[c] \in DOMAIN g.objects}
        /\ Restored(g, number, D, order, threads)
  BY <1>2
<1> DEFINE o(c) == g.objects[number[c]]
           place(v) == Place(number, D, v)
<1>4. nroots \in NumBuckets..NumRoots /\ nroots \in 0..NumRoots
  BY <1>3, BoundsAreNat DEF NumRoots
<1>5. PICK s : LoadedAs(g, s, nroots, order)
  BY <1>1, <1>3, <1>4, LoadedCopies
<1>6. /\ D = DOMAIN s.number /\ Cardinality(D) = s.next_n /\ s.next_n \in Nat
      /\ \A c \in D : number[c] = s.number[c] /\ number[c] \in 0..(s.next_n - 1)
      /\ \A c, d \in D : number[c] = number[d] => c = d
      /\ \A n \in 0..(s.next_n - 1) : \E c \in D : number[c] = n
  <2>1. /\ number = File(order).number /\ nroots \in 0..NumRoots
        /\ D = {c \in DOMAIN number : number[c] \in DOMAIN g.objects}
        /\ LoadedAs(g, s, nroots, order)
    BY <1>3, <1>4, <1>5
  <2> QED BY <1>1, <2>1, UsedIs, SMTT(30)
<1>7. ASSUME NEW v \in Cells \cup {Null, Undefined}, NEW w, StandsFor(s.number, w, v)
      PROVE  place(w) = v
  <2>1. \A c \in D : number[c] = s.number[c] /\ number[c] \in Nat
    BY <1>6
  <2> HIDE DEF place
  <2>2. Place(number, D, w) = v
    BY <1>6, <1>7, <2>1, PlacedBack
  <2> QED BY <2>2 DEF place
<1>8. /\ D \subseteq Listed /\ D \subseteq Cells
      /\ \A c \in D : Children(c) \subseteq D /\ {next[c]} \cap Cells \subseteq D
      /\ \A b \in Buckets : {symtab[b]} \cap Cells \subseteq D /\ InBucket(b) \subseteq D
  BY <1>1, <1>4, <1>5, <1>6, LoadedClosed, AtCheckpoint
<1>9. /\ HeapTypeOK
      /\ \A c \in Cells : next[c] \in Cells \cup {Null}
      /\ \A c \in Cells, i \in Slots : slot[c][i] \in Cells \cup {Null, Undefined}
      /\ \A b \in Buckets : symtab[b] \in Cells \cup {Null}
      /\ \A r \in Registers : reg[r] \in Cells \cup {Null}
  BY DEF PersistInv, HeapInv, HeapTypeOK, Refs
<1>10. ASSUME NEW c \in D
       PROVE  /\ o(c).kind = kind[c] /\ o(c).name = name[c] /\ o(c).finalize = (c \in finalize)
              /\ place(LoadedNext(o(c))) = next[c]
              /\ \A i \in Slots : place(LoadedSlot(o(c), i)) = slot[c][i]
  <2>1. /\ o(c).kind = kind[c] /\ o(c).name = name[c] /\ o(c).finalize = (c \in finalize)
        /\ StandsFor(s.number, LoadedNext(o(c)), next[c])
        /\ \A i \in Slots : StandsFor(s.number, LoadedSlot(o(c), i), slot[c][i])
    <3>1. c \in DOMAIN s.number /\ o(c) = g.objects[s.number[c]]
      BY <1>6
    <3> HIDE DEF o
    <3> QED BY <1>1, <1>4, <1>5, <3>1, LoadedFields
  <2>2. c \in Cells
    BY <1>8
  <2> HIDE DEF o, place
  <2> QED BY <1>7, <1>9, <2>1, <2>2, ZenonT(60)
<1>11. /\ kind' = [c \in Cells |-> IF c \in D THEN o(c).kind ELSE "free"]
      /\ name' = [c \in Cells |-> IF c \in D THEN o(c).name ELSE Null]
      /\ next' = [c \in Cells |-> IF c \in D THEN place(LoadedNext(o(c))) ELSE Null]
      /\ slot' = [c \in Cells |-> [i \in Slots |->
                    IF c \in D THEN place(LoadedSlot(o(c), i)) ELSE Null]]
      /\ finalize' = {c \in D : o(c).finalize}
      /\ all_objects' = [i \in 1..Cardinality(D) |-> place(Cardinality(D) - i)]
      /\ symtab' = [b \in Buckets |-> place(g.roots[b])]
      /\ reg' = [r \in Registers |->
                   IF threads THEN place(g.roots[NumBuckets + (CHOOSE i \in DOMAIN order : order[i] = r)])
                   ELSE Null]
  BY <1>3 DEF Restored
<1> HIDE DEF o, place
<1>12. /\ kind' = [c \in Cells |-> IF c \in D THEN kind[c] ELSE "free"]
       /\ name' = [c \in Cells |-> IF c \in D THEN name[c] ELSE Null]
       /\ next' = [c \in Cells |-> IF c \in D THEN next[c] ELSE Null]
       /\ slot' = [c \in Cells |-> [i \in Slots |-> IF c \in D THEN slot[c][i] ELSE Null]]
       /\ finalize' = finalize \cap D
  BY <1>10, <1>11
<1>13. symtab' = symtab
  <2>1. ASSUME NEW b \in Buckets PROVE place(g.roots[b]) = symtab[b]
    <3>1. b \in 1..nroots
      BY <1>4, BoundsAreNat DEF Buckets
    <3>2. SavedRoots(order)[b] = symtab[b]
      BY <1>1, SavedRootsAre
    <3>3. StandsFor(s.number, g.roots[b], symtab[b])
      BY <1>5, <3>1, <3>2 DEF LoadedAs
    <3> QED BY <1>7, <1>9, <3>3
  <2>2. symtab = [b \in Buckets |-> symtab[b]]
    BY <1>9 DEF HeapTypeOK
  <2> QED BY <1>11, <2>1, <2>2
<1>14. reg' \in [Registers -> D \cup {Null}]
  <2> SUFFICES ASSUME NEW r \in Registers PROVE reg'[r] \in D \cup {Null}
    BY <1>11
  <2>1. CASE threads
    <3> DEFINE i == CHOOSE i \in DOMAIN order : order[i] = r
    <3>1. DOMAIN order = 1..Cardinality(Registers)
      BY DEF Orders
    <3>2. i \in 1..Cardinality(Registers) /\ order[i] = r
      BY <3>1, OrderOnto
    <3>3. reg'[r] = place(g.roots[NumBuckets + i])
      BY <1>11, <2>1
    <3> HIDE DEF i
    <3>4. NumBuckets + i \in 1..NumRoots /\ nroots = NumRoots
      BY <1>3, <2>1, <3>2, BoundsAreNat DEF NumRoots
    <3>5. SavedRoots(order)[NumBuckets + i] = reg[r]
      BY <1>1, <3>2, SavedRootsAre
    <3>6. StandsFor(s.number, g.roots[NumBuckets + i], reg[r])
      BY <1>5, <3>4, <3>5 DEF LoadedAs
    <3>7. reg'[r] = reg[r]
      BY <1>7, <1>9, <3>3, <3>6
    <3>8. reg[r] \in Cells => reg[r] \in D
      BY <1>6, <3>6 DEF StandsFor
    <3> QED BY <1>9, <3>7, <3>8
  <2>2. CASE ~threads
    BY <1>11, <2>2
  <2> QED BY <2>1, <2>2
<1>15. all_objects' \in Seq(D) /\ Elements(all_objects') = D /\ Distinct(all_objects')
  <2> DEFINE m == s.next_n
             L == all_objects'
  <2>1. L = [i \in 1..m |-> place(m - i)] /\ m \in Nat
    BY <1>6, <1>11
  <2>2. ASSUME NEW c \in D PROVE place(number[c]) = c
    <3>1. \A c1, c2 \in D : number[c1] = number[c2] => c1 = c2
      BY <1>6
    <3>2. Place(number, D, number[c]) = c
      BY <3>1, PlaceIs
    <3> QED BY <3>2 DEF place
  <2>3. ASSUME NEW n \in 0..(m - 1) PROVE place(n) \in D /\ number[place(n)] = n
    <3>1. PICK c \in D : number[c] = n
      BY <1>6
    <3> QED BY <2>2, <3>1
  <2> HIDE DEF m
  <2>4. \A i \in 1..m : m - i \in 0..(m - 1)
    BY <2>1
  <2>5. \A i \in 1..m : place(m - i) \in D /\ number[place(m - i)] = m - i
    BY <2>3, <2>4
  <2>6. L \in Seq(D) /\ Len(L) = m /\ \A i \in 1..m : L[i] = place(m - i)
    BY <2>1, <2>5
  <2> HIDE DEF L
  <2>7. Distinct(L)
    <3> SUFFICES ASSUME NEW i \in 1..m, NEW j \in 1..m, L[i] = L[j] PROVE i = j
      BY <2>6 DEF Distinct
    <3>1. m - i = m - j
      BY <2>5, <2>6
    <3> QED BY <2>1, <3>1
  <2>8. ASSUME NEW c \in D PROVE c \in Elements(L)
    <3>1. number[c] \in 0..(m - 1)
      BY <1>6 DEF m
    <3>2. m - number[c] \in 1..m /\ m - (m - number[c]) = number[c]
      BY <2>1, <3>1
    <3>3. L[m - number[c]] = c
      BY <2>2, <2>6, <3>2
    <3> QED BY <2>6, <3>2, <3>3 DEF Elements
  <2>9. Elements(L) \subseteq D
    BY <2>5, <2>6 DEF Elements
  <2> QED BY <2>6, <2>7, <2>8, <2>9 DEF L
<1>16. Restarted(D)
  BY <1>8, <1>12, <1>13, <1>14, <1>15 DEF Restarted
<1> QED BY <1>16

\* Links that nothing but what is loaded has lead where they led.
LEMMA RestartedBuckets ==
    ASSUME HeapTypeOK, NEW D \in SUBSET Cells, Restarted(D)
    PROVE  \A b \in Buckets : InBucket(b)' = InBucket(b)
<1> SUFFICES ASSUME NEW b \in Buckets PROVE InBucket(b)' = InBucket(b)
  OBVIOUS
<1> DEFINE start == {symtab[b]} \cap Cells
           before == NextOf
           after == NextOf'
<1>1. before \in [Cells -> SUBSET Cells] /\ after \in [Cells -> SUBSET Cells]
  BY DEF NextOf
<1>2. \A x \in D : after[x] = before[x]
  BY DEF NextOf, Restarted
<1>3. InBucket(b) = Closure(start, before) /\ InBucket(b)' = Closure(start, after)
  BY DEF InBucket, Restarted
<1>4. Closure(start, before) \subseteq D
  BY <1>3 DEF Restarted
<1> HIDE DEF before, after
<1>5. start \in SUBSET Cells /\ \A x \in Closure(start, before) : after[x] = before[x]
  BY <1>2, <1>4
<1> HIDE DEF start
<1>6. Closure(start, after) = Closure(start, before)
  BY <1>1, <1>5, ClosureAgree
<1> QED BY <1>3, <1>6

LEMMA RestartPersistInv == PersistInv /\ Restart => PersistInv'
<1> SUFFICES ASSUME PersistInv, Restart PROVE PersistInv'
  OBVIOUS
<1>1. PICK D : Restarted(D)
  BY RestartIs
<1>2. /\ pc = "checkpoint" /\ pc' = "mutate" /\ finalizable_chain' = << >> /\ open' = {}
      /\ handle' = [c \in Cells |-> Null]
      /\ marked' = marked /\ todo' = todo /\ bucket' = bucket /\ cursor' = cursor /\ rest' = rest
  BY DEF Restart, gcvars
<1>3. /\ HeapTypeOK /\ ListsInv /\ CellsInv /\ InternedOnce /\ FieldsInv /\ StringsInv
      /\ Listed \subseteq Cells /\ marked = {} /\ todo = {} /\ rest = << >>
      /\ \A b \in Buckets : InBucket(b) = {c \in Listed : kind[c] = "symbol" /\ HashOf[name[c]] = b}
      /\ \A c \in Listed : kind[c] \in {"vector", "symbol", "connection"}
      /\ \A d \in Listed, i \in Slots : slot[d][i] \in Values
  BY <1>2, AtCheckpoint DEF PersistInv, HeapInv
<1>4. /\ D \subseteq Cells /\ D \subseteq Listed /\ all_objects' \in Seq(D)
      /\ Elements(all_objects') = D /\ Distinct(all_objects') /\ symtab' = symtab
      /\ reg' \in [Registers -> D \cup {Null}]
      /\ finalize' = finalize \cap D
      /\ \A c \in D : Children(c) \subseteq D /\ {next[c]} \cap Cells \subseteq D
      /\ \A b \in Buckets : InBucket(b) \subseteq D
  BY <1>1, <1>3 DEF Restarted
<1>5. /\ kind' = [c \in Cells |-> IF c \in D THEN kind[c] ELSE "free"]
      /\ name' = [c \in Cells |-> IF c \in D THEN name[c] ELSE Null]
      /\ next' = [c \in Cells |-> IF c \in D THEN next[c] ELSE Null]
      /\ slot' = [c \in Cells |-> [i \in Slots |-> IF c \in D THEN slot[c][i] ELSE Null]]
  BY <1>1 DEF Restarted
<1>6. /\ \A c \in D : /\ kind'[c] = kind[c] /\ name'[c] = name[c] /\ next'[c] = next[c]
                      /\ \A i \in Slots : slot'[c][i] = slot[c][i]
      /\ \A c \in Cells \ D : /\ kind'[c] = "free" /\ name'[c] = Null /\ next'[c] = Null
                              /\ \A i \in Slots : slot'[c][i] = Null
      /\ \A c \in Cells : handle'[c] = Null
  BY <1>2, <1>4, <1>5
<1>7. HeapTypeOK'
  <2>1. /\ kind' \in [Cells -> {"free", "vector", "symbol", "connection"}]
        /\ name' \in [Cells -> Names \cup {Null}] /\ next' \in [Cells -> Cells \cup {Null}]
    BY <1>3, <1>5 DEF HeapTypeOK
  <2>2. slot' \in [Cells -> [Slots -> Refs]]
    BY <1>3, <1>5 DEF HeapTypeOK, Refs
  <2>3. handle' \in [Cells -> Handles \cup {Null}] /\ open' \subseteq Handles
        /\ finalizable_chain' \in Seq(Cells) /\ pc' = "mutate"
    BY <1>2
  <2>4. all_objects' \in Seq(Cells) /\ finalize' \subseteq Cells
        /\ reg' \in [Registers -> Cells \cup {Null}] /\ symtab' \in [Buckets -> Cells \cup {Null}]
    BY <1>3, <1>4 DEF HeapTypeOK
  <2>5. /\ marked' \subseteq Cells /\ todo' \subseteq Cells /\ rest' \in Seq(Cells)
        /\ bucket' \in Buckets /\ cursor' \in Cells \cup {Null}
    BY <1>2, <1>3 DEF HeapTypeOK
  <2> QED BY <2>1, <2>2, <2>3, <2>4, <2>5 DEF HeapTypeOK
<1>8. ListsInv'
  <2>1. Elements(finalizable_chain') = {} /\ Elements(rest') = {}
        /\ Distinct(finalizable_chain') /\ Distinct(rest')
    BY <1>2, <1>3, EmptyList
  <2>2. \A c \in Cells : kind'[c] # "free" <=> c \in D
    BY <1>3, <1>4, <1>6
  <2>3. \A c \in finalize' : kind'[c] = "connection"
    BY <1>3, <1>4, <1>6 DEF ListsInv
  <2> QED BY <1>2, <1>3, <1>4, <2>1, <2>2, <2>3 DEF ListsInv
<1>9. CellsInv'
  BY <1>3, <1>4, <1>6 DEF CellsInv
<1>10. HandlesOwned' /\ InternedOnce'
  <2>1. HandlesOwned'
    BY <1>2, <1>6 DEF HandlesOwned
  <2>2. InternedOnce'
    BY <1>3, <1>4, <1>6 DEF InternedOnce
  <2> QED BY <2>1, <2>2
<1>11. LiveInv'
  <2>1. \A d \in D, i \in Slots : slot'[d][i] \in D \cup {Null, Undefined}
    BY <1>3, <1>4, <1>6 DEF Children, Values
  <2> QED BY <1>2, <1>4, <1>7, <1>8, <2>1, ValuesLive
<1>12. MarkInv' /\ ExactInv'
  BY <1>2, <1>3 DEF MarkInv, ExactInv
<1>13. SymtabInv'
  <2>1. \A b \in Buckets : InBucket(b)' = InBucket(b)
    BY <1>1, <1>3, <1>4, RestartedBuckets
  <2>2. \A b \in Buckets : InBucket(b) = {c \in D : kind'[c] = "symbol" /\ HashOf[name'[c]] = b}
    BY <1>3, <1>4, <1>6
  <2> QED BY <1>2, <1>4, <2>1, <2>2 DEF SymtabInv
<1>14. FieldsInv'
  BY <1>3, <1>4, <1>6 DEF FieldsInv
<1>15. StringsInv'
  <2>1. StringConnections' \subseteq StringConnections /\ Listed \cap StringConnections = {}
    <3>1. Handle \in Slots
      BY HeapAssumption DEF Handle, Slots
    <3> QED BY <1>2, <1>3, <1>4, <1>6, <3>1, ListedReachable DEF StringConnections
  <2>2. Live' = D
    BY <1>2, <1>4 DEF Live
  <2>3. (D \cup {Null, Undefined}) \cap StringConnections' = {}
    BY <1>4, <2>1, HeapAssumption DEF StringConnections
  <2>4. \A q \in Registers : reg'[q] \in D \cup {Null, Undefined}
    BY <1>4
  <2>5. \A d \in D, i \in Slots : slot'[d][i] \in D \cup {Null, Undefined}
    BY <1>3, <1>4, <1>6 DEF Children, Values
  <2> QED BY <2>2, <2>3, <2>4, <2>5, StringsKept
<1>16. HeapInv'
  BY <1>7, <1>8, <1>9, <1>10, <1>11, <1>12, <1>13 DEF HeapInv
<1> QED BY <1>2, <1>14, <1>15, <1>16 DEF PersistInv
-----------------------------------------------------------------------------
(* The theorems: for any heap, symbol table and number of registers, and   *)
(* for a server that is started again on any of its checkpoints, with its  *)
(* threads or without,                                                     *)

LEMMA PersistStep == PersistInv /\ [PersistNext]_heapvars => PersistInv'
BY HeapStepPersistInv, RestartPersistInv DEF PersistNext

\* the invariant holds, which all that follows comes from;
THEOREM PersistInvariance == PersistSpec => []PersistInv
BY InitPersistInv, PersistStep, PTL DEF PersistSpec

\* a checkpoint loads as the heap that it was taken from: every object that can
\* be reached, once, with its name, links and slots, and nothing else;
THEOREM CheckpointsRoundTrip == PersistSpec => []RoundTrip
<1>1. PersistInv => RoundTrip
  BY LoadsAsSaved
<1> QED BY <1>1, PersistInvariance, PTL

\* what a crash left of a checkpoint is not taken for one;
THEOREM CheckpointsWhole == PersistSpec => []TruncatedRejected
<1>1. PersistInv => TruncatedRejected
  BY TruncatedIsRejected
<1> QED BY <1>1, PersistInvariance, PTL

\* no reference dangles, the symbol table is exact, symbols are unique and every
\* open descriptor has its connection, after restarts too;
THEOREM HeapSafeAcrossRestarts ==
    PersistSpec => [](NoDangling /\ SymtabExact /\ InternedOnce /\ HandlesOwned)
<1>1. PersistInv => NoDangling /\ SymtabExact /\ InternedOnce /\ HandlesOwned
  BY DEF PersistInv, HeapInv, LiveInv, Live, NoDangling, SymtabInv, SymtabExact
<1> QED BY <1>1, PersistInvariance, PTL

\* and the collections between them free garbage, all of it, and close the
\* connections that are garbage, all of them.
THEOREM CollectorExactAcrossRestarts ==
    PersistSpec => NothingLiveFreed /\ NoFloatingGarbage /\ OnlyGarbageClosed /\ IdleClosesGarbage
<1> DEFINE Freed == \A c \in Cells :
                       pc = "sweep" /\ kind[c] # "free" /\ kind'[c] = "free" => c \notin Reachable
           Left == pc = "sweep" /\ pc' # "sweep" => Elements(all_objects') = Reachable'
           Shut == \A c \in Cells : pc = "finalize" /\ handle[c] # handle'[c] => c \notin Reachable
           Idle == pc = "finalize" /\ pc' = "mutate" =>
                     \A c \in Cells : handle[c] # Null => c \in Reachable
<1>1. ASSUME PersistInv, PersistInv', PersistNext PROVE Freed /\ Left /\ Shut /\ Idle
  <2>1. HeapInv /\ HeapInv'
    BY <1>1 DEF PersistInv
  <2>2. CASE HeapNext
    BY <2>1, <2>2, SweepFrees, SweepLeaves, FinalizerCloses, FinalizerLeaves
  <2>3. CASE Restart
    BY <2>3 DEF Restart
  <2> QED BY <1>1, <2>2, <2>3 DEF PersistNext
<1>2. PersistInv /\ PersistInv' /\ [PersistNext]_heapvars =>
        [Freed]_heapvars /\ [Left]_heapvars /\ [Shut]_heapvars /\ [Idle]_heapvars
  <2> HIDE DEF Freed, Left, Shut, Idle
  <2> QED BY <1>1
<1> QED BY <1>2, PersistInvariance, PTL
        DEF PersistSpec, NothingLiveFreed, NoFloatingGarbage, OnlyGarbageClosed, IdleClosesGarbage
=============================================================================
