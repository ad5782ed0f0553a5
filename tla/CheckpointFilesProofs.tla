----------------------- MODULE CheckpointFilesProofs -----------------------
(***************************************************************************)
(* No completed checkpoint is lost: proofs about CheckpointFiles for every *)
(* number of files, every number that checkpoint-cleanup is told to keep,  *)
(* and any interleaving of server, cleaner and scripts with their deaths.  *)
(***************************************************************************)
EXTENDS CheckpointFiles, FiniteSetTheorems, SequenceTheorems, TLAPS

-----------------------------------------------------------------------------
\* What a directory entry can be.
LEMMA FileFacts ==
    /\ NoFile \in Files
    /\ \A v \in Nat : Whole(v) \in Files /\ Part(v) \in Files
    /\ \A v : Whole(v).state = "whole" /\ Whole(v).version = v
              /\ Part(v).state = "part" /\ Part(v).version = v
              /\ Whole(v) # NoFile /\ Part(v) # NoFile
    /\ \A f \in Files : /\ f.version \in Nat
                        /\ f = NoFile \/ f.state = "whole" \/ f.state = "part"
    /\ NoFile.state = "none" /\ NoFile.version = 0
BY DEF Files, NoFile, Whole, Part

\* The constants and the types of the numbers, ready for arithmetic.
LEMMA NumberTypes ==
    ASSUME FilesTypeOK
    PROVE  /\ KeepNum \in Nat /\ KeepNum >= 2 /\ MaxFailures \in Nat /\ MaxFailures < KeepNum
           /\ failures \in Nat /\ failures <= MaxFailures
           /\ suffix \in Nat /\ open \in Int /\ world \in Nat /\ newest \in Nat /\ saved \in Nat
           /\ \A n \in Numbers : n \in Nat /\ file[n] \in Files
           /\ -1 \notin Numbers /\ 0 \in Numbers
           /\ \A i \in 1..Len(doomed) : doomed[i] \in Numbers
<1>1. /\ KeepNum \in Nat /\ KeepNum >= 2 /\ MaxFailures \in Nat /\ MaxFailures < KeepNum
      /\ \A n \in Numbers : n \in Nat
      /\ -1 \notin Numbers /\ 0 \in Numbers
  BY FilesAssumption DEF Numbers
<1>2. failures \in 0..MaxFailures /\ suffix \in Nat /\ open \in Numbers \cup {-1}
      /\ world \in Nat /\ newest \in Nat /\ saved \in Nat
      /\ doomed \in Seq(Numbers) /\ \A n \in Numbers : file[n] \in Files
  BY DEF FilesTypeOK
<1>3. failures \in Nat /\ failures <= MaxFailures /\ open \in Int
  BY <1>1, <1>2
<1>4. \A i \in 1..Len(doomed) : doomed[i] \in Numbers
  BY <1>2, ElementOfSeq
<1> QED BY <1>1, <1>2, <1>3, <1>4

-----------------------------------------------------------------------------
(* The list that checkpoint-cleanup sorts.                                 *)

\* There are finitely many checkpoint files, numbered from 0.
LEMMA ExistingFinite ==
    /\ Existing \subseteq Numbers /\ Numbers \subseteq Nat
    /\ IsFiniteSet(Existing) /\ Cardinality(Existing) \in Nat
<1>1. Existing \subseteq Numbers /\ Numbers \subseteq Nat
  BY FilesAssumption DEF Existing, Numbers
<1>2. IsFiniteSet(Numbers)
  BY FilesAssumption, FS_Interval DEF Numbers
<1> QED BY <1>1, <1>2, FS_Subset, FS_CardinalityType

\* The ranks of the files are 1 up to their number: each has one file.
LEMMA EveryRankTaken ==
    /\ \A n \in Existing : Rank(n) \in 1..Cardinality(Existing)
    /\ \A i \in 1..Cardinality(Existing) : \E n \in Existing : Rank(n) = i
<1> DEFINE c == Cardinality(Existing)
           Upto(n) == {m \in Existing : m <= n}
           r == [n \in Existing |-> Rank(n)]
<1>1. /\ Existing \subseteq Nat /\ IsFiniteSet(Existing) /\ c \in Nat
  BY ExistingFinite
<1>2. ASSUME NEW n \in Existing
      PROVE  IsFiniteSet(Upto(n)) /\ Rank(n) = Cardinality(Upto(n)) /\ Rank(n) \in 1..c
  <2>1. Upto(n) \subseteq Existing /\ n \in Upto(n)
    BY <1>1
  <2>2. IsFiniteSet(Upto(n)) /\ Cardinality(Upto(n)) <= c
    BY <1>1, <2>1, FS_Subset
  <2>3. Cardinality(Upto(n)) \in Nat /\ Cardinality(Upto(n)) # 0
    BY <2>1, <2>2, FS_CardinalityType, FS_EmptySet
  <2> QED BY <1>1, <2>2, <2>3 DEF Rank
<1>3. ASSUME NEW n \in Existing, NEW m \in Existing, n < m PROVE Rank(n) # Rank(m)
  <2>1. Upto(n) \subseteq Upto(m) /\ m \in Upto(m) /\ m \notin Upto(n)
    <3>1. \A x \in Existing : x \in Int
      BY <1>1
    <3> QED BY <1>3, <3>1
  <2>2. Upto(n) # Upto(m)
    BY <2>1
  <2>3. Cardinality(Upto(n)) # Cardinality(Upto(m))
    BY <1>2, <2>1, <2>2, FS_Subset
  <2> QED BY <1>2, <2>3
<1>4. \A n, m \in Existing : n = m \/ n < m \/ m < n
  BY <1>1
<1>5. r \in Injection(Existing, 1..c)
  BY <1>2, <1>3, <1>4 DEF Injection, IsInjective
<1>6. IsFiniteSet(1..c) /\ Cardinality(1..c) = c
  BY <1>1, FS_Interval
<1>7. r \in Surjection(Existing, 1..c)
  <2> HIDE DEF r, c
  <2> QED BY <1>5, <1>6, FS_Injection DEF c
<1> QED BY <1>2, <1>7 DEF Surjection

\* The list holds file names only, in the order of their ranks.
LEMMA ListedFacts ==
    /\ Listed \in Seq(Existing) /\ Len(Listed) = Cardinality(Existing)
    /\ \A i \in 1..Len(Listed) : Listed[i] \in Existing /\ Rank(Listed[i]) = i
<1> DEFINE c == Cardinality(Existing)
<1>1. \A i \in 1..c : Listed[i] \in Existing /\ Rank(Listed[i]) = i
  BY EveryRankTaken DEF Listed
<1>2. Listed \in [1..c -> Existing] /\ c \in Nat
  BY <1>1, ExistingFinite DEF Listed
<1> QED BY <1>1, <1>2

\* Above a file of rank i there are all the others but i.
LEMMA FilesAbove ==
    ASSUME NEW n \in Existing
    PROVE  Cardinality({m \in Existing : n < m}) = Cardinality(Existing) - Rank(n)
<1> DEFINE low == {m \in Existing : m <= n}
           high == {m \in Existing : n < m}
<1>1. Existing \subseteq Nat /\ IsFiniteSet(Existing)
  BY ExistingFinite
<1>2. \A x \in Existing : x \in Int
  BY <1>1
<1>3. high = Existing \ low /\ Existing \cap low = low
  BY <1>2
<1>4. Cardinality(Existing \ low) = Cardinality(Existing) - Cardinality(Existing \cap low)
  <2> HIDE DEF low
  <2> QED BY <1>1, FS_Difference
<1> QED BY <1>3, <1>4 DEF Rank

\* What a clean-up would remove: everything on its list is below the highest
\* checkpoint begun, and below a whole one that it keeps.
LEMMA DoomedFacts ==
    ASSUME FilesInv, script = NoScript, Cardinality(Existing) > KeepNum,
           NEW d \in Existing, Rank(d) <= Cardinality(Existing) - KeepNum
    PROVE  d < suffix /\ d # open /\ \E w \in WholeOnes : d < w
<1> DEFINE c == Cardinality(Existing)
           high == {m \in Existing : d < m}
<1>1. /\ \A n \in Existing : n \in Nat
      /\ IsFiniteSet(Existing) /\ c \in Nat /\ IsFiniteSet(high)
      /\ KeepNum \in Nat /\ KeepNum >= 2 /\ failures \in Nat /\ failures < KeepNum
      /\ suffix \in Nat /\ d \in Nat
  <2>1. high \subseteq Existing
    OBVIOUS
  <2>2. IsFiniteSet(high)
    BY <2>1, ExistingFinite, FS_Subset
  <2> QED BY <2>2, ExistingFinite, NumberTypes, SMTT(30) DEF FilesInv
<1>2. Cardinality(high) >= KeepNum /\ Cardinality(high) \in Nat
  <2>1. Cardinality(high) = c - Rank(d) /\ Rank(d) \in Nat
    BY FilesAbove, EveryRankTaken
  <2> QED BY <1>1, <2>1, FS_CardinalityType
<1>3. \A n \in Existing : n \in Numbers /\ (n \in WholeOnes \/ file[n].state = "part")
  BY NumberTypes, FileFacts DEF Existing, WholeOnes, FilesInv
<1>4. /\ \A n \in WholeOnes : n < suffix
      /\ \A n \in Numbers : file[n].state = "part" =>
            \/ n + 1 = suffix
            \/ n < failures
            \/ suffix <= n /\ n <= failures
  <2>1. PartsInv
    BY DEF FilesInv
  <2> QED BY <2>1 DEF PartsInv
<1>5. suffix > KeepNum
  <2>1. PICK n \in Existing : n \notin 0..(KeepNum - 1)
    <3>1. IsFiniteSet(0..(KeepNum - 1)) /\ Cardinality(0..(KeepNum - 1)) = KeepNum
      BY <1>1, FS_Interval
    <3>2. CASE Existing \subseteq 0..(KeepNum - 1)
      <4>1. c <= KeepNum
        BY <3>1, <3>2, FS_Subset
      <4> QED BY <1>1, <4>1
    <3> QED BY <3>2
  <2> QED BY <1>1, <1>3, <1>4, <2>1
<1>6. \A n \in Existing : n < suffix
  BY <1>1, <1>3, <1>4, <1>5
<1>7. PICK m \in Existing : d < m
  <2>1. high # {}
    BY <1>1, <1>2, FS_EmptySet
  <2> QED BY <2>1
<1>8. d < suffix /\ d # open
  <2>1. d + 1 < suffix
    BY <1>1, <1>6, <1>7
  <2>2. open = -1 \/ open + 1 = suffix
    BY NumberTypes DEF FilesInv, ProcessesInv
  <2> QED BY <1>1, <2>1, <2>2, NumberTypes, SMTT(30) DEF FilesInv
<1>9. \E w \in WholeOnes : d < w
  <2> SUFFICES ASSUME \A w \in high : w \notin WholeOnes PROVE FALSE
    BY <1>1 DEF WholeOnes, Existing, NoFile
  <2>1. \A n \in high : n \in 1..(failures - 1) \/ n = suffix - 1
    BY <1>1, <1>3, <1>4, <1>5, <1>6
  <2> DEFINE T == 1..(failures - 1)
  <2>2. high \subseteq T \cup {suffix - 1}
    BY <2>1
  <2>3. IsFiniteSet(T) /\ Cardinality(T) = IF failures = 0 THEN 0 ELSE failures - 1
    <3>1. /\ 1 \in Int /\ failures - 1 \in Int
          /\ (IF 1 > failures - 1 THEN 0 ELSE (failures - 1) - 1 + 1)
             = (IF failures = 0 THEN 0 ELSE failures - 1)
      BY <1>1
    <3> QED BY <3>1, FS_Interval
  <2> HIDE DEF T
  <2>4. /\ IsFiniteSet(T \cup {suffix - 1})
        /\ Cardinality(T \cup {suffix - 1}) \in {Cardinality(T), Cardinality(T) + 1}
    BY <2>3, FS_AddElement
  <2>5. Cardinality(high) <= Cardinality(T \cup {suffix - 1})
    BY <2>2, <2>4, FS_Subset
  <2> QED BY <1>1, <1>2, <2>3, <2>4, <2>5
<1> QED BY <1>8, <1>9

-----------------------------------------------------------------------------
(* Every step keeps the invariant.                                         *)

\* A clean directory: only db, nothing running.
LEMMA FilesInitInv == FilesInit => FilesInv
<1> SUFFICES ASSUME FilesInit PROVE FilesInv
  OBVIOUS
<1>1. FilesTypeOK
  <2>1. 0 \in Numbers /\ 0 \in 0..MaxFailures
    BY FilesAssumption DEF Numbers
  <2>2. Whole(0) \in Files /\ NoFile \in Files
    BY FileFacts
  <2>3. << >> \in Seq(Numbers)
    OBVIOUS
  <2> QED BY <2>1, <2>2, <2>3 DEF FilesInit, FilesTypeOK, NoScript
<1>2. WholeOnes = {} /\ Existing = {}
  BY DEF FilesInit, WholeOnes, Existing, NoFile
<1>3. ProcessesInv /\ DoomedInv
  BY DEF FilesInit, ProcessesInv, DoomedInv, NoScript
<1>4. PartsInv
  BY <1>2 DEF FilesInit, PartsInv, NoFile
<1>5. NewestInv
  BY <1>2 DEF FilesInit, NewestInv, NoScript, Whole
<1> QED BY <1>1, <1>3, <1>4, <1>5 DEF FilesInv

\* Which files there are after a step that leaves the files alone.
LEMMA SameFiles ==
    ASSUME file' = file
    PROVE  WholeOnes' = WholeOnes /\ Existing' = Existing
BY DEF WholeOnes, Existing

\* db/run starts on a directory without whole checkpoints.
LEMMA BootInvariant ==
    ASSUME FilesInv, Boot
    PROVE  FilesInv'
<1> USE DEF FilesInv
<1>1. WholeOnes' = WholeOnes /\ Existing' = Existing /\ WholeOnes = {}
  BY SameFiles DEF Boot
<1>2. FilesTypeOK'
  BY FileFacts DEF Boot, FilesTypeOK, FirstSuffix
<1>3. ProcessesInv' /\ DoomedInv'
  BY DEF Boot, ProcessesInv, DoomedInv
<1>4. PartsInv'
  <2>1. \A n \in Numbers : file[n].state = "part" => n \in Nat /\ n <= failures
    BY ExistingFinite DEF Boot, PartsInv, Existing, NoFile
  <2>2. open' = -1 /\ suffix' = 0 /\ failures' = failures /\ file' = file /\ failures \in Nat
    BY NumberTypes DEF Boot, ProcessesInv, FirstSuffix
  <2> QED BY <1>1, <2>1, <2>2 DEF Boot, PartsInv
<1>5. NewestInv'
  BY <1>1 DEF Boot, NewestInv
<1> QED BY <1>2, <1>3, <1>4, <1>5

\* The steps that touch neither files nor numbers.
LEMMA QuietSteps ==
    ASSUME FilesInv, Change \/ Crash \/ Stop
    PROVE  FilesInv'
<1> USE DEF FilesInv
<1>1. WholeOnes' = WholeOnes /\ Existing' = Existing
  BY SameFiles DEF Change, Crash, Stop
<1>2. FilesTypeOK'
  <2>1. CASE Change
    <3>1. newest + 1 \in Nat
      BY NumberTypes
    <3> QED BY <2>1, <3>1 DEF Change, FilesTypeOK
  <2>2. CASE Crash
    BY <2>2 DEF Crash, FilesTypeOK
  <2>3. CASE Stop
    <3>1. << >> \in Seq(Numbers)
      OBVIOUS
    <3> QED BY <2>3, <3>1 DEF Stop, FilesTypeOK
  <2> QED BY <2>1, <2>2, <2>3
<1>3. ProcessesInv'
  BY DEF Change, Crash, Stop, ProcessesInv
<1>4. DoomedInv'
  <2>1. (doomed' = doomed /\ open' \in {open, -1}) \/ doomed' = << >>
    BY DEF Change, Crash, Stop
  <2>2. \A i \in 1..Len(doomed) : doomed[i] \in Numbers
    BY NumberTypes
  <2>3. -1 \notin Numbers
    BY NumberTypes
  <2>4. suffix' = suffix
    BY DEF Change, Crash, Stop
  <2> QED BY <1>1, <2>1, <2>2, <2>3, <2>4 DEF DoomedInv
<1>5. PartsInv'
  <2>1. file' = file /\ suffix' = suffix /\ failures' = failures /\ script' = script
    BY DEF Change, Crash, Stop
  <2>2. (open' = open /\ up' = up) \/ ~up'
    BY DEF Change, Crash, Stop
  <2> QED BY <1>1, <2>1, <2>2 DEF PartsInv
<1>6. NewestInv'
  BY <1>1 DEF Change, Crash, Stop, NewestInv
<1> QED BY <1>2, <1>3, <1>4, <1>5, <1>6


\* The number is taken; the file is begun, or fopen fails.
LEMMA OpenInvariant ==
    ASSUME FilesInv, OpenCheckpoint
    PROVE  FilesInv'
<1> USE DEF FilesInv
<1>1. /\ up /\ open = -1 /\ script = NoScript /\ script' = script /\ up' = up
      /\ suffix \in Numbers /\ suffix' = suffix + 1 /\ suffix' \in Nat
      /\ doomed' = doomed /\ cleaning' = cleaning /\ saved' = saved /\ db' = db
  BY NumberTypes, SMTT(30) DEF OpenCheckpoint, NextSuffix, ProcessesInv
<1>2. CASE /\ open' = suffix /\ file' = [file EXCEPT ![suffix] = Part(world)]
           /\ failures' = failures
  <2>1. FilesTypeOK'
    <3>1. Part(world) \in Files
      BY NumberTypes, FileFacts
    <3> QED BY <1>1, <1>2, <3>1 DEF OpenCheckpoint, FilesTypeOK
  <2>2. /\ file'[suffix] = Part(world)
        /\ \A n \in Numbers \ {suffix} : file'[n] = file[n]
    BY <1>1, <1>2 DEF FilesTypeOK
  <2>3. /\ suffix \notin WholeOnes
        /\ \A n \in WholeOnes : n < suffix
    BY <1>1, NumberTypes, SMTT(30) DEF PartsInv, WholeOnes
  <2>4. WholeOnes' = WholeOnes /\ Existing' = Existing \cup {suffix}
    BY <1>1, <2>2, <2>3, FileFacts DEF WholeOnes, Existing
  <2>5. ProcessesInv'
    BY <1>1, <1>2, <2>2 DEF OpenCheckpoint, ProcessesInv
  <2>6. PartsInv'
    <3>1. \A n \in WholeOnes' : n < suffix'
      BY <1>1, <2>3, <2>4, NumberTypes, SMTT(30) DEF WholeOnes
    <3>2. ASSUME NEW n \in Numbers, file'[n].state = "part"
          PROVE  \/ n + 1 = suffix' /\ (open' # -1 \/ ~up')
                 \/ n < failures'
                 \/ suffix' <= n /\ n <= failures'
      <4>1. CASE n = suffix
        BY <1>1, <1>2, <4>1, NumberTypes
      <4>2. CASE n # suffix
        <5>1. n < failures \/ (suffix <= n /\ n <= failures)
          BY <1>1, <2>2, <3>2, <4>2 DEF PartsInv
        <5> QED BY <1>1, <1>2, <4>2, <5>1, NumberTypes
      <4> QED BY <4>1, <4>2
    <3>3. ASSUME WholeOnes' = {}
          PROVE  /\ \A n \in Existing' : n <= failures'
                 /\ suffix' <= failures' + 1
      BY <1>1, <1>2, <2>4, <3>3, NumberTypes DEF PartsInv
    <3>4. open' # -1
      BY <1>1, <1>2, NumberTypes
    <3> QED BY <3>1, <3>2, <3>3, <3>4 DEF PartsInv
  <2>7. DoomedInv'
    BY <1>1, <1>2, <2>4, NumberTypes, SMTT(60) DEF DoomedInv
  <2>8. NewestInv'
    BY <1>1, <2>2, <2>3, <2>4 DEF NewestInv, WholeOnes, NoScript
  <2> QED BY <2>1, <2>5, <2>6, <2>7, <2>8
<1>3. CASE failures < MaxFailures /\ failures' = failures + 1 /\ open' = open /\ file' = file
  <2>1. WholeOnes' = WholeOnes /\ Existing' = Existing
    BY <1>3, SameFiles
  <2>2. FilesTypeOK'
    <3>1. failures' \in 0..MaxFailures
      BY <1>3, NumberTypes, SMTT(30)
    <3> QED BY <1>1, <1>3, <3>1 DEF OpenCheckpoint, FilesTypeOK
  <2>3. ProcessesInv'
    BY <1>1, <1>3 DEF ProcessesInv
  <2>4. PartsInv'
    <3>1. \A n \in WholeOnes' : n < suffix'
      BY <1>1, <2>1, NumberTypes, SMTT(30) DEF PartsInv, WholeOnes
    <3>2. ASSUME NEW n \in Numbers, file'[n].state = "part"
          PROVE  n < failures'
      <4>1. n < failures \/ (suffix <= n /\ n <= failures)
        BY <1>1, <1>3, <3>2 DEF PartsInv
      <4> QED BY <1>3, <4>1, NumberTypes, SMTT(30)
    <3>3. ASSUME WholeOnes' = {}
          PROVE  (\A n \in Existing' : n <= failures') /\ suffix' <= failures'
      <4>1. suffix <= failures /\ \A n \in Existing : n <= failures /\ n \in Nat
        BY <1>1, <2>1, <3>3, ExistingFinite DEF PartsInv
      <4> QED BY <1>1, <1>3, <2>1, <4>1, NumberTypes, SMTT(60)
    <3> QED BY <1>1, <1>3, <3>1, <3>2, <3>3 DEF PartsInv
  <2>5. DoomedInv'
    BY <1>1, <1>3, <2>1, NumberTypes, SMTT(60) DEF DoomedInv
  <2>6. NewestInv'
    BY <1>1, <1>3, <2>1 DEF NewestInv
  <2> QED BY <2>2, <2>3, <2>4, <2>5, <2>6
<1> QED BY <1>2, <1>3 DEF OpenCheckpoint

\* The file is completed: it is the newest whole one.
LEMMA CloseInvariant ==
    ASSUME FilesInv, CloseCheckpoint
    PROVE  FilesInv'
<1> USE DEF FilesInv
<1>1. /\ open # -1 /\ open' = -1 /\ up /\ up' = up /\ suffix' = suffix /\ suffix = open + 1
      /\ open \in Numbers /\ file[open] = Part(world) /\ file[open] # NoFile
      /\ script' = script /\ script = NoScript /\ failures' = failures
      /\ doomed' = doomed /\ cleaning' = cleaning /\ saved' = world /\ db' = db
  BY FileFacts DEF CloseCheckpoint, ProcessesInv, FilesTypeOK
<1>2. file' = [file EXCEPT ![open] = Whole(world)]
  BY <1>1 DEF CloseCheckpoint
<1>3. /\ file'[open] = Whole(world)
      /\ \A n \in Numbers \ {open} : file'[n] = file[n]
  BY <1>1, <1>2 DEF FilesTypeOK
<1>4. WholeOnes' = WholeOnes \cup {open} /\ open \notin WholeOnes
  BY <1>1, <1>3, FileFacts DEF WholeOnes
<1>5. FilesTypeOK'
  <2>1. Whole(world) \in Files
    BY NumberTypes, FileFacts
  <2> QED BY <1>1, <1>2, <2>1 DEF CloseCheckpoint, FilesTypeOK
<1>6. ProcessesInv'
  BY <1>1 DEF ProcessesInv
<1>7. \A n \in WholeOnes : n < suffix /\ n \in Nat
  BY <1>1, NumberTypes DEF PartsInv, WholeOnes
<1>8. PartsInv'
  <2>1. \A n \in WholeOnes' : n < suffix'
    BY <1>1, <1>4, <1>7, NumberTypes
  <2>2. ASSUME NEW n \in Numbers, file'[n].state = "part"
        PROVE  n < failures' \/ (suffix' <= n /\ n <= failures')
    <3>1. n # open /\ file[n].state = "part"
      BY <1>3, <2>2, FileFacts
    <3>2. n + 1 # suffix
      BY <1>1, <3>1, NumberTypes, SMTT(30)
    <3> QED BY <1>1, <3>1, <3>2 DEF PartsInv
  <2> QED BY <1>4, <2>1, <2>2 DEF PartsInv
<1>9. DoomedInv'
  BY <1>1, <1>4, NumberTypes DEF DoomedInv
<1>10. NewestInv'
  <2>1. \A m \in WholeOnes' : m <= open
    BY <1>1, <1>4, <1>7, NumberTypes, SMTT(30)
  <2>2. file'[open].version >= saved'
    BY <1>1, <1>3, FileFacts, NumberTypes, SMTT(30)
  <2> QED BY <1>1, <1>4, <2>1, <2>2 DEF NewestInv, NoScript
<1> QED BY <1>5, <1>6, <1>8, <1>9, <1>10


\* cleanup() makes its list.
LEMMA ScanInvariant ==
    ASSUME FilesInv, Scan
    PROVE  FilesInv'
<1> USE DEF FilesInv
<1> DEFINE k == Len(Listed) - KeepNum
<1>1. /\ cleaning /\ script = NoScript /\ doomed' = SubSeq(Listed, 1, k)
      /\ Cardinality(Existing) > KeepNum
      /\ UNCHANGED <<file, db, dbOld, up, open, suffix, world, newest, cleaning, script, failures, saved>>
  BY DEF Scan, ProcessesInv
<1>2. /\ Listed \in Seq(Existing) /\ Len(Listed) = Cardinality(Existing)
      /\ \A i \in 1..Len(Listed) : Listed[i] \in Existing /\ Rank(Listed[i]) = i
      /\ k \in Nat /\ k <= Len(Listed) /\ Len(Listed) \in Nat
  BY <1>1, ListedFacts, ExistingFinite, NumberTypes, SMTT(30)
<1>3. /\ doomed' \in Seq(Existing) /\ Len(doomed') = k
      /\ \A i \in 1..k : doomed'[i] = Listed[i]
  <2>1. \A i \in 1..k : Listed[i] \in Existing /\ i \in 1..Len(Listed)
    BY <1>2
  <2> HIDE DEF k
  <2>2. k <= Len(Listed) /\ 1 \in Int /\ k \in Int
    BY <1>2
  <2> QED BY <1>1, <1>2, <2>1, <2>2, SubSeqProperties
<1>4. WholeOnes' = WholeOnes /\ Existing' = Existing
  BY <1>1, SameFiles
<1>5. FilesTypeOK'
  <2>1. doomed' \in Seq(Numbers)
    <3>1. \A i \in 1..k : doomed'[i] \in Numbers
      <4>1. \A i \in 1..k : doomed'[i] \in Existing
        BY <1>2, <1>3
      <4> QED BY <4>1, ExistingFinite
    <3>2. doomed' \in [1..k -> Existing]
      BY <1>2, <1>3
    <3> HIDE DEF k
    <3>3. doomed' \in [1..k -> Numbers] /\ k \in Nat
      BY <1>2, <3>1, <3>2
    <3> QED BY <3>3
  <2> QED BY <1>1, <2>1 DEF FilesTypeOK
<1>6. ProcessesInv' /\ PartsInv' /\ NewestInv'
  <2>1. ProcessesInv'
    BY <1>1 DEF ProcessesInv
  <2>2. PartsInv'
    BY <1>1, <1>4 DEF PartsInv
  <2>3. NewestInv'
    BY <1>1, <1>4 DEF NewestInv
  <2> QED BY <2>1, <2>2, <2>3
<1>7. DoomedInv'
  <2> SUFFICES ASSUME NEW i \in 1..Len(doomed')
               PROVE  /\ doomed'[i] < suffix /\ doomed'[i] # open
                      /\ \E w \in WholeOnes : doomed'[i] < w
    BY <1>1, <1>4 DEF DoomedInv
  <2>1. /\ doomed'[i] = Listed[i] /\ Listed[i] \in Existing
        /\ Rank(Listed[i]) <= Cardinality(Existing) - KeepNum
    BY <1>2, <1>3
  <2> QED BY <1>1, <2>1, DoomedFacts
<1> QED BY <1>5, <1>6, <1>7

\* unlink of the next name on the list.
LEMMA RemoveInvariant ==
    ASSUME FilesInv, RemoveOne
    PROVE  FilesInv'
<1> USE DEF FilesInv
<1> DEFINE h == Head(doomed)
<1>1. /\ cleaning /\ script = NoScript /\ doomed # << >> /\ doomed' = Tail(doomed)
      /\ file' = [file EXCEPT ![h] = NoFile]
      /\ UNCHANGED <<db, dbOld, up, open, suffix, world, newest, cleaning, script, failures, saved>>
  BY DEF RemoveOne, ProcessesInv
<1>2. /\ Len(doomed) \in Nat /\ Len(doomed) >= 1 /\ doomed[1] = h /\ h \in Numbers
      /\ doomed' \in Seq(Numbers) /\ Len(doomed') = Len(doomed) - 1
      /\ \A i \in 1..Len(doomed') : i + 1 \in 1..Len(doomed) /\ doomed'[i] = doomed[i + 1]
  <2>1. doomed \in Seq(Numbers) /\ doomed # << >>
    BY <1>1 DEF FilesTypeOK
  <2>2. /\ Head(doomed) \in Numbers /\ Tail(doomed) \in Seq(Numbers)
        /\ Len(Tail(doomed)) = Len(doomed) - 1
        /\ \A i \in 1..Len(Tail(doomed)) : Tail(doomed)[i] = doomed[i + 1]
    BY <2>1, HeadTailProperties
  <2>3. Len(doomed) \in Nat /\ Len(doomed) >= 1 /\ Head(doomed) = doomed[1]
    BY <2>1
  <2> QED BY <1>1, <2>2, <2>3
<1>3. \A i \in 1..Len(doomed) :
        /\ doomed[i] < suffix /\ doomed[i] # open
        /\ \E w \in WholeOnes : doomed[i] < w
  BY DEF DoomedInv
<1>4. h # open /\ \E w \in WholeOnes : h < w
  BY <1>2, <1>3
<1> HIDE DEF h
<1>5. /\ file'[h] = NoFile
      /\ \A n \in Numbers \ {h} : file'[n] = file[n]
  BY <1>1, <1>2 DEF FilesTypeOK
<1>6. WholeOnes' = WholeOnes \ {h} /\ Existing' = Existing \ {h}
  BY <1>2, <1>5, FileFacts DEF WholeOnes, Existing
<1>7. \A n \in WholeOnes : n \in Nat
  BY NumberTypes DEF WholeOnes
<1>8. FilesTypeOK'
  BY <1>1, <1>2, FileFacts DEF FilesTypeOK
<1>9. ProcessesInv'
  BY <1>1, <1>4, <1>5 DEF ProcessesInv, FilesTypeOK
<1>10. PartsInv'
  <2>1. ASSUME NEW n \in Numbers, file'[n].state = "part"
        PROVE  file[n].state = "part"
    BY <1>5, <2>1, FileFacts
  <2>2. WholeOnes' # {}
    <3>1. PICK w \in WholeOnes : h < w
      BY <1>4
    <3> QED BY <1>2, <1>6, <1>7, <3>1, NumberTypes, SMTT(60)
  <2>3. PartsInv
    OBVIOUS
  <2> QED BY <1>1, <1>6, <2>1, <2>2, <2>3 DEF PartsInv
<1>11. DoomedInv'
  <2> SUFFICES ASSUME NEW i \in 1..Len(doomed')
               PROVE  /\ doomed'[i] < suffix /\ doomed'[i] # open
                      /\ \E w \in WholeOnes' : doomed'[i] < w
    BY <1>1 DEF DoomedInv
  <2>1. doomed'[i] = doomed[i + 1] /\ i + 1 \in 1..Len(doomed)
    BY <1>2
  <2> DEFINE d == doomed[i + 1]
  <2>2. d \in Nat
    BY <2>1, NumberTypes
  <2>3. PICK w \in WholeOnes : d < w
    BY <1>3, <2>1
  <2>4. PICK v \in WholeOnes : h < v
    BY <1>4
  <2>5. \E x \in WholeOnes' : d < x
    <3> HIDE DEF d
    <3>1. h \in Nat /\ w \in Nat /\ v \in Nat
      BY <1>2, <1>7, NumberTypes
    <3>2. CASE w # h
      BY <1>6, <2>3, <3>2
    <3>3. CASE w = h
      BY <1>6, <2>2, <2>3, <2>4, <3>1, <3>3
    <3> QED BY <3>2, <3>3
  <2> QED BY <1>3, <2>1, <2>5
<1>12. NewestInv'
  <2>1. PICK v \in WholeOnes : h < v
    BY <1>4
  <2>2. PICK w \in WholeOnes : file[w].version >= saved /\ \A m \in WholeOnes : m <= w
    BY <1>1, <2>1 DEF NewestInv
  <2>3. w # h
    BY <1>2, <1>7, <2>1, <2>2, NumberTypes, SMTT(60)
  <2>4. w \in WholeOnes' /\ file'[w] = file[w]
    BY <1>5, <1>6, <2>3 DEF WholeOnes
  <2> QED BY <1>1, <1>6, <2>2, <2>4 DEF NewestInv, NoScript
<1> QED BY <1>8, <1>9, <1>10, <1>11, <1>12

\* The three steps of db/cycle, each of which may be the last for a while.
LEMMA CycleInvariant ==
    ASSUME FilesInv, CycleDb \/ CycleCheckpoint \/ CycleRemove
    PROVE  FilesInv'
<1> USE DEF FilesInv
<1>1. ASSUME CycleDb PROVE FilesInv'
  <2>1. PICK n \in WholeOnes :
            (\A m \in WholeOnes : m <= n) /\ script' = [at |-> "db moved", arg |-> n]
    BY <1>1 DEF CycleDb
  <2>2. WholeOnes' = WholeOnes /\ n \in Numbers
    BY <1>1, SameFiles DEF CycleDb, WholeOnes
  <2>3. FilesTypeOK'
    BY <1>1, <2>1, <2>2, FileFacts DEF CycleDb, FilesTypeOK
  <2>4. script' # NoScript /\ script'.at = "db moved" /\ script'.arg = n
    BY <2>1 DEF NoScript
  <2>5. ProcessesInv' /\ PartsInv' /\ DoomedInv'
    BY <1>1, <2>2, <2>4 DEF CycleDb, ProcessesInv, PartsInv, DoomedInv
  <2>6. file[n].version >= saved
    <3>1. PICK w \in WholeOnes : file[w].version >= saved /\ \A m \in WholeOnes : m <= w
      BY <1>1, <2>1 DEF CycleDb, NewestInv
    <3>2. w \in Nat /\ n \in Nat
      BY <2>2, NumberTypes DEF WholeOnes
    <3>3. w <= n /\ n <= w
      BY <2>1, <3>1
    <3>4. w = n
      BY <3>2, <3>3
    <3> QED BY <3>1, <3>4
  <2>7. NewestInv'
    BY <1>1, <2>2, <2>4, <2>6 DEF CycleDb, NewestInv
  <2> QED BY <2>3, <2>5, <2>7
<1>2. ASSUME CycleCheckpoint PROVE FilesInv'
  <2>1. /\ script.at = "db moved" /\ script.arg \in Numbers
        /\ script' = [at |-> "checkpoint moved", arg |-> script.arg]
        /\ ~up /\ ~cleaning /\ doomed = << >> /\ open = -1
    <3>1. script.at = "db moved" /\ script' = [script EXCEPT !.at = "checkpoint moved"]
      BY <1>2 DEF CycleCheckpoint
    <3>2. script # NoScript
      <4>1. NoScript.at = "none"
        BY DEF NoScript
      <4> QED BY <3>1, <4>1
    <3>3. ~up /\ ~cleaning /\ doomed = << >> /\ open = -1
      BY <3>2 DEF ProcessesInv
    <3>4. script \in [at : {"none", "db moved", "checkpoint moved"}, arg : Numbers]
      BY DEF FilesTypeOK
    <3> QED BY <3>1, <3>3, <3>4
  <2>2. FilesTypeOK'
    BY <1>2, <2>1, FileFacts DEF CycleCheckpoint, FilesTypeOK
  <2>3. script' # NoScript /\ script'.at = "checkpoint moved"
    BY <2>1 DEF NoScript
  <2>4. UNCHANGED <<up, open, cleaning, doomed, saved>> /\ db' = file[script.arg]
    BY <1>2 DEF CycleCheckpoint
  <2>5. ProcessesInv' /\ PartsInv'
    BY <2>1, <2>3, <2>4 DEF ProcessesInv, PartsInv
  <2>6. DoomedInv'
    <3>1. doomed' = << >>
      BY <2>1, <2>4
    <3> QED BY <3>1 DEF DoomedInv
  <2>7. NewestInv'
    BY <2>1, <2>3, <2>4 DEF NewestInv, WholeOnes
  <2> QED BY <2>2, <2>5, <2>6, <2>7
<1>3. ASSUME CycleRemove PROVE FilesInv'
  <2>1. /\ script.at = "checkpoint moved" /\ script' = NoScript /\ failures' = 0
        /\ ~up /\ ~cleaning /\ doomed = << >> /\ open = -1 /\ file' = [n \in Numbers |-> NoFile]
        /\ UNCHANGED <<db, dbOld, up, open, suffix, world, newest, cleaning, doomed, saved>>
    <3>1. script.at = "checkpoint moved"
      BY <1>3 DEF CycleRemove
    <3>2. script # NoScript
      <4>1. NoScript.at = "none"
        BY DEF NoScript
      <4> QED BY <3>1, <4>1
    <3> QED BY <1>3, <3>2 DEF CycleRemove, ProcessesInv, Leftover
  <2>2. WholeOnes' = {} /\ Existing' = {}
    BY <2>1, FileFacts DEF WholeOnes, Existing
  <2>3. FilesTypeOK'
    <3>1. 0 \in 0..MaxFailures /\ 0 \in Numbers
      BY FilesAssumption DEF Numbers
    <3> QED BY <2>1, <3>1, FileFacts DEF FilesTypeOK, NoScript
  <2>4. ProcessesInv' /\ DoomedInv'
    <3>1. doomed' = << >> /\ open' = -1 /\ script' = NoScript /\ ~up' /\ ~cleaning'
      BY <2>1
    <3>2. ProcessesInv'
      BY <3>1 DEF ProcessesInv
    <3>3. DoomedInv'
      BY <3>1 DEF DoomedInv
    <3> QED BY <3>2, <3>3
  <2>5. PartsInv'
    BY <2>1, <2>2, FileFacts DEF PartsInv
  <2>6. NewestInv'
    <3>1. script'.at = "none" /\ db.state = "whole" /\ db.version >= saved
      BY <2>1 DEF NewestInv, NoScript
    <3> QED BY <2>1, <2>2, <3>1 DEF NewestInv
  <2> QED BY <2>3, <2>4, <2>5, <2>6
<1> QED BY <1>1, <1>2, <1>3

\* Every step of the server, the cleaner and the scripts keeps the invariant.
LEMMA FilesStep ==
    ASSUME FilesInv, [FilesNext]_fvars
    PROVE  FilesInv'
<1>1. CASE UNCHANGED fvars
  <2>1. WholeOnes' = WholeOnes /\ Existing' = Existing
    BY <1>1, SameFiles DEF fvars
  <2>2. FilesTypeOK' /\ ProcessesInv'
    BY <1>1 DEF fvars, FilesInv, FilesTypeOK, ProcessesInv
  <2>3. PartsInv' /\ DoomedInv' /\ NewestInv'
    BY <1>1, <2>1 DEF fvars, FilesInv, PartsInv, DoomedInv, NewestInv
  <2> QED BY <2>2, <2>3 DEF FilesInv
<1>2. CASE FilesNext
  BY <1>2, BootInvariant, QuietSteps, OpenInvariant, CloseInvariant, ScanInvariant,
     RemoveInvariant, CycleInvariant DEF FilesNext
<1> QED BY <1>1, <1>2

\* The bookkeeping of the checkpoint files, through any number of crashes,
\* failed openings, clean-ups and cycles.
THEOREM FilesCorrect == FilesSpec => []FilesInv
<1> QED BY FilesInitInv, FilesStep, PTL DEF FilesSpec

\* No completed checkpoint is lost: some whole file always holds its world
\* or a later one, wherever server, cleaner and scripts are interrupted.
THEOREM CheckpointsKept == FilesSpec => []ProgressKept
<1>1. FilesInv => ProgressKept
  <2> SUFFICES ASSUME FilesInv
               PROVE  \E f \in {db} \cup {file[n] : n \in Numbers} :
                        f.state = "whole" /\ f.version >= saved
    BY DEF ProgressKept
  <2>1. CASE db.state = "whole" /\ db.version >= saved
    BY <2>1
  <2>2. CASE \E n \in WholeOnes : file[n].version >= saved
    BY <2>2 DEF WholeOnes
  <2>3. script = NoScript \/ script.at = "db moved" \/ script.at = "checkpoint moved"
    BY DEF FilesInv, FilesTypeOK, ProcessesInv
  <2> QED BY <2>1, <2>2, <2>3 DEF FilesInv, NewestInv
<1> QED BY <1>1, FilesCorrect, PTL

\* checkpoint-cleanup never removes the file that checkpoint_now is writing.
THEOREM WriterSafe == FilesSpec => []WriterUndisturbed
<1>1. FilesInv => WriterUndisturbed
  BY DEF FilesInv, ProcessesInv, WriterUndisturbed
<1> QED BY <1>1, FilesCorrect, PTL

\* A server is never started on a world older than the last completed checkpoint.
THEOREM NeverOlder == FilesSpec => NoRegress
<1>1. FilesInv /\ [FilesNext]_fvars => (~up /\ up' => world' >= saved)
  <2> SUFFICES ASSUME FilesInv, [FilesNext]_fvars, ~up, up' PROVE world' >= saved
    OBVIOUS
  <2>1. Boot
    BY DEF FilesNext, fvars, Change, OpenCheckpoint, CloseCheckpoint, Crash, Scan, RemoveOne,
           Stop, CycleDb, CycleCheckpoint, CycleRemove, FilesInv, ProcessesInv
  <2> QED BY <2>1 DEF Boot, FilesInv, NewestInv
<1> QED BY <1>1, FilesCorrect, PTL DEF FilesSpec, NoRegress
=============================================================================
