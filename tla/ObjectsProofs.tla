--------------------------- MODULE ObjectsProofs ----------------------------
(***************************************************************************)
(* Theorems about Objects, for any number of objects, users, names, flags  *)
(* and parents: containment; the tables of slots and methods; where a      *)
(* search finds a slot, and what a write of one changes.                   *)
(***************************************************************************)
EXTENDS Objects, CommonLemmas, FiniteSetTheorems

\* contents_remove, on a list without repetitions, unlinks like deq does.
LEMMA RemoveFirstIsWithout ==
    ASSUME NEW S, NEW s \in Seq(S), NEW e, NoRepeats(s)
    PROVE  RemoveFirst(s, e) = Without(s, e)
<1>1. CASE \E i \in 1..Len(s) : s[i] = e
  <2>1. PICK i \in 1..Len(s) : s[i] = e
    BY <1>1
  <2>2. {j \in 1..Len(s) : s[j] = e} = {i}
    BY <2>1 DEF NoRepeats
  <2>3. Min({i}) = i
    <3>1. \A y \in {i} : i =< y
      BY <2>1
    <3> QED BY <3>1 DEF Min
  <2>4. SelectInSeq(s, LAMBDA v : v = e) = i
    BY <2>2, <2>3 DEF SelectInSeq
  <2>5. e \in InQueue(s) /\ IndexIn(s, e) = i
    BY <2>1, <2>2 DEF InQueue, IndexIn
  <2> QED BY <2>1, <2>4, <2>5 DEF RemoveFirst, Without, RemoveAt
<1>2. CASE ~\E i \in 1..Len(s) : s[i] = e
  BY <1>2 DEF RemoveFirst, Without, InQueue
<1> QED BY <1>1, <1>2

\* The objects in a list of contents, after one has left it.
LEMMA LeftList ==
    ASSUME NEW S, NEW s \in Seq(S), NEW e, NoRepeats(s)
    PROVE  /\ RemoveFirst(s, e) \in Seq(S)
           /\ InQueue(RemoveFirst(s, e)) = InQueue(s) \ {e}
           /\ NoRepeats(RemoveFirst(s, e))
BY RemoveFirstIsWithout, WithoutLemma

\* ContentsAgree in the terms of these lemmas.
LEMMA ContentsAsQueues ==
    ContentsAgree <=>
      \A o \in Objects :
        NoRepeats(contents[o]) /\ InQueue(contents[o]) = {x \in Objects : location[x] = o}
BY DEF ContentsAgree, NoRepeats, InQueue

\* At the start there is nothing in Root, nor anywhere else.
LEMMA InitPlace == Init => PlaceInv
<1> SUFFICES ASSUME Init PROVE PlaceInv
  OBVIOUS
<1>1. ContentsAgree
  BY ObjectsAssumption DEF Init, ContentsAgree
<1> QED BY <1>1, ObjectsAssumption DEF Init, PlaceInv

\* A new object is put at the head of its maker's contents.
LEMMA ClonePlace ==
    ASSUME PlaceInv, NEW u \in Users, NEW p \in ParentChoices, Clone(u, p)
    PROVE  PlaceInv'
<1>1. PICK o \in Objects \ exists :
         /\ exists' = exists \cup {o}
         /\ location' = [location EXCEPT ![o] = u]
         /\ contents' = Entered(contents, o, u)
  BY DEF Clone
<1>2. u \in exists \cup {Null} /\ Null \notin Objects
  BY ObjectsAssumption DEF Clone, Prim
<1>3. /\ exists' \subseteq Objects
      /\ location' \in [Objects -> exists' \cup {Null}]
      /\ \A x \in Objects : location'[x] = IF x = o THEN u ELSE location[x]
      /\ \A x \in Objects : x \notin exists' => location'[x] = Null
  BY <1>1, <1>2 DEF PlaceInv
<1>4. ASSUME NEW x \in Objects
      PROVE  /\ contents'[x] \in Seq(exists') /\ NoRepeats(contents'[x])
             /\ InQueue(contents'[x]) = InQueue(contents[x]) \cup (IF x = u THEN {o} ELSE {})
  <2>1. contents[x] \in Seq(exists') /\ NoRepeats(contents[x]) /\ o \notin InQueue(contents[x])
    <3>1. contents[x] \in Seq(exists) /\ NoRepeats(contents[x])
      BY ContentsAsQueues DEF PlaceInv
    <3>2. InQueue(contents[x]) \subseteq exists
      BY <3>1 DEF InQueue
    <3> QED BY <3>1, <3>2, <1>1
  <2>2. CASE x = u
    <3>1. contents'[x] = PushFront(contents[x], o)
      BY <1>1, <1>2, <2>2 DEF Entered, PushFront, PlaceInv
    <3> QED BY <2>1, <2>2, <3>1, <1>1, PushFrontLemma
  <2>3. CASE x # u
    <3>1. contents'[x] = contents[x]
      BY <1>1, <2>3 DEF Entered, PlaceInv
    <3> QED BY <2>1, <2>3, <3>1
  <2> QED BY <2>2, <2>3
<1>5. contents' \in [Objects -> Seq(exists')]
  <2>1. contents' = [x \in Objects |-> contents'[x]]
    BY <1>1 DEF Entered, PlaceInv
  <2> QED BY <2>1, <1>4
<1>6. ContentsAgree'
  <2>1. ASSUME NEW x \in Objects
        PROVE  InQueue(contents'[x]) = {y \in Objects : location'[y] = x}
    <3>1. InQueue(contents[x]) = {y \in Objects : location[y] = x} /\ location[o] = Null
      BY <1>1, ContentsAsQueues DEF PlaceInv
    <3>2. InQueue(contents'[x]) = InQueue(contents[x]) \cup (IF x = u THEN {o} ELSE {})
      BY <1>4
    <3> QED BY <3>1, <3>2, <1>1, <1>2, <1>3
  <2> QED BY <2>1, <1>4 DEF ContentsAgree, InQueue, NoRepeats
<1> QED BY <1>3, <1>5, <1>6 DEF PlaceInv

\* An object that moves leaves the one list that it is on, and enters one.
LEMMA MovePlace ==
    ASSUME PlaceInv, NEW u \in Users, NEW o \in exists, NEW dest \in exists \cup {Null},
           MoveTo(u, o, dest)
    PROVE  PlaceInv'
<1> DEFINE left == Left(contents, o, location[o])
<1>1. /\ exists' = exists /\ exists \subseteq Objects /\ Null \notin Objects
      /\ location' = [location EXCEPT ![o] = dest]
      /\ contents' = Entered(left, o, dest)
      /\ location[o] \in exists \cup {Null}
  BY ObjectsAssumption DEF MoveTo, PlaceInv
<1>2. /\ location' \in [Objects -> exists' \cup {Null}]
      /\ \A x \in Objects : location'[x] = IF x = o THEN dest ELSE location[x]
      /\ \A x \in Objects : x \notin exists' => location'[x] = Null
  BY <1>1 DEF PlaceInv
<1>3. ASSUME NEW x \in Objects
      PROVE  /\ left[x] \in Seq(exists) /\ NoRepeats(left[x])
             /\ InQueue(left[x]) = InQueue(contents[x]) \ {o}
  <2>1. /\ contents[x] \in Seq(exists) /\ NoRepeats(contents[x])
        /\ InQueue(contents[x]) = {y \in Objects : location[y] = x}
    BY ContentsAsQueues DEF PlaceInv
  <2>2. CASE x = location[o]
    <3>1. left[x] = RemoveFirst(contents[x], o)
      BY <1>1, <2>2 DEF Left, PlaceInv
    <3> QED BY <2>1, <3>1, LeftList
  <2>3. CASE x # location[o]
    <3>1. left[x] = contents[x]
      BY <2>3 DEF Left, PlaceInv
    <3> QED BY <2>1, <2>3, <3>1
  <2> QED BY <2>2, <2>3
<1>4. ASSUME NEW x \in Objects
      PROVE  /\ contents'[x] \in Seq(exists) /\ NoRepeats(contents'[x])
             /\ InQueue(contents'[x]) =
                  (InQueue(contents[x]) \ {o}) \cup (IF x = dest THEN {o} ELSE {})
  <2>1. x \in DOMAIN left
    BY <1>1 DEF Left, PlaceInv
  <2>2. CASE x = dest
    <3>1. contents'[x] = PushFront(left[x], o)
      BY <1>1, <2>1, <2>2 DEF Entered, PushFront
    <3>2. o \notin InQueue(left[x])
      BY <1>3
    <3>3. left[x] \in Seq(exists) /\ NoRepeats(left[x])
          /\ InQueue(left[x]) = InQueue(contents[x]) \ {o}
      BY <1>3
    <3> HIDE DEF left
    <3>4. /\ PushFront(left[x], o) \in Seq(exists) /\ NoRepeats(PushFront(left[x], o))
          /\ InQueue(PushFront(left[x], o)) = InQueue(left[x]) \cup {o}
      BY <3>2, <3>3, PushFrontLemma, ZenonT(60)
    <3>5. (IF x = dest THEN {o} ELSE {}) = {o}
      BY <2>2
    <3> QED BY <3>1, <3>3, <3>4, <3>5
  <2>3. CASE x # dest
    <3>1. contents'[x] = left[x]
      BY <1>1, <2>3 DEF Entered
    <3> QED BY <1>3, <2>3, <3>1
  <2> QED BY <2>2, <2>3
<1>5. contents' \in [Objects -> Seq(exists')]
  <2>1. contents' = [x \in Objects |-> contents'[x]]
    BY <1>1 DEF Entered, Left, PlaceInv
  <2> QED BY <2>1, <1>1, <1>4
<1>6. ContentsAgree'
  <2>1. ASSUME NEW x \in Objects
        PROVE  InQueue(contents'[x]) = {y \in Objects : location'[y] = x}
    <3>1. InQueue(contents[x]) = {y \in Objects : location[y] = x}
      BY ContentsAsQueues DEF PlaceInv
    <3>2. InQueue(contents'[x]) =
            (InQueue(contents[x]) \ {o}) \cup (IF x = dest THEN {o} ELSE {})
      BY <1>4
    <3> QED BY <3>1, <3>2, <1>1, <1>2
  <2> QED BY <2>1, <1>4 DEF ContentsAgree, InQueue, NoRepeats
<1> QED BY <1>1, <1>2, <1>5, <1>6 DEF PlaceInv

\* All other primitives leave containment alone.
LEMMA SamePlace ==
    ASSUME PlaceInv, UNCHANGED <<exists, location, contents>>
    PROVE  PlaceInv'
BY DEF PlaceInv, ContentsAgree

\* Each step leaves the containment of objects in order.
LEMMA NextPlace == PlaceInv /\ [Next]_ovars => PlaceInv'
<1> SUFFICES ASSUME PlaceInv, [Next]_ovars PROVE PlaceInv'
  OBVIOUS
<1>1. CASE SearchForEver
  BY <1>1, SamePlace DEF SearchForEver, place
<1>2. ASSUME NEW u \in Users, NEW p \in ParentChoices, Clone(u, p) PROVE PlaceInv'
  BY <1>2, ClonePlace
<1>3. ASSUME NEW u \in Users, NEW x \in exists, NEW w \in exists \cup {Null}, MoveTo(u, x, w)
      PROVE  PlaceInv'
  BY <1>3, MovePlace
<1>4. ASSUME NEW u \in Users, NEW x \in exists,
             \/ \E p \in ParentChoices : SetParents(u, x, p)
             \/ \E w \in exists : SetOwner(u, x, w)
             \/ \E g \in Groups : SetGroup(u, x, g)
             \/ \E on \in BOOLEAN : SetPrivileged(u, x, on)
             \/ \E f \in FlagChoices : SetObjectFlags(u, x, f)
             \/ \E what \in {"clean", "slots", "methods"} : Strip(u, x, what)
      PROVE  PlaceInv'
  BY <1>4, SamePlace
     DEF SetParents, SetOwner, SetGroup, SetPrivileged, SetObjectFlags, Strip, place
<1>5. ASSUME NEW u \in Users, NEW x \in exists, NEW n \in Names,
             \/ ClearSlot(u, x, n)
             \/ \E v \in Values : SlotSet(u, x, n, v) \/ AddSlot(u, x, n, v)
             \/ \E w \in exists : SetSlotOwner(u, x, n, w)
             \/ \E f \in FlagChoices : SetSlotFlags(u, x, n, f)
      PROVE  PlaceInv'
  BY <1>5, SamePlace
     DEF ClearSlot, SlotSet, AddSlot, SetSlotOwner, SetSlotFlags, SlotsOnly, place
<1>6. ASSUME NEW u \in Users, NEW x \in exists, NEW n \in Names,
             \/ \E v \in Values : AddMethod(u, x, n, v)
             \/ \E w \in exists : SetMethodOwner(u, x, n, w)
             \/ \E f \in FlagChoices : SetMethodFlags(u, x, n, f)
      PROVE  PlaceInv'
  BY <1>6, SamePlace
     DEF AddMethod, SetMethodOwner, SetMethodFlags, ChangeMethod, MethodsOnly, place
<1>7. CASE UNCHANGED ovars
  BY <1>7, SamePlace DEF ovars, place
<1> QED BY <1>1, <1>2, <1>3, <1>4, <1>5, <1>6, <1>7 DEF Next

\* Containment is kept by every sequence of primitives, cycles of places included: the
\* contents of an object are the objects located in it, each once.
THEOREM ContainmentAgrees == ObjectsSpec => []ContentsAgree
<1>1. ObjectsSpec => []PlaceInv
  BY InitPlace, NextPlace, PTL DEF ObjectsSpec
<1>2. PlaceInv => ContentsAgree
  BY DEF PlaceInv
<1> QED BY <1>1, <1>2, PTL

-----------------------------------------------------------------------------
(* Hash tables.                                                            *)

LEMMA MinOf ==
    ASSUME NEW T, T \subseteq Nat, T # {}
    PROVE  Min(T) \in T /\ \A y \in T : Min(T) <= y
BY LeastElement DEF Min

\* The chain that is searched for a name.
Chain(t, n) == t.chain[ChainOf[n]]

LEMMA ChainTypes ==
    ASSUME NEW t \in Tables, NEW n \in Names
    PROVE  /\ ChainOf[n] \in Chains /\ Chain(t, n) \in Seq(Links) /\ Len(Chain(t, n)) \in Nat
           /\ DOMAIN Chain(t, n) = 1..Len(Chain(t, n))
           /\ \A i \in 1..Len(Chain(t, n)) : Chain(t, n)[i] \in Links
           /\ PlacesOf(t, n) = {i \in 1..Len(Chain(t, n)) : Chain(t, n)[i].name = n}
<1>1. ChainOf[n] \in Chains /\ Chain(t, n) \in Seq(Links)
  BY HashAssumption DEF Tables, Chain
<1>2. \A i \in 1..Len(Chain(t, n)) : Chain(t, n)[i] \in Links
  BY <1>1, ElementOfSeq
<1> QED BY <1>1, <1>2 DEF PlacesOf, Chain

LEMMA PlaceOf ==
    ASSUME NEW t \in Tables, NEW n \in Names, Has(t, n)
    PROVE  /\ Min(PlacesOf(t, n)) \in 1..Len(Chain(t, n))
           /\ Get(t, n) = Chain(t, n)[Min(PlacesOf(t, n))]
           /\ Get(t, n) \in Links /\ Get(t, n).name = n
<1>1. PlacesOf(t, n) \subseteq Nat /\ PlacesOf(t, n) # {}
  BY ChainTypes DEF Has
<1>2. Min(PlacesOf(t, n)) \in PlacesOf(t, n)
  BY <1>1, MinOf
<1>3. Get(t, n) = Chain(t, n)[Min(PlacesOf(t, n))]
  BY DEF Get, Chain
<1> QED BY <1>2, <1>3, ChainTypes

\* hashtable_put, of a name that is there and of a new one.
LEMMA PutThere ==
    ASSUME NEW t \in Tables, NEW l \in Links, Has(t, l.name),
           NEW p, p = Put(t, l), NEW i, i = Min(PlacesOf(t, l.name))
    PROVE  /\ p \in Tables /\ p.count = t.count /\ i \in 1..Len(Chain(t, l.name))
           /\ Chain(t, l.name)[i].name = l.name
           /\ Len(Chain(p, l.name)) = Len(Chain(t, l.name))
           /\ \A j \in 1..Len(Chain(t, l.name)) :
                Chain(p, l.name)[j] = IF j = i THEN l ELSE Chain(t, l.name)[j]
           /\ \A h \in Chains : h # ChainOf[l.name] => p.chain[h] = t.chain[h]
<1> DEFINE n == l.name
           h == ChainOf[n]
           c == Chain(t, n)
           d == [c EXCEPT ![i] = l]
<1>1. n \in Names
  BY DEF Links
<1>2. /\ h \in Chains /\ c \in Seq(Links) /\ Len(c) \in Nat /\ DOMAIN c = 1..Len(c)
      /\ i \in 1..Len(c) /\ c[i].name = n
  BY <1>1, ChainTypes, PlaceOf
<1>3. t.chain \in [Chains -> Seq(Links)] /\ t.count \in Nat
  BY DEF Tables
<1>4. p = [t EXCEPT !.chain = [t.chain EXCEPT ![h] = d]]
  BY DEF Put, ReplaceAt, Chain
<1>5. /\ d \in Seq(Links) /\ Len(d) = Len(c)
      /\ \A j \in 1..Len(c) : d[j] = IF j = i THEN l ELSE c[j]
  <2> HIDE DEF c
  <2> QED BY <1>2, ExceptSeq
<1>6. p.chain = [t.chain EXCEPT ![h] = d] /\ p.count = t.count
  <2> HIDE DEF d, h
  <2> QED BY <1>4 DEF Tables
<1>7. p.chain \in [Chains -> Seq(Links)] /\ p.chain[h] = d
  <2> HIDE DEF d, h
  <2> QED BY <1>2, <1>3, <1>5, <1>6
<1>8. p \in Tables
  <2> HIDE DEF d, h
  <2> QED BY <1>3, <1>4, <1>6, <1>7 DEF Tables
<1>9. \A g \in Chains : g # h => p.chain[g] = t.chain[g]
  <2> HIDE DEF d, h
  <2> QED BY <1>3, <1>6
<1> QED BY <1>2, <1>5, <1>6, <1>7, <1>8, <1>9 DEF Chain

LEMMA PutNew ==
    ASSUME NEW t \in Tables, NEW l \in Links, ~Has(t, l.name), NEW p, p = Put(t, l)
    PROVE  /\ p \in Tables /\ p.count = t.count + 1
           /\ Len(Chain(p, l.name)) = Len(Chain(t, l.name)) + 1 /\ Chain(p, l.name)[1] = l
           /\ \A j \in 1..Len(Chain(t, l.name)) :
                Chain(p, l.name)[j + 1] = Chain(t, l.name)[j]
           /\ \A h \in Chains : h # ChainOf[l.name] => p.chain[h] = t.chain[h]
<1> DEFINE n == l.name
           h == ChainOf[n]
           c == Chain(t, n)
           d == <<l>> \o c
<1>1. n \in Names
  BY DEF Links
<1>2. h \in Chains /\ c \in Seq(Links) /\ Len(c) \in Nat
  BY <1>1, ChainTypes
<1>3. t.chain \in [Chains -> Seq(Links)] /\ t.count \in Nat
  BY DEF Tables
<1>4. p = [chain |-> [t.chain EXCEPT ![h] = d], count |-> t.count + 1]
  BY DEF Put, Chain
<1>5. /\ d \in Seq(Links) /\ Len(d) = Len(c) + 1 /\ d[1] = l
      /\ \A j \in 1..Len(c) : d[j + 1] = c[j]
  <2> HIDE DEF c
  <2>1. <<l>> \in Seq(Links) /\ Len(<<l>>) = 1 /\ <<l>>[1] = l
    OBVIOUS
  <2> QED BY <1>2, <2>1, ConcatProperties
<1>6. p.chain \in [Chains -> Seq(Links)] /\ p.chain[h] = d /\ p.count = t.count + 1
  <2> HIDE DEF d, h
  <2> QED BY <1>2, <1>3, <1>4, <1>5
<1>8. p \in Tables
  <2> HIDE DEF d, h
  <2> QED BY <1>3, <1>4, <1>6 DEF Tables
<1>9. \A g \in Chains : g # h => p.chain[g] = t.chain[g]
  <2> HIDE DEF d, h
  <2> QED BY <1>3, <1>4
<1> QED BY <1>2, <1>5, <1>6, <1>8, <1>9 DEF Chain

\* What is found in a table after a link has been put into it.
LEMMA PutGet ==
    ASSUME NEW t \in Tables, NEW l \in Links, NEW m \in Names, NEW p, p = Put(t, l)
    PROVE  /\ p \in Tables /\ Has(p, m) <=> (m = l.name \/ Has(t, m))
           /\ m = l.name => Get(p, m) = l
           /\ m # l.name /\ Has(t, m) => Get(p, m) = Get(t, m)
<1> DEFINE n == l.name
           i == Min(PlacesOf(t, n))
<1>1. n \in Names /\ t \in Tables
  BY DEF Links
<1>2. /\ ChainOf[m] \in Chains /\ Len(Chain(t, m)) \in Nat
      /\ PlacesOf(t, m) = {j \in 1..Len(Chain(t, m)) : Chain(t, m)[j].name = m}
  BY ChainTypes
<1>3. CASE ChainOf[m] # ChainOf[n]
  <2>1. p \in Tables /\ p.chain[ChainOf[m]] = t.chain[ChainOf[m]]
    BY <1>2, <1>3, PutThere, PutNew
  <2>2. m # n
    BY <1>3
  <2> QED BY <2>1, <2>2 DEF Has, Get, PlacesOf
<1>4. CASE ChainOf[m] = ChainOf[n] /\ Has(t, n)
  <2>1. /\ p \in Tables /\ i \in 1..Len(Chain(t, n)) /\ Chain(t, n)[i].name = n
        /\ Len(Chain(p, n)) = Len(Chain(t, n))
        /\ \A j \in 1..Len(Chain(t, n)) :
             Chain(p, n)[j] = IF j = i THEN l ELSE Chain(t, n)[j]
    BY <1>4, PutThere
  <2>2. Chain(p, m) = Chain(p, n) /\ Chain(t, m) = Chain(t, n)
    BY <1>4 DEF Chain
  <2>3. PlacesOf(p, m) = {j \in 1..Len(Chain(p, m)) : Chain(p, m)[j].name = m}
    BY <2>1, ChainTypes
  <2> HIDE DEF i, n
  <2>4. ASSUME NEW j \in 1..Len(Chain(t, n)) PROVE Chain(p, n)[j].name = Chain(t, n)[j].name
    BY <2>1 DEF n
  <2>5. PlacesOf(p, m) = PlacesOf(t, m)
    BY <1>2, <2>1, <2>2, <2>3, <2>4
  <2>6. Has(p, m) <=> Has(t, m)
    BY <2>5 DEF Has
  <2>7. ASSUME Has(t, m) PROVE Get(p, m) = IF m = n THEN l ELSE Get(t, m)
    <3>1. /\ Min(PlacesOf(t, m)) \in 1..Len(Chain(t, m)) /\ Get(t, m).name = m
          /\ Get(t, m) = Chain(t, m)[Min(PlacesOf(t, m))]
      BY <2>7, PlaceOf
    <3>2. Get(p, m) = Chain(p, m)[Min(PlacesOf(t, m))]
      BY <2>5 DEF Get, Chain
    <3>3. m = n <=> Min(PlacesOf(t, m)) = i
      BY <2>1, <2>2, <3>1 DEF i
    <3> QED BY <2>1, <2>2, <3>1, <3>2, <3>3
  <2> QED BY <1>4, <2>1, <2>6, <2>7 DEF n
<1>5. CASE ChainOf[m] = ChainOf[n] /\ ~Has(t, n)
  <2>1. /\ p \in Tables /\ Len(Chain(p, n)) = Len(Chain(t, n)) + 1 /\ Chain(p, n)[1] = l
        /\ \A j \in 1..Len(Chain(t, n)) : Chain(p, n)[j + 1] = Chain(t, n)[j]
    BY <1>5, PutNew
  <2>2. Chain(p, m) = Chain(p, n) /\ Chain(t, m) = Chain(t, n)
    BY <1>5 DEF Chain
  <2>3. PlacesOf(p, m) = {j \in 1..Len(Chain(p, m)) : Chain(p, m)[j].name = m}
    BY <2>1, ChainTypes
  <2> DEFINE c == Chain(t, m)
             d == Chain(p, m)
  <2>4. /\ Len(c) \in Nat /\ Len(d) = Len(c) + 1 /\ d[1] = l
        /\ \A j \in 1..Len(c) : d[j + 1] = c[j]
        /\ PlacesOf(t, m) = {j \in 1..Len(c) : c[j].name = m}
        /\ PlacesOf(p, m) = {j \in 1..Len(d) : d[j].name = m}
    BY <1>2, <2>1, <2>2, <2>3
  <2>5. Get(p, m) = d[Min(PlacesOf(p, m))] /\ Get(t, m) = c[Min(PlacesOf(t, m))]
    BY DEF Get, Chain
  <2> HIDE DEF c, d, n
  <2>6. /\ \A j \in PlacesOf(p, m) : j = 1 \/ j - 1 \in PlacesOf(t, m)
        /\ \A j \in PlacesOf(t, m) : j + 1 \in PlacesOf(p, m)
        /\ 1 \in PlacesOf(p, m) <=> m = n
        /\ PlacesOf(p, m) \subseteq Nat \ {0} /\ PlacesOf(t, m) \subseteq Nat \ {0}
    BY <2>4 DEF n
  <2>7. Has(p, m) <=> (m = n \/ Has(t, m))
    BY <2>6 DEF Has
  <2>8. ASSUME m = n PROVE Get(p, m) = l
    <3>1. Min(PlacesOf(p, m)) = 1
      <4>1. Min(PlacesOf(p, m)) \in PlacesOf(p, m) /\ Min(PlacesOf(p, m)) <= 1
        BY <2>6, <2>8, MinOf
      <4> QED BY <2>6, <4>1
    <3> QED BY <2>4, <2>5, <3>1
  <2>9. ASSUME m # n, Has(t, m) PROVE Get(p, m) = Get(t, m)
    <3> DEFINE a == Min(PlacesOf(t, m))
               b == Min(PlacesOf(p, m))
    <3>1. a \in PlacesOf(t, m) /\ \A j \in PlacesOf(t, m) : a <= j
      BY <2>6, <2>9, MinOf DEF Has
    <3>2. b \in PlacesOf(p, m) /\ \A j \in PlacesOf(p, m) : b <= j
      BY <2>6, <2>7, <2>9, MinOf DEF Has
    <3> HIDE DEF a, b
    <3>3. b = a + 1
      <4>1. b <= a + 1
        BY <2>6, <3>1, <3>2
      <4>2. b - 1 \in PlacesOf(t, m)
        BY <2>6, <2>9, <3>2
      <4>3. a <= b - 1
        BY <3>1, <4>2
      <4> QED BY <2>6, <3>1, <3>2, <4>1, <4>3
    <3>4. a \in 1..Len(c)
      BY <2>4, <3>1
    <3> QED BY <2>4, <2>5, <3>3, <3>4 DEF a, b
  <2> QED BY <2>1, <2>7, <2>8, <2>9 DEF n
<1> QED BY <1>3, <1>4, <1>5

-----------------------------------------------------------------------------
(* Searches.                                                               *)

LEMMA ParentsAre ==
    ASSUME PlaceInv, ObjectTypes, NEW o \in Objects
    PROVE  /\ DOMAIN Parents(o) = 1..Len(Parents(o)) /\ Len(Parents(o)) \in Nat
           /\ \A i \in 1..Len(Parents(o)) : Parents(o)[i] \in exists /\ Parents(o)[i] \in Objects
           /\ Parents(o) \in Seq(exists)
<1>1. exists \subseteq Objects /\ parents[o] \in exists \cup {Null} \cup BoundedSeq(exists, MaxParents)
  BY DEF PlaceInv, ObjectTypes
<1>2. Parents(o) \in Seq(exists)
  <2>1. CASE parents[o] = Null
    <3>1. Parents(o) = << >>
      BY <2>1 DEF Parents, IsVector
    <3> QED BY <3>1, EmptySeq
  <2>2. CASE parents[o] \in Objects
    <3>1. Parents(o) = <<parents[o]>>
      BY <2>2, ObjectsAssumption DEF Parents, IsVector
    <3>2. parents[o] \in exists
      <4>1. ASSUME NEW m \in 0..MaxParents, parents[o] \in [1..m -> exists] PROVE FALSE
        <5>1. parents[o] \in [1..m -> Objects]
          BY <1>1, <4>1
        <5>2. parents[o] \in BoundedSeq(Objects, MaxParents)
          BY <5>1 DEF BoundedSeq, SeqOf
        <5> QED BY <2>2, <5>2, ObjectsAssumption
      <4>2. parents[o] \notin BoundedSeq(exists, MaxParents)
        BY <4>1 DEF BoundedSeq, SeqOf
      <4> QED BY <1>1, <2>2, <4>2, ObjectsAssumption
    <3> QED BY <3>1, <3>2
  <2>3. CASE parents[o] \notin Objects \cup {Null}
    <3>1. Parents(o) = parents[o]
      BY <2>3 DEF Parents, IsVector
    <3>2. PICK m \in 0..MaxParents : parents[o] \in [1..m -> exists]
      BY <1>1, <2>3 DEF BoundedSeq, SeqOf
    <3>3. m \in Nat
      BY ObjectsAssumption
    <3> QED BY <3>1, <3>2, <3>3
  <2> QED BY <2>1, <2>2, <2>3
<1>3. Len(Parents(o)) \in Nat /\ DOMAIN Parents(o) = 1..Len(Parents(o))
  BY <1>2
<1>4. \A i \in 1..Len(Parents(o)) : Parents(o)[i] \in exists
  BY <1>2, ElementOfSeq
<1> QED BY <1>1, <1>2, <1>3, <1>4

LEMMA FirstOfIs ==
    ASSUME NEW n \in Nat, NEW r, DOMAIN r = 1..n, NEW e
    PROVE  \/ (\A i \in 1..n : r[i] = None) /\ FirstOf(r, e) = e
           \/ \E i \in 1..n : /\ r[i] # None /\ FirstOf(r, e) = r[i]
                              /\ \A j \in 1..n : j < i => r[j] = None
<1> DEFINE found == {i \in DOMAIN r : r[i] # None}
<1>1. FirstOf(r, e) = IF found = {} THEN e ELSE r[Min(found)]
  BY DEF FirstOf
<1>2. CASE found = {}
  BY <1>1, <1>2
<1>3. CASE found # {}
  <2>1. Min(found) \in found /\ \A y \in found : Min(found) <= y
    <3>1. found \subseteq Nat
      OBVIOUS
    <3> HIDE DEF found
    <3> QED BY <1>3, <3>1, MinOf
  <2>2. \A j \in 1..n : j < Min(found) => r[j] = None
    <3>1. ASSUME NEW j \in 1..n, j < Min(found), r[j] # None PROVE FALSE
      <4>1. j \in found
        BY <3>1
      <4>2. Min(found) \in 1..n
        BY <2>1
      <4> HIDE DEF found
      <4> QED BY <2>1, <3>1, <4>1, <4>2
    <3> QED BY <3>1
  <2>3. Min(found) \in 1..n /\ r[Min(found)] # None
    BY <2>1
  <2> QED BY <1>1, <1>3, <2>2, <2>3
<1> QED BY <1>2, <1>3

Deepest == Cardinality(Objects)

\* What a search for an object of T finds, from each object, when it goes no deeper than d.
Searched(f, d, T, atEnd) ==
    [o \in Objects |->
       IF o \in T THEN o ELSE
       CASE parents[o] = Null -> None
         [] parents[o] # Null /\ d = 0 -> Never
         [] OTHER -> FirstOf([i \in DOMAIN Parents(o) |-> f[d - 1][Parents(o)[i]]],
                             IF IsVector(parents[o]) THEN atEnd ELSE None)]

IsSearch(f, T, atEnd) == f = [d \in 0..Deepest |-> Searched(f, d, T, atEnd)]

LEMMA SearchExists ==
    ASSUME NEW T, NEW atEnd
    PROVE  Deepest \in Nat /\ \E f : IsSearch(f, T, atEnd)
<1> DEFINE U == {n \in Nat : \E f : f = [d \in 0..n |-> Searched(f, d, T, atEnd)]}
<1>1. 0 \in U
  <2> DEFINE g == [d \in 0..0 |-> Searched(<< >>, 0, T, atEnd)]
  <2>1. Searched(<< >>, 0, T, atEnd) = Searched(g, 0, T, atEnd)
    BY DEF Searched
  <2>2. g = [d \in 0..0 |-> Searched(g, d, T, atEnd)]
    BY <2>1
  <2> HIDE DEF g
  <2>3. \E f : f = [d \in 0..0 |-> Searched(f, d, T, atEnd)]
    BY <2>2
  <2> QED BY <2>3
<1>2. ASSUME NEW n \in Nat, n \in U PROVE n + 1 \in U
  <2>1. PICK f : f = [d \in 0..n |-> Searched(f, d, T, atEnd)]
    BY <1>2
  <2> DEFINE g == [d \in 0..(n + 1) |-> IF d = n + 1 THEN Searched(f, n + 1, T, atEnd) ELSE f[d]]
  <2>2. ASSUME NEW d \in 0..(n + 1) PROVE g[d] = Searched(g, d, T, atEnd)
    <3>1. d # 0 => g[d - 1] = f[d - 1]
      OBVIOUS
    <3>2. Searched(g, d, T, atEnd) = Searched(f, d, T, atEnd)
      <4> HIDE DEF g
      <4> QED BY <3>1 DEF Searched
    <3>3. CASE d = n + 1
      BY <3>2, <3>3
    <3>4. CASE d # n + 1
      <4>1. d \in 0..n /\ g[d] = f[d]
        BY <3>4
      <4>2. f[d] = Searched(f, d, T, atEnd)
        BY <2>1, <4>1
      <4> QED BY <3>2, <4>1, <4>2
    <3> QED BY <3>3, <3>4
  <2>3. g = [d \in 0..(n + 1) |-> Searched(g, d, T, atEnd)]
    BY <2>2
  <2> HIDE DEF g
  <2>4. \E f1 : f1 = [d \in 0..(n + 1) |-> Searched(f1, d, T, atEnd)]
    BY <2>3
  <2> QED BY <2>4
<1>3. Deepest \in Nat
  BY ObjectsAssumption, FS_CardinalityType DEF Deepest
<1>4. Deepest \in U
  <2> HIDE DEF U
  <2> QED BY <1>1, <1>2, <1>3, InductionOnNat
<1> QED BY <1>3, <1>4 DEF IsSearch

HasSlot(n) == {x \in Objects : Has(attributes[x], n)}
HasMethod(n) == {x \in Objects : Has(methods[x], n)}

LEMMA FindSlotIs ==
    ASSUME NEW n
    PROVE  \E f : IsSearch(f, HasSlot(n), None) /\ \A o \in Objects : FindSlot(o, n) = f[Deepest][o]
<1> DEFINE Body(f) == [d \in 0..Cardinality(Objects) |-> [o \in Objects |->
       IF Has(attributes[o], n) THEN o ELSE
       CASE parents[o] = Null -> None
         [] parents[o] # Null /\ d = 0 -> Never
         [] OTHER -> FirstOf([i \in DOMAIN Parents(o) |-> f[d - 1][Parents(o)[i]]],
                             IF IsVector(parents[o]) THEN EndOfSlots ELSE None)]]
<1>1. \A f : [d \in 0..Deepest |-> Searched(f, d, HasSlot(n), None)] = Body(f)
  BY DEF Searched, HasSlot, Deepest, EndOfSlots
<1>2. \E f : f = Body(f)
  <2>1. PICK f : IsSearch(f, HasSlot(n), None)
    BY SearchExists
  <2>2. f = Body(f)
    <3> HIDE DEF Body
    <3> QED BY <1>1, <2>1 DEF IsSearch
  <2> HIDE DEF Body
  <2> QED BY <2>2
<1>3. \A o \in Objects : FindSlot(o, n) = (CHOOSE f : f = Body(f))[Deepest][o]
  BY DEF FindSlot, Search, Deepest
<1> DEFINE g == CHOOSE f : f = Body(f)
<1>4. g = Body(g)
  BY <1>2
<1> HIDE DEF g
<1>5. IsSearch(g, HasSlot(n), None)
  BY <1>1, <1>4 DEF IsSearch
<1> QED BY <1>3, <1>5 DEF g

LEMMA FindMethodIs ==
    ASSUME NEW n
    PROVE  \E f : IsSearch(f, HasMethod(n), Never) /\ \A o \in Objects : FindMethod(o, n) = f[Deepest][o]
<1> DEFINE Body(f) == [d \in 0..Cardinality(Objects) |-> [o \in Objects |->
       IF Has(methods[o], n) THEN o ELSE
       CASE parents[o] = Null -> None
         [] parents[o] # Null /\ d = 0 -> Never
         [] OTHER -> FirstOf([i \in DOMAIN Parents(o) |-> f[d - 1][Parents(o)[i]]],
                             IF IsVector(parents[o]) THEN EndOfMethods ELSE None)]]
<1>1. \A f : [d \in 0..Deepest |-> Searched(f, d, HasMethod(n), Never)] = Body(f)
  BY DEF Searched, HasMethod, Deepest, EndOfMethods
<1>2. \E f : f = Body(f)
  <2>1. PICK f : IsSearch(f, HasMethod(n), Never)
    BY SearchExists
  <2>2. f = Body(f)
    <3> HIDE DEF Body
    <3> QED BY <1>1, <2>1 DEF IsSearch
  <2> HIDE DEF Body
  <2> QED BY <2>2
<1>3. \A o \in Objects : FindMethod(o, n) = (CHOOSE f : f = Body(f))[Deepest][o]
  BY DEF FindMethod, Search, Deepest
<1> DEFINE g == CHOOSE f : f = Body(f)
<1>4. g = Body(g)
  BY <1>2
<1> HIDE DEF g
<1>5. IsSearch(g, HasMethod(n), Never)
  BY <1>1, <1>4 DEF IsSearch
<1> QED BY <1>3, <1>5 DEF g

LEMMA FindAncestorIs ==
    ASSUME NEW p \in Objects
    PROVE  \E f : IsSearch(f, {p}, None) /\ \A o \in Objects : FindAncestor(o, p) = f[Deepest][o]
<1> DEFINE Body(f) == [d \in 0..Cardinality(Objects) |-> [o \in Objects |->
       IF o = p THEN o ELSE
       CASE parents[o] = Null -> None
         [] parents[o] # Null /\ d = 0 -> Never
         [] OTHER -> FirstOf([i \in DOMAIN Parents(o) |-> f[d - 1][Parents(o)[i]]],
                             IF IsVector(parents[o]) THEN None ELSE None)]]
<1>1. \A f : [d \in 0..Deepest |-> Searched(f, d, {p}, None)] = Body(f)
  BY DEF Searched, Deepest
<1>2. \E f : f = Body(f)
  <2>1. PICK f : IsSearch(f, {p}, None)
    BY SearchExists
  <2>2. f = Body(f)
    <3> HIDE DEF Body
    <3> QED BY <1>1, <2>1 DEF IsSearch
  <2> HIDE DEF Body
  <2> QED BY <2>2
<1>3. \A o \in Objects : FindAncestor(o, p) = (CHOOSE f : f = Body(f))[Deepest][o]
  BY DEF FindAncestor, Search, Deepest
<1> DEFINE g == CHOOSE f : f = Body(f)
<1>4. g = Body(g)
  BY <1>2
<1> HIDE DEF g
<1>5. IsSearch(g, {p}, None)
  BY <1>1, <1>4 DEF IsSearch
<1> QED BY <1>3, <1>5 DEF g


HasSlotNext(n) == {x \in Objects : Has(attributes'[x], n)}

LEMMA FindSlotNext ==
    ASSUME NEW n, UNCHANGED parents
    PROVE  \E f : IsSearch(f, HasSlotNext(n), None) /\ \A o \in Objects : FindSlot(o, n)' = f[Deepest][o]
<1> DEFINE Body(f) == [d \in 0..Cardinality(Objects) |-> [o \in Objects |->
       IF Has(attributes'[o], n) THEN o ELSE
       CASE parents[o] = Null -> None
         [] parents[o] # Null /\ d = 0 -> Never
         [] OTHER -> FirstOf([i \in DOMAIN Parents(o) |-> f[d - 1][Parents(o)[i]]],
                             IF IsVector(parents[o]) THEN EndOfSlots ELSE None)]]
<1>1. \A f : [d \in 0..Deepest |-> Searched(f, d, HasSlotNext(n), None)] = Body(f)
  BY DEF Searched, HasSlotNext, Deepest, EndOfSlots
<1>2. \E f : f = Body(f)
  <2>1. PICK f : IsSearch(f, HasSlotNext(n), None)
    BY SearchExists
  <2>2. f = Body(f)
    <3> HIDE DEF Body
    <3> QED BY <1>1, <2>1 DEF IsSearch
  <2> HIDE DEF Body
  <2> QED BY <2>2
<1>3. \A o \in Objects : FindSlot(o, n)' = (CHOOSE f : f = Body(f))[Deepest][o]
  BY DEF FindSlot, Search, Deepest, Parents, IsVector
<1> DEFINE g == CHOOSE f : f = Body(f)
<1>4. g = Body(g)
  BY <1>2
<1> HIDE DEF g
<1>5. IsSearch(g, HasSlotNext(n), None)
  BY <1>1, <1>4 DEF IsSearch
<1> QED BY <1>3, <1>5 DEF g

\* One step of a search.
LEMMA SearchStep ==
    ASSUME PlaceInv, ObjectTypes, NEW f, NEW T, NEW atEnd, IsSearch(f, T, atEnd),
           NEW d \in 0..Deepest, NEW o \in Objects
    PROVE  /\ o \in T => f[d][o] = o
           /\ o \notin T /\ parents[o] = Null => f[d][o] = None
           /\ o \notin T /\ parents[o] # Null /\ d = 0 => f[d][o] = Never
           /\ o \notin T /\ parents[o] # Null /\ d # 0 =>
                \/ /\ \A i \in 1..Len(Parents(o)) : f[d - 1][Parents(o)[i]] = None
                   /\ f[d][o] = IF IsVector(parents[o]) THEN atEnd ELSE None
                \/ \E i \in 1..Len(Parents(o)) :
                     /\ f[d - 1][Parents(o)[i]] # None /\ f[d][o] = f[d - 1][Parents(o)[i]]
                     /\ \A j \in 1..Len(Parents(o)) : j < i => f[d - 1][Parents(o)[j]] = None
<1>1. f[d] = Searched(f, d, T, atEnd)
  BY DEF IsSearch
<1> DEFINE r == [i \in DOMAIN Parents(o) |-> f[d - 1][Parents(o)[i]]]
           e == IF IsVector(parents[o]) THEN atEnd ELSE None
<1>2. f[d][o] = IF o \in T THEN o ELSE
                CASE parents[o] = Null -> None
                  [] parents[o] # Null /\ d = 0 -> Never
                  [] OTHER -> FirstOf(r, e)
  BY <1>1 DEF Searched
<1>3. /\ DOMAIN r = 1..Len(Parents(o)) /\ Len(Parents(o)) \in Nat
      /\ \A i \in 1..Len(Parents(o)) : r[i] = f[d - 1][Parents(o)[i]]
  BY ParentsAre
<1> HIDE DEF r, e
<1>4. \/ (\A i \in 1..Len(Parents(o)) : r[i] = None) /\ FirstOf(r, e) = e
      \/ \E i \in 1..Len(Parents(o)) :
           /\ r[i] # None /\ FirstOf(r, e) = r[i]
           /\ \A j \in 1..Len(Parents(o)) : j < i => r[j] = None
  BY <1>3, FirstOfIs
<1>5. CASE o \in T \/ parents[o] = Null \/ d = 0
  BY <1>2, <1>5
<1>6. CASE o \notin T /\ parents[o] # Null /\ d # 0
  <2>1. f[d][o] = FirstOf(r, e)
    BY <1>2, <1>6
  <2> QED BY <1>3, <1>4, <1>6, <2>1 DEF e
<1> QED BY <1>5, <1>6

\* When x gets what is searched for, the search changes only where it comes to x, and
\* then x is an ancestor.
LEMMA SearchBelow ==
    ASSUME PlaceInv, ObjectTypes, NEW x \in Objects, NEW T, NEW f, NEW g, NEW a,
           IsSearch(f, T, None), IsSearch(g, T \cup {x}, None), IsSearch(a, {x}, None)
    PROVE  \A o \in Objects :
             /\ g[Deepest][o] = x => a[Deepest][o] = x
             /\ g[Deepest][o] # x => f[Deepest][o] = g[Deepest][o]
<1> DEFINE Right(d, o) == /\ g[d][o] = None => a[d][o] = None
                          /\ g[d][o] = x => a[d][o] = x
                          /\ g[d][o] # x => f[d][o] = g[d][o]
           U == {d \in Nat : d <= Deepest => \A o \in Objects : Right(d, o)}
<1>0. Deepest \in Nat /\ None \notin Objects /\ Never \notin Objects /\ None # Never
  BY SearchExists, ObjectsAssumption DEF None, Never
<1>1. ASSUME NEW d \in 0..Deepest, NEW o \in Objects,
             d # 0 => \A y \in Objects : Right(d - 1, y)
      PROVE  Right(d, o)
  <2> DEFINE q == Parents(o)
  <2>1. \A i \in 1..Len(q) : q[i] \in Objects
    BY ParentsAre
  <2>2. CASE o = x
    BY <2>2, SearchStep
  <2>3. CASE o # x /\ o \in T
    <3>1. f[d][o] = o /\ g[d][o] = o
      BY <2>3, SearchStep
    <3> QED BY <1>0, <2>3, <3>1
  <2>4. CASE o # x /\ o \notin T /\ parents[o] = Null
    <3>1. f[d][o] = None /\ g[d][o] = None /\ a[d][o] = None
      BY <2>4, SearchStep
    <3> QED BY <1>0, <3>1
  <2>5. CASE o # x /\ o \notin T /\ parents[o] # Null /\ d = 0
    <3>1. f[d][o] = Never /\ g[d][o] = Never
      BY <2>5, SearchStep
    <3> QED BY <1>0, <3>1
  <2>6. CASE o # x /\ o \notin T /\ parents[o] # Null /\ d # 0
    <3>1. \A i \in 1..Len(q) : Right(d - 1, q[i])
      <4> HIDE DEF Right
      <4> QED BY <1>1, <2>1, <2>6
    <3>2. \/ (\A i \in 1..Len(q) : g[d - 1][q[i]] = None) /\ g[d][o] = None
          \/ \E i \in 1..Len(q) :
               /\ g[d - 1][q[i]] # None /\ g[d][o] = g[d - 1][q[i]]
               /\ \A j \in 1..Len(q) : j < i => g[d - 1][q[j]] = None
      BY <2>6, SearchStep
    <3>3. \/ (\A i \in 1..Len(q) : f[d - 1][q[i]] = None) /\ f[d][o] = None
          \/ \E i \in 1..Len(q) :
               /\ f[d - 1][q[i]] # None /\ f[d][o] = f[d - 1][q[i]]
               /\ \A j \in 1..Len(q) : j < i => f[d - 1][q[j]] = None
      BY <2>6, SearchStep
    <3>4. \/ (\A i \in 1..Len(q) : a[d - 1][q[i]] = None) /\ a[d][o] = None
          \/ \E i \in 1..Len(q) :
               /\ a[d - 1][q[i]] # None /\ a[d][o] = a[d - 1][q[i]]
               /\ \A j \in 1..Len(q) : j < i => a[d - 1][q[j]] = None
      BY <2>6, SearchStep
    <3>5. Len(q) \in Nat
      BY ParentsAre
    <3> HIDE DEF q
    <3>6. CASE (\A i \in 1..Len(q) : g[d - 1][q[i]] = None) /\ g[d][o] = None
      <4>1. \A i \in 1..Len(q) : a[d - 1][q[i]] = None /\ f[d - 1][q[i]] = None
        BY <1>0, <3>1, <3>6
      <4>2. a[d][o] = None /\ f[d][o] = None
        BY <3>3, <3>4, <4>1
      <4> QED BY <1>0, <3>6, <4>2
    <3>7. ASSUME NEW i \in 1..Len(q), g[d - 1][q[i]] # None, g[d][o] = g[d - 1][q[i]],
                 \A j \in 1..Len(q) : j < i => g[d - 1][q[j]] = None
          PROVE  Right(d, o)
      <4>1. \A j \in 1..Len(q) : j < i => a[d - 1][q[j]] = None /\ f[d - 1][q[j]] = None
        BY <1>0, <3>1, <3>7
      <4>2. ASSUME g[d][o] = x PROVE a[d][o] = x
        <5>1. a[d - 1][q[i]] = x /\ x # None
          BY <1>0, <3>1, <3>7, <4>2
        <5>2. PICK k \in 1..Len(q) :
                 /\ a[d - 1][q[k]] # None /\ a[d][o] = a[d - 1][q[k]]
                 /\ \A j \in 1..Len(q) : j < k => a[d - 1][q[j]] = None
          BY <3>4, <5>1
        <5>3. k = i
          BY <3>5, <4>1, <5>1, <5>2
        <5> QED BY <5>1, <5>2, <5>3
      <4>3. ASSUME g[d][o] # x PROVE f[d][o] = g[d][o]
        <5>1. f[d - 1][q[i]] = g[d - 1][q[i]] /\ f[d - 1][q[i]] # None
          BY <3>1, <3>7, <4>3
        <5>2. PICK k \in 1..Len(q) :
                 /\ f[d - 1][q[k]] # None /\ f[d][o] = f[d - 1][q[k]]
                 /\ \A j \in 1..Len(q) : j < k => f[d - 1][q[j]] = None
          BY <3>3, <5>1
        <5>3. k = i
          BY <3>5, <4>1, <5>1, <5>2
        <5> QED BY <3>7, <5>1, <5>2, <5>3
      <4> QED BY <3>7, <4>2, <4>3
    <3> QED BY <3>2, <3>6, <3>7
  <2> QED BY <2>2, <2>3, <2>4, <2>5, <2>6
<1> HIDE DEF Right
<1>2. 0 \in U
  BY <1>0, <1>1
<1>3. ASSUME NEW d \in Nat, d \in U PROVE d + 1 \in U
  <2>1. d + 1 <= Deepest => \A o \in Objects : Right(d, o)
    BY <1>0, <1>3
  <2>2. d + 1 <= Deepest => d + 1 \in 0..Deepest /\ (d + 1) - 1 = d
    BY <1>0
  <2> QED BY <1>1, <2>1, <2>2
<1>4. Deepest \in U
  <2> HIDE DEF U
  <2> QED BY <1>0, <1>2, <1>3, InductionOnNat
<1>5. \A o \in Objects : Right(Deepest, o)
  BY <1>0, <1>4
<1> QED BY <1>5 DEF Right

\* What a search finds has what is searched for.
LEMMA SearchFinds ==
    ASSUME PlaceInv, ObjectTypes, NEW T, T \subseteq Objects, NEW atEnd \in {None, Never}, NEW f,
           IsSearch(f, T, atEnd)
    PROVE  \A o \in Objects : f[Deepest][o] \in T \cup {None, Never}
<1> DEFINE U == {d \in Nat : d <= Deepest => \A o \in Objects : f[d][o] \in T \cup {None, Never}}
<1>0. Deepest \in Nat
  BY SearchExists
<1>1. ASSUME NEW d \in 0..Deepest, NEW o \in Objects,
             d # 0 => \A y \in Objects : f[d - 1][y] \in T \cup {None, Never}
      PROVE  f[d][o] \in T \cup {None, Never}
  <2>1. CASE o \in T \/ parents[o] = Null \/ d = 0
    BY <2>1, SearchStep
  <2>2. CASE o \notin T /\ parents[o] # Null /\ d # 0
    <3>1. \A i \in 1..Len(Parents(o)) : f[d - 1][Parents(o)[i]] \in T \cup {None, Never}
      BY <1>1, <2>2, ParentsAre
    <3>2. \/ f[d][o] = IF IsVector(parents[o]) THEN atEnd ELSE None
          \/ \E i \in 1..Len(Parents(o)) : f[d][o] = f[d - 1][Parents(o)[i]]
      BY <2>2, SearchStep
    <3> QED BY <3>1, <3>2
  <2> QED BY <2>1, <2>2
<1>2. 0 \in U
  BY <1>0, <1>1
<1>3. ASSUME NEW d \in Nat, d \in U PROVE d + 1 \in U
  <2>1. d + 1 <= Deepest => \A o \in Objects : f[d][o] \in T \cup {None, Never}
    BY <1>0, <1>3
  <2>2. d + 1 <= Deepest => d + 1 \in 0..Deepest /\ (d + 1) - 1 = d
    BY <1>0
  <2> QED BY <1>1, <2>1, <2>2
<1>4. Deepest \in U
  <2> HIDE DEF U
  <2> QED BY <1>0, <1>2, <1>3, InductionOnNat
<1> QED BY <1>0, <1>4

\* The slot that x has or inherits, and the method.
LEMMA SlotIs ==
    ASSUME PlaceInv, ObjectTypes, NEW x \in Objects, NEW n \in Names, NEW s \in Slot(x, n)
    PROVE  s \in Links /\ s.name = n
<1>1. PICK f : /\ IsSearch(f, HasSlot(n), None)
               /\ \A o \in Objects : FindSlot(o, n) = f[Deepest][o]
  BY FindSlotIs
<1>2. PICK y \in Objects : y = FindSlot(x, n) /\ s = Get(attributes[y], n)
  BY DEF Slot
<1>3. HasSlot(n) \subseteq Objects
  BY DEF HasSlot
<1>4. y \in HasSlot(n) \cup {None, Never}
  BY <1>1, <1>2, <1>3, SearchFinds
<1>5. Has(attributes[y], n)
  BY <1>4, ObjectsAssumption DEF HasSlot
<1>6. attributes[y] \in Tables
  BY DEF ObjectTypes
<1> QED BY <1>2, <1>5, <1>6, PlaceOf

LEMMA OwnMethodIs ==
    ASSUME ObjectTypes, NEW x \in Objects, NEW n \in Names, Has(methods[x], n)
    PROVE  Get(methods[x], n) \in Links /\ Get(methods[x], n).name = n
<1>1. methods[x] \in Tables
  BY DEF ObjectTypes
<1> QED BY <1>1, PlaceOf

LEMMA OwnSlotIs ==
    ASSUME ObjectTypes, NEW x \in Objects, NEW n \in Names, Has(attributes[x], n)
    PROVE  Get(attributes[x], n) \in Links /\ Get(attributes[x], n).name = n
<1>1. attributes[x] \in Tables
  BY DEF ObjectTypes
<1> QED BY <1>1, PlaceOf

LEMMA EmptyTableIs == EmptyTable \in Tables
<1>1. << >> \in Seq(Links)
  BY EmptySeq
<1> QED BY <1>1 DEF EmptyTable, Tables

\* hashtable_remove takes out the link that is found.
LEMMA RemoveIs ==
    ASSUME NEW t \in Tables, NEW n \in Names, NEW p, p = Remove1(t, n)
    PROVE  /\ p \in Tables /\ p.count = t.count
           /\ \A h \in Chains : h # ChainOf[n] \/ ~Has(t, n) => p.chain[h] = t.chain[h]
           /\ Has(t, n) => \E k \in 1..Len(Chain(t, n)) :
                /\ Len(Chain(p, n)) = Len(Chain(t, n)) - 1
                /\ \A j \in 1..(Len(Chain(t, n)) - 1) :
                     Chain(p, n)[j] = Chain(t, n)[IF j < k THEN j ELSE j + 1]
<1>1. CASE ~Has(t, n)
  BY <1>1 DEF Remove1
<1>2. CASE Has(t, n)
  <2> DEFINE h == ChainOf[n]
             c == Chain(t, n)
             k == Min(PlacesOf(t, n))
             d == RemoveAt(c, k)
             a == SubSeq(c, 1, k - 1)
             b == SubSeq(c, k + 1, Len(c))
  <2>1. h \in Chains /\ c \in Seq(Links) /\ Len(c) \in Nat /\ k \in 1..Len(c)
        /\ \A i \in 1..Len(c) : c[i] \in Links
    BY <1>2, ChainTypes, PlaceOf
  <2>2. t.chain \in [Chains -> Seq(Links)] /\ t.count \in Nat
    BY DEF Tables
  <2>3. p = [t EXCEPT !.chain = [t.chain EXCEPT ![h] = d]]
    BY <1>2 DEF Remove1, Chain
  <2>4. a \in Seq(Links) /\ Len(a) = k - 1 /\ \A j \in 1..(k - 1) : a[j] = c[j]
    <3> HIDE DEF k, c
    <3> QED BY <2>1, SubSeqProperties
  <2>5. b \in Seq(Links) /\ Len(b) = Len(c) - k /\ \A j \in 1..(Len(c) - k) : b[j] = c[k + j]
    <3> HIDE DEF k, c
    <3> QED BY <2>1, SubSeqProperties
  <2>6. d = a \o b
    BY DEF RemoveAt
  <2>7. /\ d \in Seq(Links) /\ Len(d) = Len(c) - 1
        /\ \A j \in 1..(Len(c) - 1) : d[j] = c[IF j < k THEN j ELSE j + 1]
    <3> HIDE DEF k, c, a, b, d
    <3>1. /\ d \in Seq(Links) /\ Len(d) = (k - 1) + (Len(c) - k)
          /\ \A j \in 1..((k - 1) + (Len(c) - k)) :
               d[j] = IF j <= k - 1 THEN a[j] ELSE b[j - (k - 1)]
      <4>1. /\ d \in Seq(Links) /\ Len(d) = Len(a) + Len(b)
            /\ \A j \in 1..(Len(a) + Len(b)) :
                 d[j] = IF j <= Len(a) THEN a[j] ELSE b[j - Len(a)]
        BY <2>4, <2>5, <2>6, ConcatProperties, ZenonT(30)
      <4> QED BY <2>4, <2>5, <4>1
    <3>2. (k - 1) + (Len(c) - k) = Len(c) - 1
      BY <2>1
    <3>3. ASSUME NEW j \in 1..(Len(c) - 1) PROVE d[j] = c[IF j < k THEN j ELSE j + 1]
      <4>1. CASE j < k
        BY <2>1, <2>4, <3>1, <3>2, <4>1, SMTT(30)
      <4>2. CASE ~(j < k)
        <5>1. j - (k - 1) \in 1..(Len(c) - k) /\ k + (j - (k - 1)) = j + 1 /\ ~(j <= k - 1)
          BY <2>1, <4>2
        <5> QED BY <2>5, <3>1, <3>2, <4>2, <5>1
      <4> QED BY <4>1, <4>2
    <3> QED BY <3>1, <3>2, <3>3
  <2> HIDE DEF d, h, k
  <2>8. p.chain = [t.chain EXCEPT ![h] = d] /\ p.count = t.count
    BY <2>3 DEF Tables
  <2>9. p.chain \in [Chains -> Seq(Links)] /\ p.chain[h] = d
    BY <2>1, <2>2, <2>7, <2>8
  <2>10. p \in Tables
    BY <2>2, <2>3, <2>8, <2>9 DEF Tables
  <2>11. \A g \in Chains : g # h => p.chain[g] = t.chain[g]
    BY <2>2, <2>8
  <2>12. Chain(p, n) = d
    BY <2>9 DEF Chain, h
  <2> QED BY <1>2, <2>1, <2>7, <2>8, <2>10, <2>11, <2>12 DEF h
<1> QED BY <1>1, <1>2

-----------------------------------------------------------------------------
(* Types.                                                                  *)

LEMMA Masks ==
    /\ OwnerMask \subseteq Settable /\ PermsMask \subseteq Settable
    /\ PermsMask \cup {Setuid} \subseteq Settable \cup {Setuid}
    /\ \A u \in Users : u \in Objects \cup {Null}
BY ObjectsAssumption DEF OwnerMask, PermsMask, Settable

LEMMA LinkChanged ==
    ASSUME PlaceInv, NEW s \in Links
    PROVE  /\ \A v \in Values : [s EXCEPT !.value = v] \in Links
           /\ \A w \in exists : [s EXCEPT !.owner = w] \in Links
           /\ \A f : [s EXCEPT !.flags = f \cap Settable] \in Links
           /\ \A f : [s EXCEPT !.flags = (@ \ Settable) \cup (f \cap Settable)] \in Links
           /\ \A u \in Users, v \in Values : [s EXCEPT !.owner = u, !.value = v] \in Links
<1>1. exists \subseteq Objects
  BY DEF PlaceInv
<1>2. /\ s.name \in Names /\ s.owner \in Objects \cup {Null} /\ s.value \in Values
      /\ s.flags \subseteq Settable \cup {Setuid}
      /\ s = [name |-> s.name, flags |-> s.flags, owner |-> s.owner, value |-> s.value]
  BY DEF Links
<1>3. ASSUME NEW f PROVE /\ f \cap Settable \subseteq Settable \cup {Setuid}
                         /\ (s.flags \ Settable) \cup (f \cap Settable) \subseteq Settable \cup {Setuid}
  BY <1>2
<1>4. \A v \in Values : [s EXCEPT !.value = v] \in Links
  BY <1>2 DEF Links
<1>5. \A w \in exists : [s EXCEPT !.owner = w] \in Links
  BY <1>1, <1>2 DEF Links
<1>6. \A f : [s EXCEPT !.flags = f \cap Settable] \in Links
  BY <1>2, <1>3 DEF Links
<1>7. \A f : [s EXCEPT !.flags = (@ \ Settable) \cup (f \cap Settable)] \in Links
  BY <1>2, <1>3 DEF Links
<1>8. \A u \in Users, v \in Values : [s EXCEPT !.owner = u, !.value = v] \in Links
  BY <1>2, Masks DEF Links
<1> QED BY <1>4, <1>5, <1>6, <1>7, <1>8

LEMMA LinksMade ==
    ASSUME NEW u \in Users, NEW n \in Names, NEW v \in Values
    PROVE  /\ NewSlot(u, n, v) \in Links
           /\ [name |-> n, flags |-> PermsMask \cup {Setuid}, owner |-> u, value |-> v] \in Links
<1>1. OwnerMask \subseteq Settable \cup {Setuid}
  BY Masks
<1> QED BY <1>1, Masks DEF NewSlot, Links

LEMMA TablePut ==
    ASSUME NEW tables \in [Objects -> Tables], NEW x \in Objects, NEW s \in Links
    PROVE  [tables EXCEPT ![x] = Put(@, s)] \in [Objects -> Tables]
<1>1. tables[x] \in Tables /\ s.name \in Names
  BY DEF Links
<1>2. Put(tables[x], s) \in Tables
  BY <1>1, PutGet
<1> QED BY <1>2

\* What the primitives that write slots leave alone.
LEMMA SlotsOnlyTypes ==
    ASSUME PlaceInv, ObjectTypes, SlotsOnly, lost' = lost, attributes' \in [Objects -> Tables]
    PROVE  ObjectTypes'
BY DEF SlotsOnly, place, access, ObjectTypes

\* A slot of x is written by all of them with a link.
LEMMA SetLinkTypes ==
    ASSUME PlaceInv, ObjectTypes, SlotsOnly, lost' = lost,
           NEW x \in exists, NEW s \in Links, SetLink(x, s)
    PROVE  ObjectTypes'
<1>1. attributes \in [Objects -> Tables] /\ x \in Objects
  BY DEF ObjectTypes, PlaceInv
<1>2. attributes' \in [Objects -> Tables]
  BY <1>1, TablePut DEF SetLink
<1> QED BY <1>2, SlotsOnlyTypes

LEMMA ChangeMethodTypes ==
    ASSUME PlaceInv, ObjectTypes, MethodsOnly, lost' = lost,
           NEW x \in exists, NEW s \in Links, methods' = [methods EXCEPT ![x] = Put(@, s)]
    PROVE  ObjectTypes'
<1>1. methods \in [Objects -> Tables] /\ x \in Objects
  BY DEF ObjectTypes, PlaceInv
<1>2. methods' \in [Objects -> Tables]
  BY <1>1, TablePut
<1> QED BY <1>2 DEF MethodsOnly, place, access, ObjectTypes

LEMMA InitTypes == Init => ObjectTypes
<1> SUFFICES ASSUME Init PROVE ObjectTypes
  OBVIOUS
<1>1. OwnerMask \in SUBSET (Settable \cup {PrivilegedFlag})
  BY Masks
<1> QED BY <1>1, EmptyTableIs DEF Init, ObjectTypes

LEMMA CloneTypes ==
    ASSUME PlaceInv, ObjectTypes, NEW u \in Users, NEW p \in ParentChoices, Clone(u, p)
    PROVE  ObjectTypes'
<1>1. PICK o \in Objects \ exists :
         /\ exists' = exists \cup {o} /\ parents' = [parents EXCEPT ![o] = p]
         /\ owner' = [owner EXCEPT ![o] = u]
         /\ group' = [group EXCEPT ![o] = IF u = Null THEN {} ELSE group[u]]
  BY DEF Clone
<1>2. UNCHANGED <<flags, attributes, methods, lost>> /\ u \in exists \cup {Null}
  BY DEF Clone, Prim
<1>3. /\ owner \in [Objects -> exists \cup {Null}] /\ group \in [Objects -> SUBSET Objects]
      /\ parents \in [Objects -> exists \cup {Null} \cup BoundedSeq(exists, MaxParents)]
      /\ exists \subseteq Objects
  BY DEF ObjectTypes, PlaceInv
<1>4. BoundedSeq(exists, MaxParents) \subseteq BoundedSeq(exists', MaxParents)
  <2>1. \A m \in 0..MaxParents : [1..m -> exists] \subseteq [1..m -> exists']
    BY <1>1
  <2> QED BY <2>1 DEF BoundedSeq, SeqOf
<1>5. parents' \in [Objects -> exists' \cup {Null} \cup BoundedSeq(exists', MaxParents)]
  <2>1. p \in exists' \cup {Null} \cup BoundedSeq(exists', MaxParents)
    BY <1>1, <1>4 DEF ParentChoices
  <2>2. exists \cup {Null} \cup BoundedSeq(exists, MaxParents)
          \subseteq exists' \cup {Null} \cup BoundedSeq(exists', MaxParents)
    BY <1>1, <1>4
  <2>3. parents \in [Objects -> exists' \cup {Null} \cup BoundedSeq(exists', MaxParents)]
    BY <1>3, <2>2
  <2> QED BY <1>1, <2>1, <2>3
<1>6. owner' \in [Objects -> exists' \cup {Null}]
  BY <1>1, <1>2, <1>3
<1>7. group' \in [Objects -> SUBSET Objects]
  BY <1>1, <1>2, <1>3
<1> QED BY <1>2, <1>5, <1>6, <1>7 DEF ObjectTypes

LEMMA ObjectChangeTypes ==
    ASSUME PlaceInv, ObjectTypes, NEW u \in Users, NEW x \in exists,
           \/ \E p \in ParentChoices : SetParents(u, x, p)
           \/ \E w \in exists : SetOwner(u, x, w)
           \/ \E w \in exists \cup {Null} : MoveTo(u, x, w)
           \/ \E g \in Groups : SetGroup(u, x, g)
           \/ \E on \in BOOLEAN : SetPrivileged(u, x, on)
           \/ \E f \in FlagChoices : SetObjectFlags(u, x, f)
    PROVE  ObjectTypes'
<1>0. x \in Objects
  BY DEF PlaceInv
<1>1. ASSUME NEW p \in ParentChoices, SetParents(u, x, p) PROVE ObjectTypes'
  <2>1. p \in exists \cup {Null} \cup BoundedSeq(exists, MaxParents)
    BY DEF ParentChoices
  <2>2. parents' \in [Objects -> exists \cup {Null} \cup BoundedSeq(exists, MaxParents)]
    BY <1>0, <1>1, <2>1 DEF SetParents, ObjectTypes
  <2> QED BY <1>1, <2>2 DEF SetParents, place, access, Prim, ObjectTypes
<1>2. ASSUME NEW w \in exists, SetOwner(u, x, w) PROVE ObjectTypes'
  BY <1>0, <1>2 DEF SetOwner, access, Prim, ObjectTypes
<1>3. ASSUME NEW w \in exists \cup {Null}, MoveTo(u, x, w) PROVE ObjectTypes'
  BY <1>3 DEF MoveTo, access, Prim, ObjectTypes
<1>4. ASSUME NEW g \in Groups, SetGroup(u, x, g) PROVE ObjectTypes'
  <2>1. group' \in [Objects -> SUBSET Objects]
    BY <1>0, <1>4, ObjectsAssumption DEF SetGroup, ObjectTypes
  <2> QED BY <1>4, <2>1 DEF SetGroup, place, Prim, ObjectTypes
<1>5. ASSUME NEW on \in BOOLEAN, SetPrivileged(u, x, on) PROVE ObjectTypes'
  <2>1. flags' \in [Objects -> SUBSET (Settable \cup {PrivilegedFlag})]
    BY <1>0, <1>5 DEF SetPrivileged, ObjectTypes
  <2> QED BY <1>5, <2>1 DEF SetPrivileged, place, Prim, ObjectTypes
<1>6. ASSUME NEW f \in FlagChoices, SetObjectFlags(u, x, f) PROVE ObjectTypes'
  <2>1. flags' \in [Objects -> SUBSET (Settable \cup {PrivilegedFlag})]
    BY <1>0, <1>6 DEF SetObjectFlags, ObjectTypes
  <2> QED BY <1>6, <2>1 DEF SetObjectFlags, place, Prim, ObjectTypes
<1> QED BY <1>1, <1>2, <1>3, <1>4, <1>5, <1>6

LEMMA StripTypes ==
    ASSUME PlaceInv, ObjectTypes, NEW u \in Users, NEW x \in exists, NEW what, Strip(u, x, what)
    PROVE  ObjectTypes'
<1>0. x \in Objects /\ OwnerMask \in SUBSET (Settable \cup {PrivilegedFlag})
  BY Masks DEF PlaceInv
<1>1. flags' \in [Objects -> SUBSET (Settable \cup {PrivilegedFlag})]
  BY <1>0 DEF Strip, ObjectTypes
<1>2. attributes' \in [Objects -> Tables] /\ methods' \in [Objects -> Tables]
  BY <1>0, EmptyTableIs DEF Strip, ObjectTypes
<1> QED BY <1>1, <1>2 DEF Strip, place, Prim, ObjectTypes

\* All primitives that write a slot, and all that change a method, put a link into a table.
LEMMA SlotWritten ==
    ASSUME PlaceInv, ObjectTypes, NEW u \in Users, NEW x \in exists, NEW n \in Names,
           \/ \E v \in Values : SlotSet(u, x, n, v) \/ AddSlot(u, x, n, v)
           \/ \E w \in exists : SetSlotOwner(u, x, n, w)
           \/ \E f \in FlagChoices : SetSlotFlags(u, x, n, f)
    PROVE  SlotsOnly /\ lost' = lost /\ \E s \in Links : SetLink(x, s)
<1>0. x \in Objects
  BY DEF PlaceInv
<1>1. SlotsOnly /\ lost' = lost
  BY DEF SlotSet, AddSlot, SetSlotOwner, SetSlotFlags, Prim
<1>2. ASSUME NEW v \in Values, SlotSet(u, x, n, v) PROVE \E s \in Links : SetLink(x, s)
  <2>1. PICK s \in Slot(x, n) : SetLink(x, [s EXCEPT !.value = v])
    BY <1>2 DEF SlotSet
  <2> QED BY <1>0, <2>1, SlotIs, LinkChanged
<1>3. ASSUME NEW v \in Values, AddSlot(u, x, n, v) PROVE \E s \in Links : SetLink(x, s)
  <2>1. CASE Has(attributes[x], n)
    <3>1. [Get(attributes[x], n) EXCEPT !.owner = u, !.value = v] \in Links
      BY <1>0, <2>1, OwnSlotIs, LinkChanged
    <3> QED BY <1>3, <2>1, <3>1 DEF AddSlot
  <2>2. CASE ~Has(attributes[x], n)
    BY <1>3, <2>2, LinksMade DEF AddSlot
  <2> QED BY <2>1, <2>2
<1>4. ASSUME NEW w \in exists, SetSlotOwner(u, x, n, w) PROVE \E s \in Links : SetLink(x, s)
  <2>1. PICK s \in Slot(x, n) : SetLink(x, [s EXCEPT !.owner = w])
    BY <1>4 DEF SetSlotOwner
  <2> QED BY <1>0, <2>1, SlotIs, LinkChanged
<1>5. ASSUME NEW f \in FlagChoices, SetSlotFlags(u, x, n, f) PROVE \E s \in Links : SetLink(x, s)
  <2>1. PICK s \in Slot(x, n) : SetLink(x, [s EXCEPT !.flags = f \cap Settable])
    BY <1>5 DEF SetSlotFlags
  <2> QED BY <1>0, <2>1, SlotIs, LinkChanged
<1> QED BY <1>1, <1>2, <1>3, <1>4, <1>5

LEMMA MethodWritten ==
    ASSUME PlaceInv, ObjectTypes, NEW u \in Users, NEW x \in exists, NEW n \in Names,
           \/ \E v \in Values : AddMethod(u, x, n, v)
           \/ \E w \in exists : SetMethodOwner(u, x, n, w)
           \/ \E f \in FlagChoices : SetMethodFlags(u, x, n, f)
    PROVE  /\ MethodsOnly /\ lost' = lost
           /\ \E s \in Links : methods' = [methods EXCEPT ![x] = Put(@, s)]
<1>0. x \in Objects
  BY DEF PlaceInv
<1>1. MethodsOnly /\ lost' = lost
  BY DEF AddMethod, SetMethodOwner, SetMethodFlags, ChangeMethod, Prim
<1>2. ASSUME NEW v \in Values, AddMethod(u, x, n, v)
      PROVE  \E s \in Links : methods' = [methods EXCEPT ![x] = Put(@, s)]
  BY <1>2, LinksMade DEF AddMethod
<1>3. ASSUME NEW w \in exists, SetMethodOwner(u, x, n, w)
      PROVE  \E s \in Links : methods' = [methods EXCEPT ![x] = Put(@, s)]
  <2>1. [Get(methods[x], n) EXCEPT !.owner = w] \in Links
    BY <1>0, <1>3, OwnMethodIs, LinkChanged DEF SetMethodOwner
  <2> QED BY <1>3, <2>1 DEF SetMethodOwner, ChangeMethod
<1>4. ASSUME NEW f \in FlagChoices, SetMethodFlags(u, x, n, f)
      PROVE  \E s \in Links : methods' = [methods EXCEPT ![x] = Put(@, s)]
  <2>1. [Get(methods[x], n) EXCEPT !.flags = (@ \ Settable) \cup (f \cap Settable)] \in Links
    BY <1>0, <1>4, OwnMethodIs, LinkChanged DEF SetMethodFlags
  <2> QED BY <1>4, <2>1 DEF SetMethodFlags, ChangeMethod
<1> QED BY <1>1, <1>2, <1>3, <1>4

LEMMA ClearSlotTypes ==
    ASSUME PlaceInv, ObjectTypes, NEW u \in Users, NEW x \in exists, NEW n \in Names,
           ClearSlot(u, x, n)
    PROVE  ObjectTypes'
<1>0. x \in Objects
  BY DEF PlaceInv
<1>1. attributes[x] \in Tables
  BY <1>0 DEF ObjectTypes
<1>2. Remove1(attributes[x], n) \in Tables
  BY <1>1, RemoveIs
<1>3. attributes' \in [Objects -> Tables]
  BY <1>0, <1>2 DEF ClearSlot, ObjectTypes
<1> QED BY <1>3, SlotsOnlyTypes DEF ClearSlot, Prim

\* Every step keeps the types.
LEMMA NextTypes == PlaceInv /\ ObjectTypes /\ [Next]_ovars => ObjectTypes'
<1> SUFFICES ASSUME PlaceInv, ObjectTypes, [Next]_ovars PROVE ObjectTypes'
  OBVIOUS
<1>1. CASE SearchForEver
  BY <1>1 DEF SearchForEver, place, access, ObjectTypes
<1>2. ASSUME NEW u \in Users, NEW p \in ParentChoices, Clone(u, p) PROVE ObjectTypes'
  BY <1>2, CloneTypes
<1>3. ASSUME NEW u \in Users, NEW x \in exists,
             \/ \E p \in ParentChoices : SetParents(u, x, p)
             \/ \E w \in exists : SetOwner(u, x, w) \/ MoveTo(u, x, w)
             \/ MoveTo(u, x, Null)
             \/ \E g \in Groups : SetGroup(u, x, g)
             \/ \E on \in BOOLEAN : SetPrivileged(u, x, on)
             \/ \E f \in FlagChoices : SetObjectFlags(u, x, f)
      PROVE  ObjectTypes'
  BY <1>3, ObjectChangeTypes
<1>4. ASSUME NEW u \in Users, NEW x \in exists,
             \E what \in {"clean", "slots", "methods"} : Strip(u, x, what)
      PROVE  ObjectTypes'
  BY <1>4, StripTypes
<1>5. ASSUME NEW u \in Users, NEW x \in exists, NEW n \in Names,
             \/ ClearSlot(u, x, n)
             \/ \E v \in Values : SlotSet(u, x, n, v) \/ AddSlot(u, x, n, v)
             \/ \E w \in exists : SetSlotOwner(u, x, n, w)
             \/ \E f \in FlagChoices : SetSlotFlags(u, x, n, f)
      PROVE  ObjectTypes'
  BY <1>5, ClearSlotTypes, SlotWritten, SetLinkTypes
<1>6. ASSUME NEW u \in Users, NEW x \in exists, NEW n \in Names,
             \/ \E v \in Values : AddMethod(u, x, n, v)
             \/ \E w \in exists : SetMethodOwner(u, x, n, w)
             \/ \E f \in FlagChoices : SetMethodFlags(u, x, n, f)
      PROVE  ObjectTypes'
  BY <1>6, MethodWritten, ChangeMethodTypes
<1>7. CASE UNCHANGED ovars
  BY <1>7 DEF ovars, place, access, ObjectTypes
<1> QED BY <1>1, <1>2, <1>3, <1>4, <1>5, <1>6, <1>7 DEF Next

-----------------------------------------------------------------------------
(* Writing slots.                                                          *)

\* What is found depends on nothing but which objects have it.
LEMMA SearchSame ==
    ASSUME PlaceInv, ObjectTypes, NEW T, NEW atEnd, NEW f, NEW g,
           IsSearch(f, T, atEnd), IsSearch(g, T, atEnd)
    PROVE  \A o \in Objects : f[Deepest][o] = g[Deepest][o]
<1> DEFINE U == {d \in Nat : d <= Deepest => f[d] = g[d]}
<1>0. Deepest \in Nat
  BY SearchExists
<1>1. ASSUME NEW d \in 0..Deepest, d # 0 => f[d - 1] = g[d - 1] PROVE f[d] = g[d]
  <2>1. f[d] = Searched(f, d, T, atEnd) /\ g[d] = Searched(g, d, T, atEnd)
    BY DEF IsSearch
  <2>2. Searched(f, d, T, atEnd) = Searched(g, d, T, atEnd)
    BY <1>1 DEF Searched
  <2> QED BY <2>1, <2>2
<1>2. 0 \in U
  BY <1>0, <1>1
<1>3. ASSUME NEW d \in Nat, d \in U PROVE d + 1 \in U
  <2>1. d + 1 <= Deepest => f[d] = g[d]
    BY <1>0, <1>3
  <2>2. d + 1 <= Deepest => d + 1 \in 0..Deepest /\ (d + 1) - 1 = d
    BY <1>0
  <2> QED BY <1>1, <2>1, <2>2
<1>4. Deepest \in U
  <2> HIDE DEF U
  <2> QED BY <1>0, <1>2, <1>3, InductionOnNat
<1> QED BY <1>0, <1>4

\* A write of the slot n of x.
LEMMA WriteBelow ==
    ASSUME PlaceInv, ObjectTypes, UNCHANGED parents, NEW x \in exists, NEW n \in Names,
           NEW s \in Links, s.name = n, SetLink(x, s)
    PROVE  OnlyBelow(x, n) /\ Slot(x, n)' = {s}
<1>0. x \in Objects /\ exists \subseteq Objects /\ attributes \in [Objects -> Tables]
  BY DEF PlaceInv, ObjectTypes
<1>1. /\ attributes'[x] = Put(attributes[x], s)
      /\ \A z \in Objects \ {x} : attributes'[z] = attributes[z]
      /\ \A z \in Objects : attributes[z] \in Tables
  BY <1>0 DEF SetLink
<1>2. ASSUME NEW m \in Names
      PROVE  /\ Has(attributes'[x], m) <=> (m = n \/ Has(attributes[x], m))
             /\ m = n => Get(attributes'[x], m) = s
             /\ m # n /\ Has(attributes[x], m) => Get(attributes'[x], m) = Get(attributes[x], m)
  BY <1>0, <1>1, PutGet
<1>3. ASSUME NEW m \in Names
      PROVE  HasSlotNext(m) = IF m = n THEN HasSlot(m) \cup {x} ELSE HasSlot(m)
  <2>1. \A z \in Objects :
           Has(attributes'[z], m) <=> (Has(attributes[z], m) \/ (m = n /\ z = x))
    BY <1>1, <1>2
  <2> QED BY <1>0, <2>1 DEF HasSlot, HasSlotNext
<1>4. ASSUME NEW m \in Names, NEW y \in Objects
      PROVE  Slot(y, m)' = {Get(attributes'[z], m) : z \in {FindSlot(y, m)'} \cap Objects}
  BY DEF Slot
<1>5. ASSUME NEW m \in Names, NEW y \in exists, m # n PROVE Slot(y, m)' = Slot(y, m)
  <2>1. PICK f : /\ IsSearch(f, HasSlot(m), None)
                 /\ \A o \in Objects : FindSlot(o, m) = f[Deepest][o]
    BY FindSlotIs
  <2>2. PICK g : /\ IsSearch(g, HasSlotNext(m), None)
                 /\ \A o \in Objects : FindSlot(o, m)' = g[Deepest][o]
    BY FindSlotNext
  <2>3. HasSlotNext(m) = HasSlot(m) /\ HasSlot(m) \subseteq Objects
    BY <1>3, <1>5 DEF HasSlot
  <2>4. FindSlot(y, m)' = FindSlot(y, m)
    BY <1>0, <2>1, <2>2, <2>3, SearchSame
  <2>5. FindSlot(y, m) \in HasSlot(m) \cup {None, Never}
    BY <1>0, <2>1, <2>3, SearchFinds
  <2>6. \A z \in {FindSlot(y, m)} \cap Objects : Get(attributes'[z], m) = Get(attributes[z], m)
    <3>1. ASSUME NEW z \in Objects, z = FindSlot(y, m)
          PROVE  Get(attributes'[z], m) = Get(attributes[z], m)
      <4>1. Has(attributes[z], m)
        BY <2>5, <3>1, ObjectsAssumption DEF HasSlot
      <4> QED BY <1>1, <1>2, <1>5, <4>1
    <3> QED BY <3>1
  <2> QED BY <1>0, <1>4, <2>4, <2>6 DEF Slot
<1>6. ASSUME NEW y \in exists PROVE Slot(y, n)' # Slot(y, n) => FindAncestor(y, x) = x
  <2>1. PICK f : /\ IsSearch(f, HasSlot(n), None)
                 /\ \A o \in Objects : FindSlot(o, n) = f[Deepest][o]
    BY FindSlotIs
  <2>2. PICK g : /\ IsSearch(g, HasSlotNext(n), None)
                 /\ \A o \in Objects : FindSlot(o, n)' = g[Deepest][o]
    BY FindSlotNext
  <2>3. PICK a : /\ IsSearch(a, {x}, None)
                 /\ \A o \in Objects : FindAncestor(o, x) = a[Deepest][o]
    BY <1>0, FindAncestorIs
  <2>4. HasSlotNext(n) = HasSlot(n) \cup {x}
    BY <1>3
  <2>5. /\ FindSlot(y, n)' = x => FindAncestor(y, x) = x
        /\ FindSlot(y, n)' # x => FindSlot(y, n)' = FindSlot(y, n)
    <3>1. IsSearch(g, HasSlot(n) \cup {x}, None)
      BY <2>2, <2>4
    <3>2. \A o \in Objects : /\ g[Deepest][o] = x => a[Deepest][o] = x
                             /\ g[Deepest][o] # x => f[Deepest][o] = g[Deepest][o]
      BY <1>0, <2>1, <2>3, <3>1, SearchBelow
    <3> QED BY <1>0, <2>1, <2>2, <2>3, <3>2
  <2>6. ASSUME FindSlot(y, n)' # x PROVE Slot(y, n)' = Slot(y, n)
    <3>1. \A z \in {FindSlot(y, n)} \cap Objects : Get(attributes'[z], n) = Get(attributes[z], n)
      BY <1>1, <2>5, <2>6
    <3> QED BY <1>0, <1>4, <2>5, <2>6, <3>1 DEF Slot
  <2> QED BY <2>5, <2>6
<1>7. Slot(x, n)' = {s}
  <2>1. PICK g : /\ IsSearch(g, HasSlotNext(n), None)
                 /\ \A o \in Objects : FindSlot(o, n)' = g[Deepest][o]
    BY FindSlotNext
  <2>2. x \in HasSlotNext(n)
    BY <1>3
  <2>3. Deepest \in 0..Deepest
    BY SearchExists
  <2>4. FindSlot(x, n)' = x
    BY <1>0, <2>1, <2>2, <2>3, SearchStep
  <2>5. Get(attributes'[x], n) = s
    BY <1>2
  <2> QED BY <1>0, <1>4, <2>4, <2>5
<1> QED BY <1>5, <1>6, <1>7 DEF OnlyBelow

\* What SlotWrites says of one step.
LEMMA SlotWritesStep ==
    ASSUME PlaceInv, ObjectTypes, NEW u \in Users, NEW x \in exists, NEW n \in Names, NEW v \in Values
    PROVE  /\ SlotSet(u, x, n, v) =>
                OnlyBelow(x, n) /\ Slot(x, n)' = {[s EXCEPT !.value = v] : s \in Slot(x, n)}
           /\ AddSlot(u, x, n, v) =>
                OnlyBelow(x, n) /\ Slot(x, n)' # {} /\ \A s \in Slot(x, n)' : s.value = v
<1>0. x \in Objects
  BY DEF PlaceInv
<1>1. ASSUME SlotSet(u, x, n, v)
      PROVE  OnlyBelow(x, n) /\ Slot(x, n)' = {[s EXCEPT !.value = v] : s \in Slot(x, n)}
  <2>1. PICK s \in Slot(x, n) : SetLink(x, [s EXCEPT !.value = v])
    BY <1>1 DEF SlotSet
  <2>2. s \in Links /\ s.name = n
    BY <1>0, <2>1, SlotIs
  <2>3. [s EXCEPT !.value = v] \in Links /\ [s EXCEPT !.value = v].name = n
    BY <2>2, LinkChanged DEF Links
  <2>4. OnlyBelow(x, n) /\ Slot(x, n)' = {[s EXCEPT !.value = v]}
    BY <1>1, <2>1, <2>3, WriteBelow DEF SlotSet, SlotsOnly
  <2>5. Slot(x, n) = {s}
    BY <2>1 DEF Slot
  <2>6. {[r EXCEPT !.value = v] : r \in {s}} = {[s EXCEPT !.value = v]}
    OBVIOUS
  <2> QED BY <2>4, <2>5, <2>6
<1>2. ASSUME AddSlot(u, x, n, v)
      PROVE  OnlyBelow(x, n) /\ Slot(x, n)' # {} /\ \A s \in Slot(x, n)' : s.value = v
  <2>1. \E s \in Links : SetLink(x, s) /\ s.name = n /\ s.value = v
    <3>1. CASE Has(attributes[x], n)
      <4>1. Get(attributes[x], n) \in Links /\ Get(attributes[x], n).name = n
        BY <1>0, <3>1, OwnSlotIs
      <4>2. PICK s : s = [Get(attributes[x], n) EXCEPT !.owner = u, !.value = v]
        OBVIOUS
      <4>3. s \in Links /\ s.name = n /\ s.value = v
        BY <4>1, <4>2, LinkChanged DEF Links
      <4> QED BY <1>2, <3>1, <4>2, <4>3 DEF AddSlot
    <3>2. CASE ~Has(attributes[x], n)
      <4>1. NewSlot(u, n, v).name = n /\ NewSlot(u, n, v).value = v
        BY DEF NewSlot
      <4> QED BY <1>2, <3>2, <4>1, LinksMade DEF AddSlot
    <3> QED BY <3>1, <3>2
  <2>2. PICK s \in Links : SetLink(x, s) /\ s.name = n /\ s.value = v
    BY <2>1
  <2>3. OnlyBelow(x, n) /\ Slot(x, n)' = {s}
    BY <1>2, <2>2, WriteBelow DEF AddSlot, SlotsOnly
  <2> QED BY <2>2, <2>3
<1> QED BY <1>1, <1>2

-----------------------------------------------------------------------------
(* Sequences of sequences, and the keys of a table.                        *)

\* f holds what there is after each of the sequences.
IsFlatten(f, seqs) == f = [i \in 1..Len(seqs) |-> IF i = 1 THEN seqs[i] ELSE f[i - 1] \o seqs[i]]

LEMMA FlattenIs ==
    ASSUME NEW S, NEW seqs \in Seq(Seq(S)), Len(seqs) > 0
    PROVE  \E f : /\ IsFlatten(f, seqs) /\ FlattenSeq(seqs) = f[Len(seqs)]
                  /\ \A i \in 1..Len(seqs) : f[i] \in Seq(S)
<1> DEFINE Body(f, i) == IF i = 1 THEN seqs[i] ELSE f[i - 1] \o seqs[i]
           U == {n \in Nat : \E f : f = [i \in 1..n |-> Body(f, i)]}
<1>0. Len(seqs) \in Nat /\ \A i \in 1..Len(seqs) : seqs[i] \in Seq(S)
  <2>1. \A i \in 1..Len(seqs) : seqs[i] \in Seq(S)
    BY ElementOfSeq
  <2> QED BY <2>1
<1>1. 0 \in U
  <2>1. << >> = [i \in 1..0 |-> Body(<< >>, i)]
    OBVIOUS
  <2> QED BY <2>1
<1>2. ASSUME NEW n \in Nat, n \in U PROVE n + 1 \in U
  <2>1. PICK f : f = [i \in 1..n |-> Body(f, i)]
    BY <1>2
  <2> DEFINE g == [i \in 1..(n + 1) |-> IF i = n + 1 THEN Body(f, n + 1) ELSE f[i]]
  <2>2. ASSUME NEW i \in 1..(n + 1) PROVE g[i] = Body(g, i)
    <3>1. i # 1 => g[i - 1] = f[i - 1]
      OBVIOUS
    <3>2. Body(g, i) = Body(f, i)
      <4> HIDE DEF g
      <4> QED BY <3>1
    <3>3. CASE i = n + 1
      BY <3>2, <3>3
    <3>4. CASE i # n + 1
      <4>1. i \in 1..n /\ g[i] = f[i]
        BY <3>4
      <4>2. f[i] = Body(f, i)
        BY <2>1, <4>1
      <4> QED BY <3>2, <4>1, <4>2
    <3> QED BY <3>3, <3>4
  <2>3. g = [i \in 1..(n + 1) |-> Body(g, i)]
    BY <2>2
  <2> HIDE DEF g
  <2> HIDE DEF Body
  <2>4. \E f1 : f1 = [i \in 1..(n + 1) |-> Body(f1, i)]
    BY <2>3
  <2> QED BY <2>4
<1>3. \E f : f = [i \in 1..Len(seqs) |-> Body(f, i)]
  <2>1. Len(seqs) \in U
    <3> HIDE DEF U
    <3> QED BY <1>0, <1>1, <1>2, InductionOnNat
  <2> QED BY <2>1
<1>4. FlattenSeq(seqs) = (CHOOSE f : f = [i \in 1..Len(seqs) |-> Body(f, i)])[Len(seqs)]
  BY DEF FlattenSeq
<1> DEFINE g == CHOOSE f : f = [i \in 1..Len(seqs) |-> Body(f, i)]
<1>5. g = [i \in 1..Len(seqs) |-> Body(g, i)]
  BY <1>3
<1>6. FlattenSeq(seqs) = g[Len(seqs)]
  BY <1>4
<1> HIDE DEF g
<1> DEFINE V == {n \in Nat : n + 1 <= Len(seqs) => g[n + 1] \in Seq(S)}
<1>7. 0 \in V
  BY <1>0, <1>5
<1>8. ASSUME NEW n \in Nat, n \in V PROVE n + 1 \in V
  <2>1. ASSUME (n + 1) + 1 <= Len(seqs) PROVE g[(n + 1) + 1] \in Seq(S)
    <3>1. n + 2 \in 1..Len(seqs) /\ g[n + 1] \in Seq(S) /\ seqs[n + 2] \in Seq(S)
      BY <1>0, <1>8, <2>1
    <3>2. g[n + 2] = Body(g, n + 2)
      BY <1>5, <3>1
    <3>3. g[n + 2] = g[n + 1] \o seqs[n + 2]
      <4>1. n + 2 # 1 /\ (n + 2) - 1 = n + 1
        OBVIOUS
      <4> QED BY <3>2, <4>1
    <3>4. g[n + 2] \in Seq(S)
      BY <3>1, <3>3, ConcatProperties
    <3> QED BY <3>4
  <2> QED BY <2>1
<1>9. ASSUME NEW i \in 1..Len(seqs) PROVE g[i] \in Seq(S)
  <2>1. i - 1 \in Nat /\ (i - 1) + 1 = i
    BY <1>0
  <2>2. i - 1 \in V
    <3> HIDE DEF V
    <3> QED BY <1>7, <1>8, <2>1, InductionOnNat
  <2> QED BY <1>0, <2>1, <2>2
<1>10. IsFlatten(g, seqs)
  BY <1>5 DEF IsFlatten
<1> QED BY <1>6, <1>9, <1>10

\* The sum of the lengths grows with one of the lengths.
LEMMA FlattenLengths ==
    ASSUME NEW S, NEW s \in Seq(Seq(S)), NEW p \in Seq(Seq(S)), Len(p) = Len(s),
           NEW h \in 1..Len(s), NEW more \in Int, Len(p[h]) = Len(s[h]) + more,
           \A i \in 1..Len(s) : i # h => p[i] = s[i]
    PROVE  Len(FlattenSeq(p)) = Len(FlattenSeq(s)) + more
<1>0. /\ Len(s) \in Nat /\ Len(s) > 0
      /\ \A i \in 1..Len(s) : s[i] \in Seq(S) /\ p[i] \in Seq(S)
  <2>1. \A i \in 1..Len(s) : s[i] \in Seq(S)
    BY ElementOfSeq
  <2>2. \A i \in 1..Len(s) : p[i] \in Seq(S)
    BY ElementOfSeq
  <2> QED BY <2>1, <2>2
<1>1. PICK f : /\ IsFlatten(f, s) /\ FlattenSeq(s) = f[Len(s)]
               /\ \A i \in 1..Len(s) : f[i] \in Seq(S)
  BY <1>0, FlattenIs
<1>2. PICK g : /\ IsFlatten(g, p) /\ FlattenSeq(p) = g[Len(s)]
               /\ \A i \in 1..Len(s) : g[i] \in Seq(S)
  BY <1>0, FlattenIs, SMTT(30)
<1> DEFINE Right(i) == Len(g[i]) = Len(f[i]) + (IF i >= h THEN more ELSE 0)
           U == {n \in Nat : n + 1 <= Len(s) => Right(n + 1)}
<1>3. 0 \in U
  <2>1. 1 \in 1..Len(s)
    BY <1>0
  <2>2. f[1] = s[1] /\ g[1] = p[1]
    BY <1>1, <1>2, <2>1 DEF IsFlatten
  <2>3. Len(s[1]) \in Nat
    BY <1>0, <2>1
  <2>4. CASE h = 1
    BY <2>2, <2>3, <2>4
  <2>5. CASE h # 1
    <3>1. p[1] = s[1] /\ ~(1 >= h)
      BY <1>0, <2>1, <2>5
    <3> QED BY <2>2, <2>3, <3>1
  <2> QED BY <2>4, <2>5
<1>4. ASSUME NEW n \in Nat, n \in U PROVE n + 1 \in U
  <2>1. ASSUME n + 2 <= Len(s) PROVE Right(n + 2)
    <3> DEFINE i == n + 2
               j == n + 1
    <3>0. Right(j)
      <4>1. n + 1 <= Len(s)
        BY <1>0, <2>1
      <4> HIDE DEF Right
      <4> QED BY <1>4, <4>1
    <3>1. /\ i \in 1..Len(s) /\ i # 1 /\ i - 1 = j /\ j \in 1..Len(s)
          /\ (i >= h <=> (j >= h \/ i = h)) /\ ~(j >= h /\ i = h)
      BY <1>0, <2>1, SMTT(30)
    <3> HIDE DEF i, j
    <3>2. f[i] = f[j] \o s[i] /\ g[i] = g[j] \o p[i]
      BY <1>1, <1>2, <3>1 DEF IsFlatten
    <3>3. /\ f[j] \in Seq(S) /\ g[j] \in Seq(S) /\ s[i] \in Seq(S) /\ p[i] \in Seq(S)
          /\ Len(f[j]) \in Nat /\ Len(g[j]) \in Nat /\ Len(s[i]) \in Nat /\ Len(p[i]) \in Nat
      <4>1. f[j] \in Seq(S) /\ g[j] \in Seq(S) /\ s[i] \in Seq(S) /\ p[i] \in Seq(S)
        BY <1>0, <1>1, <1>2, <3>1
      <4> QED BY <4>1, LenProperties
    <3>4. Len(f[i]) = Len(f[j]) + Len(s[i]) /\ Len(g[i]) = Len(g[j]) + Len(p[i])
      BY <3>2, <3>3, ConcatProperties
    <3>5. Len(p[i]) = Len(s[i]) + (IF i = h THEN more ELSE 0)
      <4>1. CASE i = h
        BY <4>1
      <4>2. CASE i # h
        <5>1. p[i] = s[i]
          BY <3>1, <4>2
        <5> QED BY <3>3, <4>2, <5>1
      <4> QED BY <4>1, <4>2
    <3>6. Right(i)
      <4>0. Len(g[j]) = Len(f[j]) + (IF j >= h THEN more ELSE 0)
        BY <3>0
      <4>1. Len(f[j]) \in Int /\ Len(g[j]) \in Int /\ Len(s[i]) \in Int /\ Len(p[i]) \in Int
        BY <3>3
      <4>2. \A a, b \in Int : (a + more) + b = (a + b) + more /\ a + (b + more) = (a + b) + more
        OBVIOUS
      <4>3. CASE j >= h
        <5>1. Len(g[j]) = Len(f[j]) + more /\ Len(p[i]) = Len(s[i])
          BY <3>1, <3>5, <4>0, <4>1, <4>3
        <5>2. Len(g[i]) = Len(f[i]) + more
          BY <3>4, <4>1, <4>2, <5>1, ZenonT(60)
        <5> QED BY <3>1, <4>3, <5>2
      <4>4. CASE i = h
        <5>1. Len(g[j]) = Len(f[j]) /\ Len(p[i]) = Len(s[i]) + more
          BY <3>1, <3>5, <4>0, <4>1, <4>4
        <5>2. Len(g[i]) = Len(f[i]) + more
          BY <3>4, <4>1, <4>2, <5>1, ZenonT(60)
        <5> QED BY <3>1, <4>4, <5>2
      <4>5. CASE ~(j >= h) /\ i # h
        <5>1. Len(g[j]) = Len(f[j]) /\ Len(p[i]) = Len(s[i])
          BY <3>1, <3>5, <4>0, <4>1, <4>5
        <5>2. Len(g[i]) = Len(f[i]) /\ Len(f[i]) \in Int
          BY <3>4, <4>1, <5>1
        <5>3. (IF i >= h THEN more ELSE 0) = 0
          BY <3>1, <4>5
        <5>4. Len(f[i]) + 0 = Len(f[i])
          BY <5>2
        <5> QED BY <5>2, <5>3, <5>4
      <4> QED BY <4>3, <4>4, <4>5
    <3> QED BY <3>6 DEF i
  <2> HIDE DEF Right
  <2> QED BY <2>1
<1>5. Right(Len(s))
  <2>1. Len(s) - 1 \in Nat /\ (Len(s) - 1) + 1 = Len(s)
    BY <1>0
  <2> HIDE DEF Right
  <2>2. Len(s) - 1 \in U
    <3> HIDE DEF U
    <3> QED BY <1>3, <1>4, <2>1, InductionOnNat
  <2> QED BY <1>0, <2>1, <2>2
<1> QED BY <1>0, <1>1, <1>2, <1>5

LEMMA KeysAre ==
    ASSUME NEW t \in Tables
    PROVE  /\ t.chain \in Seq(Seq(Links)) /\ Len(t.chain) = NumChains /\ NumChains \in Nat \ {0}
           /\ Len(Keys(t)) = Len(FlattenSeq(t.chain)) /\ Len(Keys(t)) \in Nat
<1>1. t.chain \in [1..NumChains -> Seq(Links)] /\ NumChains \in Nat \ {0}
  BY HashAssumption DEF Tables, Chains
<1>2. t.chain \in Seq(Seq(Links)) /\ Len(t.chain) = NumChains
  BY <1>1
<1>3. [h \in Chains |-> t.chain[h]] = t.chain
  BY <1>1 DEF Chains
<1>4. FlattenSeq(t.chain) \in Seq(Links)
  <2>1. PICK f : /\ FlattenSeq(t.chain) = f[Len(t.chain)]
                 /\ \A i \in 1..Len(t.chain) : f[i] \in Seq(Links)
    <3>1. Len(t.chain) > 0
      BY <1>1, <1>2
    <3> QED BY <1>2, <3>1, FlattenIs
  <2> QED BY <1>1, <1>2, <2>1
<1> DEFINE all == FlattenSeq(t.chain)
<1>5. Keys(t) = [i \in DOMAIN all |-> all[i].name]
  BY <1>3 DEF Keys
<1> HIDE DEF all
<1>6. DOMAIN all = 1..Len(all) /\ Len(all) \in Nat
  BY <1>4 DEF all
<1>7. Len(Keys(t)) = Len(all)
  BY <1>5, <1>6
<1> QED BY <1>1, <1>2, <1>6, <1>7 DEF all

\* Each name is in its own chain, once.
ChainOK(c, h) == /\ \A i \in 1..Len(c) : ChainOf[c[i].name] = h
                 /\ \A i, j \in 1..Len(c) : c[i].name = c[j].name => i = j

LEMMA WellFormedIs ==
    ASSUME NEW t \in Tables
    PROVE  WellFormed(t) <=> (\A h \in Chains : ChainOK(t.chain[h], h)) /\ Len(Keys(t)) <= t.count
<1>1. \A h \in Chains : DOMAIN t.chain[h] = 1..Len(t.chain[h])
  BY DEF Tables
<1> QED BY <1>1 DEF WellFormed, ChainOK

\* How many keys there are after the chain of a name has changed.
LEMMA KeysChange ==
    ASSUME NEW t \in Tables, NEW p \in Tables, NEW n \in Names, NEW more \in Int,
           Len(Chain(p, n)) = Len(Chain(t, n)) + more,
           \A h \in Chains : h # ChainOf[n] => p.chain[h] = t.chain[h]
    PROVE  Len(Keys(p)) = Len(Keys(t)) + more
<1>1. /\ t.chain \in Seq(Seq(Links)) /\ p.chain \in Seq(Seq(Links))
      /\ Len(t.chain) = NumChains /\ Len(p.chain) = NumChains
      /\ Len(Keys(t)) = Len(FlattenSeq(t.chain)) /\ Len(Keys(p)) = Len(FlattenSeq(p.chain))
  BY KeysAre
<1>2. ChainOf[n] \in 1..NumChains
  BY ChainTypes DEF Chains
<1>3. Len(FlattenSeq(p.chain)) = Len(FlattenSeq(t.chain)) + more
  <2>1. Len(p.chain[ChainOf[n]]) = Len(t.chain[ChainOf[n]]) + more
    BY DEF Chain
  <2>2. \A h \in 1..Len(t.chain) : h # ChainOf[n] => p.chain[h] = t.chain[h]
    BY <1>1 DEF Chains
  <2>3. PICK h : h = ChainOf[n]
    OBVIOUS
  <2>4. /\ h \in 1..Len(t.chain) /\ Len(p.chain[h]) = Len(t.chain[h]) + more
        /\ Len(p.chain) = Len(t.chain) /\ \A i \in 1..Len(t.chain) : i # h => p.chain[i] = t.chain[i]
    BY <1>1, <1>2, <2>1, <2>2, <2>3
  <2>5. PICK s, r : s = t.chain /\ r = p.chain
    OBVIOUS
  <2> QED BY <1>1, <2>4, <2>5, FlattenLengths
<1> QED BY <1>1, <1>3

\* hashtable_put keeps a table in order, and counts what is new.
LEMMA PutWellFormed ==
    ASSUME NEW t \in Tables, NEW l \in Links, WellFormed(t), NEW p, p = Put(t, l)
    PROVE  WellFormed(p)
<1> DEFINE n == l.name
           c == Chain(t, n)
           d == Chain(p, n)
<1>1. n \in Names
  BY DEF Links
<1>2. p \in Tables
  BY <1>1, PutGet
<1>3. /\ \A h \in Chains : ChainOK(t.chain[h], h)
      /\ Len(Keys(t)) <= t.count /\ Len(Keys(t)) \in Nat /\ t.count \in Nat
  BY WellFormedIs, KeysAre DEF Tables
<1>4. /\ ChainOf[n] \in Chains /\ Len(c) \in Nat /\ ChainOK(c, ChainOf[n])
      /\ PlacesOf(t, n) = {i \in 1..Len(c) : c[i].name = n}
  BY <1>1, <1>3, ChainTypes DEF Chain
<1>5. CASE Has(t, n)
  <2> DEFINE i == Min(PlacesOf(t, n))
  <2>1. /\ p.count = t.count /\ i \in 1..Len(c) /\ c[i].name = n /\ Len(d) = Len(c)
        /\ \A j \in 1..Len(c) : d[j] = IF j = i THEN l ELSE c[j]
        /\ \A h \in Chains : h # ChainOf[n] => p.chain[h] = t.chain[h]
    BY <1>5, PutThere
  <2>2. Len(Keys(p)) = Len(Keys(t)) + 0
    <3>1. Len(d) = Len(c) + 0
      BY <1>4, <2>1
    <3>2. 0 \in Int
      OBVIOUS
    <3> HIDE DEF i
    <3> QED BY <1>1, <1>2, <2>1, <3>1, <3>2, KeysChange
  <2> HIDE DEF i, c, d, n
  <2>3. \A j \in 1..Len(c) : d[j].name = c[j].name
    BY <2>1 DEF n
  <2>4. ChainOK(d, ChainOf[n])
    BY <1>4, <2>1, <2>3 DEF ChainOK
  <2>5. \A h \in Chains : ChainOK(p.chain[h], h)
    BY <1>3, <2>1, <2>4 DEF d, Chain
  <2> QED BY <1>2, <1>3, <2>1, <2>2, <2>5, WellFormedIs
<1>6. CASE ~Has(t, n)
  <2>1. /\ p.count = t.count + 1 /\ Len(d) = Len(c) + 1 /\ d[1] = l
        /\ \A j \in 1..Len(c) : d[j + 1] = c[j]
        /\ \A h \in Chains : h # ChainOf[n] => p.chain[h] = t.chain[h]
    BY <1>6, PutNew
  <2>2. Len(Keys(p)) = Len(Keys(t)) + 1
    BY <1>1, <1>2, <2>1, KeysChange
  <2>3. \A j \in 1..Len(c) : c[j].name # n
    BY <1>4, <1>6 DEF Has
  <2> HIDE DEF c, d, n
  <2>4. d[1].name = n
    BY <2>1 DEF n
  <2>5. ASSUME NEW j \in 1..Len(d)
        PROVE  j = 1 \/ (j - 1 \in 1..Len(c) /\ d[j] = c[j - 1])
    <3>1. j # 1 => j - 1 \in 1..Len(c) /\ (j - 1) + 1 = j
      BY <1>4, <2>1
    <3> QED BY <2>1, <3>1
  <2>10. \A j \in 1..Len(c) : ChainOf[c[j].name] = ChainOf[n]
    BY <1>4 DEF ChainOK
  <2>6. ASSUME NEW j \in 1..Len(d) PROVE ChainOf[d[j].name] = ChainOf[n]
    <3>1. CASE j = 1
      BY <2>4, <3>1
    <3>2. CASE j - 1 \in 1..Len(c) /\ d[j] = c[j - 1]
      BY <2>10, <3>2
    <3> QED BY <2>5, <3>1, <3>2
  <2>7. ASSUME NEW j \in 1..Len(d), NEW k \in 1..Len(d), d[j].name = d[k].name PROVE j = k
    <3>1. CASE j = 1 \/ k = 1
      BY <2>3, <2>4, <2>5, <2>7, <3>1
    <3>2. CASE j # 1 /\ k # 1
      <4>1. /\ j - 1 \in 1..Len(c) /\ d[j] = c[j - 1]
            /\ k - 1 \in 1..Len(c) /\ d[k] = c[k - 1]
        BY <2>5, <3>2
      <4>2. c[j - 1].name = c[k - 1].name
        BY <2>7, <4>1
      <4>3. j - 1 = k - 1
        BY <1>4, <4>1, <4>2 DEF ChainOK
      <4> QED BY <4>3
    <3> QED BY <3>1, <3>2
  <2>8. ChainOK(d, ChainOf[n])
    BY <2>6, <2>7 DEF ChainOK
  <2>9. \A h \in Chains : ChainOK(p.chain[h], h)
    BY <1>3, <2>1, <2>8 DEF d, Chain
  <2> QED BY <1>2, <1>3, <2>1, <2>2, <2>9, WellFormedIs, SMTT(30)
<1> QED BY <1>5, <1>6

\* hashtable_remove keeps it in order; its count is then too high.
LEMMA RemoveWellFormed ==
    ASSUME NEW t \in Tables, NEW n \in Names, WellFormed(t), NEW p, p = Remove1(t, n)
    PROVE  WellFormed(p)
<1>1. CASE ~Has(t, n)
  BY <1>1 DEF Remove1
<1>2. CASE Has(t, n)
  <2> DEFINE c == Chain(t, n)
             d == Chain(p, n)
  <2>1. /\ p \in Tables /\ p.count = t.count
        /\ \A h \in Chains : h # ChainOf[n] => p.chain[h] = t.chain[h]
    BY RemoveIs
  <2>10. \E k \in 1..Len(Chain(t, n)) :
           /\ Len(Chain(p, n)) = Len(Chain(t, n)) - 1
           /\ \A j \in 1..(Len(Chain(t, n)) - 1) :
                Chain(p, n)[j] = Chain(t, n)[IF j < k THEN j ELSE j + 1]
    BY <1>2, RemoveIs, SMTT(30)
  <2>2. PICK k \in 1..Len(c) :
          /\ Len(d) = Len(c) - 1
          /\ \A j \in 1..(Len(c) - 1) : d[j] = c[IF j < k THEN j ELSE j + 1]
    BY <2>10
  <2>3. /\ \A h \in Chains : ChainOK(t.chain[h], h)
        /\ Len(Keys(t)) <= t.count /\ Len(Keys(t)) \in Nat /\ t.count \in Nat
    BY WellFormedIs, KeysAre DEF Tables
  <2>4. ChainOf[n] \in Chains /\ Len(c) \in Nat /\ ChainOK(c, ChainOf[n])
    BY <2>3, ChainTypes DEF Chain
  <2>5. Len(Keys(p)) = Len(Keys(t)) + (0 - 1)
    <3>1. Len(d) = Len(c) + (0 - 1)
      BY <2>2, <2>4
    <3> QED BY <2>1, <3>1, KeysChange
  <2> HIDE DEF c, d
  <2>6. ASSUME NEW j \in 1..Len(d)
        PROVE  \E i \in 1..Len(c) : d[j] = c[i] /\ i = IF j < k THEN j ELSE j + 1
    BY <2>2, <2>4
  <2>7. ChainOK(d, ChainOf[n])
    <3>1. \A j \in 1..Len(d) : ChainOf[d[j].name] = ChainOf[n]
      BY <2>4, <2>6 DEF ChainOK
    <3>2. ASSUME NEW j \in 1..Len(d), NEW m \in 1..Len(d), d[j].name = d[m].name PROVE j = m
      <4>1. PICK i \in 1..Len(c) : d[j] = c[i] /\ i = IF j < k THEN j ELSE j + 1
        BY <2>6
      <4>2. PICK h \in 1..Len(c) : d[m] = c[h] /\ h = IF m < k THEN m ELSE m + 1
        BY <2>6
      <4>3. i = h
        BY <2>4, <3>2, <4>1, <4>2 DEF ChainOK
      <4>4. j \in Nat /\ m \in Nat /\ k \in Nat
        OBVIOUS
      <4> QED BY <4>1, <4>2, <4>3, <4>4
    <3> QED BY <3>1, <3>2 DEF ChainOK
  <2>8. \A h \in Chains : ChainOK(p.chain[h], h)
    BY <2>1, <2>3, <2>7 DEF d, Chain
  <2>9. Len(Keys(p)) <= p.count
    BY <2>1, <2>3, <2>5
  <2> QED BY <2>1, <2>8, <2>9, WellFormedIs
<1> QED BY <1>1, <1>2

LEMMA EmptyWellFormed == WellFormed(EmptyTable)
<1>1. /\ EmptyTable \in Tables /\ EmptyTable.count = 0
      /\ \A h \in 1..NumChains : EmptyTable.chain[h] = << >>
  BY EmptyTableIs DEF EmptyTable, Chains
<1> DEFINE s == EmptyTable.chain
<1>2. /\ s \in Seq(Seq(Links)) /\ Len(s) = NumChains /\ NumChains \in Nat \ {0}
      /\ Len(Keys(EmptyTable)) = Len(FlattenSeq(s))
  BY <1>1, KeysAre
<1>3. \A h \in Chains : s[h] = << >>
  BY <1>1 DEF Chains
<1>4. \A h \in Chains : ChainOK(s[h], h)
  BY <1>3 DEF ChainOK
<1> HIDE DEF s
<1>5. PICK f : IsFlatten(f, s) /\ FlattenSeq(s) = f[Len(s)]
  <2>1. Len(s) > 0
    BY <1>2
  <2> QED BY <1>2, <2>1, FlattenIs
<1> DEFINE U == {m \in Nat : m + 1 <= Len(s) => f[m + 1] = << >>}
<1>6. 0 \in U
  <2>1. 1 \in 1..Len(s) /\ s[1] = << >>
    BY <1>2, <1>3 DEF Chains
  <2> QED BY <1>5, <2>1 DEF IsFlatten
<1>7. ASSUME NEW m \in Nat, m \in U PROVE m + 1 \in U
  <2>1. ASSUME m + 2 <= Len(s) PROVE f[m + 2] = << >>
    <3>1. /\ m + 2 \in 1..Len(s) /\ m + 2 # 1 /\ (m + 2) - 1 = m + 1 /\ f[m + 1] = << >>
          /\ s[m + 2] = << >>
      BY <1>2, <1>3, <1>7, <2>1 DEF Chains
    <3>2. f[m + 2] = << >> \o << >>
      BY <1>5, <3>1, ZenonT(60) DEF IsFlatten
    <3> QED BY <3>2
  <2> QED BY <2>1
<1>8. f[Len(s)] = << >>
  <2>1. Len(s) - 1 \in Nat /\ (Len(s) - 1) + 1 = Len(s)
    BY <1>2
  <2>2. Len(s) - 1 \in U
    <3> HIDE DEF U
    <3> QED BY <1>6, <1>7, <2>1, InductionOnNat
  <2> QED BY <1>2, <2>1, <2>2
<1>9. Len(Keys(EmptyTable)) <= EmptyTable.count
  BY <1>1, <1>2, <1>5, <1>8
<1> QED BY <1>1, <1>4, <1>9, WellFormedIs DEF s

LEMMA TableStep ==
    ASSUME TablesOK, \A o \in Objects : WellFormed(attributes'[o]) /\ WellFormed(methods'[o])
    PROVE  TablesOK'
BY DEF TablesOK, WellFormed, Keys

LEMMA NextTables == PlaceInv /\ ObjectTypes /\ TablesOK /\ [Next]_ovars => TablesOK'
<1> SUFFICES ASSUME PlaceInv, ObjectTypes, TablesOK, [Next]_ovars PROVE TablesOK'
  OBVIOUS
<1>0. /\ exists \subseteq Objects
      /\ attributes \in [Objects -> Tables] /\ methods \in [Objects -> Tables]
      /\ \A o \in Objects : /\ attributes[o] \in Tables /\ methods[o] \in Tables
                            /\ WellFormed(attributes[o]) /\ WellFormed(methods[o])
  BY DEF PlaceInv, ObjectTypes, TablesOK
<1>1. CASE attributes' = attributes /\ methods' = methods
  BY <1>0, <1>1, TableStep
<1>2. ASSUME NEW u \in Users, NEW x \in exists, NEW what, Strip(u, x, what) PROVE TablesOK'
  <2>1. ASSUME NEW o \in Objects
        PROVE  /\ attributes'[o] \in {attributes[o], EmptyTable}
               /\ methods'[o] \in {methods[o], EmptyTable}
    BY <1>0, <1>2 DEF Strip
  <2>2. ASSUME NEW o \in Objects PROVE WellFormed(attributes'[o]) /\ WellFormed(methods'[o])
    BY <1>0, <2>1, EmptyWellFormed
  <2> QED BY <2>2, TableStep
<1>3. ASSUME NEW u \in Users, NEW x \in exists, NEW n \in Names, ClearSlot(u, x, n) PROVE TablesOK'
  <2>1. /\ methods' = methods /\ attributes'[x] = Remove1(attributes[x], n)
        /\ \A o \in Objects \ {x} : attributes'[o] = attributes[o]
    BY <1>0, <1>3 DEF ClearSlot, SlotsOnly
  <2>2. WellFormed(attributes'[x])
    BY <1>0, <2>1, RemoveWellFormed
  <2> QED BY <1>0, <2>1, <2>2, TableStep
<1>4. ASSUME NEW u \in Users, NEW x \in exists, NEW n \in Names,
             \/ \E v \in Values : SlotSet(u, x, n, v) \/ AddSlot(u, x, n, v)
             \/ \E w \in exists : SetSlotOwner(u, x, n, w)
             \/ \E f \in FlagChoices : SetSlotFlags(u, x, n, f)
      PROVE  TablesOK'
  <2>1. PICK s \in Links : SlotsOnly /\ SetLink(x, s)
    BY <1>4, SlotWritten
  <2>2. /\ methods' = methods /\ attributes'[x] = Put(attributes[x], s)
        /\ \A o \in Objects \ {x} : attributes'[o] = attributes[o]
    BY <1>0, <2>1 DEF SetLink, SlotsOnly
  <2>3. WellFormed(attributes'[x])
    BY <1>0, <2>2, PutWellFormed
  <2> QED BY <1>0, <2>2, <2>3, TableStep
<1>5. ASSUME NEW u \in Users, NEW x \in exists, NEW n \in Names,
             \/ \E v \in Values : AddMethod(u, x, n, v)
             \/ \E w \in exists : SetMethodOwner(u, x, n, w)
             \/ \E f \in FlagChoices : SetMethodFlags(u, x, n, f)
      PROVE  TablesOK'
  <2>1. PICK s \in Links : MethodsOnly /\ methods' = [methods EXCEPT ![x] = Put(@, s)]
    BY <1>5, MethodWritten
  <2>2. /\ attributes' = attributes /\ methods'[x] = Put(methods[x], s)
        /\ \A o \in Objects \ {x} : methods'[o] = methods[o]
    BY <1>0, <2>1 DEF MethodsOnly
  <2>3. WellFormed(methods'[x])
    BY <1>0, <2>2, PutWellFormed
  <2> QED BY <1>0, <2>2, <2>3, TableStep
<1>6. ASSUME NEW u \in Users, NEW x \in exists,
             \/ \E p \in ParentChoices : Clone(u, p) \/ SetParents(u, x, p)
             \/ \E w \in exists : SetOwner(u, x, w) \/ MoveTo(u, x, w)
             \/ MoveTo(u, x, Null)
             \/ \E g \in Groups : SetGroup(u, x, g)
             \/ \E on \in BOOLEAN : SetPrivileged(u, x, on)
             \/ \E f \in FlagChoices : SetObjectFlags(u, x, f)
      PROVE  TablesOK'
  <2>1. attributes' = attributes /\ methods' = methods
    BY <1>6 DEF Clone, SetParents, SetOwner, MoveTo, SetGroup, SetPrivileged, SetObjectFlags
  <2> QED BY <1>1, <2>1
<1>7. ASSUME NEW u \in Users, NEW p \in ParentChoices, Clone(u, p) PROVE TablesOK'
  BY <1>1, <1>7 DEF Clone
<1>8. CASE SearchForEver \/ UNCHANGED ovars
  BY <1>1, <1>8 DEF SearchForEver, ovars
<1> QED BY <1>2, <1>3, <1>4, <1>5, <1>6, <1>7, <1>8 DEF Next


-----------------------------------------------------------------------------
(* What an object inherits, when the hierarchy has no cycles.              *)

\* Under Acyclic no chain of parents is longer than there are objects: what is worked out
\* from the parents, to a depth, is the same at the two greatest depths.
LEMMA Settled ==
    ASSUME PlaceInv, ObjectTypes, Acyclic, NEW g,
           \A x \in exists : \A d, e \in 1..Deepest :
              (\A i \in 1..Len(Parents(x)) : g[d - 1][Parents(x)[i]] = g[e - 1][Parents(x)[i]])
              => g[d][x] = g[e][x]
    PROVE  \A x \in exists : \A i \in 1..Len(Parents(x)) :
              g[Deepest - 1][Parents(x)[i]] = g[Deepest][Parents(x)[i]]
<1> DEFINE Closed(S) == \A y \in S : \A i \in 1..Len(Parents(y)) : Parents(y)[i] \in S
           Still(S, k) == \A y \in S : \A d \in k..Deepest : g[d][y] = g[Deepest][y]
           Big(S, k) == S = exists \/ (IsFiniteSet(S) /\ Cardinality(S) >= k)
           Claim(k) == \E S \in SUBSET exists : Closed(S) /\ Still(S, k) /\ Big(S, k)
           U == {k \in Nat : k <= Deepest => Claim(k)}
<1>0. /\ Deepest \in Nat /\ IsFiniteSet(Objects) /\ exists \subseteq Objects
      /\ IsFiniteSet(exists) /\ Cardinality(exists) <= Deepest
  <2>1. IsFiniteSet(Objects) /\ exists \subseteq Objects
    BY ObjectsAssumption DEF PlaceInv
  <2> QED BY <2>1, SearchExists, FS_Subset DEF Deepest
<1>1. \A x \in exists : \A i \in 1..Len(Parents(x)) : Parents(x)[i] \in exists
  BY <1>0, ParentsAre
\* Some object outside of a set has all its parents in the set.
<1>2. ASSUME NEW S \in SUBSET exists, S # exists
      PROVE  \E x \in exists \ S : \A i \in 1..Len(Parents(x)) : Parents(x)[i] \in S
  <2>1. exists \ S \in (SUBSET exists) \ {{}}
    BY <1>2
  <2>2. PICK x \in exists \ S : ToSet(Parents(x)) \cap (exists \ S) = {}
    BY <2>1 DEF Acyclic
  <2>3. ASSUME NEW i \in 1..Len(Parents(x)) PROVE Parents(x)[i] \in S
    <3>1. Parents(x)[i] \in ToSet(Parents(x))
      <4>1. DOMAIN Parents(x) = 1..Len(Parents(x))
        BY <1>0, ParentsAre
      <4> QED BY <4>1 DEF ToSet
    <3>2. Parents(x)[i] \in exists
      BY <1>1
    <3> QED BY <2>2, <3>1, <3>2
  <2> QED BY <2>3
<1>3. 0 \in U
  <2>1. Closed({}) /\ Still({}, 0)
    OBVIOUS
  <2>2. Big({}, 0)
    BY FS_EmptySet
  <2> HIDE DEF Closed, Still, Big
  <2>3. Claim(0)
    BY <2>1, <2>2
  <2> QED BY <2>3
<1>4. ASSUME NEW k \in Nat, k \in U PROVE k + 1 \in U
  <2>1. SUFFICES ASSUME k + 1 <= Deepest PROVE Claim(k + 1)
    OBVIOUS
  <2>2. PICK S \in SUBSET exists : Closed(S) /\ Still(S, k) /\ Big(S, k)
    <3>1. k <= Deepest
      BY <1>0, <2>1
    <3> HIDE DEF Closed, Still, Big
    <3> QED BY <1>4, <3>1
  <2>3. \A d \in (k + 1)..Deepest : d \in k..Deepest
    BY <1>0
  <2>4. Still(S, k + 1)
    BY <2>2, <2>3
  <2>5. CASE S = exists
    <3>1. Big(S, k + 1)
      BY <2>5
    <3> HIDE DEF Closed, Still, Big
    <3> QED BY <2>2, <2>4, <3>1
  <2>6. CASE S # exists
    <3>1. PICK x \in exists \ S : \A i \in 1..Len(Parents(x)) : Parents(x)[i] \in S
      BY <1>2, <2>6
    <3>2. Closed(S \cup {x})
      BY <2>2, <3>1
    <3>3. ASSUME NEW d \in (k + 1)..Deepest PROVE g[d][x] = g[Deepest][x]
      <4>1. /\ d \in 1..Deepest /\ Deepest \in 1..Deepest
            /\ d - 1 \in k..Deepest /\ Deepest - 1 \in k..Deepest
        BY <1>0, <2>1
      <4>2. \A i \in 1..Len(Parents(x)) : g[d - 1][Parents(x)[i]] = g[Deepest - 1][Parents(x)[i]]
        <5>1. ASSUME NEW i \in 1..Len(Parents(x))
              PROVE  g[d - 1][Parents(x)[i]] = g[Deepest - 1][Parents(x)[i]]
          <6>1. Parents(x)[i] \in S
            BY <3>1
          <6>2. \A e \in k..Deepest : g[e][Parents(x)[i]] = g[Deepest][Parents(x)[i]]
            BY <2>2, <6>1
          <6> QED BY <4>1, <6>2
        <5> QED BY <5>1
      <4> QED BY <4>1, <4>2
    <3>4. Still(S \cup {x}, k + 1)
      BY <2>4, <3>3
    <3>5. Big(S \cup {x}, k + 1)
      <4>1. IsFiniteSet(S) /\ Cardinality(S) >= k /\ Cardinality(S) \in Nat
        BY <2>2, <2>6, FS_CardinalityType
      <4>2. IsFiniteSet(S \cup {x}) /\ Cardinality(S \cup {x}) = Cardinality(S) + 1
        BY <3>1, <4>1, FS_AddElement
      <4> QED BY <4>1, <4>2
    <3>6. S \cup {x} \in SUBSET exists
      BY <3>1
    <3> HIDE DEF Closed, Still, Big
    <3> QED BY <3>2, <3>4, <3>5, <3>6
  <2> QED BY <2>5, <2>6
<1>5. ASSUME NEW y \in exists, NEW i \in 1..Len(Parents(y))
      PROVE  g[Deepest - 1][Parents(y)[i]] = g[Deepest][Parents(y)[i]]
  <2>1. Deepest >= 1 /\ Deepest - 1 \in Nat /\ Deepest - 1 \in (Deepest - 1)..Deepest
    <3>1. Deepest # 0
      BY <1>0, FS_EmptySet DEF Deepest
    <3> QED BY <1>0, <3>1
  <2>2. PICK S \in SUBSET exists : Closed(S) /\ Still(S, Deepest - 1) /\ Big(S, Deepest - 1)
    <3>1. Deepest - 1 \in U
      <4> HIDE DEF U
      <4> QED BY <1>3, <1>4, <2>1, InductionOnNat
    <3> HIDE DEF Closed, Still, Big
    <3> QED BY <1>0, <2>1, <3>1
  <2>3. Parents(y)[i] \in S
    <3>1. CASE S = exists
      BY <1>1, <3>1
    <3>2. CASE S # exists
      <4>1. PICK x \in exists \ S : \A j \in 1..Len(Parents(x)) : Parents(x)[j] \in S
        BY <1>2, <3>2
      <4>2. IsFiniteSet(S) /\ Cardinality(S) >= Deepest - 1 /\ Cardinality(S) \in Nat
        BY <2>2, <3>2, FS_CardinalityType
      <4>3. IsFiniteSet(S \cup {x}) /\ Cardinality(S \cup {x}) = Cardinality(S) + 1
        BY <4>1, <4>2, FS_AddElement
      <4>4. S \cup {x} = Objects
        <5>1. S \cup {x} \in SUBSET Objects
          BY <1>0, <4>1
        <5>2. Cardinality(S \cup {x}) <= Deepest
          BY <1>0, <5>1, FS_Subset DEF Deepest
        <5>3. Cardinality(S \cup {x}) = Deepest
          BY <1>0, <4>2, <4>3, <5>2
        <5> QED BY <1>0, <5>1, <5>3, FS_Subset DEF Deepest
      <4>5. CASE y = x
        BY <4>1, <4>5
      <4>6. CASE y # x
        <5>1. y \in S
          BY <1>0, <4>4, <4>6
        <5> QED BY <2>2, <5>1
      <4> QED BY <4>5, <4>6
    <3> QED BY <3>1, <3>2
  <2> QED BY <2>1, <2>2, <2>3
<1> QED BY <1>5

Lines(x, l) == [i \in DOMAIN Parents(x) |-> l[Parents(x)[i]]]

\* The line of each object, when it is followed no further than d.
Lined(g, d) ==
    [x \in Objects |-> IF d = 0 THEN << >> ELSE <<x>> \o FlattenSeq(Lines(x, g[d - 1]))]

IsLine(g) == g = [d \in 0..Deepest |-> Lined(g, d)]

LEMMA LineExists == \E g : IsLine(g)
<1> DEFINE U == {n \in Nat : \E g : g = [d \in 0..n |-> Lined(g, d)]}
<1>1. 0 \in U
  <2> DEFINE h == [d \in 0..0 |-> Lined(<< >>, 0)]
  <2>1. Lined(<< >>, 0) = Lined(h, 0)
    BY DEF Lined
  <2>2. h = [d \in 0..0 |-> Lined(h, d)]
    BY <2>1
  <2> HIDE DEF h
  <2>3. \E g : g = [d \in 0..0 |-> Lined(g, d)]
    BY <2>2
  <2> QED BY <2>3
<1>2. ASSUME NEW n \in Nat, n \in U PROVE n + 1 \in U
  <2>1. PICK g : g = [d \in 0..n |-> Lined(g, d)]
    BY <1>2
  <2> DEFINE h == [d \in 0..(n + 1) |-> IF d = n + 1 THEN Lined(g, n + 1) ELSE g[d]]
  <2>2. ASSUME NEW d \in 0..(n + 1) PROVE h[d] = Lined(h, d)
    <3>1. d # 0 => h[d - 1] = g[d - 1]
      OBVIOUS
    <3>2. Lined(h, d) = Lined(g, d)
      <4> HIDE DEF h
      <4> QED BY <3>1 DEF Lined
    <3>3. CASE d = n + 1
      BY <3>2, <3>3
    <3>4. CASE d # n + 1
      <4>1. d \in 0..n /\ h[d] = g[d]
        BY <3>4
      <4>2. g[d] = Lined(g, d)
        BY <2>1, <4>1
      <4> QED BY <3>2, <4>1, <4>2
    <3> QED BY <3>3, <3>4
  <2>3. h = [d \in 0..(n + 1) |-> Lined(h, d)]
    BY <2>2
  <2> HIDE DEF h
  <2>4. \E f1 : f1 = [d \in 0..(n + 1) |-> Lined(f1, d)]
    BY <2>3
  <2> QED BY <2>4
<1>3. Deepest \in U
  <2> HIDE DEF U
  <2> QED BY <1>1, <1>2, SearchExists, InductionOnNat
<1> QED BY <1>3 DEF IsLine

LEMMA LineIs == \E g : IsLine(g) /\ \A o \in Objects : Line(o) = g[Deepest][o]
<1> DEFINE Body(g) == [d \in 0..Cardinality(Objects) |-> [x \in Objects |->
       IF d = 0 THEN << >>
       ELSE <<x>> \o FlattenSeq([i \in DOMAIN Parents(x) |-> g[d - 1][Parents(x)[i]]])]]
<1>1. \A g : [d \in 0..Deepest |-> Lined(g, d)] = Body(g)
  BY DEF Lined, Lines, Deepest
<1>2. \E g : g = Body(g)
  <2>1. PICK g : IsLine(g)
    BY LineExists
  <2>2. g = Body(g)
    <3> HIDE DEF Body
    <3> QED BY <1>1, <2>1 DEF IsLine
  <2> HIDE DEF Body
  <2> QED BY <2>2
<1>3. \A o \in Objects : Line(o) = (CHOOSE g : g = Body(g))[Deepest][o]
  BY DEF Line, Deepest
<1> DEFINE h == CHOOSE g : g = Body(g)
<1>4. h = Body(h)
  BY <1>2
<1> HIDE DEF h
<1>5. IsLine(h)
  BY <1>1, <1>4 DEF IsLine
<1> QED BY <1>3, <1>5 DEF h

\* The line of an object is the object and, after it, the lines of its parents.
LEMMA LineStep ==
    ASSUME PlaceInv, ObjectTypes, Acyclic, NEW g, IsLine(g)
    PROVE  \A x \in exists : g[Deepest][x] = <<x>> \o FlattenSeq(Lines(x, g[Deepest]))
<1>0. /\ Deepest \in Nat /\ exists \subseteq Objects
      /\ \A x \in exists : DOMAIN Parents(x) = 1..Len(Parents(x))
  BY SearchExists, ParentsAre DEF PlaceInv
<1>1. ASSUME NEW x \in exists, NEW d \in 1..Deepest
      PROVE  g[d][x] = <<x>> \o FlattenSeq(Lines(x, g[d - 1]))
  <2>1. d \in 0..Deepest /\ d # 0 /\ x \in Objects
    BY <1>0
  <2>2. g[d] = Lined(g, d)
    BY <2>1 DEF IsLine
  <2> QED BY <2>1, <2>2 DEF Lined
<1>2. ASSUME NEW x \in exists, NEW d \in 1..Deepest, NEW e \in 1..Deepest,
             \A i \in 1..Len(Parents(x)) : g[d - 1][Parents(x)[i]] = g[e - 1][Parents(x)[i]]
      PROVE  g[d][x] = g[e][x]
  <2>1. Lines(x, g[d - 1]) = Lines(x, g[e - 1])
    BY <1>0, <1>2 DEF Lines
  <2> QED BY <1>1, <2>1
<1>3. \A x \in exists : \A i \in 1..Len(Parents(x)) :
         g[Deepest - 1][Parents(x)[i]] = g[Deepest][Parents(x)[i]]
  <2>1. \A x \in exists : \A d, e \in 1..Deepest :
           (\A i \in 1..Len(Parents(x)) : g[d - 1][Parents(x)[i]] = g[e - 1][Parents(x)[i]])
           => g[d][x] = g[e][x]
    BY <1>2
  <2> QED BY <2>1, Settled
<1>4. ASSUME NEW x \in exists
      PROVE  g[Deepest][x] = <<x>> \o FlattenSeq(Lines(x, g[Deepest]))
  <2>1. Deepest \in 1..Deepest
    <3>1. Deepest # 0
      BY <1>0, <1>4, FS_EmptySet, ObjectsAssumption DEF Deepest
    <3> QED BY <1>0, <3>1
  <2>2. Lines(x, g[Deepest - 1]) = Lines(x, g[Deepest])
    BY <1>0, <1>3 DEF Lines
  <2> QED BY <1>1, <2>1, <2>2
<1> QED BY <1>4

\* A search is that of the parents, in turn.
LEMMA SearchSettles ==
    ASSUME PlaceInv, ObjectTypes, Acyclic, NEW f, NEW T, NEW atEnd, IsSearch(f, T, atEnd),
           NEW x \in exists
    PROVE  /\ x \in T => f[Deepest][x] = x
           /\ x \notin T /\ parents[x] = Null => f[Deepest][x] = None
           /\ x \notin T /\ parents[x] # Null =>
                \/ /\ \A i \in 1..Len(Parents(x)) : f[Deepest][Parents(x)[i]] = None
                   /\ f[Deepest][x] = IF IsVector(parents[x]) THEN atEnd ELSE None
                \/ \E i \in 1..Len(Parents(x)) :
                     /\ f[Deepest][Parents(x)[i]] # None
                     /\ f[Deepest][x] = f[Deepest][Parents(x)[i]]
                     /\ \A j \in 1..Len(Parents(x)) : j < i => f[Deepest][Parents(x)[j]] = None
<1>0. Deepest \in Nat /\ exists \subseteq Objects /\ Deepest \in 0..Deepest /\ Deepest # 0
  <2>1. Deepest # 0
    <3>1. IsFiniteSet(Objects) /\ Objects # {}
      BY ObjectsAssumption
    <3> QED BY <3>1, FS_EmptySet DEF Deepest
  <2>2. Deepest \in Nat
    BY SearchExists
  <2> QED BY <2>1, <2>2 DEF PlaceInv
<1>1. ASSUME NEW y \in exists, NEW d \in 1..Deepest, NEW e \in 1..Deepest,
             \A i \in 1..Len(Parents(y)) : f[d - 1][Parents(y)[i]] = f[e - 1][Parents(y)[i]]
      PROVE  f[d][y] = f[e][y]
  <2>1. f[d] = Searched(f, d, T, atEnd) /\ f[e] = Searched(f, e, T, atEnd)
    BY <1>0 DEF IsSearch
  <2>2. DOMAIN Parents(y) = 1..Len(Parents(y)) /\ y \in Objects /\ d # 0 /\ e # 0
    BY <1>0, ParentsAre
  <2>3. [i \in DOMAIN Parents(y) |-> f[d - 1][Parents(y)[i]]]
          = [i \in DOMAIN Parents(y) |-> f[e - 1][Parents(y)[i]]]
    BY <1>1, <2>2
  <2> QED BY <2>1, <2>2, <2>3, SMTT(60) DEF Searched
<1>2. \A i \in 1..Len(Parents(x)) : f[Deepest - 1][Parents(x)[i]] = f[Deepest][Parents(x)[i]]
  <2>1. \A y \in exists : \A d, e \in 1..Deepest :
           (\A i \in 1..Len(Parents(y)) : f[d - 1][Parents(y)[i]] = f[e - 1][Parents(y)[i]])
           => f[d][y] = f[e][y]
    BY <1>1
  <2> QED BY <2>1, Settled
<1>3. x \in Objects
  BY <1>0
<1>4. CASE x \in T \/ parents[x] = Null
  BY <1>0, <1>3, <1>4, SearchStep
<1>5. CASE x \notin T /\ parents[x] # Null
  <2>1. \/ /\ \A i \in 1..Len(Parents(x)) : f[Deepest - 1][Parents(x)[i]] = None
           /\ f[Deepest][x] = IF IsVector(parents[x]) THEN atEnd ELSE None
        \/ \E i \in 1..Len(Parents(x)) :
             /\ f[Deepest - 1][Parents(x)[i]] # None
             /\ f[Deepest][x] = f[Deepest - 1][Parents(x)[i]]
             /\ \A j \in 1..Len(Parents(x)) : j < i => f[Deepest - 1][Parents(x)[j]] = None
    BY <1>0, <1>3, <1>5, SearchStep, SMTT(60)
  <2> QED BY <1>2, <1>5, <2>1
<1> QED BY <1>4, <1>5

\* r is the first element of s that is in T, or None.
IsFirst(s, T, r) ==
    \/ r = None /\ \A i \in 1..Len(s) : s[i] \notin T
    \/ \E i \in 1..Len(s) : s[i] \in T /\ r = s[i] /\ \A j \in 1..Len(s) : j < i => s[j] \notin T

LEMMA FirstOfBoth ==
    ASSUME NEW S, NEW a \in Seq(S), NEW b \in Seq(S), NEW T, None \notin S,
           NEW r, IsFirst(a, T, r), NEW q, IsFirst(b, T, q)
    PROVE  /\ a \o b \in Seq(S)
           /\ IsFirst(a \o b, T, IF r = None THEN q ELSE r)
           /\ ToSet(a \o b) = ToSet(a) \cup ToSet(b)
<1> DEFINE c == a \o b
           m == Len(a)
           n == Len(b)
<1>1. /\ c \in Seq(S) /\ m \in Nat /\ n \in Nat /\ Len(c) = m + n
      /\ \A i \in 1..(m + n) : c[i] = IF i <= m THEN a[i] ELSE b[i - m]
  BY ConcatProperties, LenProperties
<1>2. /\ \A i \in 1..m : i \in 1..(m + n) /\ c[i] = a[i] /\ a[i] \in S
      /\ \A i \in 1..n : i + m \in 1..(m + n) /\ c[i + m] = b[i]
  <2>1. \A i \in 1..m : a[i] \in S
    BY ElementOfSeq
  <2> HIDE DEF c, m, n
  <2>2. \A i \in 1..n : i + m \in 1..(m + n) /\ ~(i + m <= m) /\ (i + m) - m = i
    BY <1>1
  <2>3. \A i \in 1..m : i \in 1..(m + n) /\ i <= m
    BY <1>1
  <2> QED BY <1>1, <2>1, <2>2, <2>3 DEF m
<1>3. ToSet(c) = ToSet(a) \cup ToSet(b)
  <2>1. /\ ToSet(c) = {c[i] : i \in 1..(m + n)} /\ ToSet(a) = {a[i] : i \in 1..m}
        /\ ToSet(b) = {b[i] : i \in 1..n}
    BY <1>1, LenProperties DEF ToSet
  <2>2. ASSUME NEW i \in 1..(m + n) PROVE c[i] \in {a[j] : j \in 1..m} \cup {b[j] : j \in 1..n}
    <3> HIDE DEF c, m, n
    <3>1. CASE i <= m
      BY <1>1, <3>1
    <3>2. CASE ~(i <= m)
      <4>1. i - m \in 1..n
        BY <1>1, <3>2
      <4> QED BY <1>1, <3>2, <4>1
    <3> QED BY <3>1, <3>2
  <2>3. \A j \in 1..m : a[j] \in {c[i] : i \in 1..(m + n)}
    BY <1>2
  <2>4. \A j \in 1..n : b[j] \in {c[i] : i \in 1..(m + n)}
    BY <1>2
  <2> HIDE DEF c, m, n
  <2> QED BY <2>1, <2>2, <2>3, <2>4, ZenonT(30)
<1>4. CASE r = None
  <2>1. \A i \in 1..m : a[i] \notin T
    BY <1>2, <1>4 DEF IsFirst
  <2>2. ASSUME q = None, \A i \in 1..n : b[i] \notin T PROVE IsFirst(c, T, q)
    <3>1. ASSUME NEW i \in 1..(m + n) PROVE c[i] \notin T
      <4> HIDE DEF c, m, n
      <4>1. CASE i <= m
        BY <1>1, <2>1, <4>1
      <4>2. CASE ~(i <= m)
        <5>1. i - m \in 1..n
          BY <1>1, <4>2
        <5> QED BY <1>1, <2>2, <4>2, <5>1
      <4> QED BY <4>1, <4>2
    <3> HIDE DEF c, m, n
    <3> QED BY <1>1, <1>4, <2>2, <3>1 DEF IsFirst
  <2>3. ASSUME NEW i \in 1..n, b[i] \in T, q = b[i], \A j \in 1..n : j < i => b[j] \notin T
        PROVE  IsFirst(c, T, q)
    <3>1. i + m \in 1..(m + n) /\ c[i + m] = b[i]
      BY <1>2
    <3>2. ASSUME NEW j \in 1..(m + n), j < i + m PROVE c[j] \notin T
      <4> HIDE DEF c, m, n
      <4>1. CASE j <= m
        BY <1>1, <2>1, <4>1
      <4>2. CASE ~(j <= m)
        <5>1. j - m \in 1..n /\ j - m < i
          BY <1>1, <3>2, <4>2
        <5> QED BY <1>1, <2>3, <4>2, <5>1
      <4> QED BY <4>1, <4>2
    <3> HIDE DEF c, m, n
    <3> QED BY <1>1, <2>3, <3>1, <3>2 DEF IsFirst
  <2>4. IsFirst(c, T, q)
    <3> HIDE DEF c
    <3> QED BY <2>2, <2>3, <1>4 DEF IsFirst
  <2> QED BY <1>1, <1>3, <1>4, <2>4
<1>5. CASE r # None
  <2>1. PICK i \in 1..m : a[i] \in T /\ r = a[i] /\ \A j \in 1..m : j < i => a[j] \notin T
    BY <1>5 DEF IsFirst
  <2>2. i \in 1..(m + n) /\ c[i] = a[i]
    BY <1>2
  <2>3. ASSUME NEW j \in 1..(m + n), j < i PROVE c[j] \notin T
    <3> HIDE DEF c, m, n
    <3>1. j \in 1..m /\ j <= m
      BY <1>1, <2>3
    <3> QED BY <1>1, <2>1, <2>3, <3>1
  <2>4. IsFirst(c, T, r)
    <3> HIDE DEF c, m, n
    <3> QED BY <1>1, <2>1, <2>2, <2>3 DEF IsFirst
  <2> QED BY <1>1, <1>3, <1>5, <2>4
<1> QED BY <1>4, <1>5

\* q is the first of the first k of r that is not None, or None.
IsFirstFound(r, k, q) ==
    \/ q = None /\ \A i \in 1..k : r[i] = None
    \/ \E i \in 1..k : r[i] # None /\ q = r[i] /\ \A j \in 1..k : j < i => r[j] = None

\* The first in one sequence after the other is the first that is found in one of them.
LEMMA FirstOfAll ==
    ASSUME NEW S, NEW seqs \in Seq(Seq(S)), NEW T, None \notin S, NEW r,
           \A i \in 1..Len(seqs) : IsFirst(seqs[i], T, r[i])
    PROVE  /\ FlattenSeq(seqs) \in Seq(S)
           /\ \A i \in 1..Len(seqs) : ToSet(seqs[i]) \subseteq ToSet(FlattenSeq(seqs))
           /\ \A q : IsFirstFound(r, Len(seqs), q) => IsFirst(FlattenSeq(seqs), T, q)
<1>0. Len(seqs) \in Nat /\ \A i \in 1..Len(seqs) : seqs[i] \in Seq(S)
  <2>1. \A i \in 1..Len(seqs) : seqs[i] \in Seq(S)
    BY ElementOfSeq
  <2> QED BY <2>1
<1>1. CASE Len(seqs) = 0
  <2>1. FlattenSeq(seqs) = seqs /\ seqs = << >>
    BY <1>1, EmptySeq DEF FlattenSeq
  <2>2. seqs \in Seq(S)
    BY <2>1
  <2>3. 1..Len(seqs) = {}
    BY <1>1
  <2> QED BY <2>1, <2>2, <2>3 DEF IsFirstFound, IsFirst
<1>2. CASE Len(seqs) > 0
  <2>1. PICK f : /\ IsFlatten(f, seqs) /\ FlattenSeq(seqs) = f[Len(seqs)]
                 /\ \A i \in 1..Len(seqs) : f[i] \in Seq(S)
    BY <1>2, FlattenIs
  <2> DEFINE Right(k) == /\ \A i \in 1..k : ToSet(seqs[i]) \subseteq ToSet(f[k])
                         /\ \A q : IsFirstFound(r, k, q) => IsFirst(f[k], T, q)
             U == {n \in Nat : n + 1 <= Len(seqs) => Right(n + 1)}
  <2>2. 0 \in U
    <3>1. 1 \in 1..Len(seqs) /\ f[1] = seqs[1]
      BY <1>0, <1>2, <2>1 DEF IsFlatten
    <3>2. ASSUME NEW q, IsFirstFound(r, 1, q) PROVE q = r[1]
      BY <3>2 DEF IsFirstFound
    <3>3. Right(1)
      BY <3>1, <3>2
    <3> HIDE DEF Right
    <3> QED BY <3>3
  <2>3. ASSUME NEW n \in Nat, n \in U PROVE n + 1 \in U
    <3>1. ASSUME n + 2 <= Len(seqs) PROVE Right(n + 2)
      <4> DEFINE k == n + 1
                 l == n + 2
      <4>0. Right(k)
        <5>1. n + 1 <= Len(seqs)
          BY <1>0, <3>1
        <5> HIDE DEF Right
        <5> QED BY <2>3, <5>1
      <4>1. /\ k \in 1..Len(seqs) /\ l \in 1..Len(seqs) /\ l # 1 /\ l - 1 = k
            /\ \A i \in 1..l : i \in 1..k \/ i = l
            /\ l \in 1..l /\ \A i \in 1..k : i \in 1..l /\ i < l
        BY <1>0, <3>1
      <4> HIDE DEF k, l
      <4>2. f[l] = f[k] \o seqs[l] /\ f[k] \in Seq(S) /\ seqs[l] \in Seq(S)
        BY <1>0, <2>1, <4>1 DEF IsFlatten
      <4>3. IsFirst(seqs[l], T, r[l])
        BY <4>1
      <4>4. ASSUME NEW q, IsFirstFound(r, k, q)
            PROVE  /\ IsFirst(f[l], T, IF q = None THEN r[l] ELSE q)
                   /\ ToSet(f[l]) = ToSet(f[k]) \cup ToSet(seqs[l])
        <5>1. IsFirst(f[k], T, q)
          BY <4>0, <4>4
        <5> QED BY <4>2, <4>3, <5>1, FirstOfBoth
      <4>5. ASSUME NEW q, IsFirstFound(r, l, q)
            PROVE  IsFirst(f[l], T, q) /\ ToSet(f[l]) = ToSet(f[k]) \cup ToSet(seqs[l])
        <5>1. CASE \A i \in 1..k : r[i] = None
          <6>1. IsFirstFound(r, k, None)
            BY <5>1 DEF IsFirstFound
          <6>2. q = r[l]
            BY <4>1, <4>5, <5>1 DEF IsFirstFound
          <6> QED BY <4>4, <6>1, <6>2
        <5>2. CASE ~\A i \in 1..k : r[i] = None
          <6>1. PICK i \in 1..l : r[i] # None /\ q = r[i] /\ \A j \in 1..l : j < i => r[j] = None
            BY <4>1, <4>5, <5>2 DEF IsFirstFound
          <6>2. i # l
            BY <4>1, <5>2, <6>1
          <6>3. i \in 1..k
            BY <4>1, <6>2
          <6>4. IsFirstFound(r, k, q) /\ q # None
            BY <4>1, <6>1, <6>3 DEF IsFirstFound
          <6> QED BY <4>4, <6>4
        <5> QED BY <5>1, <5>2
      <4>6. ToSet(f[l]) = ToSet(f[k]) \cup ToSet(seqs[l])
        <5>1. \E q : IsFirstFound(r, k, q)
          <6>1. CASE \A i \in 1..k : r[i] = None
            BY <6>1 DEF IsFirstFound
          <6>2. CASE ~\A i \in 1..k : r[i] = None
            <7> DEFINE found == {i \in 1..k : r[i] # None}
            <7>1. found # {} /\ found \subseteq Nat
              BY <6>2
            <7>2. PICK i \in found : \A j \in found : i <= j
              <8> HIDE DEF found
              <8> QED BY <7>1, LeastElement
            <7>3. i \in 1..k /\ r[i] # None
              BY <7>2
            <7>4. ASSUME NEW j \in 1..k, j < i PROVE r[j] = None
              <8>1. j \notin found
                BY <7>2, <7>3, <7>4
              <8> QED BY <8>1
            <7>5. IsFirstFound(r, k, r[i])
              BY <7>3, <7>4 DEF IsFirstFound
            <7> QED BY <7>5
          <6> QED BY <6>1, <6>2
        <5> QED BY <4>4, <5>1
      <4>7. \A i \in 1..l : ToSet(seqs[i]) \subseteq ToSet(f[l])
        BY <4>0, <4>1, <4>6
      <4>8. Right(l)
        BY <4>5, <4>7
      <4> HIDE DEF Right
      <4> QED BY <4>8 DEF l
    <3> HIDE DEF Right
    <3> QED BY <3>1
  <2>4. Right(Len(seqs))
    <3>1. Len(seqs) - 1 \in Nat /\ (Len(seqs) - 1) + 1 = Len(seqs)
      BY <1>0, <1>2
    <3> HIDE DEF Right
    <3>2. Len(seqs) - 1 \in U
      <4> HIDE DEF U
      <4> QED BY <2>2, <2>3, <3>1, InductionOnNat
    <3> QED BY <1>0, <3>1, <3>2
  <2>5. Len(seqs) \in 1..Len(seqs)
    BY <1>0, <1>2
  <2> QED BY <2>1, <2>4, <2>5
<1> QED BY <1>0, <1>1, <1>2

\* There is a first, or none at all.
LEMMA FirstExists ==
    ASSUME NEW S, NEW s \in Seq(S), NEW T
    PROVE  \E r : IsFirst(s, T, r)
<1> DEFINE places == {i \in 1..Len(s) : s[i] \in T}
<1>1. CASE places = {}
  BY <1>1 DEF IsFirst
<1>2. CASE places # {}
  <2>1. places \subseteq Nat
    OBVIOUS
  <2>2. PICK i \in places : \A j \in places : i <= j
    <3> HIDE DEF places
    <3> QED BY <1>2, <2>1, LeastElement
  <2>3. i \in 1..Len(s) /\ s[i] \in T
    BY <2>2
  <2>4. \A j \in 1..Len(s) : j < i => s[j] \notin T
    <3>1. ASSUME NEW j \in 1..Len(s), j < i, s[j] \in T PROVE FALSE
      <4>1. j \in places
        BY <3>1
      <4>2. i <= j
        BY <2>2, <4>1
      <4> QED BY <2>3, <3>1, <4>2
    <3> QED BY <3>1
  <2> QED BY <2>3, <2>4 DEF IsFirst
<1> QED BY <1>1, <1>2

Places(s, T) == {i \in 1..Len(s) : s[i] \in T}

\* What FirstIn makes of the places in s of the members of T.
AtFirst(s, T) ==
    LET i == IF Places(s, T) # {} THEN Min(Places(s, T)) ELSE 0 IN IF i = 0 THEN None ELSE s[i]

LEMMA AtFirstIs ==
    ASSUME NEW S, NEW s \in Seq(S), NEW T, NEW r, IsFirst(s, T, r)
    PROVE  AtFirst(s, T) = r
<1>1. Len(s) \in Nat
  BY LenProperties
<1>2. CASE r = None /\ \A i \in 1..Len(s) : s[i] \notin T
  <2>1. Places(s, T) = {}
    BY <1>2 DEF Places
  <2> QED BY <1>2, <2>1 DEF AtFirst
<1>3. CASE \E i \in 1..Len(s) : s[i] \in T /\ r = s[i] /\ \A j \in 1..Len(s) : j < i => s[j] \notin T
  <2>1. PICK i \in 1..Len(s) :
           s[i] \in T /\ r = s[i] /\ \A j \in 1..Len(s) : j < i => s[j] \notin T
    BY <1>3
  <2>2. /\ i \in Places(s, T) /\ Places(s, T) \subseteq 1..Len(s) /\ Places(s, T) \subseteq Nat
        /\ \A j \in Places(s, T) : ~(j < i)
    BY <1>1, <2>1 DEF Places
  <2>3. PICK m : m = Min(Places(s, T))
    OBVIOUS
  <2>4. m \in Places(s, T) /\ \A y \in Places(s, T) : m <= y
    BY <2>2, <2>3, MinOf
  <2>5. m = i /\ i # 0
    <3>1. m \in 1..Len(s) /\ m <= i /\ ~(m < i) /\ i \in 1..Len(s)
      BY <2>2, <2>4
    <3> QED BY <1>1, <3>1
  <2> QED BY <2>1, <2>2, <2>3, <2>5 DEF AtFirst
<1> QED BY <1>2, <1>3 DEF IsFirst

\* Without cycles, a line is a sequence of objects.
LEMMA LinesAreSeqs ==
    ASSUME PlaceInv, ObjectTypes, Acyclic, NEW g, IsLine(g)
    PROVE  \A x \in exists : g[Deepest][x] \in Seq(exists)
<1> DEFINE Bad == {x \in exists : g[Deepest][x] \notin Seq(exists)}
<1>0. exists \subseteq Objects /\ {None} \cap Objects = {}
  BY ObjectsAssumption DEF PlaceInv
<1>1. SUFFICES ASSUME Bad # {} PROVE FALSE
  OBVIOUS
<1>2. PICK x \in Bad : ToSet(Parents(x)) \cap Bad = {}
  <2>1. Bad \in (SUBSET exists) \ {{}}
    BY <1>1
  <2> HIDE DEF Bad
  <2> QED BY <2>1 DEF Acyclic
<1>3. /\ x \in exists /\ x \in Objects
      /\ DOMAIN Parents(x) = 1..Len(Parents(x)) /\ Len(Parents(x)) \in Nat
      /\ \A i \in 1..Len(Parents(x)) : Parents(x)[i] \in exists /\ Parents(x)[i] \in ToSet(Parents(x))
  BY <1>0, ParentsAre DEF ToSet
<1>4. \A i \in 1..Len(Parents(x)) : g[Deepest][Parents(x)[i]] \in Seq(exists)
  BY <1>2, <1>3
<1> DEFINE l == Lines(x, g[Deepest])
<1>5. l \in Seq(Seq(exists)) /\ Len(l) = Len(Parents(x))
  <2>1. l \in [1..Len(Parents(x)) -> Seq(exists)]
    BY <1>3, <1>4 DEF Lines
  <2> QED BY <1>3, <2>1
<1> HIDE DEF l
<1>6. FlattenSeq(l) \in Seq(exists)
  <2> DEFINE r == [i \in 1..Len(l) |-> None]
  <2>1. \A i \in 1..Len(l) : IsFirst(l[i], {}, r[i])
    BY DEF IsFirst
  <2> HIDE DEF r
  <2>2. None \notin exists
    BY <1>0
  <2> QED BY <1>5, <2>1, <2>2, FirstOfAll
<1>7. g[Deepest][x] = <<x>> \o FlattenSeq(l)
  BY <1>3, LineStep DEF l
<1>8. g[Deepest][x] \in Seq(exists)
  BY <1>3, <1>6, <1>7, ConcatProperties
<1> QED BY <1>8

\* In the line of x is an object with a vector of parents, and nothing of T in its line.
ComesToVector(g, T, x) ==
    \E y \in ToSet(g[Deepest][x]) : IsVector(parents[y]) /\ \A z \in ToSet(g[Deepest][y]) : z \notin T

\* Without cycles, what a search finds is the first in the line of the object that it is
\* looking for.  One that starts over at the end of a vector of parents may not end
\* when it comes to an object with such a vector, and nothing to find in its line.
LEMMA SearchesAgree ==
    ASSUME PlaceInv, ObjectTypes, Acyclic, NEW g, IsLine(g),
           NEW T, T \subseteq Objects, NEW atEnd \in {None, Never}, NEW f, IsSearch(f, T, atEnd)
    PROVE  \A x \in exists :
             \/ IsFirst(g[Deepest][x], T, f[Deepest][x])
             \/ atEnd = Never /\ f[Deepest][x] = Never /\ ComesToVector(g, T, x)
<1> DEFINE G(x) == g[Deepest][x]
           F(x) == f[Deepest][x]
           Stuck(x) == atEnd = Never /\ F(x) = Never /\ ComesToVector(g, T, x)
           Right(x) == IsFirst(G(x), T, F(x)) \/ Stuck(x)
           Bad == {x \in exists : ~Right(x)}
<1>0. exists \subseteq Objects /\ None \notin exists /\ Never \notin exists /\ None # Never
  BY ObjectsAssumption DEF PlaceInv, None, Never
<1>1. SUFFICES ASSUME Bad # {} PROVE FALSE
  OBVIOUS
<1>2. PICK x \in Bad : ToSet(Parents(x)) \cap Bad = {}
  <2>1. Bad \in (SUBSET exists) \ {{}}
    BY <1>1
  <2> HIDE DEF Bad
  <2> QED BY <2>1 DEF Acyclic
<1> DEFINE q == Parents(x)
           l == Lines(x, g[Deepest])
<1>3. /\ x \in exists /\ x \in Objects /\ DOMAIN q = 1..Len(q) /\ Len(q) \in Nat
      /\ \A i \in 1..Len(q) : q[i] \in exists /\ q[i] \in ToSet(q)
  BY <1>0, ParentsAre DEF ToSet
<1>4. ASSUME NEW i \in 1..Len(q) PROVE Right(q[i])
  <2>1. q[i] \notin Bad /\ q[i] \in exists
    BY <1>2, <1>3
  <2> HIDE DEF Right
  <2> QED BY <2>1
<1>5. /\ l \in Seq(Seq(exists)) /\ Len(l) = Len(q)
      /\ \A i \in 1..Len(q) : l[i] = G(q[i])
  <2>1. \A i \in 1..Len(q) : l[i] = G(q[i]) /\ l[i] \in Seq(exists)
    BY <1>3, LinesAreSeqs DEF Lines
  <2>2. l \in [1..Len(q) -> Seq(exists)]
    BY <1>3, <2>1 DEF Lines
  <2> QED BY <1>3, <2>1, <2>2
<1>6. G(x) = <<x>> \o FlattenSeq(l)
  BY <1>3, LineStep
<1> HIDE DEF l, q
\* What is found in the lines of the parents.
<1>7. ASSUME NEW r, \A i \in 1..Len(q) : IsFirst(l[i], T, r[i])
      PROVE  /\ FlattenSeq(l) \in Seq(exists)
             /\ \A i \in 1..Len(q) : ToSet(l[i]) \subseteq ToSet(FlattenSeq(l))
             /\ \A p : IsFirstFound(r, Len(q), p) => IsFirst(FlattenSeq(l), T, p)
  <2>1. \A i \in 1..Len(l) : IsFirst(l[i], T, r[i])
    BY <1>5, <1>7
  <2> QED BY <1>0, <1>5, <2>1, FirstOfAll
<1>8. /\ FlattenSeq(l) \in Seq(exists)
      /\ \A i \in 1..Len(q) : ToSet(l[i]) \subseteq ToSet(FlattenSeq(l))
  <2>1. \A p \in exists : p \notin {}
    OBVIOUS
  <2> DEFINE r == [i \in 1..Len(l) |-> None]
  <2>2. \A i \in 1..Len(l) : IsFirst(l[i], {}, r[i])
    BY DEF IsFirst
  <2> HIDE DEF r
  <2> QED BY <1>0, <1>5, <2>2, FirstOfAll
<1>9. <<x>> \in Seq(exists) /\ IsFirst(<<x>>, T, IF x \in T THEN x ELSE None) /\ ToSet(<<x>>) = {x}
  <2>1. Len(<<x>>) = 1 /\ <<x>>[1] = x /\ DOMAIN <<x>> = 1..1
    OBVIOUS
  <2>2. \A i \in 1..1 : i = 1 /\ ~(i < i)
    OBVIOUS
  <2>3. <<x>> \in Seq(exists)
    BY <1>3
  <2> QED BY <2>1, <2>2, <2>3 DEF IsFirst, ToSet
<1>10. ToSet(G(x)) = {x} \cup ToSet(FlattenSeq(l))
  <2>1. IsFirst(<<x>>, {}, None) /\ IsFirst(FlattenSeq(l), {}, None)
    BY DEF IsFirst
  <2>2. PICK a \in Seq(exists), b \in Seq(exists) : a = <<x>> /\ b = FlattenSeq(l)
    BY <1>8, <1>9
  <2>3. ToSet(a \o b) = ToSet(a) \cup ToSet(b)
    BY <1>0, <2>1, <2>2, FirstOfBoth
  <2> QED BY <1>6, <1>9, <2>2, <2>3
<1>11. CASE x \in T
  <2>1. F(x) = x
    BY <1>3, <1>11, SearchSettles
  <2>2. PICK s : s = G(x)
    OBVIOUS
  <2>3. s = <<x>> \o FlattenSeq(l)
    BY <1>6, <2>2
  <2>4. s[1] = x /\ Len(s) \in Nat /\ 1 \in 1..Len(s)
    BY <1>8, <1>9, <2>3, ConcatProperties
  <2>5. \A j \in 1..Len(s) : ~(j < 1)
    BY <2>4
  <2>6. IsFirst(s, T, x)
    BY <1>11, <2>4, <2>5 DEF IsFirst
  <2>7. Right(x)
    BY <2>1, <2>2, <2>6
  <2> HIDE DEF Right
  <2> QED BY <1>2, <2>7
<1>12. ASSUME x \notin T, NEW p, IsFirst(FlattenSeq(l), T, p) PROVE IsFirst(G(x), T, p)
  <2>1. IsFirst(<<x>>, T, None)
    BY <1>9, <1>12
  <2>2. PICK a \in Seq(exists), b \in Seq(exists) : a = <<x>> /\ b = FlattenSeq(l)
    BY <1>8, <1>9
  <2>3. IsFirst(a \o b, T, IF None = None THEN p ELSE None)
    BY <1>0, <1>12, <2>1, <2>2, FirstOfBoth
  <2> QED BY <1>6, <2>2, <2>3
<1>13. ASSUME x \notin T, parents[x] = Null PROVE FALSE
  <2>1. F(x) = None
    BY <1>3, <1>13, SearchSettles
  <2>2. q = << >>
    BY <1>13 DEF q, Parents, IsVector
  <2>3. IsFirst(FlattenSeq(l), T, None)
    <3>1. 1..Len(q) = {}
      BY <2>2
    <3>2. IsFirstFound(<< >>, Len(q), None)
      BY <3>1 DEF IsFirstFound
    <3> QED BY <1>7, <3>1, <3>2
  <2>4. Right(x)
    BY <1>12, <1>13, <2>1, <2>3
  <2> HIDE DEF Right
  <2> QED BY <1>2, <2>4
<1>14. ASSUME x \notin T, parents[x] # Null PROVE FALSE
  <2>1. \/ /\ \A i \in 1..Len(q) : F(q[i]) = None
           /\ F(x) = IF IsVector(parents[x]) THEN atEnd ELSE None
        \/ \E i \in 1..Len(q) :
             /\ F(q[i]) # None /\ F(x) = F(q[i])
             /\ \A j \in 1..Len(q) : j < i => F(q[j]) = None
    BY <1>3, <1>14, SearchSettles DEF q
  <2> DEFINE r == [i \in 1..Len(q) |-> F(q[i])]
  <2>2. ASSUME \A i \in 1..Len(q) : F(q[i]) = None PROVE IsFirst(G(x), T, None)
    <3>1. \A i \in 1..Len(q) : IsFirst(l[i], T, r[i])
      BY <1>0, <1>4, <1>5, <2>2
    <3>2. IsFirstFound(r, Len(q), None)
      BY <2>2 DEF IsFirstFound
    <3> HIDE DEF r
    <3> QED BY <1>7, <1>12, <1>14, <3>1, <3>2
  <2>3. ASSUME \A i \in 1..Len(q) : F(q[i]) = None,
               F(x) = IF IsVector(parents[x]) THEN atEnd ELSE None
        PROVE  Right(x)
    <3>1. CASE F(x) = None
      BY <2>2, <2>3, <3>1
    <3>2. CASE F(x) # None
      <4>1. IsVector(parents[x]) /\ atEnd = Never /\ F(x) = Never
        BY <2>3, <3>2
      <4>2. x \in ToSet(G(x))
        BY <1>10
      <4>3. \A z \in ToSet(G(x)) : z \notin T
        <5>1. IsFirst(G(x), T, None)
          BY <2>2, <2>3
        <5>2. G(x) \in Seq(exists)
          BY <1>3, LinesAreSeqs
        <5>3. PICK s \in Seq(exists) : s = G(x)
          BY <5>2
        <5>4. \A i \in 1..Len(s) : s[i] \notin T
          <6>1. \A i \in 1..Len(s) : s[i] # None
            BY <1>0, ElementOfSeq
          <6> QED BY <5>1, <5>3, <6>1 DEF IsFirst
        <5>5. DOMAIN s = 1..Len(s)
          OBVIOUS
        <5> QED BY <5>3, <5>4, <5>5 DEF ToSet
      <4> QED BY <4>1, <4>2, <4>3 DEF ComesToVector
    <3> QED BY <3>1, <3>2
  <2>4. ASSUME NEW i \in 1..Len(q), F(q[i]) # None, F(x) = F(q[i]),
               \A j \in 1..Len(q) : j < i => F(q[j]) = None
        PROVE  Right(x)
    <3>1. CASE Stuck(q[i])
      <4>1. ToSet(G(q[i])) \subseteq ToSet(G(x))
        BY <1>5, <1>8, <1>10
      <4> QED BY <2>4, <3>1, <4>1 DEF ComesToVector
    <3>2. CASE IsFirst(G(q[i]), T, F(q[i]))
      <4>0. \A j \in 1..Len(q) : j < i => IsFirst(l[j], T, F(q[j]))
        BY <1>0, <1>4, <1>5, <2>4
      <4>1. PICK c : \A j \in 1..Len(q) : j > i => IsFirst(l[j], T, c[j])
        <5> DEFINE E(j) == CHOOSE p : IsFirst(l[j], T, p)
        <5>1. ASSUME NEW j \in 1..Len(q) PROVE IsFirst(l[j], T, E(j))
          <6>1. l[j] \in Seq(exists)
            BY <1>5, ElementOfSeq
          <6>2. \E p : IsFirst(l[j], T, p)
            BY <6>1, FirstExists
          <6> QED BY <6>2
        <5> DEFINE e == [j \in 1..Len(q) |-> E(j)]
        <5>2. \A j \in 1..Len(q) : IsFirst(l[j], T, e[j])
          <6> HIDE DEF E
          <6> QED BY <5>1
        <5> HIDE DEF e
        <5> QED BY <5>2
      <4> DEFINE t == [j \in 1..Len(q) |-> IF j <= i THEN F(q[j]) ELSE c[j]]
      <4>2. \A j \in 1..Len(q) : IsFirst(l[j], T, t[j])
        <5>1. ASSUME NEW j \in 1..Len(q) PROVE IsFirst(l[j], T, t[j])
          <6>1. CASE j < i
            BY <4>0, <6>1
          <6>2. CASE j = i
            BY <1>5, <3>2, <6>2
          <6>3. CASE j > i
            BY <4>1, <6>3
          <6> QED BY <1>3, <6>1, <6>2, <6>3
        <5> QED BY <5>1
      <4>3. IsFirstFound(t, Len(q), F(q[i]))
        <5>1. t[i] = F(q[i]) /\ \A j \in 1..Len(q) : j < i => t[j] = None
          BY <2>4
        <5> HIDE DEF t
        <5> QED BY <2>4, <5>1 DEF IsFirstFound
      <4>4. IsFirst(FlattenSeq(l), T, F(q[i]))
        <5> HIDE DEF t
        <5> QED BY <1>7, <4>2, <4>3
      <4> QED BY <1>12, <1>14, <2>4, <4>4
    <3> QED BY <1>4, <3>1, <3>2
  <2>5. Right(x)
    <3> HIDE DEF Right, F, G
    <3> QED BY <2>1, <2>3, <2>4
  <2> HIDE DEF Right
  <2> QED BY <1>2, <2>5
<1> QED BY <1>11, <1>13, <1>14

LEMMA LookupsStep == PlaceInv /\ ObjectTypes /\ TablesOK => LookupsAgree
<1> SUFFICES ASSUME PlaceInv, ObjectTypes, TablesOK, Acyclic PROVE LookupsAgree
  BY DEF LookupsAgree
<1>0. /\ exists \subseteq Objects /\ None \notin Objects /\ Never \notin Objects /\ None # Never
      /\ Deepest \in Nat
  BY SearchExists, ObjectsAssumption DEF PlaceInv, None, Never
<1>1. PICK g : IsLine(g) /\ \A o \in Objects : Line(o) = g[Deepest][o]
  BY LineIs
<1>2. ASSUME NEW o \in exists
      PROVE  o \in Objects /\ Line(o) = g[Deepest][o] /\ Line(o) \in Seq(exists) /\ Line(o) \in Seq(Objects)
  <2>1. g[Deepest][o] \in Seq(exists)
    BY <1>1, LinesAreSeqs
  <2>2. PICK s \in Seq(exists) : s = g[Deepest][o]
    BY <2>1
  <2>3. s \in Seq(Objects)
    BY <1>0
  <2> QED BY <1>0, <1>1, <2>2, <2>3
<1>3. ASSUME NEW o \in exists, NEW n \in Names
      PROVE  FindSlot(o, n) = FirstIn(Line(o), LAMBDA x : Has(attributes[x], n))
  <2>1. PICK f : IsSearch(f, HasSlot(n), None) /\ \A x \in Objects : FindSlot(x, n) = f[Deepest][x]
    BY FindSlotIs
  <2>2. IsFirst(g[Deepest][o], HasSlot(n), f[Deepest][o])
    <3>1. HasSlot(n) \subseteq Objects
      BY DEF HasSlot
    <3>2. \/ IsFirst(g[Deepest][o], HasSlot(n), f[Deepest][o])
          \/ None = Never
      BY <1>1, <2>1, <3>1, SearchesAgree
    <3> QED BY <1>0, <3>2
  <2>3. PICK s \in Seq(Objects) : s = Line(o)
    BY <1>2
  <2>4. AtFirst(s, HasSlot(n)) = FindSlot(o, n)
    BY <1>2, <2>1, <2>2, <2>3, AtFirstIs
  <2>5. {i \in 1..Len(s) : Has(attributes[s[i]], n)} = Places(s, HasSlot(n))
    <3>1. \A i \in 1..Len(s) : s[i] \in Objects
      BY ElementOfSeq
    <3> QED BY <3>1 DEF HasSlot, Places
  <2> QED BY <2>3, <2>4, <2>5 DEF FirstIn, SelectInSeq, AtFirst
<1>4. ASSUME NEW o \in exists, NEW n \in Names
      PROVE  \/ FindMethod(o, n) = FirstIn(Line(o), LAMBDA x : Has(methods[x], n))
             \/ /\ FindMethod(o, n) = Never
                /\ \E x \in ToSet(Line(o)) :
                     /\ IsVector(parents[x])
                     /\ \A y \in ToSet(Line(x)) : ~Has(methods[y], n)
  <2>1. PICK f : IsSearch(f, HasMethod(n), Never) /\ \A x \in Objects : FindMethod(x, n) = f[Deepest][x]
    BY FindMethodIs
  <2>2. \/ IsFirst(g[Deepest][o], HasMethod(n), f[Deepest][o])
        \/ /\ f[Deepest][o] = Never
           /\ \E y \in ToSet(g[Deepest][o]) :
                IsVector(parents[y]) /\ \A z \in ToSet(g[Deepest][y]) : z \notin HasMethod(n)
    <3>1. HasMethod(n) \subseteq Objects
      BY DEF HasMethod
    <3>2. Never \in {None, Never}
      OBVIOUS
    <3>3. PICK e \in {None, Never} : e = Never
      BY <3>2
    <3>4. IsSearch(f, HasMethod(n), e)
      BY <2>1, <3>3
    <3>5. \/ IsFirst(g[Deepest][o], HasMethod(n), f[Deepest][o])
          \/ e = Never /\ f[Deepest][o] = Never /\ ComesToVector(g, HasMethod(n), o)
      BY <1>1, <3>1, <3>4, SearchesAgree
    <3> QED BY <3>5 DEF ComesToVector
  <2>3. CASE IsFirst(g[Deepest][o], HasMethod(n), f[Deepest][o])
    <3>1. PICK s \in Seq(Objects) : s = Line(o)
      BY <1>2
    <3>2. AtFirst(s, HasMethod(n)) = FindMethod(o, n)
      BY <1>2, <2>1, <2>3, <3>1, AtFirstIs
    <3>3. {i \in 1..Len(s) : Has(methods[s[i]], n)} = Places(s, HasMethod(n))
      <4>1. \A i \in 1..Len(s) : s[i] \in Objects
        BY ElementOfSeq
      <4> QED BY <4>1 DEF HasMethod, Places
    <3>4. FindMethod(o, n) = FirstIn(Line(o), LAMBDA x : Has(methods[x], n))
      BY <3>1, <3>2, <3>3 DEF FirstIn, SelectInSeq, AtFirst
    <3> QED BY <3>4
  <2>4. ASSUME f[Deepest][o] = Never, NEW y \in ToSet(g[Deepest][o]), IsVector(parents[y]),
               \A z \in ToSet(g[Deepest][y]) : z \notin HasMethod(n)
        PROVE  /\ FindMethod(o, n) = Never /\ y \in ToSet(Line(o))
               /\ \A z \in ToSet(Line(y)) : ~Has(methods[z], n)
    <3>1. ASSUME NEW x \in exists PROVE ToSet(Line(x)) \subseteq exists
      <4>1. PICK s \in Seq(exists) : s = Line(x)
        BY <1>2
      <4>2. DOMAIN s = 1..Len(s) /\ \A i \in 1..Len(s) : s[i] \in exists
        BY ElementOfSeq
      <4> QED BY <4>1, <4>2 DEF ToSet
    <3>2. y \in exists
      BY <1>2, <2>4, <3>1
    <3>3. \A z \in ToSet(Line(y)) : z \in Objects
      BY <1>0, <3>1, <3>2
    <3>4. \A z \in ToSet(Line(y)) : z \notin HasMethod(n)
      BY <1>2, <2>4, <3>2
    <3>5. \A z \in ToSet(Line(y)) : ~Has(methods[z], n)
      BY <3>3, <3>4 DEF HasMethod
    <3> QED BY <1>2, <2>1, <2>4, <3>5
  <2> QED BY <2>2, <2>3, <2>4
<1>5. ASSUME NEW o \in exists, NEW p \in exists
      PROVE  FindAncestor(o, p) = IF p \in ToSet(Line(o)) THEN p ELSE None
  <2>1. PICK f : IsSearch(f, {p}, None) /\ \A x \in Objects : FindAncestor(x, p) = f[Deepest][x]
    BY <1>0, FindAncestorIs
  <2>2. IsFirst(g[Deepest][o], {p}, f[Deepest][o])
    <3>1. {p} \subseteq Objects
      BY <1>0
    <3> QED BY <1>0, <1>1, <2>1, <3>1, SearchesAgree
  <2>3. PICK s \in Seq(exists) : s = Line(o)
    BY <1>2
  <2>4. ToSet(s) = {s[i] : i \in 1..Len(s)}
    BY DEF ToSet
  <2>5. IsFirst(s, {p}, FindAncestor(o, p))
    BY <1>2, <2>1, <2>2, <2>3
  <2>6. FindAncestor(o, p) = IF p \in ToSet(s) THEN p ELSE None
    BY <2>4, <2>5 DEF IsFirst
  <2> QED BY <2>3, <2>6
<1>6. ASSUME NEW o \in exists
      PROVE  \A line \in {Line(o)} :
               /\ \A n \in Names :
                    /\ FindSlot(o, n) = FirstIn(line, LAMBDA x : Has(attributes[x], n))
                    /\ \/ FindMethod(o, n) = FirstIn(line, LAMBDA x : Has(methods[x], n))
                       \/ /\ FindMethod(o, n) = Never
                          /\ \E x \in ToSet(line) :
                               /\ IsVector(parents[x])
                               /\ \A y \in ToSet(Line(x)) : ~Has(methods[y], n)
               /\ \A p \in exists : FindAncestor(o, p) = IF p \in ToSet(line) THEN p ELSE None
  BY <1>3, <1>4, <1>5
<1> QED BY <1>6 DEF LookupsAgree

-----------------------------------------------------------------------------
(* The theorems.                                                           *)

\* What the object primitives keep: containment, the types of all they change, and that
\* every table of slots or methods has each name in its chain, once, and no more names
\* than it counts.
THEOREM ObjectsInvariance == ObjectsSpec => []ObjectsInv
<1>1. Init => ObjectsInv
  <2>1. Init => TablesOK
    BY EmptyWellFormed DEF Init, TablesOK
  <2> QED BY <2>1, InitPlace, InitTypes DEF ObjectsInv
<1>2. ObjectsInv /\ [Next]_ovars => ObjectsInv'
  BY NextPlace, NextTypes, NextTables DEF ObjectsInv
<1> QED BY <1>1, <1>2, PTL DEF ObjectsSpec

\* However many objects there are, and however they inherit from one another: the tables
\* are well formed and, unless the hierarchy has a cycle, slots, methods and isa agree on
\* what an object inherits.
THEOREM LookupsCorrect == ObjectsSpec => []LookupsAgree
<1>1. ObjectsInv => LookupsAgree
  BY LookupsStep DEF ObjectsInv
<1> QED BY <1>1, ObjectsInvariance, PTL

\* A write of a slot by slot-set or add-slot is seen by the object and by those that
\* inherit the slot from it, and by no one else, whatever the hierarchy is.
THEOREM SlotsWrittenBelow == ObjectsSpec => SlotWrites
<1>1. ObjectsInv /\ [Next]_ovars =>
        [attributes' # attributes =>
           \A u \in Users, x \in exists, n \in Names, v \in Values :
              /\ SlotSet(u, x, n, v) =>
                   OnlyBelow(x, n) /\ Slot(x, n)' = {[s EXCEPT !.value = v] : s \in Slot(x, n)}
              /\ AddSlot(u, x, n, v) =>
                   OnlyBelow(x, n) /\ Slot(x, n)' # {} /\ \A s \in Slot(x, n)' : s.value = v]_ovars
  BY SlotWritesStep DEF ObjectsInv
<1> QED BY <1>1, ObjectsInvariance, PTL DEF ObjectsSpec, SlotWrites
=============================================================================
