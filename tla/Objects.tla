------------------------------ MODULE Objects -------------------------------
(***************************************************************************)
(* The object model: newobject of object.c and the primitives of           *)
(* PRIM.object.c that clone and move objects, change their parents, owner, *)
(* group and flags, and define, find and change their slots and methods    *)
(* (slot.c, method.c) under the permissions of perms.h.  The primitives    *)
(* lock and unlock are in MoveThreads.                                     *)
(*                                                                         *)
(* A primitive runs within one instruction, so each is one action.  One    *)
(* that refuses changes nothing here and is left out.  u is the effective  *)
(* user of the thread, vm_effuid.                                          *)
(***************************************************************************)
EXTENDS HashTables

CONSTANTS
    Objects, Root,
    Users,              \* effective users: objects, or Null for the boot scripts
    Values,             \* of slots; bodies of methods
    FlagChoices,        \* arguments of the primitives that set flags
    Groups,             \* and of set-group
    MaxParents          \* bound: the longest vector of parents

None == <<"none">>      \* a search that finds nothing
Never == <<"never">>    \* and one that does not end

ASSUME ObjectsAssumption ==
    /\ Root \in Objects /\ Null \notin Objects /\ {None, Never} \cap Objects = {}
    /\ Users \subseteq Objects \cup {Null}
    /\ Groups \subseteq SUBSET Objects /\ MaxParents \in Nat
    /\ IsFiniteSet(Objects)
    \* An object is not a vector.
    /\ (Objects \cup {Null}) \cap BoundedSeq(Objects, MaxParents) = {}

VARIABLES
    exists,             \* the objects made so far
    owner, group, location,
    contents,           \* a list, newest first
    parents,            \* NULL, an object, or a vector of objects
    flags,
    attributes, methods,
    lost                \* the server is in a search that does not end

place == <<exists, owner, location, contents>>
access == <<group, flags>>
ovars == <<place, access, parents, attributes, methods, lost>>

-----------------------------------------------------------------------------
(* Permissions, perms.h.  A permission is who may do what.                 *)

OwnerMask == {"owner"} \X {"R", "W", "X"}
PermsMask == {"owner", "group", "world"} \X {"R", "W", "X"}
C == <<"any", "C">>
Setuid == <<"method", "setuid">>
PrivilegedFlag == <<"object", "privileged">>
Settable == PermsMask \cup {C}

Privileged(u) == u \in {Null} \cup {o \in Objects : PrivilegedFlag \in flags[o]}

\* O_CAN_R, O_CAN_W, O_CAN_X
OCan(x, u, p) ==
    \/ <<"world", p>> \in flags[x]
    \/ u = owner[x] /\ <<"owner", p>> \in flags[x]
    \/ u \in group[x] /\ <<"group", p>> \in flags[x]
    \/ Privileged(u)

\* MS_CAN_R, MS_CAN_W, MS_CAN_X of a slot or method; groups play no part.
MSCan(s, u, p) ==
    \/ <<"world", p>> \in s.flags
    \/ u = s.owner /\ <<"owner", p>> \in s.flags
    \/ Privileged(u)

\* MS_CAN_C
MSCanC(s, u) == u = s.owner \/ C \in s.flags \/ Privileged(u)

\* check_clonable
Clonable(u, x) == C \in flags[x] \/ u = owner[x] \/ Privileged(u)

-----------------------------------------------------------------------------
(* Searching an object and what it inherits from, depth first.             *)

IsVector(p) == p \notin Objects \cup {Null}

Parents(o) == CASE parents[o] = Null -> << >> [] IsVector(parents[o]) -> parents[o]
                [] OTHER -> <<parents[o]>>

\* Mutant: later parents come before earlier ones.
FirstOf_last(results, otherwise) ==
    LET found == {i \in DOMAIN results : results[i] # None}
    IN  IF found = {} THEN otherwise ELSE results[Max(found)]

\* The first that is not None.
FirstOf(results, otherwise) ==
    LET found == {i \in DOMAIN results : results[i] # None}
    IN  IF found = {} THEN otherwise ELSE results[Min(found)]

\* What a search makes of a vector of parents none of which has it.
\* findslot breaks out of its loop; findmethod starts over with the same object.
EndOfSlots == None
EndOfMethods == Never

\* The object that passes.  A search deeper than there are objects has come
\* back to one of them, and does so again and again.
Search(Passes(_), atEnd) ==
    LET from[depth \in 0..Cardinality(Objects)] == [o \in Objects |->
            IF Passes(o) THEN o ELSE
            CASE parents[o] = Null -> None
              [] parents[o] # Null /\ depth = 0 -> Never
              [] OTHER -> FirstOf([i \in DOMAIN Parents(o) |-> from[depth - 1][Parents(o)[i]]],
                                  IF IsVector(parents[o]) THEN atEnd ELSE None)]
    IN  from[Cardinality(Objects)]

\* findslot, findmethod and real_isa.
FindSlot(o, n) == Search(LAMBDA x : Has(attributes[x], n), EndOfSlots)[o]
FindMethod(o, n) == Search(LAMBDA x : Has(methods[x], n), EndOfMethods)[o]
FindAncestor(o, p) == Search(LAMBDA x : x = p, None)[o]

-----------------------------------------------------------------------------
Init ==
    \* setup_ancestor
    /\ exists = {Root}
    /\ owner = [o \in Objects |-> Null] /\ group = [o \in Objects |-> {}]
    /\ location = [o \in Objects |-> Null] /\ contents = [o \in Objects |-> << >>]
    /\ parents = [o \in Objects |-> Null] /\ flags = [o \in Objects |-> OwnerMask]
    /\ attributes = [o \in Objects |-> EmptyTable]
    /\ methods = [o \in Objects |-> EmptyTable]
    /\ lost = FALSE

Prim(u) == ~lost /\ UNCHANGED lost /\ u \in Users \cap (exists \cup {Null})

\* CONS(link, o, dest->contents); dest->contents = link;
Entered(cs, o, dest) == IF dest = Null THEN cs ELSE [cs EXCEPT ![dest] = <<o>> \o @]

\* Mutant: only the head of the list is looked at.
Left_head(cs, o, loc) ==
    IF loc # Null /\ Head(cs[loc]) = o THEN [cs EXCEPT ![loc] = Tail(@)] ELSE cs

\* contents_remove
Left(cs, o, loc) == IF loc = Null THEN cs ELSE [cs EXCEPT ![loc] = RemoveFirst(@, o)]

\* What clone and set-parents take: an object or a vector of objects.
ParentChoices == exists \cup BoundedSeq(exists, MaxParents)

Elements(p) == IF IsVector(p) THEN ToSet(p) ELSE {p}

\* cloneFun and newobject.
Clone(u, p) ==
    /\ Prim(u) /\ \A x \in Elements(p) : Clonable(u, x)
    /\ \E o \in Objects \ exists :
        /\ exists' = exists \cup {o}
        /\ parents' = [parents EXCEPT ![o] = p]
        /\ owner' = [owner EXCEPT ![o] = u]
        /\ location' = [location EXCEPT ![o] = u]
        /\ contents' = Entered(contents, o, u)
        /\ group' = [group EXCEPT ![o] = IF u = Null THEN {} ELSE group[u]]
    /\ UNCHANGED <<flags, attributes, methods>>

\* moveToFun
MoveTo(u, o, dest) ==
    /\ Prim(u) /\ Privileged(u)
    /\ contents' = Entered(Left(contents, o, location[o]), o, dest)
    /\ location' = [location EXCEPT ![o] = dest]
    /\ UNCHANGED <<exists, owner, access, parents, attributes, methods>>

SetParents(u, x, p) ==
    /\ Prim(u) /\ Privileged(u) /\ \A y \in Elements(p) : Clonable(u, y)
    /\ parents' = [parents EXCEPT ![x] = p]
    /\ UNCHANGED <<place, access, attributes, methods>>

SetOwner(u, x, w) ==
    /\ Prim(u) /\ Privileged(u)
    /\ owner' = [owner EXCEPT ![x] = w]
    /\ UNCHANGED <<exists, location, contents, access, parents, attributes, methods>>

SetGroup(u, x, g) ==
    /\ Prim(u) /\ Privileged(u)
    /\ group' = [group EXCEPT ![x] = g]
    /\ UNCHANGED <<place, flags, parents, attributes, methods>>

SetPrivileged(u, x, on) ==
    /\ Prim(u) /\ Privileged(u)
    /\ flags' = [flags EXCEPT ![x] = IF on THEN @ \cup {PrivilegedFlag} ELSE @ \ {PrivilegedFlag}]
    /\ UNCHANGED <<place, group, parents, attributes, methods>>

SetObjectFlags(u, x, f) ==
    /\ Prim(u) /\ (u = owner[x] \/ Privileged(u))
    /\ flags' = [flags EXCEPT ![x] = (@ \ Settable) \cup (f \cap Settable)]
    /\ UNCHANGED <<place, group, parents, attributes, methods>>

-----------------------------------------------------------------------------
(* Slots.                                                                  *)

SlotsOnly == UNCHANGED <<place, access, parents, methods>>

\* The slot n that x has or inherits, if there is one.
Slot(x, n) == {Get(attributes[y], n) : y \in {FindSlot(x, n)} \cap Objects}

\* A slot of x itself: changed if it is there, made if it is not.
SetLink(x, s) == attributes' = [attributes EXCEPT ![x] = Put(@, s)]

\* Mutant: the slot is changed where it was found.
SlotSet_shared(u, x, n, v) ==
    /\ Prim(u) /\ OCan(x, u, "X") /\ SlotsOnly
    /\ \E s \in Slot(x, n) : MSCan(s, u, "W") /\ SetLink(FindSlot(x, n), [s EXCEPT !.value = v])

\* slotSetFun: an inherited slot is copied, with its owner and its flags.
SlotSet(u, x, n, v) ==
    /\ Prim(u) /\ OCan(x, u, "X") /\ SlotsOnly
    /\ \E s \in Slot(x, n) : MSCan(s, u, "W") /\ SetLink(x, [s EXCEPT !.value = v])

NewSlot(u, n, v) == [name |-> n, flags |-> OwnerMask, owner |-> u, value |-> v]

\* addSlotFun: a slot of x itself keeps its flags.
AddSlot(u, x, n, v) ==
    /\ Prim(u) /\ OCan(x, u, "W") /\ SlotsOnly
    /\ FindSlot(x, n) # Never /\ \A s \in Slot(x, n) : MSCanC(s, u)
    /\ IF Has(attributes[x], n)
         THEN SetLink(x, [Get(attributes[x], n) EXCEPT !.owner = u, !.value = v])
         ELSE SetLink(x, NewSlot(u, n, v))

SetSlotOwner(u, x, n, w) ==
    /\ Prim(u) /\ Privileged(u) /\ SlotsOnly
    /\ \E s \in Slot(x, n) : SetLink(x, [s EXCEPT !.owner = w])

SetSlotFlags(u, x, n, f) ==
    /\ Prim(u) /\ OCan(x, u, "X") /\ SlotsOnly
    /\ \E s \in Slot(x, n) :
        (u = s.owner \/ Privileged(u)) /\ SetLink(x, [s EXCEPT !.flags = f \cap Settable])

\* clearSlotFun
ClearSlot(u, x, n) ==
    /\ Prim(u) /\ OCan(x, u, "W")
    /\ attributes' = [attributes EXCEPT ![x] = Remove1(@, n)]
    /\ SlotsOnly

-----------------------------------------------------------------------------
(* Methods.                                                                *)

MethodsOnly == UNCHANGED <<place, access, parents, attributes>>

Method(x, n) == {Get(methods[y], n) : y \in {FindMethod(x, n)} \cap Objects}

\* addMethFun and addmethod, of a closure with the body v.
AddMethod(u, x, n, v) ==
    /\ Prim(u) /\ OCan(x, u, "W")
    /\ FindMethod(x, n) # Never /\ \A m \in Method(x, n) : MSCanC(m, u)
    /\ methods' = [methods EXCEPT ![x] =
            Put(@, [name |-> n, flags |-> PermsMask \cup {Setuid}, owner |-> u, value |-> v])]
    /\ MethodsOnly

\* A closure of the method is at hand.  One of a method that has been replaced
\* or removed changes nothing here.
ChangeMethod(x, n, m) ==
    /\ methods' = [methods EXCEPT ![x] = Put(@, m)]
    /\ MethodsOnly

SetMethodOwner(u, x, n, w) ==
    /\ Prim(u) /\ Has(methods[x], n) /\ Privileged(u)
    /\ ChangeMethod(x, n, [Get(methods[x], n) EXCEPT !.owner = w])

SetMethodFlags(u, x, n, f) ==
    /\ Prim(u) /\ Has(methods[x], n) /\ (u = Get(methods[x], n).owner \/ Privileged(u))
    /\ ChangeMethod(x, n, [Get(methods[x], n) EXCEPT !.flags = (@ \ Settable) \cup (f \cap Settable)])

\* strip-object-clean, strip-object-methods and strip-object-slots.
Strip(u, x, what) ==
    /\ Prim(u) /\ (u = owner[x] \/ Privileged(u))
    /\ flags' = IF what = "clean" THEN [flags EXCEPT ![x] = OwnerMask] ELSE flags
    /\ methods' = IF what = "slots" THEN methods ELSE [methods EXCEPT ![x] = EmptyTable]
    /\ attributes' = IF what = "methods" THEN attributes ELSE [attributes EXCEPT ![x] = EmptyTable]
    /\ UNCHANGED <<place, group, parents>>

\* A call of a method, isa, or a primitive that looks for a slot.
SearchForEver ==
    /\ ~lost /\ lost' = TRUE
    /\ \E x \in exists, n \in Names :
        \/ FindMethod(x, n) = Never
        \/ \E y \in exists : FindAncestor(x, y) = Never
        \/ /\ FindSlot(x, n) = Never
           /\ \E u \in Users \cap (exists \cup {Null}), p \in {"R", "W", "X"} : OCan(x, u, p)
    /\ UNCHANGED <<place, access, parents, attributes, methods>>

-----------------------------------------------------------------------------
Next ==
    \/ SearchForEver
    \/ \E u \in Users, p \in ParentChoices : Clone(u, p) \/ \E x \in exists : SetParents(u, x, p)
    \/ \E u \in Users, x \in exists :
        \/ \E w \in exists : SetOwner(u, x, w) \/ MoveTo(u, x, w)
        \/ MoveTo(u, x, Null)
        \/ \E g \in Groups : SetGroup(u, x, g)
        \/ \E on \in BOOLEAN : SetPrivileged(u, x, on)
        \/ \E f \in FlagChoices : SetObjectFlags(u, x, f)
        \/ \E what \in {"clean", "slots", "methods"} : Strip(u, x, what)
        \/ \E n \in Names :
            \/ ClearSlot(u, x, n)
            \/ \E v \in Values : SlotSet(u, x, n, v) \/ AddSlot(u, x, n, v) \/ AddMethod(u, x, n, v)
            \/ \E w \in exists : SetSlotOwner(u, x, n, w) \/ SetMethodOwner(u, x, n, w)
            \/ \E f \in FlagChoices : SetSlotFlags(u, x, n, f) \/ SetMethodFlags(u, x, n, f)

ObjectsSpec == Init /\ [][Next]_ovars

-----------------------------------------------------------------------------
(* Properties.                                                             *)

\* The two directions of containment agree: the contents of an object are the
\* objects that are located in it, each of them once.
ContentsAgree ==
    \A o \in Objects :
       /\ \A i, j \in 1..Len(contents[o]) : contents[o][i] = contents[o][j] => i = j
       /\ {contents[o][i] : i \in 1..Len(contents[o])} = {x \in Objects : location[x] = o}

TablesOK == \A o \in Objects : WellFormed(attributes[o]) /\ WellFormed(methods[o])

\* The hierarchy has no cycles: in every set of objects is one with no parent in it.
Acyclic == \A S \in (SUBSET exists) \ {{}} : \E x \in S : ToSet(Parents(x)) \cap S = {}

\* An object and what it inherits from, in the order of inheritance.
Line(o) ==
    LET from[depth \in 0..Cardinality(Objects)] == [x \in Objects |->
            IF depth = 0 THEN << >>
            ELSE <<x>> \o FlattenSeq([i \in DOMAIN Parents(x) |-> from[depth - 1][Parents(x)[i]]])]
    IN  from[Cardinality(Objects)][o]

FirstIn(s, Passes(_)) ==
    LET i == SelectInSeq(s, Passes) IN IF i = 0 THEN None ELSE s[i]

\* In the tables of slots and methods a name is in the chain that is searched for
\* it, once, and enumerate_keys stays within the vector that it made for `count' names.
\* Unless the hierarchy has a cycle, slots, methods and isa agree on what an
\* object inherits: the first in its line that has it.  One thing only never
\* ends: looking for a method in an object with a vector of parents that does not
\* have or inherit it, even on the way to one that does.
LookupsAgree ==
    /\ TablesOK
    /\ Acyclic => \A o \in exists : \A line \in {Line(o)} :
       /\ \A n \in Names :
            /\ FindSlot(o, n) = FirstIn(line, LAMBDA x : Has(attributes[x], n))
            /\ \/ FindMethod(o, n) = FirstIn(line, LAMBDA x : Has(methods[x], n))
               \/ /\ FindMethod(o, n) = Never
                  /\ \E x \in ToSet(line) :
                       /\ IsVector(parents[x])
                       /\ \A y \in ToSet(Line(x)) : ~Has(methods[y], n)
       /\ \A p \in exists : FindAncestor(o, p) = IF p \in ToSet(line) THEN p ELSE None

\* What a step changes of slots is the slot n of x and of those that inherit it from x.
OnlyBelow(x, n) ==
    \A y \in exists, m \in Names : Slot(y, m)' # Slot(y, m) => m = n /\ FindAncestor(y, x) = x

\* slot-set and add-slot do what they say and no more: the slot has the new value
\* in x, what changes elsewhere changes by inheritance from x, and
\* slot-set hands the slot's owner and permissions on to its copy.
SlotWrites ==
    [][attributes' # attributes =>
       \A u \in Users, x \in exists, n \in Names, v \in Values :
          /\ SlotSet(u, x, n, v) =>
               OnlyBelow(x, n) /\ Slot(x, n)' = {[s EXCEPT !.value = v] : s \in Slot(x, n)}
          /\ AddSlot(u, x, n, v) =>
               OnlyBelow(x, n) /\ Slot(x, n)' # {} /\ \A s \in Slot(x, n)' : s.value = v]_ovars

-----------------------------------------------------------------------------
\* What keeps ContentsAgree: an object that does not exist yet is nowhere.
PlaceInv ==
    /\ exists \subseteq Objects
    /\ location \in [Objects -> exists \cup {Null}] /\ contents \in [Objects -> Seq(exists)]
    /\ \A o \in Objects : o \notin exists => location[o] = Null
    /\ ContentsAgree

\* A slot or a method, and a table of them.
Links == [name : Names, flags : SUBSET (Settable \cup {Setuid}),
          owner : Objects \cup {Null}, value : Values]

Tables == [chain : [Chains -> Seq(Links)], count : Nat]

\* Whoever inherits does so from an object that exists.
ObjectTypes ==
    /\ owner \in [Objects -> exists \cup {Null}] /\ group \in [Objects -> SUBSET Objects]
    /\ parents \in [Objects -> exists \cup {Null} \cup BoundedSeq(exists, MaxParents)]
    /\ flags \in [Objects -> SUBSET (Settable \cup {PrivilegedFlag})]
    /\ attributes \in [Objects -> Tables] /\ methods \in [Objects -> Tables]
    /\ lost \in BOOLEAN

\* What every sequence of primitives keeps.
ObjectsInv == PlaceInv /\ ObjectTypes /\ TablesOK
=============================================================================
