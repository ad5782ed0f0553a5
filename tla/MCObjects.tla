----------------------------- MODULE MCObjects ------------------------------
(* Model-checking instance of the object model.  Where objects are, what    *)
(* they inherit and who may change them hardly depend on one another, so    *)
(* that they are looked at one at a time, each as far as it goes.           *)
EXTENDS Objects

MCChainOf == [n \in Names |-> 1]

\* Everything is open to all, or nothing to anybody.
MCFlagChoices == {Settable, {}}

AsMade(o) == flags[o] = OwnerMask /\ group[o] = {}
PlacedByMaker == \A o \in exists : location[o] = owner[o]
ClonesOfRoot == \A o \in exists : parents[o] \in {Null, Root}
AnyValue == CHOOSE v \in Values : TRUE
OneName == CHOOSE n \in Names : TRUE
Made(n, f) == [name |-> n, flags |-> f, owner |-> Null, value |-> AnyValue]
LinksAsMade == {Made(OneName, f) : f \in {OwnerMask, PermsMask \cup {Setuid}}}

\* With at most one slot or method, which may have been cleared.
TablesAsMade ==
    {EmptyTable} \cup {Put(EmptyTable, l) : l \in LinksAsMade}
    \cup {Remove1(Put(EmptyTable, l), l.name) : l \in LinksAsMade}

OnlyOneName == \A o \in exists, n \in Names \ {OneName} : ~Has(attributes[o], n) /\ ~Has(methods[o], n)
OneKindUsed == (\A o \in exists : attributes[o].count = 0) \/ (\A o \in exists : methods[o].count = 0)
NoneUsed == \A o \in exists : attributes[o].count = 0 /\ methods[o].count = 0

MaxCount == 3
MaxChanges == 3

\* Owners, and who is where.
Places == NoneUsed /\ ClonesOfRoot /\ \A o \in exists : AsMade(o)

\* Any hierarchy of two objects below Root: if it has no cycles, with slots or with methods.
Inheritance ==
    /\ owner[Root] = Null /\ parents[Root] = Null /\ PlacedByMaker
    /\ \A o \in exists : AsMade(o) /\ owner[o] = Null /\ {attributes[o], methods[o]} \subseteq TablesAsMade
    /\ OneKindUsed /\ (NoneUsed \/ Acyclic)

\* One object whose table of slots is put to use, with names that share a chain.
Chaining ==
    /\ exists = {Root} /\ AsMade(Root) /\ owner[Root] = Null /\ location[Root] = Null
    /\ parents[Root] = Null /\ methods[Root].count = 0 /\ attributes[Root].count <= MaxCount
    /\ \A n \in Names : Has(attributes[Root], n) => Get(attributes[Root], n).owner = Null

\* Who may change what: at most MaxChanges things are not as the boot scripts make them.
Changes(o) ==
    LET Changed(t, n) == Has(t, n) /\ Get(t, n) \notin LinksAsMade IN
    Cardinality({f \in {"owner"} : owner[o] # Null}) + Cardinality({f \in {"access"} : ~AsMade(o)})
    + attributes[o].count + Cardinality({n \in Names : Changed(attributes[o], n)})
    + methods[o].count + Cardinality({n \in Names : Changed(methods[o], n)})

Permissions ==
    /\ exists \subseteq Users \cup {Root} /\ parents[Root] = Null /\ ClonesOfRoot
    /\ PlacedByMaker /\ OneKindUsed /\ OnlyOneName
    /\ FoldSet(LAMBDA o, sum : Changes(o) + sum, 0, exists) <= MaxChanges

MCSpec == Init /\ [][Next /\ (Places \/ Inheritance \/ Chaining \/ Permissions)']_ovars
=============================================================================
