----------------------------- MODULE HashTables -----------------------------
(***************************************************************************)
(* The hash tables of hashtable.c, which hold the slots and the methods of *)
(* an object.  A table is the chain of each bucket, head first, and the    *)
(* count in its element 0.  The links are the slots or methods themselves, *)
(* records with a name.                                                    *)
(***************************************************************************)
EXTENDS Naturals, SequencesExt

CONSTANTS Names, NumChains, ChainOf, Null

Chains == 1..NumChains

ASSUME HashAssumption == NumChains \in Nat \ {0} /\ ChainOf \in [Names -> Chains]

EmptyTable == [chain |-> [h \in Chains |-> << >>], count |-> 0]

\* The places in its chain of the link with that name.
PlacesOf(t, n) == LET c == t.chain[ChainOf[n]] IN {i \in DOMAIN c : c[i].name = n}

Has(t, n) == PlacesOf(t, n) # {}

\* hashtable_get, of a name that is there.
Get(t, n) == t.chain[ChainOf[n]][Min(PlacesOf(t, n))]

\* hashtable_put: in the place of the old link, or at the head.
Put(t, link) ==
    LET h == ChainOf[link.name] IN
    IF Has(t, link.name)
      THEN [t EXCEPT !.chain[h] = ReplaceAt(@, Min(PlacesOf(t, link.name)), link)]
      ELSE [chain |-> [t.chain EXCEPT ![h] = <<link>> \o @], count |-> t.count + 1]

\* hashtable_remove leaves the count as it is.
Remove1(t, n) ==
    IF Has(t, n) THEN [t EXCEPT !.chain[ChainOf[n]] = RemoveAt(@, Min(PlacesOf(t, n)))] ELSE t

\* What enumerate_keys writes into its vector, which has room for count names.
Keys(t) == LET all == FlattenSeq([h \in Chains |-> t.chain[h]])
           IN  [i \in DOMAIN all |-> all[i].name]

\* Each name is in its own chain, once, and there is room for all in the vector
\* of enumerate_keys.
WellFormed(t) ==
    /\ \A h \in Chains : \A i \in DOMAIN t.chain[h] : ChainOf[t.chain[h][i].name] = h
    /\ \A h \in Chains : \A i, j \in DOMAIN t.chain[h] :
         t.chain[h][i].name = t.chain[h][j].name => i = j
    /\ Len(Keys(t)) <= t.count
=============================================================================
