------------------------------ MODULE MCHeap -------------------------------
(* Model-checking instances of the heap: `a' is a prefix of `ab', and both *)
(* are in the second of two buckets.                                       *)
EXTENDS Persist, TLC

MCNames == {"a", "ab"}
MCHashOf == [n \in MCNames |-> 2]
MCPrefixOf == {<<"a", "a">>, <<"ab", "ab">>, <<"a", "ab">>}
MCSymmetry == Permutations(Cells) \cup Permutations(Registers)
=============================================================================
