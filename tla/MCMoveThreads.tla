--------------------------- MODULE MCMoveThreads ---------------------------
(* Model-checking instances of MoveThreads.                                *)
EXTENDS MoveThreads, TLC

\* Objects and connections are interchangeable; thread numbers are not.
Symmetry == Permutations(Objects) \cup Permutations(Conns \ Listeners)
=============================================================================
