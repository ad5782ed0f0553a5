--------------------------- MODULE MCCheckpoint ----------------------------
(* Model-checking instances of Checkpoint.                                 *)
EXTENDS Checkpoint
=============================================================================
