------------------------- MODULE MCCheckpointFiles -------------------------
(* Model-checking instances of CheckpointFiles.                            *)
EXTENDS CheckpointFiles
=============================================================================
