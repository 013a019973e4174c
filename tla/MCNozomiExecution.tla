------------------------- MODULE MCNozomiExecution -------------------------
(* Small instances of NozomiExecution for TLC.                             *)
EXTENDS NozomiExecution, TLC

ItemSymmetry == Permutations(Items)
=============================================================================
