------------------------ MODULE MCPositioningAnalysis ------------------------
(* Small instances of PositioningAnalysis for TLC.                         *)
EXTENDS PositioningAnalysis, TLC

CONSTANTS i1, i2, run, w1, w2

OneRun    == [i \in Items |-> run]
Artifacts == {i1}

AllArtifacts == Items

ItemSymmetry == Permutations(Items)
=============================================================================
