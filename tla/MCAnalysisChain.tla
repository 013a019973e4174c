--------------------------- MODULE MCAnalysisChain ---------------------------
(* Small instances of AnalysisChain for TLC.                               *)
EXTENDS AnalysisChain, TLC

AllInputs == [r \in Runs |-> Trajectories]

HandlerSymmetry == Permutations(Handlers) \cup Permutations(TrajectoryHandlers)
==============================================================================
