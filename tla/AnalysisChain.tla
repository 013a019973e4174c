---------------------------- MODULE AnalysisChain ----------------------------
(***************************************************************************)
(* Trajectories and the stay heatmaps drawn over them.  createStayHeatmap  *)
(* reads its trajectories, which must be completed and not deleted, before *)
(* the transaction that inserts the run: a trajectory may be deleted in    *)
(* between, and at any time after.                                         *)
(***************************************************************************)
EXTENDS TrajectoryAnalysis, StayHeatmap

(* analysis_run_trajectories refers to trajectories.                       *)
ASSUME ChainConstantsOK == \A r \in Runs : InputsOf[r] \subseteq Trajectories

VARIABLE validated      \* runs whose trajectories createStayHeatmap has read

chainVars == <<trajectoryVars, heatmapVars, validated>>

ChainInit == TrajectoryInit /\ HeatmapInit /\ validated = {}

(* Mutant: the status of the trajectory is not looked at.                  *)
AnyTrajectory(t) == tStatus[t] # "absent" /\ t \notin deleted

(* findTrajectoryById hides a deleted trajectory.                          *)
Usable(t) == tStatus[t] = "completed" /\ t \notin deleted

ValidateInputs(r) ==
    /\ r \notin validated
    /\ \A t \in InputsOf[r] : Usable(t)
    /\ validated' = validated \cup {r}
    /\ UNCHANGED <<trajectoryVars, heatmapVars>>

(* A run is only created for validated trajectories.                       *)
HeatmapStep ==
    /\ HeatmapNext
    /\ \A r \in Runs : status[r] = "absent" /\ status'[r] # "absent" => r \in validated
    /\ UNCHANGED <<trajectoryVars, validated>>

ChainNext ==
    \/ TrajectoryNext /\ UNCHANGED <<heatmapVars, validated>>
    \/ \E r \in Runs : ValidateInputs(r)
    \/ HeatmapStep

ChainSpec == ChainInit /\ [][ChainNext]_chainVars

(* Every heatmap run, finished or not, has inputs that are completed and   *)
(* whose result can still be downloaded, deleted or not.                   *)
InputsStayCompleted ==
    \A r \in Runs : status[r] # "absent" =>
        \A t \in InputsOf[r] : tStatus[t] = "completed" /\ t \in results
==============================================================================
