SPECIFICATION ChainSpec
CONSTANTS
  Trajectories = {t1}
  TrajectoryHandlers = {g1, g2}
  NoTrajectory = NoTrajectory
  Runs = {r1}
  InputsOf <- AllInputs
  NozomiErrorCodes = {"ARTIFACT_UPLOAD_FAILED"}
  Handlers = {h1, h2}
  NoRun = NoRun
SYMMETRY HandlerSymmetry
INVARIANTS
  TrajectoryTypeOK
  TrajectoryAnswersHold
  HeatmapTypeOK
  CompletedHasArtifacts
  AnswersHold
  InputsStayCompleted
PROPERTIES
  TrajectoryLifeCycle
  OneLifeCycle
CHECK_DEADLOCK FALSE
