SPECIFICATION TuneSpec
CONSTANTS
  Jobs <- MCJobs
  Registry <- MCRegistry
  DefaultReps = 2
  ConfidentTargets = 2
  ConfidentReps = 2
  MaxTrials = 6
INVARIANT NoInventedWinner HarmIsSeen  ProfileIsWhole
CHECK_DEADLOCK FALSE
