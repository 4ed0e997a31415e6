SPECIFICATION Spec
CONSTANT Jobs <- MCJobs
INVARIANT ExitIsClean ChangesAreCovered NothingPointsNowhere
PROPERTY StopEnds
CHECK_DEADLOCK FALSE
