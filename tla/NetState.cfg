SPECIFICATION Spec
CONSTANTS
    run1 = run1  run2 = run2  fixer = fixer
    svc1 = svc1
    corp = corp  mitm = mitm  self1 = self1  self2 = self2
    Off = Off    NoJob = NoJob
    Runs <- MCRuns
    Repairers <- MCRepairers
    Services <- MCServices
    Primary <- MCPrimary
    Absolute <- MCAbsolute
    Adoptable <- MCAdoptable
    UserVals <- MCUserVals
    UserLoopback <- MCLoopback
    Listener <- MCListener
    MaxSeq = 2
    MaxFaults = 1
    MaxOutside = 1
    Hazards = {}
INVARIANTS TypeOK ResidueIsJournalled UserValueRecoverable NeverRestoresAListener
SYMMETRY Symmetry
\* a run that has exited, with nothing to replay, is the end of the story
CHECK_DEADLOCK FALSE
