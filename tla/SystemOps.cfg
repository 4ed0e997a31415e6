SPECIFICATION FairSpec
CONSTANTS
    Workloads <- MCWorkloads
    MaxFaults = 1
    MaxOutside = 1
INVARIANT UserGetsThemBack
PROPERTY Promised RevertConverges
\* a machine with nothing left to undo is the end of the story
CHECK_DEADLOCK FALSE
