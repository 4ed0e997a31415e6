SPECIFICATION FairSpec
CONSTANTS
    Workloads <- DnsResidue
    MaxFaults = 1
    MaxOutside = 1
PROPERTY RevertConverges
\* a machine with nothing left to undo is the end of the story
CHECK_DEADLOCK FALSE
