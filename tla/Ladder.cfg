SPECIFICATION FairSpec
CONSTANTS
    c1 = c1  c2 = c2  home = home  cafe = cafe
    NoConn = NoConn
    NoSpec = NoSpec
    Conns <- Two
    Nets <- TwoNets
    Specs <- MCSpecs
    Plain = "plain"
    BaseLadder <- FragFirst
    Risky <- MCRisky
    Kinds <- MCKinds
    Applies <- MCApplies
    Replayable <- MCReplayable
    Cached <- MCCached
    Home = home
    MaxAttempts = 2
    DemoteThreshold = 2
    MaxVisits = 2
    MaxRoams = 1
CHECK_DEADLOCK FALSE
INVARIANTS DesyncIsEarned LearnedFromEvidence 
PROPERTIES EveryoneReturns
