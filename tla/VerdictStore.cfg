SPECIFICATION Spec
CONSTANTS
    w1 = w1  w2 = w2  cli = cli
    home = home  cafe = cafe  bank = bank  blocked = blocked
    Workers <- MCWorkers
    Tools <- MCTools
    Nets <- MCNets
    Hosts <- MCHosts
    Kinds <- MCKinds
    DefaultNet = home
    HostCap = 1
    NetworkCap = 1
    DemoteThreshold = 2
    FlushPending = 2
    TTL = 0
    MaxTime = 1
    MaxUpdates = 2
    MaxFaults = 1
INVARIANTS CleanMeansSaved
PROPERTIES PutIsVisible
SYMMETRY Symmetry
