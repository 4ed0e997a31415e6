SPECIFICATION Spec
CONSTANTS
    a1 = a1  a2 = a2  home = home  cafe = cafe
    blocked1 = blocked1  blocked2 = blocked2  arpa = arpa  None = None
    Asks <- MCAsks
    Questions <- MCQuestions
    Workloads <- MCWorkloads
    Served <- MCServed
    Empty <- MCEmpty
    Lies <- MCLies
    Start = {home}
    Probes <- MCProbes
    NatProbe = arpa
    Rungs <- MCRungs
    Nets <- MCNets
    Censored = {home}
    Nat64Nets = {cafe}
    V4Nets = {home, cafe}
    Quorum = 2
    PerTry = 2
    Deadline = 2
    CacheMax = 1
    SetCap = 9
    InFlightMax = 1
    V6Protected = FALSE
    V6Host = FALSE
INVARIANTS PoisonStaysOut EveryEncryptedRungAsked
PROPERTIES EveryQuestionEnds StaleAnswersDieOut
CHECK_DEADLOCK FALSE
