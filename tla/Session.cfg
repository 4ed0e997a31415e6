SPECIFICATION Spec
CONSTANTS
  Conns = {c1, c2}
  Jobs <- MCJobs
  MaxConns = 1
  ReverseMax = 2
  FirstByteWait = 2
  CompleteWait = 2
  MaxAssembly = 3
  Folded <- MCFolded
  Lowered <- MCLowered
  Bogons <- MCBogons
  Loopback <- MCLoopback
  V6 <- MCV6
INVARIANT StreamsAreWhole
 
INVARIANT DrainIsFinal
PROPERTY SteadyHelloIsWhole
PROPERTY RelayEnds
CHECK_DEADLOCK FALSE
