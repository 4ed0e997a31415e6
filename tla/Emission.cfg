SPECIFICATION EmitSpec
CONSTANTS
    f1 = f1  f2 = f2  Absent = Absent
    Flows <- MCFlows
    Cases <- MCCases
    ChunkSizes <- MCChunkSizes
    Periods <- MCPeriods
    MaxSegments = 4
    Burst = 4
INVARIANTS StreamIsTheClients  HopLimitRestored
CHECK_DEADLOCK FALSE
