CONSTANTS
    SignBit = 8
    MaxMem = 3
    Workers = {w1, w2}
    Keys = {k1, k2}
    Buffers = {b1, b2, b3}
    Null = Null
    Free = Free
    MaxRequests = 4
    Payloads <- MCPayloads
    SizeOf <- MCSizeOf
SPECIFICATION Spec
INVARIANTS
    FaultsNeedOverlap
    MemsizeBounded
    NoLeak
PROPERTIES
    CallsAreAtomic
    StopEnds
CONSTRAINT NoOverlap
CHECK_DEADLOCK FALSE
