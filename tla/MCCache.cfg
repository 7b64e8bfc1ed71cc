CONSTANTS
    SignBit = 8
    MaxMem = 5
    Keys = {k1, k2, k3}
    Null = Null
    Payloads <- MCPayloads
    SizeOf <- MCSizeOf
SPECIFICATION Spec
INVARIANTS
    QueueIndexesData
    Accounting
    CapacityRespected
    SegfaultNeedsOrphans
    SetStores
PROPERTIES
    SetReturns
    ImplementsLRU
CHECK_DEADLOCK FALSE
