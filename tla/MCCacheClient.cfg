CONSTANTS
    SignBit = 4
    MaxMem = 5
    k1 = k1
    k2 = k2
    Keys = {k1, k2}
    HeaderKey = k1
    Null = Null
    NullText = "NULL"
    MaxCalls = 4
    Payloads <- MCPayloads
    SizeOf <- MCSizeOf
    Quotable <- MCQuotable
    Values <- MCValues
    RouteTakes <- MCRouteTakes
SPECIFICATION Spec
INVARIANTS
    StringsKept
PROPERTIES
    ReadsWrites
    CallsReturn
CHECK_DEADLOCK FALSE
