CONSTANTS
    SignBit = 8
    MaxMem = 2
    Workers = {w1, w2}
    Keys = {k1}
    Buffers = {b1, b2, b3}
    Null = Null
    Free = Free
    MaxRequests = 3
    Payloads <- OnePayload
    SizeOf <- OneSizeOf
SPECIFICATION Spec
INVARIANT
    PointerIsToValue
CHECK_DEADLOCK FALSE
