CONSTANTS
    SignBit = 4
    MaxMem = 6
    Keys = {k1, k2}
    Null = Null
    Payloads <- WidePayloads
    SizeOf <- WideSizeOf
SPECIFICATION Spec
INVARIANTS
    TypeOK
    AccountingModulo
CONSTRAINT FewOrphans
CHECK_DEADLOCK FALSE
