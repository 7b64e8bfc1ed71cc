CONSTANTS
    Scripts <- MCScripts
    MaxHeader = 40
    Null = Null
SPECIFICATION Spec
INVARIANTS
    AssertsHold
    HandledAsSent
CHECK_DEADLOCK FALSE
