CONSTANTS
    N = 3
    MaxAccepts = 7
SPECIFICATION Spec
INVARIANTS
    GivenToReady
    ReturnsLast
PROPERTIES
    ComesUp
    HandedIsStarted
    StopReturns
CHECK_DEADLOCK FALSE
