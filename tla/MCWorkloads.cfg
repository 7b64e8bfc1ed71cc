CONSTANTS
    EtcSizes = {0, 1, 2}
    LoadSizes = {0, 9, 10, 17, 20, 30}
    Table = 7
SPECIFICATION WorkSpec
INVARIANTS
    EtcWithinPlan
    EtcAllButOne
    TableSuffices
    KeysMadeUp
CHECK_DEADLOCK FALSE
