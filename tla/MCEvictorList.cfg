CONSTANTS
    SignBit = 2
    Addrs = {n1, n2, n3, n4}
    Keys = {k1, k2, k3}
    Sizes = {1, 2}
    NULL = NULL
    Free = Free
SPECIFICATION Spec
INVARIANTS
    ChainSound
PROPERTIES
    ImplementsEvictorQueue
SYMMETRY AddrSymmetry
CHECK_DEADLOCK FALSE
