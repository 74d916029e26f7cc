CONSTANTS
    Nodes = {n1, n2, n3, n4}
    NULL = NULL
    k = k
    K = K
    Kinds = {item}
    Names = {k, K}
    Lower <- MCLower
    MaxIndex = 3
    MaxMade = 2
SYMMETRY NodeSymmetry
SPECIFICATION Spec
INVARIANTS
    ListsWhole
    EveryItemOnce
    ReadsAgree
CHECK_DEADLOCK FALSE
