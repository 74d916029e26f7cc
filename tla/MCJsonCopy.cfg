CONSTANTS
    Nodes = {n1, n2, n3, n4, n5, n6, n7, n8}
    NULL = NULL
    k = k
    K = K
    Array = Array
    Object = Object
    Kinds = {Array, Object}
    Names = {k, K}
    Lower <- MCLower
    MaxIndex = 0
    MaxMade = 0
    MaxItems = 3
    MaxLive = 4
    MaxAllocations = 8
SPECIFICATION CopySpec
INVARIANTS
    CopyLeavesWhole
    CopyRight
PROPERTY OriginalUntouched
CHECK_DEADLOCK FALSE
