SPECIFICATION FairSystemSpec
CONSTANTS
    MaxUser = 2
    MapWidth = 3
    MapHeight = 3
    NumItem = 1
    UserStart <- MCUserStart
    BaseLoc <- MCBaseLoc
    ItemStart <- MCItemStart
    BlockLoc <- MCBlockLoc
    Keys <- MCKeys
    MaxUplink = 1
    MaxInbox = 2
INVARIANTS
    SameGame
PROPERTIES
    EachPlaysTheGame
    EndReachesAll
CHECK_DEADLOCK FALSE
