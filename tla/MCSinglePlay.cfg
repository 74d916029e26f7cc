SPECIFICATION SingleSpec
CONSTANTS
    MaxUser = 2
    MapWidth = 4
    MapHeight = 4
    NumItem = 2
    UserStart <- MCUserStart
    BaseLoc <- MCBaseLoc
    ItemStart <- MCItemStart
    BlockLoc <- MCBlockLoc
PROPERTIES
    PlaysByTheRules
