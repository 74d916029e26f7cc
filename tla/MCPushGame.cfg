SPECIFICATION DisplaySpec
CONSTANTS
    MaxUser = 2
    MapWidth = 4
    MapHeight = 4
    NumItem = 2
    UserStart <- MCUserStart
    BaseLoc <- MCBaseLoc
    ItemStart <- MCItemStart
    BlockLoc <- MCBlockLoc
INVARIANTS
    TypeOK
    NoOverlap
    BoardShowsObjects
    ItemsCounted
    ScoresAddUp
    ScreenShowsMap
    LabelsShowGame
PROPERTIES
    ItemsArePushed
CHECK_DEADLOCK FALSE
