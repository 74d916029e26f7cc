SPECIFICATION FairSpec
CONSTANTS
    c1 = c1
    c2 = c2
    c3 = c3
    Main = Main
    NoConn = NoConn
    None = None
    Conns <- Three
    MaxUser = 2
    Leavers <- Nobody
    Enders <- Nobody
    MaxCmds = 1
    MinCnt = 0
    AcceptMayFail = FALSE
    PromptStart = TRUE
INVARIANTS
    PlayersKnown
    SameOrder
PROPERTIES
    NamesReachAll
    CommandsReachAll
CHECK_DEADLOCK FALSE
