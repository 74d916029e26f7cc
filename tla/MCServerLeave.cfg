SPECIFICATION Spec
CONSTANTS
    c1 = c1
    c2 = c2
    c3 = c3
    Main = Main
    NoConn = NoConn
    None = None
    Conns <- Two
    MaxUser = 2
    Leavers <- Two
    Enders <- One
    MaxCmds = 1
    MinCnt <- MinusTwo
    AcceptMayFail = TRUE
    PromptStart = FALSE
INVARIANTS
    TypeOK
    MutexOwned
    IdIsSlot
CHECK_DEADLOCK FALSE
