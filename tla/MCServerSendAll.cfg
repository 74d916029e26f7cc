SPECIFICATION Spec
CONSTANTS
    c1 = c1
    c2 = c2
    c3 = c3
    Main = Main
    NoConn = NoConn
    None = None
    Conns <- Two
    MaxUser = 2
    Leavers <- Nobody
    Enders <- Two
    MaxCmds = 0
    MinCnt = 0
    AcceptMayFail = FALSE
    PromptStart = TRUE
PROPERTIES SentToAllConnected
CHECK_DEADLOCK FALSE
