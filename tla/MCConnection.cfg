SPECIFICATION FairConnectionSpec
CONSTANTS
    move = move
    gameover = gameover
    None = None
    a = a
    b = b
    NUL = NUL
    Event <- MCEvent
    EndEvent <- MCEndEvent
    QueueSize = 3
    MaxReads = 5
    Bytes <- MCBytes
    Users <- MCUsers
    Me = 0
    IntSize = 2
    NAME_SIZE = 2
    UserSize = 5
    UserMemory <- MCUserMemory
    Names <- MCNames
    Heap <- MCHeap
    JsonText <- MCJsonText
    MaxOnWire = 2
INVARIANTS
    SleepsOnlyWhenFull
    WholeEvents
    NamesShown
PROPERTIES
    ImplementsFifo
    EveryEventHandled
    ClientFindsEnd
CHECK_DEADLOCK FALSE
