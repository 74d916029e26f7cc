CONSTANTS
    NestingLimit = 2
    NumberBuffer = 4
    IntMax = 20
    DefaultBuffer = 4
    MaxBuffer = 24
    Pieces <- MCPieces
    Units <- MCUnits
    Gaps <- MCGaps
    MaxMemory = 8
SPECIFICATION ParseSpec
INVARIANTS
    ParseSafe
    UnicodeRight
    RoundTrip
    PrintSafe
    ReadWithoutEnd
    MinifyRight
CHECK_DEADLOCK FALSE
