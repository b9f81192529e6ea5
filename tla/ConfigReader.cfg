CONSTANTS
    MaxSettings = 4
    Names = {a, b}
    NoName = NoName
    CHUNK_SIZE = 1
    IntMax = 3
    LongMax = 7
    FloatExact = 2
    DoubleExact = 4
    PrintExact = 2
    StringMax = 3
    Tried <- MCTried
    MAX_INCLUDE_DEPTH = 2
    MaxTokens = 9
    MaxDepth = 3
    Written = {"NONE", "INT", "INT64", "FLOAT", "BOOL", "STRING", "GROUP", "LIST", "ARRAY"}
    TokensTried <- MCTokens
    Missing = 3
SPECIFICATION ReaderSpec
INVARIANTS WhatIsWrittenIsReadBack ContextFollowsParser NothingIsLeftOpen
SYMMETRY NameSymmetry
CHECK_DEADLOCK FALSE
