CONSTANTS
    Files = {"f", "g"}
    MAX_INCLUDE_DEPTH = 2
    YY_BUF_SIZE = 2
    MaxLength = 3
    Texts <- MCTexts
SPECIFICATION Spec
INVARIANTS BuffersHold
PROPERTIES ImplementsTokenStream ScanEnds
CHECK_DEADLOCK FALSE
