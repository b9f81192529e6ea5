CONSTANTS
    MaxSettings = 4
    Names = {a, b}
    NoName = NoName
    BadName = BadName
    CHUNK_SIZE = 2
    IntMax = 3
    LongMax = 7
    FloatExact = 2
    DoubleExact = 5
    StringMax = 1
    Tried <- MCTried
    Objects = 4
    FormatsTried = {"DEFAULT"}
    KindsAsked = {"INT", "FLOAT", "STRING"}
    TypesTried = {"GROUP", "LIST", "ARRAY", "INT", "INT64", "FLOAT"}
SPECIFICATION Spec
INVARIANTS TreeIsSound WrappersMatchSettings PathsLeadHome 
SYMMETRY NameSymmetry
