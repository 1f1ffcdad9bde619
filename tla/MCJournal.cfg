SPECIFICATION Spec
CONSTANTS
    p1 = p1
    p2 = p2
    c1 = c1
    c2 = c2
    Writers = {w1}
    Paths = {p1, p2}
    Contents = {c1, c2}
    Archives = {}
    Parts <- MCParts
    BaseBlobs <- MCBaseBlobs
    BaseTails = {"whole"}
    MaxDepth = 1
    OneWriter = TRUE
    ShortWrites = FALSE
    MaxLen = 6
INVARIANT TypeOK
INVARIANT AckedDurable
INVARIANT RefsResolve
PROPERTY StoreSpec
