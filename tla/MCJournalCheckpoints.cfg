SPECIFICATION Spec
CONSTANTS
    p1 = p1
    p2 = p2
    c1 = c1
    c2 = c2
    Writers = {w1}
    Paths = {p1}
    Contents = {c1, c2}
    Archives = {}
    Parts <- MCOneContent
    BaseBlobs <- MCBaseBlobs
    BaseTails = {"whole"}
    MaxDepth = 2
    OneWriter = TRUE
    ShortWrites = TRUE
    MaxLen = 9
INVARIANT WalkAgrees
INVARIANT DepthBounded
INVARIANT LinearHistory
