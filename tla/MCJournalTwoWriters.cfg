SPECIFICATION Spec
CONSTANTS
    p1 = p1
    p2 = p2
    c1 = c1
    c2 = c2
    Writers = {w1, w2}
    Paths = {p1}
    Contents = {c1, c2}
    Archives = {c2}
    Parts <- MCTwoParts
    BaseBlobs <- MCBaseBlobs
    BaseTails = {"whole", "torn"}
    MaxDepth = 2
    OneWriter = FALSE
    ShortWrites = FALSE
    MaxLen = 6
SYMMETRY Symmetry
INVARIANT ChainSound
