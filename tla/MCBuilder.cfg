SPECIFICATION Spec
CONSTANTS
    Trees <- MCTrees
    TextExt = {".txt", ".md"}
    Binary = ".bin"
    Chunk = 2
    Large = 3
    MicroMax = 2
    MicroTarget = 3
    ReuseMin = 2
    Cohort = 3
    Amplification = 2
    Unit = 10
    Levels = {11, 12}
    Stored = 0
    Samples = 1
    Dictionary <- MCDictionary
    Framing = 1
CHECK_DEADLOCK FALSE
INVARIANT ReadsBack
INVARIANT RangesAgree
INVARIANT FailsOnlyOver
INVARIANT NothingIdle
INVARIANT SameAsOneThread
INVARIANT ReleaseIsLocal
