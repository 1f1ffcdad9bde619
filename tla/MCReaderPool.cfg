SPECIFICATION Spec
CONSTANTS
    Codec <- MCCodec
    DictBlob = "d"
    Modest = {"d", "y"}
    Chunks <- MCChunks
    PoolFrom = 3
    Workers = {"w1", "w2"}
    Owner = "own"
    Damages <- MCDamages
    MaxOps = 2
CHECK_DEADLOCK FALSE
INVARIANT TypeOK
INVARIANT ReadsRight
INVARIANT OneAtATime
INVARIANT DestinationWhole
INVARIANT CleanClose
INVARIANT CloseWaits
PROPERTY Ends
