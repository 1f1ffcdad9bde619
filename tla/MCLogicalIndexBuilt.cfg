SPECIFICATION Spec
CONSTANTS
    Sorted <- MCSorted
    Walked <- MCWalked
    Parent <- MCParent
    Canon <- MCCanon
    Updates = {"new"}
    Owners = {"root"}
    Root = "root"
    HardLinks = TRUE
    MaxDepth = 1
    MaxAge = 3
CHECK_DEADLOCK FALSE
INVARIANT BuiltExtracts
