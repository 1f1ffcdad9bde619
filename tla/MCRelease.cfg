SPECIFICATION ReducedSpec
CONSTANTS
    x1 = x1
    x2 = x2
    Sizes = {1, 2, 3}
    Extractors = {x1, x2}
    MaxFaults = 1
SYMMETRY Symmetry
CHECK_DEADLOCK FALSE
INVARIANT OutWhole
INVARIANT SmallestWins
INVARIANT NoChildLeft
INVARIANT Survives
INVARIANT EndsWhole
