SPECIFICATION Spec
CONSTANTS
    Sizes = {7, 8, 9}
    MaxFooters = 3
    Magic = 2
    Footer = 3
    Block = 3
    MaxDepth = 1
CHECK_DEADLOCK FALSE
INVARIANT TypeOK
INVARIANT NewestFirst
INVARIANT SameGeneration
INVARIANT AcceptedIsSound
