CONSTANTS
    p1 = p1
    p2 = p2
    r1 = r1
    r2 = r2
    Wirings <- AllWirings
    Sizes = {0, 2, 3}
    DefaultMax = 2
    MaxPush = 6
SPECIFICATION FairSpec
INVARIANTS
    LengthBound
    NoEmptyPop
PROPERTIES
    FifoSpec
    NothingStays
