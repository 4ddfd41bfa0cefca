CONSTANTS
    Symbol = 2
    FrameSizes = {1, 2, 3, 5}
    Extra = 2
    Overhead = 1
    Links <- AllLinks
    TsMod = 16
    FirstTs = {13}
    MaxFrames = 2
SPECIFICATION Spec
CHECK_DEADLOCK FALSE
INVARIANTS
    TypeOK
    WholeFrames
    DeliveriesArePaid
    EnoughIsDelivered
