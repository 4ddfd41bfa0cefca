\* the process ends where the null pointer is used
CHECK_DEADLOCK FALSE
CONSTANTS
    NoWindow = NoWindow
    NoFormat = NoFormat
    Windows = {w1, w2}
    Formats = {f1, f2, f3}
    Drawable = {f1, f2}
    MaxQueue = 2
    SdlFails = TRUE
SPECIFICATION FairSpec
INVARIANTS
    TextureSuits
    KeepsShowing
PROPERTIES
    RemovalReturns
    PreviewGoesOn
