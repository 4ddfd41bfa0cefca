CONSTANTS
    d1 = d1
    d2 = d2
    Devices = {d1, d2}
    MaxCapture = 2
    MaxFactory = 3
    OpenFails = TRUE
SPECIFICATION Spec
CHECK_DEADLOCK FALSE
SYMMETRY Symmetry
INVARIANTS
    GlobalSwitch
    CaptureIsSafe
    VideoIsProcessed
    AudioHasOneReader
