\* the capture may stop, and an encoder whose frame is lost waits for ever
CHECK_DEADLOCK FALSE
CONSTANTS
    NoFormat = NoFormat
    Formats = {f1, f2}
    MaxQueue = 2
    MaxParts = 2
    MaxFrames = 4
    Fails = TRUE
SPECIFICATION FairSpec
INVARIANTS
    OneFrameLocked
    HeardInItsFormat
    EncodedAsItIs
PROPERTIES
    EncoderGoesOn
