SPECIFICATION Spec
CONSTANTS
    Sizes = {small, large}
    NoFormat = NoFormat
    NoCodec = NoCodec
    Found <- MCFound
INVARIANTS LabelsAreTrue FramesSuitTheCodec CurrentIsTrue DrainedOnlyWhenStopped
SYMMETRY Symmetric
