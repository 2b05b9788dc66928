SPECIFICATION Spec
CONSTANTS
    Registers = 2
    Value = {"x", "y"}
    Site <- MCSite
    Capture <- MCCapture
    MaxClosures = 3
INVARIANT CapturesPreserved
