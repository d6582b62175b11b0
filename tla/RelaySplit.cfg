SPECIFICATION Spec
CONSTANTS
    MaxFrames = 3
    SplitMarkers = TRUE
CHECK_DEADLOCK FALSE
INVARIANT HidesOurs
