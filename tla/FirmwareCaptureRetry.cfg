SPECIFICATION Spec
CONSTANTS
    t1 = t1
    t2 = t2
    t3 = t3
    NoTransfer = NoTransfer
    Transfer = {t1, t2, t3}
    Dynamic = {t3}
    Chunks = 2
    Steps = 2
    MaxRepeats = 1
    MaxWire = 1
    MaxFailures = 1
CHECK_DEADLOCK FALSE
INVARIANT AsksForExistingChunk
