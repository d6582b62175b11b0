SPECIFICATION FairSpec
CONSTANTS
    t1 = t1
    t2 = t2
    t3 = t3
    NoTransfer = NoTransfer
    Transfer = {t1, t2, t3}
    Dynamic = {t3}
    Chunks = 2
    Steps = 1
    MaxRepeats = 2
    MaxWire = 3
    MaxFailures = 2
CHECK_DEADLOCK FALSE
INVARIANTS TypeOK DiskIsWhole
PROPERTIES AckedIsOnDisk CaptureCompletes ProgressFollows
