SPECIFICATION Spec
CONSTANTS
    i1 = i1
    NoSerial = NoSerial
    Serial = {i1}
    MaxFailures = 1
    MaxSessions = 1
INVARIANT MemoryIsRetained
