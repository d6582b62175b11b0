SPECIFICATION Spec
CONSTANTS
    MaxConnects = 2
    Deadline = 2
    MaxQueue = 3
INVARIANTS SuccessIsAccepted
PROPERTIES AttemptsEnd
