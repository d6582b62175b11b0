SPECIFICATION FairSpec
CONSTANTS
    u1 = u1
    u2 = u2
    NoUpload = NoUpload
    Upload = {u1, u2}
    Chunks = 2
    MaxSessions = 2
    MaxRegistrations = 2
CHECK_DEADLOCK FALSE
INVARIANTS Inductive Sequential ReportsTruth MismatchIsGenuine
PROPERTIES AnswersEveryClient
