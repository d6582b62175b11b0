SPECIFICATION FairSpec
CONSTANTS
    i1 = i1
    NoSerial = NoSerial
    Serial = {i1}
    MaxFailures = 2
    MaxSessions = 1
INVARIANTS TypeOK Inductive Subscribed
PROPERTIES Commandable OnlineAgain FreshIsShown
