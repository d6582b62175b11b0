SPECIFICATION Spec
CONSTANTS
    p1 = p1
    p2 = p2
    NoPercent = NoPercent
    Percent <- MCPercent
    FirstLimit = p1
    MaxUp = 4
    MaxDown = 1
    MaxLocal = 1
    SplitMarkers = FALSE
    CloudSends <- MCCloudSends
    Capture = TRUE
    Refuses = {"cloud"}
CHECK_DEADLOCK FALSE
INVARIANTS TypeOK PeersHearTheirOwn RestIsTrue
PROPERTIES ImplementsStreams EndsTogether
