SPECIFICATION Spec
CONSTANTS
    s1 = s1
    s2 = s2
    p1 = p1
    p2 = p2
    NoSession = NoSession
    NoPercent = NoPercent
    Session = {s1, s2}
    Percent = {p1, p2}
    Announced = {"product_info", "old_product_info", "telemetry"}
    Repeated = {}
    MaxGen = 2
    MaxWire = 1
    Quirks = {"mute"}
SYMMETRY Symmetry
CHECK_DEADLOCK FALSE
INVARIANTS TypeOK Inductive ConfirmedIsApplied ConfirmedIsShown RoutedToPeer
PROPERTIES NewerWritesWin OnlyPendingIsSent ConfirmationIsEarned ImplementsSetpoint
