SPECIFICATION LiveSpec
CONSTANTS
    s1 = s1
    s2 = s2
    p1 = p1
    NoSession = NoSession
    NoPercent = NoPercent
    Session = {s1, s2}
    Percent = {p1}
    Announced = {"product_info", "telemetry"}
    Repeated = {}
    MaxGen = 1
    MaxWire = 1
    Quirks = {"mute", "refuse"}
CHECK_DEADLOCK FALSE
PROPERTIES SelfHealing StartupWorkIsDone
