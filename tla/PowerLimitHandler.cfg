SPECIFICATION LiveSpec
CONSTANTS
    s1 = s1
    s2 = s2
    p1 = p1
    NoSession = NoSession
    NoPercent = NoPercent
    Session = {s1, s2}
    Percent = {p1}
    Announced = {"registration", "product_info", "old_product_info", "telemetry"}
    Repeated = {"registration", "old_product_info"}
    MaxGen = 0
    MaxWire = 1
    Quirks = {"mute", "refuse", "late_frames"}
CHECK_DEADLOCK FALSE
PROPERTIES CommandableAgain
