SPECIFICATION Spec
CONSTANTS
    Signins = {s1}
    Checks = {c1}
    Ids = {1, 2}
    Emails = {ann, bob}
    None = None
    Second = 10
    Week = 3
    MaxTime = 5
INVARIANTS ValidSevenDays
CHECK_DEADLOCK FALSE
