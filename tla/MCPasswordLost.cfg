SPECIFICATION Spec
CONSTANTS
    Gets = {g1, g2}
    Resets = {r1}
    Old = Old
    Codes = {c1, c2}
    None = None
    Lifetime = 1
    MaxTime = 1
INVARIANTS OldPasswordGone
CHECK_DEADLOCK FALSE
