SPECIFICATION Spec
CONSTANTS
    PasswordLogins = {ann}
    CASLogins = {bob}
    Exchanges = {x1, x2}
    Refreshes = {r1, r2}
    Absent = Absent
    BadExp = BadExp
    None = None
    TokenExps <- MCTokenExps
    Second = 10
    MaxInt = 127
    CodeExp = 1
    AccessExp = 2
    RefreshExp = 1
    MaxTime = 2
SYMMETRY MCSymmetry
INVARIANTS TypeOK LifetimeAsAsked FailedRefreshCostsNothing
PROPERTIES SessionEnds CodeGoodOnce
CHECK_DEADLOCK FALSE
