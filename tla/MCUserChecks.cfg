SPECIFICATION Spec
CONSTANTS
    Checks = {c1}
    Lookups = {l1}
    Accounts = {a, b}
    Nil = Nil
INVARIANTS TypeOK VerdictJustified
PROPERTIES CallReturns NoGoroutineLeft
CHECK_DEADLOCK FALSE
