SPECIFICATION Spec
CONSTANTS
    Checks = {c1}
    Lookups = {}
    Accounts = {a}
    Nil = Nil
INVARIANTS NoSendOnClosedChannel
CHECK_DEADLOCK FALSE
