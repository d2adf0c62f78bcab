SPECIFICATION MergeSpec
CONSTANTS
    ann = ann  bob = bob  cas_ann = cas_ann  cas_bob = cas_bob
    Names = {ann, bob, cas_ann, cas_bob}
    Subjects = {ann, bob}
    ShadowNames = {cas_ann, cas_bob}
    ShadowOf <- MCShadowOf
    Emails = {e}
    NoEmail = NoEmail
    Blank = Blank
    Logins = {l1, l2}
    Signups = {p1}
    ReadErrors = {p1}
    MaxId = 3
    Managers = {ann}
    MaxMerges = 2
SYMMETRY MCSymmetry
INVARIANTS MergeTypeOK RowsFollowAccount RefreshedTokensServed ServedAsOwner NoOrphanShadow BoundByRight
CHECK_DEADLOCK FALSE
