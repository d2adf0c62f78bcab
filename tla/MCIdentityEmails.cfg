SPECIFICATION Spec
CONSTANTS
    ann = ann  bob = bob  eve = eve  cas_ann = cas_ann  cas_eve = cas_eve
    Names = {ann, bob, cas_ann}
    Subjects = {ann}
    ShadowNames = {cas_ann}
    ShadowOf <- MCShadowOf
    Emails = {e}
    NoEmail = NoEmail
    Blank = Blank
    Logins = {l1}
    Signups = {p1, p2}
    ReadErrors = {}
    MaxId = 3
INVARIANTS SignupEmailsDiffer
CHECK_DEADLOCK FALSE
