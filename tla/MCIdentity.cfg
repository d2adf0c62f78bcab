SPECIFICATION Spec
CONSTANTS
    ann = ann  bob = bob  eve = eve  cas_ann = cas_ann  cas_eve = cas_eve
    Names = {ann, bob, eve, cas_ann, cas_eve}
    Subjects = {ann, bob, eve}
    ShadowNames = {cas_ann, cas_eve}
    ShadowOf <- MCShadowOf
    Emails = {e}
    NoEmail = NoEmail
    Blank = Blank
    Logins = {l1, l2}
    Signups = {p1}
    ReadErrors = {p1}
    MaxId = 3
INVARIANTS TypeOK AnswersAgree NoOrphanShadow BoundByRight
PROPERTIES ImplementsRegistry EveryCallEnds
CHECK_DEADLOCK FALSE
