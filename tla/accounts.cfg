\* Two clients, two accounts, three spellings of two names.
SPECIFICATION Spec
CONSTANTS
    Ann = Ann
    ann = ann
    bob = bob
    None = None
    Clients = {c1, c2}
    Ids = {u1, u2}
    Spellings = {Ann, ann, bob}
    Names = {ann, bob}
    Uname <- MCUname
    Emails = {e1, e2}
SYMMETRY MCSymmetry
INVARIANTS
    TypeOK
    NamesIdentify
    WelcomedUnlessUnanswered
CHECK_DEADLOCK FALSE
