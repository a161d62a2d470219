\* Two users, three notifications, two requests at a time, pages of one row.
SPECIFICATION Spec
CONSTANTS
    r1 = r1
    r2 = r2
    None = None
    Users = {alice, bob}
    Ids = {n1, n2, n3}
    Requests = {r1, r2}
    Times = {1, 2}
    PageSize = 1
SYMMETRY MCSymmetry
INVARIANTS
    TypeOK
    AcknowledgedIsRead
    MissedAtMostDeleted
PROPERTIES
    BuriedStaysBuried
CHECK_DEADLOCK FALSE
