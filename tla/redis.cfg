\* Three sockets on two nodes, with one crash, failed command or expiry.
SPECIFICATION Spec
CONSTANTS
    alice = alice
    n1 = n1
    n2 = n2
    s1 = s1
    s2 = s2
    s3 = s3
    Users = {alice}
    Nodes = {n1, n2}
    Sockets = {s1, s2, s3}
    Owner <- MCOwner
    Home <- MCHome
    MaxFaults = 1
INVARIANTS
    TypeOK
    OnlineIsRight
    NoGhostSockets
CHECK_DEADLOCK FALSE
