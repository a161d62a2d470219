\* Two users with two sockets each on one node.
SPECIFICATION Spec
CONSTANTS
    alice = alice
    bob = bob
    a1 = a1
    a2 = a2
    b1 = b1
    b2 = b2
    Users = {alice, bob}
    Sockets = {a1, a2, b1, b2}
    Owner <- MCOwner
INVARIANTS
    TypeOK
    ViewsAgree
PROPERTIES
    AnnouncesOnce
CHECK_DEADLOCK FALSE
