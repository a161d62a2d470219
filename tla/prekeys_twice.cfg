\* The promise of the comments, against the saves of the same owner.
SPECIFICATION Spec
CONSTANTS
    Keys = {k1, k2}
    Devices = {d1}
    Initiators = {i1, i2}
    Publishers = {p1}
    Carriers = {}
    Backups = {b1}
    None = None
INVARIANT HandedOnce
CHECK_DEADLOCK FALSE
