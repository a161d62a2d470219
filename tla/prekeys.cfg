\* Two initiators race each other, two publishes and a backup of one device.
SPECIFICATION Spec
CONSTANTS
    Keys = {k1}
    Devices = {d1}
    Initiators = {i1, i2}
    Publishers = {p1, p2}
    Carriers = {p1}
    Backups = {b1}
    None = None
INVARIANTS
    TypeOK
    HandedOnceUnlessRestored
PROPERTIES
    PoolChangesExplained
    EmptyHandedOnlyWhenEmpty
    CurrentSaveLosesNothing
    GetBundleEnds
CHECK_DEADLOCK FALSE
