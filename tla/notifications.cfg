\* A message with an address, a welcome and an unknown event, over two channels.
SPECIFICATION Spec
CONSTANTS
    MessageEvents = {m1}
    WelcomeEvents = {w1}
    OtherEvents = {o1}
    Addressed = {m1}
    MaxChannels = 2
INVARIANTS
    TypeOK
    GoneWasStored
    GoneWasMailed
PROPERTIES
    QueuedIsSettled
CHECK_DEADLOCK FALSE
