\* One typist with sockets on two nodes, two receivers, four client events.
SPECIFICATION TypingSpec
CONSTANTS
    None = None
    Nodes = {n1, n2}
    Typists = {alice}
    Receivers = {bob, carol}
    MaxEvents = 4
INVARIANTS
    TypingTypeOK
    ShownWhileTyping
PROPERTIES
    IndicatorEnds
CHECK_DEADLOCK FALSE
