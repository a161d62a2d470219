\* A call of each of two nodes, and a reconnect or restart of user-service.
SPECIFICATION Spec
CONSTANTS
    c1 = c1
    c2 = c2
    n1 = n1
    n2 = n2
    Nodes = {n1, n2}
    UserService = us
    Services = {n1, n2, us}
    Calls = {c1, c2}
    Asker <- OneCallEach
    MaxReconnectAttempts = 10
    MaxChannels <- OneReconnectOfServer
INVARIANTS
    TypeOK
    OneReconnect
    GoneWasAnswered
PROPERTIES
    CalledBackOnce
    CallsSettle
CHECK_DEADLOCK FALSE
