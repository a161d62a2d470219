\* A process of any of the three services, with one request, one WebSocket and
\* two calls of gracefulShutdown.
SPECIFICATION LifecycleSpec
CONSTANTS
    MaxRetries = 2
    MaxReconnectAttempts = 2
    MaxConnections = 3
    MaxRequests = 1
    MaxSockets = 1
    MaxCalls = 2
INVARIANTS
    LifecycleTypeOK
    NothingWithoutDatabase
    OneConnection
PROPERTIES
    ShutdownEnds
CHECK_DEADLOCK FALSE
