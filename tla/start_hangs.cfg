\* Redis answers the first connection attempt of each client with an error.
SPECIFICATION LifecycleSpec
CONSTANTS
    MaxRetries = 2
    MaxReconnectAttempts = 2
    MaxConnections = 1
    MaxRequests = 0
    MaxSockets = 0
    MaxCalls = 1
PROPERTIES
    StartEnds
CHECK_DEADLOCK FALSE
