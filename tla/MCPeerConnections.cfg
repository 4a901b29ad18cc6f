SPECIFICATION Spec
CONSTANTS
    a = a
    b = b
    Node = {a, b}
    Slot = {1, 2}
    None = None
    max_connections <- MCMaxConnections
    Configs <- MCConfigs

    
PROPERTIES
    HalfOpenResolved
    EventuallyConnected
CHECK_DEADLOCK FALSE
