SPECIFICATION PermissionFairSpec
CONSTANTS
    d1 = d1
    d2 = d2
    Dongles <- MCDongles
INVARIANTS
    ConnectedClean
PROPERTIES
    SetOnce
    WaiterWoken
CHECK_DEADLOCK FALSE
