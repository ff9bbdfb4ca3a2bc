SPECIFICATION ServerSpec
CONSTANTS
    Bodies <- MCBodies
    Abnormal <- MCAbnormal
    Radix = 4
    RecvSize = 16
    MaxSent = 3
    MaxConns = 2
    MAX_THREAD_NUM = 2
    UINT_RANGE = 3
    MaxPkts = 4
    Requests <- MCRequests
INVARIANT ServerTypeOK
INVARIANT PacketsIntact
INVARIANT NothingWithheld
INVARIANT AppInOrder
PROPERTY AppGetsAll
CHECK_DEADLOCK FALSE
