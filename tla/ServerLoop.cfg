SPECIFICATION Spec
CONSTANTS
    Conns = {n1}
    TicksPerSecond = 2
    TCP_CONNECTION_TIMEOUT = 2
    Timeouts = {0, 3}
    MAX_BLOCKTIME = 5
    MaxTime = 15
    MaxStarts = 2
INVARIANT TypeOK
INVARIANT StopReturns
INVARIANT IdleReported
PROPERTY NoEarlyTimeout
CHECK_DEADLOCK FALSE
