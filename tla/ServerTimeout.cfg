SPECIFICATION Spec
CONSTANTS
    Conns = {n1}
    TicksPerSecond = 2
    TCP_CONNECTION_TIMEOUT = 3
    Timeouts = {1}
    MAX_BLOCKTIME = 5
    MaxTime = 18
    MaxStarts = 1
INVARIANT TimeoutAsSet
CHECK_DEADLOCK FALSE
