SPECIFICATION FairSpec
CONSTANTS
    Size <- MCSize
    WRITE_QUEUE_MAX_SIZE = 1
    MaxConns = 3
    MaxFailures = 1
INVARIANT TypeOK
INVARIANT NoLostWakeup
INVARIANT StreamIntact
INVARIANT ToldBetween
PROPERTY Reconnects
PROPERTY SendsComplete
PROPERTY StopEndsStart
CHECK_DEADLOCK FALSE
