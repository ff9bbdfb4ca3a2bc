SPECIFICATION FairSpec
CONSTANTS
    m1 = m1
    m2 = m2
    Msgs = {m1, m2}
    Size <- MCSize
    Loop = Loop
    AppThreads = {t1, t2}
    Free = Free
    WRITE_QUEUE_MAX_SIZE = 1
    MaxSends = 4
    MaxStarts = 2
INVARIANT TypeOK
INVARIANT NoLostWakeup
INVARIANT StreamIntact
PROPERTY FifoSpec
PROPERTY SendsComplete
CHECK_DEADLOCK FALSE
