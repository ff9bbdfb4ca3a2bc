SPECIFICATION FairSpec
CONSTANTS
    Conns = {c1, c2}
    Addrs = {a1}
    Fds = {0, 1}
    Nil = Nil
    Std = Std
    Loop = Loop
    AppThreads = {t1}
    Closers = {t1}
    WRITE_QUEUE_MAX_SIZE = 0
    MaxInput = 1
    MaxCalls = 0
PROPERTY HangupReported
PROPERTY ClosedIsUnregistered
CHECK_DEADLOCK FALSE
