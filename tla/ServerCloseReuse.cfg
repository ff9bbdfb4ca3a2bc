SPECIFICATION Spec
CONSTANTS
    Conns = {c1, c2}
    Addrs = {a1, a2}
    Fds = {0, 1}
    Nil = Nil
    Std = Std
    Loop = Loop
    AppThreads = {t1}
    Closers = {t1}
    WRITE_QUEUE_MAX_SIZE = 1
    MaxInput = 1
    MaxCalls = 1
SYMMETRY Symmetry
INVARIANT DataFromItsClient
CHECK_DEADLOCK FALSE
