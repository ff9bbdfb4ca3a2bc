SPECIFICATION CloseSpec
CONSTANTS
    Conns = {c1, c2}
    Addrs = {a1, a2}
    Fds = {0, 1, 2}
    Nil = Nil
    Std = Std
    Loop = Loop
    AppThreads = {t1}
    Closers = {Loop, t1}
    WRITE_QUEUE_MAX_SIZE = 0
    MaxInput = 1
    MaxCalls = 1
SYMMETRY Symmetry
INVARIANT OwnDescriptor
INVARIANT NoDescriptorLeak
CHECK_DEADLOCK FALSE
