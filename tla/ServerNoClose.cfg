SPECIFICATION Spec
CONSTANTS
    Conns = {c1, c2}
    Addrs = {a1, a2}
    Fds = {0, 1, 2}
    Nil = Nil
    Std = Std
    Loop = Loop
    AppThreads = {}
    Closers = {}
    WRITE_QUEUE_MAX_SIZE = 1
    MaxInput = 1
    MaxCalls = 2
SYMMETRY Symmetry
INVARIANT TypeOK
INVARIANT DataFromItsClient
INVARIANT CallbacksInTurn
INVARIANT WriteInterest
CHECK_DEADLOCK FALSE
