SPECIFICATION Spec
CONSTANTS
    Size <- MCSize
    WRITE_QUEUE_MAX_SIZE = 1
    MaxConns = 2
    MaxFailures = 0
INVARIANT WholeBuffers
CHECK_DEADLOCK FALSE
