SPECIFICATION FairSpec
CONSTANTS
    Objs = {server, client}
    Servers = {server}
    Fds = {0, 1, 2}
    Callers = {t1}
    Free = Free
    Std = Std
INVARIANT TypeOK
INVARIANT OwnSocket
INVARIANT OwnDatagram
INVARIANT NoSocketLeak
PROPERTY StopEndsStart
CHECK_DEADLOCK FALSE
