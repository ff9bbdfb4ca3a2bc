------------------------------ MODULE TcpServer ------------------------------
(***************************************************************************)
(* The life of the connections of a CTcpServer: accept, the registration   *)
(* in CSocketInfoManager, the libev callbacks of a CTcpConnection, the     *)
(* callbacks to the application's ITcpServerDataHandle, the queue that      *)
(* carries Send to the loop thread, CloseClient called from any thread,    *)
(* and the destructor that runs when the last shared_ptr goes away.        *)
(*                                                                         *)
(* One thread, Loop, runs m_Loop.loop(): it takes one event at a time and  *)
(* runs its callback to the end.  Application threads interleave with it.  *)
(* A write queue is its length and a piece of input is one unit: the bytes *)
(* themselves are the subject of SendPath.                                 *)
(***************************************************************************)
EXTENDS Integers, Sequences, FiniteSets

CONSTANTS
    Conns,       \* CTcpConnection objects; each is also the TCP connection it was made for
    Addrs,       \* remote endpoints (IP, Port)
    Fds,         \* descriptor numbers the kernel may hand out; 0 is standard input
    Nil,         \* no connection
    Std,         \* what descriptor 0 is open on when the program starts
    Loop,        \* the thread that runs m_Loop.loop()
    AppThreads,  \* the application's other threads
    Closers,     \* the threads that call CloseClient
    WRITE_QUEUE_MAX_SIZE,
    MaxInput,    \* bound: pieces of input a peer has in flight
    MaxCalls     \* bound: calls waiting in m_Functions

Threads == AppThreads \cup {Loop}
Keys == Addrs \X Fds

ASSUME FdsAssumption == Fds \subseteq Nat /\ 0 \in Fds
ASSUME NamesAssumption == /\ Nil \notin Conns \cup Addrs
                          /\ Std \notin Conns \cup {Nil}
ASSUME ThreadsAssumption == Loop \notin AppThreads /\ Closers \subseteq Threads
ASSUME BoundsAssumption == /\ WRITE_QUEUE_MAX_SIZE \in Nat
                           /\ MaxInput \in Nat
                           /\ MaxCalls \in Nat

VARIABLES
    \* the kernel
    ofd,            \* the open file a descriptor denotes
    inbox,          \* pieces of input not yet read, per TCP connection
    hup,            \* "open", "fin" (the peer ended it), "rst" (the peer reset it) or
                    \* "shut" (shut down on this side), per TCP connection
    addr,           \* the remote endpoint, per TCP connection
    \* CTcpConnection
    obj,            \* "none" (not constructed), "live" or "freed"
    fd,             \* m_SocketClient.Socket, also the descriptor m_Io watches
    m_Socket,
    m_Io,           \* the events m_Io asks for: "R", "RW", or "off" when stopped
    m_WriteQueue,   \* the length of the queue
    idle,           \* TCP_CONNECTION_TIMEOUT has passed since m_nLasttime
    \* CTcpServer
    m_Connections,  \* the map of CSocketInfoManager; Nil where there is no entry
    m_Functions,    \* the keys of the queued __Send calls
    asyncSent,      \* m_Async.send() has been called and not been seen by the loop
    \* control
    batch,          \* the rest of `functions` in __AsyncCallback
    loop,           \* the application callback the loop thread is in
    closing,        \* where each thread is in CloseClient
    \* history
    announced,      \* keys reported connected and not yet disconnected
    outOfTurn       \* a key was reported connected or disconnected twice in a row

kernelVars == <<ofd, inbox, hup, addr>>
connVars   == <<obj, fd, m_Socket, m_Io, m_WriteQueue, idle>>
queueVars  == <<m_Functions, asyncSent, batch>>
appVars    == <<announced, outOfTurn>>
vars == <<kernelVars, connVars, m_Connections, queueVars, loop, closing, appVars>>

-----------------------------------------------------------------------------
Running  == [at |-> "idle", conn |-> Nil, src |-> Nil]
NotClosing == [at |-> "none", conn |-> Nil, sock |-> 0]

Key(n) == <<addr[n], fd[n]>>
File(n) == ofd[fd[n]]       \* what recv and write on watcher.fd reach
Registered(n) == obj[n] = "live" /\ m_Connections[Key(n)] = n
Held(n) == \E t \in Threads : closing[t].conn = n

\* The loop thread is between two callbacks.
Dispatching == loop.at = "idle" /\ batch = <<>>

TypeOK ==
    /\ ofd \in [Fds -> Conns \cup {Nil, Std}]
    /\ inbox \in [Conns -> 0..MaxInput]
    /\ hup \in [Conns -> {"open", "fin", "rst", "shut"}]
    /\ addr \in [Conns -> Addrs \cup {Nil}]
    /\ obj \in [Conns -> {"none", "live", "freed"}]
    /\ fd \in [Conns -> Fds]
    /\ m_Socket \in [Conns -> Fds]
    /\ m_Io \in [Conns -> {"off", "R", "RW"}]
    /\ m_WriteQueue \in [Conns -> 0..WRITE_QUEUE_MAX_SIZE + 1]
    /\ idle \in [Conns -> BOOLEAN]
    /\ m_Connections \in [Keys -> Conns \cup {Nil}]
    /\ m_Functions \in Seq(Keys)
    /\ asyncSent \in BOOLEAN
    /\ batch \in Seq(Keys)
    /\ loop \in [at : {"idle", "connected", "data", "gone"},
                 conn : Conns \cup {Nil}, src : Conns \cup {Nil}]
    /\ closing \in [Threads -> [at : {"none", "got", "shut", "closed", "done"},
                                conn : Conns \cup {Nil}, sock : Fds]]
    /\ announced \subseteq Keys
    /\ outOfTurn \in BOOLEAN

Init ==
    /\ ofd = [f \in Fds |-> IF f = 0 THEN Std ELSE Nil]
    /\ inbox = [n \in Conns |-> 0]
    /\ hup = [n \in Conns |-> "open"]
    /\ addr = [n \in Conns |-> Nil]
    /\ obj = [n \in Conns |-> "none"]
    /\ fd = [n \in Conns |-> 0]
    /\ m_Socket = [n \in Conns |-> 0]
    /\ m_Io = [n \in Conns |-> "off"]
    /\ m_WriteQueue = [n \in Conns |-> 0]
    /\ idle = [n \in Conns |-> FALSE]
    /\ m_Connections = [k \in Keys |-> Nil]
    /\ m_Functions = <<>>
    /\ asyncSent = FALSE
    /\ batch = <<>>
    /\ loop = Running
    /\ closing = [t \in Threads |-> NotClosing]
    /\ announced = {}
    /\ outOfTurn = FALSE

-----------------------------------------------------------------------------
(* The network and the clock. *)

Connected(n) == \E f \in Fds : ofd[f] = n

PeerSends(n) ==
    /\ Connected(n) /\ hup[n] = "open" /\ inbox[n] < MaxInput
    /\ inbox' = [inbox EXCEPT ![n] = @ + 1]
    /\ UNCHANGED <<ofd, hup, addr, connVars, m_Connections, queueVars, loop, closing, appVars>>

PeerHangsUp(n) ==
    /\ Connected(n) /\ hup[n] = "open"
    /\ hup' = [hup EXCEPT ![n] = "fin"]
    /\ UNCHANGED <<ofd, inbox, addr, connVars, m_Connections, queueVars, loop, closing, appVars>>

\* A reset discards the input that was not read.
PeerResets(n) ==
    /\ Connected(n) /\ hup[n] # "rst"
    /\ hup' = [hup EXCEPT ![n] = "rst"]
    /\ inbox' = [inbox EXCEPT ![n] = 0]
    /\ UNCHANGED <<ofd, addr, connVars, m_Connections, queueVars, loop, closing, appVars>>

\* TCP_CONNECTION_TIMEOUT seconds pass in which n neither reads nor writes.
TimePasses(n) ==
    /\ obj[n] = "live" /\ ~idle[n]
    /\ idle' = [idle EXCEPT ![n] = TRUE]
    /\ UNCHANGED <<kernelVars, obj, fd, m_Socket, m_Io, m_WriteQueue, m_Connections,
                   queueVars, loop, closing, appVars>>

-----------------------------------------------------------------------------
(* ~CTcpConnection, for the objects D whose last reference goes away: Close, *)
(* which acts on m_Socket only while it is positive, then m_Io.stop().       *)

ClosedBy(D, files) ==
    [f \in Fds |-> IF f > 0 /\ \E n \in D : m_Socket[n] = f THEN Nil ELSE files[f]]
\* Mutant: a destructor without m_Io.stop().
NotStopped(D) == m_Io

Stopped(D) == [n \in Conns |-> IF n \in D THEN "off" ELSE m_Io[n]]
Zeroed(D)  == [n \in Conns |-> IF n \in D THEN 0 ELSE m_Socket[n]]
Freed(D)   == [n \in Conns |-> IF n \in D THEN "freed" ELSE obj[n]]
Emptied(D) == [n \in Conns |-> IF n \in D THEN 0 ELSE m_WriteQueue[n]]

Destroy(D) ==
    /\ ofd' = ClosedBy(D, ofd)
    /\ m_Io' = Stopped(D)
    /\ m_Socket' = Zeroed(D)
    /\ obj' = Freed(D)
    /\ m_WriteQueue' = Emptied(D)

-----------------------------------------------------------------------------
(* Callbacks to the application. *)

OnClientConnected(n, k) ==
    /\ loop' = [at |-> "connected", conn |-> n, src |-> Nil]
    /\ announced' = announced \cup {k}
    /\ outOfTurn' = (outOfTurn \/ k \in announced)

OnClientDataReceived(n, c) ==
    /\ loop' = [at |-> "data", conn |-> n, src |-> c]
    /\ UNCHANGED appVars

\* OnClientDisconnected, OnClientRecvError, OnClientSendError and OnClientTimeout of
\* CTcpServer are one: tell the application, then (Unregister) remove the key.
OnClientGone(n) ==
    /\ loop' = [at |-> "gone", conn |-> n, src |-> Nil]
    /\ announced' = announced \ {Key(n)}
    /\ outOfTurn' = (outOfTurn \/ Key(n) \notin announced)

\* The loop thread returns from the application's callback.  It is not in a call of
\* CloseClient any more.
CallbackReturns ==
    /\ loop.at \in {"connected", "data"}
    /\ closing[Loop] = NotClosing
    /\ loop' = Running
    /\ UNCHANGED <<kernelVars, connVars, m_Connections, queueVars, closing, appVars>>

\* Mutant: the key stays in the manager.
NotUnregistered ==
    /\ loop.at = "gone"
    /\ closing[Loop] = NotClosing
    /\ loop' = Running
    /\ UNCHANGED <<kernelVars, connVars, m_Connections, queueVars, closing, appVars>>

\* CSocketInfoManager::Remove after OnClientDisconnected has returned.
Unregister ==
    /\ loop.at = "gone"
    /\ closing[Loop] = NotClosing
    /\ LET k == Key(loop.conn)
           o == m_Connections[k]
       IN  /\ m_Connections' = [m_Connections EXCEPT ![k] = Nil]
           /\ Destroy(IF o # Nil /\ ~Held(o) THEN {o} ELSE {})
    /\ loop' = Running
    /\ UNCHANGED <<inbox, hup, addr, fd, idle, queueVars, closing, appVars>>

-----------------------------------------------------------------------------
(* __Accept. *)

\* Descriptor f is free, and endpoint a has no connection that is still open.
Acceptable(a, f) ==
    /\ ofd[f] = Nil
    /\ \A g \in Fds : ofd[g] \in Conns => addr[ofd[g]] # a

\* A new connection under the key <<a, f>>.  CSocketInfoChannel::Add overwrites: the
\* object that was under that key loses a reference.
Accept(a, f, n) ==
    LET k == <<a, f>>
        o == m_Connections[k]
        D == IF o # Nil /\ ~Held(o) THEN {o} ELSE {}
    IN  /\ Dispatching
        /\ Acceptable(a, f)
        /\ obj[n] = "none"
        /\ ofd' = ClosedBy(D, [ofd EXCEPT ![f] = n])
        /\ addr' = [addr EXCEPT ![n] = a]
        /\ fd' = [fd EXCEPT ![n] = f]
        /\ m_Socket' = [Zeroed(D) EXCEPT ![n] = f]
        /\ m_Io' = [Stopped(D) EXCEPT ![n] = "R"]
        /\ obj' = [Freed(D) EXCEPT ![n] = "live"]
        /\ m_Connections' = [m_Connections EXCEPT ![k] = n]
        /\ OnClientConnected(n, k)
        /\ m_WriteQueue' = Emptied(D)
        /\ UNCHANGED <<inbox, hup, idle, queueVars, closing>>

-----------------------------------------------------------------------------
(* CTcpConnection::__IoCallback.  A callback with EV_READ and EV_WRITE is     *)
(* one with EV_READ followed by one with EV_WRITE.  EAGAIN changes nothing.   *)

ReadData(n) ==
    /\ Dispatching /\ m_Io[n] # "off"
    /\ File(n) \in Conns /\ inbox[File(n)] > 0
    /\ inbox' = [inbox EXCEPT ![File(n)] = @ - 1]
    /\ idle' = [idle EXCEPT ![n] = FALSE]
    /\ OnClientDataReceived(n, File(n))
    /\ UNCHANGED <<ofd, hup, addr, obj, fd, m_Socket, m_Io, m_WriteQueue, m_Connections,
                   queueVars, closing>>

\* Mutant: recv returning 0 is taken for EAGAIN.
ReadEndsOnError(n) ==
    /\ Dispatching /\ m_Io[n] # "off"
    /\ \/ File(n) = Nil
       \/ File(n) \in Conns /\ hup[File(n)] = "rst"
    /\ OnClientGone(n)
    /\ UNCHANGED <<kernelVars, connVars, m_Connections, queueVars, closing>>

\* recv returns 0, or -1 with an errno other than EAGAIN (EBADF on a closed descriptor).
ReadEnds(n) ==
    /\ Dispatching /\ m_Io[n] # "off"
    /\ \/ File(n) = Nil
       \/ File(n) \in Conns /\ inbox[File(n)] = 0 /\ hup[File(n)] # "open"
    /\ OnClientGone(n)
    /\ UNCHANGED <<kernelVars, connVars, m_Connections, queueVars, closing>>

\* libev gives up on a descriptor it cannot poll: it stops the watcher and calls back
\* with EV_ERROR, and __ErrorCallback reports the client gone.
IoError(n) ==
    /\ Dispatching /\ m_Io[n] # "off"
    /\ File(n) = Nil
    /\ m_Io' = [m_Io EXCEPT ![n] = "off"]
    /\ OnClientGone(n)
    /\ UNCHANGED <<kernelVars, obj, fd, m_Socket, m_WriteQueue, idle, m_Connections,
                   queueVars, closing>>

\* Mutant: the last buffer is popped and write events stay asked for.
WriteStaysInterested(n) ==
    /\ Dispatching /\ m_Io[n] = "RW" /\ m_WriteQueue[n] > 0
    /\ File(n) \in Conns /\ hup[File(n)] \in {"open", "fin"}
    /\ m_WriteQueue' = [m_WriteQueue EXCEPT ![n] = @ - 1]
    /\ idle' = [idle EXCEPT ![n] = FALSE]
    /\ UNCHANGED <<kernelVars, obj, fd, m_Socket, m_Io, m_Connections, queueVars, loop,
                   closing, appVars>>

\* The write takes part of the front buffer, or the rest of it, which pops it.
Write(n) ==
    /\ Dispatching /\ m_Io[n] = "RW"
    /\ File(n) \in Conns /\ hup[File(n)] \in {"open", "fin"}
    /\ \E left \in {m_WriteQueue[n], m_WriteQueue[n] - 1} \cap Nat :
          /\ m_WriteQueue' = [m_WriteQueue EXCEPT ![n] = left]
          /\ m_Io' = [m_Io EXCEPT ![n] = IF left = 0 THEN "R" ELSE "RW"]
    /\ idle' = [idle EXCEPT ![n] = FALSE]
    /\ UNCHANGED <<kernelVars, obj, fd, m_Socket, m_Connections, queueVars, loop, closing,
                   appVars>>

WriteFails(n) ==
    /\ Dispatching /\ m_Io[n] = "RW"
    /\ File(n) = Nil \/ (File(n) \in Conns /\ hup[File(n)] \in {"rst", "shut"})
    /\ OnClientGone(n)
    /\ UNCHANGED <<kernelVars, connVars, m_Connections, queueVars, closing>>

\* Mutant: a connection that is closed already is not timed out.
TimerFiresIfOpen(n) ==
    /\ Dispatching /\ obj[n] = "live"
    /\ idle[n] /\ m_Socket[n] > 0
    /\ OnClientGone(n)
    /\ UNCHANGED <<kernelVars, connVars, m_Connections, queueVars, closing>>

\* __TimerCallback.  m_Timer runs from the constructor to the destructor.
TimerFires(n) ==
    /\ Dispatching /\ obj[n] = "live"
    /\ idle[n]
    /\ OnClientGone(n)
    /\ UNCHANGED <<kernelVars, connVars, m_Connections, queueVars, closing>>

-----------------------------------------------------------------------------
(* Send, from any thread, and __AsyncCallback, which runs the queued calls.   *)

Send(k) ==
    /\ Len(m_Functions) < MaxCalls
    /\ m_Functions' = Append(m_Functions, k)
    /\ asyncSent' = TRUE
    /\ UNCHANGED <<kernelVars, connVars, m_Connections, batch, loop, closing, appVars>>

AsyncCallback ==
    /\ Dispatching /\ asyncSent
    /\ asyncSent' = FALSE
    /\ batch' = m_Functions
    /\ m_Functions' = <<>>
    /\ UNCHANGED <<kernelVars, connVars, m_Connections, loop, closing, appVars>>

\* functions[i](): __Send to a client that is no longer registered does nothing.
SendDropped ==
    /\ loop.at = "idle" /\ batch # <<>>
    /\ m_Connections[Head(batch)] = Nil
    /\ batch' = Tail(batch)
    /\ UNCHANGED <<kernelVars, connVars, m_Connections, m_Functions, asyncSent, loop,
                   closing, appVars>>

\* Mutant: CTcpConnection::Send does not look at the length of the queue.
SendUnlimited ==
    /\ loop.at = "idle" /\ batch # <<>>
    /\ batch' = Tail(batch)
    /\ LET n == m_Connections[Head(batch)]
       IN  /\ n # Nil
           /\ m_WriteQueue' = [m_WriteQueue EXCEPT ![n] = @ + 1]
           /\ m_Io' = [m_Io EXCEPT ![n] = IF @ = "off" THEN "off" ELSE "RW"]
    /\ UNCHANGED <<kernelVars, obj, fd, m_Socket, idle, m_Connections, m_Functions,
                   asyncSent, loop, closing, appVars>>

\* functions[i](): __Send and CTcpConnection::Send.
SendQueued ==
    /\ loop.at = "idle" /\ batch # <<>>
    /\ batch' = Tail(batch)
    /\ LET n == m_Connections[Head(batch)]
       IN  /\ n # Nil
           /\ m_WriteQueue[n] <= WRITE_QUEUE_MAX_SIZE
           /\ m_WriteQueue' = [m_WriteQueue EXCEPT ![n] = @ + 1]
           /\ m_Io' = [m_Io EXCEPT ![n] = IF @ = "off" THEN "off" ELSE "RW"]
    /\ UNCHANGED <<kernelVars, obj, fd, m_Socket, idle, m_Connections, m_Functions,
                   asyncSent, loop, closing, appVars>>

\* functions[i](): the write queue is over its limit and the client is given up.
SendOverflows ==
    /\ loop.at = "idle" /\ batch # <<>>
    /\ batch' = Tail(batch)
    /\ LET n == m_Connections[Head(batch)]
       IN  /\ n # Nil
           /\ m_WriteQueue[n] > WRITE_QUEUE_MAX_SIZE
           /\ OnClientGone(n)
    /\ UNCHANGED <<kernelVars, connVars, m_Connections, m_Functions, asyncSent, closing>>

-----------------------------------------------------------------------------
(* CloseClient, on an application thread or inside a callback on Loop.        *)

\* m_SocketInfoManager.Get: t holds a shared_ptr to the connection.
CloseGet(t, k) ==
    /\ t \in Closers /\ closing[t] = NotClosing
    /\ t = Loop => loop.at # "idle"
    /\ m_Connections[k] # Nil
    /\ closing' = [closing EXCEPT ![t] = [at |-> "got", conn |-> m_Connections[k], sock |-> 0]]
    /\ UNCHANGED <<kernelVars, connVars, m_Connections, queueVars, loop, appVars>>

\* Close(): the test of m_Socket and shutdown.
CloseShutdown(t) ==
    LET n == closing[t].conn
        c == ofd[m_Socket[n]]
    IN  /\ closing[t].at = "got"
        /\ m_Socket[n] > 0
        /\ hup' = [m \in Conns |-> IF m = c /\ hup[m] # "rst" THEN "shut" ELSE hup[m]]
        /\ closing' = [closing EXCEPT ![t] = [at |-> "shut", conn |-> n, sock |-> m_Socket[n]]]
        /\ UNCHANGED <<ofd, inbox, addr, connVars, m_Connections, queueVars, loop, appVars>>

\* Close() of a connection that is closed already does nothing.
CloseSkipped(t) ==
    /\ closing[t].at = "got"
    /\ m_Socket[closing[t].conn] = 0
    /\ closing' = [closing EXCEPT ![t].at = "done"]
    /\ UNCHANGED <<kernelVars, connVars, m_Connections, queueVars, loop, appVars>>

\* Mutant: Close() shuts the socket down and does not close it.
CloseFdSkipped(t) ==
    /\ closing[t].at = "shut"
    /\ closing' = [closing EXCEPT ![t].at = "closed"]
    /\ UNCHANGED <<kernelVars, connVars, m_Connections, queueVars, loop, appVars>>

\* close(m_Socket).  m_Socket is read again without a lock: the value is the one of
\* the test or the one another thread has stored since.
CloseFd(t) ==
    /\ closing[t].at = "shut"
    /\ \E s \in {closing[t].sock, m_Socket[closing[t].conn]} :
          ofd' = [ofd EXCEPT ![s] = Nil]
    /\ closing' = [closing EXCEPT ![t].at = "closed"]
    /\ UNCHANGED <<inbox, hup, addr, connVars, m_Connections, queueVars, loop, appVars>>

\* Mutant: Close() leaves m_Socket as it is.
CloseZeroSkipped(t) ==
    /\ closing[t].at = "closed"
    /\ closing' = [closing EXCEPT ![t].at = "done"]
    /\ UNCHANGED <<kernelVars, connVars, m_Connections, queueVars, loop, appVars>>

\* m_Socket = 0.
CloseZero(t) ==
    /\ closing[t].at = "closed"
    /\ m_Socket' = [m_Socket EXCEPT ![closing[t].conn] = 0]
    /\ closing' = [closing EXCEPT ![t].at = "done"]
    /\ UNCHANGED <<kernelVars, obj, fd, m_Io, m_WriteQueue, idle, m_Connections, queueVars,
                   loop, appVars>>

\* CloseClient returns: the shared_ptr goes away, and with it the object when the
\* loop has removed it from the map meanwhile.
CloseRelease(t) ==
    LET n == closing[t].conn
    IN  /\ closing[t].at = "done"
        /\ closing' = [closing EXCEPT ![t] = NotClosing]
        /\ Destroy(IF Registered(n) \/ \E u \in Threads \ {t} : closing[u].conn = n
                   THEN {} ELSE {n})
        /\ UNCHANGED <<inbox, hup, addr, fd, idle, m_Connections, queueVars, loop, appVars>>

-----------------------------------------------------------------------------
Environment ==
    \E n \in Conns : PeerSends(n) \/ PeerHangsUp(n) \/ PeerResets(n) \/ TimePasses(n)

Events ==
    \/ \E a \in Addrs, f \in Fds, n \in Conns : Accept(a, f, n)
    \/ \E n \in Conns : \/ ReadData(n) \/ ReadEnds(n) \/ IoError(n)
                        \/ Write(n) \/ WriteFails(n) \/ TimerFires(n)
    \/ AsyncCallback

InCallback == CallbackReturns \/ Unregister \/ SendDropped \/ SendQueued \/ SendOverflows

CloseClient(t) ==
    \/ \E k \in Keys : CloseGet(t, k)
    \/ CloseShutdown(t) \/ CloseSkipped(t) \/ CloseFd(t) \/ CloseZero(t) \/ CloseRelease(t)

Next ==
    \/ Environment
    \/ Events
    \/ InCallback
    \/ \E n \in Conns : obj[n] # "none" /\ Send(Key(n))
    \/ \E t \in Threads : CloseClient(t)

Spec == Init /\ [][Next]_vars

\* What CloseClient needs of the application, since nothing in it protects m_Socket: the
\* calls for one client do not overlap.  A thread closes a client inside a callback while
\* others close other clients.
OneCallPerClient ==
    \A t, u \in Threads : closing[t].conn = closing[u].conn /\ closing[t] # NotClosing => t = u

CloseSpec == Init /\ [][Next /\ OneCallPerClient']_vars

\* The loop thread does not stop inside a callback, and every iteration of libev invokes
\* all the watchers that are ready.  A connection on which nothing can happen stays idle
\* until its timer fires.  A call of CloseClient returns.
Fairness ==
    /\ WF_vars(InCallback)
    /\ SF_vars(AsyncCallback)
    /\ \A n \in Conns : /\ SF_vars(ReadData(n))
                        /\ SF_vars(File(n) # Nil /\ ReadEnds(n))
                        /\ SF_vars(TimerFires(n))
                        /\ WF_vars(File(n) = Nil /\ TimePasses(n))
    /\ \A t \in Threads : WF_vars(\/ CloseShutdown(t) \/ CloseSkipped(t) \/ CloseFd(t)
                                  \/ CloseZero(t) \/ CloseRelease(t))

FairSpec == Spec /\ Fairness

-----------------------------------------------------------------------------
(* Where nobody calls CloseClient. *)

\* What OnClientDataReceived hands over as input of sClient was sent by sClient, though
\* __IoCallback reads whatever socket the number watcher.fd denotes at that moment.
DataFromItsClient == loop.at = "data" => loop.src = loop.conn

\* For each sClient the application sees OnClientConnected and OnClientDisconnected in
\* turn, and between them, and only then, Send finds the client in the manager.
CallbacksInTurn ==
    /\ ~outOfTurn
    /\ \A k \in Keys : k \in announced <=> /\ m_Connections[k] # Nil
                                           /\ ~(loop.at = "gone" /\ Key(loop.conn) = k)

\* A client that hung up, or whose connection broke, is reported and removed, unless the
\* application closes it first.
HangupReported ==
    \A n \in Conns :
        Registered(n) /\ hup[n] \in {"fin", "rst"} ~> ~Registered(n) \/ File(n) # n

(* Where the calls of CloseClient for one client do not overlap. *)

\* Close() acts on the socket the connection was made for: m_Socket is never a number
\* that denotes another client's socket, but for the moment between close and m_Socket = 0.
OwnDescriptor ==
    \A n \in Conns :
        m_Socket[n] > 0 => \/ ofd[m_Socket[n]] = n
                           \/ \E t \in Threads : closing[t].conn = n /\ closing[t].at = "closed"

\* A socket that is open belongs to an object that will close it, and which the manager,
\* or a thread in CloseClient, still refers to.
NoDescriptorLeak ==
    \A f \in Fds : ofd[f] \in Conns => LET n == ofd[f] IN
        /\ obj[n] = "live" /\ m_Socket[n] = f
        /\ Registered(n) \/ Held(n)

\* libev is asked for write events exactly while there is something to write.
WriteInterest ==
    \A n \in Conns : m_Io[n] # "off" => (m_Io[n] = "RW" <=> m_WriteQueue[n] > 0)

\* CloseClient does not stop the watchers or remove the key: the timer does in the end,
\* unless the descriptor number is given to another client first.
ClosedIsUnregistered ==
    \A n \in Conns :
        Registered(n) /\ File(n) = Nil ~> ~Registered(n) \/ File(n) # Nil
-----------------------------------------------------------------------------
(* Inductive invariants, for the proofs. *)

Made(n) == n \in Conns /\ obj[n] # "none"

\* What the types of the values need: whatever has a watcher, a callback, a call of
\* CloseClient or an entry in the manager is a connection that was made, and such a connection has an endpoint.
MadeInv ==
    /\ \A n \in Conns : m_Io[n] # "off" => Made(n)
    /\ loop.at # "idle" => Made(loop.conn)
    /\ \A t \in Threads : closing[t].at # "none" => Made(closing[t].conn)
    /\ \A k \in Keys : m_Connections[k] # Nil => Made(m_Connections[k])
    /\ \A n \in Conns : Made(n) => addr[n] \in Addrs

TypeInv == TypeOK /\ MadeInv

\* The manager holds exactly the objects that are alive, each under its key.
ManagerInv ==
    /\ \A n \in Conns : obj[n] = "live" => m_Connections[Key(n)] = n
    /\ \A k \in Keys : m_Connections[k] # Nil => /\ obj[m_Connections[k]] = "live"
                                                 /\ Key(m_Connections[k]) = k

\* An object that is alive, and no other, has a descriptor: the one it was made for.
DescriptorInv ==
    /\ ofd[0] = Std
    /\ \A n \in Conns : obj[n] = "live" => m_Socket[n] = fd[n] /\ ofd[fd[n]] = n
    /\ \A f \in Fds : ofd[f] \in Conns => obj[ofd[f]] = "live" /\ fd[ofd[f]] = f

\* Only objects that are alive have callbacks.
CallbackInv ==
    /\ \A n \in Conns : m_Io[n] # "off" => obj[n] = "live"
    /\ loop.at # "idle" => obj[loop.conn] = "live"

NoCloseInv ==
    /\ \A t \in Threads : closing[t] = NotClosing
    /\ ManagerInv
    /\ DescriptorInv
    /\ CallbackInv
    /\ DataFromItsClient
    /\ CallbacksInTurn

\* What is alive is referred to by the manager or by a call of CloseClient, and both refer
\* only to what is alive.
ReferenceInv ==
    /\ \A n \in Conns : obj[n] = "live" => Registered(n) \/ Held(n)
    /\ \A k \in Keys : m_Connections[k] # Nil => /\ obj[m_Connections[k]] = "live"
                                                 /\ Key(m_Connections[k]) = k
    /\ \A t \in Threads : closing[t] # NotClosing => obj[closing[t].conn] = "live"

\* The steps of a call of CloseClient: close acts on the value that was tested, and the
\* object that is given back has no descriptor any more.
CallInv ==
    \A t \in Threads : LET c == closing[t] IN
        /\ c # NotClosing => t \in Closers
        /\ c.at = "none" => c = NotClosing
        /\ c.at = "shut" => c.sock > 0 /\ m_Socket[c.conn] = c.sock
        /\ c.at = "closed" => ofd[m_Socket[c.conn]] # c.conn
        /\ c.at = "done" => m_Socket[c.conn] = 0

\* A file belongs to one object, which has its number in m_Socket; a number in m_Socket
\* without its file is one that is about to be set to 0.
FileInv ==
    /\ ofd[0] = Std
    /\ \A f \in Fds : ofd[f] \in Conns => /\ obj[ofd[f]] = "live"
                                          /\ m_Socket[ofd[f]] = f
    /\ \A n \in Conns : m_Socket[n] > 0 => obj[n] = "live"
    /\ OwnDescriptor

CloseInv == ReferenceInv /\ CallInv /\ FileInv /\ OneCallPerClient

\* Write events, with what Accept needs: the queue of an object not made yet is empty.
WriteInv ==
    /\ WriteInterest
    /\ \A n \in Conns : obj[n] = "none" => m_WriteQueue[n] = 0
=============================================================================
