------------------------------- MODULE UdpSocket -------------------------------
(***************************************************************************)
(* CUdpServer and CUdpClient, which differ in bind only: Start runs a loop *)
(* that reads one socket, Stop closes the socket from another thread, and  *)
(* any thread may Send.  No lock is taken: all that the threads share is   *)
(* m_Socket, the watcher and the loop, and a descriptor that is closed may *)
(* be the next socket that somebody opens.                                 *)
(***************************************************************************)
EXTENDS Integers, FiniteSets

CONSTANTS
    Objs,        \* the UDP servers and clients of the process
    Servers,     \* those that bind
    Fds,         \* the descriptors the process can have; 0 is standard input
    Callers,     \* threads that Send
    Free, Std    \* who has a descriptor, when it is none of Objs

ASSUME ObjsAssumption == Servers \subseteq Objs /\ Free \notin Objs /\ Std \notin Objs
                         /\ Free # Std
ASSUME FdsAssumption == Fds \subseteq Nat /\ 0 \in Fds

VARIABLES
    ofd,         \* whose socket a descriptor is
    inbox,       \* a datagram has arrived at the socket
    m_Socket,    \* uninitialised until Start
    \* the thread that calls Start
    at,          \* "out", "opened", "enter", "ready", "asleep", "dispatch", "recv", "callback",
                 \* "returned", "failed", or "aborted" in m_Io.start
    loop_done,
    got,         \* whose datagram the callback was given
    \* m_Io
    fd,
    active,
    armed,       \* its file is in the epoll set: "no", "yes", or "new" before fd_reify
    pending,
    \* the other threads
    stop,        \* how far Stop is: "no", "closed", "zeroed", "unwatched" or "done"
    call,        \* Send between its test and its sendto, or NoCall
    lost         \* history: open sockets whose number Start has overwritten

loopVars == <<at, loop_done, got>>
ioVars == <<fd, active, armed, pending>>
vars == <<ofd, inbox, m_Socket, loopVars, ioVars, stop, call, lost>>

\* A call is sure of its socket, or it may name anybody's and nothing is said of it.
NoCall == [to |-> Free, fd |-> -1, sure |-> FALSE]
UnsureCall == [to |-> Free, fd |-> 0, sure |-> FALSE]
Calls == [to : Objs, fd : Fds \ {0}, sure : {TRUE}] \cup {NoCall, UnsureCall}

TypeOK ==
    /\ ofd \in [Fds -> Objs \cup {Free, Std}]
    /\ inbox \in [Fds -> BOOLEAN]
    /\ m_Socket \in [Objs -> Fds \cup {-1}]
    /\ at \in [Objs -> {"out", "opened", "enter", "ready", "asleep", "dispatch", "recv",
                        "callback", "returned", "failed", "aborted"}]
    /\ loop_done \in [Objs -> BOOLEAN]
    /\ got \in [Objs -> Objs \cup {Free}]
    /\ fd \in [Objs -> Fds \cup {-1}]
    /\ \A o \in Objs : fd[o] = -1 => o \notin Servers /\ at[o] = "aborted"
    /\ active \in [Objs -> BOOLEAN]
    /\ armed \in [Objs -> {"no", "yes", "new"}]
    /\ pending \in [Objs -> BOOLEAN]
    /\ stop \in [Objs -> {"no", "closed", "zeroed", "unwatched", "done"}]
    /\ call \in [Callers -> Calls]
    /\ lost \subseteq Fds

Init ==
    /\ ofd = [f \in Fds |-> IF f = 0 THEN Std ELSE Free]
    /\ inbox = [f \in Fds |-> FALSE]
    /\ m_Socket \in [Objs -> Fds \cup {-1}]
    /\ at = [o \in Objs |-> "out"]
    /\ loop_done = [o \in Objs |-> FALSE]
    /\ got = [o \in Objs |-> Free]
    /\ fd = [o \in Objs |-> 0]
    /\ active = [o \in Objs |-> FALSE]
    /\ armed = [o \in Objs |-> "no"]
    /\ pending = [o \in Objs |-> FALSE]
    /\ stop = [o \in Objs |-> "no"]
    /\ call = [t \in Callers |-> NoCall]
    /\ lost = {}

-----------------------------------------------------------------------------
(* The kernel. *)

\* open and socket give the lowest descriptor that is free.
Lowest(f) == ofd[f] = Free /\ \A g \in Fds : ofd[g] = Free => f <= g

PeerSends(f) ==
    /\ ofd[f] \in Objs /\ ~inbox[f]
    /\ inbox' = [inbox EXCEPT ![f] = TRUE]
    /\ UNCHANGED <<ofd, m_Socket, loopVars, ioVars, stop, call, lost>>

-----------------------------------------------------------------------------
(* Start. *)

\* From now on a Send that has begun may not find the socket it tested.
Unsure(o) ==
    call' = [t \in Callers |-> IF call[t].to = o THEN UnsureCall ELSE call[t]]

\* The application starts an object, starts it again after a Stop, and tries again when Start
\* has failed, with or without a Stop between; it does not while a Stop is running.
MayStart(o) ==
    \/ at[o] = "out"
    \/ at[o] = "failed" /\ stop[o] \in {"no", "done"}
    \/ at[o] = "returned" /\ stop[o] = "done"

\* The socket that bind refused is still open, and Start stores another number over its own.
Overwritten(o) ==
    IF at[o] = "failed" /\ stop[o] = "no" /\ m_Socket[o] > 0 THEN {m_Socket[o]} ELSE {}

Starts(o) ==
    /\ MayStart(o)
    /\ lost' = lost \cup Overwritten(o)
    /\ at' = [at EXCEPT ![o] = "opened"]
    /\ stop' = [stop EXCEPT ![o] = "no"]
    /\ Unsure(o)
    /\ UNCHANGED <<loop_done, got, ioVars>>

Open(o) ==
    /\ Starts(o)
    /\ \E f \in Fds :
          /\ Lowest(f)
          /\ ofd' = [ofd EXCEPT ![f] = o]
          /\ inbox' = [inbox EXCEPT ![f] = FALSE]
          /\ m_Socket' = [m_Socket EXCEPT ![o] = f]

\* socket() fails, and Start does not look.
OpenFails(o) ==
    /\ Starts(o)
    /\ m_Socket' = [m_Socket EXCEPT ![o] = -1]
    /\ UNCHANGED <<ofd, inbox>>

\* bind finds the address in use, or no socket: m_Socket is -1, or Stop has closed it.
BindFails(o) ==
    /\ at[o] = "opened" /\ o \in Servers
    /\ at' = [at EXCEPT ![o] = "failed"]
    /\ UNCHANGED <<ofd, inbox, m_Socket, loop_done, got, ioVars, stop, call, lost>>

Watch(o, f) ==
    /\ fd' = [fd EXCEPT ![o] = f]
    /\ active' = [active EXCEPT ![o] = TRUE]
    /\ armed' = [armed EXCEPT ![o] = "new"]
    /\ pending' = [pending EXCEPT ![o] = FALSE]
    /\ at' = [at EXCEPT ![o] = "enter"]
    /\ UNCHANGED <<ofd, inbox, m_Socket, loop_done, got, stop, call, lost>>

\* bind succeeds, if it is a server; the client has no call that would find out.
Bound(o) == IF o \in Servers THEN m_Socket[o] > 0 ELSE m_Socket[o] >= 0

\* Mutant: m_Io is given its descriptor by the first Start only.
StartIoOnce(o) ==
    /\ at[o] = "opened" /\ Bound(o)
    /\ Watch(o, IF fd[o] > 0 THEN fd[o] ELSE m_Socket[o])

\* Mutant: the result of bind is ignored.
StartIoUnbound(o) ==
    /\ at[o] = "opened"
    /\ Watch(o, m_Socket[o])

\* bind, if it is a server, and m_Io.start(m_Socket).
StartIo(o) ==
    /\ at[o] = "opened" /\ Bound(o)
    /\ Watch(o, m_Socket[o])

\* A client whose socket() has failed gives -1 to m_Io.start, which stores it in the watcher;
\* then an assertion of libev ends the process.
StartIoAborts(o) ==
    /\ at[o] = "opened" /\ o \notin Servers /\ m_Socket[o] = -1
    /\ fd' = [fd EXCEPT ![o] = -1]
    /\ at' = [at EXCEPT ![o] = "aborted"]
    /\ UNCHANGED <<ofd, inbox, m_Socket, loop_done, got, active, armed, pending, stop, call,
                   lost>>

\* m_Loop.loop(): ev_run forgets an ev_break that came before it.
EnterLoop(o) ==
    /\ at[o] = "enter"
    /\ loop_done' = [loop_done EXCEPT ![o] = FALSE]
    /\ at' = [at EXCEPT ![o] = "ready"]
    /\ UNCHANGED <<ofd, inbox, m_Socket, got, ioVars, stop, call, lost>>

-----------------------------------------------------------------------------
(* An iteration of ev_run. *)

LoopBroken(o) ==
    /\ at[o] = "ready" /\ loop_done[o]
    /\ at' = [at EXCEPT ![o] = "returned"]
    /\ UNCHANGED <<ofd, inbox, m_Socket, loop_done, got, ioVars, stop, call, lost>>

\* fd_reify gives the descriptor to epoll, or gives up a watcher whose descriptor is closed.
Sleep(o) ==
    /\ at[o] = "ready" /\ ~loop_done[o]
    /\ at' = [at EXCEPT ![o] = "asleep"]
    /\ IF armed[o] = "new"
       THEN LET open == ofd[fd[o]] # Free
            IN  /\ armed' = [armed EXCEPT ![o] = IF open THEN "yes" ELSE "no"]
                /\ active' = [active EXCEPT ![o] = open]
       ELSE UNCHANGED <<armed, active>>
    /\ UNCHANGED <<ofd, inbox, m_Socket, loop_done, got, fd, pending, stop, call, lost>>

\* An event of the socket, or the end of the longest sleep.
Wake(o) ==
    /\ at[o] = "asleep"
    /\ at' = [at EXCEPT ![o] = "dispatch"]
    /\ pending' = [pending EXCEPT ![o] = active[o] /\ armed[o] = "yes" /\ inbox[fd[o]]]
    /\ UNCHANGED <<ofd, inbox, m_Socket, loop_done, got, fd, active, armed, stop, call, lost>>

Invoke(o) ==
    /\ at[o] = "dispatch" /\ pending[o]
    /\ pending' = [pending EXCEPT ![o] = FALSE]
    /\ at' = [at EXCEPT ![o] = "recv"]
    /\ UNCHANGED <<ofd, inbox, m_Socket, loop_done, got, fd, active, armed, stop, call, lost>>

\* __ReadCallback: recvfrom reads what watcher.fd is by now.
Receive(o) ==
    /\ at[o] = "recv" /\ inbox[fd[o]]
    /\ inbox' = [inbox EXCEPT ![fd[o]] = FALSE]
    /\ got' = [got EXCEPT ![o] = ofd[fd[o]]]
    /\ at' = [at EXCEPT ![o] = "callback"]
    /\ UNCHANGED <<ofd, m_Socket, loop_done, ioVars, stop, call, lost>>

ReceiveNothing(o) ==
    /\ at[o] = "recv" /\ ~inbox[fd[o]]
    /\ at' = [at EXCEPT ![o] = "dispatch"]
    /\ UNCHANGED <<ofd, inbox, m_Socket, loop_done, got, ioVars, stop, call, lost>>

\* OnDataReceived returns.
CallbackReturns(o) ==
    /\ at[o] = "callback"
    /\ at' = [at EXCEPT ![o] = "dispatch"]
    /\ got' = [got EXCEPT ![o] = Free]
    /\ UNCHANGED <<ofd, inbox, m_Socket, loop_done, ioVars, stop, call, lost>>

EndIteration(o) ==
    /\ at[o] = "dispatch" /\ ~pending[o]
    /\ at' = [at EXCEPT ![o] = IF loop_done[o] \/ ~active[o] THEN "returned" ELSE "ready"]
    /\ UNCHANGED <<ofd, inbox, m_Socket, loop_done, got, ioVars, stop, call, lost>>

-----------------------------------------------------------------------------
(* Stop, on another thread, once socket() has returned; maybe more than once. *)

StopBegins(o) ==
    /\ at[o] # "out" /\ stop[o] \in {"no", "done"}
    /\ stop' = [stop EXCEPT ![o] = "closed"]
    /\ Unsure(o)
    /\ UNCHANGED <<m_Socket, loopVars, fd, active, pending, lost>>

\* Mutant: Stop only forgets the socket.
StopWithoutClose(o) ==
    /\ StopBegins(o)
    /\ UNCHANGED <<ofd, inbox, armed>>

\* close(m_Socket), which takes the socket out of every epoll set.
StopClose(o) ==
    /\ StopBegins(o)
    /\ IF m_Socket[o] > 0
       THEN LET f == m_Socket[o]
            IN  /\ ofd' = [ofd EXCEPT ![f] = Free]
                /\ inbox' = [inbox EXCEPT ![f] = FALSE]
                /\ armed' = [p \in Objs |-> IF fd[p] = f /\ armed[p] = "yes" THEN "no"
                                            ELSE armed[p]]
       ELSE UNCHANGED <<ofd, inbox, armed>>

\* Mutant: m_Socket keeps the descriptor that was closed.
StopNotZeroed(o) ==
    /\ stop[o] = "closed"
    /\ stop' = [stop EXCEPT ![o] = "zeroed"]
    /\ UNCHANGED <<ofd, inbox, m_Socket, loopVars, ioVars, call, lost>>

StopZero(o) ==
    /\ stop[o] = "closed"
    /\ m_Socket' = [m_Socket EXCEPT ![o] = IF m_Socket[o] > 0 THEN 0 ELSE m_Socket[o]]
    /\ stop' = [stop EXCEPT ![o] = "zeroed"]
    /\ UNCHANGED <<ofd, inbox, loopVars, ioVars, call, lost>>

\* m_Io.stop(), which also takes back an event that has not been called.
StopIo(o) ==
    /\ stop[o] = "zeroed"
    /\ active' = [active EXCEPT ![o] = FALSE]
    /\ armed' = [armed EXCEPT ![o] = "no"]
    /\ pending' = [pending EXCEPT ![o] = FALSE]
    /\ stop' = [stop EXCEPT ![o] = "unwatched"]
    /\ UNCHANGED <<ofd, inbox, m_Socket, loopVars, fd, call, lost>>

\* Mutant: Stop does not unloop.
StopWithoutUnloop(o) ==
    /\ stop[o] = "unwatched"
    /\ stop' = [stop EXCEPT ![o] = "done"]
    /\ UNCHANGED <<ofd, inbox, m_Socket, loopVars, ioVars, call, lost>>

StopUnloop(o) ==
    /\ stop[o] = "unwatched"
    /\ loop_done' = [loop_done EXCEPT ![o] = TRUE]
    /\ stop' = [stop EXCEPT ![o] = "done"]
    /\ UNCHANGED <<ofd, inbox, m_Socket, at, got, ioVars, call, lost>>

-----------------------------------------------------------------------------
(* Send, on any thread. *)

\* The call is sure of its socket when Start has stored m_Socket and no Stop is running,
\* until the next Start or Stop begins.
SendTest(t, o) ==
    /\ call[t] = NoCall
    /\ m_Socket[o] > 0
    /\ call' = [call EXCEPT ![t] =
          IF at[o] # "out" /\ stop[o] \in {"no", "done"}
          THEN [to |-> o, fd |-> m_Socket[o], sure |-> TRUE] ELSE UnsureCall]
    /\ UNCHANGED <<ofd, inbox, m_Socket, loopVars, ioVars, stop, lost>>

\* The descriptor that sendto is given: the one tested, or m_Socket read again.
Named(t) == {call[t].fd, m_Socket[call[t].to]}

\* sendto.
SendTo(t) ==
    /\ call[t] # NoCall
    /\ call' = [call EXCEPT ![t] = NoCall]
    /\ UNCHANGED <<ofd, inbox, m_Socket, loopVars, ioVars, stop, lost>>

-----------------------------------------------------------------------------
\* The process has not been ended.
Running == \A o \in Objs : at[o] # "aborted"

LoopStep(o) ==
    /\ Running
    /\ \/ BindFails(o) \/ StartIo(o) \/ StartIoAborts(o) \/ EnterLoop(o)
       \/ LoopBroken(o) \/ Sleep(o) \/ Wake(o) \/ Invoke(o) \/ Receive(o) \/ ReceiveNothing(o)
       \/ CallbackReturns(o) \/ EndIteration(o)

StopStep(o) == Running /\ (StopZero(o) \/ StopIo(o) \/ StopUnloop(o))

\* What nobody has to do.
Request ==
    \/ \E f \in Fds : PeerSends(f)
    \/ \E o \in Objs : Open(o) \/ OpenFails(o) \/ StopClose(o)
    \/ \E t \in Callers : SendTo(t) \/ \E o \in Objs : SendTest(t, o)

Next == (Running /\ Request) \/ \E o \in Objs : LoopStep(o) \/ StopStep(o)

Spec == Init /\ [][Next]_vars

\* The threads run, the application's callbacks return, and libev sleeps for a minute at most.
FairSpec == Spec /\ \A o \in Objs : WF_vars(LoopStep(o)) /\ WF_vars(StopStep(o))

-----------------------------------------------------------------------------
\* Send gives its datagram to its own socket, whoever opens and closes sockets meanwhile,
\* when Start had stored m_Socket before and no Start or Stop of the same object overlaps it.
OwnSocket ==
    \A t \in Callers : call[t].sure => \A f \in Named(t) : f > 0 /\ ofd[f] = call[t].to

\* What __ReadCallback hands to the application has arrived at the object's own socket, until
\* Stop is called: from then on watcher.fd may be the socket of another.
OwnDatagram == \A o \in Objs : at[o] = "callback" /\ stop[o] = "no" => got[o] = o

\* Stop can close every open socket, m_Socket being its number, except those over whose number
\* a Start that followed a bind error, with no Stop between, has stored the next: nothing
\* closes these any more.
NoSocketLeak == \A f \in Fds, o \in Objs : ofd[f] = o => m_Socket[o] = f \/ f \in lost

\* A Stop that unloops while the loop runs ends Start, though nothing wakes the loop; or
\* another object has ended the process.
StopEndsStart ==
    \A o \in Objs :
        at[o] \in {"ready", "asleep", "dispatch", "recv", "callback"} /\ stop[o] = "unwatched"
            ~> at[o] = "returned" \/ ~Running
-----------------------------------------------------------------------------
(* An inductive invariant, for the proofs. *)

\* Standard input is nobody's, and what is lost stays open.
TableInv == ofd[0] = Std /\ \A f \in lost : ofd[f] \in Objs

\* A datagram is in a socket.
InboxInv == \A f \in Fds : inbox[f] => ofd[f] \in Objs

\* An object that has not been started, or is being stopped, has no socket open but lost ones.
\* But for the moment between its close and m_Socket = 0, m_Socket is an open socket or none.
SocketOf(o) ==
    /\ at[o] = "out" \/ stop[o] # "no" => \A f \in Fds \ lost : ofd[f] # o
    /\ at[o] # "out" =>
          /\ stop[o] = "no" /\ m_Socket[o] > 0
                => ofd[m_Socket[o]] = o /\ m_Socket[o] \notin lost
          /\ stop[o] \in {"zeroed", "unwatched", "done"} => m_Socket[o] \in {0, -1}

SocketInv == \A o \in Objs : SocketOf(o)

\* A call that is sure has tested the m_Socket that still is.
CallInv ==
    \A t \in Callers : call[t].sure =>
        LET o == call[t].to
        IN  /\ at[o] # "out" /\ stop[o] = "no"
            /\ call[t].fd = m_Socket[o] /\ m_Socket[o] > 0

\* Start watches the socket it has opened, unless Stop came between.
WatchInv ==
    \A o \in Objs :
        /\ at[o] = "out" => stop[o] = "no"
        /\ at[o] = "opened" /\ stop[o] = "no" => m_Socket[o] # 0
        /\ at[o] \in {"enter", "ready", "asleep", "dispatch", "recv", "callback"}
              /\ stop[o] = "no" => fd[o] = m_Socket[o] /\ m_Socket[o] > 0

Inv == TypeOK /\ TableInv /\ InboxInv /\ NoSocketLeak /\ SocketInv /\ CallInv /\ WatchInv /\ OwnDatagram
=============================================================================
