------------------------------ MODULE TcpClient ------------------------------
(***************************************************************************)
(* A CTcpClient: one connection at a time, made again by __Connect         *)
(* whenever it breaks, and one write queue that outlives the connections.  *)
(* Any thread calls Send, before Start too; everything else runs on the    *)
(* thread that called Start, a callback being one step up to the sleep(1)  *)
(* before __Connect.  Stop comes from another thread in between, and the   *)
(* client may be started again after it.  Send and the swap in             *)
(* __AsyncCallback are critical sections of m_Spinlock, as in SendPath.    *)
(***************************************************************************)
EXTENDS Integers, SequencesExt

CONSTANTS
    Size,         \* the length of each buffer handed to Send, by its turn
    WRITE_QUEUE_MAX_SIZE,
    MaxConns,     \* bound: sockets made; the last connection does not break and is not
                  \* stopped
    MaxFailures   \* bound: calls of socket() that fail

Turns == DOMAIN Size
Conns == 1..MaxConns

ASSUME SizeAssumption == Size \in Seq(Nat)
ASSUME BoundsAssumption == /\ WRITE_QUEUE_MAX_SIZE \in Nat
                           /\ MaxConns \in Nat \ {0}
                           /\ MaxFailures \in Nat

VARIABLES
    started,       \* "no", "running", or "failed" when Start has returned false
    sleeping,      \* a callback is in its sleep(1), with __Connect to come
    stop,          \* Stop: "no", "shut", "closed", "unwatched" or "done", for the last Start
    m_Socket,      \* the connection m_Socket was made for, 0 when it is on none
    peer,          \* that connection: "none", "connecting", "open", "fin" (the peer ended
                   \* it), "rst" (it was refused or broke), "shut" or "closed" by Stop
    m_Io,          \* the connection whose number m_Io watches, 0 when it is stopped, and
                   \* the events, "R" or "RW"
    ioError,       \* EV_ERROR is pending: libev could not poll the number
    m_WriteQueue,
    m_Functions,   \* the buffers bound to the queued calls of __Send
    functions,     \* the rest of `functions` in __AsyncCallback
    m_Async,       \* m_Async is active
    asyncSent,     \* m_Async.send() has been called and not been seen by the loop
    \* history
    conns,         \* sockets made
    failures,      \* calls of socket() that failed
    sent,          \* calls of Send
    dropped,       \* the turns of the buffers that __Send refused
    out,           \* the bytes each connection took
    told           \* the connections from which data was handed to the application since
                   \* it was last told of an error or a disconnection, or called Start

sendVars == <<m_Functions, asyncSent, sent>>
linkVars == <<m_Socket, peer, m_Io, ioError, conns, failures>>
threadVars == <<started, sleeping, stop, m_Async>>
vars == <<threadVars, linkVars, m_WriteQueue, sendVars, functions, dropped, out, told>>

Buffer(i, n) == [turn |-> i, pos |-> n]
Buffers == [turn : Turns, pos : Nat]
GetBytes(b) == Size[b.turn] - b.pos

PeerStates == {"none", "connecting", "open", "fin", "rst", "shut", "closed"}
Watchers == [conn : 0..MaxConns, ev : {"R", "RW"}]

TypeOK ==
    /\ started \in {"no", "running", "failed"}
    /\ sleeping \in BOOLEAN
    /\ stop \in {"no", "shut", "closed", "unwatched", "done"}
    /\ m_Socket \in 0..MaxConns
    /\ peer \in PeerStates
    /\ m_Io \in Watchers
    /\ ioError \in BOOLEAN
    /\ m_WriteQueue \in Seq(Buffers)
    /\ Len(m_WriteQueue) <= WRITE_QUEUE_MAX_SIZE + 1
    /\ m_Functions \in Seq(Buffers)
    /\ functions \in Seq(Buffers)
    /\ m_Async \in BOOLEAN
    /\ asyncSent \in BOOLEAN
    /\ conns \in 0..MaxConns
    /\ failures \in 0..MaxFailures
    /\ sent \in 0..Len(Size)
    /\ dropped \subseteq Turns
    /\ out \in [Conns -> Seq(Turns \X Nat)]
    /\ told \subseteq Conns

Init ==
    /\ started = "no"
    /\ sleeping = FALSE
    /\ stop = "no"
    /\ m_Socket = 0
    /\ peer = "none"
    /\ m_Io = [conn |-> 0, ev |-> "R"]
    /\ ioError = FALSE
    /\ m_WriteQueue = <<>>
    /\ m_Functions = <<>>
    /\ functions = <<>>
    /\ m_Async = FALSE
    /\ asyncSent = FALSE
    /\ conns = 0
    /\ failures = 0
    /\ sent = 0
    /\ dropped = {}
    /\ out = [c \in Conns |-> <<>>]
    /\ told = {}

-----------------------------------------------------------------------------
(* The network. *)

PeerAccepts ==
    /\ peer = "connecting"
    /\ peer' = "open"
    /\ UNCHANGED <<threadVars, m_Socket, m_Io, ioError, conns, failures, m_WriteQueue, sendVars,
                   functions, dropped, out, told>>

Breaks(how) ==
    /\ m_Socket < MaxConns
    /\ peer' = how
    /\ UNCHANGED <<threadVars, m_Socket, m_Io, ioError, conns, failures, m_WriteQueue, sendVars,
                   functions, dropped, out, told>>

PeerHangsUp == peer = "open" /\ Breaks("fin")
PeerRefusesOrResets == peer \in {"connecting", "open", "fin"} /\ Breaks("rst")

-----------------------------------------------------------------------------
(* Send, on any thread, and in a callback on the loop's. *)

Send ==
    /\ sent < Len(Size)
    /\ sent' = sent + 1
    /\ m_Functions' = Append(m_Functions, Buffer(sent + 1, 0))
    /\ asyncSent' = TRUE
    /\ UNCHANGED <<threadVars, linkVars, m_WriteQueue, functions, dropped, out, told>>

-----------------------------------------------------------------------------
(* __Connect. *)

\* Mutant: m_Io starts with READ only.
ConnectReadOnly ==
    /\ conns < MaxConns
    /\ conns' = conns + 1
    /\ m_Socket' = conns'
    /\ peer' = "connecting"
    /\ m_Io' = [conn |-> conns', ev |-> "R"]
    /\ ioError' = FALSE
    /\ UNCHANGED failures

Connect ==
    /\ conns < MaxConns
    /\ conns' = conns + 1
    /\ m_Socket' = conns'
    /\ peer' = "connecting"
    /\ m_Io' = [conn |-> conns', ev |-> "RW"]
    /\ ioError' = FALSE
    /\ UNCHANGED failures

\* The old socket is closed and socket() fails: m_Io goes on watching the old number, of
\* which epoll knows nothing any more.
ConnectFails ==
    /\ failures < MaxFailures
    /\ failures' = failures + 1
    /\ m_Socket' = 0
    /\ peer' = "none"
    /\ ioError' = FALSE
    /\ UNCHANGED <<m_Io, conns>>

\* The application starts the client, and starts it again when Start has failed or when
\* it has stopped it.
MayStart == started # "running" /\ stop \in {"no", "done"}

\* Mutant: m_Async is started and not sent.
StartUnsent ==
    /\ MayStart
    /\ m_Async' = TRUE /\ asyncSent' = FALSE
    /\ \/ Connect /\ started' = "running"
       \/ ConnectFails /\ started' = "failed"
    /\ stop' = "no" /\ told' = {}
    /\ UNCHANGED <<sleeping, m_Functions, sent, m_WriteQueue, functions, dropped, out>>

\* m_Async.start() forgets the calls of m_Async.send() so far, and m_Async.send() makes up
\* for them.
Start ==
    /\ MayStart
    /\ m_Async' = TRUE /\ asyncSent' = TRUE
    /\ \/ Connect /\ started' = "running"
       \/ ConnectFails /\ started' = "failed"
    /\ stop' = "no" /\ told' = {}
    /\ UNCHANGED <<sleeping, m_Functions, sent, m_WriteQueue, functions, dropped, out>>

-----------------------------------------------------------------------------
(* Stop, on another thread.  m_Socket keeps its value.                     *)

StopShutdown ==
    /\ started = "running" /\ stop = "no"
    /\ conns < MaxConns     \* bound
    /\ stop' = "shut"
    /\ peer' = IF peer \in {"connecting", "open", "fin"} THEN "shut" ELSE peer
    /\ UNCHANGED <<started, sleeping, m_Async, m_Socket, m_Io, ioError, conns, failures,
                   m_WriteQueue, sendVars, functions, dropped, out, told>>

\* It closes what m_Socket is now, maybe another connection than the one shut down.
StopClose ==
    /\ stop = "shut"
    /\ stop' = "closed"
    /\ peer' = IF m_Socket = 0 THEN peer ELSE "closed"
    /\ UNCHANGED <<started, sleeping, m_Async, m_Socket, m_Io, ioError, conns, failures,
                   m_WriteQueue, sendVars, functions, dropped, out, told>>

\* m_Io.stop() and m_Async.stop() drop the events that are pending, too.
StopWatchers ==
    /\ stop = "closed"
    /\ stop' = "unwatched"
    /\ m_Io' = [m_Io EXCEPT !.conn = 0] /\ ioError' = FALSE
    /\ m_Async' = FALSE /\ asyncSent' = FALSE
    /\ UNCHANGED <<started, sleeping, m_Socket, peer, conns, failures, m_WriteQueue,
                   m_Functions, sent, functions, dropped, out, told>>

StopUnloop ==
    /\ stop = "unwatched"
    /\ stop' = "done"
    /\ UNCHANGED <<started, sleeping, m_Async, linkVars, m_WriteQueue, sendVars, functions,
                   dropped, out, told>>

-----------------------------------------------------------------------------
(* __AsyncCallback. *)

Dispatching == started = "running" /\ functions = <<>> /\ ~sleeping

\* Mutant: Stop without m_Loop.unloop().
ReturnsUnwatched ==
    /\ Dispatching
    /\ stop \in {"unwatched", "done"} /\ m_Io.conn = 0 /\ ~m_Async
    /\ started' = "no"
    /\ UNCHANGED <<sleeping, stop, m_Async, linkVars, m_WriteQueue, sendVars, functions,
                   dropped, out, told>>

\* m_Loop.loop() returns after m_Loop.unloop(), or when it has no watchers left.
LoopReturns ==
    /\ Dispatching
    /\ stop = "done" \/ (stop = "unwatched" /\ m_Io.conn = 0 /\ ~m_Async)
    /\ started' = "no"
    /\ UNCHANGED <<sleeping, stop, m_Async, linkVars, m_WriteQueue, sendVars, functions,
                   dropped, out, told>>

AsyncCallback ==
    /\ Dispatching /\ m_Async /\ asyncSent
    /\ asyncSent' = FALSE
    /\ functions' = m_Functions
    /\ m_Functions' = <<>>
    /\ UNCHANGED <<threadVars, linkVars, m_WriteQueue, sent, dropped, out, told>>

\* m_Io.set(ev::READ|ev::WRITE) takes the watcher out of libev and puts it back if it was
\* active.  A number that is closed cannot be put back: libev stops the watcher and
\* calls back with EV_ERROR.
WatchAll ==
    IF m_Io.conn = 0 \/ (m_Io.conn = m_Socket /\ peer # "closed")
    THEN m_Io' = [m_Io EXCEPT !.ev = "RW"] /\ UNCHANGED ioError
    ELSE m_Io' = [conn |-> 0, ev |-> "RW"] /\ ioError' = TRUE

SendQueued ==
    /\ functions # <<>>
    /\ Len(m_WriteQueue) <= WRITE_QUEUE_MAX_SIZE
    /\ m_WriteQueue' = Append(m_WriteQueue, Head(functions))
    /\ functions' = Tail(functions)
    /\ WatchAll
    /\ UNCHANGED <<threadVars, m_Socket, peer, conns, failures, sendVars, dropped, out, told>>

\* Mutant: the buffer is queued though the queue is over its limit.
SendOverflowsKept ==
    /\ functions # <<>>
    /\ Len(m_WriteQueue) > WRITE_QUEUE_MAX_SIZE
    /\ m_WriteQueue' = Append(m_WriteQueue, Head(functions))
    /\ functions' = Tail(functions)
    /\ told' = {}
    /\ UNCHANGED <<threadVars, linkVars, sendVars, dropped, out>>

\* OnSendError, and no __Connect: the connection stays.
SendOverflows ==
    /\ functions # <<>>
    /\ Len(m_WriteQueue) > WRITE_QUEUE_MAX_SIZE
    /\ dropped' = dropped \cup {Head(functions).turn}
    /\ functions' = Tail(functions)
    /\ told' = {}
    /\ UNCHANGED <<threadVars, linkVars, m_WriteQueue, sendVars, out>>

-----------------------------------------------------------------------------
(* __IoCallback.  A callback with EV_READ and EV_WRITE is one with EV_READ    *)
(* followed by one with EV_WRITE.  EAGAIN changes nothing.                    *)

\* m_Io watches the socket and there may be something to read or room to write.
Ready == Dispatching /\ m_Socket # 0 /\ m_Io.conn = m_Socket

ReadData ==
    /\ Ready /\ peer \in {"open", "fin", "shut"}
    /\ told' = told \cup {m_Socket}
    /\ UNCHANGED <<threadVars, linkVars, m_WriteQueue, sendVars, functions, dropped, out>>

\* Mutant: the application is not told.
ReconnectUntold ==
    /\ conns < MaxConns     \* bound
    /\ sleeping' = TRUE
    /\ UNCHANGED <<started, stop, m_Async, linkVars, m_WriteQueue, sendVars, functions, dropped,
                   out, told>>

\* The application is told; sleep(1) and __Connect are to come.
Reconnect ==
    /\ conns < MaxConns     \* bound
    /\ told' = {}
    /\ sleeping' = TRUE
    /\ UNCHANGED <<started, stop, m_Async, linkVars, m_WriteQueue, sendVars, functions, dropped,
                   out>>

\* __Connect, whatever Stop has done during the sleep.  It closes the number in m_Socket,
\* which Stop may have closed before it.
Wakes ==
    /\ sleeping
    /\ sleeping' = FALSE
    /\ Connect \/ ConnectFails
    /\ UNCHANGED <<started, stop, m_Async, m_WriteQueue, sendVars, functions, dropped, out, told>>

\* Mutant: every error is taken for EAGAIN.
ReadEndsOnFin == Ready /\ peer = "fin" /\ Reconnect

\* recv returns 0, or -1 with an errno other than EAGAIN; on a number that Stop has closed,
\* for an event that libev had before.
ReadEnds == Ready /\ peer \in {"fin", "rst", "shut", "closed"} /\ Reconnect

\* Mutant: the buffer is popped before the write is known to have failed.
WriteFailsPopped ==
    /\ Ready /\ m_Io.ev = "RW" /\ m_WriteQueue # <<>>
    /\ peer \in {"rst", "shut", "closed"}
    /\ conns < MaxConns
    /\ told' = {}
    /\ sleeping' = TRUE
    /\ m_WriteQueue' = Tail(m_WriteQueue)
    /\ UNCHANGED <<started, stop, m_Async, linkVars, sendVars, functions, dropped, out>>

\* write fails.  The buffer stays in the queue, with what is left of it.
WriteFails ==
    /\ Ready /\ m_Io.ev = "RW" /\ m_WriteQueue # <<>>
    /\ peer \in {"rst", "shut", "closed"}
    /\ Reconnect

IoError == Dispatching /\ ioError /\ Reconnect

WriteBytes(k) ==
    LET b == Head(m_WriteQueue)
        left == IF k = GetBytes(b) THEN Tail(m_WriteQueue)
                ELSE <<Buffer(b.turn, b.pos + k)>> \o Tail(m_WriteQueue)
    IN  /\ k = 0 => GetBytes(b) = 0
        /\ out' = [out EXCEPT ![m_Socket] = @ \o [i \in 1..k |-> <<b.turn, b.pos + i>>]]
        /\ m_WriteQueue' = left
        /\ m_Io' = [m_Io EXCEPT !.ev = IF left = <<>> THEN "R" ELSE "RW"]

Write ==
    /\ Ready /\ m_Io.ev = "RW"
    /\ peer \in {"open", "fin"}
    /\ IF m_WriteQueue = <<>>
       THEN m_Io' = [m_Io EXCEPT !.ev = "R"] /\ UNCHANGED <<m_WriteQueue, out>>
       ELSE \E k \in 0..GetBytes(Head(m_WriteQueue)) : WriteBytes(k)
    /\ UNCHANGED <<threadVars, m_Socket, peer, ioError, conns, failures, sendVars, functions,
                   dropped, told>>

-----------------------------------------------------------------------------
Network == PeerAccepts \/ PeerHangsUp \/ PeerRefusesOrResets

Stop == StopShutdown \/ StopClose \/ StopWatchers \/ StopUnloop

Loop ==
    \/ Wakes \/ LoopReturns \/ AsyncCallback \/ SendQueued \/ SendOverflows
    \/ ReadData \/ ReadEnds \/ Write \/ WriteFails \/ IoError

Next == Network \/ Send \/ Start \/ Stop \/ Loop

Spec == Init /\ [][Next]_vars

\* libev invokes every watcher that is ready in each iteration, and __AsyncCallback runs
\* its batch.  A connection that is being made is made or fails, and a peer that keeps its
\* connection takes what it is sent.  Stop, once called, goes on, and sleep(1) ends.
Fairness ==
    /\ WF_vars(SendQueued \/ SendOverflows)
    /\ SF_vars(AsyncCallback)
    /\ SF_vars(ReadEnds)
    /\ SF_vars(Write)
    /\ SF_vars(IoError)
    /\ WF_vars(PeerAccepts)
    /\ WF_vars(Wakes)
    /\ WF_vars(LoopReturns)
    /\ WF_vars(StopClose \/ StopWatchers \/ StopUnloop)

FairSpec == Spec /\ Fairness

-----------------------------------------------------------------------------
\* What has been handed to Send and has not left.
pending == m_WriteQueue \o functions \o m_Functions

Bytes(b) == [i \in 1..GetBytes(b) |-> <<b.turn, b.pos + i>>]
Stream(buffers) == FlattenSeq([i \in DOMAIN buffers |-> Bytes(buffers[i])])
\* What the first n calls of Send have given, without the buffers that were refused.
Given(n, refused) ==
    FlattenSeq([i \in 1..n |-> IF i \in refused THEN <<>> ELSE Bytes(Buffer(i, 0))])

\* The bytes that all the connections took, one after the other, and those still queued
\* are the buffers in the order of the calls of Send, each byte once, without the buffers
\* that __Send refused: breaking connections neither lose nor repeat any.
StreamIntact == FlattenSeq(out) \o Stream(pending) = Given(sent, dropped)

\* A call of Send, before Start or at any moment after it, has a wake-up on its way while
\* m_Async is active; what was queued during a Stop has one again after the next Start.
NoLostWakeup == m_Async /\ m_Functions # <<>> => asyncSent

\* The application is told of the end of a connection, or starts the client again, before
\* it is given data of the next: what it has gathered since comes from one connection.
ToldBetween == told \subseteq {m_Socket}

\* While the loop runs a connection that was refused, broke or was ended by the peer is
\* given up for another.
Reconnects ==
    \A c \in Conns :
        started = "running" /\ m_Socket = c /\ peer \in {"fin", "rst"}
            ~> m_Socket # c \/ started # "running"

\* Whatever is queued when a connection breaks, or was queued when the client was stopped
\* before, leaves on a later one, unless socket() fails or the client is stopped again.
SendsComplete ==
    started = "running" /\ m_Socket # 0 /\ pending # <<>>
        ~> m_Socket = 0 \/ pending = <<>> \/ started # "running"

\* Start returns after a Stop, though Stop may have come in the sleep(1) of a callback that
\* then makes and watches a new connection.
StopEndsStart == stop = "done" ~> started # "running"

\* A buffer left over from a broken connection, or queued since, has write events asked for.
WriteWatched == m_WriteQueue # <<>> => m_Io.ev = "RW"

\* The inductive invariant of the proofs, with what ToldBetween needs of the sleep, after
\* which the socket is another.
Quiet == sleeping => told = {}

Inv == TypeOK /\ NoLostWakeup /\ ToldBetween /\ WriteWatched /\ Quiet

\* The inductive invariant of StreamIntact.  __Send takes the calls in their order, so those
\* that wait are the last ones and each is whole; what the earlier ones gave has left or is
\* in m_WriteQueue.  Of all the connections only the last may still take bytes.
calls == functions \o m_Functions
handled == sent - Len(calls)

QueueInv ==
    /\ Len(calls) <= sent
    /\ \A i \in 1..Len(calls) : calls[i] = Buffer(handled + i, 0)
    /\ dropped \subseteq 1..handled
    /\ m_Socket \in {0, conns}
    /\ \A c \in Conns : c > conns => out[c] = <<>>
    /\ FlattenSeq(out) \o Stream(m_WriteQueue) = Given(handled, dropped)

\* Every connection begins at the beginning of a buffer.
WholeBuffers == \A c \in Conns : out[c] # <<>> => out[c][1][2] = 1
=============================================================================
