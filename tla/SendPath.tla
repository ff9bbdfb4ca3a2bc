------------------------------ MODULE SendPath -------------------------------
(***************************************************************************)
(* How the bytes of CTcpServer::Send reach the socket of one client.  Any  *)
(* thread, the loop thread in a callback included, queues a call of __Send *)
(* under m_Spinlock and wakes the loop; __AsyncCallback takes the queue    *)
(* under the same lock and runs the calls without it; the write events of  *)
(* CTcpConnection empty m_WriteQueue a piece at a time.  Stop and the next *)
(* Start stop and start m_Async; the queues and the client survive them.   *)
(* The steps here are those between two accesses to what the threads       *)
(* share.                                                                  *)
(***************************************************************************)
EXTENDS Integers, SequencesExt

CONSTANTS
    Msgs,        \* what the application sends
    Size,        \* the length of each, nDataLen
    Loop,        \* the thread that runs m_Loop.loop()
    AppThreads,  \* the application's other threads
    Free,        \* the lock is free
    WRITE_QUEUE_MAX_SIZE,
    MaxSends,    \* bound: calls of Send
    MaxStarts    \* bound: calls of Start after the first

Threads == AppThreads \cup {Loop}

ASSUME SizeAssumption == Size \in [Msgs -> Nat]
ASSUME ThreadsAssumption == Loop \notin AppThreads /\ Free \notin Threads
ASSUME BoundsAssumption == /\ WRITE_QUEUE_MAX_SIZE \in Nat
                           /\ MaxSends \in Nat
                           /\ MaxStarts \in Nat

VARIABLES
    m_Spinlock,    \* the thread that holds it
    pc,            \* where each thread is in Send
    m_Functions,   \* the buffers bound to the queued calls of __Send
    asyncSent,     \* m_Async.send() has been called and not been seen by the loop
    m_Async,       \* m_Async is active
    starts,        \* calls of Start after the first
    at,            \* where the loop thread is in __AsyncCallback, or "returned" from Start
    functions,     \* the rest of its `functions`
    open,          \* the client is in m_SocketInfoManager
    m_Io,          \* the events m_Io asks for: "R" or "RW"
    m_WriteQueue,
    out,           \* history: the bytes the socket took
    accepted,      \* history: the messages in the order in which they were queued
    stranded       \* history: calls were queued at the last Start, and no Send since

sendVars == <<m_Spinlock, pc, m_Functions, asyncSent, accepted, stranded>>
runVars  == <<m_Async, starts>>
connVars == <<open, m_Io, m_WriteQueue, out>>
vars == <<sendVars, runVars, at, functions, connVars>>

\* A COutputBuffer with m_nPos = n.
Buffer(m, n) == [msg |-> m, pos |-> n]
Buffers == [msg : Msgs, pos : Nat]
\* COutputBuffer::GetBytes
GetBytes(b) == Size[b.msg] - b.pos

TypeOK ==
    /\ m_Spinlock \in Threads \cup {Free}
    /\ pc \in [Threads -> {"out", "locked", "pushed", "woken"}]
    /\ m_Functions \in Seq(Buffers)
    /\ asyncSent \in BOOLEAN
    /\ m_Async \in BOOLEAN
    /\ starts \in 0..MaxStarts
    /\ at \in {"idle", "async", "locked", "swapped", "running", "returned"}
    /\ functions \in Seq(Buffers)
    /\ open \in BOOLEAN
    /\ m_Io \in {"R", "RW"}
    /\ m_WriteQueue \in Seq(Buffers)
    /\ Len(m_WriteQueue) <= WRITE_QUEUE_MAX_SIZE + 1
    /\ out \in Seq(Msgs \X Nat)
    /\ accepted \in Seq(Msgs)
    /\ stranded \in BOOLEAN

\* The server has been started and a client has connected.
Init ==
    /\ m_Spinlock = Free
    /\ pc = [t \in Threads |-> "out"]
    /\ m_Functions = <<>>
    /\ asyncSent = FALSE
    /\ m_Async = TRUE
    /\ starts = 0
    /\ at = "idle"
    /\ functions = <<>>
    /\ open = TRUE
    /\ m_Io = "R"
    /\ m_WriteQueue = <<>>
    /\ out = <<>>
    /\ accepted = <<>>
    /\ stranded = FALSE

-----------------------------------------------------------------------------
(* CTcpServer::Send. *)

\* The loop thread calls it from the application's callbacks: between two events, in the
\* middle of a batch, when a __Send has given up a client, or after Start has returned.
SendLock(t) ==
    /\ pc[t] = "out"
    /\ t = Loop => at \in {"idle", "async", "running", "returned"}
    /\ m_Spinlock = Free
    /\ Len(accepted) < MaxSends
    /\ m_Spinlock' = t
    /\ pc' = [pc EXCEPT ![t] = "locked"]
    /\ UNCHANGED <<m_Functions, asyncSent, accepted, stranded, runVars, at, functions, connVars>>

SendPush(t) ==
    /\ pc[t] = "locked"
    /\ \E m \in Msgs : /\ m_Functions' = Append(m_Functions, Buffer(m, 0))
                       /\ accepted' = Append(accepted, m)
    /\ pc' = [pc EXCEPT ![t] = "pushed"]
    /\ UNCHANGED <<m_Spinlock, asyncSent, stranded, runVars, at, functions, connVars>>

\* Mutant: the loop is woken only when it is not in __AsyncCallback.
SendWakeIdle(t) ==
    /\ pc[t] = "pushed"
    /\ asyncSent' = (asyncSent \/ at = "idle")
    /\ pc' = [pc EXCEPT ![t] = "woken"]
    /\ stranded' = FALSE
    /\ UNCHANGED <<m_Spinlock, m_Functions, accepted, runVars, at, functions, connVars>>

\* m_Async.send()
SendWake(t) ==
    /\ pc[t] = "pushed"
    /\ asyncSent' = TRUE
    /\ pc' = [pc EXCEPT ![t] = "woken"]
    /\ stranded' = FALSE
    /\ UNCHANGED <<m_Spinlock, m_Functions, accepted, runVars, at, functions, connVars>>

SendUnlock(t) ==
    /\ pc[t] = "woken"
    /\ m_Spinlock' = Free
    /\ pc' = [pc EXCEPT ![t] = "out"]
    /\ UNCHANGED <<m_Functions, asyncSent, accepted, stranded, runVars, at, functions, connVars>>

Send(t) == SendLock(t) \/ SendPush(t) \/ SendWake(t) \/ SendUnlock(t)

-----------------------------------------------------------------------------
(* The loop thread, when it is not in a call of Send. *)

InLoop == pc[Loop] = "out"

\* libev sees that m_Async was sent, forgets it, and has __AsyncCallback pending: other
\* callbacks may run first.
AsyncSeen ==
    /\ InLoop /\ at = "idle" /\ m_Async /\ asyncSent
    /\ asyncSent' = FALSE
    /\ at' = "async"
    /\ UNCHANGED <<m_Spinlock, pc, m_Functions, accepted, stranded, runVars, functions, connVars>>

AsyncLock ==
    /\ InLoop /\ at = "async"
    /\ m_Spinlock = Free
    /\ m_Spinlock' = Loop
    /\ at' = "locked"
    /\ UNCHANGED <<pc, m_Functions, asyncSent, accepted, stranded, runVars, functions, connVars>>

\* Mutant: the calls are copied and stay queued.
AsyncCopy ==
    /\ at = "locked"
    /\ functions' = m_Functions
    /\ at' = "swapped"
    /\ UNCHANGED <<sendVars, runVars, connVars>>

\* functions.swap(m_Functions)
AsyncSwap ==
    /\ at = "locked"
    /\ functions' = m_Functions
    /\ m_Functions' = functions
    /\ at' = "swapped"
    /\ UNCHANGED <<m_Spinlock, pc, asyncSent, accepted, stranded, runVars, connVars>>

AsyncUnlock ==
    /\ at = "swapped"
    /\ m_Spinlock' = Free
    /\ at' = "running"
    /\ UNCHANGED <<pc, m_Functions, asyncSent, accepted, stranded, runVars, functions, connVars>>

\* The client is reported disconnected, leaves the manager and is destroyed with its queue.
Gone ==
    /\ open' = FALSE
    /\ m_Io' = "R"
    /\ m_WriteQueue' = <<>>
    /\ UNCHANGED out

\* Mutant: the limit of the queue is not tested.
SendToUnlimited(b) ==
    /\ m_WriteQueue' = IF open THEN Append(m_WriteQueue, b) ELSE m_WriteQueue
    /\ m_Io' = IF open THEN "RW" ELSE m_Io
    /\ UNCHANGED <<open, out>>

\* Mutant: no m_Io.set(ev::READ|ev::WRITE).
SendToQuietly(b) ==
    /\ m_WriteQueue' = IF open THEN Append(m_WriteQueue, b) ELSE m_WriteQueue
    /\ Len(m_WriteQueue) <= WRITE_QUEUE_MAX_SIZE
    /\ UNCHANGED <<open, m_Io, out>>

\* CTcpConnection::Send, and __Send for a client that is gone.
SendTo(b) ==
    \/ /\ ~open
       /\ UNCHANGED connVars
    \/ /\ open
       /\ Len(m_WriteQueue) > WRITE_QUEUE_MAX_SIZE
       /\ Gone
    \/ /\ open
       /\ Len(m_WriteQueue) <= WRITE_QUEUE_MAX_SIZE
       /\ m_WriteQueue' = Append(m_WriteQueue, b)
       /\ m_Io' = "RW"
       /\ UNCHANGED <<open, out>>

\* functions[i]()
AsyncRun ==
    /\ InLoop /\ at = "running" /\ functions # <<>>
    /\ SendTo(Head(functions))
    /\ functions' = Tail(functions)
    /\ UNCHANGED <<sendVars, runVars, at>>

AsyncReturn ==
    /\ InLoop /\ at = "running" /\ functions = <<>>
    /\ at' = "idle"
    /\ UNCHANGED <<sendVars, runVars, functions, connVars>>

AsyncCallback ==
    AsyncSeen \/ AsyncLock \/ AsyncSwap \/ AsyncUnlock \/ AsyncRun \/ AsyncReturn

\* Mutant: m_nPos is not advanced after a partial write.
WriteBytesAgain(k) ==
    LET b == Head(m_WriteQueue)
        left == IF k = GetBytes(b) THEN Tail(m_WriteQueue) ELSE m_WriteQueue
    IN  /\ k = 0 => GetBytes(b) = 0
        /\ out' = out \o [i \in 1..k |-> <<b.msg, b.pos + i>>]
        /\ m_WriteQueue' = left
        /\ m_Io' = IF left = <<>> THEN "R" ELSE "RW"
        /\ UNCHANGED open

\* __IoCallback with EV_WRITE, when write takes k bytes.
WriteBytes(k) ==
    LET b == Head(m_WriteQueue)
        left == IF k = GetBytes(b) THEN Tail(m_WriteQueue)
                ELSE <<Buffer(b.msg, b.pos + k)>> \o Tail(m_WriteQueue)
    IN  /\ k = 0 => GetBytes(b) = 0
        /\ out' = out \o [i \in 1..k |-> <<b.msg, b.pos + i>>]
        /\ m_WriteQueue' = left
        /\ m_Io' = IF left = <<>> THEN "R" ELSE "RW"
        /\ UNCHANGED open

Write ==
    /\ InLoop /\ at \in {"idle", "async"}
    /\ open /\ m_Io = "RW"
    /\ IF m_WriteQueue = <<>>
       THEN m_Io' = "R" /\ UNCHANGED <<open, m_WriteQueue, out>>
       ELSE \E k \in 0..GetBytes(Head(m_WriteQueue)) : WriteBytes(k)
    /\ UNCHANGED <<sendVars, runVars, at, functions>>

\* Any other callback of the client that ends in OnClientDisconnected.
ClientGone ==
    /\ InLoop /\ at \in {"idle", "async"}
    /\ open
    /\ Gone
    /\ UNCHANGED <<sendVars, runVars, at, functions>>

-----------------------------------------------------------------------------
(* Stop, on any thread and at any moment, and Start after it.               *)

\* m_Async.stop() takes back a callback that is pending; the calls stay in m_Functions.
StopAsync ==
    /\ m_Async
    /\ m_Async' = FALSE
    /\ at' = IF at = "async" THEN "idle" ELSE at
    /\ UNCHANGED <<sendVars, starts, functions, connVars>>

\* m_Loop.loop() ends after m_Loop.unloop().
LoopReturns ==
    /\ InLoop /\ at = "idle" /\ ~m_Async
    /\ at' = "returned"
    /\ UNCHANGED <<sendVars, runVars, functions, connVars>>

\* m_Async.start() forgets the calls of m_Async.send() so far, and Start makes none up.
StartAsync ==
    /\ InLoop /\ at = "returned"
    /\ starts < MaxStarts
    /\ starts' = starts + 1
    /\ m_Async' = TRUE
    /\ asyncSent' = FALSE
    /\ stranded' = (m_Functions # <<>>)
    /\ at' = "idle"
    /\ UNCHANGED <<m_Spinlock, pc, m_Functions, accepted, functions, connVars>>

-----------------------------------------------------------------------------
Next ==
    \/ \E t \in Threads : Send(t)
    \/ AsyncCallback \/ Write \/ ClientGone
    \/ StopAsync \/ LoopReturns \/ StartAsync

Spec == Init /\ [][Next]_vars

\* A thread that holds m_Spinlock goes on; the loop thread serves what is pending; the
\* peer takes what it is sent, or the connection breaks.
Fairness ==
    /\ \A t \in Threads : WF_vars(SendPush(t) \/ SendWake(t) \/ SendUnlock(t))
    /\ WF_vars(AsyncCallback)
    /\ SF_vars(Write)

FairSpec == Spec /\ Fairness

-----------------------------------------------------------------------------
\* What has been handed to Send and has not left.
pending == IF open THEN m_WriteQueue \o functions \o m_Functions ELSE <<>>

Fifo == INSTANCE MsgFifo WITH open <- open, pending <- pending, out <- out

\* Send keeps the promise of MsgFifo, whatever the interleaving of the callers, of
\* __AsyncCallback and of the write events.
FifoSpec == Fifo!Spec

Bytes(b) == [i \in 1..GetBytes(b) |-> <<b.msg, b.pos + i>>]
Stream(buffers) == FlattenSeq([i \in DOMAIN buffers |-> Bytes(buffers[i])])
AllBytes == Stream([i \in DOMAIN accepted |-> Buffer(accepted[i], 0)])

\* The bytes on the socket followed by those still queued are exactly the messages in the
\* order in which Send queued them; after a disconnection they are a prefix of that.
StreamIntact ==
    IF open THEN out \o Stream(pending) = AllBytes ELSE IsPrefix(out, AllBytes)

\* While m_Async is active, a call that waits in m_Functions has a wake-up on its way:
\* asyncSent is cleared before the swap and set after the push, each in the order the
\* spinlock imposes.  Calls queued before the last Start have one again after a Send.
NoLostWakeup ==
    m_Async /\ ~stranded /\ m_Functions # <<>> =>
        \/ asyncSent
        \/ at \in {"async", "locked"}
        \/ \E t \in Threads : pc[t] = "pushed"

\* What Send was given leaves the queues in the end, across a Stop and the next Start, when
\* the server is not stopped.  Only calls that were still in m_Functions at a Start may stay
\* there, until the application sends again: Start wakes nothing.
SendsComplete ==
    pending # <<>> ~> \/ pending = <<>>
                      \/ ~m_Async
                      \/ stranded /\ m_WriteQueue \o functions = <<>>

\* The inductive invariant of the proofs.  The spinlock has one holder, and the loop's
\* `functions` is empty until the swap fills it.
LockInv ==
    /\ \A t \in Threads : pc[t] # "out" => m_Spinlock = t
    /\ at \in {"locked", "swapped"} => m_Spinlock = Loop /\ pc[Loop] = "out"
    /\ at \in {"idle", "async", "locked", "returned"} => functions = <<>>

Inv == TypeOK /\ LockInv /\ NoLostWakeup
=============================================================================
