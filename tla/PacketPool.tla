------------------------------ MODULE PacketPool -----------------------------
(***************************************************************************)
(* The packet threads of a CCommonServer.  __HandlePkt, on the loop        *)
(* thread, counts the packets and deals them out to m_nThreadNum threads;  *)
(* each waits for its queue with a condition variable and a timeout of one *)
(* second, takes as many packets as it saw, and passes them to the         *)
(* application.                                                            *)
(* ~CCommonServer stops the threads one after the other.                   *)
(*                                                                         *)
(* A packet is its number.  A piece of code that holds m_ThreadMutex from  *)
(* lock to unlock is one step.                                             *)
(***************************************************************************)
EXTENDS Integers, Sequences, SequencesExt

CONSTANTS m_nThreadNum,
          UINT_RANGE,   \* how many unsigned ints there are: 2^32
          MaxPkts       \* bound: packets in all

ASSUME ThreadNumAssumption == m_nThreadNum \in Nat \ {0}
ASSUME RangeAssumption == UINT_RANGE \in Nat \ {0}
ASSUME MaxPktsAssumption == MaxPkts \in Nat

Threads == 0 .. m_nThreadNum - 1

VARIABLES
    m_nCount,      \* packets handed out
    m_PktQueue,
    m_bThreadRun,
    pc,            \* where each thread is in HandlePkt
    nSize,
    inHand,        \* the packet a thread is handling, or none
    handled,       \* history: the packets each thread has passed to the application
    deleting       \* what ~CCommonServer is doing: "no", "stop" or "join" thread `last`
                   \* or "done"

vars == <<m_nCount, m_PktQueue, m_bThreadRun, pc, nSize, inHand, handled, deleting>>

TypeOK ==
    /\ m_nCount \in 0..MaxPkts
    /\ m_PktQueue \in [Threads -> Seq(Nat)]
    /\ m_bThreadRun \in [Threads -> BOOLEAN]
    /\ pc \in [Threads -> {"test", "size", "check", "enter", "waiting", "woken", "batch",
                           "handle", "exited"}]
    /\ nSize \in [Threads -> Nat]
    /\ inHand \in [Threads -> Seq(Nat)]
    /\ handled \in [Threads -> Seq(Nat)]
    /\ deleting \in [at : {"no", "stop", "join", "done"}, last : Threads]

Init ==
    /\ m_nCount = 0
    /\ m_PktQueue = [t \in Threads |-> <<>>]
    /\ m_bThreadRun = [t \in Threads |-> TRUE]
    /\ pc = [t \in Threads |-> "test"]
    /\ nSize = [t \in Threads |-> 0]
    /\ inHand = [t \in Threads |-> <<>>]
    /\ handled = [t \in Threads |-> <<>>]
    /\ deleting = [at |-> "no", last |-> m_nThreadNum - 1]

-----------------------------------------------------------------------------
(* The loop thread. *)

\* The signal wakes the thread if it is in pthread_cond_timedwait at that moment.
AddPkt(t, p) ==
    /\ m_PktQueue' = [m_PktQueue EXCEPT ![t] = Append(@, p)]
    /\ pc' = [pc EXCEPT ![t] = IF @ = "waiting" THEN "woken" ELSE @]

\* Mutant: __sync_add_and_fetch.
ThreadOfNext(p) == ((p + 1) % UINT_RANGE) % m_nThreadNum

\* m_nCount is a long, and the number of the thread comes from its low half: it starts again
\* from 0 after 2^32 packets, whoever was next.  (The long itself comes round after 2^64,
\* a multiple.)
ThreadOf(p) == (p % UINT_RANGE) % m_nThreadNum

\* __HandlePkt with m_nThreadNum > 0.  The server is not being destroyed: its loop runs.
HandlePkt ==
    /\ deleting.at = "no"
    /\ m_nCount < MaxPkts
    /\ AddPkt(ThreadOf(m_nCount), m_nCount)
    /\ m_nCount' = m_nCount + 1
    /\ UNCHANGED <<m_bThreadRun, nSize, inHand, handled, deleting>>

-----------------------------------------------------------------------------
(* CPktHandleThread::HandlePkt, in thread t. *)

Goto(t, from, to) == pc[t] = from /\ pc' = [pc EXCEPT ![t] = to]

TestRun(t) ==
    /\ Goto(t, "test", IF m_bThreadRun[t] THEN "size" ELSE "exited")
    /\ UNCHANGED <<m_nCount, m_PktQueue, m_bThreadRun, nSize, inHand, handled, deleting>>

ReadSize(t) ==
    /\ Goto(t, "size", "check")
    /\ nSize' = [nSize EXCEPT ![t] = Len(m_PktQueue[t])]
    /\ UNCHANGED <<m_nCount, m_PktQueue, m_bThreadRun, inHand, handled, deleting>>

\* Mutant: the wait goes on until there is a packet, stopped or not.
CheckSizeOnly(t) ==
    /\ Goto(t, "check", IF nSize[t] = 0 THEN "enter" ELSE "batch")
    /\ UNCHANGED <<m_nCount, m_PktQueue, m_bThreadRun, nSize, inHand, handled, deleting>>

\* while ((nSize == 0) && m_bThreadRun)
CheckSize(t) ==
    /\ Goto(t, "check", IF nSize[t] = 0 /\ m_bThreadRun[t] THEN "enter" ELSE "batch")
    /\ UNCHANGED <<m_nCount, m_PktQueue, m_bThreadRun, nSize, inHand, handled, deleting>>

\* A packet may have come, and its signal been lost, since the size was read.
Wait(t) ==
    /\ Goto(t, "enter", "waiting")
    /\ UNCHANGED <<m_nCount, m_PktQueue, m_bThreadRun, nSize, inHand, handled, deleting>>

\* Mutant: pthread_cond_wait.
NoTimeout(t) == FALSE /\ UNCHANGED vars

\* The second is over.
Timeout(t) ==
    /\ Goto(t, "waiting", "woken")
    /\ UNCHANGED <<m_nCount, m_PktQueue, m_bThreadRun, nSize, inHand, handled, deleting>>

Woken(t) ==
    /\ Goto(t, "woken", "check")
    /\ nSize' = [nSize EXCEPT ![t] = Len(m_PktQueue[t])]
    /\ UNCHANGED <<m_nCount, m_PktQueue, m_bThreadRun, inHand, handled, deleting>>

\* Mutant: the packet is read and stays at the front of the queue.
PopFrontOnly(t) ==
    /\ nSize[t] > 0
    /\ Goto(t, "batch", "handle")
    /\ nSize' = [nSize EXCEPT ![t] = @ - 1]
    /\ inHand' = [inHand EXCEPT ![t] = <<Head(m_PktQueue[t])>>]
    /\ UNCHANGED <<m_nCount, m_PktQueue, m_bThreadRun, handled, deleting>>

\* Mutant: the number of packets left to take is not counted down.
PopUncounted(t) ==
    /\ nSize[t] > 0
    /\ Goto(t, "batch", "handle")
    /\ inHand' = [inHand EXCEPT ![t] = <<Head(m_PktQueue[t])>>]
    /\ m_PktQueue' = [m_PktQueue EXCEPT ![t] = Tail(@)]
    /\ UNCHANGED <<m_nCount, m_bThreadRun, nSize, handled, deleting>>

\* while (nSize-- > 0), front and pop.
Pop(t) ==
    /\ nSize[t] > 0
    /\ Goto(t, "batch", "handle")
    /\ nSize' = [nSize EXCEPT ![t] = @ - 1]
    /\ inHand' = [inHand EXCEPT ![t] = <<Head(m_PktQueue[t])>>]
    /\ m_PktQueue' = [m_PktQueue EXCEPT ![t] = Tail(@)]
    /\ UNCHANGED <<m_nCount, m_bThreadRun, handled, deleting>>

\* m_pDataHandle->OnClientDataReceived returns.
Handled(t) ==
    /\ Goto(t, "handle", "batch")
    /\ handled' = [handled EXCEPT ![t] = @ \o inHand[t]]
    /\ inHand' = [inHand EXCEPT ![t] = <<>>]
    /\ UNCHANGED <<m_nCount, m_PktQueue, m_bThreadRun, nSize, deleting>>

BatchEnds(t) ==
    /\ nSize[t] = 0
    /\ Goto(t, "batch", "test")
    /\ UNCHANGED <<m_nCount, m_PktQueue, m_bThreadRun, nSize, inHand, handled, deleting>>

\* __Thread_Run
Thread_Run(t) ==
    \/ TestRun(t) \/ ReadSize(t) \/ CheckSize(t) \/ Wait(t) \/ Timeout(t) \/ Woken(t)
    \/ Pop(t) \/ Handled(t) \/ BatchEnds(t)

-----------------------------------------------------------------------------
(* ~CCommonServer: delete [] m_Threads destroys the last thread first. *)

Delete ==
    /\ deleting.at = "no"
    /\ deleting' = [deleting EXCEPT !.at = "stop"]
    /\ UNCHANGED <<m_nCount, m_PktQueue, m_bThreadRun, pc, nSize, inHand, handled>>

\* Stop(): m_bThreadRun = false
Stop ==
    /\ deleting.at = "stop"
    /\ m_bThreadRun' = [m_bThreadRun EXCEPT ![deleting.last] = FALSE]
    /\ deleting' = [deleting EXCEPT !.at = "join"]
    /\ UNCHANGED <<m_nCount, m_PktQueue, pc, nSize, inHand, handled>>

\* pthread_join returns.
Join ==
    /\ deleting.at = "join"
    /\ pc[deleting.last] = "exited"
    /\ deleting' = IF deleting.last = 0 THEN [deleting EXCEPT !.at = "done"]
                   ELSE [at |-> "stop", last |-> deleting.last - 1]
    /\ UNCHANGED <<m_nCount, m_PktQueue, m_bThreadRun, pc, nSize, inHand, handled>>

-----------------------------------------------------------------------------
Next == HandlePkt \/ Delete \/ Stop \/ Join \/ \E t \in Threads : Thread_Run(t)

Spec == Init /\ [][Next]_vars

\* The operating system runs every thread, a wait ends after a second at the latest, and
\* the application returns from OnClientDataReceived.
Fairness == WF_vars(Stop \/ Join) /\ \A t \in Threads : WF_vars(Thread_Run(t))

FairSpec == Spec /\ Fairness

-----------------------------------------------------------------------------
\* front() and pop() are not called on an empty queue: while a thread works off what it
\* counted nobody else takes from its queue.
PopsWhatIsThere ==
    \A t \in Threads : pc[t] \in {"check", "batch", "handle"} => nSize[t] <= Len(m_PktQueue[t])

\* Of the first n packets those that are given to thread t.
Share(t, n) ==
    LET part(p) == IF ThreadOf(p) = t THEN <<p>> ELSE <<>>
    IN  FlattenSeq([i \in 1..n |-> part(i - 1)])

\* Each thread passes the packets that fall to it on once, in order, with none left out: what
\* it has handled, has in hand and has queued is all it was given.
InOrderOnce ==
    \A t \in Threads : (handled[t] \o inHand[t]) \o m_PktQueue[t] = Share(t, m_nCount)

\* The pool is m_nThreadNum queues that deal with one packet after the other, the number of
\* the packet naming the queue: waits, lost signals and the packet in a thread's hand do not
\* show, and no packet changes its queue.
Waiting == [t \in Threads |-> inHand[t] \o m_PktQueue[t]]

Queues == INSTANCE PacketQueues WITH
              threads <- m_nThreadNum, count <- m_nCount, queue <- Waiting, done <- handled

ImplementsQueues == Queues!Spec

\* The inductive invariant of the proofs: a packet is in hand exactly while the application
\* handles it.
OneInHand == \A t \in Threads : Len(inHand[t]) = IF pc[t] = "handle" THEN 1 ELSE 0

Inv == TypeOK /\ PopsWhatIsThere /\ OneInHand /\ InOrderOnce

\* A packet that is handed to the pool is handled, unless the server is destroyed before.
PacketsHandled ==
    \A t \in Threads, p \in 0 .. MaxPkts - 1 :
        p < m_nCount /\ ThreadOf(p) = t
            ~> deleting.at # "no" \/ \E k \in DOMAIN handled[t] : handled[t][k] = p

\* The destructor of the server ends: each join returns, though the thread may have been
\* about to wait when it was told to stop.
DestructorReturns == deleting.at # "no" ~> deleting.at = "done"
=============================================================================
