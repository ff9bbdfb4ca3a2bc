--------------------------- MODULE SendPathProofs ----------------------------
(* Theorems about SendPath, for all values of its constants. *)
EXTENDS SendPath, SequenceLemmas

-----------------------------------------------------------------------------
(* The inductive invariant. *)

LEMMA InitInv == Init => Inv
<1> SUFFICES ASSUME Init PROVE Inv
    OBVIOUS
<1> USE ThreadsAssumption, BoundsAssumption DEF Init
<1>1. /\ m_Functions \in Seq(Buffers) /\ functions \in Seq(Buffers)
      /\ m_WriteQueue \in Seq(Buffers) /\ Len(m_WriteQueue) = 0
      /\ out \in Seq(Msgs \X Nat) /\ accepted \in Seq(Msgs)
    OBVIOUS
<1>2. Len(m_WriteQueue) <= WRITE_QUEUE_MAX_SIZE + 1
    BY <1>1
<1>3. TypeOK
  <2>1. 0 \in 0..MaxStarts
    OBVIOUS
  <2> QED
    BY <1>1, <1>2, <2>1 DEF TypeOK
<1>4. LockInv /\ NoLostWakeup
    BY DEF LockInv, NoLostWakeup
<1> QED
    BY <1>3, <1>4 DEF Inv

\* What one write event does to the types.
LEMMA WriteType ==
    ASSUME TypeOK, m_WriteQueue # <<>>,
           NEW k \in 0..GetBytes(Head(m_WriteQueue)), WriteBytes(k)
    PROVE  /\ m_WriteQueue' \in Seq(Buffers)
           /\ Len(m_WriteQueue') <= WRITE_QUEUE_MAX_SIZE + 1
           /\ out' \in Seq(Msgs \X Nat)
           /\ m_Io' \in {"R", "RW"}
<1> DEFINE b == Head(m_WriteQueue)
           rest == Tail(m_WriteQueue)
<1>1. b \in Buffers /\ rest \in Seq(Buffers) /\ Len(rest) = Len(m_WriteQueue) - 1
    BY HeadTailProperties DEF TypeOK
<1>2. Len(m_WriteQueue) \in Nat \ {0}
    BY EmptySeq DEF TypeOK
<1>3. k \in Nat /\ b.msg \in Msgs /\ b.pos \in Nat
    BY <1>1, SizeAssumption DEF Buffers, GetBytes
<1>4. <<Buffer(b.msg, b.pos + k)>> \o rest \in Seq(Buffers)
      /\ Len(<<Buffer(b.msg, b.pos + k)>> \o rest) = Len(m_WriteQueue)
  <2>1. Buffer(b.msg, b.pos + k) \in Buffers
    BY <1>3 DEF Buffer, Buffers
  <2>2. <<Buffer(b.msg, b.pos + k)>> \in Seq(Buffers)
        /\ Len(<<Buffer(b.msg, b.pos + k)>>) = 1
    BY <2>1
  <2> QED
    BY <1>1, <1>2, <2>2, ConcatProperties
<1>5. [i \in 1..k |-> <<b.msg, b.pos + i>>] \in Seq(Msgs \X Nat)
    BY <1>3
<1>6. out' \in Seq(Msgs \X Nat)
    BY <1>5, ConcatProperties DEF WriteBytes, TypeOK
<1>7. m_WriteQueue' = rest \/ m_WriteQueue' = <<Buffer(b.msg, b.pos + k)>> \o rest
    BY DEF WriteBytes
<1>8. m_Io' \in {"R", "RW"}
    BY DEF WriteBytes
<1>9. m_WriteQueue' \in Seq(Buffers) /\ Len(m_WriteQueue') <= Len(m_WriteQueue)
  <2>1. CASE m_WriteQueue' = rest
    BY <1>1, <1>2, <2>1
  <2>2. CASE m_WriteQueue' = <<Buffer(b.msg, b.pos + k)>> \o rest
    BY <1>2, <1>4, <2>2
  <2> QED
    BY <1>7, <2>1, <2>2
<1>10. Len(m_WriteQueue') <= WRITE_QUEUE_MAX_SIZE + 1
  <2>1. Len(m_WriteQueue') \in Nat
    BY <1>9, LenProperties
  <2> QED
    BY <1>2, <1>9, <2>1, BoundsAssumption DEF TypeOK
<1> QED
    BY <1>6, <1>8, <1>9, <1>10

\* Destroying the connection keeps the types of what it changes.
LEMMA GoneType ==
    ASSUME Gone
    PROVE  /\ open' \in BOOLEAN /\ m_Io' \in {"R", "RW"}
           /\ m_WriteQueue' \in Seq(Buffers)
           /\ Len(m_WriteQueue') <= WRITE_QUEUE_MAX_SIZE + 1 /\ out' = out
<1>1. <<>> \in Seq(Buffers) /\ Len(<<>>) <= WRITE_QUEUE_MAX_SIZE + 1
    BY EmptySeq, BoundsAssumption
<1> QED
    BY <1>1 DEF Gone

\* Each step keeps the inductive invariant.
LEMMA InvStep == Inv /\ [Next]_vars => Inv'
<1> SUFFICES ASSUME Inv, [Next]_vars PROVE Inv'
    OBVIOUS
<1> USE ThreadsAssumption, BoundsAssumption DEF Inv, runVars
<1>0. Loop \in Threads
    BY DEF Threads
<1>1. ASSUME NEW t \in Threads, SendLock(t) PROVE Inv'
  <2>1. TypeOK'
    BY <1>1 DEF SendLock, TypeOK, connVars
  <2>2. \A u \in Threads : pc'[u] = IF u = t THEN "locked" ELSE pc[u]
    BY <1>1 DEF SendLock, TypeOK
  <2>3. LockInv'
    BY <1>0, <1>1, <2>2 DEF SendLock, LockInv
  <2>4. NoLostWakeup'
    BY <1>1, <2>2 DEF SendLock, NoLostWakeup
  <2> QED
    BY <2>1, <2>3, <2>4
<1>2. ASSUME NEW t \in Threads, SendPush(t) PROVE Inv'
  <2>1. PICK m \in Msgs : /\ m_Functions' = Append(m_Functions, Buffer(m, 0))
                          /\ accepted' = Append(accepted, m)
    BY <1>2 DEF SendPush
  <2>2. Buffer(m, 0) \in Buffers
    BY DEF Buffer, Buffers
  <2>3. m_Functions' \in Seq(Buffers) /\ accepted' \in Seq(Msgs)
    BY <2>1, <2>2, AppendProperties DEF TypeOK
  <2>4. TypeOK'
    BY <1>2, <2>3 DEF SendPush, TypeOK, connVars
  <2>5. \A u \in Threads : pc'[u] = IF u = t THEN "pushed" ELSE pc[u]
    BY <1>2 DEF SendPush, TypeOK
  <2>6. LockInv'
    BY <1>0, <1>2, <2>5 DEF SendPush, LockInv
  <2>7. NoLostWakeup'
    BY <1>2, <2>5 DEF NoLostWakeup
  <2> QED
    BY <2>4, <2>6, <2>7
<1>3. ASSUME NEW t \in Threads, SendWake(t) PROVE Inv'
  <2>1. TypeOK'
    BY <1>3 DEF SendWake, TypeOK, connVars
  <2>2. \A u \in Threads : pc'[u] = IF u = t THEN "woken" ELSE pc[u]
    BY <1>3 DEF SendWake, TypeOK
  <2>3. LockInv'
    BY <1>0, <1>3, <2>2 DEF SendWake, LockInv
  <2>4. NoLostWakeup'
    BY <1>3 DEF SendWake, NoLostWakeup
  <2> QED
    BY <2>1, <2>3, <2>4
<1>4. ASSUME NEW t \in Threads, SendUnlock(t) PROVE Inv'
  <2>1. TypeOK'
    BY <1>4 DEF SendUnlock, TypeOK, connVars
  <2>2. \A u \in Threads : pc'[u] = IF u = t THEN "out" ELSE pc[u]
    BY <1>4 DEF SendUnlock, TypeOK
  <2>3. LockInv'
    BY <1>0, <1>4, <2>2 DEF SendUnlock, LockInv
  <2>4. NoLostWakeup'
    BY <1>4, <2>2 DEF SendUnlock, NoLostWakeup
  <2> QED
    BY <2>1, <2>3, <2>4
<1>5. CASE AsyncSeen
    BY <1>5 DEF AsyncSeen, TypeOK, LockInv, NoLostWakeup, connVars
<1>6. CASE AsyncLock
  <2>1. TypeOK' /\ NoLostWakeup'
    BY <1>0, <1>6 DEF AsyncLock, TypeOK, NoLostWakeup, connVars
  <2>2. \A t \in Threads : pc[t] = "out"
    BY <1>6 DEF AsyncLock, LockInv
  <2>3. LockInv'
    BY <1>0, <1>6, <2>2 DEF AsyncLock, LockInv
  <2> QED
    BY <2>1, <2>3
<1>7. CASE AsyncSwap
  <2>1. functions = <<>>
    BY <1>7 DEF AsyncSwap, LockInv
  <2>2. TypeOK'
    BY <1>7 DEF AsyncSwap, TypeOK, connVars
  <2>3. LockInv' /\ NoLostWakeup'
    BY <1>7, <2>1 DEF AsyncSwap, LockInv, NoLostWakeup
  <2> QED
    BY <2>2, <2>3
<1>8. CASE AsyncUnlock
  <2>1. TypeOK'
    BY <1>8 DEF AsyncUnlock, TypeOK, connVars
  <2>2. \A t \in Threads : pc[t] = "out"
    BY <1>8 DEF AsyncUnlock, LockInv
  <2>3. LockInv' /\ NoLostWakeup'
    BY <1>8, <2>2 DEF AsyncUnlock, LockInv, NoLostWakeup
  <2> QED
    BY <2>1, <2>3
<1>9. CASE AsyncRun
  <2> DEFINE b == Head(functions)
  <2>1. b \in Buffers /\ functions' \in Seq(Buffers)
    BY <1>9, HeadTailProperties DEF AsyncRun, TypeOK
  <2>2. UNCHANGED <<sendVars, runVars, at>> /\ SendTo(b) /\ at = "running"
    BY <1>9 DEF AsyncRun
  <2>3. /\ Append(m_WriteQueue, b) \in Seq(Buffers)
        /\ Len(Append(m_WriteQueue, b)) = Len(m_WriteQueue) + 1
        /\ Len(m_WriteQueue) \in Nat
    BY <2>1, AppendProperties, LenProperties DEF TypeOK
  <2> HIDE DEF b
  <2>4. /\ open' \in BOOLEAN /\ m_Io' \in {"R", "RW"} /\ m_WriteQueue' \in Seq(Buffers)
        /\ Len(m_WriteQueue') <= WRITE_QUEUE_MAX_SIZE + 1 /\ out' = out
    <3>1. CASE ~open /\ UNCHANGED connVars
        BY <3>1 DEF TypeOK, connVars
    <3>2. CASE open /\ Gone
        BY <3>2, GoneType
    <3>3. CASE /\ Len(m_WriteQueue) <= WRITE_QUEUE_MAX_SIZE
               /\ m_WriteQueue' = Append(m_WriteQueue, b) /\ m_Io' = "RW"
               /\ UNCHANGED <<open, out>>
        BY <2>3, <3>3 DEF TypeOK
    <3> QED
        BY <2>2, <3>1, <3>2, <3>3 DEF SendTo
  <2>5. TypeOK'
    BY <2>1, <2>2, <2>4 DEF TypeOK, sendVars
  <2>6. LockInv' /\ NoLostWakeup'
    BY <2>2 DEF LockInv, NoLostWakeup, sendVars
  <2> QED
    BY <2>5, <2>6
<1>10. CASE AsyncReturn
    BY <1>10 DEF AsyncReturn, TypeOK, LockInv, NoLostWakeup, sendVars, connVars
<1>11. CASE Write
  <2>1. UNCHANGED <<sendVars, runVars, at, functions>> /\ UNCHANGED open
    BY <1>11 DEF Write, WriteBytes
  <2>2. /\ m_WriteQueue' \in Seq(Buffers) /\ m_Io' \in {"R", "RW"}
        /\ Len(m_WriteQueue') <= WRITE_QUEUE_MAX_SIZE + 1 /\ out' \in Seq(Msgs \X Nat)
    BY <1>11, WriteType DEF Write, TypeOK
  <2>3. TypeOK'
    BY <2>1, <2>2 DEF TypeOK, sendVars
  <2>4. LockInv' /\ NoLostWakeup'
    BY <2>1 DEF LockInv, NoLostWakeup, sendVars
  <2> QED
    BY <2>3, <2>4
<1>12. CASE ClientGone
  <2>1. TypeOK'
    BY <1>12, GoneType DEF ClientGone, TypeOK, sendVars
  <2>2. LockInv' /\ NoLostWakeup'
    BY <1>12 DEF ClientGone, LockInv, NoLostWakeup, sendVars
  <2> QED
    BY <2>1, <2>2
<1>13. CASE StopAsync
  <2>1. \/ at' = at
        \/ at = "async" /\ at' = "idle"
    BY <1>13 DEF StopAsync
  <2>2. TypeOK'
    BY <1>13, <2>1 DEF StopAsync, TypeOK, sendVars, connVars
  <2>3. LockInv' /\ NoLostWakeup'
    BY <1>13, <2>1 DEF StopAsync, LockInv, NoLostWakeup, sendVars
  <2> QED
    BY <2>2, <2>3
<1>14. CASE LoopReturns
    BY <1>14 DEF LoopReturns, TypeOK, LockInv, NoLostWakeup, sendVars, connVars
<1>15. CASE StartAsync
  <2>1. starts' \in 0..MaxStarts
    BY <1>15 DEF StartAsync, TypeOK
  <2>2. stranded' \in BOOLEAN
    BY <1>15 DEF StartAsync
  <2>3. TypeOK'
    BY <1>15, <2>1, <2>2 DEF StartAsync, TypeOK, connVars
  <2>4. LockInv'
    BY <1>15 DEF StartAsync, LockInv
  <2>5. NoLostWakeup'
    BY <1>15 DEF StartAsync, NoLostWakeup
  <2> QED
    BY <2>3, <2>4, <2>5
<1>16. CASE UNCHANGED vars
    BY <1>16 DEF vars, sendVars, connVars, TypeOK, LockInv, NoLostWakeup
<1> QED
    BY <1>1, <1>2, <1>3, <1>4, <1>5, <1>6, <1>7, <1>8, <1>9, <1>10, <1>11, <1>12, <1>13,
       <1>14, <1>15, <1>16
    DEF Next, Send, AsyncCallback

\* While m_Async is active, a call of __Send that waits in m_Functions has a wake-up of the
\* loop on its way, for any number of threads in Send and of Stops and Starts, unless it was
\* there at the last Start and nobody has called Send since.
THEOREM Wakeup == Spec => []NoLostWakeup
<1>1. Inv => NoLostWakeup
    BY DEF Inv
<1> QED
    BY <1>1, InitInv, InvStep, PTL DEF Spec

\* Every variable keeps its type, and the write queue its bound.
THEOREM TypeCorrect == Spec => []TypeOK
<1>1. Inv => TypeOK
    BY DEF Inv
<1> QED
    BY <1>1, InitInv, InvStep, PTL DEF Spec

-----------------------------------------------------------------------------
(* Refinement. *)

\* What a step of SendPath is to MsgFifo.
Enqueues ==
    \E m \in Msgs : /\ accepted' = Append(accepted, m)
                    /\ IF open THEN Fifo!Put(m) ELSE UNCHANGED <<open, pending, out>>
Dequeues ==
    /\ UNCHANGED accepted
    /\ \/ open /\ pending # <<>> /\ \E k \in 0..Fifo!Left(Head(pending)) : Fifo!Emit(k)
       \/ Fifo!Close
       \/ UNCHANGED <<open, pending, out>>

\* Buffers that leave m_Functions for the loop's batch, and the batch for the write queue,
\* stay in their order; every step of SendPath is one of MsgFifo or leaves it as it is.
LEMMA FifoMove == Inv /\ [Next]_vars => Enqueues \/ Dequeues
<1> SUFFICES ASSUME Inv, [Next]_vars PROVE Enqueues \/ Dequeues
    OBVIOUS
<1>0. /\ m_WriteQueue \in Seq(Buffers) /\ functions \in Seq(Buffers)
      /\ m_Functions \in Seq(Buffers) /\ m_WriteQueue \o functions \in Seq(Buffers)
    BY ConcatProperties DEF Inv, TypeOK
<1>1. ASSUME UNCHANGED <<accepted, open, m_WriteQueue, functions, m_Functions, out>>
      PROVE  Dequeues
    BY <1>1 DEF Dequeues, pending
<1>2. ASSUME NEW t \in Threads, SendPush(t) PROVE Enqueues
  <2>1. PICK m \in Msgs : /\ m_Functions' = Append(m_Functions, Buffer(m, 0))
                          /\ accepted' = Append(accepted, m)
    BY <1>2 DEF SendPush
  <2>2. UNCHANGED <<functions, connVars>>
    BY <1>2 DEF SendPush
  <2>3. Buffer(m, 0) \in Buffers
    BY DEF Buffer, Buffers
  <2>4. CASE open
    <3>1. pending' = Append(pending, Buffer(m, 0))
        BY <1>0, <2>1, <2>2, <2>3, <2>4, AppendLast DEF pending, connVars
    <3>2. Fifo!Put(m)
        BY <2>2, <2>4, <3>1 DEF Fifo!Put, Fifo!Buffer, Buffer, connVars
    <3> QED
        BY <2>1, <2>4, <3>2 DEF Enqueues
  <2>5. CASE ~open
    BY <2>1, <2>2, <2>5 DEF Enqueues, pending, connVars
  <2> QED
    BY <2>4, <2>5
<1>3. CASE AsyncSwap
  <2>1. functions = <<>> /\ functions' = m_Functions /\ m_Functions' = <<>>
    BY <1>3 DEF AsyncSwap, Inv, LockInv
  <2>2. UNCHANGED <<accepted, connVars>>
    BY <1>3 DEF AsyncSwap
  <2>3. /\ m_WriteQueue \o <<>> = m_WriteQueue
        /\ (m_WriteQueue \o m_Functions) \o <<>> = m_WriteQueue \o m_Functions
    BY <1>0, ConcatProperties, ConcatEmptySeq
  <2> QED
    BY <2>1, <2>2, <2>3 DEF Dequeues, pending, connVars
<1>4. ASSUME open, Gone, UNCHANGED m_Functions PROVE Fifo!Close
    BY <1>4 DEF Gone, Fifo!Close, pending
<1>5. CASE AsyncRun
  <2> DEFINE b == Head(functions)
  <2>1. /\ functions # <<>> /\ functions' = Tail(functions) /\ m_Functions' = m_Functions
        /\ SendTo(b) /\ UNCHANGED accepted
    BY <1>5 DEF AsyncRun, sendVars
  <2>2. CASE ~open /\ UNCHANGED connVars
    BY <2>1, <2>2 DEF Dequeues, pending, connVars
  <2>3. CASE open /\ Gone
    BY <1>4, <2>1, <2>3 DEF Dequeues
  <2>4. CASE open /\ m_WriteQueue' = Append(m_WriteQueue, b) /\ UNCHANGED <<open, out>>
    <3>1. Append(m_WriteQueue, b) \o Tail(functions) = m_WriteQueue \o functions
        BY <1>0, <2>1, MoveHead
    <3> QED
        BY <2>1, <2>4, <3>1 DEF Dequeues, pending
  <2> QED
    BY <2>1, <2>2, <2>3, <2>4 DEF SendTo
<1>6. CASE Write
  <2>1. open /\ UNCHANGED <<accepted, open, functions, m_Functions>>
    BY <1>6 DEF Write, WriteBytes, sendVars
  <2>2. CASE m_WriteQueue = <<>>
    BY <1>1, <1>6, <2>1, <2>2 DEF Write
  <2>3. CASE m_WriteQueue # <<>>
    <3> DEFINE b == Head(m_WriteQueue)
               r == functions \o m_Functions
    <3>1. PICK k \in 0..GetBytes(b) : WriteBytes(k)
        BY <1>6, <2>3 DEF Write
    <3>2. r \in Seq(Buffers) /\ pending = m_WriteQueue \o r
        BY <1>0, <2>1, ConcatProperties, ConcatAssociative DEF pending
    <3>3. pending # <<>> /\ Head(pending) = b /\ Tail(pending) = Tail(m_WriteQueue) \o r
        BY <1>0, <2>3, <3>2, HeadTailConcat
    <3>4. /\ b \in Buffers /\ Tail(m_WriteQueue) \in Seq(Buffers)
          /\ <<Buffer(b.msg, b.pos + k)>> \in Seq(Buffers)
      <4>1. b \in Buffers /\ Tail(m_WriteQueue) \in Seq(Buffers)
        BY <1>0, <2>3, HeadTailProperties
      <4>2. k \in Nat /\ b.msg \in Msgs /\ b.pos \in Nat
        BY <4>1, SizeAssumption DEF Buffers, GetBytes
      <4>3. Buffer(b.msg, b.pos + k) \in Buffers
        BY <4>2 DEF Buffer, Buffers
      <4> QED
        BY <4>1, <4>3
    <3> DEFINE front == <<Buffer(b.msg, b.pos + k)>>
    <3>5. m_WriteQueue' = IF k = GetBytes(b) THEN Tail(m_WriteQueue)
                          ELSE front \o Tail(m_WriteQueue)
        BY <3>1 DEF WriteBytes
    <3>6. m_WriteQueue' \in Seq(Buffers)
        BY <3>4, <3>5, ConcatProperties
    <3>7. pending' = m_WriteQueue' \o r
      <4>1. pending' = (m_WriteQueue' \o functions) \o m_Functions
        BY <2>1 DEF pending
      <4> QED
        BY <1>0, <3>6, <4>1, ConcatAssociative
    <3>8. (front \o Tail(m_WriteQueue)) \o r = front \o Tail(pending)
        BY <3>2, <3>3, <3>4, ConcatAssociative
    <3> HIDE DEF r, front
    <3>9. pending' = IF k = GetBytes(b) THEN Tail(pending) ELSE front \o Tail(pending)
        BY <3>3, <3>5, <3>7, <3>8
    <3>10. Fifo!Emit(k)
        BY <2>1, <3>1, <3>3, <3>9
        DEF WriteBytes, Fifo!Emit, Fifo!Left, Fifo!Buffer, GetBytes, Buffer, front
    <3>11. k \in 0..Fifo!Left(Head(pending))
        BY <3>3 DEF Fifo!Left, GetBytes
    <3> QED
        BY <2>1, <3>3, <3>10, <3>11 DEF Dequeues
  <2> QED
    BY <2>2, <2>3
<1>7. CASE ClientGone
    BY <1>4, <1>7 DEF ClientGone, sendVars, Dequeues
<1>8. ASSUME NEW t \in Threads, SendLock(t) \/ SendWake(t) \/ SendUnlock(t)
      PROVE  Dequeues
    BY <1>1, <1>8 DEF SendLock, SendWake, SendUnlock, connVars
<1>9. ASSUME \/ AsyncSeen \/ AsyncLock \/ AsyncUnlock \/ AsyncReturn
             \/ StopAsync \/ LoopReturns \/ StartAsync
      PROVE  Dequeues
    BY <1>1, <1>9 DEF AsyncSeen, AsyncLock, AsyncUnlock, AsyncReturn, StopAsync, LoopReturns,
       StartAsync, sendVars, connVars
<1>10. CASE UNCHANGED vars
    BY <1>1, <1>10 DEF vars, sendVars, connVars
<1> QED
    BY <1>2, <1>3, <1>5, <1>6, <1>7, <1>8, <1>9, <1>10 DEF Next, Send, AsyncCallback

LEMMA FifoStep == Inv /\ [Next]_vars => [Fifo!Next]_(Fifo!fifoVars)
    BY FifoMove DEF Enqueues, Dequeues, Fifo!Next, Fifo!fifoVars

\* Send keeps the promise of MsgFifo: for each client the bytes leave in the order in which
\* the messages were queued, none twice and none left out, until the connection ends.
THEOREM Refinement == Spec => FifoSpec
<1>1. Init => Fifo!Init
    BY DEF Init, Fifo!Init, pending
<1> QED
    BY <1>1, InitInv, InvStep, FifoStep, PTL DEF Spec, FifoSpec, Fifo!Spec
-----------------------------------------------------------------------------
(* The bytes. *)

BytePos == Msgs \X Nat
BytesOf == [b \in Buffers |-> Bytes(b)]

LEMMA BytesType ==
    ASSUME NEW b \in Buffers
    PROVE  Bytes(b) \in Seq(BytePos) /\ Bytes(b) = Run(b.msg, b.pos, GetBytes(b))
<1>1. b.msg \in Msgs /\ b.pos \in Nat /\ Size[b.msg] \in Nat
    BY SizeAssumption DEF Buffers
<1>2. GetBytes(b) \in Int
    BY <1>1 DEF GetBytes
<1>3. Run(b.msg, b.pos, GetBytes(b)) \in Seq(BytePos)
    BY <1>1, <1>2, RunType DEF BytePos
<1>4. Bytes(b) = Run(b.msg, b.pos, GetBytes(b))
    BY DEF Bytes, Run
<1> QED
    BY <1>3, <1>4

LEMMA BytesMaps == Maps(BytesOf, Buffers, Seq(BytePos))
    BY BytesType DEF Maps, BytesOf

LEMMA StreamMaps ==
    ASSUME NEW q \in Seq(Buffers)
    PROVE  Stream(q) = FlatMapped(BytesOf, q) /\ Stream(q) \in Seq(BytePos)
<1>1. \A i \in DOMAIN q : q[i] \in Buffers
    OBVIOUS
<1>2. [i \in DOMAIN q |-> Bytes(q[i])] = Mapped(BytesOf, q)
    BY <1>1 DEF Mapped, BytesOf
<1>3. FlatMapped(BytesOf, q) \in Seq(BytePos)
    BY BytesMaps, FlatMappedType
<1> QED
    BY <1>2, <1>3 DEF Stream, FlatMapped

LEMMA StreamAppend ==
    ASSUME NEW q \in Seq(Buffers), NEW b \in Buffers
    PROVE  Stream(Append(q, b)) = Stream(q) \o Bytes(b)
<1>1. Append(q, b) \in Seq(Buffers) /\ BytesOf[b] = Bytes(b)
    BY AppendProperties DEF BytesOf
<1>2. FlatMapped(BytesOf, Append(q, b)) = FlatMapped(BytesOf, q) \o BytesOf[b]
    BY BytesMaps, FlatMappedAppend
<1> QED
    BY <1>1, <1>2, StreamMaps

LEMMA StreamCons ==
    ASSUME NEW q \in Seq(Buffers), q # <<>>
    PROVE  Stream(q) = Bytes(Head(q)) \o Stream(Tail(q))
<1>1. Tail(q) \in Seq(Buffers) /\ BytesOf[Head(q)] = Bytes(Head(q))
    BY HeadTailProperties DEF BytesOf
<1>2. FlatMapped(BytesOf, q) = BytesOf[Head(q)] \o FlatMapped(BytesOf, Tail(q))
    BY BytesMaps, FlatMappedCons
<1> QED
    BY <1>1, <1>2, StreamMaps

LEMMA StreamEmpty == Stream(<<>>) = <<>>
    BY StreamMaps, FlatMappedEmpty, EmptySeq

\* A part of a buffer leaves: its bytes are those that left and those of the rest.
LEMMA SplitBytes ==
    ASSUME NEW b \in Buffers, NEW k \in 0..GetBytes(b)
    PROVE  /\ [i \in 1..k |-> <<b.msg, b.pos + i>>] \in Seq(BytePos)
           /\ Buffer(b.msg, b.pos + k) \in Buffers
           /\ [i \in 1..k |-> <<b.msg, b.pos + i>>] \o Bytes(Buffer(b.msg, b.pos + k)) = Bytes(b)
           /\ k = GetBytes(b) => [i \in 1..k |-> <<b.msg, b.pos + i>>] = Bytes(b)
<1> DEFINE c == Buffer(b.msg, b.pos + k)
<1>1. b.msg \in Msgs /\ b.pos \in Nat /\ Size[b.msg] \in Nat
    BY SizeAssumption DEF Buffers
<1>2. k \in Nat /\ GetBytes(b) \in Nat /\ k \in 0..GetBytes(b)
    BY <1>1 DEF GetBytes
<1>3. c \in Buffers /\ c.msg = b.msg /\ c.pos = b.pos + k
    BY <1>1, <1>2 DEF Buffer, Buffers
<1>4. GetBytes(c) = GetBytes(b) - k
    BY <1>1, <1>2, <1>3 DEF GetBytes
<1> HIDE DEF c
<1>5. [i \in 1..k |-> <<b.msg, b.pos + i>>] = Run(b.msg, b.pos, k)
    BY DEF Run
<1>6. Run(b.msg, b.pos, k) \in Seq(BytePos)
    BY <1>1, <1>2, RunType DEF BytePos
<1>7. Bytes(c) = Run(b.msg, b.pos + k, GetBytes(b) - k) /\ Bytes(b) = Run(b.msg, b.pos, GetBytes(b))
    BY <1>3, <1>4, BytesType
<1>8. Run(b.msg, b.pos, k) \o Run(b.msg, b.pos + k, GetBytes(b) - k) = Run(b.msg, b.pos, GetBytes(b))
    BY <1>1, <1>2, RunSplit
<1> QED
    BY <1>3, <1>5, <1>6, <1>7, <1>8 DEF c

\* Every step keeps the relation of the bytes on the socket, the queues and the messages.
LEMMA StreamStep == Inv /\ StreamIntact /\ [Next]_vars => StreamIntact'
<1> SUFFICES ASSUME Inv, StreamIntact, [Next]_vars PROVE StreamIntact'
    OBVIOUS
<1>0. \A x, y, z \in Seq(BytePos) : (x \o y) \o z = x \o (y \o z)
    BY ConcatAssociative
<1> DEFINE sent == [i \in DOMAIN accepted |-> Buffer(accepted[i], 0)]
<1>1. /\ out \in Seq(BytePos) /\ pending \in Seq(Buffers) /\ sent \in Seq(Buffers)
      /\ AllBytes \in Seq(BytePos)
  <2>1. out \in Seq(BytePos) /\ accepted \in Seq(Msgs)
    BY DEF Inv, TypeOK, BytePos
  <2>2. pending \in Seq(Buffers)
    <3>1. /\ m_WriteQueue \o functions \in Seq(Buffers)
          /\ (m_WriteQueue \o functions) \o m_Functions \in Seq(Buffers) /\ <<>> \in Seq(Buffers)
        BY ConcatProperties, EmptySeq DEF Inv, TypeOK
    <3> QED
        BY <3>1 DEF pending
  <2>3. \A i \in DOMAIN accepted : Buffer(accepted[i], 0) \in Buffers
    BY <2>1 DEF Buffer, Buffers
  <2>4. sent \in Seq(Buffers)
    BY <2>1, <2>3
  <2> QED
    BY <2>1, <2>2, <2>4, StreamMaps DEF AllBytes
<1>2. CASE Enqueues
  <2>1. PICK m \in Msgs : /\ accepted' = Append(accepted, m)
                          /\ IF open THEN Fifo!Put(m) ELSE UNCHANGED <<open, pending, out>>
    BY <1>2 DEF Enqueues
  <2> DEFINE b == Buffer(m, 0)
  <2>2. b \in Buffers /\ Bytes(b) \in Seq(BytePos)
    BY BytesType DEF Buffer, Buffers
  <2>3. sent' = Append(sent, b)
    <3>1. accepted \in Seq(Msgs) /\ Len(accepted) \in Nat /\ DOMAIN accepted = 1..Len(accepted)
        BY LenProperties DEF Inv, TypeOK
    <3>2. /\ accepted' \in Seq(Msgs) /\ Len(accepted') = Len(accepted) + 1
          /\ DOMAIN accepted' = 1..(Len(accepted) + 1)
          /\ (\A i \in 1..Len(accepted) : accepted'[i] = accepted[i])
          /\ accepted'[Len(accepted) + 1] = m
        BY <2>1, <3>1, AppendProperties, LenProperties
    <3>3. Len(sent) = Len(accepted)
        BY <3>1
    <3>4. /\ Append(sent, b) \in Seq(Buffers) /\ Len(Append(sent, b)) = Len(accepted) + 1
          /\ (\A i \in 1..Len(accepted) : Append(sent, b)[i] = sent[i])
          /\ Append(sent, b)[Len(accepted) + 1] = b
        BY <1>1, <2>2, <3>3, AppendProperties
    <3>5. sent' \in Seq(Buffers) /\ Len(sent') = Len(accepted) + 1
      <4>1. \A i \in DOMAIN accepted' : Buffer(accepted'[i], 0) \in Buffers
        BY <3>2 DEF Buffer, Buffers
      <4> QED
        BY <3>1, <3>2, <4>1
    <3>6. ASSUME NEW i \in 1..(Len(accepted) + 1) PROVE sent'[i] = Append(sent, b)[i]
      <4>1. CASE i = Len(accepted) + 1
        BY <3>2, <3>4, <4>1
      <4>2. CASE i # Len(accepted) + 1
        <5>1. i \in 1..Len(accepted)
            BY <3>1, <4>2
        <5>2. sent[i] = Buffer(accepted[i], 0) /\ sent'[i] = Buffer(accepted[i], 0)
            BY <3>1, <3>2, <5>1
        <5> QED
            BY <3>4, <5>1, <5>2
      <4> QED
        BY <4>1, <4>2
    <3> HIDE DEF sent
    <3> QED
        BY <3>4, <3>5, <3>6, SeqEqual
  <2>4. AllBytes' = AllBytes \o Bytes(b)
    <3>1. Stream(Append(sent, b)) = Stream(sent) \o Bytes(b)
        BY <1>1, <2>2, StreamAppend
    <3>2. Stream(sent)' = Stream(sent')
        BY DEF Stream, Bytes, GetBytes
    <3> QED
        BY <2>3, <3>1, <3>2 DEF AllBytes
  <2>5. CASE open
    <3>1. open' /\ out' = out /\ pending' = Append(pending, b)
        BY <2>1, <2>5 DEF Fifo!Put, Fifo!Buffer, Buffer
    <3>2. Stream(pending)' = Stream(pending) \o Bytes(b)
      <4>1. Stream(pending)' = Stream(pending')
        BY DEF Stream, Bytes, GetBytes
      <4> QED
        BY <1>1, <2>2, <3>1, <4>1, StreamAppend
    <3>3. out \o (Stream(pending) \o Bytes(b)) = (out \o Stream(pending)) \o Bytes(b)
      <4>1. Stream(pending) \in Seq(BytePos)
        BY <1>1, StreamMaps
      <4> QED
        BY <1>0, <1>1, <2>2, <4>1, Zenon
    <3> QED
        BY <2>4, <2>5, <3>1, <3>2, <3>3 DEF StreamIntact
  <2>6. CASE ~open
    <3>1. ~open' /\ out' = out /\ IsPrefix(out, AllBytes)
        BY <2>1, <2>6 DEF StreamIntact
    <3>2. IsPrefix(out, AllBytes \o Bytes(b))
        BY <1>1, <2>2, <3>1, PrefixExtend
    <3> QED
        BY <2>4, <3>1, <3>2 DEF StreamIntact
  <2> QED
    BY <2>5, <2>6
<1>3. CASE Dequeues
  <2>1. AllBytes' = AllBytes
    BY <1>3 DEF Dequeues, AllBytes, Stream, Bytes, GetBytes
  <2>2. CASE UNCHANGED <<open, pending, out>>
    <3>1. Stream(pending)' = Stream(pending)
        BY <2>2 DEF Stream, Bytes, GetBytes
    <3> QED
        BY <2>1, <2>2, <3>1 DEF StreamIntact
  <2>3. CASE Fifo!Close
    <3>1. open /\ ~open' /\ out' = out
        BY <2>3 DEF Fifo!Close
    <3>2. out \o Stream(pending) = AllBytes
        BY <3>1 DEF StreamIntact
    <3>3. IsPrefix(out, AllBytes)
      <4>1. Stream(pending) \in Seq(BytePos)
        BY <1>1, StreamMaps
      <4> QED
        BY <1>1, <3>2, <4>1, PrefixConcat
    <3> QED
        BY <2>1, <3>1, <3>3 DEF StreamIntact
  <2>4. CASE open /\ pending # <<>> /\ \E k \in 0..Fifo!Left(Head(pending)) : Fifo!Emit(k)
    <3> DEFINE b == Head(pending)
               rest == Tail(pending)
    <3>1. PICK k \in 0..GetBytes(b) : Fifo!Emit(k)
        BY <2>4 DEF Fifo!Left, GetBytes
    <3> DEFINE u == [i \in 1..k |-> <<b.msg, b.pos + i>>]
               c == Buffer(b.msg, b.pos + k)
    <3>2. b \in Buffers /\ rest \in Seq(Buffers) /\ Stream(rest) \in Seq(BytePos)
        BY <1>1, <2>4, HeadTailProperties, StreamMaps
    <3>3. /\ u \in Seq(BytePos) /\ c \in Buffers /\ u \o Bytes(c) = Bytes(b)
          /\ k = GetBytes(b) => u = Bytes(b)
        BY <3>2, SplitBytes
    <3>4. Stream(pending) = Bytes(b) \o Stream(rest)
        BY <1>1, <2>4, StreamCons
    <3>5. /\ open' /\ open /\ out' = out \o u
          /\ pending' = IF k = GetBytes(b) THEN rest ELSE <<c>> \o rest
        BY <2>4, <3>1 DEF Fifo!Emit, Fifo!Left, Fifo!Buffer, GetBytes, Buffer
    <3>6. Stream(pending)' = Stream(pending')
        BY DEF Stream, Bytes, GetBytes
    <3>7. Bytes(c) \in Seq(BytePos)
        BY <3>3, BytesType
    <3> HIDE DEF b, rest, u, c
    <3>8. u \o Stream(pending') = Bytes(b) \o Stream(rest)
      <4>1. CASE k = GetBytes(b)
        BY <3>3, <3>5, <4>1
      <4>2. CASE k # GetBytes(b)
        <5>1. pending' = <<c>> \o rest
            BY <3>5, <4>2
        <5>2. <<c>> \in Seq(Buffers) /\ <<c>> # <<>> /\ Head(<<c>>) = c /\ Tail(<<c>>) = <<>>
            BY <3>3
        <5>3. /\ <<c>> \o rest \in Seq(Buffers) /\ <<c>> \o rest # <<>>
              /\ Head(<<c>> \o rest) = c /\ Tail(<<c>> \o rest) = <<>> \o rest
            BY <3>2, <5>2, HeadTailConcat, ConcatProperties
        <5>4. <<>> \o rest = rest
            BY <3>2, ConcatEmptySeq
        <5>5. Stream(pending') = Bytes(c) \o Stream(rest)
            BY <5>1, <5>3, <5>4, StreamCons
        <5>6. u \o (Bytes(c) \o Stream(rest)) = (u \o Bytes(c)) \o Stream(rest)
            BY <1>0, <3>2, <3>3, <3>7, Zenon
        <5> QED
            BY <3>3, <5>5, <5>6
      <4> QED
        BY <4>1, <4>2
    <3>9. pending' \in Seq(Buffers)
      <4>1. <<c>> \o rest \in Seq(Buffers)
        BY <3>2, <3>3, ConcatProperties
      <4> QED
        BY <3>2, <3>5, <4>1
    <3>10. (out \o u) \o Stream(pending') = out \o (u \o Stream(pending'))
      <4>1. Stream(pending') \in Seq(BytePos)
        BY <3>9, StreamMaps
      <4> QED
        BY <1>0, <1>1, <3>3, <4>1, Zenon
    <3>11. out' \o Stream(pending)' = AllBytes
        BY <3>4, <3>5, <3>6, <3>8, <3>10 DEF StreamIntact
    <3> QED
        BY <2>1, <3>5, <3>11 DEF StreamIntact
  <2> QED
    BY <1>3, <2>2, <2>3, <2>4 DEF Dequeues
<1> QED
    BY <1>2, <1>3, FifoMove

\* For any messages, any number of threads in Send and any limit: the bytes on the socket
\* and those still queued are the messages in the order in which Send queued them, and when
\* the client is gone a prefix of them.
THEOREM Intact == Spec => []StreamIntact
<1>1. Init => StreamIntact
  <2> SUFFICES ASSUME Init PROVE out \o Stream(pending) = AllBytes
    BY DEF Init, StreamIntact
  <2>1. pending = <<>> /\ accepted = <<>> /\ out = <<>>
    BY DEF Init, pending
  <2>2. [i \in DOMAIN accepted |-> Buffer(accepted[i], 0)] = <<>>
    BY <2>1
  <2>3. <<>> \o <<>> = <<>>
    BY ConcatEmptySeq, EmptySeq
  <2> QED
    BY <2>1, <2>2, <2>3, StreamEmpty DEF AllBytes
<1> QED
    BY <1>1, InitInv, InvStep, StreamStep, PTL DEF Spec
=============================================================================
