--------------------------- MODULE TcpClientProofs ---------------------------
(* Theorems about TcpClient, for all values of its constants. *)
EXTENDS TcpClient, SequenceLemmas

LEMMA InitInv == Init => Inv
<1> SUFFICES ASSUME Init PROVE Inv
    OBVIOUS
<1> USE BoundsAssumption, SizeAssumption DEF Init, PeerStates, Watchers
<1>1. m_WriteQueue \in Seq(Buffers) /\ Len(m_WriteQueue) = 0
      /\ m_Functions \in Seq(Buffers) /\ functions \in Seq(Buffers)
    OBVIOUS
<1>2. Len(m_WriteQueue) <= WRITE_QUEUE_MAX_SIZE + 1
    BY <1>1
<1>3. out \in [Conns -> Seq(Turns \X Nat)]
    OBVIOUS
<1>4. sent \in 0..Len(Size)
    BY LenProperties
<1>5. /\ m_Io \in Watchers
      /\ m_Socket \in 0..MaxConns /\ conns \in 0..MaxConns /\ failures \in 0..MaxFailures
    OBVIOUS
<1>6. TypeOK
    BY <1>1, <1>2, <1>3, <1>4, <1>5 DEF TypeOK
<1> QED
    BY <1>6 DEF Inv, NoLostWakeup, ToldBetween, WriteWatched, Quiet

\* A new socket has write events asked for, whatever is queued; a failed one leaves m_Io.
LEMMA ConnectType ==
    ASSUME TypeOK, WriteWatched, Connect \/ ConnectFails
    PROVE  /\ m_Socket' \in 0..MaxConns
           /\ peer' \in PeerStates
           /\ m_Io' \in Watchers
           /\ ioError' \in BOOLEAN
           /\ conns' \in 0..MaxConns /\ failures' \in 0..MaxFailures
           /\ m_WriteQueue # <<>> => m_Io'.ev = "RW"
<1> USE BoundsAssumption DEF TypeOK, WriteWatched, PeerStates, Watchers
<1>1. CASE Connect
  <2>1. conns' \in 0..MaxConns /\ m_Socket' = conns' /\ failures' = failures
    BY <1>1 DEF Connect
  <2>2. m_Io' = [conn |-> conns', ev |-> "RW"] /\ peer' = "connecting" /\ ioError' = FALSE
    BY <1>1 DEF Connect
  <2> QED
    BY <2>1, <2>2
<1>2. CASE ConnectFails
  <2>1. /\ failures' \in 0..MaxFailures /\ m_Socket' = 0 /\ peer' = "none"
        /\ ioError' = FALSE /\ UNCHANGED <<m_Io, conns>>
    BY <1>2 DEF ConnectFails
  <2>2. m_Io' \in Watchers /\ conns' \in 0..MaxConns
    BY <2>1
  <2>3. m_WriteQueue # <<>> => m_Io'.ev = "RW"
    BY <2>1
  <2>4. m_Socket' \in 0..MaxConns /\ peer' \in PeerStates
    BY <2>1
  <2>5. ioError' \in BOOLEAN
    BY <2>1
  <2> QED
    BY <2>1, <2>2, <2>3, <2>4, <2>5
<1> QED
    BY <1>1, <1>2

\* A callback that ends in sleep(1), with __Connect to come.
LEMMA ReconnectStep ==
    ASSUME Inv, Dispatching, Reconnect
    PROVE  Inv'
<1>1. TypeOK' /\ WriteWatched'
    BY DEF Inv, Reconnect, TypeOK, WriteWatched, linkVars, sendVars, threadVars
<1>2. NoLostWakeup' /\ ToldBetween' /\ Quiet'
    BY DEF Inv, Reconnect, NoLostWakeup, ToldBetween, Quiet, linkVars, sendVars, threadVars
<1> QED
    BY <1>1, <1>2 DEF Inv

\* The __Connect after the sleep, in which Stop may have come.
LEMMA WakesStep ==
    ASSUME Inv, Wakes
    PROVE  Inv'
<1>1. TypeOK' /\ WriteWatched'
    BY ConnectType DEF Inv, Wakes, TypeOK, WriteWatched, sendVars
<1>2. NoLostWakeup' /\ ToldBetween' /\ Quiet'
    BY DEF Inv, Wakes, NoLostWakeup, ToldBetween, Quiet, sendVars
<1> QED
    BY <1>1, <1>2 DEF Inv

\* What one write event does to the types.
LEMMA WriteType ==
    ASSUME TypeOK, m_Socket # 0, m_WriteQueue # <<>>,
           NEW k \in 0..GetBytes(Head(m_WriteQueue)), WriteBytes(k)
    PROVE  /\ m_WriteQueue' \in Seq(Buffers)
           /\ Len(m_WriteQueue') <= WRITE_QUEUE_MAX_SIZE + 1
           /\ out' \in [Conns -> Seq(Turns \X Nat)]
           /\ m_Io' \in Watchers
           /\ m_WriteQueue' # <<>> => m_Io'.ev = "RW"
<1> DEFINE b == Head(m_WriteQueue)
           rest == Tail(m_WriteQueue)
           front == <<Buffer(b.turn, b.pos + k)>>
           bytes == [i \in 1..k |-> <<b.turn, b.pos + i>>]
<1>1. b \in Buffers /\ rest \in Seq(Buffers) /\ Len(rest) = Len(m_WriteQueue) - 1
    BY HeadTailProperties DEF TypeOK
<1>2. Len(m_WriteQueue) \in Nat \ {0}
    BY EmptySeq DEF TypeOK
<1>3. k \in Nat /\ b.turn \in Turns /\ b.pos \in Nat
  <2>1. b.turn \in Turns /\ b.pos \in Nat
    BY <1>1 DEF Buffers
  <2>2. Size[b.turn] \in Nat
    BY <2>1, SizeAssumption DEF Turns
  <2> QED
    BY <2>1, <2>2 DEF GetBytes
<1>4. front \in Seq(Buffers) /\ Len(front) = 1
  <2>1. Buffer(b.turn, b.pos + k) \in Buffers
    BY <1>3 DEF Buffer, Buffers
  <2> QED
    BY <2>1
<1>5. front \o rest \in Seq(Buffers) /\ Len(front \o rest) = Len(m_WriteQueue)
    BY <1>1, <1>2, <1>4, ConcatProperties
<1>6. bytes \in Seq(Turns \X Nat)
    BY <1>3
<1>7. m_Socket \in Conns
    BY BoundsAssumption DEF TypeOK, Conns
<1>8. out' = [out EXCEPT ![m_Socket] = @ \o bytes]
    BY DEF WriteBytes
<1>9. out[m_Socket] \o bytes \in Seq(Turns \X Nat)
    BY <1>6, <1>7, ConcatProperties DEF TypeOK
<1>10. out' \in [Conns -> Seq(Turns \X Nat)]
    BY <1>7, <1>8, <1>9 DEF TypeOK
<1>11. m_WriteQueue' = rest \/ m_WriteQueue' = front \o rest
    BY DEF WriteBytes
<1>12. m_WriteQueue' \in Seq(Buffers) /\ Len(m_WriteQueue') <= Len(m_WriteQueue)
    BY <1>1, <1>2, <1>5, <1>11
<1>13. Len(m_WriteQueue') <= WRITE_QUEUE_MAX_SIZE + 1
  <2>1. Len(m_WriteQueue') \in Nat
    BY <1>12, LenProperties
  <2> QED
    BY <1>2, <1>12, <2>1, BoundsAssumption DEF TypeOK
<1>14. m_Io' = [m_Io EXCEPT !.ev = IF m_WriteQueue' = <<>> THEN "R" ELSE "RW"]
    BY DEF WriteBytes
<1>15. m_Io' \in Watchers
       /\ (m_WriteQueue' # <<>> => m_Io'.ev = "RW")
    BY <1>14 DEF TypeOK, Watchers
<1> QED
    BY <1>10, <1>12, <1>13, <1>15

\* Each step keeps the inductive invariant.
LEMMA InvStep == Inv /\ [Next]_vars => Inv'
<1> SUFFICES ASSUME Inv, [Next]_vars PROVE Inv'
    OBVIOUS
<1> USE BoundsAssumption DEF Inv, threadVars, linkVars, sendVars
<1>1. CASE PeerAccepts
    BY <1>1 DEF PeerAccepts, TypeOK, PeerStates, NoLostWakeup, ToldBetween, WriteWatched, Quiet
<1>2. ASSUME NEW how \in {"fin", "rst"}, Breaks(how) PROVE Inv'
    BY <1>2 DEF Breaks, TypeOK, PeerStates, NoLostWakeup, ToldBetween, WriteWatched, Quiet
<1>3. CASE Send
  <2>1. sent + 1 \in Turns
    BY <1>3, SizeAssumption, LenProperties DEF Send, Turns, TypeOK
  <2>2. Buffer(sent + 1, 0) \in Buffers
    BY <2>1 DEF Buffer, Buffers
  <2>3. m_Functions' \in Seq(Buffers)
    BY <1>3, <2>2, AppendProperties DEF Send, TypeOK
  <2>4. sent' \in 0..Len(Size)
    BY <1>3, SizeAssumption, LenProperties DEF Send, TypeOK
  <2>5. TypeOK'
    BY <1>3, <2>3, <2>4 DEF Send, TypeOK
  <2>6. NoLostWakeup' /\ ToldBetween' /\ WriteWatched' /\ Quiet'
    BY <1>3 DEF Send, NoLostWakeup, ToldBetween, WriteWatched, Quiet
  <2> QED
    BY <2>5, <2>6
<1>4. CASE Start
  <2>1. TypeOK' /\ WriteWatched'
    BY <1>4, ConnectType DEF Start, TypeOK, WriteWatched
  <2>2. NoLostWakeup' /\ ToldBetween' /\ Quiet'
    BY <1>4 DEF Start, NoLostWakeup, ToldBetween, Quiet
  <2> QED
    BY <2>1, <2>2
<1>5. CASE AsyncCallback
  <2>1. m_Functions' \in Seq(Buffers) /\ functions' \in Seq(Buffers) /\ asyncSent' = FALSE
    BY <1>5 DEF AsyncCallback, TypeOK
  <2>3. UNCHANGED <<threadVars, linkVars, m_WriteQueue, sent, dropped, out, told>>
    BY <1>5 DEF AsyncCallback
  <2>4. TypeOK'
    BY <2>1, <2>3 DEF TypeOK
  <2>2. NoLostWakeup' /\ ToldBetween' /\ WriteWatched' /\ Quiet'
    BY <1>5 DEF AsyncCallback, NoLostWakeup, ToldBetween, WriteWatched, Quiet
  <2> QED
    BY <2>2, <2>3, <2>4
<1>6. CASE SendQueued
  <2> DEFINE b == Head(functions)
  <2>1. b \in Buffers /\ functions' \in Seq(Buffers)
    BY <1>6, HeadTailProperties DEF SendQueued, TypeOK
  <2>2. /\ Append(m_WriteQueue, b) \in Seq(Buffers)
        /\ Len(Append(m_WriteQueue, b)) = Len(m_WriteQueue) + 1
    BY <2>1, AppendProperties DEF TypeOK
  <2>3. m_WriteQueue' = Append(m_WriteQueue, b) /\ Len(m_WriteQueue) <= WRITE_QUEUE_MAX_SIZE
    BY <1>6 DEF SendQueued
  <2>4. Len(m_WriteQueue) \in Nat
    BY LenProperties DEF TypeOK
  <2> HIDE DEF b
  <2>5. m_WriteQueue' \in Seq(Buffers) /\ Len(m_WriteQueue') <= WRITE_QUEUE_MAX_SIZE + 1
    BY <2>2, <2>3, <2>4
  <2>6. /\ m_Io' \in Watchers /\ m_Io'.ev = "RW"
        /\ ioError' \in BOOLEAN
    <3>1. WatchAll /\ m_Io \in Watchers /\ ioError \in BOOLEAN
        BY <1>6 DEF SendQueued, TypeOK
    <3>2. CASE m_Io' = [m_Io EXCEPT !.ev = "RW"] /\ UNCHANGED ioError
        BY <3>1, <3>2 DEF Watchers
    <3>3. CASE m_Io' = [conn |-> 0, ev |-> "RW"] /\ ioError' = TRUE
        BY <3>3 DEF Watchers
    <3> QED
        BY <3>1, <3>2, <3>3 DEF WatchAll
  <2>7. TypeOK'
    BY <1>6, <2>1, <2>5, <2>6 DEF SendQueued, TypeOK
  <2>8. NoLostWakeup' /\ ToldBetween' /\ WriteWatched' /\ Quiet'
    BY <1>6, <2>6 DEF SendQueued, NoLostWakeup, ToldBetween, WriteWatched, Quiet
  <2> QED
    BY <2>7, <2>8
<1>7. CASE SendOverflows
  <2>1. Head(functions) \in Buffers /\ functions' \in Seq(Buffers)
    BY <1>7, HeadTailProperties DEF SendOverflows, TypeOK
  <2>2. dropped' \subseteq Turns
    BY <1>7, <2>1 DEF SendOverflows, TypeOK, Buffers
  <2>3. TypeOK'
    BY <1>7, <2>1, <2>2 DEF SendOverflows, TypeOK
  <2>4. NoLostWakeup' /\ ToldBetween' /\ WriteWatched' /\ Quiet'
    BY <1>7 DEF SendOverflows, NoLostWakeup, ToldBetween, WriteWatched, Quiet
  <2> QED
    BY <2>3, <2>4
<1>8. CASE ReadData
  <2>1. m_Socket \in Conns
    BY <1>8 DEF ReadData, Ready, TypeOK, Conns
  <2>2. TypeOK'
    BY <1>8, <2>1 DEF ReadData, TypeOK
  <2>3. NoLostWakeup' /\ ToldBetween' /\ WriteWatched' /\ Quiet'
    BY <1>8 DEF ReadData, Ready, Dispatching, NoLostWakeup, ToldBetween, WriteWatched, Quiet
  <2> QED
    BY <2>2, <2>3
<1>9. CASE ReadEnds \/ WriteFails \/ IoError
    BY <1>9, ReconnectStep DEF ReadEnds, WriteFails, IoError, Ready
<1>12. CASE Wakes
    BY <1>12, WakesStep
<1>13. CASE LoopReturns
    BY <1>13 DEF LoopReturns, TypeOK, NoLostWakeup, ToldBetween, WriteWatched, Quiet
<1>14. CASE StopShutdown
    BY <1>14 DEF StopShutdown, TypeOK, PeerStates, NoLostWakeup, ToldBetween, WriteWatched, Quiet
<1>15. CASE StopClose
    BY <1>15 DEF StopClose, TypeOK, PeerStates, NoLostWakeup, ToldBetween, WriteWatched, Quiet
<1>16. CASE StopWatchers
  <2>1. m_Io' \in Watchers /\ m_Io'.ev = m_Io.ev
    <3>1. m_Io' = [m_Io EXCEPT !.conn = 0] /\ m_Io \in Watchers
        BY <1>16 DEF StopWatchers, TypeOK
    <3>2. MaxConns \in Nat
        BY BoundsAssumption
    <3> QED
        BY ONLY <3>1, <3>2 DEF Watchers
  <2> QED
    BY <1>16, <2>1 DEF StopWatchers, TypeOK, NoLostWakeup, ToldBetween, WriteWatched, Quiet
<1>17. CASE StopUnloop
    BY <1>17 DEF StopUnloop, TypeOK, NoLostWakeup, ToldBetween, WriteWatched, Quiet
<1>10. CASE Write
  <2>1. CASE m_WriteQueue = <<>>
    <3>1. m_Io' = [m_Io EXCEPT !.ev = "R"] /\ UNCHANGED <<m_WriteQueue, out>>
        BY <1>10, <2>1 DEF Write
    <3>2. m_Io' \in Watchers
      <4>1. m_Io \in Watchers
        BY DEF TypeOK
      <4> QED
        BY ONLY <3>1, <4>1 DEF Watchers
    <3>3. TypeOK'
        BY <1>10, <3>1, <3>2 DEF Write, TypeOK
    <3>4. NoLostWakeup' /\ ToldBetween' /\ WriteWatched' /\ Quiet'
        BY <1>10, <2>1, <3>1 DEF Write, NoLostWakeup, ToldBetween, WriteWatched, Quiet
    <3> QED
        BY <3>3, <3>4
  <2>2. CASE m_WriteQueue # <<>>
    <3>1. PICK k \in 0..GetBytes(Head(m_WriteQueue)) : WriteBytes(k)
        BY <1>10, <2>2 DEF Write
    <3>2. /\ m_WriteQueue' \in Seq(Buffers)
          /\ Len(m_WriteQueue') <= WRITE_QUEUE_MAX_SIZE + 1
          /\ out' \in [Conns -> Seq(Turns \X Nat)]
          /\ m_Io' \in Watchers
          /\ m_WriteQueue' # <<>> => m_Io'.ev = "RW"
        BY <1>10, <2>2, <3>1, WriteType DEF Write, Ready
    <3>3. TypeOK'
        BY <1>10, <3>2 DEF Write, TypeOK
    <3>4. NoLostWakeup' /\ ToldBetween' /\ WriteWatched' /\ Quiet'
        BY <1>10, <3>2 DEF Write, NoLostWakeup, ToldBetween, WriteWatched, Quiet
    <3> QED
        BY <3>3, <3>4
  <2> QED
    BY <2>1, <2>2
<1>11. CASE UNCHANGED vars
    BY <1>11 DEF vars, TypeOK, NoLostWakeup, ToldBetween, WriteWatched, Quiet
<1> QED
    BY <1>1, <1>2, <1>3, <1>4, <1>5, <1>6, <1>7, <1>8, <1>9, <1>10, <1>11,
       <1>12, <1>13, <1>14, <1>15, <1>16, <1>17
    DEF Next, Network, Stop, Loop, PeerHangsUp, PeerRefusesOrResets

\* The invariant, along every behaviour.
LEMMA Invariant == Spec => []Inv
    BY InitInv, InvStep, PTL DEF Spec

\* Every variable keeps its type, and the write queue its bound.
THEOREM TypeCorrect == Spec => []TypeOK
<1>1. Inv => TypeOK
    BY DEF Inv
<1> QED
    BY <1>1, Invariant, PTL

\* While m_Async is active a queued call of __Send has a wake-up on its way, though it was
\* queued before m_Async was started, or during a Stop.
THEOREM Wakeup == Spec => []NoLostWakeup
<1>1. Inv => NoLostWakeup
    BY DEF Inv
<1> QED
    BY <1>1, Invariant, PTL

\* What the application has gathered since it was last told of an error or a disconnection
\* comes from the present connection.
THEOREM Told == Spec => []ToldBetween
<1>1. Inv => ToldBetween
    BY DEF Inv
<1> QED
    BY <1>1, Invariant, PTL

\* What a broken connection leaves in the queue has write events asked for on the next.
THEOREM Watched == Spec => []WriteWatched
<1>1. Inv => WriteWatched
    BY DEF Inv
<1> QED
    BY <1>1, Invariant, PTL

-----------------------------------------------------------------------------
(* The bytes. *)

BytePos == Turns \X Nat
BytesOf == [b \in Buffers |-> Bytes(b)]

LEMMA BytesType ==
    ASSUME NEW b \in Buffers
    PROVE  Bytes(b) \in Seq(BytePos) /\ Bytes(b) = Run(b.turn, b.pos, GetBytes(b))
<1>1. b.turn \in Turns /\ b.pos \in Nat /\ Size[b.turn] \in Nat
    BY SizeAssumption DEF Buffers, Turns
<1>2. GetBytes(b) \in Int
    BY <1>1 DEF GetBytes
<1>3. Run(b.turn, b.pos, GetBytes(b)) \in Seq(BytePos)
    BY <1>1, <1>2, RunType DEF BytePos
<1>4. Bytes(b) = Run(b.turn, b.pos, GetBytes(b))
    BY DEF Bytes, Run
<1> QED
    BY <1>3, <1>4

LEMMA BytesMaps == Maps(BytesOf, Buffers, Seq(BytePos))
    BY BytesType DEF Maps, BytesOf

LEMMA StreamMaps ==
    ASSUME NEW q \in Seq(Buffers)
    PROVE  Stream(q) = FlatMapped(BytesOf, q) /\ Stream(q) \in Seq(BytePos)
<1>1. \A i \in DOMAIN q : q[i] \in Buffers
    OBVIOUS
<1>2. [i \in DOMAIN q |-> Bytes(q[i])] = Mapped(BytesOf, q)
    BY <1>1 DEF Mapped, BytesOf
<1>3. FlatMapped(BytesOf, q) \in Seq(BytePos)
    BY BytesMaps, FlatMappedType
<1> QED
    BY <1>2, <1>3 DEF Stream, FlatMapped

LEMMA StreamAppend ==
    ASSUME NEW q \in Seq(Buffers), NEW b \in Buffers
    PROVE  Stream(Append(q, b)) = Stream(q) \o Bytes(b)
<1>1. Append(q, b) \in Seq(Buffers) /\ BytesOf[b] = Bytes(b)
    BY AppendProperties DEF BytesOf
<1>2. FlatMapped(BytesOf, Append(q, b)) = FlatMapped(BytesOf, q) \o BytesOf[b]
    BY BytesMaps, FlatMappedAppend
<1> QED
    BY <1>1, <1>2, StreamMaps

LEMMA StreamCons ==
    ASSUME NEW q \in Seq(Buffers), q # <<>>
    PROVE  Stream(q) = Bytes(Head(q)) \o Stream(Tail(q))
<1>1. Tail(q) \in Seq(Buffers) /\ BytesOf[Head(q)] = Bytes(Head(q))
    BY HeadTailProperties DEF BytesOf
<1>2. FlatMapped(BytesOf, q) = BytesOf[Head(q)] \o FlatMapped(BytesOf, Tail(q))
    BY BytesMaps, FlatMappedCons
<1> QED
    BY <1>1, <1>2, StreamMaps

LEMMA StreamEmpty == Stream(<<>>) = <<>>
    BY StreamMaps, FlatMappedEmpty, EmptySeq

\* A part of a buffer leaves: its bytes are those that left and those of the rest.
LEMMA SplitBytes ==
    ASSUME NEW b \in Buffers, NEW k \in 0..GetBytes(b)
    PROVE  /\ [i \in 1..k |-> <<b.turn, b.pos + i>>] \in Seq(BytePos)
           /\ Buffer(b.turn, b.pos + k) \in Buffers
           /\ [i \in 1..k |-> <<b.turn, b.pos + i>>] \o Bytes(Buffer(b.turn, b.pos + k)) = Bytes(b)
           /\ k = GetBytes(b) => [i \in 1..k |-> <<b.turn, b.pos + i>>] = Bytes(b)
<1> DEFINE c == Buffer(b.turn, b.pos + k)
<1>1. b.turn \in Turns /\ b.pos \in Nat /\ Size[b.turn] \in Nat
    BY SizeAssumption DEF Buffers, Turns
<1>2. k \in Nat /\ GetBytes(b) \in Nat /\ k \in 0..GetBytes(b)
    BY <1>1 DEF GetBytes
<1>3. c \in Buffers /\ c.turn = b.turn /\ c.pos = b.pos + k
    BY <1>1, <1>2 DEF Buffer, Buffers
<1>4. GetBytes(c) = GetBytes(b) - k
    BY <1>1, <1>2, <1>3 DEF GetBytes
<1> HIDE DEF c
<1>5. [i \in 1..k |-> <<b.turn, b.pos + i>>] = Run(b.turn, b.pos, k)
    BY DEF Run
<1>6. Run(b.turn, b.pos, k) \in Seq(BytePos)
    BY <1>1, <1>2, RunType DEF BytePos
<1>7. Bytes(c) = Run(b.turn, b.pos + k, GetBytes(b) - k) /\ Bytes(b) = Run(b.turn, b.pos, GetBytes(b))
    BY <1>3, <1>4, BytesType
<1>8. Run(b.turn, b.pos, k) \o Run(b.turn, b.pos + k, GetBytes(b) - k) = Run(b.turn, b.pos, GetBytes(b))
    BY <1>1, <1>2, RunSplit
<1> QED
    BY <1>3, <1>5, <1>6, <1>7, <1>8 DEF c

\* The first k bytes of the oldest buffer leave a queue.
LEMMA StreamEmit ==
    ASSUME NEW q \in Seq(Buffers), q # <<>>, NEW k \in 0..GetBytes(Head(q)), NEW r,
           r = IF k = GetBytes(Head(q)) THEN Tail(q)
               ELSE <<Buffer(Head(q).turn, Head(q).pos + k)>> \o Tail(q)
    PROVE  /\ [i \in 1..k |-> <<Head(q).turn, Head(q).pos + i>>] \in Seq(BytePos)
           /\ r \in Seq(Buffers)
           /\ [i \in 1..k |-> <<Head(q).turn, Head(q).pos + i>>] \o Stream(r) = Stream(q)
<1>0. \A x, y, z \in Seq(BytePos) : (x \o y) \o z = x \o (y \o z)
    BY Associative
<1> DEFINE b == Head(q)
           rest == Tail(q)
           u == [i \in 1..k |-> <<b.turn, b.pos + i>>]
           c == Buffer(b.turn, b.pos + k)
<1>1. b \in Buffers /\ rest \in Seq(Buffers)
    BY HeadTailProperties
<1>2. /\ u \in Seq(BytePos) /\ c \in Buffers /\ u \o Bytes(c) = Bytes(b)
      /\ k = GetBytes(b) => u = Bytes(b)
    BY <1>1, SplitBytes
<1>3. Stream(q) = Bytes(b) \o Stream(rest)
    BY StreamCons
<1>4. r = IF k = GetBytes(b) THEN rest ELSE <<c>> \o rest
    OBVIOUS
<1>5. Bytes(c) \in Seq(BytePos) /\ Stream(rest) \in Seq(BytePos)
    BY <1>1, <1>2, BytesType, StreamMaps
<1>6. /\ <<c>> \in Seq(Buffers) /\ <<c>> # <<>> /\ Head(<<c>>) = c /\ Tail(<<c>>) = <<>>
      /\ <<c>> \o rest \in Seq(Buffers)
    BY <1>1, <1>2, ConcatProperties
<1> HIDE DEF b, rest, u, c
<1>7. CASE k = GetBytes(b)
    BY <1>1, <1>2, <1>3, <1>4, <1>7 DEF u, b
<1>8. CASE k # GetBytes(b)
  <2>1. r = <<c>> \o rest
    BY <1>4, <1>8
  <2>2. /\ <<c>> \o rest # <<>> /\ Head(<<c>> \o rest) = c
        /\ Tail(<<c>> \o rest) = <<>> \o rest
    BY <1>1, <1>6, HeadTailConcat
  <2>3. <<>> \o rest = rest
    BY <1>1, ConcatEmptySeq
  <2>4. Stream(r) = Bytes(c) \o Stream(rest)
    BY <1>6, <2>1, <2>2, <2>3, StreamCons
  <2>5. u \o (Bytes(c) \o Stream(rest)) = (u \o Bytes(c)) \o Stream(rest)
    BY <1>0, <1>2, <1>5, Zenon
  <2>6. u \o Stream(r) = Stream(q)
    BY <1>2, <1>3, <2>4, <2>5
  <2> QED
    BY <1>2, <1>6, <2>1, <2>6 DEF u, b
<1> QED
    BY <1>7, <1>8

-----------------------------------------------------------------------------
(* The order of the calls, and what they have given. *)

\* One call more.
LEMMA GivenNext ==
    ASSUME NEW n \in Nat, n + 1 \in Turns, NEW refused
    PROVE  /\ Given(n, refused) \in Seq(BytePos)
           /\ Given(n + 1, refused) = Given(n, refused) \o
                  (IF n + 1 \in refused THEN <<>> ELSE Bytes(Buffer(n + 1, 0)))
<1> DEFINE G(m) == [i \in 1..m |-> IF i \in refused THEN <<>> ELSE Bytes(Buffer(i, 0))]
           x == IF n + 1 \in refused THEN <<>> ELSE Bytes(Buffer(n + 1, 0))
<1>1. \A i \in 1..(n + 1) : i \in Turns
    BY SizeAssumption, LenProperties DEF Turns
<1>2. \A i \in 1..(n + 1) : Bytes(Buffer(i, 0)) \in Seq(BytePos) /\ <<>> \in Seq(BytePos)
  <2>1. \A i \in 1..(n + 1) : Buffer(i, 0) \in Buffers
    BY <1>1 DEF Buffer, Buffers
  <2> QED
    BY <2>1, BytesType, EmptySeq
<1>3. G(n) \in Seq(Seq(BytePos)) /\ Len(G(n)) = n
    BY <1>2
<1>4. G(n + 1) \in Seq(Seq(BytePos)) /\ Len(G(n + 1)) = n + 1
    BY <1>2
<1>5. x \in Seq(BytePos)
    BY <1>2
<1>6. /\ Append(G(n), x) \in Seq(Seq(BytePos)) /\ Len(Append(G(n), x)) = n + 1
      /\ (\A i \in 1..n : Append(G(n), x)[i] = G(n)[i]) /\ Append(G(n), x)[n + 1] = x
    BY <1>3, <1>5, AppendProperties
<1>7. ASSUME NEW i \in 1..(n + 1) PROVE G(n + 1)[i] = Append(G(n), x)[i]
  <2>1. CASE i = n + 1
    BY <1>6, <2>1
  <2>2. CASE i # n + 1
    <3>1. i \in 1..n
        BY <2>2
    <3> QED
        BY <1>6, <3>1
  <2> QED
    BY <2>1, <2>2
<1> HIDE DEF x, G
<1>8. G(n + 1) = Append(G(n), x)
    BY <1>4, <1>6, <1>7, SeqEqual
<1>9. FlattenSeq(G(n + 1)) = FlattenSeq(G(n)) \o x /\ FlattenSeq(G(n)) \in Seq(BytePos)
    BY <1>3, <1>5, <1>8, FlattenAppend, FlattenType
<1> QED
    BY <1>9 DEF Given, G, x
\* Without a call more or less, and with nothing said of the calls that are over.
LEMMA GivenSame ==
    ASSUME NEW n \in Nat, NEW x, x \notin 1..n, NEW refused
    PROVE  Given(n, refused \cup {x}) = Given(n, refused)
<1>1. \A i \in 1..n : i \in refused \cup {x} <=> i \in refused
    OBVIOUS
<1>2. [i \in 1..n |-> IF i \in refused \cup {x} THEN <<>> ELSE Bytes(Buffer(i, 0))]
      = [i \in 1..n |-> IF i \in refused THEN <<>> ELSE Bytes(Buffer(i, 0))]
    BY <1>1
<1> QED
    BY <1>2 DEF Given

LEMMA CallsType ==
    ASSUME TypeOK
    PROVE  calls \in Seq(Buffers) /\ Len(calls) \in Nat /\ sent \in Nat
<1>1. calls \in Seq(Buffers)
    BY ConcatProperties DEF TypeOK, calls
<1> QED
    BY <1>1, LenProperties, SizeAssumption DEF TypeOK

LEMMA OutType ==
    ASSUME TypeOK
    PROVE  out \in Seq(Seq(BytePos)) /\ Len(out) = MaxConns
<1>1. MaxConns \in Nat /\ out \in [1..MaxConns -> Seq(BytePos)]
    BY BoundsAssumption DEF TypeOK, Conns, BytePos
<1> QED
    BY <1>1

\* A step that neither makes nor takes a call, and moves no byte.
LEMMA QuietStep ==
    ASSUME TypeOK, TypeOK', QueueInv, UNCHANGED <<calls, sent, dropped, m_WriteQueue, out>>,
           conns' >= conns, m_Socket' \in {0, conns'}
    PROVE  QueueInv'
<1>1. handled' = handled
    BY DEF handled
<1>2. \A c \in Conns : c > conns' => out'[c] = <<>>
    BY BoundsAssumption DEF QueueInv, TypeOK, Conns
<1>3. (FlattenSeq(out) \o Stream(m_WriteQueue))' = FlattenSeq(out) \o Stream(m_WriteQueue)
    BY DEF Stream, Bytes, GetBytes
<1>4. Given(handled, dropped)' = Given(handled, dropped)
    BY <1>1 DEF Given, Bytes, GetBytes, Buffer
<1> QED
    BY <1>1, <1>2, <1>3, <1>4 DEF QueueInv

\* The oldest call that waits is the first that __Send has not seen; the others follow it.
LEMMA CallTaken ==
    ASSUME TypeOK, QueueInv, functions # <<>>, functions' = Tail(functions),
           UNCHANGED <<m_Functions, sent>>
    PROVE  /\ Head(functions) = Buffer(handled + 1, 0)
           /\ handled \in Nat /\ handled' = handled + 1 /\ handled + 1 \in 1..sent
           /\ Len(calls') <= sent
           /\ \A i \in 1..Len(calls') : calls'[i] = Buffer(handled' + i, 0)
<1>1. calls \in Seq(Buffers) /\ Len(calls) \in Nat /\ sent \in Nat
    BY CallsType
<1>2. calls # <<>> /\ Head(calls) = Head(functions) /\ calls' = Tail(calls)
    BY HeadTailConcat DEF TypeOK, calls
<1>3. /\ Len(calls) \in Nat \ {0} /\ Len(calls') = Len(calls) - 1 /\ Head(calls) = calls[1]
      /\ \A i \in 1..Len(calls') : calls'[i] = calls[i + 1]
    BY <1>1, <1>2, HeadTailProperties, EmptySeq
<1>4. handled \in Nat /\ handled' = handled + 1 /\ handled + 1 \in 1..sent
    BY <1>1, <1>3 DEF handled, QueueInv
<1>5. Head(functions) = Buffer(handled + 1, 0)
    BY <1>2, <1>3 DEF QueueInv
<1>6. ASSUME NEW i \in 1..Len(calls') PROVE calls'[i] = Buffer(handled' + i, 0)
  <2>1. i + 1 \in 1..Len(calls) /\ handled + (i + 1) = handled' + i
    BY <1>1, <1>3, <1>4
  <2> QED
    BY <1>3, <2>1 DEF QueueInv
<1> QED
    BY <1>1, <1>3, <1>4, <1>5, <1>6 DEF QueueInv

LEMMA SendCalls ==
    ASSUME TypeOK, TypeOK', QueueInv, Send
    PROVE  QueueInv'
<1>1. calls \in Seq(Buffers) /\ Len(calls) \in Nat /\ sent \in Nat
    BY CallsType
<1> DEFINE b == Buffer(sent + 1, 0)
<1>2. /\ sent' = sent + 1 /\ m_Functions' = Append(m_Functions, b)
      /\ UNCHANGED <<linkVars, m_WriteQueue, functions, dropped, out>>
    BY DEF Send
<1>3. b \in Buffers
  <2>1. sent + 1 \in Turns
    BY SizeAssumption, LenProperties DEF Send, Turns, TypeOK
  <2> QED
    BY <2>1 DEF Buffer, Buffers
<1> HIDE DEF b
<1>4. calls' = Append(calls, b)
  <2>1. functions \in Seq(Buffers) /\ m_Functions \in Seq(Buffers)
    BY DEF TypeOK
  <2>2. functions \o Append(m_Functions, b) = Append(functions \o m_Functions, b)
    BY ONLY <1>3, <2>1, AppendLast
  <2> QED
    BY <1>2, <2>2 DEF calls
<1>5. /\ Len(calls') = Len(calls) + 1 /\ calls'[Len(calls) + 1] = b
      /\ \A i \in 1..Len(calls) : calls'[i] = calls[i]
    BY <1>1, <1>3, <1>4, AppendProperties
<1>6. handled' = handled /\ handled + (Len(calls) + 1) = sent + 1
    BY <1>1, <1>2, <1>5 DEF handled
<1>7. ASSUME NEW i \in 1..Len(calls') PROVE calls'[i] = Buffer(handled' + i, 0)
  <2>1. CASE i = Len(calls) + 1
    BY <1>5, <1>6, <2>1 DEF b
  <2>2. CASE i # Len(calls) + 1
    <3>1. i \in 1..Len(calls)
        BY <1>1, <1>5, <2>2
    <3> QED
        BY <1>5, <1>6, <3>1 DEF QueueInv
  <2> QED
    BY <2>1, <2>2
<1>8. Len(calls') <= sent'
    BY <1>1, <1>2, <1>5 DEF QueueInv
<1>9. (FlattenSeq(out) \o Stream(m_WriteQueue) = Given(handled, dropped))'
    BY <1>2, <1>6 DEF QueueInv, Stream, Given, Bytes, GetBytes, Buffer
<1> QED
    BY <1>2, <1>6, <1>7, <1>8, <1>9 DEF QueueInv, linkVars

LEMMA QueuedCalls ==
    ASSUME TypeOK, TypeOK', QueueInv, SendQueued
    PROVE  QueueInv'
<1>0. \A x, y, z \in Seq(BytePos) : (x \o y) \o z = x \o (y \o z)
    BY Associative
<1> DEFINE b == Head(functions)
<1>1. /\ functions # <<>> /\ functions' = Tail(functions) /\ UNCHANGED <<m_Functions, sent>>
      /\ m_WriteQueue' = Append(m_WriteQueue, b)
      /\ UNCHANGED <<m_Socket, conns, dropped, out>>
    BY DEF SendQueued, sendVars
<1>2. /\ b = Buffer(handled + 1, 0)
      /\ handled \in Nat /\ handled' = handled + 1 /\ handled + 1 \in 1..sent
      /\ Len(calls') <= sent
      /\ \A i \in 1..Len(calls') : calls'[i] = Buffer(handled' + i, 0)
    BY <1>1, CallTaken
<1>3. b \in Buffers /\ Bytes(b) \in Seq(BytePos)
    BY <1>1, HeadTailProperties, BytesType DEF TypeOK
<1>4. handled + 1 \in Turns /\ handled + 1 \notin dropped
  <2>1. handled + 1 \in Turns
    <3>1. Turns = 1..Len(Size) /\ Len(Size) \in Nat
        BY SizeAssumption, LenProperties DEF Turns
    <3>2. sent \in 0..Len(Size)
        BY DEF TypeOK
    <3> QED
        BY <1>2, <3>1, <3>2
  <2>2. handled + 1 \notin 1..handled
    BY <1>2
  <2> QED
    BY <2>1, <2>2 DEF QueueInv
<1> HIDE DEF b
<1>5. Given(handled + 1, dropped) = Given(handled, dropped) \o Bytes(b)
    BY <1>2, <1>4, GivenNext
<1>6. /\ Stream(m_WriteQueue') = Stream(m_WriteQueue) \o Bytes(b)
      /\ Stream(m_WriteQueue) \in Seq(BytePos)
    BY <1>1, <1>3, StreamAppend, StreamMaps DEF TypeOK
<1>7. FlattenSeq(out) \in Seq(BytePos)
    BY OutType, FlattenType
<1>8. (FlattenSeq(out) \o Stream(m_WriteQueue)) \o Bytes(b)
      = FlattenSeq(out) \o (Stream(m_WriteQueue) \o Bytes(b))
    BY <1>0, <1>3, <1>6, <1>7, Zenon
<1>9. FlattenSeq(out) \o Stream(m_WriteQueue') = Given(handled + 1, dropped)
    BY <1>5, <1>6, <1>8 DEF QueueInv
<1>10. (FlattenSeq(out) \o Stream(m_WriteQueue) = Given(handled, dropped))'
  <2>1. Stream(m_WriteQueue)' = Stream(m_WriteQueue')
    BY DEF Stream, Bytes, GetBytes
  <2>2. Given(handled, dropped)' = Given(handled', dropped')
    BY DEF Given, Bytes, GetBytes, Buffer
  <2> QED
    BY <1>1, <1>2, <1>9, <2>1, <2>2
<1>11. dropped' \subseteq 1..handled'
    BY <1>1, <1>2 DEF QueueInv
<1> QED
    BY <1>1, <1>2, <1>10, <1>11 DEF QueueInv

LEMMA RefusedCalls ==
    ASSUME TypeOK, TypeOK', QueueInv, SendOverflows
    PROVE  QueueInv'
<1>1. /\ functions # <<>> /\ functions' = Tail(functions) /\ UNCHANGED <<m_Functions, sent>>
      /\ dropped' = dropped \cup {Head(functions).turn}
      /\ UNCHANGED <<m_Socket, conns, m_WriteQueue, out>>
    BY DEF SendOverflows, sendVars, linkVars
<1>2. /\ Head(functions) = Buffer(handled + 1, 0)
      /\ handled \in Nat /\ handled' = handled + 1 /\ handled + 1 \in 1..sent
      /\ Len(calls') <= sent
      /\ \A i \in 1..Len(calls') : calls'[i] = Buffer(handled' + i, 0)
    BY <1>1, CallTaken
<1>3. dropped' = dropped \cup {handled + 1}
    BY <1>1, <1>2 DEF Buffer
<1>4. handled + 1 \in Turns /\ handled + 1 \notin 1..handled /\ handled + 1 \in dropped'
    BY <1>2, <1>3, SizeAssumption, LenProperties DEF TypeOK, Turns
<1>5. Given(handled, dropped') = Given(handled, dropped)
    BY <1>2, <1>3, <1>4, GivenSame
<1>6. /\ Given(handled, dropped') \in Seq(BytePos)
      /\ Given(handled + 1, dropped') = Given(handled, dropped') \o <<>>
    BY <1>2, <1>4, GivenNext
<1>7. Given(handled + 1, dropped') = Given(handled, dropped)
    BY <1>5, <1>6, ConcatEmptySeq
<1>8. (FlattenSeq(out) \o Stream(m_WriteQueue) = Given(handled, dropped))'
  <2>1. (FlattenSeq(out) \o Stream(m_WriteQueue))' = FlattenSeq(out) \o Stream(m_WriteQueue)
    BY <1>1 DEF Stream, Bytes, GetBytes
  <2>2. Given(handled, dropped)' = Given(handled', dropped')
    BY DEF Given, Bytes, GetBytes, Buffer
  <2> QED
    BY <1>2, <1>7, <2>1, <2>2 DEF QueueInv
<1>9. dropped' \subseteq 1..handled'
    BY <1>2, <1>3 DEF QueueInv
<1> QED
    BY <1>1, <1>2, <1>8, <1>9 DEF QueueInv

\* A write on the last connection.
LEMMA WriteCalls ==
    ASSUME TypeOK, TypeOK', QueueInv, Write, m_WriteQueue # <<>>
    PROVE  QueueInv'
<1>0. \A x, y, z \in Seq(BytePos) : (x \o y) \o z = x \o (y \o z)
    BY Associative
<1> DEFINE b == Head(m_WriteQueue)
<1>1. PICK k \in 0..GetBytes(b) : WriteBytes(k)
    BY DEF Write
<1> DEFINE u == [i \in 1..k |-> <<b.turn, b.pos + i>>]
<1>2. /\ m_WriteQueue' = IF k = GetBytes(b) THEN Tail(m_WriteQueue)
                         ELSE <<Buffer(b.turn, b.pos + k)>> \o Tail(m_WriteQueue)
      /\ out' = [out EXCEPT ![m_Socket] = @ \o u]
    BY <1>1 DEF WriteBytes
<1>3. /\ u \in Seq(BytePos) /\ m_WriteQueue' \in Seq(Buffers)
      /\ u \o Stream(m_WriteQueue') = Stream(m_WriteQueue)
    BY <1>2, StreamEmit DEF TypeOK
<1>4. Stream(m_WriteQueue') \in Seq(BytePos)
    BY <1>3, StreamMaps
<1> HIDE DEF b, u
<1>5. UNCHANGED <<m_Socket, conns, sendVars, functions, dropped>> /\ m_Socket # 0
    BY DEF Write, Ready
<1>6. m_Socket = conns /\ m_Socket \in Conns
    BY <1>5, BoundsAssumption DEF QueueInv, TypeOK, Conns
<1>7. out \in Seq(Seq(BytePos)) /\ Len(out) = MaxConns /\ m_Socket \in 1..Len(out)
      /\ \A i \in 1..Len(out) : i > m_Socket => out[i] = <<>>
    BY <1>6, OutType DEF QueueInv, Conns
<1>8. FlattenSeq(out') = FlattenSeq(out) \o u /\ FlattenSeq(out) \in Seq(BytePos)
    BY <1>2, <1>3, <1>7, FlattenLast, FlattenType
<1>9. (FlattenSeq(out) \o u) \o Stream(m_WriteQueue')
      = FlattenSeq(out) \o (u \o Stream(m_WriteQueue'))
    BY <1>0, <1>3, <1>4, <1>8, Zenon
<1>10. FlattenSeq(out') \o Stream(m_WriteQueue') = Given(handled, dropped)
    BY <1>3, <1>8, <1>9 DEF QueueInv
<1>11. calls' = calls /\ sent' = sent /\ handled' = handled /\ dropped' = dropped
    BY <1>5 DEF sendVars, calls, handled
<1>12. (FlattenSeq(out) \o Stream(m_WriteQueue) = Given(handled, dropped))'
  <2>1. Stream(m_WriteQueue)' = Stream(m_WriteQueue')
    BY DEF Stream, Bytes, GetBytes
  <2>2. Given(handled, dropped)' = Given(handled', dropped')
    BY DEF Given, Bytes, GetBytes, Buffer
  <2> QED
    BY <1>10, <1>11, <2>1, <2>2
<1>13. \A c \in Conns : c > conns' => out'[c] = <<>>
    BY <1>2, <1>5, <1>6, BoundsAssumption DEF QueueInv, TypeOK, Conns
<1> QED
    BY <1>5, <1>11, <1>12, <1>13 DEF QueueInv

LEMMA QueueStep == Inv /\ QueueInv /\ [Next]_vars => QueueInv'
<1> SUFFICES ASSUME Inv, QueueInv, [Next]_vars PROVE QueueInv'
    OBVIOUS
<1>1. TypeOK /\ TypeOK'
    BY InvStep DEF Inv
<1>2. conns \in Nat /\ m_Socket \in {0, conns}
    BY <1>1, BoundsAssumption DEF TypeOK, QueueInv
<1>3. CASE Send
    BY <1>1, <1>3, SendCalls
<1>4. CASE SendQueued
    BY <1>1, <1>4, QueuedCalls
<1>5. CASE SendOverflows
    BY <1>1, <1>5, RefusedCalls
<1>6. ASSUME UNCHANGED <<m_Functions, functions, sent, dropped, m_WriteQueue, out>>,
             conns' >= conns, m_Socket' \in {0, conns'}
      PROVE  QueueInv'
  <2>1. calls' = calls
    BY <1>6 DEF calls
  <2> QED
    BY <1>1, <1>6, <2>1, QuietStep
<1>7. CASE AsyncCallback
  <2>1. /\ functions = <<>> /\ functions' = m_Functions /\ m_Functions' = <<>>
        /\ UNCHANGED <<linkVars, m_WriteQueue, sent, dropped, out>>
    BY <1>7 DEF AsyncCallback, Dispatching
  <2>2. m_Functions \o <<>> = m_Functions /\ <<>> \o m_Functions = m_Functions
    BY <1>1, ConcatEmptySeq DEF TypeOK
  <2>3. calls' = calls
    BY <2>1, <2>2 DEF calls
  <2>4. conns' >= conns /\ m_Socket' \in {0, conns'}
    BY <1>2, <2>1 DEF linkVars
  <2> QED
    BY <1>1, <2>1, <2>3, <2>4, QuietStep
<1>8. CASE Write
  <2>1. CASE m_WriteQueue # <<>>
    BY <1>1, <1>8, <2>1, WriteCalls
  <2>2. CASE m_WriteQueue = <<>>
    <3>1. UNCHANGED <<m_Functions, functions, sent, dropped, m_WriteQueue, out, conns, m_Socket>>
        BY <1>8, <2>2 DEF Write, sendVars
    <3> QED
        BY <1>2, <1>6, <3>1
  <2> QED
    BY <2>1, <2>2
<1>9. ASSUME Connect \/ ConnectFails PROVE conns' >= conns /\ m_Socket' \in {0, conns'}
    BY <1>2, <1>9 DEF Connect, ConnectFails
<1>10. CASE Start \/ Wakes
  <2>1. /\ Connect \/ ConnectFails
        /\ UNCHANGED <<m_Functions, functions, sent, dropped, m_WriteQueue, out>>
    BY <1>10 DEF Start, Wakes, sendVars
  <2> QED
    BY <1>6, <1>9, <2>1
<1>11. ASSUME UNCHANGED <<m_Functions, functions, sent, dropped, m_WriteQueue, out,
                          conns, m_Socket>>
       PROVE  QueueInv'
    BY <1>2, <1>6, <1>11
<1>12. CASE Network
    BY <1>11, <1>12 DEF Network, PeerAccepts, PeerHangsUp, PeerRefusesOrResets, Breaks, sendVars
<1>13. CASE Stop
    BY <1>11, <1>13 DEF Stop, StopShutdown, StopClose, StopWatchers, StopUnloop, linkVars,
                        sendVars
<1>14. CASE LoopReturns \/ ReadData
    BY <1>11, <1>14 DEF LoopReturns, ReadData, linkVars, sendVars
<1>15. CASE ReadEnds \/ WriteFails \/ IoError
    BY <1>11, <1>15 DEF ReadEnds, WriteFails, IoError, Reconnect, linkVars, sendVars
<1>16. CASE UNCHANGED vars
    BY <1>11, <1>16 DEF vars, linkVars, sendVars
<1> QED
    BY <1>3, <1>4, <1>5, <1>7, <1>8, <1>10, <1>12, <1>13, <1>14, <1>15, <1>16
    DEF Next, Loop

\* The calls that wait, one after the other, have given what those after `handled` give.
LEMMA GivenCalls ==
    ASSUME TypeOK, QueueInv
    PROVE  Given(handled, dropped) \o Stream(calls) = Given(sent, dropped)
<1> DEFINE P(n) == [i \in 1..n |-> IF i \in dropped THEN <<>> ELSE Bytes(Buffer(i, 0))]
           m == Mapped(BytesOf, calls)
<1>1. calls \in Seq(Buffers) /\ Len(calls) \in Nat /\ sent \in Nat
    BY CallsType
<1>2. handled \in Nat /\ sent = handled + Len(calls)
    BY <1>1 DEF QueueInv, handled
<1>3. \A i \in 1..sent : i \in Turns
    BY SizeAssumption, LenProperties DEF TypeOK, Turns
<1>4. \A i \in 1..sent : Bytes(Buffer(i, 0)) \in Seq(BytePos) /\ <<>> \in Seq(BytePos)
  <2>1. \A i \in 1..sent : Buffer(i, 0) \in Buffers
    BY <1>3 DEF Buffer, Buffers
  <2> QED
    BY <2>1, BytesType, EmptySeq
<1>5. P(handled) \in Seq(Seq(BytePos)) /\ Len(P(handled)) = handled
  <2>1. \A i \in 1..handled : i \in 1..sent
    BY <1>1, <1>2
  <2> QED
    BY <1>2, <1>4, <2>1
<1>6. P(sent) \in Seq(Seq(BytePos)) /\ Len(P(sent)) = sent
    BY <1>1, <1>4
<1>7. m \in Seq(Seq(BytePos)) /\ Len(m) = Len(calls)
    BY <1>1, BytesMaps, MappedType
<1>8. ASSUME NEW i \in 1..Len(calls)
      PROVE  m[i] = Bytes(Buffer(handled + i, 0)) /\ handled + i \notin dropped
  <2>1. m[i] = BytesOf[calls[i]] /\ calls[i] \in Buffers
    BY <1>1, MappedValue, ElementOfSeq
  <2>2. calls[i] = Buffer(handled + i, 0)
    BY DEF QueueInv
  <2>3. handled + i \notin 1..handled
    BY <1>1, <1>2
  <2> QED
    BY <2>1, <2>2, <2>3 DEF BytesOf, QueueInv
<1>9. /\ P(handled) \o m \in Seq(Seq(BytePos))
      /\ Len(P(handled) \o m) = Len(P(handled)) + Len(m)
      /\ \A i \in 1..Len(P(handled)) + Len(m) :
            (P(handled) \o m)[i]
            = IF i <= Len(P(handled)) THEN P(handled)[i] ELSE m[i - Len(P(handled))]
    BY <1>5, <1>7, ConcatProperties
<1>10. ASSUME NEW i \in 1..sent PROVE P(sent)[i] = (P(handled) \o m)[i]
  <2> HIDE DEF m
  <2>1. (P(handled) \o m)[i] = IF i <= handled THEN P(handled)[i] ELSE m[i - handled]
    BY <1>2, <1>5, <1>7, <1>9
  <2>2. CASE i <= handled
    <3>1. i \in 1..handled
        BY <1>2, <2>2
    <3> QED
        BY <2>1, <2>2, <3>1
  <2>3. CASE ~(i <= handled)
    <3>1. i - handled \in 1..Len(calls) /\ handled + (i - handled) = i
        BY <1>1, <1>2, <2>3
    <3>2. m[i - handled] = Bytes(Buffer(i, 0)) /\ i \notin dropped
        BY <1>8, <3>1
    <3> QED
        BY <2>1, <2>3, <3>2
  <2> QED
    BY <2>2, <2>3
<1>11. Len(P(sent)) = Len(P(handled) \o m)
    BY <1>2, <1>5, <1>6, <1>7, <1>9
<1> HIDE DEF P, m
<1>12. P(sent) = P(handled) \o m
    BY <1>6, <1>9, <1>10, <1>11, SeqEqual
<1>13. FlattenSeq(P(sent)) = FlattenSeq(P(handled)) \o FlattenSeq(m)
    BY <1>5, <1>7, <1>12, FlattenConcat
<1>14. Stream(calls) = FlattenSeq(m)
    BY <1>1, StreamMaps DEF m, FlatMapped
<1>15. Given(sent, dropped) = FlattenSeq(P(sent))
       /\ Given(handled, dropped) = FlattenSeq(P(handled))
    BY DEF Given, P
<1> QED
    BY <1>13, <1>14, <1>15

LEMMA QueueIntact == TypeOK /\ QueueInv => StreamIntact
<1> SUFFICES ASSUME TypeOK, QueueInv PROVE StreamIntact
    OBVIOUS
<1>0. \A x, y, z \in Seq(BytePos) : (x \o y) \o z = x \o (y \o z)
    BY Associative
<1>1. calls \in Seq(Buffers) /\ m_WriteQueue \in Seq(Buffers)
    BY CallsType DEF TypeOK
<1>2. pending = m_WriteQueue \o calls
    BY ConcatAssociative DEF TypeOK, pending, calls
<1>3. Stream(pending) = Stream(m_WriteQueue) \o Stream(calls)
  <2>1. pending \in Seq(Buffers)
    BY <1>1, <1>2, ConcatProperties
  <2>2. FlatMapped(BytesOf, m_WriteQueue \o calls)
        = FlatMapped(BytesOf, m_WriteQueue) \o FlatMapped(BytesOf, calls)
    BY <1>1, BytesMaps, FlatMappedConcat
  <2> QED
    BY <1>1, <1>2, <2>1, <2>2, StreamMaps
<1>4. /\ FlattenSeq(out) \in Seq(BytePos) /\ Stream(m_WriteQueue) \in Seq(BytePos)
      /\ Stream(calls) \in Seq(BytePos)
    BY <1>1, OutType, FlattenType, StreamMaps
<1>5. (FlattenSeq(out) \o Stream(m_WriteQueue)) \o Stream(calls)
      = FlattenSeq(out) \o (Stream(m_WriteQueue) \o Stream(calls))
    BY <1>0, <1>4, Zenon
<1> QED
    BY <1>3, <1>5, GivenCalls DEF QueueInv, StreamIntact

\* For any buffers, any limit, and any number of connections and failures: the bytes that
\* all the connections took, one after the other, and those still queued are the buffers in
\* the order of the calls of Send, each byte once, without those that __Send refused.
THEOREM Intact == Spec => []StreamIntact
<1>1. Init => QueueInv
  <2> SUFFICES ASSUME Init PROVE QueueInv
    OBVIOUS
  <2>1. /\ functions = <<>> /\ m_Functions = <<>> /\ m_WriteQueue = <<>> /\ sent = 0
        /\ dropped = {} /\ m_Socket = 0 /\ conns = 0 /\ out = [c \in Conns |-> <<>>]
    BY DEF Init
  <2>2. calls = <<>> /\ Len(calls) = 0 /\ handled = 0
    <3>1. <<>> \o <<>> = <<>>
        BY ConcatEmptySeq, EmptySeq
    <3>2. calls = <<>>
        BY <2>1, <3>1 DEF calls
    <3>3. Len(calls) = 0
        BY <3>2
    <3>4. sent - Len(calls) = 0
        BY ONLY <2>1, <3>3
    <3> QED
        BY ONLY <3>2, <3>3, <3>4 DEF handled
  <2>3. Given(handled, dropped) = <<>>
    <3>1. [i \in 1..0 |-> IF i \in dropped THEN <<>> ELSE Bytes(Buffer(i, 0))] = <<>>
        OBVIOUS
    <3> QED
        BY <2>2, <3>1, FlattenEmpty DEF Given
  <2>4. FlattenSeq(out) = <<>>
    BY <2>1, BoundsAssumption, FlattenAllEmpty DEF Conns
  <2>5. FlattenSeq(out) \o Stream(m_WriteQueue) = <<>>
    BY <2>1, <2>4, StreamEmpty, ConcatEmptySeq, EmptySeq
  <2>6. \A c \in Conns : out[c] = <<>>
    BY <2>1
  <2>7. Len(calls) <= sent /\ \A i \in 1..Len(calls) : calls[i] = Buffer(handled + i, 0)
    BY <2>1, <2>2
  <2> QED
    BY <2>1, <2>3, <2>5, <2>6, <2>7 DEF QueueInv
<1>2. Inv /\ QueueInv => StreamIntact
    BY QueueIntact DEF Inv
<1> QED
    BY <1>1, <1>2, InitInv, InvStep, QueueStep, PTL DEF Spec

=============================================================================
