-------------------------- MODULE PacketPoolProofs ---------------------------
(* Theorems about PacketPool, for any number of threads and packets. *)
EXTENDS PacketPool, SequenceLemmas

USE ThreadNumAssumption, MaxPktsAssumption

-----------------------------------------------------------------------------
(* Types. *)

\* The number of a packet names a thread.
LEMMA ThreadOfType == \A p \in Nat : ThreadOf(p) \in Threads
<1>1. \A p \in Nat : p % UINT_RANGE \in Nat
  BY RangeAssumption
<1>2. \A n \in Nat : n % m_nThreadNum \in 0 .. m_nThreadNum - 1
  OBVIOUS
<1> QED
  BY <1>1, <1>2 DEF ThreadOf, Threads

\* The threads start with empty queues.
LEMMA InitType == Init => TypeOK
<1> SUFFICES ASSUME Init PROVE TypeOK
  OBVIOUS
<1>1. <<>> \in Seq(Nat)
  BY EmptySeq
<1>2. m_nThreadNum - 1 \in Threads
  BY DEF Threads
<1> QED
  BY <1>1, <1>2 DEF Init, TypeOK

\* What AddPkt and Pop do to one queue.
LEMMA QueueType ==
    ASSUME TypeOK, NEW t \in Threads
    PROVE  /\ Len(m_PktQueue[t]) \in Nat /\ Len(handled[t]) \in Nat /\ Len(inHand[t]) \in Nat
           /\ \A p \in Nat :
                /\ Append(m_PktQueue[t], p) \in Seq(Nat)
                /\ Len(Append(m_PktQueue[t], p)) = Len(m_PktQueue[t]) + 1
                /\ \A k \in 1 .. Len(m_PktQueue[t]) :
                        Append(m_PktQueue[t], p)[k] = m_PktQueue[t][k]
                /\ Append(m_PktQueue[t], p)[Len(m_PktQueue[t]) + 1] = p
           /\ Len(m_PktQueue[t]) > 0 =>
                /\ Head(m_PktQueue[t]) \in Nat /\ Head(m_PktQueue[t]) = m_PktQueue[t][1]
                /\ Tail(m_PktQueue[t]) \in Seq(Nat)
                /\ Len(Tail(m_PktQueue[t])) = Len(m_PktQueue[t]) - 1
                /\ \A k \in 1 .. Len(m_PktQueue[t]) - 1 :
                        Tail(m_PktQueue[t])[k] = m_PktQueue[t][k + 1]
<1>1. m_PktQueue[t] \in Seq(Nat) /\ handled[t] \in Seq(Nat) /\ inHand[t] \in Seq(Nat)
  BY DEF TypeOK
<1>2. Len(m_PktQueue[t]) \in Nat /\ Len(handled[t]) \in Nat /\ Len(inHand[t]) \in Nat
  BY <1>1, LenProperties
<1>3. ASSUME NEW p \in Nat
      PROVE  /\ Append(m_PktQueue[t], p) \in Seq(Nat)
             /\ Len(Append(m_PktQueue[t], p)) = Len(m_PktQueue[t]) + 1
             /\ \A k \in 1 .. Len(m_PktQueue[t]) :
                     Append(m_PktQueue[t], p)[k] = m_PktQueue[t][k]
             /\ Append(m_PktQueue[t], p)[Len(m_PktQueue[t]) + 1] = p
  BY <1>1, AppendProperties
<1>4. ASSUME Len(m_PktQueue[t]) > 0
      PROVE  /\ Head(m_PktQueue[t]) \in Nat /\ Head(m_PktQueue[t]) = m_PktQueue[t][1]
             /\ Tail(m_PktQueue[t]) \in Seq(Nat)
             /\ Len(Tail(m_PktQueue[t])) = Len(m_PktQueue[t]) - 1
             /\ \A k \in 1 .. Len(m_PktQueue[t]) - 1 :
                     Tail(m_PktQueue[t])[k] = m_PktQueue[t][k + 1]
  <2>1. m_PktQueue[t] # <<>>
    BY <1>4, EmptySeq
  <2> QED
    BY <1>1, <2>1, HeadTailProperties
<1> QED
  BY <1>2, <1>3, <1>4

\* The types and the counting of packets are kept by every step.
LEMMA CountStep ==
    TypeOK /\ PopsWhatIsThere /\ [Next]_vars => TypeOK' /\ PopsWhatIsThere'
<1> SUFFICES ASSUME TypeOK, PopsWhatIsThere, [Next]_vars
             PROVE  TypeOK' /\ PopsWhatIsThere'
  OBVIOUS
<1>1. ASSUME HandlePkt PROVE TypeOK' /\ PopsWhatIsThere'
  <2> DEFINE u == ThreadOf(m_nCount)
  <2>1. m_nCount \in Nat /\ u \in Threads
    BY ThreadOfType DEF TypeOK
  <2> HIDE DEF u
  <2>2. /\ m_PktQueue' = [m_PktQueue EXCEPT ![u] = Append(m_PktQueue[u], m_nCount)]
        /\ pc' = [pc EXCEPT ![u] = IF pc[u] = "waiting" THEN "woken" ELSE pc[u]]
        /\ m_nCount < MaxPkts /\ m_nCount' = m_nCount + 1
        /\ UNCHANGED <<m_bThreadRun, nSize, inHand, handled, deleting>>
    BY <1>1 DEF HandlePkt, AddPkt, u
  <2>3. Append(m_PktQueue[u], m_nCount) \in Seq(Nat)
    BY <2>1, QueueType
  <2>4. TypeOK'
    BY <2>1, <2>2, <2>3 DEF TypeOK
  <2>5. ASSUME NEW t \in Threads, pc'[t] \in {"check", "batch", "handle"}
        PROVE  nSize'[t] <= Len(m_PktQueue'[t])
    <3>1. pc[t] \in {"check", "batch", "handle"} /\ nSize[t] <= Len(m_PktQueue[t])
      BY <2>1, <2>2, <2>5 DEF TypeOK, PopsWhatIsThere
    <3>2. Len(m_PktQueue'[t]) \in {Len(m_PktQueue[t]), Len(m_PktQueue[t]) + 1}
      <4>1. CASE t = u
        BY <2>1, <2>2, <4>1, QueueType DEF TypeOK
      <4>2. CASE t # u
        BY <2>1, <2>2, <4>2 DEF TypeOK
      <4> QED
        BY <4>1, <4>2
    <3> QED
      BY <2>2, <3>1, <3>2, QueueType DEF TypeOK
  <2> QED
    BY <2>4, <2>5 DEF PopsWhatIsThere
<1>2. ASSUME Delete \/ Stop \/ Join PROVE TypeOK' /\ PopsWhatIsThere'
  <2>1. deleting \in [at : {"no", "stop", "join", "done"}, last : Threads]
    BY DEF TypeOK
  <2>2. UNCHANGED <<m_nCount, m_PktQueue, pc, nSize, inHand, handled>>
    BY <1>2 DEF Delete, Stop, Join
  <2>3. m_bThreadRun' \in [Threads -> BOOLEAN]
    BY <1>2 DEF Delete, Stop, Join, TypeOK
  <2>4. deleting' \in [at : {"no", "stop", "join", "done"}, last : Threads]
    <3>1. CASE Delete \/ Stop
      BY <2>1, <3>1 DEF Delete, Stop
    <3>2. CASE Join /\ deleting.last = 0
      BY <2>1, <3>2 DEF Join
    <3>3. CASE Join /\ deleting.last # 0
      <4>1. deleting.last - 1 \in Threads
        BY <2>1, <3>3 DEF Threads
      <4> QED
        BY <3>3, <4>1 DEF Join
    <3> QED
      BY <1>2, <3>1, <3>2, <3>3
  <2> QED
    BY <2>2, <2>3, <2>4 DEF TypeOK, PopsWhatIsThere
<1>3. ASSUME NEW t \in Threads, TestRun(t) \/ CheckSize(t) \/ Wait(t) \/ Timeout(t) \/ BatchEnds(t)
      PROVE  TypeOK' /\ PopsWhatIsThere'
  BY <1>3 DEF TestRun, CheckSize, Wait, Timeout, BatchEnds, Goto, TypeOK, PopsWhatIsThere
<1>4. ASSUME NEW t \in Threads, ReadSize(t) \/ Woken(t)
      PROVE  TypeOK' /\ PopsWhatIsThere'
  <2>1. /\ nSize' = [nSize EXCEPT ![t] = Len(m_PktQueue[t])]
        /\ pc' = [pc EXCEPT ![t] = "check"]
        /\ UNCHANGED <<m_nCount, m_PktQueue, m_bThreadRun, inHand, handled, deleting>>
    BY <1>4 DEF ReadSize, Woken, Goto
  <2>2. Len(m_PktQueue[t]) \in Nat
    BY QueueType
  <2>3. TypeOK'
    BY <2>1, <2>2 DEF TypeOK
  <2>4. PopsWhatIsThere'
    BY <2>1, <2>2 DEF TypeOK, PopsWhatIsThere
  <2> QED
    BY <2>3, <2>4
<1>5. ASSUME NEW t \in Threads, Pop(t)
      PROVE  TypeOK' /\ PopsWhatIsThere'
  <2>1. Len(m_PktQueue[t]) \in Nat /\ nSize[t] \in Nat /\ nSize[t] <= Len(m_PktQueue[t])
        /\ nSize[t] > 0
    BY <1>5, QueueType DEF Pop, Goto, TypeOK, PopsWhatIsThere
  <2>2. /\ Head(m_PktQueue[t]) \in Nat
        /\ Tail(m_PktQueue[t]) \in Seq(Nat)
        /\ Len(Tail(m_PktQueue[t])) = Len(m_PktQueue[t]) - 1
    BY <2>1, QueueType
  <2>3. <<Head(m_PktQueue[t])>> \in Seq(Nat)
    BY <2>2
  <2>4. /\ pc' = [pc EXCEPT ![t] = "handle"] /\ nSize' = [nSize EXCEPT ![t] = nSize[t] - 1]
        /\ inHand' = [inHand EXCEPT ![t] = <<Head(m_PktQueue[t])>>]
        /\ m_PktQueue' = [m_PktQueue EXCEPT ![t] = Tail(m_PktQueue[t])]
        /\ UNCHANGED <<m_nCount, m_bThreadRun, handled, deleting>>
    BY <1>5 DEF Pop, Goto
  <2>5. nSize[t] - 1 \in Nat /\ nSize[t] - 1 <= Len(Tail(m_PktQueue[t]))
    BY ONLY <2>1, <2>2
  <2>6. TypeOK'
    BY <2>2, <2>3, <2>4, <2>5 DEF TypeOK
  <2>7. PopsWhatIsThere'
    <3>1. SUFFICES ASSUME NEW u \in Threads, pc'[u] \in {"check", "batch", "handle"}
                   PROVE  nSize'[u] <= Len(m_PktQueue'[u])
        BY DEF PopsWhatIsThere
    <3>2. CASE u = t
        BY <2>4, <2>5, <3>2 DEF TypeOK
    <3>3. CASE u # t
        BY <2>4, <3>1, <3>3 DEF TypeOK, PopsWhatIsThere
    <3> QED
        BY <3>2, <3>3
  <2> QED
    BY <2>6, <2>7
<1>6. ASSUME NEW t \in Threads, Handled(t)
      PROVE  TypeOK' /\ PopsWhatIsThere'
  <2>1. handled[t] \o inHand[t] \in Seq(Nat) /\ <<>> \in Seq(Nat)
    BY ConcatProperties, EmptySeq DEF TypeOK
  <2>2. TypeOK'
    BY <1>6, <2>1 DEF Handled, Goto, TypeOK
  <2>3. PopsWhatIsThere'
    BY <1>6 DEF Handled, Goto, TypeOK, PopsWhatIsThere
  <2> QED
    BY <2>2, <2>3
<1>7. ASSUME UNCHANGED vars PROVE TypeOK' /\ PopsWhatIsThere'
  BY <1>7 DEF vars, TypeOK, PopsWhatIsThere
<1> QED
  BY <1>1, <1>2, <1>3, <1>4, <1>5, <1>6, <1>7 DEF Next, Thread_Run

\* CPktHandleThread::HandlePkt never calls front() on an empty queue.
THEOREM PopsSafely == Spec => []PopsWhatIsThere
<1>1. Init => TypeOK /\ PopsWhatIsThere
  BY InitType DEF Init, PopsWhatIsThere
<1>2. TypeOK /\ PopsWhatIsThere /\ [Next]_vars => (TypeOK /\ PopsWhatIsThere)'
  BY CountStep
<1> QED
  BY <1>1, <1>2, PTL DEF Spec
-----------------------------------------------------------------------------
(* Order. *)

\* One packet more: it goes to its thread, after the others.
LEMMA ShareNext ==
    ASSUME NEW t \in Threads, NEW n \in Nat
    PROVE  /\ Share(t, n) \in Seq(Nat)
           /\ Share(t, 0) = <<>>
           /\ Share(t, n + 1) = Share(t, n) \o (IF ThreadOf(n) = t THEN <<n>> ELSE <<>>)
<1> DEFINE part(p) == IF ThreadOf(p) = t THEN <<p>> ELSE <<>>
           parts(k) == [i \in 1..k |-> part(i - 1)]
<1>1. \A k : Share(t, k) = FlattenSeq(parts(k))
  BY DEF Share
<1>2. \A p \in Nat : part(p) \in Seq(Nat)
  OBVIOUS
<1> HIDE DEF part
<1>3. parts(n) \in Seq(Seq(Nat)) /\ Len(parts(n)) = n
  <2>1. \A i \in 1..n : part(i - 1) \in Seq(Nat)
    BY <1>2
  <2> QED
    BY <2>1
<1>4. parts(n + 1) = Append(parts(n), part(n))
  <2> DEFINE u == parts(n)
             v == parts(n + 1)
  <2>1. /\ Append(u, part(n)) \in Seq(Seq(Nat)) /\ Len(Append(u, part(n))) = n + 1
        /\ \A i \in 1..n : Append(u, part(n))[i] = u[i]
        /\ Append(u, part(n))[n + 1] = part(n)
    <3>1. part(n) \in Seq(Nat)
      BY <1>2
    <3> QED
      BY <1>3, <3>1, AppendProperties
  <2>2. v \in Seq(Seq(Nat)) /\ Len(v) = n + 1
    <3>1. \A i \in 1..(n + 1) : part(i - 1) \in Seq(Nat)
      BY <1>2
    <3> QED
      BY <3>1
  <2>3. (\A i \in 1..n : u[i] = part(i - 1)) /\ \A i \in 1..(n + 1) : v[i] = part(i - 1)
    OBVIOUS
  <2> HIDE DEF u, v
  <2>4. ASSUME NEW i \in 1..(n + 1) PROVE v[i] = Append(u, part(n))[i]
    <3>1. CASE i \in 1..n
      BY <2>1, <2>3, <3>1
    <3>2. CASE i = n + 1
      BY <2>1, <2>3, <3>2
    <3>3. i \in 1..n \/ i = n + 1
      BY ONLY n \in Nat, i \in 1..(n + 1)
    <3> QED
      BY ONLY <3>1, <3>2, <3>3
  <2> QED
    BY <2>1, <2>2, <2>4, SeqEqual DEF u, v
<1>5. parts(0) = <<>>
  OBVIOUS
<1> HIDE DEF parts
<1>6. Share(t, n) \in Seq(Nat)
  BY <1>1, <1>3, FlattenType
<1>7. Share(t, 0) = <<>>
  BY <1>1, <1>5, FlattenEmpty
<1>8. Share(t, n + 1) = Share(t, n) \o part(n)
  <2>1. part(n) \in Seq(Nat)
    BY <1>2
  <2>2. FlattenSeq(Append(parts(n), part(n))) = FlattenSeq(parts(n)) \o part(n)
    BY ONLY <1>3, <2>1, FlattenAppend
  <2> QED
    BY ONLY <1>1, <1>4, <2>2, Zenon
<1> QED
  BY <1>6, <1>7, <1>8 DEF part

\* What is added to the queue comes last of all.
LEMMA AddedLast ==
    \A s, q \in Seq(Nat), p \in Nat : s \o Append(q, p) = Append(s \o q, p)
<1> QED
  BY ONLY AppendLast

\* Before the first packet every thread has had none.
LEMMA InitOrder == Init => OneInHand /\ InOrderOnce
<1> SUFFICES ASSUME Init, NEW t \in Threads
             PROVE  /\ Len(inHand[t]) = IF pc[t] = "handle" THEN 1 ELSE 0
                    /\ (handled[t] \o inHand[t]) \o m_PktQueue[t] = Share(t, m_nCount)
  BY DEF OneInHand, InOrderOnce
<1>1. /\ m_nCount = 0 /\ handled[t] = <<>> /\ inHand[t] = <<>> /\ m_PktQueue[t] = <<>>
      /\ pc[t] = "test"
  BY DEF Init
<1>2. Len(<<>>) = 0 /\ (<<>> \o <<>>) \o <<>> = <<>>
  OBVIOUS
<1>3. Share(t, 0) = <<>> /\ 0 \in Nat
  BY ShareNext
<1> QED
  BY <1>1, <1>2, <1>3

\* HandlePkt gives the packet to its thread, and to no other.
LEMMA GivenInOrder ==
    ASSUME TypeOK, HandlePkt, NEW t \in Threads,
           (handled[t] \o inHand[t]) \o m_PktQueue[t] = Share(t, m_nCount)
    PROVE  (handled'[t] \o inHand'[t]) \o m_PktQueue'[t] = Share(t, m_nCount')
<1> DEFINE u == ThreadOf(m_nCount)
<1>1. m_nCount \in Nat /\ u \in Threads
  BY ThreadOfType DEF TypeOK
<1>2. /\ m_PktQueue' = [m_PktQueue EXCEPT ![u] = Append(m_PktQueue[u], m_nCount)]
      /\ m_nCount' = m_nCount + 1 /\ UNCHANGED <<inHand, handled>>
  BY DEF HandlePkt, AddPkt
<1>3. /\ Share(t, m_nCount) \in Seq(Nat)
      /\ Share(t, m_nCount + 1) = Share(t, m_nCount) \o (IF u = t THEN <<m_nCount>> ELSE <<>>)
  BY <1>1, ShareNext
<1> HIDE DEF u
<1> DEFINE some == handled[t] \o inHand[t]
<1>4. some \in Seq(Nat) /\ m_PktQueue[t] \in Seq(Nat)
  BY ConcatProperties DEF TypeOK
<1>5. CASE u = t
  <2>1. m_PktQueue'[t] = Append(m_PktQueue[t], m_nCount)
    BY <1>2, <1>5 DEF TypeOK
  <2>2. some \o Append(m_PktQueue[t], m_nCount) = Append(some \o m_PktQueue[t], m_nCount)
    BY ONLY <1>1, <1>4, AddedLast, Zenon
  <2>3. Append(Share(t, m_nCount), m_nCount) = Share(t, m_nCount) \o <<m_nCount>>
    BY <1>1, <1>3, AppendIsConcat
  <2> QED
    BY <1>2, <1>3, <1>5, <2>1, <2>2, <2>3
<1>6. CASE u # t
  <2>1. m_PktQueue'[t] = m_PktQueue[t]
    BY <1>1, <1>2, <1>6 DEF TypeOK
  <2>2. Share(t, m_nCount) \o <<>> = Share(t, m_nCount)
    BY <1>3, ConcatEmptySeq
  <2> QED
    BY <1>2, <1>3, <1>6, <2>1, <2>2
<1> QED
  BY <1>5, <1>6

\* Pop moves the front of the queue into the thread's empty hand.
LEMMA PoppedInOrder ==
    ASSUME TypeOK, PopsWhatIsThere, OneInHand, NEW t \in Threads, Pop(t)
    PROVE  /\ Len(inHand'[t]) = 1 /\ inHand[t] = <<>>
           /\ inHand'[t] \o m_PktQueue'[t] = inHand[t] \o m_PktQueue[t]
           /\ (handled'[t] \o inHand'[t]) \o m_PktQueue'[t]
                    = (handled[t] \o inHand[t]) \o m_PktQueue[t]
<1>1. /\ inHand'[t] = <<Head(m_PktQueue[t])>>
      /\ m_PktQueue'[t] = Tail(m_PktQueue[t])
      /\ handled' = handled /\ pc[t] = "batch"
  BY DEF Pop, Goto, TypeOK
<1>2. /\ m_PktQueue[t] \in Seq(Nat) /\ inHand[t] \in Seq(Nat) /\ handled[t] \in Seq(Nat)
  BY DEF TypeOK
<1>3. m_PktQueue[t] # <<>>
  <2>1. nSize[t] \in Nat /\ nSize[t] > 0 /\ nSize[t] <= Len(m_PktQueue[t])
    BY <1>1 DEF Pop, PopsWhatIsThere, TypeOK
  <2>2. Len(<<>>) = 0
    OBVIOUS
  <2> QED
    BY <2>1, <2>2
<1>4. inHand[t] = <<>>
  <2>1. Len(inHand[t]) = 0
    BY <1>1 DEF OneInHand
  <2> QED
    BY <1>2, <2>1, EmptySeq
<1>5. /\ Head(m_PktQueue[t]) \in Nat /\ Tail(m_PktQueue[t]) \in Seq(Nat)
      /\ <<Head(m_PktQueue[t])>> \in Seq(Nat) /\ Len(<<Head(m_PktQueue[t])>>) = 1
  BY <1>2, <1>3, HeadTailProperties
<1>6. <<>> \o m_PktQueue[t] = m_PktQueue[t] /\ handled[t] \o <<>> = handled[t]
  BY <1>2, ConcatEmptySeq
<1>7. <<Head(m_PktQueue[t])>> \o Tail(m_PktQueue[t]) = m_PktQueue[t]
  <2>1. <<>> \in Seq(Nat) /\ Append(<<>>, Head(m_PktQueue[t])) = <<Head(m_PktQueue[t])>>
    BY <1>5, EmptySeq
  <2> QED
    BY <1>2, <1>3, <1>6, <2>1, MoveHead
<1>8. \A x, y, z \in Seq(Nat) : (x \o y) \o z = x \o (y \o z)
  BY ONLY ConcatAssociative, Z3T(40)
<1>9. (handled[t] \o <<Head(m_PktQueue[t])>>) \o Tail(m_PktQueue[t])
            = handled[t] \o (<<Head(m_PktQueue[t])>> \o Tail(m_PktQueue[t]))
  BY ONLY <1>2, <1>5, <1>8, Zenon
<1> QED
  BY <1>1, <1>4, <1>5, <1>6, <1>7, <1>9

\* The packet in hand becomes the last of `handled`.
LEMMA HandledInOrder ==
    ASSUME TypeOK, NEW t \in Threads, Handled(t)
    PROVE  /\ inHand'[t] = <<>>
           /\ (handled'[t] \o inHand'[t]) \o m_PktQueue'[t]
                    = (handled[t] \o inHand[t]) \o m_PktQueue[t]
<1>1. /\ handled'[t] = handled[t] \o inHand[t]
      /\ inHand'[t] = <<>>
      /\ m_PktQueue' = m_PktQueue
  BY DEF Handled, TypeOK
<1>2. handled[t] \o inHand[t] \in Seq(Nat)
  BY ConcatProperties DEF TypeOK
<1>3. (handled[t] \o inHand[t]) \o <<>> = handled[t] \o inHand[t]
  BY <1>2, ConcatEmptySeq
<1> QED
  BY <1>1, <1>3

\* Every step of every thread keeps the three places in order.
LEMMA OrderStep ==
    TypeOK /\ PopsWhatIsThere /\ OneInHand /\ InOrderOnce /\ [Next]_vars
        => OneInHand' /\ InOrderOnce'
<1> SUFFICES ASSUME TypeOK, PopsWhatIsThere, OneInHand, InOrderOnce, [Next]_vars,
                    NEW t \in Threads
             PROVE  /\ Len(inHand'[t]) = IF pc'[t] = "handle" THEN 1 ELSE 0
                    /\ (handled'[t] \o inHand'[t]) \o m_PktQueue'[t] = Share(t, m_nCount')
  <2>1. OneInHand' = \A t \in Threads : Len(inHand'[t]) = IF pc'[t] = "handle" THEN 1 ELSE 0
    BY DEF OneInHand
  <2>2. InOrderOnce' = \A t \in Threads :
            (handled'[t] \o inHand'[t]) \o m_PktQueue'[t] = Share(t, m_nCount')
    BY DEF InOrderOnce, Share
  <2> QED
    BY <2>1, <2>2
<1>1. /\ Len(inHand[t]) = IF pc[t] = "handle" THEN 1 ELSE 0
      /\ (handled[t] \o inHand[t]) \o m_PktQueue[t] = Share(t, m_nCount)
  BY DEF OneInHand, InOrderOnce
<1>2. CASE HandlePkt
  <2>1. inHand' = inHand /\ (pc'[t] = "handle" <=> pc[t] = "handle")
    <3> DEFINE u == ThreadOf(m_nCount)
    <3>1. /\ pc' = [pc EXCEPT ![u] = IF pc[u] = "waiting" THEN "woken" ELSE pc[u]]
          /\ inHand' = inHand
      BY <1>2 DEF HandlePkt, AddPkt
    <3> HIDE DEF u
    <3> QED
      BY <3>1 DEF TypeOK
  <2> QED
    BY <1>1, <1>2, <2>1, GivenInOrder
<1>3. CASE Delete \/ Stop \/ Join \/ UNCHANGED vars
  BY <1>1, <1>3 DEF Delete, Stop, Join, vars
<1>4. ASSUME NEW u \in Threads,
             TestRun(u) \/ ReadSize(u) \/ CheckSize(u) \/ Wait(u) \/ Timeout(u) \/ Woken(u)
                \/ BatchEnds(u)
      PROVE  /\ UNCHANGED <<m_nCount, handled, inHand, m_PktQueue>>
             /\ pc[t] = "handle" <=> pc'[t] = "handle"
  <2>1. /\ UNCHANGED <<m_nCount, handled, inHand, m_PktQueue>>
        /\ pc[u] # "handle" /\ \E l \in {"size", "exited", "check", "enter", "batch", "waiting",
                                          "woken", "test"} : pc' = [pc EXCEPT ![u] = l]
    BY <1>4 DEF TestRun, ReadSize, CheckSize, Wait, Timeout, Woken, BatchEnds, Goto
  <2>2. pc[t] = "handle" <=> pc'[t] = "handle"
    BY <2>1 DEF TypeOK
  <2> QED
    BY <2>1, <2>2
<1>5. ASSUME NEW u \in Threads, Pop(u) \/ Handled(u), u # t
      PROVE  /\ m_nCount' = m_nCount /\ handled'[t] = handled[t] /\ inHand'[t] = inHand[t]
             /\ m_PktQueue'[t] = m_PktQueue[t] /\ pc'[t] = pc[t]
  BY <1>5 DEF Pop, Handled, Goto, TypeOK
<1>6. CASE Pop(t)
  <2>1. pc'[t] = "handle" /\ m_nCount' = m_nCount
    BY <1>6 DEF Pop, Goto, TypeOK
  <2> QED
    BY <1>1, <1>6, <2>1, PoppedInOrder
<1>7. CASE Handled(t)
  <2>1. pc'[t] = "batch" /\ m_nCount' = m_nCount
    BY <1>7 DEF Handled, Goto, TypeOK
  <2>2. Len(<<>>) = 0
    OBVIOUS
  <2> QED
    BY <1>1, <1>7, <2>1, <2>2, HandledInOrder
<1> QED
  BY <1>1, <1>2, <1>3, <1>4, <1>5, <1>6, <1>7 DEF Next, Thread_Run

\* The inductive invariant holds throughout.
LEMMA InvAlways == Spec => []Inv
<1>1. Init => Inv
  BY InitType, InitOrder DEF Inv, Init, PopsWhatIsThere
<1>2. Inv /\ [Next]_vars => Inv'
  BY CountStep, OrderStep DEF Inv
<1> QED
  BY <1>1, <1>2, PTL DEF Spec

\* Each thread passes on the packets whose number, as an unsigned int, falls to it: each once
\* and in order, with none left out, also after the numbers have come round.
THEOREM InOrder == Spec => []InOrderOnce
<1>1. Inv => InOrderOnce
  BY DEF Inv
<1> QED
  BY <1>1, InvAlways, PTL

-----------------------------------------------------------------------------
(* The pool implements PacketQueues. *)

\* A packet in the hand goes before the queue.
LEMMA InHandFirst ==
    ASSUME NEW s \in Seq(Nat), NEW x \in Nat
    PROVE  <<x>> \o s # <<>> /\ Head(<<x>> \o s) = x /\ Tail(<<x>> \o s) = s
<1>1. /\ <<x>> \in Seq(Nat) /\ <<x>> # <<>>
      /\ Head(<<x>>) = x /\ Tail(<<x>>) = <<>>
  OBVIOUS
<1>2. <<>> \o s = s
  BY ConcatEmptySeq
<1> QED
  BY <1>1, <1>2, HeadTailConcat

\* Every step of the pool is a step of the queues, or does not show.
LEMMA QueuesStep ==
    Inv /\ [Next]_vars => [Queues!Next]_<<m_nThreadNum, m_nCount, Waiting, handled>>
<1> SUFFICES ASSUME TypeOK, PopsWhatIsThere, OneInHand, [Next]_vars
             PROVE  \/ Queues!Next
                    \/ UNCHANGED <<m_nThreadNum, m_nCount, Waiting, handled>>
  BY DEF Inv
<1>1. CASE HandlePkt
  <2> DEFINE u == ThreadOf(m_nCount)
  <2>1. m_nCount \in Nat /\ u \in Threads
    BY ThreadOfType DEF TypeOK
  <2> HIDE DEF u
  <2>2. /\ m_PktQueue' = [m_PktQueue EXCEPT ![u] = Append(m_PktQueue[u], m_nCount)]
        /\ m_nCount' = m_nCount + 1 /\ UNCHANGED <<inHand, handled>>
    BY <1>1 DEF HandlePkt, AddPkt, u
  <2>3. inHand[u] \o Append(m_PktQueue[u], m_nCount)
            = Append(inHand[u] \o m_PktQueue[u], m_nCount)
    <3>1. inHand[u] \in Seq(Nat) /\ m_PktQueue[u] \in Seq(Nat)
      BY <2>1 DEF TypeOK
    <3> QED
      BY ONLY <2>1, <3>1, AddedLast, Zenon
  <2>4. Waiting' = [Waiting EXCEPT ![u] = Append(Waiting[u], m_nCount)]
    BY <2>1, <2>2, <2>3 DEF Waiting, TypeOK
  <2>5. Queues!Put
    BY <2>2, <2>4 DEF Queues!Put, Queues!ThreadOf, ThreadOf, u
  <2> QED
    BY <2>5 DEF Queues!Next
<1>2. ASSUME NEW t \in Threads, Pop(t)
      PROVE  UNCHANGED <<m_nThreadNum, m_nCount, Waiting, handled>>
  <2>1. /\ inHand' = [inHand EXCEPT ![t] = <<Head(m_PktQueue[t])>>]
        /\ m_PktQueue' = [m_PktQueue EXCEPT ![t] = Tail(m_PktQueue[t])]
        /\ UNCHANGED <<m_nCount, handled>> /\ pc[t] = "batch"
    BY <1>2 DEF Pop, Goto
  <2>2. inHand'[t] \o m_PktQueue'[t] = inHand[t] \o m_PktQueue[t]
    BY <1>2, PoppedInOrder
  <2>5. ASSUME NEW v \in Threads
        PROVE  inHand'[v] \o m_PktQueue'[v] = inHand[v] \o m_PktQueue[v]
    BY <2>1, <2>2 DEF TypeOK
  <2>6. Waiting' = Waiting
    BY <2>5 DEF Waiting
  <2> QED
    BY <2>1, <2>6
<1>3. ASSUME NEW t \in Threads, Handled(t)
      PROVE  Queues!Next
  <2>1. /\ handled' = [handled EXCEPT ![t] = handled[t] \o inHand[t]]
        /\ inHand' = [inHand EXCEPT ![t] = <<>>]
        /\ UNCHANGED <<m_nCount, m_PktQueue>> /\ pc[t] = "handle"
    BY <1>3 DEF Handled, Goto
  <2>2. PICK x \in Nat : inHand[t] = <<x>>
    <3>1. inHand[t] \in Seq(Nat) /\ Len(inHand[t]) = 1
      BY <2>1 DEF OneInHand, TypeOK
    <3>2. inHand[t][1] \in Nat
      BY <3>1, ElementOfSeq
    <3>3. inHand[t] = <<inHand[t][1]>>
      BY <3>1
    <3> QED
      BY <3>2, <3>3
  <2>3. m_PktQueue[t] \in Seq(Nat) /\ handled[t] \in Seq(Nat)
    BY DEF TypeOK
  <2>4. Waiting[t] = <<x>> \o m_PktQueue[t]
    BY <2>2 DEF Waiting
  <2>5. Waiting[t] # <<>> /\ Head(Waiting[t]) = x /\ Tail(Waiting[t]) = m_PktQueue[t]
    BY <2>3, <2>4, InHandFirst
  <2>6. Waiting' = [Waiting EXCEPT ![t] = Tail(Waiting[t])]
    <3>1. <<>> \o m_PktQueue[t] = m_PktQueue[t]
      BY <2>3, ConcatEmptySeq
    <3>2. Waiting' = [v \in Threads |-> IF v = t THEN m_PktQueue[t] ELSE Waiting[v]]
      BY <2>1, <3>1 DEF Waiting, TypeOK
    <3> QED
      BY <2>5, <3>2 DEF Waiting
  <2>7. handled[t] \o <<x>> = Append(handled[t], x)
    BY <2>3
  <2>8. Queues!Take(t)
    BY <2>1, <2>2, <2>5, <2>6, <2>7 DEF Queues!Take
  <2> QED
    BY <2>8 DEF Queues!Next, Threads
<1>4. ASSUME NEW t \in Threads,
             TestRun(t) \/ ReadSize(t) \/ CheckSize(t) \/ Wait(t) \/ Timeout(t) \/ Woken(t)
                \/ BatchEnds(t)
      PROVE  UNCHANGED <<m_nThreadNum, m_nCount, Waiting, handled>>
  BY <1>4 DEF TestRun, ReadSize, CheckSize, Wait, Timeout, Woken, BatchEnds, Waiting
<1>5. CASE Delete \/ Stop \/ Join \/ UNCHANGED vars
  BY <1>5 DEF Delete, Stop, Join, vars, Waiting
<1> QED
  BY <1>1, <1>2, <1>3, <1>4, <1>5 DEF Next, Thread_Run

\* CPktHandleThread's locks, waits and counting make m_nThreadNum plain
\* queues: a step of the pool deals one packet out, hands one on or does not show.
THEOREM Refinement == Spec => ImplementsQueues
<1>1. Init => Queues!Init
  <2>1. <<>> \o <<>> = <<>>
    OBVIOUS
  <2> QED
    BY <2>1 DEF Init, Queues!Init, Waiting, Threads
<1> QED
  BY <1>1, InvAlways, QueuesStep, PTL DEF Spec, ImplementsQueues, Queues!Spec
=============================================================================
