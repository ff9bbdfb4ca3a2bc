----------------------------- MODULE CommonServer -----------------------------
(***************************************************************************)
(* A CCommonServer from the wire to the application: the loop thread cuts  *)
(* the stream into packets (Framing) and calls the application itself, or  *)
(* deals the packets out to packet threads (PacketQueues, which PacketPool *)
(* implements).  Those pass them on while clients come and go under the    *)
(* same key.                                                               *)
(***************************************************************************)
EXTENDS Framing

CONSTANTS
    MAX_THREAD_NUM,
    UINT_RANGE,      \* how many unsigned ints there are: 2^32
    Requests,        \* what the application gives to SetThreadNum
    MaxPkts          \* bound: packets in all

ASSUME PktsAssumption == MaxPkts \in Nat
ASSUME ServerRangeAssumption == UINT_RANGE \in Nat \ {0}
ASSUME RequestsAssumption == Requests \subseteq Int /\ MAX_THREAD_NUM \in Nat

VARIABLES
    m_nThreadNum,
    m_nCount,
    queue,       \* what each thread still has to pass on, by number
    done,        \* history: the packets the application has been given, by thread
    given        \* history: all packets handed to __HandlePkt: [conn, pkt], by number

poolVars == <<m_nThreadNum, m_nCount, queue, done>>
serverVars == <<vars, poolVars, given>>

Pool == INSTANCE PacketQueues WITH threads <- m_nThreadNum, count <- m_nCount

\* Without threads the loop thread, 0, is the one that calls the application.
Callers == 0 .. (IF m_nThreadNum = 0 THEN 0 ELSE m_nThreadNum - 1)

\* SetThreadNum, before Start.
SetThreadNum(n) == IF n <= 0 \/ n > MAX_THREAD_NUM THEN 0 ELSE n

ServerInit ==
    /\ Init
    /\ m_nThreadNum \in {SetThreadNum(n) : n \in Requests}
    /\ m_nCount = 0
    /\ queue = [t \in Callers |-> <<>>]
    /\ done = [t \in Callers |-> <<>>]
    /\ given = <<>>

-----------------------------------------------------------------------------
CallDirectly(k) ==
    done' = [done EXCEPT ![0] = @ \o [i \in 1..k |-> Len(given) + i - 1]]

\* __HandlePkt for the packets of one callback.
HandlePkts(k) ==
    IF m_nThreadNum = 0
    THEN CallDirectly(k) /\ UNCHANGED <<m_nThreadNum, m_nCount, queue>>
    ELSE Pool!Puts(k)

\* OnClientDataReceived of the CCommonServer.
ServerReceives ==
    /\ Receive
    /\ LET k == Len(handled') - Len(handled)
       IN  /\ HandlePkts(k)
           /\ given' = given \o [i \in 1..k |->
                                   [conn |-> conns, pkt |-> handled'[Len(handled) + i]]]

\* Mutant: a stack for a queue.
ThreadCallsLast(t) ==
    /\ queue[t] # <<>>
    /\ queue' = [queue EXCEPT ![t] = Front(@)]
    /\ done' = [done EXCEPT ![t] = Append(@, Last(queue[t]))]
    /\ UNCHANGED <<vars, m_nThreadNum, m_nCount, given>>

\* A packet thread calls OnClientDataReceived of the application.
ThreadCalls(t) ==
    /\ Pool!Take(t)
    /\ UNCHANGED <<vars, given>>

MaySend == Len(given) + Len(sent) - Len(handled) < MaxPkts

\* Mutant: what is queued goes with the content of a client that is gone.
PeerOrGoneWithQueues ==
    /\ (MaySend /\ PeerSends) \/ PeerSendsAbnormal \/ Gone
    /\ queue' = IF conns' = conns THEN queue ELSE [t \in Callers |-> <<>>]
    /\ UNCHANGED <<m_nThreadNum, m_nCount, done, given>>

\* The peer, and OnClientDisconnected, OnClientRecvError, OnClientSendError, OnClientTimeout:
\* the queues keep the packets of a client that is gone.
PeerOrGone ==
    /\ (MaySend /\ PeerSends) \/ PeerSendsAbnormal \/ Gone
    /\ UNCHANGED <<poolVars, given>>

ServerNext ==
    \/ ServerReceives \/ PeerOrGone
    \/ m_nThreadNum > 0 /\ \E t \in Callers : ThreadCalls(t)

\* PacketPool!PacketsHandled: a packet thread comes to every packet in the end.
ServerSpec ==
    /\ ServerInit /\ [][ServerNext]_serverVars
    /\ \A t \in 0 .. MAX_THREAD_NUM - 1 : WF_serverVars(t < m_nThreadNum /\ ThreadCalls(t))

-----------------------------------------------------------------------------
ServerTypeOK ==
    /\ TypeOK
    /\ m_nThreadNum \in 0..MAX_THREAD_NUM
    /\ m_nCount \in Nat
    /\ queue \in [Callers -> Seq(Nat)]
    /\ done \in [Callers -> Seq(Nat)]
    /\ given \in Seq([conn : 1..MaxConns, pkt : Seq(Byte)])

\* What the application is given of connection c by thread t.
AppGot(t, c) ==
    LET part(p) == IF given[p + 1].conn = c THEN <<given[p + 1].pkt>> ELSE <<>>
    IN  FlattenSeq([i \in DOMAIN done[t] |-> part(done[t][i])])

\* With no threads, or one, the application gets what the peer sent on a connection, whole
\* and in order, however TCP cuts it and whoever had the key before.
AppInOrder ==
    m_nThreadNum <= 1 /\ normal => IsPrefix(AppGot(0, conns), sent)

\* However many threads, the application is given every packet of the stream, also of a
\* client that has gone since.
AppGetsAll ==
    \A p \in 0 .. MaxPkts - 1 :
        p < Len(given) ~> \E t \in Callers : \E i \in DOMAIN done[t] : done[t][i] = p
=============================================================================
