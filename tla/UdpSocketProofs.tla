---------------------------- MODULE UdpSocketProofs ----------------------------
(***************************************************************************)
(* Theorems about UdpSocket: whatever the threads do, and for any number   *)
(* of objects, descriptors and callers, Send and __ReadCallback use their  *)
(* own socket, and Stop can close what Start has opened.                   *)
(***************************************************************************)
EXTENDS UdpSocket, TLAPS

LEMMA InitInv == Init => Inv
<1> SUFFICES ASSUME Init PROVE Inv
  OBVIOUS
<1> USE ObjsAssumption, FdsAssumption DEF Init
<1>1. TypeOK
  <2>1. \A o \in Objs : fd[o] = 0
    OBVIOUS
  <2> QED BY <2>1 DEF TypeOK, Calls
<1>2. TableInv /\ InboxInv /\ NoSocketLeak
  BY DEF TableInv, InboxInv, NoSocketLeak
<1>3. SocketInv /\ CallInv /\ WatchInv /\ OwnDatagram
  BY DEF SocketInv, SocketOf, CallInv, WatchInv, OwnDatagram, NoCall
<1> QED BY <1>1, <1>2, <1>3 DEF Inv

-----------------------------------------------------------------------------
\* What Start does before socket() has answered, of the right types.
LEMMA StartsType ==
    ASSUME TypeOK, NEW o \in Objs, Starts(o)
    PROVE  /\ call' \in [Callers -> Calls] /\ lost' \subseteq Fds
           /\ at' = [at EXCEPT ![o] = "opened"] /\ stop' = [stop EXCEPT ![o] = "no"]
           /\ UNCHANGED <<loop_done, got, fd, active, armed, pending>>
           /\ at[o] # "aborted"
<1>1. call' \in [Callers -> Calls]
  BY DEF Starts, Unsure, TypeOK, Calls
<1>2. lost' \subseteq Fds
  <2>1. Overwritten(o) \subseteq Fds
    BY FdsAssumption DEF Overwritten, TypeOK
  <2> QED BY <2>1 DEF Starts, TypeOK
<1> QED BY <1>1, <1>2 DEF Starts, MayStart, ioVars

LEMMA NextTypeOK == TypeOK /\ InboxInv /\ [Next]_vars => TypeOK'
<1> SUFFICES ASSUME TypeOK, InboxInv, [Next]_vars PROVE TypeOK'
  OBVIOUS
<1> USE ObjsAssumption, FdsAssumption DEF TypeOK
<1>1. ASSUME NEW f \in Fds, PeerSends(f) PROVE TypeOK'
  BY <1>1 DEF PeerSends, loopVars, ioVars
<1>2. ASSUME NEW o \in Objs, Open(o) \/ OpenFails(o) PROVE TypeOK'
  <2>1. Starts(o) /\ UNCHANGED <<loop_done, got, fd, active, armed, pending>>
    BY <1>2, StartsType DEF Open, OpenFails
  <2>2. CASE Open(o)
    <3>1. /\ ofd' \in [Fds -> Objs \cup {Free, Std}] /\ inbox' \in [Fds -> BOOLEAN]
          /\ m_Socket' \in [Objs -> Fds \cup {-1}]
      BY <2>2 DEF Open
    <3> QED BY <2>1, <3>1, StartsType
  <2>3. CASE OpenFails(o)
    BY <2>1, <2>3, StartsType DEF OpenFails
  <2> QED BY <1>2, <2>2, <2>3
<1>3. ASSUME NEW o \in Objs, BindFails(o) \/ EnterLoop(o) PROVE TypeOK'
  BY <1>3 DEF BindFails, EnterLoop, ioVars
<1>4. ASSUME NEW o \in Objs, StartIo(o) \/ StartIoAborts(o) PROVE TypeOK'
  <2>1. CASE StartIo(o)
    <3>1. m_Socket[o] \in Fds /\ m_Socket[o] # -1
      BY <2>1 DEF StartIo, Bound
    <3> QED BY <2>1, <3>1 DEF StartIo, Watch
  <2>2. CASE StartIoAborts(o)
    BY <2>2 DEF StartIoAborts
  <2> QED BY <1>4, <2>1, <2>2
<1>5. ASSUME NEW o \in Objs, LoopBroken(o) \/ EndIteration(o) \/ ReceiveNothing(o)
      PROVE TypeOK'
  BY <1>5 DEF LoopBroken, EndIteration, ReceiveNothing, ioVars
<1>6. ASSUME NEW o \in Objs, Sleep(o) PROVE TypeOK'
  BY <1>6 DEF Sleep
<1>7. ASSUME NEW o \in Objs, Wake(o) \/ Invoke(o) PROVE TypeOK'
  BY <1>7 DEF Wake, Invoke
<1>8. ASSUME NEW o \in Objs, Receive(o) \/ CallbackReturns(o) PROVE TypeOK'
  <2>1. CASE Receive(o)
    <3>1. fd[o] \in Fds /\ ofd[fd[o]] \in Objs
      BY <2>1 DEF Receive, InboxInv
    <3> QED BY <2>1, <3>1 DEF Receive, ioVars
  <2>2. CASE CallbackReturns(o)
    BY <2>2 DEF CallbackReturns, ioVars
  <2> QED BY <1>8, <2>1, <2>2
<1>9. ASSUME NEW o \in Objs, StopClose(o) PROVE TypeOK'
  <2>1. call' \in [Callers -> Calls]
    BY <1>9 DEF StopClose, StopBegins, Unsure, Calls
  <2>2. ofd' \in [Fds -> Objs \cup {Free, Std}] /\ inbox' \in [Fds -> BOOLEAN]
    BY <1>9 DEF StopClose
  <2>3. armed' \in [Objs -> {"no", "yes", "new"}]
    BY <1>9 DEF StopClose
  <2> QED BY <1>9, <2>1, <2>2, <2>3 DEF StopClose, StopBegins, loopVars
<1>10. ASSUME NEW o \in Objs, StopStep(o) PROVE TypeOK'
  <2>1. CASE StopZero(o)
    BY <2>1 DEF StopZero, loopVars, ioVars
  <2>2. CASE StopIo(o)
    BY <2>2 DEF StopIo, loopVars
  <2>3. CASE StopUnloop(o)
    BY <2>3 DEF StopUnloop, ioVars
  <2> QED BY <1>10, <2>1, <2>2, <2>3 DEF StopStep
<1>11. ASSUME NEW t \in Callers, SendTo(t) PROVE TypeOK'
  BY <1>11 DEF SendTo, Calls, loopVars, ioVars
<1>12. ASSUME NEW t \in Callers, NEW o \in Objs, SendTest(t, o) PROVE TypeOK'
  <2>1. m_Socket[o] \in Fds \ {0}
    BY <1>12 DEF SendTest
  <2>2. call' \in [Callers -> Calls]
    BY <1>12, <2>1 DEF SendTest, Calls
  <2> QED BY <1>12, <2>2 DEF SendTest, loopVars, ioVars
<1>13. CASE UNCHANGED vars
  BY <1>13 DEF vars, loopVars, ioVars
<1> QED BY <1>1, <1>2, <1>3, <1>4, <1>5, <1>6, <1>7, <1>8, <1>9, <1>10, <1>11, <1>12, <1>13
        DEF Next, Request, LoopStep

-----------------------------------------------------------------------------
\* The steps of a loop and of a sender leave sockets, m_Socket and Stop alone.
LEMMA Aside ==
    ASSUME TypeOK, [Next]_vars
    PROVE  \/ \E o \in Objs : Open(o) \/ OpenFails(o) \/ StopClose(o) \/ StopStep(o)
           \/ /\ UNCHANGED <<ofd, m_Socket, stop, lost>>
              /\ \A o \in Objs : at'[o] = "out" <=> at[o] = "out"
<1>1. ASSUME NEW f \in Fds, PeerSends(f)
      PROVE  UNCHANGED <<ofd, m_Socket, stop, lost, at>>
  BY <1>1 DEF PeerSends, loopVars
<1>2. ASSUME NEW o \in Objs, LoopStep(o)
      PROVE  /\ UNCHANGED <<ofd, m_Socket, stop, lost>>
             /\ \A p \in Objs : at'[p] = "out" <=> at[p] = "out"
  BY <1>2 DEF LoopStep, BindFails, StartIo, StartIoAborts, Watch, EnterLoop, LoopBroken, Sleep,
     Wake, Invoke, Receive, ReceiveNothing, CallbackReturns, EndIteration, TypeOK
<1>3. ASSUME NEW t \in Callers, SendTo(t) \/ \E o \in Objs : SendTest(t, o)
      PROVE  UNCHANGED <<ofd, m_Socket, stop, lost, at>>
  BY <1>3 DEF SendTo, SendTest, loopVars
<1>4. CASE UNCHANGED vars
  BY <1>4 DEF vars, loopVars
<1> QED BY <1>1, <1>2, <1>3, <1>4 DEF Next, Request

\* What Start overwrites is a socket of the object, and then none is left that is not lost.
LEMMA StartsLost ==
    ASSUME TypeOK, TableInv, NoSocketLeak, SocketInv, NEW o \in Objs, Starts(o)
    PROVE  /\ \A g \in Fds \ lost' : ofd[g] # o
           /\ \A g \in lost' : g \in lost \/ ofd[g] = o
           /\ lost \subseteq lost'
<1> USE ObjsAssumption, FdsAssumption
<1>1. lost' = lost \cup Overwritten(o) /\ MayStart(o)
  BY DEF Starts
<1>2. SocketOf(o)
  BY DEF SocketInv
<1>3. ASSUME NEW g \in Overwritten(o) PROVE ofd[g] = o
  BY <1>2, <1>3 DEF Overwritten, SocketOf
<1>4. ASSUME NEW g \in Fds, ofd[g] = o PROVE g \in lost'
  <2>1. CASE at[o] = "out" \/ stop[o] # "no"
    BY <1>1, <1>2, <1>4, <2>1 DEF SocketOf
  <2>2. CASE at[o] = "failed" /\ stop[o] = "no"
    <3>1. g > 0
      BY <1>4 DEF TableInv
    <3>2. m_Socket[o] = g \/ g \in lost
      BY <1>4 DEF NoSocketLeak
    <3> QED BY <1>1, <2>2, <3>1, <3>2 DEF Overwritten
  <2> QED BY <1>1, <2>1, <2>2 DEF MayStart
<1> QED BY <1>1, <1>3, <1>4

\* Sockets are opened into m_Socket, and closed from there.
LEMMA NextSocketInv ==
    TypeOK /\ TableInv /\ NoSocketLeak /\ SocketInv /\ WatchInv /\ [Next]_vars
        => NoSocketLeak' /\ SocketInv' /\ TableInv'
<1> SUFFICES ASSUME TypeOK, TableInv, NoSocketLeak, SocketInv, WatchInv, [Next]_vars
             PROVE  NoSocketLeak' /\ SocketInv' /\ TableInv'
  OBVIOUS
<1> USE ObjsAssumption, FdsAssumption
<1>1. ASSUME NEW o \in Objs, Open(o) PROVE NoSocketLeak' /\ SocketInv' /\ TableInv'
  <2>1. PICK f \in Fds : /\ ofd[f] = Free
                         /\ ofd' = [ofd EXCEPT ![f] = o]
                         /\ m_Socket' = [m_Socket EXCEPT ![o] = f]
    BY <1>1 DEF Open, Lowest
  <2>2. /\ \A g \in Fds \ lost' : ofd[g] # o
        /\ \A g \in lost' : g \in lost \/ ofd[g] = o
        /\ lost \subseteq lost'
    BY <1>1, StartsLost DEF Open
  <2>3. /\ at' = [at EXCEPT ![o] = "opened"] /\ stop' = [stop EXCEPT ![o] = "no"]
        /\ lost' \subseteq Fds
    BY <1>1, StartsType DEF Open
  <2>4. f \notin lost' /\ f # 0
    BY <2>1, <2>2 DEF TableInv
  <2>5. NoSocketLeak'
    BY <2>1, <2>2 DEF NoSocketLeak, TypeOK
  <2>6. TableInv'
    BY <2>1, <2>2, <2>3, <2>4 DEF TableInv, TypeOK
  <2>7. SocketOf(o)'
    BY <2>1, <2>3, <2>4 DEF SocketOf, TypeOK
  <2>8. ASSUME NEW p \in Objs, p # o PROVE SocketOf(p)'
    <3>1. /\ at'[p] = at[p] /\ stop'[p] = stop[p] /\ m_Socket'[p] = m_Socket[p]
          /\ \A g \in Fds : ofd'[g] = p <=> ofd[g] = p
      BY <2>1, <2>3, <2>8 DEF TypeOK
    <3>2. SocketOf(p) /\ m_Socket[p] \in Fds \cup {-1}
      BY DEF SocketInv, TypeOK
    <3>3. m_Socket[p] > 0 /\ ofd[m_Socket[p]] = p /\ m_Socket[p] \notin lost
             => m_Socket[p] \notin lost'
      BY <2>2, <2>8
    <3>4. m_Socket[p] > 0 => m_Socket[p] \in Fds
      BY <3>2
    <3>5. \A g \in Fds \ lost' : g \in Fds \ lost
      BY <2>2
    <3> QED BY <3>1, <3>2, <3>3, <3>4, <3>5 DEF SocketOf
  <2>9. SocketInv'
    BY <2>7, <2>8 DEF SocketInv
  <2> QED BY <2>5, <2>6, <2>9
<1>2. ASSUME NEW o \in Objs, OpenFails(o) PROVE NoSocketLeak' /\ SocketInv' /\ TableInv'
  <2>1. /\ \A g \in Fds \ lost' : ofd[g] # o
        /\ \A g \in lost' : g \in lost \/ ofd[g] = o
        /\ lost \subseteq lost'
    BY <1>2, StartsLost DEF OpenFails
  <2>2. /\ at' = [at EXCEPT ![o] = "opened"] /\ stop' = [stop EXCEPT ![o] = "no"]
        /\ lost' \subseteq Fds /\ ofd' = ofd /\ m_Socket' = [m_Socket EXCEPT ![o] = -1]
    BY <1>2, StartsType DEF OpenFails
  <2>3. NoSocketLeak'
    BY <2>1, <2>2 DEF NoSocketLeak, TypeOK
  <2>4. TableInv'
    BY <2>1, <2>2 DEF TableInv
  <2>5. SocketOf(o)'
    BY <2>2 DEF SocketOf, TypeOK
  <2>6. ASSUME NEW p \in Objs, p # o PROVE SocketOf(p)'
    <3>1. at'[p] = at[p] /\ stop'[p] = stop[p] /\ m_Socket'[p] = m_Socket[p]
      BY <2>2, <2>6 DEF TypeOK
    <3>2. SocketOf(p)
      BY DEF SocketInv
    <3> QED BY <2>1, <2>2, <2>6, <3>1, <3>2 DEF SocketOf
  <2>7. SocketInv'
    BY <2>5, <2>6 DEF SocketInv
  <2> QED BY <2>3, <2>4, <2>7
<1>3. ASSUME NEW o \in Objs, StopClose(o) PROVE NoSocketLeak' /\ SocketInv' /\ TableInv'
  <2>1. /\ at[o] # "out" /\ stop[o] \in {"no", "done"}
        /\ stop' = [stop EXCEPT ![o] = "closed"]
        /\ at' = at /\ m_Socket' = m_Socket /\ lost' = lost
    BY <1>3 DEF StopClose, StopBegins, loopVars
  <2>2. \A g \in Fds : ofd'[g] = IF g = m_Socket[o] /\ g > 0 THEN Free ELSE ofd[g]
    BY <1>3 DEF StopClose, TypeOK
  <2>3. m_Socket[o] > 0 => ofd[m_Socket[o]] = o /\ m_Socket[o] \notin lost
    BY <2>1 DEF SocketInv, SocketOf
  <2>4. NoSocketLeak'
    BY <2>1, <2>2 DEF NoSocketLeak
  <2>5. TableInv'
    BY <2>1, <2>2, <2>3 DEF TableInv, TypeOK
  <2>6. \A g \in Fds \ lost : ofd'[g] # o
    BY <2>2 DEF NoSocketLeak, TableInv, TypeOK
  <2>7. SocketOf(o)'
    <3>1. stop'[o] = "closed"
      BY <2>1 DEF TypeOK
    <3> QED BY <2>1, <2>6, <3>1 DEF SocketOf
  <2>8. ASSUME NEW p \in Objs, p # o PROVE SocketOf(p)'
    <3>1. stop'[p] = stop[p] /\ \A g \in Fds : ofd'[g] = p <=> ofd[g] = p
      BY <2>1, <2>2, <2>3, <2>8 DEF TypeOK
    <3>2. SocketOf(p) /\ m_Socket[p] \in Fds \cup {-1}
      BY DEF SocketInv, TypeOK
    <3>3. m_Socket[p] > 0 => m_Socket[p] \in Fds
      BY <3>2
    <3> QED BY <2>1, <3>1, <3>2, <3>3 DEF SocketOf
  <2>9. SocketInv'
    BY <2>7, <2>8 DEF SocketInv
  <2> QED BY <2>4, <2>5, <2>9
<1>4. ASSUME NEW o \in Objs, StopStep(o) PROVE NoSocketLeak' /\ SocketInv' /\ TableInv'
  <2>1. /\ stop[o] # "no" /\ at' = at /\ ofd' = ofd /\ lost' = lost
        /\ \A p \in Objs \ {o} : stop'[p] = stop[p] /\ m_Socket'[p] = m_Socket[p]
    BY <1>4 DEF StopStep, StopZero, StopIo, StopUnloop, loopVars, TypeOK
  <2>2. stop'[o] \in {"zeroed", "unwatched", "done"}
    BY <1>4 DEF StopStep, StopZero, StopIo, StopUnloop, TypeOK
  <2>3. at[o] # "out" /\ SocketOf(o)
    BY <2>1 DEF WatchInv, SocketInv
  <2>4. m_Socket'[o] \in {0, -1}
    <3>1. CASE StopZero(o)
      <4>1. m_Socket'[o] = IF m_Socket[o] > 0 THEN 0 ELSE m_Socket[o]
        BY <3>1 DEF StopZero, TypeOK
      <4>2. m_Socket[o] \in Nat \cup {-1}
        BY DEF TypeOK
      <4> QED BY <4>1, <4>2
    <3>2. CASE StopIo(o) \/ StopUnloop(o)
      BY <2>3, <3>2 DEF StopIo, StopUnloop, SocketOf
    <3> QED BY <1>4, <3>1, <3>2 DEF StopStep
  <2>5. \A g \in Fds \ lost : ofd[g] # o
    BY <2>1, <2>3 DEF SocketOf
  <2>6. NoSocketLeak' /\ TableInv'
    BY <2>1, <2>5 DEF NoSocketLeak, TableInv
  <2>7. SocketInv'
    BY <2>1, <2>2, <2>3, <2>4, <2>5 DEF SocketInv, SocketOf
  <2> QED BY <2>6, <2>7
<1>5. CASE /\ UNCHANGED <<ofd, m_Socket, stop, lost>>
           /\ \A o \in Objs : at'[o] = "out" <=> at[o] = "out"
  BY <1>5 DEF NoSocketLeak, SocketInv, SocketOf, TableInv
<1> QED BY <1>1, <1>2, <1>3, <1>4, <1>5, Aside

\* A socket that is open stays so until its own object closes it; what is in it is a datagram.
LEMMA NextInboxInv == TypeOK /\ InboxInv /\ [Next]_vars => InboxInv'
<1> SUFFICES ASSUME TypeOK, InboxInv, [Next]_vars PROVE InboxInv'
  OBVIOUS
<1> USE ObjsAssumption DEF InboxInv, TypeOK
<1>1. ASSUME NEW f \in Fds, PeerSends(f) PROVE InboxInv'
  BY <1>1 DEF PeerSends
<1>2. ASSUME NEW o \in Objs, Open(o) \/ OpenFails(o) PROVE InboxInv'
  <2>1. CASE Open(o)
    BY <2>1 DEF Open
  <2>2. CASE OpenFails(o)
    BY <2>2 DEF OpenFails
  <2> QED BY <1>2, <2>1, <2>2
<1>3. ASSUME NEW o \in Objs, Receive(o) PROVE InboxInv'
  BY <1>3 DEF Receive
<1>4. ASSUME NEW o \in Objs, StopClose(o) PROVE InboxInv'
  BY <1>4 DEF StopClose
<1>5. ASSUME NEW o \in Objs, LoopStep(o), ~Receive(o) PROVE UNCHANGED <<ofd, inbox>>
  BY <1>5 DEF LoopStep, BindFails, StartIo, StartIoAborts, Watch, EnterLoop, LoopBroken, Sleep,
     Wake, Invoke, ReceiveNothing, CallbackReturns, EndIteration
<1>6. ASSUME NEW o \in Objs, StopStep(o) PROVE UNCHANGED <<ofd, inbox>>
  BY <1>6 DEF StopStep, StopZero, StopIo, StopUnloop
<1>7. ASSUME NEW t \in Callers, SendTo(t) \/ \E o \in Objs : SendTest(t, o)
      PROVE  UNCHANGED <<ofd, inbox>>
  BY <1>7 DEF SendTo, SendTest
<1>8. CASE UNCHANGED vars
  BY <1>8 DEF vars
<1> QED BY <1>1, <1>2, <1>3, <1>4, <1>5, <1>6, <1>7, <1>8 DEF Next, Request

\* A sure call is to one of the objects.
LEMMA SureCall ==
    ASSUME TypeOK, NEW t \in Callers, call[t].sure
    PROVE  call[t].to \in Objs
<1>1. call[t] \in Calls
  BY DEF TypeOK
<1>2. call[t] # NoCall /\ call[t] # UnsureCall
  BY DEF NoCall, UnsureCall
<1>3. call[t] \in [to : Objs, fd : Fds \ {0}, sure : {TRUE}]
  BY <1>1, <1>2 DEF Calls
<1> QED BY <1>3

\* Only Start and Stop, which take its certainty away, can change the socket of a sure call.
LEMMA NextCallInv ==
    TypeOK /\ SocketInv /\ WatchInv /\ CallInv /\ [Next]_vars => CallInv'
<1> SUFFICES ASSUME TypeOK, SocketInv, WatchInv, CallInv, [Next]_vars,
                    NEW t \in Callers, call'[t].sure
             PROVE  LET o == call'[t].to
                    IN  /\ at'[o] # "out" /\ stop'[o] = "no"
                        /\ call'[t].fd = m_Socket'[o] /\ m_Socket'[o] > 0
  BY DEF CallInv
<1> USE ObjsAssumption, FdsAssumption
<1> DEFINE Kept == call'[t] = call[t] /\ call[t].to \in Objs
<1>1. call[t].sure => call[t].to \in Objs
  BY SureCall
<1>2. ASSUME NEW o \in Objs, Starts(o) \/ StopBegins(o),
             \A p \in Objs \ {o} : /\ at'[p] = at[p] /\ stop'[p] = stop[p]
                                   /\ m_Socket'[p] = m_Socket[p]
      PROVE  LET p == call'[t].to
             IN  /\ at'[p] # "out" /\ stop'[p] = "no"
                 /\ call'[t].fd = m_Socket'[p] /\ m_Socket'[p] > 0
  <2>1. call'[t] = IF call[t].to = o THEN UnsureCall ELSE call[t]
    BY <1>2 DEF Starts, StopBegins, Unsure
  <2>2. call[t].to # o
    BY <2>1 DEF UnsureCall
  <2>3. Kept
    BY <1>1, <2>1, <2>2
  <2> QED BY <1>2, <2>2, <2>3 DEF CallInv
<1>3. ASSUME NEW o \in Objs, Open(o) \/ OpenFails(o) \/ StopClose(o)
      PROVE  /\ Starts(o) \/ StopBegins(o)
             /\ \A p \in Objs \ {o} : /\ at'[p] = at[p] /\ stop'[p] = stop[p]
                                      /\ m_Socket'[p] = m_Socket[p]
  <2>1. CASE Open(o) \/ OpenFails(o)
    <3>1. Starts(o) /\ \A p \in Objs \ {o} : m_Socket'[p] = m_Socket[p]
      BY <2>1 DEF Open, OpenFails, TypeOK
    <3> QED BY <3>1 DEF Starts, TypeOK
  <2>2. CASE StopClose(o)
    BY <2>2 DEF StopClose, StopBegins, loopVars, TypeOK
  <2> QED BY <1>3, <2>1, <2>2
<1>4. ASSUME NEW o \in Objs, StopStep(o)
      PROVE  LET p == call'[t].to
             IN  /\ at'[p] # "out" /\ stop'[p] = "no"
                 /\ call'[t].fd = m_Socket'[p] /\ m_Socket'[p] > 0
  <2>1. /\ call' = call /\ stop[o] # "no" /\ at' = at
        /\ \A p \in Objs \ {o} : stop'[p] = stop[p] /\ m_Socket'[p] = m_Socket[p]
    BY <1>4 DEF StopStep, StopZero, StopIo, StopUnloop, loopVars, TypeOK
  <2>2. Kept
    BY <1>1, <2>1
  <2> QED BY <2>1, <2>2 DEF CallInv
<1>5. ASSUME NEW u \in Callers, NEW o \in Objs, SendTest(u, o)
      PROVE  LET p == call'[t].to
             IN  /\ at'[p] # "out" /\ stop'[p] = "no"
                 /\ call'[t].fd = m_Socket'[p] /\ m_Socket'[p] > 0
  <2>1. UNCHANGED <<m_Socket, stop, at>>
    BY <1>5 DEF SendTest, loopVars
  <2>2. CASE u = t
    <3> DEFINE s == at[o] # "out" /\ stop[o] \in {"no", "done"}
    <3>1. call'[t] = IF s THEN [to |-> o, fd |-> m_Socket[o], sure |-> TRUE] ELSE UnsureCall
      BY <1>5, <2>2 DEF SendTest, TypeOK
    <3>3. s
      BY <3>1 DEF UnsureCall
    <3>2. call'[t].to = o /\ call'[t].fd = m_Socket[o]
      BY <3>1, <3>3
    <3>4. m_Socket[o] > 0
      BY <1>5 DEF SendTest
    <3>5. stop[o] = "no"
      BY <3>3, <3>4 DEF SocketInv, SocketOf
    <3> QED BY <2>1, <3>2, <3>3, <3>4, <3>5
  <2>3. CASE u # t
    <3>1. Kept
      BY <1>1, <1>5, <2>3 DEF SendTest, TypeOK
    <3> QED BY <2>1, <3>1 DEF CallInv
  <2> QED BY <2>2, <2>3
<1>6. ASSUME NEW u \in Callers, SendTo(u)
      PROVE  LET p == call'[t].to
             IN  /\ at'[p] # "out" /\ stop'[p] = "no"
                 /\ call'[t].fd = m_Socket'[p] /\ m_Socket'[p] > 0
  <2>1. UNCHANGED <<m_Socket, stop, at>>
    BY <1>6 DEF SendTo, loopVars
  <2>2. u # t
    BY <1>6 DEF SendTo, TypeOK, NoCall
  <2>3. Kept
    BY <1>1, <1>6, <2>2 DEF SendTo, TypeOK
  <2> QED BY <2>1, <2>3 DEF CallInv
<1>7. ASSUME call' = call, UNCHANGED <<m_Socket, stop>>,
             \A o \in Objs : at'[o] = "out" <=> at[o] = "out"
      PROVE  LET p == call'[t].to
             IN  /\ at'[p] # "out" /\ stop'[p] = "no"
                 /\ call'[t].fd = m_Socket'[p] /\ m_Socket'[p] > 0
  BY <1>1, <1>7 DEF CallInv
<1>8. ASSUME NEW o \in Objs, LoopStep(o)
      PROVE  /\ call' = call /\ UNCHANGED <<m_Socket, stop>>
             /\ \A p \in Objs : at'[p] = "out" <=> at[p] = "out"
  BY <1>8 DEF LoopStep, BindFails, StartIo, StartIoAborts, Watch, EnterLoop, LoopBroken, Sleep, Wake, Invoke,
     Receive, ReceiveNothing, CallbackReturns, EndIteration, TypeOK
<1>9. ASSUME NEW f \in Fds, PeerSends(f) PROVE UNCHANGED <<call, m_Socket, stop, at>>
  BY <1>9 DEF PeerSends, loopVars
<1>10. CASE UNCHANGED vars
  BY <1>7, <1>10 DEF vars, loopVars
<1> QED BY <1>2, <1>3, <1>4, <1>5, <1>6, <1>7, <1>8, <1>9, <1>10 DEF Next, Request

\* What Start watches, and reads, is what it has opened.
LEMMA NextWatchInv ==
    TypeOK /\ TableInv /\ SocketInv /\ WatchInv /\ OwnDatagram /\ [Next]_vars
        => WatchInv' /\ OwnDatagram'
<1> SUFFICES ASSUME TypeOK, TableInv, SocketInv, WatchInv, OwnDatagram, [Next]_vars
             PROVE  WatchInv' /\ OwnDatagram'
  OBVIOUS
<1> USE ObjsAssumption, FdsAssumption DEF WatchInv, OwnDatagram
<1>1. ASSUME NEW o \in Objs, Open(o) \/ OpenFails(o) PROVE WatchInv' /\ OwnDatagram'
  <2>1. PICK f : m_Socket' = [m_Socket EXCEPT ![o] = f] /\ f # 0
    <3>1. CASE Open(o)
      <4>1. PICK f \in Fds : ofd[f] = Free /\ m_Socket' = [m_Socket EXCEPT ![o] = f]
        BY <3>1 DEF Open, Lowest
      <4> QED BY <4>1 DEF TableInv
    <3>2. CASE OpenFails(o)
      <4>1. m_Socket' = [m_Socket EXCEPT ![o] = -1] /\ -1 # 0
        BY <3>2 DEF OpenFails
      <4> QED BY <4>1
    <3> QED BY <1>1, <3>1, <3>2
  <2>2. /\ at' = [at EXCEPT ![o] = "opened"] /\ stop' = [stop EXCEPT ![o] = "no"]
        /\ UNCHANGED <<got, fd>>
    BY <1>1, StartsType DEF Open, OpenFails
  <2> QED BY <2>1, <2>2 DEF TypeOK
<1>2. ASSUME NEW o \in Objs, StartIoAborts(o) PROVE WatchInv' /\ OwnDatagram'
  BY <1>2 DEF StartIoAborts, TypeOK
<1>3. ASSUME NEW o \in Objs, StartIo(o) PROVE WatchInv' /\ OwnDatagram'
  <2>1. m_Socket[o] >= 0 /\ at[o] = "opened"
    <3>1. m_Socket[o] \in Nat \cup {-1}
      BY DEF TypeOK
    <3> QED BY <1>3, <3>1 DEF StartIo, Bound
  <2>2. stop[o] = "no" => m_Socket[o] > 0
    <3>1. m_Socket[o] \in Nat \cup {-1}
      BY DEF TypeOK
    <3> QED BY <2>1, <3>1
  <2> QED BY <1>3, <2>2 DEF StartIo, Watch, TypeOK
<1>4. ASSUME NEW o \in Objs, Receive(o) PROVE WatchInv' /\ OwnDatagram'
  <2>1. stop[o] = "no" => ofd[fd[o]] = o
    BY <1>4 DEF Receive, SocketInv, SocketOf
  <2> QED BY <1>4, <2>1 DEF Receive, ioVars, TypeOK
<1>5. ASSUME NEW o \in Objs, BindFails(o) \/ EnterLoop(o) \/ LoopBroken(o) \/ ReceiveNothing(o)
                             \/ CallbackReturns(o) \/ EndIteration(o)
      PROVE  WatchInv' /\ OwnDatagram'
  <2>1. /\ UNCHANGED <<m_Socket, fd, stop>>
        /\ \A p \in Objs : p # o => at'[p] = at[p] /\ got'[p] = got[p]
    BY <1>5 DEF BindFails, EnterLoop, LoopBroken, ReceiveNothing, CallbackReturns,
       EndIteration, ioVars, TypeOK
  <2>2. /\ at[o] \in {"opened", "enter", "ready", "dispatch", "recv", "callback"}
        /\ at'[o] \in {"failed", "ready", "returned", "dispatch"}
        /\ at[o] = "opened" => at'[o] = "failed"
    BY <1>5 DEF BindFails, EnterLoop, LoopBroken, ReceiveNothing, CallbackReturns,
       EndIteration, TypeOK
  <2> QED BY <2>1, <2>2
<1>6. ASSUME NEW o \in Objs, Sleep(o) \/ Wake(o) \/ Invoke(o) PROVE WatchInv' /\ OwnDatagram'
  <2>1. /\ UNCHANGED <<m_Socket, fd, stop, got>>
        /\ \A p \in Objs : p # o => at'[p] = at[p]
    BY <1>6 DEF Sleep, Wake, Invoke, TypeOK
  <2>2. /\ at[o] \in {"ready", "asleep", "dispatch"}
        /\ at'[o] \in {"asleep", "dispatch", "recv"}
    BY <1>6 DEF Sleep, Wake, Invoke, TypeOK
  <2> QED BY <2>1, <2>2
<1>7. ASSUME NEW o \in Objs, StopClose(o) \/ StopStep(o) PROVE WatchInv' /\ OwnDatagram'
  <2>1. /\ UNCHANGED <<at, fd, got>> /\ stop'[o] # "no"
        /\ \A p \in Objs : p # o => stop'[p] = stop[p] /\ m_Socket'[p] = m_Socket[p]
    BY <1>7 DEF StopClose, StopBegins, StopStep, StopZero, StopIo, StopUnloop, loopVars,
       ioVars, TypeOK
  <2>2. at[o] # "out"
    BY <1>7 DEF StopClose, StopBegins, StopStep, StopZero, StopIo, StopUnloop
  <2> QED BY <2>1, <2>2
<1>8. CASE UNCHANGED <<m_Socket, at, got, fd, stop>>
  BY <1>8
<1>9. ASSUME NEW f \in Fds, PeerSends(f) PROVE UNCHANGED <<m_Socket, at, got, fd, stop>>
  BY <1>9 DEF PeerSends, loopVars, ioVars
<1>10. ASSUME NEW t \in Callers, SendTo(t) \/ \E o \in Objs : SendTest(t, o)
       PROVE  UNCHANGED <<m_Socket, at, got, fd, stop>>
  BY <1>10 DEF SendTo, SendTest, loopVars, ioVars
<1>11. CASE UNCHANGED vars
  BY <1>8, <1>11 DEF vars, loopVars, ioVars
<1> QED BY <1>1, <1>2, <1>3, <1>4, <1>5, <1>6, <1>7, <1>8, <1>9, <1>10, <1>11
        DEF Next, Request, LoopStep

-----------------------------------------------------------------------------
LEMMA NextInv == Inv /\ [Next]_vars => Inv'
  BY NextTypeOK, NextInboxInv, NextSocketInv, NextCallInv, NextWatchInv DEF Inv

\* The inductive invariant, along every interleaving of Start, Stop and the loop.
THEOREM Invariance == Spec => []Inv
  BY InitInv, NextInv, PTL DEF Spec

\* The types: m_Io.start is given the -1 of a failed socket() by a client only, whose process
\* ends there (CUdpServer::Start, CUdpClient::Start).
THEOREM TypeCorrect == Spec => []TypeOK
<1>1. Inv => TypeOK
  BY DEF Inv
<1> QED BY <1>1, Invariance, PTL

\* CUdpServer::Send and CUdpClient::Send reach their own socket unless a Start or Stop of the
\* same object overlaps them.
THEOREM SendsOwn == Spec => []OwnSocket
<1>1. Inv => OwnSocket
  <2> SUFFICES ASSUME Inv, NEW t \in Callers, call[t].sure
               PROVE  \A f \in Named(t) : f > 0 /\ ofd[f] = call[t].to
    BY DEF OwnSocket
  <2>1. call[t].to \in Objs
    BY SureCall DEF Inv
  <2> QED BY <2>1 DEF Inv, CallInv, SocketInv, SocketOf, Named
<1> QED BY <1>1, Invariance, PTL

\* __ReadCallback hands over its own socket's datagrams until Stop is called.
THEOREM ReadsOwn == Spec => []OwnDatagram
<1>1. Inv => OwnDatagram
  BY DEF Inv
<1> QED BY <1>1, Invariance, PTL

\* Stop can close every socket that Start has opened but those whose number a Start has
\* overwritten after a bind error (CUdpServer::Start, Stop), in whatever order the two ran.
THEOREM NoLeak == Spec => []NoSocketLeak
<1>1. Inv => NoSocketLeak
  BY DEF Inv
<1> QED BY <1>1, Invariance, PTL
=============================================================================
