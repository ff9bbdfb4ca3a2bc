--------------------------- MODULE TcpServerProofs ---------------------------
(* Theorems about TcpServer, for all values of its constants. *)
EXTENDS TcpServer, TLAPS

Calls == [at : {"none", "got", "shut", "closed", "done"}, conn : Conns \cup {Nil}, sock : Fds]

\* A call of CloseClient that moves on, or is over, stays a call.
LEMMA ClosingType ==
    ASSUME NEW t \in Threads, NEW call \in Calls, TypeInv,
           call.at # "none" => Made(call.conn), obj' = obj,
           closing' = [closing EXCEPT ![t] = call]
    PROVE  /\ closing' \in [Threads -> Calls]
           /\ (\A u \in Threads : closing[u].at # "none" => Made(closing[u].conn))'
<1>1. closing \in [Threads -> Calls]
    BY DEF TypeInv, TypeOK, Calls
<1>2. closing' \in [Threads -> Calls]
    BY <1>1
<1>3. ASSUME NEW u \in Threads, closing'[u].at # "none" PROVE Made(closing[u].conn)'
  <2>1. closing'[u] = IF u = t THEN call ELSE closing[u]
    BY <1>1
  <2>2. Made(closing'[u].conn)
    BY <1>3, <2>1 DEF TypeInv, MadeInv
  <2> QED
    BY <2>2 DEF Made
<1> QED
    BY <1>2, <1>3

\* The destructor keeps the types of what it changes.
LEMMA DestroyType ==
    ASSUME TypeInv, NEW D, \A n \in D : Made(n), Destroy(D)
    PROVE  /\ ofd' \in [Fds -> Conns \cup {Nil, Std}]
           /\ m_Io' \in [Conns -> {"off", "R", "RW"}]
           /\ m_Socket' \in [Conns -> Fds]
           /\ obj' \in [Conns -> {"none", "live", "freed"}]
           /\ m_WriteQueue' \in [Conns -> 0..WRITE_QUEUE_MAX_SIZE + 1]
           /\ \A n : Made(n)' <=> Made(n)
           /\ \A n \in Conns : m_Io'[n] # "off" => m_Io[n] # "off"
BY FdsAssumption, BoundsAssumption
   DEF TypeInv, TypeOK, Made, Destroy, ClosedBy, Stopped, Zeroed, Freed, Emptied

\* The type invariant is kept by each step.
LEMMA TypeStep == TypeInv /\ [Next]_vars => TypeInv'
<1> SUFFICES ASSUME TypeInv, [Next]_vars
             PROVE  TypeInv'
    OBVIOUS
<1> USE FdsAssumption, NamesAssumption, ThreadsAssumption, BoundsAssumption
    DEF TypeInv, TypeOK, MadeInv
<1>1. ASSUME NEW n \in Conns, PeerSends(n) PROVE TypeInv'
    BY <1>1 DEF PeerSends, connVars, queueVars, appVars, Made
<1>2. ASSUME NEW n \in Conns, PeerHangsUp(n) PROVE TypeInv'
    BY <1>2 DEF PeerHangsUp, connVars, queueVars, appVars, Made
<1>3. ASSUME NEW n \in Conns, PeerResets(n) PROVE TypeInv'
    BY <1>3 DEF PeerResets, connVars, queueVars, appVars, Made
<1>4. ASSUME NEW n \in Conns, TimePasses(n) PROVE TypeInv'
    BY <1>4 DEF TimePasses, kernelVars, queueVars, appVars, Made
<1>5. ASSUME NEW a \in Addrs, NEW f \in Fds, NEW n \in Conns, Accept(a, f, n) PROVE TypeInv'
  <2> DEFINE k == <<a, f>>
             o == m_Connections[k]
             D == IF o # Nil /\ ~Held(o) THEN {o} ELSE {}
  <2>1. k \in Keys /\ o \in Conns \cup {Nil} /\ \A m \in D : Made(m)
    BY DEF Keys
  <2> HIDE DEF D
  <2>2. ofd' \in [Fds -> Conns \cup {Nil, Std}]
    BY <1>5, <2>1 DEF Accept, ClosedBy, D
  <2>3. /\ m_Io' \in [Conns -> {"off", "R", "RW"}]
        /\ m_Socket' \in [Conns -> Fds]
        /\ m_WriteQueue' \in [Conns -> 0..WRITE_QUEUE_MAX_SIZE + 1]
    <3>1. /\ Stopped(D) \in [Conns -> {"off", "R", "RW"}]
          /\ Zeroed(D) \in [Conns -> Fds]
          /\ Emptied(D) \in [Conns -> 0..WRITE_QUEUE_MAX_SIZE + 1]
        BY DEF Stopped, Zeroed, Emptied
    <3>2. /\ m_Io' = [Stopped(D) EXCEPT ![n] = "R"]
          /\ m_Socket' = [Zeroed(D) EXCEPT ![n] = f]
          /\ m_WriteQueue' = Emptied(D)
        BY <1>5 DEF Accept, D
    <3> QED
        BY <3>1, <3>2
  <2>4. /\ obj' \in [Conns -> {"none", "live", "freed"}]
        /\ addr' \in [Conns -> Addrs \cup {Nil}]
        /\ fd' \in [Conns -> Fds]
    BY <1>5, <2>1 DEF Accept, Freed, D
  <2>5. m_Connections' = [m_Connections EXCEPT ![k] = n]
    BY <1>5, <2>1 DEF Accept
  <2>6. \A m : Made(m)' <=> Made(m) \/ m = n
    BY <1>5, <2>1 DEF Accept, Freed, D, Made
  <2>7. \A m \in Conns : Made(m)' => addr'[m] \in Addrs
    BY <1>5, <2>6 DEF Accept
  <2>8. TypeOK'
    <3>1. m_Connections' \in [Keys -> Conns \cup {Nil}]
        BY <2>1, <2>5
    <3>2. /\ loop' = [at |-> "connected", conn |-> n, src |-> Nil]
          /\ announced' \subseteq Keys /\ outOfTurn' \in BOOLEAN
        BY <1>5, <2>1 DEF Accept, OnClientConnected
    <3>3. UNCHANGED <<inbox, hup, idle, queueVars, closing>>
        BY <1>5 DEF Accept
    <3> QED
        BY <2>2, <2>3, <2>4, <3>1, <3>2, <3>3 DEF queueVars
  <2>9. \A m \in Conns : m_Io'[m] # "off" => m_Io[m] # "off" \/ m = n
    BY <1>5, <2>1 DEF Accept, Stopped
  <2>10. MadeInv'
    BY <1>5, <2>1, <2>5, <2>6, <2>7, <2>9 DEF Accept, OnClientConnected
  <2> QED
    BY <2>8, <2>10
<1>6. ASSUME NEW n \in Conns, ReadData(n) PROVE TypeInv'
  <2>1. TypeOK'
    BY <1>6 DEF ReadData, File, OnClientDataReceived, queueVars, appVars
  <2>2. MadeInv'
    BY <1>6 DEF ReadData, File, OnClientDataReceived, queueVars, appVars, MadeInv, Made
  <2> QED
    BY <2>1, <2>2 DEF TypeInv
<1>7. ASSUME NEW n \in Conns, ReadEnds(n) PROVE TypeInv'
  <2>1. TypeOK'
    BY <1>7 DEF ReadEnds, OnClientGone, kernelVars, connVars, queueVars
  <2>2. MadeInv'
    BY <1>7 DEF ReadEnds, OnClientGone, kernelVars, connVars, queueVars, MadeInv, Made
  <2> QED
    BY <2>1, <2>2 DEF TypeInv
<1>8. ASSUME NEW n \in Conns, IoError(n) PROVE TypeInv'
  <2>1. TypeOK'
    BY <1>8 DEF IoError, OnClientGone, kernelVars, queueVars
  <2>2. MadeInv'
    BY <1>8 DEF IoError, OnClientGone, kernelVars, queueVars, MadeInv, Made
  <2> QED
    BY <2>1, <2>2 DEF TypeInv
<1>9. ASSUME NEW n \in Conns, Write(n) PROVE TypeInv'
    BY <1>9 DEF Write, kernelVars, queueVars, appVars, Made
<1>10. ASSUME NEW n \in Conns, WriteFails(n) PROVE TypeInv'
  <2>1. TypeOK'
    BY <1>10 DEF WriteFails, OnClientGone, kernelVars, connVars, queueVars
  <2>2. MadeInv'
    BY <1>10 DEF WriteFails, OnClientGone, kernelVars, connVars, queueVars, MadeInv, Made
  <2> QED
    BY <2>1, <2>2 DEF TypeInv
<1>11. ASSUME NEW n \in Conns, TimerFires(n) PROVE TypeInv'
    BY <1>11 DEF TimerFires, Made, OnClientGone, kernelVars, connVars, queueVars
<1>12. CASE AsyncCallback
  <2>1. TypeOK'
    <3>1. m_Functions' \in Seq(Keys) /\ batch' \in Seq(Keys)
        BY <1>12 DEF AsyncCallback
    <3> QED
        BY <1>12, <3>1 DEF AsyncCallback, kernelVars, connVars, appVars
  <2>2. MadeInv'
    BY <1>12 DEF AsyncCallback, kernelVars, connVars, appVars, MadeInv, Made
  <2> QED
    BY <2>1, <2>2 DEF TypeInv
<1>13. CASE CallbackReturns
    BY <1>13 DEF CallbackReturns, Running, kernelVars, connVars, queueVars, appVars, Made
<1>14. CASE Unregister
  <2> DEFINE k == Key(loop.conn)
             o == m_Connections[k]
             D == IF o # Nil /\ ~Held(o) THEN {o} ELSE {}
  <2>1. k \in Keys /\ \A m \in D : Made(m)
    BY <1>14 DEF Unregister, Key, Keys, Made
  <2>2. Destroy(D) /\ m_Connections' = [m_Connections EXCEPT ![k] = Nil]
    BY <1>14 DEF Unregister
  <2> HIDE DEF k, D
  <2>3. TypeOK'
    BY <1>14, <2>1, <2>2, DestroyType DEF Unregister, Running, queueVars, appVars
  <2>4. MadeInv'
    BY <1>14, <2>1, <2>2, DestroyType DEF Unregister, Running, queueVars
  <2> QED
    BY <2>3, <2>4
<1>15. CASE SendDropped
    BY <1>15 DEF SendDropped, kernelVars, connVars, appVars, Made
<1>16. CASE SendQueued
    BY <1>16 DEF SendQueued, kernelVars, appVars, Made
<1>17. CASE SendOverflows
    BY <1>17 DEF SendOverflows, Made, OnClientGone, kernelVars, connVars
<1>18. ASSUME NEW n \in Conns, obj[n] # "none", Send(Key(n)) PROVE TypeInv'
  <2>1. Key(n) \in Keys
    BY <1>18 DEF Key, Keys, Made
  <2>2. m_Functions' \in Seq(Keys)
    BY <1>18, <2>1 DEF Send
  <2> QED
    BY <1>18, <2>2 DEF Send, kernelVars, connVars, appVars, Made
<1>19. ASSUME NEW t \in Threads, CloseClient(t) PROVE TypeInv'
  <2>1. ASSUME NEW k \in Keys, CloseGet(t, k) PROVE TypeInv'
    <3> DEFINE call == [at |-> "got", conn |-> m_Connections[k], sock |-> 0]
    <3>1. call \in Calls /\ Made(call.conn) /\ closing' = [closing EXCEPT ![t] = call]
        BY <2>1 DEF CloseGet, Calls
    <3>2. /\ closing' \in [Threads -> Calls]
          /\ (\A u \in Threads : closing[u].at # "none" => Made(closing[u].conn))'
        BY <2>1, <3>1, ClosingType DEF CloseGet, connVars
    <3> QED
        BY <2>1, <3>2 DEF CloseGet, Calls, kernelVars, connVars, queueVars, appVars, Made
  <2>2. CASE CloseShutdown(t)
    <3> DEFINE n == closing[t].conn
               call == [at |-> "shut", conn |-> n, sock |-> m_Socket[n]]
    <3>1. Made(n)
        BY <2>2 DEF CloseShutdown
    <3>2. call \in Calls /\ closing' = [closing EXCEPT ![t] = call]
        BY <2>2, <3>1 DEF CloseShutdown, Calls, Made
    <3>3. /\ closing' \in [Threads -> Calls]
          /\ (\A u \in Threads : closing[u].at # "none" => Made(closing[u].conn))'
        BY <2>2, <3>1, <3>2, ClosingType DEF CloseShutdown, connVars
    <3>4. hup' \in [Conns -> {"open", "fin", "rst", "shut"}]
        BY <2>2 DEF CloseShutdown
    <3>8. TypeOK'
        BY <2>2, <3>3, <3>4 DEF CloseShutdown, Calls, connVars, queueVars, appVars
    <3>9. MadeInv'
        BY <2>2, <3>3, <3>4 DEF CloseShutdown, Calls, connVars, queueVars, appVars, Made
    <3> QED
        BY <3>8, <3>9
  <2>3. CASE CloseSkipped(t)
    <3> DEFINE call == [closing[t] EXCEPT !.at = "done"]
    <3>1. call \in Calls /\ Made(call.conn) /\ closing' = [closing EXCEPT ![t] = call]
        BY <2>3 DEF CloseSkipped, Calls
    <3>2. /\ closing' \in [Threads -> Calls]
          /\ (\A u \in Threads : closing[u].at # "none" => Made(closing[u].conn))'
        BY <2>3, <3>1, ClosingType DEF CloseSkipped, connVars
    <3>8. TypeOK'
        BY <2>3, <3>2 DEF CloseSkipped, Calls, kernelVars, connVars, queueVars, appVars
    <3>9. MadeInv'
        BY <2>3, <3>2 DEF CloseSkipped, Calls, kernelVars, connVars, queueVars, appVars, Made
    <3> QED
        BY <3>8, <3>9
  <2>4. CASE CloseFd(t)
    <3> DEFINE call == [closing[t] EXCEPT !.at = "closed"]
    <3>1. call \in Calls /\ Made(call.conn) /\ closing' = [closing EXCEPT ![t] = call]
        BY <2>4 DEF CloseFd, Calls
    <3>2. /\ closing' \in [Threads -> Calls]
          /\ (\A u \in Threads : closing[u].at # "none" => Made(closing[u].conn))'
        BY <2>4, <3>1, ClosingType DEF CloseFd, connVars
    <3>3. ofd' \in [Fds -> Conns \cup {Nil, Std}]
        BY <2>4 DEF CloseFd
    <3>8. TypeOK'
        BY <2>4, <3>2, <3>3 DEF CloseFd, Calls, connVars, queueVars, appVars
    <3>9. MadeInv'
        BY <2>4, <3>2, <3>3 DEF CloseFd, Calls, connVars, queueVars, appVars, Made
    <3> QED
        BY <3>8, <3>9
  <2>5. CASE CloseZero(t)
    <3> DEFINE call == [closing[t] EXCEPT !.at = "done"]
    <3>1. call \in Calls /\ Made(call.conn) /\ closing' = [closing EXCEPT ![t] = call]
        BY <2>5 DEF CloseZero, Calls
    <3>2. /\ closing' \in [Threads -> Calls]
          /\ (\A u \in Threads : closing[u].at # "none" => Made(closing[u].conn))'
        BY <2>5, <3>1, ClosingType DEF CloseZero
    <3>3. m_Socket' \in [Conns -> Fds]
        BY <2>5 DEF CloseZero
    <3>8. TypeOK'
        BY <2>5, <3>2, <3>3 DEF CloseZero, Calls, kernelVars, queueVars, appVars
    <3>9. MadeInv'
        BY <2>5, <3>2, <3>3 DEF CloseZero, Calls, kernelVars, queueVars, appVars, Made
    <3> QED
        BY <3>8, <3>9
  <2>6. CASE CloseRelease(t)
    <3> DEFINE n == closing[t].conn
               D == IF Registered(n) \/ \E u \in Threads \ {t} : closing[u].conn = n
                    THEN {} ELSE {n}
    <3>1. \A m \in D : Made(m)
        BY <2>6 DEF CloseRelease
    <3>2. Destroy(D) /\ closing' = [closing EXCEPT ![t] = NotClosing]
        BY <2>6 DEF CloseRelease
    <3> HIDE DEF D
    <3>3. TypeOK'
        BY <2>6, <3>1, <3>2, DestroyType DEF CloseRelease, NotClosing, queueVars, appVars
    <3>4. MadeInv'
      <4>1. \A u \in Threads : closing'[u].at # "none" => Made(closing'[u].conn)
        BY <3>2 DEF NotClosing
      <4>2. UNCHANGED <<addr, m_Connections, loop>>
        BY <2>6 DEF CloseRelease
      <4> QED
        BY <3>1, <3>2, <4>1, <4>2, DestroyType
    <3> QED
        BY <3>3, <3>4
  <2> QED
    BY <1>19, <2>1, <2>2, <2>3, <2>4, <2>5, <2>6 DEF CloseClient
<1>20. CASE UNCHANGED vars
    BY <1>20 DEF vars, kernelVars, connVars, queueVars, appVars, Made
<1> QED
    BY <1>1, <1>2, <1>3, <1>4, <1>5, <1>6, <1>7, <1>8, <1>9, <1>10, <1>11, <1>12, <1>13,
       <1>14, <1>15, <1>16, <1>17, <1>18, <1>19, <1>20
    DEF Next, Environment, Events, InCallback

LEMMA InitType == Init => TypeInv
<1> SUFFICES ASSUME Init PROVE TypeInv
    OBVIOUS
<1> USE FdsAssumption, BoundsAssumption DEF Init
<1>1. closing \in [Threads -> Calls] /\ loop.at = "idle"
    BY DEF NotClosing, Running, Calls
<1>2. TypeOK
  <2>1. /\ ofd \in [Fds -> Conns \cup {Nil, Std}]
          /\ inbox \in [Conns -> 0..MaxInput]
          /\ fd \in [Conns -> Fds] /\ m_Socket \in [Conns -> Fds]
          /\ m_WriteQueue \in [Conns -> 0..WRITE_QUEUE_MAX_SIZE + 1]
        OBVIOUS
  <2>2. m_Functions \in Seq(Keys) /\ batch \in Seq(Keys)
        OBVIOUS
  <2> QED
        BY <1>1, <2>1, <2>2 DEF TypeOK, Running, Calls
<1>3. MadeInv
    BY <1>1 DEF MadeInv, Made, NotClosing
<1> QED
    BY <1>2, <1>3 DEF TypeInv

\* Every variable keeps its type; the write queue never exceeds its limit by more than one.
THEOREM TypeCorrect == Spec => []TypeOK
<1>1. TypeInv => TypeOK
    BY DEF TypeInv
<1> QED
    BY <1>1, InitType, TypeStep, PTL DEF Spec

-----------------------------------------------------------------------------
(* Without CloseClient. *)

\* A callback that ends in OnClientDisconnected is one of a connection that is alive, and
\* such a connection has been announced and is the one under its key.
LEMMA GoneStep ==
    ASSUME TypeInv, NoCloseInv, NEW n \in Conns, obj[n] = "live", loop.at = "idle",
           OnClientGone(n),
           UNCHANGED <<ofd, addr, obj, fd, m_Socket, m_Connections, closing>>,
           \A m \in Conns : m_Io'[m] # "off" => m_Io[m] # "off"
    PROVE  NoCloseInv'
<1>1. m_Connections[Key(n)] = n /\ Key(n) \in Keys
    BY DEF NoCloseInv, ManagerInv, TypeInv, TypeOK, MadeInv, Made, Key, Keys
<1>2. Key(n) \in announced /\ Key(n)' = Key(n)
    BY <1>1, NamesAssumption DEF NoCloseInv, CallbacksInTurn, Key
<1>3. ManagerInv'
    BY DEF NoCloseInv, ManagerInv, Key
<1>4. DescriptorInv'
    BY DEF NoCloseInv, DescriptorInv
<1>5. CallbackInv'
    BY DEF NoCloseInv, CallbackInv, OnClientGone
<1>6. DataFromItsClient'
    BY DEF DataFromItsClient, OnClientGone
<1>7. loop' = [at |-> "gone", conn |-> n, src |-> Nil] /\ announced' = announced \ {Key(n)}
    BY DEF OnClientGone
<1>8. CallbacksInTurn'
  <2>1. ~outOfTurn'
    BY <1>2 DEF NoCloseInv, CallbacksInTurn, OnClientGone
  <2>2. ASSUME NEW k \in Keys
        PROVE  k \in announced' <=> m_Connections'[k] # Nil /\ Key(n) # k
    BY <1>7 DEF NoCloseInv, CallbacksInTurn
  <2>3. loop'.at = "gone" /\ Key(loop.conn)' = Key(n)
    BY <1>7 DEF Key
  <2> QED
    BY <2>1, <2>2, <2>3 DEF CallbacksInTurn
<1> QED
    BY <1>3, <1>4, <1>5, <1>6, <1>8 DEF NoCloseInv

\* A step that leaves the connections and the loop's callback alone.
LEMMA QuietStep ==
    ASSUME TypeInv, NoCloseInv,
           UNCHANGED <<ofd, addr, obj, fd, m_Socket, m_Connections, closing, loop, appVars>>,
           \A m \in Conns : m_Io'[m] # "off" => m_Io[m] # "off"
    PROVE  NoCloseInv'
<1>1. ManagerInv'
    BY DEF NoCloseInv, ManagerInv, Key
<1>2. DescriptorInv'
    BY DEF NoCloseInv, DescriptorInv
<1>3. CallbackInv'
    BY DEF NoCloseInv, CallbackInv
<1>4. DataFromItsClient' /\ CallbacksInTurn'
    BY DEF NoCloseInv, DataFromItsClient, CallbacksInTurn, Key, appVars
<1> QED
    BY <1>1, <1>2, <1>3, <1>4 DEF NoCloseInv

LEMMA NoCloseStep ==
    ASSUME Closers = {}, TypeInv, NoCloseInv, [Next]_vars
    PROVE  NoCloseInv'
<1> USE FdsAssumption, NamesAssumption, ThreadsAssumption
<1>0. \A n \in Conns : ~Held(n)
    BY DEF NoCloseInv, Held, NotClosing
<1>1. ASSUME NEW n \in Conns,
             PeerSends(n) \/ PeerHangsUp(n) \/ PeerResets(n) \/ TimePasses(n)
      PROVE  NoCloseInv'
    BY <1>1, QuietStep
    DEF PeerSends, PeerHangsUp, PeerResets, TimePasses, kernelVars, connVars, queueVars
<1>2. ASSUME NEW a \in Addrs, NEW f \in Fds, NEW n \in Conns, Accept(a, f, n)
      PROVE  NoCloseInv'
  <2> DEFINE k == <<a, f>>
  <2>1. k \in Keys /\ f # 0 /\ ofd[f] = Nil /\ obj[n] = "none" /\ loop.at = "idle"
    BY <1>2 DEF Accept, Acceptable, Dispatching, Keys, NoCloseInv, DescriptorInv
  <2>2. m_Connections[k] = Nil
    <3> SUFFICES ASSUME m_Connections[k] # Nil PROVE FALSE
        OBVIOUS
    <3> DEFINE o == m_Connections[k]
    <3>1. o \in Conns /\ obj[o] = "live" /\ Key(o) = k
        BY <2>1 DEF NoCloseInv, ManagerInv, TypeInv, TypeOK
    <3>2. ofd[f] = o
        BY <3>1 DEF NoCloseInv, DescriptorInv, Key
    <3> QED
        BY <2>1, <3>1, <3>2
  <2>3. /\ ofd' = [ofd EXCEPT ![f] = n]
        /\ m_Socket' = [m_Socket EXCEPT ![n] = f]
        /\ m_Io' = [m_Io EXCEPT ![n] = "R"]
        /\ obj' = [obj EXCEPT ![n] = "live"]
    BY <1>2, <2>2 DEF Accept, ClosedBy, Zeroed, Stopped, Freed, TypeInv, TypeOK
  <2>4. /\ addr' = [addr EXCEPT ![n] = a]
        /\ fd' = [fd EXCEPT ![n] = f]
        /\ m_Connections' = [m_Connections EXCEPT ![k] = n]
        /\ OnClientConnected(n, k)
        /\ UNCHANGED closing
    BY <1>2 DEF Accept
  <2>5. \A m \in Conns : Key(m)' = IF m = n THEN k ELSE Key(m)
    BY <2>4 DEF Key, TypeInv, TypeOK
  <2> HIDE DEF k
  <2>6. ManagerInv'
    <3>0. \A j \in Keys : m_Connections'[j] = IF j = k THEN n ELSE m_Connections[j]
        BY <2>1, <2>4 DEF TypeInv, TypeOK
    <3>1. ASSUME NEW m \in Conns, obj'[m] = "live" PROVE m_Connections'[Key(m)'] = m
      <4>1. CASE m = n
        BY <2>1, <2>5, <3>0, <4>1
      <4>2. CASE m # n
        <5>1. obj[m] = "live" /\ Key(m)' = Key(m)
            BY <2>3, <2>5, <3>1, <4>2 DEF TypeInv, TypeOK
        <5>2. m_Connections[Key(m)] = m /\ Key(m) \in Keys
            BY <5>1 DEF NoCloseInv, ManagerInv, TypeInv, MadeInv, Made, TypeOK, Key, Keys
        <5> QED
            BY <2>2, <3>0, <5>1, <5>2
      <4> QED
        BY <4>1, <4>2
    <3>2. ASSUME NEW j \in Keys, m_Connections'[j] # Nil
          PROVE  obj'[m_Connections'[j]] = "live" /\ Key(m_Connections[j])' = j
      <4>1. CASE j = k
        BY <2>1, <2>3, <2>4, <2>5, <4>1 DEF TypeInv, TypeOK
      <4>2. CASE j # k
        <5>1. m_Connections'[j] = m_Connections[j] /\ m_Connections[j] \in Conns \ {n}
            BY <2>1, <2>4, <3>2, <4>2 DEF NoCloseInv, ManagerInv, TypeInv, TypeOK
        <5>2. obj[m_Connections[j]] = "live" /\ Key(m_Connections[j]) = j
            BY <3>2, <5>1 DEF NoCloseInv, ManagerInv
        <5>3. \A m : m = m_Connections[j] => Key(m)' = j
            BY <2>5, <5>1, <5>2
        <5> QED
            BY <2>3, <5>1, <5>2, <5>3 DEF TypeInv, TypeOK, Key
      <4> QED
        BY <4>1, <4>2
    <3> QED
        BY <3>1, <3>2 DEF ManagerInv
  <2>7. DescriptorInv'
    BY <2>1, <2>3, <2>4 DEF NoCloseInv, DescriptorInv, TypeInv, TypeOK
  <2>8. CallbackInv'
    BY <2>1, <2>3, <2>4 DEF NoCloseInv, CallbackInv, OnClientConnected, TypeInv, TypeOK
  <2>9. DataFromItsClient'
    BY <2>4 DEF DataFromItsClient, OnClientConnected
  <2>10. CallbacksInTurn'
    BY <2>1, <2>2, <2>4 DEF NoCloseInv, CallbacksInTurn, OnClientConnected, TypeInv, TypeOK
  <2> QED
    BY <2>4, <2>6, <2>7, <2>8, <2>9, <2>10 DEF NoCloseInv
<1>3. ASSUME NEW n \in Conns, ReadData(n) PROVE NoCloseInv'
  <2>1. obj[n] = "live" /\ File(n) = n /\ loop.at = "idle"
    BY <1>3 DEF ReadData, Dispatching, File, NoCloseInv, CallbackInv, DescriptorInv
  <2>2. loop' = [at |-> "data", conn |-> n, src |-> n]
    BY <1>3, <2>1 DEF ReadData, OnClientDataReceived
  <2>3. UNCHANGED <<ofd, addr, obj, fd, m_Socket, m_Io, m_Connections, closing, appVars>>
    BY <1>3 DEF ReadData, OnClientDataReceived
  <2>4. ManagerInv' /\ DescriptorInv'
    BY <2>3 DEF NoCloseInv, ManagerInv, DescriptorInv, Key
  <2>5. CallbackInv' /\ DataFromItsClient'
    BY <2>1, <2>2, <2>3 DEF NoCloseInv, CallbackInv, DataFromItsClient
  <2>6. CallbacksInTurn'
    BY <2>1, <2>2, <2>3 DEF NoCloseInv, CallbacksInTurn, Key, appVars
  <2> QED
    BY <2>3, <2>4, <2>5, <2>6 DEF NoCloseInv
<1>4. ASSUME NEW n \in Conns, ReadEnds(n) \/ IoError(n) \/ WriteFails(n) PROVE NoCloseInv'
  <2>1. obj[n] = "live" /\ loop.at = "idle" /\ OnClientGone(n)
    BY <1>4 DEF ReadEnds, IoError, WriteFails, Dispatching, NoCloseInv, CallbackInv
  <2>2. UNCHANGED <<ofd, addr, obj, fd, m_Socket, m_Connections, closing>>
    BY <1>4 DEF ReadEnds, IoError, WriteFails, kernelVars, connVars
  <2>3. \A m \in Conns : m_Io'[m] # "off" => m_Io[m] # "off"
    BY <1>4 DEF ReadEnds, IoError, WriteFails, connVars, TypeInv, TypeOK
  <2> QED
    BY <2>1, <2>2, <2>3, GoneStep
<1>5. ASSUME NEW n \in Conns, Write(n) PROVE NoCloseInv'
  <2>1. \A m \in Conns : m_Io'[m] # "off" => m_Io[m] # "off"
    BY <1>5 DEF Write, TypeInv, TypeOK
  <2> QED
    BY <1>5, <2>1, QuietStep DEF Write, kernelVars
<1>6. ASSUME NEW n \in Conns, TimerFires(n) PROVE NoCloseInv'
    BY <1>6, GoneStep DEF TimerFires, Dispatching, kernelVars, connVars
<1>7. CASE AsyncCallback
    BY <1>7, QuietStep DEF AsyncCallback, kernelVars, connVars
<1>8. CASE CallbackReturns
  <2>1. loop' = Running /\ loop.at # "gone"
    BY <1>8 DEF CallbackReturns
  <2>2. UNCHANGED <<ofd, addr, obj, fd, m_Socket, m_Io, m_Connections, closing, appVars>>
    BY <1>8 DEF CallbackReturns, kernelVars, connVars
  <2>3. ManagerInv' /\ DescriptorInv'
    BY <2>2 DEF NoCloseInv, ManagerInv, DescriptorInv, Key
  <2>4. CallbackInv' /\ DataFromItsClient'
    BY <2>1, <2>2 DEF NoCloseInv, CallbackInv, DataFromItsClient, Running
  <2>5. CallbacksInTurn'
    BY <2>1, <2>2 DEF NoCloseInv, CallbacksInTurn, Key, Running, appVars
  <2> QED
    BY <2>2, <2>3, <2>4, <2>5 DEF NoCloseInv
<1>9. CASE Unregister
  <2> DEFINE n == loop.conn
             k == Key(n)
  <2>1. n \in Conns /\ obj[n] = "live" /\ k \in Keys /\ m_Connections[k] = n
    BY <1>9 DEF Unregister, TypeInv, TypeOK, MadeInv, Made, NoCloseInv, CallbackInv,
                ManagerInv, Key, Keys
  <2>2. fd[n] # 0 /\ m_Socket[n] = fd[n] /\ ofd[fd[n]] = n
    BY <2>1 DEF NoCloseInv, DescriptorInv
  <2>3. Destroy({n}) /\ m_Connections' = [m_Connections EXCEPT ![k] = Nil]
    BY <1>9, <1>0, <2>1 DEF Unregister
  <2>4. /\ ofd' = [ofd EXCEPT ![fd[n]] = Nil]
        /\ m_Socket' = [m_Socket EXCEPT ![n] = 0]
        /\ m_Io' = [m_Io EXCEPT ![n] = "off"]
        /\ obj' = [obj EXCEPT ![n] = "freed"]
    <3>1. ofd' = [ofd EXCEPT ![fd[n]] = Nil]
      <4>1. ofd' = [f \in Fds |-> IF f > 0 /\ m_Socket[n] = f THEN Nil ELSE ofd[f]]
        BY <2>3 DEF Destroy, ClosedBy
      <4>2. \A f \in Fds : f > 0 /\ m_Socket[n] = f <=> f = fd[n]
        BY <2>1, <2>2 DEF TypeInv, TypeOK
      <4> QED
        BY <4>1, <4>2 DEF TypeInv, TypeOK
    <3>2. /\ m_Socket' = [m_Socket EXCEPT ![n] = 0]
          /\ m_Io' = [m_Io EXCEPT ![n] = "off"]
          /\ obj' = [obj EXCEPT ![n] = "freed"]
        BY <2>1, <2>3 DEF Destroy, Zeroed, Stopped, Freed, TypeInv, TypeOK
    <3> QED
        BY <3>1, <3>2
  <2>5. loop' = Running /\ UNCHANGED <<addr, fd, closing, appVars>>
    BY <1>9 DEF Unregister
  <2>6. \A m : Key(m)' = Key(m)
    BY <2>5 DEF Key
  <2>7. \A m \in Conns : obj[m] = "live" /\ Key(m) = k => m = n
    BY <2>1 DEF NoCloseInv, ManagerInv
  <2>8. ManagerInv'
    BY <2>1, <2>3, <2>4, <2>6, <2>7 DEF NoCloseInv, ManagerInv, TypeInv, TypeOK
  <2>9. DescriptorInv'
    BY <2>1, <2>2, <2>4, <2>5 DEF NoCloseInv, DescriptorInv, TypeInv, TypeOK
  <2>10. CallbackInv' /\ DataFromItsClient'
    BY <2>1, <2>4, <2>5 DEF NoCloseInv, CallbackInv, DataFromItsClient, Running, TypeInv, TypeOK
  <2>11. CallbacksInTurn'
    BY <1>9, <2>1, <2>3, <2>5, <2>6
    DEF Unregister, NoCloseInv, CallbacksInTurn, Running, appVars, TypeInv, TypeOK
  <2> QED
    BY <2>5, <2>8, <2>9, <2>10, <2>11 DEF NoCloseInv
<1>10. CASE SendDropped
    BY <1>10, QuietStep DEF SendDropped, kernelVars, connVars
<1>11. CASE SendQueued
  <2>1. \A m \in Conns : m_Io'[m] # "off" => m_Io[m] # "off"
    BY <1>11 DEF SendQueued, TypeInv, TypeOK
  <2> QED
    BY <1>11, <2>1, QuietStep DEF SendQueued, kernelVars
<1>12. CASE SendOverflows
  <2> DEFINE n == m_Connections[Head(batch)]
  <2>1. Head(batch) \in Keys
    BY <1>12 DEF SendOverflows, TypeInv, TypeOK
  <2>2. n \in Conns /\ obj[n] = "live" /\ loop.at = "idle" /\ OnClientGone(n)
    BY <1>12, <2>1 DEF SendOverflows, TypeInv, TypeOK, NoCloseInv, ManagerInv
  <2> QED
    BY <1>12, <2>2, GoneStep DEF SendOverflows, kernelVars, connVars
<1>13. ASSUME NEW k, Send(k) PROVE NoCloseInv'
    BY <1>13, QuietStep DEF Send, kernelVars, connVars
<1>14. ASSUME NEW t \in Threads PROVE ~CloseClient(t)
    BY DEF CloseClient, CloseGet, CloseShutdown, CloseSkipped, CloseFd, CloseZero,
           CloseRelease, NoCloseInv, NotClosing
<1>15. CASE UNCHANGED vars
    BY <1>15, QuietStep DEF vars, kernelVars, connVars, appVars
<1> QED
    BY <1>1, <1>2, <1>3, <1>4, <1>5, <1>6, <1>7, <1>8, <1>9, <1>10, <1>11, <1>12, <1>13,
       <1>14, <1>15
    DEF Next, Environment, Events, InCallback

LEMMA NoCloseCorrect ==
    ASSUME Closers = {}
    PROVE  Spec => []NoCloseInv
<1>1. Init => NoCloseInv
    BY NamesAssumption, FdsAssumption
    DEF Init, NoCloseInv, ManagerInv, DescriptorInv, CallbackInv, DataFromItsClient,
        CallbacksInTurn, Running, Keys
<1>2. TypeInv /\ NoCloseInv /\ [Next]_vars => NoCloseInv'
    BY NoCloseStep
<1> QED
    BY <1>1, <1>2, InitType, TypeStep, PTL DEF Spec

\* Where nobody calls CloseClient, the data of OnClientDataReceived comes from the client
\* it names: recv on watcher.fd reads the socket the watcher was made for.
THEOREM NoClose ==
    ASSUME Closers = {}
    PROVE  Spec => []DataFromItsClient
<1>1. NoCloseInv => DataFromItsClient
    BY DEF NoCloseInv
<1> QED
    BY <1>1, NoCloseCorrect, PTL

\* Where nobody calls CloseClient, OnClientConnected and OnClientDisconnected alternate for
\* every client, and Send finds the client in the manager between them and only then.
THEOREM InTurn ==
    ASSUME Closers = {}
    PROVE  Spec => []CallbacksInTurn
<1>1. NoCloseInv => CallbacksInTurn
    BY DEF NoCloseInv
<1> QED
    BY <1>1, NoCloseCorrect, PTL

-----------------------------------------------------------------------------
(* With one thread that calls CloseClient. *)

\* The part of the invariant that the steps establish.
CloseFacts == ReferenceInv /\ CallInv /\ FileInv

\* A step that leaves the objects, their descriptors and the calls of CloseClient alone.
LEMMA CloseQuiet ==
    ASSUME CloseInv, UNCHANGED <<ofd, addr, obj, fd, m_Socket, m_Connections, closing>>
    PROVE  CloseFacts'
BY DEF CloseInv, CloseFacts, ReferenceInv, CallInv, FileInv, OwnDescriptor, Registered, Held, Key

\* The destructor closes the descriptors of the objects it destroys and of no other, when
\* each of them still owns the one in its m_Socket.
LEMMA FileDestroy ==
    ASSUME TypeInv, FileInv, NEW D \in SUBSET Conns, Destroy(D),
           \A n \in D : m_Socket[n] > 0 => ofd[m_Socket[n]] = n,
           \A n \in Conns, t \in Threads :
               closing[t].conn = n /\ closing[t].at = "closed"
               => closing'[t].conn = n /\ closing'[t].at = "closed"
    PROVE  FileInv'
<1> USE FdsAssumption, NamesAssumption DEF TypeInv, TypeOK
<1>1. /\ ofd' = [f \in Fds |-> IF f > 0 /\ \E n \in D : m_Socket[n] = f THEN Nil ELSE ofd[f]]
      /\ m_Socket' = [n \in Conns |-> IF n \in D THEN 0 ELSE m_Socket[n]]
      /\ obj' = [n \in Conns |-> IF n \in D THEN "freed" ELSE obj[n]]
    BY DEF Destroy, ClosedBy, Zeroed, Freed
<1>2. ofd'[0] = Std
    BY <1>1 DEF FileInv
<1>3. ASSUME NEW f \in Fds, ofd'[f] \in Conns
      PROVE  obj'[ofd'[f]] = "live" /\ m_Socket'[ofd'[f]] = f
  <2>0. f > 0
    BY <1>2, <1>3
  <2>1. ofd'[f] = ofd[f] /\ ~\E n \in D : m_Socket[n] = f
    BY <1>1, <1>3, <2>0
  <2>2. ofd[f] \notin D
    BY <1>3, <2>1 DEF FileInv
  <2> QED
    BY <1>1, <1>3, <2>1, <2>2 DEF FileInv
<1>4. ASSUME NEW n \in Conns, m_Socket'[n] > 0
      PROVE  /\ obj'[n] = "live"
             /\ \/ ofd'[m_Socket'[n]] = n
                \/ \E t \in Threads : closing'[t].conn = n /\ closing'[t].at = "closed"
  <2>1. n \notin D /\ m_Socket'[n] = m_Socket[n] /\ obj'[n] = "live"
    BY <1>1, <1>4 DEF FileInv
  <2>2. CASE ofd[m_Socket[n]] = n
    BY <1>1, <1>4, <2>1, <2>2
  <2>3. CASE \E t \in Threads : closing[t].conn = n /\ closing[t].at = "closed"
    BY <2>1, <2>3
  <2> QED
    BY <1>4, <2>1, <2>2, <2>3 DEF FileInv, OwnDescriptor
<1> QED
    BY <1>2, <1>3, <1>4 DEF FileInv, OwnDescriptor

\* A call of CloseClient that begins or moves on changes no reference but its own.
LEMMA CallMoves ==
    ASSUME TypeInv, CloseInv, NEW t \in Threads, NEW call,
           closing' = [closing EXCEPT ![t] = call],
           call.at # "none", obj[call.conn] = "live",
           closing[t] = NotClosing \/ closing[t].conn = call.conn,
           UNCHANGED <<addr, obj, fd, m_Connections>>
    PROVE  /\ ReferenceInv'
           /\ \A u \in Threads : closing'[u] = IF u = t THEN call ELSE closing[u]
<1>1. \A u \in Threads : closing'[u] = IF u = t THEN call ELSE closing[u]
    BY DEF TypeInv, TypeOK
<1>2. ASSUME NEW n \in Conns, Held(n) PROVE Held(n)'
    BY <1>1, <1>2, NamesAssumption DEF Held, NotClosing
<1>3. ASSUME NEW n \in Conns, obj'[n] = "live" PROVE Registered(n)' \/ Held(n)'
    BY <1>2, <1>3 DEF CloseInv, ReferenceInv, Registered, Key
<1>4. \A k \in Keys : m_Connections'[k] # Nil => /\ obj'[m_Connections'[k]] = "live"
                                                 /\ Key(m_Connections[k])' = k
    BY DEF CloseInv, ReferenceInv, Key
<1>5. \A u \in Threads : closing'[u] # NotClosing => obj'[closing'[u].conn] = "live"
    BY <1>1 DEF CloseInv, ReferenceInv
<1> QED
    BY <1>1, <1>3, <1>4, <1>5 DEF ReferenceInv

\* Every step keeps the invariant when the calls of CloseClient for one client do not overlap.
LEMMA CloseStep == TypeInv /\ CloseInv /\ [Next]_vars => CloseFacts'
<1> SUFFICES ASSUME TypeInv, CloseInv, [Next]_vars PROVE CloseFacts'
    OBVIOUS
<1> USE FdsAssumption, NamesAssumption DEF CloseFacts
<1>1. ASSUME NEW t \in Threads, NEW u \in Threads, closing[t].at # "none",
             closing[u].conn = closing[t].conn
      PROVE  u = t
  <2>1. closing[t] # NotClosing
    BY <1>1 DEF NotClosing
  <2> QED
    BY <1>1, <2>1 DEF CloseInv, OneCallPerClient
<1>2. ASSUME NEW a \in Addrs, NEW f \in Fds, NEW n \in Conns, Accept(a, f, n)
      PROVE  CloseFacts'
  <2> DEFINE k == <<a, f>>
             o == m_Connections[k]
             D == IF o # Nil /\ ~Held(o) THEN {o} ELSE {}
  <2>1. /\ k \in Keys /\ f > 0 /\ ofd[f] = Nil /\ obj[n] = "none"
        /\ UNCHANGED closing
    BY <1>2 DEF Accept, Acceptable, Keys, CloseInv, FileInv
  <2>2. ASSUME NEW m \in D
        PROVE  /\ m = o /\ m \in Conns /\ obj[m] = "live" /\ m # n /\ ~Held(m)
               /\ m_Socket[m] > 0 => ofd[m_Socket[m]] = m
    <3>1. m = o /\ m \in Conns /\ obj[m] = "live" /\ ~Held(m)
        BY <2>1, <2>2 DEF CloseInv, ReferenceInv, TypeInv, TypeOK
    <3> QED
        BY <2>1, <3>1 DEF CloseInv, FileInv, OwnDescriptor, Held
  <2>3. /\ ofd' = [g \in Fds |-> IF g > 0 /\ \E m \in D : m_Socket[m] = g THEN Nil
                                ELSE IF g = f THEN n ELSE ofd[g]]
        /\ m_Socket' = [m \in Conns |-> IF m = n THEN f ELSE IF m \in D THEN 0 ELSE m_Socket[m]]
        /\ obj' = [m \in Conns |-> IF m = n THEN "live" ELSE IF m \in D THEN "freed" ELSE obj[m]]
        /\ m_Connections' = [m_Connections EXCEPT ![k] = n]
    <3> HIDE DEF D
    <3>1. /\ ofd' = ClosedBy(D, [ofd EXCEPT ![f] = n])
          /\ m_Socket' = [Zeroed(D) EXCEPT ![n] = f]
          /\ obj' = [Freed(D) EXCEPT ![n] = "live"]
          /\ m_Connections' = [m_Connections EXCEPT ![k] = n]
        BY <1>2 DEF Accept, D
    <3> QED
        BY <3>1 DEF ClosedBy, Zeroed, Freed, TypeInv, TypeOK
  <2>4. ASSUME NEW m \in Conns PROVE Key(m)' = IF m = n THEN k ELSE Key(m)
    BY <1>2 DEF Accept, Key, TypeInv, TypeOK
  <2>5. ~\E m \in D : m_Socket[m] = f
    BY <2>1, <2>2, <2>3
  <2> HIDE DEF k
  <2>6. ReferenceInv'
    <3>1. ASSUME NEW m \in Conns, obj'[m] = "live"
          PROVE  m_Connections'[Key(m)'] = m \/ Held(m)'
      <4>1. CASE m = n
        BY <2>1, <2>3, <2>4, <4>1 DEF TypeInv, TypeOK
      <4>2. CASE m # n
        <5>1. obj[m] = "live" /\ m \notin D /\ Key(m)' = Key(m)
            BY <2>3, <2>4, <3>1, <4>2
        <5>2. Key(m) \in Keys
            BY <5>1 DEF TypeInv, TypeOK, MadeInv, Made, Key, Keys
        <5>3. CASE Held(m)
            BY <2>1, <5>3 DEF Held
        <5>4. CASE ~Held(m)
          <6>1. m_Connections[Key(m)] = m
            BY <5>1, <5>4 DEF CloseInv, ReferenceInv, Registered
          <6>2. Key(m) # k
            BY <2>1, <5>1, <5>4, <6>1 DEF TypeInv, TypeOK
          <6> QED
            BY <2>1, <2>3, <5>1, <5>2, <6>1, <6>2 DEF TypeInv, TypeOK
        <5> QED
            BY <5>3, <5>4
      <4> QED
        BY <4>1, <4>2
    <3>2. ASSUME NEW j \in Keys, m_Connections'[j] # Nil
          PROVE  obj'[m_Connections'[j]] = "live" /\ Key(m_Connections[j])' = j
      <4>1. CASE j = k
        BY <2>1, <2>3, <2>4, <4>1 DEF TypeInv, TypeOK
      <4>2. CASE j # k
        <5>1. m_Connections'[j] = m_Connections[j] /\ m_Connections[j] \in Conns
            BY <2>1, <2>3, <3>2, <4>2 DEF TypeInv, TypeOK
        <5>2. obj[m_Connections[j]] = "live" /\ Key(m_Connections[j]) = j
            BY <3>2, <5>1 DEF CloseInv, ReferenceInv
        <5>3. m_Connections[j] # n /\ m_Connections[j] \notin D
          <6>1. o # Nil => Key(o) = k
            BY <2>1 DEF CloseInv, ReferenceInv
          <6> QED
            BY <2>1, <2>2, <4>2, <5>2, <6>1
        <5>4. \A m : m = m_Connections[j] => Key(m)' = j
            BY <2>4, <5>1, <5>2, <5>3
        <5> QED
            BY <2>3, <5>1, <5>2, <5>3, <5>4 DEF Key
      <4> QED
        BY <4>1, <4>2
    <3>3. ASSUME NEW t \in Threads, closing'[t] # NotClosing
          PROVE  obj'[closing'[t].conn] = "live"
      <4>1. closing[t].at # "none" /\ obj[closing[t].conn] = "live" /\ Held(closing[t].conn)
        BY <2>1, <3>3 DEF CloseInv, ReferenceInv, CallInv, Held
      <4>2. closing[t].conn \in Conns
        BY <4>1 DEF TypeInv, MadeInv, Made
      <4> QED
        BY <2>1, <2>2, <2>3, <4>1, <4>2
    <3> QED
        BY <2>3, <3>1, <3>2, <3>3 DEF ReferenceInv, Registered
  <2>7. CallInv'
    <3>1. ASSUME NEW t \in Threads, closing[t].at # "none"
          PROVE  LET c == closing[t].conn IN
                 /\ c \in Conns /\ m_Socket'[c] = m_Socket[c]
                 /\ ofd[m_Socket[c]] # c => ofd'[m_Socket[c]] # c
      <4>1. closing[t].conn \in Conns /\ obj[closing[t].conn] = "live" /\ Held(closing[t].conn)
        BY <3>1 DEF CloseInv, ReferenceInv, Held, NotClosing, TypeInv, MadeInv, Made
      <4>2. m_Socket[closing[t].conn] \in Fds /\ closing[t].conn # n
        BY <2>1, <4>1 DEF TypeInv, TypeOK
      <4> QED
        BY <2>1, <2>2, <2>3, <4>1, <4>2
    <3> QED
        BY <2>1, <3>1 DEF CloseInv, CallInv
  <2>8. FileInv'
    <3>1. ofd'[0] = Std
        BY <2>1, <2>3 DEF CloseInv, FileInv
    <3>2. ASSUME NEW g \in Fds, ofd'[g] \in Conns
          PROVE  obj'[ofd'[g]] = "live" /\ m_Socket'[ofd'[g]] = g
      <4>1. CASE g = f
        BY <2>1, <2>3, <2>5, <4>1
      <4>2. CASE g # f
        <5>1. g > 0
            BY <3>1, <3>2
        <5>2. ofd'[g] = ofd[g] /\ ~\E m \in D : m_Socket[m] = g
            BY <2>3, <3>2, <4>2, <5>1
        <5>3. obj[ofd[g]] = "live" /\ m_Socket[ofd[g]] = g /\ ofd[g] \notin D /\ ofd[g] # n
            BY <2>1, <3>2, <5>2 DEF CloseInv, FileInv
        <5> QED
            BY <2>3, <3>2, <5>2, <5>3
      <4> QED
        BY <4>1, <4>2
    <3>3. ASSUME NEW m \in Conns, m_Socket'[m] > 0
          PROVE  /\ obj'[m] = "live"
                 /\ \/ ofd'[m_Socket'[m]] = m
                    \/ \E t \in Threads : closing'[t].conn = m /\ closing'[t].at = "closed"
      <4>1. CASE m = n
        BY <2>1, <2>3, <2>5, <4>1
      <4>2. CASE m # n
        <5>1. m \notin D /\ m_Socket'[m] = m_Socket[m] /\ obj'[m] = "live"
            BY <2>3, <3>3, <4>2 DEF CloseInv, FileInv
        <5>2. CASE ofd[m_Socket[m]] = m
          <6>1. ~\E d \in D : m_Socket[d] = m_Socket[m]
            BY <2>2, <3>3, <5>1, <5>2
          <6>2. m_Socket[m] # f /\ m_Socket[m] \in Fds
            BY <2>1, <5>2 DEF TypeInv, TypeOK
          <6> QED
            BY <2>3, <5>1, <5>2, <6>1, <6>2
        <5>3. CASE \E t \in Threads : closing[t].conn = m /\ closing[t].at = "closed"
            BY <2>1, <5>1, <5>3
        <5> QED
            BY <3>3, <5>1, <5>2, <5>3 DEF CloseInv, FileInv, OwnDescriptor
      <4> QED
        BY <4>1, <4>2
    <3> QED
        BY <3>1, <3>2, <3>3 DEF FileInv, OwnDescriptor
  <2> QED
    BY <2>6, <2>7, <2>8 DEF CloseInv

<1>3. CASE Unregister
  <2> DEFINE k == Key(loop.conn)
             o == m_Connections[k]
             D == IF o # Nil /\ ~Held(o) THEN {o} ELSE {}
  <2>1. /\ k \in Keys /\ Destroy(D) /\ m_Connections' = [m_Connections EXCEPT ![k] = Nil]
        /\ UNCHANGED <<addr, fd, closing>>
    BY <1>3 DEF Unregister, TypeInv, TypeOK, MadeInv, Made, Key, Keys
  <2>2. ASSUME NEW m \in D
        PROVE  /\ m = o /\ m \in Conns /\ ~Held(m)
               /\ m_Socket[m] > 0 => ofd[m_Socket[m]] = m
    <3>1. m = o /\ m \in Conns /\ ~Held(m)
        BY <2>1, <2>2 DEF TypeInv, TypeOK
    <3> QED
        BY <3>1 DEF CloseInv, FileInv, OwnDescriptor, Held
  <2>3. /\ m_Socket' = [m \in Conns |-> IF m \in D THEN 0 ELSE m_Socket[m]]
        /\ obj' = [m \in Conns |-> IF m \in D THEN "freed" ELSE obj[m]]
    BY <2>1 DEF Destroy, Zeroed, Freed
  <2>4. \A m : Key(m)' = Key(m)
    BY <2>1 DEF Key
  <2>5. o # Nil => obj[o] = "live" /\ Key(o) = k
    BY <2>1 DEF CloseInv, ReferenceInv
  <2>6. o # Nil /\ ~Held(o) => o \in D
    OBVIOUS
  <2> HIDE DEF k, D
  <2>7. ReferenceInv'
    <3>1. ASSUME NEW m \in Conns, obj'[m] = "live" PROVE m_Connections'[Key(m)'] = m \/ Held(m)'
      <4>1. obj[m] = "live" /\ m \notin D /\ Key(m) \in Keys
        BY <2>3, <3>1 DEF TypeInv, TypeOK, MadeInv, Made, Key, Keys
      <4>2. CASE Held(m)
        BY <2>1, <4>2 DEF Held
      <4>3. CASE ~Held(m)
        <5>1. m_Connections[Key(m)] = m
            BY <4>1, <4>3 DEF CloseInv, ReferenceInv, Registered
        <5>2. Key(m) # k
            BY <2>6, <4>1, <4>3, <5>1
        <5> QED
            BY <2>1, <2>4, <4>1, <5>1, <5>2 DEF TypeInv, TypeOK
      <4> QED
        BY <4>2, <4>3
    <3>2. ASSUME NEW j \in Keys, m_Connections'[j] # Nil
          PROVE  obj'[m_Connections'[j]] = "live" /\ Key(m_Connections'[j]) = j
      <4>1. j # k /\ m_Connections'[j] = m_Connections[j] /\ m_Connections[j] \in Conns
        BY <2>1, <3>2 DEF TypeInv, TypeOK
      <4>2. obj[m_Connections[j]] = "live" /\ Key(m_Connections[j]) = j
        BY <3>2, <4>1 DEF CloseInv, ReferenceInv
      <4>3. m_Connections[j] \notin D
        BY <2>2, <2>5, <4>1, <4>2
      <4> QED
        BY <2>3, <4>1, <4>2, <4>3
    <3>3. ASSUME NEW t \in Threads, closing'[t] # NotClosing
          PROVE  obj'[closing'[t].conn] = "live"
      <4>1. /\ closing[t].conn \in Conns /\ obj[closing[t].conn] = "live"
            /\ Held(closing[t].conn)
        BY <2>1, <3>3 DEF CloseInv, ReferenceInv, CallInv, Held, TypeInv, MadeInv, Made
      <4> QED
        BY <2>1, <2>2, <2>3, <4>1
    <3>4. \A j \in Keys : m_Connections'[j] # Nil => Key(m_Connections[j])' = j
      <4>1. \A m : Key(m') = Key(m)'
        BY <2>1 DEF Key
      <4> QED
        BY <2>1, <2>4, <3>2 DEF Key
    <3> QED
        BY <3>1, <3>2, <3>3, <3>4 DEF ReferenceInv, Registered
  <2>8. CallInv'
    <3>1. ASSUME NEW t \in Threads, closing[t].at # "none"
          PROVE  LET c == closing[t].conn IN
                 /\ c \in Conns /\ m_Socket'[c] = m_Socket[c]
                 /\ ofd[m_Socket[c]] # c => ofd'[m_Socket[c]] # c
      <4>1. closing[t].conn \in Conns /\ Held(closing[t].conn)
        BY <3>1 DEF Held, TypeInv, MadeInv, Made
      <4>2. m_Socket[closing[t].conn] \in Fds
        BY <4>1 DEF TypeInv, TypeOK
      <4>3. \A f \in Fds : ofd'[f] \in {Nil, ofd[f]}
        BY <2>1 DEF Destroy, ClosedBy
      <4> QED
        BY <2>2, <2>3, <4>1, <4>2, <4>3
    <3> QED
        BY <2>1, <3>1 DEF CloseInv, CallInv
  <2>9. FileInv'
    BY <2>1, <2>2, FileDestroy DEF CloseInv
  <2> QED
    BY <2>7, <2>8, <2>9 DEF CloseInv
<1>4. ASSUME NEW t \in Threads, NEW k \in Keys, CloseGet(t, k) PROVE CloseFacts'
  <2> DEFINE call == [at |-> "got", conn |-> m_Connections[k], sock |-> 0]
  <2>1. /\ t \in Closers /\ closing[t] = NotClosing
        /\ closing' = [closing EXCEPT ![t] = call]
        /\ UNCHANGED <<ofd, m_Socket>> /\ UNCHANGED <<addr, obj, fd, m_Connections>>
    BY <1>4 DEF CloseGet, kernelVars, connVars
  <2>2. /\ call.at = "got" /\ call.at # "none" /\ obj[call.conn] = "live"
        /\ closing[t] = NotClosing \/ closing[t].conn = call.conn
    BY <1>4 DEF CloseGet, CloseInv, ReferenceInv
  <2> HIDE DEF call
  <2>3. /\ ReferenceInv'
        /\ \A u \in Threads : closing'[u] = IF u = t THEN call ELSE closing[u]
    BY ONLY TypeInv, CloseInv, t \in Threads, <2>1, <2>2, CallMoves
  <2>4. CallInv'
    BY <2>1, <2>2, <2>3 DEF CloseInv, CallInv
  <2>5. FileInv'
    BY <2>1, <2>3 DEF CloseInv, FileInv, OwnDescriptor, NotClosing
  <2> QED
    BY <2>3, <2>4, <2>5 DEF CloseInv
<1>5. ASSUME NEW t \in Threads,
             CloseShutdown(t) \/ CloseSkipped(t) \/ CloseFd(t) \/ CloseZero(t)
      PROVE  CloseFacts'
  <2> DEFINE n == closing[t].conn
  <2>1. /\ closing[t].at # "none" /\ closing[t] # NotClosing /\ t \in Closers
        /\ n \in Conns /\ obj[n] = "live" /\ m_Socket[n] \in Fds
    BY <1>5 DEF CloseShutdown, CloseSkipped, CloseFd, CloseZero, NotClosing, CloseInv,
                ReferenceInv, CallInv, TypeInv, TypeOK, MadeInv, Made
  <2>2. \A u \in Threads : closing[u].conn = n => u = t
    BY <1>1, <2>1
  <2>3. UNCHANGED <<addr, obj, fd, m_Connections>>
    BY <1>5 DEF CloseShutdown, CloseSkipped, CloseFd, CloseZero, kernelVars, connVars
  <2> HIDE DEF n
  <2>4. CASE CloseShutdown(t)
    <3> DEFINE call == [at |-> "shut", conn |-> n, sock |-> m_Socket[n]]
    <3>1. /\ closing[t].at = "got" /\ m_Socket[n] > 0
          /\ closing' = [closing EXCEPT ![t] = call]
          /\ call.at = "shut" /\ call.conn = n /\ call.sock = m_Socket[n]
          /\ UNCHANGED <<ofd, m_Socket>>
        BY <2>4 DEF CloseShutdown, connVars, n
    <3> HIDE DEF call
    <3>2. /\ ReferenceInv'
          /\ \A u \in Threads : closing'[u] = IF u = t THEN call ELSE closing[u]
      <4>1. call.at # "none" /\ obj[call.conn] = "live" /\ closing[t].conn = call.conn
        BY <2>1, <3>1 DEF n
      <4> QED
        BY ONLY TypeInv, CloseInv, t \in Threads, <2>3, <3>1, <4>1, CallMoves
    <3>3. CallInv'
        BY <2>1, <3>1, <3>2 DEF CloseInv, CallInv, NotClosing
    <3>4. FileInv'
        BY <2>3, <3>1, <3>2 DEF CloseInv, FileInv, OwnDescriptor
    <3> QED
        BY <3>2, <3>3, <3>4 DEF CloseInv
  <2>5. CASE CloseSkipped(t)
    <3> DEFINE call == [closing[t] EXCEPT !.at = "done"]
    <3>1. /\ closing[t].at = "got" /\ m_Socket[n] = 0
          /\ closing' = [closing EXCEPT ![t] = call]
          /\ call.at = "done" /\ call.conn = n
          /\ UNCHANGED <<ofd, m_Socket>>
        BY <2>5 DEF CloseSkipped, kernelVars, connVars, n, TypeInv, TypeOK
    <3> HIDE DEF call
    <3>2. /\ ReferenceInv'
          /\ \A u \in Threads : closing'[u] = IF u = t THEN call ELSE closing[u]
      <4>1. call.at # "none" /\ obj[call.conn] = "live" /\ closing[t].conn = call.conn
        BY <2>1, <3>1 DEF n
      <4> QED
        BY ONLY TypeInv, CloseInv, t \in Threads, <2>3, <3>1, <4>1, CallMoves
    <3>3. CallInv'
        BY <2>1, <3>1, <3>2 DEF CloseInv, CallInv, NotClosing
    <3>4. FileInv'
        BY <2>3, <3>1, <3>2 DEF CloseInv, FileInv, OwnDescriptor
    <3> QED
        BY <3>2, <3>3, <3>4 DEF CloseInv
  <2>6. CASE CloseFd(t)
    <3> DEFINE call == [closing[t] EXCEPT !.at = "closed"]
               f == m_Socket[n]
    <3>1. /\ closing[t].at = "shut" /\ f > 0 /\ closing[t].sock = f
          /\ closing' = [closing EXCEPT ![t] = call]
          /\ call.at = "closed" /\ call.conn = n
          /\ UNCHANGED m_Socket
        BY <2>6 DEF CloseFd, connVars, n, CloseInv, CallInv, TypeInv, TypeOK
    <3>2. ofd' = [ofd EXCEPT ![f] = Nil]
        BY <2>6, <3>1 DEF CloseFd, n
    <3> HIDE DEF call, f
    <3>3. /\ ReferenceInv'
          /\ \A u \in Threads : closing'[u] = IF u = t THEN call ELSE closing[u]
        BY <2>1, <2>3, <3>1, CallMoves DEF n
    <3>4. CallInv'
      <4>1. ofd'[m_Socket'[n]] # n
        BY <2>1, <3>1, <3>2 DEF TypeInv, TypeOK, f
      <4>2. ASSUME NEW u \in Threads, u # t, closing[u].at = "closed"
            PROVE  ofd'[m_Socket[closing[u].conn]] # closing[u].conn
        <5>1. /\ closing[u].conn \in Conns
              /\ ofd[m_Socket[closing[u].conn]] # closing[u].conn
            BY <4>2 DEF CloseInv, CallInv, TypeInv, MadeInv, Made
        <5>2. m_Socket[closing[u].conn] \in Fds
            BY <5>1 DEF TypeInv, TypeOK
        <5> QED
            BY <3>2, <5>1, <5>2 DEF TypeInv, TypeOK
      <4> QED
        BY <2>1, <3>1, <3>3, <4>1, <4>2 DEF CloseInv, CallInv, NotClosing
    <3>5. ASSUME NEW m \in Conns, m_Socket[m] > 0
          PROVE  \/ ofd'[m_Socket[m]] = m
                 \/ \E u \in Threads : closing'[u].conn = m /\ closing'[u].at = "closed"
      <4>1. CASE m = n
        BY <3>1, <3>3, <4>1
      <4>2. CASE m # n /\ \E u \in Threads : closing[u].conn = m /\ closing[u].at = "closed"
        BY <3>1, <3>3, <4>2
      <4>3. CASE m # n /\ ofd[m_Socket[m]] = m
        <5>1. ofd[f] = n
            BY <2>1, <2>2, <3>1 DEF CloseInv, FileInv, OwnDescriptor, f
        <5> QED
            BY <2>1, <3>2, <4>3, <5>1 DEF TypeInv, TypeOK, f
      <4> QED
        BY <3>5, <4>1, <4>2, <4>3 DEF CloseInv, FileInv, OwnDescriptor
    <3>6. FileInv'
      <4>1. OwnDescriptor'
        BY <3>1, <3>3, <3>5 DEF OwnDescriptor
      <4> QED
        BY <2>1, <2>3, <3>1, <3>2, <4>1 DEF CloseInv, FileInv, TypeInv, TypeOK, f
    <3> QED
        BY <3>3, <3>4, <3>6 DEF CloseInv
  <2>7. CASE CloseZero(t)
    <3> DEFINE call == [closing[t] EXCEPT !.at = "done"]
    <3>1. /\ closing[t].at = "closed" /\ m_Socket' = [m_Socket EXCEPT ![n] = 0]
          /\ closing' = [closing EXCEPT ![t] = call]
          /\ call.at = "done" /\ call.conn = n
          /\ UNCHANGED ofd
        BY <2>7 DEF CloseZero, kernelVars, n, TypeInv, TypeOK
    <3> HIDE DEF call
    <3>2. /\ ReferenceInv'
          /\ \A u \in Threads : closing'[u] = IF u = t THEN call ELSE closing[u]
      <4>1. call.at # "none" /\ obj[call.conn] = "live" /\ closing[t].conn = call.conn
        BY <2>1, <3>1 DEF n
      <4> QED
        BY ONLY TypeInv, CloseInv, t \in Threads, <2>3, <3>1, <4>1, CallMoves
    <3>3. CallInv'
      <4>1. m_Socket'[n] = 0
        BY <2>1, <3>1 DEF TypeInv, TypeOK
      <4>2. \A m : m # n => m_Socket'[m] = m_Socket[m]
        BY <2>1, <3>1 DEF TypeInv, TypeOK
      <4>3. \A u \in Threads : u # t => closing[u].conn # n
        BY <2>2
      <4> QED
        BY <2>1, <3>1, <3>2, <4>1, <4>2, <4>3 DEF CloseInv, CallInv, NotClosing
    <3>4. FileInv'
      <4>1. ASSUME NEW m \in Conns, m_Socket'[m] > 0
            PROVE  /\ m_Socket'[m] = m_Socket[m]
                   /\ \/ ofd[m_Socket[m]] = m
                      \/ \E u \in Threads : closing'[u].conn = m /\ closing'[u].at = "closed"
        <5>1. m # n /\ m_Socket'[m] = m_Socket[m]
            BY <2>1, <3>1, <4>1 DEF TypeInv, TypeOK
        <5>2. ASSUME NEW u \in Threads, closing[u].conn = m, closing[u].at = "closed"
              PROVE  closing'[u].conn = m /\ closing'[u].at = "closed"
            BY <3>2, <5>1, <5>2 DEF n
        <5> QED
            BY <4>1, <5>1, <5>2 DEF CloseInv, FileInv, OwnDescriptor
      <4>2. \A f \in Fds : ofd[f] # n
        BY <2>1, <3>1 DEF CloseInv, CallInv, FileInv, n
      <4>3. ASSUME NEW f \in Fds, ofd'[f] \in Conns
            PROVE  obj'[ofd'[f]] = "live" /\ m_Socket'[ofd'[f]] = f
        BY <2>3, <3>1, <4>2, <4>3 DEF CloseInv, FileInv, TypeInv, TypeOK
      <4> QED
        BY <2>3, <3>1, <4>1, <4>3 DEF CloseInv, FileInv, OwnDescriptor
    <3> QED
        BY <3>2, <3>3, <3>4 DEF CloseInv
  <2> QED
    BY <1>5, <2>4, <2>5, <2>6, <2>7
<1>6. ASSUME NEW t \in Threads, CloseRelease(t) PROVE CloseFacts'
  <2> DEFINE n == closing[t].conn
             D == IF Registered(n) \/ \E u \in Threads \ {t} : closing[u].conn = n
                  THEN {} ELSE {n}
  <2>1. /\ closing[t].at = "done" /\ n \in Conns /\ obj[n] = "live" /\ m_Socket[n] = 0
        /\ Destroy(D) /\ closing' = [closing EXCEPT ![t] = NotClosing]
        /\ UNCHANGED <<addr, fd, m_Connections>>
    BY <1>6 DEF CloseRelease, NotClosing, CloseInv, ReferenceInv, CallInv, TypeInv, MadeInv, Made
  <2>2. \A u \in Threads : u # t => closing[u].conn # n
    BY <1>1, <2>1
  <2>3. /\ D \in SUBSET Conns /\ \A m \in D : m = n /\ ~Registered(n)
        /\ ~Registered(n) => n \in D
    BY <2>1, <2>2
  <2> HIDE DEF n, D
  <2>4. /\ m_Socket' = [m \in Conns |-> IF m \in D THEN 0 ELSE m_Socket[m]]
        /\ obj' = [m \in Conns |-> IF m \in D THEN "freed" ELSE obj[m]]
        /\ \A u \in Threads : closing'[u] = IF u = t THEN NotClosing ELSE closing[u]
    BY <2>1 DEF Destroy, Zeroed, Freed, TypeInv, TypeOK
  <2>5. \A m : Key(m)' = Key(m)
    BY <2>1 DEF Key
  <2>6. ReferenceInv'
    <3>1. ASSUME NEW m \in Conns, obj'[m] = "live"
          PROVE  m_Connections'[Key(m)'] = m \/ Held(m)'
      <4>1. obj[m] = "live" /\ m \notin D
        BY <2>4, <3>1
      <4>2. CASE m = n
        BY <2>1, <2>3, <2>5, <4>1, <4>2 DEF Registered
      <4>3. CASE m # n
        <5>1. CASE Held(m)
          <6>1. PICK u \in Threads : closing[u].conn = m
            BY <5>1 DEF Held
          <6>2. u # t
            BY <4>3, <6>1 DEF n
          <6> QED
            BY <2>4, <6>1, <6>2 DEF Held
        <5>2. CASE ~Held(m)
            BY <2>1, <2>5, <4>1, <5>2 DEF CloseInv, ReferenceInv, Registered
        <5> QED
            BY <5>1, <5>2
      <4> QED
        BY <4>2, <4>3
    <3>2. ASSUME NEW k \in Keys, m_Connections'[k] # Nil
          PROVE  obj'[m_Connections'[k]] = "live" /\ Key(m_Connections[k])' = k
      <4>1. /\ obj[m_Connections[k]] = "live" /\ Key(m_Connections[k]) = k
            /\ m_Connections[k] \in Conns
        BY <2>1, <3>2 DEF CloseInv, ReferenceInv, TypeInv, TypeOK
      <4>2. m_Connections[k] \notin D
        BY <2>3, <4>1 DEF Registered
      <4>3. \A m : m = m_Connections[k] => Key(m)' = k
        BY <2>5, <4>1
      <4> QED
        BY <2>1, <2>4, <4>1, <4>2, <4>3 DEF Key
    <3>3. ASSUME NEW u \in Threads, closing'[u] # NotClosing
          PROVE  obj'[closing'[u].conn] = "live"
      <4>1. /\ u # t /\ closing'[u] = closing[u] /\ closing[u] # NotClosing
            /\ closing[u].conn # n
        BY <2>2, <2>4, <3>3
      <4>2. obj[closing[u].conn] = "live" /\ closing[u].at # "none"
        BY <4>1 DEF CloseInv, ReferenceInv, CallInv
      <4>3. closing[u].conn \in Conns /\ closing[u].conn \notin D
        BY <2>3, <4>1, <4>2 DEF TypeInv, MadeInv, Made
      <4> QED
        BY <2>4, <4>1, <4>2, <4>3
    <3> QED
        BY <2>4, <3>1, <3>2, <3>3 DEF ReferenceInv, Registered
  <2>7. CallInv'
    <3>1. ofd' = ofd
        BY <2>1, <2>3 DEF Destroy, ClosedBy, TypeInv, TypeOK
    <3>2. \A u \in Threads : u # t => m_Socket'[closing[u].conn] = m_Socket[closing[u].conn]
                                      \/ closing[u].at = "none"
      <4> SUFFICES ASSUME NEW u \in Threads, u # t, closing[u].at # "none"
                   PROVE  m_Socket'[closing[u].conn] = m_Socket[closing[u].conn]
        OBVIOUS
      <4>1. closing[u].conn \in Conns /\ closing[u].conn \notin D
        BY <2>2, <2>3 DEF TypeInv, MadeInv, Made
      <4> QED
        BY <2>4, <4>1
    <3> QED
        BY <2>4, <3>1, <3>2 DEF CloseInv, CallInv, NotClosing
  <2>8. FileInv'
    <3>1. ASSUME NEW m \in Conns, NEW u \in Threads,
                 closing[u].conn = m, closing[u].at = "closed"
          PROVE  closing'[u].conn = m /\ closing'[u].at = "closed"
        BY <2>1, <2>4, <3>1
    <3>2. \A m \in D : ~(m_Socket[m] > 0)
        BY <2>1, <2>3
    <3> QED
        BY <2>1, <2>3, <3>1, <3>2, FileDestroy DEF CloseInv
  <2> QED
    BY <2>6, <2>7, <2>8 DEF CloseInv
<1>7. ASSUME NEW n \in Conns,
             \/ PeerSends(n) \/ PeerHangsUp(n) \/ PeerResets(n) \/ TimePasses(n)
             \/ ReadData(n) \/ ReadEnds(n) \/ IoError(n) \/ Write(n) \/ WriteFails(n)
             \/ TimerFires(n)
      PROVE  CloseFacts'
    BY <1>7, CloseQuiet DEF PeerSends, PeerHangsUp, PeerResets, TimePasses, ReadData, ReadEnds,
       IoError, Write, WriteFails, TimerFires, kernelVars, connVars
<1>8. ASSUME AsyncCallback \/ CallbackReturns \/ SendDropped \/ SendQueued \/ SendOverflows
      PROVE  CloseFacts'
    BY <1>8, CloseQuiet DEF AsyncCallback, CallbackReturns, SendDropped, SendQueued,
       SendOverflows, kernelVars, connVars
<1>9. ASSUME NEW k, Send(k) PROVE CloseFacts'
    BY <1>9, CloseQuiet DEF Send, kernelVars, connVars
<1>10. CASE UNCHANGED vars
    BY <1>10, CloseQuiet DEF vars, kernelVars, connVars
<1> QED
    BY <1>2, <1>3, <1>4, <1>5, <1>6, <1>7, <1>8, <1>9, <1>10
    DEF Next, Environment, Events, InCallback, CloseClient

LEMMA InitClose == Init => CloseInv
BY NamesAssumption, FdsAssumption
DEF Init, CloseInv, ReferenceInv, CallInv, FileInv, OwnDescriptor, NotClosing, OneCallPerClient

LEMMA CloseInvariant == CloseSpec => []CloseInv
<1> DEFINE CloseNext == Next /\ OneCallPerClient'
<1>1. TypeInv /\ [CloseNext]_vars => TypeInv'
  <2>1. [CloseNext]_vars => [Next]_vars
    OBVIOUS
  <2> QED
    BY <2>1, TypeStep
<1>2. TypeInv /\ CloseInv /\ [CloseNext]_vars => CloseInv'
  <2> SUFFICES ASSUME TypeInv, CloseInv, [CloseNext]_vars PROVE CloseInv'
    OBVIOUS
  <2>1. CloseFacts'
    BY CloseStep
  <2>2. OneCallPerClient'
    <3>1. CASE UNCHANGED vars
        BY <3>1 DEF CloseInv, OneCallPerClient, vars
    <3> QED
        BY <3>1
  <2> QED
    BY <2>1, <2>2 DEF CloseFacts, CloseInv
<1> QED
    BY <1>1, <1>2, InitType, InitClose, PTL DEF CloseSpec

\* As long as the calls of CloseClient for one client do not overlap, in any number of
\* threads, the loop thread in its callbacks among them, m_Socket is never a number that
\* denotes another client's socket, but for the moment between close and m_Socket = 0: Close,
\* shutdown and the destructor act on the socket the connection was made for.
THEOREM OwnSocket == CloseSpec => []OwnDescriptor
<1>1. CloseInv => OwnDescriptor
    BY DEF CloseInv, FileInv
<1> QED
    BY <1>1, CloseInvariant, PTL

\* In the same conditions no descriptor leaks: each socket that is open belongs to an object
\* that is alive, that has its number in m_Socket, and that the manager or a thread in
\* CloseClient will give back.
THEOREM NoLeak == CloseSpec => []NoDescriptorLeak
<1>1. CloseInv => NoDescriptorLeak
    BY DEF CloseInv, FileInv, ReferenceInv, NoDescriptorLeak
<1> QED
    BY <1>1, CloseInvariant, PTL

-----------------------------------------------------------------------------
(* Write events, whoever calls CloseClient. *)

\* The destructor stops the watcher of each object it destroys.
LEMMA WriteDestroy ==
    ASSUME TypeInv, WriteInv, NEW D, \A n \in D : Made(n), Destroy(D)
    PROVE  WriteInv'
BY DEF WriteInv, WriteInterest, TypeInv, TypeOK, Made, Destroy, Stopped, Freed, Emptied

LEMMA WriteStep == TypeInv /\ WriteInv /\ [Next]_vars => WriteInv'
<1> SUFFICES ASSUME TypeInv, WriteInv, [Next]_vars PROVE WriteInv'
    OBVIOUS
<1> USE NamesAssumption DEF WriteInv, WriteInterest
<1>1. ASSUME UNCHANGED <<obj, m_Io, m_WriteQueue>> PROVE WriteInv'
    BY <1>1
<1>2. ASSUME NEW a \in Addrs, NEW f \in Fds, NEW n \in Conns, Accept(a, f, n) PROVE WriteInv'
  <2> DEFINE o == m_Connections[<<a, f>>]
             D == IF o # Nil /\ ~Held(o) THEN {o} ELSE {}
  <2>1. \A m \in D : Made(m) /\ m # n
    BY <1>2 DEF Accept, Keys, TypeInv, MadeInv, Made
  <2> HIDE DEF D
  <2>2. /\ m_Io' = [Stopped(D) EXCEPT ![n] = "R"]
        /\ obj' = [Freed(D) EXCEPT ![n] = "live"]
        /\ m_WriteQueue' = Emptied(D)
        /\ obj[n] = "none"
    BY <1>2 DEF Accept, D
  <2> QED
    BY <2>1, <2>2 DEF Stopped, Freed, Emptied, TypeInv, TypeOK
<1>3. ASSUME NEW n \in Conns, IoError(n) PROVE WriteInv'
    BY <1>3 DEF IoError, TypeInv, TypeOK
<1>4. ASSUME NEW n \in Conns, Write(n) PROVE WriteInv'
  <2>1. PICK left \in {m_WriteQueue[n], m_WriteQueue[n] - 1} \cap Nat :
            /\ m_WriteQueue' = [m_WriteQueue EXCEPT ![n] = left]
            /\ m_Io' = [m_Io EXCEPT ![n] = IF left = 0 THEN "R" ELSE "RW"]
    BY <1>4 DEF Write
  <2>2. Made(n) /\ obj' = obj
    BY <1>4 DEF Write, TypeInv, MadeInv
  <2> QED
    BY <2>1, <2>2 DEF TypeInv, TypeOK, Made
<1>5. CASE Unregister
  <2> DEFINE o == m_Connections[Key(loop.conn)]
             D == IF o # Nil /\ ~Held(o) THEN {o} ELSE {}
  <2>1. \A m \in D : Made(m)
    BY <1>5 DEF Unregister, TypeInv, TypeOK, MadeInv, Made, Key, Keys
  <2> QED
    BY <1>5, <2>1, WriteDestroy DEF Unregister
<1>6. CASE SendQueued
  <2> DEFINE n == m_Connections[Head(batch)]
  <2>1. Made(n)
    BY <1>6 DEF SendQueued, TypeInv, TypeOK, MadeInv
  <2>2. /\ m_WriteQueue' = [m_WriteQueue EXCEPT ![n] = @ + 1]
        /\ m_Io' = [m_Io EXCEPT ![n] = IF @ = "off" THEN "off" ELSE "RW"]
        /\ obj' = obj
    BY <1>6 DEF SendQueued
  <2> HIDE DEF n
  <2> QED
    BY <2>1, <2>2, BoundsAssumption DEF TypeInv, TypeOK, Made
<1>7. ASSUME NEW t \in Threads, CloseRelease(t) PROVE WriteInv'
  <2> DEFINE n == closing[t].conn
             D == IF Registered(n) \/ \E u \in Threads \ {t} : closing[u].conn = n
                  THEN {} ELSE {n}
  <2>1. \A m \in D : Made(m)
    BY <1>7 DEF CloseRelease, TypeInv, MadeInv
  <2> QED
    BY <1>7, <2>1, WriteDestroy DEF CloseRelease
<1>8. ASSUME NEW n \in Conns,
             PeerSends(n) \/ PeerHangsUp(n) \/ PeerResets(n) \/ TimePasses(n)
             \/ ReadData(n) \/ ReadEnds(n) \/ WriteFails(n) \/ TimerFires(n)
      PROVE  WriteInv'
    BY <1>1, <1>8 DEF PeerSends, PeerHangsUp, PeerResets, TimePasses, ReadData, ReadEnds,
                      WriteFails, TimerFires, connVars
<1>9. ASSUME AsyncCallback \/ CallbackReturns \/ SendDropped \/ SendOverflows PROVE WriteInv'
    BY <1>1, <1>9 DEF AsyncCallback, CallbackReturns, SendDropped, SendOverflows, connVars
<1>10. ASSUME NEW k, Send(k) PROVE WriteInv'
    BY <1>1, <1>10 DEF Send, connVars
<1>11. ASSUME NEW t \in Threads,
              \/ \E k \in Keys : CloseGet(t, k)
              \/ CloseShutdown(t) \/ CloseSkipped(t) \/ CloseFd(t) \/ CloseZero(t)
       PROVE  WriteInv'
    BY <1>1, <1>11 DEF CloseGet, CloseShutdown, CloseSkipped, CloseFd, CloseZero, connVars
<1>12. CASE UNCHANGED vars
    BY <1>1, <1>12 DEF vars, connVars
<1> QED
    BY <1>2, <1>3, <1>4, <1>5, <1>6, <1>7, <1>8, <1>9, <1>10, <1>11, <1>12
    DEF Next, Environment, Events, InCallback, CloseClient

\* libev is asked for write events of a connection exactly while its write queue is not
\* empty, whatever CloseClient and the destructor do in between.
THEOREM WriteEvents == Spec => []WriteInterest
<1>1. Init => WriteInv
    BY DEF Init, WriteInv, WriteInterest
<1>2. WriteInv => WriteInterest
    BY DEF WriteInv
<1> QED
    BY <1>1, <1>2, InitType, TypeStep, WriteStep, PTL DEF Spec
=============================================================================
