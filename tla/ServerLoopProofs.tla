--------------------------- MODULE ServerLoopProofs ---------------------------
(***************************************************************************)
(* Theorems about ServerLoop: Stop bounds the time Start still takes, and  *)
(* the idle timer is neither early by more than a second nor late by more  *)
(* than a period, for any timeouts, ticks per second and connections.      *)
(***************************************************************************)
EXTENDS ServerLoop, TLAPS

\* (int)time(0) is the second a tick lies in.
LEMMA Seconds ==
    ASSUME NEW a \in Nat, NEW r \in Nat \ {0}
    PROVE  /\ a \div r \in Nat
           /\ r * (a \div r) <= a
           /\ a < r * (a \div r) + r
  OBVIOUS

\* What two times in seconds tell about the ticks between them.
LEMMA Between ==
    ASSUME NEW a \in Nat, NEW b \in Nat, NEW r \in Nat \ {0}, NEW k \in Nat \ {0}
    PROVE  /\ (a \div r) - (b \div r) >= k => a - b > (k - 1) * r
           /\ (a \div r) - (b \div r) < k => a - b < k * r
<1> DEFINE s == a \div r
           t == b \div r
<1>1. /\ s \in Nat /\ r * s <= a /\ a < r * s + r
      /\ t \in Nat /\ r * t <= b /\ b < r * t + r
  BY Seconds
<1> HIDE DEF s, t
<1>2. CASE s - t >= k
  <2>1. PICK d \in Nat : s = t + k + d
    <3>1. s - t - k \in Nat /\ s = t + k + (s - t - k)
      BY <1>1, <1>2
    <3> QED BY <3>1
  <2>2. r * s = r * t + k * r + r * d /\ r * d >= 0 /\ (k - 1) * r = k * r - r
    BY <1>1, <2>1
  <2>3. a - b > (k - 1) * r
    BY <1>1, <2>2
  <2> QED BY <1>1, <1>2, <2>3 DEF s, t
<1>3. CASE s - t < k
  <2>1. PICK d \in Nat : t + k = s + d + 1
    <3>1. t + k - s - 1 \in Nat /\ t + k = s + (t + k - s - 1) + 1
      BY <1>1, <1>3
    <3> QED BY <3>1
  <2>2. r * t + k * r = r * s + r * d + r /\ r * d >= 0
    BY <1>1, <2>1
  <2>3. a - b < k * r
    BY <1>1, <2>2
  <2> QED BY <1>1, <1>3, <2>3 DEF s, t
<1> QED
  BY <1>1, <1>2, <1>3 DEF s, t

-----------------------------------------------------------------------------
LEMMA InitInv == Init => Inv
<1> SUFFICES ASSUME Init PROVE Inv
  OBVIOUS
<1> USE TimeAssumption, BoundsAssumption
<1>1. TypeOK
  <2>1. 0 \in Ticks /\ Never \in Nat /\ TCP_CONNECTION_TIMEOUT \in Nat
    BY DEF Ticks, Never
  <2>2. /\ conn \in [Conns -> {"none", "up", "gone"}] /\ input \in [Conns -> BOOLEAN]
        /\ output \in [Conns -> BOOLEAN]
        /\ period \in [Conns -> Nat] /\ due \in [Conns -> Nat]
        /\ m_nLasttime \in [Conns -> Nat] /\ traffic \in [Conns -> Ticks]
    BY <2>1 DEF Init
  <2>3. \A n \in Conns : ~Up(n)
    BY DEF Init, Up
  <2>4. /\ now \in Ticks /\ m_nTimeout \in Timeouts \cup {TCP_CONNECTION_TIMEOUT}
        /\ listener \in {"none", "open", "shut", "closed", "bound"} /\ waiting \in BOOLEAN
    BY <2>1 DEF Init
  <2>5. /\ at \in {"out", "watch", "enter", "ready", "asleep", "dispatch", "returned"}
        /\ starts \in 0..MaxStarts /\ wakeAt \in Nat
    BY DEF Init
  <2>6. /\ loop_done \in BOOLEAN /\ watching \in BOOLEAN
        /\ m_Sig \in {"none", "here", "elsewhere"}
    BY DEF Init
  <2>7. /\ stop \in {"no", "shut", "closed", "unwatched", "done"}
        /\ stoppedAt \in Ticks \cup {Never}
    BY DEF Init
  <2> QED BY <2>2, <2>3, <2>4, <2>5, <2>6, <2>7 DEF TypeOK
<1>2. StopInv /\ SleepInv /\ TimerInv
  BY DEF Init, StopInv, SleepInv, TimerInv, InLoop, Up
<1> QED BY <1>1, <1>2 DEF Inv

\* Types, and a timer that repeats is never set further ahead than its period.
LEMMA NextTypeOK == TypeOK /\ [Next]_vars => TypeOK'
<1> SUFFICES ASSUME TypeOK, [Next]_vars PROVE TypeOK'
  OBVIOUS
<1> USE TimeAssumption, TimeoutsAssumption, BoundsAssumption
<1>1. CASE ClientConnects
  BY <1>1 DEF ClientConnects, TypeOK, Up, loopVars, stopVars, connVars
<1>2. ASSUME NEW n \in Conns, ClientSends(n) \/ OutputReady(n) PROVE TypeOK'
  <2>1. input' \in [Conns -> BOOLEAN] /\ output' \in [Conns -> BOOLEAN]
    BY <1>2 DEF ClientSends, OutputReady, TypeOK
  <2> QED BY <1>2, <2>1 DEF ClientSends, OutputReady, TypeOK, Up, loopVars, stopVars
<1>3. ASSUME NEW s \in Timeouts, SetConnectionTimeout(s) PROVE TypeOK'
  BY <1>3 DEF SetConnectionTimeout, TypeOK, Up, loopVars, stopVars, connVars
<1>4. CASE StartFails \/ Start
  BY <1>4 DEF StartFails, Start, MayStart, TypeOK, Up, connVars
<1>5. CASE StartWatchers \/ EnterLoop
  BY <1>5 DEF StartWatchers, EnterLoop, TypeOK, Up, stopVars, connVars
<1>6. CASE Sleep
  <2>1. wakeAt' \in Nat
    BY <1>6 DEF Sleep, TypeOK, Ticks
  <2> QED BY <1>6, <2>1 DEF Sleep, TypeOK, Up, stopVars, connVars
<1>7. CASE Wake \/ EndIteration
  BY <1>7 DEF Wake, EndIteration, TypeOK, Up, stopVars, connVars
<1>8. ASSUME NEW n \in Conns, Accept(n) PROVE TypeOK'
  <2>1. m_nTimeout * TicksPerSecond \in Nat /\ now \in Nat
    BY DEF TypeOK, Ticks
  <2>2. time \in Nat
    BY <2>1, Seconds DEF time
  <2>3. /\ period' \in [Conns -> Nat] /\ due' \in [Conns -> Nat]
        /\ m_nLasttime' \in [Conns -> Nat] /\ traffic' \in [Conns -> Ticks]
        /\ conn' \in [Conns -> {"none", "up", "gone"}]
    BY <1>8, <2>1, <2>2 DEF Accept, TypeOK
  <2>4. \A k \in Conns : Up(k)' /\ period'[k] > 0 => due'[k] <= now' + period'[k]
    BY <1>8, <2>1 DEF Accept, TypeOK, Up
  <2> QED BY <1>8, <2>3, <2>4 DEF Accept, TypeOK, loopVars, stopVars
<1>9. ASSUME NEW n \in Conns, Read(n) \/ Write(n) PROVE TypeOK'
  <2>1. now \in Nat
    BY DEF TypeOK, Ticks
  <2>2. time \in Nat
    BY <2>1, Seconds DEF time
  <2>3. /\ input' \in [Conns -> BOOLEAN] /\ output' \in [Conns -> BOOLEAN]
        /\ m_nLasttime' \in [Conns -> Nat] /\ traffic' \in [Conns -> Ticks]
    BY <1>9, <2>2 DEF Read, Write, TypeOK
  <2>4. UNCHANGED <<now, m_nTimeout, listener, waiting, loopVars, stopVars, conn, period, due>>
    BY <1>9 DEF Read, Write
  <2> QED BY <2>3, <2>4 DEF TypeOK, Up, loopVars, stopVars
<1>10. ASSUME NEW n \in Conns, TimerCallback(n) PROVE TypeOK'
  <2>1. Rearmed(n) \in Nat /\ (period[n] > 0 => Rearmed(n) <= now + period[n])
    BY <1>10 DEF TimerCallback, Fires, Rearmed, Never, TypeOK, Ticks
  <2>2. due' \in [Conns -> Nat]
    BY <1>10, <2>1 DEF TimerCallback, TypeOK
  <2>3. \A k \in Conns : Up(k)' /\ period'[k] > 0 => due'[k] <= now' + period'[k]
    BY <1>10, <2>1 DEF TimerCallback, TypeOK, Up
  <2> QED BY <1>10, <2>2, <2>3 DEF TimerCallback, TypeOK, loopVars, stopVars
<1>11. ASSUME NEW n \in Conns, ReportTimeout(n) PROVE TypeOK'
  BY <1>11 DEF ReportTimeout, Never, TypeOK, Up, loopVars, stopVars
<1>12. CASE StopShutdown \/ StopClose \/ StopWatchers
  BY <1>12 DEF StopShutdown, StopClose, StopWatchers, TypeOK, Up, loopVars, connVars
<1>13. CASE StopUnloop
  BY <1>13 DEF StopUnloop, TypeOK, Up, connVars
<1>14. CASE Tick
  <2>1. now' \in Ticks /\ now <= now'
    BY <1>14 DEF Tick, TypeOK, Ticks
  <2>2. \A k \in Conns : Up(k)' /\ period'[k] > 0 => due'[k] <= now' + period'[k]
    BY <1>14, <2>1 DEF Tick, TypeOK, Up, Ticks, connVars
  <2> QED BY <1>14, <2>1, <2>2 DEF Tick, TypeOK, loopVars, stopVars, connVars
<1>15. CASE UNCHANGED vars
  BY <1>15 DEF vars, TypeOK, Up, loopVars, stopVars, connVars
<1> QED BY <1>1, <1>2, <1>3, <1>4, <1>5, <1>6, <1>7, <1>8, <1>9, <1>10, <1>11, <1>12,
           <1>13, <1>14, <1>15 DEF Next

\* A sleep ends within libev's longest one and before every timer.
LEMMA NextSleepInv == TypeOK /\ SleepInv /\ [Next]_vars => SleepInv'
<1> SUFFICES ASSUME TypeOK, SleepInv, [Next]_vars PROVE SleepInv'
  OBVIOUS
<1> USE TimeAssumption DEF SleepInv, Up
<1>1. CASE Sleep
  BY <1>1 DEF Sleep, TypeOK, Ticks, Active, connVars, Up
<1>2. CASE Tick
  BY <1>2 DEF Tick, TypeOK, Ticks, loopVars, connVars
<1>3. CASE UNCHANGED <<now, at, wakeAt, conn, due>>
  BY <1>3
<1>4. CASE StartFails \/ Start \/ StartWatchers \/ EnterLoop \/ Wake \/ EndIteration
  BY <1>4 DEF StartFails, Start, StartWatchers, EnterLoop, Wake, EndIteration
<1>5. ASSUME NEW n \in Conns, Accept(n) \/ Read(n) \/ Write(n) \/ TimerCallback(n) \/ ReportTimeout(n)
      PROVE SleepInv'
  BY <1>5 DEF Accept, Read, Write, TimerCallback, ReportTimeout, Fires, loopVars
<1>6. CASE ClientConnects \/ (\E n \in Conns : ClientSends(n) \/ OutputReady(n))
           \/ (\E s \in Timeouts : SetConnectionTimeout(s))
  BY <1>3, <1>6 DEF ClientConnects, ClientSends, OutputReady, SetConnectionTimeout, loopVars, connVars
<1>7. CASE StopShutdown \/ StopClose \/ StopWatchers \/ StopUnloop
  BY <1>3, <1>7 DEF StopShutdown, StopClose, StopWatchers, StopUnloop, loopVars, connVars
<1>8. CASE UNCHANGED vars
  BY <1>3, <1>8 DEF vars, loopVars, connVars
<1> QED BY <1>1, <1>2, <1>4, <1>5, <1>6, <1>7, <1>8 DEF Next

\* Once Stop has unlooped it, a loop that runs goes to sleep no more.
LEMMA NextStopInv == TypeOK /\ SleepInv /\ StopInv /\ [Next]_vars => StopInv'
<1> SUFFICES ASSUME TypeOK, SleepInv, StopInv, [Next]_vars PROVE StopInv'
  OBVIOUS
<1> USE TimeAssumption DEF StopInv, InLoop
<1>1. CASE Sleep
  BY <1>1 DEF Sleep, stopVars
<1>2. CASE Tick
  BY <1>2 DEF Tick, LoopIsIdle, TypeOK, Ticks, Never, loopVars, stopVars
<1>3. CASE UNCHANGED <<now, at, loop_done, wakeAt, stoppedAt>>
  BY <1>3
<1>4. CASE StartFails \/ Start \/ StartWatchers \/ EnterLoop
  BY <1>4 DEF StartFails, Start, StartWatchers, EnterLoop, stopVars
<1>5. CASE Wake \/ EndIteration
  BY <1>5 DEF Wake, EndIteration, stopVars
<1>6. ASSUME NEW n \in Conns, Accept(n) \/ Read(n) \/ Write(n) \/ TimerCallback(n) \/ ReportTimeout(n)
      PROVE StopInv'
  BY <1>3, <1>6 DEF Accept, Read, Write, TimerCallback, ReportTimeout, loopVars, stopVars
<1>7. CASE StopUnloop
  BY <1>7 DEF StopUnloop, SleepInv, TypeOK, Ticks
<1>8. CASE StopShutdown \/ StopClose \/ StopWatchers
  BY <1>3, <1>8 DEF StopShutdown, StopClose, StopWatchers, loopVars
<1>9. CASE ClientConnects \/ (\E n \in Conns : ClientSends(n) \/ OutputReady(n))
           \/ (\E s \in Timeouts : SetConnectionTimeout(s))
  BY <1>3, <1>9 DEF ClientConnects, ClientSends, OutputReady, SetConnectionTimeout, loopVars, stopVars
<1>10. CASE UNCHANGED vars
  BY <1>3, <1>10 DEF vars, loopVars, stopVars
<1> QED BY <1>1, <1>2, <1>4, <1>5, <1>6, <1>7, <1>8, <1>9, <1>10 DEF Next

\* The timer is set again only for a connection that has been idle for less than the timeout.
LEMMA NextTimerInv == TypeOK /\ TimerInv /\ [Next]_vars => TimerInv'
<1> SUFFICES ASSUME TypeOK, TimerInv, [Next]_vars PROVE TimerInv'
  OBVIOUS
<1> DEFINE idle == TCP_CONNECTION_TIMEOUT * TicksPerSecond
<1>1. idle \in Nat /\ idle > 0
  BY TimeAssumption
<1>2. now \in Nat /\ \A n \in Conns : traffic[n] \in Nat /\ due[n] \in Nat /\ period[n] \in Nat
  BY DEF TypeOK, Ticks
<1>3. \A n \in Conns : Up(n) => /\ traffic[n] <= now
                                /\ m_nLasttime[n] = traffic[n] \div TicksPerSecond
                                /\ period[n] > 0 => due[n] < traffic[n] + idle + period[n]
  BY DEF TimerInv
<1>4. SUFFICES ASSUME NEW k \in Conns, Up(k)'
               PROVE  /\ traffic'[k] <= now'
                      /\ m_nLasttime'[k] = traffic'[k] \div TicksPerSecond
                      /\ period'[k] > 0 => due'[k] < traffic'[k] + idle + period'[k]
  BY DEF TimerInv
<1> HIDE DEF idle
<1>5. CASE UNCHANGED <<conn, period, due, m_nLasttime, traffic>> /\ now' \in Nat /\ now <= now'
  BY <1>2, <1>3, <1>4, <1>5 DEF Up
<1>6. ASSUME NEW n \in Conns, Accept(n)
      PROVE  /\ traffic'[k] <= now'
             /\ m_nLasttime'[k] = traffic'[k] \div TicksPerSecond
             /\ period'[k] > 0 => due'[k] < traffic'[k] + idle + period'[k]
  <2>1. CASE k = n
    <3>1. m_nTimeout * TicksPerSecond \in Nat
      BY TimeAssumption, TimeoutsAssumption DEF TypeOK
    <3>2. /\ traffic'[k] = now /\ now' = now /\ m_nLasttime'[k] = time
          /\ period'[k] = m_nTimeout * TicksPerSecond
          /\ due'[k] = now + m_nTimeout * TicksPerSecond
      BY <1>6, <2>1 DEF Accept, TypeOK
    <3>3. traffic'[k] <= now' /\ m_nLasttime'[k] = traffic'[k] \div TicksPerSecond
      BY <1>2, <3>2 DEF time
    <3>4. due'[k] < traffic'[k] + idle + period'[k]
      BY <1>1, <1>2, <3>1, <3>2
    <3> QED BY <3>3, <3>4
  <2>2. CASE k # n
    <3>1. /\ Up(k) /\ now' = now /\ traffic'[k] = traffic[k] /\ m_nLasttime'[k] = m_nLasttime[k]
          /\ period'[k] = period[k] /\ due'[k] = due[k]
      BY <1>4, <1>6, <2>2 DEF Accept, TypeOK, Up
    <3> QED BY <1>3, <3>1
  <2> QED BY <2>1, <2>2
<1>7. ASSUME NEW n \in Conns, Read(n) \/ Write(n)
      PROVE  /\ traffic'[k] <= now'
             /\ m_nLasttime'[k] = traffic'[k] \div TicksPerSecond
             /\ period'[k] > 0 => due'[k] < traffic'[k] + idle + period'[k]
  <2>1. Up(k) /\ now' = now /\ period'[k] = period[k] /\ due'[k] = due[k]
    BY <1>4, <1>7 DEF Read, Write, Up
  <2>2. CASE k = n
    <3>1. traffic'[k] = now /\ m_nLasttime'[k] = time
      BY <1>7, <2>2 DEF Read, Write, TypeOK
    <3>2. traffic'[k] <= now' /\ m_nLasttime'[k] = traffic'[k] \div TicksPerSecond
      BY <1>2, <2>1, <3>1 DEF time
    <3> QED BY <1>1, <1>2, <1>3, <2>1, <3>1, <3>2
  <2>3. CASE k # n
    <3>1. traffic'[k] = traffic[k] /\ m_nLasttime'[k] = m_nLasttime[k]
      BY <1>7, <2>3 DEF Read, Write, TypeOK
    <3> QED BY <1>3, <2>1, <3>1
  <2> QED BY <2>2, <2>3
<1>8. ASSUME NEW n \in Conns, TimerCallback(n)
      PROVE  /\ traffic'[k] <= now'
             /\ m_nLasttime'[k] = traffic'[k] \div TicksPerSecond
             /\ period'[k] > 0 => due'[k] < traffic'[k] + idle + period'[k]
  <2>1. /\ Up(k) /\ now' = now /\ period'[k] = period[k]
        /\ traffic'[k] = traffic[k] /\ m_nLasttime'[k] = m_nLasttime[k]
    BY <1>4, <1>8 DEF TimerCallback, Up
  <2>2. CASE k = n
    <3>1. time - m_nLasttime[n] < TCP_CONNECTION_TIMEOUT
      <4>1. ~(time - m_nLasttime[n] >= TCP_CONNECTION_TIMEOUT)
        BY <1>8 DEF TimerCallback, TimedOut
      <4>2. time \in Nat /\ m_nLasttime[n] \in Nat
        BY <1>2, TimeAssumption, Seconds DEF time, TypeOK
      <4> QED BY <4>1, <4>2, TimeAssumption
    <3>2. m_nLasttime[n] = traffic[n] \div TicksPerSecond
      BY <1>3, <2>1, <2>2
    <3>3. now - traffic[n] < idle
      BY <1>2, <3>1, <3>2, Between, TimeAssumption DEF time, idle
    <3>4. due'[n] = Rearmed(n) /\ due[n] <= now
      BY <1>8 DEF TimerCallback, Fires, TypeOK
    <3>5. period[n] > 0 => Rearmed(n) < traffic[n] + idle + period[n]
      BY <1>1, <1>2, <3>3, <3>4 DEF Rearmed
    <3> QED BY <1>3, <2>1, <2>2, <3>4, <3>5
  <2>3. CASE k # n
    <3>1. due'[k] = due[k]
      BY <1>8, <2>3 DEF TimerCallback, TypeOK
    <3> QED BY <1>3, <2>1, <3>1
  <2> QED BY <2>2, <2>3
<1>9. ASSUME NEW n \in Conns, ReportTimeout(n)
      PROVE  /\ traffic'[k] <= now'
             /\ m_nLasttime'[k] = traffic'[k] \div TicksPerSecond
             /\ period'[k] > 0 => due'[k] < traffic'[k] + idle + period'[k]
  <2>1. k # n
    BY <1>4, <1>9 DEF ReportTimeout, TypeOK, Up
  <2>2. /\ Up(k) /\ now' = now /\ traffic'[k] = traffic[k] /\ m_nLasttime'[k] = m_nLasttime[k]
        /\ period'[k] = period[k] /\ due'[k] = due[k]
    BY <1>4, <1>9, <2>1 DEF ReportTimeout, TypeOK, Up
  <2> QED BY <1>3, <2>2
<1>10. CASE Tick
  BY <1>2, <1>5, <1>10 DEF Tick, connVars
<1>11. CASE ClientConnects \/ (\E n \in Conns : ClientSends(n) \/ OutputReady(n))
            \/ (\E s \in Timeouts : SetConnectionTimeout(s))
  BY <1>2, <1>5, <1>11 DEF ClientConnects, ClientSends, OutputReady, SetConnectionTimeout, connVars
<1>12. CASE StartFails \/ Start \/ StartWatchers \/ EnterLoop
  BY <1>2, <1>5, <1>12 DEF StartFails, Start, StartWatchers, EnterLoop, connVars
<1>13. CASE Sleep \/ Wake \/ EndIteration
  BY <1>2, <1>5, <1>13 DEF Sleep, Wake, EndIteration, connVars
<1>14. CASE StopShutdown \/ StopClose \/ StopWatchers \/ StopUnloop
  BY <1>2, <1>5, <1>14 DEF StopShutdown, StopClose, StopWatchers, StopUnloop, connVars
<1>15. CASE UNCHANGED vars
  BY <1>2, <1>5, <1>15 DEF vars, connVars
<1> QED BY <1>6, <1>7, <1>8, <1>9, <1>10, <1>11, <1>12, <1>13, <1>14, <1>15 DEF Next

-----------------------------------------------------------------------------
LEMMA NextInv == Inv /\ [Next]_vars => Inv'
  BY NextTypeOK, NextSleepInv, NextStopInv, NextTimerInv DEF Inv

\* The inductive invariant, along every interleaving of Start, Stop and the loop.
THEOREM Invariance == Spec => []Inv
  BY InitInv, NextInv, PTL DEF Spec

\* The types of the clock, the loop and the timers (CTcpServer, CTcpConnection).
THEOREM TypeCorrect == Spec => []TypeOK
<1>1. Inv => TypeOK
  BY DEF Inv
<1> QED BY <1>1, Invariance, PTL

\* A running loop returns within libev's longest sleep of a Stop, which does not wake it.
THEOREM StopBound == Spec => []StopReturns
<1>1. Inv => StopReturns
  BY DEF Inv, StopInv, StopReturns
<1> QED BY <1>1, Invariance, PTL

\* __TimerCallback misses no connection on which nothing was read or written for the
\* timeout and a period.
THEOREM IdleBound == Spec => []IdleReported
<1>1. Inv => IdleReported
  <2> SUFFICES ASSUME Inv, LoopIsIdle, NEW n \in Conns, Up(n), period[n] > 0
               PROVE  now - traffic[n] < TCP_CONNECTION_TIMEOUT * TicksPerSecond + period[n]
    BY DEF IdleReported
  <2> DEFINE idle == TCP_CONNECTION_TIMEOUT * TicksPerSecond
  <2>1. idle \in Nat
    BY TimeAssumption
  <2>2. now < wakeAt /\ wakeAt <= due[n] /\ due[n] < traffic[n] + idle + period[n]
    BY DEF Inv, LoopIsIdle, SleepInv, TimerInv
  <2>3. /\ now \in Nat /\ wakeAt \in Nat /\ due[n] \in Nat /\ traffic[n] \in Nat
        /\ period[n] \in Nat
    BY DEF Inv, TypeOK, Ticks
  <2> HIDE DEF idle
  <2>4. now - traffic[n] < idle + period[n]
    BY <2>1, <2>2, <2>3
  <2> QED BY <2>4 DEF idle
<1> QED BY <1>1, Invariance, PTL

\* __TimerCallback cuts off nobody with whom something was exchanged within the timeout, but
\* for the second that (int)time(0) is coarse.
THEOREM NotEarly == Spec => NoEarlyTimeout
<1> DEFINE Silent(n) == now - traffic[n] > (TCP_CONNECTION_TIMEOUT - 1) * TicksPerSecond
<1>1. Inv /\ [Next]_vars => \A n \in Conns : conn[n] = "up" /\ conn'[n] = "gone" => Silent(n)
  <2> SUFFICES ASSUME Inv, [Next]_vars, NEW n \in Conns, conn[n] = "up", conn'[n] = "gone"
               PROVE  Silent(n)
    OBVIOUS
  <2>1. ReportTimeout(n)
    <3>1. conn' # conn
      OBVIOUS
    <3>2. CASE \E k \in Conns : Accept(k)
      BY <3>2 DEF Accept, Inv, TypeOK
    <3>3. CASE \E k \in Conns : ReportTimeout(k)
      BY <3>3 DEF ReportTimeout, Inv, TypeOK
    <3> QED
      BY <3>1, <3>2, <3>3 DEF Next, vars, connVars, ClientConnects, ClientSends, OutputReady,
         SetConnectionTimeout, StartFails, Start, StartWatchers, EnterLoop, Sleep, Wake,
         EndIteration, Read, Write, TimerCallback, StopShutdown, StopClose, StopWatchers,
         StopUnloop, Tick
  <2>2. time - m_nLasttime[n] >= TCP_CONNECTION_TIMEOUT
    BY <2>1 DEF ReportTimeout, TimedOut
  <2>3. m_nLasttime[n] = traffic[n] \div TicksPerSecond
    BY DEF Inv, TimerInv, Up
  <2>4. now \in Nat /\ traffic[n] \in Nat
    BY DEF Inv, TypeOK, Ticks
  <2> QED BY <2>2, <2>3, <2>4, Between, TimeAssumption DEF time
<1> QED BY <1>1, Invariance, PTL DEF Spec, NoEarlyTimeout
=============================================================================
