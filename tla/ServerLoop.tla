------------------------------ MODULE ServerLoop ------------------------------
(***************************************************************************)
(* The loop of a CTcpServer against the clock: Start, which runs it, Stop  *)
(* on another thread, the sleep of libev between events, and the timer of  *)
(* each connection, which looks every m_nTimeout seconds whether the       *)
(* connection has been idle for TCP_CONNECTION_TIMEOUT seconds.            *)
(*                                                                         *)
(* Time is counted in ticks.  The loop thread is prompt: while it has      *)
(* something to do no time passes.  Every other thread is as slow as it    *)
(* likes.                                                                  *)
(***************************************************************************)
EXTENDS Integers

CONSTANTS
    Conns,                   \* connections
    TicksPerSecond,
    TCP_CONNECTION_TIMEOUT,  \* in seconds
    Timeouts,                \* what the application gives to SetConnectionTimeout
    MAX_BLOCKTIME,           \* the longest sleep of libev, in ticks
    MaxTime,                 \* bound: the last tick
    MaxStarts                \* bound: calls of Start

ASSUME TimeAssumption == /\ TicksPerSecond \in Nat \ {0}
                         /\ TCP_CONNECTION_TIMEOUT \in Nat \ {0}
                         /\ MAX_BLOCKTIME \in Nat \ {0}
ASSUME TimeoutsAssumption == Timeouts \subseteq Nat
ASSUME BoundsAssumption == MaxTime \in Nat /\ MaxStarts \in Nat

Never == MaxTime + 1
Ticks == 0..MaxTime

VARIABLES
    now,
    m_nTimeout,
    \* the listening socket
    listener,    \* "none", "open", "shut", "closed", or "bound" when bind has failed
    waiting,     \* a client is waiting to be accepted
    \* the thread that calls Start
    at,          \* "out", "watch", "enter", "ready", "asleep", "dispatch" or "returned"
    starts,      \* calls of Start so far
    \* the loop
    loop_done,
    watching,    \* m_ListenIo and m_Async are active
    m_Sig,       \* the loop that has the SIGPIPE watcher of CSigHandle: "none" yet, "here" or
                 \* "elsewhere"
    wakeAt,      \* the end of the sleep
    \* the thread that calls Stop
    stop,        \* "no", "shut", "closed", "unwatched" or "done", for the present Start
    stoppedAt,   \* history: when Stop unlooped a loop that ran, or Never
    \* CTcpConnection
    conn,        \* "none", "up" or "gone"
    input,       \* there is something to read
    output,      \* m_WriteQueue is not empty and the socket takes more
    period,      \* how often m_Timer repeats
    due,         \* when m_Timer fires next, or Never
    m_nLasttime, \* in seconds
    traffic      \* history: when input was last read or output written

loopVars == <<at, starts, loop_done, watching, m_Sig, wakeAt>>
stopVars == <<stop, stoppedAt>>
connVars == <<conn, input, output, period, due, m_nLasttime, traffic>>
vars == <<now, m_nTimeout, listener, waiting, loopVars, stopVars, connVars>>

time == now \div TicksPerSecond     \* (int)time(0)

Up(n) == conn[n] = "up"

TypeOK ==
    /\ now \in Ticks
    /\ m_nTimeout \in Timeouts \cup {TCP_CONNECTION_TIMEOUT}
    /\ listener \in {"none", "open", "shut", "closed", "bound"}
    /\ waiting \in BOOLEAN
    /\ at \in {"out", "watch", "enter", "ready", "asleep", "dispatch", "returned"}
    /\ starts \in 0..MaxStarts
    /\ loop_done \in BOOLEAN /\ watching \in BOOLEAN
    /\ m_Sig \in {"none", "here", "elsewhere"}
    /\ wakeAt \in Nat
    /\ stop \in {"no", "shut", "closed", "unwatched", "done"}
    /\ stoppedAt \in Ticks \cup {Never}
    /\ conn \in [Conns -> {"none", "up", "gone"}]
    /\ input \in [Conns -> BOOLEAN]
    /\ output \in [Conns -> BOOLEAN]
    /\ period \in [Conns -> Nat]
    /\ due \in [Conns -> Nat]
    /\ m_nLasttime \in [Conns -> Nat]
    /\ traffic \in [Conns -> Ticks]
    /\ \A n \in Conns : Up(n) /\ period[n] > 0 => due[n] <= now + period[n]

Init ==
    /\ now = 0
    /\ m_nTimeout = TCP_CONNECTION_TIMEOUT
    /\ listener = "none" /\ waiting = FALSE
    /\ at = "out" /\ starts = 0
    /\ loop_done = FALSE /\ watching = FALSE /\ m_Sig = "none"
    /\ wakeAt = 0
    /\ stop = "no" /\ stoppedAt = Never
    /\ conn = [n \in Conns |-> "none"]
    /\ input = [n \in Conns |-> FALSE]
    /\ output = [n \in Conns |-> FALSE]
    /\ period = [n \in Conns |-> 0]
    /\ due = [n \in Conns |-> Never]
    /\ m_nLasttime = [n \in Conns |-> 0]
    /\ traffic = [n \in Conns |-> 0]

-----------------------------------------------------------------------------
(* The clients and the application. *)

ClientConnects ==
    /\ listener = "open" /\ ~waiting
    /\ \E n \in Conns : conn[n] = "none"
    /\ waiting' = TRUE
    /\ UNCHANGED <<now, m_nTimeout, listener, loopVars, stopVars, connVars>>

ClientSends(n) ==
    /\ Up(n) /\ ~input[n]
    /\ input' = [input EXCEPT ![n] = TRUE]
    /\ UNCHANGED <<now, m_nTimeout, listener, waiting, loopVars, stopVars,
                   conn, output, period, due, m_nLasttime, traffic>>

\* A __Send on the loop thread leaves something to write, or the client takes what fills
\* the socket.
OutputReady(n) ==
    /\ Up(n) /\ ~output[n]
    /\ output' = [output EXCEPT ![n] = TRUE]
    /\ UNCHANGED <<now, m_nTimeout, listener, waiting, loopVars, stopVars,
                   conn, input, period, due, m_nLasttime, traffic>>

SetConnectionTimeout(s) ==
    /\ m_nTimeout' = s
    /\ UNCHANGED <<now, listener, waiting, loopVars, stopVars, connVars>>

-----------------------------------------------------------------------------
(* Start. *)

\* The application starts the server, and starts it again after a Stop or a bind error.
MayStart ==
    /\ starts < MaxStarts
    /\ \/ at = "out"
       \/ at = "returned" /\ (stop = "done" \/ (stop = "no" /\ listener = "bound"))

\* bind fails, and Start returns false: the socket stays open.
StartFails ==
    /\ MayStart
    /\ listener' = "bound"
    /\ at' = "returned" /\ starts' = starts + 1
    /\ stop' = "no" /\ stoppedAt' = Never
    /\ UNCHANGED <<now, m_nTimeout, waiting, loop_done, watching, m_Sig, wakeAt, connVars>>

\* socket, bind and listen.
Start ==
    /\ MayStart
    /\ listener' = "open"
    /\ at' = "watch" /\ starts' = starts + 1
    /\ stop' = "no" /\ stoppedAt' = Never
    /\ UNCHANGED <<now, m_nTimeout, waiting, loop_done, watching, m_Sig, wakeAt, connVars>>

\* m_ListenIo.start, m_Async.start, and CSigHandle::GetInstance, which puts its watcher on
\* the loop of the first server of the process only.
StartWatchers ==
    /\ at = "watch"
    /\ watching' = TRUE
    /\ m_Sig' \in IF m_Sig = "none" THEN {"here", "elsewhere"} ELSE {m_Sig}
    /\ at' = "enter"
    /\ UNCHANGED <<now, m_nTimeout, listener, waiting, starts, loop_done, wakeAt, stopVars,
                   connVars>>

\* m_Loop.loop(): ev_run forgets an ev_break that came before it.
EnterLoop ==
    /\ at = "enter"
    /\ loop_done' = FALSE
    /\ stoppedAt' = Never
    /\ at' = "ready"
    /\ UNCHANGED <<now, m_nTimeout, listener, waiting, starts, watching, m_Sig, wakeAt, stop,
                   connVars>>

-----------------------------------------------------------------------------
(* An iteration of ev_run. *)

\* activecnt > 0: each connection has its m_Io.
Active == watching \/ m_Sig = "here" \/ \E n \in Conns : Up(n)

\* The loop sleeps until an event, the first timer, or MAX_BLOCKTIME, unless it has been
\* told to stop.
Sleep ==
    /\ at = "ready"
    /\ at' = IF loop_done THEN "returned" ELSE "asleep"
    /\ \E w \in IF Active THEN {now + MAX_BLOCKTIME} \cup {due[n] : n \in Conns} ELSE {now} :
          /\ Active => w <= now + MAX_BLOCKTIME /\ \A n \in Conns : w <= due[n]
          /\ wakeAt' = w
    /\ UNCHANGED <<now, m_nTimeout, listener, waiting, starts, loop_done, watching, m_Sig,
                   stopVars, connVars>>

\* Stop's shutdown is an event of the listening socket, until close takes it out of epoll.
Readable ==
    \/ watching /\ (listener = "shut" \/ (listener = "open" /\ waiting))
    \/ \E n \in Conns : Up(n) /\ (input[n] \/ output[n])

Wake ==
    /\ at = "asleep"
    /\ Readable \/ now >= wakeAt
    /\ at' = "dispatch"
    /\ UNCHANGED <<now, m_nTimeout, listener, waiting, starts, loop_done, watching, m_Sig,
                   wakeAt, stopVars, connVars>>

\* __Accept and the constructor of CTcpConnection.
Accept(n) ==
    /\ at = "dispatch" /\ watching
    /\ listener = "open" /\ waiting
    /\ conn[n] = "none"
    /\ waiting' = FALSE
    /\ conn' = [conn EXCEPT ![n] = "up"]
    /\ period' = [period EXCEPT ![n] = m_nTimeout * TicksPerSecond]
    /\ due' = [due EXCEPT ![n] = now + m_nTimeout * TicksPerSecond]
    /\ m_nLasttime' = [m_nLasttime EXCEPT ![n] = time]
    /\ traffic' = [traffic EXCEPT ![n] = now]
    /\ UNCHANGED <<now, m_nTimeout, listener, loopVars, stopVars, input, output>>

\* Mutant: __IoCallback does not note the time.
ReadUntimed(n) ==
    /\ at = "dispatch" /\ Up(n) /\ input[n]
    /\ input' = [input EXCEPT ![n] = FALSE]
    /\ traffic' = [traffic EXCEPT ![n] = now]
    /\ UNCHANGED <<now, m_nTimeout, listener, waiting, loopVars, stopVars, conn, output, period,
                   due, m_nLasttime>>

\* __IoCallback with EV_READ.
Read(n) ==
    /\ at = "dispatch" /\ Up(n) /\ input[n]
    /\ input' = [input EXCEPT ![n] = FALSE]
    /\ m_nLasttime' = [m_nLasttime EXCEPT ![n] = time]
    /\ traffic' = [traffic EXCEPT ![n] = now]
    /\ UNCHANGED <<now, m_nTimeout, listener, waiting, loopVars, stopVars, conn, output, period,
                   due>>

\* __IoCallback with EV_WRITE: what the socket takes puts the timeout off, too.
Write(n) ==
    /\ at = "dispatch" /\ Up(n) /\ output[n]
    /\ output' = [output EXCEPT ![n] = FALSE]
    /\ m_nLasttime' = [m_nLasttime EXCEPT ![n] = time]
    /\ traffic' = [traffic EXCEPT ![n] = now]
    /\ UNCHANGED <<now, m_nTimeout, listener, waiting, loopVars, stopVars, conn, input, period,
                   due>>

\* Mutant: m_Timer.start without a period.
RearmedNever(n) == Never

\* A timer with a period is set on from its last time, one without stops.
Rearmed(n) == IF period[n] = 0 THEN Never
              ELSE IF due[n] + period[n] < now THEN now ELSE due[n] + period[n]

Fires(n) == at = "dispatch" /\ Up(n) /\ due[n] <= now

\* Mutant: > for >=.
TimedOutLate(n) == time - m_nLasttime[n] > TCP_CONNECTION_TIMEOUT

TimedOut(n) == time - m_nLasttime[n] >= TCP_CONNECTION_TIMEOUT

\* __TimerCallback of a connection that is not idle.
TimerCallback(n) ==
    /\ Fires(n) /\ ~TimedOut(n)
    /\ due' = [due EXCEPT ![n] = Rearmed(n)]
    /\ UNCHANGED <<now, m_nTimeout, listener, waiting, loopVars, stopVars, conn, input,
                   output, period, m_nLasttime, traffic>>

\* __TimerCallback and OnClientTimeout; the destructor stops the watchers.
ReportTimeout(n) ==
    /\ Fires(n) /\ TimedOut(n)
    /\ conn' = [conn EXCEPT ![n] = "gone"]
    /\ due' = [due EXCEPT ![n] = Never]
    /\ UNCHANGED <<now, m_nTimeout, listener, waiting, loopVars, stopVars, input, output,
                   period, m_nLasttime, traffic>>

\* The end of the iteration: all the timers that were due have been called.
EndIteration ==
    /\ at = "dispatch"
    /\ \A n \in Conns : ~Fires(n)
    /\ at' = IF loop_done \/ ~Active THEN "returned" ELSE "ready"
    /\ UNCHANGED <<now, m_nTimeout, listener, waiting, starts, loop_done, watching, m_Sig,
                   wakeAt, stopVars, connVars>>

-----------------------------------------------------------------------------
(* Stop, on another thread, once for each Start. *)

StopShutdown ==
    /\ stop = "no" /\ listener \in {"open", "bound"}
    /\ listener' = IF listener = "open" THEN "shut" ELSE listener
    /\ waiting' = FALSE
    /\ stop' = "shut"
    /\ UNCHANGED <<now, m_nTimeout, loopVars, stoppedAt, connVars>>

StopClose ==
    /\ stop = "shut"
    /\ listener' = "closed"
    /\ stop' = "closed"
    /\ UNCHANGED <<now, m_nTimeout, waiting, loopVars, stoppedAt, connVars>>

\* m_ListenIo.stop and m_Async.stop.
StopWatchers ==
    /\ stop = "closed"
    /\ watching' = FALSE
    /\ stop' = "unwatched"
    /\ UNCHANGED <<now, m_nTimeout, listener, waiting, at, starts, loop_done, m_Sig, wakeAt,
                   stoppedAt, connVars>>

InLoop == at \in {"ready", "asleep", "dispatch"}

\* Mutant: Stop does not unloop.
StopWithoutUnloop ==
    /\ stop = "unwatched"
    /\ stoppedAt' = IF InLoop THEN now ELSE Never
    /\ stop' = "done"
    /\ UNCHANGED <<now, m_nTimeout, listener, waiting, loopVars, connVars>>

\* m_Loop.unloop(): nothing wakes the loop.
StopUnloop ==
    /\ stop = "unwatched"
    /\ loop_done' = TRUE
    /\ stoppedAt' = IF InLoop THEN now ELSE Never
    /\ stop' = "done"
    /\ UNCHANGED <<now, m_nTimeout, listener, waiting, at, starts, watching, m_Sig, wakeAt,
                   connVars>>

-----------------------------------------------------------------------------
LoopIsIdle == at = "asleep" /\ ~Readable /\ now < wakeAt

Tick ==
    /\ now < MaxTime
    /\ InLoop => LoopIsIdle
    /\ now' = now + 1
    /\ UNCHANGED <<m_nTimeout, listener, waiting, loopVars, stopVars, connVars>>

Next ==
    \/ ClientConnects \/ \E n \in Conns : ClientSends(n) \/ OutputReady(n)
    \/ \E s \in Timeouts : SetConnectionTimeout(s)
    \/ StartFails \/ Start \/ StartWatchers \/ EnterLoop
    \/ Sleep \/ Wake \/ EndIteration
    \/ \E n \in Conns : \/ Accept(n) \/ Read(n) \/ Write(n)
                        \/ TimerCallback(n) \/ ReportTimeout(n)
    \/ StopShutdown \/ StopClose \/ StopWatchers \/ StopUnloop
    \/ Tick

Spec == Init /\ [][Next]_vars

-----------------------------------------------------------------------------
\* Start returns when Stop has been called while the loop ran, though nothing wakes the
\* loop and other watchers keep it going: at the latest when libev's longest sleep is over.
StopReturns == InLoop /\ stoppedAt # Never => now <= stoppedAt + MAX_BLOCKTIME

\* A client is reported timed out only after TCP_CONNECTION_TIMEOUT in which nothing was read from
\* it or written to it.  The times compared are whole seconds, so that it may be up to a second
\* less.
NoEarlyTimeout ==
    [][\A n \in Conns : conn[n] = "up" /\ conn'[n] = "gone" =>
          now - traffic[n] > (TCP_CONNECTION_TIMEOUT - 1) * TicksPerSecond]_vars

\* A client with which nothing has been exchanged for longer than the timeout and one period of
\* its timer has been reported, also when the loop has been stopped and started again in between.
IdleReported ==
    LoopIsIdle => \A n \in Conns : Up(n) /\ period[n] > 0 =>
        now - traffic[n] < TCP_CONNECTION_TIMEOUT * TicksPerSecond + period[n]

\* A client with which nothing is exchanged is reported after the time given to SetConnectionTimeout, or at
\* the next look at it.
TimeoutAsSet ==
    LoopIsIdle => \A n \in Conns : Up(n) /\ period[n] > 0 => now - traffic[n] <= 2 * period[n]
-----------------------------------------------------------------------------
(* Inductive invariants, for the proofs. *)

\* A loop that was told to stop sleeps no longer than it did then.
StopInv ==
    InLoop /\ stoppedAt # Never =>
        /\ loop_done
        /\ now <= stoppedAt + MAX_BLOCKTIME
        /\ at = "asleep" => wakeAt <= stoppedAt + MAX_BLOCKTIME

SleepInv ==
    at = "asleep" => /\ wakeAt <= now + MAX_BLOCKTIME
                     /\ \A n \in Conns : Up(n) => wakeAt <= due[n]

\* When the timer last looked, the connection had not been idle for long enough.
TimerInv ==
    \A n \in Conns : Up(n) =>
        /\ traffic[n] <= now
        /\ m_nLasttime[n] = traffic[n] \div TicksPerSecond
        /\ period[n] > 0 =>
              due[n] < traffic[n] + TCP_CONNECTION_TIMEOUT * TicksPerSecond + period[n]

Inv == TypeOK /\ StopInv /\ SleepInv /\ TimerInv
=============================================================================
