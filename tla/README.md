# serverlib in TLA+

`serverlib` is a small C++ library on libev: a TCP server and client, a UDP server and
client, and a "common" server that cuts the TCP stream into packets and hands them to a pool
of threads. The modules here model the parts of it that threads, descriptors and partial
I/O make hard. Every definition is taken from the sources; `PROJECT.json` names the lines for
each of them.

How to check: `tlc -config ServerNoClose.cfg MCTcpServer` (and likewise for the other runs in
the table below), `tlapm TcpServerProofs.tla`.

## The system

| component | state | operations | talks to |
|---|---|---|---|
| `CTcpServer` (tcpserver.*) | listening socket, `m_SocketInfoManager` (key -> `shared_ptr<CTcpConnection>`), `m_Functions`, `m_Spinlock`, `m_Async` | `Start` (runs the loop), `Stop`, `Send`, `CloseClient`, `__Accept`, `__AsyncCallback`, `OnClient...` | the application through `ITcpServerDataHandle`; libev |
| `CTcpConnection` (tcpserver.*) | `m_SocketClient`, `m_Socket`, `m_Io`, `m_Timer`, `m_WriteQueue`, `m_nLasttime` | `__IoCallback`, `__TimerCallback`, `__ErrorCallback`, `Send`, `Close`, destructor | its server, the kernel |
| `CSocketInfoManager` (tcpserver.h) | a map per channel under a lock | `Add` (overwrites), `Get`, `Remove` | loop thread and callers of `CloseClient` |
| `COutputBuffer` (outputbuffer.h) | a copy of the data, `m_nPos` | `GetBytes`, `AddPos` | both send paths |
| `CCommonServer` (commonserver.*) | `m_Contents` (bytes left over per key), `m_Threads`, `m_nCount` | `__AddContent`, `__RemoveContent`, `__HandlePkt`, `SetThreadNum`, destructor | a `CTcpServer`, from which it derives |
| `CPktHandleThread` (commonserver.*) | queue, mutex, condition, `m_bThreadRun` | `AddPkt`, `HandlePkt`, `Stop` | loop thread, application |
| `CTcpClient` (tcpclient.*) | socket, `m_WriteQueue` kept across connections, `m_Functions`, `m_Async` | `Start`, `Stop`, `Send`, reconnect on any error | application through `ITcpClientDataHandle` |
| `CUdpServer`, `CUdpClient` (udp*.*) | socket | `Start`, `Stop`, `Send`, `__ReadCallback` | application |
| test programs | proxies, echo servers, load generators | | all of the above |

Threads. The thread that calls `Start` runs `m_Loop.loop()` and with it every callback; the
application calls `Send` and `CloseClient` from any thread, and from inside a callback. What
crosses threads: `m_Functions` (spinlock, then `ev_async`), the connection map (a lock inside
the manager), a `shared_ptr` held by `CloseClient`, the queues of the packet threads (mutex and
condition), and, without any lock, `m_Socket` of a connection.

What is hard. A descriptor number is reused as soon as it is closed, while the watcher, the map
entry and the key still carry it. The destructor runs wherever the last `shared_ptr` goes away,
in a callback or in an application thread. A `Send` may come between the loop's look at the
queue and its sleep. `write` takes any part of a buffer. The stream arrives in any pieces. A
signal to a packet thread may come before it waits. What makes each part correct is the list of
properties below; `PROJECT.json` lists the hazards, each at its line, with the properties that
watch over it, or the reason why none does.

## The modules

* **TcpServer** (checked through `MCTcpServer`): the life of connections. The kernel's side is
  `ofd` (what each descriptor number is open on), `inbox`, `hup`, `addr`; a connection object
  is `obj`, `fd` (the number in its key, which `m_Io` watches), `m_Socket`, `m_Io`,
  `m_WriteQueue` (a length), `idle` (the timeout has passed); the server is `m_Connections`,
  `m_Functions`, `asyncSent`, `batch`. The loop thread executes one callback at a time; an
  application callback is a state of its own (`loop`), so that whatever the application may do
  inside it can happen. `CloseClient` is the steps `CloseGet`, `CloseShutdown` or
  `CloseSkipped`, `CloseFd`, `CloseZero`, `CloseRelease`, each between two accesses to shared
  state. `Destroy` is the destructor, part of the action that drops the last reference. The
  four ways to lose a client (`OnClientDisconnected`, `OnClientRecvError`, `OnClientSendError`,
  `OnClientTimeout`) run the same code and are one operator. A callback with
  both EV_READ and EV_WRITE is two actions, which other events of the loop may separate; the
  early return at tcpserver.cpp:121-125 (write event, empty queue) is in `Write`, and
  `WriteInterest` shows that it is never taken.
* **MsgFifo**: what `Send` promises for one client, a FIFO of messages whose bytes leave in order.
* **SendPath** (`MCSendPath`): `Send` and `__AsyncCallback` step by step around the spinlock and
  `ev_async`, the write queue with real buffers, partial writes. It implements MsgFifo: the
  pending messages are `m_WriteQueue \o functions \o m_Functions`. `Stop` takes `m_Async` off the loop
  and forgets a wake-up that is pending, `Start` puts it back without one; what is queued and the
  connection survive both. `stranded` says that `Start` has found calls in `m_Functions` that no wake-up
  announces any more.
* **ServerLoop**: `Start` and `Stop` of the server, libev's sleep, and the idle timers, against a
  clock. `at` is where the thread that calls `Start` is (before the watchers, at the entry of
  `ev_run`, which clears `loop_done`, in an iteration, asleep, returned); `Stop` is its calls in
  their order, on another thread. A connection is its timer: `period` (what `m_nTimeout` was when
  it was accepted), `due`, `m_nLasttime` in whole seconds, and both directions of traffic: `Read` and
  `Write` are the two halves of `__IoCallback`, each of which refreshes `m_nLasttime`. `m_Sig` is whether the SIGPIPE watcher of
  `CSigHandle`, one for the process, sits on this loop and so keeps it alive without watchers.
* **TcpClient** (`MCTcpClient`): the client. `m_Socket` is the connection it was made for, counted
  from 1, `peer` what has become of it, `m_Io` the connection whose number is watched. A callback
  is one step, up to the report to the application and the `sleep(1)` at its end; `Wakes` is the
  `__Connect` after it, and `Stop` may come in between. `Connect` and `ConnectFails` are the two
  outcomes of `socket()`. `WatchAll` is `m_Io.set` in `__Send`, which makes libev notice a number
  that was closed under it. `Stop` is four steps on another thread, taken while the loop runs; after
  it the application may call `Start` again, with the queues as they are. `Send` and the swap are
  single steps here: SendPath has taken the same code apart.
* **PacketQueues**: what the packet threads promise, plain queues to which the packets are dealt by their
  number: `ThreadOf` is `(unsigned int)m_nCount % m_nThreadNum`, a round robin that starts again from
  thread 0 whenever the unsigned ints (`UINT_RANGE` of them) have come round.
* **PacketPool**: the packet threads and the destructor that joins them; a step is a critical
  section or one access to `m_bThreadRun`. It implements PacketQueues: what a thread still has to
  pass on is what it has in hand and its `m_PktQueue`.
* **Framing**: `__AddContent` and `__RemoveContent` on bytes; `Split` is its loop, as many passes as
  there are bytes, the last of them idle. A header is the four bytes of an int, to the base `Radix` (256
  in the code), and bodies have one to `INT_MAX - 4` bytes. `CServerContentManager` in test/tcpproxy.cpp is the same code.
* **CommonServer** (`MCCommonServer`): Framing and PacketQueues composed. The loop thread cuts the
  stream of successive connections under one key, and calls the application itself or hands the
  packets of a callback over to the threads (`Pool!Puts`), which pass them on (`Pool!Take`) while
  clients come and go. The number of threads is what `SetThreadNum` makes of the request.
* **UdpSocket**: `CUdpServer` and `CUdpClient`, several in a process, on one table of descriptors.
  `Start`, `Stop` and `Send` are taken apart at each access to `m_Socket`, the watcher and the
  loop; the compiler may read `m_Socket` once or twice in `Send`, and both are in the model
  (`Named`). `armed` and `pending` are libev's view of the descriptor, `call[t].sure` says that
  a `Send` began after `Start` had stored `m_Socket` and that no `Start` or `Stop` of the object has
  overlapped it; which number the other calls name is not told apart (`UnsureCall`). `socket()` and `bind`
  may fail: a client gives its -1 to `m_Io.start`, which ends the process (`StartIoAborts`, after which
  nothing happens), and a server that is started again after a bind error stores the new number over the
  one of the socket that is still open (`lost`).
* **TcpServerProofs**, **SendPathProofs**, **TcpClientProofs**, **PacketPoolProofs**,
  **ServerLoopProofs**, **UdpSocketProofs**, **CommonServerProofs**: the theorems. **SequenceLemmas**: what
  they need of sequences.

`Stop` calls into a loop that runs on another thread, and libev takes no lock: as C++ this is a data
race. The modules take each of its calls (`m_Io.stop`, `m_Async.stop` and `unloop`) as atomic, and say
what follows from their order alone.

The data is cut down to what the properties tell apart: in TcpServer a piece of input is a
unit and a queue its length; in SendPath a byte is (message, position); in PacketPool a packet is
its number; only Framing and CommonServer have real bytes, because lengths are read from them.

## The runs

| run | asks | bounds |
|---|---|---|
| ServerNoClose | no `CloseClient`: `DataFromItsClient`, `CallbacksInTurn`, `WriteInterest` | 2 objects, 2 endpoints, 2 numbers besides 0, queue limit 1, 2 queued calls |
| ServerClose | `CloseClient` inside callbacks and on another thread, under `CloseSpec`: `OwnDescriptor`, `NoDescriptorLeak` | as above, queue limit 0, 1 queued call |
| ServerLive | `HangupReported`, `ClosedIsUnregistered`, under `FairSpec` | 2 objects, 1 endpoint, 1 number besides 0, one closing thread |
| ServerCloseReuse | finds `DataFromItsClient` violated once `CloseClient` is called | 1 number besides 0 |
| SendPath | `NoLostWakeup`, `StreamIntact`, refinement `FifoSpec`, `SendsComplete` | 3 threads, 4 sends, messages of 2 and 0 bytes, queue limit 1, 2 starts |
| ServerLoop | `StopReturns`, `IdleReported`, `NoEarlyTimeout` | 15 ticks of half a second, timeout 2 s, periods of 0, 2 and 3 s, sleep of 5 ticks, 2 starts |
| ServerTimeout | finds `TimeoutAsSet` violated | timeout constant 3 s, 1 s asked for |
| TcpClient | `NoLostWakeup`, `StreamIntact`, `ToldBetween`, and under `FairSpec` `Reconnects`, `SendsComplete`, `StopEndsStart` | 4 sends, queue limit 1, 3 connections, 1 failing `socket()`, a Stop and a Start after it |
| ClientReconnect | finds `WholeBuffers` violated | 2 connections |
| PacketPool | `PopsWhatIsThere`, `InOrderOnce`, `PacketsHandled`, `DestructorReturns`, refinement `ImplementsQueues` | 2 threads, 7 packets, 3 unsigned ints |
| CommonServer | `PacketsIntact`, `NothingWithheld`, `AppInOrder`, `AppGetsAll` | 0 to 2 threads, up to 4 packets, 3 unsigned ints, 2 connections under one key, bodies of 1 and 4 bytes, two abnormal headers, `Radix` 4, at most 16 bytes in a recv |
| UdpSocket | `OwnSocket`, `OwnDatagram`, `NoSocketLeak`, `StopEndsStart` | a server and a client, 2 numbers besides 0, one thread that sends |

Why these bounds. The server properties concern an object against at most one other that takes
over its number or its key: two objects, whose numbers and endpoints may be the same or not,
already give every such meeting, and each object is used once, so that a third life brings no new
pair. One unit of input tells "something to read" from "nothing". The queue limit is the
smallest at which a queue can be neither empty nor over the limit (0 where queues are not the
question); the code tests with `>` before it pushes, so that the queue may hold limit + 1. Four sends fill a
queue of two, overflow it and leave one more call in the batch, and in TcpClient leave something to send
after a Stop. Three connections give the client one that breaks with a part of a buffer gone, one that
breaks again or is stopped, and a last one that stays, on which what is left must leave, be it made by
`Start` or by the callback that slept through the Stop. Two starts of the server give SendPath calls that are
queued before, during and after a Stop, and a later Send that wakes them. Seven packets give each of two
threads a second packet while the first is in hand, and with three unsigned ints, a number that two does not
divide as 2^32 is not divided by every thread count, two moments at which the turn starts again. Four
packets give each of two connections two. A byte of four values makes a body of four bytes, and the negative
header, use more than one digit of the length. A piece of up to 16 bytes
holds a whole packet and the beginning of the next, several short packets, or any part of a header.
Half seconds show every rounding of `(int)time(0)`; 15 ticks hold an idle time, a period of each length,
a Stop and a second Start with overdue timers. Two UDP objects and two numbers are the least with
which one object can be given the number another has just closed, and `socket()` also fails when lost sockets use
both up. In ServerClose the loop thread, inside its callbacks, and one other thread close clients: the other
may be in the middle of a call while the loop closes another client, times the same one out, or accepts. Symmetry (connections and
endpoints) is used only in runs without liveness properties.

`CHECK_DEADLOCK FALSE` is in every cfg because connections, sends and packets are finite in
number: when they are used up and everyone is gone, the model stops, and rightly so. That nobody
waits for ever is what the liveness properties say.

### Fairness

* The loop thread leaves a callback (weak), and libev invokes every watcher that is ready in each
  iteration: strong fairness for a connection's read event, its timer and `m_Async`, since a
  callback of another connection in between only delays them. `ReadEnds` is fair only on an open
  descriptor: epoll forgets a closed one, so that a closed connection may get no event at all, and
  `ClosedIsUnregistered` rests on the timer alone.
* `TimePasses` is fair for a connection whose descriptor is closed: nothing refreshes
  `m_nLasttime` there.
* A thread inside `CloseClient` or with the spinlock goes on; a packet thread is scheduled, its
  `pthread_cond_timedwait` returns after a second, and the application's callback returns.
* In SendPath write events are strongly fair: the peer takes what it is sent in the end, or the
  connection breaks.
* ServerLoop has no fairness: its properties are bounds in time, and the assumption is that the loop
  thread is prompt, which is that no tick passes while it has something to do. All other threads may
  be as slow as they like. libev itself ends every sleep after `MAX_BLOCKTIME` (59.743 s).
* In UdpSocket the loop thread goes on and its sleep ends, and a `Stop` that has begun goes on.
* In CommonServer a packet thread comes to each packet in the end: that is `PacketsHandled` of
  PacketPool. The loop thread and the peer owe nothing.
* In TcpClient a `Stop` goes on, `sleep(1)` and the loop's sleep end, a connection being made is made or fails, every ready watcher is invoked, and the last
  connection takes what it is sent.
* Nothing is assumed of peers and of the application otherwise, nor of `Accept`, `Send`, `Start` or
  the beginning of `CloseClient` and `Stop`.

## What the checks show

Without `CloseClient` the server is right: input is attributed to its sender, the callbacks
alternate per key, hang-ups are reported. With `CloseClient`, inside a callback as well as on another thread, no
descriptor leaks and nothing closes another client's socket (`NoDescriptorLeak`, `OwnDescriptor`), as long
as the calls for one client do not overlap (`OneCallPerClient`, which `CloseSpec` adds): two calls for one
client at once race on `m_Socket` and the code promises nothing.

**Three disagreements.** `Close` closes the descriptor and leaves `m_Io` started on its number and the
connection in the manager until the idle timer fires. If `accept` hands out the number
meanwhile, the old watcher reads the new client's socket and the application is told that the
closed client sent the data (run ServerCloseReuse), where iserver.h:13 and the echo server
(test/tcpechoserver.cpp:25) take `sClient` for the sender.

The client goes on with its queue after a reconnection where it was before it, in the middle of a
buffer too (run ClientReconnect): the new connection starts with the rest of a packet. The proxy
sends a packet per `Send` (test/tcpproxy.cpp:78), and the server at the other end takes the first four
bytes for a length (commonserver.cpp:176).

`SetConnectionTimeout` sets how often the timer looks, and the timer compares with the constant
`TCP_CONNECTION_TIMEOUT` (run ServerTimeout): a client for whom 10 seconds were asked stays connected
for 600, where iserver.h:36 offers a connection timeout.

`Send` implements its FIFO and loses no wake-up while the loop runs, and everything queued leaves or is
dropped with its client, with one exception: `Stop` takes a pending wake-up back and `Start` sends none
(tcpserver.cpp:226 and 210-211; the client's `Start` does), so that calls queued around a Stop stay in
`m_Functions` until the next `Send` of any client. `SendsComplete` says that this is the only case. The
packet threads lose signals, between reading the size and waiting, but
the timeout makes up for each of them (`PacketsHandled`, and `DestructorReturns` for the lost
stop), and what remains is plain queues to which packets are dealt in turn; after 2^32 packets, where
the cast of `m_nCount` to an unsigned int comes round, the turn starts again from thread 0, whoever was
next, and no packet is lost or overtaken by it. Packets come out of the stream whole and in
order however it is cut, and each reaches the application, also after its client has gone. With
two threads or more the packets of one client may overtake each other, and a packet may reach the
application after it was told that the client has gone; the code promises nothing else.

Nothing in a `Stop` wakes the loop; a running loop returns all the same, after libev's longest sleep
at the latest (`StopReturns`). A `Stop` that comes before `ev_run` has begun is forgotten, and
`Start` then never returns; the properties are stated for loops that run. Clients with which there was no
traffic are reported within the timeout and a period, also when the loop was stopped for longer than that,
and never more than a second early. Traffic is both ways: a client that only stays silent, and to which the
server keeps writing, is not reported while the socket takes what is written (tcpserver.cpp:144).

The client serves what was sent before `Start`, always connects again while `socket()`
succeeds, and tells the application between two connections. A Stop in the `sleep(1)` of a
callback does not keep `__Connect` from making another connection, which nobody reads until the next
`Start`; but `Start` returns, and the queues survive it whole.

A UDP `Send` reaches its own socket unless a `Start` or `Stop` of the same object overlaps it, or it comes
before `Start` has stored `m_Socket`, which the constructor leaves uninitialised; a callback hands over its
own socket's datagrams until `Stop` begins. The failures of `Start` cost more. The socket that `bind` refused
stays open, and the next `Start` loses it for good when there was no `Stop` between (udpserver.cpp:11-19);
`NoSocketLeak` says that no other socket is lost. The client does not look whether `socket()` failed, and the
-1 it then gives to `m_Io.start` ends the process in an assertion of libev (udpclient.cpp:9-15); `TypeOK`
says that this is the only way in which a watcher comes by it.

## What is proved

For every value of the constants, from the named `ASSUME`s (`FdsAssumption`, `NamesAssumption`,
`ThreadsAssumption`, `BoundsAssumption`, `SizeAssumption`, `ThreadNumAssumption`,
`MaxPktsAssumption`, `RangeAssumption`, `TimeAssumption`, `TimeoutsAssumption`, `ObjsAssumption`,
`RadixAssumption`, `BodiesAssumption`, `AbnormalAssumption`, `PktsAssumption`, `ServerRangeAssumption`,
`RequestsAssumption`), which TLC evaluates in the runs:

* `TcpServerProofs!TypeCorrect`: `[]TypeOK`, any closers. Inductive: `TypeInv`, which adds that
  whatever a watcher, callback, closing thread or map entry refers to has been constructed, since
  `Accept` only takes objects that have not.
* `TcpServerProofs!NoClose` and `InTurn`: with `Closers = {}`, `[]DataFromItsClient` and
  `[]CallbacksInTurn`. Inductive: `NoCloseInv`. Map and live objects correspond one to one
  (`ManagerInv`), an object's number is open on its own connection (`DescriptorInv`), and only live
  objects have watchers (`CallbackInv`); then the socket read is the object's, and a key is announced
  exactly while the map has it.
* `TcpServerProofs!OwnSocket` and `NoLeak`: `CloseSpec => []OwnDescriptor` and `[]NoDescriptorLeak`, for
  any number of threads that call `CloseClient`, the loop's callbacks among them. Inductive: `CloseInv`. What
  is alive is in the manager or held by a closing thread (`ReferenceInv`); the number tested, the number
  closed and the number set to 0 are the same one (`CallInv`); a file belongs to the one object that has its
  number, but for the moment between `CloseFd` and `CloseZero` (`FileInv`). Without `OneCallPerClient`
  `CallInv` is false: a call may close a number that another has closed and `accept` has handed out again.
* `TcpServerProofs!WriteEvents`: `[]WriteInterest`, any closers. Inductive: `WriteInv`, which adds
  that the queue of an object not yet constructed is empty.
* `SendPathProofs!TypeCorrect`, `Wakeup` (`[]NoLostWakeup`) and `Refinement` (`Spec => FifoSpec`).
  Inductive: `Inv`, with `LockInv`: the spinlock has one holder, so a push and its wake-up cannot
  straddle the swap, and `functions` is empty when the swap comes. All of them hold across Stops and Starts;
  `Wakeup` but for the calls that a `Start` finds queued.
* `SendPathProofs!Intact`: `[]StreamIntact`. It is inductive beside `Inv`: the bytes written, those of
  the queue and those of the calls that wait are one stream, and each step moves its cut. A call that is
  cut off the front of `functions` joins the end of `m_WriteQueue`, a write takes the first bytes of the
  first buffer, the swap moves nothing.
* `TcpClientProofs!Intact`: `[]StreamIntact`. Not inductive by itself: a full queue refuses a buffer out
  of the middle of the stream, and to know what is refused one must know the calls that are still to
  come. `QueueInv` says that these are the last ones given to `Send`, each whole and in its turn, and that
  only the last of the connections still takes bytes.
* `TcpClientProofs!TypeCorrect`, `Wakeup`, `Told` (`[]ToldBetween`) and `Watched`: what is queued
  has write events asked for across reconnections, without which `SendsComplete` would fail.
  Inductive: `Inv`, their conjunction with `Quiet`: nothing gathered is untold while a callback sleeps,
  after which the socket is another, whatever `Stop` did meanwhile.
* `PacketPoolProofs!PopsSafely`, `InOrder` and `Refinement` (`Spec => ImplementsQueues`), for any number of
  threads, packets and unsigned ints. Inductive: `Inv`, in which `OneInHand` has a packet in hand
  exactly while the application handles it. `ShareNext` says what one more packet adds to the share
  of each thread. For the refinement the packet in hand stays at the head of the abstract queue until the
  application's callback returns.
* `ServerLoopProofs!StopBound`, `IdleBound` and `NotEarly`, for every timeout, period, resolution
  of the clock and number of connections. Inductive: `Inv`. `StopInv` bounds the sleep of a loop that
  was told to stop, `SleepInv` has every sleep end by the first timer, and `TimerInv` says that when the
  timer last looked the connection had not been without traffic for long enough, so that `due` is less than a
  period past the end of its idle time; that survives a stopped loop, as `due` does not move.
* `UdpSocketProofs!TypeCorrect`, `SendsOwn`, `ReadsOwn`, `NoLeak`, for any number of objects, descriptors
  and threads, and for `socket()` and `bind` that fail at any time. Inductive: `Inv`. `SocketInv` ties
  `m_Socket` to the descriptor table between `Open` and `Stop`, sets what is lost apart, and has what is not
  lost closed whenever an object is out of use; `CallInv` carries it to a `Send` between its test and `sendto`, and `WatchInv` says that
  until `Stop` the number `m_Io` watches is `m_Socket`.

* `CommonServerProofs!Intact` (`[]PacketsIntact`), `HandsOn` (`[]NothingWithheld`), `Typed`
  (`[]ServerTypeOK`) and `InOrder` (`[]AppInOrder`), for all bodies of one to `INT_MAX - 4` bytes, all abnormal
  headers, pieces and numbers of threads, and bytes to any even `Radix`. Inductive: `FramingInv` and `PoolInv`. `FramingInv` says that what is in `m_Contents` and on
  the wire together is a sequence of whole packets (`Whole`), the rest of those sent; `PassWhole` shows
  that a pass of the loop then reads the length the peer wrote, and so cuts exactly the first of them.
  `PoolInv` numbers the packets as they are handed over (`Numbered`): the loop thread, or a single packet
  thread, has passed on the first ones and has the others queued, and those of the current connection
  among them are those the framing handed on (`Owned`), as a packet of an earlier one carries its number.

`SequenceLemmas` is what these proofs need of sequences: that concatenation is associative and cuts
uniquely, how `FlattenSeq` distributes over it, prefixes, a function mapped over a sequence. Induction, over
the length of a sequence and over the passes of the loop of `__AddContent`, is the choice of the least
counterexample (`SmallestMember`) or a set that contains 0 and every successor (`InductionSet`): a set can be
instantiated where a predicate cannot. A recursive function (`FlattenSeq`, `Split`) is first shown to have
a solution (`JoinExists`, `SplitPasses`), and then reasoned about by its equation.

Only model-checked: the liveness properties (`HangupReported`, `ClosedIsUnregistered`, `SendsComplete`,
`Reconnects`, `StopEndsStart`, `PacketsHandled`, `DestructorReturns`, `AppGetsAll`), since liveness under
fairness is beyond the prover. Every safety property of the runs is a theorem; `DataFromItsClient` and
`CallbacksInTurn` for a server whose `CloseClient` is not called, `OwnDescriptor` and `NoDescriptorLeak`
for calls that do not overlap for one client, as in the runs. The inductive invariants that are defined in the modules were checked
on the instances of the runs before they were proved.

## What is not modelled

* **A second `Stop` without a `Start` between, of the TCP classes**, and with it the number that `Stop` has
  closed and `m_Socket` still has (tcpserver.cpp:223, tcpclient.cpp:52): the next `Stop` or `__Connect`
  closes it again, whoever owns it by then. The code gives no promise to state.
* **A `Stop` of the TCP client before its loop runs**: what `ev_run` does with it is in ServerLoop.
* **Two threads that call `CloseClient` for one client at once**: both may pass the test of `m_Socket`.
* **Keys that are reused while calls of `Send` are queued**: `m_Functions` names its target by
  `SocketClientData_t`, looked up when the call runs. SendPath follows one connection.
* **A `Start` of a UDP object while its `Stop` runs**: both write `m_Socket` and the watcher without a lock. A
  `Stop` during a `Start`, at any of its steps, is modelled.
* **Deleting a `CTcpServer`**: `m_SocketInfoManager` is declared before `m_Loop` (tcpserver.h:170) and is
  destroyed after it, with the watchers of the connections that are left. The test programs never do it.
* **Lengths above `INT_MAX - 4`** in a header: their sum with 4 (commonserver.cpp:182) is undefined.
* **A jump of the wall clock**: `m_nLasttime` is `time(0)`, and ServerLoop's clock only goes forward.
* **A second `SetThreadNum`**, which would drop the first threads while they run on.
* **The application's own state**: test/tcpproxy.cpp (Framing's code on both sides, and one TCP client for
  each residue of the socket number), test/udpproxy.cpp (stateless), the echo servers (a callback that
  calls `Send`) and the load generators. An application that forgets half-gathered input on every
  `OnSendError`, as test/tcpproxy.cpp:140-143 does, loses its place in the stream when a full queue
  (tcpclient.cpp:118), which keeps the connection, is the reason.
* **libev**: the headers in ev/ are third-party; what the code relies on (level-triggered events, `ev_async`,
  the sleep of `ev_run` and `loop_done`, watchers that stop with their objects) is in the guards.
* The factories (iserver.cpp, iclient.cpp: calls of `new`), the client's `OnConnected` (declared in
  iclient.h:11 and never called), the numbers that other files of the process may take over while a
  client's watcher is stale after a failed `socket()`, the kinds of socket errors beyond what the
  callbacks distinguish, and allocation failures.
