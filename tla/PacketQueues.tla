----------------------------- MODULE PacketQueues -----------------------------
(***************************************************************************)
(* What the packet threads of a CCommonServer promise: packets are numbered*)
(* in the order they are handed over, the number names the thread, and each*)
(* thread passes its own on to the application once and in order.  How a   *)
(* thread waits, is woken, counts its queue and holds a packet in its hand *)
(* does not show.  PacketPool implements this; CommonServer uses it.       *)
(***************************************************************************)
EXTENDS Integers, Sequences, SequencesExt

CONSTANT UINT_RANGE   \* how many unsigned ints there are: 2^32

VARIABLES
    threads,   \* how many
    count,     \* packets handed over so far
    queue,     \* what each thread still has to pass on
    done       \* what it has

Init ==
    /\ threads \in Nat \ {0}
    /\ count = 0
    /\ queue = [t \in 0 .. threads - 1 |-> <<>>]
    /\ done = queue

\* ((unsigned int) n) % m_nThreadNum: round robin, until the number of an unsigned int is
\* used up; the thread that is next then is passed over unless `threads` divides 2^32.
ThreadOf(p) == (p % UINT_RANGE) % threads

\* __HandlePkt.
Put ==
    /\ queue' = [queue EXCEPT ![ThreadOf(count)] = Append(@, count)]
    /\ count' = count + 1
    /\ UNCHANGED <<threads, done>>

\* Put, k times.
Share(t, k) ==
    LET part(p) == IF ThreadOf(p) = t THEN <<p>> ELSE <<>>
    IN  FlattenSeq([i \in 1..k |-> part(count + i - 1)])

Puts(k) ==
    /\ queue' = [t \in 0 .. threads - 1 |-> queue[t] \o Share(t, k)]
    /\ count' = count + k
    /\ UNCHANGED <<threads, done>>

\* OnClientDataReceived of the application.
Take(t) ==
    /\ queue[t] # <<>>
    /\ queue' = [queue EXCEPT ![t] = Tail(@)]
    /\ done' = [done EXCEPT ![t] = Append(@, Head(queue[t]))]
    /\ UNCHANGED <<threads, count>>

Next == Put \/ \E t \in 0 .. threads - 1 : Take(t)

Spec == Init /\ [][Next]_<<threads, count, queue, done>>
=============================================================================
