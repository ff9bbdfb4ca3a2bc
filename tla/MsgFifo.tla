------------------------------- MODULE MsgFifo -------------------------------
(***************************************************************************)
(* What ITcpServer::Send promises for one client: while the client is      *)
(* connected its messages leave in the order in which they were handed     *)
(* over, byte by byte, none twice and none left out.  When the connection  *)
(* ends, what has not left yet is dropped.                                 *)
(***************************************************************************)
EXTENDS Naturals, Sequences

CONSTANTS Msgs,  \* messages
          Size   \* their lengths in bytes

VARIABLES open,     \* the client is connected
          pending,  \* messages handed over, with the number of bytes of each that have left
          out       \* the bytes that have left: <<message, position>>

fifoVars == <<open, pending, out>>

Buffer(m, n) == [msg |-> m, pos |-> n]
Left(b) == Size[b.msg] - b.pos

Init == open = TRUE /\ pending = <<>> /\ out = <<>>

Put(m) ==
    /\ open
    /\ pending' = Append(pending, Buffer(m, 0))
    /\ UNCHANGED <<open, out>>

\* The next k bytes of the oldest message leave.
Emit(k) ==
    /\ LET b == Head(pending)
       IN  /\ out' = out \o [i \in 1..k |-> <<b.msg, b.pos + i>>]
           /\ pending' = IF k = Left(b)
                         THEN Tail(pending)
                         ELSE <<Buffer(b.msg, b.pos + k)>> \o Tail(pending)
    /\ UNCHANGED open

Close ==
    /\ open
    /\ open' = FALSE
    /\ pending' = <<>>
    /\ UNCHANGED out

Next ==
    \/ \E m \in Msgs : Put(m)
    \/ /\ open /\ pending # <<>>
       /\ \E k \in 0..Left(Head(pending)) : Emit(k)
    \/ Close

Spec == Init /\ [][Next]_fifoVars
=============================================================================
