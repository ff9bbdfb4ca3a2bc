------------------------------- MODULE Framing -------------------------------
(***************************************************************************)
(* How a CCommonServer cuts the byte stream of a client into packets.  A   *)
(* packet is a length, an int of four bytes, and that many bytes.  TCP     *)
(* hands over the stream in pieces that need not respect packets;          *)
(* __AddContent keeps what is left over in m_Contents under the client's   *)
(* key, and __RemoveContent forgets it when the client is gone, since the  *)
(* same key may come again.  CServerContentManager of test/tcpproxy.cpp is *)
(* the same code.                                                          *)
(*                                                                         *)
(* All of this runs on the loop thread: a callback is one step.            *)
(***************************************************************************)
EXTENDS Integers, Sequences, SequencesExt

CONSTANTS
    Bodies,    \* what peers send in a packet
    Abnormal,  \* headers with a length that is not positive, which a peer may send too
    Radix,     \* the values a byte has: 256
    RecvSize,  \* the size of szBuffer in __IoCallback
    MaxSent,   \* bound: packets sent on a connection
    MaxConns   \* bound: connections under the key, one after the other

\* Half of the values of the highest byte are negative.
ASSUME RadixAssumption == Radix \in Nat \ {0} /\ Radix % 2 = 0

Byte == 0 .. Radix - 1

\* Of an int of four bytes.
INT_MAX == Radix * (Radix * (Radix * (Radix \div 2))) - 1

\* With its header a packet is no longer than INT_MAX.
ASSUME BodiesAssumption == \A b \in Bodies : b \in Seq(Byte) /\ Len(b) \in 1 .. INT_MAX - 4
ASSUME BoundsAssumption == MaxConns \in Nat \ {0}
ASSUME AbnormalAssumption == \A h \in Abnormal : h \in Seq(Byte) /\ Len(h) = 4

VARIABLES
    wire,        \* bytes the peer has sent and the server has not received
    m_Contents,  \* the string under the client's key
    sent,        \* history: the packets the peer has sent on this connection
    handled,     \* history: the packets given to __HandlePkt on this connection
    normal,      \* history: no abnormal header has been sent on this connection
    conns        \* connections so far

vars == <<wire, m_Contents, sent, handled, normal, conns>>

Init ==
    /\ wire = <<>>
    /\ m_Contents = <<>>
    /\ sent = <<>>
    /\ handled = <<>>
    /\ normal = TRUE
    /\ conns = 1

-----------------------------------------------------------------------------
(* The peer. *)

\* The four bytes of an int that is not negative, the lowest first.
Header(n) ==
    LET n1 == n \div Radix
        n2 == n1 \div Radix
    IN  <<n % Radix, n1 % Radix, n2 % Radix, n2 \div Radix>>

\* A packet, with its length in the byte order of the host.
Packet(body) == Header(Len(body)) \o body

PeerSends ==
    /\ Len(sent) < MaxSent
    /\ \E b \in Bodies : wire' = wire \o Packet(b) /\ sent' = Append(sent, Packet(b))
    /\ UNCHANGED <<m_Contents, handled, normal, conns>>

PeerSendsAbnormal ==
    /\ normal
    /\ \E h \in Abnormal : wire' = wire \o h
    /\ normal' = FALSE
    /\ UNCHANGED <<m_Contents, sent, handled, conns>>

-----------------------------------------------------------------------------
(* The server. *)

\* *(int*)&strData[0]
nPktLen(data) ==
    LET high == IF data[4] < Radix \div 2 THEN data[4] ELSE data[4] - Radix
    IN  data[1] + Radix * (data[2] + Radix * (data[3] + Radix * high))

\* The first nPktLen + 4 bytes of strData go to __HandlePkt, the others stay.
CutFirst(r) ==
    LET n == nPktLen(r.left) + 4
    IN  [pkts |-> Append(r.pkts, SubSeq(r.left, 1, n)),
         left |-> SubSeq(r.left, n + 1, Len(r.left))]

\* Mutant: nPktLen < 0 for abnormal.
PassZero(r) ==
    IF Len(r.left) <= 4 THEN r
    ELSE IF nPktLen(r.left) < 0 THEN [r EXCEPT !.left = <<>>]
    ELSE IF Len(r.left) >= nPktLen(r.left) + 4 THEN CutFirst(r)
    ELSE r

\* One pass of the loop of __AddContent, over the packets handed to __HandlePkt so far and
\* strData.  A pass that ends the loop is repeated in vain.
Pass(r) ==
    IF Len(r.left) <= 4 THEN r
    ELSE IF nPktLen(r.left) <= 0 THEN [r EXCEPT !.left = <<>>]
    ELSE IF Len(r.left) >= nPktLen(r.left) + 4 THEN CutFirst(r)
    ELSE r

\* Mutant: if instead of while.
SplitOnce(data) == Pass([pkts |-> <<>>, left |-> data])

\* The loop of __AddContent: each pass that does not end it takes a byte at least.
Split(data) ==
    LET passes[k \in 0 .. Len(data)] ==
            IF k = 0 THEN [pkts |-> <<>>, left |-> data] ELSE Pass(passes[k - 1])
    IN  passes[Len(data)]

\* OnClientDataReceived with n bytes of the stream.
AddContent(n) ==
    LET r == Split(m_Contents \o SubSeq(wire, 1, n))
    IN  /\ wire' = SubSeq(wire, n + 1, Len(wire))
        /\ m_Contents' = r.left
        /\ handled' = handled \o r.pkts
        /\ UNCHANGED <<sent, normal, conns>>

Receive == \E n \in 1 .. Len(wire) : n <= RecvSize /\ AddContent(n)

\* Mutant: __RemoveContent is not called.
GoneKeepingContent ==
    /\ conns < MaxConns
    /\ conns' = conns + 1
    /\ wire' = <<>> /\ sent' = <<>> /\ handled' = <<>> /\ normal' = TRUE
    /\ UNCHANGED m_Contents

\* The client is gone, on any of the four ways: what was on the wire is lost, and
\* __RemoveContent erases the content.  A new connection gets the same key.
Gone ==
    /\ conns < MaxConns
    /\ conns' = conns + 1
    /\ wire' = <<>> /\ sent' = <<>> /\ handled' = <<>> /\ normal' = TRUE
    /\ m_Contents' = <<>>

-----------------------------------------------------------------------------
Next == PeerSends \/ PeerSendsAbnormal \/ Receive \/ Gone

Spec == Init /\ [][Next]_vars

-----------------------------------------------------------------------------
\* A packet that is handed on has a header and at least one byte.
TypeOK ==
    /\ wire \in Seq(Byte)
    /\ m_Contents \in Seq(Byte)
    /\ sent \in Seq(Seq(Byte))
    /\ handled \in Seq(Seq(Byte))
    /\ \A i \in DOMAIN handled : Len(handled[i]) > 4
    /\ normal \in BOOLEAN
    /\ conns \in 1..MaxConns

\* Whatever the pieces, __HandlePkt gets the packets the peer sent on this connection, whole
\* and in order, and what is neither handed on nor on the wire is in m_Contents.
PacketsIntact ==
    normal => /\ IsPrefix(handled, sent)
              /\ FlattenSeq(handled) \o m_Contents \o wire = FlattenSeq(sent)

\* Less than a packet.
Settled(data) ==
    Len(data) > 4 => nPktLen(data) > 0 /\ Len(data) < nPktLen(data) + 4

\* A packet is handed on by the very callback that completes it: what is left over is the
\* beginning of one packet.
NothingWithheld == Settled(m_Contents)
=============================================================================
