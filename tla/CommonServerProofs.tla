-------------------------- MODULE CommonServerProofs --------------------------
(* Proofs about CommonServer and the framing it is built on.               *)
EXTENDS CommonServer, SequenceLemmas

-----------------------------------------------------------------------------
(* The loop of __AddContent.                                                 *)

\* A packet that is handed on has a header and at least one byte.
Long == {p \in Seq(Byte) : Len(p) > 4}

Results == [pkts : Seq(Long), left : Seq(Byte)]

Started(data) == [pkts |-> <<>>, left |-> data]

\* What the loop reads as a length is a number.
LEMMA LengthType ==
    ASSUME NEW data \in Seq(Byte), Len(data) > 4
    PROVE  nPktLen(data) \in Int
<1>1. Len(data) \in Nat /\ \A i \in 1..Len(data) : data[i] \in Byte
    BY LenProperties, ElementOfSeq
<1>2. 1 \in 1..Len(data) /\ 2 \in 1..Len(data) /\ 3 \in 1..Len(data) /\ 4 \in 1..Len(data)
    BY <1>1
<1>3. data[1] \in Int /\ data[2] \in Int /\ data[3] \in Int /\ data[4] \in Int
    BY <1>1, <1>2 DEF Byte
<1> DEFINE high == IF data[4] < Radix \div 2 THEN data[4] ELSE data[4] - Radix
<1>4. Radix \in Int /\ high \in Int
    BY <1>3, RadixAssumption
<1> HIDE DEF high
<1>5. \A a, b, c, d, r \in Int : a + r * (b + r * (c + r * d)) \in Int
  <2>1. \A a, c, r \in Int : a + r * c \in Int
    BY ONLY TRUE
  <2> QED
    BY ONLY <2>1, Zenon
<1>6. nPktLen(data) = data[1] + Radix * (data[2] + Radix * (data[3] + Radix * high))
    BY DEF nPktLen, high
<1>7. data[1] + Radix * (data[2] + Radix * (data[3] + Radix * high)) \in Int
    BY ONLY <1>3, <1>4, <1>5, Zenon
<1> QED
    BY ONLY <1>6, <1>7, Zenon

\* A packet that is complete is cut off, and strData gets shorter.
LEMMA CutType ==
    ASSUME NEW r \in Results, NEW n \in Nat \ {0}, n = nPktLen(r.left), Len(r.left) >= n + 4
    PROVE  /\ CutFirst(r) \in Results
           /\ Len(CutFirst(r).left) < Len(r.left)
           /\ CutFirst(r).pkts = Append(r.pkts, SubSeq(r.left, 1, n + 4))
           /\ CutFirst(r).left = SubSeq(r.left, (n + 4) + 1, Len(r.left))
<1> DEFINE d == r.left
           a == SubSeq(d, 1, n + 4)
           b == SubSeq(d, (n + 4) + 1, Len(d))
<1>1. d \in Seq(Byte) /\ Len(d) \in Nat /\ r.pkts \in Seq(Long) /\ \A i \in 1..Len(d) : d[i] \in Byte
    BY LenProperties, ElementOfSeq DEF Results
<1>2. (\A i \in 1..(n + 4) : d[i] \in Byte) /\ \A i \in (n + 4) + 1 .. Len(d) : d[i] \in Byte
    BY <1>1
<1>3. a \in Seq(Byte) /\ Len(a) = IF 1 <= n + 4 THEN (n + 4) - 1 + 1 ELSE 0
    BY <1>2, SubSeqProperties
<1>4. /\ b \in Seq(Byte)
      /\ Len(b) = IF (n + 4) + 1 <= Len(d) THEN Len(d) - ((n + 4) + 1) + 1 ELSE 0
    BY <1>1, <1>2, SubSeqProperties
<1>5. Len(a) > 4 /\ Len(b) < Len(d)
    BY <1>1, <1>3, <1>4
<1>6. a \in Long
    BY <1>3, <1>5 DEF Long
<1>7. Append(r.pkts, a) \in Seq(Long)
    BY <1>1, <1>6, AppendProperties
<1>8. CutFirst(r) = [pkts |-> Append(r.pkts, a), left |-> b]
    BY DEF CutFirst
<1> HIDE DEF a, b
<1>9. CutFirst(r) \in Results
    BY <1>4, <1>7, <1>8 DEF Results
<1>10. CutFirst(r).pkts = Append(r.pkts, a) /\ CutFirst(r).left = b
    BY <1>8
<1>11. Len(CutFirst(r).left) < Len(r.left)
    BY <1>5, <1>10
<1> QED
    BY <1>9, <1>10, <1>11 DEF a, b

\* A pass finds less than a packet and changes nothing, or strData gets shorter.
LEMMA PassType ==
    ASSUME NEW r \in Results
    PROVE  /\ Pass(r) \in Results
           /\ (Settled(r.left) /\ Pass(r) = r) \/ Len(Pass(r).left) < Len(r.left)
<1>1. r.left \in Seq(Byte) /\ r.pkts \in Seq(Long) /\ Len(r.left) \in Nat
    BY LenProperties DEF Results
<1>2. CASE Len(r.left) <= 4
    BY <1>1, <1>2 DEF Pass, Settled
<1>3. CASE Len(r.left) > 4
  <2>1. nPktLen(r.left) \in Int /\ ~(Len(r.left) <= 4)
    BY <1>1, <1>3, LengthType
  <2>2. CASE nPktLen(r.left) <= 0
    <3>1. Pass(r) = [r EXCEPT !.left = <<>>]
        BY <2>1, <2>2 DEF Pass
    <3>2. <<>> \in Seq(Byte) /\ Len(<<>>) = 0
        BY EmptySeq
    <3>3. Pass(r) \in Results /\ Pass(r).left = <<>>
        BY <3>1, <3>2 DEF Results
    <3> QED
        BY <1>1, <1>3, <3>2, <3>3
  <2>3. CASE ~(nPktLen(r.left) <= 0) /\ Len(r.left) >= nPktLen(r.left) + 4
    <3>1. Pass(r) = CutFirst(r)
        BY <2>1, <2>3 DEF Pass
    <3>2. nPktLen(r.left) \in Nat \ {0}
        BY <2>1, <2>3
    <3> QED
        BY <2>3, <3>1, <3>2, CutType
  <2>4. CASE ~(nPktLen(r.left) <= 0) /\ ~(Len(r.left) >= nPktLen(r.left) + 4)
    <3>1. Pass(r) = r
        BY <2>1, <2>4 DEF Pass
    <3>2. Settled(r.left)
        BY <1>1, <2>1, <2>4 DEF Settled
    <3> QED
        BY <3>1, <3>2
  <2> QED
    BY <2>2, <2>3, <2>4
<1> QED
    BY <1>1, <1>2, <1>3

\* What holds before the loop, and after a pass if it held before, holds of what the loop
\* leaves.  G is the set of the numbers of passes and the results for which it holds.
LEMMA SplitPasses ==
    ASSUME NEW data \in Seq(Byte), NEW G, <<0, Started(data)>> \in G,
           \A k \in Nat, r \in Results : <<k, r>> \in G => <<k + 1, Pass(r)>> \in G
    PROVE  Split(data) \in Results /\ <<Len(data), Split(data)>> \in G
<1> DEFINE n == Len(data)
           Rec(f) == [k \in 0..n |-> IF k = 0 THEN Started(data) ELSE Pass(f[k - 1])]
           Solves(f, j) == /\ f[0] = Started(data)
                           /\ \A k \in 1..j : f[k] = Pass(f[k - 1])
           T == {j \in Nat : \E f \in [0..j -> Results] : Solves(f, j)}
<1>1. n \in Nat /\ Started(data) \in Results
  <2>1. <<>> \in Seq(Long)
    BY EmptySeq
  <2> QED
    BY <2>1, LenProperties DEF Results, Started
<1> HIDE DEF n
<1>2. 0 \in T
  <2> DEFINE f == [k \in 0..0 |-> Started(data)]
  <2>1. f \in [0..0 -> Results] /\ Solves(f, 0)
    BY <1>1
  <2> QED
    BY <2>1
<1>3. ASSUME NEW j \in Nat, j \in T PROVE j + 1 \in T
  <2>1. PICK f \in [0..j -> Results] : Solves(f, j)
    BY <1>3
  <2> DEFINE g == [k \in 0..(j + 1) |-> IF k = j + 1 THEN Pass(f[j]) ELSE f[k]]
  <2>2. f[j] \in Results /\ Pass(f[j]) \in Results
    BY <2>1, PassType
  <2>3. g \in [0..(j + 1) -> Results]
    BY <2>1, <2>2
  <2>4. g[j + 1] = Pass(f[j]) /\ \A k \in 0..j : g[k] = f[k]
    OBVIOUS
  <2> HIDE DEF g
  <2>5. ASSUME NEW k \in 1..(j + 1) PROVE g[k] = Pass(g[k - 1])
    <3>1. CASE k = j + 1
        BY <2>4, <3>1
    <3>2. CASE k # j + 1
        <4>1. k \in 1..j /\ k \in 0..j /\ k - 1 \in 0..j
            BY <3>2
        <4> QED
            BY <2>1, <2>4, <4>1
    <3> QED
        BY <3>1, <3>2
  <2>6. Solves(g, j + 1)
    BY <2>1, <2>4, <2>5
  <2> QED
    BY <2>3, <2>6
<1>4. PICK f \in [0..n -> Results] : Solves(f, n)
  <2> HIDE DEF T
  <2>1. n \in T
    BY <1>1, <1>2, <1>3, InductionSet
  <2> QED
    BY <2>1 DEF T
<1>5. f = Rec(f)
  <2>1. \A k \in 0..n : f[k] = IF k = 0 THEN Started(data) ELSE Pass(f[k - 1])
    BY <1>1, <1>4
  <2> QED
    BY <2>1
<1> DEFINE g == CHOOSE h : h = Rec(h)
<1>6. g = Rec(g)
    BY <1>5
<1>7. Split(data) = g[n]
    BY DEF Split, Started, n
<1> HIDE DEF g
<1>8. g[0] = Started(data) /\ \A k \in 1..n : g[k] = Pass(g[k - 1])
    BY <1>1, <1>6
<1> DEFINE U == {k \in Nat : k <= n => g[k] \in Results /\ <<k, g[k]>> \in G}
<1>9. 0 \in U
    BY <1>1, <1>8
<1>10. ASSUME NEW k \in Nat, k \in U PROVE k + 1 \in U
  <2> SUFFICES ASSUME k + 1 <= n PROVE g[k + 1] \in Results /\ <<k + 1, g[k + 1]>> \in G
    OBVIOUS
  <2>1. k <= n /\ k + 1 \in 1..n /\ (k + 1) - 1 = k
    BY <1>1
  <2>2. g[k] \in Results /\ <<k, g[k]>> \in G /\ g[k + 1] = Pass(g[k])
    BY <1>8, <1>10, <2>1
  <2> QED
    BY <2>2, PassType
<1>11. n \in U
  <2> HIDE DEF U
  <2> QED
    BY <1>1, <1>9, <1>10, InductionSet
<1> QED
    BY <1>1, <1>7, <1>11 DEF n

\* What the loop leaves is less than a packet: it has as many passes as there are bytes.
LEMMA SplitSettles ==
    ASSUME NEW data \in Seq(Byte)
    PROVE  Split(data) \in Results /\ Settled(Split(data).left)
<1> DEFINE n == Len(data)
           G == {x \in Nat \X Results : Settled(x[2].left) \/ Len(x[2].left) + x[1] <= n}
<1>1. n \in Nat /\ <<0, Started(data)>> \in G
  <2>1. <<>> \in Seq(Long)
    BY EmptySeq
  <2>2. Started(data) \in Results /\ Started(data).left = data
    BY <2>1 DEF Results, Started
  <2> QED
    BY <2>2, LenProperties
<1>2. ASSUME NEW k \in Nat, NEW r \in Results, <<k, r>> \in G PROVE <<k + 1, Pass(r)>> \in G
  <2>1. Pass(r) \in Results /\ r.left \in Seq(Byte) /\ Pass(r).left \in Seq(Byte)
    BY PassType DEF Results
  <2>2. Len(r.left) \in Nat /\ Len(Pass(r).left) \in Nat
    BY <2>1, LenProperties
  <2>3. CASE Settled(r.left) /\ Pass(r) = r
    BY <2>1, <2>3
  <2>4. CASE ~(Settled(r.left) /\ Pass(r) = r)
    <3>1. Len(Pass(r).left) < Len(r.left)
        BY <2>4, PassType
    <3>2. CASE Len(r.left) + k <= n
        <4>1. Len(Pass(r).left) + (k + 1) <= n
          <5> HIDE DEF n
          <5>1. \A a, b \in Nat : a < b /\ b + k <= n => a + (k + 1) <= n
            BY <1>1
          <5> QED
            BY <2>2, <3>1, <3>2, <5>1, Zenon
        <4>2. <<k + 1, Pass(r)>> \in Nat \X Results
            BY <2>1
        <4> QED
            BY <4>1, <4>2
    <3>3. CASE Settled(r.left)
        <4>1. Pass(r) = r
            BY <2>1, <2>2, <3>3, LengthType DEF Pass, Settled
        <4> QED
            BY <2>4, <3>3, <4>1
    <3> QED
        BY <1>2, <3>2, <3>3
  <2> QED
    BY <2>3, <2>4
<1> HIDE DEF G
<1>3. Split(data) \in Results /\ <<n, Split(data)>> \in G
    BY <1>1, <1>2, SplitPasses
<1>4. Split(data).left \in Seq(Byte)
    BY <1>3 DEF Results
<1>5. CASE Len(Split(data).left) + n <= n
  <2>1. Len(Split(data).left) <= 4
    BY <1>1, <1>4, <1>5, LenProperties
  <2> QED
    BY <1>3, <1>4, <2>1, LenProperties DEF Settled
<1> QED
    BY <1>3, <1>5 DEF G

-----------------------------------------------------------------------------
(* What peers that keep to the format send comes out of it.                  *)

Packets == {Packet(b) : b \in Bodies}

\* A number is its last digit and the rest.
LEMMA LastDigit ==
    ASSUME NEW n \in Nat
    PROVE  n \div Radix \in Nat /\ n % Radix \in Byte /\ (n % Radix) + Radix * (n \div Radix) = n
<1> DEFINE q == n \div Radix
           d == n % Radix
<1>1. Radix \in Nat \ {0}
    BY RadixAssumption
<1>2. q \in Int /\ d \in 0 .. Radix - 1 /\ n = q * Radix + d
    BY <1>1
<1>3. q \in Nat
    BY <1>1
<1> HIDE DEF q, d
<1>4. d + Radix * q = n
    BY ONLY <1>1, <1>2, n \in Nat
<1> QED
    BY <1>2, <1>3, <1>4 DEF Byte, q, d

\* Without its last digit it is smaller.
LEMMA FewerDigits ==
    ASSUME NEW n \in Nat, NEW m \in Nat, n < Radix * m
    PROVE  n \div Radix < m
<1> DEFINE q == n \div Radix
<1>1. /\ Radix \in Nat \ {0} /\ q \in Nat /\ n % Radix \in 0 .. Radix - 1
      /\ (n % Radix) + Radix * q = n
    BY RadixAssumption, LastDigit DEF Byte
<1> HIDE DEF q
<1>2. ASSUME q >= m PROVE FALSE
  <2>1. PICK d \in Nat : q = m + d
    <3>1. q - m \in Nat /\ q = m + (q - m)
        BY ONLY <1>1, <1>2, m \in Nat
    <3> QED
        BY ONLY <3>1
  <2>2. Radix * q = Radix * m + Radix * d
    BY ONLY <1>1, <2>1, m \in Nat
  <2>3. Radix * d \in Nat /\ Radix * m \in Nat /\ n % Radix \in Nat
    BY ONLY <1>1, <2>1, m \in Nat
  <2> QED
    BY ONLY <1>1, <2>2, <2>3, n < Radix * m, n \in Nat
<1> QED
    BY <1>1, <1>2 DEF q

\* What the peer writes as a length the server reads as that length.
LEMMA HeaderType ==
    ASSUME NEW n \in 0 .. INT_MAX
    PROVE  /\ Header(n) \in Seq(Byte) /\ Len(Header(n)) = 4
           /\ \A data : (\A i \in 1..4 : data[i] = Header(n)[i]) => nPktLen(data) = n
<1> DEFINE h == Radix \div 2
           n1 == n \div Radix
           n2 == n1 \div Radix
           n3 == n2 \div Radix
<1>1. Radix \in Nat /\ h \in Nat
    BY RadixAssumption
<1>2. Radix * (Radix * (Radix * h)) \in Nat /\ Radix * (Radix * h) \in Nat /\ Radix * h \in Nat
  <2>1. \A a, b \in Nat : a * b \in Nat
    BY ONLY TRUE
  <2> HIDE DEF h
  <2> QED
    BY ONLY <1>1, <2>1, Zenon
<1>3. n \in Nat /\ n < Radix * (Radix * (Radix * h))
  <2> HIDE DEF h
  <2>1. n \in 0 .. (Radix * (Radix * (Radix * h))) - 1
    BY DEF INT_MAX, h
  <2> QED
    BY ONLY <1>2, <2>1
<1>4. /\ n1 \in Nat /\ n % Radix \in Byte /\ (n % Radix) + Radix * n1 = n
      /\ n1 < Radix * (Radix * h)
    BY <1>2, <1>3, LastDigit, FewerDigits
<1> HIDE DEF h, n1
<1>5. /\ n2 \in Nat /\ n1 % Radix \in Byte /\ (n1 % Radix) + Radix * n2 = n1 /\ n2 < Radix * h
    BY <1>2, <1>4, LastDigit, FewerDigits
<1> HIDE DEF n2
<1>6. n3 \in Nat /\ n2 % Radix \in Byte /\ (n2 % Radix) + Radix * n3 = n2 /\ n3 < h
    BY <1>1, <1>2, <1>5, LastDigit, FewerDigits
<1> HIDE DEF n3
<1>7. Header(n) = <<n % Radix, n1 % Radix, n2 % Radix, n3>>
    BY DEF Header, n1, n2, n3
<1>8. n3 \in Byte
  <2>1. h <= Radix
    BY RadixAssumption DEF h
  <2> QED
    BY ONLY <1>1, <1>6, <2>1 DEF Byte
<1>9. Header(n) \in Seq(Byte) /\ Len(Header(n)) = 4
    BY ONLY <1>4, <1>5, <1>6, <1>7, <1>8
<1>10. ASSUME NEW data, \A i \in 1..4 : data[i] = Header(n)[i]
       PROVE  nPktLen(data) = n
  <2>1. data[1] = n % Radix /\ data[2] = n1 % Radix /\ data[3] = n2 % Radix /\ data[4] = n3
    BY ONLY <1>7, <1>10
  <2>2. nPktLen(data) = data[1] + Radix * (data[2] + Radix * (data[3] + Radix * data[4]))
    BY ONLY <1>6, <2>1 DEF nPktLen, h
  <2> QED
    BY ONLY <1>4, <1>5, <1>6, <2>1, <2>2, Zenon
<1> QED
    BY <1>9, <1>10

\* A packet: a header of four bytes, and the body.
LEMMA PacketType ==
    ASSUME NEW b \in Bodies
    PROVE  /\ Packet(b) \in Seq(Byte) /\ Packet(b) \in Long /\ Len(b) \in Nat \ {0}
           /\ Len(Packet(b)) = Len(b) + 4
           /\ \A data : (\A i \in 1..4 : data[i] = Packet(b)[i]) => nPktLen(data) = Len(b)
<1> DEFINE h == Header(Len(b))
<1>1. b \in Seq(Byte) /\ Len(b) \in Nat \ {0} /\ Len(b) \in 0 .. INT_MAX
  <2>1. b \in Seq(Byte) /\ Len(b) \in 1 .. INT_MAX - 4
    BY BodiesAssumption
  <2>2. Len(b) \in Nat
    BY <2>1, LenProperties
  <2>3. INT_MAX \in Int
    <3>1. Radix \in Int /\ Radix \div 2 \in Int
        BY RadixAssumption
    <3>2. \A x, y \in Int : x * y \in Int /\ x - 1 \in Int
        BY ONLY TRUE
    <3> QED
        BY ONLY <3>1, <3>2, Zenon DEF INT_MAX
  <2> QED
    BY ONLY <2>1, <2>2, <2>3
<1>2. h \in Seq(Byte) /\ Len(h) = 4
      /\ \A data : (\A i \in 1..4 : data[i] = h[i]) => nPktLen(data) = Len(b)
    BY <1>1, HeaderType
<1> HIDE DEF h
<1>3. /\ h \o b \in Seq(Byte) /\ Len(h \o b) = Len(h) + Len(b)
      /\ \A i \in 1 .. Len(h) + Len(b) : (h \o b)[i] = IF i <= Len(h) THEN h[i] ELSE b[i - Len(h)]
    BY <1>1, <1>2, ConcatProperties
<1>4. \A i \in 1..4 : (h \o b)[i] = h[i]
  <2>1. \A i \in 1..4 : i \in 1 .. Len(h) + Len(b) /\ i <= Len(h)
    BY <1>1, <1>2
  <2> QED
    BY <1>3, <2>1
<1>5. Packet(b) = h \o b
    BY DEF Packet, h
<1>6. Len(Packet(b)) = Len(b) + 4 /\ Len(Packet(b)) > 4
  <2>1. Len(Packet(b)) = 4 + Len(b)
    BY ONLY <1>2, <1>3, <1>5
  <2>2. \A x \in Nat \ {0} : 4 + x = x + 4 /\ x + 4 > 4
    BY ONLY TRUE
  <2> QED
    BY ONLY <1>1, <2>1, <2>2
<1>7. Packet(b) \in Seq(Byte) /\ Packet(b) \in Long
    BY <1>3, <1>5, <1>6 DEF Long
<1>8. ASSUME NEW data, \A i \in 1..4 : data[i] = Packet(b)[i]
      PROVE  nPktLen(data) = Len(b)
    BY ONLY <1>2, <1>4, <1>5, <1>8
<1> QED
    BY <1>1, <1>6, <1>7, <1>8

LEMMA PacketsType ==
    /\ Packets \subseteq Seq(Byte) /\ Seq(Packets) \subseteq Seq(Seq(Byte))
    /\ Packets \subseteq Long /\ Seq(Packets) \subseteq Seq(Long)
<1>1. Packets \subseteq Seq(Byte) /\ Packets \subseteq Long
    BY PacketType DEF Packets
<1> QED
    BY <1>1, SeqMonotonic

\* all is what was handed on and the packets that begin with strData and continue with e.
Whole(r, e, all) ==
    /\ r.pkts \in Seq(Packets)
    /\ \E rest \in Seq(Packets) : all = r.pkts \o rest /\ r.left \o e = FlattenSeq(rest)

\* A pass keeps the stream whole: it finds the length the peer put there.
LEMMA PassWhole ==
    ASSUME NEW r \in Results, NEW e \in Seq(Byte), NEW all, Whole(r, e, all)
    PROVE  Whole(Pass(r), e, all)
<1> DEFINE d == r.left
<1>1. d \in Seq(Byte) /\ Len(d) \in Nat /\ Len(e) \in Nat /\ r.pkts \in Seq(Packets)
    BY LenProperties DEF Results, Whole
<1>2. PICK rest \in Seq(Packets) : all = r.pkts \o rest /\ d \o e = FlattenSeq(rest)
    BY DEF Whole
<1> SUFFICES ASSUME Pass(r) # r PROVE Whole(Pass(r), e, all)
    OBVIOUS
<1>3. Len(d) > 4
    BY <1>1 DEF Pass
<1>4. /\ d \o e \in Seq(Byte) /\ Len(d \o e) = Len(d) + Len(e)
      /\ \A i \in 1 .. Len(d) + Len(e) : (d \o e)[i] = IF i <= Len(d) THEN d[i] ELSE e[i - Len(d)]
    BY <1>1, ConcatProperties
<1>5. rest # <<>>
  <2>1. Len(d \o e) > 4
    BY <1>1, <1>3, <1>4
  <2> QED
    BY <1>2, <2>1, FlattenEmpty
<1>6. PICK b \in Bodies : Head(rest) = Packet(b)
    BY <1>5, HeadTailProperties DEF Packets
<1> DEFINE p == Packet(b)
           q == FlattenSeq(Tail(rest))
<1>7. p \in Seq(Byte) /\ Len(p) = Len(b) + 4 /\ Len(b) \in Nat \ {0}
    BY PacketType
<1>8. Tail(rest) \in Seq(Packets) /\ q \in Seq(Byte)
    BY <1>5, HeadTailProperties, PacketsType, FlattenType
<1>9. d \o e = p \o q
  <2>1. rest \in Seq(Seq(Byte))
    BY PacketsType
  <2> QED
    BY <1>2, <1>5, <1>6, <2>1, FlattenCons
<1> HIDE DEF q
<1>10. /\ Len(p \o q) = Len(p) + Len(q) /\ Len(q) \in Nat
       /\ \A i \in 1 .. Len(p) + Len(q) : (p \o q)[i] = IF i <= Len(p) THEN p[i] ELSE q[i - Len(p)]
    BY <1>7, <1>8, ConcatProperties, LenProperties
<1>11. \A i \in 1..4 : d[i] = p[i]
  <2>1. \A i \in 1..4 : /\ i \in 1 .. Len(d) + Len(e) /\ i <= Len(d)
                        /\ i \in 1 .. Len(p) + Len(q) /\ i <= Len(p)
    BY <1>1, <1>3, <1>7, <1>10
  <2> QED
    BY <1>4, <1>9, <1>10, <2>1
<1>12. nPktLen(d) = Len(b)
    BY ONLY <1>11, PacketType, b \in Bodies DEF p
<1>13. Len(d) >= Len(b) + 4 /\ Pass(r) = CutFirst(r)
  <2>1. ~(Len(d) <= 4) /\ ~(Len(b) <= 0)
    <3>1. (\A x \in Nat : x > 4 => ~(x <= 4)) /\ \A x \in Nat \ {0} : ~(x <= 0)
        BY ONLY TRUE
    <3> QED
        BY ONLY <1>1, <1>3, <1>7, <3>1, Zenon
  <2> QED
    BY <1>12, <2>1 DEF Pass
<1>14. /\ CutFirst(r).pkts = Append(r.pkts, SubSeq(d, 1, Len(p)))
       /\ CutFirst(r).left = SubSeq(d, Len(p) + 1, Len(d))
  <2> HIDE DEF d, p
  <2> QED
    BY <1>7, <1>12, <1>13, CutType DEF d
<1>15. SubSeq(d, 1, Len(p)) = p /\ SubSeq(d, Len(p) + 1, Len(d)) \o e = q
  <2>1. Len(p) <= Len(d)
    BY ONLY <1>1, <1>7, <1>13
  <2> HIDE DEF d, p
  <2> QED
    BY ONLY <1>1, <1>7, <1>8, <1>9, <2>1, e \in Seq(Byte), CutConcat
<1>16. Append(r.pkts, p) \in Seq(Packets) /\ all = Append(r.pkts, p) \o Tail(rest)
  <2>1. p \in Packets
    BY DEF Packets
  <2>2. Append(r.pkts, Head(rest)) \o Tail(rest) = r.pkts \o rest
    BY <1>1, <1>5, MoveHead
  <2> QED
    BY <1>1, <1>2, <1>6, <2>1, <2>2, AppendProperties
<1> QED
    BY <1>8, <1>13, <1>14, <1>15, <1>16 DEF Whole, q

\* The loop hands on the first packets of the stream and leaves the rest.
LEMMA SplitWhole ==
    ASSUME NEW data \in Seq(Byte), NEW e \in Seq(Byte), NEW all \in Seq(Packets),
           data \o e = FlattenSeq(all)
    PROVE  Whole(Split(data), e, all)
<1> DEFINE G == {x \in Nat \X Results : Whole(x[2], e, all)}
<1>1. <<0, Started(data)>> \in G
  <2>1. <<>> \in Seq(Long) /\ <<>> \in Seq(Packets) /\ <<>> \o all = all
    BY EmptySeq, ConcatEmptySeq
  <2>2. Started(data) \in Results /\ Started(data).left = data /\ Started(data).pkts = <<>>
    BY <2>1 DEF Results, Started
  <2> QED
    BY <2>1, <2>2 DEF Whole
<1>2. ASSUME NEW k \in Nat, NEW r \in Results, <<k, r>> \in G PROVE <<k + 1, Pass(r)>> \in G
    BY <1>2, PassType, PassWhole
<1> HIDE DEF G
<1>3. <<Len(data), Split(data)>> \in G
    BY <1>1, <1>2, SplitPasses
<1> QED
    BY <1>3 DEF G

-----------------------------------------------------------------------------
(* The framing.                                                              *)

\* What is on the wire and in m_Contents are the packets that were sent and not handed on.
FramingInv ==
    /\ wire \in Seq(Byte) /\ m_Contents \in Seq(Byte)
    /\ sent \in Seq(Packets) /\ handled \in Seq(Long)
    /\ normal \in BOOLEAN /\ conns \in 1..MaxConns
    /\ NothingWithheld
    /\ normal => Whole([pkts |-> handled, left |-> m_Contents], wire, sent)

\* The same, without the records.
LEMMA WholeNow ==
    Whole([pkts |-> handled, left |-> m_Contents], wire, sent) <=>
        /\ handled \in Seq(Packets)
        /\ \E rest \in Seq(Packets) : sent = handled \o rest /\ m_Contents \o wire = FlattenSeq(rest)
    BY DEF Whole

LEMMA FramingInit == Init => FramingInv
<1> SUFFICES ASSUME Init PROVE FramingInv
    OBVIOUS
<1>1. /\ wire = <<>> /\ m_Contents = <<>> /\ sent = <<>> /\ handled = <<>>
      /\ normal = TRUE /\ conns = 1
    BY DEF Init
<1>2. <<>> \in Seq(Byte) /\ <<>> \in Seq(Packets) /\ <<>> \in Seq(Long) /\ Len(<<>>) = 0
    BY EmptySeq
<1>3. <<>> \o <<>> = <<>>
    BY <1>2, ConcatEmptySeq
<1>4. Whole([pkts |-> handled, left |-> m_Contents], wire, sent)
    BY <1>1, <1>2, <1>3, FlattenEmpty, WholeNow
<1> QED
    BY <1>1, <1>2, <1>4, BoundsAssumption DEF FramingInv, NothingWithheld, Settled

\* A packet more on the wire.
LEMMA PeerSendsStep == FramingInv /\ PeerSends => FramingInv'
<1> SUFFICES ASSUME FramingInv, PeerSends PROVE FramingInv'
    OBVIOUS
<1>1. PICK b \in Bodies : wire' = wire \o Packet(b) /\ sent' = Append(sent, Packet(b))
    BY DEF PeerSends
<1> DEFINE p == Packet(b)
<1>2. p \in Seq(Byte) /\ p \in Packets
    BY PacketType DEF Packets
<1> HIDE DEF p
<1>3. UNCHANGED <<m_Contents, handled, normal, conns>> /\ wire' = wire \o p /\ sent' = Append(sent, p)
    BY <1>1 DEF PeerSends, p
<1>4. wire \in Seq(Byte) /\ m_Contents \in Seq(Byte) /\ sent \in Seq(Packets)
    BY DEF FramingInv
<1>5. wire' \in Seq(Byte) /\ sent' \in Seq(Packets)
    BY <1>2, <1>3, <1>4, ConcatProperties, AppendProperties
<1>6. ASSUME normal
      PROVE  Whole([pkts |-> handled, left |-> m_Contents], wire, sent)'
  <2>1. handled \in Seq(Packets)
    BY <1>6, WholeNow DEF FramingInv
  <2>2. PICK rest \in Seq(Packets) : sent = handled \o rest /\ m_Contents \o wire = FlattenSeq(rest)
    BY <1>6, WholeNow DEF FramingInv
  <2>3. Append(rest, p) \in Seq(Packets)
    BY <1>2, AppendProperties
  <2>4. sent' = handled \o Append(rest, p)
    BY <1>2, <1>3, <2>1, <2>2, AppendLast
  <2>5. FlattenSeq(Append(rest, p)) = FlattenSeq(rest) \o p
    <3>1. rest \in Seq(Seq(Byte))
        BY PacketsType
    <3> QED
        BY ONLY <1>2, <3>1, FlattenAppend
  <2>6. m_Contents \o (wire \o p) = (m_Contents \o wire) \o p
    <3>1. \A x, y, z \in Seq(Byte) : (x \o y) \o z = x \o (y \o z)
        BY ONLY Associative
    <3> QED
        BY ONLY <1>2, <1>4, <3>1, Zenon
  <2>7. m_Contents \o wire' = FlattenSeq(Append(rest, p))
    BY ONLY <1>3, <2>2, <2>5, <2>6
  <2>8. m_Contents' = m_Contents /\ handled' = handled
    BY <1>3
  <2> QED
    BY <2>1, <2>3, <2>4, <2>7, <2>8 DEF Whole
<1>7. NothingWithheld'
    BY <1>3 DEF FramingInv, NothingWithheld, Settled, nPktLen
<1> QED
    BY <1>3, <1>5, <1>6, <1>7 DEF FramingInv

LEMMA PeerSendsAbnormalStep == FramingInv /\ PeerSendsAbnormal => FramingInv'
<1> SUFFICES ASSUME FramingInv, PeerSendsAbnormal PROVE FramingInv'
    OBVIOUS
<1>1. PICK h \in Abnormal : wire' = wire \o h
    BY DEF PeerSendsAbnormal
<1>2. normal' = FALSE /\ UNCHANGED <<m_Contents, sent, handled, conns>>
    BY DEF PeerSendsAbnormal
<1>3. wire' \in Seq(Byte)
    BY <1>1, AbnormalAssumption, ConcatProperties DEF FramingInv
<1>4. NothingWithheld'
    BY <1>2 DEF FramingInv, NothingWithheld, Settled, nPktLen
<1> QED
    BY <1>2, <1>3, <1>4 DEF FramingInv

\* What a callback is given is the first bytes on the wire; it hands on Split's packets.
LEMMA ReceiveStep ==
    ASSUME FramingInv, NEW n \in 1 .. Len(wire), AddContent(n)
    PROVE  FramingInv'
<1> DEFINE a == SubSeq(wire, 1, n)
           e == SubSeq(wire, n + 1, Len(wire))
           data == m_Contents \o a
           r == Split(data)
<1>1. wire \in Seq(Byte) /\ Len(wire) \in Nat /\ m_Contents \in Seq(Byte) /\ handled \in Seq(Long)
    BY LenProperties DEF FramingInv
<1>2. a \in Seq(Byte) /\ e \in Seq(Byte)
  <2>1. \A i \in 1..Len(wire) : wire[i] \in Byte
    BY <1>1, ElementOfSeq
  <2>2. (\A i \in 1..n : wire[i] \in Byte) /\ \A i \in n + 1 .. Len(wire) : wire[i] \in Byte
    BY <1>1, <2>1
  <2> QED
    BY <1>1, <2>2, SubSeqProperties
<1>3. a \o e = wire
  <2>1. 1 \in 1 .. Len(wire) + 1 /\ n \in 1 - 1 .. Len(wire) /\ Len(wire) \in n .. Len(wire)
    BY <1>1
  <2>2. a \o e = SubSeq(wire, 1, Len(wire))
    BY <1>1, <2>1, ConcatAdjacentSubSeq
  <2> QED
    BY <1>1, <2>2, SubSeqFull
<1> HIDE DEF a, e
<1>4. data \in Seq(Byte)
    BY <1>1, <1>2, ConcatProperties
<1>5. /\ wire' = e /\ m_Contents' = r.left /\ handled' = handled \o r.pkts
      /\ sent' = sent /\ normal' = normal /\ conns' = conns
    BY DEF AddContent, a, e
<1> HIDE DEF data
<1>6. r \in Results /\ Settled(r.left)
    BY <1>4, SplitSettles
<1>7. r.left \in Seq(Byte) /\ r.pkts \in Seq(Long)
    BY <1>6 DEF Results
<1>8. handled' \in Seq(Long)
    BY <1>1, <1>5, <1>7, ConcatProperties
<1>9. ASSUME normal
      PROVE  Whole([pkts |-> handled, left |-> m_Contents], wire, sent)'
  <2>1. handled \in Seq(Packets)
    BY <1>9, WholeNow DEF FramingInv
  <2>2. PICK rest \in Seq(Packets) : sent = handled \o rest /\ m_Contents \o wire = FlattenSeq(rest)
    BY <1>9, WholeNow DEF FramingInv
  <2>3. data \o e = FlattenSeq(rest)
    <3>1. data \o e = m_Contents \o (a \o e)
      <4>1. \A x, y, z \in Seq(Byte) : (x \o y) \o z = x \o (y \o z)
        BY ONLY Associative
      <4>2. data = m_Contents \o a
        BY ONLY TRUE DEF data
      <4> QED
        BY ONLY <1>1, <1>2, <4>1, <4>2, Zenon
    <3> QED
        BY ONLY <1>3, <2>2, <3>1
  <2>4. Whole(r, e, rest)
    BY <1>2, <1>4, <2>3, SplitWhole
  <2>5. PICK more \in Seq(Packets) : rest = r.pkts \o more /\ r.left \o e = FlattenSeq(more)
    BY <2>4 DEF Whole
  <2>6. r.pkts \in Seq(Packets) /\ handled \o r.pkts \in Seq(Packets)
    BY <2>1, <2>4, ConcatProperties DEF Whole
  <2>7. sent = (handled \o r.pkts) \o more
    <3>1. (handled \o r.pkts) \o more = handled \o (r.pkts \o more)
      <4> HIDE DEF r
      <4>1. \A x, y, z \in Seq(Packets) : (x \o y) \o z = x \o (y \o z)
        BY ONLY Associative
      <4> QED
        BY ONLY <2>1, <2>6, <4>1, more \in Seq(Packets), Zenon
    <3> QED
        BY ONLY <2>2, <2>5, <3>1
  <2> HIDE DEF r
  <2> QED
    BY <1>5, <2>5, <2>6, <2>7 DEF Whole
<1> HIDE DEF r
<1>10. NothingWithheld'
    BY <1>5, <1>6 DEF NothingWithheld, Settled, nPktLen
<1> QED
    BY <1>2, <1>5, <1>7, <1>8, <1>9, <1>10 DEF FramingInv

LEMMA GoneStep == FramingInv /\ Gone => FramingInv'
<1> SUFFICES ASSUME FramingInv, Gone PROVE FramingInv'
    OBVIOUS
<1>1. /\ wire' = <<>> /\ sent' = <<>> /\ handled' = <<>> /\ normal' = TRUE /\ m_Contents' = <<>>
      /\ conns < MaxConns /\ conns' = conns + 1
    BY DEF Gone
<1>2. <<>> \in Seq(Byte) /\ <<>> \in Seq(Packets) /\ <<>> \in Seq(Long) /\ Len(<<>>) = 0
    BY EmptySeq
<1>3. <<>> \o <<>> = <<>>
    BY <1>2, ConcatEmptySeq
<1>4. Whole([pkts |-> handled, left |-> m_Contents], wire, sent)'
    BY <1>1, <1>2, <1>3, FlattenEmpty DEF Whole
<1>5. conns' \in 1..MaxConns
    BY <1>1, BoundsAssumption DEF FramingInv
<1> QED
    BY <1>1, <1>2, <1>4, <1>5 DEF FramingInv, NothingWithheld, Settled

LEMMA FramingSame == FramingInv /\ UNCHANGED vars => FramingInv'
<1> SUFFICES ASSUME FramingInv, UNCHANGED vars PROVE FramingInv'
    OBVIOUS
<1>1. UNCHANGED <<wire, m_Contents, sent, handled, normal, conns>>
    BY DEF vars
<1>2. NothingWithheld'
    BY <1>1 DEF FramingInv, NothingWithheld, Settled, nPktLen
<1>3. ASSUME normal PROVE Whole([pkts |-> handled, left |-> m_Contents], wire, sent)'
  <2>1. [pkts |-> handled, left |-> m_Contents]' = [pkts |-> handled, left |-> m_Contents]
    BY <1>1
  <2>2. Whole([pkts |-> handled, left |-> m_Contents], wire, sent)
    BY <1>3 DEF FramingInv
  <2> QED
    BY <1>1, <2>1, <2>2 DEF Whole
<1> QED
    BY <1>1, <1>2, <1>3 DEF FramingInv

\* A step of the framing, with whatever the pool does.
LEMMA FramingNext == FramingInv /\ (Next \/ UNCHANGED vars) => FramingInv'
<1> SUFFICES ASSUME FramingInv, Next \/ UNCHANGED vars PROVE FramingInv'
    OBVIOUS
<1>1. CASE Receive
  <2>1. PICK n \in 1 .. Len(wire) : AddContent(n)
    BY <1>1 DEF Receive
  <2> QED
    BY <2>1, ReceiveStep
<1> QED
    BY <1>1, PeerSendsStep, PeerSendsAbnormalStep, GoneStep, FramingSame DEF Next

\* The invariant of the framing makes PacketsIntact and the types.
LEMMA FramingGives == FramingInv => TypeOK /\ PacketsIntact /\ NothingWithheld
<1> SUFFICES ASSUME FramingInv PROVE TypeOK /\ PacketsIntact /\ NothingWithheld
    OBVIOUS
<1>1. TypeOK
  <2>1. Long \subseteq Seq(Byte)
    BY DEF Long
  <2>2. handled \in Seq(Seq(Byte)) /\ sent \in Seq(Seq(Byte))
    BY <2>1, SeqMonotonic, PacketsType DEF FramingInv
  <2>3. ASSUME NEW i \in DOMAIN handled PROVE Len(handled[i]) > 4
    <3>1. handled[i] \in Long
        BY <2>3, LenProperties, ElementOfSeq DEF FramingInv
    <3> QED
        BY <3>1 DEF Long
  <2> QED
    BY <2>2, <2>3 DEF FramingInv, TypeOK
<1>2. ASSUME normal
      PROVE  IsPrefix(handled, sent) /\ FlattenSeq(handled) \o m_Contents \o wire = FlattenSeq(sent)
  <2>1. handled \in Seq(Packets)
    BY <1>2, WholeNow DEF FramingInv
  <2>2. PICK rest \in Seq(Packets) : sent = handled \o rest /\ m_Contents \o wire = FlattenSeq(rest)
    BY <1>2, WholeNow DEF FramingInv
  <2>3. IsPrefix(handled, sent)
    BY <2>1, <2>2, PrefixConcat
  <2>4. handled \in Seq(Seq(Byte)) /\ rest \in Seq(Seq(Byte))
    BY <2>1, PacketsType
  <2>5. FlattenSeq(sent) = FlattenSeq(handled) \o FlattenSeq(rest)
    BY ONLY <2>2, <2>4, FlattenConcat
  <2>6. FlattenSeq(handled) \in Seq(Byte) /\ m_Contents \in Seq(Byte) /\ wire \in Seq(Byte)
    BY <2>4, FlattenType DEF FramingInv
  <2>7. (FlattenSeq(handled) \o m_Contents) \o wire = FlattenSeq(handled) \o (m_Contents \o wire)
    <3>1. \A x, y, z \in Seq(Byte) : (x \o y) \o z = x \o (y \o z)
        BY ONLY Associative
    <3> QED
        BY ONLY <2>6, <3>1, Zenon
  <2> QED
    BY ONLY <2>2, <2>3, <2>5, <2>7
<1> QED
    BY <1>1, <1>2 DEF FramingInv, PacketsIntact

-----------------------------------------------------------------------------
(* The server: the framing is disturbed by none of the others.               *)

LEMMA FramingServer == FramingInv /\ [ServerNext]_serverVars => FramingInv'
<1>1. CASE ServerReceives
    BY <1>1, FramingNext DEF ServerReceives, Next
<1>2. CASE PeerOrGone
    BY <1>2, FramingNext DEF PeerOrGone, Next
<1>3. ASSUME NEW t \in Callers, ThreadCalls(t) PROVE FramingInv /\ UNCHANGED vars => FramingInv'
    BY FramingNext
<1>4. ASSUME NEW t \in Callers, ThreadCalls(t) PROVE UNCHANGED vars
    BY <1>4 DEF ThreadCalls
<1>5. UNCHANGED serverVars => UNCHANGED vars
    BY DEF serverVars
<1> QED
    BY <1>1, <1>2, <1>3, <1>4, <1>5, FramingNext DEF ServerNext

LEMMA FramingAlways == ServerSpec => []FramingInv
<1>1. ServerInit => FramingInv
    BY FramingInit DEF ServerInit
<1> QED
    BY <1>1, FramingServer, PTL DEF ServerSpec

\* __HandlePkt is given the packets the peer sent on the connection, whole and in order,
\* however TCP cuts the stream, and no byte is lost or kept from an earlier connection.
THEOREM Intact == ServerSpec => []PacketsIntact
    BY FramingAlways, FramingGives, PTL

\* Every callback hands on all the packets that are complete, also when the peer does not keep
\* to the format.
THEOREM HandsOn == ServerSpec => []NothingWithheld
    BY FramingAlways, FramingGives, PTL

-----------------------------------------------------------------------------
(* The numbers of packets.                                                   *)

Numbers(a, k) == [i \in 1..k |-> a + i - 1]

LEMMA NumbersType ==
    ASSUME NEW a \in Nat, NEW k \in Nat
    PROVE  Numbers(a, k) \in Seq(a .. a + k - 1) /\ Numbers(a, k) \in Seq(Nat) /\ Len(Numbers(a, k)) = k
    BY DEF Numbers

LEMMA NumbersConcat ==
    ASSUME NEW k \in Nat, NEW j \in Nat
    PROVE  Numbers(0, k) \o Numbers(k, j) = Numbers(0, k + j)
<1> DEFINE u == Numbers(0, k)
           v == Numbers(k, j)
           w == Numbers(0, k + j)
<1> HIDE DEF u, v, w
<1>1. /\ u \in Seq(Nat) /\ Len(u) = k /\ v \in Seq(Nat) /\ Len(v) = j
      /\ w \in Seq(Nat) /\ Len(w) = k + j
  <2>1. 0 \in Nat /\ k + j \in Nat
    OBVIOUS
  <2>2. w \in Seq(Nat) /\ Len(w) = k + j
    BY ONLY <2>1, NumbersType DEF w
  <2> QED
    BY <2>1, <2>2, NumbersType DEF u, v
<1>2. /\ (\A i \in 1..k : u[i] = i - 1) /\ (\A i \in 1..j : v[i] = k + i - 1)
      /\ (\A i \in 1..(k + j) : w[i] = i - 1)
    BY DEF Numbers, u, v, w
<1>3. /\ u \o v \in Seq(Nat) /\ Len(u \o v) = Len(u) + Len(v)
      /\ \A i \in 1 .. Len(u) + Len(v) : (u \o v)[i] = IF i <= Len(u) THEN u[i] ELSE v[i - Len(u)]
    BY <1>1, ConcatProperties
<1>4. ASSUME NEW i \in 1..(k + j) PROVE (u \o v)[i] = w[i]
  <2>1. (u \o v)[i] = IF i <= k THEN u[i] ELSE v[i - k]
    BY <1>1, <1>3
  <2>2. CASE i <= k
    <3>1. i \in 1..k
        BY <2>2
    <3> QED
        BY <1>2, <2>1, <2>2, <3>1
  <2>3. CASE ~(i <= k)
    <3>1. i - k \in 1..j /\ k + (i - k) - 1 = i - 1
        BY <2>3
    <3> QED
        BY <1>2, <2>1, <2>3, <3>1
  <2> QED
    BY <2>2, <2>3
<1> QED
    BY <1>1, <1>3, <1>4, SeqEqual DEF u, v, w

\* What a thread is dealt of k packets are numbers; a single thread is dealt all.
LEMMA ShareType ==
    ASSUME NEW k \in Nat, NEW t, m_nCount \in Nat
    PROVE  /\ Pool!Share(t, k) \in Seq(Nat)
           /\ m_nThreadNum = 1 /\ t = 0 => Pool!Share(t, k) = Numbers(m_nCount, k)
<1> DEFINE part(p) == IF Pool!ThreadOf(p) = t THEN <<p>> ELSE <<>>
           s == [i \in 1..k |-> part(m_nCount + i - 1)]
<1>1. Pool!Share(t, k) = FlattenSeq(s)
  <2>1. ASSUME NEW x PROVE Pool!FlattenSeq(x) = FlattenSeq(x)
    BY DEF Pool!FlattenSeq, FlattenSeq
  <2>2. Pool!Share(t, k) = Pool!FlattenSeq(s)
    BY DEF Pool!Share
  <2> HIDE DEF s
  <2> QED
    BY <2>1, <2>2
<1>2. s \in Seq(Seq(Nat))
  <2>1. <<>> \in Seq(Nat)
    BY EmptySeq
  <2>2. ASSUME NEW p \in Nat PROVE part(p) \in Seq(Nat)
    <3>1. <<p>> \in Seq(Nat)
        OBVIOUS
    <3> QED
        BY <2>1, <3>1
  <2> HIDE DEF part
  <2>3. \A i \in 1..k : m_nCount + i - 1 \in Nat
    OBVIOUS
  <2>4. \A i \in 1..k : part(m_nCount + i - 1) \in Seq(Nat)
    BY <2>2, <2>3
  <2> QED
    BY <2>4
<1>3. ASSUME m_nThreadNum = 1, t = 0 PROVE FlattenSeq(s) = Numbers(m_nCount, k)
  <2> DEFINE n == Numbers(m_nCount, k)
  <2>1. n \in Seq(Nat) /\ Len(n) = k
    BY NumbersType
  <2>2. ASSUME NEW i \in 1..k PROVE s[i] = <<n[i]>>
    <3>1. Pool!ThreadOf(m_nCount + i - 1) = 0
      <4>1. \A p \in Nat : (p % UINT_RANGE) \in Nat
        BY ServerRangeAssumption
      <4>2. \A p \in Nat : p % 1 = 0
        BY ONLY TRUE
      <4>3. m_nCount + i - 1 \in Nat
        OBVIOUS
      <4> QED
        BY <1>3, <4>1, <4>2, <4>3 DEF Pool!ThreadOf
    <3> QED
        BY <1>3, <3>1 DEF Numbers
  <2>3. s = [i \in 1..Len(n) |-> <<n[i]>>]
    BY <2>1, <2>2
  <2> HIDE DEF n, s
  <2>4. FlattenSeq([i \in 1..Len(n) |-> <<n[i]>>]) = n
    BY <2>1, FlattenOnes
  <2> QED
    BY <2>3, <2>4 DEF n
<1> QED
    BY <1>1, <1>2, <1>3, FlattenType

-----------------------------------------------------------------------------
(* The packets of a connection.                                              *)

Entries == [conn : 1..MaxConns, pkt : Seq(Byte)]

\* What an entry gives to connection c.
Own(c) == [e \in Entries |-> IF e.conn = c THEN <<e.pkt>> ELSE <<>>]

LEMMA OwnType ==
    ASSUME NEW c
    PROVE  Maps(Own(c), Entries, Seq(Seq(Byte)))
<1>1. ASSUME NEW e \in Entries PROVE Own(c)[e] \in Seq(Seq(Byte))
  <2>1. e.pkt \in Seq(Byte) /\ <<>> \in Seq(Seq(Byte))
    BY EmptySeq DEF Entries
  <2>2. <<e.pkt>> \in Seq(Seq(Byte))
    BY <2>1
  <2> QED
    BY <2>1, <2>2 DEF Own
<1> QED
    BY <1>1 DEF Maps

\* The packets of one callback belong to the connection.
LEMMA OwnNew ==
    ASSUME NEW c \in 1..MaxConns, NEW pkts \in Seq(Seq(Byte))
    PROVE  LET new == [i \in 1..Len(pkts) |-> [conn |-> c, pkt |-> pkts[i]]]
           IN  new \in Seq(Entries) /\ FlatMapped(Own(c), new) = pkts
<1> DEFINE new == [i \in 1..Len(pkts) |-> [conn |-> c, pkt |-> pkts[i]]]
<1>1. Len(pkts) \in Nat /\ \A i \in 1..Len(pkts) : pkts[i] \in Seq(Byte)
    BY LenProperties, ElementOfSeq
<1>2. \A i \in 1..Len(pkts) : new[i] \in Entries
    BY <1>1 DEF Entries
<1>3. new \in Seq(Entries) /\ Len(new) = Len(pkts) /\ DOMAIN new = 1..Len(pkts)
    BY <1>1, <1>2
<1>4. \A i \in 1..Len(pkts) : Own(c)[new[i]] = <<pkts[i]>>
    BY <1>2 DEF Own
<1>5. Mapped(Own(c), new) = [i \in 1..Len(pkts) |-> <<pkts[i]>>]
  <2> HIDE DEF new
  <2> QED
    BY <1>3, <1>4 DEF Mapped
<1>6. FlatMapped(Own(c), new) = pkts
    BY <1>5, FlattenOnes DEF FlatMapped
<1> QED
    BY <1>3, <1>6

\* A connection that has been handed nothing yet owns nothing.
LEMMA OwnNone ==
    ASSUME NEW c, NEW g \in Seq(Entries), \A i \in 1..Len(g) : g[i].conn # c
    PROVE  FlatMapped(Own(c), g) = <<>>
<1>1. Len(g) \in Nat /\ DOMAIN g = 1..Len(g) /\ \A i \in 1..Len(g) : g[i] \in Entries
    BY LenProperties, ElementOfSeq
<1>2. Mapped(Own(c), g) = [i \in 1..Len(g) |-> <<>>]
    BY <1>1 DEF Mapped, Own
<1> QED
    BY <1>1, <1>2, FlattenAllEmpty DEF FlatMapped

-----------------------------------------------------------------------------
(* The packet threads.                                                       *)

\* What a callback hands on comes after what was handed on before.
LEMMA HandedOn ==
    ASSUME FramingInv, Receive
    PROVE  conns' = conns /\ \E pkts \in Seq(Seq(Byte)) : handled' = handled \o pkts
<1>1. PICK n \in 1 .. Len(wire) : AddContent(n)
    BY DEF Receive
<1> DEFINE data == m_Contents \o SubSeq(wire, 1, n)
<1>2. data \in Seq(Byte)
  <2>1. wire \in Seq(Byte) /\ m_Contents \in Seq(Byte) /\ Len(wire) \in Nat
    BY LenProperties DEF FramingInv
  <2>2. \A i \in 1..n : wire[i] \in Byte
    BY <2>1, ElementOfSeq
  <2>3. SubSeq(wire, 1, n) \in Seq(Byte)
    BY <2>1, <2>2, SubSeqProperties
  <2> QED
    BY <2>1, <2>3, ConcatProperties
<1>3. handled' = handled \o Split(data).pkts /\ conns' = conns
    BY <1>1 DEF AddContent
<1> HIDE DEF data
<1>4. Split(data).pkts \in Seq(Long)
    BY <1>2, SplitSettles DEF Results
<1>5. Split(data).pkts \in Seq(Seq(Byte))
  <2>1. Long \subseteq Seq(Byte)
    BY DEF Long
  <2> QED
    BY <1>4, <2>1, SeqMonotonic
<1> QED
    BY <1>3, <1>5

\* The packets are numbered as they are handed on; the loop thread, or a single packet thread,
\* has passed on the first of them and has the others queued; those given under the key on this
\* connection are the ones the framing handed on.
PoolTypes ==
    /\ m_nThreadNum \in 0..MAX_THREAD_NUM
    /\ m_nCount \in Nat
    /\ queue \in [Callers -> Seq(Nat)]
    /\ done \in [Callers -> Seq(Nat)]
    /\ given \in Seq(Entries)

Numbered ==
    /\ m_nThreadNum = 0 => queue[0] = <<>>
    /\ m_nThreadNum = 1 => m_nCount = Len(given)
    /\ m_nThreadNum <= 1 => done[0] \o queue[0] = Numbers(0, Len(given))

Owned ==
    /\ \A i \in 1..Len(given) : given[i].conn <= conns
    /\ FlatMapped(Own(conns), given) = handled

PoolInv == PoolTypes /\ Numbered /\ Owned

LEMMA PoolInit == ServerInit => PoolInv
<1> SUFFICES ASSUME ServerInit PROVE PoolInv
    OBVIOUS
<1>1. PICK n \in Requests : m_nThreadNum = SetThreadNum(n)
    BY DEF ServerInit
<1>2. m_nThreadNum \in 0..MAX_THREAD_NUM
    BY <1>1, RequestsAssumption DEF SetThreadNum
<1>3. /\ m_nCount = 0 /\ queue = [t \in Callers |-> <<>>] /\ done = [t \in Callers |-> <<>>]
      /\ given = <<>> /\ handled = <<>>
    BY DEF ServerInit, Init
<1>4. <<>> \in Seq(Nat) /\ <<>> \in Seq(Entries) /\ Len(<<>>) = 0
    BY EmptySeq
<1>5. PoolTypes
    BY <1>2, <1>3, <1>4 DEF PoolTypes
<1>6. m_nThreadNum <= 1 => 0 \in Callers
    BY <1>2 DEF Callers
<1>7. Numbers(0, 0) = <<>> /\ <<>> \o <<>> = <<>>
    BY <1>4, ConcatEmptySeq DEF Numbers
<1>8. Numbered
    BY <1>2, <1>3, <1>4, <1>6, <1>7 DEF Numbered
<1>9. Owned
    BY <1>3, <1>4, FlatMappedEmpty DEF Owned
<1> QED
    BY <1>5, <1>8, <1>9 DEF PoolInv

\* __HandlePkt numbers the packets of a callback on.
LEMMA HandlePktsStep ==
    ASSUME PoolInv, NEW k \in Nat, HandlePkts(k), given' \in Seq(Entries),
           Len(given') = Len(given) + k
    PROVE  PoolTypes' /\ Numbered'
<1>1. m_nThreadNum \in Nat /\ m_nCount \in Nat /\ queue \in [Callers -> Seq(Nat)]
      /\ done \in [Callers -> Seq(Nat)] /\ Len(given) \in Nat /\ m_nThreadNum \in 0..MAX_THREAD_NUM
    BY RequestsAssumption, LenProperties DEF PoolInv, PoolTypes
<1> DEFINE n == Len(given)
<1> HIDE DEF n
<1>2. CASE m_nThreadNum = 0
  <2>1. /\ m_nThreadNum' = m_nThreadNum /\ m_nCount' = m_nCount /\ queue' = queue
        /\ done' = [done EXCEPT ![0] = @ \o Numbers(n, k)]
    BY <1>2 DEF HandlePkts, CallDirectly, Numbers, n
  <2>2. Callers = {0} /\ Callers' = {0}
    BY <1>2, <2>1 DEF Callers
  <2>3. queue[0] = <<>> /\ done[0] = Numbers(0, n)
    <3>1. done[0] \in Seq(Nat) /\ queue[0] = <<>> /\ done[0] \o queue[0] = Numbers(0, n)
        BY <1>1, <1>2, <2>2 DEF PoolInv, Numbered, n
    <3> QED
        BY <3>1, ConcatEmptySeq
  <2>4. n \in Nat /\ Len(given') = n + k /\ Numbers(0, n) \o Numbers(n, k) = Numbers(0, n + k)
    BY <1>1, NumbersConcat DEF n
  <2>5. done'[0] = Numbers(0, n + k)
    BY <1>1, <2>1, <2>2, <2>3, <2>4
  <2>6. Numbers(0, n + k) \in Seq(Nat)
    <3>1. n + k \in Nat /\ 0 \in Nat
        BY <2>4
    <3> QED
        BY ONLY <3>1, NumbersType
  <2>7. done' \in [Callers' -> Seq(Nat)]
    BY <1>1, <2>1, <2>2, <2>5, <2>6
  <2>8. PoolTypes'
    BY <1>1, <2>1, <2>2, <2>7 DEF PoolTypes
  <2>9. Numbers(0, n + k) \o <<>> = Numbers(0, n + k)
    BY <2>6, ConcatEmptySeq
  <2>10. Numbered'
    BY <1>2, <2>1, <2>3, <2>4, <2>5, <2>9 DEF Numbered
  <2> QED
    BY <2>8, <2>10
<1>3. CASE m_nThreadNum # 0
  <2>1. /\ m_nThreadNum' = m_nThreadNum /\ m_nCount' = m_nCount + k /\ done' = done
        /\ queue' = [t \in Callers |-> queue[t] \o Pool!Share(t, k)]
    BY <1>3 DEF HandlePkts, Pool!Puts, Callers
  <2>2. Callers' = Callers
    BY <2>1 DEF Callers
  <2>3. queue' \in [Callers -> Seq(Nat)]
    <3>1. ASSUME NEW t \in Callers PROVE queue[t] \o Pool!Share(t, k) \in Seq(Nat)
        BY <1>1, ShareType, ConcatProperties
    <3> QED
        BY <2>1, <3>1
  <2>4. PoolTypes'
    BY <1>1, <2>1, <2>2, <2>3 DEF PoolTypes
  <2>5. ASSUME m_nThreadNum = 1
        PROVE  m_nCount' = n + k /\ done'[0] \o queue'[0] = Numbers(0, n + k)
    <3>1. 0 \in Callers
        BY <2>5 DEF Callers
    <3>2. m_nCount = n /\ done[0] \o queue[0] = Numbers(0, n)
        BY <1>1, <2>5 DEF PoolInv, Numbered, n
    <3>3. queue'[0] = queue[0] \o Numbers(n, k)
        BY <1>1, <2>1, <2>5, <3>1, <3>2, ShareType
    <3>4. done[0] \in Seq(Nat) /\ queue[0] \in Seq(Nat) /\ Numbers(n, k) \in Seq(Nat)
        BY <1>1, <3>1, <3>2, NumbersType
    <3>5. done[0] \o (queue[0] \o Numbers(n, k)) = (done[0] \o queue[0]) \o Numbers(n, k)
      <4>1. \A x, y, z \in Seq(Nat) : (x \o y) \o z = x \o (y \o z)
        BY ONLY Associative
      <4> QED
        BY ONLY <3>4, <4>1, Zenon
    <3>6. Numbers(0, n) \o Numbers(n, k) = Numbers(0, n + k)
        BY <1>1, NumbersConcat DEF n
    <3> QED
        BY ONLY <2>1, <3>2, <3>3, <3>5, <3>6
  <2>6. Len(given') = n + k
    BY DEF n
  <2>7. Numbered'
    <3>1. m_nThreadNum <= 1 => m_nThreadNum = 1
        BY ONLY <1>1, <1>3
    <3>2. m_nThreadNum' = m_nThreadNum
        BY <2>1
    <3>3. m_nThreadNum' = 1 => m_nCount' = Len(given')
        BY ONLY <2>5, <2>6, <3>2
    <3>4. m_nThreadNum' <= 1 => done'[0] \o queue'[0] = Numbers(0, Len(given'))
        BY ONLY <2>5, <2>6, <3>1, <3>2
    <3>5. m_nThreadNum' # 0
        BY <1>3, <3>2
    <3> QED
        BY ONLY <3>3, <3>4, <3>5 DEF Numbered, Numbers
  <2> QED
    BY <2>4, <2>7
<1> QED
    BY <1>2, <1>3

LEMMA ServerReceivesStep == FramingInv /\ PoolInv /\ ServerReceives => PoolInv'
<1> SUFFICES ASSUME FramingInv, PoolInv, ServerReceives PROVE PoolInv'
    OBVIOUS
<1>1. conns' = conns /\ conns \in 1..MaxConns /\ conns \in Nat /\ handled \in Seq(Seq(Byte))
  <2>1. Long \subseteq Seq(Byte)
    BY DEF Long
  <2>2. handled \in Seq(Seq(Byte))
    BY <2>1, SeqMonotonic DEF FramingInv
  <2> QED
    BY <2>2, HandedOn, BoundsAssumption DEF ServerReceives, FramingInv
<1>2. PICK pkts \in Seq(Seq(Byte)) : handled' = handled \o pkts
    BY HandedOn DEF ServerReceives
<1> DEFINE k == Len(handled') - Len(handled)
           new == [i \in 1..k |-> [conn |-> conns, pkt |-> handled'[Len(handled) + i]]]
<1>3. HandlePkts(k) /\ given' = given \o new
    BY DEF ServerReceives
<1>4. /\ Len(handled) \in Nat /\ Len(pkts) \in Nat /\ Len(handled') = Len(handled) + Len(pkts)
      /\ \A i \in 1 .. Len(handled) + Len(pkts) :
            handled'[i] = IF i <= Len(handled) THEN handled[i] ELSE pkts[i - Len(handled)]
    BY <1>1, <1>2, ConcatProperties, LenProperties
<1>5. k = Len(pkts)
    BY <1>4
<1>6. ASSUME NEW i \in 1..Len(pkts) PROVE handled'[Len(handled) + i] = pkts[i]
  <2>1. /\ Len(handled) + i \in 1 .. Len(handled) + Len(pkts) /\ ~(Len(handled) + i <= Len(handled))
        /\ (Len(handled) + i) - Len(handled) = i
    BY <1>4
  <2> QED
    BY ONLY <1>4, <2>1
<1>7. new = [i \in 1..Len(pkts) |-> [conn |-> conns, pkt |-> pkts[i]]]
  <2> HIDE DEF k
  <2> QED
    BY <1>5, <1>6
<1> HIDE DEF new
<1>8. new \in Seq(Entries) /\ FlatMapped(Own(conns), new) = pkts
    BY <1>1, <1>7, OwnNew
<1>9. /\ given \in Seq(Entries) /\ Len(given) \in Nat
      /\ given' \in Seq(Entries) /\ Len(new) \in Nat /\ Len(given') = Len(given) + Len(new)
      /\ \A i \in 1 .. Len(given) + Len(new) :
            given'[i] = IF i <= Len(given) THEN given[i] ELSE new[i - Len(given)]
    BY <1>3, <1>8, ConcatProperties, LenProperties DEF PoolInv, PoolTypes
<1>10. Len(new) = Len(pkts) /\ \A i \in 1..Len(pkts) : new[i].conn = conns
    BY <1>4, <1>7
<1>11. PoolTypes' /\ Numbered'
  <2> HIDE DEF k
  <2>1. k \in Nat /\ Len(given') = Len(given) + k
    BY <1>4, <1>5, <1>9, <1>10
  <2> QED
    BY <1>3, <1>9, <2>1, HandlePktsStep
<1>12. Owned'
  <2>1. ASSUME NEW i \in 1..Len(given') PROVE given'[i].conn <= conns'
    <3>1. CASE i <= Len(given)
        <4>1. i \in 1..Len(given) /\ given'[i] = given[i]
            BY <1>9, <3>1
        <4> QED
            BY <1>1, <4>1 DEF PoolInv, Owned
    <3>2. CASE ~(i <= Len(given))
        <4>1. i - Len(given) \in 1..Len(pkts) /\ given'[i] = new[i - Len(given)]
            BY <1>9, <1>10, <3>2
        <4>2. given'[i].conn = conns
            BY ONLY <1>10, <4>1
        <4> QED
            BY <1>1, <4>2
    <3> QED
        BY <3>1, <3>2
  <2>2. FlatMapped(Own(conns), given \o new) = FlatMapped(Own(conns), given) \o FlatMapped(Own(conns), new)
    <3>1. Maps(Own(conns), Entries, Seq(Seq(Byte)))
        BY OwnType
    <3>2. \A x, y \in Seq(Entries) :
             FlatMapped(Own(conns), x \o y) = FlatMapped(Own(conns), x) \o FlatMapped(Own(conns), y)
        BY ONLY <3>1, FlatMappedConcat
    <3> QED
        BY ONLY <1>8, <1>9, <3>2, Zenon
  <2>3. FlatMapped(Own(conns), given') = handled'
    BY <1>2, <1>3, <1>8, <2>2 DEF PoolInv, Owned
  <2>4. FlatMapped(Own(conns), given)' = FlatMapped(Own(conns), given')
    BY <1>1 DEF FlatMapped, Mapped, Own
  <2> QED
    BY <2>1, <2>3, <2>4 DEF Owned
<1> QED
    BY <1>11, <1>12 DEF PoolInv

\* The peer and the end of a connection leave the numbers and the queues alone; what was given
\* before is not given to the next connection.
LEMMA PeerOrGoneStep == FramingInv /\ PoolInv /\ PeerOrGone => PoolInv'
<1> SUFFICES ASSUME FramingInv, PoolInv, PeerOrGone PROVE PoolInv'
    OBVIOUS
<1>1. UNCHANGED <<m_nThreadNum, m_nCount, queue, done, given>>
    BY DEF PeerOrGone, poolVars
<1>2. PoolTypes' /\ Numbered'
  <2>1. Callers' = Callers
    BY <1>1 DEF Callers
  <2>2. PoolTypes'
    BY <1>1, <2>1 DEF PoolInv, PoolTypes
  <2>3. Numbered'
    BY <1>1 DEF PoolInv, Numbered, Numbers
  <2> QED
    BY <2>2, <2>3
<1>3. given \in Seq(Entries) /\ Len(given) \in Nat
      /\ \A i \in 1..Len(given) : given[i] \in Entries /\ given[i].conn <= conns
    BY LenProperties, ElementOfSeq DEF PoolInv, PoolTypes, Owned
<1>4. CASE PeerSends \/ PeerSendsAbnormal
  <2>1. conns' = conns /\ handled' = handled
    BY <1>4 DEF PeerSends, PeerSendsAbnormal
  <2>2. FlatMapped(Own(conns), given)' = FlatMapped(Own(conns), given)
    BY <1>1, <2>1 DEF FlatMapped, Mapped, Own
  <2>3. Owned'
    BY <1>1, <2>1, <2>2 DEF PoolInv, Owned
  <2> QED
    BY <1>2, <2>3 DEF PoolInv
<1>5. CASE Gone
  <2>1. conns \in Nat /\ conns' = conns + 1 /\ handled' = <<>>
    BY <1>5, BoundsAssumption DEF Gone, FramingInv
  <2>2. \A i \in 1..Len(given) : given[i].conn # conns' /\ given[i].conn <= conns'
    <3>1. \A i \in 1..Len(given) : given[i].conn \in Nat
        BY <1>3, BoundsAssumption DEF Entries
    <3> QED
        BY <1>3, <2>1, <3>1
  <2>3. FlatMapped(Own(conns'), given) = <<>>
    BY <1>3, <2>2, OwnNone
  <2>4. FlatMapped(Own(conns), given)' = FlatMapped(Own(conns'), given)
    BY <1>1 DEF FlatMapped, Mapped, Own
  <2>5. Owned'
    BY <1>1, <2>1, <2>2, <2>3, <2>4 DEF Owned
  <2> QED
    BY <1>2, <2>5 DEF PoolInv
<1> QED
    BY <1>4, <1>5 DEF PeerOrGone

\* A thread passes on the first packet it has.
LEMMA ThreadCallsStep ==
    ASSUME PoolInv, m_nThreadNum > 0, NEW t \in Callers, ThreadCalls(t)
    PROVE  PoolInv'
<1>1. /\ queue[t] # <<>>
      /\ queue' = [queue EXCEPT ![t] = Tail(queue[t])]
      /\ done' = [done EXCEPT ![t] = Append(done[t], Head(queue[t]))]
      /\ UNCHANGED <<m_nThreadNum, m_nCount, given, handled, conns>>
    BY DEF ThreadCalls, Pool!Take, vars
<1>2. /\ queue \in [Callers -> Seq(Nat)] /\ done \in [Callers -> Seq(Nat)]
      /\ queue[t] \in Seq(Nat) /\ done[t] \in Seq(Nat)
    BY DEF PoolInv, PoolTypes
<1>3. /\ Tail(queue[t]) \in Seq(Nat) /\ Append(done[t], Head(queue[t])) \in Seq(Nat)
      /\ Append(done[t], Head(queue[t])) \o Tail(queue[t]) = done[t] \o queue[t]
    BY <1>1, <1>2, HeadTailProperties, AppendProperties, MoveHead
<1>4. Callers' = Callers
    BY <1>1 DEF Callers
<1>5. PoolTypes'
  <2>1. queue' \in [Callers -> Seq(Nat)] /\ done' \in [Callers -> Seq(Nat)]
    BY <1>1, <1>2, <1>3
  <2> QED
    BY <1>1, <1>4, <2>1 DEF PoolInv, PoolTypes
<1>6. Numbered'
  <2>1. m_nThreadNum \in Nat /\ m_nThreadNum # 0
    BY RequestsAssumption DEF PoolInv, PoolTypes
  <2>2. ASSUME m_nThreadNum <= 1 PROVE done'[0] \o queue'[0] = Numbers(0, Len(given))
    <3>1. t = 0
        BY <2>1, <2>2 DEF Callers
    <3>2. done'[0] = Append(done[t], Head(queue[t])) /\ queue'[0] = Tail(queue[t])
        BY <1>1, <1>2, <3>1
    <3> QED
        BY <1>3, <2>2, <3>1, <3>2 DEF PoolInv, Numbered
  <2> QED
    BY <1>1, <2>1, <2>2 DEF PoolInv, Numbered, Numbers
<1>7. Owned'
  <2>1. FlatMapped(Own(conns), given)' = FlatMapped(Own(conns), given)
    BY <1>1 DEF FlatMapped, Mapped, Own
  <2> QED
    BY <1>1, <2>1 DEF PoolInv, Owned
<1> QED
    BY <1>5, <1>6, <1>7 DEF PoolInv

LEMMA PoolSame == PoolInv /\ UNCHANGED serverVars => PoolInv'
<1> SUFFICES ASSUME PoolInv, UNCHANGED serverVars PROVE PoolInv'
    OBVIOUS
<1>1. UNCHANGED <<m_nThreadNum, m_nCount, queue, done, given, conns, handled>>
    BY DEF serverVars, poolVars, vars
<1>2. Callers' = Callers
    BY <1>1 DEF Callers
<1>3. PoolTypes'
    BY <1>1, <1>2 DEF PoolInv, PoolTypes
<1>4. Numbered'
    BY <1>1 DEF PoolInv, Numbered, Numbers
<1>5. FlatMapped(Own(conns), given)' = FlatMapped(Own(conns), given)
    BY <1>1 DEF FlatMapped, Mapped, Own
<1>6. Owned'
    BY <1>1, <1>5 DEF PoolInv, Owned
<1> QED
    BY <1>3, <1>4, <1>6 DEF PoolInv

LEMMA PoolNext == FramingInv /\ PoolInv /\ [ServerNext]_serverVars => PoolInv'
<1> SUFFICES ASSUME FramingInv, PoolInv, [ServerNext]_serverVars PROVE PoolInv'
    OBVIOUS
<1>1. CASE ServerReceives
    BY <1>1, ServerReceivesStep
<1>2. CASE PeerOrGone
    BY <1>2, PeerOrGoneStep
<1>3. CASE m_nThreadNum > 0 /\ \E t \in Callers : ThreadCalls(t)
    BY <1>3, ThreadCallsStep
<1>4. CASE UNCHANGED serverVars
    BY <1>4, PoolSame
<1> QED
    BY <1>1, <1>2, <1>3, <1>4 DEF ServerNext

LEMMA PoolAlways == ServerSpec => [](FramingInv /\ PoolInv)
<1>1. ServerInit => FramingInv /\ PoolInv
    BY FramingInit, PoolInit DEF ServerInit
<1>2. (FramingInv /\ PoolInv) /\ [ServerNext]_serverVars => (FramingInv /\ PoolInv)'
    BY FramingServer, PoolNext
<1> QED
    BY <1>1, <1>2, PTL DEF ServerSpec

\* Everything keeps its type; a packet that is handed on has a header and at least one byte.
THEOREM Typed == ServerSpec => []ServerTypeOK
<1>1. FramingInv /\ PoolInv => ServerTypeOK
    BY FramingGives DEF PoolInv, PoolTypes, ServerTypeOK, Entries
<1> QED
    BY <1>1, PoolAlways, PTL

\* What is given to the application of the connection is the beginning of what was handed on.
LEMMA GotPrefix ==
    ASSUME FramingInv, PoolInv, m_nThreadNum <= 1
    PROVE  AppGot(0, conns) \in Seq(Seq(Byte))
           /\ \E more \in Seq(Seq(Byte)) : handled = AppGot(0, conns) \o more
<1> DEFINE n == Len(given)
           P == 0..(n - 1)
           f == [p \in P |-> IF given[p + 1].conn = conns THEN <<given[p + 1].pkt>> ELSE <<>>]
           d == done[0]
           q == queue[0]
<1>1. /\ given \in Seq(Entries) /\ n \in Nat /\ DOMAIN given = 1..n
      /\ \A i \in 1..n : given[i] \in Entries
    BY LenProperties, ElementOfSeq DEF PoolInv, PoolTypes
<1> HIDE DEF n
<1>2. Maps(f, P, Seq(Seq(Byte)))
  <2>1. ASSUME NEW p \in P PROVE f[p] \in Seq(Seq(Byte))
    <3>1. p + 1 \in 1..n
        BY <1>1
    <3>2. given[p + 1].pkt \in Seq(Byte) /\ <<>> \in Seq(Seq(Byte))
        BY <1>1, <3>1, EmptySeq DEF Entries
    <3>3. <<given[p + 1].pkt>> \in Seq(Seq(Byte))
        BY <3>2
    <3> QED
        BY <3>2, <3>3
  <2> QED
    BY <2>1 DEF Maps
<1>3. /\ d \in Seq(Nat) /\ q \in Seq(Nat) /\ d \o q = Numbers(0, n)
  <2>1. 0 \in Callers
    BY RequestsAssumption DEF Callers, PoolInv, PoolTypes
  <2> QED
    BY <2>1 DEF PoolInv, PoolTypes, Numbered, n
<1>4. Numbers(0, n) \in Seq(P) /\ Len(Numbers(0, n)) = n
  <2>1. Numbers(0, n) \in Seq(0 .. 0 + n - 1) /\ Len(Numbers(0, n)) = n
    BY <1>1, NumbersType
  <2>2. 0 + n - 1 = n - 1
    BY <1>1
  <2> QED
    BY <2>1, <2>2
<1>5. d \in Seq(P) /\ q \in Seq(P)
  <2>1. d \o q \in Seq(P)
    BY <1>3, <1>4
  <2> HIDE DEF d, q, P
  <2> QED
    BY ONLY <1>3, <2>1, ConcatParts
<1>6. AppGot(0, conns) = FlatMapped(f, d)
  <2>1. DOMAIN d = 1..Len(d) /\ \A i \in 1..Len(d) : d[i] \in P
    BY <1>5, LenProperties, ElementOfSeq
  <2>2. Mapped(f, d) = [i \in DOMAIN d |-> IF given[d[i] + 1].conn = conns
                                           THEN <<given[d[i] + 1].pkt>> ELSE <<>>]
    BY <2>1 DEF Mapped
  <2> QED
    BY <2>2 DEF AppGot, FlatMapped
<1>7. Mapped(f, Numbers(0, n)) = Mapped(Own(conns), given)
  <2>1. DOMAIN Numbers(0, n) = 1..n
    BY DEF Numbers
  <2>2. ASSUME NEW i \in 1..n PROVE f[Numbers(0, n)[i]] = Own(conns)[given[i]]
    <3>1. Numbers(0, n)[i] = i - 1 /\ i - 1 \in P /\ (i - 1) + 1 = i
        BY <1>1 DEF Numbers
    <3>2. f[i - 1] = IF given[i].conn = conns THEN <<given[i].pkt>> ELSE <<>>
        BY <3>1
    <3> QED
        BY <1>1, <3>1, <3>2 DEF Own
  <2> HIDE DEF f
  <2> QED
    BY <1>1, <2>1, <2>2 DEF Mapped
<1> HIDE DEF f, P, d, q
<1>8. handled = FlatMapped(f, d \o q)
    BY <1>3, <1>7 DEF PoolInv, Owned, FlatMapped
<1>9. FlatMapped(f, d \o q) = FlatMapped(f, d) \o FlatMapped(f, q)
    BY ONLY <1>2, <1>5, FlatMappedConcat
<1>10. FlatMapped(f, d) \in Seq(Seq(Byte)) /\ FlatMapped(f, q) \in Seq(Seq(Byte))
    BY ONLY <1>2, <1>5, FlatMappedType
<1> QED
    BY <1>6, <1>8, <1>9, <1>10

\* With no packet threads, or one, the application gets what the peer sent on a connection,
\* whole and in order.
THEOREM InOrder == ServerSpec => []AppInOrder
<1>1. ASSUME FramingInv, PoolInv, m_nThreadNum <= 1, normal
      PROVE  IsPrefix(AppGot(0, conns), sent)
  <2>1. AppGot(0, conns) \in Seq(Seq(Byte))
    BY <1>1, GotPrefix
  <2>2. PICK more \in Seq(Seq(Byte)) : handled = AppGot(0, conns) \o more
    BY <1>1, GotPrefix
  <2>3. PICK rest \in Seq(Packets) : sent = handled \o rest
    BY <1>1, WholeNow DEF FramingInv
  <2>4. rest \in Seq(Seq(Byte)) /\ handled \in Seq(Seq(Byte))
    BY <2>1, <2>2, PacketsType, ConcatProperties
  <2>5. IsPrefix(AppGot(0, conns), handled)
    BY <2>1, <2>2, PrefixConcat
  <2> QED
    BY <2>1, <2>3, <2>4, <2>5, PrefixExtend
<1>2. FramingInv /\ PoolInv => AppInOrder
    BY <1>1 DEF AppInOrder
<1> QED
    BY <1>2, PoolAlways, PTL
=============================================================================
