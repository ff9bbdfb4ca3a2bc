---------------------------- MODULE SequenceLemmas ----------------------------
(* What the queues of the models need of sequences: concatenation, and the *)
(* sequence of all the bytes of a sequence of buffers, FlattenSeq.          *)
EXTENDS Integers, SequencesExt, SequenceTheorems, WellFoundedInduction, TLAPS

-----------------------------------------------------------------------------
(* Concatenation. *)

\* Moving the head of the second sequence to the end of the first changes nothing.
LEMMA MoveHead ==
    ASSUME NEW S, NEW s \in Seq(S), NEW t \in Seq(S), t # <<>>
    PROVE  Append(s, Head(t)) \o Tail(t) = s \o t
<1>1. Head(t) \in S /\ Tail(t) \in Seq(S) /\ Len(Tail(t)) = Len(t) - 1
      /\ \A i \in 1..Len(Tail(t)) : Tail(t)[i] = t[i + 1]
    BY HeadTailProperties
<1> DEFINE u == Append(s, Head(t)) \o Tail(t)
<1>2. /\ Append(s, Head(t)) \in Seq(S) /\ Len(Append(s, Head(t))) = Len(s) + 1
      /\ \A i \in 1..Len(s) : Append(s, Head(t))[i] = s[i]
      /\ Append(s, Head(t))[Len(s) + 1] = t[1]
    BY <1>1, AppendProperties
<1>3. u \in Seq(S) /\ Len(u) = Len(s) + Len(t)
    BY <1>1, <1>2, ConcatProperties
<1>4. s \o t \in Seq(S) /\ Len(s \o t) = Len(s) + Len(t)
    BY ConcatProperties
<1>5. Len(s) \in Nat /\ Len(t) \in Nat \ {0}
    BY EmptySeq, LenProperties
<1>6. ASSUME NEW i \in 1..Len(u) PROVE u[i] = (s \o t)[i]
  <2>1. u[i] = IF i <= Len(s) + 1 THEN Append(s, Head(t))[i] ELSE Tail(t)[i - (Len(s) + 1)]
    BY <1>1, <1>2, <1>3, <1>5, ConcatProperties
  <2>2. (s \o t)[i] = IF i <= Len(s) THEN s[i] ELSE t[i - Len(s)]
    BY <1>3, <1>5, ConcatProperties
  <2>3. CASE i <= Len(s)
    BY <1>2, <1>5, <2>1, <2>2, <2>3
  <2>4. CASE i = Len(s) + 1
    BY <1>2, <1>5, <2>1, <2>2, <2>4
  <2>5. CASE i > Len(s) + 1
    <3>1. i - (Len(s) + 1) \in 1..Len(Tail(t))
        BY <1>1, <1>3, <1>5, <2>5
    <3>2. Tail(t)[i - (Len(s) + 1)] = t[i - Len(s)]
        BY <1>1, <1>5, <3>1
    <3> QED
        BY <1>5, <2>1, <2>2, <2>5, <3>2
  <2> QED
    BY <1>3, <1>5, <2>3, <2>4, <2>5
<1> QED
    BY <1>3, <1>4, <1>6, SeqEqual

\* Appending to the last of two sequences appends to both together.
LEMMA AppendLast ==
    ASSUME NEW S, NEW s \in Seq(S), NEW t \in Seq(S), NEW e \in S
    PROVE  s \o Append(t, e) = Append(s \o t, e)
<1>1. s \o t \in Seq(S) /\ <<e>> \in Seq(S)
    BY ConcatProperties
<1>2. Append(t, e) = t \o <<e>> /\ Append(s \o t, e) = (s \o t) \o <<e>>
    BY <1>1, AppendIsConcat
<1> QED
    BY <1>1, <1>2, ConcatAssociative

\* Head and tail of a concatenation whose first part is not empty.
LEMMA HeadTailConcat ==
    ASSUME NEW S, NEW s \in Seq(S), NEW t \in Seq(S), s # <<>>
    PROVE  s \o t # <<>> /\ Head(s \o t) = Head(s) /\ Tail(s \o t) = Tail(s) \o t
<1> DEFINE u == s \o t
<1>1. /\ u \in Seq(S) /\ Len(u) = Len(s) + Len(t)
      /\ \A i \in 1..Len(s) + Len(t) : u[i] = IF i <= Len(s) THEN s[i] ELSE t[i - Len(s)]
    BY ConcatProperties
<1>2. Len(s) \in Nat \ {0} /\ Len(t) \in Nat
    BY EmptySeq, LenProperties
<1>3. u # <<>>
    BY <1>1, <1>2
<1>4. Head(u) = Head(s)
    BY <1>1, <1>2
<1>5. /\ Tail(s) \in Seq(S) /\ Len(Tail(s)) = Len(s) - 1
      /\ \A i \in 1..Len(Tail(s)) : Tail(s)[i] = s[i + 1]
    BY HeadTailProperties
<1>6. /\ Tail(u) \in Seq(S) /\ Len(Tail(u)) = Len(u) - 1
      /\ \A i \in 1..Len(Tail(u)) : Tail(u)[i] = u[i + 1]
    BY <1>1, <1>3, HeadTailProperties
<1> DEFINE v == Tail(s) \o t
<1>7. /\ v \in Seq(S) /\ Len(v) = Len(Tail(s)) + Len(t)
      /\ \A i \in 1..Len(Tail(s)) + Len(t) :
            v[i] = IF i <= Len(Tail(s)) THEN Tail(s)[i] ELSE t[i - Len(Tail(s))]
    BY <1>5, ConcatProperties
<1> HIDE DEF u, v
<1>8. ASSUME NEW i \in 1..Len(Tail(u)) PROVE Tail(u)[i] = v[i]
  <2>1. Tail(u)[i] = IF i + 1 <= Len(s) THEN s[i + 1] ELSE t[(i + 1) - Len(s)]
    BY <1>1, <1>2, <1>6
  <2>2. v[i] = IF i <= Len(s) - 1 THEN Tail(s)[i] ELSE t[i - (Len(s) - 1)]
    BY <1>1, <1>2, <1>5, <1>6, <1>7
  <2>3. CASE i + 1 <= Len(s)
    BY <1>1, <1>2, <1>5, <1>6, <2>1, <2>2, <2>3
  <2>4. CASE i + 1 > Len(s)
    BY <1>1, <1>2, <1>6, <2>1, <2>2, <2>4
  <2> QED
    BY <1>1, <1>2, <1>6, <2>3, <2>4
<1>9. Len(Tail(u)) = Len(v)
    BY <1>1, <1>2, <1>5, <1>6, <1>7
<1>10. Tail(u) = v
    BY <1>6, <1>7, <1>8, <1>9, SeqEqual
<1> QED
    BY <1>3, <1>4, <1>10 DEF u, v

\* Concatenation is associative.
LEMMA Associative ==
    ASSUME NEW S
    PROVE  \A x, y, z \in Seq(S) : (x \o y) \o z = x \o (y \o z)
    BY ConcatAssociative

\* The parts of a sequence over A are over A.
LEMMA ConcatParts ==
    ASSUME NEW S, NEW s \in Seq(S), NEW t \in Seq(S), NEW A, s \o t \in Seq(A)
    PROVE  s \in Seq(A) /\ t \in Seq(A)
<1>1. /\ Len(s) \in Nat /\ Len(t) \in Nat /\ Len(s \o t) = Len(s) + Len(t)
      /\ \A i \in 1 .. Len(s) + Len(t) : (s \o t)[i] = IF i <= Len(s) THEN s[i] ELSE t[i - Len(s)]
    BY ConcatProperties, LenProperties
<1>2. \A i \in 1 .. Len(s) + Len(t) : (s \o t)[i] \in A
    BY <1>1, ElementOfSeq
<1>3. ASSUME NEW i \in 1..Len(s) PROVE s[i] \in A
  <2>1. i \in 1 .. Len(s) + Len(t) /\ i <= Len(s)
    BY <1>1
  <2> QED
    BY <1>1, <1>2, <2>1
<1>4. ASSUME NEW i \in 1..Len(t) PROVE t[i] \in A
  <2>1. Len(s) + i \in 1 .. Len(s) + Len(t) /\ ~(Len(s) + i <= Len(s)) /\ (Len(s) + i) - Len(s) = i
    BY <1>1
  <2> QED
    BY <1>1, <1>2, <2>1
<1>5. DOMAIN s = 1..Len(s) /\ DOMAIN t = 1..Len(t)
    BY LenProperties
<1>6. s = [i \in 1..Len(s) |-> s[i]] /\ t = [i \in 1..Len(t) |-> t[i]]
    BY <1>5, IsASeq
<1> QED
    BY <1>1, <1>3, <1>4, <1>6, IsASeq

-----------------------------------------------------------------------------
(* Prefixes. *)

\* A sequence is a prefix of what begins with it.
LEMMA PrefixConcat ==
    ASSUME NEW S, NEW s \in Seq(S), NEW t \in Seq(S)
    PROVE  IsPrefix(s, s \o t)
<1>1. Len(s) \in Nat /\ Len(t) \in Nat /\ Len(s \o t) = Len(s) + Len(t)
    BY ConcatProperties, LenProperties
<1>2. SubSeq(s \o t, 1, Len(s)) = SubSeq(s, 1, Len(s))
    BY <1>1, SubSeqOfConcat1
<1> QED
    BY <1>1, <1>2 DEF IsPrefix

\* A prefix stays one when the other sequence grows.
LEMMA PrefixExtend ==
    ASSUME NEW S, NEW s \in Seq(S), NEW t \in Seq(S), NEW e \in Seq(S), IsPrefix(s, t)
    PROVE  IsPrefix(s, t \o e)
<1>1. /\ Len(s) \in Nat /\ Len(t) \in Nat /\ Len(e) \in Nat
      /\ Len(t \o e) = Len(t) + Len(e) /\ Len(s) <= Len(t)
    BY ConcatProperties, LenProperties DEF IsPrefix
<1>2. SubSeq(t \o e, 1, Len(s)) = SubSeq(t, 1, Len(s))
  <2>1. Len(s) \in 0..Len(t) /\ 1 \in 1..(Len(t) + 1)
    BY <1>1
  <2> QED
    BY <2>1, SubSeqOfConcat1
<1> QED
    BY <1>1, <1>2 DEF IsPrefix

\* Two ways to cut the same sequence: what the shorter first part has, the longer begins with.
LEMMA CutConcat ==
    ASSUME NEW S, NEW d \in Seq(S), NEW e \in Seq(S), NEW p \in Seq(S), NEW q \in Seq(S),
           d \o e = p \o q, Len(p) <= Len(d)
    PROVE  SubSeq(d, 1, Len(p)) = p /\ SubSeq(d, Len(p) + 1, Len(d)) \o e = q
<1> DEFINE a == SubSeq(d, 1, Len(p))
           b == SubSeq(d, Len(p) + 1, Len(d))
<1>1. Len(d) \in Nat /\ Len(p) \in Nat
    BY LenProperties
<1>2. a \in Seq(S) /\ b \in Seq(S) /\ Len(a) = Len(p)
  <2>1. \A i \in 1..Len(d) : d[i] \in S
    BY ElementOfSeq
  <2>2. (\A i \in 1..Len(p) : d[i] \in S) /\ \A i \in Len(p) + 1 .. Len(d) : d[i] \in S
    BY <1>1, <2>1
  <2>3. a \in Seq(S) /\ Len(a) = IF 1 <= Len(p) THEN Len(p) - 1 + 1 ELSE 0
    BY <1>1, <2>2, SubSeqProperties
  <2>4. b \in Seq(S)
    BY <1>1, <2>2, SubSeqProperties
  <2> QED
    BY <1>1, <2>3, <2>4
<1>3. a \o b = d
  <2>1. 1 \in 1 .. Len(d) + 1 /\ Len(p) \in 1 - 1 .. Len(d) /\ Len(d) \in Len(p) .. Len(d)
    BY <1>1
  <2>2. a \o b = SubSeq(d, 1, Len(d))
    BY <2>1, ConcatAdjacentSubSeq
  <2> QED
    BY <2>2, SubSeqFull
<1> HIDE DEF a, b
<1>4. a \o (b \o e) = p \o q /\ b \o e \in Seq(S)
  <2>1. (a \o b) \o e = a \o (b \o e)
    BY ONLY <1>2, e \in Seq(S), ConcatAssociative
  <2> QED
    BY <1>2, <1>3, <2>1, ConcatProperties
<1>5. ASSUME NEW i \in 1..Len(p) PROVE a[i] = p[i]
  <2>1. i <= Len(p) /\ i \in 1 .. Len(a) + Len(b \o e) /\ i \in 1 .. Len(p) + Len(q)
    BY <1>1, <1>2, <1>4, LenProperties
  <2>2. (a \o (b \o e))[i] = a[i]
    BY <1>2, <1>4, <2>1, ConcatProperties
  <2>3. (p \o q)[i] = p[i]
    BY <2>1, ConcatProperties
  <2> QED
    BY <1>4, <2>2, <2>3
<1>6. a = p
    BY <1>2, <1>5, SeqEqual
<1>7. b \o e = q
  <2>1. \A T : \A x, y, z \in Seq(T) : x \o y = x \o z => y = z
    BY ConcatSimplifications
  <2>2. p \o (b \o e) = p \o q
    BY <1>4, <1>6
  <2> QED
    BY ONLY <1>4, <2>1, <2>2, p \in Seq(S), q \in Seq(S), Zenon
<1> QED
    BY <1>6, <1>7 DEF a, b

-----------------------------------------------------------------------------
(* FlattenSeq.  Induction is the choice of the smallest counterexample.      *)

\* A set of natural numbers that is not empty has a smallest member.
LEMMA SmallestMember ==
    ASSUME NEW T, T \subseteq Nat, T # {}
    PROVE  \E m \in T : \A k \in T : m <= k
<1> DEFINE R == OpToRel(<, Nat)
<1>1. IsWellFoundedOn(R, Nat)
    BY NatLessThanWellFounded
<1>2. \A a, b \in Nat : <<a, b>> \in R <=> a < b
    BY DEF OpToRel
<1> HIDE DEF R
<1>3. PICK m \in T : \A k \in T : ~(<<k, m>> \in R)
    BY <1>1, WFMin
<1>4. ASSUME NEW k \in T PROVE m <= k
  <2>1. k \in Nat /\ m \in Nat /\ ~(k < m)
    BY <1>2, <1>3
  <2> QED
    BY <2>1
<1> QED
    BY <1>4

\* Induction over a set of natural numbers.
LEMMA InductionSet ==
    ASSUME NEW T, 0 \in T, \A n \in Nat : n \in T => n + 1 \in T
    PROVE  \A n \in Nat : n \in T
<1> DEFINE U == {n \in Nat : n \notin T}
<1>1. ASSUME U # {} PROVE FALSE
  <2>1. U \subseteq Nat
    OBVIOUS
  <2> HIDE DEF U
  <2>2. PICK m \in U : \A k \in U : m <= k
    BY <1>1, <2>1, SmallestMember
  <2>3. m \in Nat /\ m \notin T /\ m # 0
    BY <2>2 DEF U
  <2>4. m - 1 \in Nat /\ ~(m <= m - 1) /\ (m - 1) + 1 = m
    BY <2>3
  <2>5. m - 1 \in T
    BY <2>2, <2>4 DEF U
  <2> QED
    BY <2>3, <2>4, <2>5
<1> QED
    BY <1>1

\* f joins the first k sequences of s, one after the other.
Joins(f, s, k) == \A i \in 1..k : f[i] = IF i = 1 THEN s[i] ELSE f[i - 1] \o s[i]

LEMMA JoinExists ==
    ASSUME NEW S, NEW s \in Seq(Seq(S)), NEW k \in 1..Len(s)
    PROVE  \E f \in [1..k -> Seq(S)] : Joins(f, s, k)
<1> DEFINE T == {j \in 1..Len(s) : ~\E f \in [1..j -> Seq(S)] : Joins(f, s, j)}
<1>1. ASSUME T # {} PROVE FALSE
  <2>1. T \subseteq Nat
    BY LenProperties
  <2> HIDE DEF T
  <2>2. PICK m \in T : \A j \in T : m <= j
    BY <1>1, <2>1, SmallestMember
  <2> USE DEF T
  <2>3. Len(s) \in Nat /\ m \in 1..Len(s) /\ \A j \in 1..Len(s) : s[j] \in Seq(S)
    BY <2>2, LenProperties, ElementOfSeq
  <2>4. CASE m = 1
    <3> DEFINE f == [i \in 1..m |-> s[i]]
    <3>1. f \in [1..m -> Seq(S)] /\ Joins(f, s, m)
        BY <2>3, <2>4 DEF Joins
    <3> QED
        BY <2>2, <3>1
  <2>5. CASE m # 1
    <3>0. m - 1 \in 1..Len(s) /\ m - 1 < m
        BY <2>3, <2>5
    <3>1. m - 1 \notin T
      <4> HIDE DEF T
      <4> QED
        BY <2>2, <2>3, <3>0
    <3>2. PICK g \in [1..(m - 1) -> Seq(S)] : Joins(g, s, m - 1)
        BY <3>0, <3>1
    <3> DEFINE f == [i \in 1..m |-> IF i = m THEN g[m - 1] \o s[m] ELSE g[i]]
    <3>3. g[m - 1] \o s[m] \in Seq(S)
        BY <2>3, <3>0, ConcatProperties
    <3>4. f \in [1..m -> Seq(S)]
        BY <2>3, <3>0, <3>3
    <3>5. Joins(f, s, m)
      <4>0. m \in 1..m /\ \A i \in 1..(m - 1) : i \in 1..m /\ i # m
        BY <2>3, <3>0
      <4>1. f[m] = g[m - 1] \o s[m] /\ \A i \in 1..(m - 1) : f[i] = g[i]
        BY <4>0
      <4>2. f[m - 1] = g[m - 1]
        BY <2>3, <3>0, <4>1
      <4> HIDE DEF f
      <4>3. ASSUME NEW i \in 1..m PROVE f[i] = IF i = 1 THEN s[i] ELSE f[i - 1] \o s[i]
        <5>1. CASE i = m
            BY <2>5, <4>1, <4>2, <5>1
        <5>2. CASE i # m
            <6>1. i \in 1..(m - 1) /\ f[i] = g[i] /\ (i # 1 => f[i - 1] = g[i - 1])
                BY <2>3, <4>1, <5>2
            <6> QED
                BY <3>2, <6>1 DEF Joins
        <5> QED
            BY <5>1, <5>2
      <4> QED
        BY <4>3 DEF Joins
    <3> QED
        BY <2>2, <3>4, <3>5
  <2> QED
    BY <2>4, <2>5
<1> QED
    BY <1>1

\* Joining is unique.
LEMMA JoinsUnique ==
    ASSUME NEW s, NEW n \in Nat, NEW f, NEW g, Joins(f, s, n), Joins(g, s, n), NEW i \in 1..n
    PROVE  f[i] = g[i]
<1> DEFINE T == {j \in 1..n : f[j] # g[j]}
<1>1. ASSUME T # {} PROVE FALSE
  <2>1. T \subseteq Nat
    OBVIOUS
  <2> HIDE DEF T
  <2>2. PICK m \in T : \A j \in T : m <= j
    BY <1>1, <2>1, SmallestMember
  <2> USE DEF T
  <2>3. m \in 1..n /\ f[m] # g[m]
    BY <2>2
  <2>4. m # 1
    BY <2>3 DEF Joins
  <2>5. m - 1 \in 1..n /\ m - 1 < m
    BY <2>3, <2>4
  <2>6. f[m - 1] = g[m - 1]
    BY <2>2, <2>3, <2>5
  <2> QED
    BY <2>3, <2>4, <2>6 DEF Joins
<1> QED
    BY <1>1

\* The recursion of FlattenSeq has a solution, whose last value is the result.
LEMMA FlattenJoins ==
    ASSUME NEW S, NEW s \in Seq(Seq(S)), s # <<>>
    PROVE  \E f \in [1..Len(s) -> Seq(S)] : Joins(f, s, Len(s)) /\ FlattenSeq(s) = f[Len(s)]
<1> DEFINE n == Len(s)
           Rec(f) == [i \in 1..n |-> IF i = 1 THEN s[i] ELSE f[i - 1] \o s[i]]
           g == CHOOSE f : f = Rec(f)
<1>1. n \in Nat \ {0}
    BY EmptySeq
<1>2. PICK f \in [1..n -> Seq(S)] : Joins(f, s, n)
    BY <1>1, JoinExists
<1>3. f = Rec(f)
    BY <1>2 DEF Joins
<1>4. g = Rec(g)
    BY <1>3
<1>5. FlattenSeq(s) = g[n]
    BY <1>1 DEF FlattenSeq
<1> HIDE DEF g
<1>6. Joins(g, s, n)
    BY <1>4 DEF Joins
<1>7. ASSUME NEW i \in 1..n PROVE g[i] = f[i]
    BY <1>1, <1>2, <1>6, <1>7, JoinsUnique
<1>8. FlattenSeq(s) = f[n]
    BY <1>1, <1>5, <1>7
<1> QED
    BY <1>2, <1>8

LEMMA FlattenEmpty == FlattenSeq(<<>>) = <<>>
    BY DEF FlattenSeq

LEMMA FlattenType ==
    ASSUME NEW S, NEW s \in Seq(Seq(S))
    PROVE  FlattenSeq(s) \in Seq(S)
<1>1. CASE s = <<>>
  <2>1. <<>> \in Seq(S)
    BY EmptySeq
  <2> QED
    BY <1>1, <2>1, FlattenEmpty
<1>2. CASE s # <<>>
  <2>1. Len(s) \in 1..Len(s)
    BY <1>2, EmptySeq, LenProperties
  <2>2. PICK f \in [1..Len(s) -> Seq(S)] : FlattenSeq(s) = f[Len(s)]
    BY <1>2, FlattenJoins
  <2> QED
    BY <2>1, <2>2
<1> QED
    BY <1>1, <1>2

\* One more sequence at the end.
LEMMA FlattenAppend ==
    ASSUME NEW S, NEW s \in Seq(Seq(S)), NEW x \in Seq(S)
    PROVE  FlattenSeq(Append(s, x)) = FlattenSeq(s) \o x
<1> DEFINE t == Append(s, x)
           n == Len(s)
<1>1. /\ t \in Seq(Seq(S)) /\ t # <<>> /\ n \in Nat /\ Len(t) = n + 1
      /\ (\A i \in 1..n : t[i] = s[i]) /\ t[n + 1] = x
    BY AppendProperties, LenProperties
<1> HIDE DEF t
<1>2. PICK f \in [1..(n + 1) -> Seq(S)] : Joins(f, t, n + 1) /\ FlattenSeq(t) = f[n + 1]
    BY <1>1, FlattenJoins
<1>3. CASE s = <<>>
  <2>1. n = 0
    BY <1>3
  <2>2. FlattenSeq(t) = x
    BY <1>1, <1>2, <2>1 DEF Joins
  <2>3. <<>> \o x = x
    BY ConcatEmptySeq
  <2> QED
    BY <1>3, <2>2, <2>3, FlattenEmpty DEF t
<1>4. CASE s # <<>>
  <2>1. n \in Nat \ {0} /\ n \in 1..n
    BY <1>1, <1>4, EmptySeq
  <2>2. PICK g \in [1..n -> Seq(S)] : Joins(g, s, n) /\ FlattenSeq(s) = g[n]
    BY <1>4, FlattenJoins
  <2>3. Joins(f, s, n)
    <3>1. \A i \in 1..n : i \in 1..(n + 1)
        BY <1>1
    <3> QED
        BY <1>1, <1>2, <3>1 DEF Joins
  <2>4. f[n] = g[n]
    BY <2>1, <2>2, <2>3, JoinsUnique
  <2>5. n + 1 \in 1..(n + 1) /\ n + 1 # 1 /\ (n + 1) - 1 = n
    BY <2>1
  <2>6. f[n + 1] = f[n] \o x
    BY <1>1, <1>2, <2>5 DEF Joins
  <2> QED
    BY <1>2, <2>2, <2>4, <2>6 DEF t
<1> QED
    BY <1>3, <1>4

\* The first sequence and the others.
LEMMA FlattenCons ==
    ASSUME NEW S, NEW s \in Seq(Seq(S)), s # <<>>
    PROVE  FlattenSeq(s) = Head(s) \o FlattenSeq(Tail(s))
<1>0. \A a, b, c \in Seq(S) : (a \o b) \o c = a \o (b \o c)
    BY Associative
<1> DEFINE t == Tail(s)
           n == Len(t)
<1>1. /\ t \in Seq(Seq(S)) /\ n \in Nat /\ Len(s) = n + 1 /\ Head(s) = s[1]
      /\ Head(s) \in Seq(S) /\ \A i \in 1..n : t[i] = s[i + 1] /\ t[i] \in Seq(S)
    BY HeadTailProperties, LenProperties, ElementOfSeq
<1> HIDE DEF t
<1>2. PICK f \in [1..(n + 1) -> Seq(S)] : Joins(f, s, n + 1) /\ FlattenSeq(s) = f[n + 1]
    BY <1>1, FlattenJoins
<1>3. f[1] = Head(s) /\ \A i \in 1..n : f[i + 1] = f[i] \o t[i]
  <2>1. /\ 1 \in 1..(n + 1)
        /\ \A i \in 1..n : i + 1 \in 1..(n + 1) /\ i + 1 # 1 /\ (i + 1) - 1 = i
    BY <1>1
  <2> QED
    BY <1>1, <1>2, <2>1 DEF Joins
<1>4. CASE t = <<>>
  <2>1. n = 0 /\ Head(s) \o <<>> = Head(s)
    BY <1>1, <1>4, ConcatEmptySeq
  <2>2. FlattenSeq(s) = Head(s)
    BY <1>2, <1>3, <2>1
  <2> QED
    BY <1>4, <2>1, <2>2, FlattenEmpty DEF t
<1>5. CASE t # <<>>
  <2>1. n \in Nat \ {0} /\ n \in 1..n
    BY <1>1, <1>5, EmptySeq
  <2>2. PICK g \in [1..n -> Seq(S)] : Joins(g, t, n) /\ FlattenSeq(t) = g[n]
    BY <1>1, <1>5, FlattenJoins
  <2> DEFINE T == {i \in 1..n : f[i + 1] # Head(s) \o g[i]}
  <2>3. ASSUME T # {} PROVE FALSE
    <3>1. T \subseteq Nat
        OBVIOUS
    <3> HIDE DEF T
    <3>2. PICK m \in T : \A j \in T : m <= j
        BY <2>3, <3>1, SmallestMember
    <3>3. m \in 1..n /\ f[m + 1] # Head(s) \o g[m]
        BY <3>2 DEF T
    <3>4. CASE m = 1
      <4>1. g[1] = t[1] /\ f[2] = f[1] \o t[1]
        BY <1>3, <2>2, <3>3, <3>4 DEF Joins
      <4> QED
        BY <1>3, <3>3, <3>4, <4>1
    <3>5. CASE m # 1
      <4>1. m - 1 \in 1..n /\ (m - 1) + 1 = m /\ ~(m <= m - 1)
        BY <2>1, <3>3, <3>5
      <4>2. m - 1 \notin T
        BY <3>2, <4>1
      <4>3. f[m] = Head(s) \o g[m - 1]
        BY <4>1, <4>2 DEF T
      <4>4. g[m] = g[m - 1] \o t[m] /\ f[m + 1] = f[m] \o t[m]
        BY <1>3, <2>2, <3>3, <3>5 DEF Joins
      <4>5. (Head(s) \o g[m - 1]) \o t[m] = Head(s) \o (g[m - 1] \o t[m])
        <5>1. Head(s) \in Seq(S) /\ g[m - 1] \in Seq(S) /\ t[m] \in Seq(S)
            BY <1>1, <2>2, <3>3, <4>1
        <5> QED
            BY <1>0, <5>1, Zenon
      <4> QED
        BY <3>3, <4>3, <4>4, <4>5
    <3> QED
        BY <3>4, <3>5
  <2>4. f[n + 1] = Head(s) \o g[n]
    BY <2>1, <2>3
  <2> QED
    BY <1>2, <2>2, <2>4 DEF t
<1> QED
    BY <1>4, <1>5

\* Two sequences of sequences, one after the other.
LEMMA FlattenConcat ==
    ASSUME NEW S, NEW a \in Seq(Seq(S)), NEW b \in Seq(Seq(S))
    PROVE  FlattenSeq(a \o b) = FlattenSeq(a) \o FlattenSeq(b)
<1>0. \A x, y, z \in Seq(S) : (x \o y) \o z = x \o (y \o z)
    BY Associative
<1> DEFINE Good(x) == FlattenSeq(x \o b) = FlattenSeq(x) \o FlattenSeq(b)
           T == {n \in Nat : \E x \in Seq(Seq(S)) : Len(x) = n /\ ~Good(x)}
<1>1. ASSUME T # {} PROVE FALSE
  <2>1. T \subseteq Nat
    OBVIOUS
  <2> HIDE DEF T, Good
  <2>2. PICK m \in T : \A j \in T : m <= j
    BY <1>1, <2>1, SmallestMember
  <2>3. PICK x \in Seq(Seq(S)) : Len(x) = m /\ ~Good(x)
    BY <2>2 DEF T
  <2>4. CASE x = <<>>
    <3>1. /\ <<>> \o b = b /\ FlattenSeq(b) \in Seq(S)
          /\ <<>> \o FlattenSeq(b) = FlattenSeq(b)
        BY ConcatEmptySeq, FlattenType
    <3> QED
        BY <2>3, <2>4, <3>1, FlattenEmpty DEF Good
  <2>5. CASE x # <<>>
    <3>1. /\ Head(x) \in Seq(S) /\ Tail(x) \in Seq(Seq(S)) /\ Len(Tail(x)) = m - 1
          /\ m \in Nat \ {0}
        BY <2>3, <2>5, HeadTailProperties, EmptySeq
    <3>2. m - 1 \notin T
        BY <2>2, <3>1
    <3>3. Good(Tail(x))
      <4>1. ASSUME ~Good(Tail(x)) PROVE \E y \in Seq(Seq(S)) : Len(y) = m - 1 /\ ~Good(y)
        BY <3>1, <4>1, Zenon
      <4>2. m - 1 \in Nat
        BY <3>1
      <4> QED
        BY <3>2, <4>1, <4>2 DEF T
    <3>4. /\ x \o b \in Seq(Seq(S)) /\ x \o b # <<>>
          /\ Head(x \o b) = Head(x) /\ Tail(x \o b) = Tail(x) \o b
        BY <2>5, HeadTailConcat, ConcatProperties
    <3>5. FlattenSeq(x \o b) = Head(x) \o (FlattenSeq(Tail(x)) \o FlattenSeq(b))
        BY <3>3, <3>4, FlattenCons DEF Good
    <3>6. FlattenSeq(x) = Head(x) \o FlattenSeq(Tail(x))
        BY <2>5, FlattenCons
    <3>7. FlattenSeq(Tail(x)) \in Seq(S) /\ FlattenSeq(b) \in Seq(S)
        BY <3>1, FlattenType
    <3>8. (Head(x) \o FlattenSeq(Tail(x))) \o FlattenSeq(b)
          = Head(x) \o (FlattenSeq(Tail(x)) \o FlattenSeq(b))
        BY <1>0, <3>1, <3>7, Zenon
    <3> QED
        BY <2>3, <3>5, <3>6, <3>8 DEF Good
  <2> QED
    BY <2>4, <2>5
<1>2. Len(a) \in Nat
    BY LenProperties
<1>3. Len(a) \notin T
    BY <1>1
<1> QED
    BY <1>2, <1>3

\* Nothing but empty sequences.
LEMMA FlattenAllEmpty ==
    ASSUME NEW n \in Nat
    PROVE  FlattenSeq([i \in 1..n |-> <<>>]) = <<>>
<1> DEFINE E(k) == [i \in 1..k |-> <<>>]
           T == {k \in Nat : FlattenSeq(E(k)) # <<>>}
<1>0. <<>> \in Seq({})
    BY EmptySeq
<1>3. ASSUME NEW k \in Nat
      PROVE  E(k) \in Seq(Seq({})) /\ Len(E(k)) = k /\ \A i \in 1..k : E(k)[i] = <<>>
    BY <1>0
<1>1. ASSUME T # {} PROVE FALSE
  <2>1. T \subseteq Nat
    OBVIOUS
  <2> HIDE DEF T
  <2>2. PICK m \in T : \A j \in T : m <= j
    BY <1>1, <2>1, SmallestMember
  <2>3. m \in Nat /\ FlattenSeq(E(m)) # <<>>
    BY <2>2 DEF T
  <2>4. E(0) = <<>>
    OBVIOUS
  <2>5. m # 0
    BY <2>3, <2>4, FlattenEmpty
  <2>6. m - 1 \in Nat /\ ~(m <= m - 1)
    BY <2>3, <2>5
  <2>7. FlattenSeq(E(m - 1)) = <<>>
    BY <2>2, <2>6 DEF T
  <2> HIDE DEF E
  <2>8. /\ E(m - 1) \in Seq(Seq({})) /\ Len(E(m - 1)) = m - 1
        /\ \A i \in 1..(m - 1) : E(m - 1)[i] = <<>>
    BY <1>3, <2>6
  <2>9. E(m) \in Seq(Seq({})) /\ Len(E(m)) = m /\ \A i \in 1..m : E(m)[i] = <<>>
    BY <1>3, <2>3
  <2>12. /\ Append(E(m - 1), <<>>) \in Seq(Seq({}))
         /\ Len(Append(E(m - 1), <<>>)) = Len(E(m - 1)) + 1
         /\ \A i \in 1..Len(E(m - 1)) : Append(E(m - 1), <<>>)[i] = E(m - 1)[i]
         /\ Append(E(m - 1), <<>>)[Len(E(m - 1)) + 1] = <<>>
    BY <1>0, <2>8, AppendProperties
  <2>13. Len(E(m - 1)) + 1 = m
    BY <2>3, <2>8
  <2>14. ASSUME NEW i \in 1..m PROVE Append(E(m - 1), <<>>)[i] = E(m)[i]
    <3>1. CASE i = m
        BY <2>9, <2>12, <2>13, <3>1
    <3>2. CASE i # m
      <4>1. i \in 1..(m - 1) /\ i \in 1..Len(E(m - 1))
        BY <2>3, <2>8, <3>2
      <4> QED
        BY <2>8, <2>9, <2>12, <4>1
    <3> QED
        BY <3>1, <3>2
  <2>10. Append(E(m - 1), <<>>) = E(m)
    BY <2>9, <2>12, <2>13, <2>14, SeqEqual
  <2>11. FlattenSeq(E(m)) = <<>> \o <<>>
    BY <1>0, <2>7, <2>8, <2>10, FlattenAppend
  <2> QED
    BY <1>0, <2>3, <2>11, ConcatEmptySeq
<1>2. n \notin T
    BY <1>1
<1> QED
    BY <1>2

\* What is appended to the last sequence that is not empty is appended to the whole.
LEMMA FlattenLast ==
    ASSUME NEW S, NEW s \in Seq(Seq(S)), NEW j \in 1..Len(s), NEW u \in Seq(S),
           \A i \in 1..Len(s) : i > j => s[i] = <<>>
    PROVE  FlattenSeq([s EXCEPT ![j] = @ \o u]) = FlattenSeq(s) \o u
<1>0. \A x, y, z \in Seq(S) : (x \o y) \o z = x \o (y \o z)
    BY ONLY Associative
<1> DEFINE r == [s EXCEPT ![j] = @ \o u]
           n == Len(s)
<1>1. n \in Nat \ {0} /\ n \in 1..n /\ j \in 1..n /\ \A i \in 1..n : s[i] \in Seq(S)
    BY LenProperties, ElementOfSeq
<1>2. s[j] \o u \in Seq(S)
    BY <1>1, ConcatProperties
<1>3. /\ r \in Seq(Seq(S)) /\ Len(r) = n
      /\ \A i \in 1..n : r[i] = IF i = j THEN s[j] \o u ELSE s[i]
    BY <1>1, <1>2
<1>4. s # <<>> /\ r # <<>>
    BY <1>1, <1>3, EmptySeq
<1> HIDE DEF r
<1>5. PICK f \in [1..n -> Seq(S)] : Joins(f, s, n) /\ FlattenSeq(s) = f[n]
    BY <1>4, FlattenJoins
<1>6. PICK g \in [1..n -> Seq(S)] : Joins(g, r, n) /\ FlattenSeq(r) = g[n]
    BY <1>3, <1>4, FlattenJoins
<1> DEFINE Good(i) == g[i] = IF i < j THEN f[i] ELSE f[i] \o u
           T == {i \in 1..n : ~Good(i)}
<1>7. ASSUME T # {} PROVE FALSE
  <2>1. T \subseteq Nat
    OBVIOUS
  <2> HIDE DEF T, Good
  <2>2. PICK m \in T : \A k \in T : m <= k
    BY <1>7, <2>1, SmallestMember
  <2>3. m \in 1..n /\ ~Good(m)
    BY <2>2 DEF T
  <2>4. /\ f[m] = IF m = 1 THEN s[m] ELSE f[m - 1] \o s[m]
        /\ g[m] = IF m = 1 THEN r[m] ELSE g[m - 1] \o r[m]
    BY <1>5, <1>6, <2>3 DEF Joins
  <2>5. m # 1 => m - 1 \in 1..n /\ Good(m - 1)
    <3> SUFFICES ASSUME m # 1 PROVE m - 1 \in 1..n /\ Good(m - 1)
        OBVIOUS
    <3>1. m - 1 \in 1..n /\ ~(m <= m - 1)
        BY <1>1, <2>3
    <3>2. m - 1 \notin T
        BY <2>2, <3>1
    <3> QED
        BY <3>1, <3>2 DEF T
  <2>6. CASE m < j
    <3>1. r[m] = s[m]
        BY <1>1, <1>3, <2>3, <2>6
    <3>2. m # 1 => g[m - 1] = f[m - 1]
        BY <1>1, <2>3, <2>5, <2>6 DEF Good
    <3> QED
        BY <2>3, <2>4, <2>6, <3>1, <3>2 DEF Good
  <2>7. CASE m = j
    <3>1. r[m] = s[m] \o u
        BY <1>3, <2>3, <2>7
    <3>2. m # 1 => g[m - 1] = f[m - 1] /\ f[m - 1] \in Seq(S)
      <4>1. m # 1 => m - 1 < j
        BY <1>1, <2>3, <2>7
      <4> QED
        BY <1>5, <2>5, <4>1 DEF Good
    <3>3. m # 1 => f[m - 1] \o (s[m] \o u) = (f[m - 1] \o s[m]) \o u
        BY <1>0, <1>1, <2>3, <3>2, Zenon
    <3>4. g[m] = f[m] \o u
        BY <2>4, <3>1, <3>2, <3>3
    <3>5. ~(m < j)
        BY <1>1, <2>7
    <3> QED
        BY <2>3, <3>4, <3>5 DEF Good
  <2>8. CASE m > j
    <3>0. m # 1 /\ m # j /\ ~(m - 1 < j) /\ ~(m < j)
        BY <1>1, <2>3, <2>8
    <3>1. s[m] = <<>> /\ r[m] = <<>>
        BY <1>3, <2>3, <2>8, <3>0
    <3>2. g[m - 1] = f[m - 1] \o u /\ f[m - 1] \in Seq(S)
        BY <1>5, <2>5, <3>0 DEF Good
    <3>3. f[m - 1] \o u \in Seq(S)
        BY <3>2, ConcatProperties
    <3>4. f[m] = f[m - 1] /\ g[m] = f[m - 1] \o u
        BY <2>4, <3>0, <3>1, <3>2, <3>3, ConcatEmptySeq
    <3> QED
        BY <2>3, <3>0, <3>4 DEF Good
  <2> QED
    BY <1>1, <2>3, <2>6, <2>7, <2>8
<1>8. g[n] = f[n] \o u
  <2>1. n \notin T
    BY <1>7
  <2>2. ~(n < j)
    BY <1>1
  <2> QED
    BY <1>1, <2>1, <2>2
<1> QED
    BY <1>5, <1>6, <1>8 DEF r

-----------------------------------------------------------------------------
(* A function applied to each element. *)

Maps(f, A, B) == \A a \in A : f[a] \in B
Mapped(f, q) == [i \in DOMAIN q |-> f[q[i]]]

LEMMA MappedValue ==
    ASSUME NEW A, NEW q \in Seq(A), NEW f, NEW i \in 1..Len(q)
    PROVE  Mapped(f, q)[i] = f[q[i]]
    BY DEF Mapped

LEMMA MappedType ==
    ASSUME NEW A, NEW B, NEW f, Maps(f, A, B), NEW q \in Seq(A)
    PROVE  Mapped(f, q) \in Seq(B) /\ Len(Mapped(f, q)) = Len(q)
<1>1. DOMAIN q = 1..Len(q) /\ Len(q) \in Nat /\ \A i \in 1..Len(q) : q[i] \in A
    BY LenProperties, ElementOfSeq
<1> QED
    BY <1>1 DEF Mapped, Maps

LEMMA MappedConcat ==
    ASSUME NEW A, NEW B, NEW f, Maps(f, A, B), NEW q \in Seq(A), NEW r \in Seq(A)
    PROVE  Mapped(f, q \o r) = Mapped(f, q) \o Mapped(f, r)
<1>m. \A w \in Seq(A) : Mapped(f, w) \in Seq(B) /\ Len(Mapped(f, w)) = Len(w)
    BY MappedType
<1> DEFINE c == q \o r
<1>1. /\ c \in Seq(A) /\ Len(c) = Len(q) + Len(r) /\ Len(q) \in Nat /\ Len(r) \in Nat
      /\ \A i \in 1..Len(q) + Len(r) : c[i] = IF i <= Len(q) THEN q[i] ELSE r[i - Len(q)]
    BY ConcatProperties, LenProperties
<1> HIDE DEF c
<1>2. PICK x : /\ x = Mapped(f, q) /\ x \in Seq(B) /\ Len(x) = Len(q)
               /\ \A i \in 1..Len(q) : x[i] = f[q[i]]
  <2>1. Mapped(f, q) \in Seq(B) /\ Len(Mapped(f, q)) = Len(q)
    BY <1>m
  <2>2. \A i \in 1..Len(q) : Mapped(f, q)[i] = f[q[i]]
    BY MappedValue
  <2> QED
    BY <2>1, <2>2, Zenon
<1>3. PICK y : /\ y = Mapped(f, r) /\ y \in Seq(B) /\ Len(y) = Len(r)
               /\ \A i \in 1..Len(r) : y[i] = f[r[i]]
  <2>1. Mapped(f, r) \in Seq(B) /\ Len(Mapped(f, r)) = Len(r)
    BY <1>m
  <2>2. \A i \in 1..Len(r) : Mapped(f, r)[i] = f[r[i]]
    BY MappedValue
  <2> QED
    BY <2>1, <2>2, Zenon
<1>0. PICK z : /\ z = Mapped(f, c) /\ z \in Seq(B) /\ Len(z) = Len(c)
               /\ \A i \in 1..Len(c) : z[i] = f[c[i]]
  <2>1. Mapped(f, c) \in Seq(B) /\ Len(Mapped(f, c)) = Len(c)
    BY <1>1, <1>m
  <2>2. \A i \in 1..Len(c) : Mapped(f, c)[i] = f[c[i]]
    BY <1>1, MappedValue
  <2> QED
    BY <2>1, <2>2, Zenon
<1>4. /\ x \o y \in Seq(B) /\ Len(x \o y) = Len(x) + Len(y)
      /\ \A i \in 1..Len(x) + Len(y) : (x \o y)[i] = IF i <= Len(x) THEN x[i] ELSE y[i - Len(x)]
  <2>1. x \in Seq(B) /\ y \in Seq(B)
    BY <1>2, <1>3
  <2> QED
    BY <2>1, ConcatProperties
<1>5. ASSUME NEW i \in 1..Len(z) PROVE z[i] = (x \o y)[i]
  <2>1. /\ i \in 1..Len(q) + Len(r) /\ z[i] = f[c[i]]
        /\ (x \o y)[i] = IF i <= Len(q) THEN x[i] ELSE y[i - Len(q)]
    BY <1>1, <1>0, <1>2, <1>3, <1>4
  <2>2. CASE i <= Len(q)
    <3>1. i \in 1..Len(q)
        BY <1>1, <2>1, <2>2
    <3> QED
        BY <1>0, <1>1, <1>2, <1>3, <2>1, <2>2, <3>1
  <2>3. CASE ~(i <= Len(q))
    <3>1. i - Len(q) \in 1..Len(r)
        BY <1>1, <2>1, <2>3
    <3> QED
        BY <1>0, <1>1, <1>2, <1>3, <2>1, <2>3, <3>1
  <2> QED
    BY <2>2, <2>3
<1>6. Len(z) = Len(x \o y)
    BY <1>1, <1>0, <1>2, <1>3, <1>4
<1>7. z = x \o y
    BY <1>0, <1>4, <1>5, <1>6, SeqEqual
<1> QED
    BY <1>0, <1>2, <1>3, <1>7 DEF c

LEMMA MappedOne ==
    ASSUME NEW f, NEW e
    PROVE  Mapped(f, <<e>>) = <<f[e]>>
    BY DEF Mapped

\* The head and the tail.
LEMMA MappedCons ==
    ASSUME NEW A, NEW B, NEW f, Maps(f, A, B), NEW q \in Seq(A), q # <<>>
    PROVE  /\ Mapped(f, q) # <<>> /\ Head(Mapped(f, q)) = f[Head(q)]
           /\ Tail(Mapped(f, q)) = Mapped(f, Tail(q))
<1>m. \A w \in Seq(A) : Mapped(f, w) \in Seq(B) /\ Len(Mapped(f, w)) = Len(w)
    BY MappedType
<1> DEFINE r == Tail(q)
<1>1. /\ r \in Seq(A) /\ Len(q) \in Nat \ {0} /\ Len(r) = Len(q) - 1 /\ Head(q) = q[1]
      /\ \A i \in 1..Len(r) : r[i] = q[i + 1]
    BY HeadTailProperties, EmptySeq, LenProperties
<1> HIDE DEF r
<1>2. PICK x : /\ x = Mapped(f, q) /\ x \in Seq(B) /\ Len(x) = Len(q)
               /\ \A i \in 1..Len(q) : x[i] = f[q[i]]
  <2>1. Mapped(f, q) \in Seq(B) /\ Len(Mapped(f, q)) = Len(q)
    BY <1>m
  <2>2. \A i \in 1..Len(q) : Mapped(f, q)[i] = f[q[i]]
    BY MappedValue
  <2> QED
    BY <2>1, <2>2, Zenon
<1>3. PICK y : /\ y = Mapped(f, r) /\ y \in Seq(B) /\ Len(y) = Len(r)
               /\ \A i \in 1..Len(r) : y[i] = f[r[i]]
  <2>1. Mapped(f, r) \in Seq(B) /\ Len(Mapped(f, r)) = Len(r)
    BY <1>1, <1>m
  <2>2. \A i \in 1..Len(r) : Mapped(f, r)[i] = f[r[i]]
    BY <1>1, MappedValue
  <2> QED
    BY <2>1, <2>2, Zenon
<1>4. x # <<>> /\ Head(x) = f[Head(q)]
    BY <1>1, <1>2, EmptySeq
<1>5. /\ Tail(x) \in Seq(B) /\ Len(Tail(x)) = Len(q) - 1
      /\ \A i \in 1..(Len(q) - 1) : Tail(x)[i] = x[i + 1]
    BY <1>1, <1>2, <1>4, HeadTailProperties
<1>6. ASSUME NEW i \in 1..Len(y) PROVE y[i] = Tail(x)[i]
  <2>1. i \in 1..(Len(q) - 1) /\ i \in 1..Len(r) /\ i + 1 \in 1..Len(q)
    BY <1>1, <1>3
  <2> QED
    BY <1>1, <1>2, <1>3, <1>5, <2>1
<1>7. y = Tail(x)
    BY <1>1, <1>3, <1>5, <1>6, SeqEqual
<1> QED
    BY <1>2, <1>3, <1>4, <1>7 DEF r

\* What the elements map to, one after the other.
FlatMapped(f, q) == FlattenSeq(Mapped(f, q))

LEMMA FlatMappedType ==
    ASSUME NEW A, NEW S, NEW f, Maps(f, A, Seq(S)), NEW q \in Seq(A)
    PROVE  FlatMapped(f, q) \in Seq(S)
<1>1. Mapped(f, q) \in Seq(Seq(S))
    BY MappedType
<1> QED
    BY <1>1, FlattenType DEF FlatMapped

LEMMA FlatMappedEmpty == ASSUME NEW f PROVE FlatMapped(f, <<>>) = <<>>
<1>1. Mapped(f, <<>>) = <<>>
    BY DEF Mapped
<1> QED
    BY <1>1, FlattenEmpty DEF FlatMapped

LEMMA FlatMappedConcat ==
    ASSUME NEW A, NEW S, NEW f, Maps(f, A, Seq(S)), NEW q \in Seq(A), NEW r \in Seq(A)
    PROVE  FlatMapped(f, q \o r) = FlatMapped(f, q) \o FlatMapped(f, r)
<1>1. Mapped(f, q) \in Seq(Seq(S)) /\ Mapped(f, r) \in Seq(Seq(S))
    BY MappedType
<1>2. Mapped(f, q \o r) = Mapped(f, q) \o Mapped(f, r)
    BY MappedConcat
<1> QED
    BY <1>1, <1>2, FlattenConcat DEF FlatMapped

LEMMA FlatMappedAppend ==
    ASSUME NEW A, NEW S, NEW f, Maps(f, A, Seq(S)), NEW q \in Seq(A), NEW e \in A
    PROVE  FlatMapped(f, Append(q, e)) = FlatMapped(f, q) \o f[e]
<1>1. <<e>> \in Seq(A) /\ Append(q, e) = q \o <<e>>
    BY AppendIsConcat
<1>2. f[e] \in Seq(S)
    BY DEF Maps
<1>3. FlatMapped(f, <<e>>) = f[e]
  <2>1. <<>> \in Seq(Seq(S)) /\ Append(<<>>, f[e]) = <<f[e]>> /\ <<>> \o f[e] = f[e]
    BY <1>2, EmptySeq, ConcatEmptySeq
  <2>2. FlattenSeq(<<f[e]>>) = f[e]
    BY <1>2, <2>1, FlattenAppend, FlattenEmpty
  <2> QED
    BY <2>2, MappedOne DEF FlatMapped
<1>4. FlatMapped(f, q \o <<e>>) = FlatMapped(f, q) \o FlatMapped(f, <<e>>)
  <2> DEFINE w == <<e>>
  <2>1. w \in Seq(A)
    BY <1>1
  <2> HIDE DEF w
  <2>2. FlatMapped(f, q \o w) = FlatMapped(f, q) \o FlatMapped(f, w)
    BY <2>1, FlatMappedConcat
  <2> QED
    BY <2>2 DEF w
<1> QED
    BY <1>1, <1>3, <1>4

LEMMA FlatMappedCons ==
    ASSUME NEW A, NEW S, NEW f, Maps(f, A, Seq(S)), NEW q \in Seq(A), q # <<>>
    PROVE  FlatMapped(f, q) = f[Head(q)] \o FlatMapped(f, Tail(q))
<1>1. Mapped(f, q) \in Seq(Seq(S))
    BY MappedType
<1>2. /\ Mapped(f, q) # <<>> /\ Head(Mapped(f, q)) = f[Head(q)]
      /\ Tail(Mapped(f, q)) = Mapped(f, Tail(q))
    BY MappedCons
<1> QED
    BY <1>1, <1>2, FlattenCons DEF FlatMapped

\* The elements, one by one.
LEMMA FlattenOnes ==
    ASSUME NEW S, NEW s \in Seq(S)
    PROVE  FlattenSeq([i \in 1..Len(s) |-> <<s[i]>>]) = s
<1> DEFINE one == [e \in S |-> <<e>>]
           T == {n \in Nat : \A q \in Seq(S) : Len(q) = n => FlatMapped(one, q) = q}
<1>1. Maps(one, S, Seq(S)) /\ \A e \in S : one[e] = <<e>>
    BY DEF Maps
<1> HIDE DEF one
<1>2. 0 \in T
  <2>1. ASSUME NEW q \in Seq(S), Len(q) = 0 PROVE FlatMapped(one, q) = q
    <3>1. q = <<>>
        BY <2>1, EmptySeq
    <3> QED
        BY <3>1, FlatMappedEmpty
  <2> QED
    BY <2>1
<1>3. ASSUME NEW n \in Nat, n \in T PROVE n + 1 \in T
  <2>1. ASSUME NEW q \in Seq(S), Len(q) = n + 1 PROVE FlatMapped(one, q) = q
    <3>1. q # <<>>
        BY <2>1
    <3>2. PICK r \in Seq(S), e \in S : q = Append(r, e)
        BY <3>1, SequenceEmptyOrAppend
    <3>3. Len(r) = n
        BY <2>1, <3>2, LenProperties, AppendProperties
    <3>4. FlatMapped(one, r) = r
        BY <1>3, <3>3
    <3>5. FlatMapped(one, Append(r, e)) = FlatMapped(one, r) \o one[e]
        BY <1>1, FlatMappedAppend
    <3>6. Append(r, e) = r \o <<e>>
        BY AppendIsConcat
    <3> QED
        BY <1>1, <3>2, <3>4, <3>5, <3>6
  <2> QED
    BY <2>1
<1>4. Len(s) \in T
  <2> HIDE DEF T
  <2> QED
    BY <1>2, <1>3, InductionSet, LenProperties
<1>5. Mapped(one, s) = [i \in 1..Len(s) |-> <<s[i]>>]
  <2>1. DOMAIN s = 1..Len(s) /\ \A i \in 1..Len(s) : s[i] \in S
    BY LenProperties, ElementOfSeq
  <2> QED
    BY <1>1, <2>1 DEF Mapped
<1> QED
    BY <1>4, <1>5 DEF FlatMapped

-----------------------------------------------------------------------------
(* The bytes of a buffer, by their positions. *)

Run(x, p, n) == [i \in 1..n |-> <<x, p + i>>]

LEMMA RunType ==
    ASSUME NEW A, NEW x \in A, NEW p \in Nat, NEW n \in Int
    PROVE  /\ Run(x, p, n) \in Seq(A \X Nat)
           /\ n \in Nat => Len(Run(x, p, n)) = n
<1>1. CASE n \in Nat
    BY <1>1 DEF Run
<1>2. CASE n \notin Nat
  <2>1. 1..n = {} /\ 1..0 = {}
    BY <1>2
  <2>2. Run(x, p, n) = [i \in 1..0 |-> <<x, p + i>>]
    BY <2>1 DEF Run
  <2> QED
    BY <1>2, <2>2
<1> QED
    BY <1>1, <1>2

\* A part of it leaves: its bytes are those that left and those of the rest.
LEMMA RunSplit ==
    ASSUME NEW A, NEW x \in A, NEW p \in Nat, NEW n \in Nat, NEW k \in 0..n
    PROVE  Run(x, p, k) \o Run(x, p + k, n - k) = Run(x, p, n)
<1>1. k \in Nat /\ n - k \in Nat /\ p + k \in Nat /\ n = k + (n - k)
    OBVIOUS
<1> DEFINE u == Run(x, p, k)
           v == Run(x, p + k, n - k)
           w == Run(x, p, n)
<1> HIDE DEF u, v, w
<1>2. /\ u \in Seq(A \X Nat) /\ Len(u) = k /\ v \in Seq(A \X Nat) /\ Len(v) = n - k
      /\ w \in Seq(A \X Nat) /\ Len(w) = n
  <2>1. Run(x, p, k) \in Seq(A \X Nat) /\ Len(Run(x, p, k)) = k
    BY <1>1, RunType
  <2>2. /\ Run(x, p + k, n - k) \in Seq(A \X Nat)
        /\ n - k \in Nat => Len(Run(x, p + k, n - k)) = n - k
    <3>1. n - k \in Int /\ p + k \in Nat
        BY <1>1
    <3> QED
        BY ONLY <3>1, x \in A, RunType
  <2>3. Run(x, p, n) \in Seq(A \X Nat) /\ Len(Run(x, p, n)) = n
    BY <1>1, RunType
  <2> QED
    BY <1>1, <2>1, <2>2, <2>3 DEF u, v, w
<1>3. /\ (\A i \in 1..k : u[i] = <<x, p + i>>)
      /\ (\A i \in 1..(n - k) : v[i] = <<x, (p + k) + i>>)
      /\ (\A i \in 1..n : w[i] = <<x, p + i>>)
    BY DEF Run, u, v, w
<1>4. /\ u \o v \in Seq(A \X Nat) /\ Len(u \o v) = Len(u) + Len(v)
      /\ \A i \in 1..Len(u) + Len(v) : (u \o v)[i] = IF i <= Len(u) THEN u[i] ELSE v[i - Len(u)]
    BY <1>2, ConcatProperties
<1>5. Len(u \o v) = n
    BY <1>1, <1>2, <1>4
<1>6. ASSUME NEW i \in 1..n PROVE (u \o v)[i] = w[i]
  <2>1. (u \o v)[i] = IF i <= k THEN u[i] ELSE v[i - k]
    BY <1>1, <1>2, <1>4
  <2>2. CASE i <= k
    <3>1. i \in 1..k
        BY <1>1, <2>2
    <3> QED
        BY <1>3, <2>1, <2>2, <3>1
  <2>3. CASE ~(i <= k)
    <3>1. i - k \in 1..(n - k) /\ (p + k) + (i - k) = p + i
        BY <1>1, <2>3
    <3> QED
        BY <1>3, <2>1, <2>3, <3>1
  <2> QED
    BY <2>2, <2>3
<1> QED
    BY <1>2, <1>4, <1>5, <1>6, SeqEqual DEF u, v, w
=============================================================================
