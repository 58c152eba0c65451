------------------------------ MODULE SeqLemmas ------------------------------
(* Lemmas about sequences and numbers that the proof modules share.        *)
EXTENDS Integers, SequencesExt, FiniteSetsExt,
        SequenceTheorems, WellFoundedInduction, TLAPS

\* A sequence that is not empty, its head and what is behind it.
LEMMA Rest ==
  ASSUME NEW S, NEW s \in Seq(S), s # << >>
  PROVE  /\ Tail(s) \in Seq(S) /\ Len(s) \in Nat \ {0} /\ Len(Tail(s)) = Len(s) - 1
         /\ DOMAIN s = 1 .. Len(s) /\ DOMAIN Tail(s) = 1 .. Len(s) - 1
         /\ \A i \in 1 .. Len(s) - 1 : Tail(s)[i] = s[i + 1]
         /\ Head(s) = s[1] /\ s[1] \in S /\ 1 \in DOMAIN s
<1>1. Len(s) \in Nat \ {0} /\ DOMAIN s = 1 .. Len(s)
  BY EmptySeq, LenProperties
<1> QED BY <1>1, HeadTailProperties, LenProperties

\* What is in front of a place and what is behind it.
LEMMA Parts ==
  ASSUME NEW S, NEW q \in Seq(S), NEW k \in 1 .. (Len(q) + 1), NEW m \in {k, k + 1}
  PROVE  LET a == SubSeq(q, 1, k - 1)
             b == SubSeq(q, m, Len(q))
         IN  /\ a \in Seq(S) /\ Len(a) = k - 1 /\ \A i \in 1 .. (k - 1) : a[i] = q[i]
             /\ m <= Len(q) + 1 =>
                  /\ b \in Seq(S) /\ Len(b) = Len(q) - m + 1
                  /\ \A i \in 1 .. (Len(q) - m + 1) : b[i] = q[m + i - 1]
<1> DEFINE a == SubSeq(q, 1, k - 1)
           b == SubSeq(q, m, Len(q))
<1>1. Len(q) \in Nat /\ \A i \in 1 .. Len(q) : q[i] \in S
  BY LenProperties, ElementOfSeq
<1>2. a \in Seq(S) /\ Len(a) = k - 1 /\ \A i \in 1 .. (k - 1) : a[i] = q[i]
  <2>1. \A i \in 1 .. (k - 1) : q[i] \in S
    BY <1>1
  <2> QED BY <1>1, <2>1, SubSeqProperties
<1>3. ASSUME m <= Len(q) + 1
      PROVE  /\ b \in Seq(S) /\ Len(b) = Len(q) - m + 1
             /\ \A i \in 1 .. (Len(q) - m + 1) : b[i] = q[m + i - 1]
  <2>1. \A i \in m .. Len(q) : q[i] \in S
    BY <1>1
  <2> QED BY <1>1, <1>3, <2>1, SubSeqProperties
<1> QED BY <1>2, <1>3

\* RemoveAt shortens a sequence by one and moves up what is behind.
LEMMA RemoveAtProperties ==
  ASSUME NEW S, NEW q \in Seq(S), NEW k \in 1 .. Len(q)
  PROVE  /\ RemoveAt(q, k) \in Seq(S)
         /\ Len(RemoveAt(q, k)) = Len(q) - 1
         /\ \A i \in 1 .. (Len(q) - 1) :
              RemoveAt(q, k)[i] = IF i < k THEN q[i] ELSE q[i + 1]
<1> DEFINE a == SubSeq(q, 1, k - 1)
           b == SubSeq(q, k + 1, Len(q))
<1>1. Len(q) \in Nat
  BY LenProperties
<1>2. /\ a \in Seq(S) /\ Len(a) = k - 1 /\ \A i \in 1 .. (k - 1) : a[i] = q[i]
      /\ b \in Seq(S) /\ Len(b) = Len(q) - k
      /\ \A i \in 1 .. (Len(q) - k) : b[i] = q[k + i]
  <2>1. k \in 1 .. (Len(q) + 1) /\ k + 1 \in {k, k + 1} /\ k + 1 <= Len(q) + 1
    BY <1>1
  <2>2. Len(q) - (k + 1) + 1 = Len(q) - k /\ \A i \in 1 .. (Len(q) - k) : (k + 1) + i - 1 = k + i
    BY <1>1
  <2>3. /\ a \in Seq(S) /\ Len(a) = k - 1 /\ \A i \in 1 .. (k - 1) : a[i] = q[i]
        /\ b \in Seq(S) /\ Len(b) = Len(q) - (k + 1) + 1
        /\ \A i \in 1 .. (Len(q) - (k + 1) + 1) : b[i] = q[(k + 1) + i - 1]
    BY <2>1, Parts
  <2> HIDE DEF a, b
  <2> QED BY <2>2, <2>3
<1>3. RemoveAt(q, k) = a \o b
  BY DEF RemoveAt
<1> HIDE DEF a, b
<1>4. /\ a \o b \in Seq(S)
      /\ Len(a \o b) = Len(a) + Len(b)
      /\ \A i \in 1 .. Len(a) + Len(b) :
           (a \o b)[i] = IF i <= Len(a) THEN a[i] ELSE b[i - Len(a)]
  BY <1>2, ConcatProperties
<1>5. ASSUME NEW i \in 1 .. (Len(q) - 1)
      PROVE  (a \o b)[i] = IF i < k THEN q[i] ELSE q[i + 1]
  <2>1. CASE i < k
    BY <1>1, <1>2, <1>4, <2>1
  <2>2. CASE ~(i < k)
    <3>1. (a \o b)[i] = b[i - (k - 1)]
      BY <1>1, <1>2, <1>4, <2>2
    <3>2. i - (k - 1) \in 1 .. (Len(q) - k) /\ k + (i - (k - 1)) = i + 1
      BY <1>1, <2>2
    <3> QED BY <1>2, <2>2, <3>1, <3>2
  <2> QED BY <2>1, <2>2
<1> QED BY <1>1, <1>2, <1>3, <1>4, <1>5

\* InsertAt lengthens a sequence by one and moves down what is behind.
LEMMA InsertAtProperties ==
  ASSUME NEW S, NEW q \in Seq(S), NEW k \in 1 .. (Len(q) + 1), NEW e \in S
  PROVE  /\ InsertAt(q, k, e) \in Seq(S)
         /\ Len(InsertAt(q, k, e)) = Len(q) + 1
         /\ \A i \in 1 .. (Len(q) + 1) :
              InsertAt(q, k, e)[i] = IF i < k THEN q[i] ELSE IF i = k THEN e ELSE q[i - 1]
<1> DEFINE a == SubSeq(q, 1, k - 1)
           b == SubSeq(q, k, Len(q))
           c == a \o <<e>>
<1>1. Len(q) \in Nat
  BY LenProperties
<1>2. /\ a \in Seq(S) /\ Len(a) = k - 1 /\ \A i \in 1 .. (k - 1) : a[i] = q[i]
      /\ b \in Seq(S) /\ Len(b) = Len(q) - k + 1
      /\ \A i \in 1 .. (Len(q) - k + 1) : b[i] = q[k + i - 1]
  <2>1. k \in {k, k + 1} /\ k <= Len(q) + 1
    BY <1>1
  <2> QED BY <2>1, Parts
<1>3. InsertAt(q, k, e) = c \o b
  BY DEF InsertAt
<1>4. <<e>> \in Seq(S) /\ Len(<<e>>) = 1 /\ <<e>>[1] = e
  OBVIOUS
<1> HIDE DEF a, b
<1>5. /\ c \in Seq(S) /\ Len(c) = k
      /\ \A i \in 1 .. (k - 1) : c[i] = q[i]
      /\ c[k] = e
  <2>1. /\ c \in Seq(S) /\ Len(c) = Len(a) + Len(<<e>>)
        /\ \A i \in 1 .. Len(a) + Len(<<e>>) :
             c[i] = IF i <= Len(a) THEN a[i] ELSE <<e>>[i - Len(a)]
    BY <1>2, <1>4, ConcatProperties
  <2>2. Len(a) + Len(<<e>>) = k /\ k - Len(a) = 1
    BY <1>2, <1>4
  <2> HIDE DEF c
  <2>3. c[k] = e
    BY <1>2, <1>4, <2>1, <2>2
  <2> QED BY <1>2, <2>1, <2>2, <2>3
<1> HIDE DEF c
<1>6. /\ c \o b \in Seq(S)
      /\ Len(c \o b) = Len(c) + Len(b)
      /\ \A i \in 1 .. Len(c) + Len(b) :
           (c \o b)[i] = IF i <= Len(c) THEN c[i] ELSE b[i - Len(c)]
  BY <1>2, <1>5, ConcatProperties
<1>7. Len(c) + Len(b) = Len(q) + 1
  BY <1>1, <1>2, <1>5
<1>8. ASSUME NEW i \in 1 .. (Len(q) + 1)
      PROVE  (c \o b)[i] = IF i < k THEN q[i] ELSE IF i = k THEN e ELSE q[i - 1]
  <2>1. CASE i <= k
    BY <1>1, <1>5, <1>6, <1>7, <2>1
  <2>2. CASE ~(i <= k)
    <3>1. (c \o b)[i] = b[i - k]
      BY <1>1, <1>5, <1>6, <1>7, <2>2
    <3>2. i - k \in 1 .. (Len(q) - k + 1) /\ k + (i - k) - 1 = i - 1
      BY <1>1, <2>2
    <3>3. b[i - k] = q[i - 1]
      BY <1>2, <3>2
    <3> QED BY <2>2, <3>1, <3>3
  <2> QED BY <2>1, <2>2
<1> QED BY <1>3, <1>6, <1>7, <1>8

\* At the end, InsertAt is Append.
LEMMA InsertAtEnd ==
  ASSUME NEW S, NEW q \in Seq(S), NEW e
  PROVE  InsertAt(q, Len(q) + 1, e) = Append(q, e)
<1> DEFINE T == S \cup {e}
           k == Len(q) + 1
           a == InsertAt(q, k, e)
           b == Append(q, e)
<1>1. Len(q) \in Nat /\ \A i \in 1 .. Len(q) : q[i] \in T
  BY LenProperties, ElementOfSeq
<1>2. q \in Seq(T) /\ e \in T /\ k \in 1 .. (Len(q) + 1)
  BY <1>1
<1> HIDE DEF T
<1>3. /\ a \in Seq(T) /\ Len(a) = Len(q) + 1
      /\ \A i \in 1 .. (Len(q) + 1) :
           a[i] = IF i < k THEN q[i] ELSE IF i = k THEN e ELSE q[i - 1]
  <2> HIDE DEF k
  <2>1. a \in Seq(T) /\ Len(a) = Len(q) + 1
    BY <1>2, InsertAtProperties
  <2>2. ASSUME NEW i \in 1 .. (Len(q) + 1)
        PROVE  a[i] = IF i < k THEN q[i] ELSE IF i = k THEN e ELSE q[i - 1]
    <3>1. Len(q) \in Nat
      BY <1>1
    <3>2. q \in Seq(T) /\ k \in 1 .. (Len(q) + 1) /\ e \in T
      BY <1>2
    <3> HIDE DEF a
    <3>3. \A j \in 1 .. (Len(q) + 1) :
            InsertAt(q, k, e)[j] = IF j < k THEN q[j] ELSE IF j = k THEN e ELSE q[j - 1]
      BY <3>2, InsertAtProperties
    <3> QED BY <3>3 DEF a
  <2> QED BY <2>1, <2>2
<1>4. /\ b \in Seq(T) /\ Len(b) = Len(q) + 1 /\ b[Len(q) + 1] = e
      /\ \A i \in 1 .. Len(q) : b[i] = q[i]
  BY <1>2, AppendProperties
<1> HIDE DEF a, b
<1>5. \A i \in 1 .. (Len(q) + 1) : a[i] = b[i]
  <2> SUFFICES ASSUME NEW i \in 1 .. (Len(q) + 1) PROVE a[i] = b[i]
    OBVIOUS
  <2>1. CASE i = Len(q) + 1
    BY <1>1, <1>3, <1>4, <2>1
  <2>2. CASE i # Len(q) + 1
    <3>1. i \in 1 .. Len(q) /\ i < Len(q) + 1
      BY <1>1, <2>2
    <3> QED BY <1>3, <1>4, <3>1
  <2> QED BY <2>1, <2>2
<1>6. a = b
  BY <1>3, <1>4, <1>5, SeqEqual
<1> QED BY <1>6 DEF a, b

\* A set of numbers has a least one, and Min names it.
LEMMA MinOf ==
  ASSUME NEW S \in SUBSET Nat, S # {}
  PROVE  Min(S) \in S /\ \E x \in S : \A y \in S : x <= y
<1>1. \E x \in S : \A y \in S : ~ (<<y, x>> \in OpToRel(<, Nat))
  BY NatLessThanWellFounded, WFMin, Zenon
<1>2. \E x \in S : \A y \in S : ~ (y < x)
  BY <1>1, Zenon DEF OpToRel
<1>3. \E x \in S : \A y \in S : x <= y
  BY <1>2
<1> QED BY <1>3, Zenon DEF Min

=============================================================================
