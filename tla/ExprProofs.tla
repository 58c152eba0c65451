----------------------------- MODULE ExprProofs -----------------------------
(***************************************************************************)
(* The head of the queue of tokens exists whenever the functions of expr.c *)
(* look at it, and every value is an int.                                  *)
(*                                                                         *)
(* For the queue it does not matter what the tokens are: it is a sequence  *)
(* of anything, its last entry is the end of the expression, and the       *)
(* tokens that are thrown away are others.  For the values the powers of   *)
(* two are needed: what is known of them comes from the number of subsets  *)
(* of a finite set.                                                        *)
(***************************************************************************)
EXTENDS Expr, FiniteSetTheorems, TLAPS

IsSeq(s) == \E S : s \in Seq(S)
Ends(s) == IsSeq(s) /\ s # << >> /\ s[Len(s)].tok = "eoe"

LEMMA AppendSeq ==
  ASSUME NEW s, NEW e, IsSeq(s)
  PROVE  /\ IsSeq(Append(s, e)) /\ Append(s, e) # << >>
         /\ Append(s, e)[Len(Append(s, e))] = e
  <1>1. PICK S : s \in Seq(S)
    BY DEF IsSeq
  <1>2. s \in Seq(S \cup {e}) /\ e \in S \cup {e}
    BY <1>1
  <1>3. Append(s, e) \in Seq(S \cup {e}) /\ Len(Append(s, e)) = Len(s) + 1
        /\ Append(s, e)[Len(s) + 1] = e
    BY <1>2
  <1> QED
    BY <1>3, <1>2 DEF IsSeq

LEMMA TailEnds ==
  ASSUME NEW s, Ends(s), Head(s).tok # "eoe"
  PROVE  Ends(Tail(s))
  <1>1. PICK S : s \in Seq(S)
    BY DEF IsSeq, Ends
  <1>2. Len(s) > 1
    BY <1>1 DEF Ends
  <1>3. Tail(s) \in Seq(S) /\ Len(Tail(s)) = Len(s) - 1 /\ Tail(s)[Len(s) - 1] = s[Len(s)]
    BY <1>1, <1>2
  <1>4. Len(Tail(s)) > 0 /\ Tail(s)[Len(Tail(s))] = s[Len(s)]
    BY <1>1, <1>2, <1>3
  <1>5. Tail(s) # << >>
    BY <1>2, <1>3
  <1>6. IsSeq(Tail(s))
    BY <1>3 DEF IsSeq
  <1> QED
    BY <1>4, <1>5, <1>6 DEF Ends

LEMMA NothingIsSeq ==
  ASSUME NEW s, s = << >>
  PROVE  IsSeq(s)
  <1>1. s \in Seq(Nat)
    OBVIOUS
  <1> QED
    BY <1>1 DEF IsSeq

LEMMA QueuedSeq ==
  ASSUME NEW s, NEW tok, NEW n, IsSeq(s)
  PROVE  IsSeq(Queued(s, tok, n))
  BY AppendSeq DEF Queued

LEMMA QueuedEnd ==
  ASSUME NEW s, NEW n, IsSeq(s)
  PROVE  Ends(Queued(s, "eoe", n))
  <1>1. Queued(s, "eoe", n) = Append(s, [tok |-> "eoe", val |-> n])
    BY DEF Queued, Lone
  <1> DEFINE e == [tok |-> "eoe", val |-> n]
  <1>2. e.tok = "eoe"
    OBVIOUS
  <1>3. /\ IsSeq(Append(s, e)) /\ Append(s, e) # << >>
        /\ Append(s, e)[Len(Append(s, e))] = e
    BY AppendSeq
  <1> HIDE DEF e
  <1> QED
    BY <1>1, <1>2, <1>3 DEF Ends, e

LEMMA EndIsNoOperator ==
  ASSUME NEW l \in DOMAIN Level
  PROVE  "eoe" \notin Level[l]
  BY DEF Level

\* The inductive invariant: lexan builds a sequence, and the end that it puts
\* last is never thrown away.
QueueInv ==
  /\ phase \in {"start", "lexan"} => IsSeq(q)
  /\ phase \in {"call", "return"} => Ends(q)

LEMMA QueueInit == Init => QueueInv
  BY NothingIsSeq DEF Init, QueueInv

LEMMA LexanStep == QueueInv /\ lexan => QueueInv'
  <1> SUFFICES ASSUME QueueInv, lexan PROVE QueueInv'
    OBVIOUS
  <1>1. IsSeq(q)
    BY DEF QueueInv, lexan, Digit, FirstHalf, SecondHalf, Single, Blank, Unknown, Read, EndOfText
  <1>2. IsSeq(Pending)
    BY <1>1, QueuedSeq DEF Pending
  <1>3. ASSUME NEW c, Digit(c) \/ FirstHalf(c) \/ SecondHalf(c) \/ Single(c) \/ Blank(c) \/ Unknown(c)
        PROVE  QueueInv'
    <2>1. phase' = "lexan"
      BY <1>3 DEF Digit, FirstHalf, SecondHalf, Single, Blank, Unknown, Read
    <2>2. IsSeq(q')
      BY <1>1, <1>2, <1>3, QueuedSeq DEF Digit, FirstHalf, SecondHalf, Single, Blank, Unknown
    <2> QED
      BY <2>1, <2>2 DEF QueueInv
  <1>4. CASE EndOfText
    BY <1>2, <1>4, QueuedEnd DEF EndOfText, QueueInv
  <1> QED
    BY <1>3, <1>4 DEF lexan

LEMMA CallStep ==
  QueueInv /\ [Next]_vars /\ ~lexan /\ ~Start /\ phase' \in {"call", "return"} => QueueInv'
  <1> SUFFICES ASSUME QueueInv, [Next]_vars, ~lexan, ~Start, phase' \in {"call", "return"}
               PROVE  QueueInv'
    OBVIOUS
  <1>1. ASSUME q' = q, phase \in {"call", "return"} PROVE QueueInv'
    BY <1>1 DEF QueueInv, Ends
  <1>2. ASSUME q' = Tail(q), peek # "eoe", phase \in {"call", "return"} PROVE QueueInv'
    BY <1>2, TailEnds DEF QueueInv, peek
  <1>3. ASSUME NEW l \in DOMAIN Level, Operand(l) PROVE QueueInv'
    BY <1>1, <1>3 DEF Operand, Calling
  <1>4. ASSUME NEW l \in DOMAIN Level, Operator(l) PROVE QueueInv'
    BY <1>2, <1>4, EndIsNoOperator DEF Operator, Returning
  <1>5. ASSUME NEW l \in DOMAIN Level, Operate(l) \/ NoOperator(l) PROVE QueueInv'
    BY <1>1, <1>5 DEF Operate, NoOperator, Returning
  <1>6. CASE G
    BY <1>1, <1>2, <1>6 DEF G, Calling, Unary
  <1>7. CASE Negate \/ Unexpected
    BY <1>1, <1>7 DEF Negate, Unexpected, Returning, Calling
  <1>8. CASE Number \/ Open
    BY <1>2, <1>8 DEF Number, Open, Calling
  <1>9. CASE Close
    BY <1>1, <1>2, <1>9 DEF Close, Returning
  <1>10. CASE Trap \/ Finish
    BY <1>10 DEF Trap, Finish
  <1>11. CASE UNCHANGED vars
    BY <1>1, <1>11 DEF vars
  <1> QED
    BY <1>3, <1>4, <1>5, <1>6, <1>7, <1>8, <1>9, <1>10, <1>11 DEF Next

LEMMA QueueStep == QueueInv /\ [Next]_vars => QueueInv'
  <1> SUFFICES ASSUME QueueInv, [Next]_vars PROVE QueueInv'
    OBVIOUS
  <1>1. CASE lexan
    BY <1>1, LexanStep
  <1>2. CASE Start
    BY <1>2 DEF Start, QueueInv
  <1>3. CASE ~lexan /\ ~Start /\ phase' \notin {"call", "return"}
    <2>1. UNCHANGED vars \/ phase' \in {"done", "killed"}
      BY <1>3 DEF Next, Operand, Operator, Operate, NoOperator, Trap, G, Negate, Number, Open,
                  Unexpected, Close, Finish, Call, Return
    <2> QED
      BY <1>3, <2>1 DEF vars, QueueInv
  <1> QED
    BY <1>1, <1>2, <1>3, CallStep

\* The functions of expr.c never look at the head of an empty queue: the token
\* for the end of the text stays until eval_expr clears the queue.
THEOREM EndStaysAlways == Spec => []EndStays
  <1>1. QueueInv => EndStays
    <2> SUFFICES ASSUME QueueInv, phase \in {"call", "return"}
                 PROVE  Len(q) > 0 /\ q[Len(q)].tok = "eoe"
      BY DEF EndStays
    <2>1. PICK S : q \in Seq(S) /\ q # << >> /\ q[Len(q)].tok = "eoe"
      BY DEF QueueInv, Ends, IsSeq
    <2> QED
      BY <2>1
  <1> QED
    BY <1>1, QueueInit, QueueStep, PTL DEF Spec

-----------------------------------------------------------------------------
(* The powers of two and division *)

LEMMA PowerIsSubsets ==
  ASSUME NEW n \in Nat
  PROVE  /\ IsFiniteSet(SUBSET (1 .. n)) /\ IsFiniteSet(1 .. n)
         /\ 2 ^ n = Cardinality(SUBSET (1 .. n))
  <1>1. IsFiniteSet(1 .. n) /\ Cardinality(1 .. n) = n
    BY FS_Interval
  <1>2. /\ IsFiniteSet(SUBSET (1 .. n))
        /\ Cardinality(SUBSET (1 .. n)) = 2 ^ Cardinality(1 .. n)
    BY <1>1, FS_SUBSET
  <1> QED
    BY <1>1, <1>2

LEMMA PowerIsPositive ==
  ASSUME NEW n \in Nat
  PROVE  2 ^ n \in Nat \ {0}
  <1> DEFINE S == SUBSET (1 .. n)
  <1>1. IsFiniteSet(S) /\ 2 ^ n = Cardinality(S)
    BY PowerIsSubsets
  <1>2. S # {}
    OBVIOUS
  <1> HIDE DEF S
  <1>3. Cardinality(S) \in Nat
    BY <1>1, FS_CardinalityType
  <1>4. Cardinality(S) # 0
    BY <1>1, <1>2, FS_EmptySet
  <1> QED
    BY <1>1, <1>3, <1>4

\* Each subset of 1 .. n + 1 has n + 1 in it or has not.
LEMMA PowerDoubles ==
  ASSUME NEW n \in Nat
  PROVE  2 ^ (n + 1) = 2 * 2 ^ n
  <1> DEFINE A == SUBSET (1 .. n)
             B == {s \in SUBSET (1 .. n + 1) : n + 1 \in s}
             f == [s \in A |-> s \cup {n + 1}]
  <1>1. IsFiniteSet(A) /\ 2 ^ n = Cardinality(A)
    BY PowerIsSubsets
  <1>2. 2 ^ (n + 1) = Cardinality(SUBSET (1 .. n + 1))
    <2>1. n + 1 \in Nat
      OBVIOUS
    <2> HIDE DEF A, B, f
    <2> QED
      BY <2>1, PowerIsSubsets
  <1>3. 1 .. n + 1 = (1 .. n) \cup {n + 1} /\ n + 1 \notin 1 .. n
    OBVIOUS
  <1>4. SUBSET (1 .. n + 1) = A \cup B /\ A \cap B = {}
    BY <1>3
  <1>5. ExistsBijection(A, B)
    <2>1. f \in [A -> B]
      BY <1>3
    <2>2. ASSUME NEW s \in A, NEW u \in A, f[s] = f[u] PROVE s = u
      <3>1. n + 1 \notin s /\ n + 1 \notin u
        BY <1>3
      <3>2. s \cup {n + 1} = u \cup {n + 1}
        BY <2>2
      <3> QED
        BY <3>1, <3>2
    <2>3. ASSUME NEW s \in B PROVE \E u \in A : f[u] = s
      <3>1. s \ {n + 1} \in A
        BY <1>3
      <3>2. (s \ {n + 1}) \cup {n + 1} = s
        OBVIOUS
      <3>3. f[s \ {n + 1}] = s
        BY <3>1, <3>2
      <3> QED
        BY <3>1, <3>3
    <2> HIDE DEF A, B, f
    <2>4. f \in Bijection(A, B)
      BY <2>1, <2>2, <2>3 DEF Bijection, Injection, Surjection, IsInjective
    <2> QED
      BY <2>4 DEF ExistsBijection
  <1> HIDE DEF A, B, f
  <1>6. IsFiniteSet(B) /\ Cardinality(B) = Cardinality(A)
    BY <1>1, <1>5, FS_Bijection
  <1>7. Cardinality(A \cup B) = Cardinality(A) + Cardinality(B) - Cardinality(A \cap B)
    BY <1>1, <1>6, FS_Union
  <1>8. Cardinality(A \cap B) = 0
    BY <1>4, FS_EmptySet
  <1>9. Cardinality(A) \in Nat
    BY <1>1, FS_CardinalityType
  <1>10. Cardinality(A \cup B) = 2 * Cardinality(A)
    BY <1>6, <1>7, <1>8, <1>9
  <1> QED
    BY <1>1, <1>2, <1>4, <1>10

LEMMA ProductsRise ==
  ASSUME NEW x \in Int, NEW y \in Int, NEW p \in Nat, x <= y
  PROVE  x * p <= y * p /\ p * x <= p * y
  OBVIOUS

LEMMA Division ==
  ASSUME NEW a \in Int, NEW p \in Nat \ {0}
  PROVE  /\ a \div p \in Int /\ a % p \in 0 .. p - 1
         /\ a = (a \div p) * p + (a % p)
  OBVIOUS

LEMMA DivisionStays ==
  ASSUME NEW a \in Int, NEW p \in Nat \ {0}, NEW H \in Nat \ {0}, -H <= a, a <= H - 1
  PROVE  a \div p \in -H .. H - 1
  <1> DEFINE k == a \div p
             r == a % p
  <1>1. k \in Int /\ r \in 0 .. p - 1 /\ a = k * p + r
    BY Division
  <1> HIDE DEF k, r
  <1>2. ASSUME k < -H PROVE FALSE
    <2>1. k + 1 <= -H
      BY <1>1, <1>2
    <2>2. (k + 1) * p <= (-H) * p
      BY <1>1, <2>1, ProductsRise
    <2>3. (-H) * p <= (-H) * 1
      BY ProductsRise
    <2>4. (k + 1) * p = k * p + p
      BY <1>1
    <2> QED
      BY <1>1, <2>2, <2>3, <2>4
  <1>3. ASSUME k > H - 1 PROVE FALSE
    <2>1. H * 1 <= H * p
      BY ProductsRise
    <2>2. H * p <= k * p
      BY <1>1, <1>3, ProductsRise
    <2> QED
      BY <1>1, <2>1, <2>2
  <1> QED
    BY <1>1, <1>2, <1>3 DEF k

-----------------------------------------------------------------------------
(* int *)

Half == 2 ^ (Width - 1)

LEMMA IntsAre ==
  /\ Half \in Nat /\ Half >= 2 /\ 2 ^ Width = 2 * Half
  /\ INT_MIN = -Half /\ Ints = -Half .. Half - 1
  <1>1. Width - 1 \in Nat /\ Width - 2 \in Nat
        /\ Width = (Width - 1) + 1 /\ Width - 1 = (Width - 2) + 1
    BY WidthAssumption
  <1>2. 2 ^ ((Width - 1) + 1) = 2 * 2 ^ (Width - 1)
    BY <1>1, PowerDoubles
  <1>3. 2 ^ ((Width - 2) + 1) = 2 * 2 ^ (Width - 2)
    BY <1>1, PowerDoubles
  <1>4. 2 ^ (Width - 2) \in Nat \ {0}
    BY <1>1, PowerIsPositive
  <1>5. Half = 2 * 2 ^ (Width - 2)
    BY <1>1, <1>3 DEF Half
  <1>6. Half \in Nat /\ Half >= 2
    BY <1>4, <1>5
  <1>7. 2 ^ Width = 2 * Half
    BY <1>1, <1>2 DEF Half
  <1>8. INT_MIN = -Half
    BY DEF INT_MIN, Half
  <1>9. Ints = -Half .. Half - 1
    BY <1>6, <1>8 DEF Ints
  <1> QED
    BY <1>6, <1>7, <1>8, <1>9

LEMMA WrapIsInt ==
  ASSUME NEW x \in Int
  PROVE  Wrap(x) \in Ints
  <1> DEFINE e == x + Half
             p == 2 * Half
             m == e % p
  <1>1. Half \in Nat /\ Half >= 2 /\ 2 ^ Width = 2 * Half /\ INT_MIN = -Half
        /\ Ints = -Half .. Half - 1
    BY IntsAre
  <1>2. m \in 0 .. 2 * Half - 1
    <2>1. e \in Int /\ p \in Nat \ {0} /\ p = 2 * Half
      BY <1>1
    <2> HIDE DEF e, p
    <2>2. m \in 0 .. p - 1
      BY <2>1, Division
    <2> QED
      BY <2>1, <2>2
  <1>3. x - INT_MIN = x + Half
    BY <1>1
  <1>4. Wrap(x) = m + -Half
    BY <1>1, <1>3 DEF Wrap
  <1> HIDE DEF m
  <1> QED
    BY <1>1, <1>2, <1>4

LEMMA SizeIsNat ==
  ASSUME NEW a \in Ints
  PROVE  /\ Size(a) \in Nat /\ a \in Int /\ Size(a) <= Half
         /\ a = Size(a) * (IF a < 0 THEN -1 ELSE 1)
         /\ a # INT_MIN => Size(a) <= Half - 1
  BY IntsAre DEF Size

\* The quotient is smaller than the dividend, and with what is left it gives it again.
LEMMA QuotientIsInt ==
  ASSUME NEW a \in Ints, NEW b \in Ints, b # 0, ~(a = INT_MIN /\ b = -1)
  PROVE  Quotient(a, b) \in Ints /\ a - b * Quotient(a, b) \in Ints
  <1> DEFINE n == Size(a)
             d == Size(b)
             k == n \div d
             r == n % d
  <1>1. n \in Nat /\ d \in Nat \ {0} /\ n <= Half /\ d <= Half /\ a \in Int /\ b \in Int /\ Half \in Nat
    <2>1. n \in Nat /\ a \in Int /\ n <= Half /\ d \in Nat /\ b \in Int /\ d <= Half
      BY SizeIsNat
    <2>2. d # 0
      BY <2>1 DEF Size
    <2> QED
      BY <2>1, <2>2, IntsAre
  <1>2. k \in Int /\ r \in 0 .. d - 1 /\ n = k * d + r
    <2> HIDE DEF n, d
    <2> QED
      BY <1>1, Division
  <1>3. Quotient(a, b) = k * (IF (a < 0) = (b < 0) THEN 1 ELSE -1)
    BY DEF Quotient
  <1>4. a = n \/ a = -n
    BY <1>1 DEF Size
  <1>4a. b = d \/ b = -d
    BY <1>1 DEF Size
  <1>4b. (a < 0) = (b < 0) => (a = n /\ b = d) \/ (a = -n /\ b = -d)
    BY <1>1 DEF Size
  <1>4c. (a < 0) # (b < 0) => (a = n /\ b = -d) \/ (a = -n /\ b = d)
    BY <1>1 DEF Size
  <1>4d. a # -Half => n <= Half - 1
    BY <1>1, IntsAre DEF Size
  <1>4e. INT_MIN = -Half /\ Ints = -Half .. Half - 1
    BY IntsAre
  <1> HIDE DEF n, d, k, r
  <1>5. k \in Nat
    <2>1. ASSUME k <= -1 PROVE FALSE
      <3>1. k * d <= (-1) * d
        BY <1>1, <1>2, <2>1, ProductsRise
      <3> QED
        BY <1>1, <1>2, <3>1
    <2> QED
      BY <1>2, <2>1
  <1>6. k * 1 <= k * d
    BY <1>1, <1>5, ProductsRise
  <1>7. k <= n
    BY <1>1, <1>2, <1>5, <1>6
  <1>8. ASSUME k = Half PROVE d = 1 /\ a = -Half
    <2>1. n = Half /\ a = -Half
      BY <1>1, <1>4d, <1>7, <1>8
    <2>2. ASSUME d >= 2 PROVE FALSE
      <3>1. k * 2 <= k * d
        BY <1>1, <1>5, <2>2, ProductsRise
      <3> QED
        BY <1>1, <1>2, <1>5, <1>8, <2>1, <3>1, IntsAre
    <2> QED
      BY <1>1, <2>1, <2>2
  <1>9. Quotient(a, b) \in Ints
    <2>1. CASE k # Half
      <3>1. k \in 0 .. Half - 1
        BY <1>1, <1>5, <1>7, <2>1
      <3> QED
        BY <1>1, <1>3, <1>4e, <3>1
    <2>2. CASE k = Half
      <3>1. d = 1 /\ a = -Half
        BY <1>8, <2>2
      <3>2. b = 1
        BY <1>4a, <1>4e, <3>1
      <3>3. (a < 0) # (b < 0)
        BY <1>1, <3>1, <3>2, IntsAre
      <3> QED
        BY <1>1, <1>3, <1>4e, <2>2, <3>3
    <2> QED
      BY <2>1, <2>2
  <1>10. a - b * Quotient(a, b) \in {r, -r}
    <2>1. CASE (a < 0) = (b < 0)
      <3>1. Quotient(a, b) = k
        BY <1>3, <1>5, <2>1
      <3>2. (-d) * k = -(k * d) /\ d * k = k * d
        BY <1>1, <1>5
      <3>3. CASE a = n /\ b = d
        BY <1>1, <1>2, <1>5, <3>1, <3>2, <3>3
      <3>4. CASE a = -n /\ b = -d
        BY <1>1, <1>2, <1>5, <3>1, <3>2, <3>4
      <3> QED
        BY <1>4b, <2>1, <3>3, <3>4
    <2>2. CASE (a < 0) # (b < 0)
      <3>1. Quotient(a, b) = -k
        BY <1>3, <1>5, <2>2
      <3>2. (-d) * (-k) = k * d /\ d * (-k) = -(k * d)
        BY <1>1, <1>5
      <3>3. CASE a = n /\ b = -d
        BY <1>1, <1>2, <1>5, <3>1, <3>2, <3>3
      <3>4. CASE a = -n /\ b = d
        BY <1>1, <1>2, <1>5, <3>1, <3>2, <3>4
      <3> QED
        BY <1>4c, <2>2, <3>3, <3>4
    <2> QED
      BY <2>1, <2>2
  <1> QED
    BY <1>1, <1>2, <1>4e, <1>9, <1>10

LEMMA PowerIsInt ==
  ASSUME NEW a, NEW b \in Int
  PROVE  Power(a, b) \in Ints
  BY IntsAre DEF Power

LEMMA DoubledAre ==
  /\ DOMAIN Doubled = {"*", "<", ">"}
  /\ \A c \in DOMAIN Doubled : Doubled[c] \in {"**", "<<", ">>"}
  BY DEF Doubled

LEMMA DigitsAre == \A c \in DOMAIN Digits : Digits[c] \in Int
  <1> DEFINE s == <<"0", "1", "2", "3", "4", "5", "6", "7", "8", "9">>
             Value(c) == CHOOSE n \in 0 .. 9 : s[n + 1] = c
  <1>1. Digits = [x \in Range(s) |-> Value(x)]
    BY DEF Digits
  <1>2. DOMAIN s = 1 .. 10
    OBVIOUS
  <1> HIDE DEF s
  <1>3. ASSUME NEW c \in Range(s) PROVE Value(c) \in Int
    <2>1. PICK k \in 1 .. 10 : s[k] = c
      BY <1>2, <1>3 DEF Range
    <2>2. k - 1 \in 0 .. 9 /\ s[(k - 1) + 1] = c
      BY <2>1
    <2>3. \E n \in 0 .. 9 : s[n + 1] = c
      BY <2>2
    <2>4. Value(c) \in 0 .. 9
      BY <2>3
    <2> HIDE DEF Value
    <2> QED
      BY <2>4
  <1> HIDE DEF Value
  <1> QED
    BY <1>1, <1>3

LEMMA ResultsAreInts ==
  ASSUME NEW l \in DOMAIN Level, NEW op \in Level[l], NEW a \in Ints, NEW b \in Ints,
         ~Traps(op, a, b), NEW x \in Results(op, a, b)
  PROVE  x \in Ints
  <1>1. op \in {"|", "^", "&", "<<", ">>", "+", "-", "*", "/", "%", "**"}
    BY DEF Level
  <1>2. a \in Int /\ b \in Int
    BY SizeIsNat
  <1>3. CASE op \in {"|", "^", "&"}
    BY <1>3 DEF Results, OfBits
  <1>4. CASE op \in {"<<", ">>"} /\ b \notin 0 .. Width - 1
    BY <1>4 DEF Results
  <1>5. CASE op \in {"<<", ">>"} /\ b \in 0 .. Width - 1
    <2>1. 2 ^ b \in Nat \ {0}
      BY <1>5, PowerIsPositive, WidthAssumption
    <2> DEFINE p == 2 ^ b
    <2>2. x = Wrap(a * p) \/ x = a \div p
      BY <1>5 DEF Results
    <2>3. p \in Nat \ {0}
      BY <2>1
    <2> HIDE DEF p
    <2>4. a * p \in Int
      BY <1>2, <2>3
    <2>5. a \div p \in Ints
      <3>1. -Half <= a /\ a <= Half - 1 /\ Half \in Nat \ {0}
        BY IntsAre
      <3> QED
        BY <1>2, <2>3, <3>1, DivisionStays, IntsAre
    <2> QED
      BY <2>2, <2>4, <2>5, WrapIsInt
  <1>6. CASE op \in {"+", "-", "*"}
    <2>1. a + b \in Int /\ a - b \in Int /\ a * b \in Int
      BY <1>2
    <2>2. x \in {Wrap(a + b), Wrap(a - b), Wrap(a * b)}
      BY <1>6 DEF Results
    <2> QED
      BY <2>1, <2>2, WrapIsInt
  <1>7. CASE op = "**"
    BY <1>2, <1>7, PowerIsInt DEF Results
  <1>8. CASE op \in {"/", "%"} /\ b = 0
    <2>1. x = 0
      BY <1>8 DEF Results
    <2> QED
      BY <2>1, IntsAre
  <1>9. CASE op \in {"/", "%"} /\ b # 0
    <2>1. ~(a = INT_MIN /\ b = -1)
      BY <1>9 DEF Traps
    <2>2. x = Quotient(a, b) \/ x = a - b * Quotient(a, b)
      BY <1>9 DEF Results
    <2> QED
      BY <1>9, <2>1, <2>2, QuotientIsInt
  <1> QED
    BY <1>1, <1>3, <1>4, <1>5, <1>6, <1>7, <1>8, <1>9

LEMMA NegatedIsInt ==
  ASSUME NEW op, NEW a \in Ints
  PROVE  Negated(op, a) \in Ints
  <1>1. a \in Int /\ -a \in Int
    BY SizeIsNat
  <1>2. Wrap(-a) \in Ints
    BY <1>1, WrapIsInt
  <1>3. -a - 1 \in Ints
    BY <1>1, IntsAre
  <1> QED
    BY <1>2, <1>3 DEF Negated

-----------------------------------------------------------------------------
(* Types *)

Token == [tok : Tokens, val : Ints]
Record == [level : 1 .. 8, op : Tokens \cup {""}, ival : Ints]

\* The inductive invariant of the types: the queue keeps its end, and a function
\* of one of the six levels has an operator of its level.
FramesOK ==
  \A i \in DOMAIN calls :
    calls[i].level \in DOMAIN Level /\ calls[i].op # "" => calls[i].op \in Level[calls[i].level]
TypeInv == TypeOK /\ QueueInv /\ FramesOK

LEMMA TokensAre ==
  /\ "number" \in Tokens /\ "eoe" \in Tokens
  /\ Singles \subseteq Tokens /\ Unary \subseteq Tokens
  /\ "*" \in Tokens /\ "**" \in Tokens /\ "<<" \in Tokens /\ ">>" \in Tokens
  /\ \A l \in DOMAIN Level : Level[l] \subseteq Tokens
  /\ DOMAIN Level = 1 .. 6
  <1>1. /\ DOMAIN Level = 1 .. 6
        /\ Level[1] = {"|"} /\ Level[2] = {"^"} /\ Level[3] = {"&"} /\ Level[4] = {"<<", ">>"}
        /\ Level[5] = {"+", "-"} /\ Level[6] = {"*", "/", "%", "**"}
    BY DEF Level
  <1>2. \A l \in DOMAIN Level : Level[l] \subseteq Tokens
    BY DEF Tokens
  <1>3. /\ "number" \in Tokens /\ "eoe" \in Tokens /\ {"(", ")"} \subseteq Tokens
        /\ Unary \subseteq Tokens
    BY DEF Tokens
  <1>4. Singles \subseteq Tokens
    BY <1>1, <1>2, <1>3 DEF Singles, Unary
  <1> QED
    BY <1>1, <1>2, <1>3, <1>4

LEMMA TypeInit == Init => TypeInv
  <1> SUFFICES ASSUME Init PROVE TypeInv
    OBVIOUS
  <1>1. 0 \in Ints
    BY IntsAre
  <1>2. q \in Seq(Token) /\ calls \in Seq(Record) /\ DOMAIN calls = {}
    BY DEF Init
  <1>3. TypeOK
    BY <1>1, <1>2 DEF Init, TypeOK, Token, Record
  <1>4. FramesOK
    BY <1>2 DEF FramesOK
  <1> QED
    BY <1>3, <1>4, QueueInit DEF TypeInv

LEMMA QueuedType ==
  ASSUME NEW s \in Seq(Token), NEW tok \in Tokens \cup {"none", "<", ">"}, NEW n \in Ints
  PROVE  Queued(s, tok, n) \in Seq(Token)
  <1>1. CASE tok = "none" \/ Lone(tok)
    BY <1>1 DEF Queued
  <1>2. CASE ~(tok = "none" \/ Lone(tok))
    <2>1. [tok |-> tok, val |-> n] \in Token
      BY <1>2 DEF Lone, Token
    <2> QED
      BY <1>2, <2>1 DEF Queued
  <1> QED
    BY <1>1, <1>2

LEMMA TypeLexan == TypeInv /\ lexan => TypeOK' /\ FramesOK'
  <1> SUFFICES ASSUME TypeInv, lexan PROVE TypeOK' /\ FramesOK'
    OBVIOUS
  <1>1. /\ q \in Seq(Token) /\ calls \in Seq(Record) /\ t \in Tokens \cup {"none", "<", ">"}
        /\ v \in Ints /\ val \in Ints /\ res \in Ints /\ pc \in Int /\ callee \in 1 .. 8
    BY DEF TypeInv, TypeOK, Token, Record
  <1>2. Pending \in Seq(Token)
    BY <1>1, QueuedType DEF Pending
  <1>3. 0 \in Ints
    BY IntsAre
  <1>4. UNCHANGED <<calls, val, res>>
    BY DEF lexan, Digit, FirstHalf, SecondHalf, Single, Blank, Unknown, Read, EndOfText
  <1>5. FramesOK'
    BY <1>4 DEF TypeInv, FramesOK
  <1>6. ASSUME /\ phase' \in {"lexan", "done", "call"} /\ callee' \in 1 .. 8
               /\ q' \in Seq(Token) /\ t' \in Tokens \cup {"none", "<", ">"}
               /\ v' \in Ints /\ pc' \in Int
        PROVE  TypeOK'
    BY <1>1, <1>4, <1>6 DEF TypeOK, Token, Record
  <1>7. ASSUME NEW c, Digit(c) PROVE TypeOK'
    <2>1. Digits[c] \in Int
      BY <1>7, DigitsAre DEF Digit
    <2>2. v \in Int
      BY <1>1, SizeIsNat
    <2>3. v * 10 + Digits[c] \in Int
      BY <2>1, <2>2
    <2>4. Wrap(v * 10 + Digits[c]) \in Ints /\ Wrap(Digits[c]) \in Ints
      BY <2>1, <2>3, WrapIsInt
    <2>5. v' \in Ints /\ q' \in Seq(Token) /\ t' \in Tokens \cup {"none", "<", ">"}
      BY <1>1, <1>2, <1>7, <2>4, TokensAre DEF Digit
    <2>6. pc' \in Int /\ phase' = "lexan" /\ callee' \in 1 .. 8
      BY <1>1, <1>7 DEF Digit, Read
    <2> QED
      BY <1>6, <2>5, <2>6
  <1>8. ASSUME NEW c, FirstHalf(c) PROVE TypeOK'
    <2>1. t' \in Tokens \cup {"none", "<", ">"}
      BY <1>8, DoubledAre, TokensAre DEF FirstHalf
    <2>2. v' \in Ints /\ q' \in Seq(Token) /\ pc' \in Int /\ phase' = "lexan" /\ callee' \in 1 .. 8
      BY <1>1, <1>2, <1>3, <1>8 DEF FirstHalf, Read
    <2> QED
      BY <1>6, <2>1, <2>2
  <1>9. ASSUME NEW c, SecondHalf(c) PROVE TypeOK'
    <2>1. Doubled[c] \in Tokens
      BY <1>9, DoubledAre, TokensAre DEF SecondHalf
    <2>2. q' \in Seq(Token)
      BY <1>1, <1>9, <2>1, QueuedType DEF SecondHalf
    <2>3. t' = "none" /\ v' \in Ints /\ pc' \in Int /\ phase' = "lexan" /\ callee' \in 1 .. 8
      BY <1>1, <1>3, <1>9 DEF SecondHalf, Read
    <2> QED
      BY <1>6, <2>2, <2>3
  <1>10. ASSUME NEW c, Single(c) PROVE TypeOK'
    <2>1. c \in Tokens
      BY <1>10, TokensAre DEF Single
    <2>2. q' \in Seq(Token)
      BY <1>2, <1>3, <1>10, <2>1, QueuedType DEF Single
    <2>3. t' = "none" /\ v' \in Ints /\ pc' \in Int /\ phase' = "lexan" /\ callee' \in 1 .. 8
      BY <1>1, <1>3, <1>10 DEF Single, Read
    <2> QED
      BY <1>6, <2>2, <2>3
  <1>11. ASSUME NEW c, Blank(c) \/ Unknown(c) PROVE TypeOK'
    <2>1. /\ t' \in Tokens \cup {"none", "<", ">"} /\ v' \in Ints /\ q' \in Seq(Token)
          /\ pc' \in Int /\ phase' = "lexan" /\ callee' \in 1 .. 8
      BY <1>1, <1>2, <1>3, <1>11 DEF Blank, Unknown, Read
    <2> QED
      BY <1>6, <2>1
  <1>12. CASE EndOfText
    <2>1. Queued(Pending, "eoe", 0) \in Seq(Token)
      BY <1>2, <1>3, QueuedType, TokensAre
    <2>2. << >> \in Seq(Token)
      OBVIOUS
    <2>3. /\ t' = "none" /\ v' = 0 /\ pc' = pc /\ callee' = 1
          /\ \/ q' = << >> /\ phase' = "done"
             \/ q' = Queued(Pending, "eoe", 0) /\ phase' = "call"
      BY <1>12 DEF EndOfText
    <2> QED
      <3>1. q' \in Seq(Token) /\ phase' \in {"done", "call"}
        BY <2>1, <2>2, <2>3
      <3>2. /\ t' \in Tokens \cup {"none", "<", ">"} /\ v' \in Ints
            /\ pc' \in Int /\ callee' \in 1 .. 8
        BY <1>1, <1>3, <2>3
      <3> QED
        BY <1>5, <1>6, <3>1, <3>2
  <1> QED
    BY <1>5, <1>7, <1>8, <1>9, <1>10, <1>11, <1>12 DEF lexan

FrameOK(f) == f.level \in DOMAIN Level /\ f.op # "" => f.op \in Level[f.level]

\* A call is pushed, replaced or popped.
LEMMA CallsType ==
  ASSUME TypeInv, NEW f \in Record, FrameOK(f)
  PROVE  /\ <<f>> \o calls \in Seq(Record)
         /\ \A i \in DOMAIN (<<f>> \o calls) : FrameOK((<<f>> \o calls)[i])
         /\ calls # << >> =>
              /\ Tail(calls) \in Seq(Record)
              /\ \A i \in DOMAIN Tail(calls) : FrameOK(Tail(calls)[i])
              /\ <<f>> \o Tail(calls) \in Seq(Record)
              /\ \A i \in DOMAIN (<<f>> \o Tail(calls)) : FrameOK((<<f>> \o Tail(calls))[i])
              /\ top \in Record /\ FrameOK(top)
  <1>1. calls \in Seq(Record) /\ \A i \in DOMAIN calls : FrameOK(calls[i])
    BY DEF TypeInv, TypeOK, FramesOK, FrameOK, Record
  <1>2. ASSUME NEW s \in Seq(Record), \A i \in DOMAIN s : FrameOK(s[i])
        PROVE  /\ <<f>> \o s \in Seq(Record)
               /\ \A i \in DOMAIN (<<f>> \o s) : FrameOK((<<f>> \o s)[i])
    <2>1. <<f>> \o s \in Seq(Record) /\ DOMAIN (<<f>> \o s) = 1 .. Len(s) + 1
      OBVIOUS
    <2>2. ASSUME NEW i \in 1 .. Len(s) + 1 PROVE FrameOK((<<f>> \o s)[i])
      <3>1. CASE i = 1
        <4>1. (<<f>> \o s)[i] = f
          BY <3>1
        <4> QED
          BY <4>1
      <3>2. CASE i # 1
        <4>1. (<<f>> \o s)[i] = s[i - 1] /\ i - 1 \in DOMAIN s
          BY <3>2
        <4> QED
          BY <1>2, <4>1
      <3> QED
        BY <3>1, <3>2
    <2> QED
      BY <2>1, <2>2
  <1>3. ASSUME calls # << >>
        PROVE  /\ Tail(calls) \in Seq(Record)
               /\ \A i \in DOMAIN Tail(calls) : FrameOK(Tail(calls)[i])
               /\ top \in Record /\ FrameOK(top)
    <2>1. Tail(calls) \in Seq(Record) /\ DOMAIN Tail(calls) = 1 .. Len(calls) - 1
          /\ top = calls[1] /\ 1 \in DOMAIN calls
      BY <1>1, <1>3 DEF top
    <2>2. ASSUME NEW i \in 1 .. Len(calls) - 1 PROVE FrameOK(Tail(calls)[i])
      <3>1. Tail(calls)[i] = calls[i + 1] /\ i + 1 \in DOMAIN calls
        BY <1>1, <1>3
      <3> QED
        BY <1>1, <3>1
    <2> QED
      BY <1>1, <2>1, <2>2
  <1> QED
    BY <1>1, <1>2, <1>3

LEMMA TypeCall == TypeInv /\ [Next]_vars /\ ~lexan => TypeOK' /\ FramesOK'
  <1> SUFFICES ASSUME TypeInv, [Next]_vars, ~lexan PROVE TypeOK' /\ FramesOK'
    OBVIOUS
  <1>1. /\ q \in Seq(Token) /\ calls \in Seq(Record) /\ t \in Tokens \cup {"none", "<", ">"}
        /\ v \in Ints /\ val \in Ints /\ res \in Ints /\ pc \in Int /\ callee \in 1 .. 8
        /\ phase \in {"start", "lexan", "call", "return", "done", "killed"}
        /\ \A i \in DOMAIN calls : FrameOK(calls[i])
    BY DEF TypeInv, TypeOK, Token, Record, FramesOK, FrameOK
  <1>2. ASSUME /\ phase' \in {"lexan", "call", "return", "done", "killed"} /\ callee' \in 1 .. 8
               /\ q' \in Seq(Token) /\ val' \in Ints /\ res' \in Ints
               /\ UNCHANGED <<t, v, pc>>
               /\ calls' \in Seq(Record) /\ \A i \in DOMAIN calls' : FrameOK(calls'[i])
        PROVE  TypeOK' /\ FramesOK'
    <2>1. TypeOK'
      BY <1>1, <1>2 DEF TypeOK, Token, Record
    <2>2. FramesOK'
      BY <1>2 DEF FramesOK, FrameOK
    <2> QED
      BY <2>1, <2>2
  <1>3. phase \in {"call", "return"} => Tail(q) \in Seq(Token) /\ Head(q) \in Token
    BY <1>1 DEF TypeInv, QueueInv, Ends
  <1>4. 0 \in Ints /\ DOMAIN Level = 1 .. 6
    BY IntsAre, TokensAre
  <1>5. ASSUME NEW f \in Record, FrameOK(f)
        PROVE  /\ <<f>> \o calls \in Seq(Record)
               /\ \A i \in DOMAIN (<<f>> \o calls) : FrameOK((<<f>> \o calls)[i])
               /\ calls # << >> =>
                    /\ Tail(calls) \in Seq(Record)
                    /\ \A i \in DOMAIN Tail(calls) : FrameOK(Tail(calls)[i])
                    /\ <<f>> \o Tail(calls) \in Seq(Record)
                    /\ \A i \in DOMAIN (<<f>> \o Tail(calls)) : FrameOK((<<f>> \o Tail(calls))[i])
                    /\ top \in Record /\ FrameOK(top)
    BY <1>5, CallsType
  <1>6. \A l \in 1 .. 8 : Frame(l, "", 0) \in Record /\ FrameOK(Frame(l, "", 0))
    BY <1>4, Zenon DEF Frame, Record, FrameOK
  <1>7. calls # << >> =>
          /\ Tail(calls) \in Seq(Record) /\ \A i \in DOMAIN Tail(calls) : FrameOK(Tail(calls)[i])
          /\ top \in Record /\ FrameOK(top)
    <2>1. Frame(1, "", 0) \in Record /\ FrameOK(Frame(1, "", 0))
      <3>1. 1 \in 1 .. 8
        OBVIOUS
      <3> QED
        BY <1>6, <3>1, Zenon
    <2> DEFINE f == Frame(1, "", 0)
    <2> HIDE DEF f
    <2>2. f \in Record /\ FrameOK(f)
      BY <2>1 DEF f
    <2> QED
      BY <1>5, <2>2
  <1>8. ASSUME NEW l \in DOMAIN Level, Operand(l) PROVE TypeOK' /\ FramesOK'
    <2>1. calls' = <<Frame(l, "", 0)>> \o calls
      BY <1>8 DEF Operand
    <2>2. l \in 1 .. 8 /\ l + 1 \in 1 .. 8
      BY <1>4
    <2>3. calls' \in Seq(Record) /\ \A i \in DOMAIN calls' : FrameOK(calls'[i])
      BY <1>5, <1>6, <2>1, <2>2
    <2>4. phase' = "call" /\ callee' = l + 1 /\ UNCHANGED <<q, val, res, t, v, pc>>
      BY <1>8 DEF Operand, Call, lexed
    <2> QED
      BY <1>1, <1>2, <2>2, <2>3, <2>4
  <1>9. ASSUME NEW l \in DOMAIN Level, Operator(l) PROVE TypeOK' /\ FramesOK'
    <2>1. calls' = <<Frame(l, peek, val)>> \o Tail(calls) /\ calls # << >> /\ peek \in Level[l]
      BY <1>9 DEF Operator, Returning
    <2>2. l \in 1 .. 8 /\ l + 1 \in 1 .. 8 /\ peek \in Tokens
      BY <1>4, <2>1, TokensAre
    <2>3. Frame(l, peek, val) \in Record /\ FrameOK(Frame(l, peek, val))
      BY <1>1, <2>1, <2>2, Zenon DEF Frame, Record, FrameOK
    <2>4. calls' \in Seq(Record) /\ \A i \in DOMAIN calls' : FrameOK(calls'[i])
      BY <1>5, <2>1, <2>3
    <2>5. /\ phase' = "call" /\ callee' = l + 1 /\ UNCHANGED <<val, res, t, v, pc>>
          /\ q' = Tail(q) /\ phase = "return"
      BY <1>9 DEF Operator, Returning, Call, lexed
    <2> QED
      BY <1>1, <1>2, <1>3, <2>2, <2>4, <2>5
  <1>10. ASSUME NEW l \in DOMAIN Level, Operate(l) PROVE TypeOK' /\ FramesOK'
    <2>1. /\ calls' = <<Frame(l, "", 0)>> \o Tail(calls) /\ calls # << >> /\ top.level = l
          /\ ~Traps(top.op, top.ival, val)
      BY <1>10 DEF Operate, Returning
    <2>2. top.op # ""
      BY <1>10 DEF Operate
    <2>3. l \in 1 .. 8 /\ top.ival \in Ints
      BY <1>4, <1>7, <2>1 DEF Record
    <2>4. top.op \in Level[l]
      BY <1>7, <2>1, <2>2 DEF FrameOK
    <2>5. calls' \in Seq(Record) /\ \A i \in DOMAIN calls' : FrameOK(calls'[i])
      BY <1>5, <1>6, <2>1, <2>3
    <2>6. PICK x \in Results(top.op, top.ival, val) : Return(x)
      BY <1>10 DEF Operate
    <2>7. x \in Ints
      BY <1>1, <2>1, <2>3, <2>4, <2>6, ResultsAreInts
    <2>8. phase' = "return" /\ val' = x /\ UNCHANGED <<callee, q, res, t, v, pc>>
      BY <1>10, <2>6 DEF Operate, Return, lexed
    <2> QED
      BY <1>1, <1>2, <2>5, <2>7, <2>8
  <1>11. ASSUME NEW l \in DOMAIN Level, NoOperator(l) PROVE TypeOK' /\ FramesOK'
    <2>1. calls # << >> /\ calls' = Tail(calls)
      BY <1>11 DEF NoOperator, Returning
    <2>2. phase' = "return" /\ UNCHANGED <<val, callee, q, res, t, v, pc>>
      BY <1>11 DEF NoOperator, Return, lexed
    <2> QED
      BY <1>1, <1>2, <1>7, <2>1, <2>2
  <1>12. CASE G
    <2>1. peek \in Unary => Frame(7, peek, 0) \in Record /\ FrameOK(Frame(7, peek, 0))
      <3>1. 7 \in 1 .. 8 /\ 7 \notin DOMAIN Level /\ (peek \in Unary => peek \in Tokens)
        BY <1>4, TokensAre
      <3> QED
        BY <1>4, <3>1, Zenon DEF Frame, Record, FrameOK
    <2>2. /\ phase = "call" /\ phase' = "call" /\ callee' = 8 /\ UNCHANGED <<val, res, t, v, pc>>
          /\ \/ calls' = <<Frame(7, peek, 0)>> \o calls /\ q' = Tail(q) /\ peek \in Unary
             \/ calls' = calls /\ q' = q
      BY <1>12 DEF G, Calling, Call, lexed
    <2>3. calls' \in Seq(Record) /\ \A i \in DOMAIN calls' : FrameOK(calls'[i])
      BY <1>1, <1>5, <2>1, <2>2
    <2>4. q' \in Seq(Token)
      BY <1>1, <1>3, <2>2
    <2> QED
      BY <1>1, <1>2, <2>2, <2>3, <2>4
  <1>13. CASE Negate
    <2>1. calls # << >> /\ calls' = Tail(calls) /\ phase' = "return" /\ val' = Negated(top.op, val)
          /\ UNCHANGED <<callee, q, res, t, v, pc>>
      BY <1>13 DEF Negate, Returning, Return, lexed
    <2>2. val' \in Ints
      BY <1>1, <2>1, NegatedIsInt
    <2> QED
      BY <1>1, <1>2, <1>7, <2>1, <2>2
  <1>14. CASE Number
    <2>1. /\ phase = "call" /\ phase' = "return" /\ val' = Head(q).val /\ q' = Tail(q)
          /\ UNCHANGED <<callee, calls, res, t, v, pc>>
      BY <1>14 DEF Number, Calling, Return, lexed
    <2>2. val' \in Ints
      BY <1>3, <2>1 DEF Token
    <2> QED
      BY <1>1, <1>2, <1>3, <2>1, <2>2
  <1>15. CASE Open
    <2>1. Frame(8, "(", 0) \in Record /\ FrameOK(Frame(8, "(", 0))
      <3>1. "(" \in Tokens
        BY TokensAre DEF Singles
      <3> QED
        BY <1>4, <3>1 DEF Frame, Record, FrameOK
    <2>2. /\ phase = "call" /\ phase' = "call" /\ callee' = 1 /\ q' = Tail(q)
          /\ calls' = <<Frame(8, "(", 0)>> \o calls /\ UNCHANGED <<val, res, t, v, pc>>
      BY <1>15 DEF Open, Calling, Call, lexed
    <2>3. calls' \in Seq(Record) /\ \A i \in DOMAIN calls' : FrameOK(calls'[i])
      BY <1>5, <2>1, <2>2
    <2> QED
      BY <1>1, <1>2, <1>3, <2>2, <2>3
  <1>16. CASE Unexpected
    <2>1. phase' = "return" /\ val' = 0 /\ UNCHANGED <<callee, calls, q, res, t, v, pc>>
      BY <1>16 DEF Unexpected, Return, lexed
    <2> QED
      BY <1>1, <1>2, <1>4, <2>1
  <1>17. CASE Close
    <2>1. /\ phase = "return" /\ calls # << >> /\ calls' = Tail(calls) /\ phase' = "return"
          /\ q' \in {q, Tail(q)} /\ UNCHANGED <<val, callee, res, t, v, pc>>
      BY <1>17 DEF Close, Returning, Return, lexed
    <2> QED
      BY <1>1, <1>2, <1>3, <1>7, <2>1
  <1>18. CASE Finish
    <2>1. /\ phase' = "done" /\ q' = << >> /\ res' \in {0, val}
          /\ UNCHANGED <<t, v, pc, calls, callee, val>>
      BY <1>18 DEF Finish
    <2> QED
      BY <1>1, <1>2, <1>4, <2>1
  <1>19. CASE Start \/ Trap
    <2>1. phase' \in {"lexan", "killed"} /\ UNCHANGED <<t, v, pc, q, calls, callee, val, res>>
      BY <1>19 DEF Start, Trap, lexed
    <2> QED
      BY <1>1, <1>2, <2>1
  <1>20. CASE UNCHANGED vars
    BY <1>20 DEF vars, TypeInv, TypeOK, FramesOK
  <1> QED
    BY <1>8, <1>9, <1>10, <1>11, <1>12, <1>13, <1>14, <1>15, <1>16, <1>17, <1>18, <1>19, <1>20 DEF Next

\* Every value is an int of the width, whatever is typed: sums and products are
\* wrapped, a quotient fits because the one that does not has ended the shell, and
\* a bad shift gives some int.  Each token and each call is one the code has.
THEOREM ExprTypes == Spec => []TypeOK
  <1>1. TypeInv /\ [Next]_vars => TypeInv'
    BY TypeLexan, TypeCall, QueueStep DEF TypeInv
  <1>2. TypeInv => TypeOK
    BY DEF TypeInv
  <1> QED
    BY <1>1, <1>2, TypeInit, PTL DEF Spec
=============================================================================
