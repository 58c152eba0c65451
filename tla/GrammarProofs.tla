--------------------------- MODULE GrammarProofs ---------------------------
(***************************************************************************)
(* For all lines over all alphabets: the parser never takes the token for  *)
(* the end of the line, it adds each node below one that is there, and a   *)
(* tree it returns without an error can be executed.                       *)
(***************************************************************************)
EXTENDS GrammarShapes, SequenceTheorems, FiniteSetTheorems, TLAPS

IsSeq(s) == \E S : s \in Seq(S)

\* No function compares the look-ahead with the end of the line.
Good(i) == i.do \in {"compare", "compare_keyword"} => i.x # "eof"
Wanted(s) == \A i \in DOMAIN s : Good(s[i])

\* The node added last.
depth == tree[Len(tree)].d

\* What is left to do goes down by one level at most, so that a node that is
\* added leaves all of it possible ...
Gentle(s) == \A i, j \in DOMAIN s : i < j => s[j].d <= s[i].d + 1

\* ... and each of it finds its node in the rightmost branch, now or when the
\* next node has been added.
Reach(s, n) == \A i \in DOMAIN s : s[i].d <= n \/ \E j \in DOMAIN s : j < i /\ s[j].do = "add_node"

Possible(s, n) ==
  /\ IsSeq(s) /\ \A i \in DOMAIN s : s[i].d \in Nat
  /\ Wanted(s) /\ Gentle(s) /\ Reach(s, n)

Preorder(s) ==
  /\ IsSeq(s) /\ s # << >> /\ s[1] = Root
  /\ \A i \in DOMAIN s : s[i].d \in Nat
  /\ \A i \in 2 .. Len(s) : s[i].d \in 1 .. s[i - 1].d + 1

LineOK ==
  /\ alphabet \in Alphabets /\ line \in Seq(Tokens \cup {"newline"})
  /\ toklast \in DOMAIN alphabet.after \cup {"newline", "eof"}
  /\ command_empty \in BOOLEAN /\ err_occured \in BOOLEAN

\* The inductive invariant.
ParserInv == LineOK /\ Preorder(tree) /\ Possible(todo, depth)

-----------------------------------------------------------------------------
(* Lists *)

\* The items behind the first one.
LEMMA Rest ==
  ASSUME NEW s, IsSeq(s), s # << >>
  PROVE  /\ IsSeq(Tail(s)) /\ Len(s) \in Nat \ {0} /\ Len(Tail(s)) = Len(s) - 1
         /\ DOMAIN s = 1 .. Len(s) /\ DOMAIN Tail(s) = 1 .. Len(s) - 1
         /\ \A i \in 1 .. Len(s) - 1 : Tail(s)[i] = s[i + 1]
         /\ Head(s) = s[1] /\ 1 \in DOMAIN s
  <1>1. PICK S : s \in Seq(S)
    BY DEF IsSeq
  <1>2. Len(s) \in Nat \ {0} /\ DOMAIN s = 1 .. Len(s)
    BY <1>1, EmptySeq, LenProperties
  <1>3. Tail(s) \in Seq(S) /\ Len(Tail(s)) = Len(s) - 1
    BY <1>1, HeadTailProperties
  <1>4. DOMAIN Tail(s) = 1 .. Len(s) - 1
    BY <1>3, LenProperties
  <1> QED
    BY <1>1, <1>2, <1>3, <1>4, HeadTailProperties DEF IsSeq

\* Two lists, one behind the other.
LEMMA Joined ==
  ASSUME NEW a, NEW b, IsSeq(a), IsSeq(b)
  PROVE  /\ IsSeq(a \o b) /\ Len(a) \in Nat /\ Len(b) \in Nat
         /\ DOMAIN a = 1 .. Len(a) /\ DOMAIN b = 1 .. Len(b)
         /\ Len(a \o b) = Len(a) + Len(b) /\ DOMAIN (a \o b) = 1 .. Len(a) + Len(b)
         /\ \A i \in 1 .. Len(a) : (a \o b)[i] = a[i]
         /\ \A i \in 1 .. Len(b) : (a \o b)[Len(a) + i] = b[i]
  <1>1. PICK S : a \in Seq(S)
    BY DEF IsSeq
  <1>2. PICK T : b \in Seq(T)
    BY DEF IsSeq
  <1>3. a \in Seq(S \cup T) /\ b \in Seq(S \cup T)
    BY <1>1, <1>2, SeqMonotonic
  <1>l. Len(a) \in Nat /\ Len(b) \in Nat /\ DOMAIN a = 1 .. Len(a) /\ DOMAIN b = 1 .. Len(b)
    BY <1>3, LenProperties
  <1>4. a \o b \in Seq(S \cup T) /\ Len(a \o b) = Len(a) + Len(b)
    BY <1>3, ConcatProperties
  <1>5. DOMAIN (a \o b) = 1 .. Len(a) + Len(b)
    BY <1>4, LenProperties
  <1>6. \A i \in 1 .. Len(a) + Len(b) : (a \o b)[i] = IF i <= Len(a) THEN a[i] ELSE b[i - Len(a)]
    BY <1>3, ConcatProperties
  <1>7. \A i \in 1 .. Len(a) : (a \o b)[i] = a[i]
    BY <1>6, <1>l
  <1>8. \A i \in 1 .. Len(b) : (a \o b)[Len(a) + i] = b[i]
    <2> TAKE i \in 1 .. Len(b)
    <2>1. Len(a) + i \in 1 .. Len(a) + Len(b) /\ ~(Len(a) + i <= Len(a)) /\ (Len(a) + i) - Len(a) = i
      BY <1>l
    <2> QED
      BY <2>1, <1>6
  <1> QED
    BY <1>4, <1>5, <1>7, <1>8, <1>l DEF IsSeq

\* What has been done is dropped: the rest is possible, if that did not wait
\* for a node that was to be added.
LEMMA Dropped ==
  ASSUME NEW s, NEW n \in Nat, s # << >>, Possible(s, n), s[1].do # "add_node"
  PROVE  Possible(Tail(s), n)
  <1> DEFINE r == Tail(s)
  <1>1. /\ IsSeq(r) /\ Len(s) \in Nat \ {0} /\ DOMAIN s = 1 .. Len(s) /\ DOMAIN r = 1 .. Len(s) - 1
        /\ \A i \in 1 .. Len(s) - 1 : r[i] = s[i + 1]
    BY Rest DEF Possible
  <1> HIDE DEF r
  <1>2. \A i \in DOMAIN r : r[i] = s[i + 1] /\ i + 1 \in DOMAIN s /\ i \in Nat
    BY <1>1
  <1>3. (\A i \in DOMAIN r : r[i].d \in Nat) /\ Wanted(r)
    BY <1>2 DEF Possible, Wanted
  <1>4. Gentle(r)
    BY <1>2 DEF Possible, Gentle
  <1>5. Reach(r, n)
    <2> SUFFICES ASSUME NEW i \in DOMAIN r, ~(r[i].d <= n)
                 PROVE  \E j \in DOMAIN r : j < i /\ r[j].do = "add_node"
      BY DEF Reach
    <2>1. PICK j \in DOMAIN s : j < i + 1 /\ s[j].do = "add_node"
      BY <1>2 DEF Possible, Reach
    <2>2. j # 1 /\ j - 1 \in DOMAIN r /\ j - 1 < i /\ (j - 1) + 1 = j
      BY <2>1, <1>1
    <2> QED
      BY <2>1, <2>2, <1>2
  <1> QED
    BY <1>1, <1>3, <1>4, <1>5 DEF Possible, r

\* The next node is added one level below the first item, or in its place: the
\* rest is possible whatever it waits for.
LEMMA Descended ==
  ASSUME NEW s, NEW n \in Nat, s # << >>, Possible(s, n)
  PROVE  Possible(Tail(s), s[1].d + 1)
  <1> DEFINE r == Tail(s)
  <1>1. /\ IsSeq(r) /\ Len(s) \in Nat \ {0} /\ DOMAIN s = 1 .. Len(s) /\ DOMAIN r = 1 .. Len(s) - 1
        /\ \A i \in 1 .. Len(s) - 1 : r[i] = s[i + 1]
    BY Rest DEF Possible
  <1> HIDE DEF r
  <1>2. \A i \in DOMAIN r : r[i] = s[i + 1] /\ i + 1 \in DOMAIN s /\ i \in Nat /\ 1 < i + 1
    BY <1>1
  <1>3. (\A i \in DOMAIN r : r[i].d \in Nat) /\ Wanted(r)
    BY <1>2 DEF Possible, Wanted
  <1>4. Gentle(r)
    BY <1>2 DEF Possible, Gentle
  <1>5. 1 \in DOMAIN s
    BY <1>1
  <1>6. Reach(r, s[1].d + 1)
    BY <1>2, <1>5 DEF Possible, Gentle, Reach
  <1> QED
    BY <1>1, <1>3, <1>4, <1>6 DEF Possible, r

-----------------------------------------------------------------------------
(* What a function leaves to be done *)

Adds(i) == i.do = "add_node"

\* The items of a function with node n are for n, or for a node that they add
\* below it first.
Fits(s, n) == \A i \in DOMAIN s : s[i].d = n \/ (s[i].d = n + 1 /\ \E j \in DOMAIN s : j < i /\ Adds(s[j]))

Proper(s, n) == IsSeq(s) /\ Wanted(s) /\ Fits(s, n)

\* So are those behind them: a node that a adds is there when b is dealt with.
Follows(a, b, n) ==
  \A i \in DOMAIN b : \/ b[i].d = n
                      \/ b[i].d = n + 1 /\ \/ \E j \in DOMAIN a : Adds(a[j])
                                           \/ \E j \in DOMAIN b : j < i /\ Adds(b[j])

\* What a function leaves to do, behind the items of a first part.
LEMMA ProperJoined ==
  ASSUME NEW n, NEW a, NEW b, Proper(a, n), IsSeq(b), Wanted(b), Follows(a, b, n)
  PROVE  Proper(a \o b, n)
  <1> DEFINE w == a \o b
  <1>1. /\ IsSeq(w) /\ Len(a) \in Nat /\ Len(b) \in Nat
        /\ DOMAIN a = 1 .. Len(a) /\ DOMAIN b = 1 .. Len(b) /\ DOMAIN w = 1 .. Len(a) + Len(b)
        /\ \A i \in 1 .. Len(a) : w[i] = a[i]
        /\ \A i \in 1 .. Len(b) : w[Len(a) + i] = b[i]
    BY Joined DEF Proper
  <1> HIDE DEF w
  <1>2. \A i \in DOMAIN w : \/ i \in DOMAIN a /\ w[i] = a[i]
                            \/ i - Len(a) \in DOMAIN b /\ w[i] = b[i - Len(a)]
    <2> SUFFICES ASSUME NEW i \in 1 .. Len(a) + Len(b), i \notin 1 .. Len(a)
                 PROVE  i - Len(a) \in DOMAIN b /\ w[i] = b[i - Len(a)]
      BY <1>1
    <2>1. i - Len(a) \in 1 .. Len(b) /\ Len(a) + (i - Len(a)) = i
      BY <1>1
    <2> QED
      BY <2>1, <1>1
  <1>3. Wanted(w)
    BY <1>2 DEF Proper, Wanted
  <1>4. Fits(w, n)
    <2> SUFFICES ASSUME NEW i \in DOMAIN w, w[i].d # n
                 PROVE  w[i].d = n + 1 /\ \E j \in DOMAIN w : j < i /\ Adds(w[j])
      BY DEF Fits
    <2>1. CASE i \in DOMAIN a /\ w[i] = a[i]
      <3>1. w[i].d = n + 1
        BY <2>1 DEF Proper, Fits
      <3>2. PICK j \in DOMAIN a : j < i /\ Adds(a[j])
        BY <2>1 DEF Proper, Fits
      <3> QED
        BY <3>1, <3>2, <1>1
    <2>2. CASE i - Len(a) \in DOMAIN b /\ w[i] = b[i - Len(a)]
      <3>1. w[i].d = n + 1
        BY <2>2 DEF Follows
      <3>2. CASE \E j \in DOMAIN a : Adds(a[j])
        <4>1. PICK j \in DOMAIN a : Adds(a[j])
          BY <3>2
        <4>2. j \in DOMAIN w /\ j < i /\ w[j] = a[j]
          BY <2>2, <1>1
        <4> QED
          BY <3>1, <4>1, <4>2
      <3>3. CASE \E j \in DOMAIN b : j < i - Len(a) /\ Adds(b[j])
        <4>1. PICK j \in DOMAIN b : j < i - Len(a) /\ Adds(b[j])
          BY <3>3
        <4>2. Len(a) + j \in DOMAIN w /\ Len(a) + j < i /\ w[Len(a) + j] = b[j]
          BY <4>1, <1>1
        <4> QED
          BY <3>1, <4>1, <4>2
      <3> QED
        BY <2>2, <3>2, <3>3 DEF Follows
    <2> QED
      BY <1>2, <2>1, <2>2
  <1> QED
    BY <1>1, <1>3, <1>4 DEF Proper, w

-----------------------------------------------------------------------------
\* The items of a function take the place of its own.
LEMMA Replaced ==
  ASSUME NEW s, NEW a, NEW n \in Nat, s # << >>, Possible(s, n), s[1].do # "add_node",
         Proper(a, s[1].d)
  PROVE  Possible(a \o Tail(s), n)
  <1> DEFINE r == Tail(s)
             w == a \o r
             d == s[1].d
  <1>1. Possible(r, n)
    BY Dropped
  <1>2. Possible(r, d + 1)
    BY Descended
  <1>3. 1 \in DOMAIN s
    BY Rest DEF Possible
  <1>4. d \in Nat /\ d <= n
    <2>1. DOMAIN s = 1 .. Len(s) /\ Len(s) \in Nat
      BY Rest DEF Possible
    <2> QED
      BY <1>3, <2>1 DEF Possible, Reach
  <1>5. \A i \in DOMAIN r : r[i].d <= d + 1
    <2>1. DOMAIN s = 1 .. Len(s) /\ Len(s) \in Nat \ {0} /\ DOMAIN r = 1 .. Len(s) - 1
          /\ \A i \in 1 .. Len(s) - 1 : r[i] = s[i + 1]
      BY Rest DEF Possible
    <2> HIDE DEF r
    <2>2. \A i \in DOMAIN r : r[i] = s[i + 1] /\ i + 1 \in DOMAIN s /\ 1 < i + 1
      BY <2>1
    <2> QED
      BY <2>2, <1>3 DEF Possible, Gentle
  <1> HIDE DEF r, d
  <1>6. /\ IsSeq(w) /\ Len(a) \in Nat /\ Len(r) \in Nat
        /\ DOMAIN a = 1 .. Len(a) /\ DOMAIN r = 1 .. Len(r) /\ DOMAIN w = 1 .. Len(a) + Len(r)
        /\ \A i \in 1 .. Len(a) : w[i] = a[i]
        /\ \A i \in 1 .. Len(r) : w[Len(a) + i] = r[i]
    BY <1>1, Joined DEF Proper, Possible
  <1> HIDE DEF w
  <1>7. \A i \in DOMAIN w : \/ i \in DOMAIN a /\ w[i] = a[i]
                            \/ i > Len(a) /\ i - Len(a) \in DOMAIN r /\ w[i] = r[i - Len(a)]
    <2> SUFFICES ASSUME NEW i \in 1 .. Len(a) + Len(r), i \notin 1 .. Len(a)
                 PROVE  i > Len(a) /\ i - Len(a) \in DOMAIN r /\ w[i] = r[i - Len(a)]
      BY <1>6
    <2>1. i - Len(a) \in 1 .. Len(r) /\ Len(a) + (i - Len(a)) = i
      BY <1>6
    <2> QED
      BY <2>1, <1>6
  <1>a. \A i \in DOMAIN a : Good(a[i]) /\ a[i].d \in {d, d + 1}
    BY DEF Proper, Fits, Wanted, d
  <1>8. (\A i \in DOMAIN w : w[i].d \in Nat) /\ Wanted(w)
    BY <1>1, <1>4, <1>7, <1>a DEF Possible, Wanted
  <1>9. Gentle(w)
    <2> SUFFICES ASSUME NEW i \in DOMAIN w, NEW j \in DOMAIN w, i < j
                 PROVE  w[j].d <= w[i].d + 1
      BY DEF Gentle
    <2>1. CASE i \in DOMAIN a /\ w[i] = a[i]
      <3>1. w[i].d >= d /\ w[i].d \in Nat
        BY <2>1, <1>a, <1>4
      <3>2. w[j].d <= d + 1 /\ w[j].d \in Nat
        BY <1>7, <1>a, <1>5, <1>4, <1>8
      <3> QED
        BY <3>1, <3>2, <1>4
    <2>2. CASE i > Len(a) /\ i - Len(a) \in DOMAIN r /\ w[i] = r[i - Len(a)]
      <3>1. j > Len(a) /\ j - Len(a) \in DOMAIN r /\ w[j] = r[j - Len(a)] /\ i - Len(a) < j - Len(a)
        BY <2>2, <1>6, <1>7
      <3> QED
        BY <2>2, <3>1, <1>1 DEF Possible, Gentle
    <2> QED
      BY <1>7, <2>1, <2>2
  <1>10. Reach(w, n)
    <2> SUFFICES ASSUME NEW i \in DOMAIN w, ~(w[i].d <= n)
                 PROVE  \E j \in DOMAIN w : j < i /\ w[j].do = "add_node"
      BY DEF Reach
    <2>1. CASE i \in DOMAIN a /\ w[i] = a[i]
      <3>1. PICK j \in DOMAIN a : j < i /\ Adds(a[j])
        BY <2>1, <1>4 DEF Proper, Fits, d
      <3> QED
        BY <3>1, <1>6 DEF Adds
    <2>2. CASE i > Len(a) /\ i - Len(a) \in DOMAIN r /\ w[i] = r[i - Len(a)]
      <3>1. PICK j \in DOMAIN r : j < i - Len(a) /\ r[j].do = "add_node"
        BY <2>2, <1>1 DEF Possible, Reach
      <3>2. Len(a) + j \in DOMAIN w /\ Len(a) + j < i /\ w[Len(a) + j] = r[j]
        BY <3>1, <1>6
      <3> QED
        BY <3>1, <3>2
    <2> QED
      BY <1>7, <2>1, <2>2
  <1> QED
    BY <1>6, <1>8, <1>9, <1>10 DEF Possible, w, r

\* A function has done its part.
LEMMA FunctionStep ==
  ASSUME NEW f, NEW s, ParserInv, Function(f, s), f # "add_node", Proper(s, t)
  PROVE  ParserInv'
  <1>1. /\ todo # << >> /\ Head(todo).do # "add_node" /\ todo' = s \o Tail(todo)
        /\ UNCHANGED <<alphabet, line, toklast, tree, command_empty, err_occured>>
    BY DEF Function, At, Do
  <1>2. Head(todo) = todo[1]
    BY <1>1, Rest DEF ParserInv, Possible
  <1>3. depth \in Nat
    BY Rest DEF ParserInv, Preorder, depth
  <1>4. Possible(s \o Tail(todo), depth)
    BY <1>1, <1>2, <1>3, Replaced DEF ParserInv, t
  <1>5. depth' = depth
    BY <1>1 DEF depth
  <1>6. Possible(todo', depth')
    BY <1>1, <1>4, <1>5
  <1>7. LineOK' /\ Preorder(tree')
    BY <1>1 DEF ParserInv, LineOK
  <1> QED
    BY <1>6, <1>7 DEF ParserInv

-----------------------------------------------------------------------------
(* The items of the functions, one by one *)

Same(i, n) == Good(i) /\ i.d = n
Under(i, n) == Good(i) /\ (i.d = n \/ i.d = n + 1)

\* The parts of an item.
LEMMA ItemIs ==
  ASSUME NEW w, NEW d, NEW x
  PROVE  /\ Item(w, d, x).do = w /\ Item(w, d, x).d = d /\ Item(w, d, x).x = x
         /\ w \notin {"compare", "compare_keyword"} => Same(Item(w, d, x), d) /\ Under(Item(w, d + 1, x), d)
  <1>1. Item(w, d, x).do = w /\ Item(w, d, x).d = d /\ Item(w, d, x).x = x
    BY DEF Item
  <1>2. ASSUME w \notin {"compare", "compare_keyword"}
        PROVE  Same(Item(w, d, x), d) /\ Under(Item(w, d + 1, x), d)
    <2>1. Item(w, d + 1, x).do = w /\ Item(w, d + 1, x).d = d + 1
      BY DEF Item
    <2> QED
      BY <1>1, <1>2, <2>1 DEF Same, Under, Good
  <1> QED
    BY <1>1, <1>2

\* The items that call a function ...
LEMMA Calls ==
  ASSUME NEW f, f \notin {"compare", "compare_keyword"}
  PROVE  Same(call(f), t) /\ Under(below(f), t)
  BY ItemIs, Zenon DEF call, below

\* ... add a node ...
LEMMA Adding == ASSUME NEW k PROVE Same(add_node(k), t) /\ Adds(add_node(k))
  BY ItemIs DEF add_node, Same, Good, Adds

\* ... compare the look-ahead ...
LEMMA Comparing ==
  ASSUME NEW k, k # "eof"
  PROVE  Same(compare(k), t) /\ Same(compare_keyword(k), t)
  BY ItemIs DEF compare, compare_keyword, Same, Good

\* ... compare it and add a node ...
LEMMA AddingStr ==
  ASSUME NEW k
  PROVE  Same(compare_add_str(k, t), t) /\ Under(compare_add_str(k, t + 1), t)
  <1>1. "compare_add_str" \notin {"compare", "compare_keyword"}
    OBVIOUS
  <1> QED
    BY <1>1, ItemIs, Zenon DEF compare_add_str

\* ... or say an error.
LEMMA Reporting == Same(errtoken, t) /\ \A yes : Same(may_be_empty(yes), t)
  <1>1. "errtoken" \notin {"compare", "compare_keyword"} /\ "command_empty" \notin {"compare", "compare_keyword"}
    OBVIOUS
  <1> QED
    BY <1>1, ItemIs, Zenon DEF errtoken, may_be_empty

\* Bodies of no item up to eight.
LEMMA Proper0 == ASSUME NEW n PROVE Proper(<< >>, n)
  <1>1. << >> \in Seq({n}) /\ DOMAIN << >> = {}
    OBVIOUS
  <1> QED
    BY <1>1 DEF Proper, Fits, Wanted, IsSeq

LEMMA Proper1 ==
  ASSUME NEW n, NEW a,
         Same(a, n)
  PROVE  Proper(<<a>>, n)
  <1> DEFINE s == <<a>>
  <1>1. /\ s \in Seq({a}) /\ DOMAIN s = 1 .. 1
        /\ s[1] = a
    OBVIOUS
  <1> HIDE DEF s
  <1>3. Proper(s, n)
    BY <1>1 DEF Proper, Fits, Wanted, IsSeq, Same, Under
  <1> QED
    BY <1>3 DEF s

LEMMA Proper2 ==
  ASSUME NEW n, NEW a, NEW b,
         Same(a, n),
         Same(b, n) \/ (Adds(a) /\ Under(b, n))
  PROVE  Proper(<<a, b>>, n)
  <1> DEFINE s == <<a, b>>
  <1>1. /\ s \in Seq({a, b}) /\ DOMAIN s = 1 .. 2
        /\ s[1] = a /\ s[2] = b
    OBVIOUS
  <1> HIDE DEF s
  <1>2. \A i \in 1 .. 2 : i = 1 \/ i = 2
    OBVIOUS
  <1>3. Proper(s, n)
    BY <1>1, <1>2 DEF Proper, Fits, Wanted, IsSeq, Same, Under
  <1> QED
    BY <1>3 DEF s

LEMMA Proper3 ==
  ASSUME NEW n, NEW a, NEW b, NEW c,
         Same(a, n),
         Same(b, n) \/ (Adds(a) /\ Under(b, n)),
         Same(c, n) \/ ((Adds(a) \/ Adds(b)) /\ Under(c, n))
  PROVE  Proper(<<a, b, c>>, n)
  <1> DEFINE s == <<a, b, c>>
  <1>1. /\ s \in Seq({a, b, c}) /\ DOMAIN s = 1 .. 3
        /\ s[1] = a /\ s[2] = b /\ s[3] = c
    OBVIOUS
  <1> HIDE DEF s
  <1>2. \A i \in 1 .. 3 : i = 1 \/ i = 2 \/ i = 3
    OBVIOUS
  <1>3. Proper(s, n)
    BY <1>1, <1>2 DEF Proper, Fits, Wanted, IsSeq, Same, Under
  <1> QED
    BY <1>3 DEF s

LEMMA Proper4 ==
  ASSUME NEW n, NEW a, NEW b, NEW c, NEW d,
         Same(a, n),
         Same(b, n) \/ (Adds(a) /\ Under(b, n)),
         Same(c, n) \/ ((Adds(a) \/ Adds(b)) /\ Under(c, n)),
         Same(d, n) \/ ((Adds(a) \/ Adds(b)) /\ Under(d, n))
  PROVE  Proper(<<a, b, c, d>>, n)
  <1> DEFINE s == <<a, b, c, d>>
  <1>1. /\ s \in Seq({a, b, c, d}) /\ DOMAIN s = 1 .. 4
        /\ s[1] = a /\ s[2] = b /\ s[3] = c /\ s[4] = d
    OBVIOUS
  <1> HIDE DEF s
  <1>2. \A i \in 1 .. 4 : i = 1 \/ i = 2 \/ i = 3 \/ i = 4
    OBVIOUS
  <1>3. Proper(s, n)
    BY <1>1, <1>2 DEF Proper, Fits, Wanted, IsSeq, Same, Under
  <1> QED
    BY <1>3 DEF s

LEMMA Proper5 ==
  ASSUME NEW n, NEW a, NEW b, NEW c, NEW d, NEW e,
         Same(a, n),
         Same(b, n) \/ (Adds(a) /\ Under(b, n)),
         Same(c, n) \/ ((Adds(a) \/ Adds(b)) /\ Under(c, n)),
         Same(d, n) \/ ((Adds(a) \/ Adds(b)) /\ Under(d, n)),
         Same(e, n) \/ ((Adds(a) \/ Adds(b)) /\ Under(e, n))
  PROVE  Proper(<<a, b, c, d, e>>, n)
  <1> DEFINE s == <<a, b, c, d, e>>
  <1>1. /\ s \in Seq({a, b, c, d, e}) /\ DOMAIN s = 1 .. 5
        /\ s[1] = a /\ s[2] = b /\ s[3] = c /\ s[4] = d /\ s[5] = e
    OBVIOUS
  <1> HIDE DEF s
  <1>2. \A i \in 1 .. 5 : i = 1 \/ i = 2 \/ i = 3 \/ i = 4 \/ i = 5
    OBVIOUS
  <1>3. Proper(s, n)
    BY <1>1, <1>2 DEF Proper, Fits, Wanted, IsSeq, Same, Under
  <1> QED
    BY <1>3 DEF s

LEMMA Proper6 ==
  ASSUME NEW n, NEW a, NEW b, NEW c, NEW d, NEW e, NEW f,
         Same(a, n),
         Same(b, n) \/ (Adds(a) /\ Under(b, n)),
         Same(c, n) \/ ((Adds(a) \/ Adds(b)) /\ Under(c, n)),
         Same(d, n) \/ ((Adds(a) \/ Adds(b)) /\ Under(d, n)),
         Same(e, n) \/ ((Adds(a) \/ Adds(b)) /\ Under(e, n)),
         Same(f, n) \/ ((Adds(a) \/ Adds(b)) /\ Under(f, n))
  PROVE  Proper(<<a, b, c, d, e, f>>, n)
  <1> DEFINE s == <<a, b, c, d, e, f>>
  <1>1. /\ s \in Seq({a, b, c, d, e, f}) /\ DOMAIN s = 1 .. 6
        /\ s[1] = a /\ s[2] = b /\ s[3] = c /\ s[4] = d /\ s[5] = e /\ s[6] = f
    OBVIOUS
  <1> HIDE DEF s
  <1>2. \A i \in 1 .. 6 : i = 1 \/ i = 2 \/ i = 3 \/ i = 4 \/ i = 5 \/ i = 6
    OBVIOUS
  <1>3. Proper(s, n)
    BY <1>1, <1>2 DEF Proper, Fits, Wanted, IsSeq, Same, Under
  <1> QED
    BY <1>3 DEF s

LEMMA Proper7 ==
  ASSUME NEW n, NEW a, NEW b, NEW c, NEW d, NEW e, NEW f, NEW g,
         Same(a, n),
         Same(b, n) \/ (Adds(a) /\ Under(b, n)),
         Same(c, n) \/ ((Adds(a) \/ Adds(b)) /\ Under(c, n)),
         Same(d, n) \/ ((Adds(a) \/ Adds(b)) /\ Under(d, n)),
         Same(e, n) \/ ((Adds(a) \/ Adds(b)) /\ Under(e, n)),
         Same(f, n) \/ ((Adds(a) \/ Adds(b)) /\ Under(f, n)),
         Same(g, n) \/ ((Adds(a) \/ Adds(b)) /\ Under(g, n))
  PROVE  Proper(<<a, b, c, d, e, f, g>>, n)
  <1> DEFINE s == <<a, b, c, d, e, f, g>>
  <1>1. /\ s \in Seq({a, b, c, d, e, f, g}) /\ DOMAIN s = 1 .. 7
        /\ s[1] = a /\ s[2] = b /\ s[3] = c /\ s[4] = d /\ s[5] = e /\ s[6] = f /\ s[7] = g
    OBVIOUS
  <1> HIDE DEF s
  <1>2. \A i \in 1 .. 7 : i = 1 \/ i = 2 \/ i = 3 \/ i = 4 \/ i = 5 \/ i = 6 \/ i = 7
    OBVIOUS
  <1>3. Proper(s, n)
    BY <1>1, <1>2 DEF Proper, Fits, Wanted, IsSeq, Same, Under
  <1> QED
    BY <1>3 DEF s

LEMMA Proper8 ==
  ASSUME NEW n, NEW a, NEW b, NEW c, NEW d, NEW e, NEW f, NEW g, NEW h,
         Same(a, n),
         Same(b, n) \/ (Adds(a) /\ Under(b, n)),
         Same(c, n) \/ ((Adds(a) \/ Adds(b)) /\ Under(c, n)),
         Same(d, n) \/ ((Adds(a) \/ Adds(b)) /\ Under(d, n)),
         Same(e, n) \/ ((Adds(a) \/ Adds(b)) /\ Under(e, n)),
         Same(f, n) \/ ((Adds(a) \/ Adds(b)) /\ Under(f, n)),
         Same(g, n) \/ ((Adds(a) \/ Adds(b)) /\ Under(g, n)),
         Same(h, n) \/ ((Adds(a) \/ Adds(b)) /\ Under(h, n))
  PROVE  Proper(<<a, b, c, d, e, f, g, h>>, n)
  <1> DEFINE s == <<a, b, c, d, e, f, g, h>>
  <1>1. /\ s \in Seq({a, b, c, d, e, f, g, h}) /\ DOMAIN s = 1 .. 8
        /\ s[1] = a /\ s[2] = b /\ s[3] = c /\ s[4] = d /\ s[5] = e /\ s[6] = f /\ s[7] = g /\ s[8] = h
    OBVIOUS
  <1> HIDE DEF s
  <1>2. \A i \in 1 .. 8 : i = 1 \/ i = 2 \/ i = 3 \/ i = 4 \/ i = 5 \/ i = 6 \/ i = 7 \/ i = 8
    OBVIOUS
  <1>3. Proper(s, n)
    BY <1>1, <1>2 DEF Proper, Fits, Wanted, IsSeq, Same, Under
  <1> QED
    BY <1>3 DEF s

\* A body that is one of two.
LEMMA EitherOK ==
  ASSUME NEW n, NEW toks, NEW yes, NEW no,
         toklast \in toks => Proper(yes, n), toklast \notin toks => Proper(no, n)
  PROVE  Proper(Either(toks, yes, no), n)
  BY DEF Either

\* Two bodies, one behind the other.
LEMMA Both == ASSUME NEW n, NEW a, NEW b, Proper(a, n), Proper(b, n) PROVE Proper(a \o b, n)
  <1>1. IsSeq(b) /\ Wanted(b)
    BY DEF Proper
  <1>2. Follows(a, b, n)
    BY DEF Proper, Fits, Follows
  <1> QED
    BY <1>1, <1>2, ProperJoined

\* Behind a node that is added first everything may be for that node.
Row(s, n) == IsSeq(s) /\ \A i \in DOMAIN s : Under(s[i], n)

\* Items for the node or the one below it.
LEMMA EitherRow ==
  ASSUME NEW n, NEW toks, NEW yes, NEW no, Row(yes, n), Row(no, n)
  PROVE  Row(Either(toks, yes, no), n)
  BY DEF Either

\* ... of one item and of two.
LEMMA RowOf ==
  ASSUME NEW n
  PROVE  /\ Row(<< >>, n)
         /\ \A a : Under(a, n) => Row(<<a>>, n)
         /\ \A a, b : Under(a, n) /\ Under(b, n) => Row(<<a, b>>, n)
  <1>1. Row(<< >>, n)
    <2>1. << >> \in Seq({n}) /\ DOMAIN << >> = {}
      OBVIOUS
    <2> QED
      BY <2>1 DEF Row, IsSeq
  <1>2. ASSUME NEW a, Under(a, n) PROVE Row(<<a>>, n)
    <2>1. <<a>> \in Seq({a}) /\ DOMAIN <<a>> = {1} /\ <<a>>[1] = a
      OBVIOUS
    <2> QED
      BY <1>2, <2>1 DEF Row, IsSeq
  <1>3. ASSUME NEW a, NEW b, Under(a, n), Under(b, n) PROVE Row(<<a, b>>, n)
    <2>1. <<a, b>> \in Seq({a, b}) /\ DOMAIN <<a, b>> = {1, 2} /\ <<a, b>>[1] = a /\ <<a, b>>[2] = b
      OBVIOUS
    <2> QED
      BY <1>3, <2>1 DEF Row, IsSeq
  <1> QED
    BY <1>1, <1>2, <1>3

\* A body that begins with the node it adds.
LEMMA Opened ==
  ASSUME NEW n, NEW a, NEW s, Same(a, n), Adds(a), Row(s, n)
  PROVE  Proper(<<a>> \o s, n)
  <1>1. Proper(<<a>>, n)
    BY Proper1
  <1>2. \E j \in DOMAIN <<a>> : Adds(<<a>>[j])
    <2>1. 1 \in DOMAIN <<a>> /\ <<a>>[1] = a
      OBVIOUS
    <2> QED
      BY <2>1
  <1>3. IsSeq(s) /\ Wanted(s) /\ \A i \in DOMAIN s : s[i].d = n \/ s[i].d = n + 1
    BY DEF Row, Wanted, Under
  <1> DEFINE b == <<a>>
  <1> HIDE DEF b
  <1>4. Proper(b, n) /\ \E j \in DOMAIN b : Adds(b[j])
    BY <1>1, <1>2 DEF b
  <1>5. Proper(b \o s, n)
    BY <1>3, <1>4, ProperJoined DEF Follows
  <1> QED
    BY <1>5 DEF b

-----------------------------------------------------------------------------
(* The functions *)

\* Each function does what it is called for, by its alternatives.
LEMMA ListsStep == ASSUME ParserInv, Lists PROVE ParserInv'
  <1>1. CASE complete_command
    BY <1>1, Calls, Proper0, Proper2, EitherOK, FunctionStep DEF complete_command
  <1>2. CASE complete_command_rest
    BY <1>2, Calls, Proper0, Proper1, EitherOK, FunctionStep DEF complete_command_rest
  <1>3. CASE list
    BY <1>3, Calls, Adding, Proper3, FunctionStep DEF list
  <1>4. CASE list_rest
    BY <1>4, Calls, Reporting, Proper0, Proper5, EitherOK, FunctionStep DEF list_rest
  <1>5. CASE and_or
    BY <1>5, Calls, Adding, Proper3, FunctionStep DEF and_or
  <1>6. CASE and_or_rest
    BY <1>6, Calls, Adding, Comparing, Proper0, Proper5, EitherOK, FunctionStep DEF and_or_rest
  <1>7. CASE pipeline
    BY <1>7, Calls, Adding, Comparing, Proper1, Proper3, EitherOK, FunctionStep DEF pipeline
  <1>8. CASE pipe_sequence
    BY <1>8, Calls, Adding, Proper3, FunctionStep DEF pipe_sequence
  <1>9. CASE pipe_sequence_rest
    BY <1>9, Calls, Comparing, Proper0, Proper4, EitherOK, FunctionStep DEF pipe_sequence_rest
  <1> QED
    BY <1>1, <1>2, <1>3, <1>4, <1>5, <1>6, <1>7, <1>8, <1>9 DEF Lists

LEMMA CommandsStep == ASSUME ParserInv, Commands PROVE ParserInv'
  <1>1. CASE command
    BY <1>1, Calls, Adding, Reporting, Proper0, Proper1, Proper2, Both, Opened, RowOf,
       FunctionStep DEF command
  <1>2. CASE command_rest
    BY <1>2, Calls, Proper0, Proper1, EitherOK, FunctionStep DEF command_rest
  <1>3. CASE compound_command
    BY <1>3, Calls, Reporting, Proper1, FunctionStep DEF compound_command
  <1>4. CASE subshell
    BY <1>4, Calls, Adding, Comparing, Proper4, FunctionStep DEF subshell
  <1>5. CASE compound_list
    BY <1>5, Calls, Adding, Proper3, FunctionStep DEF compound_list
  <1>6. CASE compound_list_body
    BY <1>6, Calls, Reporting, Proper1, Proper2, EitherOK, FunctionStep DEF compound_list_body
  <1>7. CASE compound_list_rest
    BY <1>7, Calls, Proper0, Proper1, EitherOK, FunctionStep DEF compound_list_rest
  <1>8. CASE term
    BY <1>8, Calls, Proper2, FunctionStep DEF term
  <1>9. CASE term_rest
    BY <1>9, Calls, Proper0, Proper3, EitherOK, FunctionStep DEF term_rest
  <1>10. CASE brace_group
    BY <1>10, Calls, Comparing, Proper3, FunctionStep DEF brace_group
  <1>11. CASE do_group
    BY <1>11, Calls, Comparing, Proper3, FunctionStep DEF do_group
  <1>12. CASE while_clause
    BY <1>12, Calls, Adding, Comparing, Proper4, FunctionStep DEF while_clause
  <1>13. CASE until_clause
    BY <1>13, Calls, Adding, Comparing, Proper4, FunctionStep DEF until_clause
  <1> QED
    BY <1>1, <1>2, <1>3, <1>4, <1>5, <1>6, <1>7, <1>8, <1>9, <1>10, <1>11, <1>12, <1>13
       DEF Commands

LEMMA ClausesStep == ASSUME ParserInv, Clauses PROVE ParserInv'
  <1>1. CASE for_clause
    BY <1>1, Calls, Adding, Comparing, Proper5, FunctionStep DEF for_clause
  <1>2. CASE for_clause_rest_1
    BY <1>2, Calls, Reporting, Proper1, Proper2, EitherOK, FunctionStep DEF for_clause_rest_1
  <1>3. CASE for_clause_rest_2
    BY <1>3, Calls, Reporting, Proper1, Proper2, EitherOK, Both, Opened, RowOf, FunctionStep
       DEF for_clause_rest_2
  <1>4. CASE name
    <2> DEFINE items == Either({"word"}, << >>, <<errtoken>>) \o <<compare_add_str("name", t)>>
    <2>1. Proper(items, t)
      BY AddingStr, Reporting, Proper0, Proper1, EitherOK, Both
    <2> HIDE DEF items
    <2>2. Function("name", items) \/ Function("fname", items)
      BY <1>4 DEF name, Function, items
    <2> QED
      BY <2>1, <2>2, FunctionStep
  <1>5. CASE in
    BY <1>5, Adding, Comparing, Proper2, FunctionStep DEF in
  <1>6. CASE wordlist
    BY <1>6, Calls, AddingStr, Proper2, FunctionStep DEF wordlist, word
  <1>7. CASE wordlist_rest
    BY <1>7, Calls, AddingStr, Proper0, Proper2, EitherOK, FunctionStep DEF wordlist_rest, word
  <1>8. CASE case_clause
    BY <1>8, Calls, Adding, Comparing, AddingStr, Proper8, FunctionStep DEF case_clause
  <1>9. CASE case_list
    BY <1>9, Calls, Adding, Proper0, Proper5, EitherOK, FunctionStep DEF case_list
  <1>10. CASE case_list_rest
    BY <1>10, Calls, Comparing, Proper1, Proper3, EitherOK, FunctionStep DEF case_list_rest
  <1>11. CASE case_item_start
    BY <1>11, Calls, Comparing, Reporting, Proper1, Proper2, Proper3, EitherOK, FunctionStep
       DEF case_item_start
  <1>12. CASE case_item_body
    BY <1>12, Calls, Proper0, Proper1, Proper2, EitherOK, FunctionStep DEF case_item_body
  <1>13. CASE pattern
    BY <1>13, Calls, Adding, AddingStr, Reporting, Proper1, Proper3, EitherOK, FunctionStep
       DEF pattern
  <1>14. CASE pattern_rest
    BY <1>14, Calls, Comparing, AddingStr, Proper0, Proper3, EitherOK, FunctionStep
       DEF pattern_rest, word
  <1>15. CASE if_clause
    BY <1>15, Calls, Adding, Comparing, Proper6, FunctionStep DEF if_clause
  <1>16. CASE if_clause_rest
    BY <1>16, Calls, Comparing, Reporting, Proper1, Proper2, EitherOK, FunctionStep
       DEF if_clause_rest
  <1>17. CASE else_part
    BY <1>17, Calls, Adding, Comparing, Proper0, Proper3, Proper6, FunctionStep DEF else_part
  <1>18. CASE function_definition
    BY <1>18, Calls, Adding, Comparing, Proper7, FunctionStep DEF function_definition
  <1>19. CASE function_body
    BY <1>19, Calls, Proper2, FunctionStep DEF function_body
  <1> QED
    BY <1>1, <1>2, <1>3, <1>4, <1>5, <1>6, <1>7, <1>8, <1>9, <1>10, <1>11, <1>12, <1>13, <1>14,
       <1>15, <1>16, <1>17, <1>18, <1>19 DEF Clauses

LEMMA SimpleStep == ASSUME ParserInv, Simple PROVE ParserInv'
  <1>1. CASE simple_command
    <2> DEFINE behind ==
                 Either(Redirects \cup {"assign"}, <<below("cmd_prefix"), below("simple_command_rest_1")>>,
                   Either(Words, <<below("cmd_name"), below("simple_command_rest_2")>>, <<errtoken>>))
    <2>1. /\ Under(below("cmd_prefix"), t) /\ Under(below("simple_command_rest_1"), t)
          /\ Under(below("cmd_name"), t) /\ Under(below("simple_command_rest_2"), t)
      BY Calls
    <2>2. Under(errtoken, t)
      BY Reporting DEF Same, Under
    <2>3. Row(behind, t)
      BY <2>1, <2>2, RowOf, EitherRow
    <2> HIDE DEF behind
    <2>4. Proper(<<add_node("simple")>> \o behind, t)
      BY <2>3, Adding, Opened
    <2> QED
      BY <1>1, <2>4, FunctionStep DEF simple_command, behind
  <1>2. CASE simple_command_rest_1
    BY <1>2, Calls, Proper0, Proper2, EitherOK, FunctionStep DEF simple_command_rest_1
  <1>3. CASE simple_command_rest_2
    BY <1>3, Calls, Proper0, Proper1, EitherOK, FunctionStep DEF simple_command_rest_2
  <1>4. CASE cmd_name
    BY <1>4, AddingStr, Proper1, FunctionStep DEF cmd_name, word
  <1>5. CASE cmd_prefix
    BY <1>5, Calls, AddingStr, Reporting, Proper0, Proper1, Proper2, EitherOK, FunctionStep
       DEF cmd_prefix
  <1>6. CASE cmd_suffix
    BY <1>6, Calls, AddingStr, Reporting, Proper0, Proper1, Proper2, EitherOK, FunctionStep
       DEF cmd_suffix, word
  <1>7. CASE redirection_list
    BY <1>7, Calls, Proper0, Proper2, EitherOK, FunctionStep DEF redirection_list
  <1>8. CASE io_redirect
    <2> DEFINE behind ==
                 Either({"ionum"}, <<compare_add_str("io number", t + 1), below("io_redirect_rest")>>,
                   <<below("io_redirect_rest")>>)
    <2>1. Under(compare_add_str("io number", t + 1), t) /\ Under(below("io_redirect_rest"), t)
      BY Calls, AddingStr
    <2>2. Row(behind, t)
      BY <2>1, RowOf, EitherRow
    <2> HIDE DEF behind
    <2>3. Proper(<<add_node("redirect")>> \o behind, t)
      BY <2>2, Adding, Opened
    <2> QED
      BY <1>8, <2>3, FunctionStep DEF io_redirect, behind
  <1>9. CASE io_redirect_rest
    BY <1>9, Calls, Reporting, Proper1, EitherOK, FunctionStep DEF io_redirect_rest
  <1>10. CASE io_file
    BY <1>10, Adding, Comparing, AddingStr, Proper1, Proper2, EitherOK, Both, Opened, RowOf,
       FunctionStep DEF io_file
  <1>11. CASE io_here
    BY <1>11, Adding, Comparing, Proper2, FunctionStep DEF io_here
  <1> QED
    BY <1>1, <1>2, <1>3, <1>4, <1>5, <1>6, <1>7, <1>8, <1>9, <1>10, <1>11 DEF Simple

LEMMA BreaksStep == ASSUME ParserInv, Breaks PROVE ParserInv'
  <1>1. CASE newline_list
    BY <1>1, Calls, Comparing, Proper2, FunctionStep DEF newline_list
  <1>2. CASE linebreak
    BY <1>2, Calls, Proper0, Proper1, EitherOK, FunctionStep DEF linebreak
  <1>3. CASE separator_op
    BY <1>3, Adding, Comparing, Reporting, Proper1, Proper2, EitherOK, FunctionStep
       DEF separator_op
  <1>4. CASE separator
    BY <1>4, Calls, Reporting, Proper1, Proper2, EitherOK, FunctionStep DEF separator
  <1>5. CASE sequential_sep
    BY <1>5, Calls, Comparing, Reporting, Proper1, Proper2, EitherOK, FunctionStep
       DEF sequential_sep
  <1> QED
    BY <1>1, <1>2, <1>3, <1>4, <1>5 DEF Breaks

-----------------------------------------------------------------------------
(* The macros *)

\* The token behind one that is taken is of the alphabet, or ends the line; the
\* end of the line is never taken.
LEMMA EatOK ==
  ASSUME LineOK, Eat, toklast # "eof"
  PROVE  /\ line' \in Seq(Tokens \cup {"newline"})
         /\ toklast' \in DOMAIN alphabet.after \cup {"newline", "eof"}
  <1>1. /\ DOMAIN alphabet.after \subseteq Tokens
        /\ \A tok \in DOMAIN alphabet.after : alphabet.after[tok] \subseteq DOMAIN alphabet.after
    BY AlphabetsAssumption DEF LineOK
  <1>2. toklast \in Tokens \cup {"newline"}
    BY <1>1 DEF LineOK
  <1>3. line' \in Seq(Tokens \cup {"newline"})
    BY <1>2 DEF LineOK, Eat
  <1>4. toklast' \in Following(line', toklast, err_occured)
    BY DEF Eat
  <1>5. toklast # "newline" => toklast \in DOMAIN alphabet.after
    BY DEF LineOK
  <1> QED
    BY <1>1, <1>3, <1>4, <1>5 DEF Following

\* An item that adds a node is done.
LEMMA AddedOK ==
  ASSUME NEW s, NEW e, Preorder(s), e.d \in 1 .. s[Len(s)].d + 1
  PROVE  Preorder(Append(s, e)) /\ Append(s, e)[Len(Append(s, e))].d = e.d
  <1>1. PICK S : s \in Seq(S)
    BY DEF Preorder, IsSeq
  <1> DEFINE w == Append(s, e)
  <1>2. Len(s) \in Nat \ {0} /\ DOMAIN s = 1 .. Len(s)
    BY Rest DEF Preorder
  <1>3. s \in Seq(S \cup {e})
    BY <1>1, SeqMonotonic
  <1>4. /\ w \in Seq(S \cup {e}) /\ Len(w) = Len(s) + 1
        /\ \A i \in 1 .. Len(s) : w[i] = s[i]
        /\ w[Len(s) + 1] = e
    BY <1>3, AppendProperties
  <1>5. DOMAIN w = 1 .. Len(s) + 1
    BY <1>4, LenProperties
  <1> HIDE DEF w
  <1>6. w # << >> /\ w[1] = Root
    BY <1>2, <1>4 DEF Preorder
  <1>7. \A i \in DOMAIN w : w[i].d \in Nat
    BY <1>2, <1>4, <1>5 DEF Preorder
  <1>8. ASSUME NEW i \in 2 .. Len(w) PROVE w[i].d \in 1 .. w[i - 1].d + 1
    <2>1. CASE i = Len(s) + 1
      BY <2>1, <1>2, <1>4
    <2>2. CASE i \in 2 .. Len(s)
      <3>1. i \in 1 .. Len(s) /\ i - 1 \in 1 .. Len(s)
        BY <2>2, <1>2
      <3>2. w[i] = s[i] /\ w[i - 1] = s[i - 1]
        BY <1>4, <3>1
      <3>3. s[i].d \in 1 .. s[i - 1].d + 1
        BY <2>2 DEF Preorder
      <3> QED
        BY <3>2, <3>3
    <2> QED
      BY <2>1, <2>2, <1>2, <1>4
  <1> QED
    BY <1>4, <1>6, <1>7, <1>8 DEF Preorder, IsSeq, w

\* The first of what is to be done finds its node in the rightmost branch.
LEMMA NodeThere ==
  ASSUME ParserInv, todo # << >>
  PROVE  /\ Head(todo) = todo[1] /\ t = todo[1].d /\ t \in Nat /\ depth \in Nat /\ t <= depth
         /\ Good(todo[1])
  <1>1. Head(todo) = todo[1] /\ 1 \in DOMAIN todo /\ DOMAIN todo = 1 .. Len(todo) /\ Len(todo) \in Nat
    BY Rest DEF ParserInv, Possible
  <1>2. depth \in Nat
    BY Rest DEF ParserInv, Preorder, depth
  <1> QED
    BY <1>1, <1>2 DEF ParserInv, Possible, Reach, Wanted, t

\* ... and so does each macro.
LEMMA MacrosStep == ASSUME ParserInv, Macros PROVE ParserInv'
  <1>0. todo # << >> /\ todo' = Tail(todo) /\ UNCHANGED alphabet
    BY DEF Macros, AddNode, CommandEmpty, ErrToken, Compare, CompareAddStr, At
  <1>1. /\ Head(todo) = todo[1] /\ t = todo[1].d /\ t \in Nat /\ depth \in Nat /\ t <= depth
        /\ Good(todo[1])
    BY <1>0, NodeThere
  <1>2. Possible(Tail(todo), t + 1)
    BY <1>0, <1>1, Descended DEF ParserInv
  <1>3. todo[1].do # "add_node" => Possible(Tail(todo), depth)
    BY <1>0, <1>1, Dropped DEF ParserInv
  <1>a. ASSUME NEW e, e.d = t + 1, tree' = Append(tree, e)
        PROVE  Preorder(tree') /\ Possible(todo', depth')
    <2>1. e.d \in 1 .. tree[Len(tree)].d + 1
      BY <1>1, <1>a DEF depth
    <2>2. Preorder(tree') /\ tree'[Len(tree')].d = e.d
      BY <2>1, <1>a, AddedOK DEF ParserInv
    <2> QED
      BY <2>2, <1>a, <1>0, <1>2 DEF depth
  <1>b. ASSUME UNCHANGED tree, todo[1].do # "add_node"
        PROVE  Preorder(tree') /\ Possible(todo', depth')
    <2>1. depth' = depth
      BY <1>b DEF depth
    <2> QED
      BY <2>1, <1>b, <1>0, <1>3 DEF ParserInv
  <1>4. CASE AddNode
    <2>1. Preorder(tree') /\ Possible(todo', depth')
      BY <1>4, <1>a DEF AddNode, Added
    <2> QED
      BY <2>1, <1>4 DEF AddNode, ParserInv, LineOK
  <1>5. CASE CommandEmpty
    <2>1. Preorder(tree') /\ Possible(todo', depth')
      BY <1>5, <1>1, <1>b DEF CommandEmpty, At
    <2> QED
      BY <2>1, <1>5 DEF CommandEmpty, ParserInv, LineOK
  <1>6. CASE ErrToken
    <2>1. Preorder(tree') /\ Possible(todo', depth')
      BY <1>6, <1>1, <1>b DEF ErrToken, At
    <2> QED
      BY <2>1, <1>6 DEF ErrToken, Error, ParserInv, LineOK
  <1>7. CASE Compare
    <2>1. Preorder(tree') /\ Possible(todo', depth')
      BY <1>7, <1>1, <1>b DEF Compare, At
    <2>2. command_empty' = command_empty /\ err_occured' \in BOOLEAN
      BY <1>7 DEF Compare, Error, ParserInv, LineOK
    <2>3. CASE toklast = Head(todo).x
      <3>1. toklast # "eof"
        BY <2>3, <1>7, <1>1 DEF Compare, At, Good
      <3>2. Eat
        BY <2>3, <1>7 DEF Compare
      <3> QED
        BY <2>1, <2>2, <3>1, <3>2, <1>0, EatOK DEF ParserInv, LineOK
    <2>4. CASE toklast # Head(todo).x
      BY <2>1, <2>2, <2>4, <1>0, <1>7 DEF Compare, ParserInv, LineOK
    <2> QED
      BY <2>3, <2>4
  <1>8. CASE CompareAddStr
    <2> DEFINE k == Head(todo).x
               wanted == CASE k = "assignment" -> {"assign"} [] k = "io number" -> {"ionum"}
                           [] OTHER -> Words
    <2>1. "eof" \notin wanted
      BY DEF Words, Keywords
    <2>2. command_empty' = command_empty /\ err_occured' \in BOOLEAN
      BY <1>8 DEF CompareAddStr, Error, ParserInv, LineOK
    <2>3. CASE toklast \in wanted
      <3>1. toklast # "eof" /\ Eat /\ Added(k, t + 1, toklast)
        BY <2>1, <2>3, <1>8 DEF CompareAddStr
      <3>2. Preorder(tree') /\ Possible(todo', depth')
        BY <3>1, <1>a DEF Added
      <3> QED
        BY <2>2, <3>1, <3>2, <1>0, EatOK DEF ParserInv, LineOK
    <2>4. CASE toklast \notin wanted
      <3>1. UNCHANGED <<line, toklast, tree>>
        BY <2>4, <1>8 DEF CompareAddStr
      <3>2. Preorder(tree') /\ Possible(todo', depth')
        BY <3>1, <1>8, <1>1, <1>b DEF CompareAddStr, At
      <3> QED
        BY <2>2, <3>1, <3>2, <1>0 DEF ParserInv, LineOK
    <2> QED
      BY <2>3, <2>4
  <1> QED
    BY <1>4, <1>5, <1>6, <1>7, <1>8 DEF Macros

-----------------------------------------------------------------------------
\* At the start there is the root and one function to be called.
LEMMA InitOK == Init => ParserInv
  <1> SUFFICES ASSUME Init PROVE ParserInv
    OBVIOUS
  <1>0. /\ alphabet \in Alphabets /\ line = << >> /\ tree = <<Root>>
        /\ toklast \in DOMAIN alphabet.after \cup {"newline", "eof"}
        /\ command_empty = FALSE /\ err_occured = FALSE
    BY Zenon DEF Init
  <1>1. tree \in Seq({Root}) /\ Len(tree) = 1 /\ tree[1] = Root /\ DOMAIN tree = {1} /\ tree # << >>
    BY <1>0
  <1>2. Root.d = 0
    BY DEF Root
  <1>3. Preorder(tree) /\ depth = 0
    BY <1>1, <1>2 DEF Preorder, IsSeq, depth
  <1> DEFINE e == Item("complete_command", 0, "")
  <1>4. e.do = "complete_command" /\ e.d = 0
    <2>1. \A x : Item("complete_command", 0, x).do = "complete_command" /\ Item("complete_command", 0, x).d = 0
      BY ItemIs
    <2> QED
      BY <2>1, Zenon
  <1>5. todo = <<e>>
    BY DEF Init
  <1> HIDE DEF e
  <1>6. todo \in Seq({e}) /\ DOMAIN todo = {1} /\ todo[1] = e
    BY <1>5
  <1>7. Possible(todo, depth)
    BY <1>3, <1>4, <1>6 DEF Possible, IsSeq, Wanted, Good, Gentle, Reach
  <1>8. LineOK
    <2>1. line \in Seq(Tokens \cup {"newline"})
      BY <1>0, EmptySeq
    <2> QED
      BY <2>1, <1>0, Zenon DEF LineOK
  <1> QED
    BY <1>3, <1>7, <1>8 DEF ParserInv

\* Every step keeps the invariant, and so does none.
LEMMA NextOK == ParserInv /\ [Next]_vars => ParserInv'
  <1> SUFFICES ASSUME ParserInv, [Next]_vars PROVE ParserInv'
    OBVIOUS
  <1>1. CASE Next
    BY <1>1, MacrosStep, ListsStep, CommandsStep, ClausesStep, SimpleStep, BreaksStep DEF Next
  <1>2. CASE UNCHANGED vars
    BY <1>2 DEF vars, ParserInv, LineOK, Preorder, Possible, Wanted, Good, Gentle, Reach, depth
  <1> QED
    BY <1>1, <1>2

\* On every line over every alphabet the functions of grammar.c compare the
\* look-ahead with real tokens only, and each macro finds the node it adds to
\* in the rightmost branch of the tree.
THEOREM Parsing == Spec => []ParserInv
  BY InitOK, NextOK, PTL DEF Spec

\* tree_add_subnode gets a node that is there from every call: the nodes are a
\* preorder in which one is at most a level below the one in front of it.
THEOREM ParserTypes == Spec => []TypeOK
  <1>1. ParserInv => TypeOK
    <2> SUFFICES ASSUME ParserInv PROVE TypeOK
      OBVIOUS
    <2>1. toklast \in Tokens \cup {"newline", "eof", "null"}
      BY AlphabetsAssumption DEF ParserInv, LineOK
    <2>2. /\ \A i \in DOMAIN todo : todo[i].d \in Nat
          /\ tree[1] = Root /\ \A i \in 2 .. Len(tree) : tree[i].d \in 1 .. tree[i - 1].d + 1
      BY DEF ParserInv, Possible, Preorder
    <2> QED
      BY <2>1, <2>2 DEF ParserInv, LineOK, TypeOK
  <1> QED
    BY <1>1, Parsing, PTL

\* No function of grammar.c takes T_EOF from the queue, on whatever line: what
\* toklast->tok is read through is never the NULL of an empty queue.
THEOREM EndNotTaken == Spec => []NeverPastEnd
  <1>1. ParserInv => NeverPastEnd
    <2> SUFFICES ASSUME ParserInv PROVE NeverPastEnd
      OBVIOUS
    <2>1. toklast \in Tokens \cup {"newline", "eof"}
      BY AlphabetsAssumption DEF ParserInv, LineOK
    <2>2. "null" \notin Tokens \cup {"newline", "eof"}
      BY DEF Tokens, Words, Keywords, Redirects, FileOps
    <2> QED
      BY <2>1, <2>2 DEF NeverPastEnd
  <1> QED
    BY <1>1, Parsing, PTL

-----------------------------------------------------------------------------
(* Places *)

\* A list with one more item behind it.
LEMMA LastOf ==
  ASSUME NEW s, IsSeq(s), NEW x
  PROVE  LET w == Append(s, x) IN
         /\ IsSeq(w) /\ Len(s) \in Nat /\ DOMAIN s = 1 .. Len(s)
         /\ Len(w) = Len(s) + 1 /\ DOMAIN w = 1 .. Len(s) + 1
         /\ \A i \in 1 .. Len(s) : w[i] = s[i]
         /\ w[Len(s) + 1] = x /\ w # << >>
  <1>1. PICK S : s \in Seq(S)
    BY DEF IsSeq
  <1>2. s \in Seq(S \cup {x}) /\ x \in S \cup {x}
    BY <1>1, SeqMonotonic
  <1> DEFINE w == Append(s, x)
  <1>3. /\ w \in Seq(S \cup {x}) /\ Len(w) = Len(s) + 1
        /\ \A i \in 1 .. Len(s) : w[i] = s[i]
        /\ w[Len(s) + 1] = x
    BY <1>2, AppendProperties
  <1>4. Len(s) \in Nat /\ DOMAIN s = 1 .. Len(s) /\ DOMAIN w = 1 .. Len(s) + 1
    BY <1>2, <1>3, LenProperties
  <1> HIDE DEF w
  <1>5. w # << >>
    BY <1>3, <1>4, EmptySeq
  <1> QED
    BY <1>3, <1>4, <1>5 DEF IsSeq, w

\* A list of one item with one more ...
LEMMA AppendedTo1 == ASSUME NEW u, NEW x PROVE Append(<<u>>, x) = <<u, x>>
  <1> DEFINE a == <<u>>
             b == <<u, x>>
  <1>1. a \in Seq({u, x}) /\ x \in {u, x} /\ Len(a) = 1 /\ a[1] = u
    OBVIOUS
  <1>2. b \in Seq({u, x}) /\ Len(b) = 2 /\ b[1] = u /\ b[2] = x
    OBVIOUS
  <1>3. Append(a, x) \in Seq({u, x}) /\ Len(Append(a, x)) = 2 /\ Append(a, x)[1] = u /\ Append(a, x)[2] = x
    BY <1>1, AppendProperties
  <1> HIDE DEF a, b
  <1>4. \A i \in 1 .. 2 : i = 1 \/ i = 2
    OBVIOUS
  <1>5. Append(a, x) = b
    BY <1>2, <1>3, <1>4, SeqEqual
  <1> QED
    BY <1>5 DEF a, b

\* ... and of two with a third.
LEMMA AppendedTo2 == ASSUME NEW u, NEW v, NEW x PROVE Append(<<u, v>>, x) = <<u, v, x>>
  <1> DEFINE a == <<u, v>>
             b == <<u, v, x>>
  <1>1. a \in Seq({u, v, x}) /\ x \in {u, v, x} /\ Len(a) = 2 /\ a[1] = u /\ a[2] = v
    OBVIOUS
  <1>2. b \in Seq({u, v, x}) /\ Len(b) = 3 /\ b[1] = u /\ b[2] = v /\ b[3] = x
    OBVIOUS
  <1>3. /\ Append(a, x) \in Seq({u, v, x}) /\ Len(Append(a, x)) = 3
        /\ Append(a, x)[1] = u /\ Append(a, x)[2] = v /\ Append(a, x)[3] = x
    BY <1>1, AppendProperties
  <1> HIDE DEF a, b
  <1>4. \A i \in 1 .. 3 : i = 1 \/ i = 2 \/ i = 3
    OBVIOUS
  <1>5. Append(a, x) = b
    BY <1>2, <1>3, <1>4, SeqEqual
  <1> QED
    BY <1>5 DEF a, b

\* A node that can be left at its place has subnodes that can be executed.
LEMMA HoldsFinal ==
  ASSUME NEW a, NEW k, NEW ks, IsSeq(ks), Holds(a, k, ks), Final(a)
  PROVE  WellFormed(k, ks)
  <1>1. CASE a = None
    BY <1>1 DEF Holds
  <1>2. CASE a # None /\ a[2] = "done"
    BY <1>2 DEF Holds, Stage
  <1>3. CASE a # None /\ a[2] = "new" /\ a[1] \in Leaves \cup {"root", "command"}
    BY <1>3 DEF Holds, Stage, Leaves, WellFormed
  <1>4. CASE a # None /\ a = <<"command", "compound">>
    BY <1>4 DEF Holds, Stage, WellFormed
  <1>5. CASE a # None /\ a = <<"caseitem", "pattern">>
    BY <1>5 DEF Holds, Stage, WellFormed
  <1>6. CASE a # None /\ a = <<"if", "then">>
    <2>1. k = "if" /\ Stage("if", "then", ks) /\ Len(ks) \in Nat
      BY <1>6, LastOf DEF Holds
    <2> QED
      BY <2>1 DEF Stage, WellFormed, Only
  <1> QED
    BY <1>1, <1>2, <1>3, <1>4, <1>5, <1>6 DEF Final

\* A node at a place is at each weaker one.
LEMMA HoldsWeak ==
  ASSUME NEW a, NEW b, NEW k, NEW ks, IsSeq(ks), Holds(a, k, ks), Weak(a, b)
  PROVE  Holds(b, k, ks)
  <1>1. CASE Final(a) /\ b = None
    BY <1>1, HoldsFinal DEF Holds
  <1>2. CASE Final(a) /\ b = <<a[1], "done">> /\ a # None
    <2>1. WellFormed(k, ks) /\ a[1] = k
      BY <1>2, HoldsFinal DEF Holds
    <2> QED
      BY <2>1, <1>2 DEF Holds, Stage
  <1>3. CASE a = None
    <2>1. b = None
      BY <1>3 DEF Weak, None
    <2> QED
      BY <2>1, <1>3
  <1>4. CASE a # None /\ a[2] = "done" /\ a[1] \in {"list", "compound"} /\ b = <<a[1], "more">>
    <2>1. k \in {"list", "compound"} /\ WellFormed(k, ks) /\ a[1] = k
      BY <1>4 DEF Holds, Stage
    <2>2. Separated(ks)
      BY <2>1 DEF WellFormed, Alternating
    <2> QED
      BY <2>1, <2>2, <1>4 DEF Holds, Stage, None
  <1> QED
    BY <1>1, <1>2, <1>3, <1>4 DEF Weak

\* A subnode of the right kind takes its node to the next place.
LEMMA HoldsGrow ==
  ASSUME NEW a, NEW b, NEW k, NEW x, NEW ks, IsSeq(ks), Holds(a, k, ks), Grows(a, x, b)
  PROVE  Holds(b, k, Append(ks, x))
  <1> DEFINE w == Append(ks, x)
             n == Len(ks)
             from(kinds, ps, xs, p) == a[1] \in kinds /\ a[2] \in ps /\ x \in xs /\ b = <<a[1], p>>
  <1>w. /\ n \in Nat /\ Len(w) = n + 1 /\ w # << >> /\ (n >= 1 <=> ks # << >>)
        /\ \A i \in 1 .. n : w[i] = ks[i]
        /\ w[n + 1] = x
    <2>1. n = 0 => ks = << >>
      BY EmptySeq DEF IsSeq
    <2> QED
      BY <2>1, LastOf
  <1>o. /\ ks = << >> => n = 0 /\ w = <<x>>
        /\ \A u : ks = <<u>> => n = 1 /\ w = <<u, x>>
        /\ \A u, v : ks = <<u, v>> => n = 2 /\ w = <<u, v, x>>
    <2>1. Len(<< >>) = 0 /\ (\A u : Len(<<u>>) = 1) /\ (\A u, v : Len(<<u, v>>) = 2)
      OBVIOUS
    <2>2. ks = << >> => n = 0 /\ w = <<x>>
      OBVIOUS
    <2>3. ASSUME NEW u, ks = <<u>> PROVE n = 1 /\ w = <<u, x>>
      BY <2>1, <2>3, AppendedTo1
    <2>4. ASSUME NEW u, NEW v, ks = <<u, v>> PROVE n = 2 /\ w = <<u, v, x>>
      BY <2>1, <2>4, AppendedTo2
    <2> HIDE DEF w, n
    <2> QED
      BY <2>2, <2>3, <2>4
  <1>0. a # None /\ a[1] = k /\ Stage(k, a[2], ks)
    <2>1. a[1] # "none"
      BY DEF Grows
    <2>2. a # None
      BY <2>1 DEF None
    <2> QED
      BY <2>2 DEF Holds
  <1> HIDE DEF w, n
  <1>1. from({"root"}, {"new"}, {"list"}, "done") => Stage(k, "done", w)
    BY <1>0, <1>o DEF Stage, WellFormed
  <1>2. from({"list", "compound"}, {"new", "more", "done"}, {"andor"}, "done") => Stage(k, "done", w)
    <2> SUFFICES ASSUME k \in {"list", "compound"}, a[2] \in {"new", "more", "done"}, x = "andor"
                 PROVE  Stage(k, "done", w)
      BY <1>0
    <2>1. Separated(ks)
      <3>1. CASE a[2] = "new"
        <4>1. n = 0 /\ ks = << >>
          BY <3>1, <1>0, <1>o DEF Stage
        <4> QED
          BY <4>1 DEF Separated, Only, n
      <3>2. CASE a[2] = "more"
        <4>1. Stage(k, "more", ks)
          BY <3>2, <1>0
        <4> QED
          BY <4>1 DEF Stage
      <3>3. CASE a[2] = "done"
        <4>1. Stage(k, "done", ks)
          BY <3>3, <1>0
        <4> QED
          BY <4>1 DEF Stage, WellFormed, Alternating
      <3> QED
        BY <3>1, <3>2, <3>3
    <2>2. Separated(w) /\ w[n + 1] = "andor"
      BY <1>w, <2>1 DEF Separated, Only, n
    <2> QED
      BY <1>w, <2>2 DEF Stage, WellFormed, Alternating
  <1>3. from({"list", "compound"}, {"done"}, {"&"}, "more") => Stage(k, "more", w)
    <2> SUFFICES ASSUME k \in {"list", "compound"}, a[2] = "done", x = "&"
                 PROVE  Stage(k, "more", w)
      BY <1>0
    <2>1. Separated(ks) /\ ks # << >> /\ ks[n] = "andor"
      BY <1>0 DEF Stage, WellFormed, Alternating, n
    <2>2. Separated(w)
      BY <1>w, <2>1 DEF Separated, Only, n
    <2> QED
      BY <2>2 DEF Stage
  <1>4. from({"andor", "and_if", "or_if"}, {"new"}, {"pipeline", "bang"}, "done") => Stage(k, "done", w)
    <2> SUFFICES ASSUME k \in {"andor", "and_if", "or_if"}, a[2] = "new", x \in {"pipeline", "bang"}
                 PROVE  Stage(k, "done", w)
      BY <1>0
    <2>1. w = <<x>> /\ n = 0 /\ w[1] = x
      BY <1>0, <1>o, <1>w DEF Stage
    <2>2. k # "andor" => WellFormed(k, w)
      BY <2>1 DEF WellFormed
    <2>3. k = "andor" => WellFormed(k, w)
      BY <1>w, <2>1 DEF WellFormed, Only
    <2> QED
      BY <2>2, <2>3 DEF Stage
  <1>5. from({"andor"}, {"done"}, {"and_if", "or_if"}, "done") => Stage(k, "done", w)
    <2> SUFFICES ASSUME k = "andor", a[2] = "done", x \in {"and_if", "or_if"}
                 PROVE  Stage("andor", "done", w)
      BY <1>0
    <2>0. Stage("andor", a[2], ks)
      BY <1>0
    <2>1. Only(ks, 2, n, {"and_if", "or_if"}) /\ n >= 1 /\ ks[1] \in {"pipeline", "bang"}
      BY <1>0, <1>w, <1>o, <2>0 DEF Stage, WellFormed, Only, n
    <2>2. Only(w, 2, n + 1, {"and_if", "or_if"}) /\ n + 1 >= 1 /\ w[1] \in {"pipeline", "bang"}
      BY <1>w, <2>1 DEF Only
    <2> QED
      BY <1>w, <2>2 DEF Stage, WellFormed
  <1>6. from({"bang"}, {"new"}, {"pipeline"}, "done") => Stage(k, "done", w)
    BY <1>0, <1>o DEF Stage, WellFormed
  <1>7. from({"pipeline"}, {"new", "done"}, {"command"}, "done") => Stage(k, "done", w)
    <2> SUFFICES ASSUME k = "pipeline", a[2] \in {"new", "done"}, x = "command"
                 PROVE  Stage("pipeline", "done", w)
      BY <1>0
    <2>1. Only(ks, 1, n, {"command"})
      <3>1. CASE a[2] = "new"
        <4>1. n = 0
          BY <3>1, <1>0, <1>o DEF Stage
        <4> QED
          BY <4>1 DEF Only
      <3>2. CASE a[2] = "done"
        <4>1. Stage("pipeline", "done", ks)
          BY <3>2, <1>0
        <4> QED
          BY <4>1 DEF Stage, WellFormed, n
      <3> QED
        BY <3>1, <3>2
    <2>2. Only(w, 1, n + 1, {"command"})
      BY <1>w, <2>1 DEF Only
    <2> QED
      BY <1>w, <2>2 DEF Stage, WellFormed
  <1>8. from({"command"}, {"new"}, {"simple", "function"}, "done") => Stage(k, "done", w)
    BY <1>0, <1>o DEF Stage, WellFormed
  <1>9. from({"command"}, {"new"}, Compounds, "compound") => Stage(k, "compound", w)
    <2> SUFFICES ASSUME k = "command", a[2] = "new", x \in Compounds
                 PROVE  Stage("command", "compound", w)
      BY <1>0
    <2>1. n = 0 /\ w[1] = x
      BY <1>0, <1>o, <1>w DEF Stage
    <2> QED
      BY <1>w, <2>1 DEF Stage, CompoundFirst, Only
  <1>10. from({"command"}, {"compound"}, {"redirect"}, "compound") => Stage(k, "compound", w)
    <2> SUFFICES ASSUME k = "command", a[2] = "compound", x = "redirect"
                 PROVE  Stage("command", "compound", w)
      BY <1>0
    <2>0. Stage("command", a[2], ks)
      BY <1>0
    <2>1. Only(ks, 2, n, {"redirect"}) /\ n >= 1 /\ ks[1] \in Compounds
      BY <1>0, <1>w, <1>o, <2>0 DEF Stage, WellFormed, CompoundFirst, Only, n
    <2>2. Only(w, 2, n + 1, {"redirect"}) /\ n + 1 >= 1 /\ w[1] \in Compounds
      BY <1>w, <2>1 DEF Only
    <2> QED
      BY <1>w, <2>2 DEF Stage, WellFormed, CompoundFirst
  <1>11. from({"subshell", "else"}, {"new"}, {"compound"}, "done") => Stage(k, "done", w)
    BY <1>0, <1>o DEF Stage, WellFormed
  <1>12. from({"while", "until", "elif", "if"}, {"new"}, {"compound"}, "one") => Stage(k, "one", w)
    BY <1>0, <1>o DEF Stage, WellFormed
  <1>13. from({"while", "until", "elif"}, {"one"}, {"compound"}, "done") => Stage(k, "done", w)
    BY <1>0, <1>o DEF Stage, WellFormed
  <1>14. from({"if"}, {"one"}, {"compound"}, "then") => Stage(k, "then", w)
    <2> SUFFICES ASSUME k = "if", a[2] = "one", x = "compound"
                 PROVE  Stage("if", "then", w)
      BY <1>0
    <2>1. n = 1 /\ w = <<"compound", "compound">>
      BY <1>0, <1>o DEF Stage
    <2>2. Len(w) = 2 /\ w[1] = "compound" /\ w[2] = "compound"
      BY <2>1
    <2> QED
      BY <2>2 DEF Stage, Only
  <1>15. from({"if"}, {"then"}, {"elif"}, "then") => Stage(k, "then", w)
    <2> SUFFICES ASSUME k = "if", a[2] = "then", x = "elif"
                 PROVE  Stage("if", "then", w)
      BY <1>0
    <2>0. Stage("if", a[2], ks)
      BY <1>0
    <2>1. Only(ks, 3, n, {"elif"}) /\ n >= 2 /\ Only(ks, 1, 2, {"compound"})
      BY <1>0, <1>w, <1>o, <2>0 DEF Stage, WellFormed, Only, n
    <2>2. Only(w, 3, n + 1, {"elif"}) /\ n + 1 >= 2 /\ Only(w, 1, 2, {"compound"})
      BY <1>w, <2>1 DEF Only
    <2> QED
      BY <1>w, <2>2 DEF Stage, WellFormed
  <1>16. from({"if"}, {"then"}, {"else"}, "done") => Stage(k, "done", w)
    <2> SUFFICES ASSUME k = "if", a[2] = "then", x = "else"
                 PROVE  Stage("if", "done", w)
      BY <1>0
    <2>1. n >= 2 /\ Only(ks, 1, 2, {"compound"}) /\ Only(ks, 3, n, {"elif"})
      BY <1>0 DEF Stage, n
    <2>2. Only(w, 1, 2, {"compound"}) /\ Only(w, 3, n, {"elif"})
      BY <1>w, <2>1 DEF Only
    <2>3. Len(w) - 1 = n /\ Len(w) >= 2 /\ w[Len(w)] = "else"
      BY <1>w, <2>1
    <2> QED
      BY <2>2, <2>3 DEF Stage, WellFormed
  <1>17. from({"for", "function"}, {"new"}, {"name"}, "named") => Stage(k, "named", w)
    BY <1>0, <1>o DEF Stage, WellFormed
  <1>18. from({"for"}, {"named"}, {"in"}, "words") => Stage(k, "words", w)
    <2> SUFFICES ASSUME k = "for", a[2] = "named", x = "in"
                 PROVE  Stage("for", "words", w)
      BY <1>0
    <2>1. w = <<"name", "in">>
      BY <1>0, <1>o DEF Stage
    <2>2. Len(w) = 2 /\ w[1] = "name" /\ w[2] = "in"
      BY <2>1
    <2> QED
      BY <2>2 DEF Stage, Only
  <1>19. from({"for"}, {"words"}, {"word"}, "words") => Stage(k, "words", w)
    <2> SUFFICES ASSUME k = "for", a[2] = "words", x = "word"
                 PROVE  Stage("for", "words", w)
      BY <1>0
    <2>0. Stage("for", a[2], ks)
      BY <1>0
    <2>1. Only(ks, 3, n, {"word"}) /\ n >= 2 /\ ks[1] = "name" /\ ks[2] = "in"
      BY <1>0, <1>w, <1>o, <2>0 DEF Stage, WellFormed, Only, n
    <2>2. Only(w, 3, n + 1, {"word"}) /\ n + 1 >= 2 /\ w[1] = "name" /\ w[2] = "in"
      BY <1>w, <2>1 DEF Only
    <2> QED
      BY <1>w, <2>2 DEF Stage, WellFormed
  <1>20. from({"for"}, {"named", "words"}, {"compound"}, "done") => Stage(k, "done", w)
    <2> SUFFICES ASSUME k = "for", a[2] \in {"named", "words"}, x = "compound"
                 PROVE  Stage("for", "done", w)
      BY <1>0
    <2>1. CASE a[2] = "named"
      <3>1. w = <<"name", "compound">>
        BY <2>1, <1>0, <1>o DEF Stage
      <3>2. Len(w) = 2 /\ w[1] = "name" /\ w[2] = "compound"
        BY <3>1
      <3>3. w[Len(w)] = "compound" /\ ~(Len(w) > 2) /\ Len(w) >= 2
        BY <3>2
      <3> QED
        BY <3>2, <3>3 DEF Stage, WellFormed
    <2>2. CASE a[2] = "words"
      <3>1. n >= 2 /\ ks[1] = "name" /\ ks[2] = "in" /\ Only(ks, 3, n, {"word"})
        BY <2>2, <1>0 DEF Stage, n
      <3>2. w[1] = "name" /\ w[2] = "in" /\ Only(w, 3, n, {"word"})
        BY <1>w, <3>1 DEF Only
      <3>3. Len(w) - 1 = n /\ Len(w) >= 2 /\ w[Len(w)] = "compound"
        BY <1>w, <3>1
      <3> QED
        BY <3>2, <3>3 DEF Stage, WellFormed
    <2> QED
      BY <2>1, <2>2
  <1>21. from({"case"}, {"new"}, {"word"}, "word") => Stage(k, "word", w)
    BY <1>0, <1>o DEF Stage, WellFormed
  <1>22. from({"case"}, {"word"}, {"in"}, "done") => Stage(k, "done", w)
    <2> SUFFICES ASSUME k = "case", a[2] = "word", x = "in"
                 PROVE  Stage("case", "done", w)
      BY <1>0
    <2>1. w = <<"word", x>>
      BY <1>0, <1>o DEF Stage
    <2>2. Len(w) = 2 /\ w[1] = "word" /\ w[2] = x
      BY <2>1
    <2>3. \A xs : Only(w, 3, 2, xs)
      BY DEF Only
    <2> QED
      BY <2>2, <2>3 DEF Stage, WellFormed
  <1>23. from({"case"}, {"done"}, {"caseitem"}, "done") => Stage(k, "done", w)
    <2> SUFFICES ASSUME k = "case", a[2] = "done", x = "caseitem"
                 PROVE  Stage("case", "done", w)
      BY <1>0
    <2>0. Stage("case", a[2], ks)
      BY <1>0
    <2>1. Only(ks, 3, n, {"caseitem"}) /\ n >= 2 /\ ks[1] = "word" /\ ks[2] = "in"
      BY <1>0, <1>w, <1>o, <2>0 DEF Stage, WellFormed, Only, n
    <2>2. Only(w, 3, n + 1, {"caseitem"}) /\ n + 1 >= 2 /\ w[1] = "word" /\ w[2] = "in"
      BY <1>w, <2>1 DEF Only
    <2> QED
      BY <1>w, <2>2 DEF Stage, WellFormed
  <1>24. from({"caseitem"}, {"new"}, {"pattern"}, "pattern") => Stage(k, "pattern", w)
    BY <1>0, <1>o DEF Stage, WellFormed
  <1>25. from({"caseitem"}, {"pattern"}, {"compound"}, "done") => Stage(k, "done", w)
    BY <1>0, <1>o DEF Stage, WellFormed
  <1>26. from({"pattern"}, {"new", "done"}, {"word"}, "done") => Stage(k, "done", w)
    <2> SUFFICES ASSUME k = "pattern", a[2] \in {"new", "done"}, x = "word"
                 PROVE  Stage("pattern", "done", w)
      BY <1>0
    <2>1. Only(ks, 1, n, {"word"})
      <3>1. CASE a[2] = "new"
        <4>1. n = 0
          BY <3>1, <1>0, <1>o DEF Stage
        <4> QED
          BY <4>1 DEF Only
      <3>2. CASE a[2] = "done"
        <4>1. Stage("pattern", "done", ks)
          BY <3>2, <1>0
        <4> QED
          BY <4>1 DEF Stage, WellFormed, n
      <3> QED
        BY <3>1, <3>2
    <2>2. Only(w, 1, n + 1, {"word"})
      BY <1>w, <2>1 DEF Only
    <2> QED
      BY <1>w, <2>2 DEF Stage, WellFormed
  <1>27. from({"function"}, {"named"}, Compounds, "done") => Stage(k, "done", w)
    <2> SUFFICES ASSUME k = "function", a[2] = "named", x \in Compounds
                 PROVE  Stage("function", "done", w)
      BY <1>0
    <2>1. w = <<"name", x>>
      BY <1>0, <1>o DEF Stage
    <2>2. Len(w) = 2 /\ w[1] = "name" /\ w[2] = x
      BY <2>1
    <2>3. \A xs : Only(w, 3, 2, xs)
      BY DEF Only
    <2> QED
      BY <2>2, <2>3 DEF Stage, WellFormed
  <1>28. from({"function"}, {"done"}, {"redirect"}, "done") => Stage(k, "done", w)
    <2> SUFFICES ASSUME k = "function", a[2] = "done", x = "redirect"
                 PROVE  Stage("function", "done", w)
      BY <1>0
    <2>0. Stage("function", a[2], ks)
      BY <1>0
    <2>1. Only(ks, 3, n, {"redirect"}) /\ n >= 2 /\ ks[1] = "name" /\ ks[2] \in Compounds
      BY <1>0, <1>w, <1>o, <2>0 DEF Stage, WellFormed, Only, n
    <2>2. Only(w, 3, n + 1, {"redirect"}) /\ n + 1 >= 2 /\ w[1] = "name" /\ w[2] \in Compounds
      BY <1>w, <2>1 DEF Only
    <2> QED
      BY <1>w, <2>2 DEF Stage, WellFormed
  <1>29. from({"simple"}, {"new", "done"}, {"word", "assignment", "redirect"}, "done") => Stage(k, "done", w)
    <2> SUFFICES ASSUME k = "simple", a[2] \in {"new", "done"}, x \in {"word", "assignment", "redirect"}
                 PROVE  Stage("simple", "done", w)
      BY <1>0
    <2>1. Only(ks, 1, n, {"word", "assignment", "redirect"})
      <3>1. CASE a[2] = "new"
        <4>1. n = 0
          BY <3>1, <1>0, <1>o DEF Stage
        <4> QED
          BY <4>1 DEF Only
      <3>2. CASE a[2] = "done"
        <4>1. Stage("simple", "done", ks)
          BY <3>2, <1>0
        <4> QED
          BY <4>1 DEF Stage, WellFormed, n
      <3> QED
        BY <3>1, <3>2
    <2>2. Only(w, 1, n + 1, {"word", "assignment", "redirect"})
      BY <1>w, <2>1 DEF Only
    <2> QED
      BY <1>w, <2>2 DEF Stage, WellFormed
  <1>30. from({"redirect"}, {"new"}, {"io number"}, "number") => Stage(k, "number", w)
    BY <1>0, <1>o DEF Stage, WellFormed
  <1>31. from({"redirect"}, {"new", "number"}, {"<"}, "file") => Stage(k, "file", w)
    BY <1>0, <1>o DEF Stage, WellFormed
  <1>32. from({"redirect"}, {"new", "number"}, {"<<"}, "done") => Stage(k, "done", w)
    BY <1>0, <1>o DEF Stage, WellFormed
  <1>33. from({"redirect"}, {"file", "never"}, {"word"}, "done") => Stage(k, "done", w)
    BY <1>0, <1>o DEF Stage, WellFormed
  <1>34. from({"redirect"}, {"never"}, {"<>"}, "never") => Stage(k, "never", w)
    BY <1>0, <1>o DEF Stage, WellFormed
  <1>k. k # "none"
    BY <1>0 DEF Grows
  <1>s. \E p : b = <<k, p>> /\ Stage(k, p, w)
    BY <1>0, <1>1, <1>2, <1>3, <1>4, <1>5, <1>6, <1>7, <1>8, <1>9, <1>10, <1>11, <1>12, <1>13,
       <1>14, <1>15, <1>16, <1>17, <1>18, <1>19, <1>20, <1>21, <1>22, <1>23, <1>24,
       <1>25, <1>26, <1>27, <1>28, <1>29, <1>30, <1>31, <1>32, <1>33, <1>34 DEF Grows
  <1> QED
    BY <1>k, <1>s DEF Holds, None, w

-----------------------------------------------------------------------------
(* The subnodes of a node *)

\* The first m numbers of a list are m.
LEMMA Counted ==
  ASSUME NEW e, NEW m \in Nat, NEW S, 1 .. m \subseteq DOMAIN e,
         \A n \in 1 .. m : e[n] \in S,
         \A j \in S : \E n \in 1 .. m : e[n] = j,
         \A n, o \in 1 .. m : n < o => e[n] # e[o]
  PROVE  IsFiniteSet(S) /\ Cardinality(S) = m
  <1> DEFINE f == [n \in 1 .. m |-> e[n]]
  <1>1. f \in [1 .. m -> S]
    OBVIOUS
  <1>2. \A n, o \in 1 .. m : f[n] = f[o] => n = o
    <2> SUFFICES ASSUME NEW n \in 1 .. m, NEW o \in 1 .. m, e[n] = e[o], n # o PROVE FALSE
      OBVIOUS
    <2>1. n < o \/ o < n
      OBVIOUS
    <2> QED
      BY <2>1
  <1>3. \A j \in S : \E n \in 1 .. m : f[n] = j
    OBVIOUS
  <1> HIDE DEF f
  <1>4. f \in Bijection(1 .. m, S)
    BY <1>1, <1>2, <1>3 DEF Bijection, Injection, Surjection, IsInjective
  <1>5. IsFiniteSet(1 .. m) /\ Cardinality(1 .. m) = m
    BY FS_Interval
  <1>6. ExistsBijection(1 .. m, S)
    BY <1>4 DEF ExistsBijection
  <1> QED
    BY <1>5, <1>6, FS_Bijection

\* Kids finds the list that enumerates the nodes below one.
LEMMA KidsAre ==
  ASSUME NEW i, NEW e, Enumerates(e, Below(i)), Below(i) \subseteq Nat
  PROVE  Kids(i) = e
  <1> DEFINE S == Below(i)
             N == Len(e)
             less(j) == {m \in S : m < j}
  <1>1. IsSeq(e) /\ N \in Nat /\ DOMAIN e = 1 .. N /\ e = [n \in 1 .. N |-> e[n]]
    <2>1. PICK T : e \in Seq(T)
      BY DEF Enumerates
    <2> QED
      BY <2>1, LenProperties DEF IsSeq
  <1>2. /\ \A n \in 1 .. N : e[n] \in S
        /\ \A j \in S : \E n \in 1 .. N : e[n] = j
        /\ \A m, n \in 1 .. N : m < n => e[m] < e[n]
    BY <1>1 DEF Enumerates
  <1> HIDE DEF S, N
  <1>3. \A n \in 1 .. N : e[n] \in Nat
    BY <1>2 DEF S
  <1>4. Cardinality(S) = N
    BY <1>1, <1>2, <1>3, Counted
  <1>5. ASSUME NEW n \in 1 .. N PROVE Cardinality(less(e[n])) = n - 1
    <2>1. n - 1 \in Nat /\ 1 .. n - 1 \subseteq DOMAIN e
      BY <1>1
    <2>2. \A m \in 1 .. n - 1 : e[m] \in less(e[n])
      BY <1>1, <1>2
    <2>3. \A j \in less(e[n]) : \E m \in 1 .. n - 1 : e[m] = j
      <3> SUFFICES ASSUME NEW j \in less(e[n]) PROVE \E m \in 1 .. n - 1 : e[m] = j
        OBVIOUS
      <3>1. PICK m \in 1 .. N : e[m] = j
        BY <1>2
      <3>2. ~(n < m) /\ n # m
        BY <3>1, <1>2, <1>3
      <3> QED
        BY <3>1, <3>2, <1>1
    <2>4. \A m, o \in 1 .. n - 1 : m < o => e[m] # e[o]
      BY <1>1, <1>2, <1>3
    <2> HIDE DEF less
    <2> QED
      BY <2>1, <2>2, <2>3, <2>4, Counted
  <1>6. ASSUME NEW n \in 1 .. N
        PROVE  (CHOOSE j \in S : Cardinality(less(j)) = n - 1) = e[n]
    <2> DEFINE c == CHOOSE j \in S : Cardinality(less(j)) = n - 1
    <2>1. e[n] \in S /\ Cardinality(less(e[n])) = n - 1
      BY <1>2, <1>5
    <2>2. c \in S /\ Cardinality(less(c)) = n - 1
      BY <2>1, Zenon
    <2>3. PICK m \in 1 .. N : e[m] = c
      BY <2>2, <1>2
    <2> HIDE DEF c, less
    <2>4. Cardinality(less(c)) = m - 1
      BY <2>3, <1>5
    <2>5. m = n
      BY <2>2, <2>4, <1>1
    <2> QED
      BY <2>3, <2>5 DEF c
  <1>7. Kids(i) = [n \in 1 .. N |-> CHOOSE j \in S : Cardinality(less(j)) = n - 1]
    BY <1>4, Zenon DEF Kids, S
  <1> HIDE DEF less
  <1> QED
    BY <1>1, <1>6, <1>7

\* The list of the nodes below one gets a new node at its end.
LEMMA OneMore ==
  ASSUME NEW e, NEW S, NEW j \in Nat, Enumerates(e, S), S \subseteq Nat, \A m \in S : m < j
  PROVE  Enumerates(Append(e, j), S \cup {j})
  <1>1. IsSeq(e)
    BY DEF Enumerates, IsSeq
  <1> DEFINE w == Append(e, j)
             n == Len(e)
  <1>2. /\ IsSeq(w) /\ n \in Nat /\ DOMAIN e = 1 .. n /\ DOMAIN w = 1 .. n + 1
        /\ \A i \in 1 .. n : w[i] = e[i]
        /\ w[n + 1] = j
    BY <1>1, LastOf
  <1> HIDE DEF w, n
  <1>3. \A i \in DOMAIN w : w[i] \in S \cup {j}
    BY <1>2 DEF Enumerates
  <1>4. \A x \in S \cup {j} : \E i \in DOMAIN w : w[i] = x
    <2>1. \A x \in S : \E i \in DOMAIN w : w[i] = x
      BY <1>2 DEF Enumerates
    <2>2. n + 1 \in DOMAIN w
      BY <1>2
    <2> QED
      BY <2>1, <2>2, <1>2
  <1>5. \A i, o \in DOMAIN w : i < o => w[i] < w[o]
    <2> SUFFICES ASSUME NEW i \in DOMAIN w, NEW o \in DOMAIN w, i < o PROVE w[i] < w[o]
      OBVIOUS
    <2>1. i \in 1 .. n /\ w[i] = e[i] /\ e[i] \in S
      BY <1>2 DEF Enumerates
    <2>2. CASE o = n + 1
      BY <2>1, <2>2, <1>2
    <2>3. CASE o \in 1 .. n
      BY <2>1, <2>3, <1>2 DEF Enumerates
    <2> QED
      BY <2>2, <2>3, <1>2
  <1> QED
    BY <1>2, <1>3, <1>4, <1>5 DEF Enumerates, IsSeq, w

\* A node that is added at the end is a subnode of the one on the rightmost
\* branch that is one level above it, and of no other.
LEMMA TreeGrows ==
  ASSUME Preorder(tree), NEW x, tree' = Append(tree, x), NEW d \in Nat, x.d = d + 1,
         NEW i \in DOMAIN tree
  PROVE  LET n == Len(tree) IN
         /\ n \in Nat /\ DOMAIN tree = 1 .. n /\ tree[i].d \in Nat /\ tree'[i] = tree[i]
         /\ Below(i) \subseteq 1 .. n
         /\ Below(i)' = Below(i) \cup IF OnBranch(i) /\ tree[i].d = d THEN {n + 1} ELSE {}
         /\ OnBranch(i)' <=> OnBranch(i) /\ tree[i].d <= d
  <1> DEFINE n == Len(tree)
  <1>1. /\ n \in Nat /\ DOMAIN tree = 1 .. n /\ Len(tree') = n + 1
        /\ \A j \in 1 .. n : tree'[j] = tree[j]
        /\ tree'[n + 1] = x
    BY LastOf DEF Preorder
  <1>2. i \in 1 .. n /\ tree[i].d \in Nat /\ tree'[i] = tree[i]
    BY <1>1 DEF Preorder
  <1> HIDE DEF n
  <1>3. Below(i) \subseteq 1 .. n
    BY <1>2 DEF Below, n
  <1>4. \A j \in i + 1 .. n : j \in 1 .. n /\ tree'[j] = tree[j]
    BY <1>1, <1>2
  <1>5. OnBranch(i)' <=> (\A j \in i + 1 .. n + 1 : tree'[j].d > tree[i].d)
    BY <1>1, <1>2 DEF OnBranch
  <1>6. OnBranch(i)' <=> OnBranch(i) /\ x.d > tree[i].d
    <2>1. n + 1 \in i + 1 .. n + 1 /\ i + 1 .. n + 1 = (i + 1 .. n) \cup {n + 1}
      BY <1>1, <1>2
    <2>2. OnBranch(i) <=> \A j \in i + 1 .. n : tree'[j].d > tree[i].d
      BY <1>4 DEF OnBranch, n
    <2> QED
      BY <1>1, <1>5, <2>1, <2>2
  <1>7. Below(i)' = {j \in i + 1 .. n + 1 : tree'[j].d = tree[i].d + 1 /\ \A m \in i + 1 .. j : tree'[m].d > tree[i].d}
    BY <1>1, <1>2 DEF Below
  <1>8. ASSUME NEW j \in i + 1 .. n PROVE j \in Below(i)' <=> j \in Below(i)
    <2>1. j \in i + 1 .. n + 1 /\ \A m \in i + 1 .. j : m \in i + 1 .. n
      BY <1>1, <1>2
    <2>2. j \in Below(i)' <=> tree'[j].d = tree[i].d + 1 /\ \A m \in i + 1 .. j : tree'[m].d > tree[i].d
      BY <1>7, <2>1
    <2>3. j \in Below(i) <=> tree[j].d = tree[i].d + 1 /\ \A m \in i + 1 .. j : tree[m].d > tree[i].d
      BY DEF Below, n
    <2> QED
      BY <1>4, <2>1, <2>2, <2>3
  <1>9. n + 1 \in Below(i)' <=> OnBranch(i) /\ tree[i].d = d
    <2>1. n + 1 \in Below(i)' <=> x.d = tree[i].d + 1 /\ OnBranch(i)'
      BY <1>1, <1>2, <1>5, <1>7
    <2> QED
      BY <2>1, <1>2, <1>6
  <1>10. Below(i)' \subseteq (i + 1 .. n) \cup {n + 1} /\ Below(i) \subseteq i + 1 .. n
    BY <1>1, <1>2, <1>7 DEF Below, n
  <1>11. Below(i)' = Below(i) \cup IF OnBranch(i) /\ tree[i].d = d THEN {n + 1} ELSE {}
    <2>1. CASE OnBranch(i) /\ tree[i].d = d
      BY <2>1, <1>8, <1>9, <1>10
    <2>2. CASE ~(OnBranch(i) /\ tree[i].d = d)
      BY <2>2, <1>8, <1>9, <1>10
    <2> QED
      BY <2>1, <2>2
  <1>12. OnBranch(i)' <=> OnBranch(i) /\ tree[i].d <= d
    BY <1>2, <1>6
  <1> QED
    BY <1>1, <1>2, <1>3, <1>11, <1>12 DEF n

\* The list of kinds of a list of nodes.
LEMMA KindsOf ==
  ASSUME Preorder(tree), NEW e, NEW S, Enumerates(e, S)
  PROVE  IsSeq(Kinds(e)) /\ Len(Kinds(e)) = Len(e) /\ Len(e) \in Nat /\ DOMAIN e = 1 .. Len(e)
         /\ \A n \in 1 .. Len(e) : e[n] \in S /\ Kinds(e)[n] = tree[e[n]].kind
  <1>1. Len(e) \in Nat /\ DOMAIN e = 1 .. Len(e)
    <2>1. PICK T : e \in Seq(T)
      BY DEF Enumerates
    <2> QED
      BY <2>1, LenProperties
  <1> DEFINE K == {tree[e[n]].kind : n \in DOMAIN e}
  <1>2. Kinds(e) = [n \in 1 .. Len(e) |-> tree[e[n]].kind]
    BY <1>1 DEF Kinds
  <1>3. Kinds(e) \in [1 .. Len(e) -> K]
    BY <1>1, <1>2
  <1> HIDE DEF K
  <1>4. Kinds(e) \in Seq(K) /\ Len(Kinds(e)) = Len(e)
    BY <1>1, <1>3
  <1> QED
    BY <1>1, <1>2, <1>4 DEF Enumerates, IsSeq

\* What holds of a node at its place holds where the place is weaker.
LEMMA SeqIs ==
  ASSUME NEW s, IsSeq(s)
  PROVE  s = [i \in 1 .. Len(s) |-> s[i]]
  <1>1. PICK T : s \in Seq(T)
    BY DEF IsSeq
  <1> QED
    BY <1>1, LenProperties

\* What holds of a node at its place holds where the place is weaker.
LEMMA NodeWeak ==
  ASSUME Preorder(tree), NEW A, NEW B, \A e \in Nat : Weak(A.at[e], B.at[e]),
         NEW i \in DOMAIN tree, NodeOK(i, A)
  PROVE  NodeOK(i, B)
  <1>1. PICK e : /\ Enumerates(e, Below(i))
                 /\ IF OnBranch(i) THEN Holds(A.at[tree[i].d], tree[i].kind, Kinds(e))
                    ELSE WellFormed(tree[i].kind, Kinds(e))
    BY DEF NodeOK
  <1>2. tree[i].d \in Nat
    BY DEF Preorder
  <1>3. IsSeq(Kinds(e))
    BY <1>1, KindsOf
  <1>4. OnBranch(i) => Holds(B.at[tree[i].d], tree[i].kind, Kinds(e))
    BY <1>1, <1>2, <1>3, HoldsWeak
  <1> QED
    BY <1>1, <1>4 DEF NodeOK

\* A node on the branch, when a new one is added below depth d.
LEMMA NodeGrows ==
  ASSUME Preorder(tree), NEW x, tree' = Append(tree, x), NEW d \in Nat, x.d = d + 1,
         NEW A, NEW B, NEW b,
         \A e \in Nat : e < d => Weak(A.at[e], B.at[e]),
         \A e \in Nat : e > d => Final(A.at[e]),
         Grows(A.at[d], x.kind, b), Weak(b, B.at[d]),
         NEW i \in DOMAIN tree, NodeOK(i, A)
  PROVE  NodeOK(i, B)'
  <1>0. PICK n : n = Len(tree)
    OBVIOUS
  <1>1. /\ n \in Nat /\ DOMAIN tree = 1 .. n /\ tree[i].d \in Nat /\ tree'[i] = tree[i]
        /\ Below(i) \subseteq 1 .. n
        /\ Below(i)' = Below(i) \cup IF OnBranch(i) /\ tree[i].d = d THEN {n + 1} ELSE {}
        /\ OnBranch(i)' <=> OnBranch(i) /\ tree[i].d <= d
    BY <1>0, TreeGrows
  <1>2. PICK e : /\ Enumerates(e, Below(i))
                 /\ IF OnBranch(i) THEN Holds(A.at[tree[i].d], tree[i].kind, Kinds(e))
                    ELSE WellFormed(tree[i].kind, Kinds(e))
    BY DEF NodeOK
  <1>3. /\ IsSeq(Kinds(e)) /\ Len(Kinds(e)) = Len(e) /\ Len(e) \in Nat /\ DOMAIN e = 1 .. Len(e)
        /\ \A m \in 1 .. Len(e) : e[m] \in Below(i) /\ Kinds(e)[m] = tree[e[m]].kind
    BY <1>2, KindsOf
  <1>4. /\ \A m \in 1 .. n : tree'[m] = tree[m]
        /\ tree'[n + 1] = x
    BY <1>0, LastOf DEF Preorder
  <1>5. Kinds(e)' = Kinds(e)
    BY <1>1, <1>3, <1>4 DEF Kinds
  <1>6. CASE OnBranch(i) /\ tree[i].d = d
    <2>0. PICK w : w = Append(e, n + 1)
      OBVIOUS
    <2>1. Enumerates(w, Below(i) \cup {n + 1})
      <3>1. n + 1 \in Nat /\ Below(i) \subseteq Nat /\ \A m \in Below(i) : m < n + 1
        BY <1>1
      <3> QED
        BY <2>0, <3>1, <1>2, OneMore
    <2>2. Enumerates(w, Below(i)')
      BY <2>1, <1>1, <1>6
    <2>3. Kinds(w)' = Append(Kinds(e), x.kind)
      <3>1. /\ Len(w) = Len(e) + 1 /\ DOMAIN w = 1 .. Len(e) + 1
            /\ \A m \in 1 .. Len(e) : w[m] = e[m]
            /\ w[Len(e) + 1] = n + 1
        <4>1. IsSeq(e)
          BY <1>2 DEF Enumerates, IsSeq
        <4> QED
          BY <2>0, <4>1, LastOf
      <3> DEFINE v == Append(Kinds(e), x.kind)
      <3>2. /\ IsSeq(v) /\ Len(v) = Len(e) + 1 /\ DOMAIN v = 1 .. Len(e) + 1
            /\ \A m \in 1 .. Len(e) : v[m] = Kinds(e)[m]
            /\ v[Len(e) + 1] = x.kind
        BY <1>3, LastOf
      <3>3. v = [m \in 1 .. Len(e) + 1 |-> v[m]]
        <4> HIDE DEF v
        <4> QED
          BY <3>2, SeqIs
      <3> HIDE DEF v
      <3>4. Kinds(w)' = [m \in 1 .. Len(e) + 1 |-> tree'[w[m]].kind]
        BY <3>1 DEF Kinds
      <3>5. \A m \in 1 .. Len(e) + 1 : tree'[w[m]].kind = v[m]
        <4> SUFFICES ASSUME NEW m \in 1 .. Len(e) + 1 PROVE tree'[w[m]].kind = v[m]
          OBVIOUS
        <4>1. CASE m = Len(e) + 1
          BY <4>1, <3>1, <3>2, <1>4
        <4>2. CASE m \in 1 .. Len(e)
          <5>1. w[m] = e[m] /\ v[m] = Kinds(e)[m] /\ e[m] \in 1 .. n
            BY <4>2, <3>1, <3>2, <1>1, <1>3
          <5>2. tree'[e[m]] = tree[e[m]] /\ Kinds(e)[m] = tree[e[m]].kind
            BY <5>1, <4>2, <1>3, <1>4
          <5>3. tree'[w[m]] = tree'[e[m]]
            BY <5>1, Zenon
          <5> QED
            BY <5>1, <5>2, <5>3
        <4>3. m = Len(e) + 1 \/ m \in 1 .. Len(e)
          BY <1>3
        <4> QED
          BY <4>1, <4>2, <4>3, Zenon
      <3> QED
        BY <3>3, <3>4, <3>5 DEF v
    <2>4. Holds(b, tree[i].kind, Append(Kinds(e), x.kind))
      BY <1>2, <1>3, <1>6, HoldsGrow
    <2>5. Holds(B.at[d], tree[i].kind, Append(Kinds(e), x.kind))
      <3>1. IsSeq(Append(Kinds(e), x.kind))
        BY <1>3, LastOf
      <3> QED
        BY <3>1, <2>4, HoldsWeak
    <2>6. Holds(B.at[tree[i].d], tree[i].kind, Kinds(w))'
      BY <2>3, <2>5, <1>1, <1>6
    <2>7. OnBranch(i)'
      BY <1>1, <1>6
    <2>8. Enumerates(w, Below(i))'
      BY <2>2 DEF Enumerates
    <2> QED
      BY <2>6, <2>7, <2>8 DEF NodeOK
  <1>7. CASE ~(OnBranch(i) /\ tree[i].d = d)
    <2>1. Below(i)' = Below(i)
      BY <1>1, <1>7
    <2>2. Enumerates(e, Below(i))'
      BY <2>1, <1>2 DEF Enumerates
    <2>3. OnBranch(i)' => Holds(B.at[tree[i].d], tree[i].kind, Kinds(e))
      <3> SUFFICES ASSUME OnBranch(i)' PROVE Holds(B.at[tree[i].d], tree[i].kind, Kinds(e))
        OBVIOUS
      <3>1. OnBranch(i) /\ tree[i].d < d
        BY <1>1, <1>7
      <3> QED
        BY <3>1, <1>1, <1>2, <1>3, HoldsWeak
    <2>4. ~OnBranch(i)' => WellFormed(tree[i].kind, Kinds(e))
      <3>1. CASE OnBranch(i) /\ tree[i].d > d
        BY <3>1, <1>1, <1>2, <1>3, HoldsFinal
      <3>2. CASE ~OnBranch(i)
        BY <3>2, <1>2
      <3> QED
        BY <3>1, <3>2, <1>1, <1>7
    <2>5. OnBranch(i)' => Holds(B.at[tree[i].d], tree[i].kind, Kinds(e))'
      BY <2>3, <1>1, <1>5
    <2>6. ~OnBranch(i)' => WellFormed(tree[i].kind, Kinds(e))'
      BY <2>4, <1>1, <1>5
    <2> QED
      BY <2>2, <2>5, <2>6 DEF NodeOK
  <1> QED
    BY <1>6, <1>7

-----------------------------------------------------------------------------
(* Views *)

\* The new node itself has nothing below it.
LEMMA NodeNew ==
  ASSUME Preorder(tree), NEW x, tree' = Append(tree, x), NEW d \in Nat, x.d = d + 1,
         NEW B, Weak(<<x.kind, "new">>, B.at[d + 1]), NEW i, i = Len(tree) + 1
  PROVE  NodeOK(i, B)'
  <1>1. i \in Nat /\ Len(tree') = i /\ tree'[i] = x
    BY LastOf DEF Preorder
  <1>2. Below(i)' = {} /\ OnBranch(i)'
    <2>1. \A m : m \notin i + 1 .. i
      BY <1>1
    <2> QED
      BY <1>1, <2>1 DEF Below, OnBranch
  <1>3. Enumerates(<< >>, {})
    <2>1. << >> \in Seq({}) /\ DOMAIN << >> = {}
      OBVIOUS
    <2> QED
      BY <2>1 DEF Enumerates
  <1>4. Enumerates(<< >>, Below(i))'
    BY <1>2, <1>3 DEF Enumerates
  <1>5. Kinds(<< >>)' = << >>
    BY DEF Kinds
  <1>6. Holds(B.at[d + 1], x.kind, << >>)
    <2>1. IsSeq(<< >>)
      BY EmptySeq DEF IsSeq
    <2>2. Holds(<<x.kind, "new">>, x.kind, << >>)
      <3>1. <<x.kind, "new">> # None
        BY DEF None
      <3> QED
        BY <3>1 DEF Holds, Stage
    <2> QED
      BY <2>1, <2>2, HoldsWeak
  <1>7. Holds(B.at[tree[i].d], tree[i].kind, Kinds(<< >>))'
    BY <1>1, <1>5, <1>6
  <1> QED
    BY <1>2, <1>4, <1>7 DEF NodeOK

\* ... a view that is true stays true when it is weakened ...
LEMMA DescribedWeak ==
  ASSUME Preorder(tree), NEW A, NEW B, Described(A), toklast \notin B.no,
         \A e \in Nat : Weak(A.at[e], B.at[e])
  PROVE  Described(B)
  BY NodeWeak DEF Described

\* A view is of the tree and the look-ahead alone ...
LEMMA DescribedSame ==
  ASSUME NEW A, Described(A), UNCHANGED <<tree, toklast>>
  PROVE  Described(A)'
  <1>1. \A i : Below(i)' = Below(i) /\ (OnBranch(i)' <=> OnBranch(i)) /\ \A e : Kinds(e)' = Kinds(e)
    BY DEF Below, OnBranch, Kinds
  <1>2. \A i \in DOMAIN tree : NodeOK(i, A)'
    BY <1>1 DEF Described, NodeOK, Enumerates
  <1> QED
    BY <1>2 DEF Described

\* ... and when the look-ahead has gone on, if it says nothing of that.
LEMMA DescribedOn ==
  ASSUME Preorder(tree), NEW A, NEW B, Described(A), tree' = tree, B.no = {},
         \A e \in Nat : Weak(A.at[e], B.at[e])
  PROVE  Described(B)'
  <1>1. \A i \in DOMAIN tree : NodeOK(i, B)
    BY NodeWeak DEF Described
  <1>2. \A i : Below(i)' = Below(i) /\ (OnBranch(i)' <=> OnBranch(i)) /\ \A e : Kinds(e)' = Kinds(e)
    BY DEF Below, OnBranch, Kinds
  <1>3. \A i \in DOMAIN tree : NodeOK(i, B)'
    BY <1>1, <1>2 DEF NodeOK, Enumerates
  <1> QED
    BY <1>3 DEF Described

\* The new node makes the view true that its item leads to.
LEMMA DescribedGrows ==
  ASSUME Preorder(tree), NEW x, tree' = Append(tree, x), NEW d \in Nat, x.d = d + 1,
         NEW A, NEW B, NEW b,
         \A e \in Nat : e < d => Weak(A.at[e], B.at[e]),
         \A e \in Nat : e > d => Final(A.at[e]),
         Grows(A.at[d], x.kind, b), Weak(b, B.at[d]), Weak(<<x.kind, "new">>, B.at[d + 1]),
         B.no = {}, Described(A)
  PROVE  Described(B)'
  <1>1. Len(tree) \in Nat /\ DOMAIN tree = 1 .. Len(tree) /\ DOMAIN tree' = 1 .. Len(tree) + 1
    BY LastOf DEF Preorder
  <1>2. \A i \in DOMAIN tree : NodeOK(i, B)'
    <2> SUFFICES ASSUME NEW i \in DOMAIN tree PROVE NodeOK(i, B)'
      OBVIOUS
    <2>1. NodeOK(i, A)
      BY DEF Described
    <2> QED
      BY <2>1, NodeGrows
  <1>3. \A i : i = Len(tree) + 1 => NodeOK(i, B)'
    BY NodeNew
  <1>4. \A i \in DOMAIN tree' : i \in DOMAIN tree \/ i = Len(tree) + 1
    BY <1>1
  <1>5. (\A i \in DOMAIN tree : NodeOK(i, B))'
    BY <1>2, <1>3, <1>4
  <1> QED
    BY <1>5 DEF Described

\* Weakening.
LEMMA WeakSame == ASSUME NEW a PROVE Weak(a, a)
  BY DEF Weak

\* A place that is weaker than a weaker one is weaker.
LEMMA WeakTrans == ASSUME NEW a, NEW b, NEW c, Weak(a, b), Weak(b, c) PROVE Weak(a, c)
  <1>1. CASE b = a \/ c = b
    BY <1>1
  <1>2. CASE Final(a) /\ b = None
    BY <1>2 DEF Weak, None, Final
  <1>3. CASE Final(a) /\ b = <<a[1], "done">>
    <2>1. b[1] = a[1] /\ b[2] = "done"
      BY <1>3
    <2>2. a[1] \in {"list", "compound"} => a[2] = "done"
      <3>1. Final(a)
        BY <1>3
      <3>2. a \in {<<"command", "compound">>, <<"caseitem", "pattern">>, <<"if", "then">>} =>
            a[1] \in {"command", "caseitem", "if"}
        OBVIOUS
      <3> QED
        BY <3>1, <3>2 DEF Final, Leaves
    <2>3. \/ c = b \/ c = None \/ c = <<a[1], "done">>
          \/ a[1] \in {"list", "compound"} /\ c = <<a[1], "more">>
      BY <2>1 DEF Weak
    <2> QED
      BY <1>3, <2>2, <2>3 DEF Weak
  <1>4. CASE a[2] = "done" /\ a[1] \in {"list", "compound"} /\ b = <<a[1], "more">>
    BY <1>4 DEF Weak, None, Final, Leaves
  <1> QED
    BY <1>1, <1>2, <1>3, <1>4 DEF Weak

-----------------------------------------------------------------------------
(* The items of a function, for its node and the one below it *)

\* Where the items of one function have got: the places of its node and of the
\* one it adds below that, and tokens that the look-ahead is not.
Step(i, l, m) ==
  /\ i.d \in {t, t + 1}
  /\ \/ Fails(i)
     \/ Passes(i) /\ Weak(l[1], m[1]) /\ Weak(l[2], m[2]) /\ m[3] = {}
     \/ /\ i.d = t /\ Final(l[2]) /\ Needs(i.do, l[1]) \subseteq l[3]
        /\ \E b : Moves(i.do, i.x, l[1], b) /\ Weak(b, m[1])
        /\ IF i.do \in Adders THEN Weak(<<i.x, "new">>, m[2]) ELSE m[2] = None
        /\ m[3] \subseteq Excludes(i.do)
     \/ /\ i.d = t + 1 /\ Weak(l[1], m[1]) /\ Needs(i.do, l[2]) \subseteq l[3]
        /\ \E b : Moves(i.do, i.x, l[2], b) /\ Weak(b, m[2])
        /\ i.do \in Adders => i.x \in Leaves
        /\ m[3] \subseteq Excludes(i.do)

\* The items s, one behind the other, from l to m.
Run(s, l, m) ==
  /\ IsSeq(s)
  /\ \E L : /\ L[1] = l /\ L[Len(s) + 1] = m
            /\ \A i \in 1 .. Len(s) : Step(s[i], L[i], L[i + 1])

\* The items s do what is said of the function f.
Sound(f, s) ==
  \A a, b : Moves(f, "", a, b) /\ toklast \notin Needs(f, a) =>
    \E no, m : /\ toklast \notin no /\ Run(s, <<a, None, no>>, m)
               /\ Weak(m[1], b) /\ Final(m[2]) /\ Excludes(f) \subseteq m[3]

\* The view A with the node of the function at depth n, and what is below it.
View(A, n, l) ==
  [at |-> [e \in Nat |-> IF e < n THEN A.at[e] ELSE IF e = n THEN l[1]
                         ELSE IF e = n + 1 THEN l[2] ELSE None],
   no |-> l[3]]

\* ... and what is needed of that one.
IsView(V, A, n, l) ==
  /\ \A e \in Nat : e < n => V.at[e] = A.at[e]
  /\ V.at[n] = l[1] /\ V.at[n + 1] = l[2]
  /\ \A e \in Nat : e > n + 1 => V.at[e] = None
  /\ V.no = l[3]

\* View is one.
LEMMA ViewAt ==
  ASSUME NEW A, NEW n \in Nat, NEW l
  PROVE  IsView(View(A, n, l), A, n, l)
  <1>1. /\ View(A, n, l).at = [e \in Nat |-> IF e < n THEN A.at[e] ELSE IF e = n THEN l[1]
                                            ELSE IF e = n + 1 THEN l[2] ELSE None]
        /\ View(A, n, l).no = l[3]
    BY DEF View
  <1> QED
    BY <1>1 DEF IsView

\* Where nothing is left to do, a node is as good as gone.
LEMMA FinalNone == Final(None) /\ \A a : Final(a) => Weak(a, None)
  BY DEF Final, None, Weak

\* The depths a function tells apart.
LEMMA Split ==
  ASSUME NEW n \in Nat, NEW e \in Nat
  PROVE  e < n \/ e = n \/ e = n + 1 \/ e > n + 1
  OBVIOUS

\* A step of a function leads from view to view.
LEMMA StepLeads ==
  ASSUME NEW A, NEW l, NEW m, NEW i, t \in Nat, Step(i, l, m)
  PROVE  Leads(i, View(A, t, l), View(A, t, m))
  <1> DEFINE V == View(A, t, l)
             W == View(A, t, m)
  <1>0. PICK n \in Nat : n = t
    OBVIOUS
  <1>1. /\ \A e \in Nat : e < n => V.at[e] = A.at[e] /\ W.at[e] = A.at[e]
        /\ V.at[n] = l[1] /\ V.at[n + 1] = l[2] /\ W.at[n] = m[1] /\ W.at[n + 1] = m[2]
        /\ \A e \in Nat : e > n + 1 => V.at[e] = None /\ W.at[e] = None
        /\ V.no = l[3] /\ W.no = m[3]
    <2>1. IsView(V, A, n, l) /\ IsView(W, A, n, m)
      BY <1>0, ViewAt
    <2> HIDE DEF V, W
    <2> QED
      BY <2>1 DEF IsView
  <1> HIDE DEF V, W
  <1>2. CASE Fails(i)
    BY <1>2 DEF Leads, V, W
  <1>3. CASE Passes(i) /\ Weak(l[1], m[1]) /\ Weak(l[2], m[2]) /\ m[3] = {}
    <2>1. \A e \in Nat : Weak(V.at[e], W.at[e])
      <3> TAKE e \in Nat
      <3> QED
        BY <1>1, <1>3, Split, WeakSame
    <2> QED
      BY <1>3, <1>1, <2>1 DEF Leads, V, W
  <1>4. CASE /\ i.d = t /\ Final(l[2]) /\ Needs(i.do, l[1]) \subseteq l[3]
             /\ \E b : Moves(i.do, i.x, l[1], b) /\ Weak(b, m[1])
             /\ IF i.do \in Adders THEN Weak(<<i.x, "new">>, m[2]) ELSE m[2] = None
             /\ m[3] \subseteq Excludes(i.do)
    <2>1. \A e \in Nat : e < n => Weak(V.at[e], W.at[e])
      BY <1>1, WeakSame
    <2>2. \A e \in Nat : e > n => Final(V.at[e])
      <3> TAKE e \in Nat
      <3> QED
        BY <1>1, <1>4, Split, FinalNone
    <2>3. \A e \in Nat : e > n + 1 => W.at[e] = None
      BY <1>1
    <2>4. /\ i.d = n /\ Needs(i.do, V.at[n]) \subseteq V.no
          /\ \E b : Moves(i.do, i.x, V.at[n], b) /\ Weak(b, W.at[n])
          /\ IF i.do \in Adders THEN Weak(<<i.x, "new">>, W.at[n + 1]) ELSE W.at[n + 1] = None
          /\ W.no \subseteq Excludes(i.do)
      BY <1>1, <1>0, <1>4
    <2> QED
      BY <2>1, <2>2, <2>3, <2>4 DEF Leads, V, W
  <1>5. CASE /\ i.d = t + 1 /\ Weak(l[1], m[1]) /\ Needs(i.do, l[2]) \subseteq l[3]
             /\ \E b : Moves(i.do, i.x, l[2], b) /\ Weak(b, m[2])
             /\ i.do \in Adders => i.x \in Leaves
             /\ m[3] \subseteq Excludes(i.do)
    <2>1. \A e \in Nat : e < n + 1 => Weak(V.at[e], W.at[e])
      <3> TAKE e \in Nat
      <3> QED
        BY <1>1, <1>5, Split, WeakSame
    <2>2. \A e \in Nat : e > n + 1 => Final(V.at[e])
      BY <1>1, FinalNone
    <2>3. n + 2 \in Nat /\ n + 1 \in Nat /\ n + 2 > n + 1 /\ (n + 1) + 1 = n + 2
      OBVIOUS
    <2>4. W.at[n + 2] = None
      BY <1>1, <2>3
    <2>5. IF i.do \in Adders THEN Weak(<<i.x, "new">>, W.at[n + 2]) ELSE W.at[n + 2] = None
      <3>1. i.do \in Adders => Final(<<i.x, "new">>)
        BY <1>5 DEF Final
      <3> QED
        BY <2>4, <3>1, FinalNone
    <2>6. \A e \in Nat : e > n + 2 => W.at[e] = None
      BY <1>1
    <2>7. /\ i.d = n + 1 /\ Needs(i.do, V.at[n + 1]) \subseteq V.no
          /\ \E b : Moves(i.do, i.x, V.at[n + 1], b) /\ Weak(b, W.at[n + 1])
          /\ W.no \subseteq Excludes(i.do)
      BY <1>1, <1>0, <1>5
    <2> QED
      BY <2>1, <2>2, <2>3, <2>5, <2>6, <2>7 DEF Leads, V, W
  <1> QED
    BY <1>2, <1>3, <1>4, <1>5 DEF Step

\* What leads to a view leads to a weaker one.
LEMMA LeadsWeak ==
  ASSUME NEW i, i.d \in Nat, NEW A, NEW B, NEW C, Leads(i, A, B),
         \A e \in Nat : Weak(B.at[e], C.at[e]), C.no \subseteq B.no
  PROVE  Leads(i, A, C)
  <1>0. \A a, b, c : Weak(a, b) /\ Weak(b, c) => Weak(a, c)
    BY WeakTrans
  <1>1. CASE Fails(i)
    BY <1>1 DEF Leads
  <1>2. CASE Passes(i) /\ (\A e \in Nat : Weak(A.at[e], B.at[e])) /\ B.no = {}
    BY <1>0, <1>2 DEF Leads
  <1>3. CASE /\ \A e \in Nat : e < i.d => Weak(A.at[e], B.at[e])
             /\ \A e \in Nat : e > i.d => Final(A.at[e])
             /\ Needs(i.do, A.at[i.d]) \subseteq A.no
             /\ \E b : Moves(i.do, i.x, A.at[i.d], b) /\ Weak(b, B.at[i.d])
             /\ IF i.do \in Adders THEN Weak(<<i.x, "new">>, B.at[i.d + 1]) ELSE B.at[i.d + 1] = None
             /\ \A e \in Nat : e > i.d + 1 => B.at[e] = None
             /\ B.no \subseteq Excludes(i.do)
    <2>1. \A c : Weak(None, c) => c = None
      BY DEF Weak, None
    <2>2. \A e \in Nat : e < i.d => Weak(A.at[e], C.at[e])
      BY <1>0, <1>3
    <2>3. \E b : Moves(i.do, i.x, A.at[i.d], b) /\ Weak(b, C.at[i.d])
      BY <1>0, <1>3
    <2>4. i.d + 1 \in Nat
      OBVIOUS
    <2>5. IF i.do \in Adders THEN Weak(<<i.x, "new">>, C.at[i.d + 1]) ELSE C.at[i.d + 1] = None
      BY <1>0, <1>3, <2>1, <2>4
    <2>6. \A e \in Nat : e > i.d + 1 => C.at[e] = None
      BY <1>3, <2>1
    <2> QED
      BY <1>3, <2>2, <2>3, <2>5, <2>6 DEF Leads
  <1> QED
    BY <1>1, <1>2, <1>3 DEF Leads

\* The last way of Leads: what an item that neither passes nor fails does.
ItemDone(i, A, B) ==
  /\ \A e \in Nat : e < i.d => Weak(A.at[e], B.at[e])
  /\ \A e \in Nat : e > i.d => Final(A.at[e])
  /\ Needs(i.do, A.at[i.d]) \subseteq A.no
  /\ \E b : Moves(i.do, i.x, A.at[i.d], b) /\ Weak(b, B.at[i.d])
  /\ IF i.do \in Adders THEN Weak(<<i.x, "new">>, B.at[i.d + 1]) ELSE B.at[i.d + 1] = None
  /\ \A e \in Nat : e > i.d + 1 => B.at[e] = None
  /\ B.no \subseteq Excludes(i.do)

\* A function all of whose alternatives are sound keeps the promise: the views of
\* its items take the place of its own.
LEMMA FunctionShape ==
  ASSUME NEW f, NEW s, ParserInv, ShapeInv, Function(f, s), Sound(f, s),
         f \notin Adders \cup {"compare", "compare_keyword", "command_empty", "errtoken"}
  PROVE  ShapeInv'
  <1> SUFFICES ASSUME ~err_occured'
               PROVE  \E c : LeadsAll(todo', c) /\ Closed(c[Len(todo') + 1]) /\ Described(c[1])'
    BY DEF ShapeInv
  <1>1. /\ todo # << >> /\ Head(todo).do = f /\ todo' = s \o Tail(todo)
        /\ UNCHANGED <<toklast, tree, err_occured>>
    BY DEF Function, At, Do
  <1> DEFINE r == Tail(todo)
  <1>2. /\ IsSeq(r) /\ Len(todo) \in Nat \ {0} /\ Len(r) = Len(todo) - 1
        /\ \A j \in 1 .. Len(todo) - 1 : r[j] = todo[j + 1] /\ todo[j + 1].d \in Nat
        /\ Head(todo) = todo[1] /\ t = todo[1].d /\ t \in Nat
    <2>1. /\ IsSeq(todo) /\ \A j \in DOMAIN todo : todo[j].d \in Nat
      BY DEF ParserInv, Possible
    <2>2. /\ IsSeq(r) /\ Len(todo) \in Nat \ {0} /\ Len(r) = Len(todo) - 1
          /\ DOMAIN todo = 1 .. Len(todo)
          /\ \A j \in 1 .. Len(todo) - 1 : r[j] = todo[j + 1]
          /\ Head(todo) = todo[1] /\ 1 \in DOMAIN todo
      BY <1>1, <2>1, Rest
    <2>3. \A j \in 1 .. Len(todo) - 1 : j + 1 \in DOMAIN todo
      BY <2>2
    <2> QED
      BY <2>1, <2>2, <2>3 DEF t
  <1> HIDE DEF r
  <1>3. PICK c : LeadsAll(todo, c) /\ Closed(c[Len(todo) + 1]) /\ Described(c[1])
    BY <1>1 DEF ShapeInv
  <1>4. PICK A, C, n : A = c[1] /\ C = c[2] /\ n = t
    OBVIOUS
  <1>5. Leads(todo[1], A, C)
    BY <1>2, <1>3, <1>4 DEF LeadsAll
  <1>6. ItemDone(todo[1], A, C)
    BY <1>1, <1>2, <1>5 DEF Leads, ItemDone, Fails, Passes
  <1>7. /\ n \in Nat /\ todo[1].d = n
        /\ \A e \in Nat : e < n => Weak(A.at[e], C.at[e])
        /\ \A e \in Nat : e > n => Final(A.at[e])
        /\ Needs(f, A.at[n]) \subseteq A.no
        /\ C.at[n + 1] = None
        /\ \A e \in Nat : e > n + 1 => C.at[e] = None
        /\ C.no \subseteq Excludes(f)
    BY <1>1, <1>2, <1>4, <1>6 DEF ItemDone
  <1>8. PICK b : Moves(f, "", A.at[n], b) /\ Weak(b, C.at[n])
    <2>1. PICK b : Moves(f, todo[1].x, A.at[n], b) /\ Weak(b, C.at[n])
      BY <1>1, <1>2, <1>7, <1>6 DEF ItemDone
    <2>2. Moves(f, "", A.at[n], b)
      BY <2>1 DEF Moves
    <2> QED
      BY <2>1, <2>2
  <1>9. toklast \notin A.no
    BY <1>3, <1>4 DEF Described
  <1>10. PICK no, m : /\ toklast \notin no /\ Run(s, <<A.at[n], None, no>>, m)
                      /\ Weak(m[1], b) /\ Final(m[2]) /\ Excludes(f) \subseteq m[3]
    BY <1>7, <1>8, <1>9 DEF Sound
  <1>11. PICK l : l = <<A.at[n], None, no>>
    OBVIOUS
  <1>12. PICK L : /\ L[1] = l /\ L[Len(s) + 1] = m
                  /\ \A i \in 1 .. Len(s) : Step(s[i], L[i], L[i + 1])
    BY <1>10, <1>11 DEF Run
  <1>13. /\ IsSeq(s) /\ Len(s) \in Nat /\ IsSeq(todo') /\ Len(todo') = Len(s) + Len(r)
         /\ \A i \in 1 .. Len(s) : todo'[i] = s[i]
         /\ \A i \in 1 .. Len(r) : todo'[Len(s) + i] = r[i]
    <2>1. IsSeq(s)
      BY <1>10 DEF Run
    <2> QED
      BY <2>1, <1>1, <1>2, Joined DEF r
  \* The view the function begins with is weaker than A, the one it ends with
  \* stronger than C.
  <1>14. /\ \A e \in Nat : Weak(A.at[e], View(A, n, l).at[e])
         /\ toklast \notin View(A, n, l).no
    <2> DEFINE V == View(A, n, l)
    <2>1. IsView(V, A, n, l)
      BY <1>7, ViewAt
    <2>2. l[1] = A.at[n] /\ l[2] = None /\ l[3] = no
      BY <1>11
    <2> HIDE DEF V
    <2>3. \A e \in Nat : Weak(A.at[e], V.at[e])
      <3> TAKE e \in Nat
      <3>1. CASE e < n \/ e = n
        BY <3>1, <2>1, <2>2, WeakSame DEF IsView
      <3>2. CASE e > n
        <4>1. Final(A.at[e])
          BY <3>2, <1>7
        <4>2. V.at[e] = None
          BY <3>2, <1>7, <2>1, <2>2, Split DEF IsView
        <4> QED
          BY <4>1, <4>2, FinalNone
      <3> QED
        BY <3>1, <3>2, <1>7
    <2> QED
      BY <2>1, <2>2, <2>3, <1>10 DEF IsView, V
  <1>15. /\ \A e \in Nat : Weak(View(A, n, m).at[e], C.at[e])
         /\ C.no \subseteq View(A, n, m).no
    <2> DEFINE V == View(A, n, m)
    <2>1. IsView(V, A, n, m)
      BY <1>7, ViewAt
    <2> HIDE DEF V
    <2>2. Weak(m[1], C.at[n])
      BY <1>8, <1>10, WeakTrans
    <2>3. \A e \in Nat : Weak(V.at[e], C.at[e])
      <3> TAKE e \in Nat
      <3>1. CASE e < n
        BY <3>1, <2>1, <1>7 DEF IsView
      <3>2. CASE e = n
        BY <3>2, <2>1, <2>2 DEF IsView
      <3>3. CASE e = n + 1
        BY <3>3, <2>1, <1>7, <1>10, FinalNone DEF IsView
      <3>4. CASE e > n + 1
        BY <3>4, <2>1, <1>7, WeakSame DEF IsView
      <3> QED
        BY <3>1, <3>2, <3>3, <3>4, Split, <1>7
    <2> QED
      BY <2>1, <2>3, <1>7, <1>10 DEF IsView, V
  <1>16. PICK N, R : N = Len(s) /\ R = Len(r)
    OBVIOUS
  <1>17. N \in Nat /\ R \in Nat /\ Len(todo) = R + 1 /\ Len(todo') = N + R
    BY <1>2, <1>13, <1>16
  <1> DEFINE d == [j \in 1 .. N + R + 1 |-> IF j <= N THEN View(A, n, L[j]) ELSE c[j + 1 - N]]
  <1>18. Closed(d[Len(todo') + 1])
    <2>1. d[N + R + 1] = c[R + 2]
      BY <1>17
    <2> HIDE DEF d
    <2>2. R + 2 = Len(todo) + 1 /\ N + R + 1 = Len(todo') + 1
      BY <1>17
    <2> QED
      BY <2>1, <2>2, <1>3
  <1>19. Described(d[1])'
    <2>0. PICK D : D = d[1]
      OBVIOUS
    <2>a. Preorder(tree) /\ Described(A)
      BY <1>3, <1>4 DEF ParserInv
    <2>1. CASE N = 0
      <3>1. D = C
        BY <2>0, <2>1, <1>4, <1>17
      <3>2. \A e \in Nat : Weak(A.at[e], C.at[e])
        <4> TAKE e \in Nat
        <4>1. l = m
          BY <2>1, <1>12, <1>16
        <4>2. Weak(A.at[e], View(A, n, l).at[e]) /\ Weak(View(A, n, l).at[e], C.at[e])
          BY <4>1, <1>14, <1>15
        <4> QED
          BY <4>2, WeakTrans
      <3>3. toklast \notin C.no
        BY <2>1, <1>12, <1>14, <1>15, <1>16
      <3>4. Described(D)
        BY <2>a, <3>1, <3>2, <3>3, DescribedWeak
      <3> QED
        BY <2>0, <3>4, <1>1, DescribedSame
    <2>2. CASE N > 0
      <3>1. D = View(A, n, l)
        BY <2>0, <2>2, <1>12, <1>17
      <3>2. Described(View(A, n, l))
        BY <2>a, <1>14, DescribedWeak
      <3> QED
        BY <2>0, <3>1, <3>2, <1>1, DescribedSame
    <2> QED
      BY <2>1, <2>2, <1>17
  <1>20. LeadsAll(todo', d)
    <2> SUFFICES ASSUME NEW j \in 1 .. N + R PROVE Leads(todo'[j], d[j], d[j + 1])
      BY <1>17 DEF LeadsAll
    <2>1. CASE j < N
      <3>1. Step(s[j], L[j], L[j + 1]) /\ todo'[j] = s[j]
        BY <2>1, <1>12, <1>13, <1>16, <1>17
      <3>2. d[j] = View(A, n, L[j]) /\ d[j + 1] = View(A, n, L[j + 1])
        BY <2>1, <1>17
      <3> HIDE DEF d
      <3> QED
        BY <3>1, <3>2, <1>2, <1>4, StepLeads
    <2>2. CASE j = N
      <3>1. Step(s[j], L[j], m) /\ todo'[j] = s[j]
        BY <2>2, <1>12, <1>13, <1>16, <1>17
      <3>2. d[j] = View(A, n, L[j]) /\ d[j + 1] = C
        BY <2>2, <1>4, <1>17
      <3> HIDE DEF d
      <3>3. Leads(s[j], View(A, n, L[j]), View(A, n, m))
        BY <3>1, <1>2, <1>4, StepLeads
      <3>4. Leads(s[j], View(A, n, L[j]), C)
        <4>1. s[j].d \in Nat
          BY <3>1, <1>2 DEF Step
        <4> QED
          BY <3>3, <4>1, <1>15, LeadsWeak
      <3> QED
        BY <3>1, <3>2, <3>4
    <2>3. CASE j > N
      <3>1. j - N \in 1 .. R /\ todo'[j] = r[j - N] /\ r[j - N] = todo[j - N + 1]
        <4>1. j - N \in 1 .. R /\ N + (j - N) = j
          BY <2>3, <1>17
        <4> QED
          BY <4>1, <1>2, <1>13, <1>16
      <3>2. d[j] = c[j - N + 1] /\ d[j + 1] = c[(j - N + 1) + 1]
        <4>1. j \in 1 .. N + R + 1 /\ j + 1 \in 1 .. N + R + 1 /\ ~(j <= N) /\ ~(j + 1 <= N)
              /\ j + 1 - N = j - N + 1 /\ j + 1 + 1 - N = (j - N + 1) + 1
          BY <2>3, <1>17
        <4> QED
          BY <4>1
      <3> HIDE DEF d
      <3>3. j - N + 1 \in 1 .. Len(todo)
        BY <3>1, <1>17
      <3> QED
        BY <3>1, <3>2, <3>3, <1>3 DEF LeadsAll
    <2> QED
      BY <2>1, <2>2, <2>3, <1>17
  <1> HIDE DEF d
  <1> QED
    BY <1>18, <1>19, <1>20

-----------------------------------------------------------------------------
(* The macros *)

\* The first item is done, and the view it leads to is true.
LEMMA ItemShape ==
  ASSUME ParserInv, NEW c, todo # << >>, todo' = Tail(todo),
         LeadsAll(todo, c), Closed(c[Len(todo) + 1]), Described(c[2])'
  PROVE  ShapeInv'
  <1>1. /\ Len(todo) \in Nat \ {0} /\ Len(todo') = Len(todo) - 1
        /\ \A j \in 1 .. Len(todo) - 1 : todo'[j] = todo[j + 1]
    BY Rest DEF ParserInv, Possible
  <1>2. PICK n \in Nat \ {0} : n = Len(todo)
    BY <1>1
  <1> DEFINE d == [j \in 1 .. n |-> c[j + 1]]
  <1>3. d[1] = c[2] /\ d[n] = c[n + 1]
    OBVIOUS
  <1>4. \A j \in 1 .. n - 1 : d[j] = c[j + 1] /\ d[j + 1] = c[j + 2]
    OBVIOUS
  <1> HIDE DEF d
  <1>5. LeadsAll(todo', d)
    <2> SUFFICES ASSUME NEW j \in 1 .. n - 1 PROVE Leads(todo'[j], d[j], d[j + 1])
      BY <1>1, <1>2 DEF LeadsAll
    <2>1. j + 1 \in 1 .. Len(todo) /\ todo'[j] = todo[j + 1] /\ (j + 1) + 1 = j + 2
      BY <1>1, <1>2
    <2>2. Leads(todo[j + 1], c[j + 1], c[j + 2])
      BY <2>1 DEF LeadsAll
    <2> QED
      BY <2>1, <2>2, <1>4
  <1>6. Closed(d[Len(todo') + 1])
    <2>1. Len(todo') + 1 = n
      BY <1>1, <1>2
    <2> QED
      BY <2>1, <1>2, <1>3
  <1>7. PICK D : D = d
    OBVIOUS
  <1>8. Described(D[1])'
    BY <1>3, <1>7
  <1> QED
    BY <1>5, <1>6, <1>7, <1>8 DEF ShapeInv

\* A macro: the first item is done and goes.
LEMMA Macro ==
  /\ \A x, a, b : /\ Moves("add_node", x, a, b) => Grows(a, x, b)
                  /\ Moves("compare_add_str", x, a, b) => Grows(a, x, b)
                  /\ ~Moves("compare", x, a, b) /\ ~Moves("compare_keyword", x, a, b)
                  /\ ~Moves("command_empty", x, a, b)
  /\ Excludes("add_node") = {} /\ Excludes("compare_add_str") = {}
  <1>1. ASSUME NEW x, NEW a, NEW b
        PROVE  /\ Moves("add_node", x, a, b) => Grows(a, x, b)
               /\ Moves("compare_add_str", x, a, b) => Grows(a, x, b)
    BY DEF Moves, OneOf, Path, Adders
  <1>2. ASSUME NEW x, NEW a, NEW b
        PROVE  /\ ~Moves("compare", x, a, b) /\ ~Moves("compare_keyword", x, a, b)
               /\ ~Moves("command_empty", x, a, b)
    BY DEF Moves, OneOf, Path, Adders
  <1>3. Excludes("add_node") = {} /\ Excludes("compare_add_str") = {}
    BY DEF Excludes
  <1> QED
    BY <1>1, <1>2, <1>3

\* An item that added a node ...
LEMMA AddedShape ==
  ASSUME ParserInv, NEW A, NEW B, NEW i, NEW x, i.do \in Adders, Leads(i, A, B), Described(A),
         i.d \in Nat, tree' = Append(tree, x), x.kind = i.x, x.d = i.d + 1
  PROVE  Described(B)'
  <1>1. ItemDone(i, A, B)
    BY DEF Leads, ItemDone, Adders, Fails, Passes
  <1>2. PICK b : Grows(A.at[i.d], i.x, b) /\ Weak(b, B.at[i.d])
    BY <1>1, Macro DEF ItemDone, Adders
  <1>3. B.no = {} /\ Weak(<<x.kind, "new">>, B.at[i.d + 1])
    BY <1>1, Macro DEF ItemDone, Adders
  <1>4. PICK d \in Nat : d = i.d
    OBVIOUS
  <1>5. /\ \A e \in Nat : e < d => Weak(A.at[e], B.at[e])
        /\ \A e \in Nat : e > d => Final(A.at[e])
    BY <1>1, <1>4 DEF ItemDone
  <1>6. Preorder(tree)
    BY DEF ParserInv
  <1>7. Grows(A.at[d], x.kind, b) /\ Weak(b, B.at[d]) /\ Weak(<<x.kind, "new">>, B.at[d + 1]) /\ x.d = d + 1
    BY <1>2, <1>3, <1>4
  <1> QED
    BY <1>3, <1>5, <1>6, <1>7, DescribedGrows

\* ... and one that took the look-ahead or said an error.
LEMMA PassedShape ==
  ASSUME ParserInv, NEW A, NEW B, NEW i, Passes(i), ~Fails(i), Leads(i, A, B), Described(A),
         tree' = tree
  PROVE  Described(B)'
  <1>1. (\A e \in Nat : Weak(A.at[e], B.at[e])) /\ B.no = {}
    BY Macro DEF Leads, Passes
  <1> QED
    BY <1>1, DescribedOn DEF ParserInv

\* The macros keep the promise ...
LEMMA MacrosShape == ASSUME ParserInv, ShapeInv, Macros PROVE ShapeInv'
  <1> SUFFICES ASSUME ~err_occured' PROVE ShapeInv'
    BY DEF ShapeInv
  <1>0. todo # << >> /\ todo' = Tail(todo) /\ ~err_occured
    BY DEF Macros, AddNode, CommandEmpty, ErrToken, Compare, CompareAddStr, At, Error
  <1>1. /\ Head(todo) = todo[1] /\ t = todo[1].d /\ t \in Nat
    BY <1>0, NodeThere
  <1>2. PICK c : LeadsAll(todo, c) /\ Closed(c[Len(todo) + 1]) /\ Described(c[1])
    BY <1>0 DEF ShapeInv
  <1>3. Leads(todo[1], c[1], c[2])
    <2>1. Len(todo) \in Nat \ {0}
      BY <1>0, Rest DEF ParserInv, Possible
    <2> QED
      BY <2>1, <1>2 DEF LeadsAll
  <1>4. PICK i, A, B : i = todo[1] /\ A = c[1] /\ B = c[2]
    OBVIOUS
  <1>5. Leads(i, A, B) /\ Described(A) /\ i.d \in Nat /\ Head(todo) = i /\ t = i.d
    BY <1>1, <1>2, <1>3, <1>4
  <1>6. SUFFICES Described(B)'
    BY <1>0, <1>2, <1>4, ItemShape
  <1>7. CASE AddNode
    <2>0. PICK x : x = [kind |-> i.x, d |-> i.d + 1, text |-> ""]
      OBVIOUS
    <2>1. i.do = "add_node" /\ tree' = Append(tree, x) /\ x.kind = i.x /\ x.d = i.d + 1
      BY <2>0, <1>5, <1>7 DEF AddNode, Added, At
    <2> QED
      BY <2>1, <1>5, AddedShape DEF Adders
  <1>8. CASE CompareAddStr
    <2>0. PICK x : x = [kind |-> i.x, d |-> i.d + 1, text |-> toklast]
      OBVIOUS
    <2>1. i.do = "compare_add_str" /\ tree' = Append(tree, x) /\ x.kind = i.x /\ x.d = i.d + 1
      BY <2>0, <1>5, <1>8 DEF CompareAddStr, Added, At, Error
    <2> QED
      BY <2>1, <1>5, AddedShape DEF Adders
  <1>9. CASE CommandEmpty
    <2>1. i.do = "command_empty" /\ tree' = tree
      BY <1>5, <1>9 DEF CommandEmpty, At
    <2> QED
      BY <2>1, <1>5, PassedShape DEF Passes, Fails
  <1>10. CASE Compare
    <2>1. i.do \in {"compare", "compare_keyword"} /\ tree' = tree /\ toklast = i.x
      BY <1>5, <1>10 DEF Compare, At, Error
    <2>2. toklast # "<&"
      <3>1. toklast \in Tokens \cup {"newline", "eof"}
        BY AlphabetsAssumption DEF ParserInv, LineOK
      <3>2. "<&" \notin Tokens \cup {"newline", "eof"}
        BY DEF Tokens, Words, Keywords, Redirects, FileOps
      <3> QED
        BY <3>1, <3>2
    <2> QED
      BY <2>1, <2>2, <1>5, PassedShape DEF Passes, Fails
  <1>11. CASE ErrToken
    BY <1>11 DEF ErrToken, Error
  <1> QED
    BY <1>7, <1>8, <1>9, <1>10, <1>11 DEF Macros

-----------------------------------------------------------------------------
(* Steps and runs *)

\* The function f takes its node from a to b, whatever the look-ahead.
Way(f, a, b) == f \notin Adders /\ Moves(f, "", a, b) /\ Needs(f, a) = {}

\* A function called for the node of this one ...
LEMMA StepHere ==
  ASSUME NEW i, NEW a, NEW p, NEW no, NEW b, NEW q, NEW mo,
         i.d = t, Final(p), Needs(i.do, a) \subseteq no, Moves(i.do, i.x, a, b),
         i.do \notin Adders, q = None, mo \subseteq Excludes(i.do)
  PROVE  Step(i, <<a, p, no>>, <<b, q, mo>>)
  <1>0. PICK l, m : l = <<a, p, no>> /\ m = <<b, q, mo>>
    OBVIOUS
  <1>1. l[1] = a /\ l[2] = p /\ l[3] = no
    BY <1>0
  <1>2. m[1] = b /\ m[2] = q /\ m[3] = mo
    BY <1>0
  <1>3. \A x : Weak(x, x)
    BY WeakSame
  <1>4. Step(i, l, m)
    BY <1>1, <1>2, <1>3 DEF Step
  <1> QED
    BY <1>0, <1>4

\* ... or for the node it has added.
LEMMA StepThere ==
  ASSUME NEW i, NEW a, NEW p, NEW no, NEW b, NEW q, NEW mo,
         i.d = t + 1, Needs(i.do, p) \subseteq no, Moves(i.do, i.x, p, q),
         i.do \notin Adders, b = a, mo \subseteq Excludes(i.do)
  PROVE  Step(i, <<a, p, no>>, <<b, q, mo>>)
  <1>0. PICK l, m : l = <<a, p, no>> /\ m = <<b, q, mo>>
    OBVIOUS
  <1>1. l[1] = a /\ l[2] = p /\ l[3] = no
    BY <1>0
  <1>2. m[1] = b /\ m[2] = q /\ m[3] = mo
    BY <1>0
  <1>3. \A x : Weak(x, x)
    BY WeakSame
  <1>4. Step(i, l, m)
    BY <1>1, <1>2, <1>3 DEF Step
  <1> QED
    BY <1>0, <1>4

\* The look-ahead is compared and goes on.
LEMMA StepPasses ==
  ASSUME NEW i, NEW a, NEW p, NEW no, NEW b, NEW q, NEW mo,
         i.d = t, Passes(i), Weak(a, b), q = p, mo = {}
  PROVE  Step(i, <<a, p, no>>, <<b, q, mo>>)
  <1>0. PICK l, m : l = <<a, p, no>> /\ m = <<b, q, mo>>
    OBVIOUS
  <1>1. l[1] = a /\ l[2] = p /\ l[3] = no
    BY <1>0
  <1>2. m[1] = b /\ m[2] = q /\ m[3] = mo
    BY <1>0
  <1>3. \A x : Weak(x, x)
    BY WeakSame
  <1>4. Step(i, l, m)
    BY <1>1, <1>2, <1>3 DEF Step
  <1> QED
    BY <1>0, <1>4

\* A call for the same node ...
LEMMA StepCall ==
  ASSUME NEW f, NEW a, NEW b, NEW p, NEW no, NEW mo, Way(f, a, b), Final(p),
  mo \subseteq Excludes(f)
  PROVE  Step(call(f), <<a, p, no>>, <<b, None, mo>>)
  <1>1. call(f).do = f /\ call(f).d = t /\ call(f).x = ""
    BY DEF call, Item
  <1>2. /\ Moves(call(f).do, call(f).x, a, b) /\ Needs(call(f).do, a) \subseteq no
        /\ call(f).do \notin Adders /\ mo \subseteq Excludes(call(f).do)
    BY <1>1 DEF Way
  <1> QED
    BY <1>1, <1>2, StepHere, Zenon

\* ... of a function that needs the look-ahead not to be some token ...
LEMMA StepNeeds ==
  ASSUME NEW f, NEW a, NEW b, NEW p, NEW no, NEW mo, f \notin Adders, Moves(f, "", a, b),
         Needs(f, a) \subseteq no, Final(p), mo \subseteq Excludes(f)
  PROVE  Step(call(f), <<a, p, no>>, <<b, None, mo>>)
  <1>1. call(f).do = f /\ call(f).d = t /\ call(f).x = ""
    BY DEF call, Item
  <1>2. /\ Moves(call(f).do, call(f).x, a, b) /\ Needs(call(f).do, a) \subseteq no
        /\ call(f).do \notin Adders /\ mo \subseteq Excludes(call(f).do)
    BY <1>1 
  <1> QED
    BY <1>1, <1>2, StepHere, Zenon

\* ... and a call for the node added last.
LEMMA StepBelow ==
  ASSUME NEW f, NEW a, NEW b, NEW h, NEW no, NEW mo, Way(f, a, b), mo \subseteq Excludes(f)
  PROVE  Step(below(f), <<h, a, no>>, <<h, b, mo>>)
  <1>1. below(f).do = f /\ below(f).d = t + 1 /\ below(f).x = ""
    BY DEF below, Item
  <1>2. /\ Moves(below(f).do, below(f).x, a, b) /\ Needs(below(f).do, a) \subseteq no
        /\ below(f).do \notin Adders /\ mo \subseteq Excludes(below(f).do)
    BY <1>1 DEF Way
  <1> QED
    BY <1>1, <1>2, StepThere, Zenon

\* A new node below this one.
LEMMA StepAdd ==
  ASSUME NEW k, NEW a, NEW b, NEW p, NEW no, Grows(a, k, b), Final(p)
  PROVE  Step(add_node(k), <<a, p, no>>, <<b, <<k, "new">>, {}>>)
  <1>1. add_node(k).do = "add_node" /\ add_node(k).d = t /\ add_node(k).x = k
    BY ItemIs DEF add_node
  <1>2. Moves("add_node", k, a, b) /\ Needs("add_node", a) = {}
    BY DEF Moves, Adders, Needs
  <1> QED
    BY <1>1, <1>2, WeakSame DEF Step, Adders

\* A new leaf with the text of the look-ahead, below this node ...
LEMMA StepText ==
  ASSUME NEW k \in Leaves, NEW a, NEW b, NEW p, NEW no, Grows(a, k, b), Final(p)
  PROVE  Step(compare_add_str(k, t), <<a, p, no>>, <<b, None, {}>>)
  <1>1. /\ compare_add_str(k, t).do = "compare_add_str" /\ compare_add_str(k, t).d = t
        /\ compare_add_str(k, t).x = k
    BY ItemIs DEF compare_add_str
  <1>2. Moves("compare_add_str", k, a, b) /\ Needs("compare_add_str", a) = {}
    BY DEF Moves, Adders, Needs
  <1>3. Weak(<<k, "new">>, None)
    <2>1. Final(<<k, "new">>)
      BY DEF Final
    <2> QED
      BY <2>1, FinalNone
  <1> QED
    BY <1>1, <1>2, <1>3, WeakSame DEF Step, Adders

\* ... or below the one added last.
LEMMA StepTextBelow ==
  ASSUME NEW k \in Leaves, NEW a, NEW b, NEW h, NEW no, Grows(a, k, b)
  PROVE  Step(compare_add_str(k, t + 1), <<h, a, no>>, <<h, b, {}>>)
  <1>1. /\ compare_add_str(k, t + 1).do = "compare_add_str" /\ compare_add_str(k, t + 1).d = t + 1
        /\ compare_add_str(k, t + 1).x = k
    BY ItemIs DEF compare_add_str
  <1>2. Moves("compare_add_str", k, a, b) /\ Needs("compare_add_str", a) = {}
    BY DEF Moves, Adders, Needs
  <1> QED
    BY <1>1, <1>2, WeakSame DEF Step, Adders

\* The macros that only look.
LEMMA StepCompare ==
  ASSUME NEW k, NEW a, NEW b, NEW p, NEW no, Weak(a, b)
  PROVE  /\ Step(compare(k), <<a, p, no>>, <<b, p, {}>>)
         /\ Step(compare_keyword(k), <<a, p, no>>, <<b, p, {}>>)
         /\ Step(may_be_empty(k), <<a, p, no>>, <<b, p, {}>>)
  <1>1. /\ compare(k).do = "compare" /\ compare(k).d = t
        /\ compare_keyword(k).do = "compare_keyword" /\ compare_keyword(k).d = t
        /\ may_be_empty(k).do = "command_empty" /\ may_be_empty(k).d = t
    BY DEF compare, compare_keyword, may_be_empty, Item
  <1>2. Passes(compare(k)) /\ Passes(compare_keyword(k)) /\ Passes(may_be_empty(k))
    BY <1>1 DEF Passes
  <1> QED
    BY <1>1, <1>2, StepPasses, Zenon

\* Behind an error anything may be assumed.
LEMMA StepError ==
  ASSUME NEW l, NEW m
  PROVE  Step(errtoken, l, m) /\ Step(compare("<&"), l, m)
  <1>1. /\ errtoken.do = "errtoken" /\ errtoken.d = t
        /\ compare("<&").do = "compare" /\ compare("<&").d = t /\ compare("<&").x = "<&"
    BY DEF errtoken, compare, Item
  <1>2. Fails(errtoken) /\ Fails(compare("<&"))
    BY <1>1 DEF Fails
  <1> QED
    BY <1>1, <1>2 DEF Step

\* Runs of no item up to eight, as in the proofs of Proper0 to Proper8.
LEMMA Run0 == ASSUME NEW l PROVE Run(<< >>, l, l)
  <1>1. << >> \in Seq({}) /\ Len(<< >>) = 0
    OBVIOUS
  <1>2. PICK L : L[1] = l
    <2>1. [i \in {1} |-> l][1] = l
      OBVIOUS
    <2> QED
      BY <2>1
  <1> QED
    BY <1>1, <1>2 DEF Run, IsSeq

LEMMA Run1 ==
  ASSUME NEW a,
         NEW l0, NEW l1,
         Step(a, l0, l1)
  PROVE  Run(<<a>>, l0, l1)
  <1> DEFINE s == <<a>>
             L == <<l0, l1>>
  <1>1. /\ s \in Seq({a}) /\ Len(s) = 1
        /\ s[1] = a
    OBVIOUS
  <1>2. L[1] = l0 /\ L[2] = l1
    OBVIOUS
  <1> HIDE DEF s, L
  <1>3. \A i \in 1 .. 1 : i = 1
    OBVIOUS
  <1>4. \A i \in 1 .. 1 : Step(s[i], L[i], L[i + 1])
    BY <1>1, <1>2, <1>3
  <1>5. Run(s, l0, l1)
    BY <1>1, <1>2, <1>4 DEF Run, IsSeq
  <1> QED
    BY <1>5 DEF s

LEMMA Run2 ==
  ASSUME NEW a, NEW b,
         NEW l0, NEW l1, NEW l2,
         Step(a, l0, l1), Step(b, l1, l2)
  PROVE  Run(<<a, b>>, l0, l2)
  <1> DEFINE s == <<a, b>>
             L == <<l0, l1, l2>>
  <1>1. /\ s \in Seq({a, b}) /\ Len(s) = 2
        /\ s[1] = a /\ s[2] = b
    OBVIOUS
  <1>2. L[1] = l0 /\ L[2] = l1 /\ L[3] = l2
    OBVIOUS
  <1> HIDE DEF s, L
  <1>3. \A i \in 1 .. 2 : i = 1 \/ i = 2
    OBVIOUS
  <1>4. \A i \in 1 .. 2 : Step(s[i], L[i], L[i + 1])
    BY <1>1, <1>2, <1>3
  <1>5. Run(s, l0, l2)
    BY <1>1, <1>2, <1>4 DEF Run, IsSeq
  <1> QED
    BY <1>5 DEF s

LEMMA Run3 ==
  ASSUME NEW a, NEW b, NEW c,
         NEW l0, NEW l1, NEW l2, NEW l3,
         Step(a, l0, l1), Step(b, l1, l2), Step(c, l2, l3)
  PROVE  Run(<<a, b, c>>, l0, l3)
  <1> DEFINE s == <<a, b, c>>
             L == <<l0, l1, l2, l3>>
  <1>1. /\ s \in Seq({a, b, c}) /\ Len(s) = 3
        /\ s[1] = a /\ s[2] = b /\ s[3] = c
    OBVIOUS
  <1>2. L[1] = l0 /\ L[2] = l1 /\ L[3] = l2 /\ L[4] = l3
    OBVIOUS
  <1> HIDE DEF s, L
  <1>3. \A i \in 1 .. 3 : i = 1 \/ i = 2 \/ i = 3
    OBVIOUS
  <1>4. \A i \in 1 .. 3 : Step(s[i], L[i], L[i + 1])
    BY <1>1, <1>2, <1>3
  <1>5. Run(s, l0, l3)
    BY <1>1, <1>2, <1>4 DEF Run, IsSeq
  <1> QED
    BY <1>5 DEF s

LEMMA Run4 ==
  ASSUME NEW a, NEW b, NEW c, NEW d,
         NEW l0, NEW l1, NEW l2, NEW l3, NEW l4,
         Step(a, l0, l1), Step(b, l1, l2), Step(c, l2, l3), Step(d, l3, l4)
  PROVE  Run(<<a, b, c, d>>, l0, l4)
  <1> DEFINE s == <<a, b, c, d>>
             L == <<l0, l1, l2, l3, l4>>
  <1>1. /\ s \in Seq({a, b, c, d}) /\ Len(s) = 4
        /\ s[1] = a /\ s[2] = b /\ s[3] = c /\ s[4] = d
    OBVIOUS
  <1>2. L[1] = l0 /\ L[2] = l1 /\ L[3] = l2 /\ L[4] = l3 /\ L[5] = l4
    OBVIOUS
  <1> HIDE DEF s, L
  <1>3. \A i \in 1 .. 4 : i = 1 \/ i = 2 \/ i = 3 \/ i = 4
    OBVIOUS
  <1>4. \A i \in 1 .. 4 : Step(s[i], L[i], L[i + 1])
    BY <1>1, <1>2, <1>3
  <1>5. Run(s, l0, l4)
    BY <1>1, <1>2, <1>4 DEF Run, IsSeq
  <1> QED
    BY <1>5 DEF s

LEMMA Run5 ==
  ASSUME NEW a, NEW b, NEW c, NEW d, NEW e,
         NEW l0, NEW l1, NEW l2, NEW l3, NEW l4, NEW l5,
         Step(a, l0, l1), Step(b, l1, l2), Step(c, l2, l3), Step(d, l3, l4), Step(e, l4, l5)
  PROVE  Run(<<a, b, c, d, e>>, l0, l5)
  <1> DEFINE s == <<a, b, c, d, e>>
             L == <<l0, l1, l2, l3, l4, l5>>
  <1>1. /\ s \in Seq({a, b, c, d, e}) /\ Len(s) = 5
        /\ s[1] = a /\ s[2] = b /\ s[3] = c /\ s[4] = d /\ s[5] = e
    OBVIOUS
  <1>2. L[1] = l0 /\ L[2] = l1 /\ L[3] = l2 /\ L[4] = l3 /\ L[5] = l4 /\ L[6] = l5
    OBVIOUS
  <1> HIDE DEF s, L
  <1>3. \A i \in 1 .. 5 : i = 1 \/ i = 2 \/ i = 3 \/ i = 4 \/ i = 5
    OBVIOUS
  <1>4. \A i \in 1 .. 5 : Step(s[i], L[i], L[i + 1])
    BY <1>1, <1>2, <1>3
  <1>5. Run(s, l0, l5)
    BY <1>1, <1>2, <1>4 DEF Run, IsSeq
  <1> QED
    BY <1>5 DEF s

LEMMA Run6 ==
  ASSUME NEW a, NEW b, NEW c, NEW d, NEW e, NEW f,
         NEW l0, NEW l1, NEW l2, NEW l3, NEW l4, NEW l5, NEW l6,
         Step(a, l0, l1), Step(b, l1, l2), Step(c, l2, l3), Step(d, l3, l4), Step(e, l4, l5),
         Step(f, l5, l6)
  PROVE  Run(<<a, b, c, d, e, f>>, l0, l6)
  <1> DEFINE s == <<a, b, c, d, e, f>>
             L == <<l0, l1, l2, l3, l4, l5, l6>>
  <1>1. /\ s \in Seq({a, b, c, d, e, f}) /\ Len(s) = 6
        /\ s[1] = a /\ s[2] = b /\ s[3] = c /\ s[4] = d /\ s[5] = e /\ s[6] = f
    OBVIOUS
  <1>2. L[1] = l0 /\ L[2] = l1 /\ L[3] = l2 /\ L[4] = l3 /\ L[5] = l4 /\ L[6] = l5 /\ L[7] = l6
    OBVIOUS
  <1> HIDE DEF s, L
  <1>3. \A i \in 1 .. 6 : i = 1 \/ i = 2 \/ i = 3 \/ i = 4 \/ i = 5 \/ i = 6
    OBVIOUS
  <1>4. \A i \in 1 .. 6 : Step(s[i], L[i], L[i + 1])
    BY <1>1, <1>2, <1>3
  <1>5. Run(s, l0, l6)
    BY <1>1, <1>2, <1>4 DEF Run, IsSeq
  <1> QED
    BY <1>5 DEF s

LEMMA Run7 ==
  ASSUME NEW a, NEW b, NEW c, NEW d, NEW e, NEW f, NEW g,
         NEW l0, NEW l1, NEW l2, NEW l3, NEW l4, NEW l5, NEW l6, NEW l7,
         Step(a, l0, l1), Step(b, l1, l2), Step(c, l2, l3), Step(d, l3, l4), Step(e, l4, l5),
         Step(f, l5, l6), Step(g, l6, l7)
  PROVE  Run(<<a, b, c, d, e, f, g>>, l0, l7)
  <1> DEFINE s == <<a, b, c, d, e, f, g>>
             L == <<l0, l1, l2, l3, l4, l5, l6, l7>>
  <1>1. /\ s \in Seq({a, b, c, d, e, f, g}) /\ Len(s) = 7
        /\ s[1] = a /\ s[2] = b /\ s[3] = c /\ s[4] = d /\ s[5] = e /\ s[6] = f /\ s[7] = g
    OBVIOUS
  <1>2. L[1] = l0 /\ L[2] = l1 /\ L[3] = l2 /\ L[4] = l3 /\ L[5] = l4 /\ L[6] = l5 /\ L[7] = l6 /\ L[8] = l7
    OBVIOUS
  <1> HIDE DEF s, L
  <1>3. \A i \in 1 .. 7 : i = 1 \/ i = 2 \/ i = 3 \/ i = 4 \/ i = 5 \/ i = 6 \/ i = 7
    OBVIOUS
  <1>4. \A i \in 1 .. 7 : Step(s[i], L[i], L[i + 1])
    BY <1>1, <1>2, <1>3
  <1>5. Run(s, l0, l7)
    BY <1>1, <1>2, <1>4 DEF Run, IsSeq
  <1> QED
    BY <1>5 DEF s

LEMMA Run8 ==
  ASSUME NEW a, NEW b, NEW c, NEW d, NEW e, NEW f, NEW g, NEW h,
         NEW l0, NEW l1, NEW l2, NEW l3, NEW l4, NEW l5, NEW l6, NEW l7, NEW l8,
         Step(a, l0, l1), Step(b, l1, l2), Step(c, l2, l3), Step(d, l3, l4), Step(e, l4, l5),
         Step(f, l5, l6), Step(g, l6, l7), Step(h, l7, l8)
  PROVE  Run(<<a, b, c, d, e, f, g, h>>, l0, l8)
  <1> DEFINE s == <<a, b, c, d, e, f, g, h>>
             L == <<l0, l1, l2, l3, l4, l5, l6, l7, l8>>
  <1>1. /\ s \in Seq({a, b, c, d, e, f, g, h}) /\ Len(s) = 8
        /\ s[1] = a /\ s[2] = b /\ s[3] = c /\ s[4] = d /\ s[5] = e /\ s[6] = f /\ s[7] = g /\ s[8] = h
    OBVIOUS
  <1>2. L[1] = l0 /\ L[2] = l1 /\ L[3] = l2 /\ L[4] = l3 /\ L[5] = l4 /\ L[6] = l5 /\ L[7] = l6 /\ L[8] = l7 /\ L[9] = l8
    OBVIOUS
  <1> HIDE DEF s, L
  <1>3. \A i \in 1 .. 8 : i = 1 \/ i = 2 \/ i = 3 \/ i = 4 \/ i = 5 \/ i = 6 \/ i = 7 \/ i = 8
    OBVIOUS
  <1>4. \A i \in 1 .. 8 : Step(s[i], L[i], L[i + 1])
    BY <1>1, <1>2, <1>3
  <1>5. Run(s, l0, l8)
    BY <1>1, <1>2, <1>4 DEF Run, IsSeq
  <1> QED
    BY <1>5 DEF s

\* Two runs, one behind the other.
LEMMA RunJoined ==
  ASSUME NEW a, NEW b, NEW l, NEW m, NEW n, Run(a, l, m), Run(b, m, n)
  PROVE  Run(a \o b, l, n)
  <1>1. PICK K : K[1] = l /\ K[Len(a) + 1] = m /\ \A i \in 1 .. Len(a) : Step(a[i], K[i], K[i + 1])
    BY DEF Run
  <1>2. PICK L : L[1] = m /\ L[Len(b) + 1] = n /\ \A i \in 1 .. Len(b) : Step(b[i], L[i], L[i + 1])
    BY DEF Run
  <1> DEFINE w == a \o b
  <1>3. /\ IsSeq(w) /\ Len(a) \in Nat /\ Len(b) \in Nat /\ Len(w) = Len(a) + Len(b)
        /\ \A i \in 1 .. Len(a) : w[i] = a[i]
        /\ \A i \in 1 .. Len(b) : w[Len(a) + i] = b[i]
    BY Joined DEF Run
  <1> HIDE DEF w
  <1>4. PICK p, q : p = Len(a) /\ q = Len(b)
    OBVIOUS
  <1> DEFINE M == [i \in 1 .. p + q + 1 |-> IF i <= p THEN K[i] ELSE L[i - p]]
  <1>5. M[1] = l
    BY <1>1, <1>2, <1>3, <1>4
  <1>6. M[p + q + 1] = n
    BY <1>1, <1>2, <1>3, <1>4
  <1>7. ASSUME NEW i \in 1 .. p + q PROVE Step(w[i], M[i], M[i + 1])
    <2>1. CASE i < p
      BY <2>1, <1>1, <1>3, <1>4
    <2>2. CASE i = p
      <3>1. w[i] = a[i] /\ M[i] = K[i] /\ M[i + 1] = L[1]
        BY <2>2, <1>3, <1>4
      <3>2. Step(a[i], K[i], m)
        BY <2>2, <1>1, <1>4
      <3> QED
        BY <3>1, <3>2, <1>2
    <2>3. CASE i > p
      <3>1. i - p \in 1 .. q /\ p + (i - p) = i /\ i + 1 - p = (i - p) + 1
        BY <2>3, <1>3, <1>4
      <3>2. w[i] = b[i - p]
        BY <3>1, <1>3, <1>4
      <3>3. M[i] = L[i - p] /\ M[i + 1] = L[(i - p) + 1]
        <4>1. /\ p \in Nat /\ q \in Nat /\ i \in 1 .. p + q + 1 /\ i + 1 \in 1 .. p + q + 1
              /\ ~(i <= p) /\ ~(i + 1 <= p)
          BY <2>3, <1>3, <1>4
        <4>2. M[i] = L[i - p] /\ M[i + 1] = L[i + 1 - p]
          BY <4>1
        <4> QED
          BY <3>1, <4>2
      <3> HIDE DEF M
      <3> QED
        BY <3>1, <3>2, <3>3, <1>2, <1>4
    <2> QED
      BY <2>1, <2>2, <2>3, <1>3, <1>4
  <1> HIDE DEF M
  <1>8. Run(w, l, n)
    BY <1>3, <1>4, <1>5, <1>6, <1>7 DEF Run
  <1> QED
    BY <1>8 DEF w

\* A run that got to m has done what is said of f.
Ends(f, m, b) == Weak(m[1], b) /\ Final(m[2]) /\ Excludes(f) \subseteq m[3]

\* Places a node can be left at.
LEMMA Finals ==
  /\ Final(None) /\ \A k : Final(<<k, "done">>)
  /\ \A k \in Leaves \cup {"root", "command"} : Final(<<k, "new">>)
  /\ Final(<<"command", "compound">>) /\ Final(<<"if", "then">>) /\ Final(<<"caseitem", "pattern">>)
  BY DEF Final, None

\* ... and where a run ends at one.
LEMMA EndsWith ==
  ASSUME NEW f, NEW a, NEW b, NEW p, NEW no, Weak(a, b), Final(p), Excludes(f) \subseteq no
  PROVE  Ends(f, <<a, p, no>>, b)
  BY DEF Ends

\* Ways to show that a body is sound: by its definition ...
LEMMA SoundIf ==
  ASSUME NEW f, NEW s,
         \A a, b : Moves(f, "", a, b) /\ toklast \notin Needs(f, a) =>
           \E no, m : toklast \notin no /\ Run(s, <<a, None, no>>, m) /\ Ends(f, m, b)
  PROVE  Sound(f, s)
  BY DEF Sound, Ends

\* ... when nothing is done ...
LEMMA SoundNil ==
  ASSUME NEW f, \A a, b : Moves(f, "", a, b) => Weak(a, b), toklast \notin Excludes(f)
  PROVE  Sound(f, << >>)
  <1> SUFFICES ASSUME NEW a, NEW b, Weak(a, b)
               PROVE  \E no, m : toklast \notin no /\ Run(<< >>, <<a, None, no>>, m) /\ Ends(f, m, b)
    BY SoundIf
  <1>1. Run(<< >>, <<a, None, Excludes(f)>>, <<a, None, Excludes(f)>>)
    BY Run0
  <1>2. Ends(f, <<a, None, Excludes(f)>>, b)
    BY FinalNone, EndsWith
  <1> QED
    BY <1>1, <1>2

\* ... and when the function has two alternatives.
LEMMA SoundEither ==
  ASSUME NEW f, NEW toks, NEW yes, NEW no, toklast \in toks => Sound(f, yes),
         toklast \notin toks => Sound(f, no)
  PROVE  Sound(f, Either(toks, yes, no))
  BY DEF Either

-----------------------------------------------------------------------------
(* What the functions do, read off the tables *)

\* The items s take the node from a to b.
Does(f, s, a, b) ==
  \E no, m : toklast \notin no /\ Run(s, <<a, None, no>>, m) /\ Ends(f, m, b)

\* It does so by a run.
LEMMA DoneBy ==
  ASSUME NEW f, NEW s, NEW a, NEW b, NEW q, NEW p, NEW mo,
  Run(s, <<a, None, {}>>, <<q, p, mo>>),
         Weak(q, b), Final(p), Excludes(f) \subseteq mo
  PROVE  Does(f, s, a, b)
  <1>1. Ends(f, <<q, p, mo>>, b)
    BY EndsWith
  <1> QED
    BY <1>1 DEF Does

\* A function that asks nothing of the look-ahead ...
Free(f) == f \notin Adders /\ \A a : Needs(f, a) = {}

\* ... which is all but three of them.
LEMMA Frees ==
  \A f : f \notin {"add_node", "compare_add_str", "complete_command_rest", "compound_list_rest",
                   "separator"} => Free(f)
  BY DEF Free, Adders, Needs

\* A function that asks nothing is sound when its items do each of its ways.
LEMMA SoundWay ==
  ASSUME NEW f, NEW s, Free(f),
         \A a, b : Way(f, a, b) => Does(f, s, a, b)
  PROVE  Sound(f, s)
  <1> SUFFICES ASSUME NEW a, NEW b, Moves(f, "", a, b) PROVE Does(f, s, a, b)
    BY SoundIf DEF Does, Free
  <1> QED
    BY DEF Way, Free

\* Weakenings that occur.
LEMMA WeakTo ==
  /\ \A a : Weak(a, a)
  /\ Weak(<<"root", "new">>, <<"root", "done">>)
  /\ Weak(<<"list", "done">>, <<"list", "more">>)
  /\ Weak(<<"compound", "done">>, <<"compound", "more">>)
  /\ Weak(<<"if", "then">>, <<"if", "done">>)
  /\ Weak(<<"caseitem", "pattern">>, <<"caseitem", "done">>)
  BY DEF Weak, Final

\* Nothing is done where the place need not change ...
LEMMA SoundNone ==
  ASSUME NEW f, Free(f),
         \A a, b : Way(f, a, b) => Weak(a, b), toklast \notin Excludes(f)
  PROVE  Sound(f, << >>)
  <1>1. \A a, b : Moves(f, "", a, b) => Weak(a, b)
    BY DEF Way, Free
  <1> QED
    BY <1>1, SoundNil

\* ... and nothing can be wrong where no way leads.
LEMMA SoundNever ==
  ASSUME NEW f, NEW s, \A a : toklast \in Needs(f, a)
  PROVE  Sound(f, s)
  BY DEF Sound

\* Two bodies, one behind the other.
LEMMA DoneJoined ==
  ASSUME NEW f, NEW s, NEW r, NEW a, NEW b, NEW l, NEW q, NEW p, NEW mo,
         Run(s, <<a, None, {}>>, l), Run(r, l, <<q, p, mo>>),
         Weak(q, b), Final(p), Excludes(f) \subseteq mo
  PROVE  Does(f, s \o r, a, b)
  <1>1. Run(s \o r, <<a, None, {}>>, <<q, p, mo>>)
    BY RunJoined
  <1> QED
    BY <1>1, DoneBy

\* The three functions that ask something of the look-ahead.
LEMMA Needy ==
  /\ \A f \in {"complete_command_rest", "compound_list_rest", "separator"} : f \notin Adders
  /\ \A a : Needs("complete_command_rest", a) = {"&", ";"}
  /\ \A a : Needs("compound_list_rest", a) = {"&", ";", "newline"}
  /\ Needs("separator", <<"root", "done">>) = {"&", ";"}
  /\ \A a, b : /\ Moves("complete_command_rest", "", a, b) <=> a = <<"root", "done">> /\ b = a
               /\ Moves("compound_list_rest", "", a, b) <=> a = <<"compound", "done">> /\ b = a
               /\ Moves("separator", "", a, b) <=>
                    \/ a = <<"compound", "done">> /\ b = <<"compound", "more">>
                    \/ a = <<"root", "done">> /\ b = a
  <1>1. \A a : /\ Needs("complete_command_rest", a) = {"&", ";"}
               /\ Needs("compound_list_rest", a) = {"&", ";", "newline"}
    BY DEF Needs
  <1>2. Needs("separator", <<"root", "done">>) = {"&", ";"}
    BY DEF Needs
  <1>3. \A f \in {"complete_command_rest", "compound_list_rest", "separator"} : f \notin Adders
    BY DEF Adders
  <1>4. ASSUME NEW a, NEW b
        PROVE  /\ Moves("complete_command_rest", "", a, b) <=> a = <<"root", "done">> /\ b = a
               /\ Moves("compound_list_rest", "", a, b) <=> a = <<"compound", "done">> /\ b = a
               /\ Moves("separator", "", a, b) <=>
                    \/ a = <<"compound", "done">> /\ b = <<"compound", "more">>
                    \/ a = <<"root", "done">> /\ b = a
    BY DEF Moves, OneOf, Path, Adders
  <1> QED
    BY <1>1, <1>2, <1>3, <1>4

\* What each function says of the look-ahead when it has returned.
LEMMA Excluded ==
  /\ \A f : f \notin {"list", "list_rest", "term", "term_rest"} => Excludes(f) = {}
  /\ Excludes("list") = {"&", ";"} /\ Excludes("list_rest") = {"&", ";"}
  /\ Excludes("term") = {"&", ";", "newline"} /\ Excludes("term_rest") = {"&", ";", "newline"}
  BY DEF Excludes

\* Nothing done, and the look-ahead is what is promised.
LEMMA SoundStay ==
  ASSUME NEW f, NEW s, Free(f), \A a, b : Way(f, a, b) => b = a, toklast \notin Excludes(f)
  PROVE  Sound(f, << >>)
  <1>1. \A a, b : Way(f, a, b) => Weak(a, b)
    BY WeakSame
  <1> QED
    BY <1>1, SoundNone

\* A function that asks something of the look-ahead finds it so.
LEMMA SoundNeedy ==
  ASSUME NEW f, NEW s,
         \A a, b : Moves(f, "", a, b) /\ toklast \notin Needs(f, a) => Does(f, s, a, b)
  PROVE  Sound(f, s)
  BY SoundIf DEF Does

\* Nothing is missing below a leaf.
LEMMA LeavesFinal ==
  \A k \in {"word", "name", "&", "in", "<", "<>", "<<"} : Final(<<k, "new">>)
  BY DEF Final, Leaves

\* The ways of the functions, read off the tables.
LEMMA ListWays ==
  ASSUME NEW a, NEW b
  PROVE  /\ Way("list", a, b) <=> Grows(a, "list", b)
         /\ Way("and_or", a, b) <=> Grows(a, "andor", b)
         /\ Way("pipeline", a, b) <=> Grows(a, "bang", b) /\ Grows(a, "pipeline", b)
         /\ Way("pipe_sequence", a, b) <=> Grows(a, "pipeline", b)
         /\ Way("complete_command", a, b) <=> a = <<"root", "new">> /\ b = <<"root", "done">>
         /\ Way("list_rest", a, b) <=> a = <<"list", "done">> /\ b = a
         /\ Way("and_or_rest", a, b) <=> a = <<"andor", "done">> /\ b = a
         /\ Way("pipe_sequence_rest", a, b) <=> a = <<"pipeline", "done">> /\ b = a
  BY DEF Way, Moves, OneOf, Path, Adders, Needs, Compounds

LEMMA CommandWays ==
  ASSUME NEW a, NEW b
  PROVE  /\ Way("command", a, b) <=> Grows(a, "command", b)
         /\ Way("compound_command", a, b) <=> (\A k \in Compounds : Grows(a, k, b))
         /\ Way("brace_group", a, b) <=> Grows(a, "compound", b)
         /\ Way("compound_list", a, b) <=> Grows(a, "compound", b)
         /\ Way("do_group", a, b) <=> Grows(a, "compound", b)
         /\ Way("subshell", a, b) <=> Grows(a, "subshell", b)
         /\ Way("while_clause", a, b) <=> Grows(a, "while", b)
         /\ Way("until_clause", a, b) <=> Grows(a, "until", b)
         /\ Way("command_rest", a, b) <=>
              a \in {<<"command", "compound">>, <<"function", "done">>} /\ b = a
         /\ Way("compound_list_body", a, b) <=>
              a = <<"compound", "new">> /\ b = <<"compound", "done">>
         /\ Way("term", a, b) <=> a = <<"compound", "new">> /\ b = <<"compound", "done">>
         /\ Way("term_rest", a, b) <=> a = <<"compound", "done">> /\ b = a
  BY DEF Way, Moves, OneOf, Path, Adders, Needs, Compounds

LEMMA ClauseWays ==
  ASSUME NEW a, NEW b
  PROVE  /\ Way("for_clause", a, b) <=> Grows(a, "for", b)
         /\ Way("case_clause", a, b) <=> Grows(a, "case", b)
         /\ Way("if_clause", a, b) <=> Grows(a, "if", b)
         /\ Way("name", a, b) <=> Grows(a, "name", b)
         /\ Way("fname", a, b) <=> Grows(a, "name", b)
         /\ Way("in", a, b) <=> Grows(a, "in", b)
         /\ Way("pattern", a, b) <=> Grows(a, "pattern", b)
         /\ Way("case_item_start", a, b) <=> Grows(a, "pattern", b)
         /\ Way("function_definition", a, b) <=> Grows(a, "function", b)
         /\ Way("for_clause_rest_1", a, b) <=> a = <<"for", "named">> /\ b = <<"for", "done">>
         /\ Way("for_clause_rest_2", a, b) <=> a = <<"for", "words">> /\ b = <<"for", "done">>
         /\ Way("wordlist", a, b) <=> a = <<"for", "words">> /\ b = a
         /\ Way("wordlist_rest", a, b) <=> a = <<"for", "words">> /\ b = a
         /\ Way("case_list", a, b) <=> a = <<"case", "done">> /\ b = a
         /\ Way("case_list_rest", a, b) <=> a = <<"case", "done">> /\ b = a
         /\ Way("case_item_body", a, b) <=>
              a = <<"caseitem", "pattern">> /\ b = <<"caseitem", "done">>
         /\ Way("case_item_list", a, b) <=>
              a = <<"caseitem", "pattern">> /\ b = <<"caseitem", "done">>
         /\ Way("pattern_rest", a, b) <=> a = <<"pattern", "done">> /\ b = a
         /\ Way("if_clause_rest", a, b) <=> a = <<"if", "then">> /\ b = <<"if", "done">>
         /\ Way("else_part", a, b) <=> a = <<"if", "then">> /\ b = <<"if", "done">>
         /\ Way("function_body", a, b) <=>
              a = <<"function", "named">> /\ b = <<"function", "done">>
  BY DEF Way, Moves, OneOf, Path, Adders, Needs, Compounds

LEMMA SimpleWays ==
  ASSUME NEW a, NEW b
  PROVE  /\ Way("cmd_name", a, b) <=> Grows(a, "word", b)
         /\ Way("io_redirect", a, b) <=> Grows(a, "redirect", b)
         /\ Way("simple_command", a, b) <=> Grows(a, "simple", b)
         /\ Way("redirection_list", a, b) <=>
              a \in {<<"command", "compound">>, <<"function", "done">>} /\ b = a
         /\ Way("redirection_list_rest", a, b) <=>
              a \in {<<"command", "compound">>, <<"function", "done">>} /\ b = a
         /\ Way("simple_command_rest_1", a, b) <=> a = <<"simple", "done">> /\ b = a
         /\ Way("simple_command_rest_2", a, b) <=> a = <<"simple", "done">> /\ b = a
         /\ Way("cmd_prefix", a, b) <=> a = <<"simple", "new">> /\ b = <<"simple", "done">>
         /\ Way("cmd_prefix_rest", a, b) <=> a = <<"simple", "done">> /\ b = a
         /\ Way("cmd_suffix", a, b) <=> a = <<"simple", "done">> /\ b = a
         /\ Way("cmd_suffix_rest", a, b) <=> a = <<"simple", "done">> /\ b = a
         /\ Way("io_redirect_rest", a, b) <=>
              a \in {<<"redirect", "new">>, <<"redirect", "number">>} /\ b = <<"redirect", "done">>
         /\ Way("io_file", a, b) <=>
              a \in {<<"redirect", "new">>, <<"redirect", "number">>} /\ b = <<"redirect", "done">>
         /\ Way("io_here", a, b) <=>
              a \in {<<"redirect", "new">>, <<"redirect", "number">>} /\ b = <<"redirect", "done">>
  BY DEF Way, Moves, OneOf, Path, Adders, Needs, Compounds

LEMMA BreakWays ==
  ASSUME NEW a, NEW b
  PROVE  /\ Way("separator_op", a, b) <=> 
              \E k \in {"list", "compound"} : a = <<k, "done">> /\ b = <<k, "more">>
         /\ Way("separator", a, b) <=> a = <<"compound", "done">> /\ b = <<"compound", "more">>
         /\ Way("linebreak", a, b) <=> b = a
         /\ Way("newline_list", a, b) <=> b = a
         /\ Way("sequential_sep", a, b) <=> b = a
  <1>1. Way("separator_op", a, b) <=> 
              \E k \in {"list", "compound"} : a = <<k, "done">> /\ b = <<k, "more">>
    BY DEF Way, Moves, OneOf, Path, Adders, Needs
  <1>2. Way("separator", a, b) <=> a = <<"compound", "done">> /\ b = <<"compound", "more">>
    <2>1. Moves("separator", "", a, b) <=>
            \/ a = <<"compound", "done">> /\ b = <<"compound", "more">>
            \/ a = <<"root", "done">> /\ b = a
      BY DEF Moves, OneOf, Path, Adders
    <2>2. Needs("separator", <<"root", "done">>) # {} /\ Needs("separator", <<"compound", "done">>) = {}
      BY DEF Needs
    <2> QED
      BY <2>1, <2>2 DEF Way, Adders
  <1>3. Way("linebreak", a, b) <=> b = a
    BY DEF Way, Moves, OneOf, Path, Adders, Needs
  <1>4. Way("newline_list", a, b) <=> b = a
    BY DEF Way, Moves, OneOf, Path, Adders, Needs
  <1>5. Way("sequential_sep", a, b) <=> b = a
    BY DEF Way, Moves, OneOf, Path, Adders, Needs
  <1> QED
    BY <1>1, <1>2, <1>3, <1>4, <1>5

\* Newlines leave the node where it is.
LEMMA StepBreak ==
  ASSUME NEW f \in {"linebreak", "newline_list", "sequential_sep"}, NEW a, NEW h
  PROVE  /\ Step(call(f), <<a, None, {}>>, <<a, None, {}>>)
         /\ Step(below(f), <<h, a, {}>>, <<h, a, {}>>)
  <1>1. Way(f, a, a)
    BY BreakWays
  <1> QED
    BY <1>1, StepCall, StepBelow, Finals

\* Calls of the three functions that ask something of the look-ahead.
LEMMA NeedySteps ==
  LET a == <<"root", "done">>
      b == <<"compound", "done">>
  IN  /\ Step(call("complete_command_rest"), <<a, None, {"&", ";"}>>, <<a, None, {}>>)
      /\ Step(call("separator"), <<a, None, {"&", ";"}>>, <<a, None, {}>>)
      /\ Step(call("compound_list_rest"), <<b, None, {"&", ";", "newline"}>>, <<b, None, {}>>)
  <1>1. ASSUME NEW a, a = <<"root", "done">>
        PROVE  /\ Step(call("complete_command_rest"), <<a, None, {"&", ";"}>>, <<a, None, {}>>)
               /\ Step(call("separator"), <<a, None, {"&", ";"}>>, <<a, None, {}>>)
    <2>1. /\ "complete_command_rest" \notin Adders /\ "separator" \notin Adders
          /\ Moves("complete_command_rest", "", a, a) /\ Moves("separator", "", a, a)
          /\ Needs("complete_command_rest", a) \subseteq {"&", ";"}
          /\ Needs("separator", a) \subseteq {"&", ";"}
      BY <1>1, Needy
    <2> QED
      BY <2>1, StepNeeds, Finals
  <1>2. ASSUME NEW b, b = <<"compound", "done">>
        PROVE  Step(call("compound_list_rest"), <<b, None, {"&", ";", "newline"}>>, <<b, None, {}>>)
    <2>1. /\ "compound_list_rest" \notin Adders /\ Moves("compound_list_rest", "", b, b)
          /\ Needs("compound_list_rest", b) \subseteq {"&", ";", "newline"}
      BY <1>2, Needy
    <2> QED
      BY <2>1, StepNeeds, Finals
  <1> QED
    BY <1>1, <1>2

\* What may be added to a node, read off the table.
LEMMA GrowsTo ==
  /\ Grows(<<"root", "new">>, "list", <<"root", "done">>)
  /\ Grows(<<"list", "new">>, "andor", <<"list", "done">>)
  /\ Grows(<<"list", "more">>, "andor", <<"list", "done">>)
  /\ Grows(<<"andor", "new">>, "bang", <<"andor", "done">>)
  /\ Grows(<<"andor", "new">>, "pipeline", <<"andor", "done">>)
  /\ Grows(<<"andor", "done">>, "and_if", <<"andor", "done">>)
  /\ Grows(<<"and_if", "new">>, "bang", <<"and_if", "done">>)
  /\ Grows(<<"and_if", "new">>, "pipeline", <<"and_if", "done">>)
  /\ Grows(<<"andor", "done">>, "or_if", <<"andor", "done">>)
  /\ Grows(<<"or_if", "new">>, "bang", <<"or_if", "done">>)
  /\ Grows(<<"or_if", "new">>, "pipeline", <<"or_if", "done">>)
  /\ Grows(<<"bang", "new">>, "pipeline", <<"bang", "done">>)
  /\ Grows(<<"pipeline", "new">>, "command", <<"pipeline", "done">>)
  /\ Grows(<<"pipeline", "done">>, "command", <<"pipeline", "done">>)
  /\ \A k \in Compounds : Grows(<<"command", "new">>, k, <<"command", "compound">>)
  /\ Grows(<<"command", "new">>, "function", <<"command", "done">>)
  /\ Grows(<<"command", "new">>, "simple", <<"command", "done">>)
  /\ Grows(<<"subshell", "new">>, "compound", <<"subshell", "done">>)
  /\ Grows(<<"compound", "new">>, "andor", <<"compound", "done">>)
  /\ Grows(<<"compound", "more">>, "andor", <<"compound", "done">>)
  /\ Grows(<<"while", "new">>, "compound", <<"while", "one">>)
  /\ Grows(<<"while", "one">>, "compound", <<"while", "done">>)
  /\ Grows(<<"until", "new">>, "compound", <<"until", "one">>)
  /\ Grows(<<"until", "one">>, "compound", <<"until", "done">>)
  /\ Grows(<<"for", "new">>, "name", <<"for", "named">>)
  /\ Grows(<<"for", "named">>, "compound", <<"for", "done">>)
  /\ Grows(<<"for", "named">>, "in", <<"for", "words">>)
  /\ Grows(<<"for", "words">>, "compound", <<"for", "done">>)
  /\ Grows(<<"for", "words">>, "word", <<"for", "words">>)
  /\ Grows(<<"case", "new">>, "word", <<"case", "word">>)
  /\ Grows(<<"case", "word">>, "in", <<"case", "done">>)
  /\ Grows(<<"case", "done">>, "caseitem", <<"case", "done">>)
  /\ Grows(<<"caseitem", "new">>, "pattern", <<"caseitem", "pattern">>)
  /\ Grows(<<"caseitem", "pattern">>, "compound", <<"caseitem", "done">>)
  /\ Grows(<<"pattern", "new">>, "word", <<"pattern", "done">>)
  /\ Grows(<<"pattern", "done">>, "word", <<"pattern", "done">>)
  /\ Grows(<<"if", "new">>, "compound", <<"if", "one">>)
  /\ Grows(<<"if", "one">>, "compound", <<"if", "then">>)
  /\ Grows(<<"if", "then">>, "elif", <<"if", "then">>)
  /\ Grows(<<"elif", "new">>, "compound", <<"elif", "one">>)
  /\ Grows(<<"elif", "one">>, "compound", <<"elif", "done">>)
  /\ Grows(<<"if", "then">>, "else", <<"if", "done">>)
  /\ Grows(<<"else", "new">>, "compound", <<"else", "done">>)
  /\ Grows(<<"function", "new">>, "name", <<"function", "named">>)
  /\ \A k \in Compounds : Grows(<<"function", "named">>, k, <<"function", "done">>)
  /\ Grows(<<"simple", "new">>, "word", <<"simple", "done">>)
  /\ Grows(<<"simple", "done">>, "word", <<"simple", "done">>)
  /\ Grows(<<"simple", "new">>, "redirect", <<"simple", "done">>)
  /\ Grows(<<"simple", "new">>, "assignment", <<"simple", "done">>)
  /\ Grows(<<"simple", "done">>, "redirect", <<"simple", "done">>)
  /\ Grows(<<"simple", "done">>, "assignment", <<"simple", "done">>)
  /\ Grows(<<"command", "compound">>, "redirect", <<"command", "compound">>)
  /\ Grows(<<"function", "done">>, "redirect", <<"function", "done">>)
  /\ Grows(<<"redirect", "new">>, "io number", <<"redirect", "number">>)
  /\ Grows(<<"redirect", "new">>, "<", <<"redirect", "file">>)
  /\ Grows(<<"redirect", "file">>, "word", <<"redirect", "done">>)
  /\ Grows(<<"redirect", "number">>, "<", <<"redirect", "file">>)
  /\ Grows(<<"redirect", "new">>, "<<", <<"redirect", "done">>)
  /\ Grows(<<"redirect", "number">>, "<<", <<"redirect", "done">>)
  /\ Grows(<<"list", "done">>, "&", <<"list", "more">>)
  /\ Grows(<<"compound", "done">>, "&", <<"compound", "more">>)
  <1>1. /\ Grows(<<"root", "new">>, "list", <<"root", "done">>)
        /\ Grows(<<"list", "new">>, "andor", <<"list", "done">>)
        /\ Grows(<<"list", "more">>, "andor", <<"list", "done">>)
        /\ Grows(<<"andor", "new">>, "bang", <<"andor", "done">>)
        /\ Grows(<<"andor", "new">>, "pipeline", <<"andor", "done">>)
        /\ Grows(<<"andor", "done">>, "and_if", <<"andor", "done">>)
        /\ Grows(<<"and_if", "new">>, "bang", <<"and_if", "done">>)
        /\ Grows(<<"and_if", "new">>, "pipeline", <<"and_if", "done">>)
        /\ Grows(<<"andor", "done">>, "or_if", <<"andor", "done">>)
        /\ Grows(<<"or_if", "new">>, "bang", <<"or_if", "done">>)
    BY DEF Grows, Compounds
  <1>2. /\ Grows(<<"or_if", "new">>, "pipeline", <<"or_if", "done">>)
        /\ Grows(<<"bang", "new">>, "pipeline", <<"bang", "done">>)
        /\ Grows(<<"pipeline", "new">>, "command", <<"pipeline", "done">>)
        /\ Grows(<<"pipeline", "done">>, "command", <<"pipeline", "done">>)
        /\ \A k \in Compounds : Grows(<<"command", "new">>, k, <<"command", "compound">>)
        /\ Grows(<<"command", "new">>, "function", <<"command", "done">>)
        /\ Grows(<<"command", "new">>, "simple", <<"command", "done">>)
        /\ Grows(<<"subshell", "new">>, "compound", <<"subshell", "done">>)
        /\ Grows(<<"compound", "new">>, "andor", <<"compound", "done">>)
        /\ Grows(<<"compound", "more">>, "andor", <<"compound", "done">>)
    BY DEF Grows, Compounds
  <1>3. /\ Grows(<<"while", "new">>, "compound", <<"while", "one">>)
        /\ Grows(<<"while", "one">>, "compound", <<"while", "done">>)
        /\ Grows(<<"until", "new">>, "compound", <<"until", "one">>)
        /\ Grows(<<"until", "one">>, "compound", <<"until", "done">>)
        /\ Grows(<<"for", "new">>, "name", <<"for", "named">>)
        /\ Grows(<<"for", "named">>, "compound", <<"for", "done">>)
        /\ Grows(<<"for", "named">>, "in", <<"for", "words">>)
        /\ Grows(<<"for", "words">>, "compound", <<"for", "done">>)
        /\ Grows(<<"for", "words">>, "word", <<"for", "words">>)
        /\ Grows(<<"case", "new">>, "word", <<"case", "word">>)
    BY DEF Grows, Compounds
  <1>4. /\ Grows(<<"case", "word">>, "in", <<"case", "done">>)
        /\ Grows(<<"case", "done">>, "caseitem", <<"case", "done">>)
        /\ Grows(<<"caseitem", "new">>, "pattern", <<"caseitem", "pattern">>)
        /\ Grows(<<"caseitem", "pattern">>, "compound", <<"caseitem", "done">>)
        /\ Grows(<<"pattern", "new">>, "word", <<"pattern", "done">>)
        /\ Grows(<<"pattern", "done">>, "word", <<"pattern", "done">>)
        /\ Grows(<<"if", "new">>, "compound", <<"if", "one">>)
        /\ Grows(<<"if", "one">>, "compound", <<"if", "then">>)
        /\ Grows(<<"if", "then">>, "elif", <<"if", "then">>)
        /\ Grows(<<"elif", "new">>, "compound", <<"elif", "one">>)
    BY DEF Grows, Compounds
  <1>5. /\ Grows(<<"elif", "one">>, "compound", <<"elif", "done">>)
        /\ Grows(<<"if", "then">>, "else", <<"if", "done">>)
        /\ Grows(<<"else", "new">>, "compound", <<"else", "done">>)
        /\ Grows(<<"function", "new">>, "name", <<"function", "named">>)
        /\ \A k \in Compounds : Grows(<<"function", "named">>, k, <<"function", "done">>)
        /\ Grows(<<"simple", "new">>, "word", <<"simple", "done">>)
        /\ Grows(<<"simple", "done">>, "word", <<"simple", "done">>)
        /\ Grows(<<"simple", "new">>, "redirect", <<"simple", "done">>)
        /\ Grows(<<"simple", "new">>, "assignment", <<"simple", "done">>)
        /\ Grows(<<"simple", "done">>, "redirect", <<"simple", "done">>)
    BY DEF Grows, Compounds
  <1>6. /\ Grows(<<"simple", "done">>, "assignment", <<"simple", "done">>)
        /\ Grows(<<"command", "compound">>, "redirect", <<"command", "compound">>)
        /\ Grows(<<"function", "done">>, "redirect", <<"function", "done">>)
        /\ Grows(<<"redirect", "new">>, "io number", <<"redirect", "number">>)
        /\ Grows(<<"redirect", "new">>, "<", <<"redirect", "file">>)
        /\ Grows(<<"redirect", "file">>, "word", <<"redirect", "done">>)
        /\ Grows(<<"redirect", "number">>, "<", <<"redirect", "file">>)
        /\ Grows(<<"redirect", "new">>, "<<", <<"redirect", "done">>)
        /\ Grows(<<"redirect", "number">>, "<<", <<"redirect", "done">>)
        /\ Grows(<<"list", "done">>, "&", <<"list", "more">>)
    BY DEF Grows, Compounds
  <1>7. /\ Grows(<<"compound", "done">>, "&", <<"compound", "more">>)
    BY DEF Grows, Compounds
  <1> QED
    BY <1>1, <1>2, <1>3, <1>4, <1>5, <1>6, <1>7, Zenon

\* A redirection takes no node to another place.
LEMMA GrowsRedirect ==
  \A a \in {<<"command", "compound">>, <<"function", "done">>} : Grows(a, "redirect", a)
  BY GrowsTo

\* term_rest is called behind a separator that was taken.
LEMMA StepTermRest ==
  ASSUME NEW a, a = <<"compound", "done">>
  PROVE  Step(call("term_rest"), <<a, None, {}>>, <<a, None, {"&", ";", "newline"}>>)
  <1>1. Way("term_rest", a, a)
    BY CommandWays
  <1>2. {"&", ";", "newline"} \subseteq Excludes("term_rest")
    BY Excluded
  <1> QED
    BY <1>1, <1>2, StepCall, Finals

-----------------------------------------------------------------------------
(* The bodies of the functions *)

\* ... and so does each function, by a proof of each of its alternatives.
LEMMA ListsShape == ASSUME ParserInv, ShapeInv, Lists PROVE ShapeInv'
  <1>1. CASE complete_command
    <2>1. Sound("complete_command", << >>)
      <3>1. \A a, b : Way("complete_command", a, b) => Weak(a, b)
        BY ListWays, WeakTo
      <3> QED
        BY <3>1, SoundNone, Frees, Excluded
    <2>2. Sound("complete_command", <<call("list"), call("complete_command_rest")>>)
      <3> SUFFICES ASSUME NEW a, NEW b, Way("complete_command", a, b)
                   PROVE  Does("complete_command",
                               <<call("list"), call("complete_command_rest")>>, a, b)
        BY SoundWay, Frees
      <3>1. /\ Step(call("list"), <<a, None, {}>>, <<b, None, {"&", ";"}>>)
            /\ Step(call("complete_command_rest"), <<b, None, {"&", ";"}>>, <<b, None, {}>>)
        <4>1. Step(call("list"), <<a, None, {}>>, <<b, None, {"&", ";"}>>)
          BY StepCall, ListWays, GrowsTo, Finals, Excluded
        <4>2. b = <<"root", "done">>
          BY ListWays
        <4> QED
          BY <4>1, <4>2, NeedySteps
      <3>2. Weak(b, b) /\ Final(None) /\ Excludes("complete_command") \subseteq {}
        BY WeakTo, Finals, Excluded
      <3> QED
        BY <3>1, <3>2, Run2, DoneBy
    <2> QED
      BY <1>1, <2>1, <2>2, SoundEither, FunctionShape DEF complete_command, Adders
  <1>2. CASE complete_command_rest
    <2>1. \A a, b : Moves("complete_command_rest", "", a, b) => a = <<"root", "done">> /\ b = a
      BY Needy
    <2>2. Sound("complete_command_rest", << >>)
      BY <2>1, SoundNil, WeakSame, Excluded
    <2>3. Sound("complete_command_rest", <<call("separator")>>)
      <3> SUFFICES ASSUME NEW a, NEW b, Moves("complete_command_rest", "", a, b),
                          toklast \notin Needs("complete_command_rest", a)
                   PROVE  Does("complete_command_rest", <<call("separator")>>, a, b)
        BY SoundNeedy
      <3>1. a = <<"root", "done">> /\ b = a /\ toklast \notin {"&", ";"}
        BY <2>1, Needy
      <3>2. Step(call("separator"), <<a, None, {"&", ";"}>>, <<a, None, {}>>)
        BY <3>1, NeedySteps
      <3>3. Run(<<call("separator")>>, <<a, None, {"&", ";"}>>, <<a, None, {}>>)
        BY <3>2, Run1
      <3>4. Ends("complete_command_rest", <<a, None, {}>>, b)
        BY <3>1, EndsWith, WeakTo, Finals, Excluded
      <3> QED
        BY <3>1, <3>3, <3>4 DEF Does
    <2> QED
      BY <1>2, <2>2, <2>3, SoundEither, FunctionShape DEF complete_command_rest, Adders
  <1>3. CASE list
    <2>1. Sound("list", <<add_node("list"), below("and_or"), below("list_rest")>>)
      <3> SUFFICES ASSUME NEW a, NEW b, Way("list", a, b)
                   PROVE  Does("list", <<add_node("list"),
                                below("and_or"), below("list_rest")>>, a, b)
        BY SoundWay, Frees
      <3>1. Grows(a, "list", b)
        BY ListWays
      <3>2. Step(add_node("list"), <<a, None, {}>>, <<b, <<"list", "new">>, {}>>)
        BY <3>1, StepAdd, GrowsTo, Finals
      <3>3. /\ Step(below("and_or"), <<b, <<"list", "new">>, {}>>, <<b, <<"list", "done">>, {}>>)
            /\ Step(below("list_rest"), <<b, <<"list", "done">>, {}>>, <<b, <<"list", "done">>, {"&", ";"}>>)
        BY <3>1, StepBelow, ListWays, GrowsTo, Finals, Excluded
      <3>4. Weak(b, b) /\ Final(<<"list", "done">>) /\ Excludes("list") \subseteq {"&", ";"}
        BY <3>1, WeakTo, Finals, Excluded
      <3> QED
        BY <3>2, <3>3, <3>4, Run3, DoneBy
    <2> QED
      BY <1>3, <2>1, FunctionShape DEF list, Adders
  <1>4. CASE list_rest
    <2>1. Sound("list_rest", <<call("separator_op"), may_be_empty("yes"), call("and_or"),
          may_be_empty("no"), call("list_rest")>>)
      <3> SUFFICES ASSUME NEW a, NEW b, Way("list_rest", a, b)
                   PROVE  Does("list_rest", <<call("separator_op"),
                                may_be_empty("yes"), call("and_or"), may_be_empty("no"),
                                call("list_rest")>>, a, b)
        BY SoundWay, Frees
      <3>1. a = <<"list", "done">> /\ b = a
        BY ListWays
      <3>2. Step(call("separator_op"), <<a, None, {}>>, <<<<"list", "more">>, None, {}>>)
        BY <3>1, StepCall, BreakWays, Finals
      <3>3. /\ Step(may_be_empty("yes"), <<<<"list", "more">>, None, {}>>, <<<<"list", "more">>, None, {}>>)
            /\ Step(may_be_empty("no"), <<a, None, {}>>, <<a, None, {}>>)
        BY <3>1, StepCompare, WeakTo, Finals
      <3>4. /\ Step(call("and_or"), <<<<"list", "more">>, None, {}>>, <<a, None, {}>>)
            /\ Step(call("list_rest"), <<a, None, {}>>, <<a, None, {"&", ";"}>>)
        BY <3>1, StepCall, ListWays, GrowsTo, Finals, Excluded
      <3>5. Weak(a, b) /\ Final(None) /\ Excludes("list_rest") \subseteq {"&", ";"}
        BY <3>1, WeakTo, Finals, Excluded
      <3> QED
        BY <3>2, <3>3, <3>4, <3>5, Run5, DoneBy
    <2>2. toklast \notin {"&", ";"} => Sound("list_rest", << >>)
      <3>1. \A a, b : Way("list_rest", a, b) => b = a
        BY ListWays
      <3> QED
        BY <3>1, SoundStay, Frees, Excluded
    <2> QED
      BY <1>4, <2>1, <2>2, SoundEither, FunctionShape DEF list_rest, Adders
  <1>5. CASE and_or
    <2>1. Sound("and_or", <<add_node("andor"), below("pipeline"), below("and_or_rest")>>)
      <3> SUFFICES ASSUME NEW a, NEW b, Way("and_or", a, b)
                   PROVE  Does("and_or", <<add_node("andor"),
                                below("pipeline"), below("and_or_rest")>>, a, b)
        BY SoundWay, Frees
      <3>1. Grows(a, "andor", b)
        BY ListWays
      <3>2. Step(add_node("andor"), <<a, None, {}>>, <<b, <<"andor", "new">>, {}>>)
        BY <3>1, StepAdd, GrowsTo, Finals
      <3>3. /\ Step(below("pipeline"), <<b, <<"andor", "new">>, {}>>, <<b, <<"andor", "done">>, {}>>)
            /\ Step(below("and_or_rest"), <<b, <<"andor", "done">>, {}>>, <<b, <<"andor", "done">>, {}>>)
        BY <3>1, StepBelow, ListWays, GrowsTo, Finals
      <3>4. Weak(b, b) /\ Final(<<"andor", "done">>) /\ Excludes("and_or") \subseteq {}
        BY <3>1, WeakTo, Finals, Excluded
      <3> QED
        BY <3>2, <3>3, <3>4, Run3, DoneBy
    <2> QED
      BY <1>5, <2>1, FunctionShape DEF and_or, Adders
  <1>6. CASE and_or_rest
    <2>1. Sound("and_or_rest", <<compare(toklast), add_node("and_if"), below("linebreak"),
          below("pipeline"), call("and_or_rest")>>)
      <3> SUFFICES ASSUME NEW a, NEW b, Way("and_or_rest", a, b)
                   PROVE  Does("and_or_rest", <<compare(toklast),
                                add_node("and_if"), below("linebreak"), below("pipeline"),
                                call("and_or_rest")>>, a, b)
        BY SoundWay, Frees
      <3>1. a = <<"andor", "done">> /\ b = a
        BY ListWays
      <3>2. /\ Step(compare(toklast), <<a, None, {}>>, <<a, None, {}>>)
            /\ Step(add_node("and_if"), <<a, None, {}>>, <<a, <<"and_if", "new">>, {}>>)
            /\ Step(below("linebreak"), <<a, <<"and_if", "new">>, {}>>, <<a, <<"and_if", "new">>, {}>>)
        BY <3>1, StepCompare, StepAdd, StepBreak, GrowsTo, WeakTo, Finals
      <3>3. /\ Step(below("pipeline"), <<a, <<"and_if", "new">>, {}>>, <<a, <<"and_if", "done">>, {}>>)
            /\ Step(call("and_or_rest"), <<a, <<"and_if", "done">>, {}>>, <<a, None, {}>>)
        BY <3>1, StepCall, StepBelow, ListWays, GrowsTo, Finals
      <3>4. Weak(a, b) /\ Final(None) /\ Excludes("and_or_rest") \subseteq {}
        BY <3>1, WeakTo, Finals, Excluded
      <3> QED
        BY <3>2, <3>3, <3>4, Run5, DoneBy
    <2>2. Sound("and_or_rest", <<compare(toklast), add_node("or_if"), below("linebreak"),
          below("pipeline"), call("and_or_rest")>>)
      <3> SUFFICES ASSUME NEW a, NEW b, Way("and_or_rest", a, b)
                   PROVE  Does("and_or_rest", <<compare(toklast),
                                add_node("or_if"), below("linebreak"), below("pipeline"),
                                call("and_or_rest")>>, a, b)
        BY SoundWay, Frees
      <3>1. a = <<"andor", "done">> /\ b = a
        BY ListWays
      <3>2. /\ Step(compare(toklast), <<a, None, {}>>, <<a, None, {}>>)
            /\ Step(add_node("or_if"), <<a, None, {}>>, <<a, <<"or_if", "new">>, {}>>)
            /\ Step(below("linebreak"), <<a, <<"or_if", "new">>, {}>>, <<a, <<"or_if", "new">>, {}>>)
        BY <3>1, StepCompare, StepAdd, StepBreak, GrowsTo, WeakTo, Finals
      <3>3. /\ Step(below("pipeline"), <<a, <<"or_if", "new">>, {}>>, <<a, <<"or_if", "done">>, {}>>)
            /\ Step(call("and_or_rest"), <<a, <<"or_if", "done">>, {}>>, <<a, None, {}>>)
        BY <3>1, StepCall, StepBelow, ListWays, GrowsTo, Finals
      <3>4. Weak(a, b) /\ Final(None) /\ Excludes("and_or_rest") \subseteq {}
        BY <3>1, WeakTo, Finals, Excluded
      <3> QED
        BY <3>2, <3>3, <3>4, Run5, DoneBy
    <2>3. Sound("and_or_rest", << >>)
      <3>1. \A a, b : Way("and_or_rest", a, b) => b = a
        BY ListWays
      <3> QED
        BY <3>1, SoundStay, Frees, Excluded
    <2> QED
      BY <1>6, <2>1, <2>2, <2>3, SoundEither, FunctionShape DEF and_or_rest, Adders
  <1>7. CASE pipeline
    <2>1. Sound("pipeline", <<compare_keyword("!"), add_node("bang"),
          below("pipe_sequence")>>)
      <3> SUFFICES ASSUME NEW a, NEW b, Way("pipeline", a, b)
                   PROVE  Does("pipeline", <<compare_keyword("!"),
                                add_node("bang"), below("pipe_sequence")>>, a, b)
        BY SoundWay, Frees
      <3>1. Grows(a, "bang", b) /\ Grows(a, "pipeline", b)
        BY ListWays
      <3>2. /\ Step(compare_keyword("!"), <<a, None, {}>>, <<a, None, {}>>)
            /\ Step(add_node("bang"), <<a, None, {}>>, <<b, <<"bang", "new">>, {}>>)
        BY <3>1, StepCompare, StepAdd, GrowsTo, WeakTo, Finals
      <3>3. Step(below("pipe_sequence"), <<b, <<"bang", "new">>, {}>>, <<b, <<"bang", "done">>, {}>>)
        BY <3>1, StepBelow, ListWays, GrowsTo, Finals
      <3>4. Weak(b, b) /\ Final(<<"bang", "done">>) /\ Excludes("pipeline") \subseteq {}
        BY <3>1, WeakTo, Finals, Excluded
      <3> QED
        BY <3>2, <3>3, <3>4, Run3, DoneBy
    <2>2. Sound("pipeline", <<call("pipe_sequence")>>)
      <3> SUFFICES ASSUME NEW a, NEW b, Way("pipeline", a, b)
                   PROVE  Does("pipeline", <<call("pipe_sequence")>>,
                                a, b)
        BY SoundWay, Frees
      <3>1. Grows(a, "bang", b) /\ Grows(a, "pipeline", b)
        BY ListWays
      <3>2. Step(call("pipe_sequence"), <<a, None, {}>>, <<b, None, {}>>)
        BY <3>1, StepCall, ListWays, GrowsTo, Finals
      <3>3. Weak(b, b) /\ Final(None) /\ Excludes("pipeline") \subseteq {}
        BY <3>1, WeakTo, Finals, Excluded
      <3> QED
        BY <3>2, <3>3, Run1, DoneBy
    <2> QED
      BY <1>7, <2>1, <2>2, SoundEither, FunctionShape DEF pipeline, Adders
  <1>8. CASE pipe_sequence
    <2>1. Sound("pipe_sequence", <<add_node("pipeline"), below("command"),
          below("pipe_sequence_rest")>>)
      <3> SUFFICES ASSUME NEW a, NEW b, Way("pipe_sequence", a, b)
                   PROVE  Does("pipe_sequence",
                                <<add_node("pipeline"), below("command"),
                                below("pipe_sequence_rest")>>, a, b)
        BY SoundWay, Frees
      <3>1. Grows(a, "pipeline", b)
        BY ListWays
      <3>2. Step(add_node("pipeline"), <<a, None, {}>>, <<b, <<"pipeline", "new">>, {}>>)
        BY <3>1, StepAdd, GrowsTo, Finals
      <3>3. Step(below("command"), <<b, <<"pipeline", "new">>, {}>>, <<b, <<"pipeline", "done">>, {}>>)
        BY <3>1, StepBelow, CommandWays, GrowsTo, Finals
      <3>4. Step(below("pipe_sequence_rest"), <<b, <<"pipeline", "done">>, {}>>, <<b, <<"pipeline", "done">>, {}>>)
        BY <3>1, StepBelow, ListWays, GrowsTo, Finals
      <3>5. Weak(b, b) /\ Final(<<"pipeline", "done">>) /\ Excludes("pipe_sequence") \subseteq {}
        BY <3>1, WeakTo, Finals, Excluded
      <3> QED
        BY <3>2, <3>3, <3>4, <3>5, Run3, DoneBy
    <2> QED
      BY <1>8, <2>1, FunctionShape DEF pipe_sequence, Adders
  <1>9. CASE pipe_sequence_rest
    <2>1. Sound("pipe_sequence_rest", <<compare("|"), call("linebreak"), call("command"),
          call("pipe_sequence_rest")>>)
      <3> SUFFICES ASSUME NEW a, NEW b, Way("pipe_sequence_rest", a, b)
                   PROVE  Does("pipe_sequence_rest", <<compare("|"),
                                call("linebreak"), call("command"), call("pipe_sequence_rest")>>, a,
                                b)
        BY SoundWay, Frees
      <3>1. a = <<"pipeline", "done">> /\ b = a
        BY ListWays
      <3>2. /\ Step(compare("|"), <<a, None, {}>>, <<a, None, {}>>)
            /\ Step(call("linebreak"), <<a, None, {}>>, <<a, None, {}>>)
        BY <3>1, StepCompare, StepBreak, WeakTo, Finals
      <3>3. Step(call("command"), <<a, None, {}>>, <<a, None, {}>>)
        BY <3>1, StepCall, CommandWays, GrowsTo, Finals
      <3>4. Step(call("pipe_sequence_rest"), <<a, None, {}>>, <<a, None, {}>>)
        BY <3>1, StepCall, ListWays, Finals
      <3>5. Weak(a, b) /\ Final(None) /\ Excludes("pipe_sequence_rest") \subseteq {}
        BY <3>1, WeakTo, Finals, Excluded
      <3> QED
        BY <3>2, <3>3, <3>4, <3>5, Run4, DoneBy
    <2>2. Sound("pipe_sequence_rest", << >>)
      <3>1. \A a, b : Way("pipe_sequence_rest", a, b) => b = a
        BY ListWays
      <3> QED
        BY <3>1, SoundStay, Frees, Excluded
    <2> QED
      BY <1>9, <2>1, <2>2, SoundEither, FunctionShape DEF pipe_sequence_rest, Adders
  <1> QED
    BY <1>1, <1>2, <1>3, <1>4, <1>5, <1>6, <1>7, <1>8, <1>9 DEF Lists

LEMMA CommandsShape == ASSUME ParserInv, ShapeInv, Commands PROVE ShapeInv'
  <1>1. CASE command
    <2>1. Sound("command", <<add_node("command")>> \o << >>)
      <3> SUFFICES ASSUME NEW a, NEW b, Way("command", a, b)
                   PROVE  Does("command", <<add_node("command")>> \o << >>, a, b)
        BY SoundWay, Frees
      <3>1. Step(add_node("command"), <<a, None, {}>>, <<b, <<"command", "new">>, {}>>)
        BY StepAdd, CommandWays, Finals
      <3>2. Run(<<add_node("command")>>, <<a, None, {}>>, <<b, <<"command", "new">>, {}>>)
        BY <3>1, Run1
      <3>4. Run(<< >>, <<b, <<"command", "new">>, {}>>, <<b, <<"command", "new">>, {}>>)
        BY Run0
      <3>5. Weak(b, b) /\ Final(<<"command", "new">>) /\ Excludes("command") \subseteq {}
        BY WeakTo, Finals, Excluded
      <3> QED
        BY <3>2, <3>4, <3>5, DoneJoined
    <2>2. Sound("command", <<add_node("command")>> \o <<below("compound_command"), below("command_rest")>>)
      <3> SUFFICES ASSUME NEW a, NEW b, Way("command", a, b)
                   PROVE  Does("command", <<add_node("command")>> \o <<below("compound_command"), below("command_rest")>>, a, b)
        BY SoundWay, Frees
      <3>1. Step(add_node("command"), <<a, None, {}>>, <<b, <<"command", "new">>, {}>>)
        BY StepAdd, CommandWays, Finals
      <3>2. Run(<<add_node("command")>>, <<a, None, {}>>, <<b, <<"command", "new">>, {}>>)
        BY <3>1, Run1
      <3>3. /\ Step(below("compound_command"), <<b, <<"command", "new">>, {}>>, <<b, <<"command", "compound">>, {}>>)
            /\ Step(below("command_rest"), <<b, <<"command", "compound">>, {}>>, <<b, <<"command", "compound">>, {}>>)
        BY StepBelow, CommandWays, GrowsTo
      <3>4. Run(<<below("compound_command"), below("command_rest")>>, <<b, <<"command", "new">>, {}>>, <<b, <<"command", "compound">>, {}>>)
        BY <3>3, Run2
      <3>5. Weak(b, b) /\ Final(<<"command", "compound">>) /\ Excludes("command") \subseteq {}
        BY WeakTo, Finals, Excluded
      <3> QED
        BY <3>2, <3>4, <3>5, DoneJoined
    <2>3. Sound("command", <<add_node("command")>> \o <<below("function_definition")>>)
      <3> SUFFICES ASSUME NEW a, NEW b, Way("command", a, b)
                   PROVE  Does("command", <<add_node("command")>> \o <<below("function_definition")>>, a, b)
        BY SoundWay, Frees
      <3>1. Step(add_node("command"), <<a, None, {}>>, <<b, <<"command", "new">>, {}>>)
        BY StepAdd, CommandWays, Finals
      <3>2. Run(<<add_node("command")>>, <<a, None, {}>>, <<b, <<"command", "new">>, {}>>)
        BY <3>1, Run1
      <3>3. Step(below("function_definition"), <<b, <<"command", "new">>, {}>>, <<b, <<"command", "done">>, {}>>)
        BY StepBelow, ClauseWays, GrowsTo
      <3>4. Run(<<below("function_definition")>>, <<b, <<"command", "new">>, {}>>, <<b, <<"command", "done">>, {}>>)
        BY <3>3, Run1
      <3>5. Weak(b, b) /\ Final(<<"command", "done">>) /\ Excludes("command") \subseteq {}
        BY WeakTo, Finals, Excluded
      <3> QED
        BY <3>2, <3>4, <3>5, DoneJoined
    <2>4. Sound("command", <<add_node("command")>> \o <<below("simple_command")>>)
      <3> SUFFICES ASSUME NEW a, NEW b, Way("command", a, b)
                   PROVE  Does("command", <<add_node("command")>> \o <<below("simple_command")>>, a, b)
        BY SoundWay, Frees
      <3>1. Step(add_node("command"), <<a, None, {}>>, <<b, <<"command", "new">>, {}>>)
        BY StepAdd, CommandWays, Finals
      <3>2. Run(<<add_node("command")>>, <<a, None, {}>>, <<b, <<"command", "new">>, {}>>)
        BY <3>1, Run1
      <3>3. Step(below("simple_command"), <<b, <<"command", "new">>, {}>>, <<b, <<"command", "done">>, {}>>)
        BY StepBelow, SimpleWays, GrowsTo
      <3>4. Run(<<below("simple_command")>>, <<b, <<"command", "new">>, {}>>, <<b, <<"command", "done">>, {}>>)
        BY <3>3, Run1
      <3>5. Weak(b, b) /\ Final(<<"command", "done">>) /\ Excludes("command") \subseteq {}
        BY WeakTo, Finals, Excluded
      <3> QED
        BY <3>2, <3>4, <3>5, DoneJoined
    <2>5. Sound("command", <<add_node("command")>> \o <<errtoken>>)
      <3> SUFFICES ASSUME NEW a, NEW b, Way("command", a, b)
                   PROVE  Does("command", <<add_node("command")>> \o <<errtoken>>, a, b)
        BY SoundWay, Frees
      <3>1. Step(add_node("command"), <<a, None, {}>>, <<b, <<"command", "new">>, {}>>)
        BY StepAdd, CommandWays, Finals
      <3>2. Run(<<add_node("command")>>, <<a, None, {}>>, <<b, <<"command", "new">>, {}>>)
        BY <3>1, Run1
      <3>3. Step(errtoken, <<b, <<"command", "new">>, {}>>, <<b, None, {}>>)
        BY StepError
      <3>4. Run(<<errtoken>>, <<b, <<"command", "new">>, {}>>, <<b, None, {}>>)
        BY <3>3, Run1
      <3>5. Weak(b, b) /\ Final(None) /\ Excludes("command") \subseteq {}
        BY WeakTo, Finals, Excluded
      <3> QED
        BY <3>2, <3>4, <3>5, DoneJoined
    <2> QED
      BY <1>1, <2>1, <2>2, <2>3, <2>4, <2>5, FunctionShape DEF command, Adders
  <1>2. CASE command_rest
    <2>1. Sound("command_rest", <<call("redirection_list")>>)
      <3> SUFFICES ASSUME NEW a, NEW b, Way("command_rest", a, b)
                   PROVE  Does("command_rest",
                                <<call("redirection_list")>>, a, b)
        BY SoundWay, Frees
      <3>1. a \in {<<"command", "compound">>, <<"function", "done">>} /\ b = a
        BY CommandWays
      <3>2. Step(call("redirection_list"), <<a, None, {}>>, <<a, None, {}>>)
        BY <3>1, StepCall, SimpleWays, Finals
      <3>3. Weak(a, b) /\ Final(None) /\ Excludes("command_rest") \subseteq {}
        BY <3>1, WeakTo, Finals, Excluded
      <3> QED
        BY <3>2, <3>3, Run1, DoneBy
    <2>2. Sound("command_rest", << >>)
      <3>1. \A a, b : Way("command_rest", a, b) => b = a
        BY CommandWays
      <3> QED
        BY <3>1, SoundStay, Frees, Excluded
    <2> QED
      BY <1>2, <2>1, <2>2, SoundEither, FunctionShape DEF command_rest, Adders
  <1>3. CASE compound_command
    <2>1. Sound("compound_command", <<call("brace_group")>>)
      <3> SUFFICES ASSUME NEW a, NEW b, Way("compound_command", a, b)
                   PROVE  Does("compound_command",
                                <<call("brace_group")>>, a, b)
        BY SoundWay, Frees
      <3>1. \A k \in Compounds : Grows(a, k, b)
        BY CommandWays
      <3>2. Step(call("brace_group"), <<a, None, {}>>, <<b, None, {}>>)
        BY <3>1, StepCall, CommandWays, GrowsTo, Finals DEF Compounds
      <3>3. Weak(b, b) /\ Final(None) /\ Excludes("compound_command") \subseteq {}
        BY <3>1, WeakTo, Finals, Excluded
      <3> QED
        BY <3>2, <3>3, Run1, DoneBy
    <2>2. Sound("compound_command", <<call("for_clause")>>)
      <3> SUFFICES ASSUME NEW a, NEW b, Way("compound_command", a, b)
                   PROVE  Does("compound_command",
                                <<call("for_clause")>>, a, b)
        BY SoundWay, Frees
      <3>1. \A k \in Compounds : Grows(a, k, b)
        BY CommandWays
      <3>2. Step(call("for_clause"), <<a, None, {}>>, <<b, None, {}>>)
        BY <3>1, StepCall, ClauseWays, GrowsTo, Finals DEF Compounds
      <3>3. Weak(b, b) /\ Final(None) /\ Excludes("compound_command") \subseteq {}
        BY <3>1, WeakTo, Finals, Excluded
      <3> QED
        BY <3>2, <3>3, Run1, DoneBy
    <2>3. Sound("compound_command", <<call("case_clause")>>)
      <3> SUFFICES ASSUME NEW a, NEW b, Way("compound_command", a, b)
                   PROVE  Does("compound_command",
                                <<call("case_clause")>>, a, b)
        BY SoundWay, Frees
      <3>1. \A k \in Compounds : Grows(a, k, b)
        BY CommandWays
      <3>2. Step(call("case_clause"), <<a, None, {}>>, <<b, None, {}>>)
        BY <3>1, StepCall, ClauseWays, GrowsTo, Finals DEF Compounds
      <3>3. Weak(b, b) /\ Final(None) /\ Excludes("compound_command") \subseteq {}
        BY <3>1, WeakTo, Finals, Excluded
      <3> QED
        BY <3>2, <3>3, Run1, DoneBy
    <2>4. Sound("compound_command", <<call("if_clause")>>)
      <3> SUFFICES ASSUME NEW a, NEW b, Way("compound_command", a, b)
                   PROVE  Does("compound_command",
                                <<call("if_clause")>>, a, b)
        BY SoundWay, Frees
      <3>1. \A k \in Compounds : Grows(a, k, b)
        BY CommandWays
      <3>2. Step(call("if_clause"), <<a, None, {}>>, <<b, None, {}>>)
        BY <3>1, StepCall, ClauseWays, GrowsTo, Finals DEF Compounds
      <3>3. Weak(b, b) /\ Final(None) /\ Excludes("compound_command") \subseteq {}
        BY <3>1, WeakTo, Finals, Excluded
      <3> QED
        BY <3>2, <3>3, Run1, DoneBy
    <2>5. Sound("compound_command", <<call("while_clause")>>)
      <3> SUFFICES ASSUME NEW a, NEW b, Way("compound_command", a, b)
                   PROVE  Does("compound_command",
                                <<call("while_clause")>>, a, b)
        BY SoundWay, Frees
      <3>1. \A k \in Compounds : Grows(a, k, b)
        BY CommandWays
      <3>2. Step(call("while_clause"), <<a, None, {}>>, <<b, None, {}>>)
        BY <3>1, StepCall, CommandWays, GrowsTo, Finals DEF Compounds
      <3>3. Weak(b, b) /\ Final(None) /\ Excludes("compound_command") \subseteq {}
        BY <3>1, WeakTo, Finals, Excluded
      <3> QED
        BY <3>2, <3>3, Run1, DoneBy
    <2>6. Sound("compound_command", <<call("until_clause")>>)
      <3> SUFFICES ASSUME NEW a, NEW b, Way("compound_command", a, b)
                   PROVE  Does("compound_command",
                                <<call("until_clause")>>, a, b)
        BY SoundWay, Frees
      <3>1. \A k \in Compounds : Grows(a, k, b)
        BY CommandWays
      <3>2. Step(call("until_clause"), <<a, None, {}>>, <<b, None, {}>>)
        BY <3>1, StepCall, CommandWays, GrowsTo, Finals DEF Compounds
      <3>3. Weak(b, b) /\ Final(None) /\ Excludes("compound_command") \subseteq {}
        BY <3>1, WeakTo, Finals, Excluded
      <3> QED
        BY <3>2, <3>3, Run1, DoneBy
    <2>7. Sound("compound_command", <<call("subshell")>>)
      <3> SUFFICES ASSUME NEW a, NEW b, Way("compound_command", a, b)
                   PROVE  Does("compound_command",
                                <<call("subshell")>>, a, b)
        BY SoundWay, Frees
      <3>1. \A k \in Compounds : Grows(a, k, b)
        BY CommandWays
      <3>2. Step(call("subshell"), <<a, None, {}>>, <<b, None, {}>>)
        BY <3>1, StepCall, CommandWays, GrowsTo, Finals DEF Compounds
      <3>3. Weak(b, b) /\ Final(None) /\ Excludes("compound_command") \subseteq {}
        BY <3>1, WeakTo, Finals, Excluded
      <3> QED
        BY <3>2, <3>3, Run1, DoneBy
    <2>8. Sound("compound_command", <<errtoken>>)
      <3> SUFFICES ASSUME NEW a, NEW b, Way("compound_command", a, b)
                   PROVE  Does("compound_command", <<errtoken>>, a, b)
        BY SoundWay, Frees
      <3>1. Step(errtoken, <<a, None, {}>>, <<b, None, {}>>)
        BY StepError
      <3>2. Weak(b, b) /\ Final(None) /\ Excludes("compound_command") \subseteq {}
        BY WeakTo, Finals, Excluded
      <3> QED
        BY <3>1, <3>2, Run1, DoneBy
    <2> QED
      BY <1>3, <2>1, <2>2, <2>3, <2>4, <2>5, <2>6, <2>7, <2>8,
          FunctionShape DEF compound_command, Adders
  <1>4. CASE subshell
    <2>1. Sound("subshell", <<compare("("), add_node("subshell"), below("compound_list"),
          compare(")")>>)
      <3> SUFFICES ASSUME NEW a, NEW b, Way("subshell", a, b)
                   PROVE  Does("subshell", <<compare("("),
                                add_node("subshell"), below("compound_list"), compare(")")>>, a, b)
        BY SoundWay, Frees
      <3>1. Grows(a, "subshell", b)
        BY CommandWays
      <3>2. /\ Step(compare("("), <<a, None, {}>>, <<a, None, {}>>)
            /\ Step(add_node("subshell"), <<a, None, {}>>, <<b, <<"subshell", "new">>, {}>>)
            /\ Step(compare(")"), <<b, <<"subshell", "done">>, {}>>, <<b, <<"subshell", "done">>, {}>>)
        BY <3>1, StepCompare, StepAdd, GrowsTo, WeakTo, Finals
      <3>3. Step(below("compound_list"), <<b, <<"subshell", "new">>, {}>>, <<b, <<"subshell", "done">>, {}>>)
        BY <3>1, StepBelow, CommandWays, GrowsTo, Finals
      <3>4. Weak(b, b) /\ Final(<<"subshell", "done">>) /\ Excludes("subshell") \subseteq {}
        BY <3>1, WeakTo, Finals, Excluded
      <3> QED
        BY <3>2, <3>3, <3>4, Run4, DoneBy
    <2> QED
      BY <1>4, <2>1, FunctionShape DEF subshell, Adders
  <1>5. CASE compound_list
    <2>1. Sound("compound_list", <<add_node("compound"), below("linebreak"),
          below("compound_list_body")>>)
      <3> SUFFICES ASSUME NEW a, NEW b, Way("compound_list", a, b)
                   PROVE  Does("compound_list",
                                <<add_node("compound"), below("linebreak"),
                                below("compound_list_body")>>, a, b)
        BY SoundWay, Frees
      <3>1. Grows(a, "compound", b)
        BY CommandWays
      <3>2. /\ Step(add_node("compound"), <<a, None, {}>>, <<b, <<"compound", "new">>, {}>>)
            /\ Step(below("linebreak"), <<b, <<"compound", "new">>, {}>>, <<b, <<"compound", "new">>, {}>>)
        BY <3>1, StepAdd, StepBreak, GrowsTo, Finals
      <3>3. Step(below("compound_list_body"), <<b, <<"compound", "new">>, {}>>, <<b, <<"compound", "done">>, {}>>)
        BY <3>1, StepBelow, CommandWays, GrowsTo, Finals
      <3>4. Weak(b, b) /\ Final(<<"compound", "done">>) /\ Excludes("compound_list") \subseteq {}
        BY <3>1, WeakTo, Finals, Excluded
      <3> QED
        BY <3>2, <3>3, <3>4, Run3, DoneBy
    <2> QED
      BY <1>5, <2>1, FunctionShape DEF compound_list, Adders
  <1>6. CASE compound_list_body
    <2>1. Sound("compound_list_body", <<errtoken>>)
      <3> SUFFICES ASSUME NEW a, NEW b, Way("compound_list_body", a, b)
                   PROVE  Does("compound_list_body", <<errtoken>>, a, b)
        BY SoundWay, Frees
      <3>1. Step(errtoken, <<a, None, {}>>, <<b, None, {}>>)
        BY StepError
      <3>2. Weak(b, b) /\ Final(None) /\ Excludes("compound_list_body") \subseteq {}
        BY WeakTo, Finals, Excluded
      <3> QED
        BY <3>1, <3>2, Run1, DoneBy
    <2>2. Sound("compound_list_body", <<call("term"), call("compound_list_rest")>>)
      <3> SUFFICES ASSUME NEW a, NEW b, Way("compound_list_body", a, b)
                   PROVE  Does("compound_list_body",
                               <<call("term"), call("compound_list_rest")>>, a, b)
        BY SoundWay, Frees
      <3>1. /\ Step(call("term"), <<a, None, {}>>, <<b, None, {"&", ";", "newline"}>>)
            /\ Step(call("compound_list_rest"), <<b, None, {"&", ";", "newline"}>>, <<b, None, {}>>)
        <4>1. Step(call("term"), <<a, None, {}>>, <<b, None, {"&", ";", "newline"}>>)
          BY StepCall, CommandWays, Finals, Excluded
        <4>2. b = <<"compound", "done">>
          BY CommandWays
        <4> QED
          BY <4>1, <4>2, NeedySteps
      <3>2. Weak(b, b) /\ Final(None) /\ Excludes("compound_list_body") \subseteq {}
        BY WeakTo, Finals, Excluded
      <3> QED
        BY <3>1, <3>2, Run2, DoneBy
    <2> QED
      BY <1>6, <2>1, <2>2, SoundEither, FunctionShape DEF compound_list_body, Adders
  <1>7. CASE compound_list_rest
    <2>1. Sound("compound_list_rest", << >>)
      <3>1. \A a, b : Moves("compound_list_rest", "", a, b) => b = a
        BY Needy
      <3> QED
        BY <3>1, SoundNil, WeakSame, Excluded
    <2>2. toklast \in {"&", ";", "newline"} => Sound("compound_list_rest", <<call("separator")>>)
      BY SoundNever, Needy
    <2> QED
      BY <1>7, <2>1, <2>2, SoundEither, FunctionShape DEF compound_list_rest, Adders
  <1>8. CASE term
    <2>1. Sound("term", <<call("and_or"), call("term_rest")>>)
      <3> SUFFICES ASSUME NEW a, NEW b, Way("term", a, b)
                   PROVE  Does("term", <<call("and_or"),
                                call("term_rest")>>, a, b)
        BY SoundWay, Frees
      <3>1. a = <<"compound", "new">> /\ b = <<"compound", "done">>
        BY CommandWays
      <3>2. Step(call("and_or"), <<a, None, {}>>, <<b, None, {}>>)
        BY <3>1, StepCall, ListWays, GrowsTo, Finals
      <3>3. Step(call("term_rest"), <<b, None, {}>>, <<b, None, {"&", ";", "newline"}>>)
        BY <3>1, StepTermRest
      <3>4. Weak(b, b) /\ Final(None) /\ Excludes("term") \subseteq {"&", ";", "newline"}
        BY <3>1, WeakTo, Finals, Excluded
      <3> QED
        BY <3>2, <3>3, <3>4, Run2, DoneBy
    <2> QED
      BY <1>8, <2>1, FunctionShape DEF term, Adders
  <1>9. CASE term_rest
    <2>1. Sound("term_rest", <<call("separator"), call("and_or"), call("term_rest")>>)
      <3> SUFFICES ASSUME NEW a, NEW b, Way("term_rest", a, b)
                   PROVE  Does("term_rest", <<call("separator"),
                                call("and_or"), call("term_rest")>>, a, b)
        BY SoundWay, Frees
      <3>1. a = <<"compound", "done">> /\ b = a
        BY CommandWays
      <3>2. Step(call("separator"), <<a, None, {}>>, <<<<"compound", "more">>, None, {}>>)
        BY <3>1, StepCall, BreakWays, Finals
      <3>3. Step(call("and_or"), <<<<"compound", "more">>, None, {}>>, <<a, None, {}>>)
        BY <3>1, StepCall, ListWays, GrowsTo, Finals
      <3>4. Step(call("term_rest"), <<a, None, {}>>, <<a, None, {"&", ";", "newline"}>>)
        BY <3>1, StepTermRest
      <3>5. Weak(a, b) /\ Final(None) /\ Excludes("term_rest") \subseteq {"&", ";", "newline"}
        BY <3>1, WeakTo, Finals, Excluded
      <3> QED
        BY <3>2, <3>3, <3>4, <3>5, Run3, DoneBy
    <2>2. toklast \notin {"&", ";", "newline"} => Sound("term_rest", << >>)
      <3>1. \A a, b : Way("term_rest", a, b) => b = a
        BY CommandWays
      <3> QED
        BY <3>1, SoundStay, Frees, Excluded
    <2> QED
      BY <1>9, <2>1, <2>2, SoundEither, FunctionShape DEF term_rest, Adders
  <1>10. CASE brace_group
    <2>1. Sound("brace_group", <<compare_keyword("{"), call("compound_list"),
          compare_keyword("}")>>)
      <3> SUFFICES ASSUME NEW a, NEW b, Way("brace_group", a, b)
                   PROVE  Does("brace_group", <<compare_keyword("{"),
                                call("compound_list"), compare_keyword("}")>>, a, b)
        BY SoundWay, Frees
      <3>1. Grows(a, "compound", b)
        BY CommandWays
      <3>2. /\ Step(compare_keyword("{"), <<a, None, {}>>, <<a, None, {}>>)
            /\ Step(compare_keyword("}"), <<b, None, {}>>, <<b, None, {}>>)
        BY <3>1, StepCompare, WeakTo, Finals
      <3>3. Step(call("compound_list"), <<a, None, {}>>, <<b, None, {}>>)
        BY <3>1, StepCall, CommandWays, GrowsTo, Finals
      <3>4. Weak(b, b) /\ Final(None) /\ Excludes("brace_group") \subseteq {}
        BY <3>1, WeakTo, Finals, Excluded
      <3> QED
        BY <3>2, <3>3, <3>4, Run3, DoneBy
    <2> QED
      BY <1>10, <2>1, FunctionShape DEF brace_group, Adders
  <1>11. CASE do_group
    <2>1. Sound("do_group", <<compare_keyword("do"), call("compound_list"),
          compare_keyword("done")>>)
      <3> SUFFICES ASSUME NEW a, NEW b, Way("do_group", a, b)
                   PROVE  Does("do_group", <<compare_keyword("do"),
                                call("compound_list"), compare_keyword("done")>>, a, b)
        BY SoundWay, Frees
      <3>1. Grows(a, "compound", b)
        BY CommandWays
      <3>2. /\ Step(compare_keyword("do"), <<a, None, {}>>, <<a, None, {}>>)
            /\ Step(compare_keyword("done"), <<b, None, {}>>, <<b, None, {}>>)
        BY <3>1, StepCompare, WeakTo, Finals
      <3>3. Step(call("compound_list"), <<a, None, {}>>, <<b, None, {}>>)
        BY <3>1, StepCall, CommandWays, GrowsTo, Finals
      <3>4. Weak(b, b) /\ Final(None) /\ Excludes("do_group") \subseteq {}
        BY <3>1, WeakTo, Finals, Excluded
      <3> QED
        BY <3>2, <3>3, <3>4, Run3, DoneBy
    <2> QED
      BY <1>11, <2>1, FunctionShape DEF do_group, Adders
  <1>12. CASE while_clause
    <2>1. Sound("while_clause", <<compare_keyword("while"), add_node("while"),
          below("compound_list"), below("do_group")>>)
      <3> SUFFICES ASSUME NEW a, NEW b, Way("while_clause", a, b)
                   PROVE  Does("while_clause",
                                <<compare_keyword("while"), add_node("while"),
                                below("compound_list"), below("do_group")>>, a, b)
        BY SoundWay, Frees
      <3>1. Grows(a, "while", b)
        BY CommandWays
      <3>2. /\ Step(compare_keyword("while"), <<a, None, {}>>, <<a, None, {}>>)
            /\ Step(add_node("while"), <<a, None, {}>>, <<b, <<"while", "new">>, {}>>)
        BY <3>1, StepCompare, StepAdd, GrowsTo, WeakTo, Finals
      <3>3. /\ Step(below("compound_list"), <<b, <<"while", "new">>, {}>>, <<b, <<"while", "one">>, {}>>)
            /\ Step(below("do_group"), <<b, <<"while", "one">>, {}>>, <<b, <<"while", "done">>, {}>>)
        BY <3>1, StepBelow, CommandWays, GrowsTo, Finals
      <3>4. Weak(b, b) /\ Final(<<"while", "done">>) /\ Excludes("while_clause") \subseteq {}
        BY <3>1, WeakTo, Finals, Excluded
      <3> QED
        BY <3>2, <3>3, <3>4, Run4, DoneBy
    <2> QED
      BY <1>12, <2>1, FunctionShape DEF while_clause, Adders
  <1>13. CASE until_clause
    <2>1. Sound("until_clause", <<compare_keyword("until"), add_node("until"),
          below("compound_list"), below("do_group")>>)
      <3> SUFFICES ASSUME NEW a, NEW b, Way("until_clause", a, b)
                   PROVE  Does("until_clause",
                                <<compare_keyword("until"), add_node("until"),
                                below("compound_list"), below("do_group")>>, a, b)
        BY SoundWay, Frees
      <3>1. Grows(a, "until", b)
        BY CommandWays
      <3>2. /\ Step(compare_keyword("until"), <<a, None, {}>>, <<a, None, {}>>)
            /\ Step(add_node("until"), <<a, None, {}>>, <<b, <<"until", "new">>, {}>>)
        BY <3>1, StepCompare, StepAdd, GrowsTo, WeakTo, Finals
      <3>3. /\ Step(below("compound_list"), <<b, <<"until", "new">>, {}>>, <<b, <<"until", "one">>, {}>>)
            /\ Step(below("do_group"), <<b, <<"until", "one">>, {}>>, <<b, <<"until", "done">>, {}>>)
        BY <3>1, StepBelow, CommandWays, GrowsTo, Finals
      <3>4. Weak(b, b) /\ Final(<<"until", "done">>) /\ Excludes("until_clause") \subseteq {}
        BY <3>1, WeakTo, Finals, Excluded
      <3> QED
        BY <3>2, <3>3, <3>4, Run4, DoneBy
    <2> QED
      BY <1>13, <2>1, FunctionShape DEF until_clause, Adders
  <1> QED
    BY <1>1, <1>2, <1>3, <1>4, <1>5, <1>6, <1>7, <1>8, <1>9, <1>10, <1>11, <1>12,
        <1>13 DEF Commands

LEMMA ClausesShape == ASSUME ParserInv, ShapeInv, Clauses PROVE ShapeInv'
  <1>1. CASE for_clause
    <2>1. Sound("for_clause", <<compare_keyword("for"), add_node("for"), below("name"),
          below("linebreak"), below("for_clause_rest_1")>>)
      <3> SUFFICES ASSUME NEW a, NEW b, Way("for_clause", a, b)
                   PROVE  Does("for_clause", <<compare_keyword("for"),
                                add_node("for"), below("name"), below("linebreak"),
                                below("for_clause_rest_1")>>, a, b)
        BY SoundWay, Frees
      <3>1. Grows(a, "for", b)
        BY ClauseWays
      <3>2. /\ Step(compare_keyword("for"), <<a, None, {}>>, <<a, None, {}>>)
            /\ Step(add_node("for"), <<a, None, {}>>, <<b, <<"for", "new">>, {}>>)
            /\ Step(below("linebreak"), <<b, <<"for", "named">>, {}>>, <<b, <<"for", "named">>, {}>>)
        BY <3>1, StepCompare, StepAdd, StepBreak, GrowsTo, WeakTo, Finals
      <3>3. /\ Step(below("name"), <<b, <<"for", "new">>, {}>>, <<b, <<"for", "named">>, {}>>)
            /\ Step(below("for_clause_rest_1"), <<b, <<"for", "named">>, {}>>, <<b, <<"for", "done">>, {}>>)
        BY <3>1, StepBelow, ClauseWays, GrowsTo, Finals
      <3>4. Weak(b, b) /\ Final(<<"for", "done">>) /\ Excludes("for_clause") \subseteq {}
        BY <3>1, WeakTo, Finals, Excluded
      <3> QED
        BY <3>2, <3>3, <3>4, Run5, DoneBy
    <2> QED
      BY <1>1, <2>1, FunctionShape DEF for_clause, Adders
  <1>2. CASE for_clause_rest_1
    <2>1. Sound("for_clause_rest_1", <<call("do_group")>>)
      <3> SUFFICES ASSUME NEW a, NEW b, Way("for_clause_rest_1", a, b)
                   PROVE  Does("for_clause_rest_1",
                                <<call("do_group")>>, a, b)
        BY SoundWay, Frees
      <3>1. a = <<"for", "named">> /\ b = <<"for", "done">>
        BY ClauseWays
      <3>2. Step(call("do_group"), <<a, None, {}>>, <<b, None, {}>>)
        BY <3>1, StepCall, CommandWays, GrowsTo, Finals
      <3>3. Weak(b, b) /\ Final(None) /\ Excludes("for_clause_rest_1") \subseteq {}
        BY <3>1, WeakTo, Finals, Excluded
      <3> QED
        BY <3>2, <3>3, Run1, DoneBy
    <2>2. Sound("for_clause_rest_1", <<call("in"), call("for_clause_rest_2")>>)
      <3> SUFFICES ASSUME NEW a, NEW b, Way("for_clause_rest_1", a, b)
                   PROVE  Does("for_clause_rest_1", <<call("in"),
                                call("for_clause_rest_2")>>, a, b)
        BY SoundWay, Frees
      <3>1. a = <<"for", "named">> /\ b = <<"for", "done">>
        BY ClauseWays
      <3>2. /\ Step(call("in"), <<a, None, {}>>, <<<<"for", "words">>, None, {}>>)
            /\ Step(call("for_clause_rest_2"), <<<<"for", "words">>, None, {}>>, <<b, None, {}>>)
        BY <3>1, StepCall, ClauseWays, GrowsTo, Finals
      <3>3. Weak(b, b) /\ Final(None) /\ Excludes("for_clause_rest_1") \subseteq {}
        BY <3>1, WeakTo, Finals, Excluded
      <3> QED
        BY <3>2, <3>3, Run2, DoneBy
    <2>3. Sound("for_clause_rest_1", <<errtoken>>)
      <3> SUFFICES ASSUME NEW a, NEW b, Way("for_clause_rest_1", a, b)
                   PROVE  Does("for_clause_rest_1", <<errtoken>>, a,
                                b)
        BY SoundWay, Frees
      <3>1. Step(errtoken, <<a, None, {}>>, <<b, None, {}>>)
        BY StepError
      <3>2. Weak(b, b) /\ Final(None) /\ Excludes("for_clause_rest_1") \subseteq {}
        BY WeakTo, Finals, Excluded
      <3> QED
        BY <3>1, <3>2, Run1, DoneBy
    <2> QED
      BY <1>2, <2>1, <2>2, <2>3, SoundEither, FunctionShape DEF for_clause_rest_1, Adders
  <1>3. CASE for_clause_rest_2
    <2> DEFINE rest == <<call("sequential_sep"), call("do_group")>>
    <2>1. ASSUME NEW a, NEW b, Way("for_clause_rest_2", a, b)
          PROVE  /\ Run(rest, <<a, None, {}>>, <<b, None, {}>>)
                 /\ Run(<<call("wordlist")>>, <<a, None, {}>>, <<a, None, {}>>)
                 /\ Run(<<errtoken>>, <<a, None, {}>>, <<b, None, {}>>)
      <3>1. Step(call("sequential_sep"), <<a, None, {}>>, <<a, None, {}>>)
        BY StepBreak
      <3>0. a = <<"for", "words">> /\ b = <<"for", "done">>
        BY <2>1, ClauseWays
      <3>2. Step(call("do_group"), <<a, None, {}>>, <<b, None, {}>>)
        BY <3>0, StepCall, CommandWays, GrowsTo, Finals
      <3>3. Step(call("wordlist"), <<a, None, {}>>, <<a, None, {}>>)
        BY <3>0, StepCall, ClauseWays, Finals
      <3> QED
        BY <3>1, <3>2, <3>3, StepError, Run1, Run2
    <2>2. Final(None) /\ Excludes("for_clause_rest_2") \subseteq {} /\ \A b : Weak(b, b)
      BY WeakTo, Finals, Excluded
    <2> HIDE DEF rest
    <2>3. Sound("for_clause_rest_2", rest)
      BY <2>1, <2>2, DoneBy, SoundWay, Frees
    <2>4. Sound("for_clause_rest_2", <<call("wordlist")>> \o rest)
      BY <2>1, <2>2, DoneJoined, SoundWay, Frees
    <2>5. Sound("for_clause_rest_2", <<errtoken>>)
      BY <2>1, <2>2, DoneBy, SoundWay, Frees
    <2> QED
      BY <1>3, <2>3, <2>4, <2>5, SoundEither, FunctionShape DEF for_clause_rest_2, rest, Adders
  <1>4. CASE name
    <2>1. ASSUME NEW f \in {"name", "fname"}, NEW s \in {<< >>, <<errtoken>>}
          PROVE  Sound(f, s \o <<compare_add_str("name", t)>>)
      <3> SUFFICES ASSUME NEW a, NEW b, Way(f, a, b)
                   PROVE  Does(f, s \o <<compare_add_str("name", t)>>, a, b)
        BY SoundWay, Frees
      <3>1. Run(s, <<a, None, {}>>, <<a, None, {}>>)
        BY Run0, Run1, StepError
      <3>2. Step(compare_add_str("name", t), <<a, None, {}>>, <<b, None, {}>>)
        BY StepText, ClauseWays, Finals DEF Leaves
      <3>3. Run(<<compare_add_str("name", t)>>, <<a, None, {}>>, <<b, None, {}>>)
        BY <3>2, Run1
      <3>4. Weak(b, b) /\ Final(None) /\ Excludes(f) \subseteq {}
        BY WeakTo, Finals, Excluded
      <3> QED
        BY <3>1, <3>3, <3>4, DoneJoined
    <2>2. Either({"word"}, << >>, <<errtoken>>) \in {<< >>, <<errtoken>>}
      BY DEF Either
    <2>3. \A f \in {"name", "fname"} :
            Sound(f, Either({"word"}, << >>, <<errtoken>>) \o <<compare_add_str("name", t)>>)
      BY <2>1, <2>2
    <2>4. PICK f \in {"name", "fname"} :
            Function(f, Either({"word"}, << >>, <<errtoken>>) \o <<compare_add_str("name", t)>>)
      BY <1>4 DEF name, Function
    <2> QED
      BY <2>3, <2>4, FunctionShape DEF Adders
  <1>5. CASE in
    <2>1. Sound("in", <<compare_keyword("in"), add_node("in")>>)
      <3> SUFFICES ASSUME NEW a, NEW b, Way("in", a, b)
                   PROVE  Does("in", <<compare_keyword("in"),
                                add_node("in")>>, a, b)
        BY SoundWay, Frees
      <3>1. Grows(a, "in", b)
        BY ClauseWays
      <3>2. /\ Step(compare_keyword("in"), <<a, None, {}>>, <<a, None, {}>>)
            /\ Step(add_node("in"), <<a, None, {}>>, <<b, <<"in", "new">>, {}>>)
        BY <3>1, StepCompare, StepAdd, GrowsTo, WeakTo, Finals
      <3>3. Weak(b, b) /\ Final(<<"in", "new">>) /\ Excludes("in") \subseteq {}
        BY <3>1, WeakTo, Finals, LeavesFinal, Excluded
      <3> QED
        BY <3>2, <3>3, Run2, DoneBy
    <2> QED
      BY <1>5, <2>1, FunctionShape DEF in, Adders
  <1>6. CASE wordlist
    <2>1. Sound("wordlist", <<word, call("wordlist_rest")>>)
      <3> SUFFICES ASSUME NEW a, NEW b, Way("wordlist", a, b)
                   PROVE  Does("wordlist", <<word,
                                call("wordlist_rest")>>, a, b)
        BY SoundWay, Frees
      <3>1. a = <<"for", "words">> /\ b = a
        BY ClauseWays
      <3>2. Step(word, <<a, None, {}>>, <<a, None, {}>>)
        BY <3>1, StepText, GrowsTo, Finals DEF Leaves, word
      <3>3. Step(call("wordlist_rest"), <<a, None, {}>>, <<a, None, {}>>)
        BY <3>1, StepCall, ClauseWays, Finals
      <3>4. Weak(a, b) /\ Final(None) /\ Excludes("wordlist") \subseteq {}
        BY <3>1, WeakTo, Finals, Excluded
      <3> QED
        BY <3>2, <3>3, <3>4, Run2, DoneBy
    <2> QED
      BY <1>6, <2>1, FunctionShape DEF wordlist, Adders, word
  <1>7. CASE wordlist_rest
    <2>1. Sound("wordlist_rest", <<word, call("wordlist_rest")>>)
      <3> SUFFICES ASSUME NEW a, NEW b, Way("wordlist_rest", a, b)
                   PROVE  Does("wordlist_rest", <<word,
                                call("wordlist_rest")>>, a, b)
        BY SoundWay, Frees
      <3>1. a = <<"for", "words">> /\ b = a
        BY ClauseWays
      <3>2. Step(word, <<a, None, {}>>, <<a, None, {}>>)
        BY <3>1, StepText, GrowsTo, Finals DEF Leaves, word
      <3>3. Step(call("wordlist_rest"), <<a, None, {}>>, <<a, None, {}>>)
        BY <3>1, StepCall, ClauseWays, Finals
      <3>4. Weak(a, b) /\ Final(None) /\ Excludes("wordlist_rest") \subseteq {}
        BY <3>1, WeakTo, Finals, Excluded
      <3> QED
        BY <3>2, <3>3, <3>4, Run2, DoneBy
    <2>2. Sound("wordlist_rest", << >>)
      <3>1. \A a, b : Way("wordlist_rest", a, b) => b = a
        BY ClauseWays
      <3> QED
        BY <3>1, SoundStay, Frees, Excluded
    <2> QED
      BY <1>7, <2>1, <2>2, SoundEither, FunctionShape DEF wordlist_rest, Adders, word
  <1>8. CASE case_clause
    <2>1. Sound("case_clause", <<compare_keyword("case"), add_node("case"),
          compare_add_str("word", t + 1), below("linebreak"), below("in"), below("linebreak"),
          below("case_list"), compare_keyword("esac")>>)
      <3> SUFFICES ASSUME NEW a, NEW b, Way("case_clause", a, b)
                   PROVE  Does("case_clause",
                                <<compare_keyword("case"), add_node("case"), compare_add_str("word",
                                t + 1), below("linebreak"), below("in"), below("linebreak"),
                                below("case_list"), compare_keyword("esac")>>, a, b)
        BY SoundWay, Frees
      <3>1. Grows(a, "case", b)
        BY ClauseWays
      <3>2. /\ Step(compare_keyword("case"), <<a, None, {}>>, <<a, None, {}>>)
            /\ Step(add_node("case"), <<a, None, {}>>, <<b, <<"case", "new">>, {}>>)
            /\ Step(compare_add_str("word", t + 1), <<b, <<"case", "new">>, {}>>, <<b, <<"case", "word">>, {}>>)
            /\ Step(below("linebreak"), <<b, <<"case", "word">>, {}>>, <<b, <<"case", "word">>, {}>>)
            /\ Step(below("linebreak"), <<b, <<"case", "done">>, {}>>, <<b, <<"case", "done">>, {}>>)
            /\ Step(compare_keyword("esac"), <<b, <<"case", "done">>, {}>>, <<b, <<"case", "done">>, {}>>)
        BY <3>1, StepCompare, StepAdd, StepTextBelow, StepBreak, GrowsTo, WeakTo,
            Finals DEF Leaves
      <3>3. /\ Step(below("in"), <<b, <<"case", "word">>, {}>>, <<b, <<"case", "done">>, {}>>)
            /\ Step(below("case_list"), <<b, <<"case", "done">>, {}>>, <<b, <<"case", "done">>, {}>>)
        BY <3>1, StepBelow, ClauseWays, GrowsTo, Finals
      <3>4. Weak(b, b) /\ Final(<<"case", "done">>) /\ Excludes("case_clause") \subseteq {}
        BY <3>1, WeakTo, Finals, Excluded
      <3> QED
        BY <3>2, <3>3, <3>4, Run8, DoneBy
    <2> QED
      BY <1>8, <2>1, FunctionShape DEF case_clause, Adders
  <1>9. CASE case_list
    <2>1. Sound("case_list", <<add_node("caseitem"), below("case_item_start"),
          below("linebreak"), below("case_item_body"), call("case_list_rest")>>)
      <3> SUFFICES ASSUME NEW a, NEW b, Way("case_list", a, b)
                   PROVE  Does("case_list", <<add_node("caseitem"),
                                below("case_item_start"), below("linebreak"),
                                below("case_item_body"), call("case_list_rest")>>, a, b)
        BY SoundWay, Frees
      <3>1. a = <<"case", "done">> /\ b = a
        BY ClauseWays
      <3>2. /\ Step(add_node("caseitem"), <<a, None, {}>>, <<a, <<"caseitem", "new">>, {}>>)
            /\ Step(below("linebreak"), <<a, <<"caseitem", "pattern">>, {}>>, <<a, <<"caseitem", "pattern">>, {}>>)
        BY <3>1, StepAdd, StepBreak, GrowsTo, Finals
      <3>3. /\ Step(below("case_item_start"), <<a, <<"caseitem", "new">>, {}>>, <<a, <<"caseitem", "pattern">>, {}>>)
            /\ Step(below("case_item_body"), <<a, <<"caseitem", "pattern">>, {}>>, <<a, <<"caseitem", "done">>, {}>>)
            /\ Step(call("case_list_rest"), <<a, <<"caseitem", "done">>, {}>>, <<a, None, {}>>)
        BY <3>1, StepCall, StepBelow, ClauseWays, GrowsTo, Finals
      <3>4. Weak(a, b) /\ Final(None) /\ Excludes("case_list") \subseteq {}
        BY <3>1, WeakTo, Finals, Excluded
      <3> QED
        BY <3>2, <3>3, <3>4, Run5, DoneBy
    <2>2. Sound("case_list", << >>)
      <3>1. \A a, b : Way("case_list", a, b) => b = a
        BY ClauseWays
      <3> QED
        BY <3>1, SoundStay, Frees, Excluded
    <2> QED
      BY <1>9, <2>1, <2>2, SoundEither, FunctionShape DEF case_list, Adders
  <1>10. CASE case_list_rest
    <2>1. Sound("case_list_rest", <<compare(";;"), call("linebreak"), call("case_list")>>)
      <3> SUFFICES ASSUME NEW a, NEW b, Way("case_list_rest", a, b)
                   PROVE  Does("case_list_rest", <<compare(";;"),
                                call("linebreak"), call("case_list")>>, a, b)
        BY SoundWay, Frees
      <3>1. a = <<"case", "done">> /\ b = a
        BY ClauseWays
      <3>2. /\ Step(compare(";;"), <<a, None, {}>>, <<a, None, {}>>)
            /\ Step(call("linebreak"), <<a, None, {}>>, <<a, None, {}>>)
        BY <3>1, StepCompare, StepBreak, WeakTo, Finals
      <3>3. Step(call("case_list"), <<a, None, {}>>, <<a, None, {}>>)
        BY <3>1, StepCall, ClauseWays, Finals
      <3>4. Weak(a, b) /\ Final(None) /\ Excludes("case_list_rest") \subseteq {}
        BY <3>1, WeakTo, Finals, Excluded
      <3> QED
        BY <3>2, <3>3, <3>4, Run3, DoneBy
    <2>2. Sound("case_list_rest", <<call("linebreak")>>)
      <3> SUFFICES ASSUME NEW a, NEW b, Way("case_list_rest", a, b)
                   PROVE  Does("case_list_rest",
                                <<call("linebreak")>>, a, b)
        BY SoundWay, Frees
      <3>1. a = <<"case", "done">> /\ b = a
        BY ClauseWays
      <3>2. Step(call("linebreak"), <<a, None, {}>>, <<a, None, {}>>)
        BY StepBreak
      <3>3. Weak(a, b) /\ Final(None) /\ Excludes("case_list_rest") \subseteq {}
        BY <3>1, WeakTo, Finals, Excluded
      <3> QED
        BY <3>2, <3>3, Run1, DoneBy
    <2> QED
      BY <1>10, <2>1, <2>2, SoundEither, FunctionShape DEF case_list_rest, Adders
  <1>11. CASE case_item_start
    <2>1. Sound("case_item_start", <<compare("("), call("pattern"), compare(")")>>)
      <3> SUFFICES ASSUME NEW a, NEW b, Way("case_item_start", a, b)
                   PROVE  Does("case_item_start", <<compare("("),
                                call("pattern"), compare(")")>>, a, b)
        BY SoundWay, Frees
      <3>1. Grows(a, "pattern", b)
        BY ClauseWays
      <3>2. /\ Step(compare("("), <<a, None, {}>>, <<a, None, {}>>)
            /\ Step(compare(")"), <<b, None, {}>>, <<b, None, {}>>)
        BY <3>1, StepCompare, WeakTo, Finals
      <3>3. Step(call("pattern"), <<a, None, {}>>, <<b, None, {}>>)
        BY <3>1, StepCall, ClauseWays, GrowsTo, Finals
      <3>4. Weak(b, b) /\ Final(None) /\ Excludes("case_item_start") \subseteq {}
        BY <3>1, WeakTo, Finals, Excluded
      <3> QED
        BY <3>2, <3>3, <3>4, Run3, DoneBy
    <2>2. Sound("case_item_start", <<call("pattern"), compare(")")>>)
      <3> SUFFICES ASSUME NEW a, NEW b, Way("case_item_start", a, b)
                   PROVE  Does("case_item_start", <<call("pattern"),
                                compare(")")>>, a, b)
        BY SoundWay, Frees
      <3>1. Grows(a, "pattern", b)
        BY ClauseWays
      <3>2. Step(call("pattern"), <<a, None, {}>>, <<b, None, {}>>)
        BY <3>1, StepCall, ClauseWays, GrowsTo, Finals
      <3>3. Step(compare(")"), <<b, None, {}>>, <<b, None, {}>>)
        BY <3>1, StepCompare, WeakTo, Finals
      <3>4. Weak(b, b) /\ Final(None) /\ Excludes("case_item_start") \subseteq {}
        BY <3>1, WeakTo, Finals, Excluded
      <3> QED
        BY <3>2, <3>3, <3>4, Run2, DoneBy
    <2>3. Sound("case_item_start", <<errtoken>>)
      <3> SUFFICES ASSUME NEW a, NEW b, Way("case_item_start", a, b)
                   PROVE  Does("case_item_start", <<errtoken>>, a, b)
        BY SoundWay, Frees
      <3>1. Step(errtoken, <<a, None, {}>>, <<b, None, {}>>)
        BY StepError
      <3>2. Weak(b, b) /\ Final(None) /\ Excludes("case_item_start") \subseteq {}
        BY WeakTo, Finals, Excluded
      <3> QED
        BY <3>1, <3>2, Run1, DoneBy
    <2> QED
      BY <1>11, <2>1, <2>2, <2>3, SoundEither, FunctionShape DEF case_item_start, Adders
  <1>12. CASE case_item_body
    <2>1. Sound("case_item_body", <<call("linebreak"), call("case_item_list")>>)
      <3> SUFFICES ASSUME NEW a, NEW b, Way("case_item_body", a, b)
                   PROVE  Does("case_item_body", <<call("linebreak"),
                                call("case_item_list")>>, a, b)
        BY SoundWay, Frees
      <3>1. a = <<"caseitem", "pattern">> /\ b = <<"caseitem", "done">>
        BY ClauseWays
      <3>2. Step(call("linebreak"), <<a, None, {}>>, <<a, None, {}>>)
        BY StepBreak
      <3>3. Step(call("case_item_list"), <<a, None, {}>>, <<b, None, {}>>)
        BY <3>1, StepCall, ClauseWays, Finals
      <3>4. Weak(b, b) /\ Final(None) /\ Excludes("case_item_body") \subseteq {}
        BY <3>1, WeakTo, Finals, Excluded
      <3> QED
        BY <3>2, <3>3, <3>4, Run2, DoneBy
    <2>2. Sound("case_item_list", << >>)
      <3>1. \A a, b : Way("case_item_list", a, b) => Weak(a, b)
        BY ClauseWays, WeakTo
      <3> QED
        BY <3>1, SoundNone, Frees, Excluded
    <2>3. Sound("case_item_list", <<call("compound_list")>>)
      <3> SUFFICES ASSUME NEW a, NEW b, Way("case_item_list", a, b)
                   PROVE  Does("case_item_list",
                                <<call("compound_list")>>, a, b)
        BY SoundWay, Frees
      <3>1. a = <<"caseitem", "pattern">> /\ b = <<"caseitem", "done">>
        BY ClauseWays
      <3>2. Step(call("compound_list"), <<a, None, {}>>, <<b, None, {}>>)
        BY <3>1, StepCall, CommandWays, GrowsTo, Finals
      <3>3. Weak(b, b) /\ Final(None) /\ Excludes("case_item_list") \subseteq {}
        BY <3>1, WeakTo, Finals, Excluded
      <3> QED
        BY <3>2, <3>3, Run1, DoneBy
    <2> QED
      BY <1>12, <2>1, <2>2, <2>3, SoundEither, FunctionShape DEF case_item_body, Adders
  <1>13. CASE pattern
    <2>1. Sound("pattern", <<add_node("pattern"), compare_add_str("word", t + 1),
          below("pattern_rest")>>)
      <3> SUFFICES ASSUME NEW a, NEW b, Way("pattern", a, b)
                   PROVE  Does("pattern", <<add_node("pattern"),
                                compare_add_str("word", t + 1), below("pattern_rest")>>, a, b)
        BY SoundWay, Frees
      <3>1. Grows(a, "pattern", b)
        BY ClauseWays
      <3>2. /\ Step(add_node("pattern"), <<a, None, {}>>, <<b, <<"pattern", "new">>, {}>>)
            /\ Step(compare_add_str("word", t + 1), <<b, <<"pattern", "new">>, {}>>, <<b, <<"pattern", "done">>, {}>>)
        BY <3>1, StepAdd, StepTextBelow, GrowsTo, Finals DEF Leaves
      <3>3. Step(below("pattern_rest"), <<b, <<"pattern", "done">>, {}>>, <<b, <<"pattern", "done">>, {}>>)
        BY <3>1, StepBelow, ClauseWays, GrowsTo, Finals
      <3>4. Weak(b, b) /\ Final(<<"pattern", "done">>) /\ Excludes("pattern") \subseteq {}
        BY <3>1, WeakTo, Finals, Excluded
      <3> QED
        BY <3>2, <3>3, <3>4, Run3, DoneBy
    <2>2. Sound("pattern", <<errtoken>>)
      <3> SUFFICES ASSUME NEW a, NEW b, Way("pattern", a, b)
                   PROVE  Does("pattern", <<errtoken>>, a, b)
        BY SoundWay, Frees
      <3>1. Step(errtoken, <<a, None, {}>>, <<b, None, {}>>)
        BY StepError
      <3>2. Weak(b, b) /\ Final(None) /\ Excludes("pattern") \subseteq {}
        BY WeakTo, Finals, Excluded
      <3> QED
        BY <3>1, <3>2, Run1, DoneBy
    <2> QED
      BY <1>13, <2>1, <2>2, SoundEither, FunctionShape DEF pattern, Adders
  <1>14. CASE pattern_rest
    <2>1. Sound("pattern_rest", <<compare("|"), word, call("pattern_rest")>>)
      <3> SUFFICES ASSUME NEW a, NEW b, Way("pattern_rest", a, b)
                   PROVE  Does("pattern_rest", <<compare("|"), word,
                                call("pattern_rest")>>, a, b)
        BY SoundWay, Frees
      <3>1. a = <<"pattern", "done">> /\ b = a
        BY ClauseWays
      <3>2. /\ Step(compare("|"), <<a, None, {}>>, <<a, None, {}>>)
            /\ Step(word, <<a, None, {}>>, <<a, None, {}>>)
        BY <3>1, StepCompare, StepText, GrowsTo, WeakTo, Finals DEF Leaves, word
      <3>3. Step(call("pattern_rest"), <<a, None, {}>>, <<a, None, {}>>)
        BY <3>1, StepCall, ClauseWays, Finals
      <3>4. Weak(a, b) /\ Final(None) /\ Excludes("pattern_rest") \subseteq {}
        BY <3>1, WeakTo, Finals, Excluded
      <3> QED
        BY <3>2, <3>3, <3>4, Run3, DoneBy
    <2>2. Sound("pattern_rest", << >>)
      <3>1. \A a, b : Way("pattern_rest", a, b) => b = a
        BY ClauseWays
      <3> QED
        BY <3>1, SoundStay, Frees, Excluded
    <2> QED
      BY <1>14, <2>1, <2>2, SoundEither, FunctionShape DEF pattern_rest, Adders, word
  <1>15. CASE if_clause
    <2>1. Sound("if_clause", <<compare_keyword("if"), add_node("if"),
          below("compound_list"), compare_keyword("then"), below("compound_list"),
          below("if_clause_rest")>>)
      <3> SUFFICES ASSUME NEW a, NEW b, Way("if_clause", a, b)
                   PROVE  Does("if_clause", <<compare_keyword("if"),
                                add_node("if"), below("compound_list"), compare_keyword("then"),
                                below("compound_list"), below("if_clause_rest")>>, a, b)
        BY SoundWay, Frees
      <3>1. Grows(a, "if", b)
        BY ClauseWays
      <3>2. /\ Step(compare_keyword("if"), <<a, None, {}>>, <<a, None, {}>>)
            /\ Step(add_node("if"), <<a, None, {}>>, <<b, <<"if", "new">>, {}>>)
            /\ Step(compare_keyword("then"), <<b, <<"if", "one">>, {}>>, <<b, <<"if", "one">>, {}>>)
        BY <3>1, StepCompare, StepAdd, GrowsTo, WeakTo, Finals
      <3>3. /\ Step(below("compound_list"), <<b, <<"if", "new">>, {}>>, <<b, <<"if", "one">>, {}>>)
            /\ Step(below("compound_list"), <<b, <<"if", "one">>, {}>>, <<b, <<"if", "then">>, {}>>)
        BY <3>1, StepBelow, CommandWays, GrowsTo, Finals
      <3>4. Step(below("if_clause_rest"), <<b, <<"if", "then">>, {}>>, <<b, <<"if", "done">>, {}>>)
        BY <3>1, StepBelow, ClauseWays, GrowsTo, Finals
      <3>5. Weak(b, b) /\ Final(<<"if", "done">>) /\ Excludes("if_clause") \subseteq {}
        BY <3>1, WeakTo, Finals, Excluded
      <3> QED
        BY <3>2, <3>3, <3>4, <3>5, Run6, DoneBy
    <2> QED
      BY <1>15, <2>1, FunctionShape DEF if_clause, Adders
  <1>16. CASE if_clause_rest
    <2>1. Sound("if_clause_rest", <<call("else_part"), compare_keyword("fi")>>)
      <3> SUFFICES ASSUME NEW a, NEW b, Way("if_clause_rest", a, b)
                   PROVE  Does("if_clause_rest", <<call("else_part"),
                                compare_keyword("fi")>>, a, b)
        BY SoundWay, Frees
      <3>1. a = <<"if", "then">> /\ b = <<"if", "done">>
        BY ClauseWays
      <3>2. Step(call("else_part"), <<a, None, {}>>, <<b, None, {}>>)
        BY <3>1, StepCall, ClauseWays, Finals
      <3>3. Step(compare_keyword("fi"), <<b, None, {}>>, <<b, None, {}>>)
        BY <3>1, StepCompare, WeakTo, Finals
      <3>4. Weak(b, b) /\ Final(None) /\ Excludes("if_clause_rest") \subseteq {}
        BY <3>1, WeakTo, Finals, Excluded
      <3> QED
        BY <3>2, <3>3, <3>4, Run2, DoneBy
    <2>2. Sound("if_clause_rest", <<compare_keyword("fi")>>)
      <3> SUFFICES ASSUME NEW a, NEW b, Way("if_clause_rest", a, b)
                   PROVE  Does("if_clause_rest",
                                <<compare_keyword("fi")>>, a, b)
        BY SoundWay, Frees
      <3>1. a = <<"if", "then">> /\ b = <<"if", "done">>
        BY ClauseWays
      <3>2. Step(compare_keyword("fi"), <<a, None, {}>>, <<a, None, {}>>)
        BY <3>1, StepCompare, WeakTo, Finals
      <3>3. Weak(a, b) /\ Final(None) /\ Excludes("if_clause_rest") \subseteq {}
        BY <3>1, WeakTo, Finals, Excluded
      <3> QED
        BY <3>2, <3>3, Run1, DoneBy
    <2>3. Sound("if_clause_rest", <<errtoken>>)
      <3> SUFFICES ASSUME NEW a, NEW b, Way("if_clause_rest", a, b)
                   PROVE  Does("if_clause_rest", <<errtoken>>, a, b)
        BY SoundWay, Frees
      <3>1. Step(errtoken, <<a, None, {}>>, <<b, None, {}>>)
        BY StepError
      <3>2. Weak(b, b) /\ Final(None) /\ Excludes("if_clause_rest") \subseteq {}
        BY WeakTo, Finals, Excluded
      <3> QED
        BY <3>1, <3>2, Run1, DoneBy
    <2> QED
      BY <1>16, <2>1, <2>2, <2>3, SoundEither, FunctionShape DEF if_clause_rest, Adders
  <1>17. CASE else_part
    <2>1. Sound("else_part", <<compare_keyword("elif"), add_node("elif"),
          below("compound_list"), compare_keyword("then"), below("compound_list"),
          call("else_part")>>)
      <3> SUFFICES ASSUME NEW a, NEW b, Way("else_part", a, b)
                   PROVE  Does("else_part", <<compare_keyword("elif"),
                                add_node("elif"), below("compound_list"), compare_keyword("then"),
                                below("compound_list"), call("else_part")>>, a, b)
        BY SoundWay, Frees
      <3>1. a = <<"if", "then">> /\ b = <<"if", "done">>
        BY ClauseWays
      <3>2. /\ Step(compare_keyword("elif"), <<a, None, {}>>, <<a, None, {}>>)
            /\ Step(add_node("elif"), <<a, None, {}>>, <<a, <<"elif", "new">>, {}>>)
            /\ Step(compare_keyword("then"), <<a, <<"elif", "one">>, {}>>, <<a, <<"elif", "one">>, {}>>)
        BY <3>1, StepCompare, StepAdd, GrowsTo, WeakTo, Finals
      <3>3. /\ Step(below("compound_list"), <<a, <<"elif", "new">>, {}>>, <<a, <<"elif", "one">>, {}>>)
            /\ Step(below("compound_list"), <<a, <<"elif", "one">>, {}>>, <<a, <<"elif", "done">>, {}>>)
        BY <3>1, StepBelow, CommandWays, GrowsTo, Finals
      <3>4. Step(call("else_part"), <<a, <<"elif", "done">>, {}>>, <<b, None, {}>>)
        BY <3>1, StepCall, ClauseWays, Finals
      <3>5. Weak(b, b) /\ Final(None) /\ Excludes("else_part") \subseteq {}
        BY <3>1, WeakTo, Finals, Excluded
      <3> QED
        BY <3>2, <3>3, <3>4, <3>5, Run6, DoneBy
    <2>2. Sound("else_part", <<compare_keyword("else"), add_node("else"),
          below("compound_list")>>)
      <3> SUFFICES ASSUME NEW a, NEW b, Way("else_part", a, b)
                   PROVE  Does("else_part", <<compare_keyword("else"),
                                add_node("else"), below("compound_list")>>, a, b)
        BY SoundWay, Frees
      <3>1. a = <<"if", "then">> /\ b = <<"if", "done">>
        BY ClauseWays
      <3>2. /\ Step(compare_keyword("else"), <<a, None, {}>>, <<a, None, {}>>)
            /\ Step(add_node("else"), <<a, None, {}>>, <<b, <<"else", "new">>, {}>>)
        BY <3>1, StepCompare, StepAdd, GrowsTo, WeakTo, Finals
      <3>3. Step(below("compound_list"), <<b, <<"else", "new">>, {}>>, <<b, <<"else", "done">>, {}>>)
        BY <3>1, StepBelow, CommandWays, GrowsTo, Finals
      <3>4. Weak(b, b) /\ Final(<<"else", "done">>) /\ Excludes("else_part") \subseteq {}
        BY <3>1, WeakTo, Finals, Excluded
      <3> QED
        BY <3>2, <3>3, <3>4, Run3, DoneBy
    <2>3. Sound("else_part", << >>)
      <3>1. \A a, b : Way("else_part", a, b) => Weak(a, b)
        BY ClauseWays, WeakTo
      <3> QED
        BY <3>1, SoundNone, Frees, Excluded
    <2> QED
      BY <1>17, <2>1, <2>2, <2>3, FunctionShape DEF else_part, Adders
  <1>18. CASE function_definition
    <2>1. Sound("function_definition", <<compare_keyword("function"), add_node("function"),
          below("fname"), compare("("), compare(")"), below("linebreak"), below("function_body")>>)
      <3> SUFFICES ASSUME NEW a, NEW b, Way("function_definition", a, b)
                   PROVE  Does("function_definition",
                                <<compare_keyword("function"), add_node("function"), below("fname"),
                                compare("("), compare(")"), below("linebreak"),
                                below("function_body")>>, a, b)
        BY SoundWay, Frees
      <3>1. Grows(a, "function", b)
        BY ClauseWays
      <3>2. /\ Step(compare_keyword("function"), <<a, None, {}>>, <<a, None, {}>>)
            /\ Step(add_node("function"), <<a, None, {}>>, <<b, <<"function", "new">>, {}>>)
            /\ Step(compare("("), <<b, <<"function", "named">>, {}>>, <<b, <<"function", "named">>, {}>>)
            /\ Step(compare(")"), <<b, <<"function", "named">>, {}>>, <<b, <<"function", "named">>, {}>>)
            /\ Step(below("linebreak"), <<b, <<"function", "named">>, {}>>, <<b, <<"function", "named">>, {}>>)
        BY <3>1, StepCompare, StepAdd, StepBreak, GrowsTo, WeakTo, Finals
      <3>3. /\ Step(below("fname"), <<b, <<"function", "new">>, {}>>, <<b, <<"function", "named">>, {}>>)
            /\ Step(below("function_body"), <<b, <<"function", "named">>, {}>>, <<b, <<"function", "done">>, {}>>)
        BY <3>1, StepBelow, ClauseWays, GrowsTo, Finals
      <3>4. Weak(b, b) /\ Final(<<"function", "done">>) /\ Excludes("function_definition") \subseteq {}
        BY <3>1, WeakTo, Finals, Excluded
      <3> QED
        BY <3>2, <3>3, <3>4, Run7, DoneBy
    <2> QED
      BY <1>18, <2>1, FunctionShape DEF function_definition, Adders
  <1>19. CASE function_body
    <2>1. Sound("function_body", <<call("compound_command"), call("command_rest")>>)
      <3> SUFFICES ASSUME NEW a, NEW b, Way("function_body", a, b)
                   PROVE  Does("function_body",
                                <<call("compound_command"), call("command_rest")>>, a, b)
        BY SoundWay, Frees
      <3>1. a = <<"function", "named">> /\ b = <<"function", "done">>
        BY ClauseWays
      <3>2. /\ Step(call("compound_command"), <<a, None, {}>>, <<b, None, {}>>)
            /\ Step(call("command_rest"), <<b, None, {}>>, <<b, None, {}>>)
        BY <3>1, StepCall, CommandWays, GrowsTo, Finals
      <3>3. Weak(b, b) /\ Final(None) /\ Excludes("function_body") \subseteq {}
        BY <3>1, WeakTo, Finals, Excluded
      <3> QED
        BY <3>2, <3>3, Run2, DoneBy
    <2> QED
      BY <1>19, <2>1, FunctionShape DEF function_body, Adders
  <1> QED
    BY <1>1, <1>2, <1>3, <1>4, <1>5, <1>6, <1>7, <1>8, <1>9, <1>10, <1>11, <1>12, <1>13,
        <1>14, <1>15, <1>16, <1>17, <1>18, <1>19 DEF Clauses

LEMMA SimpleShape == ASSUME ParserInv, ShapeInv, Simple PROVE ShapeInv'
  <1>1. CASE simple_command
    <2>1. Sound("simple_command", <<add_node("simple")>> \o <<below("cmd_prefix"), below("simple_command_rest_1")>>)
      <3> SUFFICES ASSUME NEW a, NEW b, Way("simple_command", a, b)
                   PROVE  Does("simple_command", <<add_node("simple")>> \o <<below("cmd_prefix"), below("simple_command_rest_1")>>, a, b)
        BY SoundWay, Frees
      <3>1. Step(add_node("simple"), <<a, None, {}>>, <<b, <<"simple", "new">>, {}>>)
        BY StepAdd, SimpleWays, Finals
      <3>2. Run(<<add_node("simple")>>, <<a, None, {}>>, <<b, <<"simple", "new">>, {}>>)
        BY <3>1, Run1
      <3>3. /\ Step(below("cmd_prefix"), <<b, <<"simple", "new">>, {}>>, <<b, <<"simple", "done">>, {}>>)
            /\ Step(below("simple_command_rest_1"), <<b, <<"simple", "done">>, {}>>, <<b, <<"simple", "done">>, {}>>)
        BY StepBelow, SimpleWays
      <3>4. Run(<<below("cmd_prefix"), below("simple_command_rest_1")>>, <<b, <<"simple", "new">>, {}>>, <<b, <<"simple", "done">>, {}>>)
        BY <3>3, Run2
      <3>5. Weak(b, b) /\ Final(<<"simple", "done">>) /\ Excludes("simple_command") \subseteq {}
        BY WeakTo, Finals, Excluded
      <3> QED
        BY <3>2, <3>4, <3>5, DoneJoined
    <2>2. Sound("simple_command", <<add_node("simple")>> \o <<below("cmd_name"), below("simple_command_rest_2")>>)
      <3> SUFFICES ASSUME NEW a, NEW b, Way("simple_command", a, b)
                   PROVE  Does("simple_command", <<add_node("simple")>> \o <<below("cmd_name"), below("simple_command_rest_2")>>, a, b)
        BY SoundWay, Frees
      <3>1. Step(add_node("simple"), <<a, None, {}>>, <<b, <<"simple", "new">>, {}>>)
        BY StepAdd, SimpleWays, Finals
      <3>2. Run(<<add_node("simple")>>, <<a, None, {}>>, <<b, <<"simple", "new">>, {}>>)
        BY <3>1, Run1
      <3>3. /\ Step(below("cmd_name"), <<b, <<"simple", "new">>, {}>>, <<b, <<"simple", "done">>, {}>>)
            /\ Step(below("simple_command_rest_2"), <<b, <<"simple", "done">>, {}>>, <<b, <<"simple", "done">>, {}>>)
        BY StepBelow, SimpleWays, GrowsTo
      <3>4. Run(<<below("cmd_name"), below("simple_command_rest_2")>>, <<b, <<"simple", "new">>, {}>>, <<b, <<"simple", "done">>, {}>>)
        BY <3>3, Run2
      <3>5. Weak(b, b) /\ Final(<<"simple", "done">>) /\ Excludes("simple_command") \subseteq {}
        BY WeakTo, Finals, Excluded
      <3> QED
        BY <3>2, <3>4, <3>5, DoneJoined
    <2>3. Sound("simple_command", <<add_node("simple")>> \o <<errtoken>>)
      <3> SUFFICES ASSUME NEW a, NEW b, Way("simple_command", a, b)
                   PROVE  Does("simple_command", <<add_node("simple")>> \o <<errtoken>>, a, b)
        BY SoundWay, Frees
      <3>1. Step(add_node("simple"), <<a, None, {}>>, <<b, <<"simple", "new">>, {}>>)
        BY StepAdd, SimpleWays, Finals
      <3>2. Run(<<add_node("simple")>>, <<a, None, {}>>, <<b, <<"simple", "new">>, {}>>)
        BY <3>1, Run1
      <3>3. Step(errtoken, <<b, <<"simple", "new">>, {}>>, <<b, None, {}>>)
        BY StepError
      <3>4. Run(<<errtoken>>, <<b, <<"simple", "new">>, {}>>, <<b, None, {}>>)
        BY <3>3, Run1
      <3>5. Weak(b, b) /\ Final(None) /\ Excludes("simple_command") \subseteq {}
        BY WeakTo, Finals, Excluded
      <3> QED
        BY <3>2, <3>4, <3>5, DoneJoined
    <2> QED
      BY <1>1, <2>1, <2>2, <2>3, FunctionShape DEF simple_command, Adders, Either
  <1>2. CASE simple_command_rest_1
    <2>1. Sound("simple_command_rest_1", <<call("cmd_name"),
          call("simple_command_rest_2")>>)
      <3> SUFFICES ASSUME NEW a, NEW b, Way("simple_command_rest_1", a, b)
                   PROVE  Does("simple_command_rest_1",
                                <<call("cmd_name"), call("simple_command_rest_2")>>, a, b)
        BY SoundWay, Frees
      <3>1. a = <<"simple", "done">> /\ b = a
        BY SimpleWays
      <3>2. /\ Step(call("cmd_name"), <<a, None, {}>>, <<a, None, {}>>)
            /\ Step(call("simple_command_rest_2"), <<a, None, {}>>, <<a, None, {}>>)
        BY <3>1, StepCall, SimpleWays, GrowsTo, Finals
      <3>3. Weak(a, b) /\ Final(None) /\ Excludes("simple_command_rest_1") \subseteq {}
        BY <3>1, WeakTo, Finals, Excluded
      <3> QED
        BY <3>2, <3>3, Run2, DoneBy
    <2>2. Sound("simple_command_rest_1", << >>)
      <3>1. \A a, b : Way("simple_command_rest_1", a, b) => b = a
        BY SimpleWays
      <3> QED
        BY <3>1, SoundStay, Frees, Excluded
    <2> QED
      BY <1>2, <2>1, <2>2, SoundEither, FunctionShape DEF simple_command_rest_1, Adders
  <1>3. CASE simple_command_rest_2
    <2>1. Sound("simple_command_rest_2", <<call("cmd_suffix")>>)
      <3> SUFFICES ASSUME NEW a, NEW b, Way("simple_command_rest_2", a, b)
                   PROVE  Does("simple_command_rest_2",
                                <<call("cmd_suffix")>>, a, b)
        BY SoundWay, Frees
      <3>1. a = <<"simple", "done">> /\ b = a
        BY SimpleWays
      <3>2. Step(call("cmd_suffix"), <<a, None, {}>>, <<a, None, {}>>)
        BY <3>1, StepCall, SimpleWays, Finals
      <3>3. Weak(a, b) /\ Final(None) /\ Excludes("simple_command_rest_2") \subseteq {}
        BY <3>1, WeakTo, Finals, Excluded
      <3> QED
        BY <3>2, <3>3, Run1, DoneBy
    <2>2. Sound("simple_command_rest_2", << >>)
      <3>1. \A a, b : Way("simple_command_rest_2", a, b) => b = a
        BY SimpleWays
      <3> QED
        BY <3>1, SoundStay, Frees, Excluded
    <2> QED
      BY <1>3, <2>1, <2>2, SoundEither, FunctionShape DEF simple_command_rest_2, Adders
  <1>4. CASE cmd_name
    <2>1. Sound("cmd_name", <<word>>)
      <3> SUFFICES ASSUME NEW a, NEW b, Way("cmd_name", a, b)
                   PROVE  Does("cmd_name", <<word>>, a, b)
        BY SoundWay, Frees
      <3>1. Grows(a, "word", b)
        BY SimpleWays
      <3>2. Step(word, <<a, None, {}>>, <<b, None, {}>>)
        BY <3>1, StepText, GrowsTo, Finals DEF Leaves, word
      <3>3. Weak(b, b) /\ Final(None) /\ Excludes("cmd_name") \subseteq {}
        BY <3>1, WeakTo, Finals, Excluded
      <3> QED
        BY <3>2, <3>3, Run1, DoneBy
    <2> QED
      BY <1>4, <2>1, FunctionShape DEF cmd_name, Adders, word
  <1>5. CASE cmd_prefix
    <2>1. Sound("cmd_prefix", <<call("io_redirect"), call("cmd_prefix_rest")>>)
      <3> SUFFICES ASSUME NEW a, NEW b, Way("cmd_prefix", a, b)
                   PROVE  Does("cmd_prefix", <<call("io_redirect"),
                                call("cmd_prefix_rest")>>, a, b)
        BY SoundWay, Frees
      <3>1. a = <<"simple", "new">> /\ b = <<"simple", "done">>
        BY SimpleWays
      <3>2. /\ Step(call("io_redirect"), <<a, None, {}>>, <<b, None, {}>>)
            /\ Step(call("cmd_prefix_rest"), <<b, None, {}>>, <<b, None, {}>>)
        BY <3>1, StepCall, SimpleWays, GrowsTo, Finals
      <3>3. Weak(b, b) /\ Final(None) /\ Excludes("cmd_prefix") \subseteq {}
        BY <3>1, WeakTo, Finals, Excluded
      <3> QED
        BY <3>2, <3>3, Run2, DoneBy
    <2>2. Sound("cmd_prefix", <<compare_add_str("assignment", t), call("cmd_prefix_rest")>>)
      <3> SUFFICES ASSUME NEW a, NEW b, Way("cmd_prefix", a, b)
                   PROVE  Does("cmd_prefix",
                                <<compare_add_str("assignment", t), call("cmd_prefix_rest")>>, a,
                                b)
        BY SoundWay, Frees
      <3>1. a = <<"simple", "new">> /\ b = <<"simple", "done">>
        BY SimpleWays
      <3>2. Step(compare_add_str("assignment", t), <<a, None, {}>>, <<b, None, {}>>)
        BY <3>1, StepText, GrowsTo, Finals DEF Leaves
      <3>3. Step(call("cmd_prefix_rest"), <<b, None, {}>>, <<b, None, {}>>)
        BY <3>1, StepCall, SimpleWays, Finals
      <3>4. Weak(b, b) /\ Final(None) /\ Excludes("cmd_prefix") \subseteq {}
        BY <3>1, WeakTo, Finals, Excluded
      <3> QED
        BY <3>2, <3>3, <3>4, Run2, DoneBy
    <2>3. Sound("cmd_prefix", <<errtoken>>)
      <3> SUFFICES ASSUME NEW a, NEW b, Way("cmd_prefix", a, b)
                   PROVE  Does("cmd_prefix", <<errtoken>>, a, b)
        BY SoundWay, Frees
      <3>1. Step(errtoken, <<a, None, {}>>, <<b, None, {}>>)
        BY StepError
      <3>2. Weak(b, b) /\ Final(None) /\ Excludes("cmd_prefix") \subseteq {}
        BY WeakTo, Finals, Excluded
      <3> QED
        BY <3>1, <3>2, Run1, DoneBy
    <2>4. Sound("cmd_prefix_rest", <<call("io_redirect"), call("cmd_prefix_rest")>>)
      <3> SUFFICES ASSUME NEW a, NEW b, Way("cmd_prefix_rest", a, b)
                   PROVE  Does("cmd_prefix_rest",
                                <<call("io_redirect"), call("cmd_prefix_rest")>>, a, b)
        BY SoundWay, Frees
      <3>1. a = <<"simple", "done">> /\ b = a
        BY SimpleWays
      <3>2. /\ Step(call("io_redirect"), <<a, None, {}>>, <<a, None, {}>>)
            /\ Step(call("cmd_prefix_rest"), <<a, None, {}>>, <<a, None, {}>>)
        BY <3>1, StepCall, SimpleWays, GrowsTo, Finals
      <3>3. Weak(a, b) /\ Final(None) /\ Excludes("cmd_prefix_rest") \subseteq {}
        BY <3>1, WeakTo, Finals, Excluded
      <3> QED
        BY <3>2, <3>3, Run2, DoneBy
    <2>5. Sound("cmd_prefix_rest", <<compare_add_str("assignment", t),
          call("cmd_prefix_rest")>>)
      <3> SUFFICES ASSUME NEW a, NEW b, Way("cmd_prefix_rest", a, b)
                   PROVE  Does("cmd_prefix_rest",
                                <<compare_add_str("assignment", t), call("cmd_prefix_rest")>>, a,
                                b)
        BY SoundWay, Frees
      <3>1. a = <<"simple", "done">> /\ b = a
        BY SimpleWays
      <3>2. Step(compare_add_str("assignment", t), <<a, None, {}>>, <<a, None, {}>>)
        BY <3>1, StepText, GrowsTo, Finals DEF Leaves
      <3>3. Step(call("cmd_prefix_rest"), <<a, None, {}>>, <<a, None, {}>>)
        BY <3>1, StepCall, SimpleWays, Finals
      <3>4. Weak(a, b) /\ Final(None) /\ Excludes("cmd_prefix_rest") \subseteq {}
        BY <3>1, WeakTo, Finals, Excluded
      <3> QED
        BY <3>2, <3>3, <3>4, Run2, DoneBy
    <2>6. Sound("cmd_prefix_rest", << >>)
      <3>1. \A a, b : Way("cmd_prefix_rest", a, b) => b = a
        BY SimpleWays
      <3> QED
        BY <3>1, SoundStay, Frees, Excluded
    <2> QED
      BY <1>5, <2>1, <2>2, <2>3, <2>4, <2>5, <2>6, SoundEither,
          FunctionShape DEF cmd_prefix, Adders
  <1>6. CASE cmd_suffix
    <2>1. Sound("cmd_suffix", <<call("io_redirect"), call("cmd_suffix_rest")>>)
      <3> SUFFICES ASSUME NEW a, NEW b, Way("cmd_suffix", a, b)
                   PROVE  Does("cmd_suffix", <<call("io_redirect"),
                                call("cmd_suffix_rest")>>, a, b)
        BY SoundWay, Frees
      <3>1. a = <<"simple", "done">> /\ b = a
        BY SimpleWays
      <3>2. /\ Step(call("io_redirect"), <<a, None, {}>>, <<a, None, {}>>)
            /\ Step(call("cmd_suffix_rest"), <<a, None, {}>>, <<a, None, {}>>)
        BY <3>1, StepCall, SimpleWays, GrowsTo, Finals
      <3>3. Weak(a, b) /\ Final(None) /\ Excludes("cmd_suffix") \subseteq {}
        BY <3>1, WeakTo, Finals, Excluded
      <3> QED
        BY <3>2, <3>3, Run2, DoneBy
    <2>2. Sound("cmd_suffix", <<word, call("cmd_suffix_rest")>>)
      <3> SUFFICES ASSUME NEW a, NEW b, Way("cmd_suffix", a, b)
                   PROVE  Does("cmd_suffix", <<word,
                                call("cmd_suffix_rest")>>, a, b)
        BY SoundWay, Frees
      <3>1. a = <<"simple", "done">> /\ b = a
        BY SimpleWays
      <3>2. Step(word, <<a, None, {}>>, <<a, None, {}>>)
        BY <3>1, StepText, GrowsTo, Finals DEF Leaves, word
      <3>3. Step(call("cmd_suffix_rest"), <<a, None, {}>>, <<a, None, {}>>)
        BY <3>1, StepCall, SimpleWays, Finals
      <3>4. Weak(a, b) /\ Final(None) /\ Excludes("cmd_suffix") \subseteq {}
        BY <3>1, WeakTo, Finals, Excluded
      <3> QED
        BY <3>2, <3>3, <3>4, Run2, DoneBy
    <2>3. Sound("cmd_suffix", <<errtoken>>)
      <3> SUFFICES ASSUME NEW a, NEW b, Way("cmd_suffix", a, b)
                   PROVE  Does("cmd_suffix", <<errtoken>>, a, b)
        BY SoundWay, Frees
      <3>1. Step(errtoken, <<a, None, {}>>, <<b, None, {}>>)
        BY StepError
      <3>2. Weak(b, b) /\ Final(None) /\ Excludes("cmd_suffix") \subseteq {}
        BY WeakTo, Finals, Excluded
      <3> QED
        BY <3>1, <3>2, Run1, DoneBy
    <2>4. Sound("cmd_suffix_rest", <<call("io_redirect"), call("cmd_suffix_rest")>>)
      <3> SUFFICES ASSUME NEW a, NEW b, Way("cmd_suffix_rest", a, b)
                   PROVE  Does("cmd_suffix_rest",
                                <<call("io_redirect"), call("cmd_suffix_rest")>>, a, b)
        BY SoundWay, Frees
      <3>1. a = <<"simple", "done">> /\ b = a
        BY SimpleWays
      <3>2. /\ Step(call("io_redirect"), <<a, None, {}>>, <<a, None, {}>>)
            /\ Step(call("cmd_suffix_rest"), <<a, None, {}>>, <<a, None, {}>>)
        BY <3>1, StepCall, SimpleWays, GrowsTo, Finals
      <3>3. Weak(a, b) /\ Final(None) /\ Excludes("cmd_suffix_rest") \subseteq {}
        BY <3>1, WeakTo, Finals, Excluded
      <3> QED
        BY <3>2, <3>3, Run2, DoneBy
    <2>5. Sound("cmd_suffix_rest", <<word, call("cmd_suffix_rest")>>)
      <3> SUFFICES ASSUME NEW a, NEW b, Way("cmd_suffix_rest", a, b)
                   PROVE  Does("cmd_suffix_rest", <<word,
                                call("cmd_suffix_rest")>>, a, b)
        BY SoundWay, Frees
      <3>1. a = <<"simple", "done">> /\ b = a
        BY SimpleWays
      <3>2. Step(word, <<a, None, {}>>, <<a, None, {}>>)
        BY <3>1, StepText, GrowsTo, Finals DEF Leaves, word
      <3>3. Step(call("cmd_suffix_rest"), <<a, None, {}>>, <<a, None, {}>>)
        BY <3>1, StepCall, SimpleWays, Finals
      <3>4. Weak(a, b) /\ Final(None) /\ Excludes("cmd_suffix_rest") \subseteq {}
        BY <3>1, WeakTo, Finals, Excluded
      <3> QED
        BY <3>2, <3>3, <3>4, Run2, DoneBy
    <2>6. Sound("cmd_suffix_rest", << >>)
      <3>1. \A a, b : Way("cmd_suffix_rest", a, b) => b = a
        BY SimpleWays
      <3> QED
        BY <3>1, SoundStay, Frees, Excluded
    <2> QED
      BY <1>6, <2>1, <2>2, <2>3, <2>4, <2>5, <2>6, SoundEither,
          FunctionShape DEF cmd_suffix, Adders, word
  <1>7. CASE redirection_list
    <2>1. Sound("redirection_list", <<call("io_redirect"), call("redirection_list_rest")>>)
      <3> SUFFICES ASSUME NEW a, NEW b, Way("redirection_list", a, b)
                   PROVE  Does("redirection_list",
                                <<call("io_redirect"), call("redirection_list_rest")>>, a, b)
        BY SoundWay, Frees
      <3>1. a \in {<<"command", "compound">>, <<"function", "done">>} /\ b = a
        BY SimpleWays
      <3>2. /\ Step(call("io_redirect"), <<a, None, {}>>, <<a, None, {}>>)
            /\ Step(call("redirection_list_rest"), <<a, None, {}>>, <<a, None, {}>>)
        BY <3>1, StepCall, SimpleWays, Finals, GrowsRedirect
      <3>3. Weak(a, b) /\ Final(None) /\ Excludes("redirection_list") \subseteq {}
        BY <3>1, WeakTo, Finals, Excluded
      <3> QED
        BY <3>2, <3>3, Run2, DoneBy
    <2>2. Sound("redirection_list_rest", <<call("io_redirect"),
          call("redirection_list_rest")>>)
      <3> SUFFICES ASSUME NEW a, NEW b, Way("redirection_list_rest", a, b)
                   PROVE  Does("redirection_list_rest",
                                <<call("io_redirect"), call("redirection_list_rest")>>, a, b)
        BY SoundWay, Frees
      <3>1. a \in {<<"command", "compound">>, <<"function", "done">>} /\ b = a
        BY SimpleWays
      <3>2. /\ Step(call("io_redirect"), <<a, None, {}>>, <<a, None, {}>>)
            /\ Step(call("redirection_list_rest"), <<a, None, {}>>, <<a, None, {}>>)
        BY <3>1, StepCall, SimpleWays, Finals, GrowsRedirect
      <3>3. Weak(a, b) /\ Final(None) /\ Excludes("redirection_list_rest") \subseteq {}
        BY <3>1, WeakTo, Finals, Excluded
      <3> QED
        BY <3>2, <3>3, Run2, DoneBy
    <2>3. Sound("redirection_list_rest", << >>)
      <3>1. \A a, b : Way("redirection_list_rest", a, b) => b = a
        BY SimpleWays
      <3> QED
        BY <3>1, SoundStay, Frees, Excluded
    <2> QED
      BY <1>7, <2>1, <2>2, <2>3, SoundEither, FunctionShape DEF redirection_list, Adders
  <1>8. CASE io_redirect
    <2>1. Sound("io_redirect", <<add_node("redirect")>> \o <<compare_add_str("io number", t + 1), below("io_redirect_rest")>>)
      <3> SUFFICES ASSUME NEW a, NEW b, Way("io_redirect", a, b)
                   PROVE  Does("io_redirect", <<add_node("redirect")>> \o <<compare_add_str("io number", t + 1), below("io_redirect_rest")>>, a, b)
        BY SoundWay, Frees
      <3>1. Step(add_node("redirect"), <<a, None, {}>>, <<b, <<"redirect", "new">>, {}>>)
        BY StepAdd, SimpleWays, Finals
      <3>2. Run(<<add_node("redirect")>>, <<a, None, {}>>, <<b, <<"redirect", "new">>, {}>>)
        BY <3>1, Run1
      <3>3. /\ Step(compare_add_str("io number", t + 1), <<b, <<"redirect", "new">>, {}>>, <<b, <<"redirect", "number">>, {}>>)
            /\ Step(below("io_redirect_rest"), <<b, <<"redirect", "number">>, {}>>, <<b, <<"redirect", "done">>, {}>>)
        BY StepTextBelow, StepBelow, SimpleWays, GrowsTo DEF Leaves
      <3>4. Run(<<compare_add_str("io number", t + 1), below("io_redirect_rest")>>, <<b, <<"redirect", "new">>, {}>>, <<b, <<"redirect", "done">>, {}>>)
        BY <3>3, Run2
      <3>5. Weak(b, b) /\ Final(<<"redirect", "done">>) /\ Excludes("io_redirect") \subseteq {}
        BY WeakTo, Finals, Excluded
      <3> QED
        BY <3>2, <3>4, <3>5, DoneJoined
    <2>2. Sound("io_redirect", <<add_node("redirect")>> \o <<below("io_redirect_rest")>>)
      <3> SUFFICES ASSUME NEW a, NEW b, Way("io_redirect", a, b)
                   PROVE  Does("io_redirect", <<add_node("redirect")>> \o <<below("io_redirect_rest")>>, a, b)
        BY SoundWay, Frees
      <3>1. Step(add_node("redirect"), <<a, None, {}>>, <<b, <<"redirect", "new">>, {}>>)
        BY StepAdd, SimpleWays, Finals
      <3>2. Run(<<add_node("redirect")>>, <<a, None, {}>>, <<b, <<"redirect", "new">>, {}>>)
        BY <3>1, Run1
      <3>3. Step(below("io_redirect_rest"), <<b, <<"redirect", "new">>, {}>>, <<b, <<"redirect", "done">>, {}>>)
        BY StepBelow, SimpleWays
      <3>4. Run(<<below("io_redirect_rest")>>, <<b, <<"redirect", "new">>, {}>>, <<b, <<"redirect", "done">>, {}>>)
        BY <3>3, Run1
      <3>5. Weak(b, b) /\ Final(<<"redirect", "done">>) /\ Excludes("io_redirect") \subseteq {}
        BY WeakTo, Finals, Excluded
      <3> QED
        BY <3>2, <3>4, <3>5, DoneJoined
    <2> QED
      BY <1>8, <2>1, <2>2, FunctionShape DEF io_redirect, Adders, Either
  <1>9. CASE io_redirect_rest
    <2>1. Sound("io_redirect_rest", <<call("io_file")>>)
      <3> SUFFICES ASSUME NEW a, NEW b, Way("io_redirect_rest", a, b)
                   PROVE  Does("io_redirect_rest",
                                <<call("io_file")>>, a, b)
        BY SoundWay, Frees
      <3>1. a \in {<<"redirect", "new">>, <<"redirect", "number">>} /\ b = <<"redirect", "done">>
        BY SimpleWays
      <3>2. Step(call("io_file"), <<a, None, {}>>, <<b, None, {}>>)
        BY <3>1, StepCall, SimpleWays, Finals
      <3>3. Weak(b, b) /\ Final(None) /\ Excludes("io_redirect_rest") \subseteq {}
        BY <3>1, WeakTo, Finals, Excluded
      <3> QED
        BY <3>2, <3>3, Run1, DoneBy
    <2>2. Sound("io_redirect_rest", <<call("io_here")>>)
      <3> SUFFICES ASSUME NEW a, NEW b, Way("io_redirect_rest", a, b)
                   PROVE  Does("io_redirect_rest",
                                <<call("io_here")>>, a, b)
        BY SoundWay, Frees
      <3>1. a \in {<<"redirect", "new">>, <<"redirect", "number">>} /\ b = <<"redirect", "done">>
        BY SimpleWays
      <3>2. Step(call("io_here"), <<a, None, {}>>, <<b, None, {}>>)
        BY <3>1, StepCall, SimpleWays, Finals
      <3>3. Weak(b, b) /\ Final(None) /\ Excludes("io_redirect_rest") \subseteq {}
        BY <3>1, WeakTo, Finals, Excluded
      <3> QED
        BY <3>2, <3>3, Run1, DoneBy
    <2>3. Sound("io_redirect_rest", <<errtoken>>)
      <3> SUFFICES ASSUME NEW a, NEW b, Way("io_redirect_rest", a, b)
                   PROVE  Does("io_redirect_rest", <<errtoken>>, a, b)
        BY SoundWay, Frees
      <3>1. Step(errtoken, <<a, None, {}>>, <<b, None, {}>>)
        BY StepError
      <3>2. Weak(b, b) /\ Final(None) /\ Excludes("io_redirect_rest") \subseteq {}
        BY WeakTo, Finals, Excluded
      <3> QED
        BY <3>1, <3>2, Run1, DoneBy
    <2> QED
      BY <1>9, <2>1, <2>2, <2>3, SoundEither, FunctionShape DEF io_redirect_rest, Adders
  <1>10. CASE io_file
    <2>0. ASSUME NEW a, NEW b, Way("io_file", a, b)
          PROVE  a \in {<<"redirect", "new">>, <<"redirect", "number">>} /\ b = <<"redirect", "done">>
      BY <2>0, SimpleWays
    <2>1. ASSUME NEW a, NEW b, Way("io_file", a, b)
          PROVE  Does("io_file", <<compare("<"), add_node("<")>> \o <<word>>, a, b)
      <3> DEFINE n == <<"redirect", "file">>
      <3>1. Grows(a, "<", n) /\ Grows(n, "word", b)
        BY <2>0, <2>1, GrowsTo
      <3> HIDE DEF n
      <3>2. /\ Step(compare("<"), <<a, None, {}>>, <<a, None, {}>>)
            /\ Step(add_node("<"), <<a, None, {}>>, <<n, <<"<", "new">>, {}>>)
        BY <3>1, StepCompare, StepAdd, WeakTo, Finals
      <3>3. Step(word, <<n, <<"<", "new">>, {}>>, <<b, None, {}>>)
        BY <3>1, StepText, LeavesFinal DEF word, Leaves
      <3>4. Run(<<compare("<"), add_node("<")>>, <<a, None, {}>>, <<n, <<"<", "new">>, {}>>)
        BY <3>2, Run2
      <3>5. Run(<<word>>, <<n, <<"<", "new">>, {}>>, <<b, None, {}>>)
        BY <3>3, Run1
      <3>6. Weak(b, b) /\ Final(None) /\ Excludes("io_file") \subseteq {}
        BY WeakTo, Finals, Excluded
      <3> QED
        BY <3>4, <3>5, <3>6, DoneJoined
    <2>2. ASSUME NEW a, NEW b, Way("io_file", a, b)
          PROVE  Does("io_file", <<compare("<&"), add_node("<>")>> \o <<word>>, a, b)
      <3> DEFINE n == <<"redirect", "never">>
      <3>1. Grows(n, "<>", n) /\ Grows(n, "word", b)
        <4>1. b = <<"redirect", "done">>
          BY <2>0, <2>2
        <4> QED
          BY <4>1 DEF Grows
      <3> HIDE DEF n
      <3>2. /\ Step(compare("<&"), <<a, None, {}>>, <<n, None, {}>>)
            /\ Step(add_node("<>"), <<n, None, {}>>, <<n, <<"<>", "new">>, {}>>)
        BY <3>1, StepError, StepAdd, Finals
      <3>3. Step(word, <<n, <<"<>", "new">>, {}>>, <<b, None, {}>>)
        BY <3>1, StepText, LeavesFinal DEF word, Leaves
      <3>4. Run(<<compare("<&"), add_node("<>")>>, <<a, None, {}>>, <<n, <<"<>", "new">>, {}>>)
        BY <3>2, Run2
      <3>5. Run(<<word>>, <<n, <<"<>", "new">>, {}>>, <<b, None, {}>>)
        BY <3>3, Run1
      <3>6. Weak(b, b) /\ Final(None) /\ Excludes("io_file") \subseteq {}
        BY WeakTo, Finals, Excluded
      <3> QED
        BY <3>4, <3>5, <3>6, DoneJoined
    <2> DEFINE s == Either({"<"}, <<compare("<"), add_node("<")>>, <<compare("<&"), add_node("<>")>>)
    <2>3. s = <<compare("<"), add_node("<")>> \/ s = <<compare("<&"), add_node("<>")>>
      BY DEF Either
    <2> HIDE DEF s
    <2>4. \A a, b : Way("io_file", a, b) => Does("io_file", s \o <<word>>, a, b)
      BY <2>1, <2>2, <2>3
    <2>5. Sound("io_file", s \o <<word>>)
      BY <2>4, SoundWay, Frees
    <2>6. Function("io_file", s \o <<word>>)
      BY <1>10 DEF io_file, s, word
    <2> QED
      BY <2>5, <2>6, FunctionShape DEF Adders
  <1>11. CASE io_here
    <2>1. Sound("io_here", <<compare("<<"), add_node("<<")>>)
      <3> SUFFICES ASSUME NEW a, NEW b, Way("io_here", a, b)
                   PROVE  Does("io_here", <<compare("<<"),
                                add_node("<<")>>, a, b)
        BY SoundWay, Frees
      <3>1. a \in {<<"redirect", "new">>, <<"redirect", "number">>} /\ b = <<"redirect", "done">>
        BY SimpleWays
      <3>2. /\ Step(compare("<<"), <<a, None, {}>>, <<a, None, {}>>)
            /\ Step(add_node("<<"), <<a, None, {}>>, <<b, <<"<<", "new">>, {}>>)
        BY <3>1, StepCompare, StepAdd, GrowsTo, WeakTo, Finals
      <3>3. Weak(b, b) /\ Final(<<"<<", "new">>) /\ Excludes("io_here") \subseteq {}
        BY <3>1, WeakTo, Finals, LeavesFinal, Excluded
      <3> QED
        BY <3>2, <3>3, Run2, DoneBy
    <2> QED
      BY <1>11, <2>1, FunctionShape DEF io_here, Adders
  <1> QED
    BY <1>1, <1>2, <1>3, <1>4, <1>5, <1>6, <1>7, <1>8, <1>9, <1>10, <1>11 DEF Simple

LEMMA BreaksShape == ASSUME ParserInv, ShapeInv, Breaks PROVE ShapeInv'
  <1>1. CASE newline_list
    <2>1. Sound("newline_list", <<compare("newline"), call("linebreak")>>)
      <3> SUFFICES ASSUME NEW a, NEW b, Way("newline_list", a, b)
                   PROVE  Does("newline_list", <<compare("newline"),
                                call("linebreak")>>, a, b)
        BY SoundWay, Frees
      <3>1. b = a
        BY BreakWays
      <3>2. /\ Step(compare("newline"), <<a, None, {}>>, <<a, None, {}>>)
            /\ Step(call("linebreak"), <<a, None, {}>>, <<a, None, {}>>)
        BY <3>1, StepCompare, StepBreak, WeakTo, Finals
      <3>3. Weak(a, b) /\ Final(None) /\ Excludes("newline_list") \subseteq {}
        BY <3>1, WeakTo, Finals, Excluded
      <3> QED
        BY <3>2, <3>3, Run2, DoneBy
    <2> QED
      BY <1>1, <2>1, FunctionShape DEF newline_list, Adders
  <1>2. CASE linebreak
    <2>1. Sound("linebreak", <<call("newline_list")>>)
      <3> SUFFICES ASSUME NEW a, NEW b, Way("linebreak", a, b)
                   PROVE  Does("linebreak", <<call("newline_list")>>,
                                a, b)
        BY SoundWay, Frees
      <3>1. b = a
        BY BreakWays
      <3>2. Step(call("newline_list"), <<a, None, {}>>, <<a, None, {}>>)
        BY StepBreak
      <3>3. Weak(a, b) /\ Final(None) /\ Excludes("linebreak") \subseteq {}
        BY <3>1, WeakTo, Finals, Excluded
      <3> QED
        BY <3>2, <3>3, Run1, DoneBy
    <2>2. Sound("linebreak", << >>)
      <3>1. \A a, b : Way("linebreak", a, b) => b = a
        BY BreakWays
      <3> QED
        BY <3>1, SoundStay, Frees, Excluded
    <2> QED
      BY <1>2, <2>1, <2>2, SoundEither, FunctionShape DEF linebreak, Adders
  <1>3. CASE separator_op
    <2>1. Sound("separator_op", <<compare("&"), add_node("&")>>)
      <3> SUFFICES ASSUME NEW a, NEW b, Way("separator_op", a, b)
                   PROVE  Does("separator_op", <<compare("&"),
                                add_node("&")>>, a, b)
        BY SoundWay, Frees
      <3>1. \E k \in {"list", "compound"} : a = <<k, "done">> /\ b = <<k, "more">>
        BY BreakWays
      <3>2. /\ Step(compare("&"), <<a, None, {}>>, <<a, None, {}>>)
            /\ Step(add_node("&"), <<a, None, {}>>, <<b, <<"&", "new">>, {}>>)
        BY <3>1, StepCompare, StepAdd, GrowsTo, WeakTo, Finals
      <3>3. Weak(b, b) /\ Final(<<"&", "new">>) /\ Excludes("separator_op") \subseteq {}
        BY <3>1, WeakTo, Finals, LeavesFinal, Excluded
      <3> QED
        BY <3>2, <3>3, Run2, DoneBy
    <2>2. Sound("separator_op", <<compare(";")>>)
      <3> SUFFICES ASSUME NEW a, NEW b, Way("separator_op", a, b)
                   PROVE  Does("separator_op", <<compare(";")>>, a, b)
        BY SoundWay, Frees
      <3>1. \E k \in {"list", "compound"} : a = <<k, "done">> /\ b = <<k, "more">>
        BY BreakWays
      <3>2. Step(compare(";"), <<a, None, {}>>, <<a, None, {}>>)
        BY <3>1, StepCompare, WeakTo, Finals
      <3>3. Weak(a, b) /\ Final(None) /\ Excludes("separator_op") \subseteq {}
        BY <3>1, WeakTo, Finals, Excluded
      <3> QED
        BY <3>2, <3>3, Run1, DoneBy
    <2>3. Sound("separator_op", <<errtoken>>)
      <3> SUFFICES ASSUME NEW a, NEW b, Way("separator_op", a, b)
                   PROVE  Does("separator_op", <<errtoken>>, a, b)
        BY SoundWay, Frees
      <3>1. Step(errtoken, <<a, None, {}>>, <<b, None, {}>>)
        BY StepError
      <3>2. Weak(b, b) /\ Final(None) /\ Excludes("separator_op") \subseteq {}
        BY WeakTo, Finals, Excluded
      <3> QED
        BY <3>1, <3>2, Run1, DoneBy
    <2> QED
      BY <1>3, <2>1, <2>2, <2>3, SoundEither, FunctionShape DEF separator_op, Adders
  <1>4. CASE separator
    <2>0. ASSUME NEW a, NEW b, Moves("separator", "", a, b)
          PROVE  \/ a = <<"compound", "done">> /\ b = <<"compound", "more">>
                 \/ a = <<"root", "done">> /\ b = a /\ Needs("separator", a) = {"&", ";"}
      BY <2>0, Needy
    <2>1. toklast \in {";", "&"} => Sound("separator", <<call("separator_op"), call("linebreak")>>)
      <3> SUFFICES ASSUME toklast \in {";", "&"}, NEW a, NEW b, Moves("separator", "", a, b),
                          toklast \notin Needs("separator", a)
                   PROVE  Does("separator", <<call("separator_op"), call("linebreak")>>, a, b)
        BY SoundNeedy
      <3>1. a = <<"compound", "done">> /\ b = <<"compound", "more">>
        BY <2>0
      <3>2. Step(call("separator_op"), <<a, None, {}>>, <<b, None, {}>>)
        <4>1. Way("separator_op", a, b)
          BY <3>1, BreakWays
        <4> QED
          BY <4>1, StepCall, Finals
      <3>3. Step(call("linebreak"), <<b, None, {}>>, <<b, None, {}>>)
        BY StepBreak
      <3>4. Weak(b, b) /\ Final(None) /\ Excludes("separator") \subseteq {}
        BY WeakTo, Finals, Excluded
      <3> QED
        BY <3>2, <3>3, <3>4, Run2, DoneBy
    <2>2. Sound("separator", <<call("newline_list")>>)
      <3> SUFFICES ASSUME NEW a, NEW b, Moves("separator", "", a, b)
                   PROVE  Does("separator", <<call("newline_list")>>, a, b)
        BY SoundNeedy
      <3>1. Weak(a, b)
        <4>1. CASE a = <<"compound", "done">> /\ b = <<"compound", "more">>
          BY <4>1, WeakTo
        <4>2. CASE b = a
          BY <4>2, WeakTo
        <4> QED
          BY <2>0, <4>1, <4>2
      <3>2. Step(call("newline_list"), <<a, None, {}>>, <<a, None, {}>>)
        BY StepBreak
      <3>3. Final(None) /\ Excludes("separator") \subseteq {}
        BY Finals, Excluded
      <3> QED
        BY <3>1, <3>2, <3>3, Run1, DoneBy
    <2>3. Sound("separator", <<errtoken>>)
      <3> SUFFICES ASSUME NEW a, NEW b PROVE Does("separator", <<errtoken>>, a, b)
        BY SoundNeedy
      <3>1. Step(errtoken, <<a, None, {}>>, <<b, None, {}>>)
        BY StepError
      <3>2. Weak(b, b) /\ Final(None) /\ Excludes("separator") \subseteq {}
        BY WeakTo, Finals, Excluded
      <3> QED
        BY <3>1, <3>2, Run1, DoneBy
    <2> QED
      BY <1>4, <2>1, <2>2, <2>3, SoundEither, FunctionShape DEF separator, Adders
  <1>5. CASE sequential_sep
    <2>1. Sound("sequential_sep", <<compare(";"), call("linebreak")>>)
      <3> SUFFICES ASSUME NEW a, NEW b, Way("sequential_sep", a, b)
                   PROVE  Does("sequential_sep", <<compare(";"),
                                call("linebreak")>>, a, b)
        BY SoundWay, Frees
      <3>1. b = a
        BY BreakWays
      <3>2. /\ Step(compare(";"), <<a, None, {}>>, <<a, None, {}>>)
            /\ Step(call("linebreak"), <<a, None, {}>>, <<a, None, {}>>)
        BY <3>1, StepCompare, StepBreak, WeakTo, Finals
      <3>3. Weak(a, b) /\ Final(None) /\ Excludes("sequential_sep") \subseteq {}
        BY <3>1, WeakTo, Finals, Excluded
      <3> QED
        BY <3>2, <3>3, Run2, DoneBy
    <2>2. Sound("sequential_sep", <<call("newline_list")>>)
      <3> SUFFICES ASSUME NEW a, NEW b, Way("sequential_sep", a, b)
                   PROVE  Does("sequential_sep",
                                <<call("newline_list")>>, a, b)
        BY SoundWay, Frees
      <3>1. b = a
        BY BreakWays
      <3>2. Step(call("newline_list"), <<a, None, {}>>, <<a, None, {}>>)
        BY StepBreak
      <3>3. Weak(a, b) /\ Final(None) /\ Excludes("sequential_sep") \subseteq {}
        BY <3>1, WeakTo, Finals, Excluded
      <3> QED
        BY <3>2, <3>3, Run1, DoneBy
    <2>3. Sound("sequential_sep", <<errtoken>>)
      <3> SUFFICES ASSUME NEW a, NEW b, Way("sequential_sep", a, b)
                   PROVE  Does("sequential_sep", <<errtoken>>, a, b)
        BY SoundWay, Frees
      <3>1. Step(errtoken, <<a, None, {}>>, <<b, None, {}>>)
        BY StepError
      <3>2. Weak(b, b) /\ Final(None) /\ Excludes("sequential_sep") \subseteq {}
        BY WeakTo, Finals, Excluded
      <3> QED
        BY <3>1, <3>2, Run1, DoneBy
    <2> QED
      BY <1>5, <2>1, <2>2, <2>3, SoundEither, FunctionShape DEF sequential_sep, Adders
  <1> QED
    BY <1>1, <1>2, <1>3, <1>4, <1>5 DEF Breaks

-----------------------------------------------------------------------------
\* At the start there is the root, and complete_command to be done for it.
LEMMA InitShape == Init => ShapeInv
  <1> SUFFICES ASSUME Init PROVE ShapeInv
    OBVIOUS
  <1> DEFINE at(p) == [at |-> [e \in Nat |-> IF e = 0 THEN <<"root", p>> ELSE None], no |-> {}]
  <1>1. PICK A, B : A = at("new") /\ B = at("done")
    OBVIOUS
  <1>2. /\ A.at[0] = <<"root", "new">> /\ B.at[0] = <<"root", "done">>
        /\ \A e \in Nat : e # 0 => A.at[e] = None /\ B.at[e] = None
        /\ A.no = {} /\ B.no = {}
    BY <1>1
  <1> HIDE DEF at
  <1>3. PICK i, c : i = Item("complete_command", 0, "") /\ c = <<A, B>>
    OBVIOUS
  <1>4. todo = <<i>> /\ tree = <<Root>>
    BY <1>3, Zenon DEF Init
  <1>5. Leads(i, A, B)
    <2>1. i.do = "complete_command" /\ i.d = 0 /\ i.x = ""
      BY <1>3 DEF Item
    <2>2. Moves("complete_command", "", <<"root", "new">>, <<"root", "done">>)
      BY DEF Moves, Path, OneOf
    <2>3. Needs("complete_command", <<"root", "new">>) = {} /\ "complete_command" \notin Adders
      BY DEF Needs, Adders
    <2>4. \A e \in Nat : e > 0 => Final(A.at[e])
      BY <1>2, FinalNone
    <2>5. \E b : Moves(i.do, i.x, A.at[i.d], b) /\ Weak(b, B.at[i.d])
      BY <2>1, <2>2, <1>2, WeakSame
    <2>6. (\A e \in Nat : e > i.d + 1 => B.at[e] = None) /\ B.at[i.d + 1] = None
      <3>1. (\A e \in Nat : e > 1 => B.at[e] = None) /\ B.at[1] = None
        BY <1>2
      <3>2. 0 + 1 = 1
        OBVIOUS
      <3> QED
        BY <2>1, <3>1, <3>2, Zenon
    <2>7. (\A e \in Nat : e < i.d => Weak(A.at[e], B.at[e])) /\ \A e \in Nat : e > i.d => Final(A.at[e])
      <3>1. \A e \in Nat : ~(e < 0)
        OBVIOUS
      <3> QED
        BY <3>1, <2>1, <2>4
    <2>8. Needs(i.do, A.at[i.d]) \subseteq A.no /\ B.no \subseteq Excludes(i.do) /\ i.do \notin Adders
      BY <2>1, <2>3, <1>2
    <2> QED
      BY <2>5, <2>6, <2>7, <2>8 DEF Leads
  <1>6. Closed(B)
    <2>1. Final(<<"root", "done">>)
      BY DEF Final
    <2> QED
      BY <2>1, <1>2, FinalNone DEF Closed
  <1>7. Described(A)
    <2>1. Len(tree) = 1 /\ \A n : n \in DOMAIN tree <=> n = 1
      <3>1. <<Root>> \in Seq({Root}) /\ Len(<<Root>>) = 1 /\ DOMAIN <<Root>> = {1}
        OBVIOUS
      <3> QED
        BY <1>4, <3>1
    <2>2. tree[1].kind = "root" /\ tree[1].d = 0
      BY <1>4 DEF Root
    <2>3. Below(1) = {} /\ OnBranch(1)
      <3>1. \A m : m \notin 1 + 1 .. 1
        OBVIOUS
      <3> QED
        BY <2>1, <3>1 DEF Below, OnBranch
    <2>4. Enumerates(<< >>, Below(1))
      <3>1. << >> \in Seq({}) /\ DOMAIN << >> = {}
        OBVIOUS
      <3> QED
        BY <2>3, <3>1 DEF Enumerates
    <2>5. Kinds(<< >>) = << >>
      BY DEF Kinds
    <2>6. Holds(<<"root", "new">>, "root", << >>)
      BY DEF Holds, Stage, None
    <2>7. Holds(A.at[tree[1].d], tree[1].kind, Kinds(<< >>))
      BY <2>2, <2>5, <2>6, <1>2
    <2>8. NodeOK(1, A)
      BY <2>3, <2>4, <2>7 DEF NodeOK
    <2> QED
      BY <2>1, <2>8, <1>2 DEF Described
  <1>8. /\ Len(todo) = 1 /\ todo[1] = i /\ c[1] = A /\ c[2] = B
        /\ \A n \in 1 .. 1 : n = 1
    <2>1. Len(<<i>>) = 1 /\ <<i>>[1] = i /\ <<A, B>>[1] = A /\ <<A, B>>[2] = B
      OBVIOUS
    <2>2. \A n \in 1 .. 1 : n = 1
      OBVIOUS
    <2> QED
      BY <2>1, <2>2, <1>3, <1>4, Zenon
  <1>9. LeadsAll(todo, c) /\ Closed(c[Len(todo) + 1]) /\ Described(c[1])
    BY <1>5, <1>6, <1>7, <1>8 DEF LeadsAll
  <1> QED
    BY <1>9 DEF ShapeInv

\* Every step keeps the promise, and so does none.
LEMMA NextShape == ParserInv /\ ShapeInv /\ [Next]_vars => ShapeInv'
  <1> SUFFICES ASSUME ParserInv, ShapeInv, [Next]_vars PROVE ShapeInv'
    OBVIOUS
  <1>1. CASE Next
    BY <1>1, MacrosShape, ListsShape, CommandsShape, ClausesShape, SimpleShape, BreaksShape
       DEF Next
  <1>2. CASE UNCHANGED vars
    <2>1. /\ todo' = todo /\ err_occured' = err_occured
          /\ UNCHANGED <<tree, toklast>>
      BY <1>2 DEF vars
    <2> SUFFICES ASSUME ~err_occured
                 PROVE  \E c : LeadsAll(todo', c) /\ Closed(c[Len(todo') + 1]) /\ Described(c[1])'
      BY <2>1 DEF ShapeInv
    <2>2. PICK c : LeadsAll(todo, c) /\ Closed(c[Len(todo) + 1]) /\ Described(c[1])
      BY DEF ShapeInv
    <2>3. PICK A : A = c[1]
      OBVIOUS
    <2>4. Described(A)'
      BY <2>1, <2>2, <2>3, DescribedSame
    <2>5. LeadsAll(todo', c) /\ Closed(c[Len(todo') + 1])
      BY <2>1, <2>2
    <2> QED
      BY <2>3, <2>4, <2>5
  <1> QED
    BY <1>1, <1>2

\* When nothing is left to do, nothing is open: each node has the subnodes of
\* its kind, and they lie behind it.
LEMMA ClosedKids ==
  ASSUME ParserInv, ShapeInv, todo = << >>, ~err_occured, NEW i \in DOMAIN tree
  PROVE  /\ WellFormed(tree[i].kind, Kinds(Kids(i))) /\ IsSeq(Kinds(Kids(i)))
         /\ Enumerates(Kids(i), Below(i)) /\ Len(Kinds(Kids(i))) = Len(Kids(i))
         /\ Below(i) \subseteq i + 1 .. Len(tree) /\ Below(i) \subseteq Nat
         /\ Len(tree) \in Nat /\ DOMAIN tree = 1 .. Len(tree)
  <1>1. PICK c : Closed(c[Len(todo) + 1]) /\ Described(c[1])
    BY DEF ShapeInv
  <1>2. PICK A : Closed(A) /\ Described(A)
    BY <1>1
  <1>3. PICK e : /\ Enumerates(e, Below(i))
                 /\ IF OnBranch(i) THEN Holds(A.at[tree[i].d], tree[i].kind, Kinds(e))
                    ELSE WellFormed(tree[i].kind, Kinds(e))
    BY <1>2 DEF Described, NodeOK
  <1>4. Len(tree) \in Nat /\ DOMAIN tree = 1 .. Len(tree)
    <2>1. PICK S : tree \in Seq(S)
      BY DEF ParserInv, Preorder, IsSeq
    <2> QED
      BY <2>1, LenProperties
  <1>5. Below(i) \subseteq i + 1 .. Len(tree) /\ Below(i) \subseteq Nat
    BY <1>4 DEF Below
  <1>6. Kids(i) = e
    BY <1>5, <1>3, KidsAre
  <1>7. IsSeq(Kinds(e)) /\ Len(Kinds(e)) = Len(e)
    BY <1>3, KindsOf DEF ParserInv
  <1>8. Final(A.at[tree[i].d])
    BY <1>2 DEF Closed, ParserInv, Preorder
  <1>9. WellFormed(tree[i].kind, Kinds(e))
    BY <1>3, <1>7, <1>8, HoldsFinal
  <1> QED
    BY <1>3, <1>4, <1>5, <1>6, <1>7, <1>9

\* What execute asks of the subnodes of a node is less than the parser gives.
LEMMA Asked ==
  ASSUME NEW k, NEW ks, IsSeq(ks), WellFormed(k, ks)
  PROVE  /\ k \in {"subshell", "else", "caseitem"} => Len(ks) >= 1
         /\ k \in {"if", "while", "until", "elif", "for"} => Len(ks) >= 2
         /\ k = "for" /\ ks[2] = "in" => Len(ks) >= 3
         /\ k = "if" => \A i \in 3 .. Len(ks) : ks[i] \in {"elif", "else"}
  <1>1. Len(ks) \in Nat
    BY LenProperties DEF IsSeq
  <1>2. CASE k \in {"subshell", "else"}
    <2>1. ks = <<"compound">>
      BY <1>2 DEF WellFormed
    <2> QED
      BY <1>2, <2>1
  <1>3. CASE k = "caseitem"
    <2>1. ks = <<"pattern">> \/ ks = <<"pattern", "compound">>
      BY <1>3 DEF WellFormed
    <2> QED
      BY <1>3, <2>1
  <1>4. CASE k \in {"while", "until", "elif"}
    <2>1. ks = <<"compound", "compound">>
      BY <1>4 DEF WellFormed
    <2> QED
      BY <1>4, <2>1
  <1>5. CASE k = "for"
    <2>1. Len(ks) >= 2 /\ ks[Len(ks)] = "compound"
      BY <1>5 DEF WellFormed
    <2>2. ks[2] = "in" => Len(ks) # 2
      BY <2>1
    <2> QED
      BY <1>1, <1>5, <2>1, <2>2
  <1>6. CASE k = "if"
    <2>1. /\ Len(ks) >= 2
          /\ Len(ks) > 2 => ks[Len(ks)] \in {"elif", "else"} /\ Only(ks, 3, Len(ks) - 1, {"elif"})
      BY <1>6 DEF WellFormed
    <2>2. ASSUME NEW i \in 3 .. Len(ks) PROVE ks[i] \in {"elif", "else"}
      <3>1. i = Len(ks) \/ i \in 3 .. Len(ks) - 1
        BY <1>1
      <3> QED
        BY <1>1, <2>1, <3>1 DEF Only
    <2> QED
      BY <1>6, <2>1, <2>2
  <1> QED
    BY <1>2, <1>3, <1>4, <1>5, <1>6

\* A tree that is returned without an error is one of those execute asks for.
LEMMA Returned == ASSUME ParserInv, ShapeInv PROVE ReturnsProgram
  <1> SUFFICES ASSUME todo = << >>, ~err_occured PROVE Executable(Program)
    BY DEF ReturnsProgram
  <1> DEFINE N == Len(tree)
             kd == [i \in DOMAIN tree |-> tree[i].kind]
             ki == [i \in DOMAIN tree |-> Kids(i)]
  <1>1. N \in Nat /\ DOMAIN tree = 1 .. N /\ N # 0
    <2>1. PICK S : tree \in Seq(S)
      BY DEF ParserInv, Preorder, IsSeq
    <2> QED
      BY <2>1, LenProperties, EmptySeq DEF ParserInv, Preorder
  <1>2. Program.kind = kd /\ Program.kids = ki
    BY DEF Program
  <1>3. kd \in Seq({kd[n] : n \in DOMAIN kd}) /\ Len(kd) = N /\ kd # << >> /\ DOMAIN kd = 1 .. N
    <2>1. DOMAIN kd = 1 .. N
      BY <1>1
    <2> HIDE DEF kd
    <2>2. kd \in [1 .. N -> {kd[n] : n \in DOMAIN kd}]
      <3>1. kd = [n \in 1 .. N |-> kd[n]]
        BY <1>1, <2>1 DEF kd
      <3> QED
        BY <2>1, <3>1
    <2>3. kd \in Seq({kd[n] : n \in DOMAIN kd})
      BY <1>1, <2>2, SeqDef
    <2>4. Len(kd) = N
      BY <1>1, <2>1, <2>3, LenProperties
    <2> QED
      BY <1>1, <2>1, <2>3, <2>4, EmptySeq
  <1>4. ASSUME NEW n \in 1 .. N
        PROVE  /\ ki[n] = Kids(n) /\ kd[n] = tree[n].kind /\ Kids(n) \in Seq(1 .. N)
               /\ \A i \in DOMAIN Kids(n) : Kids(n)[i] > n /\ kd[Kids(n)[i]] = Kinds(Kids(n))[i]
               /\ WellFormed(kd[n], Kinds(Kids(n))) /\ IsSeq(Kinds(Kids(n)))
               /\ Len(Kinds(Kids(n))) = Len(Kids(n))
    <2>1. /\ WellFormed(tree[n].kind, Kinds(Kids(n))) /\ IsSeq(Kinds(Kids(n)))
          /\ Enumerates(Kids(n), Below(n)) /\ Len(Kinds(Kids(n))) = Len(Kids(n))
          /\ Below(n) \subseteq n + 1 .. N
      BY <1>1, ClosedKids
    <2>2. PICK e : e = Kids(n)
      OBVIOUS
    <2>3. PICK T : e \in Seq(T)
      BY <2>1, <2>2 DEF Enumerates
    <2>4. \A i \in DOMAIN e : e[i] \in n + 1 .. N
      BY <2>1, <2>2 DEF Enumerates
    <2>5. \A i \in DOMAIN e : e[i] \in 1 .. N /\ e[i] > n
      BY <2>4, <1>1
    <2>6. e \in Seq(1 .. N)
      <3>1. Len(e) \in Nat /\ DOMAIN e = 1 .. Len(e) /\ e = [i \in 1 .. Len(e) |-> e[i]]
        BY <2>3, LenProperties, SeqIs DEF IsSeq
      <3>2. e \in [1 .. Len(e) -> 1 .. N]
        BY <3>1, <2>5
      <3> QED
        BY <3>1, <3>2, SeqDef
    <2>7. \A i \in DOMAIN e : kd[e[i]] = Kinds(e)[i]
      BY <1>1, <2>5 DEF Kinds
    <2> QED
      BY <1>1, <2>1, <2>2, <2>5, <2>6, <2>7
  <1>5. DOMAIN ki = 1 .. N /\ ki \in Seq(Seq(1 .. N)) /\ Len(ki) = N
    <2>1. DOMAIN ki = 1 .. N /\ ki = [n \in 1 .. N |-> ki[n]]
      BY <1>1
    <2> HIDE DEF ki
    <2>2. \A n \in 1 .. N : ki[n] \in Seq(1 .. N)
      BY <1>4
    <2>3. ki \in [1 .. N -> Seq(1 .. N)]
      BY <2>1, <2>2
    <2>4. ki \in Seq(Seq(1 .. N))
      BY <1>1, <2>3, SeqDef
    <2> QED
      BY <1>1, <2>1, <2>4, LenProperties
  <1> HIDE DEF kd, ki, N
  <1>6. ASSUME NEW n \in 1 .. N
        PROVE  /\ \A i \in DOMAIN ki[n] : ki[n][i] > n
               /\ kd[n] \in {"subshell", "else", "caseitem"} => Len(ki[n]) >= 1
               /\ kd[n] \in {"if", "while", "until", "elif", "for"} => Len(ki[n]) >= 2
               /\ kd[n] = "for" /\ kd[ki[n][2]] = "in" => Len(ki[n]) >= 3
               /\ kd[n] = "if" => \A i \in 3 .. Len(ki[n]) : kd[ki[n][i]] \in {"elif", "else"}
    <2>1. PICK e, ks, k : e = ki[n] /\ ks = Kinds(ki[n]) /\ k = kd[n]
      OBVIOUS
    <2>2. /\ e \in Seq(1 .. N) /\ WellFormed(k, ks) /\ IsSeq(ks) /\ Len(ks) = Len(e)
          /\ \A i \in DOMAIN e : e[i] > n /\ kd[e[i]] = ks[i]
      BY <2>1, <1>4
    <2>3. DOMAIN e = 1 .. Len(e) /\ Len(e) \in Nat
      BY <2>2, LenProperties
    <2>4. /\ k \in {"subshell", "else", "caseitem"} => Len(e) >= 1
          /\ k \in {"if", "while", "until", "elif", "for"} => Len(e) >= 2
          /\ k = "for" /\ ks[2] = "in" => Len(e) >= 3
          /\ k = "if" => \A i \in 3 .. Len(e) : ks[i] \in {"elif", "else"}
      BY <2>2, Asked
    <2>5. k = "for" => kd[e[2]] = ks[2]
      <3>1. k = "for" => 2 \in DOMAIN e
        BY <2>3, <2>4
      <3> QED
        BY <3>1, <2>2
    <2>6. \A i \in 3 .. Len(e) : kd[e[i]] = ks[i]
      BY <2>2, <2>3
    <2> QED
      BY <2>1, <2>2, <2>4, <2>5, <2>6
  <1> QED
    BY <1>2, <1>3, <1>5, <1>6 DEF Executable

\* As long as no error was said, what the functions of grammar.c have still to
\* do completes the tree: each adds the subnodes it is for, in their order, and
\* leaves below its node what the next one expects there.
THEOREM Shapes == Spec => []ShapeInv
  <1>1. Init => ParserInv /\ ShapeInv
    BY InitOK, InitShape
  <1>2. (ParserInv /\ ShapeInv) /\ [Next]_vars => (ParserInv /\ ShapeInv)'
    BY NextOK, NextShape
  <1> QED
    BY <1>1, <1>2, PTL DEF Spec

\* A tree that parse returns without an error, of whatever line over whatever
\* alphabet, is one that execute can go through: every node has the subnodes
\* that its function in main.c takes without a look.
THEOREM TreesExecutable == Spec => []TreeExecutable
  <1>1. ParserInv /\ ShapeInv => TreeExecutable
    BY ClosedKids DEF TreeExecutable
  <1> QED
    BY <1>1, Parsing, Shapes, PTL

\* The tree that is handed to execute is of the trees that Exec is about: its
\* assumption on Programs is what the parser guarantees.
THEOREM ProgramsExecutable == Spec => []ReturnsProgram
  <1>1. ParserInv /\ ShapeInv => ReturnsProgram
    BY Returned
  <1> QED
    BY <1>1, Parsing, Shapes, PTL
=============================================================================
