----------------------------- MODULE LlistProofs -----------------------------
(* The linked list is well linked, for any number of nodes.                *)
EXTENDS Llist, SeqLemmas, FiniteSetTheorems

(* The pointers nx and pv and the tail t represent the n items of s, which *)
(* lists the set M without repetition.                                     *)
Represents(s, n, M, t, nx, pv) ==
  /\ s \in [1 .. n -> M]
  /\ \A i, j \in 1 .. n : s[i] = s[j] => i = j
  /\ \A m \in M : \E i \in 1 .. n : s[i] = m
  /\ n = 0 => t = Null
  /\ n > 0 => t = s[n] /\ nx[s[1]] = Null /\ pv[s[n]] = Null
  /\ \A i \in 1 .. (n - 1) : nx[s[i + 1]] = s[i] /\ pv[s[i]] = s[i + 1]

\* s with x behind its k-th item, and s without it.
Ins(s, n, k, x) ==
  [i \in 1 .. (n + 1) |-> IF i <= k THEN s[i] ELSE IF i = k + 1 THEN x ELSE s[i - 1]]
Del(s, n, k) == [i \in 1 .. (n - 1) |-> IF i < k THEN s[i] ELSE s[i + 1]]

\* Linking a new node x in behind the k-th one.
LEMMA InsRepresents ==
  ASSUME NEW n \in Nat, NEW M, NEW s, NEW t, NEW nx, NEW pv,
         Represents(s, n, M, t, nx, pv),
         NEW x, x \notin M, NEW k \in 0 .. n, NEW t2, NEW nx2, NEW pv2,
         k = n => t2 = x,
         k < n => t2 = t,
         k = 0 => nx2[x] = Null,
         k > 0 => nx2[x] = s[k] /\ pv2[s[k]] = x,
         k = n => pv2[x] = Null,
         k < n => pv2[x] = s[k + 1] /\ nx2[s[k + 1]] = x,
         \A i \in 1 .. n : i # k + 1 => nx2[s[i]] = nx[s[i]],
         \A i \in 1 .. n : i # k => pv2[s[i]] = pv[s[i]]
  PROVE  Represents(Ins(s, n, k, x), n + 1, M \cup {x}, t2, nx2, pv2)
<1> DEFINE r == Ins(s, n, k, x)
<1>1. /\ \A i \in 1 .. n : s[i] \in M
      /\ \A i, j \in 1 .. n : s[i] = s[j] => i = j
      /\ \A m \in M : \E i \in 1 .. n : s[i] = m
      /\ n > 0 => t = s[n] /\ nx[s[1]] = Null /\ pv[s[n]] = Null
      /\ \A i \in 1 .. (n - 1) : nx[s[i + 1]] = s[i] /\ pv[s[i]] = s[i + 1]
  BY DEF Represents
<1>2. r \in [1 .. (n + 1) -> M \cup {x}]
  BY <1>1 DEF Ins
<1>3. /\ r[k + 1] = x
      /\ \A i \in 1 .. k : r[i] = s[i]
      /\ \A i \in (k + 2) .. (n + 1) : r[i] = s[i - 1]
  BY DEF Ins
<1> HIDE DEF r
<1>4. \A i, j \in 1 .. (n + 1) : r[i] = r[j] => i = j
  <2>1. SUFFICES ASSUME NEW i \in 1 .. (n + 1), NEW j \in 1 .. (n + 1), i < j
                 PROVE  r[i] # r[j]
    OBVIOUS
  <2>2. CASE j <= k
    BY <1>1, <1>3, <2>1, <2>2
  <2>3. CASE j = k + 1
    BY <1>1, <1>3, <2>1, <2>3
  <2>4. CASE j > k + 1 /\ i <= k
    BY <1>1, <1>3, <2>1, <2>4
  <2>5. CASE j > k + 1 /\ i = k + 1
    BY <1>1, <1>3, <2>1, <2>5
  <2>6. CASE i > k + 1
    BY <1>1, <1>3, <2>1, <2>6
  <2> QED BY <2>1, <2>2, <2>3, <2>4, <2>5, <2>6
<1>5. \A m \in M \cup {x} : \E i \in 1 .. (n + 1) : r[i] = m
  <2>1. \E i \in 1 .. (n + 1) : r[i] = x
    BY <1>3
  <2>2. ASSUME NEW m \in M PROVE \E i \in 1 .. (n + 1) : r[i] = m
    <3>1. PICK i \in 1 .. n : s[i] = m
      BY <1>1
    <3>2. CASE i <= k
      BY <1>3, <3>1, <3>2
    <3>3. CASE i > k
      <4>1. i + 1 \in (k + 2) .. (n + 1) /\ (i + 1) - 1 = i
        BY <3>3
      <4>2. r[i + 1] = m
        BY <1>3, <3>1, <4>1
      <4> QED BY <4>1, <4>2
    <3> QED BY <3>2, <3>3
  <2> QED BY <2>1, <2>2
<1>6. t2 = r[n + 1]
  BY <1>1, <1>3
<1>7. nx2[r[1]] = Null
  <2>1. CASE k = 0
    BY <1>3, <2>1
  <2>2. CASE k > 0
    <3>1. r[1] = s[1] /\ nx2[s[1]] = nx[s[1]]
      BY <1>3, <2>2
    <3> QED BY <1>1, <2>2, <3>1
  <2> QED BY <2>1, <2>2
<1>8. pv2[r[n + 1]] = Null
  <2>1. CASE k = n
    BY <1>3, <2>1
  <2>2. CASE k < n
    <3>1. r[n + 1] = s[n] /\ pv2[s[n]] = pv[s[n]]
      BY <1>3, <2>2
    <3> QED BY <1>1, <2>2, <3>1
  <2> QED BY <2>1, <2>2
<1>9. ASSUME NEW i \in 1 .. n
      PROVE  nx2[r[i + 1]] = r[i] /\ pv2[r[i]] = r[i + 1]
  <2>1. CASE i < k
    <3>1. r[i] = s[i] /\ r[i + 1] = s[i + 1]
      BY <1>3, <2>1
    <3>2. nx2[s[i + 1]] = nx[s[i + 1]] /\ pv2[s[i]] = pv[s[i]]
      BY <2>1
    <3>3. nx[s[i + 1]] = s[i] /\ pv[s[i]] = s[i + 1]
      BY <1>1, <2>1
    <3> QED BY <3>1, <3>2, <3>3
  <2>2. CASE i = k
    BY <1>3, <2>2
  <2>3. CASE i = k + 1
    <3>1. r[i] = x /\ r[i + 1] = s[k + 1]
      BY <1>3, <2>3
    <3> QED BY <2>3, <3>1
  <2>4. CASE i > k + 1
    <3>1. r[i] = s[i - 1] /\ r[i + 1] = s[i]
      BY <1>3, <2>4
    <3>2. nx2[s[i]] = nx[s[i]] /\ pv2[s[i - 1]] = pv[s[i - 1]]
      BY <2>4
    <3>3. nx[s[i]] = s[i - 1] /\ pv[s[i - 1]] = s[i]
      <4>1. i - 1 \in 1 .. (n - 1) /\ (i - 1) + 1 = i
        BY <2>4
      <4> QED BY <1>1, <4>1
    <3> QED BY <3>1, <3>2, <3>3
  <2> QED BY <2>1, <2>2, <2>3, <2>4
<1> QED BY <1>2, <1>4, <1>5, <1>6, <1>7, <1>8, <1>9 DEF Represents, r

\* Unlinking the k-th node.
LEMMA DelRepresents ==
  ASSUME NEW n \in Nat, NEW M, NEW s, NEW t, NEW nx, NEW pv,
         Represents(s, n, M, t, nx, pv),
         NEW k \in 1 .. n, NEW t2, NEW nx2, NEW pv2,
         k = n => t2 = nx[s[k]],
         k < n => t2 = t,
         k < n => nx2[s[k + 1]] = nx[s[k]],
         k > 1 => pv2[s[k - 1]] = pv[s[k]],
         \A i \in 1 .. n : i # k /\ i # k + 1 => nx2[s[i]] = nx[s[i]],
         \A i \in 1 .. n : i # k /\ i # k - 1 => pv2[s[i]] = pv[s[i]]
  PROVE  Represents(Del(s, n, k), n - 1, M \ {s[k]}, t2, nx2, pv2)
<1> DEFINE r == Del(s, n, k)
<1>1. /\ \A i \in 1 .. n : s[i] \in M
      /\ \A i, j \in 1 .. n : s[i] = s[j] => i = j
      /\ \A m \in M : \E i \in 1 .. n : s[i] = m
      /\ t = s[n] /\ nx[s[1]] = Null /\ pv[s[n]] = Null
      /\ \A i \in 1 .. (n - 1) : nx[s[i + 1]] = s[i] /\ pv[s[i]] = s[i + 1]
  BY DEF Represents
<1>2. r \in [1 .. (n - 1) -> M \ {s[k]}]
  <2>1. ASSUME NEW i \in 1 .. (n - 1)
        PROVE  (IF i < k THEN s[i] ELSE s[i + 1]) \in M \ {s[k]}
    <3>1. CASE i < k
      BY <1>1, <3>1
    <3>2. CASE ~(i < k)
      BY <1>1, <3>2
    <3> QED BY <3>1, <3>2
  <2> QED BY <2>1 DEF Del
<1>3. /\ \A i \in 1 .. (k - 1) : r[i] = s[i]
      /\ \A i \in k .. (n - 1) : r[i] = s[i + 1]
  BY DEF Del
<1> HIDE DEF r
<1>4. \A i, j \in 1 .. (n - 1) : r[i] = r[j] => i = j
  <2>1. SUFFICES ASSUME NEW i \in 1 .. (n - 1), NEW j \in 1 .. (n - 1), i < j
                 PROVE  r[i] # r[j]
    OBVIOUS
  <2>2. CASE j < k
    BY <1>1, <1>3, <2>1, <2>2
  <2>3. CASE i < k /\ j >= k
    BY <1>1, <1>3, <2>1, <2>3
  <2>4. CASE i >= k
    BY <1>1, <1>3, <2>1, <2>4
  <2> QED BY <2>1, <2>2, <2>3, <2>4
<1>5. \A m \in M \ {s[k]} : \E i \in 1 .. (n - 1) : r[i] = m
  <2>1. SUFFICES ASSUME NEW m \in M \ {s[k]} PROVE \E i \in 1 .. (n - 1) : r[i] = m
    OBVIOUS
  <2>2. PICK i \in 1 .. n : s[i] = m
    BY <1>1
  <2>3. CASE i < k
    BY <1>3, <2>2, <2>3
  <2>4. CASE i > k
    <3>1. i - 1 \in k .. (n - 1) /\ (i - 1) + 1 = i
      BY <2>4
    <3>2. r[i - 1] = m /\ i - 1 \in 1 .. (n - 1)
      BY <1>3, <2>2, <3>1
    <3> QED BY <3>2
  <2> QED BY <2>1, <2>2, <2>3, <2>4
<1>6. n - 1 = 0 => t2 = Null
  BY <1>1
<1>7. n - 1 > 0 => t2 = r[n - 1]
  <2>1. CASE k = n /\ n > 1
    <3>1. r[n - 1] = s[n - 1] /\ nx[s[n]] = s[n - 1]
      <4>1. n - 1 \in 1 .. (n - 1) /\ (n - 1) + 1 = n
        BY <2>1
      <4> QED BY <1>1, <1>3, <2>1, <4>1
    <3> QED BY <2>1, <3>1
  <2>2. CASE k < n
    <3>1. r[n - 1] = s[n]
      BY <1>3, <2>2
    <3> QED BY <1>1, <2>2, <3>1
  <2> QED BY <2>1, <2>2
<1>8. n - 1 > 0 => nx2[r[1]] = Null
  <2>1. CASE k = 1 /\ n > 1
    BY <1>1, <1>3, <2>1
  <2>2. CASE k > 1
    <3>1. r[1] = s[1] /\ nx2[s[1]] = nx[s[1]]
      BY <1>3, <2>2
    <3> QED BY <1>1, <3>1
  <2> QED BY <2>1, <2>2
<1>9. n - 1 > 0 => pv2[r[n - 1]] = Null
  <2>1. CASE k = n /\ n > 1
    BY <1>1, <1>3, <2>1
  <2>2. CASE k < n
    <3>1. r[n - 1] = s[n] /\ pv2[s[n]] = pv[s[n]]
      BY <1>3, <2>2
    <3> QED BY <1>1, <3>1
  <2> QED BY <2>1, <2>2
<1>10. ASSUME NEW i \in 1 .. (n - 2)
       PROVE  nx2[r[i + 1]] = r[i] /\ pv2[r[i]] = r[i + 1]
  <2>1. CASE i + 1 < k
    <3>1. r[i] = s[i] /\ r[i + 1] = s[i + 1]
      BY <1>3, <2>1
    <3>2. nx2[s[i + 1]] = nx[s[i + 1]] /\ pv2[s[i]] = pv[s[i]]
      BY <2>1
    <3> QED BY <1>1, <3>1, <3>2
  <2>2. CASE i + 1 = k
    <3>1. r[i] = s[k - 1] /\ r[i + 1] = s[k + 1]
      BY <1>3, <2>2
    <3>2. nx2[s[k + 1]] = nx[s[k]] /\ pv2[s[k - 1]] = pv[s[k]]
      BY <2>2
    <3>3. nx[s[k]] = s[k - 1] /\ pv[s[k]] = s[k + 1]
      <4>1. k - 1 \in 1 .. (n - 1) /\ (k - 1) + 1 = k /\ k \in 1 .. (n - 1)
        BY <2>2
      <4> QED BY <1>1, <4>1
    <3> QED BY <3>1, <3>2, <3>3
  <2>3. CASE i >= k
    <3>1. r[i] = s[i + 1] /\ r[i + 1] = s[i + 2]
      BY <1>3, <2>3
    <3>2. nx2[s[i + 2]] = nx[s[i + 2]] /\ pv2[s[i + 1]] = pv[s[i + 1]]
      BY <2>3
    <3>3. nx[s[i + 2]] = s[i + 1] /\ pv[s[i + 1]] = s[i + 2]
      <4>1. i + 1 \in 1 .. (n - 1) /\ (i + 1) + 1 = i + 2
        OBVIOUS
      <4> QED BY <1>1, <4>1
    <3> QED BY <3>1, <3>2, <3>3
  <2> QED BY <2>1, <2>2, <2>3
<1> QED BY <1>2, <1>4, <1>5, <1>6, <1>7, <1>8, <1>9, <1>10 DEF Represents, r

-----------------------------------------------------------------------------
\* s lists the n nodes of the list before a step, and after it.
Now(s, n)  == Represents(s, n, Members, q, next, prev)
Then(s, n) == Represents(s, n, Members', q', next', prev')

\* WellLinked with the length and the order named, as the proofs need them.
Linked ==
  \E n \in Nat : \E s \in [1 .. n -> Members] : Represents(s, n, Members, q, next, prev)

\* No client that never unlinks can meet a stale pointer.
HeadInv ==
  "remove" \notin Ops =>
    /\ HeadCurrent
    /\ pc # "undefined"
    /\ pc = "walk" => cur \in Members \cup {Null}

\* What the loop of llist_insert_alphabet relies on between two turns.
LoopInv ==
  /\ pc = "insert" => /\ "insert" \in Ops /\ "remove" \notin Ops
                      /\ ni \in Node /\ q # Null
                      /\ cur \in Members \cup {Null}
  /\ pc # "insert" => ni = Null

\* The chain is inductive only together with where the loops stand in it.
LInv == TypeOK /\ Linked /\ HeadInv /\ LoopInv

\* In a chain there is only one node without a predecessor, the head.
LEMMA HeadIsFirst ==
  ASSUME NEW n \in Nat, NEW M \in SUBSET Node, NEW s, NEW t, NEW nx, NEW pv,
         Represents(s, n, M, t, nx, pv), NEW h \in M, nx[h] = Null
  PROVE  n > 0 /\ h = s[1]
<1>1. PICK i \in 1 .. n : s[i] = h
  BY DEF Represents
<1>2. CASE i > 1
  <2>1. i - 1 \in 1 .. (n - 1) /\ (i - 1) + 1 = i
    BY <1>2
  <2>2. nx[h] = s[i - 1] /\ s[i - 1] \in Node
    BY <1>1, <2>1 DEF Represents
  <2> QED BY <2>2, NodeAssumption
<1> QED BY <1>1, <1>2

\* The empty list satisfies the invariant.
LEMMA InitLInv == Init => LInv
<1> SUFFICES ASSUME Init PROVE LInv
  OBVIOUS
<1>1. TypeOK
  BY DEF Init, TypeOK, Members
<1>2. Represents(<< >>, 0, Members, q, next, prev)
  BY DEF Init, Represents, Members
<1>3. Linked
  <2>1. << >> \in [1 .. 0 -> Members]
    OBVIOUS
  <2> QED BY <1>2, <2>1 DEF Linked
<1>4. HeadInv /\ LoopInv
  BY DEF Init, HeadInv, HeadCurrent, LoopInv
<1> QED BY <1>1, <1>3, <1>4 DEF LInv

\* What Represents says, with both neighbours of an item seen from that item.
ChainView(s, n, M, t, nx, pv) ==
  /\ \A i \in 1 .. n : s[i] \in M
  /\ \A i, j \in 1 .. n : s[i] = s[j] => i = j
  /\ \A m \in M : \E i \in 1 .. n : s[i] = m
  /\ n = 0 => t = Null
  /\ n > 0 => t = s[n] /\ nx[s[1]] = Null /\ pv[s[n]] = Null
  /\ \A i \in 1 .. n : i > 1 => nx[s[i]] = s[i - 1]
  /\ \A i \in 1 .. n : i < n => pv[s[i]] = s[i + 1]

\* The facts about the chain that the steps below use.
LEMMA ChainFacts ==
  ASSUME NEW n \in Nat, NEW M, NEW s, NEW t, NEW nx, NEW pv,
         Represents(s, n, M, t, nx, pv)
  PROVE  ChainView(s, n, M, t, nx, pv)
<1>1. \A i \in 1 .. (n - 1) : nx[s[i + 1]] = s[i] /\ pv[s[i]] = s[i + 1]
  BY DEF Represents
<1>2. ASSUME NEW i \in 1 .. n, i > 1 PROVE nx[s[i]] = s[i - 1]
  <2>1. i - 1 \in 1 .. (n - 1) /\ (i - 1) + 1 = i
    BY <1>2
  <2> QED BY <1>1, <2>1
<1>3. ASSUME NEW i \in 1 .. n, i < n PROVE pv[s[i]] = s[i + 1]
  BY <1>1, <1>3
<1> QED BY <1>2, <1>3 DEF Represents, ChainView

\* A step that leaves the chain alone.
LEMMA SameChain ==
  ASSUME Linked, UNCHANGED <<q, next, prev>>, Members' = Members
  PROVE  Linked'
BY DEF Linked, Represents

\* llist_add links its node in behind the tail.
LEMMA AddLInv ==
  ASSUME LInv, NEW x \in Node, NEW k \in Key, llist_add(x, k)
  PROVE  LInv' /\ \E n \in Nat : \E s : Now(s, n) /\ Then(Ins(s, n, n, x), n + 1)
<1>a. PICK n \in Nat : \E s : Represents(s, n, Members, q, next, prev)
  BY DEF LInv, Linked
<1>1. PICK s : Represents(s, n, Members, q, next, prev)
  BY <1>a
<1> DEFINE M == Members
<1>2. TypeOK /\ HeadInv /\ LoopInv /\ pc = "idle" /\ ni = Null /\ x \notin live
  BY DEF LInv, LoopInv, llist_add, Calls
<1>3. Members = live /\ Members' = Members \cup {x} /\ Members \subseteq Node
  BY <1>2, NodeAssumption DEF TypeOK, Members, llist_add, loop
<1>4. /\ \A i \in 1 .. n : s[i] \in M
      /\ \A i, j \in 1 .. n : s[i] = s[j] => i = j
      /\ n = 0 => q = Null
      /\ n > 0 => q = s[n]
  <2>1. ChainView(s, n, Members, q, next, prev)
    BY <1>1, ChainFacts
  <2> QED BY <2>1 DEF ChainView
<1>5. /\ next' = [next EXCEPT ![x] = q]
      /\ prev' = [m \in Node |-> IF m = x THEN Null ELSE IF m = q THEN x ELSE prev[m]]
      /\ first' = [first EXCEPT ![x] = IF q = Null THEN x ELSE first[q]]
      /\ q' = x
  BY DEF llist_add
<1>6. Linked' /\ Then(Ins(s, n, n, x), n + 1)
  <2>1. n = 0 => next'[x] = Null
    BY <1>2, <1>4, <1>5 DEF TypeOK
  <2>2. n > 0 => next'[x] = s[n] /\ prev'[s[n]] = x
    BY <1>2, <1>3, <1>4, <1>5 DEF TypeOK
  <2>3. prev'[x] = Null
    BY <1>5
  <2>4. \A i \in 1 .. n : next'[s[i]] = next[s[i]]
    BY <1>2, <1>3, <1>4, <1>5 DEF TypeOK
  <2>5. \A i \in 1 .. n : i # n => prev'[s[i]] = prev[s[i]]
    BY <1>2, <1>3, <1>4, <1>5 DEF TypeOK
  <2>6. x \notin M /\ n \in 0 .. n
    BY <1>2, <1>3
  <2>0. /\ n = n => q' = x
        /\ n < n => q' = q
        /\ n = 0 => next'[x] = Null
        /\ n > 0 => next'[x] = s[n] /\ prev'[s[n]] = x
        /\ n = n => prev'[x] = Null
        /\ n < n => prev'[x] = s[n + 1] /\ next'[s[n + 1]] = x
        /\ \A i \in 1 .. n : i # n + 1 => next'[s[i]] = next[s[i]]
        /\ \A i \in 1 .. n : i # n => prev'[s[i]] = prev[s[i]]
    BY <1>5, <2>1, <2>2, <2>3, <2>4, <2>5
  <2>7. Represents(Ins(s, n, n, x), n + 1, M \cup {x}, q', next', prev')
    <3> HIDE DEF M
    <3> QED BY <1>1, <2>0, <2>6, InsRepresents DEF M
  <2>8. Represents(Ins(s, n, n, x), n + 1, Members', q', next', prev')
    BY <1>3, <2>7
  <2>9. Ins(s, n, n, x) \in [1 .. (n + 1) -> Members']
    BY <2>8 DEF Represents
  <2> QED BY <2>8, <2>9 DEF Linked, Then
<1>7. TypeOK'
  BY <1>2, <1>3, <1>5 DEF TypeOK, llist_add, loop
<1>8. HeadInv'
  <2>1. SUFFICES ASSUME "remove" \notin Ops
                 PROVE  HeadCurrent' /\ pc' = "idle"
    BY DEF HeadInv
  <2>2. HeadCurrent
    BY <1>2, <2>1 DEF HeadInv
  <2>3. CASE q = Null
    BY <1>2, <1>3, <1>5, <2>3 DEF HeadCurrent, TypeOK, llist_add
  <2>4. CASE q # Null
    <3>1. first'[x] = first[q] /\ first[q] \in M /\ first[q] # x
      BY <1>2, <1>3, <1>5, <2>2, <2>4 DEF HeadCurrent, TypeOK
    <3>2. next'[first[q]] = Null
      BY <1>2, <1>3, <1>5, <2>2, <2>4, <3>1 DEF HeadCurrent, TypeOK
    <3> QED BY <1>2, <1>3, <1>5, <3>1, <3>2 DEF HeadCurrent, llist_add
  <2> QED BY <2>3, <2>4
<1>9. LoopInv'
  BY <1>2 DEF LoopInv, llist_add, loop
<1>10. Now(s, n)
  BY <1>1 DEF Now
<1> QED BY <1>6, <1>7, <1>8, <1>9, <1>10 DEF LInv

\* The insertion behind cur, the k-th node of the chain.
LEMMA AfterLInv ==
  ASSUME LInv, InsertAfter
  PROVE  LInv' /\ \E n \in Nat : \E s : \E k \in 1 .. n :
                    Now(s, n) /\ s[k] = cur /\ Then(Ins(s, n, k, ni), n + 1)
<1>a. PICK n \in Nat : \E s : Represents(s, n, Members, q, next, prev)
  BY DEF LInv, Linked
<1>1. PICK s : Represents(s, n, Members, q, next, prev)
  BY <1>a
<1> DEFINE M == Members
<1>2. /\ TypeOK /\ HeadInv /\ pc = "insert" /\ "remove" \notin Ops
      /\ ni \in Node /\ ni \in live /\ cur \in M /\ q # Null
  BY NodeAssumption DEF LInv, LoopInv, InsertAfter, TypeOK, Members
<1>3. ni \notin M /\ Members' = M \cup {ni} /\ M \subseteq Node /\ Null \notin Node
  BY <1>2, NodeAssumption DEF TypeOK, Members, InsertAfter, Placed
<1>4. /\ \A i \in 1 .. n : s[i] \in M
      /\ \A i, j \in 1 .. n : s[i] = s[j] => i = j
      /\ \A m \in M : \E i \in 1 .. n : s[i] = m
      /\ n = 0 => q = Null
      /\ n > 0 => q = s[n] /\ next[s[1]] = Null /\ prev[s[n]] = Null
      /\ \A i \in 1 .. n : i < n => prev[s[i]] = s[i + 1]
  <2>1. ChainView(s, n, Members, q, next, prev)
    BY <1>1, ChainFacts
  <2> QED BY <2>1 DEF ChainView
<1>5. /\ next' = [m \in Node |-> IF m = ni THEN cur
                                 ELSE IF m = prev[cur] THEN ni ELSE next[m]]
      /\ prev' = [prev EXCEPT ![ni] = prev[cur], ![cur] = ni]
      /\ first' = [first EXCEPT ![ni] = first[cur]]
      /\ q' = IF prev[cur] = Null THEN ni ELSE q
      /\ pc' = "idle" /\ ni' = Null /\ cur' = Null /\ UNCHANGED <<key, live, count>>
  BY DEF InsertAfter, Placed
<1>6. PICK k \in 1 .. n : s[k] = cur
  BY <1>2, <1>4
<1>7. /\ k = n => prev[cur] = Null /\ cur = q
      /\ k < n => prev[cur] = s[k + 1] /\ s[k + 1] \in M /\ cur # q
  <2>1. CASE k = n
    BY <1>4, <1>6, <2>1
  <2>2. CASE k < n
    BY <1>4, <1>6, <2>2
  <2> QED BY <2>1, <2>2
<1>8. Linked' /\ Then(Ins(s, n, k, ni), n + 1)
  <2>1. (k = n => q' = ni) /\ (k < n => q' = q)
    BY <1>3, <1>5, <1>7
  <2>2. (k = 0 => next'[ni] = Null) /\ (k > 0 => next'[ni] = s[k] /\ prev'[s[k]] = ni)
    BY <1>2, <1>3, <1>5, <1>6 DEF TypeOK
  <2>3. (k = n => prev'[ni] = Null) /\ (k < n => prev'[ni] = s[k + 1] /\ next'[s[k + 1]] = ni)
    <3>1. prev'[ni] = prev[cur]
      BY <1>2, <1>3, <1>5 DEF TypeOK
    <3>2. k < n => next'[s[k + 1]] = ni
      BY <1>3, <1>5, <1>7
    <3> QED BY <1>7, <3>1, <3>2
  <2>4. ASSUME NEW i \in 1 .. n, i # k + 1 PROVE next'[s[i]] = next[s[i]]
    <3>1. s[i] # ni /\ s[i] \in Node /\ s[i] # Null
      BY <1>3, <1>4
    <3>2. s[i] # prev[cur]
      <4>1. CASE k = n
        BY <1>7, <3>1, <4>1
      <4>2. CASE k < n
        BY <1>4, <1>7, <2>4, <4>2
      <4> QED BY <4>1, <4>2
    <3> QED BY <1>5, <3>1, <3>2
  <2>5. ASSUME NEW i \in 1 .. n, i # k PROVE prev'[s[i]] = prev[s[i]]
    <3>1. s[i] # ni /\ s[i] \in Node /\ s[i] # cur
      BY <1>3, <1>4, <1>6, <2>5
    <3> QED BY <1>2, <1>5, <3>1 DEF TypeOK
  <2>6. k \in 0 .. n
    OBVIOUS
  <2>7. Represents(Ins(s, n, k, ni), n + 1, M \cup {ni}, q', next', prev')
    <3> HIDE DEF M
    <3> QED BY <1>1, <1>3, <2>1, <2>2, <2>3, <2>4, <2>5, <2>6, InsRepresents DEF M
  <2>8. Represents(Ins(s, n, k, ni), n + 1, Members', q', next', prev')
    BY <1>3, <2>7
  <2>9. Ins(s, n, k, ni) \in [1 .. (n + 1) -> Members']
    BY <2>8 DEF Represents
  <2> QED BY <2>8, <2>9 DEF Linked, Then
<1>9. TypeOK'
  <2>1. q' \in Members' \cup {Null} /\ prev[cur] \in Node \cup {Null} /\ cur \in Node
    BY <1>2, <1>3, <1>5 DEF TypeOK
  <2>2. next' \in [Node -> Node \cup {Null}]
    BY <1>2, <1>3, <1>5, <2>1 DEF TypeOK
  <2>3. prev' \in [Node -> Node \cup {Null}] /\ first' \in [Node -> Node \cup {Null}]
    BY <1>2, <1>3, <1>5, <2>1 DEF TypeOK
  <2> QED BY <1>2, <1>5, <2>1, <2>2, <2>3 DEF TypeOK
<1>10. HeadInv'
  <2>1. HeadCurrent /\ first[q] \in M /\ next[first[q]] = Null
    BY <1>2 DEF HeadInv, HeadCurrent
  <2>2. first[q] # ni /\ first[q] \in Node /\ q \in Node /\ q # ni
    BY <1>2, <1>3, <2>1 DEF TypeOK
  <2>3. first'[q'] = first[q]
    <3>1. CASE k = n
      BY <1>2, <1>3, <1>5, <1>7, <2>2, <3>1 DEF TypeOK
    <3>2. CASE k < n
      BY <1>2, <1>3, <1>5, <1>7, <2>2, <3>2 DEF TypeOK
    <3> QED BY <3>1, <3>2
  <2>4. next'[first[q]] = Null
    <3>1. first[q] = s[1] /\ n > 0
      BY <1>1, <1>3, <2>1, HeadIsFirst
    <3>2. first[q] # prev[cur]
      <4>1. CASE k = n
        BY <1>3, <1>7, <2>2, <4>1
      <4>2. CASE k < n
        BY <1>4, <1>7, <3>1, <4>2
      <4> QED BY <4>1, <4>2
    <3> QED BY <1>5, <2>1, <2>2, <3>2
  <2> QED BY <1>3, <1>5, <2>1, <2>3, <2>4 DEF HeadInv, HeadCurrent
<1>11. LoopInv'
  BY <1>5 DEF LoopInv
<1>12. Now(s, n)
  BY <1>1 DEF Now
<1> QED BY <1>6, <1>8, <1>9, <1>10, <1>11, <1>12 DEF LInv

\* The insertion before the head.
LEMMA BeforeHeadLInv ==
  ASSUME LInv, InsertHead
  PROVE  LInv' /\ \E n \in Nat : \E s : Now(s, n) /\ Then(Ins(s, n, 0, ni), n + 1)
<1>a. PICK n \in Nat : \E s : Represents(s, n, Members, q, next, prev)
  BY DEF LInv, Linked
<1>1. PICK s : Represents(s, n, Members, q, next, prev)
  BY <1>a
<1> DEFINE M == Members
<1>2. /\ TypeOK /\ HeadInv /\ pc = "insert" /\ "remove" \notin Ops
      /\ ni \in Node /\ ni \in live /\ q # Null /\ q \in M
  BY NodeAssumption DEF LInv, LoopInv, InsertHead, TypeOK, Members
<1>3. ni \notin M /\ Members' = M \cup {ni} /\ M \subseteq Node /\ Null \notin Node
  BY <1>2, NodeAssumption DEF TypeOK, Members, InsertHead, Placed
<1>4. /\ \A i \in 1 .. n : s[i] \in M
      /\ \A i, j \in 1 .. n : s[i] = s[j] => i = j
      /\ n > 0 => q = s[n] /\ prev[s[n]] = Null
  <2>1. ChainView(s, n, Members, q, next, prev)
    BY <1>1, ChainFacts
  <2> QED BY <2>1 DEF ChainView
<1>5. first[q] \in M /\ next[first[q]] = Null
  BY <1>2 DEF HeadInv, HeadCurrent
<1>6. first[q] = s[1] /\ n > 0
  BY <1>1, <1>3, <1>5, HeadIsFirst
<1>7. PICK garbage \in Node \cup {Null} :
         first' = [first EXCEPT ![ni] = garbage, ![q] = ni]
  BY DEF InsertHead
<1>8. /\ next' = [m \in Node |-> IF m = ni THEN Null
                                 ELSE IF m = first[q] THEN ni ELSE next[m]]
      /\ prev' = [prev EXCEPT ![ni] = first[q]]
      /\ q' = q
      /\ pc' = "idle" /\ ni' = Null /\ cur' = Null /\ UNCHANGED <<key, live, count>>
  BY DEF InsertHead, Placed
<1>9. Linked' /\ Then(Ins(s, n, 0, ni), n + 1)
  <2>1. (0 = n => q' = ni) /\ (0 < n => q' = q) /\ 0 \in 0 .. n
    BY <1>6, <1>8
  <2>2. (0 = 0 => next'[ni] = Null) /\ (0 > 0 => next'[ni] = s[0] /\ prev'[s[0]] = ni)
    BY <1>2, <1>8
  <2>3. (0 = n => prev'[ni] = Null) /\ (0 < n => prev'[ni] = s[0 + 1] /\ next'[s[0 + 1]] = ni)
    <3>1. prev'[ni] = s[1]
      BY <1>2, <1>3, <1>6, <1>8 DEF TypeOK
    <3>2. next'[s[1]] = ni
      BY <1>3, <1>5, <1>6, <1>8
    <3> QED BY <1>6, <3>1, <3>2
  <2>4. ASSUME NEW i \in 1 .. n, i # 0 + 1 PROVE next'[s[i]] = next[s[i]]
    <3>1. s[i] # ni /\ s[i] \in Node /\ s[i] # first[q]
      BY <1>3, <1>4, <1>6, <2>4
    <3> QED BY <1>8, <3>1
  <2>5. ASSUME NEW i \in 1 .. n, i # 0 PROVE prev'[s[i]] = prev[s[i]]
    <3>1. s[i] # ni /\ s[i] \in Node
      BY <1>3, <1>4
    <3> QED BY <1>2, <1>8, <3>1 DEF TypeOK
  <2>7. Represents(Ins(s, n, 0, ni), n + 1, M \cup {ni}, q', next', prev')
    <3> HIDE DEF M
    <3> QED BY <1>1, <1>3, <2>1, <2>2, <2>3, <2>4, <2>5, InsRepresents DEF M
  <2>8. Represents(Ins(s, n, 0, ni), n + 1, Members', q', next', prev')
    BY <1>3, <2>7
  <2>9. Ins(s, n, 0, ni) \in [1 .. (n + 1) -> Members']
    BY <2>8 DEF Represents
  <2> QED BY <2>8, <2>9 DEF Linked, Then
<1>10. TypeOK'
  <2>1. q' \in Members' \cup {Null} /\ first[q] \in Node
    BY <1>2, <1>3, <1>5, <1>8
  <2>2. next' \in [Node -> Node \cup {Null}]
    BY <1>2, <1>8 DEF TypeOK
  <2>3. prev' \in [Node -> Node \cup {Null}] /\ first' \in [Node -> Node \cup {Null}]
    BY <1>2, <1>7, <1>8, <2>1 DEF TypeOK
  <2> QED BY <1>2, <1>8, <2>1, <2>2, <2>3 DEF TypeOK
<1>11. HeadInv'
  <2>1. first'[q'] = ni /\ next'[ni] = Null
    BY <1>2, <1>3, <1>7, <1>8 DEF TypeOK
  <2> QED BY <1>3, <1>8, <2>1 DEF HeadInv, HeadCurrent
<1>12. LoopInv'
  BY <1>8 DEF LoopInv
<1>13. Now(s, n)
  BY <1>1 DEF Now
<1> QED BY <1>9, <1>10, <1>11, <1>12, <1>13 DEF LInv

\* The unlinking of x, the k-th node of the chain.
LEMMA RemoveLInv ==
  ASSUME LInv, NEW x \in Node, llist_remove(x)
  PROVE  LInv' /\ \E n \in Nat : \E s : \E k \in 1 .. n :
                    Now(s, n) /\ Then(Del(s, n, k), n - 1)
<1>a. PICK n \in Nat : \E s : Represents(s, n, Members, q, next, prev)
  BY DEF LInv, Linked
<1>1. PICK s : Represents(s, n, Members, q, next, prev)
  BY <1>a
<1> DEFINE M == Members
<1>2. TypeOK /\ pc = "idle" /\ "remove" \in Ops /\ ni = Null
  BY DEF LInv, LoopInv, llist_remove, Calls
<1>3. Members = live /\ x \in M /\ Members' = M \ {x} /\ M \subseteq Node /\ Null \notin Node
  BY <1>2, NodeAssumption DEF TypeOK, Members, llist_remove, loop
<1>4. /\ \A i \in 1 .. n : s[i] \in M
      /\ \A i, j \in 1 .. n : s[i] = s[j] => i = j
      /\ \A m \in M : \E i \in 1 .. n : s[i] = m
      /\ n = 0 => q = Null
      /\ n > 0 => q = s[n] /\ next[s[1]] = Null /\ prev[s[n]] = Null
      /\ \A i \in 1 .. n : i > 1 => next[s[i]] = s[i - 1]
      /\ \A i \in 1 .. n : i < n => prev[s[i]] = s[i + 1]
  <2>1. ChainView(s, n, Members, q, next, prev)
    BY <1>1, ChainFacts
  <2> QED BY <2>1 DEF ChainView
<1>5. PICK k \in 1 .. n : s[k] = x
  BY <1>3, <1>4
<1> DEFINE tail == IF prev[x] = Null THEN next[x] ELSE q
<1>6. /\ q' = tail
      /\ next' = [m \in Node |-> IF m = prev[x] THEN next[x] ELSE next[m]]
      /\ prev' = [m \in Node |-> IF m = next[x] THEN prev[x] ELSE prev[m]]
      /\ first' = [m \in Node |-> IF next[x] = Null /\ m = tail THEN prev[x] ELSE first[m]]
      /\ UNCHANGED <<pc, key, ni, cur, count>> /\ live' = live \ {x}
  BY DEF llist_remove, loop
<1>7. /\ k = n => prev[x] = Null
      /\ k < n => prev[x] = s[k + 1] /\ s[k + 1] \in M /\ s[k + 1] # x
  <2>1. CASE k = n
    BY <1>4, <1>5, <2>1
  <2>2. CASE k < n
    <3>1. k + 1 \in 1 .. n /\ k + 1 # k
      BY <2>2
    <3> QED BY <1>4, <1>5, <2>2, <3>1
  <2> QED BY <2>1, <2>2
<1>8. /\ k = 1 => next[x] = Null
      /\ k > 1 => next[x] = s[k - 1] /\ s[k - 1] \in M /\ s[k - 1] # x
  <2>1. CASE k = 1
    BY <1>4, <1>5, <2>1
  <2>2. CASE k > 1
    <3>1. k - 1 \in 1 .. n /\ k - 1 # k
      BY <2>2
    <3> QED BY <1>4, <1>5, <2>2, <3>1
  <2> QED BY <2>1, <2>2
<1>9. Linked' /\ Then(Del(s, n, k), n - 1)
  <2>1. (k = n => q' = next[s[k]]) /\ (k < n => q' = q)
    BY <1>3, <1>5, <1>6, <1>7
  <2>2. k < n => next'[s[k + 1]] = next[s[k]]
    BY <1>3, <1>5, <1>6, <1>7
  <2>3. k > 1 => prev'[s[k - 1]] = prev[s[k]]
    BY <1>3, <1>5, <1>6, <1>8
  <2>4. ASSUME NEW i \in 1 .. n, i # k /\ i # k + 1 PROVE next'[s[i]] = next[s[i]]
    <3>1. s[i] \in Node /\ s[i] # Null
      BY <1>3, <1>4
    <3>2. s[i] # prev[x]
      <4>1. CASE k = n
        BY <1>7, <3>1, <4>1
      <4>2. CASE k < n
        BY <1>4, <1>7, <2>4, <4>2
      <4> QED BY <4>1, <4>2
    <3> QED BY <1>6, <3>1, <3>2
  <2>5. ASSUME NEW i \in 1 .. n, i # k /\ i # k - 1 PROVE prev'[s[i]] = prev[s[i]]
    <3>1. s[i] \in Node /\ s[i] # Null
      BY <1>3, <1>4
    <3>2. s[i] # next[x]
      <4>1. CASE k = 1
        BY <1>8, <3>1, <4>1
      <4>2. CASE k > 1
        <5>1. k - 1 \in 1 .. n
          BY <4>2
        <5> QED BY <1>4, <1>8, <2>5, <4>2, <5>1
      <4> QED BY <4>1, <4>2
    <3> QED BY <1>6, <3>1, <3>2
  <2>6. Represents(Del(s, n, k), n - 1, M \ {s[k]}, q', next', prev')
    <3> HIDE DEF M
    <3> QED BY <1>1, <2>1, <2>2, <2>3, <2>4, <2>5, DelRepresents DEF M
  <2>7. Represents(Del(s, n, k), n - 1, Members', q', next', prev')
    BY <1>3, <1>5, <2>6
  <2>8. Del(s, n, k) \in [1 .. (n - 1) -> Members'] /\ n - 1 \in Nat
    BY <2>7 DEF Represents
  <2> QED BY <2>7, <2>8 DEF Linked, Then
<1>10. TypeOK'
  <2>1. prev[x] \in Node \cup {Null} /\ next[x] \in Node \cup {Null}
    BY <1>2, <1>3 DEF TypeOK
  <2>2. q' \in Members' \cup {Null}
    <3>1. CASE k = n
      BY <1>3, <1>6, <1>7, <1>8, <3>1
    <3>2. CASE k < n
      <4>1. q \in M /\ q # x
        BY <1>4, <1>5, <3>2
      <4> QED BY <1>3, <1>6, <1>7, <3>2, <4>1
    <3> QED BY <3>1, <3>2
  <2>3. next' \in [Node -> Node \cup {Null}]
    BY <1>2, <1>6, <2>1 DEF TypeOK
  <2>4. prev' \in [Node -> Node \cup {Null}]
    BY <1>2, <1>6, <2>1 DEF TypeOK
  <2>5. first' \in [Node -> Node \cup {Null}]
    BY <1>2, <1>6, <2>1 DEF TypeOK
  <2>6. live' \subseteq Node /\ ni' \in live' \cup {Null}
    BY <1>2, <1>6 DEF TypeOK
  <2> QED BY <1>2, <1>6, <2>2, <2>3, <2>4, <2>5, <2>6 DEF TypeOK
<1>11. HeadInv' /\ LoopInv'
  BY <1>2, <1>6 DEF HeadInv, LoopInv
<1>12. Now(s, n)
  BY <1>1 DEF Now
<1> QED BY <1>9, <1>10, <1>11, <1>12 DEF LInv

\* The head goes, and the tail points to the node before it.
LEMMA DequeueLInv ==
  ASSUME LInv, Dequeue
  PROVE  LInv' /\ \E n \in Nat \ {0} : \E s : Now(s, n) /\ Then(Del(s, n, 1), n - 1)
<1>a. PICK n \in Nat : \E s : Represents(s, n, Members, q, next, prev)
  BY DEF LInv, Linked
<1>1. PICK s : Represents(s, n, Members, q, next, prev)
  BY <1>a
<1> DEFINE M == Members
           h == first[q]
<1>2. /\ TypeOK /\ HeadInv /\ pc = "idle" /\ ni = Null /\ q # Null
      /\ "remove" \notin Ops /\ "dequeue" \in Ops
  BY ClientsAssumption DEF LInv, LoopInv, Dequeue, Calls
<1>3. /\ Members = live /\ h \in M /\ Members' = M \ {h} /\ M \subseteq Node /\ Null \notin Node
      /\ next[h] = Null /\ q \in M
  BY <1>2, NodeAssumption DEF TypeOK, Members, Dequeue, loop, HeadInv, HeadCurrent
<1>4. h = s[1] /\ n > 0
  BY <1>1, <1>3, HeadIsFirst
<1>b. /\ \A i \in 1 .. n : s[i] \in M
      /\ \A i, j \in 1 .. n : s[i] = s[j] => i = j
      /\ \A m \in M : \E i \in 1 .. n : s[i] = m
      /\ n = 0 => q = Null
      /\ n > 0 => q = s[n] /\ next[s[1]] = Null /\ prev[s[n]] = Null
      /\ \A i \in 1 .. n : i > 1 => next[s[i]] = s[i - 1]
      /\ \A i \in 1 .. n : i < n => prev[s[i]] = s[i + 1]
  <2>1. ChainView(s, n, Members, q, next, prev)
    BY <1>1, ChainFacts
  <2> QED BY <2>1 DEF ChainView
<1>5. /\ \A i \in 1 .. n : s[i] \in M
      /\ \A i, j \in 1 .. n : s[i] = s[j] => i = j
      /\ q = s[n] /\ prev[s[n]] = Null
      /\ \A i \in 1 .. n : i > 1 => next[s[i]] = s[i - 1]
      /\ \A i \in 1 .. n : i < n => prev[s[i]] = s[i + 1]
  BY <1>b, <1>4
<1>6. /\ first' = [first EXCEPT ![q] = prev[h]]
      /\ next' = [m \in Node |-> IF q # h /\ m = prev[h] THEN Null ELSE next[m]]
      /\ q' = IF q = h THEN Null ELSE q
      /\ UNCHANGED <<pc, prev, key, ni, cur, count>> /\ live' = live \ {h}
  BY DEF Dequeue, loop
<1>7. /\ n = 1 => q = h
      /\ n > 1 => q # h /\ prev[h] = s[2] /\ s[2] \in M /\ s[2] # h
  <2>1. CASE n = 1
    BY <1>4, <1>5, <2>1
  <2>2. CASE n > 1
    <3>1. 1 \in 1 .. n /\ 2 \in 1 .. n /\ n # 1
      BY <2>2
    <3>2. prev[s[1]] = s[2]
      BY <1>5, <2>2, <3>1
    <3> QED BY <1>4, <1>5, <2>2, <3>1, <3>2
  <2> QED BY <1>4, <2>1, <2>2
<1>8. Linked' /\ Then(Del(s, n, 1), n - 1)
  <2>1. (1 = n => q' = next[s[1]]) /\ (1 < n => q' = q) /\ 1 \in 1 .. n
    BY <1>3, <1>4, <1>6, <1>7
  <2>2. 1 < n => next'[s[1 + 1]] = next[s[1]]
    BY <1>3, <1>4, <1>6, <1>7
  <2>3. 1 > 1 => prev'[s[1 - 1]] = prev[s[1]]
    OBVIOUS
  <2>4. ASSUME NEW i \in 1 .. n, i # 1 /\ i # 1 + 1 PROVE next'[s[i]] = next[s[i]]
    <3>1. s[i] \in Node /\ n > 1
      BY <1>3, <1>5, <2>4
    <3>2. s[i] # prev[h]
      BY <1>5, <1>7, <2>4, <3>1
    <3> QED BY <1>6, <3>1, <3>2
  <2>5. \A i \in 1 .. n : i # 1 /\ i # 1 - 1 => prev'[s[i]] = prev[s[i]]
    BY <1>6
  <2>6. Represents(Del(s, n, 1), n - 1, M \ {s[1]}, q', next', prev')
    <3> HIDE DEF M
    <3> QED BY <1>1, <2>1, <2>2, <2>3, <2>4, <2>5, DelRepresents DEF M
  <2>7. Represents(Del(s, n, 1), n - 1, Members', q', next', prev')
    BY <1>3, <1>4, <2>6
  <2>8. Del(s, n, 1) \in [1 .. (n - 1) -> Members'] /\ n - 1 \in Nat
    BY <1>4, <2>7 DEF Represents
  <2> QED BY <2>7, <2>8 DEF Linked, Then
<1>9. TypeOK'
  <2>1. prev[h] \in Node \cup {Null}
    BY <1>2, <1>3 DEF TypeOK
  <2>2. next' \in [Node -> Node \cup {Null}] /\ first' \in [Node -> Node \cup {Null}]
    BY <1>2, <1>6, <2>1 DEF TypeOK
  <2>3. q' \in Members' \cup {Null}
    BY <1>3, <1>6
  <2> QED BY <1>2, <1>6, <2>2, <2>3 DEF TypeOK
<1>10. HeadInv'
  <2>1. CASE n = 1
    BY <1>2, <1>6, <1>7, <2>1 DEF HeadInv, HeadCurrent
  <2>2. CASE n > 1
    <3>1. q' = q /\ first'[q] = s[2] /\ next'[s[2]] = Null /\ s[2] \in Members'
      BY <1>2, <1>3, <1>6, <1>7, <2>2 DEF TypeOK
    <3> QED BY <1>2, <1>6, <3>1 DEF HeadInv, HeadCurrent
  <2> QED BY <1>4, <2>1, <2>2
<1>11. LoopInv'
  BY <1>2, <1>6 DEF LoopInv
<1>12. Now(s, n) /\ n \in Nat \ {0}
  BY <1>1, <1>4 DEF Now
<1> QED BY <1>8, <1>9, <1>10, <1>11, <1>12 DEF LInv

\* Every operation of the list, turn by turn, keeps the invariant.
LEMMA NextLInv == LInv /\ [Next]_vars => LInv'
<1> SUFFICES ASSUME LInv, [Next]_vars PROVE LInv'
  OBVIOUS
<1> USE DEF LInv
<1>1. CASE UNCHANGED vars
  <2>1. Linked'
    BY <1>1, SameChain DEF vars, Members
  <2> QED BY <1>1, <2>1
           DEF vars, TypeOK, HeadInv, HeadCurrent, LoopInv, Members
<1>2. ASSUME NEW x \in Node, NEW k \in Key, llist_add(x, k) PROVE LInv'
  BY <1>2, AddLInv
<1>3. ASSUME NEW x \in Node, NEW k \in Key, InsertStart(x, k) PROVE LInv'
  <2>1. /\ pc = "idle" /\ ni = Null /\ x \notin live /\ "insert" \in Ops
        /\ live' = live \cup {x} /\ key' = [key EXCEPT ![x] = k] /\ Members = live
        /\ "remove" \notin Ops
    BY <1>3, NodeAssumption, ClientsAssumption
       DEF InsertStart, Calls, LoopInv, Members, TypeOK
  <2>2. CASE q = Null
    <3>1. /\ next' = [next EXCEPT ![x] = Null] /\ prev' = [prev EXCEPT ![x] = Null]
          /\ first' = [first EXCEPT ![x] = x]
          /\ q' = x
          /\ UNCHANGED <<pc, ni, cur, count>>
      BY <1>3, <2>2 DEF InsertStart, loop
    <3>a. PICK n \in Nat : \E s : Represents(s, n, Members, q, next, prev)
      BY DEF Linked
    <3>2. PICK s : Represents(s, n, Members, q, next, prev)
      BY <3>a
    <3>3. n = 0
      BY <2>1, <2>2, <3>2, NodeAssumption DEF Represents, TypeOK
    <3>4. Members' = {x}
      <4>1. Members = {}
        BY <3>2, <3>3 DEF Represents
      <4> QED BY <2>1, <3>1, <4>1, NodeAssumption DEF Members
    <3>5. Represents([i \in 1 .. 1 |-> x], 1, Members', q', next', prev')
      BY <3>1, <3>4 DEF Represents, TypeOK
    <3>6. Linked'
      <4>1. [i \in 1 .. 1 |-> x] \in [1 .. 1 -> Members'] /\ 1 \in Nat
        BY <3>4
      <4> QED BY <3>5, <4>1 DEF Linked
    <3>7. TypeOK'
      BY <2>1, <3>1, <3>4 DEF TypeOK
    <3>8. HeadInv' /\ LoopInv'
      BY <2>1, <3>1, <3>4 DEF HeadInv, HeadCurrent, LoopInv, TypeOK
    <3> QED BY <3>6, <3>7, <3>8
  <2>3. CASE q # Null
    <3>1. /\ pc' = "insert" /\ ni' = x /\ cur' = q
          /\ UNCHANGED <<q, next, prev, first, count>>
      BY <1>3, <2>3 DEF InsertStart
    <3>2. Members' = Members
      BY <2>1, <3>1 DEF Members, TypeOK
    <3>3. Linked'
      BY <3>1, <3>2, SameChain
    <3>4. TypeOK'
      BY <2>1, <3>1, <3>2 DEF TypeOK
    <3>5. HeadInv' /\ LoopInv'
      BY <2>1, <2>3, <3>1, <3>2 DEF HeadInv, HeadCurrent, LoopInv, TypeOK
    <3> QED BY <3>3, <3>4, <3>5
  <2> QED BY <2>2, <2>3
<1>4. CASE InsertNext
  <2>1. Linked' /\ Members' = Members
    BY <1>4, SameChain DEF InsertNext, Members
  <2>a. PICK n \in Nat : \E s : Represents(s, n, Members, q, next, prev)
    BY DEF Linked
  <2>2. PICK s : Represents(s, n, Members, q, next, prev)
    BY <2>a
  <2>3. cur \in Members
    BY <1>4 DEF InsertNext, LoopInv
  <2>4. next[cur] \in Members \cup {Null}
    <3> DEFINE M == Members
    <3> HIDE DEF M
    <3>1. /\ \A i \in 1 .. n : s[i] \in M
          /\ \A i, j \in 1 .. n : s[i] = s[j] => i = j
          /\ \A m \in M : \E i \in 1 .. n : s[i] = m
          /\ n = 0 => q = Null
          /\ n > 0 => q = s[n] /\ next[s[1]] = Null /\ prev[s[n]] = Null
          /\ \A i \in 1 .. n : i > 1 => next[s[i]] = s[i - 1]
          /\ \A i \in 1 .. n : i < n => prev[s[i]] = s[i + 1]
      <4>1. ChainView(s, n, Members, q, next, prev)
        BY <2>2, ChainFacts DEF M
      <4> QED BY <4>1 DEF ChainView, M
    <3>2. PICK i \in 1 .. n : s[i] = cur
      BY <2>3, <3>1 DEF M
    <3>3. CASE i = 1
      BY <3>1, <3>2, <3>3
    <3>4. CASE i > 1
      <4>1. i - 1 \in 1 .. n
        BY <3>4
      <4> QED BY <3>1, <3>2, <3>4, <4>1 DEF M
    <3> QED BY <3>2, <3>3, <3>4
  <2>5. TypeOK'
    BY <1>4, <2>1, <2>4 DEF InsertNext, TypeOK, Members
  <2>6. HeadInv'
    BY <1>4, <2>1 DEF InsertNext, HeadInv, HeadCurrent
  <2>7. LoopInv'
    BY <1>4, <2>1, <2>4 DEF InsertNext, LoopInv
  <2> QED BY <2>1, <2>5, <2>6, <2>7
<1>5. CASE InsertAfter
  BY <1>5, AfterLInv
<1>6. CASE InsertHead
  BY <1>6, BeforeHeadLInv
<1>7. ASSUME NEW x \in Node, llist_remove(x) PROVE LInv'
  BY <1>7, RemoveLInv
<1>8. CASE Dequeue
  BY <1>8, DequeueLInv
<1>9. CASE llist_clear
  <2>1. ni' = Null /\ Members' = {} /\ q' = Null /\ live' = {} /\ pc' = "idle"
    BY <1>9 DEF llist_clear, Calls, LoopInv, Members, loop
  <2>2. Represents(<< >>, 0, Members', q', next', prev')
    BY <2>1 DEF Represents
  <2>3. Linked'
    <3>1. << >> \in [1 .. 0 -> Members'] /\ 0 \in Nat
      OBVIOUS
    <3> QED BY <2>2, <3>1 DEF Linked
  <2>4. TypeOK'
    BY <1>9, <2>1 DEF llist_clear, TypeOK, loop
  <2>5. HeadInv' /\ LoopInv'
    BY <2>1 DEF HeadInv, HeadCurrent, LoopInv
  <2> QED BY <2>3, <2>4, <2>5
<1>10. CASE WalkStart
  <2>1. Linked' /\ Members' = Members
    BY <1>10, SameChain DEF WalkStart, Members
  <2>2. pc' = "walk" /\ cur' = first[q] /\ count' = 0 /\ q \in Node /\ ni = Null
        /\ UNCHANGED <<q, next, prev, first, key, live, ni>>
    BY <1>10 DEF WalkStart, Calls, LoopInv, TypeOK, Members
  <2>3. TypeOK'
    <3>1. first[q] \in Node \cup {Null}
      BY <2>2 DEF TypeOK
    <3>2. cur' \in Node \cup {Null} /\ count' \in Nat
      BY <2>2, <3>1
    <3> QED BY <2>1, <2>2, <3>2 DEF TypeOK
  <2>4. HeadInv'
    BY <1>10, <2>1, <2>2 DEF HeadInv, HeadCurrent, WalkStart
  <2>5. LoopInv'
    BY <2>2 DEF LoopInv
  <2> QED BY <2>1, <2>3, <2>4, <2>5
<1>11. CASE WalkNext
  <2>1. Linked' /\ Members' = Members
    BY <1>11, SameChain DEF WalkNext, Members
  <2>a. PICK n \in Nat : \E s : Represents(s, n, Members, q, next, prev)
    BY DEF Linked
  <2>2. PICK s : Represents(s, n, Members, q, next, prev)
    BY <2>a
  <2>3. /\ pc = "walk" /\ cur \in Members /\ ni = Null
        /\ cur' = prev[cur] /\ count' = count + 1
        /\ UNCHANGED <<pc, q, next, prev, first, key, live, ni>>
    BY <1>11, NodeAssumption DEF WalkNext, LoopInv, TypeOK, Members
  <2>4. prev[cur] \in Members \cup {Null}
    <3> DEFINE M == Members
    <3> HIDE DEF M
    <3>1. /\ \A i \in 1 .. n : s[i] \in M
          /\ \A i, j \in 1 .. n : s[i] = s[j] => i = j
          /\ \A m \in M : \E i \in 1 .. n : s[i] = m
          /\ n = 0 => q = Null
          /\ n > 0 => q = s[n] /\ next[s[1]] = Null /\ prev[s[n]] = Null
          /\ \A i \in 1 .. n : i > 1 => next[s[i]] = s[i - 1]
          /\ \A i \in 1 .. n : i < n => prev[s[i]] = s[i + 1]
      <4>1. ChainView(s, n, Members, q, next, prev)
        BY <2>2, ChainFacts DEF M
      <4> QED BY <4>1 DEF ChainView, M
    <3>2. PICK i \in 1 .. n : s[i] = cur
      BY <2>3, <3>1 DEF M
    <3>3. CASE i = n
      BY <3>1, <3>2, <3>3
    <3>4. CASE i < n
      <4>1. i + 1 \in 1 .. n
        BY <3>4
      <4> QED BY <3>1, <3>2, <3>4, <4>1 DEF M
    <3> QED BY <3>2, <3>3, <3>4
  <2>5. TypeOK'
    <3>1. cur' \in Node \cup {Null} /\ count' \in Nat
      BY <2>3, <2>4 DEF TypeOK, Members
    <3> QED BY <2>1, <2>3, <3>1 DEF TypeOK
  <2>6. HeadInv'
    BY <2>1, <2>3, <2>4 DEF HeadInv, HeadCurrent
  <2>7. LoopInv'
    BY <2>3 DEF LoopInv
  <2> QED BY <2>1, <2>5, <2>6, <2>7
<1>12. CASE WalkDone
  <2>1. Linked' /\ Members' = Members
    BY <1>12, SameChain DEF WalkDone, Members
  <2>2. TypeOK'
    BY <1>12, <2>1 DEF WalkDone, TypeOK
  <2>3. HeadInv' /\ LoopInv'
    BY <1>12, <2>1 DEF WalkDone, HeadInv, HeadCurrent, LoopInv
  <2> QED BY <2>1, <2>2, <2>3
<1>13. CASE WalkStale
  <2>1. Linked' /\ Members' = Members
    BY <1>13, SameChain DEF WalkStale, Members, loop
  <2>2. "remove" \in Ops
    BY <1>13, NodeAssumption DEF WalkStale, HeadInv, Members, TypeOK
  <2>3. TypeOK'
    BY <1>13, <2>1 DEF WalkStale, TypeOK, loop
  <2>4. HeadInv' /\ LoopInv'
    BY <1>13, <2>1, <2>2 DEF WalkStale, HeadInv, HeadCurrent, LoopInv, loop
  <2> QED BY <2>1, <2>3, <2>4
<1>14. CASE OutOfMemory
  BY <1>1, <1>14 DEF OutOfMemory
<1>15. CASE Undefined
  BY <1>1, <1>15 DEF Undefined
<1> QED BY <1>1, <1>2, <1>3, <1>4, <1>5, <1>6, <1>7, <1>8, <1>9, <1>10, <1>11,
           <1>12, <1>13, <1>14, <1>15 DEF Next, Insertion, Walk

\* The list is a chain, and without llist_remove its head pointer is current,
\* in every reachable state.
THEOREM ListInvariance == Spec => []LInv
BY InitLInv, NextLInv, PTL DEF Spec

\* support.c keeps every pointer within the nodes it allocated.
THEOREM ListTypeCorrect == Spec => []TypeOK
<1>1. LInv => TypeOK
  BY DEF LInv
<1> QED BY <1>1, ListInvariance, PTL

\* The representation is a chain in the sense of WellLinked.
LEMMA NowIsChain ==
  ASSUME NEW n \in Nat, NEW s, Now(s, n)
  PROVE  s \in SetToSeqs(Members) /\ Chain(s) /\ Len(s) = n /\ Cardinality(Members) = n
<1> DEFINE M == Members
<1>1. Represents(s, n, M, q, next, prev)
  BY DEF Now
<1> HIDE DEF M
<1>2. /\ \A i \in 1 .. n : s[i] \in M
      /\ \A i, j \in 1 .. n : s[i] = s[j] => i = j
      /\ \A m \in M : \E i \in 1 .. n : s[i] = m
      /\ n = 0 => q = Null
      /\ n > 0 => q = s[n] /\ next[s[1]] = Null /\ prev[s[n]] = Null
      /\ \A i \in 1 .. n : i > 1 => next[s[i]] = s[i - 1]
      /\ \A i \in 1 .. n : i < n => prev[s[i]] = s[i + 1]
  <2>1. ChainView(s, n, M, q, next, prev)
    BY <1>1, ChainFacts
  <2> QED BY <2>1 DEF ChainView
<1>3. s \in [1 .. n -> M]
  BY <1>1 DEF Represents
<1>4. Cardinality(M) = n
  <2>1. s \in Bijection(1 .. n, M)
    BY <1>2, <1>3 DEF Bijection, Injection, Surjection, IsInjective
  <2>2. ExistsBijection(1 .. n, M)
    BY <2>1 DEF ExistsBijection
  <2> QED BY <2>2, FS_CountingElements
<1>5. s \in SetToSeqs(M)
  BY <1>2, <1>3, <1>4 DEF SetToSeqs
<1>6. s \in Seq(M) /\ Len(s) = n
  <2>1. s \in Seq(M)
    BY <1>3, SeqDef
  <2> QED BY <1>3, <2>1, LenProperties
<1>7. q = IF s = << >> THEN Null ELSE s[Len(s)]
  <2>1. s = << >> <=> n = 0
    BY <1>6, EmptySeq
  <2> QED BY <1>2, <1>6, <2>1
<1>8. ASSUME NEW i \in 1 .. Len(s)
      PROVE  /\ next[s[i]] = IF i = 1 THEN Null ELSE s[i - 1]
             /\ prev[s[i]] = IF i = Len(s) THEN Null ELSE s[i + 1]
  <2>1. i \in 1 .. n /\ n > 0
    BY <1>6
  <2>2. i # 1 => i > 1
    BY <2>1
  <2>3. i # n => i < n
    BY <2>1
  <2> QED BY <1>2, <1>6, <2>1, <2>2, <2>3
<1>9. Chain(s)
  BY <1>7, <1>8 DEF Chain
<1> QED BY <1>4, <1>5, <1>6, <1>9 DEF M

\* The state the proofs follow is the one the property speaks of.
LEMMA LinkedIsWellLinked == Linked => WellLinked
<1> SUFFICES ASSUME Linked PROVE WellLinked
  OBVIOUS
<1>1. PICK n \in Nat : \E s : Now(s, n)
  BY DEF Linked, Now
<1>2. PICK s : Now(s, n)
  BY <1>1
<1> QED BY <1>2, NowIsChain DEF WellLinked

\* Whatever the client does, the allocated nodes form one chain.
THEOREM AlwaysWellLinked == Spec => []WellLinked
<1>1. LInv => WellLinked
  BY LinkedIsWellLinked DEF LInv
<1> QED BY <1>1, ListInvariance, PTL

\* A client that never unlinks finds the head under `first` of its tail.
THEOREM QueueHeadCurrent == "remove" \notin Ops => (Spec => []HeadCurrent)
<1> SUFFICES ASSUME "remove" \notin Ops PROVE Spec => []HeadCurrent
  OBVIOUS
<1>1. LInv => HeadCurrent
  BY DEF LInv, HeadInv
<1> QED BY <1>1, ListInvariance, PTL

\* Such a client's loops meet no freed node.
THEOREM QueueWalksAreSafe == "remove" \notin Ops => (Spec => []NothingFreedIsRead)
<1> SUFFICES ASSUME "remove" \notin Ops PROVE Spec => []NothingFreedIsRead
  OBVIOUS
<1>1. LInv => NothingFreedIsRead
  BY DEF LInv, HeadInv, NothingFreedIsRead
<1> QED BY <1>1, ListInvariance, PTL

-----------------------------------------------------------------------------
(* The pointers implement a list of data.                                  *)

\* The next pointers lead through s, from its end to its beginning.
Follows(s, n, nx) == \A i \in 2 .. n : nx[s[i]] = s[i - 1]

\* Two orders of the nodes that end in the same tail and follow the same next
\* pointers are one.
LEMMA OneOrder ==
  ASSUME NEW n \in Nat, NEW S, NEW s \in [1 .. n -> S], NEW r \in [1 .. n -> S], NEW nx,
         n > 0 => s[n] = r[n],
         Follows(s, n, nx), Follows(r, n, nx)
  PROVE  s = r
<1> DEFINE D == {d \in Nat : d < n /\ s[n - d] # r[n - d]}
<1>1. D = {}
  <2>1. SUFFICES ASSUME D # {} PROVE FALSE
    OBVIOUS
  <2>2. PICK d \in D : \A e \in D : d <= e
    <3>1. D \in SUBSET Nat
      OBVIOUS
    <3> HIDE DEF D
    <3> QED BY <2>1, <3>1, MinOf
  <2>3. d \in Nat /\ d > 0 /\ d < n
    BY <2>2
  <2>4. d - 1 \notin D /\ d - 1 \in Nat
    <3> HIDE DEF D
    <3> QED BY <2>2, <2>3
  <2>5. s[n - (d - 1)] = r[n - (d - 1)]
    BY <2>3, <2>4
  <2>6. n - (d - 1) \in 2 .. n /\ n - (d - 1) - 1 = n - d
    BY <2>3
  <2>7. s[n - d] = r[n - d]
    BY <2>5, <2>6 DEF Follows
  <2> QED BY <2>2, <2>7
<1>2. ASSUME NEW i \in 1 .. n PROVE s[i] = r[i]
  <2>1. n - i \in Nat /\ n - i < n /\ n - (n - i) = i
    OBVIOUS
  <2> QED BY <1>1, <2>1
<1> QED BY <1>2

\* The data in the order s of the nodes.
Data(s, n, ky) == [i \in 1 .. n |-> ky[s[i]]]

\* What the client of KeyList sees.
Items == [i \in 1 .. Len(Order) |-> key[Order[i]]]

\* Order finds the one order there is, and Items the data in it.
OrderIs ==
  \A n \in Nat : \A s : Now(s, n) => /\ Order = s /\ Len(Order) = n
                                     /\ Items = Data(s, n, key)

LEMMA OrderFound == OrderIs
<1> SUFFICES ASSUME NEW n \in Nat, NEW s, Now(s, n)
             PROVE  Order = s /\ Len(Order) = n /\ Items = Data(s, n, key)
  BY DEF OrderIs
<1>1. s \in SetToSeqs(Members) /\ Chain(s) /\ Len(s) = n /\ Cardinality(Members) = n
  BY NowIsChain
<1>2. Order \in SetToSeqs(Members) /\ Chain(Order)
  BY <1>1, Zenon DEF WellLinked, Order
<1> DEFINE M == Members
           o == Order
<1>3. s \in [1 .. n -> M] /\ o \in [1 .. n -> M]
  BY <1>1, <1>2 DEF SetToSeqs
<1>4. Chain(s) /\ Chain(o)
  BY <1>1, <1>2
<1> HIDE DEF M, o
<1>5. /\ s \in Seq(M) /\ o \in Seq(M)
      /\ Len(s) = n /\ Len(o) = n
  <2>1. s \in Seq(M) /\ o \in Seq(M)
    BY <1>3, SeqDef
  <2> QED BY <1>3, <2>1, LenProperties
<1>6. n > 0 => s[n] = o[n]
  BY <1>4, <1>5, EmptySeq DEF Chain
<1>7. Follows(s, n, next) /\ Follows(o, n, next)
  BY <1>4, <1>5 DEF Chain, Follows
<1>8. s = o
  BY <1>3, <1>6, <1>7, OneOrder
<1> QED BY <1>5, <1>8 DEF o, Items, Data

\* The list of data, and what becomes of it when a node comes or goes.
LEMMA DataSeq ==
  ASSUME NEW n \in Nat, NEW S, NEW s, NEW ky, \A i \in 1 .. n : ky[s[i]] \in S
  PROVE  /\ Data(s, n, ky) \in Seq(S) /\ Len(Data(s, n, ky)) = n
         /\ \A i \in 1 .. n : Data(s, n, ky)[i] = ky[s[i]]
BY DEF Data

LEMMA DataAt ==
  ASSUME NEW n \in Nat, NEW s, NEW ky
  PROVE  /\ \E S : Data(s, n, ky) \in Seq(S)
         /\ Len(Data(s, n, ky)) = n /\ DOMAIN Data(s, n, ky) = 1 .. n
         /\ \A i \in 1 .. n : Data(s, n, ky)[i] = ky[s[i]]
<1> DEFINE S == {ky[s[i]] : i \in 1 .. n}
           d == Data(s, n, ky)
<1>1. \A i \in 1 .. n : ky[s[i]] \in S
  OBVIOUS
<1> HIDE DEF S, d
<1>2. d \in Seq(S) /\ Len(d) = n /\ \A i \in 1 .. n : d[i] = ky[s[i]]
  BY <1>1, DataSeq DEF d
<1> QED BY <1>2, LenProperties DEF d

LEMMA DataIns ==
  ASSUME NEW n \in Nat, NEW s, NEW k \in 0 .. n, NEW x, NEW ky, NEW ky2,
         \A i \in 1 .. n : ky2[s[i]] = ky[s[i]]
  PROVE  Data(Ins(s, n, k, x), n + 1, ky2) = InsertAt(Data(s, n, ky), k + 1, ky2[x])
<1> DEFINE S == {ky2[x]} \cup {ky[s[i]] : i \in 1 .. n}
           d == Data(s, n, ky)
           r == Ins(s, n, k, x)
           a == Data(r, n + 1, ky2)
           b == InsertAt(d, k + 1, ky2[x])
<1>1. \A i \in 1 .. n : ky[s[i]] \in S
  OBVIOUS
<1>2. ky2[x] \in S
  OBVIOUS
<1>3. \A i \in 1 .. (n + 1) :
        r[i] = IF i <= k THEN s[i] ELSE IF i = k + 1 THEN x ELSE s[i - 1]
  BY DEF Ins
<1> HIDE DEF S, d, r, a, b
<1>4. d \in Seq(S) /\ Len(d) = n /\ \A i \in 1 .. n : d[i] = ky[s[i]]
  BY <1>1, DataSeq DEF d
<1>5. /\ b \in Seq(S) /\ Len(b) = n + 1
      /\ \A i \in 1 .. (n + 1) :
           b[i] = IF i < k + 1 THEN d[i] ELSE IF i = k + 1 THEN ky2[x] ELSE d[i - 1]
  <2> DEFINE m == k + 1
             e == ky2[x]
  <2>1. m \in 1 .. (Len(d) + 1) /\ e \in S /\ b = InsertAt(d, m, e)
    BY <1>2, <1>4 DEF b
  <2>2. /\ b \in Seq(S) /\ Len(b) = Len(d) + 1
        /\ \A i \in 1 .. (Len(d) + 1) :
             b[i] = IF i < m THEN d[i] ELSE IF i = m THEN e ELSE d[i - 1]
    <3> DEFINE c == InsertAt(d, m, e)
    <3> HIDE DEF m, e
    <3>1. d \in Seq(S)
      BY <1>4
    <3>2. c \in Seq(S)
      BY <2>1, <3>1, InsertAtProperties
    <3>3. Len(c) = Len(d) + 1
      BY <2>1, <3>1, InsertAtProperties
    <3>4. ASSUME NEW i \in 1 .. (Len(d) + 1)
          PROVE  c[i] = IF i < m THEN d[i] ELSE IF i = m THEN e ELSE d[i - 1]
      <4>1. Len(d) \in Nat
        BY <1>4
      <4> QED BY <2>1, <3>1, <4>1, InsertAtProperties
    <3> HIDE DEF c
    <3> QED BY <2>1, <3>2, <3>3, <3>4 DEF c
  <2> QED BY <1>4, <2>2
<1>6. \A i \in 1 .. (n + 1) : ky2[r[i]] = b[i]
  <2> SUFFICES ASSUME NEW i \in 1 .. (n + 1) PROVE ky2[r[i]] = b[i]
    OBVIOUS
  <2>1. CASE i <= k
    <3>1. i \in 1 .. n /\ i < k + 1
      BY <2>1
    <3> QED BY <1>3, <1>4, <1>5, <2>1, <3>1
  <2>2. CASE i = k + 1
    BY <1>3, <1>5, <2>2
  <2>3. CASE i > k + 1
    <3>1. i - 1 \in 1 .. n /\ ~(i <= k) /\ ~(i < k + 1) /\ i # k + 1
      BY <2>3
    <3> QED BY <1>3, <1>4, <1>5, <3>1
  <2> QED BY <2>1, <2>2, <2>3
<1>7. \A i \in 1 .. (n + 1) : b[i] \in S
  BY <1>5, ElementOfSeq
<1>8. a \in Seq(S) /\ Len(a) = n + 1 /\ \A i \in 1 .. (n + 1) : a[i] = b[i]
  <2>1. n + 1 \in Nat /\ \A i \in 1 .. (n + 1) : ky2[r[i]] \in S
    BY <1>6, <1>7
  <2>2. a \in Seq(S) /\ Len(a) = n + 1 /\ \A i \in 1 .. (n + 1) : a[i] = ky2[r[i]]
    <3> HIDE DEF a, r, S
    <3>1. /\ Data(r, n + 1, ky2) \in Seq(S) /\ Len(Data(r, n + 1, ky2)) = n + 1
          /\ \A i \in 1 .. (n + 1) : Data(r, n + 1, ky2)[i] = ky2[r[i]]
      <4> DEFINE m == n + 1
      <4>1. m \in Nat /\ \A i \in 1 .. m : ky2[r[i]] \in S
        BY <2>1
      <4> HIDE DEF m
      <4>2. /\ Data(r, m, ky2) \in Seq(S) /\ Len(Data(r, m, ky2)) = m
            /\ \A i \in 1 .. m : Data(r, m, ky2)[i] = ky2[r[i]]
        BY <4>1, DataSeq
      <4> QED BY <4>2 DEF m
    <3> QED BY <3>1 DEF a
  <2> QED BY <1>6, <2>2
<1>9. a = b
  BY <1>5, <1>8, SeqEqual
<1> QED BY <1>9 DEF a, b, d, r

LEMMA DataDel ==
  ASSUME NEW n \in Nat, NEW s, NEW k \in 1 .. n, NEW ky
  PROVE  Data(Del(s, n, k), n - 1, ky) = RemoveAt(Data(s, n, ky), k)
<1> DEFINE r == Del(s, n, k)
           d == Data(s, n, ky)
           S == {ky[s[i]] : i \in 1 .. n}
           a == Data(r, n - 1, ky)
           b == RemoveAt(d, k)
<1>1. \A i \in 1 .. n : ky[s[i]] \in S
  OBVIOUS
<1>2. \A i \in 1 .. (n - 1) : r[i] = IF i < k THEN s[i] ELSE s[i + 1]
  BY DEF Del
<1> HIDE DEF S, d, r, a, b
<1>3. d \in Seq(S) /\ Len(d) = n /\ \A i \in 1 .. n : d[i] = ky[s[i]]
  BY <1>1, DataSeq DEF d
<1>4. /\ b \in Seq(S) /\ Len(b) = n - 1
      /\ \A i \in 1 .. (n - 1) : b[i] = IF i < k THEN d[i] ELSE d[i + 1]
  BY <1>3, RemoveAtProperties DEF b
<1>5. \A i \in 1 .. (n - 1) : ky[r[i]] = b[i] /\ b[i] \in S
  <2> SUFFICES ASSUME NEW i \in 1 .. (n - 1) PROVE ky[r[i]] = b[i] /\ b[i] \in S
    OBVIOUS
  <2>1. i \in 1 .. n /\ i + 1 \in 1 .. n
    OBVIOUS
  <2>2. CASE i < k
    BY <1>1, <1>2, <1>3, <1>4, <2>1, <2>2
  <2>3. CASE ~(i < k)
    BY <1>1, <1>2, <1>3, <1>4, <2>1, <2>3
  <2> QED BY <2>2, <2>3
<1>6. a \in Seq(S) /\ Len(a) = n - 1 /\ \A i \in 1 .. (n - 1) : a[i] = b[i]
  <2>1. n - 1 \in Nat /\ \A i \in 1 .. (n - 1) : ky[r[i]] \in S
    BY <1>5
  <2>2. a \in Seq(S) /\ Len(a) = n - 1 /\ \A i \in 1 .. (n - 1) : a[i] = ky[r[i]]
    <3> DEFINE m == n - 1
    <3>1. m \in Nat /\ \A i \in 1 .. m : ky[r[i]] \in S
      BY <2>1
    <3> HIDE DEF m
    <3>2. /\ Data(r, m, ky) \in Seq(S) /\ Len(Data(r, m, ky)) = m
          /\ \A i \in 1 .. m : Data(r, m, ky)[i] = ky[r[i]]
      BY <3>1, DataSeq, SMTT(30)
    <3> QED BY <3>2 DEF a, m
  <2> QED BY <1>5, <2>2
<1>7. a = b
  BY <1>4, <1>6, SeqEqual
<1> QED BY <1>7 DEF a, b, d, r

\* Between two turns of llist_insert_alphabet, the data behind cur, on the side
\* of the tail, are not smaller than the new one.
SearchInv ==
  pc = "insert" =>
    \E i \in 0 .. Len(Order) :
      /\ cur = IF i = 0 THEN Null ELSE Order[i]
      /\ \A j \in (i + 1) .. Len(Order) : key[ni] <= key[Order[j]]

\* Both sides of a step, seen through one order of the nodes.
LEMMA Seen ==
  ASSUME OrderIs, OrderIs', NEW n \in Nat, NEW s, Now(s, n), NEW m \in Nat, NEW r, Then(r, m)
  PROVE  /\ Order = s /\ Len(Order) = n /\ Items = Data(s, n, key) /\ Len(Items) = n
         /\ \A i \in 1 .. n : s[i] \in Members /\ Items[i] = key[s[i]]
         /\ DOMAIN Items = 1 .. n /\ \E S : Items \in Seq(S)
         /\ Order' = r /\ Len(Order') = m /\ Items' = Data(r, m, key')
<1>1. Order = s /\ Len(Order) = n /\ Items = Data(s, n, key)
  BY DEF OrderIs
<1>2. Order' = r /\ Len(Order') = m /\ Items' = Data(r, m, key')
  BY DEF OrderIs, Now, Then
<1>3. \A i \in 1 .. n : s[i] \in Members
  BY DEF Now, Represents
<1>4. /\ \E S : Data(s, n, key) \in Seq(S)
      /\ Len(Data(s, n, key)) = n /\ DOMAIN Data(s, n, key) = 1 .. n
      /\ \A i \in 1 .. n : Data(s, n, key)[i] = key[s[i]]
  BY DataAt
<1> QED BY <1>1, <1>2, <1>3, <1>4

\* A step that links and unlinks nothing.
LEMMA SameItems ==
  ASSUME LInv, OrderIs, OrderIs', UNCHANGED <<q, next, prev>>, Members' = Members,
         \A m \in Members : key'[m] = key[m]
  PROVE  Order' = Order /\ Items' = Items
<1>1. PICK n \in Nat : \E s : Now(s, n)
  BY DEF LInv, Linked, Now
<1>2. PICK s : Now(s, n)
  BY <1>1
<1>3. Then(s, n)
  BY <1>2 DEF Now, Then
<1>4. /\ Order = s /\ Items = Data(s, n, key) /\ \A i \in 1 .. n : s[i] \in Members
      /\ Order' = s /\ Items' = Data(s, n, key')
  BY <1>2, <1>3, Seen
<1>5. Data(s, n, key') = Data(s, n, key)
  BY <1>4 DEF Data
<1> QED BY <1>4, <1>5

\* A step that links the node x in behind the k-th one, or unlinks that one.
LEMMA ItemAdded ==
  ASSUME OrderIs, OrderIs', NEW n \in Nat, NEW s, NEW k \in 0 .. n, NEW x, Now(s, n),
         Then(Ins(s, n, k, x), n + 1), \A m \in Members : key'[m] = key[m]
  PROVE  /\ Items' = InsertAt(Items, k + 1, key'[x])
         /\ k = n => Items' = Append(Items, key'[x])
<1>1. n + 1 \in Nat
  OBVIOUS
<1>2. /\ Items = Data(s, n, key) /\ \A i \in 1 .. n : s[i] \in Members
      /\ Items' = Data(Ins(s, n, k, x), n + 1, key')
  BY <1>1, Seen
<1>3. \A i \in 1 .. n : key'[s[i]] = key[s[i]]
  BY <1>2
<1>4. Items' = InsertAt(Items, k + 1, key'[x])
  BY <1>2, <1>3, DataIns
<1>5. ASSUME k = n PROVE Items' = Append(Items, key'[x])
  <2>1. PICK S : Items \in Seq(S)
    BY <1>1, Seen
  <2>2. k + 1 = Len(Items) + 1
    BY <1>1, <1>5, Seen
  <2>3. InsertAt(Items, Len(Items) + 1, key'[x]) = Append(Items, key'[x])
    BY <2>1, InsertAtEnd
  <2> QED BY <1>4, <2>2, <2>3
<1> QED BY <1>4, <1>5

LEMMA ItemTaken ==
  ASSUME OrderIs, OrderIs', NEW n \in Nat, NEW s, NEW k \in 1 .. n, Now(s, n),
         Then(Del(s, n, k), n - 1), UNCHANGED key
  PROVE  Items' = RemoveAt(Items, k) /\ k \in DOMAIN Items
<1>1. n - 1 \in Nat
  OBVIOUS
<1>2. /\ Items = Data(s, n, key) /\ DOMAIN Items = 1 .. n
      /\ Items' = Data(Del(s, n, k), n - 1, key')
  BY <1>1, Seen
<1> QED BY <1>2, DataDel

\* KeyList's operators on sequences are those of this module.
LEMMA SameOperators ==
  \A z, i, e : List!RemoveAt(z, i) = RemoveAt(z, i) /\ List!InsertAt(z, i, e) = InsertAt(z, i, e)
BY DEF List!RemoveAt, RemoveAt, List!InsertAt, InsertAt

\* One step of the pointers is one step of the list, or none.
LEMMA ListStep ==
  ASSUME LInv, SearchInv, OrderIs, OrderIs', [Next]_vars
  PROVE  SearchInv' /\ [List!Next]_Items
<1>1. ASSUME UNCHANGED <<q, next, prev, key, ni>>, Members' = Members,
             pc' = "insert" => pc = "insert" /\ UNCHANGED cur
      PROVE  SearchInv' /\ UNCHANGED Items
  <2>1. Order' = Order /\ Items' = Items
    BY <1>1, SameItems
  <2> QED BY <1>1, <2>1 DEF SearchInv
<1>2. CASE UNCHANGED vars
  BY <1>1, <1>2 DEF vars, Members
<1>3. CASE Walk
  BY <1>1, <1>3 DEF Walk, WalkStart, WalkNext, WalkDone, WalkStale, Members, loop
<1>4. CASE OutOfMemory \/ Undefined
  BY <1>2, <1>4 DEF OutOfMemory, Undefined
<1>5. ASSUME NEW x \in Node, NEW k \in Key, llist_add(x, k)
      PROVE  SearchInv' /\ [List!Next]_Items
  <2>1. pc' = "idle" /\ "add" \in Ops /\ key' = [key EXCEPT ![x] = k] /\ x \notin Members
    BY <1>5 DEF llist_add, Calls, loop, Members
  <2>2. key'[x] = k /\ \A m \in Members : key'[m] = key[m]
    BY <2>1 DEF LInv, TypeOK
  <2>3. PICK n \in Nat : \E s : Now(s, n) /\ Then(Ins(s, n, n, x), n + 1)
    BY <1>5, AddLInv
  <2>4. PICK s : Now(s, n) /\ Then(Ins(s, n, n, x), n + 1)
    BY <2>3
  <2>5. n \in 0 .. n
    OBVIOUS
  <2>6. Items' = Append(Items, k)
    BY <2>2, <2>4, <2>5, ItemAdded
  <2>7. List!Next
    BY <2>1, <2>6 DEF List!Next, List!AppendTail, Items
  <2> QED BY <2>1, <2>7 DEF SearchInv
<1>6. ASSUME NEW x \in Node, NEW k \in Key, InsertStart(x, k)
      PROVE  SearchInv' /\ [List!Next]_Items
  <2>1. /\ pc = "idle" /\ "insert" \in Ops /\ key' = [key EXCEPT ![x] = k] /\ x \notin live
        /\ ni = Null /\ Members = live /\ live' = live \cup {x} /\ key \in [Node -> Key]
        /\ x # Null
    BY <1>6, NodeAssumption DEF InsertStart, Calls, LInv, LoopInv, TypeOK, Members
  <2>2. key'[x] = k /\ \A m \in Members : key'[m] = key[m]
    BY <2>1
  <2>3. CASE q = Null
    <3>1. PICK n \in Nat : \E s : Now(s, n)
      BY DEF LInv, Linked, Now
    <3>2. PICK s : Now(s, n)
      BY <3>1
    <3>3. n = 0
      BY <2>1, <2>3, <3>2, NodeAssumption DEF Now, Represents, LInv, TypeOK
    <3>4. /\ next' = [next EXCEPT ![x] = Null] /\ prev' = [prev EXCEPT ![x] = Null]
          /\ q' = x /\ pc' = pc /\ ni' = Null /\ Members' = {x}
      <4>1. Members = {}
        BY <3>2, <3>3 DEF Now, Represents
      <4> QED BY <1>6, <2>1, <2>3, <4>1 DEF InsertStart, loop, Members
    <3>5. Then(Ins(s, n, 0, x), n + 1)
      <4>1. Ins(s, n, 0, x) = [i \in 1 .. 1 |-> x] /\ n + 1 = 1
        BY <3>3 DEF Ins
      <4>2. Represents([i \in 1 .. 1 |-> x], 1, Members', q', next', prev')
        BY <3>4 DEF Represents, LInv, TypeOK
      <4> QED BY <4>1, <4>2 DEF Then
    <3>6. Items' = InsertAt(Items, 0 + 1, k) /\ Len(Items) = 0
      <4>1. 0 \in 0 .. n
        BY <3>3
      <4>2. Items' = InsertAt(Items, 0 + 1, key'[x])
        BY <2>2, <3>2, <3>5, <4>1, ItemAdded
      <4>3. Len(Items) = n
        <5>1. n + 1 \in Nat
          OBVIOUS
        <5> QED BY <3>2, <3>5, <5>1, Seen
      <4> QED BY <2>2, <3>3, <4>2, <4>3
    <3>7. List!InsertSorted(k)
      <4>1. 0 \in 0 .. Len(Items) /\ ~(0 > 0) /\ \A j \in (0 + 1) .. Len(Items) : FALSE
        BY <3>6
      <4> QED BY <3>6, <4>1, SameOperators, Zenon DEF List!InsertSorted, Items
    <3>8. List!Next
      BY <2>1, <3>7 DEF List!Next
    <3> QED BY <2>1, <3>4, <3>8 DEF SearchInv
  <2>4. CASE q # Null
    <3>1. /\ pc' = "insert" /\ ni' = x /\ cur' = q /\ UNCHANGED <<q, next, prev>>
      BY <1>6, <2>4 DEF InsertStart
    <3>2. Members' = Members
      BY <2>1, <3>1 DEF Members
    <3>3. Order' = Order /\ Items' = Items
      BY <2>2, <3>1, <3>2, SameItems
    <3>4. PICK n \in Nat : \E s : Now(s, n)
      BY DEF LInv, Linked, Now
    <3>5. PICK s : Now(s, n)
      BY <3>4
    <3>6. Order = s /\ Len(Order) = n /\ n > 0 /\ q = s[n]
      BY <2>4, <3>5 DEF OrderIs, Now, Represents
    <3>7. SearchInv'
      <4>1. n \in 0 .. Len(Order') /\ cur' = IF n = 0 THEN Null ELSE Order'[n]
        BY <3>1, <3>3, <3>6
      <4>2. \A j \in (n + 1) .. Len(Order') : FALSE
        BY <3>3, <3>6
      <4> QED BY <4>1, <4>2 DEF SearchInv
    <3> QED BY <3>3, <3>7
  <2> QED BY <2>3, <2>4
<1>7. CASE InsertNext
  <2>1. /\ pc = "insert" /\ pc' = pc /\ cur # Null /\ key[ni] <= key[cur] /\ cur' = next[cur]
        /\ UNCHANGED <<q, next, prev, key, ni>> /\ Members' = Members
    BY <1>7 DEF InsertNext, Members
  <2>2. Order' = Order /\ Items' = Items
    BY <2>1, SameItems
  <2>3. PICK i \in 0 .. Len(Order) :
          /\ cur = IF i = 0 THEN Null ELSE Order[i]
          /\ \A j \in (i + 1) .. Len(Order) : key[ni] <= key[Order[j]]
    BY <2>1 DEF SearchInv
  <2>4. PICK n \in Nat : \E s : Now(s, n)
    BY DEF LInv, Linked, Now
  <2>5. PICK s : Now(s, n)
    BY <2>4
  <2>6. /\ Order = s /\ Len(Order) = n
        /\ n > 0 => next[s[1]] = Null
        /\ \A j \in 1 .. n : j > 1 => next[s[j]] = s[j - 1]
    <3>1. ChainView(s, n, Members, q, next, prev)
      BY <2>5, ChainFacts DEF Now
    <3> QED BY <2>5, <3>1 DEF OrderIs, ChainView
  <2>7. i \in 1 .. n /\ cur = s[i]
    BY <2>1, <2>3, <2>6
  <2>8. i - 1 \in 0 .. n /\ cur' = IF i - 1 = 0 THEN Null ELSE s[i - 1]
    <3>1. CASE i = 1
      BY <2>1, <2>6, <2>7, <3>1
    <3>2. CASE i > 1
      BY <2>1, <2>6, <2>7, <3>2
    <3> QED BY <2>7, <3>1, <3>2
  <2>9. ASSUME NEW j \in i .. n PROVE key[ni] <= key[s[j]]
    <3>1. CASE j = i
      BY <2>1, <2>7, <3>1
    <3>2. CASE j > i
      BY <2>3, <2>6, <2>7, <3>2
    <3> QED BY <2>7, <3>1, <3>2
  <2>10. SearchInv'
    <3>1. Order' = s /\ Len(Order') = n /\ key' = key /\ ni' = ni /\ (i - 1) + 1 = i
      BY <2>1, <2>2, <2>6, <2>7
    <3>2. /\ i - 1 \in 0 .. Len(Order')
          /\ cur' = IF i - 1 = 0 THEN Null ELSE Order'[i - 1]
          /\ \A j \in ((i - 1) + 1) .. Len(Order') : key'[ni'] <= key'[Order'[j]]
      BY <2>8, <2>9, <3>1
    <3> QED BY <3>2 DEF SearchInv
  <2> QED BY <2>2, <2>10
<1>8. ASSUME InsertAfter \/ InsertHead PROVE SearchInv' /\ [List!Next]_Items
  <2>1. /\ pc = "insert" /\ pc' = "idle" /\ "insert" \in Ops /\ key' = key /\ key[ni] \in Key
        /\ key[ni] \in Int
    BY <1>8, KeyAssumption DEF InsertAfter, InsertHead, Placed, LInv, LoopInv, TypeOK
  <2>2. PICK i \in 0 .. Len(Order) :
          /\ cur = IF i = 0 THEN Null ELSE Order[i]
          /\ \A j \in (i + 1) .. Len(Order) : key[ni] <= key[Order[j]]
    BY <2>1 DEF SearchInv
  <2>3. \E n \in Nat : \E s : Now(s, n) /\ i \in 0 .. n /\ Then(Ins(s, n, i, ni), n + 1)
                              /\ (i > 0 => key[ni] > key[s[i]])
    <3>1. CASE InsertAfter
      <4>1. PICK n \in Nat : \E s : \E k \in 1 .. n :
               Now(s, n) /\ s[k] = cur /\ Then(Ins(s, n, k, ni), n + 1)
        BY <3>1, AfterLInv
      <4>2. PICK s : \E k \in 1 .. n : Now(s, n) /\ s[k] = cur /\ Then(Ins(s, n, k, ni), n + 1)
        BY <4>1
      <4>3. PICK k \in 1 .. n : Now(s, n) /\ s[k] = cur /\ Then(Ins(s, n, k, ni), n + 1)
        BY <4>2
      <4>4. Order = s /\ Len(Order) = n
        BY <4>3 DEF OrderIs
      <4>5. \A j, m \in 1 .. n : s[j] = s[m] => j = m
        BY <4>3 DEF Now, Represents
      <4>6. cur # Null /\ key[ni] > key[cur]
        BY <3>1 DEF InsertAfter
      <4>7. i \in 1 .. n /\ s[i] = cur
        BY <2>2, <4>4, <4>6
      <4>8. i = k
        BY <4>3, <4>5, <4>7
      <4>9. /\ Now(s, n) /\ i \in 0 .. n /\ Then(Ins(s, n, i, ni), n + 1)
            /\ key[ni] > key[s[i]]
        BY <4>3, <4>6, <4>7, <4>8
      <4> QED BY <4>9
    <3>2. CASE InsertHead
      <4>1. PICK n \in Nat : \E s : Now(s, n) /\ Then(Ins(s, n, 0, ni), n + 1)
        BY <3>2, BeforeHeadLInv
      <4>2. PICK s : Now(s, n) /\ Then(Ins(s, n, 0, ni), n + 1)
        BY <4>1
      <4>3. Order = s /\ Len(Order) = n
        BY <4>2 DEF OrderIs
      <4>4. \A j \in 1 .. n : s[j] # Null
        BY <4>2, NodeAssumption DEF Now, Represents, LInv, TypeOK, Members
      <4>5. cur = Null
        BY <3>2 DEF InsertHead
      <4>6. i = 0
        BY <2>2, <4>3, <4>4, <4>5
      <4> QED BY <4>2, <4>6
    <3> QED BY <1>8, <3>1, <3>2
  <2>4. PICK n \in Nat : \E s : Now(s, n) /\ i \in 0 .. n /\ Then(Ins(s, n, i, ni), n + 1)
                                /\ (i > 0 => key[ni] > key[s[i]])
    BY <2>3
  <2>5. PICK s : Now(s, n) /\ i \in 0 .. n /\ Then(Ins(s, n, i, ni), n + 1)
                 /\ (i > 0 => key[ni] > key[s[i]])
    BY <2>4
  <2>6. Items' = InsertAt(Items, i + 1, key[ni])
    <3>1. Items' = InsertAt(Items, i + 1, key'[ni])
      BY <2>1, <2>5, ItemAdded
    <3> QED BY <2>1, <3>1
  <2>7. /\ Order = s /\ Len(Order) = n /\ Len(Items) = n
        /\ \A j \in 1 .. n : Items[j] = key[s[j]] /\ s[j] \in Members
    <3>1. n + 1 \in Nat
      OBVIOUS
    <3> QED BY <2>5, <3>1, Seen
  <2>8. i > 0 => Items[i] < key[ni]
    <3> SUFFICES ASSUME i > 0 PROVE Items[i] < key[ni]
      OBVIOUS
    <3>1. i \in 1 .. n
      BY <2>5
    <3>2. Items[i] = key[s[i]] /\ key[s[i]] \in Int
      BY <2>7, <3>1, KeyAssumption DEF LInv, TypeOK, Members
    <3> QED BY <2>1, <2>5, <3>2
  <2>9. \A j \in (i + 1) .. Len(Items) : key[ni] <= Items[j]
    BY <2>2, <2>5, <2>7
  <2>10. PICK k \in Key : k = key[ni]
    BY <2>1
  <2>11. List!InsertSorted(k)
    <3>1. i \in 0 .. Len(Items)
      BY <2>5, <2>7
    <3>2. /\ Items' = InsertAt(Items, i + 1, k)
          /\ i > 0 => Items[i] < k
          /\ \A j \in (i + 1) .. Len(Items) : k <= Items[j]
      BY <2>6, <2>8, <2>9, <2>10
    <3> QED BY <3>1, <3>2, SameOperators, Zenon DEF List!InsertSorted, Items
  <2>12. List!Next
    BY <2>1, <2>11 DEF List!Next
  <2> QED BY <2>1, <2>12 DEF SearchInv
<1>9. ASSUME NEW x \in Node, llist_remove(x) PROVE SearchInv' /\ [List!Next]_Items
  <2>1. pc' = "idle" /\ "remove" \in Ops /\ key' = key
    BY <1>9 DEF llist_remove, Calls
  <2>2. PICK n \in Nat : \E s : \E k \in 1 .. n : Now(s, n) /\ Then(Del(s, n, k), n - 1)
    BY <1>9, RemoveLInv
  <2>3. PICK s : \E k \in 1 .. n : Now(s, n) /\ Then(Del(s, n, k), n - 1)
    BY <2>2
  <2>4. PICK k \in 1 .. n : Now(s, n) /\ Then(Del(s, n, k), n - 1)
    BY <2>3
  <2>5. Items' = RemoveAt(Items, k) /\ k \in DOMAIN Items
    BY <2>1, <2>4, ItemTaken
  <2>6. List!Next
    BY <2>1, <2>5, SameOperators DEF List!Next, List!RemoveOne, Items
  <2> QED BY <2>1, <2>6 DEF SearchInv
<1>10. ASSUME Dequeue PROVE SearchInv' /\ [List!Next]_Items
  <2>1. pc' = "idle" /\ "dequeue" \in Ops /\ key' = key
    BY <1>10 DEF Dequeue, Calls
  <2>2. PICK n \in Nat \ {0} : \E s : Now(s, n) /\ Then(Del(s, n, 1), n - 1)
    BY <1>10, DequeueLInv
  <2>3. PICK s : Now(s, n) /\ Then(Del(s, n, 1), n - 1)
    BY <2>2
  <2>4. Items' = RemoveAt(Items, 1) /\ 1 \in DOMAIN Items
    BY <2>1, <2>3, ItemTaken
  <2>5. Items # << >>
    BY <2>4
  <2>6. List!Next
    BY <2>1, <2>4, <2>5, SameOperators DEF List!Next, List!TakeHead, List!RemoveOne, Items
  <2> QED BY <2>1, <2>6 DEF SearchInv
<1>11. ASSUME llist_clear PROVE SearchInv' /\ [List!Next]_Items
  <2>1. /\ pc' = "idle" /\ "clear" \in Ops /\ q' = Null /\ ni' = ni /\ live' = {}
    BY <1>11 DEF llist_clear, Calls, loop
  <2>2. Then(<< >>, 0)
    BY <2>1 DEF Then, Represents, Members
  <2>3. Order' = << >> /\ Len(Order') = 0
    BY <2>2 DEF OrderIs, Now, Then
  <2>4. Items' = << >>
    <3>1. Items' = [j \in 1 .. 0 |-> key'[Order'[j]]]
      BY <2>3 DEF Items
    <3> QED BY <3>1
  <2>5. List!Next
    BY <2>1, <2>4 DEF List!Next, List!DropAll, Items
  <2> QED BY <2>1, <2>5 DEF SearchInv
<1> QED
  BY <1>1, <1>2, <1>3, <1>4, <1>5, <1>6, <1>7, <1>8, <1>9, <1>10, <1>11 DEF Next, Insertion

\* Every operation of support.c is the one operation on the sequence of data
\* that its caller expects, however many turns its loops take, and in no turn
\* do the data change otherwise.
THEOREM ListRefines == Spec => ImplementsKeyList
<1>1. Init => List!Init /\ SearchInv
  <2> SUFFICES ASSUME Init PROVE List!Init /\ SearchInv
    OBVIOUS
  <2>1. OrderIs
    BY OrderFound
  <2>2. Now(<< >>, 0)
    BY DEF Init, Now, Represents, Members
  <2>3. Len(Order) = 0
    BY <2>1, <2>2 DEF OrderIs
  <2>4. List!Init
    BY <2>3 DEF List!Init
  <2>5. SearchInv
    BY DEF Init, SearchInv
  <2> QED BY <2>4, <2>5
<1>2. OrderIs'
  BY OrderFound, PTL
<1>3. LInv /\ SearchInv /\ [Next]_vars => SearchInv' /\ [List!Next]_Items
  BY <1>2, OrderFound, ListStep
<1> QED BY <1>1, <1>3, ListInvariance, PTL DEF Spec, ImplementsKeyList, List!Spec, Items

=============================================================================
