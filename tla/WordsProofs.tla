---------------------------- MODULE WordsProofs ----------------------------
(***************************************************************************)
(* The list of variables is a map, whatever is typed, whatever the         *)
(* environment holds, and whatever the arithmetic does.  The argument: no  *)
(* name is in the list twice, so that the first place of a name is its     *)
(* only one, and a change at that place is the change of one value.        *)
(*                                                                         *)
(* The second part is about the line: where its tokens end, and that the   *)
(* words of a command are taken from the queue no further than its end.    *)
(***************************************************************************)
EXTENDS Words, SeqLemmas

IsSeq(s) == \E S : s \in Seq(S)
Unique(q) == \A i, j \in DOMAIN q : q[i].name = q[j].name => i = j

\* The invariant of the proofs.
ListInv == IsSeq(var_q) /\ Unique(var_q)

LEMMA NothingIsList ==
  ASSUME NEW q, q = << >>
  PROVE  IsSeq(q) /\ Unique(q) /\ MapOf(q) = [n \in {} |-> n]
  <1>1. q \in Seq(Nat) /\ DOMAIN q = {}
    OBVIOUS
  <1>2. Names(q) = {}
    BY <1>1 DEF Names
  <1> QED
    BY <1>1, <1>2 DEF IsSeq, Unique, MapOf

LEMMA Places1 ==
  ASSUME NEW q, IsSeq(q)
  PROVE  /\ Len(q) \in Nat /\ DOMAIN q = 1 .. Len(q)
         /\ \A i \in DOMAIN q : i \in Int
  BY DEF IsSeq

\* The place that is found is the only one.
LEMMA Found ==
  ASSUME NEW q, IsSeq(q), Unique(q), NEW i \in DOMAIN q
  PROVE  varlist_find(q, q[i].name) = i /\ IsSet(q, q[i].name)
  <1>1. Places(q, q[i].name) = {i}
    BY DEF Unique, Places
  <1>2. i <= i
    BY Places1
  <1> QED
    BY <1>1, <1>2 DEF varlist_find, IsSet

\* A name that is set has a place, and MapOf takes its value from there.
LEMMA FoundName ==
  ASSUME NEW q, IsSeq(q), Unique(q), NEW name, IsSet(q, name)
  PROVE  varlist_find(q, name) \in DOMAIN q /\ q[varlist_find(q, name)].name = name
  <1>1. PICK i \in DOMAIN q : q[i].name = name
    BY DEF IsSet, Places
  <1> QED
    BY <1>1, Found

LEMMA MapAt ==
  ASSUME NEW q, IsSeq(q), Unique(q), NEW i \in DOMAIN q
  PROVE  q[i].name \in DOMAIN MapOf(q) /\ MapOf(q)[q[i].name] = q[i].str
  BY Found DEF MapOf, Names

LEMMA MapNames ==
  ASSUME NEW q
  PROVE  \A m : m \in DOMAIN MapOf(q) <=> \E i \in DOMAIN q : q[i].name = m
  <1>1. DOMAIN MapOf(q) = Names(q)
    BY DEF MapOf
  <1> QED
    BY <1>1 DEF Names

\* What makes a function the map of a list.
LEMMA MapIs ==
  ASSUME NEW r, IsSeq(r), Unique(r), NEW f, f = [m \in DOMAIN f |-> f[m]],
         \A j \in DOMAIN r : r[j].name \in DOMAIN f /\ f[r[j].name] = r[j].str,
         \A m \in DOMAIN f : \E j \in DOMAIN r : r[j].name = m
  PROVE  MapOf(r) = f
  <1>1. DOMAIN MapOf(r) = DOMAIN f
    <2> DEFINE D == DOMAIN MapOf(r)
               E == DOMAIN f
    <2>1. \A m : m \in D <=> m \in E
      BY MapNames
    <2> HIDE DEF D, E
    <2>2. D = E
      BY <2>1
    <2> QED
      BY <2>2 DEF D, E
  <1>2. \A m \in DOMAIN f : MapOf(r)[m] = f[m]
    <2> SUFFICES ASSUME NEW m \in DOMAIN f
                 PROVE  MapOf(r)[m] = f[m]
      OBVIOUS
    <2>1. PICK j \in DOMAIN r : r[j].name = m
      OBVIOUS
    <2> QED
      BY <2>1, MapAt
  <1>3. MapOf(r) = [m \in DOMAIN MapOf(r) |-> MapOf(r)[m]]
    BY DEF MapOf
  <1> QED
    BY <1>1, <1>2, <1>3

-----------------------------------------------------------------------------
(* A variable that is set *)

LEMMA Modified ==
  ASSUME NEW q, IsSeq(q), Unique(q), NEW name, NEW str, IsSet(q, name)
  PROVE  LET r == varlist_modify_or_add(q, name, str)
             i == varlist_find(q, name)
         IN  /\ IsSeq(r) /\ DOMAIN r = DOMAIN q
             /\ i \in DOMAIN q /\ q[i].name = name
             /\ \A j \in DOMAIN q : r[j] = IF j = i THEN Var(name, str) ELSE q[j]
  <1> DEFINE i == varlist_find(q, name)
             v == Var(name, str)
             r == [q EXCEPT ![i] = v]
  <1> HIDE DEF i, v
  <1>1. varlist_modify_or_add(q, name, str) = r
    BY DEF varlist_modify_or_add, i, v
  <1>2. i \in DOMAIN q /\ q[i].name = name
    BY FoundName DEF i
  <1>3. PICK S : q \in Seq(S)
    BY DEF IsSeq
  <1>4. q \in Seq(S \cup {v}) /\ v \in S \cup {v}
    BY <1>3
  <1>5. r \in Seq(S \cup {v})
    BY <1>4, <1>2
  <1>6. IsSeq(r)
    BY <1>5 DEF IsSeq
  <1>7. DOMAIN r = DOMAIN q /\ \A j \in DOMAIN q : r[j] = IF j = i THEN v ELSE q[j]
    BY <1>3
  <1> QED
    BY <1>1, <1>2, <1>6, <1>7 DEF i, v

LEMMA Added ==
  ASSUME NEW q, IsSeq(q), NEW name, NEW str, ~IsSet(q, name)
  PROVE  LET r == varlist_modify_or_add(q, name, str)
         IN  /\ IsSeq(r) /\ DOMAIN r = 1 .. Len(q) + 1
             /\ \A j \in DOMAIN q : r[j] = q[j] /\ q[j].name # name
             /\ r[Len(q) + 1] = Var(name, str)
  <1> DEFINE v == Var(name, str)
             r == Append(q, v)
  <1> HIDE DEF v
  <1>1. varlist_modify_or_add(q, name, str) = r
    BY DEF varlist_modify_or_add, v
  <1>2. PICK S : q \in Seq(S)
    BY DEF IsSeq
  <1>3. q \in Seq(S \cup {v}) /\ v \in S \cup {v}
    BY <1>2
  <1>4. r \in Seq(S \cup {v}) /\ Len(r) = Len(q) + 1 /\ r[Len(q) + 1] = v
    BY <1>3
  <1>5. \A j \in 1 .. Len(q) : r[j] = q[j]
    BY <1>3
  <1>6. DOMAIN r = 1 .. Len(q) + 1 /\ DOMAIN q = 1 .. Len(q)
    BY <1>3, <1>4
  <1>7. \A j \in DOMAIN q : q[j].name # name
    BY DEF IsSet, Places
  <1>8. IsSeq(r)
    BY <1>4 DEF IsSeq
  <1> QED
    BY <1>1, <1>4, <1>5, <1>6, <1>7, <1>8 DEF v

LEMMA SetKeepsUnique ==
  ASSUME NEW q, IsSeq(q), Unique(q), NEW name, NEW str
  PROVE  LET r == varlist_modify_or_add(q, name, str) IN IsSeq(r) /\ Unique(r)
  <1>1. Var(name, str).name = name
    BY DEF Var
  <1>2. CASE IsSet(q, name)
    BY <1>1, <1>2, Modified DEF Unique
  <1>3. CASE ~IsSet(q, name)
    <2> DEFINE r == varlist_modify_or_add(q, name, str)
    <2>1. /\ IsSeq(r) /\ DOMAIN r = 1 .. Len(q) + 1
          /\ \A j \in DOMAIN q : r[j] = q[j] /\ q[j].name # name
          /\ r[Len(q) + 1].name = name
      BY <1>1, <1>3, Added
    <2>2. \A j \in DOMAIN r : j \in DOMAIN q \/ j = Len(q) + 1
      BY <2>1, Places1
    <2>3. Unique(r)
      BY <2>1, <2>2 DEF Unique
    <2> QED
      BY <2>1, <2>3
  <1> QED
    BY <1>2, <1>3

With(map, name, str) == [m \in DOMAIN map \cup {name} |-> IF m = name THEN str ELSE map[m]]

LEMMA SetIsMapSet ==
  ASSUME NEW q, IsSeq(q), Unique(q), NEW name, NEW str
  PROVE  MapOf(varlist_modify_or_add(q, name, str)) = With(MapOf(q), name, str)
  <1> DEFINE r == varlist_modify_or_add(q, name, str)
             f == With(MapOf(q), name, str)
  <1>0. /\ DOMAIN f = DOMAIN MapOf(q) \cup {name} /\ f = [m \in DOMAIN f |-> f[m]]
        /\ \A m \in DOMAIN f : f[m] = IF m = name THEN str ELSE MapOf(q)[m]
    BY DEF With
  <1> HIDE DEF f
  <1>1. IsSeq(r) /\ Unique(r)
    BY SetKeepsUnique
  <1>2. Var(name, str).name = name /\ Var(name, str).str = str
    BY DEF Var
  <1>3. \A j \in DOMAIN r : r[j].name \in DOMAIN f /\ f[r[j].name] = r[j].str
    <2>1. CASE IsSet(q, name)
      <3>1. \A j \in DOMAIN r : j \in DOMAIN q /\ (r[j] = Var(name, str) \/ (r[j] = q[j] /\ q[j].name # name))
        BY <2>1, Modified DEF Unique
      <3> QED
        BY <1>0, <1>2, <3>1, MapAt
    <2>2. CASE ~IsSet(q, name)
      <3>1. \A j \in DOMAIN r : r[j] = Var(name, str) \/ (j \in DOMAIN q /\ r[j] = q[j] /\ q[j].name # name)
        BY <2>2, Added, Places1
      <3> QED
        BY <1>0, <1>2, <3>1, MapAt
    <2> QED
      BY <2>1, <2>2
  <1>4. \A m \in DOMAIN f : \E j \in DOMAIN r : r[j].name = m
    <2> SUFFICES ASSUME NEW m \in DOMAIN f
                 PROVE  \E j \in DOMAIN r : r[j].name = m
      OBVIOUS
    <2>1. CASE m = name
      <3>1. CASE IsSet(q, name)
        BY <1>2, <2>1, <3>1, Modified
      <3>2. CASE ~IsSet(q, name)
        BY <1>2, <2>1, <3>2, Added, Places1
      <3> QED
        BY <3>1, <3>2
    <2>2. CASE m # name
      <3>1. PICK j \in DOMAIN q : q[j].name = m
        BY <1>0, <2>2, MapNames
      <3>2. j \in DOMAIN r /\ r[j] = q[j]
        <4>1. CASE IsSet(q, name)
          BY <2>2, <3>1, <4>1, Modified
        <4>2. CASE ~IsSet(q, name)
          BY <4>2, Added, Places1
        <4> QED
          BY <4>1, <4>2
      <3> QED
        BY <3>1, <3>2
    <2> QED
      BY <2>1, <2>2
  <1> HIDE DEF r
  <1>5. MapOf(r) = f
    BY <1>1, <1>3, <1>4, <1>0, MapIs
  <1> QED
    BY <1>5 DEF f, r

-----------------------------------------------------------------------------
(* A variable that is unset *)

LEMMA Removed ==
  ASSUME NEW q, IsSeq(q), Unique(q), NEW name, IsSet(q, name)
  PROVE  LET r == varlist_unset(q, name)
             i == varlist_find(q, name)
         IN  /\ IsSeq(r) /\ i \in 1 .. Len(q) /\ q[i].name = name
             /\ DOMAIN r = 1 .. Len(q) - 1
             /\ \A j \in DOMAIN r : r[j] = q[IF j < i THEN j ELSE j + 1]
  <1> DEFINE i == varlist_find(q, name)
             r == SubSeq(q, 1, i - 1) \o SubSeq(q, i + 1, Len(q))
  <1> HIDE DEF i
  <1>1. varlist_unset(q, name) = r
    BY DEF varlist_unset, RemoveAt, i
  <1>2. i \in 1 .. Len(q) /\ q[i].name = name /\ Len(q) \in Nat
    BY FoundName, Places1 DEF i
  <1>3. PICK S : q \in Seq(S)
    BY DEF IsSeq
  <1> DEFINE front == SubSeq(q, 1, i - 1)
             rest == SubSeq(q, i + 1, Len(q))
  <1>4. /\ front \in Seq(S) /\ Len(front) = i - 1
        /\ \A j \in 1 .. i - 1 : front[j] = q[j]
    BY <1>2, <1>3
  <1>5. /\ rest \in Seq(S) /\ Len(rest) = Len(q) - i
        /\ \A j \in 1 .. Len(q) - i : rest[j] = q[i + j]
    BY <1>2, <1>3
  <1>8. r = front \o rest
    OBVIOUS
  <1> HIDE DEF front, rest, r
  <1>9. /\ r \in Seq(S) /\ Len(r) = Len(front) + Len(rest)
        /\ \A j \in 1 .. Len(front) + Len(rest) :
             r[j] = IF j <= Len(front) THEN front[j] ELSE rest[j - Len(front)]
    BY <1>4, <1>5, <1>8, ConcatProperties
  <1>6. Len(r) = Len(q) - 1 /\ DOMAIN r = 1 .. Len(q) - 1
    BY <1>2, <1>4, <1>5, <1>9
  <1>7. \A j \in 1 .. Len(q) - 1 : r[j] = q[IF j < i THEN j ELSE j + 1]
    <2> SUFFICES ASSUME NEW j \in 1 .. Len(q) - 1
                 PROVE  r[j] = q[IF j < i THEN j ELSE j + 1]
      OBVIOUS
    <2>1. CASE j < i
      <3>1. j \in 1 .. i - 1 /\ r[j] = front[j]
        BY <1>2, <1>4, <1>5, <1>9, <2>1
      <3> QED
        BY <1>4, <2>1, <3>1
    <2>2. CASE ~(j < i)
      <3>1. j - (i - 1) \in 1 .. Len(q) - i /\ i + (j - (i - 1)) = j + 1
        BY <1>2, <2>2
      <3>2. Len(front) = i - 1 /\ j \in 1 .. Len(front) + Len(rest) /\ ~(j <= Len(front))
        BY <1>2, <1>4, <1>5, <2>2
      <3>3. r[j] = rest[j - (i - 1)]
        BY <1>9, <3>2
      <3> QED
        BY <1>5, <2>2, <3>1, <3>3
    <2> QED
      BY <2>1, <2>2
  <1>10. IsSeq(r)
    BY <1>9 DEF IsSeq
  <1> QED
    BY <1>1, <1>2, <1>6, <1>7, <1>10 DEF i, r

\* The entries of the list that is left are those of the other names.
LEMMA OthersLeft ==
  ASSUME NEW q, IsSeq(q), Unique(q), NEW name, IsSet(q, name)
  PROVE  LET r == varlist_unset(q, name)
         IN  /\ \A j \in DOMAIN r : \E k \in DOMAIN q : r[j] = q[k] /\ q[k].name # name
             /\ \A k \in DOMAIN q : q[k].name # name => \E j \in DOMAIN r : r[j] = q[k]
  <1> DEFINE r == varlist_unset(q, name)
             i == varlist_find(q, name)
             From(j) == IF j < i THEN j ELSE j + 1
             To(k) == IF k < i THEN k ELSE k - 1
  <1>1. /\ i \in 1 .. Len(q) /\ q[i].name = name /\ DOMAIN r = 1 .. Len(q) - 1
        /\ \A j \in DOMAIN r : r[j] = q[From(j)]
    BY Removed
  <1>2. DOMAIN q = 1 .. Len(q) /\ Len(q) \in Nat
    BY Places1
  <1> HIDE DEF r, i
  <1>3. \A k \in DOMAIN q : k # i => q[k].name # name
    BY <1>1, <1>2 DEF Unique
  <1>4. ASSUME NEW j \in DOMAIN r
        PROVE  \E k \in DOMAIN q : r[j] = q[k] /\ q[k].name # name
    <2>1. From(j) \in DOMAIN q /\ From(j) # i
      BY <1>1, <1>2
    <2> QED
      BY <1>1, <1>3, <2>1
  <1>5. ASSUME NEW k \in DOMAIN q, q[k].name # name
        PROVE  \E j \in DOMAIN r : r[j] = q[k]
    <2>1. k # i
      BY <1>1, <1>5
    <2>2. To(k) \in DOMAIN r /\ From(To(k)) = k
      BY <1>1, <1>2, <2>1
    <2> QED
      BY <1>1, <2>2
  <1> QED
    BY <1>4, <1>5 DEF r

LEMMA UnsetKeepsUnique ==
  ASSUME NEW q, IsSeq(q), Unique(q), NEW name
  PROVE  IsSeq(varlist_unset(q, name)) /\ Unique(varlist_unset(q, name))
  <1>1. CASE ~IsSet(q, name)
    BY <1>1 DEF varlist_unset
  <1>2. CASE IsSet(q, name)
    <2> DEFINE r == varlist_unset(q, name)
               i == varlist_find(q, name)
    <2>1. /\ IsSeq(r) /\ i \in 1 .. Len(q) /\ DOMAIN r = 1 .. Len(q) - 1
          /\ \A j \in DOMAIN r : r[j] = q[IF j < i THEN j ELSE j + 1]
      BY <1>2, Removed
    <2>2. DOMAIN q = 1 .. Len(q) /\ Len(q) \in Nat
      BY Places1
    <2> HIDE DEF r, i
    <2>3. ASSUME NEW j \in DOMAIN r, NEW k \in DOMAIN r, r[j].name = r[k].name
          PROVE  j = k
      <3> DEFINE From(n) == IF n < i THEN n ELSE n + 1
      <3>1. From(j) \in DOMAIN q /\ From(k) \in DOMAIN q
        BY <2>1, <2>2
      <3>2. q[From(j)].name = q[From(k)].name
        BY <2>1, <2>3
      <3>3. From(j) = From(k)
        BY <3>1, <3>2 DEF Unique
      <3> QED
        BY <2>1, <2>2, <3>3
    <2>4. Unique(r)
      BY <2>3 DEF Unique
    <2> QED
      BY <2>1, <2>4 DEF r
  <1> QED
    BY <1>1, <1>2

LEMMA UnsetIsMapUnset ==
  ASSUME NEW q, IsSeq(q), Unique(q), NEW name, IsSet(q, name)
  PROVE  /\ name \in DOMAIN MapOf(q)
         /\ MapOf(varlist_unset(q, name))
              = [m \in DOMAIN MapOf(q) \ {name} |-> MapOf(q)[m]]
  <1> DEFINE r == varlist_unset(q, name)
             f == [m \in DOMAIN MapOf(q) \ {name} |-> MapOf(q)[m]]
  <1>1. IsSeq(r) /\ Unique(r)
    BY UnsetKeepsUnique
  <1>2. name \in DOMAIN MapOf(q)
    BY FoundName, MapNames
  <1>3. \A j \in DOMAIN r : r[j].name \in DOMAIN f /\ f[r[j].name] = r[j].str
    <2> SUFFICES ASSUME NEW j \in DOMAIN r
                 PROVE  r[j].name \in DOMAIN f /\ f[r[j].name] = r[j].str
      OBVIOUS
    <2>1. PICK k \in DOMAIN q : r[j] = q[k] /\ q[k].name # name
      BY OthersLeft
    <2> QED
      BY <2>1, MapAt
  <1>4. \A m \in DOMAIN f : \E j \in DOMAIN r : r[j].name = m
    <2> SUFFICES ASSUME NEW m \in DOMAIN f
                 PROVE  \E j \in DOMAIN r : r[j].name = m
      OBVIOUS
    <2>1. PICK k \in DOMAIN q : q[k].name = m
      BY MapNames
    <2>2. \E j \in DOMAIN r : r[j] = q[k]
      BY <2>1, OthersLeft
    <2> QED
      BY <2>1, <2>2
  <1>5. f = [m \in DOMAIN f |-> f[m]]
    OBVIOUS
  <1> HIDE DEF f, r
  <1>6. MapOf(r) = f
    BY <1>1, <1>3, <1>4, <1>5, MapIs
  <1> QED
    BY <1>2, <1>6 DEF f, r

-----------------------------------------------------------------------------
(* The steps *)

Sets   == \E name, str : var_q' = varlist_modify_or_add(var_q, name, str)
Unsets == \E name : var_q' = varlist_unset(var_q, name)

LEMMA AssignmentChange ==
  ASSUME NEW str, NEW p, do_assignment(str, p)
  PROVE  var_q' = var_q \/ Sets \/ Unsets
  BY DEF do_assignment, Unsets

\* Whatever a step is, it leaves the list alone, or sets or unsets one name.
LEMMA StepChange ==
  ASSUME [Next]_vars
  PROVE  var_q' = var_q \/ Sets \/ Unsets
  <1>1. ASSUME NEW n \in imports, Import(n)
        PROVE  var_q' = var_q \/ Sets \/ Unsets
    BY <1>1, AssignmentChange DEF Import
  <1>2. CASE Ready
    BY <1>2 DEF Ready, Sets
  <1>3. CASE ReadLine
    BY <1>3 DEF ReadLine
  <1>4. CASE EndOfFile
    BY <1>4 DEF EndOfFile
  <1>5. CASE Lex
    BY <1>5 DEF Lex
  <1>6. CASE gram_build_tree
    BY <1>6 DEF gram_build_tree
  <1>7. CASE Assignment
    BY <1>7, AssignmentChange DEF Assignment
  <1>8. CASE Word
    BY <1>8 DEF Word
  <1>9. CASE LastWord
    BY <1>9 DEF LastWord
  <1>10. CASE do_substitution
    BY <1>10 DEF do_substitution
  <1>11. CASE Substituted
    BY <1>11 DEF Substituted, Sets
  <1>12. CASE NoArgument
    BY <1>12 DEF NoArgument
  <1>13. CASE builtin_export
    BY <1>13, AssignmentChange DEF builtin_export
  <1>14. CASE builtin_unexport
    BY <1>14 DEF builtin_unexport, Unsets
  <1>15. CASE OtherCommand
    BY <1>15 DEF OtherCommand
  <1>16. CASE UNCHANGED vars
    BY <1>16 DEF vars
  <1> QED
    BY <1>1, <1>2, <1>3, <1>4, <1>5, <1>6, <1>7, <1>8, <1>9, <1>10, <1>11, <1>12, <1>13, <1>14,
       <1>15, <1>16 DEF Next

LEMMA InitInv ==
  ASSUME Init
  PROVE  ListInv /\ VM!Init
  BY NothingIsList DEF Init, ListInv, VM!Init

LEMMA StepInv ==
  ASSUME ListInv, [Next]_vars
  PROVE  ListInv' /\ [VM!Set \/ VM!Unset]_(MapOf(var_q))
  <1>1. CASE var_q' = var_q
    BY <1>1 DEF ListInv
  <1>2. CASE Sets
    <2>1. PICK name, str : var_q' = varlist_modify_or_add(var_q, name, str)
      BY <1>2 DEF Sets
    <2>2. ListInv'
      BY <2>1, SetKeepsUnique DEF ListInv
    <2>3. MapOf(var_q') = With(MapOf(var_q), name, str)
      BY <2>1, SetIsMapSet DEF ListInv
    <2>4. VM!Set
      <3>1. name \in DOMAIN MapOf(var_q') /\ MapOf(var_q')[name] = str
        BY <2>3 DEF With
      <3> QED
        BY <2>3, <3>1 DEF VM!Set, With
    <2> QED
      BY <2>2, <2>4
  <1>3. CASE Unsets
    <2>1. PICK name : var_q' = varlist_unset(var_q, name)
      BY <1>3 DEF Unsets
    <2>2. ListInv'
      BY <2>1, UnsetKeepsUnique DEF ListInv
    <2>3. CASE IsSet(var_q, name)
      BY <2>1, <2>2, <2>3, UnsetIsMapUnset DEF ListInv, VM!Unset
    <2>4. CASE ~IsSet(var_q, name)
      <3>1. var_q' = var_q
        BY <2>1, <2>4 DEF varlist_unset
      <3> QED
        BY <2>2, <3>1
    <2> QED
      BY <2>3, <2>4
  <1> QED
    BY <1>1, <1>2, <1>3, StepChange

-----------------------------------------------------------------------------
(* Theorems *)

\* No name is in the list of variables twice, however assignments, export and
\* unexport follow each other (varlist_modify_or_add, varlist_unset).
THEOREM OneEntryAlways == Spec => []OneEntry
  <1>1. Init => ListInv
    BY InitInv
  <1>2. ListInv /\ [Next]_vars => ListInv'
    BY StepInv
  <1>3. ListInv => OneEntry
    BY DEF ListInv, Unique, OneEntry
  <1> QED
    BY <1>1, <1>2, <1>3, PTL DEF Spec

\* The list of variables implements a map from names to values: the places of
\* the items and what is behind the first one of a name cannot be told.
THEOREM VariablesImplementMap == Spec => VariablesAreMap
  <1>1. Init => ListInv /\ VM!Init
    BY InitInv
  <1>2. ListInv /\ [Next]_vars => ListInv' /\ [VM!Set \/ VM!Unset]_(MapOf(var_q))
    BY StepInv
  <1> QED
    BY <1>1, <1>2, PTL DEF Spec, VariablesAreMap, VM!Spec

-----------------------------------------------------------------------------
(* Types: the tokenizer and the queue of words *)

Kinds == {"WORD", "IO_NUMBER", "op", "NEWLINE", "(", ")", "EOF"}
IsToken(e) == "tok" \in DOMAIN e /\ e.tok \in Kinds
KindsOK(q) == IsSeq(q) /\ \A k \in DOMAIN q : IsToken(q[k])
Ended(q) == q # << >> /\ q[Len(q)].tok = "EOF"
InCommand == phase \in {"parse", "words"} \/ (phase = "substitute" /\ back = "words")

\* The inductive invariant of the types: a command's words are followed by the
\* token of the end until all of them are dealt with, and the environment does
\* not change while it is being imported.
QueueOK ==
  /\ KindsOK(queue)
  /\ InCommand => Ended(queue)
  /\ phase = "substitute" /\ back = "words" => Head(queue).tok # "EOF"
PhaseOK ==
  /\ phase \in {"import", "prompt", "lex", "parse", "words", "substitute", "run", "undefined", "done"}
  /\ back \in {"import", "words", "prompt"}
  /\ imports \subseteq DOMAIN environ
  /\ phase = "import" \/ (phase = "substitute" /\ back = "import") \/ phase = "undefined" \/ imports = {}
LexerOK ==
  /\ IsSeq(line) /\ IsSeq(session) /\ \A k \in DOMAIN session : IsSeq(session[k])
  /\ start \in 1 .. Len(line) + 1 /\ pos \in start .. Len(line) + 1
  /\ tok \in {"EOF", "WORD", "op"} /\ (tok # "EOF" => start < pos)
LatchOK == {err_occured, ignore} \subseteq BOOLEAN
WordsInv == QueueOK /\ PhaseOK /\ LexerOK /\ LatchOK

LEMMA WordsInvType == WordsInv => TypeOK
  <1> SUFFICES ASSUME WordsInv PROVE TypeOK
    OBVIOUS
  <1>1. \A k \in DOMAIN queue :
          queue[k].tok \in {"WORD", "IO_NUMBER", "op", "NEWLINE", "(", ")", "EOF"}
    BY DEF WordsInv, QueueOK, KindsOK, IsToken, Kinds
  <1>2. /\ start \in 1 .. Len(line) + 1 /\ pos \in start .. Len(line) + 1
        /\ tok \in {"EOF", "WORD", "op"} /\ (tok # "EOF" => start < pos)
    BY DEF WordsInv, LexerOK
  <1>3. /\ phase \in {"import", "prompt", "lex", "parse", "words", "substitute", "run", "undefined", "done"}
        /\ imports \subseteq DOMAIN environ
    BY DEF WordsInv, PhaseOK
  <1> QED
    BY <1>1, <1>2, <1>3 DEF WordsInv, LatchOK, TypeOK

LEMMA FirstIn ==
  ASSUME NEW m \in Nat, NEW n \in Nat, NEW P \in SUBSET (m .. n)
  PROVE  First(P, n + 1) \in m .. n \cup {n + 1}
  <1>1. P \in SUBSET Nat
    OBVIOUS
  <1>2. P # {} => Min(P) \in P
    BY <1>1, MinOf
  <1> QED
    BY <1>2 DEF First

LEMMA QuotesEndIn ==
  ASSUME NEW s, IsSeq(s), NEW i \in 1 .. Len(s)
  PROVE  QuotesEnd(s, i) \in i + 1 .. Len(s) + 1
  <1> DEFINE P == {k \in i + 1 .. Len(s) : s[k] = s[i] /\ ~Escaped(s, i + 1)[k]}
  <1>1. QuotesEnd(s, i) = First(P, Len(s) + 1)
    BY DEF QuotesEnd
  <1>2. P \in SUBSET (i + 1 .. Len(s)) /\ i + 1 \in Nat /\ Len(s) \in Nat
    BY Places1
  <1> HIDE DEF P
  <1>3. First(P, Len(s) + 1) \in i + 1 .. Len(s) \cup {Len(s) + 1}
    BY <1>2, FirstIn
  <1> QED
    BY <1>1, <1>2, <1>3

LEMMA GroupEndIn ==
  ASSUME NEW s, IsSeq(s), NEW i \in 1 .. Len(s)
  PROVE  GroupEnd(s, i) \in i + 2 .. Len(s) \cup {Len(s) + 1}
  <1>1. \E P \in SUBSET (i + 2 .. Len(s)) : GroupEnd(s, i) = First(P, Len(s) + 1)
    BY DEF GroupEnd
  <1>2. i + 2 \in Nat /\ Len(s) \in Nat
    BY Places1
  <1> QED
    BY <1>1, <1>2, FirstIn

LEMMA IsSeqFacts ==
  ASSUME NEW q, IsSeq(q)
  PROVE  /\ Len(q) \in Nat /\ DOMAIN q = 1 .. Len(q)
         /\ \A e : /\ IsSeq(Append(q, e)) /\ Append(q, e) # << >>
                  /\ Len(Append(q, e)) = Len(q) + 1
                  /\ DOMAIN Append(q, e) = 1 .. Len(q) + 1
                  /\ Append(q, e)[Len(q) + 1] = e
                  /\ \A k \in 1 .. Len(q) : Append(q, e)[k] = q[k]
         /\ q # << >> =>
              /\ IsSeq(Tail(q)) /\ Len(Tail(q)) = Len(q) - 1 /\ DOMAIN Tail(q) = 1 .. Len(q) - 1
              /\ \A k \in 1 .. Len(q) - 1 : Tail(q)[k] = q[k + 1]
              /\ Head(q) = q[1] /\ 1 \in DOMAIN q
  <1>1. PICK S : q \in Seq(S)
    BY DEF IsSeq
  <1>2. Len(q) \in Nat /\ DOMAIN q = 1 .. Len(q)
    BY <1>1
  <1>3. ASSUME NEW e
        PROVE  /\ IsSeq(Append(q, e)) /\ Append(q, e) # << >>
               /\ Len(Append(q, e)) = Len(q) + 1
               /\ DOMAIN Append(q, e) = 1 .. Len(q) + 1
               /\ Append(q, e)[Len(q) + 1] = e
               /\ \A k \in 1 .. Len(q) : Append(q, e)[k] = q[k]
    <2>1. q \in Seq(S \cup {e}) /\ e \in S \cup {e}
      BY <1>1
    <2>2. Append(q, e) \in Seq(S \cup {e})
      BY <2>1
    <2>3. IsSeq(Append(q, e))
      BY <2>2 DEF IsSeq
    <2>4. /\ Append(q, e) # << >> /\ Len(Append(q, e)) = Len(q) + 1
          /\ DOMAIN Append(q, e) = 1 .. Len(q) + 1 /\ Append(q, e)[Len(q) + 1] = e
          /\ \A k \in 1 .. Len(q) : Append(q, e)[k] = q[k]
      BY <2>1
    <2> QED
      BY <2>3, <2>4
  <1>4. ASSUME q # << >>
        PROVE  /\ IsSeq(Tail(q)) /\ Len(Tail(q)) = Len(q) - 1 /\ DOMAIN Tail(q) = 1 .. Len(q) - 1
               /\ \A k \in 1 .. Len(q) - 1 : Tail(q)[k] = q[k + 1]
               /\ Head(q) = q[1] /\ 1 \in DOMAIN q
    <2>1. Tail(q) \in Seq(S)
      BY <1>1, <1>4, Rest
    <2>2. IsSeq(Tail(q))
      BY <2>1 DEF IsSeq
    <2> QED
      BY <1>1, <1>4, <2>2, Rest
  <1> QED
    BY <1>2, <1>3, <1>4

LEMMA EnqueuedKinds ==
  ASSUME NEW q, KindsOK(q), NEW e, IsToken(e)
  PROVE  /\ KindsOK(Enqueued(q, e)) /\ Enqueued(q, e) # << >>
         /\ Enqueued(q, e)[Len(Enqueued(q, e))] = e
  <1> DEFINE r == [q EXCEPT ![Len(q)].tok = "IO_NUMBER"]
  <1>1. Enqueued(q, e) = Append(q, e) \/ (q # << >> /\ Enqueued(q, e) = Append(r, e))
    BY DEF Enqueued
  <1>2. ASSUME NEW p, KindsOK(p)
        PROVE  /\ KindsOK(Append(p, e)) /\ Append(p, e) # << >>
               /\ Append(p, e)[Len(Append(p, e))] = e
    <2>1. \A k \in 1 .. Len(p) + 1 : IsToken(Append(p, e)[k])
      <3> SUFFICES ASSUME NEW k \in 1 .. Len(p) + 1 PROVE IsToken(Append(p, e)[k])
        OBVIOUS
      <3>1. /\ Len(p) \in Nat /\ DOMAIN p = 1 .. Len(p) /\ Append(p, e)[Len(p) + 1] = e
            /\ \A j \in 1 .. Len(p) : Append(p, e)[j] = p[j]
        BY <1>2, IsSeqFacts DEF KindsOK
      <3>2. CASE k = Len(p) + 1
        BY <3>1, <3>2
      <3>3. CASE k # Len(p) + 1
        <4>1. k \in 1 .. Len(p)
          BY <3>1, <3>3
        <4> QED
          BY <1>2, <3>1, <4>1 DEF KindsOK
      <3> QED
        BY <3>2, <3>3
    <2> QED
      BY <1>2, <2>1, IsSeqFacts DEF KindsOK
  <1>3. ASSUME q # << >> PROVE KindsOK(r)
    <2>1. PICK S : q \in Seq(S)
      BY DEF KindsOK, IsSeq
    <2>2. Len(q) \in DOMAIN q /\ DOMAIN q = 1 .. Len(q) /\ q[Len(q)] \in S
      BY <1>3, <2>1
    <2> DEFINE x == [q[Len(q)] EXCEPT !.tok = "IO_NUMBER"]
    <2>3. r = [q EXCEPT ![Len(q)] = x]
      OBVIOUS
    <2>4. IsToken(q[Len(q)])
      BY <2>2 DEF KindsOK
    <2>5. IsToken(x)
      BY <2>4 DEF IsToken, Kinds
    <2> HIDE DEF x, r
    <2>6. q \in Seq(S \cup {x}) /\ x \in S \cup {x}
      BY <2>1
    <2>7. /\ r \in Seq(S \cup {x}) /\ DOMAIN r = DOMAIN q
          /\ \A k \in DOMAIN q : r[k] = IF k = Len(q) THEN x ELSE q[k]
      BY <2>2, <2>3, <2>6
    <2>8. \A k \in DOMAIN r : IsToken(r[k])
      BY <2>5, <2>7 DEF KindsOK
    <2>9. IsSeq(r)
      BY <2>7 DEF IsSeq
    <2> QED
      BY <2>8, <2>9 DEF KindsOK
  <1> HIDE DEF r
  <1> QED
    BY <1>1, <1>2, <1>3

\* The token goes into the queue, and the next one begins where it ends.
LEMMA EndTokenStep ==
  ASSUME WordsInv, NEW t \in Kinds, NEW from, NEW end \in 1 .. Len(line) + 1,
         EndToken(t, from, end), line' = line, session' = session
  PROVE  KindsOK(queue') /\ LexerOK' /\ (t = "EOF" => Ended(queue'))
  <1>1. PICK e : e.tok = t /\ "tok" \in DOMAIN e /\ queue' = Enqueued(queue, e)
    BY DEF EndToken, Token
  <1>2. IsToken(e)
    BY <1>1 DEF IsToken
  <1>3. KindsOK(queue)
    BY DEF WordsInv, QueueOK
  <1>4. KindsOK(queue') /\ queue' # << >> /\ queue'[Len(queue')] = e
    BY <1>1, <1>2, <1>3, EnqueuedKinds
  <1>5. pos' = end /\ start' = end /\ tok' = "EOF"
    BY DEF EndToken
  <1>6. Len(line) \in Nat
    BY Places1 DEF WordsInv, LexerOK
  <1>7. LexerOK'
    BY <1>5, <1>6 DEF WordsInv, LexerOK
  <1> QED
    BY <1>1, <1>4, <1>7 DEF Ended

\* A token grows.
LEMMA AdvanceStep ==
  ASSUME WordsInv, NEW t \in {"WORD", "op"}, NEW end \in pos + 1 .. Len(line) + 1,
         Advance(t, end), session' = session
  PROVE  LexerOK' /\ UNCHANGED <<phase, queue>>
  <1>1. /\ tok' = t /\ pos' = end /\ line' = line /\ UNCHANGED <<phase, queue>>
        /\ start' = IF tok = "EOF" THEN pos ELSE start
    BY DEF Advance
  <1>2. /\ Len(line) \in Nat /\ start \in 1 .. Len(line) + 1 /\ pos \in start .. Len(line) + 1
    BY Places1 DEF WordsInv, LexerOK
  <1>3. /\ start' \in 1 .. Len(line) + 1 /\ pos' \in start' .. Len(line) + 1
        /\ start' < pos'
    BY <1>1, <1>2
  <1> QED
    BY <1>1, <1>3 DEF WordsInv, LexerOK

LEMMA LexStep == WordsInv /\ Lex => WordsInv'
  <1> SUFFICES ASSUME WordsInv, Lex PROVE WordsInv'
    OBVIOUS
  <1>1. UNCHANGED <<session, imports, environ, back, err_occured, ignore>>
    BY DEF Lex, subst, latch
  <1>2. phase = "lex"
    BY DEF Lex, tok_next_token, LongerOperator, Backslash, Quoted, Dollar, OperatorStart, Newline,
           Parenthesis, Blank, Comment, Plain, Delimit, LineEnd,
           LineEndOverruns, more
  <1>3. /\ IsSeq(line) /\ Len(line) \in Nat
        /\ start \in 1 .. Len(line) + 1 /\ pos \in start .. Len(line) + 1
        /\ tok \in {"EOF", "WORD", "op"} /\ (tok # "EOF" => start < pos)
    BY Places1 DEF WordsInv, LexerOK
  <1>4. LatchOK' /\ imports' = {} /\ back' \in {"import", "words", "prompt"}
    BY <1>1, <1>2 DEF WordsInv, LatchOK, PhaseOK
  <1>5. ASSUME LexerOK', KindsOK(queue'), phase' = "lex" \/ (phase' = "parse" /\ Ended(queue'))
        PROVE  WordsInv'
    <2>1. PhaseOK'
      BY <1>4, <1>5 DEF PhaseOK
    <2>2. QueueOK'
      BY <1>5 DEF QueueOK, InCommand, KindsOK, Ended
    <2> QED
      BY <1>4, <1>5, <2>1, <2>2 DEF WordsInv
  <1>6. ASSUME NEW t \in {"WORD", "op"}, NEW end \in pos + 1 .. Len(line) + 1, Advance(t, end)
        PROVE  WordsInv'
    <2>1. LexerOK' /\ UNCHANGED <<phase, queue>>
      BY <1>1, <1>6, AdvanceStep
    <2>2. KindsOK(queue')
      BY <2>1 DEF WordsInv, QueueOK
    <2> QED
      BY <1>2, <1>5, <2>1, <2>2
  <1>7. ASSUME more PROVE pos \in 1 .. Len(line) /\ pos + 1 \in pos + 1 .. Len(line) + 1
    BY <1>3, <1>7 DEF more
  <1>8. CASE LongerOperator \/ OperatorStart \/ Plain
    <2>1. more
      BY <1>8 DEF LongerOperator, OperatorStart, Plain
    <2>2. \E t \in {"WORD", "op"} : Advance(t, pos + 1)
      BY <1>8 DEF LongerOperator, OperatorStart, Plain
    <2> QED
      BY <1>6, <1>7, <2>1, <2>2
  <1>9. CASE Backslash
    <2>1. more /\ Advance("WORD", IF pos < Len(line) THEN pos + 2 ELSE pos + 1)
      BY <1>9 DEF Backslash
    <2>2. (IF pos < Len(line) THEN pos + 2 ELSE pos + 1) \in pos + 1 .. Len(line) + 1
      BY <1>3, <1>7, <2>1
    <2> QED
      BY <1>6, <2>1, <2>2
  <1>10. CASE Quoted
    <2> DEFINE end == QuotesEnd(line, pos)
               to == IF end <= Len(line) THEN end + 1 ELSE end
    <2>1. more /\ Advance("WORD", to)
      BY <1>10 DEF Quoted
    <2>2. end \in pos + 1 .. Len(line) + 1
      BY <1>3, <1>7, <2>1, QuotesEndIn
    <2>3. to \in pos + 1 .. Len(line) + 1
      BY <1>3, <2>2
    <2> HIDE DEF to
    <2> QED
      BY <1>6, <2>1, <2>3
  <1>11. CASE Dollar
    <2> DEFINE end == GroupEnd(line, pos)
               to == IF end <= Len(line) THEN end + 1 ELSE end
    <2>1. more
      BY <1>11 DEF Dollar
    <2>2. end \in pos + 2 .. Len(line) \cup {Len(line) + 1}
      BY <1>3, <1>7, <2>1, GroupEndIn
    <2>3. to \in pos + 1 .. Len(line) + 1
      BY <1>3, <1>7, <2>1, <2>2
    <2>4. \/ Advance("WORD", to) \/ Advance("WORD", pos + 1)
          \/ pos < Len(line) /\ Advance("WORD", pos + 2)
      BY <1>11 DEF Dollar
    <2>5. pos < Len(line) => pos + 2 \in pos + 1 .. Len(line) + 1
      BY <1>3
    <2> HIDE DEF to
    <2> QED
      BY <1>6, <1>7, <2>1, <2>3, <2>4, <2>5
  <1>12. ASSUME NEW t \in Kinds, NEW from, NEW end \in 1 .. Len(line) + 1, EndToken(t, from, end),
                line' = line, phase' = phase \/ (t = "EOF" /\ phase' = "parse")
         PROVE  WordsInv'
    <2>1. KindsOK(queue') /\ LexerOK' /\ (t = "EOF" => Ended(queue'))
      BY <1>1, <1>12, EndTokenStep
    <2> QED
      BY <1>2, <1>5, <1>12, <2>1
  <1>13. CASE Newline \/ Parenthesis
    <2>1. more /\ UNCHANGED <<phase, line>>
      BY <1>13 DEF Newline, Parenthesis
    <2>2. \E t \in Kinds : EndToken(t, pos, pos + 1)
      BY <1>13 DEF Newline, Parenthesis, Kinds
    <2>3. pos + 1 \in 1 .. Len(line) + 1
      BY <1>3, <1>7, <2>1
    <2> QED
      BY <1>12, <2>1, <2>2, <2>3
  <1>14. CASE Delimit
    <2>1. EndToken(tok, start, pos) /\ UNCHANGED <<phase, line>>
      BY <1>14 DEF Delimit
    <2>2. tok \in Kinds /\ pos \in 1 .. Len(line) + 1
      BY <1>3 DEF Kinds
    <2> QED
      BY <1>12, <2>1, <2>2
  <1>15. CASE LineEnd
    <2>1. EndToken("EOF", start, pos) /\ line' = line /\ phase' = "parse"
      BY <1>15 DEF LineEnd
    <2>2. "EOF" \in Kinds /\ pos \in 1 .. Len(line) + 1
      BY <1>3 DEF Kinds
    <2> QED
      BY <1>12, <2>1, <2>2
  <1>16. CASE Blank \/ Comment
    <2>1. more /\ UNCHANGED <<phase, line, start, tok, queue>> /\ tok = "EOF"
      BY <1>16 DEF Blank, Comment
    <2>2. pos' \in pos .. Len(line) + 1
      <3>1. CASE Blank
        BY <1>3, <1>7, <2>1, <3>1 DEF Blank
      <3>2. CASE Comment
        <4> DEFINE P == {k \in pos .. Len(line) : line[k] = "\n"}
        <4>1. pos' = First(P, Len(line) + 1)
          BY <3>2 DEF Comment
        <4>2. P \in SUBSET (pos .. Len(line)) /\ pos \in Nat
          BY <1>3
        <4> HIDE DEF P
        <4>3. First(P, Len(line) + 1) \in pos .. Len(line) \cup {Len(line) + 1}
          BY <1>3, <4>2, FirstIn
        <4> QED
          BY <1>3, <4>1, <4>3
      <3> QED
        BY <1>16, <3>1, <3>2
    <2>3. LexerOK'
      BY <1>1, <1>3, <2>1, <2>2 DEF WordsInv, LexerOK
    <2>4. KindsOK(queue') /\ phase' = "lex"
      BY <1>2, <2>1 DEF WordsInv, QueueOK
    <2> QED
      BY <1>5, <2>3, <2>4
  <1>17. CASE LineEndOverruns
    <2>1. phase' = "undefined" /\ UNCHANGED <<line, pos, start, tok, queue>>
      BY <1>17 DEF LineEndOverruns, lexer
    <2>2. LexerOK'
      BY <1>1, <1>3, <2>1 DEF WordsInv, LexerOK
    <2>3. PhaseOK'
      BY <1>4, <2>1 DEF PhaseOK
    <2>4. KindsOK(queue)
      BY DEF WordsInv, QueueOK
    <2>5. QueueOK'
      BY <2>1, <2>4 DEF QueueOK, InCommand, KindsOK
    <2> QED
      BY <1>4, <2>2, <2>3, <2>5 DEF WordsInv
  <1> QED
    BY <1>8, <1>9, <1>10, <1>11, <1>13, <1>14, <1>15, <1>16, <1>17 DEF Lex, tok_next_token

-----------------------------------------------------------------------------
(* The other steps *)

Backs == {"import", "words", "prompt"}

\* The word that is dealt with is not the token of the end.
LEMMA ReturnStep ==
  ASSUME WordsInv, NEW p \in Backs, Return(p),
         p = "words" => Ended(queue) /\ Head(queue).tok # "EOF"
  PROVE  phase' = p /\ QueueOK'
  <1>1. phase' = p /\ queue' = IF p = "words" THEN Tail(queue) ELSE queue
    BY DEF Return
  <1>2. KindsOK(queue)
    BY DEF WordsInv, QueueOK
  <1>3. ASSUME p = "words" PROVE KindsOK(Tail(queue)) /\ Ended(Tail(queue))
    <2>1. queue # << >> /\ queue[Len(queue)].tok = "EOF" /\ Head(queue).tok # "EOF"
      BY <1>3 DEF Ended
    <2>2. /\ Len(queue) \in Nat /\ DOMAIN queue = 1 .. Len(queue)
          /\ IsSeq(Tail(queue)) /\ Len(Tail(queue)) = Len(queue) - 1
          /\ DOMAIN Tail(queue) = 1 .. Len(queue) - 1
          /\ \A k \in 1 .. Len(queue) - 1 : Tail(queue)[k] = queue[k + 1]
          /\ Head(queue) = queue[1] /\ 1 \in DOMAIN queue
      BY <1>2, <2>1, IsSeqFacts DEF KindsOK
    <2>3. Len(queue) # 1
      BY <2>1, <2>2
    <2>4. Len(queue) - 1 \in 1 .. Len(queue) - 1 /\ (Len(queue) - 1) + 1 = Len(queue)
      BY <2>2, <2>3
    <2>5. Tail(queue)[Len(Tail(queue))].tok = "EOF"
      BY <2>1, <2>2, <2>4
    <2>6. Tail(queue) # << >>
      <3>1. Len(Tail(queue)) # 0
        BY <2>2, <2>4
      <3>2. Len(<< >>) = 0
        OBVIOUS
      <3> QED
        BY <3>1, <3>2
    <2>7. ASSUME NEW k \in DOMAIN Tail(queue) PROVE IsToken(Tail(queue)[k])
      <3>1. k \in 1 .. Len(queue) - 1 /\ k + 1 \in DOMAIN queue
        BY <2>2, <2>7
      <3> QED
        BY <1>2, <2>2, <3>1 DEF KindsOK
    <2> QED
      BY <2>2, <2>5, <2>6, <2>7 DEF KindsOK, Ended
  <1>4. KindsOK(queue')
    BY <1>1, <1>2, <1>3
  <1>5. p = "words" => Ended(queue')
    BY <1>1, <1>3
  <1> QED
    BY <1>1, <1>4, <1>5 DEF QueueOK, InCommand, Backs

LEMMA SubstituteStep ==
  ASSUME WordsInv, NEW p \in Backs, NEW str, NEW name, Substitute(str, name, p),
         p = "words" => Ended(queue) /\ Head(queue).tok # "EOF"
  PROVE  phase' = "substitute" /\ back' = p /\ QueueOK'
  <1>1. phase' = "substitute" /\ back' = p /\ queue' = queue
    BY DEF Substitute
  <1> QED
    BY <1>1 DEF WordsInv, QueueOK, InCommand, Ended

LEMMA RaiseStep == Raise => LatchOK'
  BY DEF Raise, LatchOK

LEMMA AssignmentStep ==
  ASSUME WordsInv, NEW p \in Backs, NEW str, do_assignment(str, p),
         p = "words" => Ended(queue) /\ Head(queue).tok # "EOF"
  PROVE  /\ QueueOK' /\ LatchOK'
         /\ (phase' = p /\ back' = back) \/ (phase' = "substitute" /\ back' = p)
  <1>1. \/ Raise /\ Return(p) /\ UNCHANGED subst
        \/ Return(p) /\ UNCHANGED <<subst, latch>>
        \/ \E s, name : Substitute(s, name, p) /\ UNCHANGED latch
    BY DEF do_assignment
  <1>2. UNCHANGED latch => LatchOK'
    BY DEF WordsInv, LatchOK, latch
  <1>3. CASE \/ Raise /\ Return(p) /\ UNCHANGED subst
             \/ Return(p) /\ UNCHANGED <<subst, latch>>
    <2>1. Return(p) /\ back' = back /\ LatchOK'
      BY <1>2, <1>3, RaiseStep DEF subst
    <2> QED
      BY <2>1, ReturnStep
  <1>4. CASE \E s, name : Substitute(s, name, p) /\ UNCHANGED latch
    BY <1>2, <1>4, SubstituteStep
  <1> QED
    BY <1>1, <1>3, <1>4

LEMMA LineStays ==
  ASSUME WordsInv, UNCHANGED <<line, lexer, session>>
  PROVE  LexerOK'
  BY DEF WordsInv, LexerOK, lexer

LEMMA WordsInit == Init => WordsInv
  <1> SUFFICES ASSUME Init PROVE WordsInv
    OBVIOUS
  <1>1. PICK s \in Sessions : session = s.lines /\ environ = s.environ
    BY DEF Init
  <1>2. session \in Seq(Range(session)) /\ \A l \in Range(session) : l \in Seq(Range(l))
    BY <1>1, SessionsAssumption
  <1>3. \A k \in DOMAIN session : session[k] \in Range(session)
    BY DEF Range
  <1>4. IsSeq(session) /\ \A k \in DOMAIN session : IsSeq(session[k])
    BY <1>2, <1>3 DEF IsSeq
  <1>5. IsSeq(line) /\ IsSeq(queue) /\ DOMAIN queue = {} /\ Len(line) = 0
    BY NothingIsList DEF Init
  <1>6. LexerOK
    BY <1>4, <1>5 DEF Init, LexerOK
  <1>7. QueueOK
    BY <1>5 DEF Init, QueueOK, InCommand, KindsOK
  <1>8. PhaseOK /\ LatchOK
    BY DEF Init, PhaseOK, LatchOK
  <1> QED
    BY <1>6, <1>7, <1>8 DEF WordsInv

LEMMA ReadLineStep == WordsInv /\ ReadLine => WordsInv'
  <1> SUFFICES ASSUME WordsInv, ReadLine PROVE WordsInv'
    OBVIOUS
  <1>1. /\ IsSeq(session) /\ session # << >> /\ \A k \in DOMAIN session : IsSeq(session[k])
        /\ session' = Tail(session) /\ line' = Head(session)
    BY DEF ReadLine, WordsInv, LexerOK
  <1>2. /\ Len(session) \in Nat /\ DOMAIN session = 1 .. Len(session) /\ IsSeq(Tail(session))
        /\ DOMAIN Tail(session) = 1 .. Len(session) - 1
        /\ \A k \in 1 .. Len(session) - 1 : Tail(session)[k] = session[k + 1]
        /\ Head(session) = session[1] /\ 1 \in DOMAIN session
    BY <1>1, IsSeqFacts
  <1>3. IsSeq(line') /\ IsSeq(session')
    BY <1>1, <1>2
  <1>4. ASSUME NEW k \in DOMAIN Tail(session) PROVE IsSeq(Tail(session)[k])
    <2>1. Tail(session)[k] = session[k + 1] /\ k + 1 \in DOMAIN session
      BY <1>2, <1>4
    <2> QED
      BY <1>1, <2>1
  <1>5. Len(line') \in Nat
    BY <1>3, Places1
  <1>6. pos' = 1 /\ start' = 1 /\ tok' = "EOF" /\ queue' = << >> /\ phase' \in {"prompt", "lex"}
        /\ UNCHANGED <<environ, imports, back, err_occured, ignore>> /\ phase = "prompt"
    BY DEF ReadLine, subst, latch
  <1>7. LexerOK'
    BY <1>1, <1>3, <1>4, <1>5, <1>6 DEF LexerOK
  <1>8. IsSeq(queue') /\ DOMAIN queue' = {}
    BY <1>6, NothingIsList
  <1>9. QueueOK'
    BY <1>6, <1>8 DEF QueueOK, InCommand, KindsOK
  <1>10. PhaseOK' /\ LatchOK'
    BY <1>6 DEF WordsInv, PhaseOK, LatchOK
  <1> QED
    BY <1>7, <1>9, <1>10 DEF WordsInv

\* Steps that leave the line and the queue alone.
LEMMA PlainStep ==
  ASSUME WordsInv, UNCHANGED <<line, lexer, session, queue, imports, back>>,
         imports = {} \/ environ' = environ, LatchOK',
         \/ phase' \in {"prompt", "run", "done"} /\ phase \in {"prompt", "parse", "words", "run"}
         \/ phase' = "words" /\ phase = "parse"
         \/ phase' = "undefined"
         \/ phase' = "prompt" /\ imports = {}
  PROVE  WordsInv'
  <1>1. LexerOK'
    BY LineStays
  <1>2. KindsOK(queue')
    BY DEF WordsInv, QueueOK
  <1>3. phase' = "words" => Ended(queue')
    BY DEF WordsInv, QueueOK, InCommand, Ended
  <1>4. QueueOK'
    BY <1>2, <1>3 DEF QueueOK, InCommand
  <1>5. imports' \subseteq DOMAIN environ' /\ back' \in {"import", "words", "prompt"}
    BY DEF WordsInv, PhaseOK
  <1>6. PhaseOK'
    BY <1>5 DEF WordsInv, PhaseOK
  <1> QED
    BY <1>1, <1>4, <1>6 DEF WordsInv

LEMMA SubstitutionStep == WordsInv /\ do_substitution => WordsInv'
  <1> SUFFICES ASSUME WordsInv, do_substitution PROVE WordsInv'
    OBVIOUS
  <1>1. /\ phase = "substitute" /\ UNCHANGED <<line, lexer, session, environ, imports, back>>
    BY DEF do_substitution
  <1>2. PICK r : /\ PassErrors(r)
                 /\ IF r.is = "ok" THEN UNCHANGED <<phase, queue>>
                    ELSE IF r.is = "null" /\ target # << >> THEN Return(back)
                    ELSE phase' = "undefined" /\ UNCHANGED queue
    BY DEF do_substitution
  <1>3. LatchOK'
    BY <1>2 DEF PassErrors, LatchOK
  <1>4. LexerOK'
    BY <1>1, LineStays
  <1>5. CASE UNCHANGED <<phase, queue>>
    <2>1. QueueOK' /\ PhaseOK'
      BY <1>1, <1>5 DEF WordsInv, QueueOK, PhaseOK, InCommand, Ended
    <2> QED
      BY <1>3, <1>4, <2>1 DEF WordsInv
  <1>6. CASE Return(back)
    <2>1. back \in Backs /\ (back = "words" => Ended(queue) /\ Head(queue).tok # "EOF")
      BY <1>1 DEF WordsInv, PhaseOK, QueueOK, InCommand, Backs
    <2>2. phase' = back /\ QueueOK'
      BY <1>6, <2>1, ReturnStep
    <2>3. PhaseOK'
      BY <1>1, <2>1, <2>2 DEF WordsInv, PhaseOK, Backs
    <2> QED
      BY <1>3, <1>4, <2>2, <2>3 DEF WordsInv
  <1>7. CASE phase' = "undefined" /\ UNCHANGED queue
    BY <1>1, <1>3, <1>7, PlainStep
  <1> QED
    BY <1>2, <1>5, <1>6, <1>7

LEMMA SubstitutedStep == WordsInv /\ Substituted => WordsInv'
  <1> SUFFICES ASSUME WordsInv, Substituted PROVE WordsInv'
    OBVIOUS
  <1>1. /\ phase = "substitute" /\ Return(back)
        /\ UNCHANGED <<line, lexer, session, environ, imports, back, err_occured, ignore>>
    BY DEF Substituted, subst, latch
  <1>2. back \in Backs /\ (back = "words" => Ended(queue) /\ Head(queue).tok # "EOF")
    BY <1>1 DEF WordsInv, PhaseOK, QueueOK, InCommand, Backs
  <1>3. phase' = back /\ QueueOK'
    BY <1>1, <1>2, ReturnStep
  <1>4. PhaseOK' /\ LatchOK'
    BY <1>1, <1>2, <1>3 DEF WordsInv, PhaseOK, LatchOK, Backs
  <1>5. LexerOK'
    BY <1>1, LineStays
  <1> QED
    BY <1>3, <1>4, <1>5 DEF WordsInv

LEMMA ImportStep == \A n \in imports : WordsInv /\ Import(n) => WordsInv'
  <1> SUFFICES ASSUME NEW n \in imports, WordsInv, Import(n) PROVE WordsInv'
    OBVIOUS
  <1>1. /\ do_assignment(n \o <<"=">> \o environ[n], "import") /\ imports' = imports \ {n}
        /\ UNCHANGED <<line, lexer, session, environ>>
    BY DEF Import
  <1>2. "import" \in Backs
    BY DEF Backs
  <1>3. /\ QueueOK' /\ LatchOK'
        /\ (phase' = "import" /\ back' = back) \/ (phase' = "substitute" /\ back' = "import")
    BY <1>1, <1>2, AssignmentStep
  <1>4. PhaseOK'
    BY <1>1, <1>3 DEF WordsInv, PhaseOK
  <1> QED
    BY <1>1, <1>3, <1>4, LineStays DEF WordsInv

LEMMA WordStep == WordsInv /\ (Assignment \/ Word) => WordsInv'
  <1> SUFFICES ASSUME WordsInv, Assignment \/ Word PROVE WordsInv'
    OBVIOUS
  <1>1. /\ phase = "words" /\ token.tok = "WORD"
        /\ UNCHANGED <<line, lexer, session, environ, imports>>
        /\ \/ do_assignment(token.str, "words")
           \/ Substitute(token.str, << >>, "words") /\ UNCHANGED latch
    BY DEF Assignment, Word
  <1>2. "words" \in Backs
    BY DEF Backs
  <1>3. Ended(queue) /\ Head(queue).tok # "EOF"
    BY <1>1 DEF WordsInv, QueueOK, InCommand, token
  <1>4. /\ QueueOK' /\ LatchOK'
        /\ (phase' = "words" /\ back' = back) \/ (phase' = "substitute" /\ back' = "words")
    <2>1. CASE do_assignment(token.str, "words")
      BY <1>2, <1>3, <2>1, AssignmentStep
    <2>2. CASE Substitute(token.str, << >>, "words") /\ UNCHANGED latch
      BY <1>2, <1>3, <2>2, SubstituteStep DEF WordsInv, LatchOK, latch
    <2> QED
      BY <1>1, <2>1, <2>2
  <1>5. PhaseOK'
    BY <1>1, <1>4 DEF WordsInv, PhaseOK
  <1> QED
    BY <1>1, <1>4, <1>5, LineStays DEF WordsInv

LEMMA ExportStep == WordsInv /\ builtin_export => WordsInv'
  <1> SUFFICES ASSUME WordsInv, builtin_export PROVE WordsInv'
    OBVIOUS
  <1>1. /\ phase = "run" /\ do_assignment(args[2], "prompt")
        /\ UNCHANGED <<line, lexer, session, imports>>
    BY DEF builtin_export, Runs
  <1>2. "prompt" \in Backs /\ imports = {}
    BY <1>1 DEF Backs, WordsInv, PhaseOK
  <1>3. /\ QueueOK' /\ LatchOK'
        /\ (phase' = "prompt" /\ back' = back) \/ (phase' = "substitute" /\ back' = "prompt")
    BY <1>1, <1>2, AssignmentStep
  <1>4. PhaseOK'
    BY <1>1, <1>2, <1>3 DEF WordsInv, PhaseOK
  <1> QED
    BY <1>1, <1>3, <1>4, LineStays DEF WordsInv

LEMMA WordsStep == WordsInv /\ [Next]_vars => WordsInv'
  <1> SUFFICES ASSUME WordsInv, [Next]_vars PROVE WordsInv'
    OBVIOUS
  <1>1. UNCHANGED latch => LatchOK'
    BY DEF WordsInv, LatchOK, latch
  <1>2. CASE Ready
    <2>1. /\ UNCHANGED <<line, lexer, session, queue, imports, back, environ>> /\ UNCHANGED latch
          /\ phase' = "prompt" /\ imports = {}
      BY <1>2 DEF Ready, subst
    <2> QED
      BY <1>1, <2>1, PlainStep
  <1>3. CASE EndOfFile \/ LastWord \/ OtherCommand
    <2>1. /\ UNCHANGED <<line, lexer, session, queue, imports, back, environ>> /\ UNCHANGED latch
          /\ phase' \in {"prompt", "run", "done"} /\ phase \in {"prompt", "words", "run"}
      BY <1>3 DEF EndOfFile, LastWord, OtherCommand, subst
    <2> QED
      BY <1>1, <2>1, PlainStep
  <1>4. CASE gram_build_tree
    <2>1. /\ UNCHANGED <<line, lexer, session, queue, imports, back, environ>>
          /\ phase' \in {"prompt", "words"} /\ phase = "parse" /\ LatchOK'
      BY <1>4 DEF gram_build_tree, subst, LatchOK
    <2> QED
      BY <2>1, PlainStep
  <1>5. CASE NoArgument
    <2>1. /\ UNCHANGED <<line, lexer, session, queue, imports, back, environ>>
          /\ phase' = "prompt" /\ phase = "run" /\ LatchOK'
      BY <1>5, RaiseStep DEF NoArgument, Runs, subst
    <2> QED
      BY <2>1, PlainStep
  <1>6. CASE builtin_unexport
    <2>1. /\ UNCHANGED <<line, lexer, session, queue, imports, back>> /\ UNCHANGED latch
          /\ phase' = "prompt" /\ phase = "run"
      BY <1>6 DEF builtin_unexport, Runs, subst
    <2>2. imports = {}
      BY <2>1 DEF WordsInv, PhaseOK
    <2> QED
      BY <1>1, <2>1, <2>2, PlainStep
  <1>7. CASE UNCHANGED vars
    BY <1>7 DEF vars, lexer, subst, latch, WordsInv, QueueOK, PhaseOK, LexerOK, LatchOK, InCommand,
                KindsOK, Ended
  <1> QED
    BY <1>2, <1>3, <1>4, <1>5, <1>6, <1>7, LexStep, ReadLineStep, SubstitutionStep, SubstitutedStep,
       ImportStep, WordStep, ExportStep DEF Next

\* Whatever is typed and however its quotes and brackets are left open, a token
\* under way lies within the line, the tokens of the queue are of the kinds the
\* parser knows, and no name is imported that the environment does not have.
THEOREM WordsTypes == Spec => []TypeOK
  <1> QED
    BY WordsInit, WordsStep, WordsInvType, PTL DEF Spec
=============================================================================
