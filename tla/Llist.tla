-------------------------------- MODULE Llist --------------------------------
(***************************************************************************)
(* The linked list of support.c, pointer by pointer.  A client holds q, a  *)
(* pointer to the tail; next leads to the head, prev to the tail, and each *)
(* node has a pointer `first` which is to point to the head.  The code is  *)
(* sequential; its loops are modelled one turn at a time, so that each     *)
(* dereference is a step:                                                  *)
(*   "idle"    between two calls,                                          *)
(*   "insert"  llist_insert_alphabet looks for the place of ni,            *)
(*   "walk"    a loop from q->first along prev, as in llist_size,          *)
(*   "undefined" a freed node was followed.                                *)
(***************************************************************************)
EXTENDS Integers, SequencesExt

CONSTANTS
  Node,   \* the addresses malloc can return
  Null,   \* no address
  Key,    \* the data, as far as strcmp orders them
  Ops     \* the operations the client uses

ASSUME NodeAssumption == Null \notin Node /\ IsFiniteSet(Node)
ASSUME KeyAssumption == Key \subseteq Int
\* Variables and jobs unlink items and are never queues; token queues, tree
\* children and file name lists never unlink.
ASSUME ClientsAssumption ==
  /\ Ops \subseteq {"add", "insert", "remove", "dequeue", "clear", "walk"}
  /\ "remove" \in Ops => Ops \cap {"insert", "dequeue"} = {}

VARIABLES
  pc,
  q,                  \* the client's pointer to the tail, or Null
  next, prev, first,  \* the pointers of each node
  key,                \* its data
  live,               \* the allocated nodes
  ni,                 \* the new node of an insertion under way, else Null
  cur,                \* the loop variable of "insert" and "walk"
  count               \* c in llist_size

vars == <<pc, q, next, prev, first, key, live, ni, cur, count>>
loop == <<ni, cur, count>>

Members == live \ {ni}

Init ==
  /\ pc = "idle" /\ q = Null
  /\ next = [n \in Node |-> Null] /\ prev = next /\ first = next
  /\ key \in [Node -> Key] /\ \A m, n \in Node : key[m] = key[n]
  /\ live = {} /\ ni = Null /\ cur = Null /\ count = 0

-----------------------------------------------------------------------------
Calls(op) == pc = "idle" /\ op \in Ops

\* A new tail, which copies the head pointer of the old one.
llist_add(n, k) ==
  /\ Calls("add") /\ n \in Node \ live
  /\ live' = live \cup {n} /\ key' = [key EXCEPT ![n] = k]
  /\ next' = [next EXCEPT ![n] = q]
  /\ prev' = [m \in Node |-> IF m = n THEN Null ELSE IF m = q THEN n ELSE prev[m]]
  /\ first' = [first EXCEPT ![n] = IF q = Null THEN n ELSE first[q]]
  /\ q' = n
  /\ UNCHANGED <<pc, loop>>

\* llist_insert_alphabet allocates its node; in an empty list it is placed at
\* once, else the search starts at the tail.
InsertStart(n, k) ==
  /\ Calls("insert") /\ n \in Node \ live
  /\ live' = live \cup {n} /\ key' = [key EXCEPT ![n] = k]
  /\ IF q = Null
     THEN /\ next' = [next EXCEPT ![n] = Null] /\ prev' = [prev EXCEPT ![n] = Null]
          /\ first' = [first EXCEPT ![n] = n]
          /\ q' = n
          /\ UNCHANGED <<pc, loop>>
     ELSE /\ pc' = "insert" /\ ni' = n /\ cur' = q
          /\ UNCHANGED <<q, next, prev, first, count>>

\* The data is not greater than that of cur: look further to the head.
InsertNext ==
  /\ pc = "insert" /\ cur # Null
  /\ key[ni] <= key[cur]
  /\ cur' = next[cur]
  /\ UNCHANGED <<pc, q, next, prev, first, key, live, ni, count>>

Placed == pc' = "idle" /\ ni' = Null /\ cur' = Null /\ UNCHANGED <<key, live, count>>

\* mutant: the search goes on to the smaller items
InsertAfter_Reversed ==
  /\ pc = "insert" /\ cur # Null
  /\ key[ni] <= key[cur]
  /\ next' = [m \in Node |-> IF m = ni THEN cur ELSE IF m = prev[cur] THEN ni ELSE next[m]]
  /\ prev' = [prev EXCEPT ![ni] = prev[cur], ![cur] = ni]
  /\ first' = [first EXCEPT ![ni] = first[cur]]
  /\ q' = IF prev[cur] = Null THEN ni ELSE q
  /\ Placed

\* Link ni behind cur, on the side of the tail; it may be the new tail.
InsertAfter ==
  /\ pc = "insert" /\ cur # Null
  /\ key[ni] > key[cur]
  /\ next' = [m \in Node |-> IF m = ni THEN cur ELSE IF m = prev[cur] THEN ni ELSE next[m]]
  /\ prev' = [prev EXCEPT ![ni] = prev[cur], ![cur] = ni]
  /\ first' = [first EXCEPT ![ni] = first[cur]]
  /\ q' = IF prev[cur] = Null THEN ni ELSE q
  /\ Placed

\* mutant: the tail keeps pointing to the old head
InsertHead_NoFirst ==
  /\ pc = "insert" /\ cur = Null
  /\ next' = [m \in Node |-> IF m = ni THEN Null ELSE IF m = first[q] THEN ni ELSE next[m]]
  /\ prev' = [prev EXCEPT ![ni] = first[q]]
  /\ UNCHANGED <<q, first>>
  /\ Placed

\* No smaller item: ni is the new head.  Its own `first` is never written; it
\* keeps what malloc left there.
InsertHead ==
  /\ pc = "insert" /\ cur = Null
  /\ next' = [m \in Node |-> IF m = ni THEN Null ELSE IF m = first[q] THEN ni ELSE next[m]]
  /\ prev' = [prev EXCEPT ![ni] = first[q]]
  /\ \E garbage \in Node \cup {Null} : first' = [first EXCEPT ![ni] = garbage, ![q] = ni]
  /\ UNCHANGED q
  /\ Placed

\* mutant: the item is unlinked in one direction only
llist_remove_OneWay(item) ==
  /\ Calls("remove") /\ item \in live
  /\ LET tail == IF prev[item] = Null THEN next[item] ELSE q
     IN  /\ q' = tail
         /\ next' = [m \in Node |-> IF m = prev[item] THEN next[item] ELSE next[m]]
         /\ first' = [m \in Node |-> IF next[item] = Null /\ m = tail
                                     THEN prev[item] ELSE first[m]]
  /\ live' = live \ {item}
  /\ UNCHANGED <<pc, prev, key, loop>>

\* Unlink any item.  Only the tail learns of a new head.
llist_remove(item) ==
  /\ Calls("remove") /\ item \in live
  /\ LET tail == IF prev[item] = Null THEN next[item] ELSE q
     IN  /\ q' = tail
         /\ next' = [m \in Node |-> IF m = prev[item] THEN next[item] ELSE next[m]]
         /\ prev' = [m \in Node |-> IF m = next[item] THEN prev[item] ELSE prev[m]]
         /\ first' = [m \in Node |-> IF next[item] = Null /\ m = tail
                                     THEN prev[item] ELSE first[m]]
  /\ live' = live \ {item}
  /\ UNCHANGED <<pc, key, loop>>

\* mutant: an emptied queue keeps its tail
Dequeue_TailKept ==
  /\ Calls("dequeue") /\ q # Null /\ first[q] \in live
  /\ LET h == first[q]
     IN  /\ first' = [first EXCEPT ![q] = prev[h]]
         /\ next' = [m \in Node |-> IF q # h /\ m = prev[h] THEN Null ELSE next[m]]
         /\ live' = live \ {h}
  /\ UNCHANGED <<pc, q, prev, key, loop>>

\* mutant: the tail still points to the head taken
Dequeue_FirstKept ==
  /\ Calls("dequeue") /\ q # Null /\ first[q] \in live
  /\ LET h == first[q]
     IN  /\ next' = [m \in Node |-> IF q # h /\ m = prev[h] THEN Null ELSE next[m]]
         /\ live' = live \ {h}
         /\ q' = IF q = h THEN Null ELSE q
  /\ UNCHANGED <<pc, prev, first, key, loop>>

\* queue_extract, queue_throw_away and queue_pop_keep_data: the head goes; they
\* differ in what becomes of its data.
Dequeue ==
  /\ Calls("dequeue") /\ q # Null /\ first[q] \in live
  /\ LET h == first[q]
     IN  /\ first' = [first EXCEPT ![q] = prev[h]]
         /\ next' = [m \in Node |-> IF q # h /\ m = prev[h] THEN Null ELSE next[m]]
         /\ live' = live \ {h}
         /\ q' = IF q = h THEN Null ELSE q
  /\ UNCHANGED <<pc, prev, key, loop>>

\* Frees every node from the tail to the head.
llist_clear ==
  /\ Calls("clear")
  /\ live' = {} /\ q' = Null
  /\ UNCHANGED <<pc, next, prev, first, key, loop>>

\* llist_size, llist_print and the clients' own loops.
WalkStart ==
  /\ Calls("walk") /\ q # Null
  /\ pc' = "walk" /\ cur' = first[q] /\ count' = 0
  /\ UNCHANGED <<q, next, prev, first, key, live, ni>>

WalkNext ==
  /\ pc = "walk" /\ cur \in live
  /\ cur' = prev[cur] /\ count' = count + 1
  /\ UNCHANGED <<pc, q, next, prev, first, key, live, ni>>

WalkDone ==
  /\ pc = "walk" /\ cur = Null
  /\ pc' = "idle" /\ count' = 0
  /\ UNCHANGED <<q, next, prev, first, key, live, ni, cur>>

\* cur was freed: the loop reads memory that is no longer a node.
WalkStale ==
  /\ pc = "walk" /\ cur \in Node \ live
  /\ pc' = "undefined"
  /\ UNCHANGED <<q, next, prev, first, key, live, loop>>

\* malloc fails: the list is returned as it was.
OutOfMemory == (Calls("add") \/ Calls("insert")) /\ UNCHANGED vars

Undefined == pc = "undefined" /\ UNCHANGED vars

Insertion ==
  \/ \E n \in Node, k \in Key : InsertStart(n, k)
  \/ InsertNext \/ InsertAfter \/ InsertHead

Walk == WalkStart \/ WalkNext \/ WalkDone \/ WalkStale

Next ==
  \/ \E n \in Node, k \in Key : llist_add(n, k)
  \/ Insertion
  \/ \E n \in Node : llist_remove(n)
  \/ Dequeue \/ llist_clear
  \/ Walk
  \/ OutOfMemory \/ Undefined

Spec == Init /\ [][Next]_vars

-----------------------------------------------------------------------------
(* Properties.                                                             *)

\* s lists the nodes from the head to the tail q, and the pointers agree.
Chain(s) ==
  /\ q = IF s = << >> THEN Null ELSE s[Len(s)]
  /\ \A i \in 1 .. Len(s) :
       /\ next[s[i]] = IF i = 1 THEN Null ELSE s[i - 1]
       /\ prev[s[i]] = IF i = Len(s) THEN Null ELSE s[i + 1]

\* Pointers lead to nodes, and q leads to an allocated one or is NULL.
TypeOK ==
  /\ pc \in {"idle", "insert", "walk", "undefined"}
  /\ q \in Members \cup {Null}
  /\ next \in [Node -> Node \cup {Null}]
  /\ prev \in [Node -> Node \cup {Null}]
  /\ first \in [Node -> Node \cup {Null}]
  /\ key \in [Node -> Key]
  /\ live \subseteq Node
  /\ ni \in live \cup {Null} /\ cur \in Node \cup {Null} /\ count \in Nat

\* The allocated nodes form one chain that reads the same from both ends:
\* nothing is lost, nothing is linked twice and there is no cycle (every
\* operation of support.c, in the combinations its clients use).
WellLinked == \E s \in SetToSeqs(Members) : Chain(s)

\* support.h:41: first is the "pointer to the head of the queue", seen from the
\* tail, the only node a client holds.  A client that unlinks breaks it.
HeadCurrent == q # Null => first[q] \in Members /\ next[first[q]] = Null

\* No walk meets a freed node.
NothingFreedIsRead == pc # "undefined"

\* The list as its clients see it.
Order == IF WellLinked THEN CHOOSE s \in SetToSeqs(Members) : Chain(s) ELSE << >>
List == INSTANCE KeyList WITH items <- [i \in 1 .. Len(Order) |-> key[Order[i]]]

\* The pointers implement the list: each operation is the one operation on the
\* sequence of data, and the turns of a loop do not change it.
ImplementsKeyList == List!Spec

=============================================================================
