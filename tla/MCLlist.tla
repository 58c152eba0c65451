------------------------------- MODULE MCLlist -------------------------------
(* Instances of Llist for TLC: one per kind of client.                     *)
EXTENDS Llist

CONSTANTS n1, n2, n3, n4

ThreeNodes == {n1, n2, n3}
FourNodes == {n1, n2, n3, n4}
TwoKeys == 0 .. 1
ThreeKeys == 0 .. 2

JobOps   == {"add", "remove", "walk"}
NameOps  == {"insert", "dequeue", "walk"}
QueueOps == {"add", "insert", "dequeue", "clear", "walk"}

FourAddresses == Permutations(FourNodes)

\* What freed nodes hold is never read before it is written.
Seen ==
  LET alive(f) == [n \in Node |-> IF n \in live THEN f[n] ELSE Null]
  IN  <<pc, q, alive(next), alive(prev), alive(first), [n \in live |-> key[n]],
        live, ni, cur, count>>

=============================================================================
