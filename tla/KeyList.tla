------------------------------- MODULE KeyList -------------------------------
(***************************************************************************)
(* What the linked list of support.c promises its clients: a sequence of   *)
(* data, head first, of which only the data (a sort key) is seen.          *)
(***************************************************************************)
EXTENDS Naturals, SequencesExt

CONSTANTS
  Key,  \* the data, as far as they are ordered
  Ops   \* the operations the client uses

VARIABLE items

Init == items = << >>

\* Queueing puts new data at the tail.
AppendTail(k) == items' = Append(items, k)

\* Alphabetical insertion goes behind the last smaller item.
InsertSorted(k) ==
  \E i \in 0 .. Len(items) :
    /\ i > 0 => items[i] < k
    /\ \A j \in (i + 1) .. Len(items) : k <= items[j]
    /\ items' = InsertAt(items, i + 1, k)

\* Any item can be unlinked; a queue gives up its oldest one.
RemoveOne(i) == items' = RemoveAt(items, i)
TakeHead == items # << >> /\ RemoveOne(1)
DropAll == items' = << >>

Next ==
  \/ "add" \in Ops /\ \E k \in Key : AppendTail(k)
  \/ "insert" \in Ops /\ \E k \in Key : InsertSorted(k)
  \/ "remove" \in Ops /\ \E i \in DOMAIN items : RemoveOne(i)
  \/ "dequeue" \in Ops /\ TakeHead
  \/ "clear" \in Ops /\ DropAll

Spec == Init /\ [][Next]_items

=============================================================================
