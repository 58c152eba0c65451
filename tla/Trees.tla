------------------------------- MODULE Trees -------------------------------
(***************************************************************************)
(* What the parser and the executor agree on: a tree is a record of kind   *)
(* and kids, the kind and the subnodes of each node; the root is node 1.   *)
(***************************************************************************)
EXTENDS Integers, Sequences

\* The trees of the parser, as far as execute relies on them: each node has a
\* higher number than its parent, and its subnodes by its kind.
Executable(p) ==
  LET kindOf(n, i) == p.kind[p.kids[n][i]]
  IN  /\ p.kind \in Seq({p.kind[n] : n \in DOMAIN p.kind}) /\ p.kind # << >>
      /\ p.kids \in Seq(Seq(1 .. Len(p.kind))) /\ Len(p.kids) = Len(p.kind)
      /\ \A n \in DOMAIN p.kids :
           /\ \A i \in DOMAIN p.kids[n] : p.kids[n][i] > n
           /\ p.kind[n] \in {"subshell", "else", "caseitem"} => Len(p.kids[n]) >= 1
           /\ p.kind[n] \in {"if", "while", "until", "elif", "for"} => Len(p.kids[n]) >= 2
           /\ p.kind[n] = "for" /\ kindOf(n, 2) = "in" => Len(p.kids[n]) >= 3
           /\ p.kind[n] = "if" => \A i \in 3 .. Len(p.kids[n]) : kindOf(n, i) \in {"elif", "else"}

=============================================================================
