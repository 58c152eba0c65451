-------------------------------- MODULE Vars --------------------------------
(***************************************************************************)
(* The shell's variables, main.c: a list of names with values that is      *)
(* searched from the front.  Of a variable's flags nothing reads.          *)
(***************************************************************************)
EXTENDS Integers, SequencesExt

Var(name, str) == [name |-> name, str |-> str]
Places(q, name) == {i \in DOMAIN q : q[i].name = name}
IsSet(q, name) == Places(q, name) # {}

\* The place of the first variable of that name.
varlist_find(q, name) == CHOOSE i \in Places(q, name) : \A j \in Places(q, name) : i <= j

\* A variable that is there already is not looked for.
varlist_modify_or_add_Twice(q, name, str) == Append(q, Var(name, str))
varlist_modify_or_add(q, name, str) ==
  IF IsSet(q, name) THEN [q EXCEPT ![varlist_find(q, name)] = Var(name, str)]
  ELSE Append(q, Var(name, str))

\* What comes behind the variable goes too.
varlist_unset_Rest(q, name) ==
  IF IsSet(q, name) THEN SubSeq(q, 1, varlist_find(q, name) - 1) ELSE q
varlist_unset(q, name) ==
  IF IsSet(q, name) THEN RemoveAt(q, varlist_find(q, name)) ELSE q

-----------------------------------------------------------------------------
\* The names and values of a list, as its users see them.
Names(q) == {q[i].name : i \in DOMAIN q}
MapOf(q) == [n \in Names(q) |-> q[varlist_find(q, n)].str]
=============================================================================
