------------------------------- MODULE VarMap -------------------------------
(***************************************************************************)
(* What the shell's variables are to their users: each name that is set    *)
(* has one value.  A step sets a variable or unsets one.                   *)
(***************************************************************************)
VARIABLE map  \* from the names that are set to their values

Init == map = [n \in {} |-> n]

Set == \E n \in DOMAIN map' :
  map' = [m \in DOMAIN map \cup {n} |-> IF m = n THEN map'[n] ELSE map[m]]

Unset == \E n \in DOMAIN map : map' = [m \in DOMAIN map \ {n} |-> map[m]]

Spec == Init /\ [][Set \/ Unset]_map
=============================================================================
