---------------------------- MODULE ExprMeaning ----------------------------
(***************************************************************************)
(* What an expression means: tokens as long as possible, and for each      *)
(* interval of tokens the last operator of the weakest level outside of    *)
(* parentheses is applied last.  No look-ahead and no stack.               *)
(***************************************************************************)
EXTENDS Expr, FiniteSets

RECURSIVE Scanned(_)
\* The tokens of a text, with "error" for what is none.
Scanned(s) ==
  LET c == s[1]
      ends == {k \in DOMAIN s : \A m \in 1 .. k : s[m] \in DOMAIN Digits}
      n == CHOOSE k \in ends : k + 1 \notin ends
      value[k \in 0 .. n] == IF k = 0 THEN 0 ELSE Wrap(value[k - 1] * 10 + Digits[s[k]])
      then(tok, x, len) == <<[tok |-> tok, val |-> x]>> \o Scanned(SubSeq(s, len + 1, Len(s)))
  IN  IF s = << >> THEN << >>
      ELSE IF c \in DOMAIN Digits THEN then("number", value[n], n)
      ELSE IF c \in Blanks THEN Scanned(Tail(s))
      ELSE IF c \in DOMAIN Doubled /\ Len(s) > 1 /\ s[2] = c THEN then(Doubled[c], 0, 2)
      ELSE IF c = "*" \/ c \in Singles THEN then(c, 0, 1)
      ELSE then("error", 0, 1)

\* An operator between two operands, outside of parentheses, follows a number
\* or a closing parenthesis.
Between(ts, k) ==
  LET Count(x) == Cardinality({m \in 1 .. k : ts[m].tok = x})
  IN  k > 1 /\ ts[k - 1].tok \in {"number", ")"} /\ Count("(") = Count(")")

\* A meaning is an int, or "wrong" if the text cannot be read, "zero" after a
\* division by zero, "killed" after one that traps, and "open" where C leaves
\* the value to the machine.
Value(n) == [is |-> "int", n |-> n]
Other(w) == [is |-> w, n |-> 0]

Combined(op, x, y) ==
  LET worst == {w \in {"wrong", "zero", "killed", "open"} : w \in {x.is, y.is}}
  IN  IF worst # {} THEN
        Other(CASE "wrong" \in worst -> "wrong" [] "zero" \in worst -> "zero"
                [] "killed" \in worst -> "killed" [] OTHER -> "open")
      ELSE IF DividesByZero(op, y.n) THEN Other("zero")
      ELSE IF Traps(op, x.n, y.n) THEN Other("killed")
      ELSE IF op \in {"<<", ">>"} /\ y.n \notin 0 .. Width - 1 THEN Other("open")
      ELSE Value(CHOOSE r \in Results(op, x.n, y.n) : TRUE)

RECURSIVE Meaning(_, _)
\* The tokens ts, read at level l.
Meaning(ts, l) ==
  LET last == Len(ts)
      splits == {k \in DOMAIN ts : ts[k].tok \in Level[l] /\ Between(ts, k)}
      k == CHOOSE x \in splits : \A y \in splits : y <= x
      inner == Meaning(Tail(ts), 8)
  IN  IF ts = << >> THEN Other("wrong")
      ELSE IF l <= 6
      THEN IF splits = {} THEN Meaning(ts, l + 1)
           ELSE Combined(ts[k].tok, Meaning(SubSeq(ts, 1, k - 1), l),
                                    Meaning(SubSeq(ts, k + 1, last), l + 1))
      ELSE IF l = 7
      THEN IF ts[1].tok \notin Unary THEN Meaning(ts, 8)
           ELSE IF inner.is = "int" THEN Value(Negated(ts[1].tok, inner.n)) ELSE inner
      ELSE IF last = 1 /\ ts[1].tok = "number" THEN Value(ts[1].val)
      ELSE IF last > 2 /\ ts[1].tok = "(" /\ ts[last].tok = ")"
           THEN Meaning(SubSeq(ts, 2, last - 1), 1)
      ELSE Other("wrong")

-----------------------------------------------------------------------------
(* Properties *)

\* A text gets the value its operators and parentheses give it, and an error if
\* it has none; the shell is killed by a quotient that is no int only.
ValueAsWritten ==
  phase \in {"done", "killed"} =>
    LET m == Meaning(Scanned(text), 1)
    IN  /\ m.is = "int" => phase = "done" /\ ~err_occured /\ res = m.n
        /\ m.is = "killed" => phase = "killed"
        /\ m.is \in {"wrong", "zero"} /\ phase = "done" => err_occured /\ res = 0

\* Every evaluation ends.
EvalEnds == <>(phase \in {"done", "killed"})
=============================================================================
