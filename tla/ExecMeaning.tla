---------------------------- MODULE ExecMeaning -----------------------------
(***************************************************************************)
(* What a tree means: the walk of Exec, told as an evaluation that takes   *)
(* the outcomes in log one by one.  Structured like the language and not   *)
(* like execute: no stack, no iterators, no shared flag.                   *)
(***************************************************************************)
EXTENDS Exec

(* An evaluation in progress: $?, the control variable, the number of      *)
(* events used up and how it stands: "closed" all done so far, "open" out  *)
(* of events, "wrong" the log has another event than the tree calls for.   *)
Began == [st |-> start.res, item |-> start.item, i |-> 0, is |-> "closed"]

EventIs(r, what, n, bg) ==
  LET e == log[r.i + 1]
  IN  e.what = what /\ e.n = n /\ e.bg = bg /\ e.item = r.item /\ e.res = r.st

\* Use up the next event, which has to be of node n and one of these kinds.
Take(r, whats, n, bg) ==
  IF r.is # "closed" THEN r
  ELSE IF r.i = Len(log) THEN [r EXCEPT !.is = "open"]
  ELSE [r EXCEPT !.i = @ + 1,
                 !.is = IF \E w \in whats : EventIs(r, w, n, bg) THEN "closed" ELSE "wrong"]

\* The event used up last, and its outcome when that is one number.
Last1(r) == log[r.i]
Value(r) == CHOOSE v \in Last1(r).val : TRUE
Closed(r) == r.is = "closed"

RECURSIVE Means(_, _, _), MeansIf(_, _, _, _), MeansLoop(_, _, _, _), MeansValues(_, _, _, _)

\* Nodes in turn, each behind the '&' that may follow it.
InTurn(ns, bg, r) ==
  FoldLeftDomain(LAMBDA acc, i :
      Means(ns[i], bg \/ (i < Len(ns) /\ kind(ns[i + 1]) = "&"), acc), r, ns)

\* The list with index g of the for node n, once for each rank from k down.
MeansValues(n, word, k, s) ==
  IF k = 0 \/ ~Closed(s.r) THEN s.r
  ELSE MeansValues(n, word, k - 1,
         [s EXCEPT !.r = Means(s.group, s.bg, [s.r EXCEPT !.item = <<word, k>>])])

\* if: the conditions in turn until one holds; its list.
MeansIf(clauses, i, bg, r) ==
  IF i > Len(clauses) THEN r
  ELSE LET c == clauses[i]
           test == Means(c.cond, bg, r)
       IN  IF c.cond = 0 THEN Means(c.then, bg, r)
           ELSE IF ~Closed(test) THEN test
           ELSE IF test.st = 0 THEN Means(c.then, bg, test)
           ELSE MeansIf(clauses, i + 1, bg, test)

\* while and until: a round that uses no event goes on for ever.
MeansLoop(n, goOn, bg, r) ==
  LET test == Means(kids(n)[1], bg, r)
      body == Means(kids(n)[2], bg, test)
  IN  IF ~Closed(test) \/ (test.st = 0) # goOn THEN test
      ELSE IF ~Closed(body) THEN body
      ELSE IF body.i = r.i THEN [r EXCEPT !.is = "open"]
      ELSE MeansLoop(n, goOn, bg, body)

\* for: the words in turn, each with its values; the shell has no arguments.
MeansFor(n, bg, r) ==
  LET group == Last(kids(n))
      values(word, k, s) == MeansValues(n, word, k, [r |-> s, group |-> group, bg |-> bg])
      word(s, i) ==
        LET e == Take(s, {"expand"}, n, bg)
        IN  IF ~Closed(e) THEN e
            ELSE IF Value(e) = 0 THEN Means(group, bg, e)
            ELSE values(i, Value(e), e)
  IN  IF kind(kids(n)[2]) = "in"
      THEN FoldLeft(word, r, [j \in 1 .. Len(kids(n)) - 3 |-> j + 2])
      ELSE r

\* case: the list of the first item that matches.
MeansCase(n, bg, r) ==
  LET e == Take(r, {"match"}, n, bg)
  IN  IF ~Closed(e) \/ Last1(e).val = {} THEN e
      ELSE LET m == kids(n)[Min(Last1(e).val)]
           IN  InTurn(Tail(kids(m)), bg, e)

Clauses(n) ==
  LET clause(m) == IF kind(m) = "else" THEN [cond |-> 0, then |-> kids(m)[1]]
                   ELSE [cond |-> kids(m)[1], then |-> kids(m)[2]]
  IN  <<clause(n)>> \o [i \in 1 .. Len(kids(n)) - 2 |-> clause(kids(n)[i + 2])]

Means(n, bg, r) ==
  LET zero == [r EXCEPT !.st = 0] IN
  CASE ~Closed(r) -> r
    [] Closed(r) /\ kind(n) = "simple" ->
         LET e == Take(r, {"run"}, n, bg)
         IN  IF Closed(e) THEN [e EXCEPT !.st = Value(e)] ELSE e
    [] Closed(r) /\ kind(n) = "subshell" /\ n # start.top ->
         LET e == Take(r, {"sub", "nofork"}, n, bg)
         IN  IF Closed(e) /\ Last1(e).what = "sub" THEN [e EXCEPT !.st = Value(e)] ELSE e
    [] Closed(r) /\ kind(n) = "bang" ->
         LET s == InTurn(kids(n), bg, r)
         IN  IF Closed(s) THEN [s EXCEPT !.st = IF @ = 0 THEN 1 ELSE 0] ELSE s
    [] Closed(r) /\ kind(n) \in {"and_if", "or_if"} ->
         IF (r.st = 0) = (kind(n) = "and_if") THEN InTurn(kids(n), bg, r) ELSE r
    [] Closed(r) /\ kind(n) = "if" -> MeansIf(Clauses(n), 1, bg, zero)
    [] Closed(r) /\ kind(n) = "while" -> MeansLoop(n, TRUE, bg, zero)
    [] Closed(r) /\ kind(n) = "until" -> MeansLoop(n, FALSE, bg, zero)
    [] Closed(r) /\ kind(n) = "for" -> MeansFor(n, bg, zero)
    [] Closed(r) /\ kind(n) = "case" -> MeansCase(n, bg, zero)
    [] Closed(r) /\ kind(n) \in {"function", "redirect"} -> r
    [] OTHER -> InTurn(kids(n), bg, r)

\* The commands of a line run in the order its tree calls for, each under the
\* background flag, the control variable and the $? the tree gives it, and when
\* a process has nothing left to do it has done all of it and $? is the status
\* of the whole: execute with its frames, iterators and the one flag computes
\* what the tree means, unless it gave up on it.
RunsAsMeant ==
  LET r == Means(start.top, start.background, Began)
  IN  reported \subseteq {"unable to run"} =>
        /\ r.is # "wrong"
        /\ stack = << >> => r.is = "closed" /\ r.i = Len(log) /\ r.st = last_res

=============================================================================
