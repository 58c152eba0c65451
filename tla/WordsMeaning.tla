---------------------------- MODULE WordsMeaning ----------------------------
(***************************************************************************)
(* What a line of words means: which characters belong together follows    *)
(* from the quotes and brackets around each of them, and what a word comes *)
(* to is read off it once from left to right, with every value put in as   *)
(* it is.                                                                  *)
(***************************************************************************)
EXTENDS Words

\* What a character does to the quotes and brackets it stands in.
Outside == [in |-> "", esc |-> FALSE, depth |-> 0]
Inside(b) == [in |-> b, esc |-> FALSE, depth |-> 1]
After(m, x) ==
  IF m.in = "#" THEN IF x = "\n" THEN Outside ELSE m
  ELSE IF m.esc THEN [m EXCEPT !.esc = FALSE]
  ELSE IF m.in = "$" /\ x \in DOMAIN Closing THEN Inside(x)
  ELSE IF m.in = "$" /\ x = "#" THEN Outside
  ELSE IF x = "\\" THEN [m EXCEPT !.esc = TRUE, !.in = IF @ = "$" THEN "" ELSE @]
  ELSE IF m.in \in {"", "$"} THEN IF x \in Quotes \cup {"$", "#"} THEN Inside(x) ELSE Outside
  ELSE IF m.in \in Quotes THEN IF x = m.in THEN Outside ELSE m
  ELSE IF x = m.in THEN [m EXCEPT !.depth = @ + 1]
  ELSE IF x = Closing[m.in] THEN IF m.depth = 1 THEN Outside ELSE [m EXCEPT !.depth = @ - 1]
  ELSE m

\* What each character of s is part of.
Parts(s) ==
  LET before[k \in DOMAIN s] == IF k = 1 THEN Outside ELSE After(before[k - 1], s[k - 1])
      protected(m, x) ==
        m.esc \/ m.in \in Quotes \cup DOMAIN Closing \/ (m.in = "$" /\ x \in {"#"} \cup DOMAIN Closing)
  IN  [k \in DOMAIN s |->
        IF before[k].in = "#" /\ s[k] # "\n" THEN "nothing"
        ELSE IF protected(before[k], s[k]) \/ s[k] \notin Delimiter THEN "word"
        ELSE IF <<s[k]>> \in Operators THEN "op"
        ELSE IF s[k] \in {"\n", "(", ")"} THEN "single" ELSE "nothing"]

RECURSIVE TokensFrom(_, _, _)
\* The tokens of s from place k on: words and operators as long as they can be.
TokensFrom(s, parts, k) ==
  LET word(e) == \A j \in k .. e : parts[j] = "word"
      operator(e) == SubSeq(s, k, e) \in Operators
      end == Max({e \in k .. Len(s) : IF parts[k] = "word" THEN word(e)
                                      ELSE IF parts[k] = "op" THEN operator(e) ELSE e = k})
      str == SubSeq(s, k, end)
      number == Range(str) \subseteq Digit /\ end < Len(s) /\ parts[end + 1] = "op"
                /\ s[end + 1] \in {"<", ">"}
      kind == IF parts[k] = "word" THEN IF number THEN "IO_NUMBER" ELSE "WORD"
              ELSE IF parts[k] = "op" THEN "op" ELSE IF str = <<"\n">> THEN "NEWLINE" ELSE s[k]
  IN  IF Range(SubSeq(parts, k, Len(s))) \subseteq {"nothing"}
      THEN <<[tok |-> "EOF", str |-> SubSeq(s, k, Len(s))]>>
      ELSE IF parts[k] = "nothing" THEN TokensFrom(s, parts, k + 1)
      ELSE <<[tok |-> kind, str |-> str]>> \o TokensFrom(s, parts, end + 1)

-----------------------------------------------------------------------------
\* Texts whose characters mean themselves.
Ordinary(v) == Range(v) \cap ({"\\", "$", "(", ")", "{", "}"} \cup Quotes) = {}

\* What separates fields.
Separators == {" ", "\t", "\n"}

RECURSIVE Meant(_, _, _)
\* What s, in quotes of the kind open, comes to; splits says that values outside of
\* quotes are to be split into fields.  A text is odd if it has no meaning, or a part
\* whose meaning nobody promised or that is promised and missing: a value that is
\* not ordinary, a value to be split (tokenizer.c:511 has field splitting "done
\* elsewhere", and it is nowhere), apostrophes in double quotes, pairs of backslashes
\* in quotes, backquotes, and brackets with more than names, digits and signs.
Meant(s, open, splits) ==
  LET x == s[1]
      y == IF Len(s) > 1 THEN s[2] ELSE "end"
      odd == [s |-> << >>, odd |-> TRUE]
      then(out, n) == LET r == Meant(SubSeq(s, n + 1, Len(s)), open, splits)
                      IN  [r EXCEPT !.s = out \o @]
      split(v) == splits /\ open = "" /\ Range(v) \cap Separators # {}
      value(v, n) == IF Ordinary(v) /\ ~split(v) THEN then(v, n) ELSE odd
      name == First({k \in 2 .. Len(s) : s[k] \notin Identifier}, Len(s) + 1)
      close == IF y \in DOMAIN Closing
               THEN First({k \in 3 .. Len(s) : s[k] = Closing[y]}, 0) ELSE 0
      inner == SubSeq(s, IF Opens(s, 2, <<"(", "(">>) THEN 4 ELSE 3, close - 1)
      expression == Evaluate(Meant(inner, "", FALSE).s)
      bracketed ==
        IF close = 0 \/ ~(Range(inner) \subseteq Identifier \cup {"$", "+", " "}) THEN odd
        ELSE IF y = "{" THEN IF Range(inner) \subseteq Identifier
                             THEN value(Value(inner), close) ELSE odd
        ELSE IF ~Opens(s, 2, <<"(", "(">>) THEN then(<< >>, close)
        ELSE IF ~Opens(s, close, <<")", ")">>) \/ expression.is = "killed" THEN odd
        ELSE then(expression.s, close + 1)
  IN  IF s = << >> THEN [s |-> << >>, odd |-> open # ""]
      ELSE IF x = open THEN Meant(Tail(s), "", splits)
      ELSE IF x = "\\"
      THEN IF open = "" THEN then(IF y = "end" THEN << >> ELSE <<y>>, 2)
           ELSE IF y = open THEN then(<<y>>, 2)
           ELSE IF y \in {"\\", "end"} THEN odd
           ELSE IF open = "'" THEN then(<<x>>, 1) ELSE then(<<x, y>>, 2)
      ELSE IF open = "'" THEN then(<<x>>, 1)
      ELSE IF x = "backquote" \/ (open # "" /\ x = "'") THEN odd
      ELSE IF x \in Quotes THEN Meant(Tail(s), x, splits)
      ELSE IF x # "$" THEN then(<<x>>, 1)
      ELSE IF y \in Letter \cup {"_"} THEN value(Value(SubSeq(s, 2, name - 1)), name - 1)
      ELSE IF y \in Parameters THEN value(Parameter(y), 2)
      ELSE IF y \in DOMAIN Closing THEN bracketed
      ELSE then(<<x>>, 1)

-----------------------------------------------------------------------------
(* Properties *)

\* A line is cut where its quotes, brackets, operators, blanks and comments say,
\* and a number is an io number if and only if it touches a < or > behind it.
TokensAsWritten ==
  phase = "parse" =>
    [k \in DOMAIN queue |-> [tok |-> queue[k].tok, str |-> queue[k].str]]
      = TokensFrom(line, Parts(line), 1)

\* A word becomes the one argument, and an assignment gives the variable the value,
\* that the text means with the variables as they are.  Left out are the words that
\* field splitting would make several arguments of, or none.
ArgumentsAsMeant ==
  [][Substituted /\ back = "words" /\ token.complete =>
       IF IsAssignment
       THEN LET m == Meant(RawOf(token.str), "", FALSE)
            IN  ~m.odd => ValueIn(var_q', NameOf(token.str)) = m.s
       ELSE LET m == Meant(token.str, "", TRUE)
                one == m.s # << >> \/ Range(token.str) \cap Quotes # {}
            IN  ~m.odd /\ one => args' = Append(args, m.s)]_vars

\* After an export of an ordinary value, the shell and its children have the
\* same; after an unexport, neither has the name.  The empty name, which export =1
\* puts into the environment, is one that unsetenv refuses.
ExportsReachBoth ==
  [][phase' = "prompt" /\ phase \in {"run", "substitute"} /\ Len(args) > 1 =>
       /\ (args[1] = <<"export">> /\ Assigns(args[2]) /\ Ordinary(RawOf(args[2])))
            => environ'[NameOf(args[2])] = ValueIn(var_q', NameOf(args[2]))
       /\ args[1] = <<"unexport">> /\ args[2] # << >>
            => args[2] \notin DOMAIN environ' \cup Names(var_q')]_vars

\* Every line is dealt with.
LinesEnd == <>(phase \in {"done", "undefined"})
=============================================================================
