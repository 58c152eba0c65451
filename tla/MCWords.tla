------------------------------ MODULE MCWords ------------------------------
(* Lines over small alphabets for the tokenizer, and sessions of lines put  *)
(* together from pieces for assignments, substitution and export.           *)
EXTENDS WordsMeaning

UpTo(n, chars) == UNION {[1 .. k -> chars] : k \in 1 .. n}
Joined(n, pieces) == {FlattenSeq(p) : p \in UpTo(n, pieces)}
OneValue == <<"a">> :> <<"1">>
Referring == <<"a">> :> <<"1">> @@ <<"b">> :> <<"$", "a">>
Spaced == <<"a">> :> <<"1", " ", "2">>
Alone(lines, env) == {[environ |-> env, lines |-> <<l>>] : l \in lines}

MCDigit == {"1", "2"}
MCLetter == {"a", "b", "if", "export", "unexport"}
MCKeywords == {<<"if">>, <<"!">>, <<"{">>, <<"}">>}

OperatorLines == UpTo(4, {"<", ">", "-", "&", "2", "\\", " "})
QuotedLines   == UpTo(5, {"a", "'", "\"", "\\"})
DollarLines   == {<<"$">> \o l : l \in UpTo(4, {"$", "{", "(", ")", "#", "\\"})}
OtherLines    == UpTo(4, {"if", "!", "#", "\n", "(", ";", "backquote"})

Pieces == { <<"a">>, <<"$", "a">>, <<"$", "{", "a", "}">>, <<"$", "(", "(", "1", "+", "$", "a", ")", ")">>,
            <<"$", "*">>, <<"'">>, <<"\"">>, <<"\\">>, <<"$">>, <<" ">> }
Nested == { <<"$", "a">>, <<"'">>, <<"\"">>, <<"\\">>, <<"$", "{", "a", "}">> }
Splittable == { <<"a">>, <<"$", "a">>, <<"$", "{", "a", "}">>, <<"\"">>, <<"b", "=">> }
Commands == { <<"a", "=", "$", "b">>, <<"b", "=">>, <<"b", "=", "'", "$", "a", "'">>, <<"a", "=", "\"", "\"">>,
              <<"export", " ", "a", "=", "2">>, <<"export", " ", "b", "=", "$", "a">>,
              <<"export", " ", "a", "=">>, <<"export", " ", "a">>, <<"export">>,
              <<"unexport", " ", "a">>, <<"unexport", " ", "a", "=">>, <<"unexport", " ", "'", "'">>, <<"export", " ", "=", "1">>, <<"=", "1">>, << >>,
              <<"b", "=", "$", "{", "a">>, <<"a", "=", "$", "(", "(", "a", ")", ")", " ", "export", " ", "a">> }
Histories == {[environ |-> Referring, lines |-> h] : h \in [1 .. 3 -> Commands]}

NoEnviron == [n \in {} |-> n]
MCSessions ==
  Alone(OperatorLines \cup QuotedLines \cup DollarLines \cup OtherLines, NoEnviron)
  \cup Alone(Joined(3, Pieces) \cup Joined(5, Nested), OneValue)
  \cup Alone(Joined(4, Splittable), Spaced) \cup Histories

MCFixed == "?" :> <<"1">> @@ "$" :> <<"2">> @@ "0" :> <<"a">>

\* Sums of 1 and 2, and a trap.
MCEvaluate(s) ==
  IF s \in {<<"1">>, <<"2">>} THEN [is |-> "ok", s |-> s]
  ELSE IF s = <<"1", "+", "1">> THEN [is |-> "ok", s |-> <<"2">>]
  ELSE IF s = <<"a">> THEN [is |-> "killed", s |-> << >>]
  ELSE [is |-> "error", s |-> <<"0">>]

MCPS1 == <<"PS1">>
MCPrompt == <<"\\", "$">>
=============================================================================
