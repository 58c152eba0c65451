---------------------------- MODULE GrammarText ----------------------------
(***************************************************************************)
(* What the tree of a line says, written as a line again: the inverse of   *)
(* the parser, for the lines it has no error for.                          *)
(***************************************************************************)
EXTENDS Grammar

RECURSIVE Text(_)

\* The line below node i.
Text(i) ==
  LET k     == tree[i].kind
      ks    == Kids(i)
      kinds == Kinds(ks)
      nothing(n)   == << >>
      each(pre(_), post(_)) == FlattenSeq([n \in DOMAIN ks |-> pre(n) \o Text(ks[n]) \o post(n)])
      ended(texts) == each(nothing, LAMBDA n : IF n \in DOMAIN texts THEN texts[n] ELSE << >>)
      \* the mark stands between two nodes of that kind
      marked(mark, kind) ==
        each(nothing, LAMBDA n : IF kinds[n] = kind /\ n < Len(ks) /\ kinds[n + 1] = kind
                                 THEN <<mark>> ELSE << >>)
      \* braces are not in the tree: a list that is a command of its own had them
      braced(post(_)) ==
        each(LAMBDA n : IF kinds[n] = "compound" THEN <<"{">> ELSE << >>,
             LAMBDA n : IF kinds[n] = "compound" THEN <<"}">> ELSE post(n))
      loop(n) == CASE n = Len(ks) -> <<"done">>
                   [] n = Len(ks) - 1 -> IF n = 1 THEN <<"do">> ELSE <<";", "do">>
                   [] OTHER -> << >>
  IN  CASE k = "and_if"   -> <<"&&">> \o ended(<< >>)
        [] k = "or_if"    -> <<"||">> \o ended(<< >>)
        [] k = "bang"     -> <<"!">> \o ended(<< >>)
        [] k = "pipeline" -> marked("|", "command")
        [] k \in {"list", "compound"} -> marked(";", "andor")
        [] k = "command"  -> braced(nothing)
        [] k = "function" -> <<k>> \o braced(LAMBDA n : IF n = 1 THEN <<"(", ")">> ELSE << >>)
        [] k = "subshell" -> <<"(">> \o ended(<< >>) \o <<")">>
        [] k \in {"while", "until"} -> <<k>> \o ended(<<<<"do">>, <<"done">>>>)
        [] k = "for"      -> <<k>> \o each(nothing, loop)
        [] k = "case"     -> <<k>> \o marked(";;", "caseitem") \o <<"esac">>
        [] k = "pattern"  -> marked("|", "word") \o <<")">>
        [] k = "if"       -> <<k>> \o ended(<<<<"then">>>>) \o <<"fi">>
        [] k \in {"elif", "else"} -> <<k>> \o ended(IF k = "elif" THEN <<<<"then">>>> ELSE << >>)
        [] k \in {"root", "andor", "simple", "redirect", "caseitem"} -> ended(<< >>)
        [] OTHER          -> <<IF tree[i].text = "" THEN k ELSE tree[i].text>>

\* What a line and its tree may differ in: the line break and a last ";;".
Normal(ln) ==
  LET kept(n) == ln[n] # "newline" /\ ~(ln[n] = ";;" /\ n < Len(ln) /\ ln[n + 1] = "esac")
      at == SelectSeq([n \in DOMAIN ln |-> n], kept)
  IN  [n \in DOMAIN at |-> ln[at[n]]]

\* The tree of a line without an error says what the line says: every token
\* the parser took is in the tree, at its place and below the right node, so
\* that the tree written as a line is the line again.
TreeSaysLine == todo = << >> /\ ~err_occured => Text(1) = Normal(line)

=============================================================================
