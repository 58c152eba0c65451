----------------------------- MODULE Tokenizer -----------------------------
(***************************************************************************)
(* The tokenizer, tokenizer.c: tok_next_token goes through a line, each    *)
(* turn of its loop by one of the numbered rules, and main.c puts what it  *)
(* finds into a queue.                                                     *)
(*                                                                         *)
(* A line is a sequence of characters.  A word that is special for no rule *)
(* can be one of them: "if" is a keyword written out.                      *)
(***************************************************************************)
EXTENDS Integers, FiniteSets, SequencesExt

CONSTANTS
  Digit, Letter,  \* characters: digits, and letters or runs of letters
  Keywords        \* what tok_match_keyword knows, as sequences of characters

VARIABLES
  phase,
  line,      \* what readline returned
  pos,       \* the next character
  start,     \* where the token under way begins
  tok,       \* its kind: "EOF" (none yet), "WORD" or "op"
  complete,  \* its last quotes or parentheses are closed
  queue      \* the tokens so far

lexer == <<pos, start, tok, complete>>

Operators ==
  { <<"&">>, <<"|">>, <<";">>, <<"<">>, <<">">>, <<"&", "&">>, <<"|", "|">>,
    <<";", ";">>, <<"<", "<">>, <<">", ">">>, <<"<", "&">>, <<">", "&">>,
    <<"<", ">">>, <<">", "|">>, <<"<", "<", "-">> }
IsIo(s) == s \in Operators /\ Head(s) \in {"<", ">"}
Quotes == {"'", "\"", "backquote"}
Blanks == {" ", "\t", "\r"}
Closing == [b \in {"{", "("} |-> IF b = "{" THEN "}" ELSE ")"]

\* The least of a set of places in a text, or what comes if there is none.
First(places, none) == IF places = {} THEN none ELSE Min(places)

\* Which characters of s from place i on have a backslash before them that has
\* none itself.
Escaped(s, i) ==
  LET esc[k \in i .. Len(s)] == k > i /\ s[k - 1] = "\\" /\ ~esc[k - 1]
  IN  esc

\* Where the quotes that open at place i of s are closed.
QuotesEnd(s, i) ==
  First({k \in i + 1 .. Len(s) : s[k] = s[i] /\ ~Escaped(s, i + 1)[k]}, Len(s) + 1)

\* Where the brace or parenthesis behind the $ at place i is closed: inner ones count.
GroupEnd(s, i) ==
  LET esc == Escaped(s, i + 2)
      depth[k \in i + 1 .. Len(s)] ==
        IF k = i + 1 THEN 1
        ELSE depth[k - 1] + (IF esc[k] THEN 0 ELSE IF s[k] = s[i + 1] THEN 1
                             ELSE IF s[k] = Closing[s[i + 1]] THEN -1 ELSE 0)
  IN  First({k \in i + 2 .. Len(s) : depth[k] = 0}, Len(s) + 1)

\* tok_match_keyword: the kind of a word, and those of its flags that are read.
Flags(s) ==
  LET unescaped(b) == \E k \in DOMAIN s : s[k] = b /\ ~Escaped(s, 1)[k]
      all(set) == \A k \in DOMAIN s : s[k] \in set
  IN  (IF all(Digit) THEN {"NUMERIC"} ELSE {})
      \cup (IF all(Digit \cup Letter \cup {"_"}) /\ s[1] \notin Digit THEN {"IDENT"} ELSE {})
      \cup (IF unescaped("=") THEN {"ASSIGNMENT"} ELSE {})

-----------------------------------------------------------------------------
(* tok_expand_and_enqueue *)

Token(t, s, fl, closed) ==
  [tok |-> t, str |-> s, keyword |-> t = "WORD" /\ s \in Keywords, flags |-> fl, complete |-> closed]

\* The number is one although something is between it and the operator.
Enqueued_AnyNumber(q, token) ==
  LET numbered == IsIo(token.str) /\ q # << >> /\ \A k \in DOMAIN Last(q).str : Last(q).str[k] \in Digit
  IN  Append(IF numbered THEN [q EXCEPT ![Len(q)].tok = "IO_NUMBER"] ELSE q, token)
\* A number in front of an io operator becomes an io number.
Enqueued(q, token) ==
  LET numbered == token.tok = "op" /\ IsIo(token.str) /\ q # << >> /\ "NUMERIC" \in Last(q).flags
  IN  Append(IF numbered THEN [q EXCEPT ![Len(q)].tok = "IO_NUMBER"] ELSE q, token)

\* The end of tok_next_token: the token ends before place end.  A number that a
\* blank follows is no io number.
EndToken(t, from, end) ==
  LET s == SubSeq(line, from, end - 1)
      blank == end <= Len(line) /\ line[end] \in Blanks
      fl == IF t # "WORD" \/ s \in Keywords THEN {}
            ELSE IF blank THEN Flags(s) \ {"NUMERIC"} ELSE Flags(s)
  IN  /\ queue' = Enqueued(queue, Token(t, s, fl, complete))
      /\ pos' = end /\ start' = end /\ tok' = "EOF" /\ complete' = TRUE

-----------------------------------------------------------------------------
(* tok_next_token *)

here == line[pos]
more == phase = "lex" /\ pos <= Len(line)

\* The character goes to the token, which begins here if there is none.
Advance(t, end) ==
  /\ tok' = t /\ pos' = end
  /\ start' = IF tok = "EOF" THEN pos ELSE start
  /\ UNCHANGED <<phase, line, queue>>

Grows == tok = "op" /\ here # "\\" /\ SubSeq(line, start, pos) \in Operators

\* Rule 2.
LongerOperator ==
  /\ more /\ Grows
  /\ Advance("op", pos + 1) /\ UNCHANGED complete

\* Rule 4: a backslash and what it protects.
Backslash ==
  /\ more /\ tok # "op" /\ here = "\\"
  /\ Advance("WORD", IF pos < Len(line) THEN pos + 2 ELSE pos + 1)
  /\ UNCHANGED complete

\* The place behind the quotes is taken although nothing is there.
Quoted_Behind ==
  /\ more /\ tok # "op" /\ here \in Quotes
  /\ Advance("WORD", QuotesEnd(line, pos) + 1)
  /\ complete' = (QuotesEnd(line, pos) <= Len(line))
\* Rule 4: quotes, or what is left of the line.
Quoted ==
  /\ more /\ tok # "op" /\ here \in Quotes
  /\ LET end == QuotesEnd(line, pos)
     IN  /\ Advance("WORD", IF end <= Len(line) THEN end + 1 ELSE end)
         /\ complete' = (end <= Len(line))

\* Rule 5: a $ with its braces or parentheses.
Dollar ==
  /\ more /\ tok # "op" /\ here = "$"
  /\ LET next == IF pos < Len(line) THEN line[pos + 1] ELSE "end"
         end == GroupEnd(line, pos)
     IN  IF next \in DOMAIN Closing
         THEN /\ Advance("WORD", IF end <= Len(line) THEN end + 1 ELSE end)
              /\ complete' = (end <= Len(line))
         ELSE /\ Advance("WORD", IF next = "#" THEN pos + 2 ELSE pos + 1)
              /\ UNCHANGED complete

\* What ends a word: rules 6, 7, 8 and 10.
Delimiter == {Head(s) : s \in Operators} \cup Blanks \cup {"\n", "#", "(", ")"}

\* Rule 6.
OperatorStart ==
  /\ more /\ tok = "EOF" /\ <<here>> \in Operators
  /\ Advance("op", pos + 1) /\ UNCHANGED complete

\* Rule 7, and the parentheses: tokens of one character.
Newline ==
  /\ more /\ tok = "EOF" /\ here = "\n"
  /\ EndToken("NEWLINE", pos, pos + 1) /\ UNCHANGED <<phase, line>>
Parenthesis ==
  /\ more /\ tok = "EOF" /\ here \in {"(", ")"}
  /\ EndToken(here, pos, pos + 1) /\ UNCHANGED <<phase, line>>

\* Rule 8.
Blank ==
  /\ more /\ tok = "EOF" /\ here \in Blanks
  /\ pos' = pos + 1 /\ UNCHANGED <<phase, line, start, tok, complete, queue>>

\* The character that begins a comment is not passed.
Comment_Stays ==
  /\ more /\ tok = "EOF" /\ here = "#"
  /\ pos' = First({k \in pos .. Len(line) : line[k] = "\n"}, pos)
  /\ UNCHANGED <<phase, line, start, tok, complete, queue>>
\* Rule 10.
Comment ==
  /\ more /\ tok = "EOF" /\ here = "#"
  /\ pos' = First({k \in pos .. Len(line) : line[k] = "\n"}, Len(line) + 1)
  /\ UNCHANGED <<phase, line, start, tok, complete, queue>>

\* Rules 9 and 11.
Plain ==
  /\ more /\ tok # "op" /\ here \notin Delimiter \cup Quotes \cup {"\\", "$"}
  /\ Advance("WORD", pos + 1) /\ UNCHANGED complete

\* A token ends before this character, or with the line: rules 1, 3, 6, 7, 8 and 10.
Delimit ==
  /\ phase = "lex" /\ tok # "EOF"
  /\ pos <= Len(line) => IF tok = "op" THEN ~Grows ELSE here \in Delimiter
  /\ EndToken(tok, start, pos) /\ UNCHANGED <<phase, line>>

\* T_EOF is put into the queue as well, with the blanks and the comment before it as
\* its text, which nothing reads.
LineEnd ==
  /\ phase = "lex" /\ tok = "EOF" /\ pos > Len(line)
  /\ EndToken("EOF", start, pos) /\ phase' = "parse" /\ UNCHANGED line

\* The text of a token that is no word is copied to memory as long as what stands in
\* a buffer not yet written.  The least that malloc gives holds each operator and
\* keyword; a comment may be longer.
LineEndOverruns ==
  /\ phase = "lex" /\ tok = "EOF" /\ pos > Len(line) /\ start < pos
  /\ phase' = "undefined" /\ UNCHANGED <<line, lexer, queue>>

tok_next_token ==
  \/ LongerOperator \/ Backslash \/ Quoted \/ Dollar \/ OperatorStart \/ Newline
  \/ Parenthesis \/ Blank \/ Comment \/ Plain \/ Delimit \/ LineEnd
  \/ LineEndOverruns
=============================================================================
