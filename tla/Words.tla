------------------------------- MODULE Words -------------------------------
(***************************************************************************)
(* From a line of words to the arguments of a command, main.c: a line is   *)
(* cut into tokens, its assignments change the variables, its words are    *)
(* substituted and lose their quotes, and export and unexport change the   *)
(* environment.  The words that file names are generated from are those    *)
(* of FileNames: here none fits.                                           *)
(*                                                                         *)
(* do_substitution goes through its text three times.  A pass is one step, *)
(* a function of the place in the text; it ends "ok", or "null" after an   *)
(* error, "overrun" when it reads on behind the end of the text, or        *)
(* "killed" by the arithmetic.                                             *)
(***************************************************************************)
EXTENDS Tokenizer, Vars

CONSTANTS
  Sessions,     \* what the shell is started with: environ, and the lines to be typed
  Fixed,        \* what $? $$ and $0 stand for
  Evaluate(_),  \* what eval_expr makes of a text: [is |-> "ok", "error" or "killed", s |-> digits]
  PS1, Prompt   \* the name and the value of a variable the shell sets

ASSUME SessionsAssumption ==
  \A s \in Sessions : /\ s.lines \in Seq(Range(s.lines))
                      /\ \A l \in Range(s.lines) : l \in Seq(Range(l))

VARIABLES
  session,               \* the lines to come
  var_q,                 \* the list of variables
  environ,               \* what a child gets: the names that are set and their values
  imports,               \* start-up: the names of environ to go
  args,                  \* sy_argv
  text,                  \* do_substitution: what there is of the result
  pass,                  \* and the next of its three passes
  target,                \* the variable that gets it, or no name for an argument
  back,                  \* the phase to go on with
  err_occured, ignore    \* the latch of error()

latch == <<err_occured, ignore>>
subst == <<text, pass, target, back>>
vars == <<phase, line, lexer, queue, session, var_q, environ, imports, args, subst, latch>>

VM == INSTANCE VarMap WITH map <- MapOf(var_q)

-----------------------------------------------------------------------------
(* do_substitution *)

Identifier == Digit \cup Letter \cup {"_"}

Piece(out, next) == [is |-> "ok", out |-> out, next |-> next, evals |-> << >>]
Stop(w)          == [is |-> w, out |-> << >>, next |-> 0, evals |-> << >>]

\* The text s, piece by piece from the front.
Passed(s, PieceAt(_, _)) ==
  LET from[i \in 1 .. Len(s) + 2] ==
        IF i = Len(s) + 1 THEN Piece(<< >>, i)
        ELSE IF i > Len(s) THEN Stop("overrun")
        ELSE LET p == PieceAt(s, i)
                 rest == from[p.next]
             IN  IF p.is # "ok" THEN p
                 ELSE [rest EXCEPT !.out = p.out \o @, !.evals = p.evals \o @]
  IN  from[1]

\* What follows a backslash or stands between single quotes is copied.  If the
\* quotes are not closed, the loop stops at the end of the text, and i++ passes it.
Copied(s, i) ==
  LET end == IF s[i] = "\\" THEN i + 1 ELSE QuotesEnd(s, i)
  IN  Piece(SubSeq(s, i, IF end <= Len(s) THEN end ELSE Len(s)),
            IF s[i] = "\\" /\ i = Len(s) THEN end ELSE end + 1)

ValueIn(q, name) == IF IsSet(q, name) THEN q[varlist_find(q, name)].str ELSE << >>
Value(name) == ValueIn(var_q, name)

\* numargs is never assigned and stays 0: $* and $1 to $9 give nothing.
Parameters == {"#", "?", "@", "*", "-", "!", "$", "0"} \cup Digit
Parameter(ch) ==
  IF ch = "#" THEN <<"0">> ELSE IF ch \in DOMAIN Fixed THEN Fixed[ch] ELSE << >>

\* $name and the parameters of one character, in a text s at place i.
FirstPass(s, i) ==
  LET next == IF i < Len(s) THEN s[i + 1] ELSE "end"
      end == First({k \in i + 1 .. Len(s) : s[k] \notin Identifier}, Len(s) + 1)
  IN  IF s[i] \in {"\\", "'"} THEN Copied(s, i)
      ELSE IF s[i] # "$" THEN Piece(<<s[i]>>, i + 1)
      ELSE IF next \in Letter \cup {"_"} THEN Piece(Value(SubSeq(s, i + 1, end - 1)), end)
      ELSE IF next \in Parameters THEN Piece(Parameter(next), i + 2)
      ELSE Piece(<<"$">>, i + 1)

Opens(s, i, bs) == i + Len(bs) - 1 <= Len(s) /\ SubSeq(s, i, i + Len(bs) - 1) = bs

\* ${name}
SecondPass(s, i) ==
  LET end == First({k \in i + 2 .. Len(s) : s[k] = "}"}, 0)
  IN  IF s[i] \in {"\\", "'"} THEN Copied(s, i)
      ELSE IF ~Opens(s, i, <<"$", "{">>) THEN Piece(<<s[i]>>, i + 1)
      ELSE IF end = 0 THEN Stop("null")
      ELSE Piece(Value(SubSeq(s, i + 2, end - 1)), end + 1)

\* $((expression)), and $(command), of which nothing is left.
ThirdPass(s, i) ==
  LET close  == First({k \in i + 2 .. Len(s) : s[k] = ")"}, 0)
      closes == First({k \in i + 3 .. Len(s) : Opens(s, k, <<")", ")">>)}, 0)
      value == Evaluate(SubSeq(s, i + 3, closes - 1))
  IN  IF s[i] \in {"\\", "'"} THEN Copied(s, i)
      ELSE IF ~Opens(s, i, <<"$", "(">>) THEN Piece(<<s[i]>>, i + 1)
      ELSE IF ~Opens(s, i, <<"$", "(", "(">>)
           THEN IF close = 0 THEN Stop("null") ELSE Piece(<< >>, close + 1)
      ELSE IF closes = 0 THEN Stop("null")
      ELSE IF value.is = "killed" THEN Stop("killed")
      ELSE [Piece(value.s, closes + 2) EXCEPT !.evals = <<value.is = "ok">>]

\* error() raises the flag for the first message only; eval_expr sets it for
\* what it evaluates.
Raise == err_occured' = (err_occured \/ ~ignore) /\ ignore' = TRUE

PassErrors(r) ==
  LET err  == IF r.evals = << >> THEN err_occured ELSE ~Last(r.evals)
      said == ignore \/ \E k \in DOMAIN r.evals : ~r.evals[k]
  IN  /\ err_occured' = (err \/ (r.is = "null" /\ ~said))
      /\ ignore' = (said \/ r.is = "null")

-----------------------------------------------------------------------------
(* tok_quote_removal *)

\* Quotes of the other kind are taken away inside of quotes too.
tok_quote_removal_All(s) ==
  [s |-> SelectSeq(s, LAMBDA ch : ch \notin {"'", "\"", "\\"}), missing |-> FALSE]
\* s without its quotes, and whether it ends inside of some.
tok_quote_removal(s) ==
  LET from[i \in 1 .. Len(s) + 2, open \in {"", "'", "\""}] ==
        LET out(ch, rest) == [rest EXCEPT !.s = <<ch>> \o @]
        IN  IF i > Len(s) THEN [s |-> << >>, missing |-> open # ""]
            ELSE IF s[i] = "\\" /\ open = ""
                 THEN IF i = Len(s) THEN from[i + 1, open] ELSE out(s[i + 1], from[i + 2, open])
            ELSE IF open # "" /\ Opens(s, i, <<"\\", open>>) THEN out(open, from[i + 2, open])
            ELSE IF s[i] = open THEN from[i + 1, ""]
            ELSE IF open = "" /\ s[i] \in {"'", "\""} THEN from[i + 1, s[i]]
            ELSE out(s[i], from[i + 1, open])
  IN  from[1, ""]

-----------------------------------------------------------------------------
(* Assignments and the environment *)

EqualsSign(str) == First({k \in DOMAIN str : str[k] = "="}, 0)
NameOf(str) == SubSeq(str, 1, EqualsSign(str) - 1)
RawOf(str) == SubSeq(str, EqualsSign(str) + 1, Len(str))
Assigns(str) == EqualsSign(str) > 1

\* The end of a substitution or assignment: a word that is dealt with goes.
Return(p) ==
  /\ phase' = p /\ queue' = IF p = "words" THEN Tail(queue) ELSE queue

Substitute(str, name, p) ==
  /\ text' = str /\ target' = name /\ back' = p /\ pass' = 1
  /\ phase' = "substitute" /\ UNCHANGED queue

\* do_assignment: nothing behind the = unsets the variable.
do_assignment(str, p) ==
  IF ~Assigns(str) THEN Raise /\ Return(p) /\ UNCHANGED <<var_q, subst>>
  ELSE IF RawOf(str) = << >>
       THEN var_q' = varlist_unset(var_q, NameOf(str)) /\ Return(p) /\ UNCHANGED <<subst, latch>>
  ELSE Substitute(RawOf(str), NameOf(str), p) /\ UNCHANGED <<var_q, latch>>

\* What one of the passes makes of the text.
PassOf(n, s) ==
  IF n = 1 THEN Passed(s, FirstPass) ELSE IF n = 2 THEN Passed(s, SecondPass)
  ELSE Passed(s, ThirdPass)

\* Without a text a variable keeps its value, but the length of an argument is
\* undefined; so is what stands behind the end of a text.
do_substitution ==
  /\ phase = "substitute" /\ pass <= 3
  /\ \E r \in {PassOf(pass, text)} :
       /\ PassErrors(r)
       /\ text' = r.out /\ pass' = pass + 1
       /\ IF r.is = "ok" THEN UNCHANGED <<phase, queue>>
          ELSE IF r.is = "null" /\ target # << >> THEN Return(back)
          ELSE phase' = "undefined" /\ UNCHANGED queue
  /\ UNCHANGED <<line, lexer, session, var_q, environ, imports, args, target, back>>

\* The quotes go, and the text becomes a value or an argument.
Substituted ==
  /\ phase = "substitute" /\ pass > 3
  /\ \E s \in {tok_quote_removal(text).s} :
       IF target # << >>
       THEN var_q' = varlist_modify_or_add(var_q, target, s) /\ UNCHANGED args
       ELSE args' = Append(args, s) /\ UNCHANGED var_q
  /\ Return(back)
  /\ UNCHANGED <<line, lexer, session, environ, imports, subst, latch>>

Without(env, name) == [n \in DOMAIN env \ {name} |-> env[n]]

\* putenv: a text without = takes the name away.
putenv(env, str) ==
  IF EqualsSign(str) = 0 THEN Without(env, str)
  ELSE [n \in DOMAIN env \cup {NameOf(str)} |-> IF n = NameOf(str) THEN RawOf(str) ELSE env[n]]

unsetenv(env, name) ==
  IF name = << >> \/ EqualsSign(name) # 0 THEN env ELSE Without(env, name)

-----------------------------------------------------------------------------
(* Start-up *)

Init ==
  /\ phase = "import"
  /\ \E s \in Sessions : session = s.lines /\ environ = s.environ
  /\ imports = DOMAIN environ
  /\ line = << >> /\ pos = 1 /\ start = 1 /\ tok = "EOF" /\ complete = TRUE
  /\ queue = << >> /\ var_q = << >> /\ args = << >>
  /\ text = << >> /\ target = << >> /\ pass = 1 /\ back = "prompt"
  /\ err_occured = FALSE /\ ignore = FALSE

\* Each entry of the environment is assigned, whatever their order.
Import(n) ==
  /\ phase = "import" /\ n \in imports
  /\ imports' = imports \ {n}
  /\ do_assignment(n \o <<"=">> \o environ[n], "import")
  /\ UNCHANGED <<line, lexer, session, environ, args>>

Ready ==
  /\ phase = "import" /\ imports = {}
  /\ var_q' = varlist_modify_or_add(var_q, PS1, Prompt)
  /\ phase' = "prompt"
  /\ UNCHANGED <<line, lexer, queue, session, environ, imports, args, subst, latch>>

-----------------------------------------------------------------------------
(* A line *)

\* An empty line runs no command.
ReadLine ==
  /\ phase = "prompt" /\ session # << >>
  /\ session' = Tail(session)
  /\ line' = Head(session)
  /\ phase' = IF line' = << >> THEN "prompt" ELSE "lex"
  /\ pos' = 1 /\ start' = 1 /\ tok' = "EOF" /\ complete' = TRUE /\ queue' = << >>
  /\ args' = << >>
  /\ UNCHANGED <<var_q, environ, imports, subst, latch>>

EndOfFile ==
  /\ phase = "prompt" /\ session = << >> /\ phase' = "done"
  /\ UNCHANGED <<line, lexer, queue, session, var_q, environ, imports, args, subst, latch>>

Lex ==
  /\ tok_next_token
  /\ UNCHANGED <<session, var_q, environ, imports, args, subst, latch>>

\* A line of words is one simple command; all others are Grammar's.
Simple ==
  \A k \in DOMAIN queue :
    \/ queue[k].tok = "WORD" /\ ~queue[k].keyword
    \/ queue[k].tok = "EOF" \/ (queue[k].tok = "NEWLINE" /\ k + 1 = Len(queue) /\ k > 1)

gram_build_tree ==
  /\ phase = "parse"
  /\ err_occured' = FALSE /\ ignore' = FALSE
  /\ phase' = IF Simple THEN "words" ELSE "prompt"
  /\ UNCHANGED <<line, lexer, queue, session, var_q, environ, imports, args, subst>>

-----------------------------------------------------------------------------
(* run_command *)

token == Head(queue)

\* A text in front of the first word that has a = in it is an assignment.
IsAssignment == "ASSIGNMENT" \in token.flags /\ args = << >>

Assignment ==
  /\ phase = "words" /\ token.tok = "WORD" /\ IsAssignment
  /\ do_assignment(token.str, "words")
  /\ UNCHANGED <<line, lexer, session, environ, imports, args>>

Word ==
  /\ phase = "words" /\ token.tok = "WORD" /\ ~IsAssignment
  /\ Substitute(token.str, << >>, "words")
  /\ UNCHANGED <<line, lexer, session, var_q, environ, imports, args, latch>>

LastWord ==
  /\ phase = "words" /\ token.tok # "WORD"
  /\ phase' = IF args = << >> \/ err_occured THEN "prompt" ELSE "run"
  /\ UNCHANGED <<line, lexer, queue, session, var_q, environ, imports, args, subst, latch>>

Runs(cmd) == phase = "run" /\ args[1] = <<cmd>>

NoArgument ==
  /\ Runs("export") \/ Runs("unexport")
  /\ Len(args) < 2
  /\ Raise /\ phase' = "prompt"
  /\ UNCHANGED <<line, lexer, queue, session, var_q, environ, imports, args, subst>>

\* The shell itself does not learn the value.
builtin_export_EnvironOnly ==
  /\ Runs("export") /\ Len(args) > 1
  /\ environ' = putenv(environ, args[2])
  /\ phase' = "prompt"
  /\ UNCHANGED <<line, lexer, queue, session, var_q, imports, args, subst, latch>>
builtin_export ==
  /\ Runs("export") /\ Len(args) > 1
  /\ environ' = putenv(environ, args[2])
  /\ do_assignment(args[2], "prompt")
  /\ UNCHANGED <<line, lexer, session, imports, args>>

builtin_unexport ==
  /\ Runs("unexport") /\ Len(args) > 1
  /\ environ' = unsetenv(environ, args[2])
  /\ var_q' = varlist_unset(var_q, args[2])
  /\ phase' = "prompt"
  /\ UNCHANGED <<line, lexer, queue, session, imports, args, subst, latch>>

\* The other builtins are those of Jobs; a child gets environ.
OtherCommand ==
  /\ phase = "run" /\ ~Runs("export") /\ ~Runs("unexport")
  /\ phase' = "prompt"
  /\ UNCHANGED <<line, lexer, queue, session, var_q, environ, imports, args, subst, latch>>

Next ==
  \/ \E n \in imports : Import(n)
  \/ Ready \/ ReadLine \/ EndOfFile \/ Lex \/ gram_build_tree
  \/ Assignment \/ Word \/ LastWord \/ do_substitution \/ Substituted
  \/ NoArgument \/ builtin_export \/ builtin_unexport \/ OtherCommand

Spec == Init /\ [][Next]_vars /\ WF_vars(Next)

-----------------------------------------------------------------------------
(* Properties *)

\* A token under way lies within the line, and the tokens in the queue are of
\* the kinds the parser knows.
TypeOK ==
  /\ phase \in {"import", "prompt", "lex", "parse", "words", "substitute", "run", "undefined", "done"}
  /\ start \in 1 .. Len(line) + 1 /\ pos \in start .. Len(line) + 1
  /\ tok \in {"EOF", "WORD", "op"} /\ (tok # "EOF" => start < pos)
  /\ \A k \in DOMAIN queue :
       queue[k].tok \in {"WORD", "IO_NUMBER", "op", "NEWLINE", "(", ")", "EOF"}
  /\ imports \subseteq DOMAIN environ /\ {err_occured, ignore} \subseteq BOOLEAN

\* No name is in the list of variables twice: the first one found is the one.
OneEntry == \A i, j \in DOMAIN var_q : var_q[i].name = var_q[j].name => i = j

\* The list is a map from names to values, and each step sets or unsets one name.
VariablesAreMap == VM!Spec
=============================================================================
