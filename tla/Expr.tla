-------------------------------- MODULE Expr --------------------------------
(***************************************************************************)
(* Arithmetic, expr.c: eval_expr cuts a text into tokens (lexan) and       *)
(* evaluates them with one function for each level of precedence.          *)
(*                                                                         *)
(* The text is read a character at a time and chosen as it is read.  The   *)
(* functions Expr, A, B, C, D and F are the levels 1 to 6 and differ in    *)
(* their operators only; G is level 7 and H is 8.  calls is the C stack,   *)
(* innermost first: the level, the operator whose right side is being      *)
(* evaluated and its left side.  peek is always the head of the queue.     *)
(***************************************************************************)
EXTENDS Integers, SequencesExt

CONSTANTS
  Width,     \* bits of an int
  Alphabets  \* what may follow each character, and a bound on the length

VARIABLES
  phase,     \* "start", "lexan", "call", "return", "done" or "killed"
  alphabet,
  text,      \* the characters read
  t, v,      \* lexan: the token under way and its value
  pc,        \* lexan: open parentheses
  q,         \* the queue of tokens
  calls,
  callee,    \* the level being called
  val,       \* what the last function returned
  err_occured,
  res

vars == <<phase, alphabet, text, t, v, pc, q, calls, callee, val, err_occured, res>>

Digits  == LET c == <<"0", "1", "2", "3", "4", "5", "6", "7", "8", "9">>
           IN  [x \in Range(c) |-> CHOOSE n \in 0 .. 9 : c[n + 1] = x]
Doubled == [c \in {"*", "<", ">"} |-> CASE c = "*" -> "**" [] c = "<" -> "<<" [] c = ">" -> ">>"]
Singles == {"(", ")", "+", "-", "/", "%", "&", "|", "^", "~"}
Blanks  == {" "}

\* The operators of the levels, and those in front of an operand.
Level == <<{"|"}, {"^"}, {"&"}, {"<<", ">>"}, {"+", "-"}, {"*", "/", "%", "**"}>>
Unary == {"~", "+", "-"}
Tokens == {"number", "eoe", "(", ")"} \cup Unary \cup UNION {Level[l] : l \in DOMAIN Level}

ASSUME WidthAssumption == Width \in Nat \ {0, 1}
ASSUME AlphabetsAssumption ==
  \A a \in Alphabets :
    a.len \in Nat /\ a.first \subseteq DOMAIN a.after
    /\ \A c \in DOMAIN a.after : a.after[c] \subseteq DOMAIN a.after

-----------------------------------------------------------------------------
(* int *)

INT_MIN == -(2 ^ (Width - 1))
Ints == INT_MIN .. -INT_MIN - 1
Wrap(x) == ((x - INT_MIN) % (2 ^ Width)) + INT_MIN

\* The places of the ones, and the one int that has them at the places s.
Bits(x) == {k \in 0 .. Width - 1 : ((x % (2 ^ Width)) \div (2 ^ k)) % 2 = 1}
OfBits(s) == {x \in Ints : Bits(x) = s}

Size(x) == IF x < 0 THEN -x ELSE x
Quotient(a, b) == (Size(a) \div Size(b)) * (IF (a < 0) = (b < 0) THEN 1 ELSE -1)

\* (int) pow (a, b): a fraction is cut off, what does not fit becomes INT_MIN.
Power(a, b) ==
  IF b = 0 THEN 1
  ELSE IF b > 0 THEN IF a ^ b \in Ints THEN a ^ b ELSE INT_MIN
  ELSE CASE a = 0 -> INT_MIN [] a = 1 -> 1
         [] a = -1 -> (IF b % 2 = 0 THEN 1 ELSE -1) [] OTHER -> 0

\* What a op b can be: a shift by a count that no shift has gives anything.
Results(op, a, b) ==
  CASE op = "|"  -> OfBits(Bits(a) \cup Bits(b))
    [] op = "&"  -> OfBits(Bits(a) \cap Bits(b))
    [] op = "^"  -> OfBits((Bits(a) \cup Bits(b)) \ (Bits(a) \cap Bits(b)))
    [] op = "<<" -> IF b \in 0 .. Width - 1 THEN {Wrap(a * 2 ^ b)} ELSE Ints
    [] op = ">>" -> IF b \in 0 .. Width - 1 THEN {a \div (2 ^ b)} ELSE Ints
    [] op = "+"  -> {Wrap(a + b)}
    [] op = "-"  -> {Wrap(a - b)}
    [] op = "*"  -> {Wrap(a * b)}
    [] op = "**" -> {Power(a, b)}
    [] op = "/"  -> {IF b = 0 THEN 0 ELSE Quotient(a, b)}
    [] op = "%"  -> {IF b = 0 THEN 0 ELSE a - b * Quotient(a, b)}

DividesByZero(op, b) == op \in {"/", "%"} /\ b = 0

\* The one quotient that is no int: the processor's exception ends the shell.
Traps(op, a, b) == op \in {"/", "%"} /\ a = INT_MIN /\ b = -1

\* The smallest int has no opposite.
Negated_Wide(op, a) ==
  CASE op = "~" -> -a - 1 [] op = "-" -> -a [] OTHER -> a
Negated(op, a) ==
  CASE op = "~" -> -a - 1 [] op = "-" -> Wrap(-a) [] OTHER -> a

-----------------------------------------------------------------------------
(* lexan *)

Init ==
  /\ phase = "start" /\ alphabet \in Alphabets /\ text = << >>
  /\ t = "none" /\ v = 0 /\ pc = 0 /\ q = << >>
  /\ calls = << >> /\ callee = 1 /\ val = 0
  /\ err_occured \in BOOLEAN /\ res = 0

\* eval_expr forgets an error that was there before.
Start ==
  /\ phase = "start"
  /\ err_occured' = FALSE /\ phase' = "lexan"
  /\ UNCHANGED <<alphabet, text, t, v, pc, q, calls, callee, val, res>>

Following == IF text = << >> THEN alphabet.first ELSE alphabet.after[Last(text)]

\* flush_token: a lone < or > is an error, any other token is queued.
Lone(tok) == tok \in {"<", ">"}
Queued(queue, tok, n) ==
  IF tok = "none" \/ Lone(tok) THEN queue ELSE Append(queue, [tok |-> tok, val |-> n])
Pending == Queued(q, t, v)

\* The next character is c.
Read(c) ==
  /\ phase = "lexan" /\ Len(text) < alphabet.len /\ c \in Following
  /\ text' = Append(text, c)
  /\ UNCHANGED <<phase, alphabet, calls, callee, val, res>>

Digit(c) ==
  /\ Read(c) /\ c \in DOMAIN Digits
  /\ IF t = "number"
     THEN v' = Wrap(v * 10 + Digits[c]) /\ UNCHANGED <<t, q, err_occured>>
     ELSE /\ t' = "number" /\ v' = Wrap(Digits[c])
          /\ q' = Pending /\ err_occured' = (err_occured \/ Lone(t))
  /\ UNCHANGED pc

\* The first character of ** << >> waits for the second.
FirstHalf(c) ==
  /\ Read(c) /\ c \in DOMAIN Doubled /\ t # c
  /\ t' = c /\ v' = 0 /\ q' = Pending /\ err_occured' = (err_occured \/ Lone(t))
  /\ UNCHANGED pc

SecondHalf(c) ==
  /\ Read(c) /\ c \in DOMAIN Doubled /\ t = c
  /\ t' = "none" /\ v' = 0 /\ q' = Queued(q, Doubled[c], v)
  /\ UNCHANGED <<pc, err_occured>>

Single(c) ==
  /\ Read(c) /\ c \in Singles
  /\ t' = "none" /\ v' = 0 /\ q' = Queued(Pending, c, 0)
  /\ pc' = IF c = "(" THEN pc + 1 ELSE IF c = ")" THEN pc - 1 ELSE pc
  /\ err_occured' = (err_occured \/ Lone(t) \/ (c = ")" /\ pc' < 0))

Blank(c) ==
  /\ Read(c) /\ c \in Blanks
  /\ t' = "none" /\ v' = 0 /\ q' = Pending /\ err_occured' = (err_occured \/ Lone(t))
  /\ UNCHANGED pc

\* A character that nothing begins with: the token under way goes on behind it.
Unknown(c) ==
  /\ Read(c) /\ c \notin DOMAIN Digits \cup DOMAIN Doubled \cup Singles \cup Blanks
  /\ err_occured' = TRUE
  /\ UNCHANGED <<t, v, pc, q>>

\* The text ends; after an error nothing is evaluated.
EndOfText ==
  /\ phase = "lexan"
  /\ t' = "none" /\ v' = 0 /\ UNCHANGED <<alphabet, text, pc, calls, val, res>>
  /\ callee' = 1
  /\ IF err_occured \/ Lone(t) \/ pc > 0
     THEN err_occured' = TRUE /\ q' = << >> /\ phase' = "done"
     ELSE /\ q' = Queued(Pending, "eoe", 0) /\ phase' = "call"
          /\ UNCHANGED err_occured

lexan ==
  \/ \E c \in UNION {DOMAIN a.after : a \in Alphabets} :
       Digit(c) \/ FirstHalf(c) \/ SecondHalf(c) \/ Single(c) \/ Blank(c) \/ Unknown(c)
  \/ EndOfText

-----------------------------------------------------------------------------
(* The functions of the grammar *)

peek == Head(q).tok
Call(l) == phase' = "call" /\ callee' = l /\ UNCHANGED val
Return(x) == phase' = "return" /\ val' = x /\ UNCHANGED callee
Frame(l, op, ival) == [level |-> l, op |-> op, ival |-> ival]
top == Head(calls)
Calling(l) == phase = "call" /\ callee = l
Returning(l) == phase = "return" /\ calls # << >> /\ top.level = l

lexed == <<alphabet, text, t, v, pc, res>>

\* Expr to F call the next level for their first operand.
Operand(l) ==
  /\ Calling(l)
  /\ calls' = <<Frame(l, "", 0)>> \o calls
  /\ Call(l + 1)
  /\ UNCHANGED <<lexed, q, err_occured>>

\* A_ -> '^' A_ as the grammar comment has it: the right side takes what follows.
Operator_Right(l) ==
  /\ Returning(l) /\ top.op = "" /\ peek \in Level[l]
  /\ calls' = <<Frame(l, peek, val)>> \o Tail(calls)
  /\ q' = Tail(q)
  /\ Call(l)
  /\ UNCHANGED <<lexed, err_occured>>
\* The operator stays in the queue.
Operator_Kept(l) ==
  /\ Returning(l) /\ top.op = "" /\ peek \in Level[l]
  /\ calls' = <<Frame(l, peek, val)>> \o Tail(calls)
  /\ Call(l + 1)
  /\ UNCHANGED <<lexed, q, err_occured>>
\* Expr_ to F_ take an operator of their level and call for its right side ...
Operator(l) ==
  /\ Returning(l) /\ top.op = "" /\ peek \in Level[l]
  /\ calls' = <<Frame(l, peek, val)>> \o Tail(calls)
  /\ q' = Tail(q)
  /\ Call(l + 1)
  /\ UNCHANGED <<lexed, err_occured>>

\* ... go on with the result ...
Operate(l) ==
  /\ Returning(l) /\ top.op # ""
  /\ ~Traps(top.op, top.ival, val)
  /\ calls' = <<Frame(l, "", 0)>> \o Tail(calls)
  /\ \E x \in Results(top.op, top.ival, val) : Return(x)
  /\ err_occured' = (err_occured \/ DividesByZero(top.op, val))
  /\ UNCHANGED <<lexed, q>>

Trap ==
  /\ phase = "return" /\ calls # << >> /\ Traps(top.op, top.ival, val)
  /\ phase' = "killed"
  /\ UNCHANGED <<lexed, q, calls, callee, val, err_occured>>

\* ... and return when another token comes.
NoOperator(l) ==
  /\ Returning(l) /\ top.op = "" /\ peek \notin Level[l]
  /\ calls' = Tail(calls) /\ Return(val)
  /\ UNCHANGED <<lexed, q, err_occured>>

G ==
  /\ Calling(7)
  /\ IF peek \in Unary
     THEN calls' = <<Frame(7, peek, 0)>> \o calls /\ q' = Tail(q)
     ELSE UNCHANGED <<calls, q>>
  /\ Call(8)
  /\ UNCHANGED <<lexed, err_occured>>

Negate ==
  /\ Returning(7)
  /\ calls' = Tail(calls) /\ Return(Negated(top.op, val))
  /\ UNCHANGED <<lexed, q, err_occured>>

Number ==
  /\ Calling(8) /\ peek = "number"
  /\ Return(Head(q).val) /\ q' = Tail(q)
  /\ UNCHANGED <<lexed, calls, err_occured>>

Open ==
  /\ Calling(8) /\ peek = "("
  /\ q' = Tail(q) /\ calls' = <<Frame(8, "(", 0)>> \o calls
  /\ Call(1)
  /\ UNCHANGED <<lexed, err_occured>>

\* The token that nothing begins with is skipped.
Unexpected_Skips ==
  /\ Calling(8) /\ peek \notin {"number", "("}
  /\ Return(0) /\ err_occured' = TRUE
  /\ q' = Tail(q) /\ UNCHANGED <<lexed, calls>>
Unexpected ==
  /\ Calling(8) /\ peek \notin {"number", "("}
  /\ Return(0) /\ err_occured' = TRUE
  /\ UNCHANGED <<lexed, q, calls>>

\* A ) that is missing is reported, and whatever stands there stays.
Close ==
  /\ Returning(8)
  /\ IF peek = ")" THEN q' = Tail(q) /\ UNCHANGED err_occured
     ELSE err_occured' = TRUE /\ UNCHANGED q
  /\ calls' = Tail(calls) /\ Return(val)
  /\ UNCHANGED lexed

Finish ==
  /\ phase = "return" /\ calls = << >>
  /\ err_occured' = (err_occured \/ peek # "eoe")
  /\ res' = IF err_occured' THEN 0 ELSE val
  /\ q' = << >> /\ phase' = "done"
  /\ UNCHANGED <<alphabet, text, t, v, pc, calls, callee, val>>

Next ==
  \/ Start \/ lexan
  \/ \E l \in DOMAIN Level : Operand(l) \/ Operator(l) \/ Operate(l) \/ NoOperator(l)
  \/ Trap \/ G \/ Negate \/ Number \/ Open \/ Unexpected \/ Close \/ Finish

Spec == Init /\ [][Next]_vars /\ WF_vars(Next)

-----------------------------------------------------------------------------
(* Properties *)

\* Every value is an int, and every token and call one of those the code has.
TypeOK ==
  /\ phase \in {"start", "lexan", "call", "return", "done", "killed"}
  /\ t \in Tokens \cup {"none", "<", ">"} /\ pc \in Int /\ callee \in 1 .. 8
  /\ q \in Seq([tok : Tokens, val : Ints]) /\ {v, val, res} \subseteq Ints
  /\ calls \in Seq([level : 1 .. 8, op : Tokens \cup {""}, ival : Ints])

\* While a function runs, the end of the expression is still in the queue: the
\* functions look at the head of q without asking whether there is one.
EndStays ==
  phase \in {"call", "return"} => Len(q) > 0 /\ q[Len(q)].tok = "eoe"
=============================================================================
