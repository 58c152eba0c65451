------------------------------ MODULE Pattern ------------------------------
(***************************************************************************)
(* Patterns, pattern.c: make_fsm builds a nondeterministic automaton from  *)
(* a pattern and match runs it with a stack of the places to come back to. *)
(*                                                                         *)
(* One action is a turn of a loop.  Texts are sequences of characters, a   *)
(* character is known by its byte.  The rules of a state are a sequence,   *)
(* the latest first, as add_fsm_multirule puts them.  The text to match is *)
(* chosen when the automaton is ready, which no step before looks at.      *)
(***************************************************************************)
EXTENDS Integers, SequencesExt, FiniteSetsExt

CONSTANTS
  Byte,      \* the byte of each character
  Patterns,  \* the patterns asked for
  Subjects   \* the texts to be matched

ASSUME ByteAssumption ==
  /\ \A c \in DOMAIN Byte : Byte[c] \in 1 .. 255
  /\ {"\\", "'", "\"", "?", "*", "[", "]", "^", "-"} \subseteq DOMAIN Byte
ASSUME PatternsAssumption == Patterns \subseteq Seq(DOMAIN Byte)
ASSUME SubjectsAssumption == Subjects \subseteq Seq(DOMAIN Byte)

VARIABLES
  pc,       \* the loop that runs, or how it ended
  expr,     \* the pattern
  index,    \* the character of expr being parsed
  state,    \* the state being made
  fsm,      \* rules and nondet of each state, n_states
  set,      \* in a set: negate, changestate
  quote,    \* in a quotation: its delimiter
  str,      \* the text to match
  cur,      \* match: the state it is in
  pos,      \* match: the characters behind it
  retries,  \* match: the rules to pass over
  st,       \* match: the state whose rules were looked at last
  stack     \* match: where to try another path

parsing  == <<expr, index, state, fsm, set, quote>>
matching == <<str, cur, pos, retries, st, stack>>
vars     == <<pc, parsing, matching>>

None  == -1  \* no state was found
Final == {"no fsm", "matched", "rejected"}

\* A rule of a pattern of that length, and a place to come back to.
Rule(len)  == [in_min : 1 .. 255, in_max : 1 .. 255, dststate : 0 .. len, negate : BOOLEAN]
Place(len) == [state : 0 .. len, index : Nat, retries : Nat]

EmptyFsm(len) ==
  [rules |-> [s \in 0 .. len |-> << >>], nondet |-> {}, n_states |-> 0]

\* make_fsm (p) begins.
Compile(p) ==
  /\ expr' = p /\ index' = 1 /\ state' = 0 /\ fsm' = EmptyFsm(Len(p))
  /\ UNCHANGED <<set, quote>>

Init ==
  /\ pc = "compile" /\ expr \in Patterns /\ index = 1 /\ state = 0
  /\ fsm = EmptyFsm(Len(expr))
  /\ set = [negate |-> FALSE, changestate |-> FALSE] /\ quote = ""
  /\ str = << >> /\ cur = 0 /\ pos = 0 /\ retries = 0 /\ st = None /\ stack = << >>

-----------------------------------------------------------------------------
(* make_fsm *)

\* Rules are tried in the order of the pattern.
add_fsm_multirule_Last(min, max, nextstate, negative, nondet) ==
  fsm' = [fsm EXCEPT
    !.rules[state] = Append(@,
      [in_min |-> min, in_max |-> max, dststate |-> nextstate, negate |-> negative]),
    !.nondet = IF nondet THEN @ \cup {state} ELSE @,
    !.n_states = IF @ > nextstate + 1 THEN @ ELSE nextstate + 1]

add_fsm_multirule(min, max, nextstate, negative, nondet) ==
  fsm' = [fsm EXCEPT
    !.rules[state] =
      <<[in_min |-> min, in_max |-> max, dststate |-> nextstate, negate |-> negative]>> \o @,
    !.nondet = IF nondet THEN @ \cup {state} ELSE @,
    !.n_states = IF @ > nextstate + 1 THEN @ ELSE nextstate + 1]

\* One character leads to a new state.
AddChar(c) ==
  /\ add_fsm_multirule(Byte[c], Byte[c], state + 1, FALSE, FALSE)
  /\ state' = state + 1

At(where) == pc = where /\ index <= Len(expr)

Escape ==
  /\ At("compile") /\ expr[index] = "\\"
  /\ IF index = Len(expr)
     THEN AddChar("\\") /\ index' = index + 1
     ELSE AddChar(expr[index + 1]) /\ index' = index + 2
  /\ UNCHANGED <<pc, expr, set, quote, matching>>

OpenQuote ==
  /\ At("compile") /\ expr[index] \in {"'", "\""}
  /\ quote' = expr[index] /\ index' = index + 1 /\ pc' = "quoted"
  /\ UNCHANGED <<expr, state, fsm, set, matching>>

QuotedChar ==
  /\ At("quoted") /\ expr[index] # quote
  /\ LET k == IF expr[index] = "\\" THEN index + 1 ELSE index
     IN  /\ k <= Len(expr)
         /\ AddChar(expr[k]) /\ index' = k + 1
  /\ UNCHANGED <<pc, expr, set, quote, matching>>

CloseQuote ==
  /\ At("quoted") /\ expr[index] = quote
  /\ index' = index + 1 /\ pc' = "compile"
  /\ UNCHANGED <<expr, state, fsm, set, quote, matching>>

\* Nothing is left to read, or only a backslash.
RunOut == ~(index <= Len(expr) /\ (expr[index] = "\\" => index < Len(expr)))

UnclosedQuote ==
  /\ pc = "quoted" /\ RunOut
  /\ pc' = "no fsm"
  /\ UNCHANGED <<parsing, matching>>

AnyChar ==
  /\ At("compile") /\ expr[index] = "?"
  /\ add_fsm_multirule(1, 255, state + 1, FALSE, FALSE)
  /\ state' = state + 1 /\ index' = index + 1
  /\ UNCHANGED <<pc, expr, set, quote, matching>>

Star ==
  /\ At("compile") /\ expr[index] = "*"
  /\ add_fsm_multirule(1, 255, state, FALSE, TRUE)
  /\ index' = index + 1
  /\ UNCHANGED <<pc, expr, state, set, quote, matching>>

\* The backslash in front of k takes it away from a search that starts at from,
\* unless that one is taken away itself.
Skipped(from, k) ==
  \E run \in 1 .. k - from :
    /\ run % 2 = 1 /\ \A b \in k - run .. k - 1 : expr[b] = "\\"
    /\ k - run > from => expr[k - run - 1] # "\\"

\* Where the search for the ] of a [ stops.  Len(expr) + 1 is the terminator;
\* a backslash in front of it takes the search to the byte behind.
SearchEnd(from) ==
  LET ends == {k \in from .. Len(expr) : expr[k] = "]" /\ ~Skipped(from, k)}
  IN  IF ends # {} THEN Min(ends)
      ELSE IF Skipped(from, Len(expr) + 1) THEN Len(expr) + 2 ELSE Len(expr) + 1

\* What is in the memory there decides what the search behind the end finds.
Enclosed ==
  LET end == SearchEnd(index + 1)
  IN  IF end <= Len(expr) THEN {TRUE}
      ELSE IF end = Len(expr) + 1 THEN {FALSE} ELSE BOOLEAN

\* The branch that goes on by itself forgets to step on.
LoneBracket_Stay ==
  /\ At("compile") /\ expr[index] = "[" /\ FALSE \in Enclosed
  /\ AddChar("[")
  /\ UNCHANGED <<pc, expr, index, set, quote, matching>>

LoneBracket ==
  /\ At("compile") /\ expr[index] = "[" /\ FALSE \in Enclosed
  /\ AddChar("[") /\ index' = index + 1
  /\ UNCHANGED <<pc, expr, set, quote, matching>>

OpenSet ==
  /\ At("compile") /\ expr[index] = "[" /\ TRUE \in Enclosed
  /\ LET negate == expr[index + 1] = "^"
     IN  /\ set' = [negate |-> negate, changestate |-> FALSE]
         /\ index' = index + (IF negate THEN 2 ELSE 1)
  /\ pc' = "set"
  /\ UNCHANGED <<expr, state, fsm, quote, matching>>

\* A member or a range.  A - in front of the ] is a member.
SetMember ==
  /\ At("set") /\ expr[index] # "]"
  /\ LET k     == IF expr[index] = "\\" THEN index + 1 ELSE index
         range == k < Len(expr) - 1 /\ expr[k + 1] = "-" /\ expr[k + 2] # "]"
         m     == IF ~range THEN k
                  ELSE IF k < Len(expr) - 2 /\ expr[k + 2] = "\\" THEN k + 3 ELSE k + 2
     IN  /\ k <= Len(expr)
         /\ add_fsm_multirule(Byte[expr[k]], Byte[expr[m]], state + 1, set.negate, FALSE)
         /\ index' = m + 1
  /\ set' = [set EXCEPT !.changestate = TRUE]
  /\ UNCHANGED <<pc, expr, state, quote, matching>>

CloseSet ==
  /\ At("set") /\ expr[index] = "]"
  /\ state' = IF set.changestate THEN state + 1 ELSE state
  /\ index' = index + 1 /\ pc' = "compile"
  /\ UNCHANGED <<expr, fsm, set, quote, matching>>

\* Only after a search that went too far.
UnclosedSet ==
  /\ pc = "set" /\ RunOut
  /\ pc' = "no fsm"
  /\ UNCHANGED <<parsing, matching>>

Literal ==
  /\ At("compile") /\ expr[index] \notin {"\\", "'", "\"", "?", "*", "["}
  /\ AddChar(expr[index]) /\ index' = index + 1
  /\ UNCHANGED <<pc, expr, set, quote, matching>>

\* match (fsm, s) begins.
StartMatch(s) ==
  /\ str' = s /\ cur' = 0 /\ pos' = 0 /\ retries' = 0 /\ st' = None /\ stack' = << >>

Compiled ==
  /\ pc = "compile" /\ index > Len(expr)
  /\ \E s \in Subjects : StartMatch(s)
  /\ pc' = "match"
  /\ UNCHANGED parsing

Compilation ==
  \/ Escape \/ OpenQuote \/ QuotedChar \/ CloseQuote \/ UnclosedQuote
  \/ AnyChar \/ Star \/ LoneBracket \/ OpenSet \/ SetMember \/ CloseSet \/ UnclosedSet
  \/ Literal

-----------------------------------------------------------------------------
(* match *)

Applies(rule, c) ==
  LET within == rule.in_min <= Byte[c] /\ Byte[c] <= rule.in_max
  IN  IF rule.negate THEN ~within ELSE within

Rules == fsm.rules[cur]
Applicable == {r \in DOMAIN Rules : Applies(Rules[r], str[pos + 1])}

\* The rules to pass over are the first ones.
PassedOver(r) == Cardinality({a \in Applicable : a < r}) = retries

\* A state that is come back to is remembered again.
Pushed_Always ==
  IF cur \in fsm.nondet
  THEN <<[state |-> cur, index |-> pos, retries |-> 0]>> \o stack
  ELSE stack

\* A nondeterministic state is remembered when it is first come to.
Pushed ==
  IF cur \in fsm.nondet /\ retries = 0
  THEN <<[state |-> cur, index |-> pos, retries |-> 0]>> \o stack
  ELSE stack

Reading == pc = "match" /\ pos < Len(str)

NoState ==
  /\ Reading /\ Rules = << >>
  /\ st' = None /\ pc' = "stuck"
  /\ UNCHANGED <<parsing, str, cur, pos, retries, stack>>

ApplyRule ==
  /\ Reading /\ Rules # << >>
  /\ \E r \in Applicable : PassedOver(r) /\ cur' = Rules[r].dststate
  /\ pos' = pos + 1 /\ retries' = 0 /\ st' = cur /\ stack' = Pushed
  /\ UNCHANGED <<pc, parsing, str>>

NoRule ==
  /\ Reading /\ Rules # << >> /\ retries >= Cardinality(Applicable)
  /\ st' = cur /\ stack' = Pushed /\ pc' = "stuck"
  /\ UNCHANGED <<parsing, str, cur, pos, retries>>

Stopped == pc = "stuck" \/ (pc = "match" /\ pos = Len(str))
Accepting == cur = fsm.n_states - 1 /\ pos = Len(str)

Accept ==
  /\ Stopped /\ Accepting
  /\ pc' = "matched" /\ stack' = << >>
  /\ UNCHANGED <<parsing, str, cur, pos, retries, st>>

\* The top of the stack is done with when its state was the last one looked at.
Remaining == IF st \in fsm.nondet THEN Tail(stack) ELSE stack

Backtrack ==
  /\ Stopped /\ ~Accepting /\ stack # << >> /\ Remaining # << >>
  /\ LET top == Head(Remaining)
     IN  /\ stack' = [Remaining EXCEPT ![1].retries = @ + 1]
         /\ cur' = top.state /\ pos' = top.index /\ retries' = top.retries + 1
  /\ pc' = "match"
  /\ UNCHANGED <<parsing, str, st>>

Reject ==
  /\ Stopped /\ ~Accepting
  /\ stack = << >> \/ Remaining = << >>
  /\ pc' = "rejected" /\ stack' = << >>
  /\ UNCHANGED <<parsing, str, cur, pos, retries, st>>

Matching == NoState \/ ApplyRule \/ NoRule \/ Accept \/ Backtrack \/ Reject

Next == Compilation \/ Compiled \/ Matching

Spec == Init /\ [][Next]_vars /\ WF_vars(Next)

-----------------------------------------------------------------------------
(* Properties *)

\* make_fsm numbers no more states than it has read characters, and match is
\* only ever in one of these.
TypeOK ==
  /\ pc \in Final \cup {"compile", "quoted", "set", "match", "stuck", "call", "list", "done"}
  /\ expr \in Seq(DOMAIN Byte) /\ index \in 1 .. Len(expr) + 1
  /\ state \in 0 .. Len(expr)
  /\ pc \in {"compile", "quoted"} => state < index
  /\ pc = "set" => state + 1 < index
  /\ fsm \in [rules : [0 .. Len(expr) -> Seq(Rule(Len(expr)))],
              nondet : SUBSET (0 .. Len(expr)), n_states : 0 .. Len(expr) + 1]
  /\ set \in [negate : BOOLEAN, changestate : BOOLEAN] /\ quote \in {"", "'", "\""}
  /\ str \in Seq(DOMAIN Byte) /\ pos \in 0 .. Len(str)
  /\ retries \in Nat
  /\ pc \in {"match", "stuck"} =>
       cur \in 0 .. Len(expr) /\ st \in {None} \cup 0 .. Len(expr) /\ stack \in Seq(Place(Len(expr)))

\* A place is remembered once at most: the stack rises strictly towards its
\* top, none of its places is behind the characters read, and all of them are
\* states with a star.
StackRising ==
  pc \in {"match", "stuck"} =>
    /\ \A i, j \in DOMAIN stack : i < j => stack[j].index < stack[i].index
    /\ \A i \in DOMAIN stack : stack[i].index <= pos /\ stack[i].state \in fsm.nondet

=============================================================================
