--------------------------- MODULE PatternProofs ---------------------------
(***************************************************************************)
(* For all patterns, texts and directories: make_fsm stays within its      *)
(* pattern, match within the automaton, and the stack of the places to     *)
(* come back to rises strictly.                                            *)
(***************************************************************************)
EXTENDS FileNames, SeqLemmas

Text == Seq(DOMAIN Byte)

Fsms(len) ==
  [rules : [0 .. len -> Seq(Rule(len))], nondet : SUBSET (0 .. len), n_states : 0 .. len + 1]

Loops == Final \cup {"compile", "quoted", "set", "match", "stuck", "call", "list", "done"}

\* make_fsm.  In a set one character more than states has been read: the bracket.
ParseOK ==
  /\ expr \in Text /\ index \in 1 .. Len(expr) + 1 /\ state \in 0 .. Len(expr)
  /\ pc \in {"compile", "quoted"} => state < index
  /\ pc = "set" => state + 1 < index
  /\ fsm \in Fsms(Len(expr)) /\ set \in [negate : BOOLEAN, changestate : BOOLEAN]

\* match.  A state that is come to for the first time is not on the stack yet.
Rising(s) == \A i, j \in DOMAIN s : i < j => s[j].index < s[i].index
Remembered(s, p) == Rising(s) /\ \A i \in DOMAIN s : s[i].index <= p /\ s[i].state \in fsm.nondet

MatchOK ==
  /\ str \in Text /\ pos \in 0 .. Len(str) /\ retries \in Nat
  /\ pc \in {"match", "stuck"} =>
       /\ cur \in 0 .. Len(expr) /\ st \in {None} \cup 0 .. Len(expr)
       /\ stack \in Seq(Place(Len(expr))) /\ Remembered(stack, pos)
  /\ pc = "match" /\ retries = 0 => \A i \in DOMAIN stack : stack[i].index < pos

\* pattern_filename_gen.  All calls but the innermost have made their automaton,
\* and what Pattern compiles or matches is the part of the innermost one.
Opened(f) == f.fsm \in Fsms(Len(f.p))
FrameSet ==
  [pat : Text, j : Nat \ {0}, dir : Text, recur : BOOLEAN, p : Text, left : SUBSET Text,
   matches : Nat, fsm : UNION {Fsms(n) : n \in Nat}]

Calls(s) ==
  /\ s \in Seq(FrameSet)
  /\ \A i \in DOMAIN s : s[i].j <= Len(s[i].pat) + 1 /\ (i > 1 => Opened(s[i]))

FramesOK ==
  /\ Calls(frames)
  /\ frames # << >> =>
       /\ pc \in {"list", "match", "stuck", "matched", "rejected"} => Opened(frames[1])
       /\ pc \in {"compile", "quoted", "set", "no fsm"} => expr = frames[1].p

\* The inductive invariant.
QuoteOK == quote \in {"", "'", "\""}
FilesInv == pc \in Loops /\ ParseOK /\ QuoteOK /\ MatchOK /\ FramesOK

-----------------------------------------------------------------------------
(* Sequences *)

LEMMA InFront ==
  ASSUME NEW S, NEW s \in Seq(S), NEW e \in S
  PROVE  LET w == <<e>> \o s
         IN  /\ w \in Seq(S) /\ Len(s) \in Nat /\ DOMAIN s = 1 .. Len(s)
             /\ Len(w) = Len(s) + 1 /\ DOMAIN w = 1 .. Len(s) + 1
             /\ w[1] = e /\ \A i \in 2 .. Len(s) + 1 : w[i] = s[i - 1]
  <1> DEFINE w == <<e>> \o s
  <1>1. <<e>> \in Seq(S) /\ Len(<<e>>) = 1 /\ <<e>>[1] = e
    OBVIOUS
  <1>2. Len(s) \in Nat /\ DOMAIN s = 1 .. Len(s)
    BY LenProperties
  <1>3. w \in Seq(S) /\ Len(w) = 1 + Len(s)
    BY <1>1, ConcatProperties
  <1>4. DOMAIN w = 1 .. Len(s) + 1
    BY <1>2, <1>3, LenProperties
  <1>5. \A i \in 1 .. 1 + Len(s) : w[i] = IF i <= 1 THEN <<e>>[i] ELSE s[i - 1]
    BY <1>1, ConcatProperties
  <1> QED
    BY <1>1, <1>2, <1>3, <1>4, <1>5

-----------------------------------------------------------------------------
(* make_fsm *)

LEMMA RuleAdded ==
  ASSUME NEW n \in Nat, NEW f \in Fsms(n), NEW s \in 0 .. n, NEW r \in Rule(n),
         NEW nd \in SUBSET (0 .. n), NEW k \in 0 .. n + 1, NEW g,
         g = [f EXCEPT !.rules[s] = <<r>> \o @, !.nondet = nd, !.n_states = k]
  PROVE  g \in Fsms(n)
  <1>1. f.rules \in [0 .. n -> Seq(Rule(n))] /\ f.rules[s] \in Seq(Rule(n))
    BY DEF Fsms
  <1>2. <<r>> \o f.rules[s] \in Seq(Rule(n))
    BY <1>1, InFront
  <1> DEFINE rs == [f.rules EXCEPT ![s] = <<r>> \o f.rules[s]]
  <1>3. rs \in [0 .. n -> Seq(Rule(n))]
    BY <1>1, <1>2
  <1>4. g = [f EXCEPT !.rules = rs, !.nondet = nd, !.n_states = k]
    OBVIOUS
  <1> HIDE DEF rs
  <1> QED
    BY <1>3, <1>4 DEF Fsms

LEMMA MultiruleOK ==
  ASSUME ParseOK, NEW min \in 1 .. 255, NEW max \in 1 .. 255, NEW next \in 0 .. Len(expr),
         NEW negative \in BOOLEAN, NEW nd \in BOOLEAN,
         add_fsm_multirule(min, max, next, negative, nd)
  PROVE  fsm' \in Fsms(Len(expr))
  <1> DEFINE n == Len(expr)
             r == [in_min |-> min, in_max |-> max, dststate |-> next, negate |-> negative]
             nds == IF nd THEN fsm.nondet \cup {state} ELSE fsm.nondet
             k == IF fsm.n_states > next + 1 THEN fsm.n_states ELSE next + 1
  <1>1. n \in Nat /\ fsm \in Fsms(n) /\ state \in 0 .. n
    BY LenProperties DEF ParseOK, Text
  <1>2. r \in Rule(n)
    BY <1>1 DEF Rule
  <1>3. nds \in SUBSET (0 .. n) /\ k \in 0 .. n + 1
    BY <1>1 DEF Fsms
  <1>4. fsm' = [fsm EXCEPT !.rules[state] = <<r>> \o @, !.nondet = nds, !.n_states = k]
    BY DEF add_fsm_multirule
  <1> HIDE DEF n, r, nds, k
  <1>5. fsm' \in Fsms(n)
    BY <1>1, <1>2, <1>3, <1>4, RuleAdded
  <1> QED
    BY <1>5 DEF n

LEMMA CharOK ==
  ASSUME ParseOK, NEW c \in DOMAIN Byte, AddChar(c), state < index, index <= Len(expr)
  PROVE  fsm' \in Fsms(Len(expr)) /\ state' = state + 1 /\ state' \in 0 .. Len(expr)
  <1>1. Byte[c] \in 1 .. 255
    BY ByteAssumption, Zenon
  <1>2. Len(expr) \in Nat /\ state + 1 \in 0 .. Len(expr)
    BY LenProperties DEF ParseOK, Text
  <1> QED
    BY <1>1, <1>2, MultiruleOK DEF AddChar

\* What one turn of the loop of make_fsm comes to.
Parsed(loop) ==
  /\ expr' = expr /\ index' \in 1 .. Len(expr) + 1 /\ state' \in 0 .. Len(expr)
  /\ fsm' \in Fsms(Len(expr)) /\ set' \in [negate : BOOLEAN, changestate : BOOLEAN]
  /\ loop \in {"compile", "quoted"} => state' < index'
  /\ loop = "set" => state' + 1 < index'
  /\ pc' = loop /\ UNCHANGED matching

LEMMA Reading1 ==
  ASSUME ParseOK
  PROVE  /\ Len(expr) \in Nat /\ index \in Nat \ {0} /\ state \in Nat
         /\ \A k \in 1 .. Len(expr) : expr[k] \in DOMAIN Byte
         /\ {"\\", "["} \subseteq DOMAIN Byte
  <1>1. Len(expr) \in Nat /\ \A k \in 1 .. Len(expr) : expr[k] \in DOMAIN Byte
    BY LenProperties, ElementOfSeq DEF ParseOK, Text
  <1>2. {"\\", "["} \subseteq DOMAIN Byte
    BY ByteAssumption, Zenon
  <1> QED
    BY <1>1, <1>2 DEF ParseOK

LEMMA EscapeOK == ASSUME ParseOK, Escape PROVE Parsed("compile")
  <1>1. pc = "compile" /\ index <= Len(expr)
    BY DEF Escape, At
  <1>2. UNCHANGED <<pc, expr, set, matching>>
    BY DEF Escape
  <1>3. PICK c \in DOMAIN Byte, k \in {index + 1, index + 2} : AddChar(c) /\ index' = k /\ k <= Len(expr) + 1
    BY <1>1, Reading1 DEF Escape
  <1> QED
    BY <1>1, <1>2, <1>3, CharOK, Reading1 DEF ParseOK, Parsed

LEMMA QuotationOK ==
  ASSUME ParseOK, OpenQuote \/ QuotedChar \/ CloseQuote \/ UnclosedQuote
  PROVE  \E loop \in {"compile", "quoted", "no fsm"} : Parsed(loop)
  <1>1. CASE OpenQuote
    <2>0. /\ pc = "compile" /\ index <= Len(expr) /\ index' = index + 1 /\ pc' = "quoted"
          /\ UNCHANGED <<expr, state, fsm, set, matching>>
      BY <1>1, Zenon DEF OpenQuote, At
    <2>1. Parsed("quoted")
      BY <2>0, Reading1 DEF ParseOK, Parsed
    <2> QED
      BY <2>1
  <1>2. CASE QuotedChar
    <2>1. pc = "quoted" /\ index <= Len(expr) /\ UNCHANGED <<pc, expr, set, matching>>
      BY <1>2 DEF QuotedChar, At
    <2>2. PICK k \in {index, index + 1} : k <= Len(expr) /\ AddChar(expr[k]) /\ index' = k + 1
      BY <1>2, Reading1 DEF QuotedChar
    <2>3. expr[k] \in DOMAIN Byte
      BY <2>2, Reading1
    <2>4. Parsed("quoted")
      BY <2>1, <2>2, <2>3, CharOK, Reading1 DEF ParseOK, Parsed
    <2> QED
      BY <2>4
  <1>3. CASE CloseQuote
    <2>1. Parsed("compile")
      BY <1>3, Reading1 DEF CloseQuote, At, ParseOK, Parsed
    <2> QED
      BY <2>1
  <1>4. CASE UnclosedQuote
    <2>1. Parsed("no fsm")
      BY <1>4, Reading1 DEF UnclosedQuote, parsing, ParseOK, Parsed
    <2> QED
      BY <2>1
  <1> QED
    BY <1>1, <1>2, <1>3, <1>4

LEMMA WildcardOK == ASSUME ParseOK, AnyChar \/ Star PROVE Parsed("compile")
  <1>1. pc = "compile" /\ index <= Len(expr) /\ index' = index + 1 /\ UNCHANGED <<pc, expr, set, matching>>
    BY DEF AnyChar, Star, At
  <1>a. 1 \in 1 .. 255 /\ 255 \in 1 .. 255 /\ FALSE \in BOOLEAN /\ TRUE \in BOOLEAN
    OBVIOUS
  <1>2. CASE AnyChar
    <2>1. state' = state + 1 /\ state + 1 \in 0 .. Len(expr)
      BY <1>1, <1>2, Reading1 DEF AnyChar, ParseOK
    <2>a. add_fsm_multirule(1, 255, state + 1, FALSE, FALSE)
      BY <1>2, Zenon DEF AnyChar
    <2>2. fsm' \in Fsms(Len(expr))
      BY <1>a, <2>1, <2>a, MultiruleOK, Zenon
    <2> QED
      BY <1>1, <2>1, <2>2, Reading1 DEF ParseOK, Parsed
  <1>3. CASE Star
    <2>1. state' = state /\ state \in 0 .. Len(expr)
      BY <1>3, Reading1 DEF Star, ParseOK
    <2>a. add_fsm_multirule(1, 255, state, FALSE, TRUE)
      BY <1>3, Zenon DEF Star
    <2>2. fsm' \in Fsms(Len(expr))
      BY <1>a, <2>1, <2>a, MultiruleOK, Zenon
    <2> QED
      BY <1>1, <2>1, <2>2, Reading1 DEF ParseOK, Parsed
  <1> QED
    BY <1>2, <1>3

LEMMA CharsOK == ASSUME ParseOK, LoneBracket \/ Literal PROVE Parsed("compile")
  <1>1. pc = "compile" /\ index <= Len(expr) /\ index' = index + 1 /\ UNCHANGED <<pc, expr, set, matching>>
    BY DEF LoneBracket, Literal, At
  <1>2. PICK c \in DOMAIN Byte : AddChar(c)
    <2>1. AddChar("[") \/ AddChar(expr[index])
      BY Zenon DEF LoneBracket, Literal
    <2>2. "[" \in DOMAIN Byte /\ expr[index] \in DOMAIN Byte
      BY <1>1, Reading1
    <2> QED
      BY <2>1, <2>2, Zenon
  <1> QED
    BY <1>1, <1>2, CharOK, Reading1 DEF ParseOK, Parsed

\* A search that begins at the terminator ends there, so that a character is
\* left behind the [ of a set.
LEMMA SetNotEmpty ==
  ASSUME ParseOK, index <= Len(expr), TRUE \in Enclosed
  PROVE  index + 1 <= Len(expr)
  <1> SUFFICES ASSUME index = Len(expr) PROVE FALSE
    BY Reading1
  <1> DEFINE end == Len(expr) + 1
  <1>1. Len(expr) \in Nat
    BY Reading1
  <1>2. ~Skipped(end, end)
    BY <1>1 DEF Skipped
  <1>3. {k \in end .. Len(expr) : expr[k] = "]" /\ ~Skipped(end, k)} = {}
    BY <1>1
  <1>4. SearchEnd(end) = end
    BY <1>2, <1>3 DEF SearchEnd
  <1>5. SearchEnd(index + 1) = Len(expr) + 1 /\ ~(Len(expr) + 1 <= Len(expr))
    BY <1>1, <1>4
  <1>6. Enclosed = {FALSE}
    BY <1>5, Zenon DEF Enclosed
  <1> QED
    BY <1>6, Zenon

LEMMA OpenSetOK == ASSUME ParseOK, OpenSet PROVE Parsed("set")
  <1>1. pc = "compile" /\ index <= Len(expr) /\ pc' = "set" /\ UNCHANGED <<expr, state, fsm, matching>>
    BY DEF OpenSet, At
  <1>2. index + 1 <= Len(expr)
    BY <1>1, SetNotEmpty DEF OpenSet
  <1>3. index' \in {index + 1, index + 2} /\ set' \in [negate : BOOLEAN, changestate : BOOLEAN]
    BY DEF OpenSet
  <1> QED
    BY <1>1, <1>2, <1>3, Reading1 DEF ParseOK, Parsed

LEMMA SetMemberOK == ASSUME ParseOK, SetMember PROVE Parsed("set")
  <1>1. pc = "set" /\ index <= Len(expr) /\ UNCHANGED <<pc, expr, state, matching>>
    BY DEF SetMember, At
  <1>2. state + 1 < index /\ state + 1 \in 0 .. Len(expr)
    BY <1>1, Reading1 DEF ParseOK
  <1>3. PICK k \in {index, index + 1}, m \in 1 .. Len(expr) :
          /\ k <= m /\ index' = m + 1
          /\ add_fsm_multirule(Byte[expr[k]], Byte[expr[m]], state + 1, set.negate, FALSE)
    <2> DEFINE k == IF expr[index] = "\\" THEN index + 1 ELSE index
               range == k < Len(expr) - 1 /\ expr[k + 1] = "-" /\ expr[k + 2] # "]"
               m == IF ~range THEN k
                    ELSE IF k < Len(expr) - 2 /\ expr[k + 2] = "\\" THEN k + 3 ELSE k + 2
    <2>1. k \in {index, index + 1} /\ k \in Nat
      BY Reading1
    <2>2. /\ k <= Len(expr) /\ index' = m + 1
          /\ add_fsm_multirule(Byte[expr[k]], Byte[expr[m]], state + 1, set.negate, FALSE)
      BY DEF SetMember
    <2> HIDE DEF k
    <2>3. m \in {k, k + 2, k + 3} /\ k <= m /\ m <= Len(expr)
      BY <2>1, <2>2, Reading1
    <2> HIDE DEF m
    <2>4. m \in 1 .. Len(expr)
      BY <2>1, <2>3, Reading1
    <2> QED
      BY <2>1, <2>2, <2>3, <2>4, Zenon
  <1>4. k \in 1 .. Len(expr)
    BY <1>1, <1>3, Reading1
  <1>5. expr[k] \in DOMAIN Byte /\ expr[m] \in DOMAIN Byte
    BY <1>3, <1>4, Reading1
  <1>6. Byte[expr[k]] \in 1 .. 255 /\ Byte[expr[m]] \in 1 .. 255
    BY <1>5, ByteAssumption, Zenon
  <1>7. set.negate \in BOOLEAN
    BY DEF ParseOK
  <1>8. fsm' \in Fsms(Len(expr))
    BY <1>2, <1>3, <1>6, <1>7, MultiruleOK
  <1>9. set' \in [negate : BOOLEAN, changestate : BOOLEAN]
    BY DEF SetMember, ParseOK
  <1> QED
    BY <1>1, <1>2, <1>3, <1>4, <1>8, <1>9, Reading1 DEF Parsed

LEMMA CloseSetOK ==
  ASSUME ParseOK, CloseSet \/ UnclosedSet
  PROVE  \E loop \in {"compile", "no fsm"} : Parsed(loop)
  <1>1. CASE CloseSet
    <2>1. Parsed("compile")
      BY <1>1, Reading1 DEF CloseSet, At, ParseOK, Parsed
    <2> QED
      BY <2>1
  <1>2. CASE UnclosedSet
    <2>1. Parsed("no fsm")
      BY <1>2, Reading1 DEF UnclosedSet, parsing, ParseOK, Parsed
    <2> QED
      BY <2>1
  <1> QED
    BY <1>1, <1>2

LEMMA CompilationOK ==
  ASSUME ParseOK, Compilation
  PROVE  /\ pc \in {"compile", "quoted", "set"}
         /\ \E loop \in {"compile", "quoted", "set", "no fsm"} : Parsed(loop)
  <1>1. pc \in {"compile", "quoted", "set"}
    BY DEF Compilation, Escape, OpenQuote, QuotedChar, CloseQuote, UnclosedQuote, AnyChar, Star,
           LoneBracket, OpenSet, SetMember, CloseSet, UnclosedSet, Literal, At
  <1> QED
    BY <1>1, EscapeOK, QuotationOK, WildcardOK, CharsOK, OpenSetOK, SetMemberOK, CloseSetOK
       DEF Compilation

-----------------------------------------------------------------------------
(* match *)

\* The places below the top are as good as all.
LEMMA Popped ==
  ASSUME NEW S, NEW s \in Seq(S), s # << >>, NEW p, Remembered(s, p)
  PROVE  /\ Tail(s) \in Seq(S) /\ Remembered(Tail(s), p)
         /\ \A i \in DOMAIN Tail(s) : Tail(s)[i].index < s[1].index
  <1> DEFINE r == Tail(s)
  <1>1. /\ r \in Seq(S) /\ Len(s) \in Nat \ {0} /\ DOMAIN s = 1 .. Len(s) /\ DOMAIN r = 1 .. Len(s) - 1
        /\ \A i \in 1 .. Len(s) - 1 : r[i] = s[i + 1]
    BY Rest
  <1> HIDE DEF r
  <1>2. \A i \in DOMAIN r : r[i] = s[i + 1] /\ i + 1 \in DOMAIN s /\ 1 < i + 1 /\ i \in Nat
    BY <1>1
  <1>3. Rising(r)
    BY <1>2 DEF Remembered, Rising
  <1>4. \A i \in DOMAIN r : r[i].index <= p /\ r[i].state \in fsm.nondet
    BY <1>2 DEF Remembered
  <1>5. \A i \in DOMAIN r : r[i].index < s[1].index
    BY <1>1, <1>2 DEF Remembered, Rising
  <1> QED
    BY <1>1, <1>3, <1>4, <1>5 DEF Remembered, r

\* Another rule is asked for at the top, and the characters behind it are to be
\* read again.
LEMMA Retried ==
  ASSUME NEW n \in Nat, NEW s \in Seq(Place(n)), s # << >>, NEW p \in Nat, Remembered(s, p),
         NEW w, w = [s EXCEPT ![1].retries = @ + 1]
  PROVE  w \in Seq(Place(n)) /\ Remembered(w, s[1].index)
  <1>1. /\ Len(s) \in Nat \ {0} /\ DOMAIN s = 1 .. Len(s) /\ s[1] \in Place(n)
        /\ \A i \in 1 .. Len(s) : s[i] \in Place(n)
    BY Rest, ElementOfSeq
  <1> DEFINE e == [s[1] EXCEPT !.retries = @ + 1]
  <1>2. e \in Place(n) /\ e.index = s[1].index /\ e.state = s[1].state
    <2> DEFINE k == s[1].retries + 1
    <2>1. k \in Nat
      BY <1>1 DEF Place
    <2>2. e = [s[1] EXCEPT !.retries = k]
      OBVIOUS
    <2> HIDE DEF k, e
    <2> QED
      BY <1>1, <2>1, <2>2 DEF Place
  <1>3. w = [s EXCEPT ![1] = e]
    OBVIOUS
  <1> HIDE DEF e
  <1>4. /\ w \in Seq(Place(n)) /\ Len(w) = Len(s)
        /\ \A j \in 1 .. Len(s) : w[j] = IF j = 1 THEN e ELSE s[j]
    <2>1. 1 \in 1 .. Len(s) /\ e \in Place(n)
      BY <1>1, <1>2
    <2>2. /\ [s EXCEPT ![1] = e] \in Seq(Place(n)) /\ Len([s EXCEPT ![1] = e]) = Len(s)
          /\ \A j \in 1 .. Len(s) : [s EXCEPT ![1] = e][j] = IF j = 1 THEN e ELSE s[j]
      BY <2>1, ExceptSeq
    <2> QED
      BY <2>2, <1>3
  <1>5. DOMAIN w = 1 .. Len(s)
    BY <1>4, LenProperties
  <1>6. \A j \in DOMAIN w : w[j].index = s[j].index /\ w[j].state = s[j].state /\ s[j].index \in Nat
    BY <1>1, <1>2, <1>4, <1>5 DEF Place
  <1>7. Rising(w)
    BY <1>1, <1>5, <1>6 DEF Remembered, Rising
  <1>8. \A j \in DOMAIN w : w[j].index <= s[1].index /\ w[j].state \in fsm.nondet
    BY <1>1, <1>5, <1>6 DEF Remembered, Rising
  <1> QED
    BY <1>4, <1>7, <1>8 DEF Remembered

\* A state with a star is put on top when it is first come to.
LEMMA PushedOK ==
  ASSUME ParseOK, MatchOK, pc = "match"
  PROVE  Pushed \in Seq(Place(Len(expr))) /\ Remembered(Pushed, pos)
  <1>1. /\ stack \in Seq(Place(Len(expr))) /\ Remembered(stack, pos) /\ cur \in 0 .. Len(expr)
        /\ pos \in Nat /\ retries \in Nat
    BY LenProperties DEF MatchOK, Text
  <1> SUFFICES ASSUME cur \in fsm.nondet, retries = 0
               PROVE  Pushed \in Seq(Place(Len(expr))) /\ Remembered(Pushed, pos)
    BY <1>1 DEF Pushed
  <1> DEFINE e == [state |-> cur, index |-> pos, retries |-> 0]
             w == <<e>> \o stack
  <1>2. e \in Place(Len(expr)) /\ e.index = pos /\ e.state = cur
    BY <1>1 DEF Place
  <1>3. Pushed = w
    BY DEF Pushed
  <1>4. \A i \in DOMAIN stack : stack[i].index < pos
    BY DEF MatchOK
  <1> HIDE DEF e
  <1>5. /\ w \in Seq(Place(Len(expr))) /\ Len(stack) \in Nat /\ DOMAIN stack = 1 .. Len(stack)
        /\ DOMAIN w = 1 .. Len(stack) + 1
        /\ w[1] = e /\ \A i \in 2 .. Len(stack) + 1 : w[i] = stack[i - 1]
    BY <1>1, <1>2, InFront
  <1> HIDE DEF w
  <1>6. \A i \in DOMAIN w : i # 1 => w[i] = stack[i - 1] /\ i - 1 \in DOMAIN stack /\ i \in Nat
    BY <1>5
  <1>7. Rising(w)
    <2> SUFFICES ASSUME NEW i \in DOMAIN w, NEW j \in DOMAIN w, i < j
                 PROVE  w[j].index < w[i].index
      BY DEF Rising
    <2>1. j # 1 /\ i \in Nat /\ j \in Nat
      BY <1>5
    <2>2. CASE i = 1
      BY <2>1, <2>2, <1>2, <1>4, <1>5, <1>6
    <2>3. CASE i # 1
      BY <2>1, <2>3, <1>1, <1>6 DEF Remembered, Rising
    <2> QED
      BY <2>2, <2>3
  <1>8. \A i \in DOMAIN w : w[i].index <= pos /\ w[i].state \in fsm.nondet
    BY <1>1, <1>2, <1>5, <1>6 DEF Remembered
  <1> QED
    BY <1>3, <1>5, <1>7, <1>8 DEF Remembered

LEMMA MatchingOK ==
  ASSUME ParseOK, MatchOK, Matching
  PROVE  /\ pc \in {"match", "stuck"} /\ pc' \in {"match", "stuck", "matched", "rejected"}
         /\ UNCHANGED parsing /\ MatchOK'
  <1> DEFINE n == Len(expr)
  <1>0. pc \in {"match", "stuck"} /\ UNCHANGED parsing /\ str' = str
    BY DEF Matching, NoState, ApplyRule, NoRule, Accept, Backtrack, Reject, Reading, Stopped
  <1>1. /\ str \in Text /\ Len(str) \in Nat /\ pos \in 0 .. Len(str) /\ retries \in Nat
        /\ cur \in 0 .. n /\ st \in {None} \cup 0 .. n
        /\ stack \in Seq(Place(n)) /\ Remembered(stack, pos) /\ n \in Nat
    BY <1>0, Reading1, LenProperties DEF MatchOK, Text
  <1>2. fsm' = fsm /\ n' = n
    BY <1>0 DEF parsing
  <1>3. CASE NoState
    <2>1. pc = "match" /\ pc' = "stuck" /\ st' = None /\ UNCHANGED <<str, cur, pos, retries, stack>>
      BY <1>3 DEF NoState, Reading
    <2> QED
      BY <2>1, <1>0, <1>1, <1>2 DEF MatchOK, Remembered, Rising
  <1>4. CASE ApplyRule
    <2>1. /\ pc = "match" /\ pc' = "match" /\ pos < Len(str)
          /\ pos' = pos + 1 /\ retries' = 0 /\ st' = cur /\ stack' = Pushed
      BY <1>4 DEF ApplyRule, Reading
    <2>2. Pushed \in Seq(Place(n)) /\ Remembered(Pushed, pos)
      BY <2>1, PushedOK
    <2>3. PICK r \in Applicable : cur' = Rules[r].dststate
      BY <1>4 DEF ApplyRule
    <2>4. Rules \in Seq(Rule(n)) /\ r \in DOMAIN Rules
      BY <1>1, <2>3 DEF ParseOK, Fsms, Rules, Applicable
    <2>5. Rules[r] \in Rule(n)
      BY <2>4, ElementOfSeq, LenProperties
    <2>6. cur' \in 0 .. n
      BY <2>3, <2>5 DEF Rule
    <2> DEFINE w == Pushed
    <2>a. w \in Seq(Place(n))
      BY <2>2
    <2> HIDE DEF w
    <2>b. \A i \in DOMAIN w : w[i] \in Place(n)
      BY <2>a, ElementOfSeq, LenProperties
    <2>7. \A i \in DOMAIN w : w[i].index \in Nat
      BY <2>b DEF Place
    <2>8. w \in Seq(Place(n)) /\ Rising(w) /\ \A i \in DOMAIN w : w[i].index <= pos /\ w[i].state \in fsm.nondet
      BY <2>2 DEF Remembered, w
    <2>9. \A i \in DOMAIN w : w[i].index < pos + 1
      BY <2>7, <2>8, <1>1
    <2>10. stack' = w /\ pos' = pos + 1 /\ pos' \in 0 .. Len(str)
      BY <2>1, <1>1 DEF w
    <2>11. Remembered(stack, pos)'
      BY <2>7, <2>8, <2>9, <2>10, <1>1, <1>2 DEF Remembered, Rising
    <2> QED
      BY <2>1, <2>6, <2>8, <2>9, <2>10, <2>11, <1>0, <1>1, <1>2 DEF MatchOK
  <1>5. CASE NoRule
    <2>1. /\ pc = "match" /\ pc' = "stuck" /\ st' = cur /\ stack' = Pushed
          /\ UNCHANGED <<str, cur, pos, retries>>
      BY <1>5 DEF NoRule, Reading
    <2>2. Pushed \in Seq(Place(n)) /\ Remembered(Pushed, pos)
      BY <2>1, PushedOK
    <2>3. Remembered(stack, pos)'
      BY <2>1, <2>2, <1>2 DEF Remembered, Rising
    <2> QED
      BY <2>1, <2>2, <2>3, <1>0, <1>1, <1>2 DEF MatchOK
  <1>6. CASE Accept \/ Reject
    <2>1. pc' \in {"matched", "rejected"} /\ UNCHANGED <<str, cur, pos, retries, st>>
      BY <1>6 DEF Accept, Reject
    <2> QED
      BY <2>1, <1>0, <1>1 DEF MatchOK
  <1>7. CASE Backtrack
    <2> DEFINE r == Remaining
    <2>1. /\ pc' = "match" /\ stack # << >> /\ r # << >>
          /\ stack' = [r EXCEPT ![1].retries = @ + 1]
          /\ cur' = Head(r).state /\ pos' = Head(r).index /\ retries' = Head(r).retries + 1
          /\ st' = st
      BY <1>7 DEF Backtrack
    <2>2. r \in Seq(Place(n)) /\ Remembered(r, pos)
      BY <2>1, <1>1, Popped DEF Remaining
    <2> HIDE DEF r
    <2>3. r[1] \in Place(n) /\ Head(r) = r[1] /\ 1 \in DOMAIN r
      BY <2>1, <2>2, Rest
    <2>4. r[1].index <= pos
      BY <2>2, <2>3 DEF Remembered
    <2>5. cur' \in 0 .. n /\ pos' \in 0 .. Len(str) /\ retries' \in Nat \ {0} /\ pos' = r[1].index
      BY <2>1, <2>3, <2>4, <1>1 DEF Place
    <2>a. pos \in Nat
      BY <1>1
    <2>6. stack' \in Seq(Place(n)) /\ Remembered(stack', r[1].index)
      BY <2>1, <2>2, <2>a, <1>1, Retried
    <2>7. Remembered(stack, pos)'
      BY <2>5, <2>6, <1>2 DEF Remembered, Rising
    <2> QED
      BY <2>1, <2>5, <2>6, <2>7, <1>0, <1>1, <1>2 DEF MatchOK
  <1> QED
    BY <1>0, <1>3, <1>4, <1>5, <1>6, <1>7
       DEF Matching, NoState, ApplyRule, NoRule, Accept, Backtrack, Reject

\* A text is about to be matched.
LEMMA StartOK ==
  ASSUME ParseOK, NEW s \in Text, StartMatch(s), UNCHANGED parsing, pc' = "match"
  PROVE  MatchOK'
  <1>1. Len(expr) \in Nat /\ Len(s) \in Nat
    BY Reading1, LenProperties DEF Text
  <1>2. stack' = << >> /\ DOMAIN << >> = {} /\ << >> \in Seq(Place(Len(expr)))
    BY EmptySeq DEF StartMatch
  <1>3. Remembered(stack, pos)'
    BY <1>2 DEF Remembered, Rising
  <1> QED
    BY <1>1, <1>2, <1>3 DEF StartMatch, MatchOK, parsing, None

-----------------------------------------------------------------------------
(* pattern_filename_gen *)

LEMMA MaxOf ==
  ASSUME NEW n \in Nat, NEW S \in SUBSET (0 .. n), S # {}
  PROVE  Max(S) \in S
  <1> DEFINE T == {n - x : x \in S}
  <1>1. T \in SUBSET Nat /\ T # {}
    <2>1. \A x \in S : x \in 0 .. n /\ n - x \in Nat
      OBVIOUS
    <2>2. T \subseteq Nat
      BY <2>1
    <2>3. PICK x \in S : TRUE
      OBVIOUS
    <2>4. n - x \in T
      BY <2>3
    <2> QED
      BY <2>2, <2>4
  <1>2. PICK d \in T : \A y \in T : d <= y
    BY <1>1, MinOf
  <1>3. PICK x \in S : d = n - x
    BY <1>2
  <1>4. \A y \in S : x >= y
    <2> TAKE y \in S
    <2>1. n - y \in T
      OBVIOUS
    <2>2. n - x <= n - y
      BY <1>2, <1>3, <2>1
    <2> QED
      BY <2>2
  <1> QED
    BY <1>3, <1>4, Zenon DEF Max

LEMMA SplitOK ==
  ASSUME NEW pat \in Text
  PROVE  Split(pat).i \in 0 .. Len(pat) /\ Split(pat).j \in 1 .. Len(pat) + 1
  <1>1. Len(pat) \in Nat /\ DOMAIN pat = 1 .. Len(pat)
    BY LenProperties DEF Text
  <1>2. ASSUME NEW S \in SUBSET (1 .. Len(pat))
        PROVE  Max({0} \cup S) \in 0 .. Len(pat) /\ Min({Len(pat) + 1} \cup S) \in 1 .. Len(pat) + 1
    <2>1. {0} \cup S \in SUBSET (0 .. Len(pat)) /\ {0} \cup S # {}
      BY <1>1
    <2>2. Max({0} \cup S) \in {0} \cup S
      BY <1>1, <2>1, MaxOf
    <2>a. Len(pat) + 1 \in 1 .. Len(pat) + 1 /\ \A x \in S : x \in 0 .. Len(pat) /\ x \in 1 .. Len(pat) + 1
      BY <1>1
    <2>b. 1 .. Len(pat) + 1 \subseteq Nat /\ 0 \in 0 .. Len(pat)
      BY <1>1
    <2>3. {Len(pat) + 1} \cup S \in SUBSET Nat /\ {Len(pat) + 1} \cup S # {}
      BY <2>a, <2>b, Zenon
    <2>4. Min({Len(pat) + 1} \cup S) \in {Len(pat) + 1} \cup S
      BY <2>3, MinOf
    <2> QED
      BY <2>a, <2>b, <2>2, <2>4, Zenon
  <1>3. PICK S \in SUBSET (1 .. Len(pat)), T \in SUBSET (1 .. Len(pat)) :
          Split(pat) = [i |-> Max({0} \cup S), j |-> Min({Len(pat) + 1} \cup T)]
    <2> DEFINE special(k) ==
                 \/ pat[k] \in {"*", "?"}
                 \/ pat[k] = "]" /\ \E o \in 1 .. k - 1 : pat[o] = "[" /\ \A n \in o .. k : pat[n] # "/"
               slashes == {k \in DOMAIN pat : pat[k] = "/"}
               behind == {k \in slashes : \E m \in 1 .. k : special(m)}
    <2>1. Split(pat) = [i |-> Max({0} \cup (slashes \ behind)), j |-> Min({Len(pat) + 1} \cup behind)]
      BY Zenon DEF Split
    <2> HIDE DEF special
    <2>2. slashes \ behind \in SUBSET (1 .. Len(pat)) /\ behind \in SUBSET (1 .. Len(pat))
      BY <1>1
    <2> HIDE DEF slashes, behind
    <2> QED
      BY <2>1, <2>2
  <1>4. Max({0} \cup S) \in 0 .. Len(pat) /\ Min({Len(pat) + 1} \cup T) \in 1 .. Len(pat) + 1
    BY <1>2
  <1> QED
    BY <1>3, <1>4

LEMMA EmptyFsmOK == ASSUME NEW n \in Nat PROVE EmptyFsm(n) \in Fsms(n)
  <1>1. << >> \in Seq(Rule(n))
    BY EmptySeq
  <1> QED
    BY <1>1 DEF EmptyFsm, Fsms

\* A part of a text, and what opendir is given when there is no slash.
LEMMA PartOK ==
  /\ Here \in Text
  /\ \A s \in Text : \A a, b \in Int : 0 < a /\ b <= Len(s) => SubSeq(s, a, b) \in Text
  /\ \A s, r \in Text : s \o r \in Text
  <1>1. "." \in DOMAIN Byte
    BY EntriesAssumption, Zenon
  <1>2. Here \in Text
    BY <1>1 DEF Here, Text
  <1>3. ASSUME NEW s \in Text, NEW a \in Int, NEW b \in Int, 0 < a, b <= Len(s)
        PROVE  SubSeq(s, a, b) \in Text
    <2>1. Len(s) \in Nat /\ \A i \in 1 .. Len(s) : s[i] \in DOMAIN Byte
      BY LenProperties, ElementOfSeq DEF Text
    <2>2. \A i \in a .. b : s[i] \in DOMAIN Byte
      BY <1>3, <2>1
    <2> QED
      BY <2>2, SubSeqProperties DEF Text
  <1>4. ASSUME NEW s \in Text, NEW r \in Text PROVE s \o r \in Text
    BY ConcatProperties DEF Text
  <1> QED
    BY <1>2, <1>3, <1>4

LEMMA FrameOK ==
  ASSUME NEW w \in Text
  PROVE  Frame(w) \in FrameSet /\ Frame(w).pat = w /\ Frame(w).j <= Len(w) + 1
  <1> DEFINE i == Split(w).i
             j == Split(w).j
             d == IF i = 0 THEN Here ELSE SubSeq(w, 1, i)
             p == SubSeq(w, i + 1, j - 1)
  <1>1. Len(w) \in Nat /\ i \in 0 .. Len(w) /\ j \in 1 .. Len(w) + 1
    BY SplitOK, LenProperties DEF Text
  <1> HIDE DEF i, j
  <1>2. d \in Text /\ p \in Text
    BY <1>1, PartOK
  <1>3. EmptyFsm(0) \in UNION {Fsms(n) : n \in Nat}
    <2>1. EmptyFsm(0) \in Fsms(0)
      BY EmptyFsmOK
    <2> QED
      BY <2>1
  <1>4. Frame(w) = [pat |-> w, j |-> j, dir |-> d, recur |-> j <= Len(w), p |-> p, left |-> {},
                    matches |-> 0, fsm |-> EmptyFsm(0)]
    BY Zenon DEF Frame, i, j
  <1> HIDE DEF d, p
  <1> QED
    BY <1>1, <1>2, <1>3, <1>4 DEF FrameSet

\* The innermost call goes on.
LEMMA TopSet ==
  ASSUME NEW s, Calls(s), s # << >>, NEW e \in FrameSet, e.j <= Len(e.pat) + 1
  PROVE  /\ Calls([s EXCEPT ![1] = e]) /\ [s EXCEPT ![1] = e] # << >>
         /\ [s EXCEPT ![1] = e][1] = e
  <1> DEFINE w == [s EXCEPT ![1] = e]
  <1>1. s \in Seq(FrameSet) /\ Len(s) \in Nat \ {0} /\ DOMAIN s = 1 .. Len(s)
    BY Rest DEF Calls
  <1>2. /\ w \in Seq(FrameSet) /\ Len(w) = Len(s)
        /\ \A j \in 1 .. Len(s) : w[j] = IF j = 1 THEN e ELSE s[j]
    BY <1>1, ExceptSeq
  <1> HIDE DEF w
  <1>3. DOMAIN w = 1 .. Len(s) /\ w # << >>
    BY <1>1, <1>2, LenProperties
  <1>4. Calls(w) /\ w # << >> /\ w[1] = e
    BY <1>1, <1>2, <1>3 DEF Calls
  <1> QED
    BY <1>4 DEF w

LEMMA TopIs ==
  ASSUME FramesOK, frames # << >>
  PROVE  /\ Calls(frames) /\ top = frames[1] /\ top \in FrameSet /\ top.j <= Len(top.pat) + 1
         /\ Len(frames) \in Nat \ {0} /\ DOMAIN frames = 1 .. Len(frames)
         /\ \A i \in 1 .. Len(frames) : frames[i] \in FrameSet
  <1>1. frames \in Seq(FrameSet)
    BY DEF FramesOK, Calls
  <1> QED
    BY <1>1, Rest, ElementOfSeq DEF FramesOK, Calls, top

\* What the steps of pattern_filename_gen that change neither loop of Pattern
\* have to show.
LEMMA Goes ==
  ASSUME FilesInv, pc' \in {"call", "list", "done"}, UNCHANGED parsing, UNCHANGED matching,
         frames' # << >> => Calls(frames') /\ (pc' = "list" => Opened(frames'[1])),
         frames' = << >> => frames = << >>
  PROVE  FilesInv'
  <1>1. pc' \in Loops
    BY DEF Loops
  <1>2. ParseOK' /\ QuoteOK'
    BY DEF FilesInv, ParseOK, QuoteOK, parsing
  <1>3. MatchOK'
    BY DEF FilesInv, MatchOK, matching
  <1>4. Calls(frames')
    BY DEF FilesInv, FramesOK
  <1>5. FramesOK'
    BY <1>4 DEF FramesOK, Opened, Calls
  <1> QED
    BY <1>1, <1>2, <1>3, <1>5 DEF FilesInv

LEMMA ReturnOK ==
  ASSUME FilesInv, frames # << >>, NEW n \in Nat, Return(n), UNCHANGED matching
  PROVE  FilesInv'
  <1>1. /\ Calls(frames) /\ Len(frames) \in Nat \ {0} /\ DOMAIN frames = 1 .. Len(frames)
        /\ \A i \in 1 .. Len(frames) : frames[i] \in FrameSet
    BY TopIs DEF FilesInv
  <1>2. CASE Len(frames) = 1
    <2>1. pc' = "done" /\ UNCHANGED <<frames, parsing>>
      BY <1>2 DEF Return
    <2> QED
      BY <1>1, <2>1, Goes
  <1>3. CASE Len(frames) # 1
    <2> DEFINE r == Tail(frames)
               e == [r[1] EXCEPT !.matches = @ + n]
    <2>1. /\ frames' = [r EXCEPT ![1].matches = @ + n]
          /\ fsm' = frames[2].fsm /\ expr' = frames[2].p /\ pc' = "list"
          /\ index' = 1 /\ state' = 0 /\ UNCHANGED <<set, quote>>
      BY <1>3 DEF Return
    <2>2. /\ r \in Seq(FrameSet) /\ Len(r) = Len(frames) - 1 /\ DOMAIN r = 1 .. Len(frames) - 1
          /\ \A i \in 1 .. Len(frames) - 1 : r[i] = frames[i + 1]
      BY <1>1, Rest DEF Calls
    <2>a. Len(frames) >= 2
      BY <1>1, <1>3
    <2>b. r # << >>
      <3>1. Len(r) # 0
        BY <1>1, <2>2, <2>a
      <3> HIDE DEF r
      <3> QED
        BY <3>1
    <2>3. 2 \in DOMAIN frames /\ r[1] = frames[2] /\ r # << >>
      BY <1>1, <2>2, <2>a, <2>b
    <2> HIDE DEF r
    <2>4. frames[2] \in FrameSet /\ Opened(frames[2]) /\ frames[2].j <= Len(frames[2].pat) + 1
      BY <1>1, <2>3 DEF Calls
    <2>5. \A i \in DOMAIN r : r[i] = frames[i + 1] /\ i + 1 \in DOMAIN frames /\ i + 1 > 1
      BY <1>1, <2>2
    <2>6. Calls(r)
      BY <2>2, <2>5, <1>1 DEF Calls
    <2>7. /\ e \in FrameSet /\ e.j <= Len(e.pat) + 1 /\ e.p = frames[2].p /\ e.fsm = frames[2].fsm
      BY <2>3, <2>4 DEF FrameSet
    <2>8. frames' = [r EXCEPT ![1] = e]
      BY <2>1
    <2> HIDE DEF e
    <2>9. Calls(frames') /\ frames' # << >> /\ frames'[1] = e
      <3>1. Calls([r EXCEPT ![1] = e]) /\ [r EXCEPT ![1] = e] # << >> /\ [r EXCEPT ![1] = e][1] = e
        BY <2>3, <2>6, <2>7, TopSet
      <3> QED
        BY <2>8, <3>1
    <2>10. Opened(frames'[1])
      BY <2>4, <2>7, <2>9 DEF Opened
    <2>11. expr' \in Text /\ Len(expr') \in Nat /\ fsm' \in Fsms(Len(expr'))
      BY <2>1, <2>4, LenProperties DEF FrameSet, Opened, Text
    <2>12. ParseOK'
      BY <2>1, <2>11 DEF FilesInv, ParseOK
    <2>q. QuoteOK'
      BY <2>1, Zenon DEF FilesInv, QuoteOK
    <2>13. MatchOK'
      BY <2>1 DEF FilesInv, MatchOK, matching
    <2>14. FramesOK'
      BY <2>1, <2>9, <2>10 DEF FramesOK, Calls, Opened
    <2> QED
      BY <2>1, <2>12, <2>q, <2>13, <2>14 DEF FilesInv, Loops
  <1> QED
    BY <1>2, <1>3

\* The automaton of the innermost call is being made.
LEMMA CompilePartOK == ASSUME FilesInv, frames # << >>, CompilePart PROVE FilesInv'
  <1>1. top = frames[1] /\ top \in FrameSet
    BY TopIs DEF FilesInv
  <1>2. /\ expr' = top.p /\ index' = 1 /\ state' = 0 /\ fsm' = EmptyFsm(Len(top.p))
        /\ pc' = "compile" /\ UNCHANGED <<set, quote, matching, files>>
    BY DEF CompilePart, Compile
  <1>3. top.p \in Text /\ Len(top.p) \in Nat
    BY <1>1, LenProperties DEF FrameSet, Text
  <1>4. fsm' \in Fsms(Len(expr'))
    BY <1>2, <1>3, EmptyFsmOK
  <1>5. ParseOK'
    BY <1>2, <1>3, <1>4 DEF FilesInv, ParseOK
  <1>q. QuoteOK'
    BY <1>2, Zenon DEF FilesInv, QuoteOK
  <1>6. MatchOK'
    BY <1>2 DEF FilesInv, MatchOK, matching
  <1>7. FramesOK'
    BY <1>1, <1>2 DEF FilesInv, FramesOK, Calls, Opened, files
  <1> QED
    BY <1>2, <1>5, <1>q, <1>6, <1>7 DEF FilesInv, Loops

LEMMA OpenDirOK == ASSUME FilesInv, frames # << >>, OpenDir PROVE FilesInv'
  <1> DEFINE e == [frames[1] EXCEPT !.left = Listing(top.dir), !.fsm = fsm]
  <1>1. /\ pc = "compile" /\ pc' = "list" /\ UNCHANGED parsing /\ UNCHANGED matching
        /\ frames' = [frames EXCEPT ![1].left = Listing(top.dir), ![1].fsm = fsm]
    BY DEF OpenDir
  <1>2. /\ Calls(frames) /\ top = frames[1] /\ top \in FrameSet /\ top.j <= Len(top.pat) + 1
    BY TopIs DEF FilesInv
  <1>3. Listing(top.dir) \in SUBSET Text
    BY EntriesAssumption DEF Listing, Text
  <1>4. expr = frames[1].p /\ fsm \in Fsms(Len(frames[1].p)) /\ Len(frames[1].p) \in Nat
    BY <1>1, Reading1 DEF FilesInv, FramesOK, ParseOK
  <1>5. fsm \in UNION {Fsms(n) : n \in Nat}
    BY <1>4
  <1>6. e \in FrameSet /\ e.j <= Len(e.pat) + 1 /\ Opened(e)
    BY <1>2, <1>3, <1>4, <1>5 DEF FrameSet, Opened
  <1>7. frames' = [frames EXCEPT ![1] = e]
    BY <1>1
  <1> HIDE DEF e
  <1>8. Calls(frames') /\ frames'[1] = e
    BY <1>2, <1>6, <1>7, TopSet
  <1> QED
    BY <1>1, <1>6, <1>8, Goes

LEMMA ReadDirOK == ASSUME FilesInv, frames # << >>, ReadDir PROVE FilesInv'
  <1>1. /\ Calls(frames) /\ top = frames[1] /\ top \in FrameSet /\ top.j <= Len(top.pat) + 1
    BY TopIs DEF FilesInv
  <1>2. PICK name \in top.left :
          /\ frames' = [frames EXCEPT ![1].left = @ \ {name}]
          /\ IF Hidden(name) THEN UNCHANGED <<pc, matching>>
             ELSE StartMatch(name) /\ pc' = "match"
    BY Zenon DEF ReadDir
  <1>3. pc = "list" /\ UNCHANGED parsing
    BY DEF ReadDir
  <1> DEFINE e == [frames[1] EXCEPT !.left = @ \ {name}]
  <1>4. e \in FrameSet /\ e.j <= Len(e.pat) + 1 /\ e.p = frames[1].p /\ e.fsm = frames[1].fsm
    BY <1>1 DEF FrameSet
  <1>5. frames' = [frames EXCEPT ![1] = e]
    BY <1>2
  <1> HIDE DEF e
  <1>6. Calls(frames') /\ frames'[1] = e /\ frames' # << >>
    <2>1. /\ Calls([frames EXCEPT ![1] = e]) /\ [frames EXCEPT ![1] = e] # << >>
          /\ [frames EXCEPT ![1] = e][1] = e
      BY <1>1, <1>4, TopSet
    <2> QED
      BY <1>5, <2>1
  <1>7. Opened(frames'[1])
    BY <1>3, <1>4, <1>6 DEF FilesInv, FramesOK, Opened
  <1>8. CASE Hidden(name)
    <2>1. pc' = "list" /\ UNCHANGED matching
      BY <1>2, <1>3, <1>8
    <2> QED
      BY <1>3, <1>6, <1>7, <2>1, Goes
  <1>9. CASE ~Hidden(name)
    <2>1. pc' = "match" /\ StartMatch(name) /\ name \in Text
      BY <1>1, <1>2, <1>9 DEF FrameSet
    <2>2. MatchOK'
      BY <1>3, <2>1, StartOK DEF FilesInv
    <2>3. ParseOK' /\ QuoteOK'
      BY <1>3, <2>1 DEF FilesInv, ParseOK, QuoteOK, parsing
    <2>4. FramesOK'
      BY <1>6, <1>7, <2>1 DEF FramesOK, Calls, Opened
    <2> QED
      BY <2>1, <2>2, <2>3, <2>4 DEF FilesInv, Loops
  <1> QED
    BY <1>8, <1>9

LEMMA EnqueueOK == ASSUME FilesInv, frames # << >>, Enqueue PROVE FilesInv'
  <1> DEFINE e == [frames[1] EXCEPT !.matches = @ + 1]
  <1>1. /\ pc = "matched" /\ pc' = "list" /\ UNCHANGED parsing /\ UNCHANGED matching
        /\ frames' = [frames EXCEPT ![1].matches = @ + 1]
    BY DEF Enqueue
  <1>2. /\ Calls(frames) /\ top = frames[1] /\ top \in FrameSet /\ top.j <= Len(top.pat) + 1
    BY TopIs DEF FilesInv
  <1>3. e \in FrameSet /\ e.j <= Len(e.pat) + 1 /\ e.p = frames[1].p /\ e.fsm = frames[1].fsm
    BY <1>2 DEF FrameSet
  <1>4. frames' = [frames EXCEPT ![1] = e]
    BY <1>1
  <1> HIDE DEF e
  <1>5. Calls(frames') /\ frames'[1] = e
    <2>1. Calls([frames EXCEPT ![1] = e]) /\ [frames EXCEPT ![1] = e][1] = e
      BY <1>2, <1>3, TopSet
    <2> QED
      BY <1>4, <2>1
  <1>6. Opened(frames'[1])
    BY <1>1, <1>3, <1>5 DEF FilesInv, FramesOK, Opened
  <1> QED
    BY <1>1, <1>5, <1>6, Goes

\* The call that recurs has made its automaton.
LEMMA RecurseOK == ASSUME FilesInv, frames # << >>, Recurse PROVE FilesInv'
  <1> DEFINE w == Path \o SubSeq(top.pat, top.j, Len(top.pat))
             e == Frame(w)
  <1>1. /\ pc = "matched" /\ pc' = "call" /\ UNCHANGED parsing /\ UNCHANGED matching
        /\ frames' = <<e>> \o frames
    BY DEF Recurse
  <1>2. /\ Calls(frames) /\ top = frames[1] /\ top \in FrameSet /\ Len(frames) \in Nat \ {0}
        /\ DOMAIN frames = 1 .. Len(frames)
    BY TopIs DEF FilesInv
  <1>3. str \in Text /\ top.dir \in Text /\ top.pat \in Text /\ top.j \in Nat \ {0}
    BY <1>2 DEF FilesInv, MatchOK, FrameSet
  <1>4. Len(top.pat) \in Nat
    BY <1>3, LenProperties DEF Text
  <1>5. Path \in Text /\ SubSeq(top.pat, top.j, Len(top.pat)) \in Text
    BY <1>3, <1>4, PartOK DEF Path
  <1>6. w \in Text
    BY <1>5, PartOK
  <1> HIDE DEF w
  <1>7. e \in FrameSet /\ e.j <= Len(e.pat) + 1
    BY <1>6, FrameOK
  <1> HIDE DEF e
  <1>8. /\ frames' \in Seq(FrameSet) /\ DOMAIN frames' = 1 .. Len(frames) + 1
        /\ frames'[1] = e /\ \A i \in 2 .. Len(frames) + 1 : frames'[i] = frames[i - 1]
    BY <1>1, <1>2, <1>7, InFront DEF Calls
  <1>9. Opened(frames[1])
    BY <1>1 DEF FilesInv, FramesOK
  <1>10. \A i \in DOMAIN frames' : i > 1 => frames'[i] = frames[i - 1] /\ i - 1 \in DOMAIN frames
    BY <1>2, <1>8
  <1>11. Calls(frames')
    <2> SUFFICES ASSUME NEW i \in DOMAIN frames'
                 PROVE  frames'[i].j <= Len(frames'[i].pat) + 1 /\ (i > 1 => Opened(frames'[i]))
      BY <1>8 DEF Calls
    <2>1. CASE i = 1
      BY <1>7, <1>8, <2>1
    <2>2. CASE i > 1
      <3>1. frames'[i] = frames[i - 1] /\ i - 1 \in DOMAIN frames
        BY <1>10, <2>2
      <3>2. i - 1 = 1 \/ i - 1 > 1
        BY <1>2, <3>1
      <3> QED
        BY <1>2, <1>9, <3>1, <3>2 DEF Calls
    <2> QED
      BY <1>8, <2>1, <2>2
  <1>12. frames' # << >>
    BY <1>2, <1>8
  <1> QED
    BY <1>1, <1>11, <1>12, Goes

LEMMA SkipOK == ASSUME FilesInv, frames # << >>, Skip PROVE FilesInv'
  <1>1. /\ pc \in {"rejected", "matched"} /\ pc' = "list" /\ UNCHANGED parsing /\ UNCHANGED matching
        /\ frames' = frames
    BY DEF Skip, files
  <1> QED
    BY <1>1, Goes DEF FilesInv, FramesOK

-----------------------------------------------------------------------------
LEMMA QuoteKept == ASSUME QuoteOK, Compilation PROVE QuoteOK'
  <1>1. CASE OpenQuote
    BY <1>1, Zenon DEF OpenQuote, QuoteOK
  <1>2. CASE quote' = quote
    BY <1>2, Zenon DEF QuoteOK
  <1>3. OpenQuote \/ quote' = quote
    BY Zenon DEF Compilation, Escape, QuotedChar, CloseQuote, UnclosedQuote, AnyChar, Star,
         LoneBracket, OpenSet, SetMember, CloseSet, UnclosedSet, Literal, parsing
  <1> QED
    BY <1>1, <1>2, <1>3

LEMMA InitOK == FilesInit => FilesInv
  <1> SUFFICES ASSUME FilesInit PROVE FilesInv
    OBVIOUS
  <1>1. /\ \/ pc = "compile" /\ expr \in Patterns /\ frames = << >>
           \/ pc = "call" /\ expr = << >> /\ \E w \in Words : frames = <<Frame(w)>>
        /\ index = 1 /\ state = 0 /\ fsm = EmptyFsm(Len(expr))
        /\ set = [negate |-> FALSE, changestate |-> FALSE]
        /\ str = << >> /\ pos = 0 /\ retries = 0
    BY Zenon DEF FilesInit
  <1>2. QuoteOK
    BY Zenon DEF FilesInit, QuoteOK
  <1>3. << >> \in Text
    BY EmptySeq DEF Text
  <1>4. expr \in Text /\ Len(expr) \in Nat
    BY <1>1, <1>3, PatternsAssumption, LenProperties DEF Text
  <1>5. ParseOK
    BY <1>1, <1>4, EmptyFsmOK DEF ParseOK
  <1>6. MatchOK
    BY <1>1, <1>3, LenProperties DEF MatchOK, Text
  <1>7. Calls(<< >>)
    BY EmptySeq DEF Calls
  <1>8. CASE pc = "compile" /\ frames = << >>
    BY <1>2, <1>5, <1>6, <1>7, <1>8 DEF FilesInv, FramesOK, Loops
  <1>9. CASE pc = "call" /\ \E w \in Words : frames = <<Frame(w)>>
    <2>1. PICK w \in Words : frames = <<Frame(w)>>
      BY <1>9
    <2>2. w \in Text
      BY WordsAssumption DEF Text
    <2>3. Frame(w) \in FrameSet /\ Frame(w).j <= Len(Frame(w).pat) + 1
      BY <2>2, FrameOK
    <2> DEFINE e == Frame(w)
    <2>4. e \in FrameSet /\ e.j <= Len(e.pat) + 1
      BY <2>3
    <2> HIDE DEF e
    <2>5. <<e>> \in Seq(FrameSet) /\ DOMAIN <<e>> = {1} /\ <<e>>[1] = e
      BY <2>4
    <2>6. frames = <<e>>
      BY <2>1 DEF e
    <2>7. Calls(frames)
      BY <2>4, <2>5, <2>6 DEF Calls
    <2> QED
      BY <1>2, <1>5, <1>6, <1>9, <2>7 DEF FilesInv, FramesOK, Loops
  <1> QED
    BY <1>1, <1>8, <1>9

LEMMA NextOK == FilesInv /\ [FilesNext]_allVars => FilesInv'
  <1> SUFFICES ASSUME FilesInv, [FilesNext]_allVars PROVE FilesInv'
    OBVIOUS
  <1>1. CASE Compilation /\ UNCHANGED files
    <2>1. pc \in {"compile", "quoted", "set"}
      BY <1>1, CompilationOK DEF FilesInv
    <2>2. PICK loop \in {"compile", "quoted", "set", "no fsm"} : Parsed(loop)
      BY <1>1, CompilationOK DEF FilesInv
    <2>3. ParseOK' /\ QuoteOK'
      BY <1>1, <2>2, QuoteKept DEF FilesInv, ParseOK, Parsed
    <2>4. MatchOK'
      BY <2>2 DEF Parsed, FilesInv, MatchOK, matching
    <2>5. FramesOK'
      BY <1>1, <2>1, <2>2 DEF Parsed, FilesInv, FramesOK, Calls, Opened, files
    <2> QED
      BY <2>2, <2>3, <2>4, <2>5 DEF Parsed, FilesInv, Loops, Final
  <1>2. CASE Matching /\ UNCHANGED files
    <2>1. /\ pc \in {"match", "stuck"} /\ pc' \in {"match", "stuck", "matched", "rejected"}
          /\ UNCHANGED parsing /\ MatchOK'
      BY <1>2, MatchingOK DEF FilesInv
    <2>2. ParseOK' /\ QuoteOK'
      BY <2>1 DEF FilesInv, ParseOK, QuoteOK, parsing
    <2>3. FramesOK'
      BY <1>2, <2>1 DEF FilesInv, FramesOK, Calls, Opened, files
    <2> QED
      BY <2>1, <2>2, <2>3 DEF FilesInv, Loops, Final
  <1>3. CASE frames = << >> /\ Compiled /\ UNCHANGED files
    <2>1. PICK s \in Subjects : StartMatch(s)
      BY <1>3 DEF Compiled
    <2>2. pc' = "match" /\ UNCHANGED parsing /\ s \in Text /\ frames' = << >>
      BY <1>3, SubjectsAssumption DEF Compiled, Text, files
    <2>3. MatchOK'
      BY <2>1, <2>2, StartOK DEF FilesInv
    <2>4. ParseOK' /\ QuoteOK'
      BY <2>2 DEF FilesInv, ParseOK, QuoteOK, parsing
    <2>5. FramesOK'
      BY <1>3, <2>2 DEF FilesInv, FramesOK, Calls, Opened
    <2> QED
      BY <2>2, <2>3, <2>4, <2>5 DEF FilesInv, Loops
  <1>4. CASE frames # << >> /\ pattern_filename_gen
    <2>1. CASE MallocError
      BY <1>4, <2>1, ReturnOK DEF MallocError
    <2>2. CASE DirectoryOnly
      BY <1>4, <2>2, ReturnOK DEF DirectoryOnly
    <2>3. CASE PatternError
      BY <1>4, <2>3, ReturnOK DEF PatternError
    <2>4. CASE CloseDir
      <3>1. top.matches \in Nat
        BY <1>4, TopIs DEF FilesInv, FrameSet
      <3> QED
        BY <1>4, <2>4, <3>1, ReturnOK DEF CloseDir
    <2> QED
      BY <1>4, <2>1, <2>2, <2>3, <2>4, CompilePartOK, OpenDirOK, ReadDirOK, EnqueueOK, RecurseOK, SkipOK
         DEF pattern_filename_gen
  <1>5. CASE UNCHANGED allVars
    BY <1>5 DEF allVars, vars, files, parsing, matching, FilesInv, ParseOK, QuoteOK, MatchOK, FramesOK,
         Remembered, Rising, Calls, Opened
  <1> QED
    BY <1>1, <1>2, <1>3, <1>4, <1>5 DEF FilesNext

\* For every set of patterns, texts, words and directories: what make_fsm,
\* match and pattern_filename_gen rely on of each other holds in each turn.
THEOREM Matched == FilesSpec => []FilesInv
  BY InitOK, NextOK, PTL DEF FilesSpec

\* make_fsm never numbers more states than it has read characters, whatever it
\* is given, and match is only ever in a state that has been numbered, with the
\* automaton of the call that goes on.
THEOREM PatternTypes == FilesSpec => []TypeOK
  <1>1. FilesInv => TypeOK
    <2> SUFFICES ASSUME FilesInv PROVE TypeOK
      OBVIOUS
    <2>1. fsm \in [rules : [0 .. Len(expr) -> Seq(Rule(Len(expr)))],
                   nondet : SUBSET (0 .. Len(expr)), n_states : 0 .. Len(expr) + 1]
      BY DEF FilesInv, ParseOK, Fsms
    <2>2. /\ pc \in Final \cup {"compile", "quoted", "set", "match", "stuck", "call", "list", "done"}
          /\ expr \in Seq(DOMAIN Byte) /\ index \in 1 .. Len(expr) + 1
          /\ state \in 0 .. Len(expr)
          /\ pc \in {"compile", "quoted"} => state < index
          /\ pc = "set" => state + 1 < index
          /\ set \in [negate : BOOLEAN, changestate : BOOLEAN]
      BY DEF FilesInv, ParseOK, Loops, Text
    <2>3. /\ str \in Seq(DOMAIN Byte) /\ pos \in 0 .. Len(str)
          /\ retries \in Nat
          /\ pc \in {"match", "stuck"} =>
               cur \in 0 .. Len(expr) /\ st \in {None} \cup 0 .. Len(expr) /\ stack \in Seq(Place(Len(expr)))
      BY DEF FilesInv, MatchOK, Text
    <2>4. QuoteOK
      BY DEF FilesInv
    <2> QED
      BY <2>1, <2>2, <2>3, <2>4, Zenon DEF TypeOK, QuoteOK
  <1> QED
    BY <1>1, Matched, PTL

\* match remembers a place once at most and comes back to the last one first:
\* the condition on retries == 0 under which it pushes is enough.
THEOREM PlacesRise == FilesSpec => []StackRising
  <1>1. FilesInv => StackRising
    BY DEF FilesInv, MatchOK, Remembered, Rising, StackRising
  <1> QED
    BY <1>1, Matched, PTL
=============================================================================
