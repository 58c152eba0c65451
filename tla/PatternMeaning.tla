--------------------------- MODULE PatternMeaning ---------------------------
(***************************************************************************)
(* What a pattern means: its text is a sequence of elements, and each is a *)
(* star, standing for any text, or a set of characters, standing for one   *)
(* of them.  No automaton and no stack.                                    *)
(***************************************************************************)
EXTENDS FileNames

Chars == DOMAIN Byte
Between(c, d) == {x \in Chars : Byte[c] <= Byte[x] /\ Byte[x] <= Byte[d]}

\* An element: which characters, "star" or "one", or "open" for a quotation
\* that does not end; whether it is a negated set of several members.
Element(kind, chars) == [kind |-> kind, chars |-> chars, several |-> FALSE]

\* A backslash takes the character behind it away from every other rule.
Escaped(p, k) ==
  \E r \in 1 .. k - 1 :
    /\ r % 2 = 1 /\ \A b \in k - r .. k - 1 : p[b] = "\\"
    /\ k - r > 1 => p[k - r - 1] # "\\"

\* The [ at i opens a set if an unescaped ] follows.
Closed(p, i) ==
  \E k \in i + 1 .. Len(p) :
    p[k] = "]" /\ ~Escaped(SubSeq(p, i + 1, Len(p)), k - i)

RECURSIVE Members(_, _)
\* The members of a set from i to its ], as a sequence of sets, and where it ends.
Members(p, i) ==
  LET Literally(k) == IF p[k] = "\\" THEN k + 1 ELSE k
      k == Literally(i)
      range == p[k + 1] = "-" /\ p[k + 2] # "]"
      m == IF range THEN Literally(k + 2) ELSE k
      rest == Members(p, m + 1)
  IN  IF p[i] = "]" THEN [sets |-> << >>, next |-> i + 1]
      ELSE [sets |-> <<Between(p[k], p[m])>> \o rest.sets, next |-> rest.next]

RECURSIVE Elements(_, _, _)
\* The elements of p from i on, within the quotation in or outside of any.
Elements(p, i, in) ==
  LET then(e, next) == <<e>> \o Elements(p, next, in)
      one(k) == then(Element("one", {p[k]}), k + 1)
      negated == p[i + 1] = "^"
      m == Members(p, IF negated THEN i + 2 ELSE i + 1)
      union == UNION {m.sets[k] : k \in DOMAIN m.sets}
  IN  IF i > Len(p) THEN IF in = "" THEN << >> ELSE <<Element("open", {})>>
      ELSE IF p[i] = "\\" THEN IF i = Len(p) THEN one(i) ELSE one(i + 1)
      ELSE IF in # "" THEN IF p[i] = in THEN Elements(p, i + 1, "") ELSE one(i)
      ELSE IF p[i] \in {"'", "\""} THEN Elements(p, i + 1, p[i])
      ELSE IF p[i] = "*" THEN then(Element("star", Chars), i + 1)
      ELSE IF p[i] = "?" THEN then(Element("one", Chars), i + 1)
      ELSE IF p[i] # "[" \/ ~Closed(p, i) THEN one(i)
      ELSE IF m.sets = << >> THEN Elements(p, m.next, in)
      ELSE then([kind |-> "one", several |-> negated /\ Len(m.sets) > 1,
                 chars |-> IF negated THEN Chars \ union ELSE union], m.next)

ElementsOf(p) == Elements(p, 1, "")

RECURSIVE Means(_, _)
\* Whether the elements es stand for the text s.
Means(es, s) ==
  IF es = << >> THEN s = << >>
  ELSE IF Head(es).kind = "star"
       THEN \E k \in 0 .. Len(s) : Means(Tail(es), SubSeq(s, k + 1, Len(s)))
  ELSE s # << >> /\ Head(s) \in Head(es).chars /\ Means(Tail(es), Tail(s))

Unclosed(p) == \E k \in DOMAIN ElementsOf(p) : ElementsOf(p)[k].kind = "open"

\* Patterns for which the code does something else: an empty one matches
\* nothing, a negated set of several members matches nearly everything, and
\* the search for a ] may go past the end.
Understood(p) ==
  /\ ElementsOf(p) # << >>
  /\ \A k \in DOMAIN ElementsOf(p) : ~ElementsOf(p)[k].several
  /\ \A i \in DOMAIN p : p[i] = "[" => ~Escaped(Append(p, "]"), Len(p) + 1)

-----------------------------------------------------------------------------
(* The names a word stands for: part by part, a part without pattern        *)
(* characters is taken as it is, the last one is a name or nothing.         *)

Magic(p) ==
  \E k \in DOMAIN p :
    p[k] \in {"*", "?"} \/ (p[k] = "]" /\ \E o \in 1 .. k - 1 : p[o] = "[")

Listed(p, name) ==
  Means(ElementsOf(p), name) /\ (p[1] \in {"*", "?"} => name[1] # ".")

RECURSIVE Names(_, _)
\* The names that the rest w of a word stands for in the directory dir.
Names(dir, w) ==
  LET slashes == {k \in DOMAIN w : w[k] = "/"}
      cut == IF slashes = {} THEN Len(w) + 1 ELSE CHOOSE k \in slashes : \A n \in slashes : k <= n
      part == SubSeq(w, 1, cut - 1)
      rest == SubSeq(w, cut + 1, Len(w))
      listed == {n \in Listing(IF dir = << >> THEN Here ELSE dir) : Listed(part, n)}
  IN  IF w = << >> THEN {dir}
      ELSE IF slashes = {} THEN {dir \o n : n \in listed}
      ELSE IF ~Magic(part) THEN Names(dir \o part \o <<"/">>, rest)
      ELSE UNION {Names(dir \o n \o <<"/">>, rest) : n \in {x \in listed : IsDir(dir \o x)}}

-----------------------------------------------------------------------------
(* Properties *)

\* A pattern matches the texts it stands for and no others, and is refused only
\* if a quotation is not closed.
MatchesAsMeant ==
  frames = << >> /\ pc \in Final /\ Understood(expr) =>
    /\ pc = "no fsm" <=> Unclosed(expr)
    /\ pc = "matched" => Means(ElementsOf(expr), str)
    /\ pc = "rejected" => ~Means(ElementsOf(expr), str)

\* A word becomes the names it stands for, each once and in order, and their
\* number is returned, unless an error was reported.
FilesAsMeant ==
  pc = "done" /\ ~err_occured =>
    /\ ToSet(q) = Names(<< >>, Last(frames).pat)
    /\ \A k \in 1 .. Len(q) - 1 : Less(q[k], q[k + 1])
    /\ found = Len(q)

\* Every call of pattern_match and pattern_filename_gen comes back.
CallsEnd == <>(pc = "done" \/ (frames = << >> /\ pc \in Final))
=============================================================================
