------------------------------- MODULE MCExec -------------------------------
(* Instances of Exec for TLC: the trees the parser builds for short lines. *)
EXTENDS ExecMeaning

\* A node of kind k over the trees subs.
Tree(k, subs) ==
  FoldLeft(LAMBDA acc, s :
      LET d == Len(acc.kind)
      IN  [kind |-> acc.kind \o s.kind,
           kids |-> <<Append(acc.kids[1], d + 1)>> \o Tail(acc.kids)
                      \o [n \in DOMAIN s.kids |-> [i \in DOMAIN s.kids[n] |-> s.kids[n][i] + d]]],
    [kind |-> <<k>>, kids |-> << << >> >>], subs)

Leaf(k) == Tree(k, << >>)
Cmd(t) == Tree("pipeline", <<Tree("command", <<t>>)>>)
Bang(t) == Tree("bang", <<Cmd(t)>>)
AndOr(ts) == Tree("andor", ts)
One(t) == AndOr(<<Cmd(t)>>)
And(t) == Tree("and_if", <<Cmd(t)>>)
Or(t) == Tree("or_if", <<Cmd(t)>>)
Group(ts) == Tree("compound", ts)
Line(ts) == Tree("root", <<Tree("list", ts)>>)

a == Leaf("simple")
amp == Leaf("&")
nothing == AndOr(<<Tree("pipeline", <<Leaf("command")>>)>>)
in == Leaf("in")
name == Leaf("name")
word == Leaf("word")
Item(ts) == Tree("caseitem", <<Tree("pattern", <<word>>)>> \o ts)

body == Group(<<One(a)>>)

\* a && ! a || a
Chain == Line(<<AndOr(<<Cmd(a), Tree("and_if", <<Bang(a)>>), Or(a)>>)>>)
\* { a & a ; } & a | a
Nested ==
  Line(<<One(Group(<<One(a), amp, One(a)>>)), amp,
         AndOr(<<Tree("pipeline", <<Tree("command", <<a>>), Tree("command", <<a>>)>>)>>)>>)
\* ( a & ) & { a ; } > f &   and, as the parser does it, nothing after the last '&'
Shells ==
  Line(<<One(Tree("subshell", <<Group(<<One(a), amp, nothing>>)>>)), amp,
         AndOr(<<Tree("pipeline", <<Tree("command", <<body, Leaf("redirect")>>)>>)>>), amp, nothing>>)
\* for x in w w ; do a & done ; a
ForWords ==
  Line(<<One(Tree("for", <<name, in, word, word, Group(<<One(a), amp, nothing>>)>>)), One(a)>>)
\* for x in w ; do case w in w ) a ;; w ) ;; w ) a ; a ;; esac done &
CaseInFor ==
  Line(<<One(Tree("for", <<name, in, word, Group(<<One(
         Tree("case", <<word, in, Item(<<body>>), Item(<< >>), Item(<<Group(<<One(a), One(a)>>)>>)>>))>>)>>)), amp, nothing>>)
\* if a ; then a ; elif a ; then a & else function
Ifs ==
  Line(<<One(Tree("if", <<body, body, Tree("elif", <<body, Group(<<One(a), amp, nothing>>)>>),
         Tree("else", <<Group(<<One(a), One(Leaf("function"))>>)>>)>>))>>)
\* while ! a ; do until a ; do a & done done
Loops ==
  Line(<<One(Tree("while", <<Group(<<AndOr(<<Bang(a)>>)>>),
         Group(<<One(Tree("until", <<body, Group(<<One(a), amp, nothing>>)>>))>>)>>))>>)
\* for x do a ; done
ForArguments == Line(<<One(Tree("for", <<name, body>>))>>)
\* for x in ; do a ; done
ForNoWords == Line(<<One(Tree("for", <<name, in, body>>)), One(a)>>)

AllLines == {Chain, Nested, Shells, ForWords, CaseInFor, Ifs, Loops, ForArguments, ForNoWords}
Codes == {0, 1}

=============================================================================
