--------------------------- MODULE GrammarShapes ---------------------------
(***************************************************************************)
(* What is left to do, read as a promise about the tree: which subnodes    *)
(* each function finds below its node, and which it leaves there.  The     *)
(* inductive invariant behind TreeExecutable is made of these tables.      *)
(***************************************************************************)
EXTENDS Grammar, Trees

(* A place is a kind of node and how far it has got; None is any node that *)
(* nothing is left to be done for.                                         *)
None == <<"none", "done">>

\* The subnodes of a node of kind k that has got as far as p.  No node is ever
\* at "never": only what can follow an error leads there.
Stage(k, p, ks) ==
  LET n == Len(ks)
  IN CASE p = "new"      -> ks = << >>
       [] p = "done"     -> WellFormed(k, ks)
       [] p = "more"     -> Separated(ks)
       [] p = "compound" -> CompoundFirst(ks)
       [] p = "one"      -> ks = <<"compound">>
       [] p = "then"     -> n >= 2 /\ Only(ks, 1, 2, {"compound"}) /\ Only(ks, 3, n, {"elif"})
       [] p = "named"    -> ks = <<"name">>
       [] p = "words"    -> n >= 2 /\ ks[1] = "name" /\ ks[2] = "in" /\ Only(ks, 3, n, {"word"})
       [] p = "word"     -> ks = <<"word">>
       [] p = "pattern"  -> ks = <<"pattern">>
       [] p = "number"   -> ks = <<"io number">>
       [] p = "file"     -> ks \in {<<"<">>, <<"io number", "<">>}
       [] OTHER          -> FALSE

Holds(a, k, ks) == IF a = None THEN WellFormed(k, ks) ELSE a[1] = k /\ Stage(k, a[2], ks)

\* Places a node may be left at.
Leaves == {"word", "assignment", "name", "io number", "<", "<>", "<<", "&", "in"}
Final(a) ==
  \/ a[2] = "done"
  \/ a[2] = "new" /\ a[1] \in Leaves \cup {"root", "command"}
  \/ a \in {<<"command", "compound">>, <<"caseitem", "pattern">>, <<"if", "then">>}

\* A node at place a is also at place b.
Weak(a, b) ==
  \/ b = a
  \/ Final(a) /\ (b = None \/ b = <<a[1], "done">>)
  \/ a[2] = "done" /\ a[1] \in {"list", "compound"} /\ b = <<a[1], "more">>

\* The next subnode of a node at place a is of kind k: it gets to place b.
Grows(a, k, b) ==
  LET from(kinds, ps, ks, p) == a[1] \in kinds /\ a[2] \in ps /\ k \in ks /\ b = <<a[1], p>>
  IN  \/ from({"root"}, {"new"}, {"list"}, "done")
      \/ from({"list", "compound"}, {"new", "more", "done"}, {"andor"}, "done")
      \/ from({"list", "compound"}, {"done"}, {"&"}, "more")
      \/ from({"andor", "and_if", "or_if"}, {"new"}, {"pipeline", "bang"}, "done")
      \/ from({"andor"}, {"done"}, {"and_if", "or_if"}, "done")
      \/ from({"bang"}, {"new"}, {"pipeline"}, "done")
      \/ from({"pipeline"}, {"new", "done"}, {"command"}, "done")
      \/ from({"command"}, {"new"}, {"simple", "function"}, "done")
      \/ from({"command"}, {"new"}, Compounds, "compound")
      \/ from({"command"}, {"compound"}, {"redirect"}, "compound")
      \/ from({"subshell", "else"}, {"new"}, {"compound"}, "done")
      \/ from({"while", "until", "elif", "if"}, {"new"}, {"compound"}, "one")
      \/ from({"while", "until", "elif"}, {"one"}, {"compound"}, "done")
      \/ from({"if"}, {"one"}, {"compound"}, "then")
      \/ from({"if"}, {"then"}, {"elif"}, "then")
      \/ from({"if"}, {"then"}, {"else"}, "done")
      \/ from({"for", "function"}, {"new"}, {"name"}, "named")
      \/ from({"for"}, {"named"}, {"in"}, "words")
      \/ from({"for"}, {"words"}, {"word"}, "words")
      \/ from({"for"}, {"named", "words"}, {"compound"}, "done")
      \/ from({"case"}, {"new"}, {"word"}, "word")
      \/ from({"case"}, {"word"}, {"in"}, "done")
      \/ from({"case"}, {"done"}, {"caseitem"}, "done")
      \/ from({"caseitem"}, {"new"}, {"pattern"}, "pattern")
      \/ from({"caseitem"}, {"pattern"}, {"compound"}, "done")
      \/ from({"pattern"}, {"new", "done"}, {"word"}, "done")
      \/ from({"function"}, {"named"}, Compounds, "done")
      \/ from({"function"}, {"done"}, {"redirect"}, "done")
      \/ from({"simple"}, {"new", "done"}, {"word", "assignment", "redirect"}, "done")
      \/ from({"redirect"}, {"new"}, {"io number"}, "number")
      \/ from({"redirect"}, {"new", "number"}, {"<"}, "file")
      \/ from({"redirect"}, {"new", "number"}, {"<<"}, "done")
      \/ from({"redirect"}, {"file", "never"}, {"word"}, "done")
      \/ from({"redirect"}, {"never"}, {"<>"}, "never")

-----------------------------------------------------------------------------
(* The functions *)

\* Functions that add one subnode to their node, and of which kinds it can be.
OneOf(f) ==
  CASE f = "list"                -> {"list"}
    [] f = "and_or"              -> {"andor"}
    [] f = "pipeline"            -> {"pipeline", "bang"}
    [] f = "pipe_sequence"       -> {"pipeline"}
    [] f = "command"             -> {"command"}
    [] f = "compound_command"    -> Compounds
    [] f \in {"brace_group", "do_group", "compound_list"} -> {"compound"}
    [] f = "subshell"            -> {"subshell"}
    [] f = "while_clause"        -> {"while"}
    [] f = "until_clause"        -> {"until"}
    [] f = "for_clause"          -> {"for"}
    [] f = "case_clause"         -> {"case"}
    [] f = "if_clause"           -> {"if"}
    [] f \in {"name", "fname"}   -> {"name"}
    [] f = "in"                  -> {"in"}
    [] f = "cmd_name"            -> {"word"}
    [] f \in {"pattern", "case_item_start"} -> {"pattern"}
    [] f = "io_redirect"         -> {"redirect"}
    [] f = "simple_command"      -> {"simple"}
    [] f = "function_definition" -> {"function"}
    [] OTHER                     -> {}

\* Functions that take their node from one place to another.
Path(f) ==
  LET stay(k, p) == {<<<<k, p>>, <<k, p>>>>}
      way(k, ps, p2) == {<<<<k, p>>, <<k, p2>>>> : p \in ps}
  IN CASE f = "complete_command"      -> way("root", {"new"}, "done")
       [] f = "complete_command_rest" -> stay("root", "done")
       [] f = "list_rest"             -> stay("list", "done")
       [] f = "and_or_rest"           -> stay("andor", "done")
       [] f = "pipe_sequence_rest"    -> stay("pipeline", "done")
       [] f \in {"command_rest", "redirection_list", "redirection_list_rest"} ->
            stay("command", "compound") \cup stay("function", "done")
       [] f \in {"compound_list_body", "term"} -> way("compound", {"new"}, "done")
       [] f \in {"compound_list_rest", "term_rest"} -> stay("compound", "done")
       [] f = "separator_op" -> way("list", {"done"}, "more") \cup way("compound", {"done"}, "more")
       [] f = "separator"    -> way("compound", {"done"}, "more") \cup stay("root", "done")
       [] f = "for_clause_rest_1"     -> way("for", {"named"}, "done")
       [] f = "for_clause_rest_2"     -> way("for", {"words"}, "done")
       [] f \in {"wordlist", "wordlist_rest"} -> stay("for", "words")
       [] f \in {"case_list", "case_list_rest"} -> stay("case", "done")
       [] f \in {"case_item_body", "case_item_list"} -> way("caseitem", {"pattern"}, "done")
       [] f = "pattern_rest"          -> stay("pattern", "done")
       [] f \in {"if_clause_rest", "else_part"} -> way("if", {"then"}, "done")
       [] f = "function_body"         -> way("function", {"named"}, "done")
       [] f = "cmd_prefix"            -> way("simple", {"new"}, "done")
       [] f \in {"cmd_prefix_rest", "cmd_suffix", "cmd_suffix_rest", "simple_command_rest_1",
                 "simple_command_rest_2"} -> stay("simple", "done")
       [] f \in {"io_redirect_rest", "io_file", "io_here"} ->
            way("redirect", {"new", "number"}, "done")
       [] OTHER -> {}

\* What becomes of the node that an item is for.
Adders == {"add_node", "compare_add_str"}
Moves(f, k, a, b) ==
  \/ f \in {"linebreak", "newline_list", "sequential_sep"} /\ b = a
  \/ f \in Adders /\ Grows(a, k, b)
  \/ OneOf(f) # {} /\ \A kind \in OneOf(f) : Grows(a, kind, b)
  \/ <<a, b>> \in Path(f)

\* Tokens the look-ahead cannot be when a function has returned ...
Excludes(f) ==
  CASE f \in {"list", "list_rest"} -> {"&", ";"}
    [] f \in {"term", "term_rest"} -> {"&", ";", "newline"}
    [] OTHER -> {}

\* ... and must not be when one is called for a node at place a: it would add
\* what is not for that node.
Needs(f, a) ==
  CASE f = "complete_command_rest" \/ (f = "separator" /\ a[1] = "root") -> {"&", ";"}
    [] f = "compound_list_rest" -> {"&", ";", "newline"}
    [] OTHER -> {}

-----------------------------------------------------------------------------
(* A view of the parser is the places of the nodes of the rightmost branch, *)
(* one for each depth, with tokens that the look-ahead is not.              *)

\* These say "error": nothing is promised behind them.  (No token is "<&".)
Fails(i) == i.do = "errtoken" \/ (i.do = "compare" /\ i.x = "<&")
Passes(i) == i.do \in {"compare", "compare_keyword", "command_empty"}

\* Item i is done with the view A, and leaves the view B.
Leads(i, A, B) ==
  \/ Fails(i)
  \/ Passes(i) /\ (\A e \in Nat : Weak(A.at[e], B.at[e])) /\ B.no = {}
  \/ /\ \A e \in Nat : e < i.d => Weak(A.at[e], B.at[e])
     /\ \A e \in Nat : e > i.d => Final(A.at[e])
     /\ Needs(i.do, A.at[i.d]) \subseteq A.no
     /\ \E b : Moves(i.do, i.x, A.at[i.d], b) /\ Weak(b, B.at[i.d])
     /\ IF i.do \in Adders THEN Weak(<<i.x, "new">>, B.at[i.d + 1]) ELSE B.at[i.d + 1] = None
     /\ \A e \in Nat : e > i.d + 1 => B.at[e] = None
     /\ B.no \subseteq Excludes(i.do)

LeadsAll(s, c) == \A i \in 1 .. Len(s) : Leads(s[i], c[i], c[i + 1])
Closed(A) == \A e \in Nat : Final(A.at[e])

\* e lists the numbers of the set S in their order.
Enumerates(e, S) ==
  /\ \E T : e \in Seq(T)
  /\ \A n \in DOMAIN e : e[n] \in S
  /\ \A j \in S : \E n \in DOMAIN e : e[n] = j
  /\ \A m, n \in DOMAIN e : m < n => e[m] < e[n]

\* The node is on the rightmost branch: more can be added below it.
OnBranch(i) == \A m \in i + 1 .. Len(tree) : tree[m].d > tree[i].d

NodeOK(i, A) ==
  \E e : /\ Enumerates(e, Below(i))
         /\ IF OnBranch(i) THEN Holds(A.at[tree[i].d], tree[i].kind, Kinds(e))
            ELSE WellFormed(tree[i].kind, Kinds(e))

\* The view is true of the tree and of the look-ahead.
Described(A) == toklast \notin A.no /\ \A i \in DOMAIN tree : NodeOK(i, A)

\* As long as there is no error, the items that are left lead from a view that
\* is true to one with nothing open.
ShapeInv ==
  ~err_occured =>
    \E c : LeadsAll(todo, c) /\ Closed(c[Len(todo) + 1]) /\ Described(c[1])

-----------------------------------------------------------------------------
\* The tree as it is handed to execute, and what that one asks of it.
Program ==
  [kind |-> [i \in DOMAIN tree |-> tree[i].kind], kids |-> [i \in DOMAIN tree |-> Kids(i)]]
ReturnsProgram == todo = << >> /\ ~err_occured => Executable(Program)

=============================================================================
