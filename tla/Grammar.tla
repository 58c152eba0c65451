------------------------------ MODULE Grammar ------------------------------
(***************************************************************************)
(* The recursive-descent parser of grammar.c, one action per function.     *)
(*                                                                         *)
(* The functions call each other with a tree node and otherwise share only *)
(* the look-ahead toklast, so the C stack is a list todo of what is still  *)
(* to be done: calls, and the macros compare, compare_keyword,             *)
(* compare_add_str, add_node and errtoken, in order.  Nodes are always     *)
(* added below the rightmost branch; the tree is the list of its nodes in  *)
(* preorder with their depths, and a function gets the depth of its node.  *)
(*                                                                         *)
(* A token is written as its text: words "word" (an identifier),           *)
(* "notname" and "assign" (with a '='), keywords, operators; "<" stands    *)
(* for all operators before a file name but "<>", "<<" for "<<-" too.      *)
(***************************************************************************)
EXTENDS Integers, SequencesExt

CONSTANTS
  Alphabets,     \* what lines are made of: the tokens after each token, a bound on the length
  MaxErrorTokens \* bound: from this length on a line with an error ends

Keywords == {"if", "then", "else", "elif", "fi", "do", "done", "case", "esac", "while",
             "until", "for", "in", "function", "{", "}", "!"}
Words == {"word", "notname", "assign"} \cup Keywords
FileOps == {"<", "<>"}
Redirects == FileOps \cup {"<<", "ionum"}
Tokens == Words \cup Redirects \cup {"&&", "||", "&", "|", ";", ";;", "(", ")"}

ASSUME AlphabetsAssumption ==
  \A a \in Alphabets :
    /\ DOMAIN a.after \subseteq Tokens /\ a.len \in Nat
    /\ \A tok \in DOMAIN a.after : a.after[tok] \subseteq DOMAIN a.after
ASSUME MaxErrorTokensAssumption == MaxErrorTokens \in Nat

VARIABLES
  alphabet,      \* the alphabet of this line
  line,          \* the tokens taken from the queue so far
  toklast,       \* the look-ahead
  todo,          \* what is left to do
  tree,          \* the nodes so far, in preorder: kind, depth, text
  command_empty, \* the flag of the same name
  err_occured

vars == <<alphabet, line, toklast, todo, tree, command_empty, err_occured>>

\* What can be next in the queue behind the tokens of ln: the line breaks only
\* at its end, and a number is an io number in front of a redirection only.
Following(ln, last, failed) ==
  IF last = "newline" THEN {"eof"}
  ELSE IF last = "ionum" THEN {"<", "<>", "<<"} \cap DOMAIN alphabet.after
  ELSE {"newline", "eof"} \cup
       IF Len(ln) >= alphabet.len \/ (failed /\ Len(ln) >= MaxErrorTokens) THEN {}
       ELSE alphabet.after[last]

(* What a function does, in terms of its node t: call one with t, with the *)
(* node added last below t, or use one of the macros.                      *)
t == Head(todo).d
Item(what, d, x) == [do |-> what, d |-> d, x |-> x]
call(f) == Item(f, t, "")
below(f) == Item(f, t + 1, "")
compare(tok) == Item("compare", t, tok)
compare_keyword(key) == Item("compare_keyword", t, key)
compare_add_str(k, d) == Item("compare_add_str", d, k)
add_node(k) == Item("add_node", t, k)
errtoken == Item("errtoken", t, "")
may_be_empty(yes) == Item("command_empty", t, yes)

At(f) == todo # << >> /\ Head(todo).do = f
Do(items) ==
  /\ todo' = items \o Tail(todo)
  /\ UNCHANGED <<alphabet, line, toklast, tree, command_empty, err_occured>>
Function(f, items) == At(f) /\ Do(items)
Either(toks, yes, no) == IF toklast \in toks THEN yes ELSE no

-----------------------------------------------------------------------------
Root == [kind |-> "root", d |-> 0, text |-> ""]

\* gram_build_tree
Init ==
  /\ alphabet \in Alphabets
  /\ line = << >>
  /\ toklast \in DOMAIN alphabet.after \cup {"newline", "eof"}
  /\ todo = <<Item("complete_command", 0, "")>>
  /\ tree = <<Root>> /\ command_empty = FALSE /\ err_occured = FALSE

Added(k, d, text) == tree' = Append(tree, [kind |-> k, d |-> d, text |-> text])
Error == err_occured' = TRUE

\* The queue never runs dry: its last token is T_EOF, which nothing takes.
Eat ==
  /\ line' = Append(line, toklast)
  /\ toklast' \in IF toklast = "eof" THEN {"null"} ELSE Following(line', toklast, err_occured)

AddNode ==
  /\ At("add_node")
  /\ Added(Head(todo).x, t + 1, "") /\ todo' = Tail(todo)
  /\ UNCHANGED <<alphabet, line, toklast, command_empty, err_occured>>

CommandEmpty ==
  /\ At("command_empty")
  /\ command_empty' = (Head(todo).x = "yes") /\ todo' = Tail(todo)
  /\ UNCHANGED <<alphabet, line, toklast, tree, err_occured>>

ErrToken ==
  /\ At("errtoken")
  /\ Error /\ todo' = Tail(todo)
  /\ UNCHANGED <<alphabet, line, toklast, tree, command_empty>>

\* mutant: the wrong token is dropped
Compare_Drop ==
  /\ At("compare") \/ At("compare_keyword")
  /\ Eat
  /\ IF toklast = Head(todo).x THEN UNCHANGED err_occured ELSE Error
  /\ todo' = Tail(todo)
  /\ UNCHANGED <<alphabet, tree, command_empty>>

\* compare and compare_keyword: a wrong token is reported and stays.
Compare ==
  /\ At("compare") \/ At("compare_keyword")
  /\ IF toklast = Head(todo).x THEN Eat /\ UNCHANGED err_occured
     ELSE Error /\ UNCHANGED <<line, toklast>>
  /\ todo' = Tail(todo)
  /\ UNCHANGED <<alphabet, tree, command_empty>>

\* compare_add_str: the token becomes a leaf.
CompareAddStr ==
  /\ At("compare_add_str")
  /\ LET k == Head(todo).x
         wanted == CASE k = "assignment" -> {"assign"} [] k = "io number" -> {"ionum"}
                     [] OTHER -> Words
     IN  IF toklast \in wanted
         THEN Eat /\ Added(k, t + 1, toklast) /\ UNCHANGED err_occured
         ELSE Error /\ UNCHANGED <<line, toklast, tree>>
  /\ todo' = Tail(todo)
  /\ UNCHANGED <<alphabet, command_empty>>

word == compare_add_str("word", t)

-----------------------------------------------------------------------------
(* Lines and lists.                                                        *)

complete_command ==
  Function("complete_command",
    Either({"newline", "eof"}, << >>, <<call("list"), call("complete_command_rest")>>))

complete_command_rest ==
  Function("complete_command_rest", Either({"&", ";", "newline"}, <<call("separator")>>, << >>))

list == Function("list", <<add_node("list"), below("and_or"), below("list_rest")>>)

list_rest ==
  Function("list_rest",
    Either({"&", ";"},
      <<call("separator_op"), may_be_empty("yes"), call("and_or"), may_be_empty("no"),
        call("list_rest")>>, << >>))

and_or == Function("and_or", <<add_node("andor"), below("pipeline"), below("and_or_rest")>>)

\* mutant: the rest of the chain goes below the node
and_or_rest_Nested ==
  LET rest(k) == <<compare(toklast), add_node(k), below("linebreak"), below("pipeline"),
                   below("and_or_rest")>>
  IN  Function("and_or_rest",
        Either({"&&"}, rest("and_if"), Either({"||"}, rest("or_if"), << >>)))

and_or_rest ==
  LET rest(k) == <<compare(toklast), add_node(k), below("linebreak"), below("pipeline"),
                   call("and_or_rest")>>
  IN  Function("and_or_rest",
        Either({"&&"}, rest("and_if"), Either({"||"}, rest("or_if"), << >>)))

\* mutant: a node that was never added is passed on
pipeline_NoNode ==
  Function("pipeline",
    Either({"!"}, <<compare_keyword("!"), below("pipe_sequence")>>, <<call("pipe_sequence")>>))

pipeline ==
  Function("pipeline",
    Either({"!"}, <<compare_keyword("!"), add_node("bang"), below("pipe_sequence")>>,
      <<call("pipe_sequence")>>))

pipe_sequence ==
  Function("pipe_sequence",
    <<add_node("pipeline"), below("command"), below("pipe_sequence_rest")>>)

pipe_sequence_rest ==
  Function("pipe_sequence_rest",
    Either({"|"}, <<compare("|"), call("linebreak"), call("command"), call("pipe_sequence_rest")>>,
      << >>))

-----------------------------------------------------------------------------
(* Commands.                                                               *)

\* Tokens before which a command or a compound list is empty.
Closers == {"then", "elif", "else", "fi", "do", "}", "esac", "done", ")"}
Openers == {"{", "for", "case", "if", "while", "until", "("}

command ==
  Function("command", <<add_node("command")>> \o
    CASE toklast \in Closers -> << >>
      [] toklast \in Openers -> <<below("compound_command"), below("command_rest")>>
      [] toklast = "function" -> <<below("function_definition")>>
      [] toklast \in (Redirects \cup Words) \ (Closers \cup Openers \cup {"function"}) ->
           <<below("simple_command")>>
      [] toklast \in {"eof", "newline"} -> IF command_empty THEN << >> ELSE <<errtoken>>
      [] OTHER -> <<errtoken>>)

command_rest ==
  Function("command_rest", Either(Redirects, <<call("redirection_list")>>, << >>))

compound_command ==
  Function("compound_command",
    CASE toklast = "{" -> <<call("brace_group")>>
      [] toklast = "for" -> <<call("for_clause")>>
      [] toklast = "case" -> <<call("case_clause")>>
      [] toklast = "if" -> <<call("if_clause")>>
      [] toklast = "while" -> <<call("while_clause")>>
      [] toklast = "until" -> <<call("until_clause")>>
      [] toklast = "(" -> <<call("subshell")>>
      [] OTHER -> <<errtoken>>)

subshell ==
  Function("subshell",
    <<compare("("), add_node("subshell"), below("compound_list"), compare(")")>>)

compound_list ==
  Function("compound_list", <<add_node("compound"), below("linebreak"), below("compound_list_body")>>)

\* complist_empty is never set, so that an empty list is an error.
compound_list_body ==
  Function("compound_list_body",
    Either(Closers, <<errtoken>>, <<call("term"), call("compound_list_rest")>>))

compound_list_rest ==
  Function("compound_list_rest", Either({"&", ";", "newline"}, <<call("separator")>>, << >>))

term == Function("term", <<call("and_or"), call("term_rest")>>)

term_rest ==
  Function("term_rest",
    Either({"&", ";", "newline"}, <<call("separator"), call("and_or"), call("term_rest")>>, << >>))

brace_group ==
  Function("brace_group", <<compare_keyword("{"), call("compound_list"), compare_keyword("}")>>)

do_group ==
  Function("do_group", <<compare_keyword("do"), call("compound_list"), compare_keyword("done")>>)

while_clause ==
  Function("while_clause",
    <<compare_keyword("while"), add_node("while"), below("compound_list"), below("do_group")>>)

until_clause ==
  Function("until_clause",
    <<compare_keyword("until"), add_node("until"), below("compound_list"), below("do_group")>>)

-----------------------------------------------------------------------------
(* for, case, if, functions.                                               *)

for_clause ==
  Function("for_clause",
    <<compare_keyword("for"), add_node("for"), below("name"), below("linebreak"),
      below("for_clause_rest_1")>>)

for_clause_rest_1 ==
  Function("for_clause_rest_1",
    Either({"do"}, <<call("do_group")>>,
      Either({"in"}, <<call("in"), call("for_clause_rest_2")>>, <<errtoken>>)))

for_clause_rest_2 ==
  Function("for_clause_rest_2",
    LET rest == <<call("sequential_sep"), call("do_group")>>
    IN  Either({";", "newline"}, rest, Either(Words, <<call("wordlist")>> \o rest, <<errtoken>>)))

\* Only a word that is an identifier is not reported, here and in fname.
name ==
  /\ At("name") \/ At("fname")
  /\ Do(Either({"word"}, << >>, <<errtoken>>) \o <<compare_add_str("name", t)>>)

in == Function("in", <<compare_keyword("in"), add_node("in")>>)

wordlist == Function("wordlist", <<word, call("wordlist_rest")>>)
wordlist_rest == Function("wordlist_rest", Either(Words, <<word, call("wordlist_rest")>>, << >>))

case_clause ==
  Function("case_clause",
    <<compare_keyword("case"), add_node("case"), compare_add_str("word", t + 1),
      below("linebreak"), below("in"), below("linebreak"), below("case_list"),
      compare_keyword("esac")>>)

case_list ==
  Function("case_list",
    Either(Words \ {"esac"},
      <<add_node("caseitem"), below("case_item_start"), below("linebreak"),
        below("case_item_body"), call("case_list_rest")>>, << >>))

case_list_rest ==
  Function("case_list_rest",
    Either({";;"}, <<compare(";;"), call("linebreak"), call("case_list")>>, <<call("linebreak")>>))

case_item_start ==
  Function("case_item_start",
    Either({"("}, <<compare("("), call("pattern"), compare(")")>>,
      Either(Words \ {"esac"}, <<call("pattern"), compare(")")>>, <<errtoken>>)))

case_item_body ==
  \/ Function("case_item_body", <<call("linebreak"), call("case_item_list")>>)
  \/ Function("case_item_list", Either({";;", "esac"}, << >>, <<call("compound_list")>>))

pattern ==
  Function("pattern",
    Either(Words \ {"esac"},
      <<add_node("pattern"), compare_add_str("word", t + 1), below("pattern_rest")>>,
      <<errtoken>>))

pattern_rest ==
  Function("pattern_rest", Either({"|"}, <<compare("|"), word, call("pattern_rest")>>, << >>))

if_clause ==
  Function("if_clause",
    <<compare_keyword("if"), add_node("if"), below("compound_list"), compare_keyword("then"),
      below("compound_list"), below("if_clause_rest")>>)

if_clause_rest ==
  Function("if_clause_rest",
    Either({"elif", "else"}, <<call("else_part"), compare_keyword("fi")>>,
      Either({"fi"}, <<compare_keyword("fi")>>, <<errtoken>>)))

else_part ==
  Function("else_part",
    CASE toklast = "elif" ->
           <<compare_keyword("elif"), add_node("elif"), below("compound_list"),
             compare_keyword("then"), below("compound_list"), call("else_part")>>
      [] toklast = "else" -> <<compare_keyword("else"), add_node("else"), below("compound_list")>>
      [] OTHER -> << >>)

function_definition ==
  Function("function_definition",
    <<compare_keyword("function"), add_node("function"), below("fname"), compare("("),
      compare(")"), below("linebreak"), below("function_body")>>)

function_body == Function("function_body", <<call("compound_command"), call("command_rest")>>)

-----------------------------------------------------------------------------
(* Simple commands and redirections.                                       *)

simple_command ==
  Function("simple_command", <<add_node("simple")>> \o
    Either(Redirects \cup {"assign"}, <<below("cmd_prefix"), below("simple_command_rest_1")>>,
      Either(Words, <<below("cmd_name"), below("simple_command_rest_2")>>, <<errtoken>>)))

simple_command_rest_1 ==
  Function("simple_command_rest_1",
    Either(Words, <<call("cmd_name"), call("simple_command_rest_2")>>, << >>))

simple_command_rest_2 ==
  Function("simple_command_rest_2", Either(Redirects \cup Words, <<call("cmd_suffix")>>, << >>))

\* cmd_name and cmd_word
cmd_name == Function("cmd_name", <<word>>)

cmd_prefix ==
  \E f \in {"cmd_prefix", "cmd_prefix_rest"} :
    Function(f,
      Either(Redirects, <<call("io_redirect"), call("cmd_prefix_rest")>>,
        Either({"assign"}, <<compare_add_str("assignment", t), call("cmd_prefix_rest")>>,
          IF f = "cmd_prefix" THEN <<errtoken>> ELSE << >>)))

cmd_suffix ==
  \E f \in {"cmd_suffix", "cmd_suffix_rest"} :
    Function(f,
      Either(Redirects, <<call("io_redirect"), call("cmd_suffix_rest")>>,
        Either(Words, <<word, call("cmd_suffix_rest")>>,
          IF f = "cmd_suffix" THEN <<errtoken>> ELSE << >>)))

redirection_list ==
  \/ Function("redirection_list", <<call("io_redirect"), call("redirection_list_rest")>>)
  \/ Function("redirection_list_rest",
       Either(Redirects, <<call("io_redirect"), call("redirection_list_rest")>>, << >>))

io_redirect ==
  Function("io_redirect", <<add_node("redirect")>> \o
    Either({"ionum"}, <<compare_add_str("io number", t + 1), below("io_redirect_rest")>>,
      <<below("io_redirect_rest")>>))

\* The same switch decides in io_redirect when there is no number.
io_redirect_rest ==
  Function("io_redirect_rest",
    Either(FileOps, <<call("io_file")>>, Either({"<<"}, <<call("io_here")>>, <<errtoken>>)))

\* "<>" is compared with "<&", which it is not.
io_file ==
  Function("io_file",
    Either({"<"}, <<compare("<"), add_node("<")>>, <<compare("<&"), add_node("<>")>>)
      \o <<compare_add_str("word", t)>>)

\* here_end is never called: the word behind "<<" is left to what follows.
io_here == Function("io_here", <<compare("<<"), add_node("<<")>>)

-----------------------------------------------------------------------------
(* Line breaks and separators.                                             *)

\* mutant: the line break is not taken
newline_list_Stay == Function("newline_list", <<call("linebreak")>>)

newline_list == Function("newline_list", <<compare("newline"), call("linebreak")>>)

\* linebreak and newline_list_rest
linebreak == Function("linebreak", Either({"newline"}, <<call("newline_list")>>, << >>))

\* mutant: the '&' leaves no trace
separator_op_NoNode ==
  Function("separator_op",
    Either({"&"}, <<compare("&")>>, Either({";"}, <<compare(";")>>, <<errtoken>>)))

separator_op ==
  Function("separator_op",
    Either({"&"}, <<compare("&"), add_node("&")>>, Either({";"}, <<compare(";")>>, <<errtoken>>)))

separator ==
  Function("separator",
    Either({";", "&"}, <<call("separator_op"), call("linebreak")>>,
      Either({"newline"}, <<call("newline_list")>>, <<errtoken>>)))

sequential_sep ==
  Function("sequential_sep",
    Either({";"}, <<compare(";"), call("linebreak")>>,
      Either({"newline"}, <<call("newline_list")>>, <<errtoken>>)))

-----------------------------------------------------------------------------
Macros == AddNode \/ CommandEmpty \/ ErrToken \/ Compare \/ CompareAddStr
Lists ==
  \/ complete_command \/ complete_command_rest \/ list \/ list_rest \/ and_or \/ and_or_rest
  \/ pipeline \/ pipe_sequence \/ pipe_sequence_rest
Commands ==
  \/ command \/ command_rest \/ compound_command \/ subshell \/ compound_list
  \/ compound_list_body \/ compound_list_rest \/ term \/ term_rest
  \/ brace_group \/ do_group \/ while_clause \/ until_clause
Clauses ==
  \/ for_clause \/ for_clause_rest_1 \/ for_clause_rest_2 \/ name \/ in
  \/ wordlist \/ wordlist_rest
  \/ case_clause \/ case_list \/ case_list_rest \/ case_item_start \/ case_item_body
  \/ pattern \/ pattern_rest
  \/ if_clause \/ if_clause_rest \/ else_part \/ function_definition \/ function_body
Simple ==
  \/ simple_command \/ simple_command_rest_1 \/ simple_command_rest_2 \/ cmd_name
  \/ cmd_prefix \/ cmd_suffix \/ redirection_list
  \/ io_redirect \/ io_redirect_rest \/ io_file \/ io_here
Breaks == newline_list \/ linebreak \/ separator_op \/ separator \/ sequential_sep

Next == Macros \/ Lists \/ Commands \/ Clauses \/ Simple \/ Breaks

\* The parser is one loop-free thread: it goes on as long as something is to do.
Spec == Init /\ [][Next]_vars /\ WF_vars(Next)

-----------------------------------------------------------------------------
\* Every variable has its type, and the nodes are a preorder: a node is at most
\* one level below the one in front of it (tree_add_subnode gets a real node).
TypeOK ==
  /\ alphabet \in Alphabets /\ command_empty \in BOOLEAN /\ err_occured \in BOOLEAN
  /\ line \in Seq(Tokens \cup {"newline"}) /\ toklast \in Tokens \cup {"newline", "eof", "null"}
  /\ \A i \in DOMAIN todo : todo[i].d \in Nat
  /\ tree[1] = Root
  /\ \A i \in 2 .. Len(tree) : tree[i].d \in 1 .. tree[i - 1].d + 1

\* The look-ahead is always a token: T_EOF stays in the queue whatever the line
\* is, so that "toklast->tok" is never read through the NULL of an empty queue.
NeverPastEnd == toklast # "null"

\* Every line is parsed in the end: no function calls itself, directly or
\* through others, on the same tokens for ever.
ParseEnds == <>(todo = << >>)

(* The tree as execute (main.c) walks it: the nodes one level below i, before  *)
(* the next one that is not below i at all, in the order they were added in.   *)
Below(i) ==
  {j \in i + 1 .. Len(tree) :
     tree[j].d = tree[i].d + 1 /\ \A m \in i + 1 .. j : tree[m].d > tree[i].d}
Kids(i) ==
  [n \in 1 .. Cardinality(Below(i)) |->
     CHOOSE j \in Below(i) : Cardinality({m \in Below(i) : m < j}) = n - 1]
Kinds(ks) == [n \in DOMAIN ks |-> tree[ks[n]].kind]

Only(ks, from, to, kinds) == \A n \in from .. to : ks[n] \in kinds

\* Commands, each with at most one '&' behind it.
Separated(ks) ==
  /\ Only(ks, 1, Len(ks), {"andor", "&"}) /\ (ks # << >> => ks[1] = "andor")
  /\ \A n \in 1 .. Len(ks) - 1 : ks[n] = "andor" \/ ks[n + 1] = "andor"
Alternating(ks) == ks # << >> /\ Separated(ks) /\ ks[Len(ks)] = "andor"

Compounds == {"compound", "subshell", "for", "case", "if", "while", "until"}
CompoundFirst(ks) ==
  ks # << >> /\ ks[1] \in Compounds /\ Only(ks, 2, Len(ks), {"redirect"})

\* What the code that executes a node takes for granted of the kinds of its
\* subnodes (and follows pointers to without looking).
WellFormed(k, ks) ==
  LET n == Len(ks)
  IN CASE k = "root"     -> ks \in {<< >>, <<"list">>}
       [] k \in {"list", "compound"} -> Alternating(ks)
       [] k = "andor"    -> n >= 1 /\ ks[1] \in {"pipeline", "bang"}
                            /\ Only(ks, 2, n, {"and_if", "or_if"})
       [] k \in {"and_if", "or_if"} -> ks \in {<<"pipeline">>, <<"bang">>}
       [] k = "bang"     -> ks = <<"pipeline">>
       [] k = "pipeline" -> n >= 1 /\ Only(ks, 1, n, {"command"})
       [] k = "command"  -> ks \in {<< >>, <<"simple">>, <<"function">>} \/ CompoundFirst(ks)
       [] k \in {"subshell", "else"} -> ks = <<"compound">>
       [] k \in {"while", "until", "elif"} -> ks = <<"compound", "compound">>
       [] k = "for"      -> n >= 2 /\ ks[1] = "name" /\ ks[n] = "compound"
                            /\ (n > 2 => ks[2] = "in" /\ Only(ks, 3, n - 1, {"word"}))
       [] k = "case"     -> n >= 2 /\ ks[1] = "word" /\ ks[2] = "in"
                            /\ Only(ks, 3, n, {"caseitem"})
       [] k = "caseitem" -> ks \in {<<"pattern">>, <<"pattern", "compound">>}
       [] k = "pattern"  -> n >= 1 /\ Only(ks, 1, n, {"word"})
       [] k = "if"       -> n >= 2 /\ Only(ks, 1, 2, {"compound"})
                            /\ (n > 2 => ks[n] \in {"elif", "else"}
                                         /\ Only(ks, 3, n - 1, {"elif"}))
       [] k = "function" -> n >= 2 /\ ks[1] = "name" /\ ks[2] \in Compounds
                            /\ Only(ks, 3, n, {"redirect"})
       [] k = "simple"   -> n >= 1 /\ Only(ks, 1, n, {"word", "assignment", "redirect"})
       [] k = "redirect" -> ks \in {<<"<", "word">>, <<"<<">>,
                                    <<"io number", "<", "word">>, <<"io number", "<<">>}
       [] OTHER          -> ks = << >>

\* A line without an error has a tree that execute can walk: every node has the
\* subnodes execute expects of its kind, whatever the line was made of.
TreeExecutable ==
  todo = << >> /\ ~err_occured =>
    \A i \in DOMAIN tree : WellFormed(tree[i].kind, Kinds(Kids(i)))

\* gram.txt says "io_file : ... | LESSGREAT filename": an operator is taken when
\* its node is made, so there are never more nodes of an operator than tokens.
OperatorTaken ==
  \A op \in FileOps :
    Len(SelectSeq(tree, LAMBDA n : n.kind = op)) <= Len(SelectSeq(line, LAMBDA tok : tok = op))

=============================================================================
