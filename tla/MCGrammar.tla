----------------------------- MODULE MCGrammar -----------------------------
(* Lines made of one of a few small alphabets, each up to its own length.   *)
(* The short ones are free of any order, so that they hold the errors; in   *)
(* the long ones a token is followed by what can make sense behind it.      *)
EXTENDS GrammarText

Free(tokens, len) == [after |-> [tok \in tokens |-> tokens], len |-> len]

Chains      == Free({"word", ";", "&&", "||", "|", "&", "!"}, 5)
Redirected  == Free({"word", "<", "<<", "ionum", "assign"}, 5)
Nested      == Free({"word", ";", "(", ")", "{", "}", "&"}, 4)
AnyOrder    == Free({"for", "in", "case", "do", "notname", "word", ")", ";;"}, 3)

Ifs ==
  [len |-> 14,
   after |-> [tok \in {"if", "then", "elif", "else", "fi", "word", ";"} |->
     CASE tok \in {"if", "elif"}   -> {"word"}
       [] tok \in {"then", "else"} -> {"word", "if"}
       [] tok = ";"                -> {"if", "then", "elif", "else", "fi", "word"}
       [] OTHER                    -> {";"}]]

Fors ==
  [len |-> 10,
   after |-> [tok \in {"for", "in", "do", "done", "word", "notname", ";"} |->
     CASE tok = "for"  -> {"word", "notname", "do"}
       [] tok = "in"   -> {"word", ";"}
       [] tok = "do"   -> {"word", "for", ";"}
       [] tok = "word" -> {"in", "do", ";", "word"}
       [] tok = ";"    -> {"do", "done"}
       [] OTHER        -> {";"}]]

Cases ==
  [len |-> 11,
   after |-> [tok \in {"case", "in", "esac", "word", ")", "|", ";;", ";", "("} |->
     CASE tok = "case"           -> {"word"}
       [] tok \in {"in", ";;"}   -> {"word", "esac", "("}
       [] tok = "word"           -> {"in", ")", "|", ";;", ";"}
       [] tok = ")"              -> {"word", ";;", "esac", "case"}
       [] tok \in {"|", "("}     -> {"word"}
       [] OTHER                  -> {"word", "esac"}]]

Loops ==
  [len |-> 10,
   after |-> [tok \in {"while", "until", "do", "done", "(", ")", "word", ";", "{", "}"} |->
     CASE tok \in {"while", "until", "(", "{"} -> {"word", "("}
       [] tok = "do"                      -> {"word", "while"}
       [] tok = "word"                    -> {";", ")"}
       [] tok = ";"                       -> {"do", "done", "}", "until", "{"}
       [] OTHER                           -> {";", "do", "done"}]]

Functions ==
  [len |-> 11,
   after |-> [tok \in {"function", "word", "notname", "(", ")", "{", "}", ";", "<"} |->
     CASE tok \in {"function", "<"} -> {"word", "notname"}
       [] tok = "("                 -> {")", "word"}
       [] tok = ")"                 -> {"{", "(", "<", "word"}
       [] tok = "word"              -> {"(", ")", ";", "<"}
       [] tok = ";"                 -> {"}", "function"}
       [] tok = "{"                 -> {"word"}
       [] OTHER                     -> {"<", ";", "}"}]]

MCAlphabets ==
  {Chains, Redirected, Nested, AnyOrder, Ifs, Fors, Cases, Loops, Functions}
MCReadWrite == {Free({"word", "<", "<>"}, 3)}
=============================================================================
