----------------------------- MODULE MCPattern -----------------------------
(* Patterns over three small alphabets, all texts to match up to a length,  *)
(* and words for a tree of directories.                                     *)
EXTENDS PatternMeaning

MCByte ==
  [c \in {"a", "b", "d", "h", "*", "?", "[", "]", "^", "-", "\\", "'", "\"", "/", "."} |->
    CASE c = "\"" -> 34 [] c = "'" -> 39 [] c = "*" -> 42 [] c = "-" -> 45 [] c = "." -> 46
      [] c = "/" -> 47 [] c = "?" -> 63 [] c = "[" -> 91 [] c = "\\" -> 92 [] c = "]" -> 93
      [] c = "^" -> 94 [] c = "a" -> 97 [] c = "b" -> 98 [] c = "d" -> 100 [] OTHER -> 104]

UpTo(n, chars) == UNION {[1 .. k -> chars] : k \in 0 .. n}

Stars  == UpTo(5, {"a", "b", "*", "?"})
Sets   == {<<"[">> \o p \o s : p \in UpTo(4, {"a", "b", "]", "-", "^"}), s \in {<<"]">>, <<"]", "*", "b">>}}
Quotes == UpTo(4, {"[", "]", "\\", "a", "'", "\""})

MCPatterns == Stars \cup Sets \cup Quotes
MCSubjects == UpTo(3, {"a", "b"}) \cup {<<c>> : c \in {"-", "]", "[", "'", "\\", "^", "h"}}

Dots == {<<".">>, <<".", ".">>}
MCEntries ==
  <<".">>                   :> Dots \cup {<<".", "h">>, <<"a">>, <<"a", "b">>, <<"b">>, <<"d">>} @@
  <<"b", "/">>              :> Dots @@
  <<"d", "/">>              :> Dots \cup {<<"a">>, <<"b">>} @@
  <<"d", "/", "b", "/">>    :> Dots \cup {<<"a">>, <<".", "h">>}

MCWords ==
  { <<"*">>, <<"a">>, <<"a", "?">>, <<".", "*">>, <<"'", "*", "'">>, <<"'", "a">>, <<"h">>,
    <<"[", "a", "d", "]", "*">>, <<"d", "/">>, <<"d", "/", "*">>, <<"*", "/">>,
    <<"?", "/", "a">>, <<"d", "/", "?", "/", "*">>, <<"h", "/", "*">>,
    <<"*", "/", "b", "/", "[", "a", "]">>, <<"?", "/", "?", "/", "'">> }
=============================================================================
