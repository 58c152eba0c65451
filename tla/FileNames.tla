----------------------------- MODULE FileNames -----------------------------
(***************************************************************************)
(* pattern_filename_gen: a word with pattern characters becomes the names  *)
(* of the files it matches, directory by directory.  Each call has its own *)
(* directory, automaton and entries still to read; the calls in progress   *)
(* are frames, the innermost first, and Pattern compiles and matches for   *)
(* the innermost.  readdir gives the entries in any order.                 *)
(***************************************************************************)
EXTENDS Pattern

CONSTANTS
  Words,    \* the words asked for
  Entries   \* of each directory, as its name is given to opendir

ASSUME EntriesAssumption ==
  /\ {"/", "."} \subseteq DOMAIN Byte
  /\ \A d \in DOMAIN Entries : Entries[d] \subseteq Seq(DOMAIN Byte) \ {<< >>}
ASSUME WordsAssumption == Words \subseteq Seq(DOMAIN Byte) \ {<< >>}

VARIABLES
  frames,       \* the calls: pat, j, dir, recur, left, fsm, matches
  q,            \* the list of names
  found,        \* what the outermost call returned
  err_occured

files == <<frames, q, found, err_occured>>
allVars == <<vars, files>>

Here == <<".">>
IsDir(name) == Append(name, "/") \in DOMAIN Entries
Listing(dir) == IF dir \in DOMAIN Entries THEN Entries[dir] ELSE {}

(* The first loop: j is where the first part with pattern characters ends,  *)
(* i is the last slash in front of that part, 0 if there is none.           *)
Split(pat) ==
  LET special(k) ==
        \/ pat[k] \in {"*", "?"}
        \/ pat[k] = "]" /\ \E o \in 1 .. k - 1 : pat[o] = "[" /\ \A n \in o .. k : pat[n] # "/"
      slashes == {k \in DOMAIN pat : pat[k] = "/"}
      behind == {k \in slashes : \E m \in 1 .. k : special(m)}
  IN  [i |-> Max({0} \cup (slashes \ behind)), j |-> Min({Len(pat) + 1} \cup behind)]

Frame(pat) ==
  LET s == Split(pat)
      dir == IF s.i = 0 THEN Here ELSE SubSeq(pat, 1, s.i)
  IN  [pat |-> pat, j |-> s.j, dir |-> dir, recur |-> s.j <= Len(pat),
       p |-> SubSeq(pat, s.i + 1, s.j - 1), left |-> {}, matches |-> 0,
       fsm |-> EmptyFsm(0)]

top == Head(frames)

\* One call of pattern_match or of pattern_filename_gen.
FilesInit ==
  /\ \/ pc = "compile" /\ expr \in Patterns /\ frames = << >>
     \/ pc = "call" /\ expr = << >> /\ \E w \in Words : frames = <<Frame(w)>>
  /\ index = 1 /\ state = 0 /\ fsm = EmptyFsm(Len(expr))
  /\ set = [negate |-> FALSE, changestate |-> FALSE] /\ quote = ""
  /\ str = << >> /\ cur = 0 /\ pos = 0 /\ retries = 0 /\ st = None /\ stack = << >>
  /\ q = << >> /\ found = 0 /\ err_occured = FALSE

\* strcmp of the two names is below 0.
Less(s, t) ==
  \E k \in DOMAIN t :
    /\ \A m \in 1 .. k - 1 : m <= Len(s) /\ s[m] = t[m]
    /\ k > Len(s) \/ Byte[s[k]] < Byte[t[k]]

llist_insert_alphabet(name) ==
  q' = InsertAt(q, Cardinality({k \in DOMAIN q : Less(q[k], name)}) + 1, name)

\* The innermost call returns n to the loop of the one around it.
Return(n) ==
  IF Len(frames) = 1
  THEN found' = n /\ pc' = "done" /\ UNCHANGED <<frames, parsing>>
  ELSE /\ frames' = [Tail(frames) EXCEPT ![1].matches = @ + n]
       /\ fsm' = frames[2].fsm /\ expr' = frames[2].p /\ pc' = "list"
       /\ index' = 1 /\ state' = 0
       /\ UNCHANGED <<found, set, quote>>

\* The buffer for a part in the middle is tested by a variable not yet set.
MallocError ==
  /\ pc = "call" /\ top.recur /\ top.dir # Here
  /\ Return(0) /\ err_occured' = TRUE
  /\ UNCHANGED <<matching, q>>

DirectoryOnly ==
  /\ pc = "call" /\ top.p = << >>
  /\ llist_insert_alphabet(top.dir) /\ Return(1)
  /\ UNCHANGED <<matching, err_occured>>

CompilePart ==
  /\ pc = "call" /\ top.p # << >>
  /\ Compile(top.p) /\ pc' = "compile"
  /\ UNCHANGED <<matching, files>>

PatternError ==
  /\ pc = "no fsm"
  /\ Return(0) /\ err_occured' = TRUE
  /\ UNCHANGED <<matching, q>>

OpenDir ==
  /\ pc = "compile" /\ index > Len(expr)
  /\ frames' = [frames EXCEPT ![1].left = Listing(top.dir), ![1].fsm = fsm]
  /\ pc' = "list"
  /\ UNCHANGED <<parsing, matching, q, found, err_occured>>

\* Names with a dot in front are not special.
Hidden_Never(name) == FALSE

\* Names with a dot in front are passed over by a leading ? or * only.
Hidden(name) == name[1] = "." /\ top.p[1] \in {"?", "*"}

\* A name that is passed over is met again.
ReadDir_Again ==
  /\ pc = "list"
  /\ \E name \in top.left :
       IF Hidden(name) THEN UNCHANGED <<pc, frames, matching>>
       ELSE /\ frames' = [frames EXCEPT ![1].left = @ \ {name}]
            /\ StartMatch(name) /\ pc' = "match"
  /\ UNCHANGED <<parsing, q, found, err_occured>>

ReadDir ==
  /\ pc = "list"
  /\ \E name \in top.left :
       /\ frames' = [frames EXCEPT ![1].left = @ \ {name}]
       /\ IF Hidden(name) THEN UNCHANGED <<pc, matching>>
          ELSE StartMatch(name) /\ pc' = "match"
  /\ UNCHANGED <<parsing, q, found, err_occured>>

Path == IF top.dir = Here THEN str ELSE top.dir \o str

Enqueue ==
  /\ pc = "matched" /\ ~top.recur
  /\ llist_insert_alphabet(Path)
  /\ frames' = [frames EXCEPT ![1].matches = @ + 1] /\ pc' = "list"
  /\ UNCHANGED <<parsing, matching, found, err_occured>>

Recurse ==
  /\ pc = "matched" /\ top.recur /\ IsDir(Path)
  /\ frames' = <<Frame(Path \o SubSeq(top.pat, top.j, Len(top.pat)))>> \o frames
  /\ pc' = "call"
  /\ UNCHANGED <<parsing, matching, q, found, err_occured>>

Skip ==
  /\ pc = "rejected" \/ (pc = "matched" /\ top.recur /\ ~IsDir(Path))
  /\ pc' = "list"
  /\ UNCHANGED <<parsing, matching, files>>

CloseDir ==
  /\ pc = "list" /\ top.left = {}
  /\ Return(top.matches)
  /\ UNCHANGED <<matching, q, err_occured>>

pattern_filename_gen ==
  \/ MallocError \/ DirectoryOnly \/ CompilePart \/ PatternError \/ OpenDir
  \/ ReadDir \/ Enqueue \/ Recurse \/ Skip \/ CloseDir

FilesNext ==
  \/ (Compilation \/ Matching) /\ UNCHANGED files
  \/ frames = << >> /\ Compiled /\ UNCHANGED files
  \/ frames # << >> /\ pattern_filename_gen

FilesSpec == FilesInit /\ [][FilesNext]_allVars /\ WF_allVars(FilesNext)

=============================================================================
