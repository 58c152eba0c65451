-------------------------------- MODULE Exec --------------------------------
(***************************************************************************)
(* execute of main.c: the walk over the syntax tree of one line, with the  *)
(* iterators of support.c.  execute is recursive: stack holds its frames,  *)
(* the top one first, and a step goes from one recursive call (or entry)   *)
(* to the next call (or return).  Each tree node keeps its own iterator,   *)
(* lru_child, which frames of the same node share.                         *)
(*                                                                         *)
(* run_command is left to Jobs: here a simple command ends with any of the *)
(* statuses of Results.  What depends on characters (expansion, matching)  *)
(* is a choice.  log records these outcomes, the inputs of the walk.       *)
(***************************************************************************)
EXTENDS Trees, Integers, SequencesExt

CONSTANTS
  Programs,   \* trees: records of kind and kids, per node; the root is node 1
  Results,    \* exit statuses of commands
  MaxMatches, \* bound: file names that one word expands to
  MaxLog      \* bound: inputs of one walk

ASSUME ProgramsAssumption == \A p \in Programs : Executable(p)
ASSUME ResultsAssumption == Results \subseteq 0 .. 255 /\ {0, 1} \subseteq Results
ASSUME BoundsAssumption == {MaxMatches, MaxLog} \subseteq Nat

VARIABLES
  prog,       \* the tree
  start,      \* what the process started with: its top node, $?, background, item
  stack,      \* the frames of execute
  lru_child,  \* per node, the index of the child last visited, 0 at first
  last_res,   \* $?
  background, \* the flag of the same name
  item,       \* the control variable of for: the word and the rank of its value
  reported,   \* the messages execute itself has printed
  log         \* the outcomes of this process so far

vars == <<prog, start, stack, lru_child, last_res, background, item, reported, log>>

Nodes == DOMAIN prog.kind
kind(n) == prog.kind[n]
kids(n) == prog.kids[n]

(* A frame: the node, where its call is to go on, the child index t kept    *)
(* for later (0 for none), the saved flag b and the length of q, the values *)
(* still to be assigned.                                                    *)
Frame(n) == [n |-> n, at |-> "enter", t |-> 0, b |-> FALSE, q |-> 0]
Top == Head(stack)
this == Top.n
At(kinds, places) == stack # << >> /\ kind(this) \in kinds /\ Top.at \in places

\* mutant: the iterator does not move on
After_Stuck(n, i) == IF i < Len(kids(n)) THEN (IF i = 0 THEN 1 ELSE i) ELSE 0

\* tree_get_next_subnode after child i of n: its index, or 0.
After(n, i) == IF i < Len(kids(n)) THEN i + 1 ELSE 0

\* The recursive call for node m, from a frame left as f.
Call(m, f) == stack' = <<Frame(m), f>> \o Tail(stack)
Return == stack' = Tail(stack)
Goto(f) == stack' = <<f>> \o Tail(stack)
Visit(n, i) == lru_child' = [lru_child EXCEPT ![n] = i]
Report(m) == reported' = reported \cup {m}

\* One input of the walk: what happened at which node, with which outcome, and
\* what the walk had set up for it ($? among it).
Log(what, val, res) ==
  /\ Len(log) < MaxLog
  /\ log' = Append(log, [what |-> what, n |-> this, val |-> val, bg |-> background,
                         item |-> item, res |-> res])

\* Unless the process forks, what it started with stays.
same == <<prog, start>>

-----------------------------------------------------------------------------
Init ==
  /\ prog \in Programs
  /\ stack = <<Frame(1)>>
  /\ lru_child = [n \in Nodes |-> 0]
  /\ last_res \in Results /\ background = FALSE
  /\ item = <<0, 0>> /\ reported = {} /\ log = << >>
  /\ start = [top |-> 1, res |-> last_res, background |-> background, item |-> item]

\* Execute the child with index i, or return when there is none.
Descend(i) ==
  /\ IF i = 0 THEN Return /\ UNCHANGED lru_child
     ELSE Call(kids(this)[i], [Top EXCEPT !.at = "next"]) /\ Visit(this, i)
  /\ UNCHANGED <<same, last_res, background, item, reported, log>>

Enters == IF stack # << >> /\ Top.at = "enter" THEN After(this, 0) ELSE After(this, lru_child[this])

\* GRM_PIPELINE, GRM_COMMAND and the default case (root, and/or, '&'), and the
\* commands of a subshell in its own process: one child after the other.
ExecuteChildren ==
  /\ \/ At({"root", "andor", "pipeline", "command", "&"}, {"enter", "next"})
     \/ At({"subshell"}, {"next"})
  /\ Descend(Enters)

\* mutant: || is read as &&
ExecuteOrIf_AsAnd ==
  /\ At({"or_if"}, {"enter", "next"})
  /\ Descend(IF Top.at = "enter" /\ last_res # 0 THEN 0 ELSE Enters)

ExecuteAndIf ==
  /\ At({"and_if"}, {"enter", "next"})
  /\ Descend(IF Top.at = "enter" /\ last_res # 0 THEN 0 ELSE Enters)

ExecuteOrIf ==
  /\ At({"or_if"}, {"enter", "next"})
  /\ Descend(IF Top.at = "enter" /\ last_res = 0 THEN 0 ELSE Enters)

\* GRM_BANG: its pipeline, then the negated status.
ExecuteBang ==
  \/ At({"bang"}, {"enter"}) /\ Descend(After(this, 0))
  \/ /\ At({"bang"}, {"next"})
     /\ last_res' = IF last_res = 0 THEN 1 ELSE 0
     /\ Return
     /\ UNCHANGED <<same, lru_child, background, item, reported, log>>

\* mutant: the flag stays up
ExecuteList_NoRestore ==
  /\ At({"list", "compound"}, {"enter", "next"})
  /\ LET i == IF Top.at = "enter" THEN After(this, 0) ELSE Top.t
         t == After(this, i)
     IN  IF i = 0
         THEN Return /\ UNCHANGED <<background, lru_child>>
         ELSE /\ Visit(this, IF t = 0 THEN i ELSE t)
              /\ background' = (background \/ (t # 0 /\ kind(kids(this)[t]) = "&"))
              /\ Call(kids(this)[i], [Top EXCEPT !.at = "next", !.t = t])
  /\ UNCHANGED <<same, last_res, item, reported, log>>

\* GRM_LIST and GRM_COMPOUND_LIST look one child ahead: before a '&' the child
\* runs under the background flag, which is put back when the call returns.
ExecuteList ==
  /\ At({"list", "compound"}, {"enter", "next"})
  /\ LET amp(t) == t # 0 /\ kind(kids(this)[t]) = "&"
         i == IF Top.at = "enter" THEN After(this, 0) ELSE Top.t
         t == After(this, i)
         flag == IF Top.at = "next" /\ amp(i) THEN Top.b ELSE background
     IN  IF i = 0
         THEN Return /\ background' = flag /\ UNCHANGED lru_child
         ELSE /\ Visit(this, IF t = 0 THEN i ELSE t)
              /\ background' = (flag \/ amp(t))
              /\ Call(kids(this)[i], [Top EXCEPT !.at = "next", !.t = t, !.b = flag])
  /\ UNCHANGED <<same, last_res, item, reported, log>>

\* GRM_SIMPLE_COM: run_command gives the status.
ExecuteSimple ==
  /\ At({"simple"}, {"enter"})
  /\ \E res \in Results : last_res' = res /\ Log("run", {res}, last_res)
  /\ Return
  /\ UNCHANGED <<same, lru_child, background, item, reported>>

\* GRM_FUNCTION and GRM_IO_REDIRECT are still to do in the source.
ExecuteNothing ==
  /\ At({"function", "redirect"}, {"enter"})
  /\ Return
  /\ UNCHANGED <<same, lru_child, last_res, background, item, reported, log>>

-----------------------------------------------------------------------------
(* GRM_SUBSHELL.  After fork() the state is either that of the parent or   *)
(* that of the child, which starts a walk of its own with a copy of        *)
(* everything.                                                             *)

SubshellForkFails ==
  /\ At({"subshell"}, {"enter"})
  /\ Report("unable to run") /\ Log("nofork", {}, last_res)
  /\ Return
  /\ UNCHANGED <<same, lru_child, last_res, background, item>>

SubshellParent ==
  /\ At({"subshell"}, {"enter"})
  /\ Goto([Top EXCEPT !.at = "wait"])
  /\ UNCHANGED <<same, lru_child, last_res, background, item, reported, log>>

SubshellChild ==
  /\ At({"subshell"}, {"enter"})
  /\ start' = [top |-> this, res |-> last_res, background |-> background, item |-> item]
  /\ stack' = <<Frame(kids(this)[1]), [Top EXCEPT !.at = "next"]>> /\ Visit(this, 1)
  /\ log' = << >>
  /\ UNCHANGED <<prog, last_res, background, item, reported>>

\* mutant: the wait status is taken for the exit status
SubshellWait_Undecoded ==
  /\ At({"subshell"}, {"wait"})
  /\ \E res \in Results : last_res' = 256 * res /\ Log("sub", {res}, last_res)
  /\ Return
  /\ UNCHANGED <<same, lru_child, background, item, reported>>

\* The parent waits until this child has ended, reaping jobs meanwhile (Jobs).
SubshellWait ==
  /\ At({"subshell"}, {"wait"})
  /\ \E res \in Results : last_res' = res /\ Log("sub", {res}, last_res)
  /\ Return
  /\ UNCHANGED <<same, lru_child, background, item, reported>>

-----------------------------------------------------------------------------
(* GRM_FOR: name, in, words, do-group; or name, do-group.                  *)

\* The do-group is looked for behind the first word only.
ForIn ==
  /\ At({"for"}, {"enter"}) /\ kind(kids(this)[2]) = "in"
  /\ last_res' = 0
  /\ LET groups == {i \in 4 .. Len(kids(this)) : kind(kids(this)[i]) = "compound"}
     IN  IF groups = {}
         THEN /\ Report("broken execution tree") /\ Return
              /\ Visit(this, Len(kids(this)))
         ELSE /\ Goto([Top EXCEPT !.at = "word", !.t = Min(groups)])
              /\ Visit(this, 3) /\ UNCHANGED reported
  /\ UNCHANGED <<same, background, item, log>>

\* The next word expands to q file names or to itself; its substitution may
\* fail, and the list runs with the variable as it was.
ForWord ==
  /\ At({"for"}, {"word"})
  /\ IF lru_child[this] = Top.t THEN Return /\ UNCHANGED log
     ELSE \E q \in 0 .. MaxMatches :
            /\ Log("expand", {q}, last_res)
            /\ LET f == [Top EXCEPT !.at = "value", !.q = q]
               IN  IF q = 0 THEN Call(kids(this)[Top.t], f) ELSE Goto(f)
  /\ UNCHANGED <<same, lru_child, last_res, background, item, reported>>

\* mutant: a word gives one value only
ForValue_First ==
  /\ At({"for"}, {"value"})
  /\ IF Top.q = 0
     THEN /\ Visit(this, After(this, lru_child[this]))
          /\ Goto([Top EXCEPT !.at = "word"])
          /\ UNCHANGED item
     ELSE /\ item' = <<lru_child[this], Top.q>>
          /\ Call(kids(this)[Top.t], [Top EXCEPT !.q = 0])
          /\ UNCHANGED lru_child
  /\ UNCHANGED <<same, last_res, background, reported, log>>

\* Assign a value and run the list, or move to the next word.  Values have
\* ranks that go down to 1.
ForValue ==
  /\ At({"for"}, {"value"})
  /\ IF Top.q = 0
     THEN /\ Visit(this, After(this, lru_child[this]))
          /\ Goto([Top EXCEPT !.at = "word"])
          /\ UNCHANGED item
     ELSE /\ item' = <<lru_child[this], Top.q>>
          /\ Call(kids(this)[Top.t], [Top EXCEPT !.q = @ - 1])
          /\ UNCHANGED lru_child
  /\ UNCHANGED <<same, last_res, background, reported, log>>

\* Without a list the iterator is moved once more, and the loop over the arguments
\* of the shell has no round: numargs is 0 at its definition and never assigned.
ForArgs ==
  /\ At({"for"}, {"enter"}) /\ kind(kids(this)[2]) # "in"
  /\ last_res' = 0
  /\ LET t == After(this, 2) IN Visit(this, IF t = 0 THEN 2 ELSE t)
  /\ Return
  /\ UNCHANGED <<same, background, item, reported, log>>

-----------------------------------------------------------------------------
(* GRM_CASE: word, in, items; an item: patterns, do-group if it has one.   *)

CaseItems == {i \in 3 .. Len(kids(this)) : kind(kids(this)[i]) = "caseitem"}

\* hits are the items with a pattern that matches; the first one counts.
ExecuteCase ==
  /\ At({"case"}, {"enter"})
  /\ last_res' = 0
  /\ \E hits \in SUBSET CaseItems :
       /\ Log("match", hits, 0)
       /\ IF hits = {} THEN Return /\ Visit(this, Len(kids(this)))
          ELSE LET i == Min(hits)
               IN  /\ lru_child' = [lru_child EXCEPT ![this] = i, ![kids(this)[i]] = 1]
                   /\ Goto([Top EXCEPT !.at = "body"])
  /\ UNCHANGED <<same, background, item, reported>>

\* A word whose substitution failed is NULL and still compared.
CaseCrash ==
  /\ At({"case"}, {"enter"}) /\ CaseItems # {}
  /\ stack' = << >> /\ Report("crash") /\ last_res' = 0
  /\ UNCHANGED <<same, lru_child, background, item, log>>

CaseBody ==
  /\ At({"case"}, {"body"})
  /\ LET m == kids(this)[lru_child[this]]
         i == After(m, lru_child[m])
     IN  IF i = 0 THEN Return /\ UNCHANGED lru_child
         ELSE Call(kids(m)[i], Top) /\ Visit(m, i)
  /\ UNCHANGED <<same, last_res, background, item, reported, log>>

-----------------------------------------------------------------------------
(* GRM_IF, GRM_WHILE, GRM_UNTIL: condition, list; an if has elif parts and *)
(* an else part behind them.                                               *)

ExecuteCondition ==
  /\ At({"if", "while", "until"}, {"enter"})
  /\ last_res' = 0
  /\ Visit(this, 2) /\ Call(kids(this)[1], [Top EXCEPT !.at = "cond"])
  /\ UNCHANGED <<same, background, item, reported, log>>

\* mutant: an elif is taken for an else
IfCondition_ElifIsElse ==
  /\ At({"if"}, {"cond"})
  /\ LET here == lru_child[this]
         clause == IF here = 2 THEN this ELSE kids(this)[here]
         i == After(this, here)
         part == kids(this)[i]
         elif == kind(part) = "elif"
     IN  IF last_res = 0
         THEN Call(kids(clause)[2], [Top EXCEPT !.at = "end"]) /\ UNCHANGED lru_child
         ELSE IF i = 0 THEN Return /\ UNCHANGED lru_child
         ELSE /\ lru_child' = [lru_child EXCEPT ![this] = i, ![part] = IF elif THEN 2 ELSE 1]
              /\ Call(kids(part)[1], [Top EXCEPT !.at = "end"])
  /\ UNCHANGED <<same, last_res, background, item, reported, log>>

\* The list of the condition that held, or the next part.
IfCondition ==
  /\ At({"if"}, {"cond"})
  /\ LET here == lru_child[this]
         clause == IF here = 2 THEN this ELSE kids(this)[here]
         i == After(this, here)
         part == kids(this)[i]
         elif == kind(part) = "elif"
     IN  IF last_res = 0
         THEN Call(kids(clause)[2], [Top EXCEPT !.at = "end"]) /\ UNCHANGED lru_child
         ELSE IF i = 0 THEN Return /\ UNCHANGED lru_child
         ELSE /\ lru_child' = [lru_child EXCEPT ![this] = i, ![part] = IF elif THEN 2 ELSE 1]
              /\ Call(kids(part)[1], [Top EXCEPT !.at = IF elif THEN "cond" ELSE "end"])
  /\ UNCHANGED <<same, last_res, background, item, reported, log>>

IfEnd ==
  /\ At({"if"}, {"end"}) /\ Return
  /\ UNCHANGED <<same, lru_child, last_res, background, item, reported, log>>

LoopCondition ==
  /\ At({"while", "until"}, {"cond"})
  /\ IF (last_res = 0) = (kind(this) = "while")
     THEN Call(kids(this)[2], [Top EXCEPT !.at = "body"])
     ELSE Return
  /\ UNCHANGED <<same, lru_child, last_res, background, item, reported, log>>

LoopBody ==
  /\ At({"while", "until"}, {"body"})
  /\ Call(kids(this)[1], [Top EXCEPT !.at = "cond"])
  /\ UNCHANGED <<same, lru_child, last_res, background, item, reported, log>>

-----------------------------------------------------------------------------
Next ==
  \/ ExecuteChildren \/ ExecuteAndIf \/ ExecuteOrIf \/ ExecuteBang \/ ExecuteList
  \/ ExecuteSimple \/ ExecuteNothing
  \/ SubshellForkFails \/ SubshellParent \/ SubshellChild \/ SubshellWait
  \/ ForIn \/ ForWord \/ ForValue \/ ForArgs
  \/ ExecuteCase \/ CaseCrash \/ CaseBody
  \/ ExecuteCondition \/ IfCondition \/ IfEnd \/ LoopCondition \/ LoopBody

\* One process that keeps running; that its commands end is what Jobs shows.
Spec == Init /\ [][Next]_vars /\ WF_vars(Next)

-----------------------------------------------------------------------------
Places == {"enter", "next", "wait", "word", "value", "body", "cond", "end"}
Frames == [n : Nodes, at : Places, t : Nat, b : BOOLEAN, q : Nat]
Messages == {"unable to run", "broken execution tree", "crash"}

\* Statuses are exit statuses, iterators stay within the children of their
\* node, and every frame is one of execute's.
TypeOK ==
  /\ prog \in Programs /\ start.top \in Nodes /\ start.res \in 0 .. 255
  /\ stack \in Seq(Frames)
  /\ \A n \in Nodes : lru_child[n] \in 0 .. Len(kids(n))
  /\ last_res \in 0 .. 255 /\ background \in BOOLEAN
  /\ reported \subseteq Messages
  /\ Len(log) <= MaxLog

\* The frame runs a child that a '&' follows.
BeforeAmp(f) ==
  /\ kind(f.n) \in {"list", "compound"} /\ f.at = "next" /\ f.t # 0
  /\ kind(kids(f.n)[f.t]) = "&"

\* background is up exactly while some enclosing list runs a child that a '&'
\* follows, or since before the process was forked: however lists are nested and
\* wherever a call returns, the saved flag b of main.c:1359 puts it back.  A process
\* that has crashed has no flag.
BackgroundScoped ==
  "crash" \notin reported =>
    background = (start.background \/ \E i \in DOMAIN stack : BeforeAmp(stack[i]))

\* A line without loops ends: no iterator of support.c is set back by a call on
\* the way, so that each child of a list, case or if comes up once.
LineEnds == {kind(n) : n \in Nodes} \cap {"while", "until"} = {} ~> stack = << >>

-----------------------------------------------------------------------------
(* What comments and the grammar say, and the code does not do.            *)

\* gram.txt:98 has a for with in and no words, and the parser builds its tree: name,
\* in, do-group.  Each for that the grammar has is executed, this one with no round,
\* and none is given up as broken (main.c:1117): what walks the words and what looks
\* for the do-group behind them agree on where the words begin.
ForsAreExecuted == "broken execution tree" \notin reported

=============================================================================
