# A model of fsh in TLA+

fsh is a small POSIX-like shell in C (`src/`, about 6000 lines). One thread reads
a line, cuts it into tokens, parses it into a tree and walks the tree; child
processes run beside it. This directory holds TLA+ modules translated from the
source, TLC instances of them, and proofs for TLAPS.

## Inventory

| part | source | state | operations | modules |
|---|---|---|---|---|
| input loop, SIGINT handler | `main.c` 754-974 | flags, the pending input | import the environment, read, tokenize, parse, execute, empty line, end of file | `Jobs` (by effect), `Words` (start-up, tokens of a line) |
| error latch | `main.c` 489-556, `expr.c` 249-287 | `err_occured`, static `ignore` | raise, clear | `Jobs` |
| tree executor | `main.c` 976-1380 | C stack, `last_res`, `background` | one case per node type | `Exec`, `ExecMeaning` |
| syntax tree | `support.c` 238-351 | children, `lru_child` | create, add, iterate, delete | `Exec` (iterators), `Grammar` (adding) |
| simple commands, waiting | `main.c` 1382-1578 | argument vector, children of the kernel | reap, expand, dispatch, fork, wait | `Jobs` |
| job table | `main.c` 228-330 | `job_q` | `job_add`, `job_get_by_pid`, `job_done`, list | `Jobs` |
| builtins | `main.c` 330-487 | variables, `allow_exec`, job numbers | `cd` ... `exit` | `Jobs` (by effect), `Words` (`export`, `unexport`) |
| linked lists, queues | `support.c` 1-236 | `q`, `next`, `prev`, `first` | append, insert in order, unlink, take, clear, walk | `KeyList`, `Llist` |
| parser | `grammar.c`, `gram.txt` | `toklast`, `command_empty`, the tree | one function per nonterminal | `Grammar`, `GrammarText` |
| tokenizer | `tokenizer.c` | the token under way, the queue | cut, keywords, io numbers, quote removal | `Tokenizer`, `Words`, `WordsMeaning` |
| patterns | `pattern.c` | automaton, stack of retries, calls of the generator | compile, match, file names | `Pattern`, `FileNames`, `PatternMeaning` |
| arithmetic | `expr.c` | queue of symbols, calls, `err_occured` | scan, parse, evaluate | `Expr`, `ExprMeaning` |
| variables, substitution | `main.c` 98-228, 1580-1942 | `var_q`, the environment | find, set, unset, assign, export, substitute | `Vars`, `VarMap`, `Words`, `WordsMeaning` |
| prompts, debug printers | `main.c` 558-752, `support.c` 98-163 | none of their own | formatting | left out: they only write |
| drivers | `tokenmain.c`, `filegenmain.c`, `lexan.*` | - | stand-alone copies of early stages | left out: not in the shell |

The parts meet in global variables, not in messages: `last_res`, `background`,
`err_occured`, `job_q`, `varlist` and the iterators inside the tree are written by
one part and read by others many calls later. The only true concurrency is
between the shell and its children; they meet in `wait()`.

What is hard to get right, and what would make each part correct:

* waiting: children end in any order, `wait()` returns any of them, entries must
  appear and vanish with their process, and no loop may wait for a child already
  collected;
* the latch: two users of one flag, a message counter that suppresses setting it;
* the list: a head pointer copied into nodes and repaired in one of them;
* the walk: one iterator per node, one background flag and one `$?` for all frames;
* parser: a wrong token is reported but stays, and the parser goes on; it must still
  end, and what it passes to `execute` must be the whole line in a shape `execute`
  can walk;
* tokenizer: quotes, operators and io numbers cut at the right character;
* pattern and arithmetic: nondeterminism and precedence, character by character;
* variables: at most one entry per name, exported ones equal to the environment.

## Modules

**Jobs** follows one command from the prompt to the end of its wait. `pc` says
where the one thread is (`prompt`, `line`, `reap`, `expand`, `wait`, or a final
place); `proc` and `wstatus` are the kernel's side. An action is a turn of a
loop or a straight piece of `run_command`, because a child can end between any
two of these. Each list node carries one Boolean for its `first` pointer, whether
it is the address of the present head: `llist_remove` (support.c:112) repairs it
only in the tail. When such a stale pointer is followed the model stops in
`undefined`. Which commands a line consists of is left open: a line is any
sequence of what `execute` can call. The process followed is the shell a user typed
to. A subshell that it forks (main.c:1033-1041) is one of its children here and no
more: it walks its tree in `Exec` (`SubshellChild`), but that it does so with a copy of
`job_q`, whose jobs are not *its* children, is not modelled, so that
`ChildrenAccounted`, `JobListIntact` and the lookups by process number say nothing
about the jobs of a subshell.

**Llist** is `support.c`'s list pointer by pointer, with `malloc` taking any free
node and `free` leaving the contents behind. Loops are walked one turn at a time,
so that what they rely on is an invariant. `Ops` says which operations a client
uses: the file names of `pattern.c`, the tokens, the job table. **KeyList** is
what a client thinks it has, a sequence of keys, and `ImplementsKeyList` states
that the pointers implement it (`INSTANCE KeyList WITH items <- ...`, by the
order in which `next` links the nodes).

**Exec** turns the recursion of `execute` into a stack of frames: the node, the
place where its call continues and the locals that survive a call. Each branch of
the switch is one or a few actions, one per stretch between two recursive calls.
The trees are given by a constant; `ProgramsAssumption`, by the operator `Executable`
of **Trees**, says what `execute` takes for granted of them: children have higher numbers, and each kind has the children
its branch goes for. What the environment decides (the status of a
command, how many values a word expands to, which patterns match, whether `fork`
succeeds) is a choice recorded in `log`. After `fork` the next state is the
parent's or the child's; the child's log starts anew. Branches for trees that no
parser builds ("unexpected NULL pointer", the list of nodes never executed) are
not in the model. A `for` without a list has no rounds: `numargs` is 0 where it is
defined (main.c:80) and assigned nowhere. The iterators of pattern nodes are folded into the
choice of what matches.

**ExecMeaning** evaluates a tree recursively, as a reader of the grammar would,
consuming `log`: no stack, no iterators, no shared flag. `RunsAsMeant` compares
it with the walk in every state.

**Grammar** has an action for each function of `grammar.c`. The functions share
nothing but the look-ahead and hand on a node, so the C stack is `todo`, the list
of calls and macros (`compare`, `add_node` ...) still to come, each with the depth
of its node; nodes are only ever added below the rightmost branch, so the tree is
its preorder with depths. A token is chosen when it becomes the look-ahead: the
model covers all lines, right and wrong, over the alphabets of its constant.
Different names share an action where the code is the same text twice
(`cmd_name`/`cmd_word`, `x`/`x_rest`, `newline_list_rest`, `function_body_rest`).
The flags `pending`, `expand` and `complist_empty` are left out: the first two
have no effect, the third is never set. `TreeExecutable` is what `Exec` takes
for granted of its trees. **GrammarText** writes a tree as a line again, with a
recursive operator; `TreeSaysLine` compares it with the tokens taken.

**Pattern** compiles a pattern by the turns of `make_fsm`'s loop and runs `match`
with its stack. A character is a value with a byte, so that ranges are those of the
code. The rules of a state are a sequence with the latest first. The search for
the `]` of a set can jump over the terminator behind a backslash; what it finds
there is a choice. **FileNames** is `pattern_filename_gen` on top of it: each call
is a frame with its part of the word, its directory and the entries `readdir` has
yet to give, in any order; the innermost call uses `Pattern`'s variables for its
automaton. The buffer test that reads an unset variable (pattern.c:459) is a
choice between going on and failing (`MallocError`). Where the loops look ahead, the
model says what they find and not how they go (`SearchEnd`, `PassedOver`, `Split`),
so that it can be reasoned about without recursion. **PatternMeaning** reads a
pattern as a sequence of elements and says by recursion which texts they stand
for, and which names a word stands for in a tree of directories.

**Expr** has one action for each kind of character `lexan` distinguishes and for
each place of the recursive functions between two calls. `Expr`, `A`, `B`, `C`,
`D` and `F` differ in their operators only and share their actions, by level. Ints
have `Width` bits, and the bitwise operators work on the set of bits that are up; what is
undefined is a choice of all ints, and the one quotient that traps ends the shell. **ExprMeaning** parses the text once more by
precedence climbing and says its value, or that it has none.

**Tokenizer** has one action for each numbered rule of `tok_next_token`; quotes and
brackets are jumped over in one step, as their inner loops do. A character may
stand for a run of letters, so that keywords need no spelling. **Vars** are the
functions on the list of variables, **VarMap** what its users think it is.
**Words** puts them together: start-up imports the environment, then a line is
read, cut, and, if it is a simple command, its assignments and words go through
the three passes of `do_substitution`, then lose their quotes; `export` and
`unexport` then change the environment. A pass is a function of its text and one
step, as nothing else runs meanwhile. `eval_expr` is a constant operator, file
names are left to `FileNames`. The shell has no arguments (`numargs` again), so that
`$#` is 0 and `$*` and `$1` to `$9` are nothing. A text that makes the code read behind its end,
such as `"it's"`, ends in `undefined`. **WordsMeaning** has the tokens and the
meaning of a word as a reader of the line would say them, in one go from left to
right, and marks the words the passes treat differently as `odd`. So is an unquoted
value with a blank in it: the comment at tokenizer.c:503-513 lists field splitting (2.6.5 of
the standard) among what is "done elsewhere", and no code does it. The word stays one
argument in the program and in the model; `ArgumentsAsMeant` does not call that right.
For the same reason it leaves out a word without quotes that comes to nothing, which
is an empty argument here and none after field splitting. Assignments and arithmetic
are not split anyway.

The token of the end of a line has the blanks and the comment in front of it as its
text (tokenizer.c:178, 380-383), which nothing reads. Its copy, like that of every token
that is no word, goes to memory sized by the length of a buffer not yet written
(tokenizer.c:488), while `token->len` characters are copied. `LineEndOverruns` is the
outcome that this text did not fit; operators and keywords always fit in the least
that `malloc` gives.

**GrammarShapes** says in tables what each function does to its node: the places a
node goes through as subnodes are added, the ways of each function between them, and
what the look-ahead cannot be when it returns. `ShapeInv`, the invariant made of
them, has a choice of views of all depths and is for the proofs; TLC checks what
follows from it, `TreeExecutable`.

Each `XProofs` holds the theorems about `X`; **SeqLemmas** has the lemmas on
sequences and minima that several of them need (removing, inserting, cutting).

`MCJobs`, `MCLlist`, `MCExec`, `MCGrammar`, `MCPattern`, `MCExpr` and `MCWords` hold the values of the constants; `MCExec` builds
its trees with the parser's shapes (`a &` is followed by an empty command).
Operators named `X_Y` next to an `X` (`job_done_Keep`) are wrong versions of it
that the properties must tell from the right one; no specification uses them.

## Runs

| run | instance | shows |
|---|---|---|
| `JobsSafety` | 3 processes, 3 jobs, statuses 0, 3, signal 9 | children and table agree, no wait in vain, no silent error, job numbers only fall, `$?` is the awaited child's |
| `JobsLive` | 2 processes | the reaping and waiting loops end by the shell's own fairness; finished children are collected if the user stays |
| `LlistQueue` | 4 nodes, 2 keys, all queue operations | chain, head pointer, no freed node read, refinement (with it the order of insertions) |
| `LlistJobs` | 4 nodes, append and unlink | the refinement holds although the head pointer fails |
| `ExecLines` | 9 lines, log of 7 | the walk computes what the tree means, the background flag follows the nesting, lines without loops end |
| `GrammarLines` | 9 alphabets, lines up to 5 tokens in any order and up to 10-14 in sensible order | the parser ends, never reads behind the last token, its trees can be executed and say what the line says |
| `PatternMatch` | patterns up to 5 characters of 3 alphabets, texts up to 3; 16 words over 4 directories | patterns match what they mean, the stack of retries rises, words become the right names in order, every call ends |
| `ExprValues` | 4-bit ints, texts up to 4, 5 and 7 characters of 5 alphabets | the value is that of precedence climbing, the end of the queue is never taken, evaluation ends |
| `WordLines` | lines up to 5 characters, words up to 5 pieces, values with and without blanks, sessions of 3 commands | tokens, arguments and values are what the text means; the variables are a map; exports reach both sides |

Three runs are expected to fail and document where the code does not do what its
text says (`findings` in PROJECT.json quotes the lines):

| run | violated | what happens |
|---|---|---|
| `JobsHeadPointer` | `JobListIntact` | with three jobs, removing the head and then the tail makes a node the tail whose `first` was freed; only the tail of that time had learned of the new head, and a second removal of the head would repair the present one (support.c:129) |
| `ExecForNoWords` | `ForsAreExecuted` | `for x in ; do` (gram.txt:98) is parsed, and `execute` reports a broken tree (main.c:1117): it looks for the do-group behind the first word, and there is none |
| `GrammarReadWrite` | `OperatorTaken` | `<>` is compared with `<&`, stays, and is met again without end |

Seen while reading, without a run: a new job can get the number of an older one
(main.c:264); `nr_jobs` is never assigned; `( ... ) &` is waited for, since the
subshell case does not look at `background`; `here_end` is never called, so the
word behind `<<` becomes an argument; tokens behind a complete command are
dropped; `a ; b &&` is accepted because `command_empty` stays up; `a ; ;;` and
`(pattern)` in a case item are refused although `gram.txt` has them. The branch for
`for x do` (main.c:1158) steps past the do-group it holds in `t`, so that its loop
over the arguments would execute NULL; the loop has no round as long as nothing sets
`numargs`, so nothing comes of it. Values are never split
into fields (tokenizer.c:511, see `WordsMeaning` above).
`eval_expr` clears an error of the same line, so that a command runs after
"there were errors, nothing will be run" (main.c:1504) should have applied; a
substitution that failed is NULL and copied (main.c:1486, `ExpandCrash` of `Jobs`).

* Patterns: a negated set of several members matches what any of its rules lets
  through, nearly everything; an empty pattern matches nothing; the name of a
  matched directory is read as a pattern again; quotes stay in directory parts, and
  names that were generated lose theirs once more.
* Arithmetic: `**` has the level of `*` and is left-associative; the grammar in the
  comments is right-recursive where the code is not.
* Substitution: each pass goes over the results of the one before, so a value with
  a `$` or a quote in it is read again; `$((1+(2)))` ends at the first `))`,
  although the tokenizer counts parentheses; an apostrophe between double quotes
  takes the scan past the end of the text.
* Assignments: `export =1` puts an entry without a name into the environment, where
  `unexport ''` cannot take it out again, as `unsetenv` refuses the name; the shell itself
  gets no variable, as `do_assignment` rejects a text that begins with `=` and reports an
  error (main.c:1592); `a=` unsets; a quoted `"a=b"` in front of a command is an assignment;
  `export x` takes `x` out of the environment and then reports an error; `export x=`
  makes it empty there and unsets the variable; `export` substitutes its argument
  twice; an assignment to an exported variable does not reach the environment.
* Tokens: `a#b` begins a comment; quotes that are not closed are never reported.

`Understood` of `PatternMeaning`, `Ordinary` and the `odd` words of `WordsMeaning`
keep these cases out of the properties; the models themselves do what the code does.

**Bounds.** Three process numbers allow two jobs beside the awaited child, or
three jobs, the least for a stale tail; a job more repeats these situations. Two
exit codes and a signal tell apart every branch on a status. Four nodes have a
head, a tail and two nodes between; two keys give equal, smaller and greater
neighbours. The lines of `MCExec` nest each construct in another at least once;
`MaxLog` lets a loop go round more than twice, and `MaxMatches = 2` distinguishes
none, one and more. Symmetry is used for process
numbers and nodes in runs without liveness only. The view `Seen` of `MCLlist`
hides the contents of freed nodes, which no step reads before writing. `MaxLog = 7`
is enough for every line without a loop, as `LineEnds` shows by itself. In
`MCGrammar` five free tokens hold every pair of adjacent errors of lists and
redirections and chains of three commands; the ordered alphabets reach a whole
`if` with `elif`, a `for` with words, two case items, a loop and a function with a
redirection. In `MCPattern` five characters
hold two stars with a character between and behind them, the least for a retry
inside a retry; a set of four holds a negation, a range and a member. The
directories nest once and have hidden names, names equal to a pattern and an
empty place. Four bits give `MCExpr` every overflow, bad shift and trap with
one-digit numbers; seven ordered characters hold four operands, the least with an
inner operator between two outer ones. In `MCWords` five characters hold quotes with
an escape inside and text on both sides; sessions of three commands set, change and
unset or export a name; up to four pieces put a value with a blank between quotes, beside
other text, in an assignment, and where it would be split.
`MaxErrorTokens = 3` ends lines that failed, so that errors late in a
long line are followed by the end of the line only. `<>` is left to its own run,
since its lines never end.

**Deadlock** is checked in `Jobs` and `Llist` (final places stutter explicitly)
and not in the others, which follow one call or one session to its end.

**Fairness.** `Jobs` asks weak fairness of the shell's own loops only: a runnable
thread runs. What a user owes (Return is pressed at some prompts, a line comes to a
command or its end, a child ends some time) is `UserFairness`, a premise of
`FinishedJobsReaped` alone. The other modules ask weak fairness of their one
thread; that a command comes back is the subject of `Jobs`.

## Proofs

All theorems hold for every value of the constants that meets the named assumptions
of the modules.

`JobsProofs`, for every set of process numbers and any bound on jobs:

* `Invariance`: `IInv == TypeOK /\ ChildrenAccounted /\ NoWaitSpin`. None of the
  three is inductive alone: the wait step may free the awaited child only because
  `NoWaitSpin` says it is still one, and the accounts say it is not a job.
  `TypeCorrect`, `Accounting` and `WaitHasChild` follow.
* `ErrorsAreReported`: the flag is up only after a message; inductive by itself.
* `TwoJobsIntact`: with `MaxJobs <= 2` the list is never entered by a stale
  pointer. The strengthening says that with at most two entries all nodes know
  the head.
* `NumbersShrink`: the action property on job numbers, from the lengths of the
  table and the numbers in it.
* `WaitSetsStatus`: `ForegroundStatus`. Of all steps only the turn of the loop that
  collects the awaited child goes back to the tree, and it takes that child's status
  whatever was collected on the way.

`LlistProofs`, for any finite set of nodes, any keys and any client:

* `ListInvariance`, `ListTypeCorrect`, `AlwaysWellLinked`. `LInv` names the length
  and the order of the chain (`Represents`) and what the loop of
  `llist_insert_alphabet` relies on between turns. Two lemmas carry the pointer
  arithmetic: linking a node in behind the k-th, and linking the k-th out.
* `QueueHeadCurrent`, `QueueWalksAreSafe`: for clients that never unlink, the head
  pointer is right and no walk meets a freed node.
* `ListRefines`: `ImplementsKeyList`, the refinement. The abstract state is the data
  in *the* order in which `next` links the nodes; that there is only one is a lemma
  of its own, by minimal counterexample. Each operation is then a step of `KeyList`
  and each turn of a loop a stutter. For the insertion `SearchInv` says that
  everything the search has gone past is not smaller than the new datum, and that is
  why the place it stops at is the right one.

`ExecProofs`, for all trees that meet `ProgramsAssumption`, any statuses and any bounds:

* `ExecTypeCorrect`. `ExecInv` adds what a frame relies on when its call comes
  back: where its look-ahead or its iterator stands. Frames of one node would
  share an iterator, so that a call could move it under another's feet; the
  invariant says that nodes grow towards the top of the stack (`Descending`), and
  a step writes iterators of the top node and of nodes below it in the tree only.
* `BackgroundAlwaysScoped`. `BackgroundScoped` speaks of the flag now; to survive
  a return it needs `Saved`: each list with a `&` behind its running child has
  saved what the frames under it ask for. Every step pushes, replaces or pops the
  top frame, and one lemma for each says that the frames below keep their worth.

`GrammarProofs`, for all alphabets and lines of any length, right or wrong:

* `Parsing`: `ParserInv == LineOK /\ Preorder(tree) /\ Possible(todo, depth)`.
  `Possible` speaks of all that is still to be done, since any call may be the next
  one: none of it compares the look-ahead with the end of the line (`Wanted`), the
  depths fall by steps of one at most towards what comes later (`Gentle`), and each
  item finds the node it adds to in the rightmost branch, now or after a pending
  `add_node` in front of it (`Reach`).
* `ParserTypes`, `EndNotTaken`: from it. The second says that the queue is never
  read behind `T_EOF`, although the parser goes on after every error.

* `TreesExecutable`: `TreeExecutable`. What a node has below it is the work of several
  calls with others between them, so the invariant, `ShapeInv`, must say of every item
  that is still to be done what it relies on and what it leaves. A view gives the
  node of each depth on the rightmost branch a place, such as `<<"for", "words">>`: a
  name, `in` and any number of words so far. As long as no error is said there is a
  view before and after every item of `todo`: the first is true of the tree, each item
  leads from one to the next, and the last has nothing open. The tables say which
  ways a function has; `ListsShape` ... `BreaksShape` show of each alternative
  of each function that its items do the ways of the function they replace, and
  `FunctionShape` puts their views in place of its own. `MacrosShape` shows that
  `add_node` and the comparisons do to the tree what their item says. Behind an error
  anything goes, and the tree is dropped. Two things were not obvious. A
  `separator` for the root would add `&` to it; that it never does is because
  `list` does not return in front of `&` or `;`, so views also hold tokens that the
  look-ahead is not. And `io_file` adds `<>` only where an error was said first, as
  no token is `<&`; the place is called "never". The invariant speaks of subnodes
  in order, `Kids` sorts them: `KidsAre` shows that the list that `Kids` chooses is
  the one that grows at its end, since the nodes of a preorder are numbered as they are
  added.
* `ProgramsExecutable`: the tree as a record of kinds and subnodes (`Program`) is
  `Executable`, which is what `ProgramsAssumption` asks of the trees of `Exec`. So the
  theorems on the executor hold of all that the parser hands on.

`PatternProofs`, for all patterns, words, texts and trees of directories:

* `Matched`: `FilesInv` says where each loop of `make_fsm`, `match` and
  `pattern_filename_gen` stands, that the automaton has states up to the length of
  its pattern, and that all suspended calls have one.
* `PatternTypes`, `PlacesRise`. For the stack of retries to rise the invariant must
  know that a state entered for the first time lies behind all remembered ones:
  `retries = 0` while all places are before `pos`.

`ExprProofs`, for any text and any depth of calls:

* `EndStaysAlways`: the end of the expression is never taken from the queue.
  `QueueInv` says besides that the queue is a sequence with the end nowhere but
  last; the step that takes a token never has the end in front of it, because it has
  just seen an operator, a number or a parenthesis there. The functions of `expr.c`
  read the head unasked, so this is what makes them safe.
* `ExprTypes`: every result is an int of `Width` bits again. Sums and products are
  wrapped, by the lemmas on division with rest; `|`, `&` and `^` give the int with
  the right bits; that the ints are where they are takes that a power of two is
  positive and doubles. Powers are recursive and induction is out of reach: the
  proof has 2^n as the number of subsets of a set of n, a theorem on finite sets of
  the library. `FramesOK` says that a pending operator is one of the
  level of its call.

`WordsProofs`, for any sessions and any alphabet:

* `OneEntryAlways` and `VariablesImplementMap`. `ListInv` says that the variables
  are a sequence in which no name occurs twice: setting goes to the first entry of
  the name or appends one if there is none, and unsetting takes the only one away.
  Because of it a change of the first entry is a change of one value of the map, and
  a removal leaves no older value behind; each step is then a step of `VarMap` or
  leaves the map alone.
* `WordsTypes`. `WordsInv` holds what the phases hand to each other: the
  queue of a command under way ends with `T_EOF`, and what is being substituted is
  never that, so that the loop of assignments and words finds its end; the searches for
  the ends of quotes and brackets stop within the line or at its end, so that a token
  never reaches behind it.

Attempts that failed changed the model or a property: with ints of one bit
`1` is no int, so `Width` must be 2 at least; the type of `tok` in `Words` was not
asserted at all, for want of parentheses; and `ExportsReachBoth` does not hold for the
name without characters in the environment (see above), which the lines of the run did not have.

Only model-checked:

* liveness (`ReapEnds`, `WaitEnds`, `FinishedJobsReaped`, `LineEnds`, `ParseEnds`,
  `CallsEnd`, `EvalEnds`, `LinesEnd`), which TLAPS cannot treat under fairness;
* what compares the code with a recursive reference: `RunsAsMeant`, `TreeSaysLine`,
  `MatchesAsMeant`, `FilesAsMeant`, `ValueAsWritten`, `TokensAsWritten` and
  `ArgumentsAsMeant`;
* `ExportsReachBoth`, which is about the texts that the three passes return, and
  those are recursive functions of the text.

## Not modelled

Text: prompts, messages, what builtins print. Input and output redirection and
pipes, which the source leaves to do (a pipeline is run one command after the
other). `job_get_by_jid` and `more_input`, which nothing calls. A lack of memory,
except where a model shows what follows from it (`job_add`, `run_command`), and the
sizes of buffers: the clamped growth in `do_substitution` (main.c:1697) and the
fixed arrays of the scanners. The stand-alone drivers, which hold older copies of
the code.

## Plan

Done: `Jobs`, `Llist`/`KeyList`, `Exec`/`ExecMeaning`, `Grammar`/`GrammarText`,
`Pattern`/`FileNames`, `Expr`, `Tokenizer`/`Vars`/`Words`. Left, in this order:

1. `Shell`: `Exec` composed with `Jobs`, so that the commands of a line are those of
   its tree.
2. A recognizer of `gram.txt`, so that what the parser accepts can be compared
   with it.
