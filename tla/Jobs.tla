-------------------------------- MODULE Jobs --------------------------------
(***************************************************************************)
(* The life of simple commands in fsh: main's input loop, run_command, the *)
(* job table job_q, the child processes of the shell and the error latch   *)
(* (main.c, with the linked list of support.c that holds the table).       *)
(*                                                                         *)
(* The shell is one thread; the operating system runs beside it and ends   *)
(* children at any moment.  pc says where the shell is:                    *)
(*   "prompt"  main is about to read a line,                               *)
(*   "line"    execute walks the tree of an accepted line,                 *)
(*   "reap"    run_command is in its waitpid(-1, WNOHANG) loop,            *)
(*   "expand"  run_command expands its words and then dispatches,          *)
(*   "wait"    a wait() loop is waiting for the child fg,                  *)
(*   "exited"  the shell has ended or was replaced by exec,                *)
(*   "dead"    it followed a null pointer,                                 *)
(*   "undefined" it followed a freed list node: no behaviour is promised.  *)
(* Which commands a line runs is Exec's business; here a line is any       *)
(* sequence of the steps execute can take on the state modelled.           *)
(***************************************************************************)
EXTENDS Integers, SequencesExt

CONSTANTS
  Pid,        \* process numbers the system can give to children
  NoPid,      \* not a process number
  ExitCodes,  \* codes a child can pass to exit()
  Signals,    \* signals that can end a child
  MaxJobs     \* bound: jobs the user keeps in the table at one time

ASSUME PidAssumption == NoPid \notin Pid
ASSUME StatusAssumption ==
  /\ ExitCodes \subseteq 0 .. 255 /\ 0 \in ExitCodes
  /\ Signals \subseteq 1 .. 127
ASSUME MaxJobsAssumption == MaxJobs \in Nat

VARIABLES
  pc,          \* where the shell is, see above
  caller,      \* who called run_command: "main" (a blank line) or "execute"
  proc,        \* what the kernel knows of each process number
  wstatus,     \* how a zombie ended, as wait() will report it
  job_q,       \* the job table, from its head to its tail
  unlisted,    \* background children that job_add failed to record
  fg,          \* the child a wait() loop waits for, else NoPid
  background,  \* the flag of the same name
  last_res,    \* $?
  err_occured, \* the flag error() raises
  ignore,      \* error()'s static flag: a message was printed for this line
  allow_exec   \* cleared by "debug de"

vars == <<pc, caller, proc, wstatus, job_q, unlisted, fg, background,
          last_res, err_occured, ignore, allow_exec>>

children == <<proc, wstatus>>
table    == <<job_q, unlisted>>
latch    == <<err_occured, ignore>>

Stopped == {"exited", "dead", "undefined"}

Status == [how : {"exited"}, val : ExitCodes] \cup [how : {"signaled"}, val : Signals]
NoStatus == [how |-> "exited", val |-> 0]

(* A list node: the job, and whether the node's own `first` pointer is the *)
(* address of the present head.  The list is entered through the tail, so  *)
(* only the tail's flag is ever relied on.                                 *)
Job == [pid : Pid, jid : Nat \ {0}, first : BOOLEAN]

Children == {p \in Pid : proc[p] # "free"}
Zombies  == {p \in Pid : proc[p] = "zombie"}
PidsOf(q) == {q[i].pid : i \in DOMAIN q}
DistinctPids(q) == \A i, k \in DOMAIN q : q[i].pid = q[k].pid => i = k

-----------------------------------------------------------------------------
(* The linked list and the job table.                                      *)

\* A walk starts at tail->first: it is only defined if that pointer is fresh.
Walkable(q) == q # << >> => q[Len(q)].first

\* llist_remove of the k-th node from the head.  Removing the head repairs the
\* pointer of the tail alone; every other node keeps the address just freed.
llist_remove(q, k) ==
  LET r == RemoveAt(q, k)
  IN  IF k = 1
      THEN [i \in DOMAIN r |-> [r[i] EXCEPT !.first = (i = Len(r))]]
      ELSE r

\* mutant: jid counts from the old length
job_add_OldLength(q, p) ==
  Append(q, [pid |-> p, jid |-> Len(q), first |-> Walkable(q)])

\* job_add: the next jid is one more than the length of the table, and
\* llist_add copies the head pointer of the old tail.
job_add(q, p) == Append(q, [pid |-> p, jid |-> Len(q) + 1, first |-> Walkable(q)])

\* job_get_by_pid: each node visited up to the one found is given its position
\* as jid; when p is no job all of them are visited.
job_get_by_pid(q, p) ==
  [i \in DOMAIN q |->
     IF \A k \in 1 .. (i - 1) : q[k].pid # p THEN [q[i] EXCEPT !.jid = i] ELSE q[i]]

FirstWith(q, p) ==
  CHOOSE k \in DOMAIN q : q[k].pid = p /\ \A i \in 1 .. (k - 1) : q[i].pid # p

\* mutant: the entry is looked up but stays
job_done_Keep(q, p) == q

job_done(q, p) == IF p \in PidsOf(q) THEN llist_remove(q, FirstWith(q, p)) ELSE q

\* builtin_jobs numbers the whole table again.
Renumbered(q) == [i \in DOMAIN q |-> [q[i] EXCEPT !.jid = i]]

-----------------------------------------------------------------------------
(* The error latch and the exit status.                                    *)

\* mutant: the message does not latch
Raise_NoLatch == err_occured' = TRUE /\ UNCHANGED ignore

\* error() with clear_last = 0 at an error scope: silent if one was printed.
Raise ==
  /\ err_occured' = (err_occured \/ ~ignore)
  /\ ignore' = TRUE

\* eval_expr clears err_occured before it evaluates, and sets it itself
\* beside each message; the latch it leaves to error().
eval_expr(ok) ==
  /\ err_occured' = ~ok
  /\ ignore' = (ignore \/ ~ok)

\* WEXITSTATUS, or 128 + WTERMSIG
Result(st) == IF st.how = "exited" THEN st.val ELSE 128 + st.val

-----------------------------------------------------------------------------
\* The first prompt.  The environment has been imported, each variable by
\* do_assignment, which may have reported errors.
Init ==
  /\ pc = "prompt" /\ caller = "main"
  /\ proc = [p \in Pid |-> "free"]
  /\ wstatus = [p \in Pid |-> NoStatus]
  /\ job_q = << >> /\ unlisted = {}
  /\ fg = NoPid
  /\ background = FALSE
  /\ last_res = 0
  /\ err_occured \in BOOLEAN /\ ignore \in BOOLEAN /\ (err_occured => ignore)
  /\ allow_exec = TRUE

-----------------------------------------------------------------------------
(* main's input loop.                                                      *)

\* A line with no error in it: the flags are cleared and execute starts.
ReadLine ==
  /\ pc = "prompt"
  /\ pc' = "line"
  /\ background' = FALSE
  /\ err_occured' = FALSE /\ ignore' = FALSE
  /\ UNCHANGED <<caller, children, table, fg, last_res, allow_exec>>

\* A line the parser rejects is skipped; its error is still latched.
ReadBadLine ==
  /\ pc = "prompt"
  /\ err_occured' = TRUE /\ ignore' = TRUE
  /\ UNCHANGED <<pc, caller, children, table, fg, background, last_res, allow_exec>>

\* mutant: an empty line is skipped at once
BlankLine_NoReap == pc = "prompt" /\ UNCHANGED vars

\* run_command(NULL): only the jobs are looked at.
BlankLine ==
  /\ pc = "prompt"
  /\ pc' = "reap" /\ caller' = "main"
  /\ UNCHANGED <<children, table, fg, background, last_res, latch, allow_exec>>

\* The whole tree has been executed.
EndLine ==
  /\ pc = "line"
  /\ pc' = "prompt"
  /\ UNCHANGED <<caller, children, table, fg, background, last_res, latch, allow_exec>>

Eof ==
  /\ pc = "prompt"
  /\ pc' = "exited"
  /\ UNCHANGED <<caller, children, table, fg, background, last_res, latch, allow_exec>>

-----------------------------------------------------------------------------
(* What execute does between two simple commands.                          *)

\* A simple command of the tree, under the background flag b its list gave it.
RunCommand(b) ==
  /\ pc = "line"
  /\ pc' = "reap" /\ caller' = "execute" /\ background' = b
  /\ UNCHANGED <<children, table, fg, last_res, latch, allow_exec>>

\* GRM_BANG negates the status of its command.
Bang ==
  /\ pc = "line"
  /\ last_res' = IF last_res = 0 THEN 1 ELSE 0
  /\ UNCHANGED <<pc, caller, children, table, fg, background, latch, allow_exec>>

\* GRM_SUBSHELL forks even after an error and in the background, and waits.  The
\* variables stay those of the parent.  The child (its walk is SubshellChild of Exec)
\* keeps a copy of the table whose jobs are not its own children; it has no part here.
Subshell(p) ==
  /\ pc = "line" /\ proc[p] = "free"
  /\ pc' = "wait" /\ fg' = p
  /\ proc' = [proc EXCEPT ![p] = "running"]
  /\ UNCHANGED <<caller, wstatus, table, background, last_res, latch, allow_exec>>

\* fork fails for a subshell, or execute meets a node it rejects.
ExecuteError ==
  /\ pc = "line"
  /\ Raise
  /\ UNCHANGED <<pc, caller, children, table, fg, background, last_res, allow_exec>>

-----------------------------------------------------------------------------
(* run_command.                                                            *)

\* The first malloc fails: 127, which only execute stores in $?.
RunCommandNoMemory ==
  /\ pc \in {"line", "prompt"}
  /\ Raise
  /\ last_res' = IF pc = "line" THEN 127 ELSE last_res
  /\ UNCHANGED <<pc, caller, children, table, fg, background, allow_exec>>

\* Take the zombie p from the kernel, set $? from it, and drop its job.
Collect(p) ==
  /\ proc' = [proc EXCEPT ![p] = "free"]
  /\ wstatus' = [wstatus EXCEPT ![p] = NoStatus]
  /\ last_res' = Result(wstatus[p])

ForgetJob(p) ==
  /\ Walkable(job_q)
  /\ job_q' = job_done(job_get_by_pid(job_q, p), p)
  /\ unlisted' = unlisted \ {p}

\* One turn of the waitpid loop at the head of run_command.
Reap(p) ==
  /\ pc = "reap" /\ p \in Zombies
  /\ Collect(p) /\ ForgetJob(p)
  /\ UNCHANGED <<pc, caller, fg, background, latch, allow_exec>>

\* mutant: waitpid without WNOHANG blocks until the last child is gone
ReapDone_Blocking ==
  /\ pc = "reap" /\ Children = {}
  /\ pc' = "expand"
  /\ UNCHANGED <<caller, children, table, fg, background, last_res, latch, allow_exec>>

\* No child has finished: waitpid returns 0, or -1 without children.
ReapDone ==
  /\ pc = "reap" /\ Zombies = {}
  /\ pc' = "expand"
  /\ UNCHANGED <<caller, children, table, fg, background, last_res, latch, allow_exec>>

\* Where words and assignments are expanded: in run_command, and in execute
\* for the words of case and for.
Expanding == pc = "line" \/ (pc = "expand" /\ caller = "execute")

\* $(( )): an arithmetic expansion that succeeds or fails.
ExpandArithmetic(ok) ==
  /\ Expanding
  /\ eval_expr(ok)
  /\ UNCHANGED <<pc, caller, children, table, fg, background, last_res, allow_exec>>

\* An assignment or a file name pattern reports an error.
ExpandError ==
  /\ Expanding
  /\ Raise
  /\ UNCHANGED <<pc, caller, children, table, fg, background, last_res, allow_exec>>

\* do_substitution of a command word fails: the NULL it returns is copied.
ExpandCrash ==
  /\ pc = "expand" /\ caller = "execute"
  /\ Raise
  /\ pc' = "dead"
  /\ UNCHANGED <<caller, children, table, fg, background, last_res, allow_exec>>

\* add_arg_word finds no memory.
OutOfMemory ==
  /\ pc = "expand" /\ caller = "execute"
  /\ Raise
  /\ pc' = "line" /\ last_res' = 127
  /\ UNCHANGED <<caller, children, table, fg, background, allow_exec>>

\* No command word: back to the caller, $? as the reaping left it.
NothingToRun ==
  /\ pc = "expand"
  /\ pc' = IF caller = "main" THEN "prompt" ELSE "line"
  /\ UNCHANGED <<caller, children, table, fg, background, last_res, latch, allow_exec>>

\* There are words, but an error is pending: nothing is run.
Blocked ==
  /\ pc = "expand" /\ caller = "execute" /\ err_occured
  /\ pc' = "line" /\ last_res' = 127
  /\ UNCHANGED <<caller, children, table, fg, background, latch, allow_exec>>

\* The command line is complete and no error holds it back.
Dispatching == pc = "expand" /\ caller = "execute" /\ ~err_occured

\* A builtin that changes no state of this module and succeeds, or that
\* reports an error; export reports a failed putenv and still returns 0.
Builtin(ok, code) ==
  /\ Dispatching
  /\ code \in {0, 1} /\ (ok => code = 0)
  /\ IF ok THEN UNCHANGED latch ELSE Raise
  /\ pc' = "line" /\ last_res' = code
  /\ UNCHANGED <<caller, children, table, fg, background, allow_exec>>

\* export assigns, and so substitutes, its argument once more: one or several
\* arithmetic expansions, the last one as ok says, `failed` if any failed.
BuiltinExport(ok, failed) ==
  /\ Dispatching
  /\ ~ok => failed
  /\ err_occured' = ~ok
  /\ ignore' = (ignore \/ failed)
  /\ pc' = "line" /\ last_res' = 0
  /\ UNCHANGED <<caller, children, table, fg, background, allow_exec>>

BuiltinDebug(allow) ==
  /\ Dispatching
  /\ allow_exec' = allow
  /\ pc' = "line" /\ last_res' = 0
  /\ UNCHANGED <<caller, children, table, fg, background, latch>>

BuiltinJobs ==
  /\ Dispatching
  /\ Walkable(job_q)
  /\ job_q' = Renumbered(job_q)
  /\ pc' = "line" /\ last_res' = 0
  /\ UNCHANGED <<caller, children, unlisted, fg, background, latch, allow_exec>>

\* exit, and exec: either the image is replaced or exit(127) follows.
BuiltinExit ==
  /\ Dispatching
  /\ pc' = "exited"
  /\ UNCHANGED <<caller, children, table, fg, background, last_res, latch, allow_exec>>

\* "debug de" is in force: $? keeps its value.
ExecDenied ==
  /\ Dispatching /\ ~allow_exec
  /\ pc' = "line"
  /\ UNCHANGED <<caller, children, table, fg, background, last_res, latch, allow_exec>>

ForkFails ==
  /\ Dispatching /\ allow_exec
  /\ Raise
  /\ pc' = "line"
  /\ UNCHANGED <<caller, children, table, fg, background, last_res, allow_exec>>

Fork(p) ==
  /\ Dispatching /\ allow_exec
  /\ proc[p] = "free"
  /\ proc' = [proc EXCEPT ![p] = "running"]
  /\ UNCHANGED <<caller, wstatus, background, last_res, allow_exec>>

ForkForeground(p) ==
  /\ Fork(p) /\ ~background
  /\ pc' = "wait" /\ fg' = p
  /\ UNCHANGED <<table, latch>>

ForkBackground(p) ==
  /\ Fork(p) /\ background
  /\ Len(job_q) < MaxJobs
  /\ Walkable(job_q)
  /\ job_q' = job_add(job_q, p)
  /\ pc' = "line"
  /\ UNCHANGED <<unlisted, fg, latch>>

\* job_add finds no memory for the job (it says so) or for the list node (it
\* does not): the child runs without an entry.
ForkUnlisted(p) ==
  /\ Fork(p) /\ background
  /\ unlisted' = unlisted \cup {p}
  /\ Raise \/ (Walkable(job_q) /\ UNCHANGED latch)
  /\ pc' = "line"
  /\ UNCHANGED <<job_q, fg>>

\* mutant: any child ends the wait
Wait_AnyChild(p) ==
  /\ pc = "wait" /\ p \in Zombies
  /\ Collect(p)
  /\ pc' = "line" /\ fg' = NoPid
  /\ IF p = fg THEN UNCHANGED table ELSE ForgetJob(p)
  /\ UNCHANGED <<caller, background, latch, allow_exec>>

\* mutant: the wait goes on after the awaited child
Wait_Forever(p) ==
  /\ pc = "wait" /\ p \in Zombies
  /\ Collect(p)
  /\ IF p = fg THEN UNCHANGED table ELSE ForgetJob(p)
  /\ UNCHANGED <<pc, caller, fg, background, latch, allow_exec>>

\* One turn of a wait() loop: the kernel hands over any zombie.  The awaited
\* child ends the loop, any other is a job.
Wait(p) ==
  /\ pc = "wait" /\ p \in Zombies
  /\ Collect(p)
  /\ IF p = fg
     THEN pc' = "line" /\ fg' = NoPid /\ UNCHANGED table
     ELSE ForgetJob(p) /\ UNCHANGED <<pc, fg>>
  /\ UNCHANGED <<caller, background, latch, allow_exec>>

\* SIGINT interrupts wait(): an error is raised and the loop goes on.
WaitInterrupted ==
  /\ pc = "wait"
  /\ Raise
  /\ UNCHANGED <<pc, caller, children, table, fg, background, last_res, allow_exec>>

\* The table has to be walked, and its tail points to a head long freed.
WalkNeeded ==
  \/ pc = "reap" /\ Zombies # {}
  \/ pc = "wait" /\ Zombies \ {fg} # {}
  \/ Dispatching

FollowStaleHead ==
  /\ ~Walkable(job_q) /\ WalkNeeded
  /\ pc' = "undefined"
  /\ UNCHANGED <<caller, children, table, fg, background, last_res, latch, allow_exec>>

-----------------------------------------------------------------------------
\* The operating system: a running child ends in some way.
ChildExits(p, st) ==
  /\ pc \notin Stopped
  /\ proc[p] = "running"
  /\ proc' = [proc EXCEPT ![p] = "zombie"]
  /\ wstatus' = [wstatus EXCEPT ![p] = st]
  /\ UNCHANGED <<pc, caller, table, fg, background, last_res, latch, allow_exec>>

ShellStopped == pc \in Stopped /\ UNCHANGED vars

InputLoop == ReadLine \/ ReadBadLine \/ BlankLine \/ EndLine \/ Eof

Executor ==
  \/ \E b \in BOOLEAN : RunCommand(b)
  \/ \E p \in Pid : Subshell(p)
  \/ Bang \/ ExecuteError

Expansion ==
  \/ \E ok \in BOOLEAN : ExpandArithmetic(ok)
  \/ ExpandError \/ ExpandCrash \/ OutOfMemory \/ RunCommandNoMemory

Dispatch ==
  \/ NothingToRun \/ Blocked \/ ExecDenied \/ ForkFails
  \/ \E ok \in BOOLEAN, code \in {0, 1} : Builtin(ok, code)
  \/ \E ok, failed \in BOOLEAN : BuiltinExport(ok, failed)
  \/ \E allow \in BOOLEAN : BuiltinDebug(allow)
  \/ BuiltinJobs \/ BuiltinExit
  \/ \E p \in Pid : ForkForeground(p) \/ ForkBackground(p) \/ ForkUnlisted(p)

Waiting ==
  \/ ReapDone \/ WaitInterrupted \/ FollowStaleHead
  \/ \E p \in Pid : Reap(p) \/ Wait(p)

Environment == \E p \in Pid, st \in Status : ChildExits(p, st)

Next ==
  \/ InputLoop \/ Executor \/ Expansion \/ Dispatch \/ Waiting
  \/ Environment \/ ShellStopped

(* The shell is a running thread: a loop that can take its next turn does, *)
(* and a command has finitely many words.                                  *)
ShellFairness ==
  /\ WF_vars(\E p \in Pid : Reap(p)) /\ WF_vars(ReapDone)
  /\ WF_vars(\E p \in Pid : Wait(p))
  /\ WF_vars(Dispatch) /\ WF_vars(FollowStaleHead)

(* What the shell's surroundings owe to a user who stays: Return is pressed *)
(* at some prompts, a line comes to a simple command or to its end, and a   *)
(* child ends at some time.                                                 *)
UserFairness ==
  /\ SF_vars(BlankLine)
  /\ SF_vars(EndLine \/ \E b \in BOOLEAN : RunCommand(b))
  /\ \A p \in Pid : WF_vars(\E st \in Status : ChildExits(p, st))

Spec == Init /\ [][Next]_vars /\ ShellFairness

-----------------------------------------------------------------------------
(* Properties.                                                             *)

\* Every variable has its type; in particular $? is an exit status.
TypeOK ==
  /\ pc \in {"prompt", "line", "reap", "expand", "wait"} \cup Stopped
  /\ caller \in {"main", "execute"}
  /\ proc \in [Pid -> {"free", "running", "zombie"}]
  /\ wstatus \in [Pid -> Status]
  /\ job_q \in Seq(Job) /\ unlisted \subseteq Pid
  /\ fg \in Pid \cup {NoPid}
  /\ background \in BOOLEAN /\ allow_exec \in BOOLEAN
  /\ last_res \in 0 .. 255
  /\ err_occured \in BOOLEAN /\ ignore \in BOOLEAN

\* Every child the kernel still holds for the shell is a job of the table, a
\* child job_add lost, or the one being waited for, and exactly one of these;
\* no process is listed twice.  An entry that outlived its process would catch
\* the exit of whatever process gets its number next (job_add, job_done and the
\* three reaping loops of main.c).
ChildrenAccounted ==
  LET awaited == {fg} \ {NoPid}
  IN  /\ Children = PidsOf(job_q) \cup unlisted \cup awaited
      /\ PidsOf(job_q) \cap unlisted = {}
      /\ awaited \cap (PidsOf(job_q) \cup unlisted) = {}
      /\ DistinctPids(job_q)

\* A wait() loop never waits for a child that has been reaped already: its
\* wait() would return -1 for ever (main.c:1543 and main.c:1046).  Nor is a
\* child awaited once the loop has ended.
NoWaitSpin ==
  /\ pc = "wait" => fg \in Children
  /\ pc \notin {"wait", "undefined"} => fg = NoPid

\* No error goes unseen: while the flag that blocks commands is up, a message
\* has been printed for this line (error and eval_expr share the flag).
ErrorsReported == err_occured => ignore

\* The head pointer by which the table is entered is never stale, so no walk
\* follows a freed node (llist_remove, with job_q as its caller).  True of two
\* jobs, not of three.
JobListIntact == Walkable(job_q) /\ pc # "undefined"

\* The number a job is announced with bounds every number it is shown under
\* later: renumbering only moves a living job towards the head.
JidsOnlyShrink ==
  [][\A i \in DOMAIN job_q, k \in DOMAIN job_q' :
       job_q[i].pid = job_q'[k].pid => job_q'[k].jid <= job_q[i].jid]_vars

\* When a wait() loop ends, $? is the status of the child it waited for, even
\* if jobs were reaped in between.
ForegroundStatus ==
  [][pc = "wait" /\ pc' = "line" =>
       /\ proc[fg] = "zombie"
       /\ last_res' = (IF wstatus[fg].how = "exited" THEN 0 ELSE 128) + wstatus[fg].val]_vars

\* run_command gets through its reaping loop while jobs are still running.
ReapEnds == pc = "reap" ~> pc # "reap"

\* A wait() loop ends once its child has, whatever else finishes meanwhile.
WaitEnds == (fg # NoPid /\ fg \in Zombies) ~> pc # "wait"

\* A child that has finished is collected, at the latest by empty lines, if the
\* user stays.
FinishedJobsReaped ==
  UserFairness =>
    \A p \in Pid : proc[p] = "zombie" ~> (proc[p] = "free" \/ pc \in Stopped)

=============================================================================
