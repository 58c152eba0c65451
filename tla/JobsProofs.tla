----------------------------- MODULE JobsProofs -----------------------------
(* Theorems about the job table, for any number of children and jobs.      *)
EXTENDS Jobs, SeqLemmas

\* What llist_remove does to a table: the k-th entry goes, the others keep
\* their process and number.
LEMMA RemoveProperties ==
  ASSUME NEW q \in Seq(Job), NEW k \in 1 .. Len(q)
  PROVE  /\ llist_remove(q, k) \in Seq(Job)
         /\ Len(llist_remove(q, k)) = Len(q) - 1
         /\ \A i \in 1 .. (Len(q) - 1) :
              LET old == IF i < k THEN q[i] ELSE q[i + 1]
                  new == llist_remove(q, k)[i]
              IN  /\ new.pid = old.pid /\ new.jid = old.jid
                  /\ new.first = IF k = 1 THEN i = Len(q) - 1 ELSE old.first
<1> DEFINE r == RemoveAt(q, k)
           s == [i \in DOMAIN r |-> [r[i] EXCEPT !.first = (i = Len(r))]]
<1>1. /\ r \in Seq(Job) /\ Len(r) = Len(q) - 1
      /\ \A i \in 1 .. (Len(q) - 1) : r[i] = IF i < k THEN q[i] ELSE q[i + 1]
  BY RemoveAtProperties
<1>2. llist_remove(q, k) = IF k = 1 THEN s ELSE r
  BY DEF llist_remove
<1> HIDE DEF r
<1>3. Len(r) \in Nat /\ DOMAIN r = 1 .. Len(r) /\ \A i \in 1 .. Len(r) : r[i] \in Job
  BY <1>1, LenProperties, ElementOfSeq
<1>4. \A i \in 1 .. Len(r) : [r[i] EXCEPT !.first = (i = Len(r))] \in Job
  BY <1>3 DEF Job
<1>5. s \in Seq(Job) /\ Len(s) = Len(r)
  BY <1>3, <1>4
<1>6. \A i \in 1 .. Len(r) :
        s[i].pid = r[i].pid /\ s[i].jid = r[i].jid /\ s[i].first = (i = Len(r))
  BY <1>3 DEF Job
<1> HIDE DEF s
<1>7. CASE k = 1
  BY <1>1, <1>2, <1>5, <1>6, <1>7
<1>8. CASE k # 1
  BY <1>1, <1>2, <1>8
<1> QED BY <1>7, <1>8

\* What job_get_by_pid does: it only writes numbers, each the position of its
\* entry.
LEMMA GetProperties ==
  ASSUME NEW q \in Seq(Job), NEW p
  PROVE  /\ job_get_by_pid(q, p) \in Seq(Job)
         /\ Len(job_get_by_pid(q, p)) = Len(q)
         /\ \A i \in 1 .. Len(q) :
              LET new == job_get_by_pid(q, p)[i]
              IN  /\ new.pid = q[i].pid /\ new.first = q[i].first
                  /\ new.jid \in {i, q[i].jid}
<1> DEFINE e(i) == IF \A k \in 1 .. (i - 1) : q[k].pid # p
                   THEN [q[i] EXCEPT !.jid = i] ELSE q[i]
           s == [i \in 1 .. Len(q) |-> e(i)]
<1>1. Len(q) \in Nat /\ DOMAIN q = 1 .. Len(q) /\ \A i \in 1 .. Len(q) : q[i] \in Job
  BY LenProperties, ElementOfSeq
<1>2. \A i \in 1 .. Len(q) :
        e(i) \in Job /\ e(i).pid = q[i].pid /\ e(i).first = q[i].first /\ e(i).jid \in {i, q[i].jid}
  BY <1>1 DEF Job
<1>3. job_get_by_pid(q, p) = s
  BY <1>1 DEF job_get_by_pid
<1> HIDE DEF e
<1>4. s \in Seq(Job) /\ Len(s) = Len(q) /\ \A i \in 1 .. Len(q) : s[i] = e(i)
  BY <1>1, <1>2
<1> QED BY <1>2, <1>3, <1>4

\* Renumbering, by job_get_by_pid or by the jobs builtin, leaves the processes.
LEMMA SamePids ==
  ASSUME NEW q \in Seq(Job), NEW r \in Seq(Job), Len(r) = Len(q),
         \A i \in 1 .. Len(q) : r[i].pid = q[i].pid,
         DistinctPids(q)
  PROVE  PidsOf(r) = PidsOf(q) /\ DistinctPids(r)
<1>1. DOMAIN q = 1 .. Len(q) /\ DOMAIN r = 1 .. Len(q)
  BY LenProperties
<1> QED BY <1>1 DEF PidsOf, DistinctPids

\* job_add puts a new process into the table.
LEMMA AddProperties ==
  ASSUME NEW q \in Seq(Job), NEW p \in Pid \ PidsOf(q),
         DistinctPids(q), Walkable(q)
  PROVE  /\ job_add(q, p) \in Seq(Job)
         /\ Len(job_add(q, p)) = Len(q) + 1
         /\ \A i \in 1 .. Len(q) : job_add(q, p)[i] = q[i]
         /\ job_add(q, p)[Len(q) + 1] = [pid |-> p, jid |-> Len(q) + 1, first |-> TRUE]
         /\ PidsOf(job_add(q, p)) = PidsOf(q) \cup {p}
         /\ DistinctPids(job_add(q, p))
<1> DEFINE j == [pid |-> p, jid |-> Len(q) + 1, first |-> TRUE]
           r == Append(q, j)
<1>1. Len(q) \in Nat /\ DOMAIN q = 1 .. Len(q)
  BY LenProperties
<1>2. j \in Job
  BY <1>1 DEF Job
<1>3. job_add(q, p) = r
  BY Zenon DEF job_add, Walkable
<1>4. /\ r \in Seq(Job) /\ Len(r) = Len(q) + 1
      /\ \A i \in 1 .. Len(q) : r[i] = q[i]
      /\ r[Len(q) + 1] = j
  BY <1>2, AppendProperties
<1>5. DOMAIN r = 1 .. (Len(q) + 1)
  BY <1>4, LenProperties
<1> HIDE DEF r
<1>6. PidsOf(r) = PidsOf(q) \cup {p}
  BY <1>1, <1>4, <1>5 DEF PidsOf
<1>7. DistinctPids(r)
  BY <1>1, <1>4, <1>5 DEF PidsOf, DistinctPids
<1> QED BY <1>3, <1>4, <1>6, <1>7

\* job_done takes one process out of the table, if it is there.
LEMMA DoneProperties ==
  ASSUME NEW q \in Seq(Job), NEW p \in Pid, DistinctPids(q)
  PROVE  /\ job_done(q, p) \in Seq(Job)
         /\ PidsOf(job_done(q, p)) = PidsOf(q) \ {p}
         /\ DistinctPids(job_done(q, p))
         /\ Len(job_done(q, p)) <= Len(q)
<1>1. Len(q) \in Nat /\ DOMAIN q = 1 .. Len(q)
  BY LenProperties
<1>2. CASE p \notin PidsOf(q)
  BY <1>1, <1>2 DEF job_done
<1>3. CASE p \in PidsOf(q)
  <2> DEFINE n == FirstWith(q, p)
             r == llist_remove(q, n)
  <2>1. PICK k \in 1 .. Len(q) : q[k].pid = p
    BY <1>1, <1>3 DEF PidsOf
  <2>2. \A i \in 1 .. (k - 1) : q[i].pid # p
    BY <1>1, <2>1 DEF DistinctPids
  <2>3. n \in 1 .. Len(q) /\ q[n].pid = p
    BY <1>1, <2>1, <2>2 DEF FirstWith
  <2>4. job_done(q, p) = r
    BY <1>3 DEF job_done
  <2> HIDE DEF n
  <2>5. /\ r \in Seq(Job) /\ Len(r) = Len(q) - 1
        /\ \A i \in 1 .. (Len(q) - 1) : r[i].pid = IF i < n THEN q[i].pid ELSE q[i + 1].pid
    BY <2>3, RemoveProperties
  <2> HIDE DEF r
  <2>6. DOMAIN r = 1 .. (Len(q) - 1)
    BY <2>5, LenProperties
  <2>7. PidsOf(r) \subseteq PidsOf(q) \ {p}
    <3>1. SUFFICES ASSUME NEW i \in 1 .. (Len(q) - 1)
                   PROVE  r[i].pid \in PidsOf(q) \ {p}
      BY <2>6 DEF PidsOf
    <3>a. \A x \in 1 .. Len(q) : x # n => q[x].pid \in PidsOf(q) \ {p}
      BY <1>1, <2>3 DEF PidsOf, DistinctPids
    <3>b. i \in 1 .. Len(q) /\ i + 1 \in 1 .. Len(q) /\ i + 1 # i
      BY <1>1
    <3>2. CASE i < n
      <4>1. r[i].pid = q[i].pid /\ i # n
        BY <2>3, <2>5, <3>2
      <4> QED BY <3>a, <3>b, <4>1
    <3>3. CASE ~(i < n)
      <4>1. r[i].pid = q[i + 1].pid /\ i + 1 # n
        BY <2>3, <2>5, <3>3
      <4> QED BY <3>a, <3>b, <4>1
    <3> QED BY <3>2, <3>3
  <2>8. PidsOf(q) \ {p} \subseteq PidsOf(r)
    <3>1. SUFFICES ASSUME NEW i \in 1 .. Len(q), q[i].pid # p
                   PROVE  q[i].pid \in PidsOf(r)
      BY <1>1 DEF PidsOf
    <3>2. CASE i < n
      <4>1. i \in 1 .. (Len(q) - 1)
        BY <1>1, <2>3, <3>2
      <4>2. r[i].pid = q[i].pid
        BY <2>5, <3>2, <4>1
      <4> QED BY <2>6, <4>1, <4>2 DEF PidsOf
    <3>3. CASE i > n
      <4>1. i - 1 \in 1 .. (Len(q) - 1) /\ ~(i - 1 < n) /\ (i - 1) + 1 = i
        BY <1>1, <2>3, <3>3
      <4>2. r[i - 1].pid = q[i].pid
        BY <2>5, <4>1
      <4> QED BY <2>6, <4>1, <4>2 DEF PidsOf
    <3> QED BY <1>1, <2>3, <3>1, <3>2, <3>3
  <2>9. DistinctPids(r)
    <3>1. SUFFICES ASSUME NEW i \in 1 .. (Len(q) - 1), NEW m \in 1 .. (Len(q) - 1),
                          r[i].pid = r[m].pid
                   PROVE  i = m
      BY <2>6 DEF DistinctPids
    <3>2. \A x, y \in 1 .. Len(q) : q[x].pid = q[y].pid => x = y
      BY <1>1 DEF DistinctPids
    <3> DEFINE old(x) == IF x < n THEN x ELSE x + 1
    <3>3. \A x \in 1 .. (Len(q) - 1) : old(x) \in 1 .. Len(q) /\ r[x].pid = q[old(x)].pid
      BY <1>1, <2>3, <2>5
    <3>4. old(i) = old(m) => i = m
      BY <1>1, <2>3
    <3> HIDE DEF old
    <3> QED BY <3>1, <3>2, <3>3, <3>4
  <2> QED BY <1>1, <2>4, <2>5, <2>7, <2>8, <2>9
<1> QED BY <1>2, <1>3

-----------------------------------------------------------------------------
(* Type correctness and the accounting of children, together inductive.    *)

\* The accounts need NoWaitSpin: the awaited child is taken off them exactly when
\* the wait loop ends.
IInv == TypeOK /\ ChildrenAccounted /\ NoWaitSpin

\* The state in which main first asks for a line satisfies the invariant.
LEMMA InitIInv == Init => IInv
<1> SUFFICES ASSUME Init PROVE IInv
  OBVIOUS
<1>1. TypeOK
  <2>1. NoStatus \in Status
    BY StatusAssumption DEF Status, NoStatus
  <2>2. << >> \in Seq(Job)
    BY EmptySeq
  <2>3. wstatus \in [Pid -> Status] /\ proc \in [Pid -> {"free", "running", "zombie"}]
    BY <2>1 DEF Init
  <2>4. pc \in {"prompt", "line", "reap", "expand", "wait"} \cup Stopped
    BY DEF Init
  <2>5. caller \in {"main", "execute"} /\ fg \in Pid \cup {NoPid} /\ last_res \in 0 .. 255
    BY DEF Init
  <2>6. /\ background \in BOOLEAN /\ allow_exec \in BOOLEAN
        /\ err_occured \in BOOLEAN /\ ignore \in BOOLEAN
    BY DEF Init
  <2>7. job_q \in Seq(Job) /\ unlisted \subseteq Pid
    BY <2>2 DEF Init
  <2> QED BY <2>3, <2>4, <2>5, <2>6, <2>7 DEF TypeOK
<1>2. ChildrenAccounted
  BY DEF Init, ChildrenAccounted, Children, PidsOf, DistinctPids
<1>3. NoWaitSpin
  BY DEF Init, NoWaitSpin
<1> QED BY <1>1, <1>2, <1>3 DEF IInv

\* A step that touches no child, no entry and no wait keeps the accounts.
LEMMA QuietStep ==
  ASSUME IInv, UNCHANGED <<proc, job_q, unlisted, fg>>,
         pc' = "wait" => pc = "wait",
         pc' \notin {"wait", "undefined"} => pc \notin {"wait", "undefined"}
  PROVE  ChildrenAccounted' /\ NoWaitSpin'
BY DEF IInv, ChildrenAccounted, NoWaitSpin, Children, PidsOf, DistinctPids

LEMMA CodesAre == (\A c \in ExitCodes : c \in 0 .. 255) /\ \A c \in Signals : c \in 1 .. 127
BY StatusAssumption, Zenon

\* What the wait loops put into $? is an exit status.
LEMMA ResultType == \A st \in Status : Result(st) \in 0 .. 255
<1> SUFFICES ASSUME NEW st \in Status PROVE Result(st) \in 0 .. 255
  OBVIOUS
<1>1. CASE st \in [how : {"exited"}, val : ExitCodes]
  <2>1. st.how = "exited" /\ st.val \in ExitCodes
    BY <1>1
  <2>2. Result(st) = st.val
    BY <2>1 DEF Result
  <2> QED BY <2>1, <2>2, CodesAre
<1>2. CASE st \in [how : {"signaled"}, val : Signals]
  <2>1. st.how = "signaled" /\ st.val \in Signals
    BY <1>2
  <2>2. Result(st) = 128 + st.val /\ st.val \in 1 .. 127
    BY <2>1, CodesAre DEF Result
  <2> QED BY <2>2
<1> QED BY <1>1, <1>2 DEF Status

\* Collecting a child keeps the types of what it sets.
LEMMA CollectType ==
  ASSUME TypeOK, NEW p \in Pid, Collect(p)
  PROVE  /\ proc' \in [Pid -> {"free", "running", "zombie"}]
         /\ wstatus' \in [Pid -> Status] /\ last_res' \in 0 .. 255
<1>1. NoStatus \in Status
  BY StatusAssumption DEF Status, NoStatus
<1>2. wstatus[p] \in Status
  BY DEF TypeOK
<1>3. last_res' \in 0 .. 255
  BY <1>2, ResultType DEF Collect
<1>4. proc' \in [Pid -> {"free", "running", "zombie"}]
  BY DEF TypeOK, Collect
<1>5. wstatus' \in [Pid -> Status]
  BY <1>1 DEF TypeOK, Collect
<1> QED BY <1>3, <1>4, <1>5

\* job_get_by_pid and job_done, as every reaping loop calls them.
LEMMA ForgetProperties ==
  ASSUME NEW p \in Pid, job_q \in Seq(Job), DistinctPids(job_q), ForgetJob(p)
  PROVE  /\ job_q' \in Seq(Job)
         /\ PidsOf(job_q') = PidsOf(job_q) \ {p}
         /\ DistinctPids(job_q')
         /\ Len(job_q') <= Len(job_q)
         /\ unlisted' = unlisted \ {p}
<1> DEFINE g == job_get_by_pid(job_q, p)
<1>1. /\ g \in Seq(Job) /\ Len(g) = Len(job_q)
      /\ \A i \in 1 .. Len(job_q) : g[i].pid = job_q[i].pid
  BY GetProperties
<1>2. PidsOf(g) = PidsOf(job_q) /\ DistinctPids(g)
  BY <1>1, SamePids
<1>3. job_q' = job_done(g, p) /\ unlisted' = unlisted \ {p}
  BY DEF ForgetJob
<1> HIDE DEF g
<1> QED BY <1>1, <1>2, <1>3, DoneProperties

\* builtin_jobs writes new numbers and nothing else.
LEMMA RenumberedProperties ==
  ASSUME NEW q \in Seq(Job)
  PROVE  /\ Renumbered(q) \in Seq(Job)
         /\ Len(Renumbered(q)) = Len(q)
         /\ \A i \in 1 .. Len(q) :
              LET new == Renumbered(q)[i]
              IN  new.pid = q[i].pid /\ new.first = q[i].first /\ new.jid = i
<1> DEFINE e(i) == [q[i] EXCEPT !.jid = i]
           s == [i \in 1 .. Len(q) |-> e(i)]
<1>1. Len(q) \in Nat /\ DOMAIN q = 1 .. Len(q) /\ \A i \in 1 .. Len(q) : q[i] \in Job
  BY LenProperties, ElementOfSeq
<1>2. \A i \in 1 .. Len(q) :
        e(i) \in Job /\ e(i).pid = q[i].pid /\ e(i).first = q[i].first /\ e(i).jid = i
  BY <1>1 DEF Job
<1>3. Renumbered(q) = s
  BY <1>1 DEF Renumbered
<1> HIDE DEF e
<1>4. s \in Seq(Job) /\ Len(s) = Len(q) /\ \A i \in 1 .. Len(q) : s[i] = e(i)
  BY <1>1, <1>2
<1> QED BY <1>2, <1>3, <1>4

\* Every step of the shell and of its children keeps the invariant.
LEMMA NextIInv == IInv /\ [Next]_vars => IInv'
<1> SUFFICES ASSUME IInv, [Next]_vars PROVE IInv'
  OBVIOUS
<1> USE DEF IInv
<1>1. CASE ReadLine
  <2>1. TypeOK'
    BY <1>1 DEF TypeOK, children, table, latch, ReadLine
  <2>2. ChildrenAccounted' /\ NoWaitSpin'
    BY <1>1, QuietStep DEF children, table, ReadLine
  <2> QED BY <2>1, <2>2
<1>2. CASE ReadBadLine
  <2>1. TypeOK'
    BY <1>2 DEF TypeOK, children, table, latch, ReadBadLine
  <2>2. ChildrenAccounted' /\ NoWaitSpin'
    BY <1>2, QuietStep DEF children, table, ReadBadLine
  <2> QED BY <2>1, <2>2
<1>3. CASE BlankLine
  <2>1. TypeOK'
    BY <1>3 DEF TypeOK, children, table, latch, BlankLine
  <2>2. ChildrenAccounted' /\ NoWaitSpin'
    BY <1>3, QuietStep DEF children, table, BlankLine
  <2> QED BY <2>1, <2>2
<1>4. CASE EndLine
  <2>1. TypeOK'
    BY <1>4 DEF TypeOK, children, table, latch, EndLine
  <2>2. ChildrenAccounted' /\ NoWaitSpin'
    BY <1>4, QuietStep DEF children, table, EndLine
  <2> QED BY <2>1, <2>2
<1>5. CASE Eof
  <2>1. TypeOK'
    BY <1>5 DEF TypeOK, children, table, latch, Eof, Stopped
  <2>2. ChildrenAccounted' /\ NoWaitSpin'
    BY <1>5, QuietStep DEF children, table, Eof, Stopped
  <2> QED BY <2>1, <2>2
<1>6. CASE Bang
  <2>1. TypeOK'
    BY <1>6 DEF TypeOK, children, table, latch, Bang
  <2>2. ChildrenAccounted' /\ NoWaitSpin'
    BY <1>6, QuietStep DEF children, table, Bang
  <2> QED BY <2>1, <2>2
<1>7. CASE ExecuteError
  <2>1. TypeOK'
    BY <1>7 DEF TypeOK, children, table, latch, ExecuteError, Raise
  <2>2. ChildrenAccounted' /\ NoWaitSpin'
    BY <1>7, QuietStep DEF children, table, ExecuteError, Raise
  <2> QED BY <2>1, <2>2
<1>8. CASE ExpandError
  <2>1. TypeOK'
    BY <1>8 DEF TypeOK, children, table, latch, ExpandError, Raise, Expanding
  <2>2. ChildrenAccounted' /\ NoWaitSpin'
    BY <1>8, QuietStep DEF children, table, ExpandError, Raise, Expanding
  <2> QED BY <2>1, <2>2
<1>9. CASE ExpandCrash
  <2>1. TypeOK'
    BY <1>9 DEF TypeOK, children, table, latch, ExpandCrash, Raise, Stopped
  <2>2. ChildrenAccounted' /\ NoWaitSpin'
    BY <1>9, QuietStep DEF children, table, ExpandCrash, Raise, Stopped
  <2> QED BY <2>1, <2>2
<1>10. CASE OutOfMemory
  <2>1. TypeOK'
    BY <1>10 DEF TypeOK, children, table, latch, OutOfMemory, Raise
  <2>2. ChildrenAccounted' /\ NoWaitSpin'
    BY <1>10, QuietStep DEF children, table, OutOfMemory, Raise
  <2> QED BY <2>1, <2>2
<1>11. CASE RunCommandNoMemory
  <2>1. TypeOK'
    BY <1>11 DEF TypeOK, children, table, latch, RunCommandNoMemory, Raise
  <2>2. ChildrenAccounted' /\ NoWaitSpin'
    BY <1>11, QuietStep DEF children, table, RunCommandNoMemory, Raise
  <2> QED BY <2>1, <2>2
<1>12. CASE NothingToRun
  <2>1. TypeOK'
    BY <1>12 DEF TypeOK, children, table, latch, NothingToRun
  <2>2. ChildrenAccounted' /\ NoWaitSpin'
    BY <1>12, QuietStep DEF children, table, NothingToRun
  <2> QED BY <2>1, <2>2
<1>13. CASE Blocked
  <2>1. TypeOK'
    BY <1>13 DEF TypeOK, children, table, latch, Blocked
  <2>2. ChildrenAccounted' /\ NoWaitSpin'
    BY <1>13, QuietStep DEF children, table, Blocked
  <2> QED BY <2>1, <2>2
<1>14. CASE ExecDenied
  <2>1. TypeOK'
    BY <1>14 DEF TypeOK, children, table, latch, ExecDenied, Dispatching
  <2>2. ChildrenAccounted' /\ NoWaitSpin'
    BY <1>14, QuietStep DEF children, table, ExecDenied, Dispatching
  <2> QED BY <2>1, <2>2
<1>15. CASE ForkFails
  <2>1. TypeOK'
    BY <1>15 DEF TypeOK, children, table, latch, ForkFails, Dispatching, Raise
  <2>2. ChildrenAccounted' /\ NoWaitSpin'
    BY <1>15, QuietStep DEF children, table, ForkFails, Dispatching, Raise
  <2> QED BY <2>1, <2>2
<1>16. CASE BuiltinExit
  <2>1. TypeOK'
    BY <1>16 DEF TypeOK, children, table, latch, BuiltinExit, Dispatching, Stopped
  <2>2. ChildrenAccounted' /\ NoWaitSpin'
    BY <1>16, QuietStep DEF children, table, BuiltinExit, Dispatching, Stopped
  <2> QED BY <2>1, <2>2
<1>17. CASE ReapDone
  <2>1. TypeOK'
    BY <1>17 DEF TypeOK, children, table, latch, ReapDone
  <2>2. ChildrenAccounted' /\ NoWaitSpin'
    BY <1>17, QuietStep DEF children, table, ReapDone
  <2> QED BY <2>1, <2>2
<1>18. CASE WaitInterrupted
  <2>1. TypeOK'
    BY <1>18 DEF TypeOK, children, table, latch, WaitInterrupted, Raise
  <2>2. ChildrenAccounted' /\ NoWaitSpin'
    BY <1>18, QuietStep DEF children, table, WaitInterrupted, Raise
  <2> QED BY <2>1, <2>2
<1>19. CASE FollowStaleHead
  <2>1. TypeOK'
    BY <1>19 DEF TypeOK, children, table, latch, FollowStaleHead, Stopped
  <2>2. ChildrenAccounted' /\ NoWaitSpin'
    BY <1>19, QuietStep DEF children, table, FollowStaleHead, Stopped
  <2> QED BY <2>1, <2>2
<1>20. ASSUME NEW b \in BOOLEAN, RunCommand(b) PROVE IInv'
  <2>1. TypeOK'
    BY <1>20 DEF TypeOK, children, table, latch, RunCommand
  <2>2. ChildrenAccounted' /\ NoWaitSpin'
    BY <1>20, QuietStep DEF children, table, RunCommand
  <2> QED BY <2>1, <2>2
<1>21. ASSUME NEW ok \in BOOLEAN, ExpandArithmetic(ok) PROVE IInv'
  <2>1. TypeOK'
    BY <1>21 DEF TypeOK, children, table, latch, ExpandArithmetic, Expanding, eval_expr
  <2>2. ChildrenAccounted' /\ NoWaitSpin'
    BY <1>21, QuietStep DEF children, table, ExpandArithmetic, Expanding, eval_expr
  <2> QED BY <2>1, <2>2
<1>22. ASSUME NEW ok \in BOOLEAN, NEW code \in {0, 1}, Builtin(ok, code) PROVE IInv'
  <2>1. TypeOK'
    <3>1. err_occured' \in BOOLEAN /\ ignore' \in BOOLEAN
      <4>1. CASE ok
        BY <1>22, <4>1 DEF TypeOK, latch, Builtin
      <4>2. CASE ~ok
        BY <1>22, <4>2 DEF TypeOK, Builtin, Raise
      <4> QED BY <4>1, <4>2
    <3>2. last_res' \in 0 .. 255
      BY <1>22 DEF Builtin
    <3> QED BY <1>22, <3>1, <3>2 DEF TypeOK, children, table, Builtin
  <2>2. ChildrenAccounted' /\ NoWaitSpin'
    BY <1>22, QuietStep DEF children, table, Builtin, Dispatching, Raise
  <2> QED BY <2>1, <2>2
<1>23. ASSUME NEW ok \in BOOLEAN, NEW failed \in BOOLEAN, BuiltinExport(ok, failed) PROVE IInv'
  <2>1. TypeOK'
    BY <1>23 DEF TypeOK, children, table, latch, BuiltinExport, Dispatching
  <2>2. ChildrenAccounted' /\ NoWaitSpin'
    BY <1>23, QuietStep DEF children, table, BuiltinExport, Dispatching
  <2> QED BY <2>1, <2>2
<1>24. ASSUME NEW allow \in BOOLEAN, BuiltinDebug(allow) PROVE IInv'
  <2>1. TypeOK'
    BY <1>24 DEF TypeOK, children, table, latch, BuiltinDebug, Dispatching
  <2>2. ChildrenAccounted' /\ NoWaitSpin'
    BY <1>24, QuietStep DEF children, table, BuiltinDebug, Dispatching
  <2> QED BY <2>1, <2>2
<1>25. CASE BuiltinJobs
  <2>1. /\ job_q' \in Seq(Job) /\ PidsOf(job_q') = PidsOf(job_q) /\ DistinctPids(job_q')
    <3>1. job_q \in Seq(Job) /\ DistinctPids(job_q) /\ job_q' = Renumbered(job_q)
      BY <1>25 DEF BuiltinJobs, TypeOK, ChildrenAccounted
    <3> QED BY <3>1, RenumberedProperties, SamePids
  <2>2. TypeOK'
    BY <1>25, <2>1 DEF TypeOK, children, latch, BuiltinJobs, Dispatching
  <2>3. ChildrenAccounted' /\ NoWaitSpin'
    BY <1>25, <2>1 DEF ChildrenAccounted, NoWaitSpin, Children, children, BuiltinJobs, Dispatching
  <2> QED BY <2>2, <2>3
<1>26. ASSUME NEW p \in Pid, Subshell(p) PROVE IInv'
  <2>1. TypeOK'
    BY <1>26 DEF TypeOK, table, latch, Subshell
  <2>2. Children' = Children \cup {p} /\ p \notin Children /\ fg = NoPid /\ fg' = p
    BY <1>26 DEF TypeOK, Subshell, Children, NoWaitSpin
  <2>3. ChildrenAccounted' /\ NoWaitSpin'
    BY <1>26, <2>2, PidAssumption DEF ChildrenAccounted, NoWaitSpin, table, Subshell
  <2> QED BY <2>1, <2>3
<1>27. ASSUME NEW p \in Pid, ForkForeground(p) PROVE IInv'
  <2>1. TypeOK'
    BY <1>27 DEF TypeOK, table, latch, ForkForeground, Fork, Dispatching
  <2>2. Children' = Children \cup {p} /\ p \notin Children /\ fg = NoPid /\ fg' = p
    BY <1>27 DEF TypeOK, ForkForeground, Fork, Dispatching, Children, NoWaitSpin
  <2>3. ChildrenAccounted' /\ NoWaitSpin'
    BY <1>27, <2>2, PidAssumption DEF ChildrenAccounted, NoWaitSpin, table, ForkForeground, Fork
  <2> QED BY <2>1, <2>3
<1>28. ASSUME NEW p \in Pid, ForkBackground(p) PROVE IInv'
  <2>1. Children' = Children \cup {p} /\ p \notin Children /\ fg = NoPid /\ fg' = fg
    BY <1>28 DEF TypeOK, ForkBackground, Fork, Dispatching, Children, NoWaitSpin
  <2>2. /\ job_q' \in Seq(Job) /\ PidsOf(job_q') = PidsOf(job_q) \cup {p}
        /\ DistinctPids(job_q')
    <3>1. /\ job_q \in Seq(Job) /\ DistinctPids(job_q) /\ p \notin PidsOf(job_q)
          /\ Walkable(job_q) /\ job_q' = job_add(job_q, p)
      BY <1>28, <2>1 DEF ForkBackground, TypeOK, ChildrenAccounted
    <3> QED BY <3>1, AddProperties
  <2>3. TypeOK'
    BY <1>28, <2>2 DEF TypeOK, latch, ForkBackground, Fork, Dispatching
  <2>4. ChildrenAccounted' /\ NoWaitSpin'
    BY <1>28, <2>1, <2>2 DEF ChildrenAccounted, NoWaitSpin, ForkBackground, Fork
  <2> QED BY <2>3, <2>4
<1>29. ASSUME NEW p \in Pid, ForkUnlisted(p) PROVE IInv'
  <2>1. TypeOK'
    BY <1>29 DEF TypeOK, latch, Raise, ForkUnlisted, Fork, Dispatching
  <2>2. Children' = Children \cup {p} /\ p \notin Children /\ fg = NoPid /\ fg' = fg
    BY <1>29 DEF TypeOK, ForkUnlisted, Fork, Dispatching, Children, NoWaitSpin
  <2>3. ChildrenAccounted' /\ NoWaitSpin'
    BY <1>29, <2>2 DEF ChildrenAccounted, NoWaitSpin, ForkUnlisted, Fork
  <2> QED BY <2>1, <2>3
<1>30. ASSUME NEW p \in Pid, Reap(p) PROVE IInv'
  <2>1. Children' = Children \ {p} /\ p \in Children /\ fg = NoPid /\ fg' = fg
    BY <1>30 DEF TypeOK, Reap, Collect, Zombies, Children, NoWaitSpin
  <2>2. /\ job_q' \in Seq(Job) /\ PidsOf(job_q') = PidsOf(job_q) \ {p}
        /\ DistinctPids(job_q') /\ unlisted' = unlisted \ {p}
    BY <1>30, ForgetProperties DEF Reap, TypeOK, ChildrenAccounted
  <2>3. TypeOK'
    BY <1>30, <2>2, CollectType DEF TypeOK, latch, Reap
  <2>4. ChildrenAccounted' /\ NoWaitSpin'
    BY <1>30, <2>1, <2>2 DEF ChildrenAccounted, NoWaitSpin, Reap
  <2> QED BY <2>3, <2>4
<1>31. ASSUME NEW p \in Pid, Wait(p) PROVE IInv'
  <2>1. Children' = Children \ {p} /\ p \in Children
    BY <1>31 DEF TypeOK, Wait, Collect, Zombies, Children
  <2>2. CASE p = fg
    <3>1. TypeOK'
      BY <1>31, <2>2, CollectType DEF TypeOK, latch, table, Wait
    <3>2. ChildrenAccounted' /\ NoWaitSpin'
      BY <1>31, <2>1, <2>2, PidAssumption DEF ChildrenAccounted, NoWaitSpin, table, Wait
    <3> QED BY <3>1, <3>2
  <2>3. CASE p # fg
    <3>1. /\ job_q' \in Seq(Job) /\ PidsOf(job_q') = PidsOf(job_q) \ {p}
          /\ DistinctPids(job_q') /\ unlisted' = unlisted \ {p}
      BY <1>31, <2>3, ForgetProperties DEF Wait, TypeOK, ChildrenAccounted
    <3>2. TypeOK'
      BY <1>31, <2>3, <3>1, CollectType DEF TypeOK, latch, Wait
    <3>3. ChildrenAccounted' /\ NoWaitSpin'
      BY <1>31, <2>1, <2>3, <3>1 DEF ChildrenAccounted, NoWaitSpin, Wait
    <3> QED BY <3>2, <3>3
  <2> QED BY <2>2, <2>3
<1>32. ASSUME NEW p \in Pid, NEW st \in Status, ChildExits(p, st) PROVE IInv'
  <2>1. TypeOK'
    BY <1>32 DEF TypeOK, table, latch, ChildExits
  <2>2. Children' = Children
    BY <1>32 DEF TypeOK, ChildExits, Children
  <2>3. ChildrenAccounted' /\ NoWaitSpin'
    BY <1>32, <2>2 DEF ChildrenAccounted, NoWaitSpin, table, ChildExits
  <2> QED BY <2>1, <2>3
<1>33. CASE UNCHANGED vars
  BY <1>33 DEF vars, TypeOK, ChildrenAccounted, NoWaitSpin, Children
<1> QED
  BY <1>1, <1>2, <1>3, <1>4, <1>5, <1>6, <1>7, <1>8, <1>9, <1>10, <1>11,
         <1>12, <1>13, <1>14, <1>15, <1>16, <1>17, <1>18, <1>19,
         <1>20, <1>21, <1>22, <1>23, <1>24, <1>25, <1>26, <1>27,
         <1>28, <1>29, <1>30, <1>31, <1>32, <1>33
  DEF Next, InputLoop, Executor, Expansion, Dispatch, Waiting, Environment,
      ShellStopped

\* In every reachable state the variables have their types, each child is
\* accounted for exactly once and a wait() loop waits for a child it has.
THEOREM Invariance == Spec => []IInv
BY InitIInv, NextIInv, PTL DEF Spec

\* Every variable of the shell keeps its type.
THEOREM TypeCorrect == Spec => []TypeOK
<1>1. IInv => TypeOK
  BY DEF IInv
<1> QED BY <1>1, Invariance, PTL

\* Every child is a job, lost by job_add, or awaited, and only one of these.
THEOREM Accounting == Spec => []ChildrenAccounted
<1>1. IInv => ChildrenAccounted
  BY DEF IInv
<1> QED BY <1>1, Invariance, PTL

\* No wait() loop waits for a child that was reaped before.
THEOREM WaitHasChild == Spec => []NoWaitSpin
<1>1. IInv => NoWaitSpin
  BY DEF IInv
<1> QED BY <1>1, Invariance, PTL
-----------------------------------------------------------------------------
(* The error latch.                                                        *)

\* The flag that blocks commands is only ever up when a message was printed.
THEOREM ErrorsAreReported == Spec => []ErrorsReported
<1>1. Init => ErrorsReported
  BY DEF Init, ErrorsReported
<1>2. ErrorsReported /\ [Next]_vars => ErrorsReported'
  <2> SUFFICES ASSUME ErrorsReported, [Next]_vars PROVE ErrorsReported'
    OBVIOUS
  <2> USE DEF ErrorsReported
  <2>1. ASSUME Raise PROVE ErrorsReported'
    BY <2>1 DEF Raise
  <2>2. ASSUME UNCHANGED latch PROVE ErrorsReported'
    BY <2>2 DEF latch
  <2>3. CASE InputLoop
    BY <2>2, <2>3 DEF InputLoop, ReadLine, ReadBadLine, BlankLine, EndLine, Eof
  <2>4. CASE Executor
    BY <2>1, <2>2, <2>4 DEF Executor, RunCommand, Subshell, Bang, ExecuteError
  <2>5. CASE Expansion
    <3>1. ASSUME NEW ok \in BOOLEAN, ExpandArithmetic(ok) PROVE ErrorsReported'
      BY <3>1 DEF ExpandArithmetic, eval_expr
    <3> QED BY <2>1, <2>5, <3>1
        DEF Expansion, ExpandError, ExpandCrash, OutOfMemory, RunCommandNoMemory
  <2>6. CASE Dispatch
    <3>1. ASSUME NEW ok \in BOOLEAN, NEW code \in {0, 1}, Builtin(ok, code)
          PROVE  ErrorsReported'
      BY <2>1, <2>2, <3>1 DEF Builtin
    <3>2. ASSUME NEW ok \in BOOLEAN, NEW failed \in BOOLEAN, BuiltinExport(ok, failed)
          PROVE  ErrorsReported'
      BY <3>2 DEF BuiltinExport
    <3>3. ASSUME NEW allow \in BOOLEAN, BuiltinDebug(allow) PROVE ErrorsReported'
      BY <2>2, <3>3 DEF BuiltinDebug
    <3>4. ASSUME NEW p \in Pid, ForkForeground(p) \/ ForkBackground(p) \/ ForkUnlisted(p)
          PROVE  ErrorsReported'
      BY <2>1, <2>2, <3>4 DEF ForkForeground, ForkBackground, ForkUnlisted
    <3> QED BY <2>1, <2>2, <2>6, <3>1, <3>2, <3>3, <3>4
        DEF Dispatch, NothingToRun, Blocked, ExecDenied, ForkFails, BuiltinJobs, BuiltinExit
  <2>7. CASE Waiting
    BY <2>1, <2>2, <2>7 DEF Waiting, ReapDone, WaitInterrupted, FollowStaleHead, Reap, Wait
  <2>8. CASE Environment
    BY <2>2, <2>8 DEF Environment, ChildExits
  <2>9. CASE ShellStopped \/ UNCHANGED vars
    BY <2>2, <2>9 DEF ShellStopped, vars, latch
  <2> QED BY <2>3, <2>4, <2>5, <2>6, <2>7, <2>8, <2>9 DEF Next
<1> QED BY <1>1, <1>2, PTL DEF Spec

-----------------------------------------------------------------------------
(* What a step can do to the table.                                        *)

\* The five ways the table may change, and the one way to "undefined".
LEMMA TableStep ==
  ASSUME [Next]_vars
  PROVE  /\ \/ UNCHANGED job_q
            \/ \E p \in Pid : Walkable(job_q) /\ job_q' = job_done(job_get_by_pid(job_q, p), p)
            \/ \E p \in Pid : ForkBackground(p)
            \/ job_q' = Renumbered(job_q)
         /\ pc' = "undefined" => pc = "undefined" \/ ~Walkable(job_q)
<1>1. CASE InputLoop
  BY <1>1 DEF InputLoop, ReadLine, ReadBadLine, BlankLine, EndLine, Eof, table
<1>2. CASE Executor
  BY <1>2 DEF Executor, RunCommand, Subshell, Bang, ExecuteError, table
<1>3. CASE Expansion
  BY <1>3 DEF Expansion, ExpandArithmetic, ExpandError, ExpandCrash, OutOfMemory,
              RunCommandNoMemory, table
<1>4. CASE Dispatch
  <2>1. ASSUME NEW ok \in BOOLEAN, NEW code \in {0, 1}, Builtin(ok, code)
        PROVE  UNCHANGED job_q /\ pc' = "line"
    BY <2>1 DEF Builtin, table
  <2>2. ASSUME NEW ok \in BOOLEAN, NEW failed \in BOOLEAN, BuiltinExport(ok, failed)
        PROVE  UNCHANGED job_q /\ pc' = "line"
    BY <2>2 DEF BuiltinExport, table
  <2>3. ASSUME NEW allow \in BOOLEAN, BuiltinDebug(allow)
        PROVE  UNCHANGED job_q /\ pc' = "line"
    BY <2>3 DEF BuiltinDebug, table
  <2>4. ASSUME NEW p \in Pid, ForkForeground(p)
        PROVE  UNCHANGED job_q /\ pc' = "wait"
    BY <2>4 DEF ForkForeground, table
  <2>5. ASSUME NEW p \in Pid, ForkUnlisted(p)
        PROVE  UNCHANGED job_q /\ pc' = "line"
    BY <2>5 DEF ForkUnlisted
  <2>6. ASSUME NEW p \in Pid, ForkBackground(p) PROVE pc' = "line"
    BY <2>6 DEF ForkBackground
  <2>7. CASE BuiltinJobs
    BY <2>7 DEF BuiltinJobs
  <2>8. CASE NothingToRun \/ Blocked \/ ExecDenied \/ ForkFails \/ BuiltinExit
    BY <2>8 DEF NothingToRun, Blocked, ExecDenied, ForkFails, BuiltinExit, table
  <2> QED BY <1>4, <2>1, <2>2, <2>3, <2>4, <2>5, <2>6, <2>7, <2>8 DEF Dispatch
<1>5. CASE Waiting
  <2>1. ASSUME NEW p \in Pid, Reap(p)
        PROVE  pc' = "reap" /\ Walkable(job_q) /\ job_q' = job_done(job_get_by_pid(job_q, p), p)
    BY <2>1 DEF Reap, ForgetJob
  <2>2. ASSUME NEW p \in Pid, Wait(p)
        PROVE  /\ pc' # "undefined"
               /\ \/ UNCHANGED job_q
                  \/ Walkable(job_q) /\ job_q' = job_done(job_get_by_pid(job_q, p), p)
    BY <2>2 DEF Wait, ForgetJob, table
  <2>3. CASE ReapDone \/ WaitInterrupted \/ FollowStaleHead
    BY <2>3 DEF ReapDone, WaitInterrupted, FollowStaleHead, table
  <2> QED BY <1>5, <2>1, <2>2, <2>3 DEF Waiting
<1>6. CASE Environment
  BY <1>6 DEF Environment, ChildExits, table
<1>7. CASE ShellStopped \/ UNCHANGED vars
  BY <1>7 DEF ShellStopped, vars
<1> QED BY <1>1, <1>2, <1>3, <1>4, <1>5, <1>6, <1>7 DEF Next

AllFresh(q) == \A i \in 1 .. Len(q) : q[i].first

\* With two entries at most, removing the head leaves only the repaired tail.
LEMMA DoneKeepsFresh ==
  ASSUME NEW q \in Seq(Job), NEW p \in Pid, DistinctPids(q), AllFresh(q), Len(q) <= 2
  PROVE  AllFresh(job_done(q, p))
<1>1. CASE p \notin PidsOf(q)
  BY <1>1 DEF job_done
<1>2. CASE p \in PidsOf(q)
  <2> DEFINE n == FirstWith(q, p)
             r == llist_remove(q, n)
  <2>1. Len(q) \in Nat /\ DOMAIN q = 1 .. Len(q)
    BY LenProperties
  <2>2. PICK k \in 1 .. Len(q) : q[k].pid = p
    BY <1>2, <2>1 DEF PidsOf
  <2>3. \A i \in 1 .. (k - 1) : q[i].pid # p
    BY <2>1, <2>2 DEF DistinctPids
  <2>4. n \in 1 .. Len(q)
    BY <2>1, <2>2, <2>3 DEF FirstWith
  <2>5. job_done(q, p) = r
    BY <1>2 DEF job_done
  <2> HIDE DEF n
  <2>6. /\ Len(r) = Len(q) - 1
        /\ \A i \in 1 .. (Len(q) - 1) :
             r[i].first = IF n = 1 THEN i = Len(q) - 1
                          ELSE (IF i < n THEN q[i] ELSE q[i + 1]).first
    BY <2>4, RemoveProperties
  <2> HIDE DEF r
  <2>7. ASSUME NEW i \in 1 .. (Len(q) - 1) PROVE r[i].first
    <3>1. i = 1 /\ Len(q) = 2
      BY <2>1
    <3>2. CASE n = 1
      <4>1. r[i].first = (i = Len(q) - 1)
        BY <2>6, <3>2
      <4>2. i = Len(q) - 1
        BY <3>1
      <4> QED BY <4>1, <4>2
    <3>3. CASE n # 1
      BY <2>1, <2>4, <2>6, <3>1, <3>3 DEF AllFresh
    <3> QED BY <3>2, <3>3
  <2> QED BY <2>5, <2>6, <2>7 DEF AllFresh
<1> QED BY <1>1, <1>2

IntactInv ==
  /\ Len(job_q) <= MaxJobs
  /\ AllFresh(job_q)
  /\ pc # "undefined"

\* A short table whose nodes all know the head can be walked.
LEMMA FreshIsWalkable ==
  ASSUME NEW q \in Seq(Job), AllFresh(q)
  PROVE  Walkable(q)
<1>1. q # << >> => Len(q) \in 1 .. Len(q)
  BY EmptySeq, LenProperties
<1> QED BY <1>1 DEF AllFresh, Walkable

\* A user who never keeps more than two jobs never meets the stale pointer.
THEOREM TwoJobsIntact == MaxJobs <= 2 => (Spec => []JobListIntact)
<1> SUFFICES ASSUME MaxJobs <= 2 PROVE Spec => []JobListIntact
  OBVIOUS
<1>1. Init => IntactInv
  BY MaxJobsAssumption, EmptySeq DEF Init, IntactInv, AllFresh
<1>2. IInv /\ IntactInv /\ [Next]_vars => IntactInv'
  <2> SUFFICES ASSUME IInv, IntactInv, [Next]_vars PROVE IntactInv'
    OBVIOUS
  <2>1. /\ job_q \in Seq(Job) /\ DistinctPids(job_q) /\ Len(job_q) \in Nat
        /\ AllFresh(job_q) /\ Len(job_q) <= MaxJobs /\ pc # "undefined"
    BY LenProperties DEF IInv, TypeOK, ChildrenAccounted, IntactInv
  <2>2. Walkable(job_q)
    BY <2>1, FreshIsWalkable
  <2>3. pc' # "undefined"
    BY <2>1, <2>2, TableStep
  <2>4. CASE UNCHANGED job_q
    BY <2>1, <2>3, <2>4 DEF IntactInv, AllFresh
  <2>5. ASSUME NEW p \in Pid, job_q' = job_done(job_get_by_pid(job_q, p), p)
        PROVE  IntactInv'
    <3> DEFINE g == job_get_by_pid(job_q, p)
    <3>1. /\ g \in Seq(Job) /\ Len(g) = Len(job_q)
          /\ \A i \in 1 .. Len(job_q) :
               g[i].pid = job_q[i].pid /\ g[i].first = job_q[i].first
      BY <2>1, GetProperties
    <3> HIDE DEF g
    <3>2. DistinctPids(g)
      BY <2>1, <3>1, SamePids
    <3>3. AllFresh(g) /\ Len(g) <= 2
      BY <2>1, <3>1, MaxJobsAssumption DEF AllFresh
    <3>4. AllFresh(job_done(g, p))
      BY <3>1, <3>2, <3>3, DoneKeepsFresh
    <3>5. job_done(g, p) \in Seq(Job) /\ Len(job_done(g, p)) <= Len(g)
      BY <3>1, <3>2, DoneProperties
    <3>6. job_q' = job_done(g, p)
      BY <2>5 DEF g
    <3>7. Len(job_q') \in Nat /\ Len(job_q') <= MaxJobs
      BY <2>1, <3>1, <3>5, <3>6, LenProperties, MaxJobsAssumption
    <3> QED BY <2>3, <3>4, <3>6, <3>7 DEF IntactInv, AllFresh
  <2>6. ASSUME NEW p \in Pid, ForkBackground(p) PROVE IntactInv'
    <3>1. p \notin PidsOf(job_q)
      BY <2>6 DEF IInv, ChildrenAccounted, Children, ForkBackground, Fork
    <3>2. job_q' = job_add(job_q, p) /\ Len(job_q) < MaxJobs
      BY <2>6 DEF ForkBackground
    <3>3. /\ Len(job_q') = Len(job_q) + 1
          /\ \A i \in 1 .. Len(job_q) : job_q'[i] = job_q[i]
          /\ job_q'[Len(job_q) + 1].first
      <4> DEFINE r == job_add(job_q, p)
      <4>1. /\ Len(r) = Len(job_q) + 1
            /\ \A i \in 1 .. Len(job_q) : r[i] = job_q[i]
            /\ r[Len(job_q) + 1] = [pid |-> p, jid |-> Len(job_q) + 1, first |-> TRUE]
        BY <2>1, <2>2, <3>1, AddProperties
      <4> HIDE DEF r
      <4>2. r[Len(job_q) + 1].first
        BY <4>1
      <4> QED BY <3>2, <4>1, <4>2 DEF r
    <3>4. AllFresh(job_q')
      BY <2>1, <3>3 DEF AllFresh
    <3> QED BY <2>1, <2>3, <3>2, <3>3, <3>4, MaxJobsAssumption DEF IntactInv, AllFresh
  <2>7. CASE job_q' = Renumbered(job_q)
    BY <2>1, <2>3, <2>7, RenumberedProperties DEF IntactInv, AllFresh
  <2> QED BY <2>4, <2>5, <2>6, <2>7, TableStep
<1>3. IInv /\ IntactInv => JobListIntact
  BY FreshIsWalkable DEF IInv, TypeOK, IntactInv, JobListIntact
<1> QED BY <1>1, <1>2, <1>3, Invariance, PTL DEF Spec

-----------------------------------------------------------------------------
(* Job numbers.                                                            *)

JidBound == \A i \in 1 .. Len(job_q) : i <= job_q[i].jid

\* What a walk does to numbers that are at least the positions.
LEMMA DoneNumbers ==
  ASSUME NEW q \in Seq(Job), NEW p \in Pid, DistinctPids(q),
         \A i \in 1 .. Len(q) : i <= q[i].jid
  PROVE  LET r == job_done(q, p)
         IN  /\ \A i \in 1 .. Len(r) : i <= r[i].jid
             /\ \A k \in 1 .. Len(r) : \E i \in 1 .. Len(q) :
                  r[k].pid = q[i].pid /\ r[k].jid = q[i].jid
<1>1. Len(q) \in Nat /\ DOMAIN q = 1 .. Len(q) /\ \A i \in 1 .. Len(q) : q[i].jid \in Nat
  <2>1. Len(q) \in Nat /\ DOMAIN q = 1 .. Len(q) /\ \A i \in 1 .. Len(q) : q[i] \in Job
    BY LenProperties, ElementOfSeq
  <2> QED BY <2>1 DEF Job
<1>2. CASE p \notin PidsOf(q)
  BY <1>1, <1>2 DEF job_done
<1>3. CASE p \in PidsOf(q)
  <2> DEFINE n == FirstWith(q, p)
             r == llist_remove(q, n)
  <2>1. PICK k \in 1 .. Len(q) : q[k].pid = p
    BY <1>1, <1>3 DEF PidsOf
  <2>2. \A i \in 1 .. (k - 1) : q[i].pid # p
    BY <1>1, <2>1 DEF DistinctPids
  <2>3. n \in 1 .. Len(q)
    BY <1>1, <2>1, <2>2 DEF FirstWith
  <2>4. job_done(q, p) = r
    BY <1>3 DEF job_done
  <2> HIDE DEF n
  <2>5. /\ Len(r) = Len(q) - 1
        /\ \A i \in 1 .. (Len(q) - 1) :
             LET old == IF i < n THEN q[i] ELSE q[i + 1]
             IN  r[i].pid = old.pid /\ r[i].jid = old.jid
    BY <2>3, RemoveProperties
  <2> HIDE DEF r
  <2>6. ASSUME NEW i \in 1 .. (Len(q) - 1)
        PROVE  /\ i <= r[i].jid
               /\ \E m \in 1 .. Len(q) : r[i].pid = q[m].pid /\ r[i].jid = q[m].jid
    <3>1. i \in 1 .. Len(q) /\ i + 1 \in 1 .. Len(q)
      BY <1>1
    <3>2. n \in 1 .. Len(q) /\ i \in Nat /\ i <= q[i].jid /\ i + 1 <= q[i + 1].jid
      BY <1>1, <2>3, <3>1
    <3>a. q[i] \in Job /\ q[i + 1] \in Job
      BY <3>1, ElementOfSeq
    <3>3. q[i].jid \in Nat /\ q[i + 1].jid \in Nat
      BY <3>a DEF Job
    <3>4. CASE i < n
      <4>1. r[i].pid = q[i].pid /\ r[i].jid = q[i].jid
        BY <2>5, <3>4
      <4> QED BY <3>1, <3>2, <4>1
    <3>5. CASE ~(i < n)
      <4>1. r[i].pid = q[i + 1].pid /\ r[i].jid = q[i + 1].jid
        BY <2>5, <3>5
      <4>2. i <= q[i + 1].jid
        BY <3>2, <3>3
      <4> QED BY <3>1, <4>1, <4>2
    <3> QED BY <3>4, <3>5
  <2> QED BY <2>4, <2>5, <2>6
<1> QED BY <1>2, <1>3

JidsShrink ==
  \A i \in DOMAIN job_q, k \in DOMAIN job_q' :
    job_q[i].pid = job_q'[k].pid => job_q'[k].jid <= job_q[i].jid

\* No step raises the number of a job that stays in the table.
LEMMA JidStep ==
  ASSUME IInv, JidBound, [Next]_vars
  PROVE  JidBound' /\ JidsShrink
<1>1. /\ job_q \in Seq(Job) /\ DistinctPids(job_q) /\ Len(job_q) \in Nat
      /\ DOMAIN job_q = 1 .. Len(job_q)
      /\ \A i \in 1 .. Len(job_q) : job_q[i] \in Job
  BY LenProperties, ElementOfSeq DEF IInv, TypeOK, ChildrenAccounted
<1>2. \A i \in 1 .. Len(job_q) : job_q[i].jid \in Nat
  BY <1>1 DEF Job
<1>3. \A i, m \in 1 .. Len(job_q) : job_q[i].pid = job_q[m].pid => i = m
  BY <1>1 DEF DistinctPids
<1>4. CASE UNCHANGED job_q
  <2>1. JidBound'
    BY <1>4 DEF JidBound
  <2>2. JidsShrink
    BY <1>1, <1>2, <1>3, <1>4 DEF JidsShrink
  <2> QED BY <2>1, <2>2
<1>5. ASSUME NEW p \in Pid, job_q' = job_done(job_get_by_pid(job_q, p), p)
      PROVE  JidBound' /\ JidsShrink
  <2> DEFINE g == job_get_by_pid(job_q, p)
             r == job_done(g, p)
  <2>1. /\ g \in Seq(Job) /\ Len(g) = Len(job_q)
        /\ \A i \in 1 .. Len(job_q) :
             g[i].pid = job_q[i].pid /\ g[i].jid \in {i, job_q[i].jid}
    BY <1>1, GetProperties
  <2>2. job_q' = r
    BY <1>5
  <2> HIDE DEF g
  <2>3. DistinctPids(g)
    BY <1>1, <2>1, SamePids
  <2>4. \A i \in 1 .. Len(g) : i <= g[i].jid /\ g[i].jid <= job_q[i].jid
    BY <1>1, <1>2, <2>1 DEF JidBound
  <2>5. /\ \A i \in 1 .. Len(r) : i <= r[i].jid
        /\ \A k \in 1 .. Len(r) : \E i \in 1 .. Len(g) :
             r[k].pid = g[i].pid /\ r[k].jid = g[i].jid
    BY <2>1, <2>3, <2>4, DoneNumbers
  <2>6. DOMAIN r = 1 .. Len(r)
    BY <2>1, <2>3, DoneProperties, LenProperties
  <2> HIDE DEF r
  <2>7. ASSUME NEW i \in 1 .. Len(job_q), NEW k \in 1 .. Len(r), job_q[i].pid = r[k].pid
        PROVE  r[k].jid <= job_q[i].jid
    <3>1. PICK m \in 1 .. Len(g) : r[k].pid = g[m].pid /\ r[k].jid = g[m].jid
      BY <2>5
    <3>2. m \in 1 .. Len(job_q) /\ job_q[m].pid = job_q[i].pid
      BY <2>1, <2>7, <3>1
    <3>3. m = i
      BY <1>3, <3>2
    <3> QED BY <2>4, <3>1, <3>3
  <2> QED BY <1>1, <2>2, <2>5, <2>6, <2>7 DEF JidBound, JidsShrink
<1>6. ASSUME NEW p \in Pid, ForkBackground(p) PROVE JidBound' /\ JidsShrink
  <2> DEFINE r == job_add(job_q, p)
  <2>1. p \in Pid \ PidsOf(job_q) /\ Walkable(job_q) /\ job_q' = r
    BY <1>6 DEF IInv, ChildrenAccounted, Children, ForkBackground, Fork
  <2>2. /\ r \in Seq(Job) /\ Len(r) = Len(job_q) + 1
        /\ \A i \in 1 .. Len(job_q) : r[i] = job_q[i]
        /\ r[Len(job_q) + 1] = [pid |-> p, jid |-> Len(job_q) + 1, first |-> TRUE]
    BY <1>1, <2>1, AddProperties
  <2>3. DOMAIN r = 1 .. (Len(job_q) + 1)
    BY <2>2, LenProperties
  <2> HIDE DEF r
  <2>4. r[Len(job_q) + 1].pid = p /\ r[Len(job_q) + 1].jid = Len(job_q) + 1
    BY <2>2
  <2>5. \A i \in 1 .. Len(job_q) : job_q[i].pid # p
    BY <1>1, <2>1 DEF PidsOf
  <2>6. JidBound'
    BY <1>1, <2>1, <2>2, <2>4 DEF JidBound
  <2>7. ASSUME NEW i \in 1 .. Len(job_q), NEW k \in 1 .. (Len(job_q) + 1),
               job_q[i].pid = r[k].pid
        PROVE  r[k].jid <= job_q[i].jid
    <3>1. k \in 1 .. Len(job_q)
      BY <1>1, <2>4, <2>5, <2>7
    <3>2. r[k] = job_q[k] /\ i = k
      BY <1>3, <2>2, <2>7, <3>1
    <3> QED BY <1>2, <3>2
  <2> QED BY <1>1, <2>1, <2>3, <2>6, <2>7 DEF JidsShrink
<1>7. CASE job_q' = Renumbered(job_q)
  <2> DEFINE r == Renumbered(job_q)
  <2>1. /\ r \in Seq(Job) /\ Len(r) = Len(job_q)
        /\ \A i \in 1 .. Len(job_q) : r[i].pid = job_q[i].pid /\ r[i].jid = i
    BY <1>1, RenumberedProperties
  <2>2. DOMAIN r = 1 .. Len(job_q)
    BY <2>1, LenProperties
  <2> HIDE DEF r
  <2>3. job_q' = r
    BY <1>7 DEF r
  <2>4. JidBound'
    BY <1>1, <2>1, <2>3 DEF JidBound
  <2>5. JidsShrink
    BY <1>1, <1>3, <2>1, <2>2, <2>3 DEF JidBound, JidsShrink
  <2> QED BY <2>4, <2>5
<1> QED BY <1>4, <1>5, <1>6, <1>7, TableStep

\* While a job lives its number never grows.
THEOREM NumbersShrink == Spec => JidsOnlyShrink
<1>1. Init => JidBound
  BY EmptySeq DEF Init, JidBound
<1>2. IInv /\ JidBound /\ [Next]_vars => JidBound' /\ [JidsShrink]_vars
  BY JidStep
<1>3. Spec => [][JidsShrink]_vars
  BY <1>1, <1>2, Invariance, PTL DEF Spec
<1> QED BY <1>3 DEF JidsOnlyShrink, JidsShrink

-----------------------------------------------------------------------------
(* The status of a wait() loop.                                            *)

StatusTaken ==
  pc = "wait" /\ pc' = "line" =>
    /\ proc[fg] = "zombie"
    /\ last_res' = (IF wstatus[fg].how = "exited" THEN 0 ELSE 128) + wstatus[fg].val

\* Only the turn that collects the awaited child leads from a wait() loop back
\* to the tree.
LEMMA WaitLeaves ==
  ASSUME [Next]_vars, pc = "wait", pc' = "line"
  PROVE  \E p \in Pid : p = fg /\ Wait(p)
<1>1. ~InputLoop
  BY DEF InputLoop, ReadLine, ReadBadLine, BlankLine, EndLine, Eof
<1>2. ~Executor
  BY DEF Executor, RunCommand, Subshell, Bang, ExecuteError
<1>3. ~Expansion
  BY DEF Expansion, ExpandArithmetic, ExpandError, ExpandCrash, OutOfMemory,
         RunCommandNoMemory, Expanding
<1>4. ~Dispatch
  <2>1. ~Dispatching
    BY DEF Dispatching
  <2>2. \A ok \in BOOLEAN, code \in {0, 1} : ~Builtin(ok, code)
    BY <2>1 DEF Builtin
  <2>3. \A ok, failed \in BOOLEAN : ~BuiltinExport(ok, failed)
    BY <2>1 DEF BuiltinExport
  <2>4. \A allow \in BOOLEAN : ~BuiltinDebug(allow)
    BY <2>1 DEF BuiltinDebug
  <2>5. \A p \in Pid : ~(ForkForeground(p) \/ ForkBackground(p) \/ ForkUnlisted(p))
    BY <2>1 DEF ForkForeground, ForkBackground, ForkUnlisted, Fork
  <2>6. ~(NothingToRun \/ Blocked \/ ExecDenied \/ ForkFails \/ BuiltinJobs \/ BuiltinExit)
    BY <2>1 DEF NothingToRun, Blocked, ExecDenied, ForkFails, BuiltinJobs, BuiltinExit
  <2> QED BY <2>2, <2>3, <2>4, <2>5, <2>6 DEF Dispatch
<1>5. ~Environment
  BY DEF Environment, ChildExits
<1>6. ~(ShellStopped \/ UNCHANGED vars)
  BY DEF ShellStopped, vars, Stopped
<1>7. ~(ReapDone \/ WaitInterrupted \/ FollowStaleHead \/ \E p \in Pid : Reap(p))
  BY DEF ReapDone, WaitInterrupted, FollowStaleHead, Reap
<1>8. PICK p \in Pid : Wait(p)
  BY <1>1, <1>2, <1>3, <1>4, <1>5, <1>6, <1>7 DEF Next, Waiting
<1>9. p = fg
  BY <1>8 DEF Wait
<1> QED BY <1>8, <1>9

\* The value wait() reported is in $? when the next command of the line starts,
\* whichever children were reaped before.
THEOREM WaitSetsStatus == Spec => ForegroundStatus
<1>1. IInv /\ [Next]_vars => [StatusTaken]_vars
  <2> SUFFICES ASSUME IInv, [Next]_vars, pc = "wait", pc' = "line"
               PROVE  /\ proc[fg] = "zombie"
                      /\ last_res' = (IF wstatus[fg].how = "exited" THEN 0 ELSE 128)
                                       + wstatus[fg].val
    BY DEF StatusTaken
  <2>1. PICK p \in Pid : p = fg /\ Wait(p)
    BY WaitLeaves
  <2>2. proc[fg] = "zombie" /\ last_res' = Result(wstatus[fg])
    BY <2>1 DEF Wait, Zombies, Collect
  <2>3. wstatus[fg].val \in Int
    <3>1. wstatus[fg] \in Status
      BY <2>1 DEF IInv, TypeOK
    <3>2. ASSUME NEW st \in Status PROVE st.val \in Int
      <4>1. CASE st \in [how : {"exited"}, val : ExitCodes]
        <5>1. st.val \in ExitCodes
          BY <4>1
        <5> QED BY <5>1, CodesAre
      <4>2. CASE st \in [how : {"signaled"}, val : Signals]
        <5>1. st.val \in Signals
          BY <4>2
        <5> QED BY <5>1, CodesAre
      <4> QED BY <4>1, <4>2 DEF Status
    <3> QED BY <3>1, <3>2
  <2> QED BY <2>2, <2>3 DEF Result
<1>2. Spec => [][StatusTaken]_vars
  BY <1>1, Invariance, PTL DEF Spec
<1> QED BY <1>2 DEF ForegroundStatus, StatusTaken

=============================================================================
