----------------------------- MODULE ExecProofs -----------------------------
(***************************************************************************)
(* The walk over any tree of the parser's shapes: frames, iterators and    *)
(* statuses are of their types, so that execute is never called for a      *)
(* child that is not there, and the background flag follows the nesting.   *)
(***************************************************************************)
EXTENDS Exec, SeqLemmas

\* What the calls of execute rely on when they go on: f is a frame, l are the
\* iterators.
FrameOK(p, l, f) ==
  LET n == f.n
      ks == p.kids[n]
  IN  /\ f.at = "next" /\ p.kind[n] \in {"list", "compound"} => f.t <= Len(ks)
      /\ f.at \in {"word", "value"} => f.t > 0 /\ f.t <= Len(ks)
      /\ f.at = "cond" /\ p.kind[n] = "if" =>
           l[n] >= 2 /\ l[n] <= Len(ks) /\ (l[n] = 2 \/ p.kind[ks[l[n]]] = "elif")
      /\ f.at = "body" /\ p.kind[n] = "case" =>
           l[n] > 0 /\ l[n] <= Len(ks) /\ p.kind[ks[l[n]]] = "caseitem"

FrameSet(p) == [n : 1 .. Len(p.kind), at : Places, t : Nat, b : BOOLEAN, q : Nat]

\* A call is for a node below that of its caller: no two frames share an iterator.
Descending(s) == \A i, j \in DOMAIN s : i < j => s[j].n < s[i].n

StackOK(p, l, s) ==
  /\ s \in Seq(FrameSet(p)) /\ Descending(s)
  /\ \A i \in DOMAIN s : FrameOK(p, l, s[i])

Iterators(p) == {l \in [1 .. Len(p.kind) -> Nat] : \A n \in 1 .. Len(p.kind) : l[n] <= Len(p.kids[n])}

ShapeOK == StackOK(prog, lru_child, stack) /\ lru_child \in Iterators(prog)

IsSeq(s) == \E S : s \in Seq(S)

OthersOK ==
  /\ start.top \in Nodes /\ start.res \in 0 .. 255
  /\ last_res \in 0 .. 255 /\ background \in BOOLEAN
  /\ reported \subseteq Messages
  /\ IsSeq(log) /\ Len(log) <= MaxLog

\* The inductive invariant of the typing.
ExecInv == prog \in Programs /\ ShapeOK /\ OthersOK

-----------------------------------------------------------------------------
(* Stacks *)

LEMMA Replaced ==
  ASSUME NEW S, NEW s \in Seq(S), s # << >>, NEW f \in S
  PROVE  LET w == <<f>> \o Tail(s)
         IN  /\ w \in Seq(S) /\ Len(w) = Len(s) /\ DOMAIN w = 1 .. Len(s)
             /\ w[1] = f /\ \A i \in 2 .. Len(s) : w[i] = s[i]
  <1> DEFINE w == <<f>> \o Tail(s)
  <1>1. <<f>> \in Seq(S) /\ Len(<<f>>) = 1 /\ <<f>>[1] = f
    OBVIOUS
  <1>2. w \in Seq(S) /\ Len(w) = 1 + Len(Tail(s))
    BY <1>1, Rest, ConcatProperties
  <1>3. Len(w) = Len(s) /\ DOMAIN w = 1 .. Len(s)
    BY <1>2, Rest, LenProperties
  <1>4. \A i \in 1 .. 1 + Len(Tail(s)) : w[i] = IF i <= 1 THEN <<f>>[i] ELSE Tail(s)[i - 1]
    BY <1>1, Rest, ConcatProperties
  <1>5. w[1] = f
    BY <1>1, <1>4, Rest
  <1>6. \A i \in 2 .. Len(s) : w[i] = s[i]
    <2> TAKE i \in 2 .. Len(s)
    <2>1. w[i] = Tail(s)[i - 1] /\ i - 1 \in 1 .. Len(s) - 1
      BY <1>4, Rest
    <2> QED
      BY <2>1, Rest
  <1> QED
    BY <1>2, <1>3, <1>5, <1>6

LEMMA Pushed ==
  ASSUME NEW S, NEW s \in Seq(S), s # << >>, NEW f \in S, NEW g \in S
  PROVE  LET w == <<g, f>> \o Tail(s)
         IN  /\ w \in Seq(S) /\ Len(w) = Len(s) + 1 /\ DOMAIN w = 1 .. Len(s) + 1
             /\ w[1] = g /\ w[2] = f /\ \A i \in 3 .. Len(s) + 1 : w[i] = s[i - 1]
  <1> DEFINE w == <<g, f>> \o Tail(s)
  <1>1. <<g, f>> \in Seq(S) /\ Len(<<g, f>>) = 2 /\ <<g, f>>[1] = g /\ <<g, f>>[2] = f
    OBVIOUS
  <1>2. w \in Seq(S) /\ Len(w) = 2 + Len(Tail(s))
    BY <1>1, Rest, ConcatProperties
  <1>3. Len(w) = Len(s) + 1 /\ DOMAIN w = 1 .. Len(s) + 1
    BY <1>2, Rest, LenProperties
  <1>4. \A i \in 1 .. 2 + Len(Tail(s)) : w[i] = IF i <= 2 THEN <<g, f>>[i] ELSE Tail(s)[i - 2]
    BY <1>1, Rest, ConcatProperties
  <1>5. w[1] = g /\ w[2] = f
    BY <1>1, <1>4, Rest
  <1>6. \A i \in 3 .. Len(s) + 1 : w[i] = s[i - 1]
    <2> TAKE i \in 3 .. Len(s) + 1
    <2>1. w[i] = Tail(s)[i - 2] /\ i - 2 \in 1 .. Len(s) - 1
      BY <1>4, Rest
    <2> QED
      BY <2>1, Rest
  <1> QED
    BY <1>2, <1>3, <1>5, <1>6

-----------------------------------------------------------------------------
(* What a step may do to the stack and the iterators *)

\* A step writes iterators of the node on top and of nodes below it in the tree.
OthersKept(p, l, m, n) == \A k \in 1 .. Len(p.kind) : k < n => m[k] = l[k]

LEMMA BelowOK ==
  ASSUME NEW p, NEW l, NEW m, NEW s, StackOK(p, l, s), s # << >>, Len(p.kind) \in Nat,
         OthersKept(p, l, m, s[1].n)
  PROVE  \A i \in 2 .. Len(s) : s[i] \in FrameSet(p) /\ s[i].n < s[1].n /\ FrameOK(p, m, s[i])
  <1> TAKE i \in 2 .. Len(s)
  <1>1. s \in Seq(FrameSet(p)) /\ i \in DOMAIN s /\ 1 \in DOMAIN s
    BY Rest DEF StackOK
  <1>2. s[i] \in FrameSet(p) /\ s[i].n < s[1].n /\ FrameOK(p, l, s[i])
    BY <1>1, ElementOfSeq, Rest DEF StackOK, Descending
  <1>3. m[s[i].n] = l[s[i].n]
    BY <1>2 DEF OthersKept, FrameSet
  <1> QED
    BY <1>2, <1>3 DEF FrameOK

LEMMA ReturnOK ==
  ASSUME NEW p, NEW l, NEW m, NEW s, StackOK(p, l, s), s # << >>, Len(p.kind) \in Nat,
         OthersKept(p, l, m, s[1].n)
  PROVE  StackOK(p, m, Tail(s))
  <1>1. s \in Seq(FrameSet(p))
    BY DEF StackOK
  <1>b. \A i \in 2 .. Len(s) : s[i] \in FrameSet(p) /\ s[i].n < s[1].n /\ FrameOK(p, m, s[i])
    BY BelowOK
  <1>r. /\ Len(s) \in Nat /\ DOMAIN Tail(s) = 1 .. Len(s) - 1
        /\ \A i \in 1 .. Len(s) - 1 : Tail(s)[i] = s[i + 1]
    BY <1>1, Rest
  <1>2. \A i \in DOMAIN Tail(s) : FrameOK(p, m, Tail(s)[i])
    BY <1>r, <1>b
  <1>a. \A i \in DOMAIN Tail(s) : i + 1 \in DOMAIN s /\ Tail(s)[i] = s[i + 1] /\ i \in Nat
    BY <1>1, <1>r, LenProperties
  <1>3. Descending(Tail(s))
    BY <1>a DEF StackOK, Descending
  <1> QED
    BY <1>1, <1>2, <1>3, Rest DEF StackOK

LEMMA GotoOK ==
  ASSUME NEW p, NEW l, NEW m, NEW s, StackOK(p, l, s), s # << >>, Len(p.kind) \in Nat,
         OthersKept(p, l, m, s[1].n),
         NEW f \in FrameSet(p), f.n = s[1].n, FrameOK(p, m, f)
  PROVE  StackOK(p, m, <<f>> \o Tail(s))
  <1> DEFINE w == <<f>> \o Tail(s)
  <1>b. \A i \in 2 .. Len(s) : s[i] \in FrameSet(p) /\ s[i].n < s[1].n /\ FrameOK(p, m, s[i])
    BY BelowOK
  <1>1. s \in Seq(FrameSet(p)) /\ Len(s) \in Nat
    BY Rest DEF StackOK
  <1>2. /\ w \in Seq(FrameSet(p)) /\ DOMAIN w = 1 .. Len(s)
        /\ w[1] = f /\ \A i \in 2 .. Len(s) : w[i] = s[i]
    BY <1>1, Replaced
  <1>3. \A i \in DOMAIN w : FrameOK(p, m, w[i]) /\ w[i].n = s[i].n
    <2> TAKE i \in DOMAIN w
    <2>1. CASE i = 1
      BY <1>2, <2>1
    <2>2. CASE i # 1
      <3>1. i \in 2 .. Len(s)
        BY <1>1, <1>2, <2>2
      <3> QED
        BY <1>2, <1>b, <3>1
    <2> QED
      BY <2>1, <2>2
  <1>4. Descending(w)
    BY <1>1, <1>2, <1>3, Rest DEF StackOK, Descending
  <1> HIDE DEF w
  <1> QED
    BY <1>2, <1>3, <1>4 DEF StackOK, w

LEMMA CallOK ==
  ASSUME NEW p, NEW l, NEW m, NEW s, StackOK(p, l, s), s # << >>, Len(p.kind) \in Nat,
         OthersKept(p, l, m, s[1].n),
         NEW f \in FrameSet(p), f.n = s[1].n, FrameOK(p, m, f),
         NEW c \in 1 .. Len(p.kind), c > s[1].n
  PROVE  StackOK(p, m, <<Frame(c), f>> \o Tail(s))
  <1> DEFINE g == Frame(c)
             w == <<g, f>> \o Tail(s)
  <1>b. \A i \in 2 .. Len(s) : s[i] \in FrameSet(p) /\ s[i].n < s[1].n /\ FrameOK(p, m, s[i])
    BY BelowOK
  <1>1. s \in Seq(FrameSet(p)) /\ Len(s) \in Nat /\ DOMAIN s = 1 .. Len(s)
    BY Rest DEF StackOK
  <1>2. g \in FrameSet(p) /\ FrameOK(p, m, g) /\ g.n = c
    BY DEF Frame, FrameSet, FrameOK, Places
  <1> HIDE DEF g
  <1>3. /\ w \in Seq(FrameSet(p)) /\ DOMAIN w = 1 .. Len(s) + 1
        /\ w[1] = g /\ w[2] = f /\ \A i \in 3 .. Len(s) + 1 : w[i] = s[i - 1]
    BY <1>1, <1>2, Pushed
  <1> HIDE DEF w
  <1>4. \A i \in DOMAIN w : FrameOK(p, m, w[i])
    <2> TAKE i \in DOMAIN w
    <2>1. CASE i = 1
      BY <1>2, <1>3, <2>1
    <2>2. CASE i = 2
      BY <1>3, <2>2
    <2>3. CASE i \notin {1, 2}
      <3>1. i \in 3 .. Len(s) + 1 /\ i - 1 \in 2 .. Len(s)
        BY <1>1, <1>3, <2>3
      <3> QED
        BY <1>3, <1>b, <3>1
    <2> QED
      BY <2>1, <2>2, <2>3
  <1>5. \A i \in 2 .. Len(s) + 1 : i - 1 \in DOMAIN s /\ w[i].n = s[i - 1].n /\ s[i - 1].n \in Nat
    <2> TAKE i \in 2 .. Len(s) + 1
    <2>1. i - 1 \in 1 .. Len(s)
      BY <1>1
    <2>2. w[i].n = s[i - 1].n
      <3>1. CASE i = 2
        BY <1>3, <3>1
      <3>2. CASE i # 2
        <4>1. i \in 3 .. Len(s) + 1
          BY <1>1, <3>2
        <4> QED
          BY <1>3, <4>1
      <3> QED
        BY <3>1, <3>2
    <2>3. s[i - 1] \in FrameSet(p)
      BY <1>1, <2>1, ElementOfSeq
    <2> QED
      BY <1>1, <2>1, <2>2, <2>3 DEF FrameSet
  <1>6. Descending(w)
    <2> SUFFICES ASSUME NEW i \in DOMAIN w, NEW j \in DOMAIN w, i < j
                 PROVE  w[j].n < w[i].n
      BY DEF Descending
    <2>1. j \in 2 .. Len(s) + 1
      BY <1>1, <1>3
    <2>2. CASE i = 1
      <3>1. s[j - 1].n <= s[1].n
        <4>1. CASE j = 2
          BY <1>5, <2>1, <4>1
        <4>2. CASE j # 2
          <5>1. j - 1 \in 2 .. Len(s)
            BY <1>1, <2>1, <4>2
          <5> QED
            BY <1>5, <1>b, <2>1, <5>1
        <4> QED
          BY <4>1, <4>2
      <3>2. s[1].n \in Nat
        BY <1>5, <1>1, <2>1
      <3> QED
        BY <1>2, <1>3, <1>5, <2>1, <2>2, <3>1, <3>2
    <2>3. CASE i # 1
      <3>1. i \in 2 .. Len(s) + 1 /\ i - 1 < j - 1
        BY <1>1, <1>3, <2>1, <2>3
      <3> QED
        BY <1>5, <2>1, <3>1 DEF StackOK, Descending
    <2> QED
      BY <2>2, <2>3
  <1> QED
    BY <1>3, <1>4, <1>6 DEF StackOK, w, g

-----------------------------------------------------------------------------
(* Trees *)

LEMMA Nodes1 ==
  ASSUME NEW p \in Programs
  PROVE  /\ Len(p.kind) \in Nat \ {0} /\ DOMAIN p.kind = 1 .. Len(p.kind)
         /\ \A n \in 1 .. Len(p.kind) :
              /\ p.kids[n] \in Seq(1 .. Len(p.kind))
              /\ Len(p.kids[n]) \in Nat /\ DOMAIN p.kids[n] = 1 .. Len(p.kids[n])
              /\ \A i \in 1 .. Len(p.kids[n]) : p.kids[n][i] \in 1 .. Len(p.kind) /\ p.kids[n][i] > n
  <1>1. /\ p.kind \in Seq({p.kind[n] : n \in DOMAIN p.kind}) /\ p.kind # << >>
        /\ p.kids \in Seq(Seq(1 .. Len(p.kind))) /\ Len(p.kids) = Len(p.kind)
        /\ \A n \in DOMAIN p.kids : \A i \in DOMAIN p.kids[n] : p.kids[n][i] > n
    BY ProgramsAssumption DEF Executable
  <1>2. Len(p.kind) \in Nat \ {0} /\ DOMAIN p.kind = 1 .. Len(p.kind)
    BY <1>1, EmptySeq, LenProperties
  <1>3. DOMAIN p.kids = 1 .. Len(p.kind)
    BY <1>1, LenProperties
  <1> SUFFICES ASSUME NEW n \in 1 .. Len(p.kind)
               PROVE  /\ p.kids[n] \in Seq(1 .. Len(p.kind))
                      /\ Len(p.kids[n]) \in Nat /\ DOMAIN p.kids[n] = 1 .. Len(p.kids[n])
                      /\ \A i \in 1 .. Len(p.kids[n]) :
                           p.kids[n][i] \in 1 .. Len(p.kind) /\ p.kids[n][i] > n
    BY <1>2
  <1>4. p.kids[n] \in Seq(1 .. Len(p.kind))
    BY <1>1, <1>2, <1>3, ElementOfSeq
  <1>5. Len(p.kids[n]) \in Nat /\ DOMAIN p.kids[n] = 1 .. Len(p.kids[n])
    BY <1>4, LenProperties
  <1>6. \A i \in 1 .. Len(p.kids[n]) : p.kids[n][i] \in 1 .. Len(p.kind)
    BY <1>4, <1>5, ElementOfSeq
  <1> QED
    BY <1>1, <1>2, <1>3, <1>4, <1>5, <1>6

LEMMA Shapes ==
  ASSUME NEW p \in Programs, NEW n \in 1 .. Len(p.kind)
  PROVE  /\ p.kind[n] \in {"subshell", "else", "caseitem"} => Len(p.kids[n]) >= 1
         /\ p.kind[n] \in {"if", "while", "until", "elif", "for"} => Len(p.kids[n]) >= 2
         /\ p.kind[n] = "for" /\ p.kind[p.kids[n][2]] = "in" => Len(p.kids[n]) >= 3
         /\ p.kind[n] = "if" =>
              \A i \in 3 .. Len(p.kids[n]) : p.kind[p.kids[n][i]] \in {"elif", "else"}
  <1>1. n \in DOMAIN p.kids
    <2>1. p.kids \in Seq(Seq(1 .. Len(p.kind))) /\ Len(p.kids) = Len(p.kind)
      BY ProgramsAssumption DEF Executable
    <2> QED
      BY <2>1, LenProperties
  <1> QED
    BY <1>1, ProgramsAssumption DEF Executable

-----------------------------------------------------------------------------
(* Steps *)

\* What is known of the frame on top.
LEMMA OnTop ==
  ASSUME prog \in Programs, ShapeOK, stack # << >>
  PROVE  /\ Top = stack[1] /\ this = stack[1].n /\ Top \in FrameSet(prog) /\ FrameOK(prog, lru_child, Top)
         /\ Len(prog.kind) \in Nat /\ Nodes = 1 .. Len(prog.kind) /\ this \in 1 .. Len(prog.kind)
         /\ DOMAIN lru_child = 1 .. Len(prog.kind)
         /\ \A n \in 1 .. Len(prog.kind) :
              /\ lru_child[n] \in Nat /\ lru_child[n] <= Len(kids(n)) /\ Len(kids(n)) \in Nat
              /\ DOMAIN kids(n) = 1 .. Len(kids(n))
              /\ \A i \in 1 .. Len(kids(n)) : kids(n)[i] \in 1 .. Len(prog.kind) /\ kids(n)[i] > n
  <1>1. Top = stack[1] /\ Top \in FrameSet(prog) /\ FrameOK(prog, lru_child, Top)
    BY Rest DEF ShapeOK, StackOK, Top
  <1>2. this \in 1 .. Len(prog.kind)
    BY <1>1 DEF FrameSet, this
  <1> QED
    BY <1>1, <1>2, Nodes1 DEF ShapeOK, Iterators, Nodes, kids, this

\* What a step needs to leave the invariant to the others: the iterators of the
\* nodes of the other frames stay.
Keeps == prog' = prog /\ lru_child' \in Iterators(prog) /\ OthersKept(prog, lru_child, lru_child', this)

LEMMA Unvisited ==
  ASSUME ShapeOK, prog' = prog, lru_child' = lru_child
  PROVE  Keeps
  BY DEF Keeps, ShapeOK, OthersKept

LEMMA Visited ==
  ASSUME prog \in Programs, ShapeOK, stack # << >>, prog' = prog,
         NEW n \in 1 .. Len(prog.kind), n >= this,
         NEW i \in 0 .. Len(kids(n)), Visit(n, i)
  PROVE  Keeps /\ lru_child'[n] = i
  <1>1. lru_child \in [1 .. Len(prog.kind) -> Nat] /\ lru_child' = [lru_child EXCEPT ![n] = i]
    BY DEF ShapeOK, Iterators, Visit
  <1>2. i \in Nat /\ i <= Len(prog.kids[n]) /\ this \in Nat
    BY OnTop DEF kids
  <1>3. lru_child' \in Iterators(prog)
    BY <1>1, <1>2 DEF ShapeOK, Iterators
  <1>4. OthersKept(prog, lru_child, lru_child', this)
    BY <1>1, <1>2 DEF OthersKept
  <1> QED
    BY <1>1, <1>3, <1>4 DEF Keeps

LEMMA Returns ==
  ASSUME prog \in Programs, ShapeOK, stack # << >>, Keeps, Return
  PROVE  ShapeOK'
  <1>0. /\ StackOK(prog, lru_child, stack) /\ Len(prog.kind) \in Nat /\ this = stack[1].n
        /\ OthersKept(prog, lru_child, lru_child', stack[1].n)
    BY OnTop DEF Keeps, ShapeOK
  <1>1. StackOK(prog, lru_child', Tail(stack))
    BY <1>0, ReturnOK
  <1> QED
    BY <1>1 DEF Keeps, ShapeOK, Return

LEMMA Goes ==
  ASSUME prog \in Programs, ShapeOK, stack # << >>, Keeps,
         NEW f \in FrameSet(prog), f.n = this, FrameOK(prog, lru_child', f), Goto(f)
  PROVE  ShapeOK'
  <1>0. /\ StackOK(prog, lru_child, stack) /\ Len(prog.kind) \in Nat /\ this = stack[1].n
        /\ OthersKept(prog, lru_child, lru_child', stack[1].n)
    BY OnTop DEF Keeps, ShapeOK
  <1>1. StackOK(prog, lru_child', <<f>> \o Tail(stack))
    BY <1>0, GotoOK
  <1> QED
    BY <1>1 DEF Keeps, ShapeOK, Goto

LEMMA Calls ==
  ASSUME prog \in Programs, ShapeOK, stack # << >>, Keeps,
         NEW f \in FrameSet(prog), f.n = this, FrameOK(prog, lru_child', f),
         NEW c \in 1 .. Len(prog.kind), c > this, Call(c, f)
  PROVE  ShapeOK'
  <1>0. /\ StackOK(prog, lru_child, stack) /\ Len(prog.kind) \in Nat /\ this = stack[1].n
        /\ OthersKept(prog, lru_child, lru_child', stack[1].n)
    BY OnTop DEF Keeps, ShapeOK
  <1>1. StackOK(prog, lru_child', <<Frame(c), f>> \o Tail(stack))
    BY <1>0, CallOK
  <1> QED
    BY <1>1 DEF Keeps, ShapeOK, Call

-----------------------------------------------------------------------------
(* The actions *)

LEMMA Behind ==
  ASSUME NEW n, Len(kids(n)) \in Nat, NEW i \in 0 .. Len(kids(n))
  PROVE  /\ After(n, i) \in 0 .. Len(kids(n))
         /\ After(n, i) # 0 => After(n, i) = i + 1
  BY DEF After

LEMMA Descends ==
  ASSUME prog \in Programs, ShapeOK, stack # << >>, kind(this) \notin {"list", "compound"},
         NEW i \in 0 .. Len(kids(this)), Descend(i)
  PROVE  ShapeOK'
  <1>1. prog' = prog
    BY DEF Descend, same
  <1>2. CASE i = 0
    <2>1. Return /\ Keeps
      BY <1>1, <1>2, Unvisited DEF Descend
    <2> QED
      BY <2>1, Returns
  <1>3. CASE i # 0
    <2> DEFINE f == [Top EXCEPT !.at = "next"]
    <2>1. Call(kids(this)[i], f) /\ Visit(this, i)
      BY <1>3 DEF Descend
    <2>2. i \in 1 .. Len(kids(this)) /\ this \in 1 .. Len(prog.kind) /\ this >= this
      BY <1>3, OnTop
    <2>3. Keeps
      BY <1>1, <2>1, <2>2, Visited
    <2>4. kids(this)[i] \in 1 .. Len(prog.kind) /\ kids(this)[i] > this
      BY <2>2, OnTop
    <2>5. f \in FrameSet(prog) /\ f.n = this /\ f.at = "next"
      BY OnTop DEF FrameSet, Places, this
    <2> HIDE DEF f
    <2>6. FrameOK(prog, lru_child', f)
      BY <2>5 DEF FrameOK, kind
    <2> QED
      BY <2>1, <2>3, <2>4, <2>5, <2>6, Calls
  <1> QED
    BY <1>2, <1>3

LEMMA Simple1 ==
  ASSUME prog \in Programs, ShapeOK,
         \/ ExecuteChildren \/ ExecuteAndIf \/ ExecuteOrIf \/ ExecuteBang
         \/ ExecuteSimple \/ ExecuteNothing \/ SubshellForkFails \/ SubshellWait \/ IfEnd
  PROVE  ShapeOK'
  <1>1. CASE ExecuteChildren \/ ExecuteAndIf \/ ExecuteOrIf \/ (ExecuteBang /\ Top.at = "enter")
    <2>1. stack # << >> /\ kind(this) \notin {"list", "compound"}
      BY <1>1 DEF ExecuteChildren, ExecuteAndIf, ExecuteOrIf, ExecuteBang, At
    <2>2. 0 \in 0 .. Len(kids(this)) /\ lru_child[this] \in 0 .. Len(kids(this)) /\ Len(kids(this)) \in Nat
      BY <2>1, OnTop
    <2>3. Enters \in 0 .. Len(kids(this)) /\ After(this, 0) \in 0 .. Len(kids(this))
      BY <2>2, Behind DEF Enters
    <2>4. \E i \in 0 .. Len(kids(this)) : Descend(i)
      BY <1>1, <2>2, <2>3 DEF ExecuteChildren, ExecuteAndIf, ExecuteOrIf, ExecuteBang, At
    <2> QED
      BY <2>1, <2>4, Descends
  <1>2. CASE \/ ExecuteSimple \/ ExecuteNothing \/ SubshellForkFails \/ SubshellWait \/ IfEnd
             \/ (ExecuteBang /\ Top.at # "enter")
    <2>1. stack # << >> /\ Return /\ lru_child' = lru_child /\ prog' = prog
      BY <1>2 DEF ExecuteSimple, ExecuteNothing, SubshellForkFails, SubshellWait, IfEnd, ExecuteBang, At, same
    <2> QED
      BY <2>1, Unvisited, Returns
  <1> QED
    BY <1>1, <1>2

LEMMA List1 ==
  ASSUME prog \in Programs, ShapeOK, background \in BOOLEAN, ExecuteList
  PROVE  ShapeOK'
  <1> DEFINE amp(t) == t # 0 /\ kind(kids(this)[t]) = "&"
             i == IF Top.at = "enter" THEN After(this, 0) ELSE Top.t
             t == After(this, i)
             flag == IF Top.at = "next" /\ amp(i) THEN Top.b ELSE background
             f == [Top EXCEPT !.at = "next", !.t = t, !.b = flag]
  <1>1. stack # << >> /\ kind(this) \in {"list", "compound"} /\ Top.at \in {"enter", "next"} /\ prog' = prog
    BY DEF ExecuteList, At, same
  <1>2. /\ Len(kids(this)) \in Nat /\ this \in 1 .. Len(prog.kind) /\ this >= this
        /\ Top \in FrameSet(prog) /\ FrameOK(prog, lru_child, Top)
    BY <1>1, OnTop
  <1>3. i \in 0 .. Len(kids(this)) /\ t \in 0 .. Len(kids(this))
    <2>1. CASE Top.at = "enter"
      BY <1>2, <2>1, Behind
    <2>2. CASE Top.at # "enter"
      <3>1. i = Top.t /\ i \in Nat /\ i <= Len(kids(this))
        BY <1>1, <1>2, <2>2 DEF FrameOK, FrameSet, kids, kind, this
      <3> QED
        BY <1>2, <3>1, Behind
    <2> QED
      BY <2>1, <2>2
  <1>4. CASE i = 0
    <2>1. Return /\ lru_child' = lru_child
      BY <1>4 DEF ExecuteList
    <2> QED
      BY <1>1, <2>1, Unvisited, Returns
  <1>5. CASE i # 0
    <2>1. Visit(this, IF t = 0 THEN i ELSE t) /\ Call(kids(this)[i], f)
      BY <1>5 DEF ExecuteList
    <2>2. (IF t = 0 THEN i ELSE t) \in 0 .. Len(kids(this)) /\ i \in 1 .. Len(kids(this)) /\ t \in Nat
      BY <1>2, <1>3, <1>5
    <2> HIDE DEF i, t
    <2>3. Keeps
      BY <1>1, <1>2, <2>1, <2>2, Visited
    <2>4. kids(this)[i] \in 1 .. Len(prog.kind) /\ kids(this)[i] > this
      BY <1>1, <2>2, OnTop
    <2>5. f \in FrameSet(prog) /\ f.n = this /\ f.at = "next" /\ f.t = t
      <3>1. flag \in BOOLEAN
        BY <1>2 DEF FrameSet
      <3> HIDE DEF flag
      <3> QED
        BY <1>2, <2>2, <3>1 DEF FrameSet, Places, this
    <2> HIDE DEF f
    <2>6. FrameOK(prog, lru_child', f)
      BY <1>3, <2>5 DEF FrameOK, kids
    <2> QED
      BY <1>1, <2>1, <2>3, <2>4, <2>5, <2>6, Calls
  <1> QED
    BY <1>4, <1>5

LEMMA Subshells ==
  ASSUME prog \in Programs, ShapeOK, SubshellParent \/ SubshellChild
  PROVE  ShapeOK'
  <1>1. /\ stack # << >> /\ kind(this) = "subshell" /\ prog' = prog
        /\ Top \in FrameSet(prog) /\ this \in 1 .. Len(prog.kind) /\ this >= this
    BY OnTop DEF SubshellParent, SubshellChild, At, same
  <1>2. CASE SubshellParent
    <2> DEFINE f == [Top EXCEPT !.at = "wait"]
    <2>1. Goto(f) /\ Keeps
      BY <1>1, <1>2, Unvisited DEF SubshellParent
    <2>2. f \in FrameSet(prog) /\ f.n = this /\ f.at = "wait"
      BY <1>1 DEF FrameSet, Places, this
    <2> HIDE DEF f
    <2>3. FrameOK(prog, lru_child', f)
      BY <2>2 DEF FrameOK
    <2> QED
      BY <1>1, <2>1, <2>2, <2>3, Goes
  <1>3. CASE SubshellChild
    <2> DEFINE f == [Top EXCEPT !.at = "next"]
               g == Frame(kids(this)[1])
    <2>1. stack' = <<g, f>> /\ Visit(this, 1)
      BY <1>3 DEF SubshellChild
    <2>2. 1 \in 0 .. Len(kids(this)) /\ 1 \in 1 .. Len(kids(this))
      <3>1. Len(kids(this)) >= 1
        BY <1>1, Shapes DEF kids, kind
      <3>2. Len(kids(this)) \in Nat
        BY <1>1, OnTop
      <3> QED
        BY <3>1, <3>2
    <2>3. Keeps
      BY <1>1, <2>1, <2>2, Visited
    <2>4. kids(this)[1] \in 1 .. Len(prog.kind) /\ kids(this)[1] > this
      BY <1>1, <2>2, OnTop
    <2>5. f \in FrameSet(prog) /\ f.n = this /\ f.at = "next"
      BY <1>1 DEF FrameSet, Places, this
    <2>6. g \in FrameSet(prog) /\ g.n = kids(this)[1] /\ g.at = "enter"
      BY <2>4 DEF FrameSet, Places, Frame
    <2> HIDE DEF f, g
    <2>7. FrameOK(prog, lru_child', f) /\ FrameOK(prog, lru_child', g)
      BY <1>1, <2>5, <2>6 DEF FrameOK, kind
    <2>8. /\ <<g, f>> \in Seq(FrameSet(prog)) /\ DOMAIN <<g, f>> = {1, 2}
          /\ <<g, f>>[1] = g /\ <<g, f>>[2] = f
      BY <2>5, <2>6
    <2>9. \A i \in DOMAIN <<g, f>> : FrameOK(prog, lru_child', <<g, f>>[i])
      BY <2>7, <2>8
    <2>10. Descending(<<g, f>>)
      BY <2>4, <2>5, <2>6, <2>8 DEF Descending
    <2> QED
      BY <2>1, <2>3, <2>8, <2>9, <2>10 DEF ShapeOK, StackOK, Keeps
  <1> QED
    BY <1>2, <1>3

LEMMA Fors ==
  ASSUME prog \in Programs, ShapeOK,
         ForIn \/ ForWord \/ ForValue \/ ForArgs
  PROVE  ShapeOK'
  <1> DEFINE ks == kids(this)
  <1>1. /\ stack # << >> /\ kind(this) = "for" /\ prog' = prog
        /\ Top \in FrameSet(prog) /\ this \in 1 .. Len(prog.kind) /\ this >= this
        /\ Len(ks) \in Nat /\ Len(ks) >= 2 /\ (kind(ks[2]) = "in" => Len(ks) >= 3)
        /\ lru_child[this] \in 0 .. Len(ks) /\ FrameOK(prog, lru_child, Top)
        /\ Top.q \in Nat /\ Top.t \in Nat /\ prog.kind[this] = "for"
    <2>1. stack # << >> /\ kind(this) = "for" /\ prog' = prog
      BY DEF ForIn, ForWord, ForValue, ForArgs, At, same
    <2>2. /\ this \in 1 .. Len(prog.kind) /\ Len(ks) \in Nat
          /\ lru_child[this] \in 0 .. Len(ks) /\ Top \in FrameSet(prog) /\ FrameOK(prog, lru_child, Top)
      BY <2>1, OnTop
    <2>3. Len(ks) >= 2 /\ (kind(ks[2]) = "in" => Len(ks) >= 3)
      BY <2>1, <2>2, Shapes DEF kids, kind
    <2> QED
      BY <2>1, <2>2, <2>3 DEF FrameSet, kind
  \* The frames these actions leave behind, and a call for the do-group.
  <1>2. ASSUME NEW f \in FrameSet(prog), f.n = this,
               f.at \in {"word", "value"}, f.t <= Len(ks), f.t > 0, NEW l
        PROVE  FrameOK(prog, l, f)
    BY <1>1, <1>2 DEF FrameOK, kids, kind
  <1>3. ASSUME NEW f \in FrameSet(prog), f.n = this, FrameOK(prog, lru_child', f), Keeps,
               Top.t > 0, Top.t <= Len(ks), Call(ks[Top.t], f)
        PROVE  ShapeOK'
    <2>1. Top.t \in 1 .. Len(ks)
      BY <1>1, <1>3
    <2>2. ks[Top.t] \in 1 .. Len(prog.kind) /\ ks[Top.t] > this
      BY <1>1, <2>1, OnTop
    <2> QED
      BY <1>1, <1>3, <2>2, Calls
  <1>4. CASE ForIn
    <2> DEFINE groups == {i \in 4 .. Len(ks) : kind(ks[i]) = "compound"}
               f == [Top EXCEPT !.at = "word", !.t = Min(groups)]
    <2>1. CASE groups = {}
      <3>1. Return /\ Visit(this, Len(ks))
        BY <1>4, <2>1 DEF ForIn
      <3>2. Keeps
        BY <1>1, <3>1, Visited
      <3> QED
        BY <1>1, <3>1, <3>2, Returns
    <2>2. CASE groups # {}
      <3>1. Goto(f) /\ Visit(this, 3) /\ kind(ks[2]) = "in"
        BY <1>4, <2>2 DEF ForIn
      <3>2. groups \in SUBSET Nat
        BY <1>1
      <3>3. Min(groups) \in groups
        BY <2>2, <3>2, MinOf
      <3>4. Min(groups) \in Nat /\ Min(groups) <= Len(ks) /\ Min(groups) > 0
        BY <1>1, <3>3
      <3> HIDE DEF groups
      <3>5. Keeps
        BY <1>1, <3>1, Visited
      <3>6. f \in FrameSet(prog) /\ f.n = this /\ f.at = "word" /\ f.t = Min(groups)
        BY <1>1, <3>4 DEF FrameSet, Places, this
      <3> HIDE DEF f
      <3> QED
        BY <1>1, <1>2, <3>1, <3>4, <3>5, <3>6, Goes
    <2> QED
      BY <2>1, <2>2
  <1>5. CASE ForWord
    <2>1. Top.at = "word" /\ Keeps
      BY <1>1, <1>5, Unvisited DEF ForWord, At
    <2>2. Top.t > 0 /\ Top.t <= Len(ks)
      BY <1>1, <2>1 DEF FrameOK, kids, this
    <2>3. CASE lru_child[this] = Top.t
      BY <1>1, <1>5, <2>1, <2>3, Returns DEF ForWord
    <2>4. CASE lru_child[this] # Top.t
      <3>1. PICK q \in 0 .. MaxMatches :
              LET f == [Top EXCEPT !.at = "value", !.q = q]
              IN  IF q = 0 THEN Call(ks[Top.t], f) ELSE Goto(f)
        BY <1>5, <2>4 DEF ForWord
      <3> DEFINE f == [Top EXCEPT !.at = "value", !.q = q]
      <3>q. q \in Nat
        BY BoundsAssumption
      <3>2. f \in FrameSet(prog) /\ f.n = this /\ f.at = "value" /\ f.t = Top.t
        BY <1>1, <3>q DEF FrameSet, Places, this
      <3>3. Call(ks[Top.t], f) \/ Goto(f)
        BY <3>1
      <3> HIDE DEF f
      <3>4. FrameOK(prog, lru_child', f)
        BY <1>2, <2>2, <3>2
      <3> QED
        BY <1>1, <1>3, <2>1, <2>2, <3>2, <3>3, <3>4, Goes
    <2> QED
      BY <2>3, <2>4
  <1>6. CASE ForValue
    <2>1. Top.at = "value"
      BY <1>6 DEF ForValue, At
    <2>2. Top.t > 0 /\ Top.t <= Len(ks)
      BY <1>1, <2>1 DEF FrameOK, kids, this
    <2>3. CASE Top.q = 0
      <3> DEFINE f == [Top EXCEPT !.at = "word"]
      <3>1. Visit(this, After(this, lru_child[this])) /\ Goto(f)
        BY <1>6, <2>3 DEF ForValue
      <3>2. Keeps
        BY <1>1, <3>1, Behind, Visited
      <3>3. f \in FrameSet(prog) /\ f.n = this /\ f.at = "word" /\ f.t = Top.t
        BY <1>1 DEF FrameSet, Places, this
      <3> HIDE DEF f
      <3> QED
        BY <1>1, <1>2, <2>2, <3>1, <3>2, <3>3, Goes
    <2>4. CASE Top.q # 0
      <3> DEFINE f == [Top EXCEPT !.q = @ - 1]
      <3>1. Call(ks[Top.t], f) /\ Keeps
        BY <1>1, <1>6, <2>4, Unvisited DEF ForValue
      <3>2. f \in FrameSet(prog) /\ f.n = this /\ f.at = "value" /\ f.t = Top.t
        BY <1>1, <2>1, <2>4 DEF FrameSet, Places, this
      <3> HIDE DEF f
      <3> QED
        BY <1>1, <1>2, <1>3, <2>2, <3>1, <3>2
    <2> QED
      BY <2>3, <2>4
  <1>7. CASE ForArgs
    <2> DEFINE t == After(this, 2)
    <2>1. Visit(this, IF t = 0 THEN 2 ELSE t) /\ Return
      BY <1>7 DEF ForArgs
    <2>2. t \in 0 .. Len(ks) /\ 2 \in 0 .. Len(ks)
      BY <1>1, Behind
    <2> HIDE DEF t
    <2>3. Keeps
      BY <1>1, <2>1, <2>2, Visited
    <2> QED
      BY <1>1, <2>1, <2>3, Returns
  <1> QED
    BY <1>4, <1>5, <1>6, <1>7

LEMMA VisitedBoth ==
  ASSUME prog \in Programs, ShapeOK, stack # << >>, prog' = prog,
         NEW i \in 0 .. Len(kids(this)),
         NEW n \in 1 .. Len(prog.kind), n > this, NEW j \in 0 .. Len(kids(n)),
         lru_child' = [lru_child EXCEPT ![this] = i, ![n] = j]
  PROVE  Keeps /\ lru_child'[this] = i
  <1>1. lru_child \in [1 .. Len(prog.kind) -> Nat]
    BY DEF ShapeOK, Iterators
  <1>2. /\ i \in Nat /\ i <= Len(prog.kids[this]) /\ this \in 1 .. Len(prog.kind)
        /\ j \in Nat /\ j <= Len(prog.kids[n])
    BY OnTop DEF kids
  <1>3. lru_child' \in Iterators(prog)
    BY <1>1, <1>2 DEF ShapeOK, Iterators
  <1>4. OthersKept(prog, lru_child, lru_child', this) /\ lru_child'[this] = i
    BY <1>1, <1>2 DEF OthersKept
  <1> QED
    BY <1>3, <1>4 DEF Keeps

LEMMA Cases ==
  ASSUME prog \in Programs, ShapeOK, ExecuteCase \/ CaseCrash \/ CaseBody
  PROVE  ShapeOK'
  <1> DEFINE ks == kids(this)
  <1>1. /\ stack # << >> /\ kind(this) = "case" /\ prog' = prog
        /\ Top \in FrameSet(prog) /\ this \in 1 .. Len(prog.kind)
        /\ Len(ks) \in Nat /\ FrameOK(prog, lru_child, Top)
    BY OnTop DEF ExecuteCase, CaseCrash, CaseBody, At, same
  <1>2. CASE ExecuteCase
    <2>1. PICK hits \in SUBSET CaseItems :
            IF hits = {} THEN Return /\ Visit(this, Len(ks))
            ELSE LET i == Min(hits)
                 IN  /\ lru_child' = [lru_child EXCEPT ![this] = i, ![ks[i]] = 1]
                     /\ Goto([Top EXCEPT !.at = "body"])
      BY <1>2 DEF ExecuteCase
    <2>2. CASE hits = {}
      <3>1. Keeps
        BY <1>1, <2>1, <2>2, Visited
      <3> QED
        BY <1>1, <2>1, <2>2, <3>1, Returns
    <2>3. CASE hits # {}
      <3> DEFINE i == Min(hits)
                 f == [Top EXCEPT !.at = "body"]
      <3>1. lru_child' = [lru_child EXCEPT ![this] = i, ![ks[i]] = 1] /\ Goto(f)
        BY <2>1, <2>3
      <3>2. hits \in SUBSET Nat /\ i \in hits
        <4>1. hits \in SUBSET Nat
          BY <1>1 DEF CaseItems
        <4> QED
          BY <2>3, <4>1, MinOf
      <3> HIDE DEF i
      <3>3. i \in 1 .. Len(ks) /\ kind(ks[i]) = "caseitem" /\ i \in 0 .. Len(ks) /\ i > 0 /\ i <= Len(ks)
        <4>1. i \in CaseItems
          BY <3>2
        <4>2. i \in 3 .. Len(ks) /\ kind(ks[i]) = "caseitem"
          BY <4>1 DEF CaseItems
        <4> QED
          BY <1>1, <4>2
      <3>4. ks[i] \in 1 .. Len(prog.kind) /\ ks[i] > this
        BY <1>1, <3>3, OnTop
      <3>5. 1 \in 0 .. Len(kids(ks[i]))
        <4>1. Len(kids(ks[i])) >= 1
          BY <3>3, <3>4, Shapes DEF kind, kids
        <4>2. Len(kids(ks[i])) \in Nat
          BY <1>1, <3>4, OnTop
        <4> QED
          BY <4>1, <4>2
      <3>6. Keeps /\ lru_child'[this] = i
        BY <1>1, <3>1, <3>3, <3>4, <3>5, VisitedBoth
      <3>7. f \in FrameSet(prog) /\ f.n = this /\ f.at = "body"
        BY <1>1 DEF FrameSet, Places, this
      <3> HIDE DEF f
      <3>8. FrameOK(prog, lru_child', f)
        BY <3>3, <3>6, <3>7 DEF FrameOK, kids, kind
      <3> QED
        BY <1>1, <3>1, <3>6, <3>7, <3>8, Goes
    <2> QED
      BY <2>2, <2>3
  <1>3. CASE CaseCrash
    <2>1. stack' = << >> /\ lru_child' = lru_child
      BY <1>3 DEF CaseCrash
    <2>2. StackOK(prog, lru_child, << >>)
      BY DEF StackOK, Descending
    <2> QED
      BY <1>1, <2>1, <2>2 DEF ShapeOK
  <1>4. CASE CaseBody
    <2> DEFINE m == ks[lru_child[this]]
               i == After(m, lru_child[m])
    <2>1. Top.at = "body" /\ (IF i = 0 THEN Return /\ UNCHANGED lru_child
                              ELSE Call(kids(m)[i], Top) /\ Visit(m, i))
      BY <1>4 DEF CaseBody, At
    <2>2. lru_child[this] > 0 /\ lru_child[this] <= Len(ks) /\ kind(m) = "caseitem"
      BY <1>1, <2>1 DEF FrameOK, kids, kind, this
    <2>3. lru_child[this] \in 1 .. Len(ks)
      BY <1>1, <2>2, OnTop
    <2>4. m \in 1 .. Len(prog.kind) /\ m > this /\ m >= this /\ this \in Nat
      BY <1>1, <2>3, OnTop
    <2> HIDE DEF m
    <2>5. lru_child[m] \in 0 .. Len(kids(m)) /\ Len(kids(m)) \in Nat
      BY <1>1, <2>4, OnTop
    <2>6. i \in 0 .. Len(kids(m))
      BY <2>5, Behind
    <2> HIDE DEF i
    <2>7. CASE i = 0
      BY <1>1, <2>1, <2>7, Unvisited, Returns
    <2>8. CASE i # 0
      <3>1. Call(kids(m)[i], Top) /\ Visit(m, i) /\ i \in 1 .. Len(kids(m))
        BY <2>1, <2>5, <2>6, <2>8
      <3>2. Keeps
        BY <1>1, <2>4, <2>6, <3>1, Visited
      <3>3. kids(m)[i] \in 1 .. Len(prog.kind) /\ kids(m)[i] > m
        BY <1>1, <2>4, <3>1, OnTop
      <3>4. kids(m)[i] > this /\ Top.n = this
        BY <2>4, <3>3 DEF this
      <3>5. lru_child'[this] = lru_child[this]
        BY <1>1, <2>4, <3>1 DEF Visit, ShapeOK, Iterators
      <3>6. FrameOK(prog, lru_child', Top)
        BY <1>1, <3>4, <3>5 DEF FrameOK
      <3> QED
        BY <1>1, <3>1, <3>2, <3>3, <3>4, <3>6, Calls
    <2> QED
      BY <2>7, <2>8
  <1> QED
    BY <1>2, <1>3, <1>4

LEMMA Conditions ==
  ASSUME prog \in Programs, ShapeOK,
         ExecuteCondition \/ IfCondition \/ LoopCondition \/ LoopBody
  PROVE  ShapeOK'
  <1> DEFINE ks == kids(this)
  <1>1. /\ stack # << >> /\ prog.kind[this] \in {"if", "while", "until"} /\ prog' = prog
        /\ Top \in FrameSet(prog) /\ this \in 1 .. Len(prog.kind) /\ this \in Nat
        /\ Len(ks) \in Nat /\ Len(ks) >= 2 /\ FrameOK(prog, lru_child, Top)
    <2>1. stack # << >> /\ kind(this) \in {"if", "while", "until"} /\ prog' = prog
      BY DEF ExecuteCondition, IfCondition, LoopCondition, LoopBody, At, same
    <2>2. /\ Top \in FrameSet(prog) /\ this \in 1 .. Len(prog.kind)
          /\ Len(ks) \in Nat /\ FrameOK(prog, lru_child, Top)
      BY <2>1, OnTop
    <2>3. Len(ks) >= 2
      BY <2>1, <2>2, Shapes DEF kind, kids
    <2> QED
      BY <2>1, <2>2, <2>3 DEF kind
  <1>2. ASSUME NEW n \in 1 .. Len(prog.kind), NEW i \in 1 .. 2, i <= Len(kids(n))
        PROVE  kids(n)[i] \in 1 .. Len(prog.kind) /\ kids(n)[i] > n
    <2>1. Len(kids(n)) \in Nat
      BY <1>1, OnTop
    <2>2. i \in 1 .. Len(kids(n))
      BY <1>2, <2>1
    <2> QED
      BY <1>1, <2>2, OnTop
  <1>3. CASE ExecuteCondition
    <2> DEFINE f == [Top EXCEPT !.at = "cond"]
    <2>1. Visit(this, 2) /\ Call(ks[1], f)
      BY <1>3 DEF ExecuteCondition
    <2>2. 2 \in 0 .. Len(ks) /\ this >= this
      BY <1>1
    <2>3. Keeps /\ lru_child'[this] = 2
      BY <1>1, <2>1, <2>2, Visited
    <2>4. f \in FrameSet(prog) /\ f.n = this /\ f.at = "cond"
      BY <1>1 DEF FrameSet, Places, this
    <2> HIDE DEF f
    <2>5. FrameOK(prog, lru_child', f)
      BY <1>1, <2>3, <2>4 DEF FrameOK, kids
    <2> QED
      BY <1>1, <1>2, <2>1, <2>3, <2>4, <2>5, Calls
  <1>4. CASE LoopCondition \/ LoopBody
    <2>1. Keeps /\ kind(this) \in {"while", "until"}
      BY <1>1, <1>4, Unvisited DEF LoopCondition, LoopBody, At
    <2> DEFINE f(at) == [Top EXCEPT !.at = at]
    <2>2. Return \/ \E i \in 1 .. 2 : \E at \in {"cond", "body"} : Call(ks[i], f(at))
      BY <1>4 DEF LoopCondition, LoopBody
    <2>3. CASE Return
      BY <1>1, <2>1, <2>3, Returns
    <2>4. ASSUME NEW i \in 1 .. 2, NEW at \in {"cond", "body"}, Call(ks[i], f(at))
          PROVE  ShapeOK'
      <3>1. f(at) \in FrameSet(prog) /\ f(at).n = this /\ f(at).at = at
        BY <1>1 DEF FrameSet, Places, this
      <3> HIDE DEF f
      <3>2. FrameOK(prog, lru_child', f(at))
        BY <2>1, <3>1 DEF FrameOK, kind
      <3>3. ks[i] \in 1 .. Len(prog.kind) /\ ks[i] > this
        BY <1>1, <1>2
      <3> QED
        BY <1>1, <2>1, <2>4, <3>1, <3>2, <3>3, Calls
    <2> QED
      BY <2>2, <2>3, <2>4
  <1>5. CASE IfCondition
    <2> DEFINE here == lru_child[this]
               clause == IF here = 2 THEN this ELSE ks[here]
               i == After(this, here)
               part == ks[i]
               elif == kind(part) = "elif"
    <2>1. Top.at = "cond" /\ kind(this) = "if"
      BY <1>5 DEF IfCondition, At
    <2>2. here >= 2 /\ here <= Len(ks) /\ (here = 2 \/ kind(ks[here]) = "elif")
      BY <1>1, <2>1 DEF FrameOK, kids, kind, this
    <2>3. here \in 1 .. Len(ks) /\ here \in 0 .. Len(ks)
      BY <1>1, <2>2, OnTop
    <2>4. i \in 0 .. Len(ks) /\ (i # 0 => i = here + 1)
      BY <1>1, <2>3, Behind
    <2>5. CASE last_res = 0
      <3> DEFINE f == [Top EXCEPT !.at = "end"]
      <3>1. Call(kids(clause)[2], f) /\ Keeps
        BY <1>1, <1>5, <2>5, Unvisited DEF IfCondition
      <3>2. clause \in 1 .. Len(prog.kind) /\ clause >= this /\ Len(kids(clause)) >= 2
        <4>1. CASE here = 2
          BY <1>1, <4>1
        <4>2. CASE here # 2
          <5>1. clause = ks[here] /\ kind(clause) = "elif"
            BY <2>2, <4>2
          <5>2. clause \in 1 .. Len(prog.kind) /\ clause > this
            BY <1>1, <2>3, <5>1, OnTop
          <5>3. Len(kids(clause)) >= 2
            BY <5>1, <5>2, Shapes DEF kind, kids
          <5> QED
            BY <1>1, <5>2, <5>3
        <4> QED
          BY <4>1, <4>2
      <3> HIDE DEF clause
      <3>3. kids(clause)[2] \in 1 .. Len(prog.kind) /\ kids(clause)[2] > clause
        BY <1>2, <3>2
      <3>4. kids(clause)[2] > this
        BY <1>1, <3>2, <3>3
      <3>5. f \in FrameSet(prog) /\ f.n = this /\ f.at = "end"
        BY <1>1 DEF FrameSet, Places, this
      <3> HIDE DEF f
      <3>6. FrameOK(prog, lru_child', f)
        BY <3>5 DEF FrameOK
      <3> QED
        BY <1>1, <3>1, <3>3, <3>4, <3>5, <3>6, Calls
    <2>6. CASE last_res # 0 /\ i = 0
      BY <1>1, <1>5, <2>6, Unvisited, Returns DEF IfCondition
    <2>7. CASE last_res # 0 /\ i # 0
      <3> DEFINE at == IF elif THEN "cond" ELSE "end"
                 f == [Top EXCEPT !.at = at]
                 j == IF elif THEN 2 ELSE 1
      <3>1. lru_child' = [lru_child EXCEPT ![this] = i, ![part] = j] /\ Call(kids(part)[1], f)
        BY <1>5, <2>7 DEF IfCondition
      <3>2. i \in 3 .. Len(ks) /\ i \in 1 .. Len(ks) /\ i >= 2 /\ i <= Len(ks)
        BY <1>1, <2>2, <2>3, <2>4, <2>7
      <3>3. part \in 1 .. Len(prog.kind) /\ part > this
        BY <1>1, <3>2, OnTop
      <3>4. kind(part) \in {"elif", "else"}
        BY <1>1, <2>1, <3>2, Shapes DEF kind, kids
      <3>5. Len(kids(part)) >= 1 /\ (elif => Len(kids(part)) >= 2) /\ Len(kids(part)) \in Nat
        <4>1. Len(kids(part)) \in Nat
          BY <1>1, <3>3, OnTop
        <4>2. /\ prog.kind[part] = "elif" => Len(prog.kids[part]) >= 2
              /\ prog.kind[part] = "else" => Len(prog.kids[part]) >= 1
          BY <3>3, Shapes
        <4> QED
          BY <3>4, <4>1, <4>2 DEF kind, kids
      <3>6. j \in 0 .. Len(kids(part))
        BY <3>5
      <3> HIDE DEF i, j
      <3>7. Keeps /\ lru_child'[this] = i
        BY <1>1, <2>4, <3>1, <3>3, <3>6, VisitedBoth
      <3>8. f \in FrameSet(prog) /\ f.n = this /\ f.at = at
        BY <1>1 DEF FrameSet, Places, this
      <3> HIDE DEF f
      <3>9. FrameOK(prog, lru_child', f)
        BY <3>2, <3>7, <3>8 DEF FrameOK, kids, kind
      <3>10. kids(part)[1] \in 1 .. Len(prog.kind) /\ kids(part)[1] > part
        BY <1>2, <3>3, <3>5
      <3>11. kids(part)[1] > this
        BY <1>1, <3>3, <3>10
      <3> QED
        BY <1>1, <3>1, <3>7, <3>8, <3>9, <3>10, <3>11, Calls
    <2> QED
      BY <2>5, <2>6, <2>7
  <1> QED
    BY <1>3, <1>4, <1>5

-----------------------------------------------------------------------------
(* The invariant *)

LEMMA StepShape ==
  ASSUME ExecInv, [Next]_vars
  PROVE  ShapeOK'
  <1>1. prog \in Programs /\ ShapeOK /\ background \in BOOLEAN
    BY DEF ExecInv, OthersOK
  <1>2. CASE \/ ExecuteChildren \/ ExecuteAndIf \/ ExecuteOrIf \/ ExecuteBang
             \/ ExecuteSimple \/ ExecuteNothing \/ SubshellForkFails \/ SubshellWait \/ IfEnd
    BY <1>1, <1>2, Simple1
  <1>3. CASE ExecuteList
    BY <1>1, <1>3, List1
  <1>4. CASE SubshellParent \/ SubshellChild
    BY <1>1, <1>4, Subshells
  <1>5. CASE ForIn \/ ForWord \/ ForValue \/ ForArgs
    BY <1>1, <1>5, Fors
  <1>6. CASE ExecuteCase \/ CaseCrash \/ CaseBody
    BY <1>1, <1>6, Cases
  <1>7. CASE ExecuteCondition \/ IfCondition \/ LoopCondition \/ LoopBody
    BY <1>1, <1>7, Conditions
  <1>8. CASE UNCHANGED vars
    BY <1>1, <1>8 DEF vars, ShapeOK
  <1> QED
    BY <1>2, <1>3, <1>4, <1>5, <1>6, <1>7, <1>8 DEF Next

\* The log grows by one input at a time.
LEMMA Logged ==
  ASSUME IsSeq(log), Len(log) <= MaxLog,
         \/ log' = log \/ log' = << >>
         \/ \E what, val, res : Log(what, val, res)
  PROVE  IsSeq(log') /\ Len(log') <= MaxLog
  <1>0. MaxLog \in Nat
    BY BoundsAssumption
  <1>1. CASE log' = log
    BY <1>1
  <1>2. CASE log' = << >>
    <2>1. << >> \in Seq({})
      OBVIOUS
    <2> QED
      BY <1>0, <1>2, <2>1 DEF IsSeq
  <1>3. ASSUME NEW what, NEW val, NEW res, Log(what, val, res)
        PROVE  IsSeq(log') /\ Len(log') <= MaxLog
    <2> DEFINE e == [what |-> what, n |-> this, val |-> val, bg |-> background,
                     item |-> item, res |-> res]
    <2>1. Len(log) < MaxLog /\ log' = Append(log, e)
      BY <1>3 DEF Log
    <2>2. PICK S : log \in Seq(S)
      BY DEF IsSeq
    <2> HIDE DEF e
    <2> DEFINE T == S \cup {e}
    <2>3. log \in Seq(T) /\ e \in T
      BY <2>2
    <2> HIDE DEF T
    <2>4. log' \in Seq(T) /\ Len(log') = Len(log) + 1 /\ Len(log) \in Nat
      BY <2>1, <2>3, AppendProperties, LenProperties
    <2> QED
      BY <1>0, <2>1, <2>4 DEF IsSeq
  <1> QED
    BY <1>1, <1>2, <1>3

LEMMA StepOthers ==
  ASSUME ExecInv, [Next]_vars
  PROVE  prog' \in Programs /\ OthersOK'
  <1> USE DEF ExecInv, OthersOK
  <1>1. /\ prog' = prog
        /\ start' = start \/ SubshellChild
        /\ background' = background \/ ExecuteList
    BY DEF Next, vars, same, Descend, ExecuteChildren, ExecuteAndIf, ExecuteOrIf, ExecuteBang,
           ExecuteList, ExecuteSimple, ExecuteNothing, SubshellForkFails, SubshellParent,
           SubshellChild, SubshellWait, ForIn, ForWord, ForValue, ForArgs, ExecuteCase,
           CaseCrash, CaseBody, ExecuteCondition, IfCondition, IfEnd, LoopCondition, LoopBody
  <1>2. last_res' \in 0 .. 255
    <2>1. last_res' \in {last_res, 0, 1} \cup Results
      BY DEF Next, vars, same, Descend, ExecuteChildren, ExecuteAndIf, ExecuteOrIf, ExecuteBang,
             ExecuteList, ExecuteSimple, ExecuteNothing, SubshellForkFails, SubshellParent,
             SubshellChild, SubshellWait, ForIn, ForWord, ForValue, ForArgs, ExecuteCase,
             CaseCrash, CaseBody, ExecuteCondition, IfCondition, IfEnd, LoopCondition, LoopBody
    <2> QED
      BY <2>1, ResultsAssumption
  <1>3. reported' \subseteq Messages
    BY DEF Messages, Report, Next, vars, same, Descend, ExecuteChildren, ExecuteAndIf, ExecuteOrIf,
           ExecuteBang, ExecuteList, ExecuteSimple, ExecuteNothing, SubshellForkFails, SubshellParent,
           SubshellChild, SubshellWait, ForIn, ForWord, ForValue, ForArgs, ExecuteCase,
           CaseCrash, CaseBody, ExecuteCondition, IfCondition, IfEnd, LoopCondition, LoopBody
  <1>4. IsSeq(log') /\ Len(log') <= MaxLog
    <2>1. log' = log \/ log' = << >> \/ \E what, val, res : Log(what, val, res)
      BY Zenon
         DEF Next, vars, same, Descend, ExecuteChildren, ExecuteAndIf, ExecuteOrIf, ExecuteBang,
             ExecuteList, ExecuteSimple, ExecuteNothing, SubshellForkFails, SubshellParent,
             SubshellChild, SubshellWait, ForIn, ForWord, ForValue, ForArgs, ExecuteCase,
             CaseCrash, CaseBody, ExecuteCondition, IfCondition, IfEnd, LoopCondition, LoopBody
    <2> QED
      BY <2>1, Logged
  <1>5. background' \in BOOLEAN
    <2>1. CASE ExecuteList
      <3>1. stack # << >>
        BY <2>1 DEF ExecuteList, At
      <3>2. Top.b \in BOOLEAN
        BY <3>1, OnTop DEF FrameSet
      <3> QED
        BY <2>1, <3>2 DEF ExecuteList
    <2> QED
      BY <1>1, <2>1
  <1>6. start'.top \in Nodes /\ start'.res \in 0 .. 255
    <2>1. CASE SubshellChild
      <3>1. stack # << >>
        BY <2>1 DEF SubshellChild, At
      <3>2. this \in Nodes
        BY <3>1, OnTop
      <3> QED
        BY <2>1, <3>2 DEF SubshellChild
    <2> QED
      BY <1>1, <2>1
  <1>7. Nodes' = Nodes
    BY <1>1 DEF Nodes
  <1> QED
    BY <1>1, <1>2, <1>3, <1>4, <1>5, <1>6, <1>7

LEMMA InitInv == Init => ExecInv
  <1> SUFFICES ASSUME Init
               PROVE  ExecInv
    OBVIOUS
  <1>1. /\ prog \in Programs /\ stack = <<Frame(1)>> /\ lru_child = [n \in Nodes |-> 0]
        /\ last_res \in Results /\ background = FALSE
        /\ reported = {} /\ log = << >> /\ start.top = 1 /\ start.res = last_res
    BY DEF Init
  <1>2. /\ Len(prog.kind) \in Nat \ {0} /\ Nodes = 1 .. Len(prog.kind)
        /\ \A n \in 1 .. Len(prog.kind) : Len(prog.kids[n]) \in Nat
    BY <1>1, Nodes1 DEF Nodes
  <1>3. lru_child \in Iterators(prog)
    BY <1>1, <1>2 DEF Iterators
  <1>4. Frame(1) \in FrameSet(prog) /\ FrameOK(prog, lru_child, Frame(1))
    BY <1>2 DEF Frame, FrameSet, FrameOK, Places
  <1> DEFINE f == Frame(1)
  <1> HIDE DEF f
  <1>5. <<f>> \in Seq(FrameSet(prog)) /\ DOMAIN <<f>> = {1} /\ <<f>>[1] = f
    BY <1>4 DEF f
  <1>6. StackOK(prog, lru_child, <<f>>)
    BY <1>4, <1>5 DEF StackOK, Descending, f
  <1>7. ShapeOK
    BY <1>1, <1>3, <1>6 DEF ShapeOK, f
  <1>8. << >> \in Seq({}) /\ Len(<< >>) = 0
    OBVIOUS
  <1>9. IsSeq(log) /\ Len(log) <= MaxLog
    BY <1>1, <1>8, BoundsAssumption DEF IsSeq
  <1>10. last_res \in 0 .. 255
    BY <1>1, ResultsAssumption
  <1>11. start.top \in Nodes /\ start.res \in 0 .. 255 /\ background \in BOOLEAN /\ reported \subseteq Messages
    <2>1. 1 \in Nodes
      BY <1>2
    <2>2. background \in BOOLEAN
      BY <1>1
    <2>3. reported \subseteq Messages
      BY <1>1
    <2> QED
      BY <1>1, <1>10, <2>1, <2>2, <2>3
  <1>12. OthersOK
    BY <1>1, <1>9, <1>10, <1>11 DEF OthersOK
  <1> QED
    BY <1>1, <1>7, <1>12 DEF ExecInv

LEMMA StepInv == ExecInv /\ [Next]_vars => ExecInv'
  BY StepShape, StepOthers DEF ExecInv

LEMMA InvTypeOK == ExecInv => TypeOK
  <1> SUFFICES ASSUME ExecInv
               PROVE  TypeOK
    OBVIOUS
  <1>1. Nodes = 1 .. Len(prog.kind) /\ \A n \in Nodes : Len(kids(n)) \in Nat
    BY Nodes1 DEF ExecInv, Nodes, kids
  <1>2. stack \in Seq(Frames)
    BY <1>1 DEF ExecInv, ShapeOK, StackOK, FrameSet, Frames
  <1>3. \A n \in Nodes : lru_child[n] \in 0 .. Len(kids(n))
    BY <1>1 DEF ExecInv, ShapeOK, Iterators, kids
  <1> QED
    BY <1>2, <1>3 DEF ExecInv, OthersOK, TypeOK

\* On every tree of the parser's shapes, however calls, loops and forks follow one
\* another, execute only ever goes on with children that are there, iterators stay
\* within the children of their node, and $? is an exit status.
THEOREM ExecTypeCorrect == Spec => []TypeOK
  <1>1. Init => ExecInv
    BY InitInv
  <1>2. ExecInv /\ [Next]_vars => ExecInv'
    BY StepInv
  <1>3. ExecInv => TypeOK
    BY InvTypeOK
  <1> QED
    BY <1>1, <1>2, <1>3, PTL DEF Spec

-----------------------------------------------------------------------------
(* The background flag *)

\* BeforeAmp for any tree.
Amp(p, f) ==
  /\ p.kind[f.n] \in {"list", "compound"} /\ f.at = "next" /\ f.t # 0
  /\ p.kind[p.kids[f.n][f.t]] = "&"

\* What the flag is to be for the frames from k down; b is what the process began with.
Above(p, b, s, k) == b \/ \E i \in DOMAIN s : i >= k /\ Amp(p, s[i])

\* Each list has saved what is to be put back when its child returns.
Saved(p, b, s) == \A i \in DOMAIN s : Amp(p, s[i]) => (s[i].b <=> Above(p, b, s, i + 1))

Scoped(p, b, g, s) == (g <=> Above(p, b, s, 1)) /\ Saved(p, b, s)

FlagInv == "crash" \notin reported => Scoped(prog, start.background, background, stack)

\* Above its first frame, w is s moved by d places.
Moved(s, w, d) ==
  /\ \A i \in DOMAIN s : i >= 2 => i + d \in DOMAIN w /\ w[i + d] = s[i]
  /\ \A j \in DOMAIN w : j >= 2 + d => j - d \in DOMAIN s

LEMMA MovedAbove ==
  ASSUME NEW p, NEW b, NEW s, NEW w, NEW d \in Int, DOMAIN s \subseteq Nat, DOMAIN w \subseteq Nat,
         Moved(s, w, d), NEW k \in Nat, k >= 2
  PROVE  Above(p, b, w, k + d) <=> Above(p, b, s, k)
  <1>1. ASSUME NEW i \in DOMAIN s, i >= k, Amp(p, s[i])
        PROVE  \E j \in DOMAIN w : j >= k + d /\ Amp(p, w[j])
    <2>1. i \in Nat /\ i >= 2
      BY <1>1
    <2>2. i + d \in DOMAIN w /\ w[i + d] = s[i] /\ i + d >= k + d
      BY <1>1, <2>1 DEF Moved
    <2> QED
      BY <1>1, <2>2
  <1>2. ASSUME NEW j \in DOMAIN w, j >= k + d, Amp(p, w[j])
        PROVE  \E i \in DOMAIN s : i >= k /\ Amp(p, s[i])
    <2>1. j \in Nat /\ j >= 2 + d
      BY <1>2
    <2>2. j - d \in DOMAIN s /\ j - d >= k /\ j - d >= 2
      BY <1>2, <2>1 DEF Moved
    <2>3. (j - d) + d = j
      BY <2>1
    <2>4. w[j] = s[j - d]
      BY <2>2, <2>3 DEF Moved
    <2> QED
      BY <1>2, <2>2, <2>4
  <1> QED
    BY <1>1, <1>2 DEF Above

LEMMA MovedScoped ==
  ASSUME NEW p, NEW b, NEW s, NEW w, NEW d \in Int, DOMAIN s \subseteq Nat, DOMAIN w \subseteq Nat,
         Moved(s, w, d), Saved(p, b, s),
         \A j \in DOMAIN w : j < 2 + d /\ Amp(p, w[j]) => (w[j].b <=> Above(p, b, w, j + 1))
  PROVE  Saved(p, b, w)
  <1> SUFFICES ASSUME NEW j \in DOMAIN w, Amp(p, w[j])
               PROVE  w[j].b <=> Above(p, b, w, j + 1)
    BY DEF Saved
  <1>1. j \in Nat
    OBVIOUS
  <1>2. CASE j < 2 + d
    BY <1>2
  <1>3. CASE ~ (j < 2 + d)
    <2> DEFINE i == j - d
    <2>1. i \in DOMAIN s /\ i + d = j /\ i >= 2 /\ i \in Nat
      BY <1>1, <1>3 DEF Moved
    <2> HIDE DEF i
    <2>2. w[j] = s[i]
      BY <2>1 DEF Moved
    <2>3. s[i].b <=> Above(p, b, s, i + 1)
      BY <2>1, <2>2 DEF Saved
    <2>4. Above(p, b, w, (i + 1) + d) <=> Above(p, b, s, i + 1)
      <3>1. i + 1 \in Nat /\ i + 1 >= 2
        BY <2>1
      <3> QED
        BY <3>1, MovedAbove
    <2>5. (i + 1) + d = j + 1
      BY <2>1
    <2> QED
      BY <2>2, <2>3, <2>4, <2>5
  <1> QED
    BY <1>2, <1>3

LEMMA ReturnScoped ==
  ASSUME NEW p, NEW b, NEW S, NEW s \in Seq(S), s # << >>, Saved(p, b, s)
  PROVE  Scoped(p, b, Above(p, b, s, 2), Tail(s))
  <1> DEFINE w == Tail(s)
  <1>1. /\ Len(s) \in Nat /\ DOMAIN s = 1 .. Len(s) /\ DOMAIN w = 1 .. Len(s) - 1
        /\ \A i \in 1 .. Len(s) - 1 : w[i] = s[i + 1]
    BY Rest
  <1> HIDE DEF w
  <1>2. DOMAIN s \subseteq Nat /\ DOMAIN w \subseteq Nat /\ -1 \in Int
    BY <1>1
  <1>3. Moved(s, w, -1)
    <2>1. ASSUME NEW i \in DOMAIN s, i >= 2
          PROVE  i + (-1) \in DOMAIN w /\ w[i + (-1)] = s[i]
      <3>1. i - 1 \in 1 .. Len(s) - 1 /\ (i - 1) + 1 = i /\ i + (-1) = i - 1
        BY <1>1, <2>1
      <3>2. w[i - 1] = s[(i - 1) + 1]
        BY <1>1, <3>1
      <3> QED
        BY <1>1, <3>1, <3>2
    <2>2. \A j \in DOMAIN w : j - (-1) \in DOMAIN s
      BY <1>1
    <2> QED
      BY <2>1, <2>2 DEF Moved
  <1>4. Saved(p, b, w)
    <2>1. \A j \in DOMAIN w : ~ (j < 2 + (-1))
      BY <1>1
    <2> QED
      BY <1>2, <1>3, <2>1, MovedScoped
  <1>5. Above(p, b, w, 2 + (-1)) <=> Above(p, b, s, 2)
    BY <1>2, <1>3, MovedAbove
  <1>6. 2 + (-1) = 1
    OBVIOUS
  <1> QED
    BY <1>4, <1>5, <1>6 DEF Scoped, w

LEMMA GotoScoped ==
  ASSUME NEW p, NEW b, NEW S, NEW s \in Seq(S), s # << >>, Saved(p, b, s), NEW f, ~ Amp(p, f)
  PROVE  Scoped(p, b, Above(p, b, s, 2), <<f>> \o Tail(s))
  <1> DEFINE w == <<f>> \o Tail(s)
             T == S \cup {f}
  <1>1. s \in Seq(T) /\ f \in T
    OBVIOUS
  <1> HIDE DEF T
  <1>2. /\ Len(s) \in Nat \ {0} /\ DOMAIN s = 1 .. Len(s) /\ DOMAIN w = 1 .. Len(s)
        /\ w[1] = f /\ \A i \in 2 .. Len(s) : w[i] = s[i]
    BY <1>1, Rest, Replaced
  <1> HIDE DEF w
  <1>3. DOMAIN s \subseteq Nat /\ DOMAIN w \subseteq Nat /\ 0 \in Int
    BY <1>2
  <1>4. Moved(s, w, 0)
    BY <1>2 DEF Moved
  <1>5. Saved(p, b, w)
    <2>1. \A j \in DOMAIN w : j < 2 + 0 => j = 1
      BY <1>2
    <2> QED
      BY <1>2, <1>3, <1>4, <2>1, MovedScoped
  <1>6. Above(p, b, w, 2 + 0) <=> Above(p, b, s, 2)
    <2>1. 2 \in Nat /\ 2 >= 2
      OBVIOUS
    <2> QED
      BY <1>3, <1>4, <2>1, MovedAbove
  <1>7. Above(p, b, w, 1) <=> Above(p, b, w, 2 + 0)
    <2>1. \A j \in DOMAIN w : j >= 1 /\ Amp(p, w[j]) => j >= 2 + 0
      BY <1>2
    <2>2. \A j \in DOMAIN w : j >= 2 + 0 => j >= 1
      BY <1>2
    <2> QED
      BY <2>1, <2>2 DEF Above
  <1> QED
    BY <1>5, <1>6, <1>7 DEF Scoped, w

LEMMA CallScoped ==
  ASSUME NEW p, NEW b, NEW S, NEW s \in Seq(S), s # << >>, Saved(p, b, s), NEW c, NEW f,
         Amp(p, f) => (f.b <=> Above(p, b, s, 2))
  PROVE  Scoped(p, b, Amp(p, f) \/ Above(p, b, s, 2), <<Frame(c), f>> \o Tail(s))
  <1> DEFINE g == Frame(c)
             w == <<g, f>> \o Tail(s)
             T == S \cup {f, g}
  <1>g. ~ Amp(p, g)
    BY DEF Amp, Frame
  <1> HIDE DEF g
  <1>1. s \in Seq(T) /\ f \in T /\ g \in T
    OBVIOUS
  <1> HIDE DEF T
  <1>2. /\ Len(s) \in Nat \ {0} /\ DOMAIN s = 1 .. Len(s) /\ DOMAIN w = 1 .. Len(s) + 1
        /\ w[1] = g /\ w[2] = f /\ \A i \in 3 .. Len(s) + 1 : w[i] = s[i - 1]
    BY <1>1, Rest, Pushed
  <1> HIDE DEF w
  <1>3. DOMAIN s \subseteq Nat /\ DOMAIN w \subseteq Nat /\ 1 \in Int
    BY <1>2
  <1>4. Moved(s, w, 1)
    <2>1. ASSUME NEW i \in DOMAIN s, i >= 2
          PROVE  i + 1 \in DOMAIN w /\ w[i + 1] = s[i]
      <3>1. i + 1 \in 3 .. Len(s) + 1 /\ (i + 1) - 1 = i
        BY <1>2, <2>1
      <3>2. w[i + 1] = s[(i + 1) - 1]
        BY <1>2, <3>1
      <3> QED
        BY <1>2, <3>1, <3>2
    <2>2. \A j \in DOMAIN w : j >= 2 + 1 => j - 1 \in DOMAIN s
      BY <1>2
    <2> QED
      BY <2>1, <2>2 DEF Moved
  <1>5. Above(p, b, w, 2 + 1) <=> Above(p, b, s, 2)
    <2>1. 2 \in Nat /\ 2 >= 2
      OBVIOUS
    <2> QED
      BY <1>3, <1>4, <2>1, MovedAbove
  <1>6. Saved(p, b, w)
    <2>1. \A j \in DOMAIN w : j < 2 + 1 => j = 1 \/ j = 2
      BY <1>2
    <2>2. \A j \in DOMAIN w : j < 2 + 1 /\ Amp(p, w[j]) => (w[j].b <=> Above(p, b, w, j + 1))
      <3> SUFFICES ASSUME NEW j \in DOMAIN w, j < 2 + 1, Amp(p, w[j])
                   PROVE  w[j].b <=> Above(p, b, w, j + 1)
        OBVIOUS
      <3>1. j = 2 /\ w[j] = f
        BY <1>2, <1>g, <2>1
      <3>2. j + 1 = 2 + 1
        BY <3>1
      <3> QED
        BY <1>5, <3>1, <3>2
    <2> QED
      BY <1>3, <1>4, <2>2, MovedScoped
  <1>7. Above(p, b, w, 1) <=> (Amp(p, f) \/ Above(p, b, w, 2 + 1))
    <2>1. \A j \in DOMAIN w : j >= 1 /\ Amp(p, w[j]) => j = 2 \/ j >= 2 + 1
      BY <1>2, <1>g
    <2>2. \A j \in DOMAIN w : j >= 2 + 1 => j >= 1
      BY <1>2
    <2>3. 2 \in DOMAIN w /\ 2 >= 1 /\ w[2] = f
      BY <1>2
    <2> QED
      BY <2>1, <2>2, <2>3 DEF Above
  <1> QED
    BY <1>5, <1>6, <1>7 DEF Scoped, w, g

\* A step of a construct other than a list keeps the flag.
Steady(f, c) ==
  /\ f.n = this /\ (Return \/ Goto(f) \/ Call(c, f))
  /\ prog' = prog /\ start' = start /\ background' = background

LEMMA SteadyScoped ==
  ASSUME ExecInv, stack # << >>, Scoped(prog, start.background, background, stack),
         kind(this) \notin {"list", "compound"}, NEW f, NEW c, Steady(f, c)
  PROVE  Scoped(prog, start.background, background, stack)'
  <1> DEFINE b == start.background
  <1>1. stack \in Seq(FrameSet(prog)) /\ Saved(prog, b, stack) /\ this = stack[1].n
    BY OnTop DEF ExecInv, ShapeOK, StackOK, Scoped
  <1>2. ~ Amp(prog, f) /\ ~ Amp(prog, stack[1])
    BY <1>1 DEF Amp, Steady, kind
  <1>3. background <=> Above(prog, b, stack, 2)
    <2>1. \A i \in DOMAIN stack : i >= 1 /\ Amp(prog, stack[i]) => i >= 2
      BY <1>1, <1>2, Rest
    <2>2. \A i \in DOMAIN stack : i >= 2 => i >= 1
      BY <1>1, Rest
    <2> QED
      BY <2>1, <2>2 DEF Scoped, Above
  <1>4. Scoped(prog, b, Above(prog, b, stack, 2), stack')
    <2>1. CASE Return
      BY <1>1, <2>1, ReturnScoped DEF Return
    <2>2. CASE Goto(f)
      BY <1>1, <1>2, <2>2, GotoScoped DEF Goto
    <2>3. CASE Call(c, f)
      <3>1. Scoped(prog, b, Amp(prog, f) \/ Above(prog, b, stack, 2), stack')
        BY <1>1, <1>2, <2>3, CallScoped DEF Call
      <3> QED
        BY <1>2, <3>1 DEF Scoped
    <2> QED
      BY <2>1, <2>2, <2>3 DEF Steady
  <1> QED
    BY <1>3, <1>4 DEF Scoped, Steady

LEMMA Steadily ==
  ASSUME ExecInv,
         \/ ExecuteChildren \/ ExecuteAndIf \/ ExecuteOrIf \/ ExecuteBang
         \/ ExecuteSimple \/ ExecuteNothing
         \/ SubshellForkFails \/ SubshellParent \/ SubshellWait
         \/ ForIn \/ ForWord \/ ForValue \/ ForArgs
         \/ ExecuteCase \/ CaseBody
         \/ ExecuteCondition \/ IfCondition \/ IfEnd \/ LoopCondition \/ LoopBody
  PROVE  stack # << >> /\ kind(this) \notin {"list", "compound"} /\ \E f, c : Steady(f, c)
  <1>1. stack # << >> /\ kind(this) \notin {"list", "compound"}
    BY DEF ExecuteChildren, ExecuteAndIf, ExecuteOrIf, ExecuteBang, ExecuteSimple, ExecuteNothing,
           SubshellForkFails, SubshellParent, SubshellWait, ForIn, ForWord, ForValue, ForArgs,
           ExecuteCase, CaseBody, ExecuteCondition, IfCondition, IfEnd, LoopCondition, LoopBody, At
  <1>2. prog' = prog /\ start' = start /\ background' = background
    BY DEF ExecuteChildren, ExecuteAndIf, ExecuteOrIf, ExecuteBang, ExecuteSimple, ExecuteNothing,
           SubshellForkFails, SubshellParent, SubshellWait, ForIn, ForWord, ForValue, ForArgs,
           ExecuteCase, CaseBody, ExecuteCondition, IfCondition, IfEnd, LoopCondition, LoopBody,
           Descend, same
  <1>3. Top \in FrameSet(prog) /\ this = Top.n
    BY <1>1, OnTop DEF ExecInv, this
  <1>4. /\ \A at : [Top EXCEPT !.at = at].n = this
        /\ \A at, t : [Top EXCEPT !.at = at, !.t = t].n = this
        /\ \A at, q : [Top EXCEPT !.at = at, !.q = q].n = this
        /\ [Top EXCEPT !.q = @ - 1].n = this
    BY <1>3 DEF FrameSet
  <1>5. \E f, c : f.n = this /\ (Return \/ Goto(f) \/ Call(c, f))
    <2>1. Top.n = this
      BY <1>3
    <2>2. CASE ExecuteChildren \/ ExecuteAndIf \/ ExecuteOrIf \/ ExecuteBang
      BY <1>4, <2>1, <2>2 DEF ExecuteChildren, ExecuteAndIf, ExecuteOrIf, ExecuteBang, Descend
    <2>3. CASE \/ ExecuteSimple \/ ExecuteNothing \/ SubshellForkFails \/ SubshellParent
               \/ SubshellWait \/ IfEnd
      BY <1>4, <2>1, <2>3
         DEF ExecuteSimple, ExecuteNothing, SubshellForkFails, SubshellParent, SubshellWait, IfEnd
    <2>4. CASE ForIn
      BY <1>4, <2>1, <2>4 DEF ForIn
    <2>5. CASE ForWord
      BY <1>4, <2>1, <2>5 DEF ForWord
    <2>6. CASE ForValue
      BY <1>4, <2>1, <2>6 DEF ForValue
    <2>7. CASE ForArgs
      BY <2>1, <2>7 DEF ForArgs
    <2>8. CASE ExecuteCase \/ CaseBody
      BY <1>4, <2>1, <2>8 DEF ExecuteCase, CaseBody
    <2>9. CASE ExecuteCondition \/ LoopCondition \/ LoopBody
      BY <1>4, <2>1, <2>9 DEF ExecuteCondition, LoopCondition, LoopBody
    <2>10. CASE IfCondition
      BY <1>4, <2>1, <2>10 DEF IfCondition
    <2> QED
      BY <2>2, <2>3, <2>4, <2>5, <2>6, <2>7, <2>8, <2>9, <2>10
  <1> QED
    BY <1>1, <1>2, <1>5 DEF Steady

LEMMA ListScoped ==
  ASSUME ExecInv, Scoped(prog, start.background, background, stack), ExecuteList
  PROVE  Scoped(prog, start.background, background, stack)'
  <1> DEFINE b == start.background
             amp(t) == t # 0 /\ kind(kids(this)[t]) = "&"
             i == IF Top.at = "enter" THEN After(this, 0) ELSE Top.t
             t == After(this, i)
             flag == IF Top.at = "next" /\ amp(i) THEN Top.b ELSE background
             f == [Top EXCEPT !.at = "next", !.t = t, !.b = flag]
  <1>1. /\ stack # << >> /\ kind(this) \in {"list", "compound"} /\ Top.at \in {"enter", "next"}
        /\ prog' = prog /\ start' = start
    BY DEF ExecuteList, At, same
  <1>2. /\ stack \in Seq(FrameSet(prog)) /\ Saved(prog, b, stack)
        /\ Top = stack[1] /\ this = Top.n /\ Top \in FrameSet(prog) /\ background \in BOOLEAN
    BY <1>1, OnTop DEF ExecInv, OthersOK, ShapeOK, StackOK, Scoped, this
  <1>3. Amp(prog, Top) <=> (Top.at = "next" /\ amp(i))
    BY <1>1, <1>2 DEF Amp, kind, kids
  <1>4. flag <=> Above(prog, b, stack, 2)
    <2>1. 1 \in DOMAIN stack /\ DOMAIN stack \subseteq Nat
      BY <1>1, <1>2, Rest
    <2>2. CASE Amp(prog, Top)
      <3>1. stack[1].b <=> Above(prog, b, stack, 1 + 1)
        BY <1>2, <2>1, <2>2 DEF Saved
      <3>2. 1 + 1 = 2
        OBVIOUS
      <3>3. flag = Top.b
        BY <1>3, <2>2
      <3> QED
        BY <1>2, <3>1, <3>2, <3>3
    <2>3. CASE ~ Amp(prog, Top)
      <3>1. flag = background
        BY <1>3, <2>3
      <3>2. \A k \in DOMAIN stack : k >= 1 /\ Amp(prog, stack[k]) => k >= 2
        BY <1>2, <2>1, <2>3
      <3>3. \A k \in DOMAIN stack : k >= 2 => k >= 1
        BY <2>1
      <3>4. background <=> Above(prog, b, stack, 2)
        BY <3>2, <3>3 DEF Scoped, Above
      <3> QED
        BY <3>1, <3>4
    <2> QED
      BY <2>2, <2>3
  <1>5. CASE i = 0
    <2>1. Return /\ background' = flag
      BY <1>5 DEF ExecuteList
    <2>2. Scoped(prog, b, Above(prog, b, stack, 2), stack')
      BY <1>1, <1>2, <2>1, ReturnScoped DEF Return
    <2> HIDE DEF flag
    <2> QED
      BY <1>1, <1>4, <2>1, <2>2 DEF Scoped
  <1>6. CASE i # 0
    <2>1. background' = (flag \/ amp(t)) /\ Call(kids(this)[i], f)
      BY <1>6 DEF ExecuteList
    <2> HIDE DEF i, t, flag
    <2>2. f.n = this /\ f.at = "next" /\ f.t = t /\ f.b = flag
      BY <1>2 DEF FrameSet
    <2> HIDE DEF f
    <2>3. Amp(prog, f) <=> amp(t)
      BY <1>1, <2>2 DEF Amp, kind, kids
    <2>4. Scoped(prog, b, Amp(prog, f) \/ Above(prog, b, stack, 2), stack')
      BY <1>1, <1>2, <1>4, <2>1, <2>2, CallScoped DEF Call
    <2>5. background' <=> (Amp(prog, f) \/ Above(prog, b, stack, 2))
      BY <1>4, <2>1, <2>3
    <2> QED
      BY <1>1, <2>4, <2>5 DEF Scoped
  <1> QED
    BY <1>5, <1>6

\* A forked process has two frames, neither of which is a list's.
LEMMA ChildScoped ==
  ASSUME ExecInv, SubshellChild
  PROVE  Scoped(prog, start.background, background, stack)'
  <1> DEFINE f == [Top EXCEPT !.at = "next"]
             g == Frame(kids(this)[1])
  <1>1. /\ stack # << >> /\ kind(this) = "subshell" /\ prog' = prog
        /\ start'.background = background /\ background' = background /\ stack' = <<g, f>>
    BY DEF SubshellChild, At, same
  <1>2. Top \in FrameSet(prog) /\ this = Top.n
    BY <1>1, OnTop DEF ExecInv, this
  <1>3. f.n = this /\ g.at = "enter"
    BY <1>2 DEF FrameSet, Frame
  <1> HIDE DEF f, g
  <1>4. ~ Amp(prog, f) /\ ~ Amp(prog, g)
    BY <1>1, <1>3 DEF Amp, kind
  <1>5. DOMAIN <<g, f>> = {1, 2} /\ <<g, f>>[1] = g /\ <<g, f>>[2] = f
    OBVIOUS
  <1>6. \A i \in DOMAIN <<g, f>> : ~ Amp(prog, <<g, f>>[i])
    BY <1>4, <1>5
  <1> QED
    BY <1>1, <1>6 DEF Scoped, Saved, Above

LEMMA StepFlag ==
  ASSUME ExecInv, FlagInv, [Next]_vars
  PROVE  FlagInv'
  <1>1. reported \subseteq reported'
    BY DEF Report, Next, vars, same, Descend, ExecuteChildren, ExecuteAndIf, ExecuteOrIf,
           ExecuteBang, ExecuteList, ExecuteSimple, ExecuteNothing, SubshellForkFails, SubshellParent,
           SubshellChild, SubshellWait, ForIn, ForWord, ForValue, ForArgs, ExecuteCase,
           CaseCrash, CaseBody, ExecuteCondition, IfCondition, IfEnd, LoopCondition, LoopBody
  <1> SUFFICES ASSUME "crash" \notin reported'
               PROVE  Scoped(prog, start.background, background, stack)'
    BY DEF FlagInv
  <1>2. Scoped(prog, start.background, background, stack)
    BY <1>1 DEF FlagInv
  <1>3. CASE \/ ExecuteChildren \/ ExecuteAndIf \/ ExecuteOrIf \/ ExecuteBang
             \/ ExecuteSimple \/ ExecuteNothing
             \/ SubshellForkFails \/ SubshellParent \/ SubshellWait
             \/ ForIn \/ ForWord \/ ForValue \/ ForArgs
             \/ ExecuteCase \/ CaseBody
             \/ ExecuteCondition \/ IfCondition \/ IfEnd \/ LoopCondition \/ LoopBody
    BY <1>2, <1>3, Steadily, SteadyScoped
  <1>4. CASE ExecuteList
    BY <1>2, <1>4, ListScoped
  <1>5. CASE SubshellChild
    BY <1>5, ChildScoped
  <1>6. CASE CaseCrash
    BY <1>6 DEF CaseCrash, Report
  <1>7. CASE UNCHANGED vars
    BY <1>2, <1>7 DEF vars, Scoped, Saved, Above
  <1> QED
    BY <1>3, <1>4, <1>5, <1>6, <1>7 DEF Next

LEMMA InitFlag == Init => FlagInv
  <1> SUFFICES ASSUME Init
               PROVE  Scoped(prog, start.background, background, stack)
    BY DEF FlagInv
  <1> DEFINE f == Frame(1)
  <1>1. stack = <<f>> /\ background = FALSE /\ start.background = background
    BY DEF Init
  <1>2. ~ Amp(prog, f)
    BY DEF Amp, Frame
  <1> HIDE DEF f
  <1>3. DOMAIN <<f>> = {1} /\ <<f>>[1] = f
    OBVIOUS
  <1> QED
    BY <1>1, <1>2, <1>3 DEF Scoped, Saved, Above

LEMMA FlagScoped == ExecInv /\ FlagInv => BackgroundScoped
  <1> SUFFICES ASSUME ExecInv, FlagInv, "crash" \notin reported
               PROVE  background = (start.background \/ \E i \in DOMAIN stack : BeforeAmp(stack[i]))
    BY DEF BackgroundScoped
  <1>1. background <=> Above(prog, start.background, stack, 1)
    BY DEF FlagInv, Scoped
  <1>2. \A i \in DOMAIN stack : i >= 1
    <2>1. stack \in Seq(FrameSet(prog))
      BY DEF ExecInv, ShapeOK, StackOK
    <2> QED
      BY <2>1, LenProperties
  <1>3. \A i \in DOMAIN stack : BeforeAmp(stack[i]) <=> Amp(prog, stack[i])
    BY DEF BeforeAmp, Amp, kind, kids
  <1>4. background <=> (start.background \/ \E i \in DOMAIN stack : BeforeAmp(stack[i]))
    BY <1>1, <1>2, <1>3 DEF Above
  <1>5. background \in BOOLEAN
    BY DEF ExecInv, OthersOK
  <1> QED
    BY <1>4, <1>5

\* On every tree of the parser's shapes a command runs in the background exactly
\* when some list around it has a '&' behind the part it is in: execute's saved flag
\* undoes what nested lists have set, by whichever way their calls return.
THEOREM BackgroundAlwaysScoped == Spec => []BackgroundScoped
  <1>1. Init => ExecInv /\ FlagInv
    BY InitInv, InitFlag
  <1>2. ExecInv /\ FlagInv /\ [Next]_vars => (ExecInv /\ FlagInv)'
    BY StepInv, StepFlag
  <1>3. ExecInv /\ FlagInv => BackgroundScoped
    BY FlagScoped
  <1> QED
    BY <1>1, <1>2, <1>3, PTL DEF Spec

=============================================================================
