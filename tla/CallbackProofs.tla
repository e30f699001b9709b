--------------------------- MODULE CallbackProofs ---------------------------
(***************************************************************************)
(* However the callbacks of the hosts interleave, no two lines are glued,  *)
(* the live line is that of a task under way, and a diff is printed once,  *)
(* under the line of its own result.  For every set of hosts, tasks and    *)
(* bounds.                                                                 *)
(***************************************************************************)
EXTENDS Callback, ListFacts, FiniteSetTheorems

USE TasksAssumption, BoundsAssumption

----------------------------------------------------------------------------
(* The inductive invariant *)

Fields == {"pending", "suffix", "counts", "visible", "row", "out"}

\* What the last row should read.
Row(u) == IF u.visible = None THEN <<>> ELSE <<_current_text(u, u.visible)>>

\* The display between two calls of it; without a terminal there is no live line.
Sound(u) ==
  /\ DOMAIN u = Fields
  /\ u.row = Row(u)
  /\ tty \/ u.visible = None

Typed ==
  /\ options \in [tty : BOOLEAN, ok : BOOLEAN, skipped : BOOLEAN]
  /\ DOMAIN running \subseteq Keys
  /\ \A k \in DOMAIN running :
       running[k] \in [items : 0 .. MaxItems, diffs : Nat, owed : BOOLEAN]
  /\ starts \in 0 .. MaxStarts /\ over \in BOOLEAN

Live == {k \in DOMAIN running : k[1] \notin Includes}

\* The pending lines are those of the tasks that run, each once, and the live line is
\* one of them.
Waiting(u, live) ==
  /\ u.pending \in Seq(Keys)
  /\ ToSet(u.pending) = IF tty THEN live ELSE {}
  /\ \A i, j \in DOMAIN u.pending : u.pending[i] = u.pending[j] => i = j
  /\ u.visible = None <=> u.pending = <<>>
  /\ u.visible # None => u.visible \in ToSet(u.pending)

\* An item is counted once, when its task is pending.
Counted(u, tasks) ==
  /\ DOMAIN u.suffix \subseteq ToSet(u.pending)
  /\ DOMAIN u.counts \subseteq ToSet(u.pending)
  /\ \A k \in DOMAIN u.counts : u.counts[k] \in 1 .. tasks[k].items

\* The buffer of a task holds its diffs, in order.
Buffered ==
  /\ DOMAIN diffs \subseteq DOMAIN running
  /\ \A k \in DOMAIN running :
       IF k \in DOMAIN diffs THEN diffs[k] = [n \in 1 .. running[k].diffs |-> n]
                             ELSE running[k].diffs = 0
  /\ \A k \in DOMAIN running : k[1] \in Includes \union Debugs => running[k].diffs = 0

\* A line of its own for each line.
Single == \A i \in DOMAIN ui.out : Len(ui.out[i]) = 1

IInv ==
  /\ Typed /\ Sound(ui) /\ Waiting(ui, Live) /\ Counted(ui, running)
  /\ Buffered /\ Single

----------------------------------------------------------------------------
(* The display *)

LEMMA KeyIsSome == ASSUME NEW k \in Keys PROVE k # None
BY DEF Keys, None

\* What two states of the display agree on when only lines were printed.
Same(u, v) ==
  /\ v.pending = u.pending /\ v.suffix = u.suffix
  /\ v.counts = u.counts /\ v.visible = u.visible

LEMMA DisplayedIs ==
  ASSUME NEW u, Sound(u), NEW line
  PROVE  LET v == Displayed(u, line)
         IN  Same(u, v) /\ Sound(v) /\ v.out = Append(u.out, <<line>>)
<1>1. DOMAIN u = Fields /\ u.row = Row(u)
  BY DEF Sound
<1>2. CASE u.visible = None
  <2>1. Displayed(u, line) = Emit(u, line)
    BY <1>2 DEF Displayed, _display_hook
  <2>2. u.row = <<>> /\ Append(u.row, line) = <<line>>
    BY <1>1, <1>2 DEF Row
  <2> QED
    BY <1>1, <1>2, <2>1, <2>2 DEF Emit, Same, Sound, Row, Fields
<1>3. CASE u.visible # None
  <2> DEFINE c == _clear(u)
             e == Emit(c, line)
  <2>1. DOMAIN c = Fields /\ Same(u, c) /\ c.row = <<>> /\ c.out = u.out
    BY <1>1 DEF _clear, Same, Fields
  <2> HIDE DEF c
  <2>2. /\ DOMAIN e = Fields /\ Same(u, e) /\ e.row = <<>>
        /\ e.out = Append(u.out, <<line>>)
    <3>1. Append(c.row, line) = <<line>>
      BY <2>1
    <3> QED
      BY <2>1, <3>1 DEF Emit, Same, Fields
  <2>3. Displayed(u, line) = Redraw(e)
    BY <1>3 DEF Sound, Displayed, _display_hook, c
  <2> HIDE DEF e
  <2>4. Redraw(e) = [e EXCEPT !.row = Append(@, _current_text(e, e.visible))]
    BY <1>3, <2>2 DEF Redraw, _draw, Same
  <2>5. Append(e.row, _current_text(e, e.visible)) = <<_current_text(e, e.visible)>>
    BY <2>2
  <2>6. _current_text(Redraw(e), e.visible) = _current_text(e, e.visible)
    BY <2>2, <2>4 DEF _current_text, Fields
  <2> QED
    BY <1>3, <2>2, <2>3, <2>4, <2>5, <2>6 DEF Same, Sound, Row, Fields
<1> QED
  BY <1>2, <1>3

\* The function display defines by recursion.
Steps(f, u, lines, m) ==
  f = [n \in 0 .. m |-> IF n = 0 THEN u ELSE Displayed(f[n - 1], lines[n])]

LEMMA StepsExtend ==
  ASSUME NEW u, NEW lines, NEW m \in Nat, NEW f, Steps(f, u, lines, m)
  PROVE  \E g : Steps(g, u, lines, m + 1)
<1> DEFINE g == [n \in 0 .. m + 1 |-> IF n = m + 1 THEN Displayed(f[n - 1], lines[n]) ELSE f[n]]
<1>1. ASSUME NEW n \in 0 .. m + 1
      PROVE  g[n] = IF n = 0 THEN u ELSE Displayed(g[n - 1], lines[n])
  <2>1. CASE n = 0
    BY <2>1 DEF Steps
  <2>2. CASE n # 0
    <3>1. n - 1 \in 0 .. m /\ g[n - 1] = f[n - 1]
      BY <2>2
    <3>2. g[n] = Displayed(f[n - 1], lines[n])
      BY <2>2 DEF Steps
    <3> HIDE DEF g
    <3> QED
      BY <2>2, <3>1, <3>2
  <2> QED
    BY <2>1, <2>2
<1>2. g = [n \in 0 .. m + 1 |-> g[n]]
  OBVIOUS
<1> HIDE DEF g
<1>3. Steps(g, u, lines, m + 1)
  BY <1>1, <1>2 DEF Steps
<1> QED
  BY <1>3

LEMMA StepsExist ==
  ASSUME NEW u, NEW lines
  PROVE  \A m \in Nat : \E f : Steps(f, u, lines, m)
<1> DEFINE S == {m \in Nat : \E f : Steps(f, u, lines, m)}
<1>1. 0 \in S
  <2>1. Steps([n \in 0 .. 0 |-> u], u, lines, 0)
    BY DEF Steps
  <2> QED
    BY <2>1
<1>2. \A m \in Nat : m \in S => m + 1 \in S
  BY StepsExtend
<1> HIDE DEF S
<1>3. \A m \in Nat : m \in S
  BY <1>1, <1>2, SetInduction
<1> QED
  BY <1>3 DEF S

\* Each line is alone on its row, and the live line is back under the last one.
LEMMA DisplayIs ==
  ASSUME NEW u, Sound(u), u.out = <<>>, NEW L, NEW lines \in Seq(L)
  PROVE  LET v == display(u, lines)
         IN  /\ Same(u, v) /\ Sound(v) /\ DOMAIN v.out = DOMAIN lines
             /\ \A i \in DOMAIN lines : v.out[i] = <<lines[i]>>
<1> DEFINE f == CHOOSE f : Steps(f, u, lines, Len(lines))
           T == {<<lines[i]>> : i \in DOMAIN lines}
           P(n) == n <= Len(lines) =>
                     /\ Same(u, f[n]) /\ Sound(f[n])
                     /\ f[n].out \in Seq(T) /\ Len(f[n].out) = n
                     /\ \A i \in 1 .. n : f[n].out[i] = <<lines[i]>>
           S == {n \in Nat : P(n)}
<1>0. Len(lines) \in Nat /\ DOMAIN lines = 1 .. Len(lines)
  OBVIOUS
<1>1. Steps(f, u, lines, Len(lines))
  BY <1>0, StepsExist
<1>2. display(u, lines) = f[Len(lines)]
  BY DEF display, Steps
<1> HIDE DEF f
<1>3. P(0)
  <2>1. f[0] = u
    BY <1>0, <1>1 DEF Steps
  <2>2. Same(u, f[0]) /\ Sound(f[0])
    BY <2>1 DEF Same
  <2>3. f[0].out \in Seq(T) /\ Len(f[0].out) = 0
    <3>1. f[0].out = <<>>
      BY <2>1
    <3> HIDE DEF T
    <3> QED
      BY <3>1
  <2> QED
    BY <2>2, <2>3
<1>4. ASSUME NEW n \in Nat, P(n)
      PROVE  P(n + 1)
  <2> SUFFICES ASSUME n + 1 <= Len(lines)
               PROVE  /\ Same(u, f[n + 1]) /\ Sound(f[n + 1])
                      /\ f[n + 1].out \in Seq(T) /\ Len(f[n + 1].out) = n + 1
                      /\ \A i \in 1 .. n + 1 : f[n + 1].out[i] = <<lines[i]>>
    OBVIOUS
  <2>1. /\ n <= Len(lines) /\ n + 1 \in 0 .. Len(lines) /\ n + 1 \in DOMAIN lines
        /\ n + 1 # 0 /\ (n + 1) - 1 = n
    BY <1>0
  <2>2. /\ Same(u, f[n]) /\ Sound(f[n])
        /\ f[n].out \in Seq(T) /\ Len(f[n].out) = n
        /\ \A i \in 1 .. n : f[n].out[i] = <<lines[i]>>
    BY <1>4, <2>1
  <2>3. f[n + 1] = Displayed(f[n], lines[n + 1])
    BY <1>0, <1>1, <2>1 DEF Steps
  <2>4. /\ Same(f[n], f[n + 1]) /\ Sound(f[n + 1])
        /\ f[n + 1].out = Append(f[n].out, <<lines[n + 1]>>)
    BY <2>2, <2>3, DisplayedIs
  <2>5. <<lines[n + 1]>> \in T
    BY <2>1
  <2> HIDE DEF T
  <2>6. /\ f[n + 1].out \in Seq(T) /\ Len(f[n + 1].out) = n + 1
        /\ \A i \in 1 .. n + 1 : f[n + 1].out[i] = <<lines[i]>>
    BY <2>2, <2>4, <2>5
  <2> QED
    BY <2>2, <2>4, <2>6 DEF Same
<1> HIDE DEF P
<1>5. 0 \in S /\ \A n \in Nat : n \in S => n + 1 \in S
  BY <1>3, <1>4
<1> HIDE DEF S
<1>6. Len(lines) \in S
  BY <1>0, <1>5, SetInduction
<1>7. P(Len(lines))
  BY <1>6 DEF S
<1>8. /\ Same(u, f[Len(lines)]) /\ Sound(f[Len(lines)])
      /\ f[Len(lines)].out \in Seq(T) /\ Len(f[Len(lines)].out) = Len(lines)
      /\ \A i \in 1 .. Len(lines) : f[Len(lines)].out[i] = <<lines[i]>>
  BY <1>0, <1>7 DEF P
<1> QED
  BY <1>0, <1>2, <1>8

----------------------------------------------------------------------------
(* The end of a task: its line goes, and the first task that still runs *)
(* takes the row. *)

LEMMA EmptyList ==
  ASSUME NEW S, NEW s \in Seq(S)
  PROVE  s = <<>> <=> ToSet(s) = {}
<1>1. s # <<>> => 1 \in DOMAIN s
  OBVIOUS
<1> QED
  BY <1>1 DEF ToSet

\* A pending list without one of its keys.
LEMMA ForgetIs ==
  ASSUME NEW u, DOMAIN u = Fields, NEW k, u.pending \in Seq(Keys),
         \A i, j \in DOMAIN u.pending : u.pending[i] = u.pending[j] => i = j
  PROVE  LET v == Forget(u, k)
         IN  /\ DOMAIN v = Fields
             /\ v.visible = u.visible /\ v.row = u.row /\ v.out = u.out
             /\ v.suffix = Pop(u.suffix, k) /\ v.counts = Pop(u.counts, k)
             /\ v.pending \in Seq(Keys)
             /\ \A i, j \in DOMAIN v.pending : v.pending[i] = v.pending[j] => i = j
             /\ ToSet(v.pending) = ToSet(u.pending) \ {k}
<1> DEFINE p == u.pending
           I == {i \in DOMAIN p : p[i] # k}
           r == Where(p, I)
           v == Forget(u, k)
<1>1. /\ r \in Seq(Keys)
      /\ \A j \in DOMAIN r : \E i \in I \cap DOMAIN p : r[j] = p[i]
      /\ \A i \in I \cap DOMAIN p : \E j \in DOMAIN r : r[j] = p[i]
      /\ \A j, m \in DOMAIN r : j # m =>
           \E h, i \in I \cap DOMAIN p : h # i /\ r[j] = p[h] /\ r[m] = p[i]
  <2>1. p \in Seq(Keys)
    OBVIOUS
  <2> HIDE DEF I, p
  <2> QED
    BY <2>1, WhereFacts
<1>2. /\ DOMAIN v = Fields
      /\ v.visible = u.visible /\ v.row = u.row /\ v.out = u.out
      /\ v.suffix = Pop(u.suffix, k) /\ v.counts = Pop(u.counts, k)
      /\ v.pending = r
  BY DEF Forget, Fields
<1> HIDE DEF v, r
<1>3. \A j, m \in DOMAIN r : r[j] = r[m] => j = m
  BY <1>1
<1>4. ToSet(r) = ToSet(p) \ {k}
  BY <1>1 DEF ToSet
<1> QED
  BY <1>1, <1>2, <1>3, <1>4 DEF v

LEMMA FinalizeIs ==
  ASSUME NEW u, Sound(u), NEW L, L \subseteq Keys, Waiting(u, L),
         NEW tasks, Counted(u, tasks), NEW k \in Keys
  PROVE  LET v == _finalize(u, k)
         IN  /\ Sound(v) /\ Waiting(v, L \ {k}) /\ Counted(v, tasks)
             /\ v.out = u.out
<1> DEFINE f == Forget(u, k)
           M == IF tty THEN L ELSE {}
           v == _finalize(u, k)
<1>1. /\ DOMAIN f = Fields
      /\ f.visible = u.visible /\ f.row = u.row /\ f.out = u.out
      /\ f.suffix = Pop(u.suffix, k) /\ f.counts = Pop(u.counts, k)
      /\ f.pending \in Seq(Keys)
      /\ \A i, j \in DOMAIN f.pending : f.pending[i] = f.pending[j] => i = j
      /\ ToSet(f.pending) = M \ {k}
  <2>1. /\ DOMAIN u = Fields /\ u.pending \in Seq(Keys)
        /\ \A i, j \in DOMAIN u.pending : u.pending[i] = u.pending[j] => i = j
        /\ ToSet(u.pending) = M
    BY DEF Sound, Waiting
  <2> HIDE DEF M
  <2> QED
    BY <2>1, ForgetIs
<1>2. /\ DOMAIN f.suffix \subseteq ToSet(f.pending)
      /\ DOMAIN f.counts \subseteq ToSet(f.pending)
      /\ \A x \in DOMAIN f.counts : f.counts[x] \in 1 .. tasks[x].items
      /\ \A x \in Keys \ {k} : /\ x \in DOMAIN f.suffix <=> x \in DOMAIN u.suffix
                               /\ x \in DOMAIN f.suffix => f.suffix[x] = u.suffix[x]
  <2>1. /\ DOMAIN f.suffix = DOMAIN u.suffix \ {k}
        /\ DOMAIN f.counts = DOMAIN u.counts \ {k}
        /\ \A x \in DOMAIN f.suffix : f.suffix[x] = u.suffix[x]
        /\ \A x \in DOMAIN f.counts : f.counts[x] = u.counts[x]
    BY <1>1 DEF Pop, Restrict
  <2>2. ToSet(u.pending) = M
    BY DEF Waiting
  <2> HIDE DEF f, M
  <2> QED
    BY <1>1, <2>1, <2>2 DEF Counted
<1> HIDE DEF f
<1>3. CASE tty /\ u.visible = k
  <2> DEFINE nxt == IF f.pending = <<>> THEN None ELSE Head(f.pending)
             c == [_clear(f) EXCEPT !.visible = nxt]
  <2>1. v = Redraw(c)
    BY <1>3 DEF _finalize, f
  <2>2. /\ DOMAIN c = Fields /\ c.row = <<>> /\ c.visible = nxt /\ c.out = u.out
        /\ c.pending = f.pending /\ c.suffix = f.suffix /\ c.counts = f.counts
    BY <1>1 DEF _clear, Fields
  <2>3. nxt = None <=> f.pending = <<>>
    BY <1>1, KeyIsSome
  <2>4. nxt # None => nxt \in ToSet(f.pending)
    BY <1>1 DEF ToSet
  <2> HIDE DEF nxt, c, v
  <2>5. /\ DOMAIN v = Fields /\ v.visible = nxt /\ v.out = u.out
        /\ v.pending = f.pending /\ v.suffix = f.suffix /\ v.counts = f.counts
        /\ v.row = Row(v)
    <3>1. CASE nxt = None
      BY <2>1, <2>2, <3>1 DEF Redraw, Row
    <3>2. CASE nxt # None
      <4>1. v = [c EXCEPT !.row = Append(@, _current_text(c, nxt))]
        BY <2>1, <2>2, <3>2 DEF Redraw, _draw
      <4>2. Append(c.row, _current_text(c, nxt)) = <<_current_text(c, nxt)>>
        BY <2>2
      <4>3. /\ DOMAIN v = Fields /\ v.visible = nxt /\ v.out = u.out
            /\ v.pending = f.pending /\ v.suffix = f.suffix /\ v.counts = f.counts
            /\ v.row = <<_current_text(c, nxt)>>
        BY <2>2, <4>1, <4>2 DEF Fields
      <4>4. _current_text(c, nxt) = _current_text(v, nxt)
        BY <2>2, <4>3 DEF _current_text
      <4> QED
        BY <3>2, <4>3, <4>4 DEF Row
    <3> QED
      BY <3>1, <3>2
  <2>6. Sound(v)
    BY <1>3, <2>5 DEF Sound
  <2>7. Waiting(v, L \ {k})
    BY <1>1, <1>3, <2>3, <2>4, <2>5 DEF Waiting
  <2>8. Counted(v, tasks)
    BY <1>2, <2>5 DEF Counted
  <2> QED
    BY <2>5, <2>6, <2>7, <2>8 DEF v
<1>4. CASE ~(tty /\ u.visible = k)
  <2>1. v = f
    BY <1>4 DEF _finalize, f
  <2> HIDE DEF v
  <2>2. u.visible # k
    BY <1>4, KeyIsSome DEF Sound
  <2>3. u.visible \in Keys \union {None}
    BY DEF Waiting, ToSet
  <2>4. f.row = Row(f)
    <3>1. CASE u.visible = None
      BY <1>1, <3>1 DEF Sound, Row
    <3>2. CASE u.visible # None
      <4>1. _current_text(f, u.visible) = _current_text(u, u.visible)
        BY <1>2, <2>2, <2>3, <3>2 DEF _current_text
      <4> QED
        BY <1>1, <3>2, <4>1 DEF Sound, Row
    <3> QED
      BY <3>1, <3>2
  <2>5. Sound(f)
    BY <1>1, <2>4 DEF Sound
  <2>6. f.pending = <<>> <=> M \ {k} = {}
    BY <1>1, EmptyList
  <2>7. u.pending = <<>> <=> M = {}
    BY EmptyList DEF Waiting
  <2>8. Waiting(f, L \ {k})
    BY <1>1, <2>2, <2>6, <2>7 DEF Waiting
  <2> QED
    BY <1>1, <1>2, <2>1, <2>5, <2>8 DEF Counted, v
<1> QED
  BY <1>3, <1>4

----------------------------------------------------------------------------
(* The callbacks *)

LEMMA NowIs ==
  ASSUME IInv
  PROVE  /\ Sound(Now) /\ Waiting(Now, Live) /\ Counted(Now, running)
         /\ Now.out = <<>> /\ Same(ui, Now) /\ Live \subseteq Keys
<1>1. DOMAIN ui = Fields
  BY DEF IInv, Sound
<1>2. DOMAIN Now = Fields /\ Same(ui, Now) /\ Now.row = ui.row /\ Now.out = <<>>
  BY <1>1 DEF Now, Same, Fields
<1> QED
  BY <1>2 DEF IInv, Typed, Sound, Row, _current_text, Waiting, Counted, Same, Live

\* What a callback leaves of the display, and of the other tasks.
LEMMA Leaves ==
  ASSUME IInv, Typed', Buffered', UNCHANGED options,
         Sound(ui'), Waiting(ui', Live'), Counted(ui', running'),
         \A i \in DOMAIN ui'.out : Len(ui'.out[i]) = 1
  PROVE  IInv'
BY DEF IInv, Single, Sound, Row, Waiting, Counted, Live, tty, _current_text

LEMMA StartKeeps ==
  ASSUME IInv, NEW k \in Keys, v2_runner_on_start(k)
  PROVE  IInv' /\ ui'.out = <<>>
<1>1. /\ starts < MaxStarts /\ k \notin DOMAIN running
      /\ UNCHANGED <<options, diffs, over>> /\ starts' = starts + 1
      /\ DOMAIN running' = DOMAIN running \union {k}
      /\ running'[k] = [items |-> 0, diffs |-> 0, owed |-> FALSE]
      /\ \A r \in DOMAIN running : running'[r] = running[r]
  BY DEF v2_runner_on_start, Starts
<1>2. Typed'
  <2>1. running'[k] \in [items : 0 .. MaxItems, diffs : Nat, owed : BOOLEAN]
    BY <1>1
  <2>2. starts' \in 0 .. MaxStarts
    BY <1>1 DEF IInv, Typed
  <2> QED
    BY <1>1, <2>1, <2>2 DEF IInv, Typed
<1>3. Buffered'
  <2>1. k \notin DOMAIN diffs' /\ running'[k].diffs = 0
    BY <1>1 DEF IInv, Buffered
  <2> QED
    BY <1>1, <2>1 DEF IInv, Buffered
<1>4. CASE k[1] \in Includes \/ ~tty
  <2>1. ui' = Now
    BY <1>4 DEF v2_runner_on_start
  <2>2. tty => Live' = Live
    BY <1>1, <1>4 DEF Live
  <2>3. Waiting(ui', Live')
    BY <2>1, <2>2, NowIs DEF Waiting
  <2>4. Counted(ui', running')
    <3>1. Counted(Now, running) /\ Waiting(Now, Live)
      BY NowIs
    <3>2. ToSet(Now.pending) \subseteq DOMAIN running
      BY <3>1 DEF Waiting, Live
    <3>3. \A x \in DOMAIN Now.counts : running'[x] = running[x]
      BY <1>1, <3>1, <3>2 DEF Counted
    <3> HIDE DEF Now
    <3> QED
      BY <2>1, <3>1, <3>3 DEF Counted
  <2>5. Sound(ui') /\ ui'.out = <<>>
    BY <2>1, NowIs
  <2>6. \A i \in DOMAIN ui'.out : Len(ui'.out[i]) = 1
    BY <2>5
  <2> QED
    BY <1>1, <1>2, <1>3, <2>3, <2>4, <2>5, <2>6, Leaves
<1>5. CASE k[1] \notin Includes /\ tty
  <2> DEFINE c == _clear(Shown(k))
  <2>1. ui' = Redraw(c)
    BY <1>5 DEF v2_runner_on_start
  <2>2. DOMAIN ui = Fields
    BY DEF IInv, Sound
  <2>3. /\ DOMAIN c = Fields /\ c.row = <<>> /\ c.out = <<>> /\ c.visible = k
        /\ c.pending = Append(ui.pending, k)
        /\ c.suffix = Pop(ui.suffix, k) /\ c.counts = Pop(ui.counts, k)
    BY <2>2 DEF _clear, Shown, Now, Fields
  <2> HIDE DEF c
  <2>4. /\ DOMAIN ui' = Fields /\ ui'.out = <<>> /\ ui'.visible = k
        /\ ui'.pending = Append(ui.pending, k)
        /\ ui'.suffix = Pop(ui.suffix, k) /\ ui'.counts = Pop(ui.counts, k)
        /\ ui'.row = Row(ui')
    <3>1. ui' = [c EXCEPT !.row = Append(@, _current_text(c, k))]
      BY <2>1, <2>3, KeyIsSome DEF Redraw, _draw
    <3>2. Append(c.row, _current_text(c, k)) = <<_current_text(c, k)>>
      BY <2>3
    <3>3. /\ DOMAIN ui' = Fields /\ ui'.out = <<>> /\ ui'.visible = k
          /\ ui'.pending = c.pending /\ ui'.suffix = c.suffix /\ ui'.counts = c.counts
          /\ ui'.row = <<_current_text(c, k)>>
      BY <2>3, <3>1, <3>2 DEF Fields
    <3>4. _current_text(ui', k) = _current_text(c, k)
      BY <3>3 DEF _current_text
    <3> QED
      BY <2>3, <3>3, <3>4, KeyIsSome DEF Row
  <2>5. Sound(ui')
    BY <1>5, <2>4 DEF Sound
  <2>6. Waiting(ui', Live')
    <3>1. /\ ui.pending \in Seq(Keys) /\ ToSet(ui.pending) = Live
          /\ \A i, j \in DOMAIN ui.pending : ui.pending[i] = ui.pending[j] => i = j
      BY <1>5 DEF IInv, Waiting
    <3>2. Live' = Live \union {k} /\ k \notin Live
      BY <1>1, <1>5 DEF Live
    <3>3. /\ ui'.pending \in Seq(Keys) /\ Len(ui'.pending) = Len(ui.pending) + 1
          /\ \A i \in DOMAIN ui.pending : ui'.pending[i] = ui.pending[i]
          /\ ui'.pending[Len(ui.pending) + 1] = k /\ Len(ui.pending) \in Nat
          /\ DOMAIN ui.pending = 1 .. Len(ui.pending)
          /\ DOMAIN ui'.pending = 1 .. Len(ui.pending) + 1
          /\ ui'.pending # <<>>
      BY <2>4, <3>1
    <3>4. DOMAIN ui'.pending = DOMAIN ui.pending \union {Len(ui.pending) + 1}
      BY <3>3
    <3>5. ToSet(ui'.pending) = Live'
      BY <3>1, <3>2, <3>3, <3>4 DEF ToSet
    <3>6. \A i, j \in DOMAIN ui'.pending : ui'.pending[i] = ui'.pending[j] => i = j
      <4>1. \A i \in DOMAIN ui.pending : ui'.pending[i] # k
        BY <3>1, <3>2, <3>3 DEF ToSet
      <4> QED
        BY <3>1, <3>3, <3>4, <4>1
    <3> QED
      BY <1>5, <2>4, <3>2, <3>3, <3>5, <3>6, KeyIsSome DEF Waiting
  <2>7. Counted(ui', running')
    <3>1. /\ ToSet(ui'.pending) = ToSet(ui.pending) \union {k}
          /\ ToSet(ui.pending) \subseteq DOMAIN running
      BY <1>1, <1>5, <2>6 DEF IInv, Waiting, Live
    <3>2. /\ DOMAIN ui'.suffix = DOMAIN ui.suffix \ {k}
          /\ DOMAIN ui'.counts = DOMAIN ui.counts \ {k}
          /\ \A x \in DOMAIN ui'.counts : ui'.counts[x] = ui.counts[x]
      BY <2>4 DEF Pop, Restrict
    <3>3. /\ DOMAIN ui.suffix \subseteq ToSet(ui.pending)
          /\ DOMAIN ui.counts \subseteq ToSet(ui.pending)
          /\ \A x \in DOMAIN ui.counts : ui.counts[x] \in 1 .. running[x].items
      BY DEF IInv, Counted
    <3> QED
      BY <1>1, <3>1, <3>2, <3>3 DEF Counted
  <2>8. \A i \in DOMAIN ui'.out : Len(ui'.out[i]) = 1
    BY <2>4
  <2> QED
    BY <1>1, <1>2, <1>3, <2>4, <2>5, <2>6, <2>7, <2>8, Leaves
<1> QED
  BY <1>4, <1>5

\* A new suffix is shown at once when its task has the row.
LEMMA TickedIs ==
  ASSUME NEW w, Sound(w), tty, NEW k, NEW u, DOMAIN u = Fields,
         u.visible = w.visible, u.row = w.row,
         DOMAIN u.suffix \ {k} = DOMAIN w.suffix \ {k},
         \A x \in DOMAIN w.suffix \ {k} : u.suffix[x] = w.suffix[x],
         k # None
  PROVE  LET v == Ticked(u, k) IN Same(u, v) /\ Sound(v) /\ v.out = u.out
<1> DEFINE v == Ticked(u, k)
           c == _clear(u)
<1>1. CASE u.visible = k
  <2>1. /\ DOMAIN c = Fields /\ c.row = <<>> /\ c.visible = k /\ c.out = u.out
        /\ c.suffix = u.suffix /\ c.pending = u.pending /\ c.counts = u.counts
    BY <1>1 DEF _clear, Fields
  <2>2. v = Redraw(c)
    BY <1>1 DEF Ticked
  <2> HIDE DEF c, v
  <2>3. v = [c EXCEPT !.row = Append(@, _current_text(c, k))]
    BY <2>1, <2>2 DEF Redraw, _draw
  <2>4. Append(c.row, _current_text(c, k)) = <<_current_text(c, k)>>
    BY <2>1
  <2>5. /\ DOMAIN v = Fields /\ v.out = u.out /\ v.visible = k /\ Same(u, v)
        /\ v.suffix = c.suffix /\ v.row = <<_current_text(c, k)>>
    BY <1>1, <2>1, <2>3, <2>4 DEF Fields, Same
  <2>6. _current_text(v, k) = _current_text(c, k)
    BY <2>5 DEF _current_text
  <2> QED
    BY <2>5, <2>6 DEF Sound, Row, v
<1>2. CASE u.visible # k
  <2>1. v = u
    BY <1>2 DEF Ticked
  <2>2. _current_text(u, u.visible) = _current_text(w, w.visible)
    BY <1>2 DEF _current_text
  <2>3. u.row = Row(u)
    BY <2>2 DEF Sound, Row
  <2> QED
    BY <2>1, <2>3 DEF Sound, Same
<1> QED
  BY <1>1, <1>2

\* The count of a pending task goes up with its items.
LEMMA TickIs ==
  ASSUME IInv, NEW k \in Keys, Going(k), running[k].items < MaxItems,
         running' = [running EXCEPT ![k].items = @ + 1, ![k].owed = FALSE]
  PROVE  LET v == Tick(k, Now)
         IN  /\ Sound(v) /\ Waiting(v, Live) /\ Counted(v, running') /\ v.out = <<>>
<1> DEFINE v == Tick(k, Now)
<1>0. /\ Sound(Now) /\ Waiting(Now, Live) /\ Counted(Now, running)
      /\ Now.out = <<>> /\ Same(ui, Now)
  BY NowIs
<1>1. k \in DOMAIN running /\ running[k].items \in Nat
  BY DEF Going, IInv, Typed
<1>2. /\ running'[k].items = running[k].items + 1
      /\ \A x \in DOMAIN running \ {k} : running'[x] = running[x]
  <2>1. running[k] \in [items : 0 .. MaxItems, diffs : Nat, owed : BOOLEAN]
    BY <1>1 DEF IInv, Typed
  <2> QED
    BY <1>1, <2>1
<1>3. ToSet(Now.pending) \subseteq DOMAIN running
  BY <1>0 DEF Waiting, Live
<1>4. CASE ~tty \/ k \notin ToSet(ui.pending)
  <2>1. v = Now
    BY <1>4 DEF Tick
  <2>2. k \notin ToSet(Now.pending)
    <3>1. CASE ~tty
      BY <1>0, <3>1 DEF Waiting
    <3>2. CASE k \notin ToSet(ui.pending)
      BY <1>0, <3>2 DEF Same
    <3> QED
      BY <1>4, <3>1, <3>2
  <2>3. Counted(Now, running')
    <3>1. \A x \in DOMAIN Now.counts : x \in DOMAIN running \ {k}
      BY <1>0, <1>3, <2>2 DEF Counted
    <3> HIDE DEF Now
    <3> QED
      BY <1>0, <1>2, <3>1 DEF Counted
  <2> QED
    BY <1>0, <2>1, <2>3
<1>5. CASE tty /\ k \in ToSet(ui.pending)
  <2> DEFINE n == (IF k \in DOMAIN Now.counts THEN Now.counts[k] ELSE 0) + 1
             F(f) == [x \in DOMAIN f \union {k} |-> IF x = k THEN n ELSE f[x]]
             u == [Now EXCEPT !.counts = F(@), !.suffix = F(@)]
  <2>1. v = Ticked(u, k)
    BY <1>5 DEF Tick
  <2>2. /\ DOMAIN u = Fields /\ u.pending = Now.pending /\ u.visible = Now.visible
        /\ u.row = Now.row /\ u.out = <<>>
        /\ u.counts = F(Now.counts) /\ u.suffix = F(Now.suffix)
    <3>1. DOMAIN Now = Fields
      BY <1>0 DEF Sound
    <3> HIDE DEF Now, n
    <3> QED
      BY <1>0, <3>1 DEF Fields
  <2>3. n \in 1 .. running'[k].items
    <3>1. CASE k \in DOMAIN Now.counts
      <4>1. Now.counts[k] \in 1 .. running[k].items
        BY <1>0, <3>1 DEF Counted
      <4> HIDE DEF Now
      <4> QED
        BY <1>1, <1>2, <3>1, <4>1
    <3>2. CASE k \notin DOMAIN Now.counts
      BY <1>1, <1>2, <3>2
    <3> QED
      BY <3>1, <3>2
  <2> HIDE DEF n
  <2>4. /\ DOMAIN u.suffix = DOMAIN Now.suffix \union {k}
        /\ \A x \in DOMAIN Now.suffix \ {k} : u.suffix[x] = Now.suffix[x]
        /\ DOMAIN u.counts = DOMAIN Now.counts \union {k} /\ u.counts[k] = n
        /\ \A x \in DOMAIN Now.counts \ {k} : u.counts[x] = Now.counts[x]
    BY <2>2
  <2> HIDE DEF u, v
  <2>5. Same(u, v) /\ Sound(v) /\ v.out = u.out
    <3>1. DOMAIN u.suffix \ {k} = DOMAIN Now.suffix \ {k}
      BY <2>4
    <3> QED
      BY <1>0, <1>5, <2>1, <2>2, <2>4, <3>1, KeyIsSome, TickedIs
  <2>6. Waiting(v, Live)
    BY <1>0, <2>2, <2>5 DEF Waiting, Same
  <2>7. Counted(v, running')
    <3>1. k \in ToSet(Now.pending)
      BY <1>0, <1>5 DEF Same
    <3>2. \A x \in DOMAIN v.counts : v.counts[x] \in 1 .. running'[x].items
      <4> SUFFICES ASSUME NEW x \in DOMAIN v.counts
                   PROVE  v.counts[x] \in 1 .. running'[x].items
        OBVIOUS
      <4>1. CASE x = k
        BY <2>3, <2>4, <2>5, <4>1 DEF Same
      <4>2. CASE x # k
        <5>1. x \in DOMAIN Now.counts /\ v.counts[x] = Now.counts[x]
          BY <2>4, <2>5, <4>2 DEF Same
        <5>2. running'[x] = running[x]
          BY <1>0, <1>2, <1>3, <4>2, <5>1 DEF Counted
        <5> QED
          BY <1>0, <5>1, <5>2 DEF Counted
      <4> QED
        BY <4>1, <4>2
    <3> QED
      BY <1>0, <2>2, <2>4, <2>5, <3>1, <3>2 DEF Counted, Same
  <2> QED
    BY <2>2, <2>5, <2>6, <2>7 DEF v
<1> QED
  BY <1>4, <1>5

\* What is displayed without a change of the tasks that are pending.
LEMMA DisplayKeeps ==
  ASSUME IInv, NEW u, Sound(u), u.out = <<>>, NEW M, Waiting(u, M), NEW tasks, Counted(u, tasks),
         NEW L, NEW lines \in Seq(L)
  PROVE  LET v == display(u, lines)
         IN  /\ Sound(v) /\ Waiting(v, M) /\ Counted(v, tasks)
             /\ DOMAIN v.out = DOMAIN lines
             /\ \A i \in DOMAIN lines : v.out[i] = <<lines[i]>>
             /\ \A i \in DOMAIN v.out : Len(v.out[i]) = 1
<1> DEFINE v == display(u, lines)
<1>1. /\ Same(u, v) /\ Sound(v) /\ DOMAIN v.out = DOMAIN lines
      /\ \A i \in DOMAIN lines : v.out[i] = <<lines[i]>>
  BY DisplayIs
<1> HIDE DEF v
<1>2. Waiting(v, M) /\ Counted(v, tasks)
  BY <1>1 DEF Same, Waiting, Counted
<1>3. ASSUME NEW i \in DOMAIN v.out PROVE Len(v.out[i]) = 1
  <2>1. v.out[i] = <<lines[i]>>
    BY <1>1
  <2> QED
    BY <2>1
<1> QED
  BY <1>1, <1>2, <1>3 DEF v

LEMMA DiffKeeps ==
  ASSUME IInv, NEW k \in Keys, NEW changed \in BOOLEAN, v2_on_file_diff(k, changed)
  PROVE  IInv' /\ ui'.out = <<>>
<1> DEFINE buf == IF k \in DOMAIN diffs THEN diffs[k] ELSE <<>>
           d == running[k].diffs
           more == IF changed THEN Append(buf, d + 1) ELSE buf
<1>1. /\ k \in DOMAIN running /\ k[1] \notin Includes /\ k[1] \notin Debugs
      /\ UNCHANGED <<options, starts, over>> /\ ui' = Now
      /\ diffs' = [x \in DOMAIN diffs \union {k} |-> IF x = k THEN more ELSE diffs[x]]
      /\ running' = [running EXCEPT ![k].owed = TRUE,
                                    ![k].diffs = IF changed THEN @ + 1 ELSE @]
  BY DEF v2_on_file_diff, Going
<1>2. running[k] \in [items : 0 .. MaxItems, diffs : Nat, owed : BOOLEAN]
  BY <1>1 DEF IInv, Typed
<1>3. /\ DOMAIN running' = DOMAIN running
      /\ running'[k].items = running[k].items
      /\ running'[k].diffs = IF changed THEN d + 1 ELSE d
      /\ running'[k] \in [items : 0 .. MaxItems, diffs : Nat, owed : BOOLEAN]
      /\ \A x \in DOMAIN running \ {k} : running'[x] = running[x]
  <2> DEFINE e == IF changed THEN d + 1 ELSE d
  <2>1. d \in Nat /\ e \in Nat
    BY <1>2
  <2>2. running'[k] = [running[k] EXCEPT !.owed = TRUE, !.diffs = e]
    BY <1>1, <1>2
  <2>3. DOMAIN running' = DOMAIN running /\ \A x \in DOMAIN running \ {k} : running'[x] = running[x]
    BY <1>1
  <2> HIDE DEF e
  <2>4. /\ running'[k] \in [items : 0 .. MaxItems, diffs : Nat, owed : BOOLEAN]
        /\ running'[k].diffs = e /\ running'[k].items = running[k].items
    BY <1>2, <2>1, <2>2
  <2> QED
    BY <2>3, <2>4 DEF e
<1>4. Typed'
  BY <1>1, <1>3 DEF IInv, Typed
<1>5. buf = [n \in 1 .. d |-> n]
  <2>1. CASE k \in DOMAIN diffs
    BY <1>1, <2>1 DEF IInv, Buffered
  <2>2. CASE k \notin DOMAIN diffs
    <3>1. d = 0
      BY <1>1, <2>2 DEF IInv, Buffered
    <3>2. [n \in 1 .. 0 |-> n] = <<>>
      OBVIOUS
    <3> QED
      BY <2>2, <3>1, <3>2
  <2> QED
    BY <2>1, <2>2
<1>6. more = [n \in 1 .. running'[k].diffs |-> n]
  <2>1. d \in Nat
    BY <1>2
  <2>2. CASE changed
    <3>1. buf \in Seq(Nat) /\ Len(buf) = d /\ \A n \in 1 .. d : buf[n] = n
      <4> HIDE DEF d, buf
      <4> QED
        BY <1>5, <2>1
    <3> HIDE DEF d, buf
    <3>2. /\ Append(buf, d + 1) \in Seq(Nat) /\ Len(Append(buf, d + 1)) = d + 1
          /\ \A n \in 1 .. d + 1 : Append(buf, d + 1)[n] = n
      BY <2>1, <3>1
    <3>3. Append(buf, d + 1) = [n \in 1 .. d + 1 |-> n]
      BY <2>1, <3>2
    <3> QED
      BY <1>3, <2>2, <3>3
  <2>3. CASE ~changed
    BY <1>3, <1>5, <2>3
  <2> QED
    BY <2>2, <2>3
<1> HIDE DEF more, buf, d
<1>7. Buffered'
  <2>1. /\ DOMAIN diffs' = DOMAIN diffs \union {k} /\ diffs'[k] = more
        /\ \A x \in DOMAIN diffs \ {k} : diffs'[x] = diffs[x]
    BY <1>1
  <2> QED
    BY <1>1, <1>3, <1>6, <2>1 DEF IInv, Buffered
<1>8. /\ Sound(ui') /\ Waiting(ui', Live') /\ ui'.out = <<>>
  BY <1>1, <1>3, NowIs DEF Live
<1>9. Counted(ui', running')
  <2>1. Counted(Now, running) /\ Waiting(Now, Live)
    BY NowIs
  <2>2. DOMAIN Now.counts \subseteq DOMAIN running
    BY <2>1 DEF Counted, Waiting, Live
  <2>3. \A x \in DOMAIN Now.counts : running'[x].items = running[x].items
    BY <1>3, <2>2
  <2> HIDE DEF Now
  <2> QED
    BY <1>1, <2>1, <2>3 DEF Counted
<1>10. \A i \in DOMAIN ui'.out : Len(ui'.out[i]) = 1
  BY <1>8
<1> QED
  BY <1>1, <1>4, <1>7, <1>8, <1>9, <1>10, Leaves

LEMMA ItemKeeps ==
  ASSUME IInv, NEW k \in Keys, Item(k, ui'), Sound(ui'), Waiting(ui', Live), Counted(ui', running'),
         \A i \in DOMAIN ui'.out : Len(ui'.out[i]) = 1
  PROVE  IInv'
<1>1. /\ k \in DOMAIN running /\ running[k].items < MaxItems
      /\ UNCHANGED <<options, diffs, starts, over>>
      /\ running' = [running EXCEPT ![k].items = @ + 1, ![k].owed = FALSE]
  BY DEF Item, Going
<1>2. running[k] \in [items : 0 .. MaxItems, diffs : Nat, owed : BOOLEAN]
  BY <1>1 DEF IInv, Typed
<1>3. /\ DOMAIN running' = DOMAIN running /\ running'[k].diffs = running[k].diffs
      /\ running'[k] \in [items : 0 .. MaxItems, diffs : Nat, owed : BOOLEAN]
      /\ \A x \in DOMAIN running \ {k} : running'[x] = running[x]
  BY <1>1, <1>2
<1>4. Typed'
  BY <1>1, <1>3 DEF IInv, Typed
<1>5. Buffered'
  BY <1>1, <1>3 DEF IInv, Buffered
<1>6. Waiting(ui', Live')
  BY <1>3 DEF Live
<1> QED
  BY <1>1, <1>4, <1>5, <1>6, Leaves

\* The kinds of lines that are not of a result with diffs.
Quiet == {"item", "retry", "ok", "unreachable", "skipped", "error", "warning", "message", "stats"}
Entries(kinds) == [kind : kinds, key : Keys \union {None}, n : Nat]

\* The last callback printed the lines, each on a row of its own.
Printed(lines) ==
  /\ DOMAIN ui'.out = DOMAIN lines
  /\ \A i \in DOMAIN lines : ui'.out[i] = <<lines[i]>>

LEMMA ItemLinesKeep ==
  ASSUME IInv, NEW k \in Keys, NEW lines \in Seq(Entries(Quiet)),
         Item(k, display(Tick(k, Now), lines))
  PROVE  IInv' /\ Printed(lines)
<1> DEFINE t == Tick(k, Now)
<1>1. Item(k, ui') /\ ui' = display(t, lines)
  BY DEF Item
<1>2. /\ Going(k) /\ running[k].items < MaxItems
      /\ running' = [running EXCEPT ![k].items = @ + 1, ![k].owed = FALSE]
  BY DEF Item
<1>3. Sound(t) /\ Waiting(t, Live) /\ Counted(t, running') /\ t.out = <<>>
  BY <1>2, TickIs
<1> HIDE DEF t
<1>4. /\ Sound(ui') /\ Waiting(ui', Live) /\ Counted(ui', running') /\ Printed(lines)
      /\ \A i \in DOMAIN ui'.out : Len(ui'.out[i]) = 1
  BY <1>1, <1>3, DisplayKeeps DEF Printed
<1> QED
  BY <1>1, <1>4, ItemKeeps

LEMMA ItemTickKeeps ==
  ASSUME IInv, NEW k \in Keys, Item(k, Tick(k, Now))
  PROVE  IInv' /\ ui'.out = <<>>
<1>1. Item(k, ui') /\ ui' = Tick(k, Now)
  BY DEF Item
<1>2. /\ Going(k) /\ running[k].items < MaxItems
      /\ running' = [running EXCEPT ![k].items = @ + 1, ![k].owed = FALSE]
  BY DEF Item
<1>3. /\ Sound(ui') /\ Waiting(ui', Live) /\ Counted(ui', running') /\ ui'.out = <<>>
  BY <1>1, <1>2, TickIs
<1>4. \A i \in DOMAIN ui'.out : Len(ui'.out[i]) = 1
  BY <1>3
<1> QED
  BY <1>1, <1>3, <1>4, ItemKeeps

LEMMA LinesKeep ==
  ASSUME IInv, UNCHANGED <<options, diffs, running, starts, over>>,
         NEW L, NEW lines \in Seq(L), ui' = display(Now, lines)
  PROVE  IInv' /\ Printed(lines)
<1>0. Sound(Now) /\ Waiting(Now, Live) /\ Counted(Now, running) /\ Now.out = <<>>
  BY NowIs
<1>1. Typed' /\ Buffered' /\ Live' = Live
  BY DEF IInv, Typed, Buffered, Live
<1> HIDE DEF Now
<1>2. /\ Sound(ui') /\ Waiting(ui', Live) /\ Counted(ui', running) /\ Printed(lines)
      /\ \A i \in DOMAIN ui'.out : Len(ui'.out[i]) = 1
  BY <1>0, DisplayKeeps DEF Printed
<1> QED
  BY <1>1, <1>2, Leaves

LEMMA RetryKeeps ==
  ASSUME IInv, NEW k \in Keys, v2_runner_retry(k)
  PROVE  IInv' /\ (ui'.out = <<>> \/ Printed(<<Entry("retry", k, 0)>>))
<1>0. /\ Sound(Now) /\ Waiting(Now, Live) /\ Counted(Now, running)
      /\ Now.out = <<>> /\ Same(ui, Now)
  BY NowIs
<1>1. UNCHANGED <<options, diffs, running, starts, over>>
  BY DEF v2_runner_retry
<1>2. Typed' /\ Buffered' /\ Live' = Live
  BY <1>1 DEF IInv, Typed, Buffered, Live
<1>3. CASE ~tty
  <2>1. ui' = display(Now, <<Entry("retry", k, 0)>>)
    BY <1>3 DEF v2_runner_retry
  <2>2. <<Entry("retry", k, 0)>> \in Seq(Entries(Quiet))
    BY DEF Entry, Entries, Quiet
  <2> QED
    BY <1>1, <2>1, <2>2, LinesKeep
<1>4. CASE tty /\ k \notin ToSet(ui.pending)
  <2>1. ui' = Now
    BY <1>4 DEF v2_runner_retry
  <2>2. Sound(ui') /\ Waiting(ui', Live) /\ Counted(ui', running) /\ ui'.out = <<>>
    BY <1>0, <2>1
  <2>3. \A i \in DOMAIN ui'.out : Len(ui'.out[i]) = 1
    BY <2>2
  <2> QED
    BY <1>1, <1>2, <2>2, <2>3, Leaves
<1>5. CASE tty /\ k \in ToSet(ui.pending)
  <2> DEFINE suffix == [x \in DOMAIN Now.suffix \union {k} |->
                          IF x = k THEN Retrying ELSE Now.suffix[x]]
             u == [Now EXCEPT !.suffix = suffix]
  <2>1. ui' = Ticked(u, k)
    BY <1>5 DEF v2_runner_retry
  <2>2. /\ DOMAIN u = Fields /\ u.pending = Now.pending /\ u.visible = Now.visible
        /\ u.row = Now.row /\ u.out = <<>> /\ u.counts = Now.counts
        /\ u.suffix = suffix
    <3>1. DOMAIN Now = Fields
      BY <1>0 DEF Sound
    <3> HIDE DEF Now, suffix
    <3> QED
      BY <1>0, <3>1 DEF Fields
  <2>3. /\ DOMAIN suffix = DOMAIN Now.suffix \union {k}
        /\ \A x \in DOMAIN Now.suffix \ {k} : suffix[x] = Now.suffix[x]
    OBVIOUS
  <2> HIDE DEF u, suffix
  <2>4. Same(u, ui') /\ Sound(ui') /\ ui'.out = <<>>
    <3>1. DOMAIN u.suffix \ {k} = DOMAIN Now.suffix \ {k}
      BY <2>2, <2>3
    <3>2. \A x \in DOMAIN Now.suffix \ {k} : u.suffix[x] = Now.suffix[x]
      BY <2>2, <2>3
    <3> HIDE DEF Now
    <3> QED
      BY <1>0, <1>5, <2>1, <2>2, <3>1, <3>2, KeyIsSome, TickedIs
  <2>5. Waiting(ui', Live)
    BY <1>0, <2>2, <2>4 DEF Waiting, Same
  <2>6. Counted(ui', running)
    <3>1. k \in ToSet(Now.pending)
      BY <1>0, <1>5 DEF Same
    <3> QED
      BY <1>0, <2>2, <2>3, <2>4, <3>1 DEF Counted, Same
  <2>7. \A i \in DOMAIN ui'.out : Len(ui'.out[i]) = 1
    BY <2>4
  <2> QED
    BY <1>1, <1>2, <2>4, <2>5, <2>6, <2>7, Leaves
<1> QED
  BY <1>3, <1>4, <1>5

LEMMA MessageKeeps ==
  ASSUME IInv, NEW log_only \in BOOLEAN, Message(log_only)
  PROVE  IInv' /\ (ui'.out = <<>> \/ Printed(<<Entry("message", None, 0)>>))
<1>0. Sound(Now) /\ Waiting(Now, Live) /\ Counted(Now, running) /\ Now.out = <<>>
  BY NowIs
<1>1. UNCHANGED <<options, diffs, running, starts, over>>
  BY DEF Message
<1>2. Typed' /\ Buffered' /\ Live' = Live
  BY <1>1 DEF IInv, Typed, Buffered, Live
<1>3. CASE log_only
  <2>1. Sound(ui') /\ Waiting(ui', Live) /\ Counted(ui', running) /\ ui'.out = <<>>
    BY <1>0, <1>3 DEF Message
  <2>2. \A i \in DOMAIN ui'.out : Len(ui'.out[i]) = 1
    BY <2>1
  <2> QED
    BY <1>1, <1>2, <2>1, <2>2, Leaves
<1>4. CASE ~log_only
  <2>1. ui' = display(Now, <<Entry("message", None, 0)>>)
    BY <1>4 DEF Message
  <2>2. <<Entry("message", None, 0)>> \in Seq(Entries(Quiet))
    BY DEF Entry, Entries, Quiet
  <2> QED
    BY <1>1, <2>1, <2>2, LinesKeep
<1> QED
  BY <1>3, <1>4

LEMMA StatsKeep ==
  ASSUME IInv, v2_playbook_on_stats
  PROVE  IInv' /\ Printed(<<Entry("stats", None, 0)>>)
<1> DEFINE u == IF ui.visible = None THEN Now ELSE [_clear(Now) EXCEPT !.visible = None]
           line == Entry("stats", None, 0)
<1>1. /\ UNCHANGED <<options, diffs, running, starts>> /\ over' = TRUE
      /\ DOMAIN running = {} /\ ui' = Emit(u, line)
  BY DEF v2_playbook_on_stats
<1>2. Typed' /\ Buffered' /\ Live' = Live /\ Live = {}
  BY <1>1 DEF IInv, Typed, Buffered, Live
<1>3. /\ Sound(Now) /\ Waiting(Now, Live) /\ Counted(Now, running)
      /\ Now.out = <<>> /\ Same(ui, Now)
  BY NowIs
<1>4. Now.visible = None
  BY <1>2, <1>3, EmptyList DEF Waiting
<1>5. u = Now /\ Now.row = <<>>
  BY <1>3, <1>4 DEF Same, Sound, Row
<1> HIDE DEF u
<1>6. /\ DOMAIN ui' = Fields /\ Same(Now, ui') /\ ui'.row = <<>>
      /\ ui'.out = <<<<line>>>>
  <2>1. DOMAIN Now = Fields
    BY <1>3 DEF Sound
  <2>2. Append(Now.row, line) = <<line>>
    BY <1>5
  <2> HIDE DEF Now, line
  <2>3. Append(Now.out, <<line>>) = <<<<line>>>>
    BY <1>3
  <2> QED
    BY <1>1, <1>5, <2>1, <2>2, <2>3 DEF Emit, Same, Fields
<1> HIDE DEF line
<1>7. Sound(ui') /\ Waiting(ui', Live) /\ Counted(ui', running)
  BY <1>3, <1>4, <1>5, <1>6 DEF Sound, Row, Same, Waiting, Counted
<1>8. Printed(<<line>>) /\ \A i \in DOMAIN ui'.out : Len(ui'.out[i]) = 1
  BY <1>6 DEF Printed
<1> QED
  BY <1>1, <1>2, <1>7, <1>8, Leaves DEF line

\* A task that ended takes its pending line and its diffs with it.
LEMMA EndKeeps ==
  ASSUME IInv, NEW k \in Keys, Result(k, ui'), Sound(ui'), Waiting(ui', Live \ {k}),
         Counted(ui', running), \A i \in DOMAIN ui'.out : Len(ui'.out[i]) = 1
  PROVE  IInv'
<1>1. /\ DOMAIN running' = DOMAIN running \ {k}
      /\ \A x \in DOMAIN running' : running'[x] = running[x]
      /\ DOMAIN diffs' = DOMAIN diffs \ {k}
      /\ \A x \in DOMAIN diffs' : diffs'[x] = diffs[x]
      /\ UNCHANGED <<options, starts, over>>
  BY DEF Result, Pop, Restrict
<1>2. Typed'
  BY <1>1 DEF IInv, Typed
<1>3. Buffered'
  BY <1>1 DEF IInv, Buffered
<1>4. Live' = Live \ {k}
  BY <1>1 DEF Live
<1>5. DOMAIN ui'.counts \subseteq DOMAIN running'
  BY <1>1, <1>4 DEF Waiting, Counted, Live
<1>6. Counted(ui', running')
  BY <1>1, <1>5 DEF Counted
<1> QED
  BY <1>1, <1>2, <1>3, <1>4, <1>6, Leaves

LEMMA EndLinesKeep ==
  ASSUME IInv, NEW k \in Keys, NEW L, NEW lines \in Seq(L),
         Result(k, display(_finalize(Now, k), lines))
  PROVE  IInv' /\ Printed(lines)
<1> DEFINE t == _finalize(Now, k)
<1>1. Result(k, ui') /\ ui' = display(t, lines)
  BY DEF Result
<1>2. Sound(t) /\ Waiting(t, Live \ {k}) /\ Counted(t, running) /\ t.out = <<>>
  BY NowIs, FinalizeIs
<1> HIDE DEF t
<1>3. /\ Sound(ui') /\ Waiting(ui', Live \ {k}) /\ Counted(ui', running) /\ Printed(lines)
      /\ \A i \in DOMAIN ui'.out : Len(ui'.out[i]) = 1
  BY <1>1, <1>2, DisplayKeeps DEF Printed
<1> QED
  BY <1>1, <1>3, EndKeeps

LEMMA EndSilentKeeps ==
  ASSUME IInv, NEW k \in Keys, Result(k, _finalize(Now, k))
  PROVE  IInv' /\ ui'.out = <<>>
<1>1. Result(k, ui') /\ ui' = _finalize(Now, k)
  BY DEF Result
<1>2. Sound(ui') /\ Waiting(ui', Live \ {k}) /\ Counted(ui', running) /\ ui'.out = <<>>
  BY <1>1, NowIs, FinalizeIs
<1>3. \A i \in DOMAIN ui'.out : Len(ui'.out[i]) = 1
  BY <1>2
<1> QED
  BY <1>1, <1>2, <1>3, EndKeeps

----------------------------------------------------------------------------
(* Where the diffs are printed *)

Said == [i \in DOMAIN ui'.out |-> ui'.out[i][Len(ui'.out[i])]]

LEMMA SilentFollows == ASSUME ui'.out = <<>> PROVE DiffsFollow(Said)
BY DEF DiffsFollow, Said

LEMMA SaidIs ==
  ASSUME NEW L, NEW lines \in Seq(L), Printed(lines)
  PROVE  Said = lines
<1>1. ASSUME NEW i \in DOMAIN lines PROVE ui'.out[i][Len(ui'.out[i])] = lines[i]
  <2>1. ui'.out[i] = <<lines[i]>>
    BY DEF Printed
  <2> QED
    BY <2>1
<1>2. lines = [i \in DOMAIN lines |-> lines[i]]
  OBVIOUS
<1> QED
  BY <1>1, <1>2 DEF Printed, Said

LEMMA QuietFollows ==
  ASSUME NEW lines \in Seq(Entries(Quiet)), Printed(lines)
  PROVE  DiffsFollow(Said)
<1>1. \A i \in DOMAIN lines : lines[i].kind \notin {"changed", "failed", "diff"}
  <2>1. \A i \in DOMAIN lines : lines[i] \in Entries(Quiet)
    OBVIOUS
  <2> QED
    BY <2>1 DEF Entries, Quiet
<1>2. DiffsFollow(lines)
  BY <1>1 DEF DiffsFollow
<1> QED
  BY <1>2, SaidIs

\* A result's line, at most one error, its diffs, and nothing else of the kind.
LEMMA ResultFollows ==
  ASSUME NEW k \in DOMAIN running \ DOMAIN running', NEW L, NEW lines \in Seq(L), Printed(lines),
         NEW e \in {0, 1}, NEW d \in Nat, d = running[k].diffs, 1 + e + d <= Len(lines),
         lines[1].kind \in {"changed", "failed"}, lines[1].key = k,
         2 \in DOMAIN lines => (lines[2].kind = "error" <=> e = 1),
         \A n \in 1 .. d : lines[1 + e + n] = Entry("diff", k, n),
         \A i \in DOMAIN lines \ {1} : lines[i].kind \notin {"changed", "failed"},
         \A j \in DOMAIN lines : lines[j].kind = "diff" => j - (1 + e) \in 1 .. d
  PROVE  DiffsFollow(Said)
<1> DEFINE results == {i \in DOMAIN lines : lines[i].kind \in {"changed", "failed"}}
           after(i) == IF i + 1 \in DOMAIN lines /\ lines[i + 1].kind = "error" THEN i + 1 ELSE i
<1>1. Len(lines) \in Nat /\ DOMAIN lines = 1 .. Len(lines)
  OBVIOUS
<1>2. 1 \in DOMAIN lines /\ results = {1}
  BY <1>1
<1>3. after(1) = 1 + e
  BY <1>1
<1>4. \A n \in 1 .. d : after(1) + n \in DOMAIN lines /\ lines[after(1) + n] = Entry("diff", k, n)
  BY <1>1, <1>3
<1>5. ASSUME NEW j \in DOMAIN lines, lines[j].kind = "diff"
      PROVE  \E n \in 1 .. running[lines[1].key].diffs : j = after(1) + n
  <2>1. j - (1 + e) \in 1 .. d /\ j = (1 + e) + (j - (1 + e))
    BY <1>1, <1>5
  <2> QED
    BY <1>3, <2>1
<1>6. /\ \A i \in results : \E x \in DOMAIN running \ DOMAIN running' :
           /\ lines[i].key = x
           /\ \A n \in 1 .. running[x].diffs :
                after(i) + n \in DOMAIN lines /\ lines[after(i) + n] = Entry("diff", x, n)
      /\ \A j \in DOMAIN lines : lines[j].kind = "diff" =>
           \E i \in results : \E n \in 1 .. running[lines[i].key].diffs : j = after(i) + n
  <2> HIDE DEF after, results
  <2>1. ASSUME NEW i \in results
        PROVE  \E x \in DOMAIN running \ DOMAIN running' :
                 /\ lines[i].key = x
                 /\ \A n \in 1 .. running[x].diffs :
                      after(i) + n \in DOMAIN lines /\ lines[after(i) + n] = Entry("diff", x, n)
    <3>1. i = 1
      BY <1>2, <2>1
    <3> QED
      BY <1>4, <3>1
  <2>2. ASSUME NEW j \in DOMAIN lines, lines[j].kind = "diff"
        PROVE  \E i \in results : \E n \in 1 .. running[lines[i].key].diffs : j = after(i) + n
    BY <1>2, <1>5, <2>2
  <2> QED
    BY <2>1, <2>2
<1>7. DiffsFollow(lines)
  BY <1>6 DEF DiffsFollow
<1> QED
  BY <1>7, SaidIs

\* The lines of the buffer are the diffs of the task, in order.
LEMMA FlushIs ==
  ASSUME IInv, NEW k \in DOMAIN running
  PROVE  /\ _flush_diffs(k) \in Seq(Entries({"diff"})) /\ Len(_flush_diffs(k)) = running[k].diffs
         /\ \A n \in 1 .. running[k].diffs : _flush_diffs(k)[n] = Entry("diff", k, n)
<1>1. k \in Keys /\ running[k].diffs \in Nat
  BY DEF IInv, Typed
<1>2. CASE k \in DOMAIN diffs
  <2> DEFINE d == running[k].diffs
             ds == diffs[k]
             es == [i \in DOMAIN ds |-> Entry("diff", k, ds[i])]
  <2>1. ds = [n \in 1 .. d |-> n]
    BY <1>2 DEF IInv, Buffered
  <2>2. _flush_diffs(k) = es
    BY <1>2 DEF _flush_diffs
  <2>3. DOMAIN ds = 1 .. d /\ \A n \in 1 .. d : ds[n] = n
    <3> HIDE DEF d, ds
    <3> QED
      BY <2>1
  <2> HIDE DEF ds
  <2>4. DOMAIN es = 1 .. d /\ \A n \in 1 .. d : es[n] = Entry("diff", k, n)
    BY <2>3
  <2>5. \A n \in 1 .. d : Entry("diff", k, n) \in Entries({"diff"})
    BY <1>1 DEF Entry, Entries
  <2>6. es = [n \in 1 .. d |-> es[n]]
    BY <2>3
  <2> HIDE DEF es
  <2>7. es \in [1 .. d -> Entries({"diff"})]
    BY <2>4, <2>5, <2>6
  <2>8. es \in Seq(Entries({"diff"})) /\ Len(es) = d
    BY <1>1, <2>7
  <2> QED
    BY <2>2, <2>4, <2>8
<1>3. CASE k \notin DOMAIN diffs
  BY <1>3 DEF IInv, Buffered, _flush_diffs
<1> QED
  BY <1>2, <1>3

LEMMA OkKeeps ==
  ASSUME IInv, NEW k \in Keys, NEW changed \in BOOLEAN, v2_runner_on_ok(k, changed)
  PROVE  IInv' /\ DiffsFollow(Said)
<1> DEFINE d == running[k].diffs
           ds == _flush_diffs(k)
           kind == IF changed /\ k[1] \notin Debugs THEN "changed" ELSE "ok"
<1>1. k \in DOMAIN running /\ (d > 0 => changed) /\ d \in Nat
  BY DEF v2_runner_on_ok, IInv, Typed
<1>2. CASE k[1] \in Includes \/ (~changed /\ k[1] \notin Debugs /\ ~options.ok)
  <2>1. Result(k, _finalize(Now, k))
    BY <1>2 DEF v2_runner_on_ok
  <2> QED
    BY <2>1, EndSilentKeeps, SilentFollows
<1>3. CASE ~(k[1] \in Includes \/ (~changed /\ k[1] \notin Debugs /\ ~options.ok))
  <2>1. PICK warnings \in Warnings(k) :
          Result(k, display(_finalize(Now, k), <<Entry(kind, k, 0)>> \o ds \o warnings))
    BY <1>3 DEF v2_runner_on_ok
  <2> DEFINE lines == <<Entry(kind, k, 0)>> \o ds \o warnings
             w == Len(warnings)
             All == Entries({"changed", "ok", "diff", "warning"})
  <2>2. /\ ds \in Seq(Entries({"diff"})) /\ Len(ds) = d
        /\ \A n \in 1 .. d : ds[n] = Entry("diff", k, n)
    BY <1>1, FlushIs
  <2>3. /\ w \in {0, 1} /\ warnings \in Seq(Entries({"warning"}))
        /\ w = 1 => warnings[1] = Entry("warning", k, 0)
    <3>1. CASE warnings = <<>>
      BY <3>1
    <3>2. CASE warnings = <<Entry("warning", k, 0)>>
      <4>1. Entry("warning", k, 0) \in Entries({"warning"})
        BY DEF Entry, Entries
      <4> QED
        BY <3>2, <4>1
    <3> QED
      BY <3>1, <3>2 DEF Warnings
  <2>4. Entry(kind, k, 0) \in All /\ Entry(kind, k, 0).kind = kind /\ Entry(kind, k, 0).key = k
    BY DEF Entry, Entries
  <2> HIDE DEF ds, kind
  <2>5. /\ lines \in Seq(All) /\ Len(lines) = 1 + d + w
        /\ lines[1] = Entry(kind, k, 0)
        /\ \A n \in 1 .. d : lines[1 + n] = Entry("diff", k, n)
        /\ w = 1 => lines[1 + d + 1] = Entry("warning", k, 0)
    <3>1. ds \in Seq(All) /\ warnings \in Seq(All)
      <4>1. Entries({"diff"}) \subseteq All /\ Entries({"warning"}) \subseteq All
        BY DEF Entries
      <4> QED
        BY <2>2, <2>3, <4>1
    <3> DEFINE e == Entry(kind, k, 0)
               front == <<e>> \o ds
    <3> HIDE DEF All, e
    <3>2. <<e>> \in Seq(All) /\ Len(<<e>>) = 1 /\ <<e>>[1] = e
      BY <2>4 DEF e
    <3>3. /\ front \in Seq(All) /\ Len(front) = 1 + d /\ front[1] = e
          /\ \A n \in 1 .. d : front[1 + n] = ds[n]
      BY <2>2, <3>1, <3>2, ConcatIs
    <3>4. lines = front \o warnings
      BY DEF e
    <3> HIDE DEF front, lines, w, d
    <3>5. /\ lines \in Seq(All) /\ Len(lines) = 1 + d + w
          /\ \A n \in 1 .. 1 + d : lines[n] = front[n]
          /\ \A n \in 1 .. w : lines[1 + d + n] = warnings[n]
      <4>1. /\ lines \in Seq(All) /\ Len(lines) = Len(front) + Len(warnings)
            /\ \A n \in 1 .. Len(front) : lines[n] = front[n]
            /\ \A n \in 1 .. Len(warnings) : lines[Len(front) + n] = warnings[n]
        <5>1. front \in Seq(All) /\ warnings \in Seq(All)
          BY <3>1, <3>3
        <5>2. /\ front \o warnings \in Seq(All)
              /\ Len(front \o warnings) = Len(front) + Len(warnings)
              /\ \A n \in 1 .. Len(front) : (front \o warnings)[n] = front[n]
              /\ \A n \in 1 .. Len(warnings) : (front \o warnings)[Len(front) + n] = warnings[n]
          BY <5>1, ConcatIs
        <5> QED
          BY <3>4, <5>2
      <4> QED
        BY <3>3, <4>1 DEF w
    <3>6. /\ lines[1] = e /\ \A n \in 1 .. d : lines[1 + n] = ds[n]
          /\ w = 1 => lines[1 + d + 1] = warnings[1]
      BY <1>1, <3>3, <3>5
    <3> QED
      BY <2>2, <2>3, <3>5, <3>6 DEF e
  <2> HIDE DEF lines, All, w, d
  <2>6. IInv' /\ Printed(lines)
    BY <2>1, <2>5, EndLinesKeep DEF lines
  <2>7. k \in DOMAIN running \ DOMAIN running'
    BY <1>1, <2>1 DEF Result, Pop, Restrict
  <2>8. /\ DOMAIN lines = 1 .. 1 + d + w
        /\ \A i \in DOMAIN lines : \/ i = 1
                                   \/ i - 1 \in 1 .. d /\ lines[i] = Entry("diff", k, i - 1)
                                   \/ w = 1 /\ i = 1 + d + 1 /\ lines[i] = Entry("warning", k, 0)
    <3>1. DOMAIN lines = 1 .. 1 + d + w
      BY <2>5
    <3>2. ASSUME NEW i \in DOMAIN lines, i # 1, i <= 1 + d
          PROVE  i - 1 \in 1 .. d /\ lines[i] = Entry("diff", k, i - 1)
      <4>1. i - 1 \in 1 .. d /\ 1 + (i - 1) = i
        BY <1>1, <3>1, <3>2
      <4> QED
        BY <2>5, <4>1
    <3>3. ASSUME NEW i \in DOMAIN lines, ~(i <= 1 + d)
          PROVE  w = 1 /\ i = 1 + d + 1 /\ lines[i] = Entry("warning", k, 0)
      <4>1. w = 1 /\ i = 1 + d + 1
        BY <1>1, <2>3, <3>1, <3>3
      <4> QED
        BY <2>5, <4>1
    <3> QED
      BY <3>1, <3>2, <3>3
  <2>9. /\ \A n : Entry("diff", k, n).kind = "diff"
        /\ Entry("warning", k, 0).kind = "warning"
    BY DEF Entry
  <2>10. CASE kind = "changed"
    <3>1. \A i \in DOMAIN lines \ {1} : lines[i].kind \in {"diff", "warning"}
      BY <2>8, <2>9
    <3>2. \A j \in DOMAIN lines : lines[j].kind = "diff" => j - 1 \in 1 .. d
      BY <2>4, <2>5, <2>8, <2>9, <2>10
    <3>3. /\ lines[1].kind = "changed" /\ lines[1].key = k
          /\ 1 + 0 + d <= Len(lines)
      BY <1>1, <2>3, <2>4, <2>5, <2>10
    <3>4. \A n \in 1 .. d : lines[1 + 0 + n] = Entry("diff", k, n)
      BY <2>5
    <3>5. /\ 2 \in DOMAIN lines => (lines[2].kind = "error" <=> 0 = 1)
          /\ \A i \in DOMAIN lines \ {1} : lines[i].kind \notin {"changed", "failed"}
          /\ \A j \in DOMAIN lines : lines[j].kind = "diff" => j - (1 + 0) \in 1 .. d
      BY <3>1, <3>2
    <3> QED
      BY <1>1, <2>5, <2>6, <2>7, <3>3, <3>4, <3>5, ResultFollows DEF d
  <2>11. CASE kind # "changed"
    <3>1. kind = "ok" /\ d = 0
      BY <1>1, <2>11 DEF IInv, Buffered, kind, d
    <3>2. \A i \in DOMAIN lines : lines[i] \in Entries(Quiet)
      <4>1. Entry("ok", k, 0) \in Entries(Quiet) /\ Entry("warning", k, 0) \in Entries(Quiet)
        BY DEF Entry, Entries, Quiet
      <4> QED
        BY <2>5, <2>8, <3>1, <4>1
    <3>3. lines \in Seq(Entries(Quiet))
      BY <2>5, <3>2
    <3> QED
      BY <2>6, <3>3, QuietFollows
  <2> QED
    BY <2>10, <2>11
<1> QED
  BY <1>2, <1>3

LEMMA FailedKeeps ==
  ASSUME IInv, NEW k \in Keys, v2_runner_on_failed(k)
  PROVE  IInv' /\ DiffsFollow(Said)
<1> DEFINE d == running[k].diffs
           ds == _flush_diffs(k)
           e == Len(Error(k))
           failed == Entry("failed", k, 0)
           front == <<failed>> \o Error(k)
           lines == front \o ds
           All == Entries({"failed", "error", "diff"})
<1>1. /\ k \in DOMAIN running /\ Result(k, display(_finalize(Now, k), lines))
      /\ d \in Nat
  BY DEF v2_runner_on_failed, Going, IInv, Typed
<1>2. /\ ds \in Seq(All) /\ Len(ds) = d
      /\ \A n \in 1 .. d : ds[n] = Entry("diff", k, n)
  <2>1. Entries({"diff"}) \subseteq All
    BY DEF Entries
  <2>2. /\ ds \in Seq(Entries({"diff"})) /\ Len(ds) = d
        /\ \A n \in 1 .. d : ds[n] = Entry("diff", k, n)
    BY <1>1, FlushIs
  <2> HIDE DEF All, ds, d
  <2> QED
    BY <2>1, <2>2
<1>3. /\ e \in {0, 1} /\ Error(k) \in Seq(All)
      /\ e = 1 => Error(k)[1] = Entry("error", k, 0)
  <2>1. Entry("error", k, 0) \in All
    BY DEF Entry, Entries
  <2> HIDE DEF All
  <2>2. CASE Error(k) = <<>>
    BY <2>2
  <2>3. CASE Error(k) = <<Entry("error", k, 0)>>
    BY <2>1, <2>3
  <2> QED
    BY <2>2, <2>3 DEF Error
<1>4. /\ failed \in All /\ failed.kind = "failed" /\ failed.key = k
      /\ Entry("error", k, 0).kind = "error" /\ \A n : Entry("diff", k, n).kind = "diff"
  BY DEF Entry, Entries
<1> HIDE DEF ds, All, failed
<1>5. /\ front \in Seq(All) /\ Len(front) = 1 + e /\ front[1] = failed
      /\ e = 1 => front[2] = Entry("error", k, 0)
  <2>1. <<failed>> \in Seq(All) /\ Len(<<failed>>) = 1 /\ <<failed>>[1] = failed
    BY <1>4
  <2>2. /\ front \in Seq(All) /\ Len(front) = Len(<<failed>>) + Len(Error(k))
        /\ \A n \in 1 .. Len(<<failed>>) : front[n] = <<failed>>[n]
        /\ \A n \in 1 .. Len(Error(k)) : front[Len(<<failed>>) + n] = Error(k)[n]
    BY <1>3, <2>1, ConcatIs
  <2> HIDE DEF front
  <2> QED
    BY <1>3, <2>1, <2>2
<1> HIDE DEF front
<1>6. /\ lines \in Seq(All) /\ Len(lines) = 1 + e + d
      /\ \A n \in 1 .. 1 + e : lines[n] = front[n]
      /\ \A n \in 1 .. d : lines[1 + e + n] = Entry("diff", k, n)
  <2>1. /\ lines \in Seq(All) /\ Len(lines) = Len(front) + Len(ds)
        /\ \A n \in 1 .. Len(front) : lines[n] = front[n]
        /\ \A n \in 1 .. Len(ds) : lines[Len(front) + n] = ds[n]
    <3>1. /\ front \o ds \in Seq(All) /\ Len(front \o ds) = Len(front) + Len(ds)
          /\ \A n \in 1 .. Len(front) : (front \o ds)[n] = front[n]
          /\ \A n \in 1 .. Len(ds) : (front \o ds)[Len(front) + n] = ds[n]
      <4>1. front \in Seq(All) /\ ds \in Seq(All)
        BY <1>2, <1>5
      <4> QED
        BY <4>1, ConcatIs
    <3> QED
      BY <3>1
  <2> HIDE DEF lines, e, d
  <2> QED
    BY <1>2, <1>5, <2>1
<1>7. IInv' /\ Printed(lines)
  <2> HIDE DEF lines
  <2> QED
    BY <1>1, <1>6, EndLinesKeep
<1>8. k \in DOMAIN running \ DOMAIN running'
  BY <1>1 DEF Result, Pop, Restrict
<1> HIDE DEF lines, e, d
<1>9. lines[1] = failed /\ (e = 1 => lines[2] = Entry("error", k, 0))
  BY <1>3, <1>5, <1>6
<1>10. ASSUME NEW i \in DOMAIN lines, i # 1
       PROVE  \/ e = 1 /\ i = 2
              \/ i - (1 + e) \in 1 .. d /\ lines[i].kind = "diff"
  <2>1. i \in 1 .. 1 + e + d
    BY <1>6
  <2>2. CASE i <= 1 + e
    BY <1>3, <1>10, <2>1, <2>2
  <2>3. CASE ~(i <= 1 + e)
    <3>1. i - (1 + e) \in 1 .. d /\ 1 + e + (i - (1 + e)) = i
      BY <1>1, <1>3, <2>1, <2>3
    <3>2. lines[i] = Entry("diff", k, i - (1 + e))
      BY <1>6, <3>1
    <3> QED
      BY <1>4, <3>1, <3>2
  <2> QED
    BY <2>2, <2>3
<1>11. 2 \in DOMAIN lines => (lines[2].kind = "error" <=> e = 1)
  BY <1>4, <1>9, <1>10
<1>12. \A i \in DOMAIN lines \ {1} : lines[i].kind \notin {"changed", "failed"}
  BY <1>4, <1>9, <1>10
<1>13. \A j \in DOMAIN lines : lines[j].kind = "diff" => j - (1 + e) \in 1 .. d
  BY <1>4, <1>9, <1>10
<1>14. /\ 1 + e + d <= Len(lines) /\ lines[1].kind \in {"changed", "failed"}
       /\ lines[1].key = k
  BY <1>1, <1>3, <1>4, <1>6, <1>9
<1>15. d = running[k].diffs
  BY DEF d
<1>16. DiffsFollow(Said)
  BY <1>1, <1>3, <1>6, <1>7, <1>8, <1>11, <1>12, <1>13, <1>14, <1>15, ResultFollows
<1> QED
  BY <1>7, <1>16

LEMMA UnreachableKeeps ==
  ASSUME IInv, NEW k \in Keys, v2_runner_on_unreachable(k)
  PROVE  IInv' /\ DiffsFollow(Said)
<1> DEFINE lines == <<Entry("unreachable", k, 0), Entry("error", k, 0)>>
<1>1. lines \in Seq(Entries(Quiet))
  BY DEF Entry, Entries, Quiet
<1>2. Result(k, display(_finalize(Now, k), lines))
  BY DEF v2_runner_on_unreachable, Unreached
<1> HIDE DEF lines
<1> QED
  BY <1>1, <1>2, EndLinesKeep, QuietFollows

LEMMA SkippedKeeps ==
  ASSUME IInv, NEW k \in Keys, v2_runner_on_skipped(k)
  PROVE  IInv' /\ DiffsFollow(Said)
<1>1. CASE options.skipped
  <2>1. PICK warnings \in Warnings(k) :
          Result(k, display(_finalize(Now, k), warnings \o <<Entry("skipped", k, 0)>>))
    BY <1>1 DEF v2_runner_on_skipped
  <2> DEFINE lines == warnings \o <<Entry("skipped", k, 0)>>
  <2>2. lines \in Seq(Entries(Quiet))
    <3>1. Entry("warning", k, 0) \in Entries(Quiet) /\ Entry("skipped", k, 0) \in Entries(Quiet)
      BY DEF Entry, Entries, Quiet
    <3> DEFINE warning == Entry("warning", k, 0)
               skipped == Entry("skipped", k, 0)
               All == Entries(Quiet)
    <3>2. warnings \in {<<>>, <<warning>>}
      BY DEF Warnings
    <3> HIDE DEF warning, skipped, All
    <3>3. warnings \in Seq(All) /\ <<skipped>> \in Seq(All)
      <4>1. warning \in All /\ skipped \in All
        BY <3>1 DEF warning, skipped, All
      <4>2. warnings = <<>> => warnings \in Seq(All)
        OBVIOUS
      <4>3. warnings = <<warning>> => warnings \in Seq(All)
        BY <4>1
      <4>4. <<skipped>> \in Seq(All)
        BY <4>1
      <4> QED
        BY <3>2, <4>2, <4>3, <4>4
    <3> QED
      BY <3>3, ConcatIs DEF skipped, All
  <2> HIDE DEF lines
  <2> QED
    BY <2>1, <2>2, EndLinesKeep, QuietFollows DEF lines
<1>2. CASE ~options.skipped
  BY <1>2, EndSilentKeeps, SilentFollows DEF v2_runner_on_skipped
<1> QED
  BY <1>1, <1>2

LEMMA ItemsKeep ==
  ASSUME IInv, NEW k \in Keys,
         \/ v2_runner_item_on_ok(k) \/ v2_runner_item_on_failed(k)
         \/ v2_runner_item_on_skipped(k)
  PROVE  IInv' /\ DiffsFollow(Said)
<1> DEFINE lines == <<Entry("item", k, 0)>>
<1>1. lines \in Seq(Entries(Quiet))
  BY DEF Entry, Entries, Quiet
<1>2. Item(k, Tick(k, Now)) \/ Item(k, display(Tick(k, Now), lines))
  BY DEF v2_runner_item_on_ok, v2_runner_item_on_failed, v2_runner_item_on_skipped
<1> HIDE DEF lines
<1> QED
  BY <1>1, <1>2, ItemTickKeeps, ItemLinesKeep, SilentFollows, QuietFollows

LEMMA StepKeeps ==
  ASSUME IInv, Next
  PROVE  IInv' /\ DiffsFollow(Said)
<1>1. \A key \in Keys \union {None}, kind \in Quiet :
        <<Entry(kind, key, 0)>> \in Seq(Entries(Quiet))
  BY DEF Entry, Entries
<1>2. ASSUME NEW key \in Keys \union {None}, NEW kind \in Quiet,
             ui'.out = <<>> \/ Printed(<<Entry(kind, key, 0)>>)
      PROVE  DiffsFollow(Said)
  <2> DEFINE lines == <<Entry(kind, key, 0)>>
  <2>1. lines \in Seq(Entries(Quiet))
    BY <1>1
  <2> HIDE DEF lines
  <2> QED
    BY <1>2, <2>1, SilentFollows, QuietFollows DEF lines
<1>3. /\ "retry" \in Quiet /\ "message" \in Quiet /\ "stats" \in Quiet
      /\ None \in Keys \union {None}
  BY DEF Quiet
<1>4. ASSUME NEW k \in Keys, v2_runner_on_start(k)
      PROVE  IInv' /\ DiffsFollow(Said)
  BY <1>4, StartKeeps, SilentFollows
<1>5. ASSUME NEW k \in Keys, NEW changed \in BOOLEAN, v2_on_file_diff(k, changed)
      PROVE  IInv' /\ DiffsFollow(Said)
  BY <1>5, DiffKeeps, SilentFollows
<1>6. ASSUME NEW k \in Keys, v2_runner_retry(k)
      PROVE  IInv' /\ DiffsFollow(Said)
  BY <1>2, <1>3, <1>6, RetryKeeps
<1>7. ASSUME NEW log_only \in BOOLEAN, Message(log_only)
      PROVE  IInv' /\ DiffsFollow(Said)
  BY <1>2, <1>3, <1>7, MessageKeeps
<1>8. ASSUME v2_playbook_on_stats
      PROVE  IInv' /\ DiffsFollow(Said)
  BY <1>2, <1>3, <1>8, StatsKeep
<1> QED
  BY <1>4, <1>5, <1>6, <1>7, <1>8, OkKeeps, ItemsKeep, FailedKeeps, UnreachableKeeps,
     SkippedKeeps DEF Next

----------------------------------------------------------------------------
(* The theorems *)

LEMMA InitIInv == Init => IInv
<1> SUFFICES ASSUME Init PROVE IInv
  OBVIOUS
<1>1. DOMAIN running = {} /\ DOMAIN diffs = {}
  BY DEF Init
<1>6. Typed /\ Live = {}
  <2>1. /\ options \in [tty : BOOLEAN, ok : BOOLEAN, skipped : BOOLEAN]
        /\ starts = 0 /\ over = FALSE
    BY DEF Init
  <2>2. starts \in 0 .. MaxStarts
    BY <2>1
  <2> QED
    BY <1>1, <2>1, <2>2 DEF Typed, Live
<1>2. /\ DOMAIN ui = Fields /\ ui.pending = <<>> /\ ui.visible = None /\ ui.row = <<>>
      /\ ui.out = <<>> /\ DOMAIN ui.suffix = {} /\ DOMAIN ui.counts = {}
  BY DEF Init, Fields
<1>3. Sound(ui) /\ Single
  BY <1>2 DEF Sound, Row, Single
<1>4. Waiting(ui, Live) /\ Counted(ui, running)
  <2>1. ui.pending \in Seq(Keys) /\ ToSet(ui.pending) = {}
    <3>1. ui.pending \in Seq(Keys)
      BY <1>2
    <3> QED
      BY <1>2, <3>1, EmptyList
  <2> QED
    BY <1>2, <1>6, <2>1 DEF Waiting, Counted
<1>5. Buffered
  BY <1>1 DEF Buffered
<1> QED
  BY <1>3, <1>4, <1>5, <1>6 DEF IInv

LEMMA NextIInv == IInv /\ [Next]_vars => IInv'
<1> SUFFICES ASSUME IInv, [Next]_vars PROVE IInv'
  OBVIOUS
<1>1. CASE Next
  BY <1>1, StepKeeps
<1>2. CASE UNCHANGED vars
  BY <1>2 DEF IInv, vars, Typed, Sound, Row, Waiting, Counted, Buffered, Single, Live, tty,
              _current_text
<1> QED
  BY <1>1, <1>2

LEMMA Inductive == Spec => []IInv
BY InitIInv, NextIInv, PTL DEF Spec

\* A list without repetitions is as long as the set of its elements.
LEMMA LengthIsCardinality ==
  ASSUME NEW S, NEW s \in Seq(S), \A i, j \in DOMAIN s : s[i] = s[j] => i = j
  PROVE  Cardinality(ToSet(s)) = Len(s)
<1>1. Len(s) \in Nat /\ DOMAIN s = 1 .. Len(s)
  OBVIOUS
<1>3. s \in Bijection(1 .. Len(s), ToSet(s))
  <2>1. s = [i \in 1 .. Len(s) |-> s[i]]
    BY <1>1
  <2>2. s \in [1 .. Len(s) -> ToSet(s)]
    BY <1>1, <2>1 DEF ToSet
  <2>3. \A v \in ToSet(s) : \E i \in 1 .. Len(s) : s[i] = v
    BY <1>1 DEF ToSet
  <2> QED
    BY <1>1, <2>2, <2>3 DEF Bijection, Injection, Surjection, IsInjective
<1>4. ExistsBijection(1 .. Len(s), ToSet(s))
  BY <1>3 DEF ExistsBijection
<1> QED
  BY <1>1, <1>4, FS_CountingElements

\* The state of the callback is what the code keeps: pending tasks, and a suffix and a
\* count of at most MaxItems for tasks under way.
THEOREM TypeCorrect == Spec => []CallbackTypeOK
<1>1. IInv => CallbackTypeOK
  <2> SUFFICES ASSUME IInv PROVE CallbackTypeOK
    OBVIOUS
  <2>1. ToSet(ui.pending) \subseteq DOMAIN running
    BY DEF IInv, Waiting, Live
  <2>2. ui.visible \in Keys \union {None}
    BY DEF IInv, Waiting, ToSet
  <2>3. /\ DOMAIN ui.suffix \subseteq DOMAIN running /\ DOMAIN ui.counts \subseteq DOMAIN running
    BY <2>1 DEF IInv, Counted
  <2>4. \A k \in DOMAIN ui.counts : ui.counts[k] \in 1 .. MaxItems
    <3> SUFFICES ASSUME NEW k \in DOMAIN ui.counts PROVE ui.counts[k] \in 1 .. MaxItems
      OBVIOUS
    <3>1. running[k].items \in 0 .. MaxItems
      BY <2>3 DEF IInv, Typed
    <3> QED
      BY <3>1 DEF IInv, Counted
  <2> QED
    BY <2>2, <2>3, <2>4 DEF IInv, Typed, Waiting, CallbackTypeOK
<1> QED
  BY <1>1, Inductive, PTL

\* No two lines share a row, whatever the order of the callbacks: each line display
\* prints starts on an empty row, and the live line that _display_hook, _finalize and
\* _tick_item draw back is the up-to-date one.
THEOREM NeverGlued == Spec => []NothingGlued
<1>1. IInv => NothingGlued
  BY DEF IInv, Sound, Row, Single, NothingGlued
<1> QED
  BY <1>1, Inductive, PTL

\* The live line is that of a task under way as long as there is one: _finalize hands it
\* over to the first task of _pending, which is in _pending once.
THEOREM LineIsLive == Spec => []LiveLineWhileRunning
<1>1. IInv => LiveLineWhileRunning
  <2> SUFFICES ASSUME IInv, tty
               PROVE  /\ ToSet(ui.pending) = Live /\ Len(ui.pending) = Cardinality(Live)
                      /\ IF Live = {} THEN ui.visible = None ELSE ui.visible \in Live
    BY DEF LiveLineWhileRunning, Live
  <2>1. /\ ui.pending \in Seq(Keys) /\ ToSet(ui.pending) = Live
        /\ \A i, j \in DOMAIN ui.pending : ui.pending[i] = ui.pending[j] => i = j
    BY DEF IInv, Waiting
  <2>2. Len(ui.pending) = Cardinality(Live)
    BY <2>1, LengthIsCardinality
  <2>3. ui.pending = <<>> <=> Live = {}
    BY <2>1, EmptyList
  <2> QED
    BY <2>1, <2>2, <2>3 DEF IInv, Waiting
<1> QED
  BY <1>1, Inductive, PTL

\* _diffs holds the diffs of tasks under way only: every way a task ends empties its
\* buffer, those that print no diff included.
THEOREM DiffsOfTheRun == Spec => []DiffsBelongToARun
<1>1. IInv => DiffsBelongToARun
  <2> SUFFICES ASSUME IInv, NEW k \in DOMAIN diffs
               PROVE  k \in DOMAIN running /\ Len(diffs[k]) = running[k].diffs
    BY DEF DiffsBelongToARun
  <2>1. k \in DOMAIN running /\ running[k].diffs \in Nat
    BY DEF IInv, Typed, Buffered
  <2>2. diffs[k] = [n \in 1 .. running[k].diffs |-> n]
    BY <2>1 DEF IInv, Buffered
  <2>3. Len([n \in 1 .. running[k].diffs |-> n]) = running[k].diffs
    BY <2>1
  <2> QED
    BY <2>1, <2>2, <2>3
<1> QED
  BY <1>1, Inductive, PTL

\* The diffs of a changed or failed result are printed by _flush_diffs right after its
\* line and its error, all of them, once and in order, and no other callback prints one.
THEOREM DiffsUnderTheirLine == Spec => DiffsFollowTheirLine
<1>1. IInv /\ [Next]_vars =>
        [ui' # ui => DiffsFollow([i \in DOMAIN ui'.out |-> ui'.out[i][Len(ui'.out[i])]])]_vars
  BY StepKeeps DEF Said
<1> QED
  BY <1>1, Inductive, PTL DEF Spec, DiffsFollowTheirLine
=============================================================================
