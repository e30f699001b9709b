------------------------------ MODULE Callback ------------------------------
(***************************************************************************)
(* plugins/callback/compact.py: one line per task and host, and on a TTY a *)
(* live pending line at the bottom that is rewritten in place.             *)
(*                                                                         *)
(* ansible sends one callback at a time, whatever thread it comes from,    *)
(* and each is a step; the tasks of the hosts interleave freely (the free  *)
(* strategy).  What ansible or another plugin displays by itself goes      *)
(* through the patched Display.  Texts are abstracted to what they are     *)
(* about; colours, boxes and truncation are left out.                      *)
(***************************************************************************)
EXTENDS Lists, FiniteSets, Functions, SequencesExt

CONSTANTS
  Hosts, Tasks,
  Includes,   \* tasks that are TaskInclude
  Debugs,     \* debug tasks with a msg
  MaxStarts,  \* tasks started in the play, all hosts together
  MaxItems    \* items of a task

ASSUME TasksAssumption == Includes \subseteq Tasks /\ Debugs \subseteq Tasks \ Includes
ASSUME BoundsAssumption == MaxStarts \in Nat /\ MaxItems \in Nat

VARIABLES
  options,  \* tty: stdout is one; ok, skipped: display_ok_hosts, display_skipped_hosts
  ui,       \* _pending, _suffix, _item_counts, _visible_key; row: what is on the
            \* terminal's last row; out: the lines the last callback printed
  diffs,    \* _diffs
  running,  \* ansible: the tasks under way, and what they have reported
  starts,   \* tasks started so far
  over      \* the stats are out

vars == <<options, ui, diffs, running, starts, over>>

Keys == Tasks \X Hosts
None == <<>>
tty == options.tty

Entry(kind, key, n) == [kind |-> kind, key |-> key, n |-> n]

CallbackTypeOK ==
  /\ options \in [tty : BOOLEAN, ok : BOOLEAN, skipped : BOOLEAN]
  /\ ui.pending \in Seq(Keys)
  /\ DOMAIN ui.suffix \subseteq DOMAIN running /\ DOMAIN ui.counts \subseteq DOMAIN running
  /\ \A k \in DOMAIN ui.counts : ui.counts[k] \in 1 .. MaxItems
  /\ ui.visible \in Keys \union {None}
  /\ DOMAIN running \subseteq Keys /\ starts \in 0 .. MaxStarts /\ over \in BOOLEAN

----------------------------------------------------------------------------
(* The terminal.  What is written on a row that is not empty is glued to it. *)

_clear(u) == [u EXCEPT !.row = <<>>]
_draw(u, text) == [u EXCEPT !.row = Append(@, text)]
Emit(u, line) == [u EXCEPT !.out = Append(@, Append(u.row, line)), !.row = <<>>]

_current_text(u, k) == <<k, IF k \in DOMAIN u.suffix THEN u.suffix[k] ELSE 0>>

Redraw(u) == IF u.visible = None THEN u ELSE _draw(u, _current_text(u, u.visible))

_display_hook(u, line) ==
  IF u.visible = None THEN Emit(u, line) ELSE Redraw(Emit(_clear(u), line))

Displayed(u, line) == IF tty THEN _display_hook(u, line) ELSE Emit(u, line)

display(u, lines) ==
  LET after[n \in 0 .. Len(lines)] ==
        IF n = 0 THEN u ELSE Displayed(after[n - 1], lines[n])
  IN  after[Len(lines)]

Pop(f, k) == Restrict(f, DOMAIN f \ {k})

Forget(u, k) ==
  [u EXCEPT !.pending = Where(@, {i \in DOMAIN @ : @[i] # k}),
            !.suffix = Pop(@, k), !.counts = Pop(@, k)]

\* Mutant: no other pending line takes the place of the one that ended.
FinalizeBlank(u, k) ==
  IF tty /\ u.visible = k THEN [_clear(Forget(u, k)) EXCEPT !.visible = None] ELSE Forget(u, k)

\* Mutant: the count of the items survives the task.
FinalizeKeepsCount(u, k) ==
  IF tty /\ u.visible = k
  THEN LET f == Forget(u, k)
       IN  Redraw([_clear(f) EXCEPT !.counts = u.counts,
                     !.visible = IF f.pending = <<>> THEN None ELSE Head(f.pending)])
  ELSE Forget(u, k)

\* The first task that still runs takes the row.
_finalize(u, k) ==
  IF tty /\ u.visible = k
  THEN LET f == Forget(u, k)
       IN  Redraw([_clear(f) EXCEPT !.visible = IF f.pending = <<>> THEN None ELSE Head(f.pending)])
  ELSE Forget(u, k)

Ticked(u, k) == IF u.visible = k THEN Redraw(_clear(u)) ELSE u

\* A callback starts with nothing printed.
Now == [ui EXCEPT !.out = <<>>]

----------------------------------------------------------------------------
(* The callbacks *)

Starts(k) ==
  /\ ~over /\ starts < MaxStarts
  /\ \A r \in DOMAIN running : r[2] # k[2]  \* a host runs one task at a time
  /\ starts' = starts + 1
  /\ running' = [r \in DOMAIN running \union {k} |->
                   IF r = k THEN [items |-> 0, diffs |-> 0, owed |-> FALSE] ELSE running[r]]
  /\ UNCHANGED <<options, diffs, over>>

Shown(k) == [Now EXCEPT !.pending = Append(@, k), !.visible = k,
                        !.suffix = Pop(@, k), !.counts = Pop(@, k)]

\* Mutant: the row of another host is not cleared.
StartGlued(k) ==
  /\ Starts(k)
  /\ ui' = IF k[1] \in Includes \/ ~tty THEN Now ELSE Redraw(Shown(k))

v2_runner_on_start(k) ==
  /\ Starts(k)
  /\ ui' = IF k[1] \in Includes \/ ~tty THEN Now ELSE Redraw(_clear(Shown(k)))

Tick(k, u) ==
  IF ~tty \/ k \notin ToSet(ui.pending) THEN u
  ELSE LET count == (IF k \in DOMAIN u.counts THEN u.counts[k] ELSE 0) + 1
           set(f) == [x \in DOMAIN f \union {k} |-> IF x = k THEN count ELSE f[x]]
       IN  Ticked([u EXCEPT !.counts = set(@), !.suffix = set(@)], k)

\* An include has items, and fails and is skipped as any task; it runs on no host.
Going(k) == k \in DOMAIN running /\ ~over

\* A diff comes before the result of its item, or of a task without items.
v2_on_file_diff(k, changed) ==
  /\ Going(k) /\ k[1] \notin Debugs \union Includes /\ ~running[k].owed
  /\ running[k].items < MaxItems
  /\ LET buf == IF k \in DOMAIN diffs THEN diffs[k] ELSE <<>>
         more == IF changed THEN Append(buf, running[k].diffs + 1) ELSE buf
     IN  diffs' = [d \in DOMAIN diffs \union {k} |-> IF d = k THEN more ELSE diffs[d]]
  /\ running' = [running EXCEPT ![k].owed = TRUE, ![k].diffs = IF changed THEN @ + 1 ELSE @]
  /\ ui' = Now
  /\ UNCHANGED <<options, starts, over>>

Item(k, u) ==
  /\ Going(k) /\ running[k].items < MaxItems
  /\ running' = [running EXCEPT ![k].items = @ + 1, ![k].owed = FALSE]
  /\ ui' = u
  /\ UNCHANGED <<options, diffs, starts, over>>

v2_runner_item_on_ok(k) == Item(k, Tick(k, Now))

v2_runner_item_on_failed(k) ==
  /\ ~running[k].owed
  /\ Item(k, display(Tick(k, Now), <<Entry("item", k, 0)>>))

v2_runner_item_on_skipped(k) ==
  /\ ~running[k].owed
  /\ Item(k, IF options.skipped THEN display(Tick(k, Now), <<Entry("item", k, 0)>>)
                                ELSE Tick(k, Now))

\* The suffix is the attempt's until the next item; its number is left out.
Retrying == MaxItems + 1

v2_runner_retry(k) ==
  /\ Going(k) /\ k[1] \notin Includes /\ ~running[k].owed
  /\ ui' = IF ~tty THEN display(Now, <<Entry("retry", k, 0)>>)
           ELSE IF k \notin ToSet(ui.pending) THEN Now
           ELSE Ticked([Now EXCEPT !.suffix =
                          [x \in DOMAIN @ \union {k} |-> IF x = k THEN Retrying ELSE @[x]]], k)
  /\ UNCHANGED <<options, diffs, running, starts, over>>

Result(k, u) ==
  /\ running' = Pop(running, k)
  /\ ui' = u
  /\ diffs' = Pop(diffs, k)
  /\ UNCHANGED <<options, starts, over>>

_flush_diffs(k) ==
  IF k \notin DOMAIN diffs THEN <<>>
  ELSE [i \in DOMAIN diffs[k] |-> Entry("diff", k, diffs[k][i])]

Warnings(k) == {<<>>, <<Entry("warning", k, 0)>>}

v2_runner_on_ok(k, changed) ==
  /\ k \in DOMAIN running /\ ~over
  /\ running[k].diffs > 0 => changed
  /\ running[k].owed => running[k].items = 0
  /\ LET u == _finalize(Now, k)
     IN  IF k[1] \in Includes \/ (~changed /\ k[1] \notin Debugs /\ ~options.ok)
         THEN Result(k, u)
         ELSE \E warnings \in Warnings(k) :
                Result(k, display(u,
                  <<Entry(IF changed /\ k[1] \notin Debugs THEN "changed" ELSE "ok", k, 0)>>
                    \o _flush_diffs(k) \o warnings))

Error(k) == IF running[k].items > 0 THEN <<>> ELSE <<Entry("error", k, 0)>>

\* Mutant: the diffs before the line of their task.
FailedLate(k) ==
  /\ Going(k) /\ ~running[k].owed
  /\ Result(k, display(_finalize(Now, k),
                       _flush_diffs(k) \o <<Entry("failed", k, 0)>> \o Error(k)))

v2_runner_on_failed(k) ==
  /\ Going(k) /\ ~running[k].owed
  /\ Result(k, display(_finalize(Now, k),
                       <<Entry("failed", k, 0)>> \o Error(k) \o _flush_diffs(k)))

Unreached(k) ==
  display(_finalize(Now, k), <<Entry("unreachable", k, 0), Entry("error", k, 0)>>)

\* Mutant: the diffs of the items before stay in the buffer.
UnreachableLeaks(k) ==
  /\ Going(k) /\ k[1] \notin Includes /\ ~running[k].owed
  /\ running' = Pop(running, k)
  /\ ui' = Unreached(k)
  /\ UNCHANGED <<options, diffs, starts, over>>

v2_runner_on_unreachable(k) ==
  /\ Going(k) /\ k[1] \notin Includes /\ ~running[k].owed
  /\ Result(k, Unreached(k))

v2_runner_on_skipped(k) ==
  /\ Going(k) /\ ~running[k].owed /\ running[k].diffs = 0
  /\ LET u == _finalize(Now, k)
     IN  IF options.skipped
         THEN \E warnings \in Warnings(k) :
                Result(k, display(u, warnings \o <<Entry("skipped", k, 0)>>))
         ELSE Result(k, u)

\* A warning or a message of ansible's own, to the screen or to the log only.
Message(log_only) ==
  /\ ~over
  /\ ui' = IF log_only THEN Now ELSE display(Now, <<Entry("message", None, 0)>>)
  /\ UNCHANGED <<options, diffs, running, starts, over>>

v2_playbook_on_stats ==
  /\ running = <<>> /\ ~over
  /\ over' = TRUE
  /\ ui' = Emit(IF ui.visible = None THEN Now ELSE [_clear(Now) EXCEPT !.visible = None],
                 Entry("stats", None, 0))
  /\ UNCHANGED <<options, diffs, running, starts>>

----------------------------------------------------------------------------
Init ==
  /\ options \in [tty : BOOLEAN, ok : BOOLEAN, skipped : BOOLEAN]
  /\ ui = [pending |-> <<>>, suffix |-> <<>>, counts |-> <<>>, visible |-> None,
           row |-> <<>>, out |-> <<>>]
  /\ diffs = <<>> /\ running = <<>> /\ starts = 0 /\ over = FALSE

Next ==
  \/ \E k \in Keys :
       \/ v2_runner_on_start(k)
       \/ \E changed \in BOOLEAN : v2_on_file_diff(k, changed) \/ v2_runner_on_ok(k, changed)
       \/ k \in DOMAIN running
            /\ \/ v2_runner_item_on_ok(k) \/ v2_runner_item_on_failed(k)
               \/ v2_runner_item_on_skipped(k) \/ v2_runner_retry(k)
               \/ v2_runner_on_failed(k) \/ v2_runner_on_unreachable(k) \/ v2_runner_on_skipped(k)
  \/ \E log_only \in BOOLEAN : Message(log_only)
  \/ v2_playbook_on_stats

Spec == Init /\ [][Next]_vars

----------------------------------------------------------------------------
\* Every line starts on an empty row, and the last row is the up-to-date pending
\* line of one task, or empty: lines of two hosts are never concatenated.
NothingGlued ==
  /\ \A i \in DOMAIN ui.out : Len(ui.out[i]) = 1
  /\ ui.row = IF ui.visible = None THEN <<>> ELSE <<_current_text(ui, ui.visible)>>

\* The live line is there as long as a host runs a task, shows a task that runs, and
\* goes with the last one.
LiveLineWhileRunning ==
  tty => LET live == {k \in DOMAIN running : k[1] \notin Includes}
         IN  /\ ToSet(ui.pending) = live /\ Len(ui.pending) = Cardinality(live)
             /\ IF live = {} THEN ui.visible = None ELSE ui.visible \in live

\* Nothing stays in the buffer for a later run of the same task on the same host.
DiffsBelongToARun ==
  \A k \in DOMAIN diffs : k \in DOMAIN running /\ Len(diffs[k]) = running[k].diffs

\* The diffs of a result that changed or failed come after its own line and before any
\* other task's, each once and in order; no other callback prints a diff.  What the
\* parent class prints of a failure in between (its error, warnings, "...ignoring") is
\* one line here.
DiffsFollow(said) ==
  LET results == {i \in DOMAIN said : said[i].kind \in {"changed", "failed"}}
      after(i) == IF i + 1 \in DOMAIN said /\ said[i + 1].kind = "error" THEN i + 1 ELSE i
  IN  /\ \A i \in results : \E k \in DOMAIN running \ DOMAIN running' :
           /\ said[i].key = k
           /\ \A n \in 1 .. running[k].diffs :
                after(i) + n \in DOMAIN said /\ said[after(i) + n] = Entry("diff", k, n)
      /\ \A j \in DOMAIN said : said[j].kind = "diff" =>
           \E i \in results : \E n \in 1 .. running[said[i].key].diffs : j = after(i) + n
DiffsFollowTheirLine ==
  [][ui' # ui =>
       DiffsFollow([i \in DOMAIN ui'.out |-> ui'.out[i][Len(ui'.out[i])]])]_vars
============================================================================
