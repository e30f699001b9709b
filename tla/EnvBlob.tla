------------------------------ MODULE EnvBlob ------------------------------
(***************************************************************************)
(* core/envblob.py: folding a fresh render of the env variables into the   *)
(* blob the operator committed.  A blob is a sequence of lines             *)
(* [key, value]; a line that is not KEY=value (a comment, a blank one) has *)
(* the key NoKey.                                                          *)
(***************************************************************************)
EXTENDS Lists

CONSTANT NoKey

Line(k, v) == [key |-> k, value |-> v]

KeysOf(blob) == {blob[i].key : i \in DOMAIN blob} \ {NoKey}

\* Only the first line of a key is st-cli's to rewrite ...
IsFirst(blob, i) ==
  /\ blob[i].key # NoKey
  /\ \A j \in DOMAIN blob : j < i => blob[j].key # blob[i].key

\* ... and its last line is the one that is read.
IsLast(blob, i) ==
  /\ blob[i].key # NoKey
  /\ \A j \in DOMAIN blob : j > i => blob[j].key # blob[i].key

parse(blob) ==
  [k \in KeysOf(blob) |->
     blob[CHOOSE i \in DOMAIN blob : blob[i].key = k /\ IsLast(blob, i)].value]

\* A shared key keeps its place and takes the rendered value.
rewrite(existing, rendered) ==
  [i \in DOMAIN existing |->
     IF IsFirst(existing, i) /\ existing[i].key \in KeysOf(rendered)
     THEN Line(existing[i].key, parse(rendered)[existing[i].key])
     ELSE existing[i]]

\* The keys of a render that the blob does not have, in order.
new_lines(existing, rendered) ==
  LET new == Where(rendered, {i \in DOMAIN rendered :
                               /\ IsFirst(rendered, i)
                               /\ rendered[i].key \notin KeysOf(existing)})
  IN  [j \in DOMAIN new |-> Line(new[j].key, parse(rendered)[new[j].key])]

IsBlank(blob) == blob = <<>>

\* Mutant: the render takes the place of the blob.
MergeReplaces(existing, rendered, marker) == rendered

\* Mutant: a committed value is never changed.
MergeKeepsValues(existing, rendered, marker) == existing \o new_lines(existing, rendered)

merge(existing, rendered, marker) ==
  IF IsBlank(existing) THEN rendered
  ELSE rewrite(existing, rendered)
         \o (IF new_lines(existing, rendered) = <<>> THEN <<>>
             ELSE <<marker>> \o new_lines(existing, rendered))
============================================================================
