------------------------------- MODULE Lists -------------------------------
(***************************************************************************)
(* The list comprehensions of the code, [x for x in s if ...].  A function *)
(* and not SelectSeq, whose definition the proofs cannot expand.           *)
(***************************************************************************)
EXTENDS Naturals, Sequences

\* The elements of s at the places of I, in their order.
Where(s, I) ==
  LET upto[n \in 0 .. Len(s)] ==
        IF n = 0 THEN <<>>
        ELSE IF n \in I THEN Append(upto[n - 1], s[n]) ELSE upto[n - 1]
  IN  upto[Len(s)]
============================================================================
