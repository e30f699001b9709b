----------------------------- MODULE MCCallback -----------------------------
(* Instances of Callback: two hosts, a task of each kind. *)
EXTENDS Callback, TLC

AnyHost == Permutations(Hosts)
============================================================================
