----------------------------- MODULE MCBackend -----------------------------
(* Instances of Backend: two sites and two clones of the repository. *)
EXTENDS Backend, TLC

TwoReleases == <<{"KEY"}, {"SALT"}>>
Template == <<"HOST", "KEY", "SALT">>
Sameness == Permutations(Sites) \union Permutations(Clones)
============================================================================
