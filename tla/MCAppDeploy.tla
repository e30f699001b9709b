---------------------------- MODULE MCAppDeploy ----------------------------
(***************************************************************************)
(* Instances of AppDeploy for TLC: which release last changed the files    *)
(* that not every release changes.                                         *)
(***************************************************************************)
EXTENDS AppDeploy

AlwaysFirst == [r \in Releases |-> 1]
EachRelease == [r \in Releases |-> r]
============================================================================
