---------------------------- MODULE MCExecStart ----------------------------
(* Instances of ExecStart: a compose file of two services. *)
EXTENDS ExecStart
============================================================================
