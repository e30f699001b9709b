------------------------------ MODULE Service ------------------------------
(***************************************************************************)
(* What a systemd service of the podman role promises to those who start   *)
(* it: Ansible's restart handler, st-cli restart, systemd itself.  A start *)
(* ends; it succeeds only when the start script has vouched for every      *)
(* container; a service leaves "up" at any moment, for its own reasons.    *)
(* ExecStart implements this; Remote is built on it.                       *)
(***************************************************************************)

CONSTANT Services

VARIABLES
  state,  \* of each service, as systemctl reports it
  sound   \* whether the script has vouched for the containers of this start

serviceVars == <<state, sound>>

ServiceTypeOK ==
  /\ state \in [Services -> {"down", "starting", "up"}]
  /\ sound \in [Services -> BOOLEAN]

Start(s) ==
  /\ state[s] = "down"
  /\ state' = [state EXCEPT ![s] = "starting"]
  /\ sound' = [sound EXCEPT ![s] = FALSE]

\* One look of the script at the containers, whose verdict the next may revise.
Look(s) ==
  /\ state[s] = "starting"
  /\ \E verdict \in BOOLEAN : sound' = [sound EXCEPT ![s] = verdict]
  /\ UNCHANGED state

\* systemd-notify --ready.
Ready(s) ==
  /\ state[s] = "starting"
  /\ sound[s]
  /\ state' = [state EXCEPT ![s] = "up"]
  /\ UNCHANGED sound

\* A start that fails, a service that is stopped or dies.
Stop(s) ==
  /\ state[s] # "down"
  /\ state' = [state EXCEPT ![s] = "down"]
  /\ sound' = [sound EXCEPT ![s] = FALSE]

ServiceInit ==
  /\ state = [s \in Services |-> "down"]
  /\ sound = [s \in Services |-> FALSE]

ServiceNext == \E s \in Services : Start(s) \/ Look(s) \/ Ready(s) \/ Stop(s)

\* The timeout of the unit: a start is not left undecided.
Decide(s) == state[s] = "starting" /\ (Ready(s) \/ Stop(s))

SafeSpec == ServiceInit /\ [][ServiceNext]_serviceVars
ServiceSpec == SafeSpec /\ \A s \in Services : WF_serviceVars(Decide(s))
============================================================================
