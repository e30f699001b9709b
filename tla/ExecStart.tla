----------------------------- MODULE ExecStart -----------------------------
(***************************************************************************)
(* The start script of an application (application_execstart.sh) under the *)
(* systemd unit that runs it: one compose project, whose containers change *)
(* between any two of the script's commands, any of which may fail.        *)
(*                                                                         *)
(* A container is "pending" (running, its probe not passed or failing),    *)
(* "fine" (running, healthy or without a probe), "done" (exited with 0),   *)
(* "dead" (exited with another code) or "absent".  Time is the number of   *)
(* scans: TIMEOUT / INTERVAL of them fit in.                               *)
(***************************************************************************)
EXTENDS Naturals, FiniteSets

CONSTANTS
  Declared,  \* the services of the compose file
  MaxScans   \* TIMEOUT / INTERVAL

ASSUME DeclaredAssumption == Declared # {} /\ IsFiniteSet(Declared)
ASSUME ScansAssumption == MaxScans \in Nat \ {0}

VARIABLES
  unit,        \* ActiveState of the systemd unit
  result,      \* why the last run of the script ended
  pc,          \* the script's position
  box,         \* the state of each container
  CONTAINERS,  \* the containers compose listed after up
  listed,      \* whether compose can say what it declares
  todo,        \* those this scan has not inspected yet
  current,     \* the container the scan looks at
  answer,      \* the STATE it read; "" when podman failed
  HEALTHY,     \* the count of this scan
  ELAPSED,     \* scans finished
  RUNNING,     \* the containers podman wait was given
  found,       \* history: the containers this scan counted
  lost         \* history: whether a container that runs escaped the wait

vars == <<unit, result, pc, box, CONTAINERS, listed, todo, current, answer, HEALTHY,
          ELAPSED, RUNNING, found, lost>>

TOTAL == Cardinality(CONTAINERS)
Absent == [c \in Declared |-> "absent"]
Runs(c) == box[c] \in {"pending", "fine"}

StartTypeOK ==
  /\ unit \in {"inactive", "activating", "active", "deactivating", "auto-restart",
               "failed"}
  /\ result \in {"success", "exit-code", "abnormal"}
  /\ pc \in {"none", "up", "ps", "config", "scan", "judge", "ready", "wait", "stop"}
  /\ box \in [Declared -> {"absent", "pending", "fine", "done", "dead"}]
  /\ CONTAINERS \in SUBSET Declared
  /\ listed \in BOOLEAN
  /\ todo \in SUBSET CONTAINERS
  /\ current \in Declared
  /\ answer \in {"", "running", "exited"}
  /\ HEALTHY \in Nat
  /\ ELAPSED \in 0 .. MaxScans - 1
  /\ RUNNING \in SUBSET CONTAINERS
  /\ found \in SUBSET CONTAINERS
  /\ lost \in BOOLEAN

countVars == <<HEALTHY, found>>
scanVars == <<CONTAINERS, listed, todo, current, answer, ELAPSED, RUNNING, countVars>>

----------------------------------------------------------------------------
(* systemd *)

\* systemctl start, or the automatic restart: ExecStartPre pulls (its failure
\* is ignored), then the script runs.
start ==
  /\ unit \in {"inactive", "failed", "auto-restart"}
  /\ unit' = "activating"
  /\ pc' = "up"
  /\ CONTAINERS' = {}
  /\ listed' \in BOOLEAN
  /\ todo' = {} /\ answer' = "" /\ HEALTHY' = 0 /\ ELAPSED' = 0 /\ RUNNING' = {}
  /\ found' = {} /\ lost' = FALSE
  /\ UNCHANGED <<result, box, current>>

\* The script is over: systemd stops what is left of the service.
Leave(why) ==
  /\ unit' = "deactivating"
  /\ result' = why
  /\ pc' = "stop"
  /\ UNCHANGED box /\ UNCHANGED scanVars

Deactivate(why) == Leave(why) /\ UNCHANGED lost

stop ==
  \/ unit \in {"activating", "active"} /\ Deactivate("success")
  \/ /\ unit = "auto-restart"
     /\ unit' = "inactive"
     /\ UNCHANGED <<result, pc, box, lost>> /\ UNCHANGED scanVars
StartTimesOut == unit = "activating" /\ Deactivate("abnormal")
Killed == unit \in {"activating", "active"} /\ Deactivate("abnormal")

\* What podman-compose stop and down leave of a container when one of them fails.
Remains(c) == {box[c], "absent"} \union IF Runs(c) THEN {"done", "dead"} ELSE {}

\* ExecStop and ExecStopPost, then Restart=on-abnormal.  A failure of theirs fails
\* a unit that was being stopped.
ExecStopPost ==
  /\ pc = "stop"
  /\ \/ box' = Absent /\ UNCHANGED result
     \/ /\ box' \in [Declared -> {"absent", "pending", "fine", "done", "dead"}]
        /\ \A c \in Declared : box'[c] \in Remains(c)
        /\ result' = IF result = "success" THEN "exit-code" ELSE result
  /\ unit' = CASE result' = "abnormal"  -> "auto-restart"
               [] result' = "exit-code" -> "failed"
               [] OTHER                 -> "inactive"
  /\ pc' = "none"
  /\ UNCHANGED lost /\ UNCHANGED scanVars

----------------------------------------------------------------------------
(* podman *)

\* up -d starts the containers one by one, those the last run left included ...
Create(c) ==
  /\ pc = "up"
  /\ ~Runs(c)
  /\ box' = [box EXCEPT ![c] = "pending"]
  /\ UNCHANGED <<unit, result, pc, lost>> /\ UNCHANGED scanVars

Successors(b) == CASE b = "pending" -> {"fine", "done", "dead"}
                   [] b = "fine"    -> {"pending", "done", "dead"}
                   [] OTHER         -> {}

\* ... and each lives its own life from then on; nothing restarts it.
Change(c) ==
  /\ \E b \in Successors(box[c]) : box' = [box EXCEPT ![c] = b]
  /\ UNCHANGED <<unit, result, pc, lost>> /\ UNCHANGED scanVars

----------------------------------------------------------------------------
(* The script *)

\* up -d fails, or returns, having perhaps skipped a service; it may hang too.
UpReturns ==
  /\ pc = "up"
  /\ \/ Deactivate("exit-code")
     \/ /\ pc' = "ps"
        /\ UNCHANGED <<unit, result, box, lost>> /\ UNCHANGED scanVars

\* A ps that fails lists nothing: mapfile does not see its exit code.
ListContainers ==
  /\ pc = "ps"
  /\ CONTAINERS' \in {{c \in Declared : box[c] # "absent"}, {}}
  /\ IF CONTAINERS' = {}
     THEN unit' = "deactivating" /\ result' = "exit-code" /\ pc' = "stop"
     ELSE pc' = "config" /\ UNCHANGED <<unit, result>>
  /\ UNCHANGED <<box, listed, todo, current, answer, ELAPSED, RUNNING, countVars, lost>>

\* A count carried over from one scan to the next.
NewScanKeepsCount ==
  /\ pc' = "scan"
  /\ todo' = CONTAINERS
  /\ found' = {}
  /\ UNCHANGED <<unit, result, box, CONTAINERS, listed, current, answer, HEALTHY, RUNNING,
                 lost>>

NewScan ==
  /\ pc' = "scan"
  /\ todo' = CONTAINERS
  /\ HEALTHY' = 0
  /\ found' = {}
  /\ UNCHANGED <<unit, result, box, CONTAINERS, listed, current, answer, RUNNING, lost>>

MissesSome == listed /\ Cardinality(Declared) > TOTAL

CheckDeclared ==
  /\ pc = "config"
  /\ IF MissesSome THEN Deactivate("exit-code") ELSE NewScan /\ UNCHANGED ELAPSED

\* podman inspect .State.Status.
Status(c) == CASE Runs(c)                   -> "running"
               [] box[c] \in {"done", "dead"} -> "exited"
               [] OTHER                     -> ""

\* The scan takes a container and asks podman for its state, which may fail ...
inspect(c) ==
  /\ pc = "scan"
  /\ c \in todo
  /\ todo' = todo \ {c}
  /\ current' = c
  /\ answer' \in {Status(c), ""}
  /\ pc' = "judge"
  /\ UNCHANGED <<unit, result, box, CONTAINERS, listed, ELAPSED, RUNNING, countVars, lost>>

Count == HEALTHY' = HEALTHY + 1 /\ found' = found \union {current}

NextContainer ==
  /\ pc' = "scan"
  /\ answer' = ""
  /\ UNCHANGED <<unit, result, box, CONTAINERS, listed, todo, current, ELAPSED, RUNNING,
                 lost>>

\* ... then for the health of one that runs.  One that is not fine is counted too when
\* podman fails, an empty health being that of a container without a probe; the health
\* of one that has stopped since may be any.
JudgeRunning ==
  /\ pc = "judge"
  /\ answer = "running"
  /\ NextContainer
  /\ Count \/ (box[current] # "fine" /\ UNCHANGED countVars)

\* The exit code of one that ended: no answer counts as a failure.
JudgeExited ==
  /\ pc = "judge"
  /\ answer = "exited"
  /\ \/ Deactivate("exit-code")
     \/ box[current] = "done" /\ NextContainer /\ Count

JudgeUnknown == pc = "judge" /\ answer = "" /\ NextContainer /\ UNCHANGED countVars

\* The timeout compared with > instead of >=.
EndScanLate ==
  /\ pc = "scan"
  /\ todo = {}
  /\ IF HEALTHY >= TOTAL
     THEN /\ unit' = "active"
          /\ pc' = "ready"
          /\ UNCHANGED <<result, box, lost>> /\ UNCHANGED scanVars
     ELSE IF ELAPSED + 1 > MaxScans
          THEN Deactivate("exit-code")
          ELSE NewScan /\ ELAPSED' = ELAPSED + 1

EndScan ==
  /\ pc = "scan"
  /\ todo = {}
  /\ IF HEALTHY >= TOTAL
     THEN /\ unit' = "active"
          /\ pc' = "ready"
          /\ UNCHANGED <<result, box, lost>> /\ UNCHANGED scanVars
     ELSE IF ELAPSED + 1 >= MaxScans
          THEN Deactivate("exit-code")
          ELSE NewScan /\ ELAPSED' = ELAPSED + 1

\* systemd-notify fails where a scan reports its count or the end: set -e exits.
NotifyFails == pc = "scan" /\ todo = {} /\ Deactivate("exit-code")

\* Only what is healthy is waited for.
CollectHealthy ==
  /\ pc = "ready"
  /\ \E answered \in SUBSET CONTAINERS :
       /\ RUNNING' = {c \in answered : box[c] = "fine"}
       /\ lost' = \E c \in CONTAINERS \ answered : Runs(c)
  /\ pc' = "wait"
  /\ UNCHANGED <<unit, result, box, CONTAINERS, listed, todo, current, answer, ELAPSED,
                 countVars>>

\* What runs, of the containers podman gave a state for.
CollectRunning ==
  /\ pc = "ready"
  /\ \E answered \in SUBSET CONTAINERS :
       /\ RUNNING' = {c \in answered : Runs(c)}
       /\ lost' = \E c \in CONTAINERS \ answered : Runs(c)
  /\ pc' = "wait"
  /\ UNCHANGED <<unit, result, box, CONTAINERS, listed, todo, current, answer, ELAPSED,
                 countVars>>

\* podman wait returns when the last of its containers has stopped, and the
\* script exits ...
StoppedWithError == \A c \in RUNNING : box[c] = "dead"
Stopped == \A c \in RUNNING : ~Runs(c)

WaitReturns == pc = "wait" /\ Stopped /\ Deactivate("exit-code")

\* ... or it fails, and set -e exits.
WaitFails ==
  /\ pc = "wait"
  /\ RUNNING # {}
  /\ Leave("exit-code")
  /\ lost' = (lost \/ \E c \in RUNNING : Runs(c))

----------------------------------------------------------------------------
Init ==
  /\ unit = "inactive" /\ result = "success" /\ pc = "none"
  /\ box = Absent
  /\ CONTAINERS = {} /\ listed = TRUE /\ todo = {} /\ current \in Declared /\ answer = ""
  /\ HEALTHY = 0 /\ ELAPSED = 0 /\ RUNNING = {} /\ found = {}
  /\ lost = FALSE

Script == \/ ListContainers \/ CheckDeclared \/ EndScan
          \/ \E c \in Declared : inspect(c)
          \/ JudgeRunning \/ JudgeExited \/ JudgeUnknown
          \/ CollectRunning \/ WaitReturns

Next ==
  \/ start \/ stop \/ StartTimesOut \/ Killed \/ ExecStopPost
  \/ \E c \in Declared : Create(c) \/ Change(c)
  \/ UpReturns \/ NotifyFails \/ WaitFails
  \/ Script

Spec == Init /\ [][Next]_vars

\* The script runs, but up -d may hang; systemd keeps its timers.
Fairness ==
  /\ WF_vars(Script)
  /\ WF_vars(StartTimesOut)
  /\ WF_vars(ExecStopPost)

FairSpec == Spec /\ Fairness

----------------------------------------------------------------------------
(* The abstract service *)

\* Every declared container was counted by one scan; every existing one, if
\* compose cannot say what it declares.
Sound == found # {} /\ found = IF listed THEN Declared ELSE CONTAINERS

S == INSTANCE Service WITH
       Services <- {"unit"},
       state <- [s \in {"unit"} |-> CASE unit = "activating" -> "starting"
                                      [] unit = "active"     -> "up"
                                      [] OTHER               -> "down"],
       sound <- [s \in {"unit"} |-> unit \in {"activating", "active"} /\ Sound]

\* The script implements Service: a unit is active only after one scan that vouched
\* for every declared container (healthy, without a probe, ended with 0, or running
\* when podman gave no health of it), and a start always ends.
ServiceSpec == S!ServiceSpec

\* A service ends on its own only when nothing of it runs any more, unless podman
\* failed while the wait was set up or under way: one container that dies does not
\* take the others down.
EndsOnlyWhenStopped ==
  [][unit = "active" /\ unit' = "deactivating" /\ result' = "exit-code"
       => lost' \/ \A c \in Declared : ~Runs(c)]_vars

\* A service whose containers have all stopped does not stay active.
StoppedIsSeen == (unit = "active" /\ \A c \in Declared : ~Runs(c)) ~> unit # "active"
============================================================================
