------------------------------- MODULE Remote -------------------------------
(***************************************************************************)
(* st-cli restart and st-cli reset (cmd/remote.py): ssh connections to     *)
(* services that live their own lives (Service), one thread per component  *)
(* when the restart is parallel.                                           *)
(*                                                                         *)
(* A service is <<component, ip>>.  "main" is the thread of the command    *)
(* itself, which asks for the ssh user and tears a unit down.              *)
(***************************************************************************)
EXTENDS Service, Inventory

CONSTANTS
  Machines,
  Layouts,     \* the hosts an operator may have given, the files st-cli, old or not,
               \* made of them, the units of the manifest, what is deployed of them
  Requests,    \* the command lines
  MaxCommands, \* commands in one behavior
  MaxFalls     \* times a service dies of itself

ASSUME ServicesAssumption == Services = Keys \X Machines
ASSUME BoundsAssumption == MaxCommands \in Nat /\ MaxFalls \in Nat
ASSUME OrderAssumption == \A c \in Keys : Meta[c].order \in Nat

\* place is where the list of units that is sorted has each component: the order of
\* the -c options or, of a bare command, of the manifest.
ASSUME RequestsAssumption ==
  /\ Requests \subseteq [op : {"restart", "reset"}, components : SUBSET Keys,
                         place : [Keys -> Nat],
                         host : {<<>>} \union (Names \X Nat), parallel : BOOLEAN,
                         tty : BOOLEAN, yes : BOOLEAN, ip : {"none"}]
  /\ \A r \in Requests : \A c, d \in Keys : r.place[c] = r.place[d] => c = d
  /\ \A r \in Requests : r.op = "reset" => \E c \in Keys : r.components = {c}

\* An operator names a host once for a component; nothing checks that.
ASSUME LayoutsAssumption ==
  \A l \in Layouts :
    /\ l.own \in [Keys -> Seq(Machines)] /\ l.old \in [Keys -> BOOLEAN]
    /\ l.hosts = hosts_files(l.own, l.old)
    /\ \A c \in Keys : \A i, j \in DOMAIN l.own[c] : l.own[c][i] = l.own[c][j] => i = j
    /\ DOMAIN l.units \subseteq Keys /\ l.deployed \subseteq Services

VARIABLES
  layout,     \* the hosts files and the units of the manifest
  UserIn,     \* the machines for which the operator's own ssh config names a user
  commands,   \* commands started
  cmd,        \* the command line of the last one
  phase,      \* of the command
  outcome,    \* how it ended
  at,         \* the position of each thread
  turn,       \* the host each component is at
  groups,     \* the hosts of each targeted component
  failures,   \* of this restart
  falls,      \* times a service died of itself
  job,        \* the restart job systemd has for each service
  ghosts,     \* teardown scripts whose connection was lost
  dir,        \* the services whose application directory exists
  checked,    \* sshuser._checked, of this process
  user,       \* ST_CLI_SSH_USER, or ssh/config.local names a user
  prompts,    \* history: times this process asked for the ssh user
  back,       \* history: services this command took down that came up again
  stranger    \* history: this process reached a machine without any user set

ctlVars == <<commands, cmd, phase, outcome, at, turn, groups, failures>>
sshVars == <<checked, user, prompts, stranger>>
unitVars == <<job, ghosts, dir, back, falls>>
vars == <<state, sound, layout, UserIn, commands, cmd, phase, outcome, at, turn, groups,
          failures, falls, job, ghosts, dir, checked, user, prompts, back, stranger>>

Threads == Keys \union {"main"}

----------------------------------------------------------------------------
(* Targets *)

NoCommand == [op |-> "none", components |-> {}, place |-> <<>>, host |-> <<>>,
              parallel |-> FALSE, tty |-> FALSE, yes |-> FALSE, ip |-> "none"]

Components == {c \in Keys : groups[c] # <<>>}
Targets == {s \in Services : \E i \in DOMAIN groups[s[1]] : groups[s[1]][i] = s[2]}
Current(c) == <<c, groups[c][turn[c]]>>

\* The sort is stable: two components of one deploy_order stay as they were listed.
Before(c, d) ==
  \/ Meta[c].order < Meta[d].order
  \/ Meta[c].order = Meta[d].order /\ cmd.place[c] < cmd.place[d]

\* The first component in deploy order, whose first host is asked about.
First == CHOOSE c \in Components : \A d \in Components \ {c} : Before(c, d)

\* reset: the one component of the command line, and one of its hosts.
Unit == CHOOSE c \in cmd.components : TRUE
Entries == component_inventory(layout.hosts, Unit)
_select_host ==
  IF cmd.host = <<>> THEN {e.ip : e \in {Entries[i] : i \in DOMAIN Entries}}
                      ELSE {e.ip : e \in {find_host(Entries, cmd.host)[i] :
                                           i \in DOMAIN find_host(Entries, cmd.host)}}

\* The host the main thread connects to.
MainHost == IF cmd.op = "reset" THEN cmd.ip ELSE groups[First][1]
HostOf(t) == IF t = "main" THEN MainHost ELSE Current(t)[2]

RemoteTypeOK ==
  /\ ServiceTypeOK
  /\ layout \in Layouts
  /\ UserIn \subseteq Machines
  /\ commands \in 0 .. MaxCommands
  /\ [cmd EXCEPT !.ip = "none"] \in Requests \union {NoCommand}
  /\ cmd.ip \in Machines \union {"none"}
  /\ phase \in {"idle", "confirm", "target", "prewarm", "run", "reset", "tear", "redeploy",
                "play"}
  /\ outcome \in {"none", "ok", "failed", "error", "aborted"}
  /\ at \in [Threads -> {"off", "guard", "resolve", "prompt", "connect", "wait", "end"}]
  /\ groups \in [Keys -> Seq(Machines)]
  /\ \A c \in Keys : turn[c] \in 1 .. Len(groups[c]) + 1
  /\ \A c \in Components : turn[c] > Len(groups[c]) <=> at[c] = "end"
  /\ failures \subseteq Services
  /\ job \in [Services -> {"none", "queued", "running", "ok", "failed"}]
  /\ falls \in 0 .. MaxFalls
  /\ ghosts \subseteq Services
  /\ dir \subseteq Services
  /\ checked \in BOOLEAN /\ user \in BOOLEAN /\ stranger \in BOOLEAN
  /\ prompts \in Nat
  /\ back \subseteq Services

----------------------------------------------------------------------------
(* The services, under systemd *)

Keep == UNCHANGED <<layout, UserIn>> /\ UNCHANGED ctlVars /\ UNCHANGED sshVars

systemctl_start(s) ==
  /\ s \in dir
  /\ Start(s)
  /\ job' = [job EXCEPT ![s] = IF @ = "queued" THEN "running" ELSE @]
  /\ UNCHANGED <<ghosts, dir, back, falls>> /\ Keep

\* Without its working directory a unit does not start.
start_fails(s) ==
  /\ s \notin dir /\ state[s] = "down" /\ job[s] = "queued"
  /\ job' = [job EXCEPT ![s] = "failed"]
  /\ UNCHANGED serviceVars /\ UNCHANGED <<ghosts, dir, back, falls>> /\ Keep

comes_up(s) ==
  /\ Ready(s)
  /\ job' = [job EXCEPT ![s] = IF @ = "running" THEN "ok" ELSE @]
  /\ back' = IF job[s] = "running" THEN back \union {s} ELSE back
  /\ UNCHANGED <<ghosts, dir, falls>> /\ Keep

goes_down(s) ==
  /\ Stop(s)
  /\ \/ job[s] = "running" /\ job' = [job EXCEPT ![s] = "failed"] /\ UNCHANGED falls
     \/ job[s] # "running" /\ falls < MaxFalls /\ falls' = falls + 1 /\ UNCHANGED job
  /\ UNCHANGED <<ghosts, dir, back>> /\ Keep

looks(s) == Look(s) /\ UNCHANGED unitVars /\ Keep

\* What is left of a script that goes on without its connection.
ghost_strikes(s) ==
  /\ s \in ghosts
  /\ ghosts' = ghosts \ {s}
  /\ dir' = dir \ {s}
  /\ UNCHANGED serviceVars /\ UNCHANGED <<job, back, falls>> /\ Keep

----------------------------------------------------------------------------
(* The command line *)

World == UNCHANGED serviceVars /\ UNCHANGED <<layout, UserIn, falls, job, ghosts, dir>>

End(how) == phase' = "idle" /\ outcome' = how

\* A new process: nothing is checked, what ssh/config.local says stays.
Begin(r) ==
  /\ phase = "idle" /\ commands < MaxCommands
  /\ commands' = commands + 1
  /\ cmd' = r
  /\ at' = [t \in Threads |-> "off"]
  /\ turn' = [c \in Keys |-> 1] /\ groups' = [c \in Keys |-> <<>>]
  /\ failures' = {} /\ back' = {} /\ prompts' = 0 /\ stranger' = FALSE
  /\ checked' = FALSE
  /\ UNCHANGED user /\ World

restart(r) ==
  /\ r.op = "restart"
  /\ Begin(r)
  /\ \/ NoSuchUnits(layout.units, r.components) /\ End("error")
     \/ /\ ~NoSuchUnits(layout.units, r.components)
        /\ phase' = IF r.components = {} /\ ~r.yes THEN "confirm" ELSE "target"
        /\ outcome' = "none"

\* A unit of the manifest, external ones included; the operator picks the host.
resolve_target(r) ==
  /\ r.op = "reset"
  /\ Begin(r)
  /\ phase' = IF r.components \subseteq DOMAIN layout.units THEN "reset" ELSE "idle"
  /\ outcome' = IF r.components \subseteq DOMAIN layout.units THEN "none" ELSE "error"

\* Off a terminal the confirmation is an error.
Confirm ==
  /\ phase = "confirm"
  /\ \/ cmd.tty /\ phase' = "target" /\ UNCHANGED outcome
     \/ End(IF cmd.tty THEN "aborted" ELSE "error")
  /\ UNCHANGED <<commands, cmd, at, turn, groups, failures, back>>
  /\ UNCHANGED sshVars /\ World

Ips(entries) == [i \in DOMAIN entries |-> entries[i].ip]
TargetedBy(l, r, c) ==
  Ips(iter_targeted_hosts(l.hosts, l.units, r.components, r.host, c))
Targeted(c) == TargetedBy(layout, cmd, c)

\* Every target is known before the first connection.
FindGroups ==
  /\ phase = "target"
  /\ groups' = [c \in Keys |-> Targeted(c)]

Spawn == at' = [t \in Threads |-> IF t # "main" /\ groups'[t] # <<>> THEN "guard" ELSE "off"]

NoTarget == NoSuchHosts(layout.hosts, layout.units, cmd.components, cmd.host)

\* Threads that start without the guard of the main one.
TargetNoPrewarm ==
  /\ phase = "target"
  /\ IF NoTarget
     THEN End("error") /\ UNCHANGED <<at, groups>>
     ELSE FindGroups /\ phase' = "run" /\ Spawn /\ UNCHANGED outcome
  /\ UNCHANGED <<commands, cmd, turn, failures, back>> /\ UNCHANGED sshVars /\ World

Target ==
  /\ phase = "target"
  /\ IF NoTarget
     THEN End("error") /\ UNCHANGED <<at, groups>>
     ELSE /\ FindGroups
          /\ IF cmd.parallel
             THEN phase' = "prewarm" /\ at' = [at EXCEPT !["main"] = "guard"]
             ELSE phase' = "run" /\ Spawn
          /\ UNCHANGED outcome
  /\ UNCHANGED <<commands, cmd, turn, failures, back>> /\ UNCHANGED sshVars /\ World

Prewarmed ==
  /\ phase = "prewarm" /\ at["main"] = "connect"
  /\ phase' = "run" /\ UNCHANGED groups /\ Spawn
  /\ UNCHANGED <<commands, cmd, outcome, turn, failures, back>>
  /\ UNCHANGED sshVars /\ World

----------------------------------------------------------------------------
(* The ssh user, once per process *)

\* Without -p the components of the list go one after the other.
MayStep(c) ==
  /\ phase = "run" /\ c \in Components
  /\ cmd.parallel \/ \A d \in Components : Before(d, c) => at[d] = "end"

Steps(t) == IF t = "main" THEN phase \in {"prewarm", "reset"} ELSE MayStep(t)

Move(t, p) ==
  /\ at' = [at EXCEPT ![t] = p]
  /\ UNCHANGED <<commands, cmd, phase, outcome, turn, groups, failures, back>> /\ World

ensure_ssh_user(t) ==
  /\ at[t] = "guard" /\ Steps(t)
  /\ checked' = (checked \/ user)
  /\ Move(t, IF checked \/ user THEN "connect" ELSE "resolve")
  /\ UNCHANGED <<user, prompts, stranger>>

\* ssh -G of that host; the answer, whatever it is, is for the whole process.
_resolved_ssh_user(t) ==
  /\ at[t] = "resolve"
  /\ checked' = TRUE
  /\ Move(t, IF HostOf(t) \in UserIn \/ ~cmd.tty THEN "connect" ELSE "prompt")
  /\ prompts' = IF HostOf(t) \in UserIn \/ ~cmd.tty THEN prompts ELSE prompts + 1
  /\ UNCHANGED <<user, stranger>>

_persist_user(t) ==
  /\ at[t] = "prompt"
  /\ user' = TRUE
  /\ Move(t, "connect")
  /\ UNCHANGED <<checked, prompts, stranger>>

\* The prompt is cancelled: the exception ends the process.
Cancel(t) ==
  /\ at[t] = "prompt"
  /\ End("aborted")
  /\ at' = [x \in Threads |-> "off"]
  /\ UNCHANGED <<commands, cmd, turn, groups, failures, back>> /\ UNCHANGED sshVars /\ World

Reaches(ip) ==
  /\ stranger' = (stranger \/ ~(user \/ ip \in UserIn))
  /\ UNCHANGED <<checked, user, prompts>>

----------------------------------------------------------------------------
(* restart *)

\* One host too many.
AdvancePast(c, failed) ==
  /\ turn' = [turn EXCEPT ![c] = @ + 1]
  /\ at' = [at EXCEPT ![c] = IF turn[c] > Len(groups[c]) THEN "end" ELSE "guard"]
  /\ failures' = IF failed THEN failures \union {Current(c)} ELSE failures

\* The next host of the component, or the end of the thread.
Advance(c, failed) ==
  /\ turn' = [turn EXCEPT ![c] = @ + 1]
  /\ at' = [at EXCEPT ![c] = IF turn[c] = Len(groups[c]) THEN "end" ELSE "guard"]
  /\ failures' = IF failed THEN failures \union {Current(c)} ELSE failures

Quiet == UNCHANGED <<layout, UserIn, falls, commands, cmd, phase, outcome, groups, ghosts, dir>>

ssh_fails(c) ==
  /\ MayStep(c) /\ at[c] = "connect"
  /\ Advance(c, TRUE)
  /\ UNCHANGED serviceVars /\ UNCHANGED <<job, back>>
  /\ Reaches(Current(c)[2]) /\ Quiet

\* systemctl restart: a stop if it is not down, and a start job to wait for.
TakeDown(c) ==
  /\ MayStep(c) /\ at[c] = "connect"
  /\ \/ Stop(Current(c))
     \/ state[Current(c)] = "down" /\ UNCHANGED serviceVars
  /\ job' = [job EXCEPT ![Current(c)] = "queued"]
  /\ back' = back \ {Current(c)}
  /\ Reaches(Current(c)[2]) /\ Quiet

\* systemctl restart --no-block.
_restart_no_wait(c) == TakeDown(c) /\ Advance(c, FALSE)

_restart_component(c) ==
  /\ TakeDown(c)
  /\ at' = [at EXCEPT ![c] = "wait"]
  /\ UNCHANGED <<turn, failures>>

\* Waiting for the service to be up, however long.
ReturnsWhenUp(c) ==
  /\ at[c] = "wait"
  /\ job[Current(c)] = "ok"
  /\ Advance(c, FALSE)
  /\ job' = [job EXCEPT ![Current(c)] = "none"]
  /\ UNCHANGED serviceVars /\ UNCHANGED back /\ UNCHANGED sshVars /\ Quiet

\* An exit code nobody looks at.
ReturnsUnread(c) ==
  /\ at[c] = "wait"
  /\ job[Current(c)] \in {"ok", "failed"}
  /\ Advance(c, FALSE)
  /\ job' = [job EXCEPT ![Current(c)] = "none"]
  /\ UNCHANGED serviceVars /\ UNCHANGED back /\ UNCHANGED sshVars /\ Quiet

ssh_returns(c) ==
  /\ at[c] = "wait"
  /\ job[Current(c)] \in {"ok", "failed"}
  /\ Advance(c, job[Current(c)] = "failed")
  /\ job' = [job EXCEPT ![Current(c)] = "none"]
  /\ UNCHANGED serviceVars /\ UNCHANGED back /\ UNCHANGED sshVars /\ Quiet

\* The connection is lost; the job goes on without anybody waiting.
ssh_drops(c) ==
  /\ at[c] = "wait"
  /\ Advance(c, TRUE)
  /\ UNCHANGED serviceVars /\ UNCHANGED <<job, back>> /\ UNCHANGED sshVars /\ Quiet

Report ==
  /\ phase = "run" /\ \A c \in Components : at[c] = "end"
  /\ End(IF failures = {} THEN "ok" ELSE "failed")
  /\ UNCHANGED <<commands, cmd, at, turn, groups, failures, back>>
  /\ UNCHANGED sshVars /\ World

----------------------------------------------------------------------------
(* reset *)

Torn == <<Unit, cmd.ip>>

\* One host, or a terminal to pick one on; then the name of the unit typed back,
\* which only a terminal can ask for (or -y).
CanPick == cmd.tty \/ (cmd.yes /\ Cardinality(_select_host) = 1)

PickHost ==
  /\ phase = "reset" /\ at["main"] = "off"
  /\ \/ /\ CanPick
        /\ \E ip \in _select_host : cmd' = [cmd EXCEPT !.ip = ip]
        /\ at' = [at EXCEPT !["main"] = "guard"]
        /\ UNCHANGED <<phase, outcome>>
     \/ /\ cmd.tty /\ (~cmd.yes \/ Cardinality(_select_host) > 1)
        /\ End("aborted") /\ UNCHANGED <<at, cmd>>
     \/ /\ _select_host = {} \/ ~CanPick
        /\ End("error") /\ UNCHANGED <<at, cmd>>
  /\ UNCHANGED <<commands, turn, groups, failures, back>> /\ UNCHANGED sshVars /\ World

\* systemctl stop || true.
teardown ==
  /\ phase = "reset" /\ at["main"] = "connect"
  /\ Reaches(cmd.ip)
  /\ \/ /\ phase' = "tear" /\ UNCHANGED outcome
        /\ \/ Stop(Torn)
           \/ UNCHANGED serviceVars
     \/ End("failed") /\ UNCHANGED serviceVars
  /\ UNCHANGED <<layout, UserIn, falls, commands, cmd, at, turn, groups, failures, job, ghosts, dir, back>>

\* The end of the script, rm -rf, may fail; its connection may be lost before,
\* and the code of either is not 0.
TornDownUnread ==
  /\ phase = "tear"
  /\ \/ dir' = dir \ {Torn} /\ UNCHANGED ghosts
     \/ UNCHANGED <<dir, ghosts>>
     \/ ghosts' = ghosts \union {Torn} /\ UNCHANGED dir
  /\ phase' = "redeploy"
  /\ UNCHANGED <<layout, UserIn, falls, commands, cmd, at, turn, groups, failures, job, back, outcome>>
  /\ UNCHANGED serviceVars /\ UNCHANGED sshVars

TornDown ==
  /\ phase = "tear"
  /\ \/ dir' = dir \ {Torn} /\ phase' = "redeploy" /\ UNCHANGED <<outcome, ghosts>>
     \/ End("failed") /\ UNCHANGED <<dir, ghosts>>
     \/ End("failed") /\ ghosts' = ghosts \union {Torn} /\ UNCHANGED dir
  /\ UNCHANGED <<layout, UserIn, falls, commands, cmd, at, turn, groups, failures, job, back>>
  /\ UNCHANGED serviceVars /\ UNCHANGED sshVars

\* generate_all has playbooks for the managed units only.
Redeploy ==
  /\ phase = "redeploy"
  /\ \/ Unit \in managed(layout.units) /\ phase' = "play" /\ UNCHANGED outcome
     \/ End("failed")
  /\ UNCHANGED <<commands, cmd, at, turn, groups, failures, back>> /\ UNCHANGED sshVars /\ World

\* The play writes the directory and starts the service, or fails.
play ==
  /\ phase = "play"
  /\ \/ /\ dir' = dir \union {Torn}
        /\ \/ state[Torn] = "up" /\ End("ok")
           \/ Torn \notin dir /\ UNCHANGED <<phase, outcome>>
     \/ End("failed") /\ UNCHANGED dir
  /\ UNCHANGED <<layout, UserIn, falls, commands, cmd, at, turn, groups, failures, job, ghosts, back>>
  /\ UNCHANGED serviceVars /\ UNCHANGED sshVars

----------------------------------------------------------------------------
\* What is deployed is up; a host that was just added has nothing yet.
Init ==
  /\ layout \in Layouts /\ dir = layout.deployed
  /\ state = [s \in Services |-> IF s \in dir THEN "up" ELSE "down"]
  /\ sound = [s \in Services |-> s \in dir]
  /\ user \in BOOLEAN /\ UserIn \in IF user THEN {{}} ELSE SUBSET Machines
  /\ commands = 0 /\ cmd = NoCommand
  /\ phase = "idle" /\ outcome = "none"
  /\ at = [t \in Threads |-> "off"] /\ turn = [c \in Keys |-> 1]
  /\ groups = [c \in Keys |-> <<>>] /\ failures = {}
  /\ job = [s \in Services |-> "none"] /\ ghosts = {} /\ falls = 0
  /\ checked = FALSE /\ prompts = 0
  /\ back = {} /\ stranger = FALSE

SystemdNext == \E s \in Services : \/ systemctl_start(s) \/ start_fails(s) \/ comes_up(s)
                                  \/ goes_down(s) \/ looks(s) \/ ghost_strikes(s)

UserNext == \E t \in Threads : \/ ensure_ssh_user(t) \/ _resolved_ssh_user(t)
                               \/ _persist_user(t) \/ Cancel(t)

RestartNext ==
  \/ Target \/ Prewarmed \/ Report
  \/ \E c \in Keys : \/ ssh_fails(c) \/ _restart_component(c) \/ ssh_returns(c)
                     \/ ssh_drops(c)

ResetNext == PickHost \/ teardown \/ TornDown \/ Redeploy \/ play

Next ==
  \/ SystemdNext
  \/ \E r \in Requests : restart(r) \/ resolve_target(r)
  \/ Confirm \/ UserNext \/ RestartNext \/ ResetNext

Spec == Init /\ [][Next]_vars

\* The threads run, and systemd carries a job out and ends a start.
Fairness ==
  /\ WF_vars(Target \/ Prewarmed \/ Report)
  /\ \A t \in Threads : WF_vars(ensure_ssh_user(t) \/ _resolved_ssh_user(t))
  /\ \A c \in Keys : WF_vars(_restart_component(c) \/ ssh_returns(c))
  /\ \A s \in Services :
       WF_vars(\/ job[s] = "queued" /\ (systemctl_start(s) \/ start_fails(s))
               \/ state[s] = "starting" /\ (comes_up(s) \/ goes_down(s)))

FairSpec == Spec /\ Fairness

----------------------------------------------------------------------------
\* Every managed component is reached on its own hosts, a worker without any on
\* the core's, whichever version of st-cli wrote the hosts file.
Meant(c) == IF layout.own[c] = <<>> THEN layout.own[files_component(c)] ELSE layout.own[c]
TargetsAreTheHosts ==
  phase = "run" /\ cmd.host = <<>> =>
    \A c \in managed_units(layout.units, cmd.components) :
      {groups[c][i] : i \in DOMAIN groups[c]} = {Meant(c)[i] : i \in DOMAIN Meant(c)}

\* "restart rolls each component's hosts one at a time": a component's next host
\* is taken down only when the one before is back or is reported as failed.
Rolling ==
  \A c \in Components : \A i \in 1 .. turn[c] - 1 :
    phase = "run" => <<c, groups[c][i]>> \in back \union failures

\* A restart that succeeds has brought every targeted service back.
OkMeansBack == cmd.op = "restart" /\ outcome = "ok" => Targets \subseteq back

\* The ssh user is asked for once, and no host is reached without a user before
\* the answer (the one host whose ssh config is read answers for all).
UserSettled ==
  /\ prompts <= 1
  /\ cmd.tty /\ stranger => MainHost \in UserIn

\* A reset redeploys into an empty place: never over what it could not remove.
ResetStartsClean == [][phase = "redeploy" /\ phase' = "play" => Torn \notin dir]_vars

\* A restart ends, unless the operator is being asked something.
RestartEnds == (phase = "run") ~> (phase = "idle" \/ \E t \in Threads : at[t] = "prompt")
============================================================================
