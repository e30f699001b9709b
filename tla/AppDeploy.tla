----------------------------- MODULE AppDeploy -----------------------------
(***************************************************************************)
(* A deploy of one application: the plays of st-cli deploy, host by host,  *)
(* and the tasks the podman role runs on each host.                        *)
(*                                                                         *)
(* The application has a core, which migrates the database, and possibly   *)
(* workers, one of which runs beat.  Ansible plays the hosts of a unit     *)
(* one at a time, in the order of the inventory, and stops at the first    *)
(* that fails.  On a host, a task that changes a file notifies the         *)
(* handlers, which restart the service at the end of the block; a task     *)
(* that fails skips the rest of the block, and the handlers with it.       *)
(*                                                                         *)
(* The content of a file is the number of the release that rendered it.    *)
(***************************************************************************)
EXTENDS Naturals

CONSTANTS
  Units,        \* the core of the application, and its workers if it has any
  N,            \* number of hosts of each unit
  MaxRelease,   \* bound: releases of the collection and of the config tree
  ScriptFrom,   \* the release that last changed application_execstart.sh
  UnitFrom,     \* the release that last changed the systemd unit
  FilesFrom,    \* the release that last changed the files beside the compose file
  Rollback,     \* the hosts with st_podman_application_rollback_enabled
  Limits,       \* is deploy used with -c and -H?
  Lossy,        \* can a play be killed, or the host be lost, between two tasks?
  Undeletable   \* can the removal of a broken directory fail?

Hosts    == 1 .. N
Releases == 1 .. MaxRelease
Versions == 0 .. MaxRelease

ASSUME UnitAssumption    == Units \in {{"core"}, {"core", "workers"}}
ASSUME HostAssumption    == N \in Nat \ {0}
ASSUME ReleaseAssumption == MaxRelease \in Nat \ {0}
ASSUME ContentAssumption ==
  \A from \in {ScriptFrom, UnitFrom, FilesFrom} :
    /\ from \in [Releases -> Releases]
    /\ \A r \in Releases : from[r] <= r
ASSUME RollbackAssumption == Rollback \in {"never", "first", "always"}
ASSUME SwitchAssumption   == {Limits, Lossy, Undeletable} \subseteq BOOLEAN

Dirs    == [there : BOOLEAN, files : Versions, compose : Versions, beat : BOOLEAN]
NoDir   == [there |-> FALSE, files |-> 0, compose |-> 0, beat |-> FALSE]
Down    == [dir |-> NoDir, script |-> 0, unit |-> 0]
Service == [dir : Dirs, script : Versions, unit : Versions]

VARIABLES
  release,  \* what the operator has checked out
  unit,     \* version of the systemd unit on each host
  script,   \* version of the ExecStart script beside it
  dir,      \* the application directory
  backup,   \* the .rollback directory
  loaded,   \* version of the unit the service manager has loaded
  svc,      \* what the running service was started with, or Down
  enabled,  \* units enabled on each host
  db,       \* the release whose migrations are applied
  pc,       \* the task the play is at
  todo,     \* units the deploy has still to play after this one
  limit,    \* the host of -H, 0 for all of them
  u, h,     \* the unit and the host being played
  notified, \* handlers notified on this host
  before    \* the directory at the start of this host's turn

files == <<unit, script, dir, backup>>
host  == <<files, loaded, svc, enabled>>
play  == <<todo, limit, u, h, before>>
vars  == <<release, host, db, pc, play, notified>>

Set(f, v) == [f EXCEPT ![u][h] = v]

-----------------------------------------------------------------------------
(* cmd/deploy.py, the playbook and the variables of the scaffold *)

\* ansible_play_hosts_all[0]: -H narrows the play to one host.
First == IF limit = 0 THEN 1 ELSE limit

Rolls == Rollback = "always" \/ (Rollback = "first" /\ h = First)
Beats == u = "workers" /\ h = First

deploy(us, l) ==
  /\ pc = "idle" /\ us # {}
  /\ Limits \/ (us = Units /\ l = 0)
  /\ u' = IF "core" \in us THEN "core" ELSE "workers"
  /\ todo' = us \ {u'} /\ limit' = l
  /\ h' = IF l = 0 THEN 1 ELSE l
  /\ before' = dir[u'][h'] /\ pc' = "clean"
  /\ UNCHANGED <<release, host, db, notified>>

Turn(v, k) ==
  /\ u' = v /\ h' = k /\ before' = dir[v][k]
  /\ pc' = "clean"

\* Mutant: the hosts are counted from zero.
EndAtZero ==
  /\ pc' = "idle" /\ todo' = {} /\ limit' = 0 /\ u' = "core" /\ h' = 0
  /\ notified' = {} /\ before' = NoDir

\* The play and the deploy end, for the reason of the caller.
End ==
  /\ pc' = "idle" /\ todo' = {} /\ limit' = 0 /\ u' = "core" /\ h' = 1
  /\ notified' = {} /\ before' = NoDir

\* serial: 1, then the next unit.
NextTurn ==
  /\ pc = "next"
  /\ IF limit = 0 /\ h < N THEN Turn(u, h + 1) /\ UNCHANGED <<todo, limit, notified>>
     ELSE IF todo = {} THEN End
     ELSE \E v \in todo :
            Turn(v, First) /\ todo' = todo \ {v} /\ UNCHANGED <<limit, notified>>
  /\ UNCHANGED <<release, host, db>>

-----------------------------------------------------------------------------
(* roles/podman/tasks/application.yml *)

Task(this, next) == pc = this /\ pc' = next

CleanRollback ==
  /\ Task("clean", "backup")
  /\ backup' = IF Rolls THEN Set(backup, NoDir) ELSE backup
  /\ UNCHANGED <<release, unit, script, dir, loaded, svc, enabled, db, play, notified>>

Backup ==
  /\ Task("backup", "unit")
  /\ backup' = IF Rolls THEN Set(backup, dir[u][h]) ELSE backup
  /\ UNCHANGED <<release, unit, script, dir, loaded, svc, enabled, db, play, notified>>

DeployUnit ==
  /\ Task("unit", "script")
  /\ unit' = Set(unit, UnitFrom[release])
  /\ notified' = notified \cup IF unit' # unit THEN {"reload", "restart"} ELSE {}
  /\ UNCHANGED <<release, script, dir, backup, loaded, svc, enabled, db, play>>

DeployScript ==
  /\ Task("script", "directory")
  /\ script' = Set(script, ScriptFrom[release])
  /\ notified' = notified \cup IF script' # script THEN {"restart"} ELSE {}
  /\ UNCHANGED <<release, unit, dir, backup, loaded, svc, enabled, db, play>>

\* The directory itself, which is not part of the block.
EnsureDirectory ==
  /\ Task("directory", "files")
  /\ dir' = Set(dir, [dir[u][h] EXCEPT !.there = TRUE])
  /\ UNCHANGED <<release, unit, script, backup, loaded, svc, enabled, db, play, notified>>

\* Its directories, files and secret files.
DeployFiles ==
  /\ Task("files", "compose")
  /\ dir' = Set(dir, [dir[u][h] EXCEPT !.files = FilesFrom[release]])
  /\ notified' = notified \cup IF dir' # dir THEN {"restart"} ELSE {}
  /\ UNCHANGED <<release, unit, script, backup, loaded, svc, enabled, db, play>>

\* Mutant: the compose file does not notify the restart.
SilentCompose ==
  /\ Task("compose", "reload")
  /\ dir' = Set(dir, [dir[u][h] EXCEPT !.compose = release, !.beat = Beats])
  /\ UNCHANGED <<release, unit, script, backup, loaded, svc, enabled, db, play, notified>>

DeployCompose ==
  /\ Task("compose", "reload")
  /\ dir' = Set(dir, [dir[u][h] EXCEPT !.compose = release, !.beat = Beats])
  /\ notified' = notified \cup IF dir' # dir THEN {"restart"} ELSE {}
  /\ UNCHANGED <<release, unit, script, backup, loaded, svc, enabled, db, play>>

\* A unit that was never loaded is read from the disk when it is started.  The
\* start succeeds only with a compose file.
Loaded  == IF loaded[u][h] = 0 THEN unit[u][h] ELSE loaded[u][h]
OnDisk  == [dir |-> dir[u][h], script |-> script[u][h], unit |-> Loaded]
Started == /\ dir[u][h].compose # 0
           /\ svc' = Set(svc, OnDisk) /\ loaded' = Set(loaded, Loaded)

\* The units of a host run under one user: its manager reloads them all.
FlushReload ==
  /\ Task("reload", "restart")
  /\ loaded' = IF "reload" \in notified
       THEN [v \in Units |-> [loaded[v] EXCEPT ![h] = IF @ = 0 THEN 0 ELSE unit[v][h]]]
       ELSE loaded
  /\ notified' = notified \ {"reload"}
  /\ UNCHANGED <<release, files, svc, enabled, db, play>>

FlushRestart ==
  /\ Task("restart", "start")
  /\ IF "restart" \in notified THEN Started ELSE UNCHANGED <<svc, loaded>>
  /\ notified' = {}
  /\ UNCHANGED <<release, files, enabled, db, play>>

\* state: started, enabled: true
Start ==
  /\ Task("start", "forget")
  /\ IF svc[u][h] = Down THEN Started ELSE UNCHANGED <<svc, loaded>>
  /\ enabled' = Set(enabled, TRUE)
  /\ UNCHANGED <<release, files, db, play, notified>>

ForgetRollback ==
  /\ Task("forget", "migrate")
  /\ backup' = IF Rolls THEN Set(backup, NoDir) ELSE backup
  /\ UNCHANGED <<release, unit, script, dir, loaded, svc, enabled, db, play, notified>>

\* Mutant: the backup is restored over the broken directory.
LeaveBroken ==
  /\ Task("remove", "restore")
  /\ UNCHANGED <<release, host, db, play, notified>>

\* rescue: the broken directory makes room for the backup.
Remove ==
  /\ Task("remove", "restore")
  /\ dir' = Set(dir, NoDir)
  /\ UNCHANGED <<release, unit, script, backup, loaded, svc, enabled, db, play, notified>>

\* mv, which moves into a directory that exists.
Restore ==
  /\ Task("restore", "rerun") /\ backup[u][h] # NoDir
  /\ dir' = IF dir[u][h].there THEN dir ELSE Set(dir, backup[u][h])
  /\ backup' = Set(backup, NoDir)
  /\ UNCHANGED <<release, unit, script, loaded, svc, enabled, db, play, notified>>

Rerun ==
  /\ Task("rerun", "fail")
  /\ Started
  /\ UNCHANGED <<release, files, enabled, db, play, notified>>

-----------------------------------------------------------------------------
(* roles/<app>/tasks/deploy/<app>.yml *)

\* Mutant: the migrations run on the last host of the play.
MigrateLast ==
  /\ Task("migrate", "next")
  /\ db' = IF u = "core" /\ (limit # 0 \/ h = N) /\ dir[u][h].compose > db
             THEN dir[u][h].compose ELSE db
  /\ UNCHANGED <<release, host, play, notified>>

\* The migrations of the core, on the first host of the play; an older release
\* has none to apply.
Migrate ==
  /\ Task("migrate", "next")
  /\ db' = IF u = "core" /\ h = First /\ dir[u][h].compose > db
             THEN dir[u][h].compose ELSE db
  /\ UNCHANGED <<release, host, play, notified>>

-----------------------------------------------------------------------------
(* Failures *)

Block == {"compose", "files", "reload", "restart", "start", "forget"}
Tasks == Block \cup {"clean", "backup", "unit", "script", "directory", "restore", "rerun", "migrate"}
                \cup IF Undeletable THEN {"remove"} ELSE {}

\* A service that does not come up again is left stopped.
Stopped ==
  IF pc = "rerun" \/ (pc = "restart" /\ "restart" \in notified)
    THEN svc' = Set(svc, Down) /\ loaded' = Set(loaded, Loaded)
    ELSE UNCHANGED <<svc, loaded>>

\* A task fails: the block is rescued where there is a rollback, ...
Rescue ==
  /\ pc \in Block /\ Rolls
  /\ pc' = "remove"
  /\ Stopped
  /\ UNCHANGED <<release, files, enabled, db, play, notified>>

\* Mutant: a host that fails does not keep the others from being played.
PlayOn ==
  /\ pc \in Tasks /\ ~(pc \in Block /\ Rolls)
  /\ Stopped
  /\ pc' = "next" /\ notified' = {}
  /\ UNCHANGED <<release, files, enabled, db, play>>

\* ... and any other failure ends the play, with the handlers it had notified.
Fail ==
  /\ pc \in Tasks /\ ~(pc \in Block /\ Rolls)
  /\ Stopped
  /\ End
  /\ UNCHANGED <<release, files, enabled, db>>

\* "Fail deployment.", after the rollback.
FailDeployment ==
  /\ pc = "fail"
  /\ End
  /\ UNCHANGED <<release, host, db>>

\* The play is killed, or the host is lost: nothing is rescued.
Lost ==
  /\ Lossy /\ pc # "idle"
  /\ End
  /\ UNCHANGED <<release, host, db>>

-----------------------------------------------------------------------------
(* The operator and the hosts, between two deploys *)

Release(r) ==
  /\ pc = "idle"
  /\ release' = r
  /\ UNCHANGED <<host, db, pc, play, notified>>

\* A host reboots and starts its enabled units, those of up with success.
Reboot(k, up) ==
  LET runs(v) == v \in up /\ enabled[v][k] /\ dir[v][k].compose # 0 IN
  /\ pc = "idle"
  /\ svc' = [v \in Units |-> [svc[v] EXCEPT ![k] =
       IF runs(v) THEN [dir |-> dir[v][k], script |-> script[v][k], unit |-> unit[v][k]]
                  ELSE Down]]
  /\ loaded' = [v \in Units |-> [loaded[v] EXCEPT ![k] = IF runs(v) THEN unit[v][k] ELSE 0]]
  /\ UNCHANGED <<release, files, enabled, db, pc, play, notified>>

-----------------------------------------------------------------------------

On(x) == [v \in Units |-> [k \in Hosts |-> x]]

Init ==
  /\ release = 1
  /\ unit = On(0) /\ script = On(0) /\ dir = On(NoDir) /\ backup = On(NoDir)
  /\ loaded = On(0) /\ svc = On(Down) /\ enabled = On(FALSE)
  /\ db = 0
  /\ pc = "idle" /\ todo = {} /\ limit = 0 /\ u = "core" /\ h = 1
  /\ notified = {} /\ before = NoDir

Next ==
  \/ \E us \in SUBSET Units, l \in 0 .. N : deploy(us, l)
  \/ CleanRollback \/ Backup \/ DeployUnit \/ DeployScript
  \/ EnsureDirectory \/ DeployFiles \/ DeployCompose \/ FlushReload \/ FlushRestart \/ Start
  \/ ForgetRollback \/ Migrate \/ NextTurn
  \/ Remove \/ Restore \/ Rerun \/ FailDeployment
  \/ Rescue \/ Fail \/ Lost
  \/ \E r \in Releases : Release(r)
  \/ \E k \in Hosts, up \in SUBSET Units : Reboot(k, up)

Spec == Init /\ [][Next]_vars

-----------------------------------------------------------------------------
(* Properties *)

\* The types of the variables.
TypeOK ==
  /\ release \in Releases /\ db \in Versions
  /\ unit \in [Units -> [Hosts -> Versions]]
  /\ script \in [Units -> [Hosts -> Versions]]
  /\ dir \in [Units -> [Hosts -> Dirs]]
  /\ backup \in [Units -> [Hosts -> Dirs]]
  /\ loaded \in [Units -> [Hosts -> Versions]]
  /\ svc \in [Units -> [Hosts -> Service]]
  /\ enabled \in [Units -> [Hosts -> BOOLEAN]]
  /\ pc \in Block \cup {"idle", "clean", "backup", "unit", "script", "directory",
                        "migrate", "next", "remove", "restore", "rerun", "fail"}
  /\ todo \subseteq Units /\ limit \in 0 .. N /\ u \in Units /\ h \in Hosts
  /\ notified \subseteq {"reload", "restart"} /\ before \in Dirs

\* docs, Architecture: "messages1 (v1 -> v2) breaks, rollback to v1".  When the
\* rescue reports the failure, the service runs the directory the host had
\* before its turn, whichever task of the block failed.
RollbackRestores ==
  pc = "fail" => dir[u][h] = before /\ svc[u][h].dir = before

\* What the release puts on the host whose turn it is.
Deployed ==
  [there |-> TRUE, files |-> FilesFrom[release], compose |-> release, beat |-> Beats]

\* What a host with a rollback runs when its turn ends well is the application
\* directory that was deployed: no earlier failed play, rollback or reboot leaves
\* its containers on other files than those on its disk.
RollbackHostRunsIt ==
  pc = "next" /\ Rolls => svc[u][h].dir = Deployed /\ dir[u][h] = Deployed

\* docs, Architecture: "messages1 works with version v2, no interruption" while
\* "messages2 breaks".  The service is up on every host a play has been through.
EarlierHostsServe ==
  pc # "idle" /\ limit = 0 => \A k \in 1 .. h - 1 : svc[u][k] # Down

\* drive.yml: "Run DB migrations only once across a multi-host deploy", gated
\* "to the first play host".  No host but that one runs a release whose
\* migrations are not applied, nor the workers, which are played after the core.
SchemaFirst ==
  \A v \in Units, k \in Hosts :
    <<v, k>> # <<"core", 1>> => svc[v][k].dir.compose <= db

-----------------------------------------------------------------------------
(* The invariants those properties follow from, each inductive with TypeOK. *)

Ready == {"reload", "restart", "start", "forget", "migrate"}  \* the files are written

Behind(v, k) == /\ dir[v][k].compose <= db /\ backup[v][k].compose <= db
                /\ svc[v][k].dir.compose <= db

\* SchemaFirst, when every deploy is of all units and hosts: no host but the
\* first of the core has a turn before the migrations of the release.
SchemaInv ==
  /\ limit = 0 /\ todo \subseteq IF u = "core" THEN {"workers"} ELSE {}
  /\ pc # "idle" /\ <<u, h>> # <<"core", 1>> => release <= db
  /\ pc = "next" => release <= db
  /\ pc \in Ready => dir[u][h].compose = release
  /\ \A v \in Units, k \in Hosts : <<v, k>> # <<"core", 1>> => Behind(v, k)

\* RollbackRestores: from the backup to its restoration, where the rollback is
\* enabled, .rollback holds what the host had before its turn.
RollbackInv ==
  /\ pc \in {"clean", "backup"} => dir[u][h] = before
  /\ pc \in Block \cup {"unit", "script", "directory", "remove", "restore"} /\ Rolls
       => backup[u][h] = before
  /\ pc \in {"remove", "restore"} => Rolls
  /\ pc = "restore" => dir[u][h] = NoDir
  /\ pc = "rerun" => dir[u][h] = before
  /\ RollbackRestores

Synced(v, k) == svc[v][k] = Down \/ svc[v][k].dir = dir[v][k]

\* RollbackHostRunsIt, when every host has the rollback, no play is lost and a
\* directory can be removed: a service that is up runs the directory on its
\* disk, or has its restart notified, or lost its directory in a rollback.
SyncInv ==
  /\ \A v \in Units, k \in Hosts :
       pc \in {"idle", "clean", "backup", "unit", "script", "directory"} \/ <<v, k>> # <<u, h>>
         => Synced(v, k) \/ dir[v][k] = NoDir
  /\ pc \in {"files", "compose"} =>
       Synced(u, h) \/ "restart" \in notified \/ dir[u][h].compose = 0
  /\ pc \in {"reload", "restart"} => Synced(u, h) \/ "restart" \in notified
  /\ pc = "start" => Synced(u, h)
  /\ pc \in {"forget", "migrate", "next", "fail"} => svc[u][h].dir = dir[u][h]
  /\ pc = "restore" => dir[u][h] = NoDir
  /\ pc = "compose" => dir[u][h].there /\ dir[u][h].files = FilesFrom[release]
  /\ pc = "files" => dir[u][h].there
  /\ pc \in Ready \cup {"next"} => dir[u][h] = Deployed
  /\ \A v \in Units, k \in Hosts :
       /\ dir[v][k] = NoDir \/ dir[v][k].there
       /\ backup[v][k] = NoDir \/ backup[v][k].there

-----------------------------------------------------------------------------
(* What the documentation says, and the code does not do. *)

\* cli/README.md: "an upgrade of the actual LST applications is just a deploy:
\* deploy the pinned image tags".  A host whose turn ends well runs the files
\* and the compose file of the release.
RunsWhatItDeployed ==
  pc = "next" => svc[u][h].dir = Deployed
============================================================================
