# Formal models of st-ansible

st-ansible is an Ansible collection that deploys the applications of La Suite
(drive, meet, messages, docs, ...) as rootless Podman compose projects under
`systemd --user`, and `st-cli`, the Python command line that writes and maintains
the deployment repository the collection plays. These modules model the parts of
both that decide something: which units a release has outdated, what a deploy
refuses to play, which value of a secret two services end up with, which password
encrypts it, what a host runs after a deploy that failed, when a service may say
that it is ready, which hosts a restart takes down at a time. TLC checks them on small instances; TLAPS proves
their main properties for every value of the constants.

## Contents

| Module | Models | Checked by | Proofs |
| --- | --- | --- | --- |
| `Upgrade` | pin, stamps, flags; `bootstrap`, `upgrade`, the gate of `deploy` | `MCUpgrade` + 3 cfg | `UpgradeProofs` |
| `Secrets` | the secrets of an app through any sequence of `bootstrap` runs | `MCSecrets` + 2 cfg | `SecretsProofs` |
| `Lists` | a list comprehension, as an operator | through those that extend it | `ListFacts` |
| `EnvBlob` | `parse` and `merge` of the env variables, as operators | through `Backend` | through `BackendProofs` |
| `Backend` | the secret backend of each (app, env), the vault password of each clone, the env blob | `MCBackend` | `BackendProofs` |
| `AppDeploy` | the plays of `deploy` and the tasks of the podman role on each host | `MCAppDeploy` + 3 cfg | `AppDeployProofs` |
| `Service` | what a systemd service promises to those who start it (abstract) | through the two below | |
| `ExecStart` | the start script under its systemd unit; implements `Service` | `MCExecStart` | `ExecStartProofs` |
| `Inventory` | the hosts files and the targets of a command, as operators | through `Remote` | through `RemoteProofs` |
| `Remote` | `restart` and `reset` over ssh, the ssh user; uses `Service` and `Inventory` | `MCRemote` | `RemoteProofs` |
| `Callback` | the compact output of Ansible, its live line and its buffers | `MCCallback` | `CallbackProofs` |

`tlc -config MCUpgradeMeet.cfg MCUpgrade` checks a run, `tlapm UpgradeProofs.tla`
the proofs of a module. Paths below are relative to `src/cli/st_cli/` unless they
start with `roles/` or `docs/`.

## The system

| Component | State it keeps | Operations | Talks to |
| --- | --- | --- | --- |
| `bootstrap` (`cmd/bootstrap.py`) | the answers, the manifest and the secret buffer of a run, in memory | questionnaire, dependency loop, core write, manifest save | prompts, writer, vault, manifest |
| `upgrade` (`cmd/upgrade.py`) | the units it gave up on | realign the pin, replay flagged units | bootstrap (a call), flags, manifest |
| `deploy` (`cmd/deploy.py`) | the units still to play | gate, scaffolding, one play per unit | drift, generate, runner |
| flags (`core/upgrades.py`, `upgrades.yml`) | none | which units a release outdates, what it newly offers | manifest, app metadata |
| pin (`core/pin.py`) | `versions` of `.st-cli.yml` | compare, refuse an older CLI | manifest |
| manifest (`core/manifest.py`) | `.st-cli.yml`: pin, units (mode, stamp), secret backends | load, upsert, save | every command |
| writer and vault (`core/writer.py`, `core/vault.py`, `core/secretbackend.py`) | `vars.yml` and `vault.yml` of each component | merge, replace, encrypt | bootstrap |
| recovery (`core/recover.py`) | none | rebuild the answers from the committed files | bootstrap, drift |
| env blob (`core/envblob.py`, `core/envrender.py`) | none | parse, merge and render dotenv blocks | writer, recovery |
| tree, inventory, generation (`core/tree.py`, `core/generate.py`) | hosts files, generated playbooks | read and write hosts, narrow to a host | bootstrap, deploy, remote |
| remote operations (`cmd/remote.py`, `core/sshuser.py`) | the ssh user of the process | restart in sequence or in parallel, reset, logs, one-off commands | ssh |
| `podman` role (`roles/podman`) | files, unit and containers of one application on a host | install, render, notify, restart, roll back | systemd, podman |
| start script (`roles/podman/files/application_execstart.sh`) | the compose project | start, wait for health, notify systemd | podman, systemd |
| app roles (`roles/drive`, `roles/meet`, ...) | the application's database schema, the beat scheduler | application role, migrations once, one host at a time | podman role |
| compact callback (`plugins/callback/compact.py`) | the live line, the diffs and item counts per task and host | one callback per event of Ansible | Ansible's strategy, the terminal |
| `restic`, `alloy` roles, molecule scenarios | timers, agents, instances | set-up and tests | not modelled |

How they interact. `bootstrap` and `upgrade` only write the deployment repository:
one `vars.yml` and `vault.yml` per component, then `.st-cli.yml` once, at the end
of the run. `upgrade` calls `bootstrap` in the same process. `deploy` reads the
repository, decides whether it may play it, and starts one `ansible-playbook` per
unit, in the order of `deploy_order`; the playbook takes the hosts one at a time
(`serial: 1`), and on each host the podman role writes files, notifies handlers
and lets `systemd --user` run the start script. `restart` and `reset` go past
Ansible: they read the same hosts files and talk to systemd over ssh. The modules
follow that chain: `Upgrade` decides which files a play may use, `Secrets` and
`Backend` what the files say, `AppDeploy` what becomes of them on the hosts,
`ExecStart` what starting a service means there, and `Remote` who else starts it.
Two seams are compositions: `Remote` extends `Service`, which `ExecStart` is shown
to implement, and both `Backend` and `Remote` are built on the operators of a module
without state (`EnvBlob`, `Inventory`).

What is hard here, and where it bites (`PROJECT.json` lists each hazard at its
line):

- a run rewrites several trees and commits one manifest at its end; every prompt
  can be cancelled and the process killed anywhere in between;
- operators with different releases of `st-cli` share one repository;
- `upgrade` commits the new pin before it replays anything;
- one secret lives in two vaults, written at different moments of a run, and later
  runs reuse, override, adopt or declare external what earlier ones left;
- `vars.yml` and `vault.yml` are two files: a reference may survive its value;
- a change is notified only by the task that makes it: whatever fails before the
  handlers run makes the restart disappear;
- hosts are played one at a time against one database;
- each clone of the repository has its own vault password, or none, and the choice
  of the secret backend is saved with the manifest, at the end;
- containers appear, recover and die between any two commands of the start script;
- a connection is lost while its command goes on; threads share one question.

| Component | What makes it correct |
| --- | --- |
| stamps, flags, gate | a stamp is earned by a replay and a deploy plays no files the pinned collection outdates, but for the units the code stamps and keeps as they are (see Findings); an upgrade that ends leaves nothing flagged; the pin never moves back |
| manifest | what is registered as managed has files |
| secrets | nothing stored is rotated; both holders of a secret agree; every reference resolves |
| podman role | a rescue restores what the host had; a turn that ends well runs the application directory it deployed |
| rollout | no host runs ahead of the migrations; hosts already played keep serving; one beat |
| secret backend, env blob | references fit the backend and resolve; one password per vault; an answer takes effect; what the operator wrote stays |
| start script | ready only after one scan that counted every declared container; a start ends; what has stopped does not stay active; what runs is not given up, unless podman fails |
| restart, reset | one host of a component at a time; success means everything is back; a reset deploys into an empty place; one question |
| compact callback | no two lines glued; the live line is a running task's; each diff once, after its line |

## Module Upgrade

One (app, env) of a deployment repository. A release is a number; a flag of
`upgrades.yml` is the release that introduced it, the components it names (all if
none), whether it asks for the full questionnaire and which components it newly
offers. What a tree holds is abstracted to the release that last wrote it.

| State | Code |
| --- | --- |
| `cli` | the installed release (`__version__`) |
| `pin`, `unit` | `versions` and `units` of `.st-cli.yml`; a unit is its mode and `bootstrapped_with` |
| `tree`, `relay` | the committed component directories; `MTA_OUT_MODE` of the core's answers |
| `pc`, `target`, `action`, `m`, `flagged`, `offered`, `deps`, `relayAns` | the locals of `bootstrap`: `m` is the manifest in memory |
| `caller`, `todo`, `failed` | the frame of `upgrade`: a full run, or one unit at a time, and the units it gave up on |
| `queue` | the units `deploy` has still to play |
| `adopted` | history: units a save stamped over files that the running release did not write: a tree found unregistered, or a flagged unit kept as it is (`KeptAsIs`) |

| Action | Code |
| --- | --- |
| `bootstrap`, `_handle_dependency`, `WriteCore`, `save_manifest` | `cmd/bootstrap.py:2506-2870`; `Choices` is the menu of 1962-2086 with the branches that skip it, the four disjuncts of `_handle_dependency` are skip, external, reuse and deploy |
| `MissingPartner` | `_standalone_egress`, which refuses without livekit |
| `upgrade`, `Realign`, `NothingPending`, `ReplayAll`, `NoCoreTree`, `ReplayUnit`, `UpgradeDone` | `cmd/upgrade.py:43-175` |
| `deploy`, `play`, `DeployDone` | `cmd/deploy.py:34-94`, with the gate of `core/drift.py:40-56` as `Blocking` |
| `InstallCli` | the operator, or a teammate with another release if `OlderCli` |
| `Cancel`, `Crash`, `CrashBundle` | Ctrl-C or an error at any prompt or write (`upgrade` catches it unit by unit); a kill; a kill between the trees of egress and livekit |

`needed` and `new_component_offers` are `core/upgrades.py` without the texts.
`egress` is *bundled*: written inside the livekit step, and a target of its own
only with `-c egress`. Two units are stamped and kept as they are (`KeptAsIs`): an
egress whose livekit is not flagged and is reused, and the worker in a run with
`-c` of its own, which leaves the core's files alone. The documentation says that
only a replay clears a flag (see Findings): `FlagClearedOnlyByReplay` names these two
as its exceptions and says that nothing else clears one without a replay, and
`StampsAreEarned` and `PlaysReplayedConfig` except what `adopted` names. Without its
exceptions TLC finds `FlagClearedOnlyByReplay` violated in `upgrade_messages` (worker),
and in `upgrade_meet` (egress) if it is checked there.

## Module Secrets

The vaults and references of one core and its providers. A secret has a kind
(private, mirrored, shared, issued: the header of the module says which decides
what), a holder beside the core, and its value is the number of times it was
minted or typed. `Theirs` is the value an external service was given by its owner.

| State | Code |
| --- | --- |
| `asks` | the secrets the installed release's questionnaire knows |
| `unit`, `has`, `ref`, `vault` | mode in the manifest, existence of `vars.yml`, the `{{ vault_* }}` references in the core's, the values in each `vault.yml` |
| `ans`, `buf` | the answers of the run, the values buffered by the secret backend |
| `did`, `deps`, `cur`, `target`, `action` | the dependency loop |

| Action | Code |
| --- | --- |
| `bootstrap`, `_ask_core` | the seed of the answers (`core/recover.py:40-82`, empty on an override) and the core's questionnaire |
| `skip`, `external`, `reuse`, `deploy` | the branches of `_handle_dependency` (`cmd/bootstrap.py:1962-2369`); `Taken` is what a reuse re-injects, `Committed` what a replay finds decided |
| `WriteProviderVault`, `write_core`, `WriteCoreVault` | `core/writer.py:147-259`: `vars.yml` first, then `vault.yml`; merge, or rebuild on an override |
| `save_manifest`, `Abort`, `Release` | the end of a run, a cancelled or dead one, the next release |

`TornWrites` says whether a run may die between a `vars.yml` and its `vault.yml`;
the properties that need it to be `FALSE` say so below.

## Module AppDeploy

One application, its core and possibly its workers, on `N` hosts each. The content
of a file is the release that rendered it; `ScriptFrom`, `UnitFrom` and `FilesFrom`
say which release last changed the files that not every release changes, so a task
reports *changed* exactly when the code would.

| State | Code |
| --- | --- |
| `unit`, `script`, `dir`, `backup` | the systemd unit, the ExecStart script, the application directory and its `.rollback` on each host |
| `loaded`, `svc`, `enabled` | the unit in the memory of the user manager; what the running service was started with, or `Down`; enabled at boot |
| `db` | the release whose migrations are applied |
| `pc`, `u`, `h`, `todo`, `limit`, `notified` | the task, unit and host of the play; the units to come; the host of `-H`; the notified handlers |
| `before` | history: the directory at the start of the host's turn |

| Action | Code |
| --- | --- |
| `deploy`, `NextTurn`, `End` | `cmd/deploy.py:61-94` and `serial: 1` of the generated playbook |
| `CleanRollback` ... `ForgetRollback` | `roles/podman/tasks/application.yml:2-131`, one action per task that changes something; the directories, files and secret files are one (`DeployFiles`) |
| `FlushReload`, `FlushRestart` | the two handlers, in the order they are defined; all units of a host belong to one user manager, which a daemon-reload reloads together |
| `Remove`, `Restore`, `Rerun`, `FailDeployment` | the rescue, 133-164 |
| `Migrate` | `roles/<app>/tasks/deploy/<app>.yml`, on the first host of the play (`ansible_play_hosts_all[0]`) |
| `Rescue`, `Fail`, `Lost` | a failing task of the block; a failing task elsewhere, or without a rollback; a play killed or a host lost |
| `Release`, `Reboot` | the operator checks out another release, older ones too; a host reboots and starts its enabled units, which may fail |

A task can fail at any point, including the restart inside `flush_handlers`, which
is inside the block and therefore rescued. `mv` of the backup moves *into* a
directory that exists: `Restore` restores nothing then. The model starts a service
in one step; how the start script decides is `ExecStart`.

## Modules Service and ExecStart

`Service` is the abstract promise: a service is `down`, `starting` or `up`; it goes
up only when the last look at its containers was `sound`, it may go down at any time,
and a start is decided in the end. `ExecStart` is one service: the unit of
`application_systemd_unit.j2` and the script it runs, whose every command but the
sleeps may fail. A container is pending, fine, done, dead or absent; time is counted in
scans (`MaxScans` is `TIMEOUT / INTERVAL`).

| State | Code |
| --- | --- |
| `unit`, `result` | ActiveState and Result of the systemd unit |
| `pc` | the position in `application_execstart.sh` |
| `box` | each container, as `podman inspect` would see it |
| `CONTAINERS`, `listed`, `todo`, `HEALTHY`, `ELAPSED`, `RUNNING` | the variables of the script; whether `podman-compose config` answers; the containers left in this scan |
| `current`, `answer` | the container the scan looks at, and the STATE it read, empty if `podman inspect` failed |
| `found`, `lost` | history: the containers the scan has counted; whether a running container escaped the wait |

| Action | Code |
| --- | --- |
| `UpReturns`, `ListContainers`, `CheckDeclared` | `up -d`, `ps -q`, `config --services` |
| `inspect`, `JudgeRunning`, `JudgeExited`, `JudgeUnknown` | the state of a container, then its health or its exit code: separate commands, between which it may change. A failure is an empty answer: not counted as a state, counted as a health, 1 as an exit code |
| `EndScan`, `NotifyFails`, `CollectRunning`, `WaitReturns`, `WaitFails` | the end of a scan; `systemd-notify`, which `set -e` makes fatal; the list for `podman wait`, without those `inspect` failed for; `podman wait`, which `set -e` makes fatal too |
| `start`, `stop`, `StartTimesOut`, `Killed`, `ExecStopPost` | systemd: `TimeoutStartSec`, `Restart=on-abnormal`, the clean-up after a stop, which may fail and leave containers in any state |
| `Create`, `Change` | podman: `up -d` creates containers one by one, and each then lives its own life |

The refinement maps `activating` to `starting`, `active` to `up`, everything else to
`down`, and `sound` to *the current scan has counted every declared container* (every
container there is, if compose cannot say what it declares, as the script then does).

## Modules Inventory and Remote

`Inventory` has the writers of a hosts file and its readers. `hosts_files(own, old)`
is what a release of st-cli writes of the hosts the operator gave each component
(`own`), with the dashed group headers of 0.4 for those in `old`; `read_inventory`,
`effective_group`, `find_host` and `iter_targeted_hosts` read it back. A name is a
base and a separator, since the dash is all that `group_name` changes, and an alias is
the name as it is written with a number. A layout of
`Remote` is such hosts and their files, with the units of the manifest, so that
`TargetsAreTheHosts` compares what the operator said with where a restart goes.

`Remote` runs the commands: `cmd/remote.py` with `core/sshuser.py`, one position per
thread in `at`, over the services of `Service`.

| State | Code |
| --- | --- |
| `layout`, `UserIn`, `user` | hosts files and manifest; the machines `~/.ssh/config` has a user for; `ST_CLI_SSH_USER` or `ssh/config.local` |
| `cmd`, `phase`, `outcome` | the command line, where it is, how it ended |
| `cmd.place` | where the list of units that is sorted has each component: the order of the `-c` options, or of the manifest |
| `at`, `turn`, `groups`, `failures` | each thread, the host each component is at, `_restart_component`'s hosts, the failures it collects |
| `checked` | `sshuser._checked` of the process |
| `job`, `dir`, `ghosts` | systemd's job of each service, the application directories, teardown scripts whose connection was lost |
| `back`, `prompts`, `stranger`, `falls` | history: services that came back, questions asked, a connection without a user, services that died of themselves |

| Action | Code |
| --- | --- |
| `restart`, `Confirm`, `Target`, `Prewarmed`, `Report` | `cmd/remote.py:192-275`; all targets are known before the first connection; `Before` is the stable sort by `deploy_order` (`core/manifest.py:171`), two of which may be equal |
| `_restart_component`, `ssh_returns`, `ssh_fails`, `ssh_drops` | 160-190: `systemctl restart` waits for its job; the connection may be refused or lost |
| `ensure_ssh_user`, `_resolved_ssh_user`, `_persist_user`, `Cancel` | `core/sshuser.py`, by any thread |
| `resolve_target`, `PickHost`, `teardown`, `TornDown`, `Redeploy`, `play` | reset: one host, the teardown line, then generate and the play |
| `systemctl_start`, `start_fails`, `comes_up`, `goes_down`, `looks`, `ghost_strikes` | the services and what is left of a lost script |

## Modules EnvBlob and Backend

`EnvBlob` has `parse` and `merge` of `core/envblob.py` over lines `[key, value]`: the
first line of a key is rewritten, the last one is read, new keys come after a marker
line. `Backend` runs `bootstrap` for one unit of each site (an (app, env)), from
several clones of the repository, one after the other.

| State | Code |
| --- | --- |
| `password`, `made` | `.vault-pass` of each clone; how many were generated |
| `choice`, `unit` | `secrets[].backend` and the registered core in `.st-cli.yml` |
| `blob`, `vault`, `connection` | the env blob of `vars.yml`; the password and names of `vault.yml`; the OpenBao connection in `common.yml` |
| `run` | the locals of a run, the backend and its buffer included |
| `interrupted`, `doubled` | history: sites whose run died between `vars.yml` and the manifest; keys the operator wrote twice |

| Action | Code |
| --- | --- |
| `bootstrap`, `setup_backend`, `ensure_vault_password`, `questionnaire` | `cmd/bootstrap.py:2506-2600`, `core/secretbackend.py`, `core/vault.py:20-78` |
| `write_vars`, `write_vault`, `save_manifest` | `core/writer.py:147-259`, with `expand_var_markers` |
| `Dies` | a cancelled prompt, an error, a kill |
| `HandOver`, `EditVars`, `install_release` | operators: a password file handed over, lines written by hand, the next release |

## Module Callback

The terminal is its last row and the lines the last callback printed; a line is what
it is about (a task on a host, an item, a diff, a message). What ansible sends is any
interleaving of the callbacks of its hosts that its strategies can produce: a host
runs one task, a diff precedes its result, an item follows the one before.

| State | Code |
| --- | --- |
| `ui` | `_pending`, `_suffix`, `_item_counts`, `_visible_key`, and the terminal |
| `diffs` | `_diffs` |
| `running`, `starts`, `over` | Ansible: tasks under way and what they have reported; the end of the play |
| `options` | a TTY or a pipe, `display_ok_hosts`, `display_skipped_hosts` |

Each `v2_*` callback is an action of its name; `Message` is what Ansible displays by
itself, through the patched `Display`.

## Runs

Every run finishes in a few minutes on two workers. Deadlock is checked except where
the system comes to rest by a bound (`restart`: the last command is over and the
services stay as they are; `callback`: the play is over; `backend`: the runs are used
up).

| Run | Instance and bounds | Shows |
| --- | --- | --- |
| `upgrade_meet` | livekit with its bundled egress, 3 releases, one flag on egress alone, one on livekit with the full questionnaire, livekit newly offered; 42 k states | stamps are earned (`StampsAreEarned`), the gate protects what is played (`PlaysReplayedConfig`), an upgrade that ends leaves nothing flagged (`UpgradeClearsNeeds`) and no offer open (`OfferStaysQuiet`), commands end (`CommandEnds`) |
| `upgrade_messages` | workers, a provider that relay mode skips, a legacy unit, a raised baseline, older CLIs; 2 releases; 3.0 M states | no run takes a flag off without a replay (`FlagClearedOnlyByReplay`), what is managed has files (`ManagedHasFiles`), `PinNeverMovesBack` |
| `secrets_every` | a secret of every kind and one adopted, two providers that hold two each, one secret only the next release asks for; two mints per secret; 336 k states | `OwnedCopiesAgree`, `RunAligns`, `ReferencesResolve`, `SecretsNeverRotate` |
| `backend` | two sites, two clones, two releases of the questionnaire, two passwords, one edit by hand, two runs that write; 1.3 M states up to symmetry | references fit the backend the manifest names and resolve (`ReferencesFitBackend`), `RegisteredVaultKeepsPassword`, an answer is what the containers read (`AnswersTakeEffect`), `OperatorLinesStay` |
| `deploy_rolling` | core on 2 hosts, rollback on the first (the documented HA setting), 2 releases, plays lost, removals failing; 144 k states | `RollbackRestores`, `SchemaFirst`, `EarlierHostsServe` |
| `deploy_rollback` | core and workers on one host, rollback on, every subset of units deployed alone, unit file changed by each release; 3.7 M states | `RollbackHostRunsIt` |
| `start_script` | two services in the compose file, three scans; 40 k states | the script implements `Service` with its liveness (`ServiceSpec`), a unit gives up only when nothing runs or podman failed (`EndsOnlyWhenStopped`), and does give up when nothing runs (`StoppedIsSeen`) |
| `restart` | messages, its workers and its two MTAs, which have one `deploy_order`, on two machines, in two layouts (workers on the core's host; a file of st-cli 0.4 with two cores, one not deployed, and an external MTA); five command lines with and without `-p`, `-H`, a terminal; one service that dies of itself; 106 k states | `TargetsAreTheHosts`, `Rolling`, `OkMeansBack`, `UserSettled`, `ResetStartsClean`, `RestartEnds` |
| `callback` | two hosts, an ordinary task, a debug task and an include, four starts, two items, on a TTY or not; 59 k states up to symmetry | `NothingGlued`, `LiveLineWhileRunning`, `DiffsBelongToARun`, `DiffsFollowTheirLine` |

Three more runs are of one property each, which TLC finds violated: see Findings.

Why the bounds are enough. Releases: a unit can be stamped below, at or above a
flag, and two flags can straddle the pin, which takes three releases; two are
enough where one flag and one older CLI matter. Components: one of each way the
code treats them (core, worker, provider, bundled, legacy, skipped). Mints: two
values of one secret are needed to disagree; a third adds no new comparison, since
values are only compared for equality. Hosts: first and not first. Releases of a
deploy: what was there and what comes, in either direction. Containers: one scan can
find one fine and the other not yet, dead or gone, and every condition of the script
compares one container with all. Scans: a first, a last and one in between. Restart: one
command, since a process starts with nothing checked and no thread; what an earlier
one left is in the initial states (a saved user, a directory that is missing) and in
the services that die. Backend: a second run is the one that finds what the first
left; two clones are needed for two passwords, two sites for a choice that leaks
from one to the other. Callback: two hosts whose tasks overlap, one of them starting
again after its first result. Symmetry is used where no liveness is checked, in
`backend` over sites and clones and in `callback` over hosts, which no definition
tells apart.

Fairness. No fairness is ever assumed of operators, cancellations, kills, falling
services or lost connections.

- `CommandEnds`: weak fairness of `Step`, the steps of a command that has started.
  Nothing there waits for another actor but prompts, which the operator answers or
  cancels. The nesting of `upgrade` is what the property is about: a replay that
  raises comes back to the loop over units and not to the unit.
- `ServiceSpec`, `StoppedIsSeen`: weak fairness of the script, of the unit's start
  timeout and of its stop. `up -d` may hang and is not fair: the timeout is there for
  it. Containers are not fair.
- `RestartEnds`: weak fairness of each thread, and of systemd for a job it has
  accepted and a start it has begun, which is what `ExecStart` shows of a start. A
  thread that waits in a prompt is excepted. That a connection which is dead comes to
  be reported as lost rests on ssh's own keepalive: `subprocess.run` has no timeout.

Each property of a passing run comes with a mutant: a definition of the model
changed as a plausible bug would change the code (`BlockingBelowPin`,
`TakenWithoutAdoption`, `MigrateLast`, `CollectHealthy`, `_restart_no_wait`,
`TargetNoPrewarm`, `FinalizeBlank`, ...), under which TLC finds the property
violated. They stand before the definitions they change.

## Findings

Statements of the documentation that the code does not keep, each the single
property of a run in which TLC finds the violation.

| Run | Statement | What happens |
| --- | --- | --- |
| `gate_newest_flag` | deploy blocks when a flag sits at or below the pin (`cli/README.md:228`) | the gate reads only the newest need of a unit: a newer flag of a newer CLI hides the one at the pin, and deploy only warns |
| `secrets_rerun` | a crashed upgrade is safe to re-run (`cli/README.md:194`) | a run that dies between `vars.yml` and `vault.yml` leaves a reference that every later run takes for a decided answer: the value is never stored |
| `deploy_stale` | an upgrade is just a deploy (`cli/README.md:201`) | with the default `rollback_enabled: false`, a task that fails after a file changed loses the restart; the next deploy changes nothing, restarts nothing and succeeds over the old containers |

Seen while modelling, without a run of their own:

- replaying a flagged dependency's questionnaire "is the only way to clear the flag"
  (`cli/README.md:285`), and a reuse "would clear the flag without a replay"
  (`cmd/bootstrap.py:2542`): with a flag on egress alone, a reuse of livekit, that of a
  silent `upgrade` included, re-registers egress as it is (1888), stamps it (2818), and
  the flag is gone without a file rewritten (`KeptAsIs`);
- a flag stays "until you Modify or Override for real" (`cli/README.md:257`): a
  `bootstrap -c` of the worker has no such choice, stamps the worker
  (`cmd/bootstrap.py:2857`) and leaves the core's files, which it plays, as they were
  (`KeptAsIs`); `deploy -c` of the worker no longer blocks;
- "All ${TOTAL} containers healthy" (`application_execstart.sh:82`): a container without
  a probe has an empty health (44-47), and so has one that `podman inspect` failed for
  (43); 56 counts it, and the unit may be ready over a container that runs and is
  not healthy. `ServiceSpec` therefore says *counted*, and `JudgeRunning` what is;
- "Wait for any still-running container to stop, then exit" (84): an `inspect` that
  fails (88) drops a running container from the wait, and a `podman wait` that fails
  (91) exits. The clean-up of the unit then takes the application down, and
  `Restart=on-abnormal` leaves it so. `EndsOnlyWhenStopped` excepts this (`lost`);
- the gate of `deploy -c workers` reads the flags of the worker only, and the play uses
  the files of the core, which may be flagged for a change that does not name the
  worker (`cli/README.md:228`, `core/drift.py:54`);
- pymta's `MDA_API_SECRET` "must match" the core's (`cmd/bootstrap.py:1260`); a core
  bootstrapped after its pymta, with *reuse*, mints another value and says nothing
  (2180-2190); a core bootstrapped before its mpa or its socks proxy never gets their
  wiring from a later reuse;
- bootstrap compares no version, so a newer CLI rewrites files and leaves the pin
  behind (`PlaysReplayedConfig` therefore speaks of `cli = pin`); a legacy unit that no
  replay reaches keeps the offers of `new_component_offers` open;
- `docs/01-drive/02-workers.md:48` asks for one beat; a deploy with `-H` narrows the
  play to its host, which is then the first of the play and starts a second one;
- the unit file is written before the block, so a rollback does not restore it and a
  failed block loses its daemon-reload; a daemon-reload reloads the units of all the
  applications of the user; a play killed inside the rescue leaves only the backup,
  which the first task of the next deploy deletes;
- `docs/05-projects/01-projects.md:156` says a deploy does not wait for the health of a
  container, and the start script does;
- `restart` "rolls each component's hosts one at a time so it is never fully down"
  (`cmd/remote.py:4`): it goes on after a host that failed, so all may be down in the
  end. `Rolling` says what it does: the next one only after this one is back or is
  reported as failed;
- the ssh user is resolved for the first host only and taken for all
  (`core/sshuser.py:100`): `UserSettled` excepts the case of a first host whose own ssh
  config names a user;
- `reset` of an external unit tears it down and then finds no playbook; a failing
  generation or play leaves the unit deleted; a teardown whose connection was lost may
  strike after a second reset has redeployed (`ghosts`);
- `merge(x, x, m) == x` (`core/envblob.py:53`) is false for a key that stands twice in
  `x`: the first line takes the value of the last; and a new answer to such a key has no
  effect, which is the exception `doubled` of `AnswersTakeEffect`;
- a first run that dies after its `vars.yml` leaves no choice of a backend, and the next
  may choose the other over the references that are there: the exception `interrupted`
  of `ReferencesFitBackend`;
- only `generate_all` writes `.gitignore`, and bootstrap says of the `.vault-pass` it
  has just made that it is ignored;
- a file of the tree is truncated and written in place: a kill in between leaves a
  partial one;
- Ansible displays from other threads too, while a callback runs: the model takes a
  callback as one step.

## Proofs

All theorems hold for every value of the constants that satisfies the assumptions
named in the modules. Each follows the same argument: an invariant that is
inductive together with the types (each was first model-checked on the instances
above), one lemma for the step, one step of the proof per action.

| Theorem | Says | Assuming | Argument |
| --- | --- | --- | --- |
| `UpgradeProofs!TypeCorrect` | `[]TypeOK` | | |
| `ClearedByReplayOnly` | `[]FlagClearedOnlyByReplay`, which excepts the two units the code keeps as they are | | `RunInv`: during a run the flags read at its start are still the committed ones, and the manifest in memory differs from the committed one only on components whose tree is of this release, that nothing flagged, or that are kept as they are |
| `PinOnlyMovesForward` | `PinNeverMovesBack` | | `PinInv`: the pin in memory is never behind the committed one, and `upgrade` realigns only upwards |
| `StampsEarned` | `[]StampsAreEarned`, of the units not in `adopted` | no older CLI | `RunInv` and `Bounds` (nothing on the disks is ahead of the installed CLI) carry it through a run whose manifest is saved long after its trees |
| `PlaysReplayed` | `[]PlaysReplayedConfig`, of the units not in `adopted` | no older CLI | `StampsAreEarned` with `GateInv`: no queued unit blocks |
| `ManagedAlwaysHasFiles` | `[]ManagedHasFiles` | | `FilesInv`: the manifest in memory, saved at the end, registers nothing without a tree either, and a worker's run starts from a core tree |
| `UpgradeClears` | `[]UpgradeClearsNeeds` | relay mode skips no partner of a bundled provider | `ClearInv`: what is still flagged is what upgrade has yet to reach, which every branch of a dependency step stamps unless the provider has no tree; `FilesInv` and `BundleInv` (a registered bundled provider stands beside its partner's tree) say it is then not managed |
| `OffersEnd` | `[]OfferStaysQuiet` | no legacy unit, no relay mode, no provider beside the pairs of a bundle | `QuietInv`: during an upgrade of the whole app a managed unit behind the release is one the run has yet to reach, or a bundled provider whose partner is external: then the partner, the one component there is to offer, is registered |
| `SecretsProofs!TypeCorrect` | `[]TypeOK` | | |
| `NeverRotated` | `SecretsNeverRotate` | | `BufferInv` (a provider's buffer never holds another value than its vault), `DecidedInv` (what the core stores is decided in its `vars.yml`, so a replay buffers no other value), `ScopeInv` |
| `CopiesAgree` | `[]OwnedCopiesAgree` | no torn writes | `CopyInv`: a provider with files has its secrets in its vault, and the core's buffer holds what that vault has or is about to have |
| `AlwaysResolves` | `[]ReferencesResolve` | no torn writes | `HeldInv` (a provider with files has its secrets, or is about to store them) and `CoreInv` (each decided answer has a value in the core's vault, or in the buffer that replaces it) |
| `WholeRunAligns` | `[]RunAligns` | no torn writes | `AlignInv`: from the step of a provider on, the value its vault gets is the one the core's vault will |
| `BackendProofs!TypeCorrect` | `[]BackendTypeOK` | | `BInv`, below |
| `OnePassword` | `RegisteredVaultKeepsPassword` | | `Readable`: what `ensure_vault_readable` found at the start of a run is true when it writes, because a clone with a password keeps it; `Equipped`: there is nothing to write without a password |
| `ReferencesResolve` | `[]ReferencesFitBackend` | the keys are distinct and none is `NoKey` | `Fits` (every line of a blob is plain, or fits the backend and the names of the vault as the run will leave it) and `AnswersFit` (so do the answers it will write), with `Settled` (an unregistered site keeps the backend of its run only) |
| `AnswersAreRead` | `[]AnswersTakeEffect` | the template has one line for each key | `Once` (st-cli writes a key once) and `Takes` (the line of an answered key holds the answer), from what `merge` does to blobs of any length |
| `LinesAreKept` | `OperatorLinesStay` | | `merge` touches the lines of the rendered keys only, and adds behind |
| `AppDeployProofs!TypeCorrect` | `[]TypeOK` | | |
| `RollsBack` | `[]RollbackRestores` | | `RollbackInv`: from the backup to its restoration, `.rollback` holds what the host had before its turn |
| `MigratedFirst` | `[]SchemaFirst` | deploys of all units and hosts | `SchemaInv`: a turn of another host than the first finds its release migrated, and no file on the others is ahead of the database |
| `RunsTheRelease` | `[]RollbackHostRunsIt`, of the application directory | rollback everywhere, no play lost, broken directories removable | `SyncInv`: a service that is up runs the directory on its disk, or has its restart notified, or lost its directory |
| `HostsServe` | `[]EarlierHostsServe` | | `ServeInv`: a turn that is past its start has its service up, and only the last task of a turn moves to the next host |
| `ExecStartProofs!TypeCorrect` | `[]StartTypeOK` | | |
| `EndsWhenStopped` | `EndsOnlyWhenStopped` | | `Watched`: what runs was listed, and at the end is waited for, or known to have escaped (`lost`) |
| `Implements` | `Spec => S!SafeSpec` | | `Counted`: `HEALTHY` is the cardinality of the distinct containers this scan found, so that `HEALTHY >= TOTAL` means all of them (counted for want of an answer on their health included); every step of the script is a step of `Service` or a stutter |
| `RemoteProofs!TypeCorrect` | `[]RemoteTypeOK` | the metadata of an app, requests and layouts as below | `TInv`: `Stands` (a thread is at one of its hosts or past the last), `Commanded` (the host of a reset is picked before it is used), `InTurn` |
| `RestartRolls` | `[]Rolling` | `LayoutsAssumption`: the hosts files are what st-cli writes, and no host is given twice to a component | `Waited`: the job a thread waits for is done only when its service came back, and no other thread takes it down, the hosts of a component being distinct, which reading them back preserves |
| `SuccessIsBack` | `[]OkMeansBack` | the same | `Rolling` and `Placed` (a thread ends behind its last host) |
| `StartsClean` | `ResetStartsClean` | the same | `Phased`: the redeploy is reached only over a removed directory |
| `AsksOnceFirst` | `[]UserSettled` | the same, and requests that list each component once; deploy orders may tie | `FirstIs` (`Before` has a least component, by the well-foundedness of the numbers), `OneAsks` (one thread may ask: the main one before the others start, or the first component's), `Guarded` (whoever is past the guard found it checked) |
| `RightHosts` | `[]TargetsAreTheHosts` | the same, and `MetaAssumption`: one worker at most, whose group is not the core's | `Aimed` (the threads go through the hosts the files gave when the command began) and, of any list of hosts, that a section is read back as its hosts whichever header it has (`ReadsPlaces`) |
| `CallbackProofs!TypeCorrect` | `[]CallbackTypeOK` | | `Waiting` (`_pending` is the tasks under way, each once, the live line among them), `Counted` (a suffix or a count is of a pending task, within its items) |
| `NeverGlued` | `[]NothingGlued` | | `Sound`: between two calls of `display` the last row is empty or the up-to-date text of the live line, whatever is printed |
| `LineIsLive` | `[]LiveLineWhileRunning` | | `Waiting` |
| `DiffsOfTheRun` | `[]DiffsBelongToARun` | | `Buffered`: the buffer of a task holds its diffs from the first to the last |
| `DiffsUnderTheirLine` | `DiffsFollowTheirLine` | | `Buffered`, and `Printed`, what `display` leaves on the screen of a list of lines |

Three of these modules have to say what a recursive function does to a list of any
length: what `merge` leaves of a blob, what `read_inventory` finds in a file, what
`display` prints. The induction is in `ListFacts`: a set of numbers that has 0 and the
successor of each of its members has them all (`SetInduction`), because it would
otherwise miss a least one and the order of the numbers is well-founded; no theorem
with an operator parameter is needed. From it come the existence of the function
`Where` is defined by and what `Where` returns (`WhereFacts`: the elements at the
places asked for, each once, and nothing else), which the other modules cite.

Assumptions on the constants stand in the modules that declare them, are checked by
TLC in each run, and are what the code declares: the components of an app and their
order (`core/appmeta.py` and its resources), the keys of its questionnaire, what a
command line may name. Two are about operators: nobody gives a component one host
twice (nothing checks it, and a restart would then take it down twice), and a site's
own lines have keys st-cli does not ask for (`KeysAssumption`; a line for a key it asks
for is an edit of st-cli's own line, or the double the history `doubled` records).

The assumptions are the real limits, not conveniences: with an older CLI, a torn
write, a limited deploy, a lost play or a directory that stays the property fails,
and TLC shows it when the constant of a run is changed. (With `OlderCli = TRUE`, a run of
an older CLI that is cancelled leaves its files under the newer stamps.)

Only model-checked: liveness (`CommandEnds`, `RestartEnds`, `StoppedIsSeen` and the
fairness part of `ServiceSpec`), which is out of the prover's reach.

Claimed for some apps only: `OfferStaysQuiet`, by the theorem and by its run
(`upgrade_meet`). Where there are legacy units, a relay mode (messages has both) or a
provider beside the pairs of a bundle, a legacy unit, a unit relay mode skips or a
stranded bundled provider keeps an old stamp, under which a flag may offer its new
component again.

## Not modelled, and why

- Two `st-cli` processes at once: nothing locks the repository, which is one
  operator's git checkout. `Backend` has several clones, one after the other.
- The third copy of the livekit keys that egress holds: `Secrets` has one holder
  beside the core.
- `--dry-run`, the `base` tag, package installation, users and registries: they
  have no state the properties distinguish.
- Texts: reasons, warnings, quoting of env values, compose templates.
- Containers of a service that an earlier compose file declared and this one does not:
  the boxes of `ExecStart` are those of one compose file.
- The data in bind mounts and named volumes: `dir` is what the role writes.
- `doctor`'s reports, the upstream release check, key generation, `ps`, `logs` and
  one-off commands: they read and print.
- `restic`, `alloy` and the molecule scenarios: set-up of third-party services and
  tests.

## How the modules were ordered

The release discipline and the secrets first, since a mistake there reaches every
deployment; then the hosts (`AppDeploy`), the start script its tasks rely on
(`ExecStart`) with the abstract service it implements, and the commands that use that
service without Ansible (`Remote`); last the backends and the env blob, and the
output. What would come next is the egress copy of the livekit keys (a second holder
per secret in `Secrets`), and several `restart` and `reset` commands at once in
`Remote`, whose `ghosts` could meet.
