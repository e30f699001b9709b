------------------------------ MODULE Upgrade ------------------------------
(***************************************************************************)
(* The upgrade discipline of st-cli for one (app, env) of a deployment     *)
(* repository: the version pin and the bootstrap stamps of `.st-cli.yml`,  *)
(* the committed unit trees, and the commands that move them.              *)
(*                                                                         *)
(*   st-cli bootstrap  cmd/bootstrap.py   questionnaire, dependency loop   *)
(*   st-cli upgrade    cmd/upgrade.py     realign the pin, replay units    *)
(*   st-cli deploy     cmd/deploy.py      the gate, then the plays         *)
(*                                                                         *)
(* A release is a number.  A flag of upgrades.yml names the release that   *)
(* introduced it, the component keys it concerns, whether it wants a full  *)
(* questionnaire, and the components it newly offers.  What a tree holds   *)
(* is abstracted to the release that last wrote it.  One command runs at a *)
(* time; a prompt can be cancelled and the process killed at every step.   *)
(***************************************************************************)
EXTENDS Integers, FiniteSets

CONSTANTS
  MaxVersion,      \* the newest release an operator may install
  Core,            \* key of the app's core component
  Workers,         \* the implemented worker component, as a set of at most one
  Providers,       \* the targets of the app's dependencies[].on
  Legacy,          \* components of the app manifest nothing depends on any more
  BundledWith,     \* egress -> livekit: a provider written in another's step
  RelaySkips,      \* providers an answer of the core makes the loop skip
  Flags,           \* entries of upgrades.yml, over all releases
  Baseline,        \* oldest supported stamp, as each release declares it
  OlderCli         \* may an operator run an older CLI than a teammate did?

Versions   == 1 .. MaxVersion
Stamps     == 0 .. MaxVersion          \* 0: no stamp, no tree, no manifest
Components == {Core} \cup Workers \cup Providers \cup Legacy
Bundled    == DOMAIN BundledWith
FlagSet    == [version : Versions, components : SUBSET Components,
               full : BOOLEAN, new : SUBSET Providers]

ASSUME VersionAssumption   == MaxVersion \in Nat \ {0}
ASSUME ComponentAssumption ==
  /\ Core \notin Workers \cup Providers \cup Legacy
  /\ Workers \cap (Providers \cup Legacy) = {}
  /\ Providers \cap Legacy = {}
ASSUME BundleAssumption    ==
  /\ Bundled \subseteq Providers
  /\ BundledWith \in [Bundled -> Providers \ Bundled]
ASSUME RelayAssumption     == RelaySkips \subseteq Providers
ASSUME FlagAssumption      == Flags \subseteq FlagSet
ASSUME BaselineAssumption  ==
  /\ Baseline \in [Versions -> Stamps]
  /\ \A v \in Versions : Baseline[v] <= v
ASSUME OlderCliAssumption  == OlderCli \in BOOLEAN

None == "none"   Managed == "managed"   External == "external"
Absent     == [mode |-> None, stamp |-> 0]
UnitSet    == [mode : {None, Managed, External}, stamp : Stamps]
NoManifest == [pin |-> 0, unit |-> [c \in Components |-> Absent]]

All     == "all components"             \* bootstrap without -c
Targets == {All, Core} \cup Workers \cup Providers

ASSUME TargetAssumption == All \notin Components

VARIABLES
  \* What is on the disks.
  cli,      \* release of st-cli installed where the next command runs
  pin,      \* versions.cli and versions.collection of .st-cli.yml; 0: no file
  unit,     \* its units: mode and bootstrapped_with
  tree,     \* release that last wrote the component's files; 0: no vars.yml
  relay,    \* outbound mode `relay` in the core's committed answers
  \* The running command.
  pc, target, action,
  m,        \* the manifest in memory
  flagged,  \* pending components, as read when the bootstrap started
  offered,  \* components a flag newly offers, as read then
  deps,     \* dependencies the loop has still to handle
  relayAns, \* answers["MTA_OUT_MODE"] == "relay"
  caller,   \* who called bootstrap: the operator, or upgrade
  todo,     \* units upgrade has still to replay one by one
  failed,   \* units whose replay upgrade gave up on
  queue,    \* units deploy has still to play
  \* History.
  adopted   \* units stamped over files that no release then replayed

disk == <<cli, pin, unit, tree, relay>>
run  == <<target, action, m, flagged, offered, deps, relayAns>>
loop == <<caller, todo, failed>>
vars == <<disk, pc, run, loop, queue, adopted>>

-----------------------------------------------------------------------------
(* core/upgrades.py *)

Files(c) == IF c \in Workers THEN Core ELSE c
Replayable == {Core} \cup Providers \cup Workers

Names(f, c)  == f.components = {} \/ c \in f.components
Known(v)     == {f \in Flags : f.version <= v}

\* The releases that outdate component c of the units u, as CLI v sees them.
NeedVersions(u, v, c) ==
  IF u[c].mode # Managed \/ c \notin Replayable THEN {} ELSE
  {w \in Versions : w > u[c].stamp
                    /\ \/ w = Baseline[v]
                       \/ \E f \in Known(v) : f.version = w /\ Names(f, c)}

needed(u, v) == {c \in Components : NeedVersions(u, v, c) # {}}

FullReplay(u, v) ==
  \E c \in needed(u, v) :
     \/ Baseline[v] > u[c].stamp
     \/ \E f \in Known(v) : f.full /\ Names(f, c) /\ f.version > u[c].stamp

\* Mutant: a unit stamped by the flag's own release still counts as behind.
OffersUpToStamp(u, v) ==
  {c \in Providers \ Bundled :
     /\ u[c].mode = None
     /\ \E f \in Known(v) :
          /\ c \in f.new
          /\ \E o \in Components : u[o].mode = Managed /\ u[o].stamp <= f.version}

new_component_offers(u, v) ==
  {c \in Providers \ Bundled :
     /\ u[c].mode = None
     /\ \E f \in Known(v) :
          /\ c \in f.new
          /\ \E o \in Components : u[o].mode = Managed /\ u[o].stamp < f.version}

-----------------------------------------------------------------------------
(* cmd/bootstrap.py *)

\* Mutant: stamps the release after the installed one.
StampNext(mf, cs, mode) ==
  [mf EXCEPT !.unit = [c \in Components |->
      IF c \in cs THEN [mode |-> mode, stamp |-> cli + 1] ELSE mf.unit[c]]]

upsert_unit(mf, cs, mode) ==
  [mf EXCEPT !.unit = [c \in Components |->
      IF c \in cs THEN [mode |-> mode, stamp |-> cli] ELSE mf.unit[c]]]

_ensure_manifest == [pin |-> IF pin = 0 THEN cli ELSE pin, unit |-> unit]

TargetsCore   == target \in {All, Core}
WireOnly      == target = Core
AssumeDeploy  == target \in Providers
HasTree(c)    == tree[c] # 0
Partners(d)   == {e \in Bundled : BundledWith[e] = d}

\* Mutant: a bundled provider is left out of the loop even when it is the target.
LoopWithoutBundled(t, r) ==
  {d \in Providers : /\ t \in {All, Core, d}
                     /\ ~(d \in RelaySkips /\ r)
                     /\ ~(d \in Bundled)}

\* The dependencies the loop of a run on target t handles.
LoopDeps(t, r) ==
  {d \in Providers : /\ t \in {All, Core, d}
                     /\ ~(d \in RelaySkips /\ r)
                     /\ ~(d \in Bundled /\ t # d)}

\* Mutant: a worker may be bootstrapped before its core.
BeginWithoutCore(t, a, r) ==
  /\ a = "override" => t = All /\ HasTree(Core)
  /\ r => t \in {All, Core} /\ RelaySkips # {}
  /\ a = "silent" /\ t \in {All, Core} => r = relay
  /\ target' = t /\ action' = a /\ relayAns' = r
  /\ m' = _ensure_manifest
  /\ flagged' = needed(unit, cli)
  /\ offered' = new_component_offers(unit, cli)
  /\ deps' = LoopDeps(t, r)
  /\ pc' = "deps"

\* The state a bootstrap starts in; r is the core's answer about relay mode.
Begin(t, a, r) ==
  /\ t \in Workers => HasTree(Core)
  /\ a = "override" => t = All /\ HasTree(Core)
  /\ r => t \in {All, Core} /\ RelaySkips # {}
  /\ a = "silent" => /\ t \in {All, Core} => HasTree(Core) /\ r = relay
                     /\ t \in Providers   => HasTree(t)
  /\ target' = t /\ action' = a /\ relayAns' = r
  /\ m' = _ensure_manifest
  /\ flagged' = needed(unit, cli)
  /\ offered' = new_component_offers(unit, cli)
  /\ deps' = LoopDeps(t, r)
  /\ pc' = "deps"

bootstrap(t, a, r) ==
  /\ pc = "idle"
  /\ Begin(t, a, r)
  /\ caller' = "operator"
  /\ UNCHANGED <<disk, todo, failed, queue, adopted>>

\* Mutant: a flagged existing provider is offered Reuse like any other.
ChoicesUnflagged(d) ==
  IF AssumeDeploy THEN {"deploy"}
  ELSE IF m.unit[d].mode = External
    THEN {External} \cup IF WireOnly \/ action = "silent" THEN {} ELSE {"deploy"}
  ELSE IF HasTree(d)
    THEN IF action = "override" THEN {"deploy"}
         ELSE IF WireOnly \/ action = "silent" THEN {"reuse"}
         ELSE {"reuse", "deploy"}
  ELSE IF action = "silent" /\ d \notin offered THEN {"skip"}
  ELSE {"skip", External} \cup IF WireOnly THEN {} ELSE {"deploy"}

\* What the dependency's menu, or the branch that skips the menu, can yield.
Choices(d) ==
  IF AssumeDeploy THEN {"deploy"}
  ELSE IF m.unit[d].mode = External
    THEN {External} \cup IF WireOnly \/ action = "silent" THEN {} ELSE {"deploy"}
  ELSE IF HasTree(d)
    THEN IF action = "override" THEN {"deploy"}
         ELSE IF WireOnly THEN {"reuse"}
         ELSE IF d \in flagged THEN {"deploy"}
         ELSE IF action = "silent" THEN {"reuse"}
         ELSE {"reuse", "deploy"}
  ELSE IF action = "silent" /\ d \notin offered THEN {"skip"}
  ELSE {"skip", External} \cup IF WireOnly THEN {} ELSE {"deploy"}

\* Mutant: a wire-only run stamps the providers it cannot deploy.
RegisterAlways(cs, mode) == m' = upsert_unit(m, cs, mode)
Register(cs, mode) == m' = IF WireOnly THEN m ELSE upsert_unit(m, cs, mode)
Write(cs)          == tree' = [c \in Components |-> IF c \in cs THEN cli ELSE tree[c]]

_handle_dependency(d) ==
  /\ pc = "deps" /\ d \in deps
  /\ deps' = deps \ {d}
  /\ \/ /\ "skip" \in Choices(d)
        /\ UNCHANGED <<tree, m>>
     \/ /\ External \in Choices(d)
        /\ Register({d}, External)
        /\ UNCHANGED tree
     \/ /\ "reuse" \in Choices(d)      \* an egress tree is re-registered as it is
        /\ Register({d} \cup Partners(d), Managed)
        /\ Write(IF WireOnly THEN {} ELSE {e \in Partners(d) : ~HasTree(e)})
     \/ /\ "deploy" \in Choices(d)
        /\ d \in Bundled => HasTree(BundledWith[d])
        /\ Register({d} \cup Partners(d), Managed)
        /\ Write({d} \cup Partners(d))
  /\ UNCHANGED <<cli, pin, unit, relay, pc, target, action, flagged, offered,
                 relayAns, loop, queue, adopted>>

\* write_core, then the stamps of the core and of the worker.
WriteCore ==
  /\ pc = "deps" /\ deps = {}
  /\ pc' = "save"
  /\ IF TargetsCore THEN Write({Core}) /\ relay' = relayAns
                    ELSE UNCHANGED <<tree, relay>>
  /\ m' = upsert_unit(m, (IF TargetsCore THEN {Core} ELSE {})
                         \cup {w \in Workers : target \in {All, w}}, Managed)
  /\ UNCHANGED <<cli, pin, unit, target, action, flagged, offered, deps,
                 relayAns, loop, queue, adopted>>

\* The locals of bootstrap end with it.
Discard ==
  /\ target' = All /\ action' = "modify" /\ relayAns' = FALSE
  /\ m' = NoManifest /\ flagged' = {} /\ offered' = {} /\ deps' = {}

Idle == /\ pc' = "idle" /\ caller' = "operator"
        /\ todo' = {} /\ failed' = {} /\ queue' = {}

\* A StCliError.  Replaying unit by unit, upgrade catches it and goes on.
Raise ==
  /\ Discard
  /\ IF pc = "deps" /\ caller = "upgrade"
       THEN /\ pc' = "units" /\ failed' = failed \cup {target}
            /\ UNCHANGED <<caller, todo, queue>>
       ELSE Idle

\* Mutant: reports the missing livekit and asks again.
MissingPartnerRetried(d) ==
  /\ pc = "deps" /\ d \in deps \cap Bundled /\ ~HasTree(BundledWith[d])
  /\ UNCHANGED vars

\* _standalone_egress: "bootstrap livekit first".
MissingPartner(d) ==
  /\ pc = "deps" /\ d \in deps \cap Bundled /\ ~HasTree(BundledWith[d])
  /\ Raise
  /\ UNCHANGED <<disk, adopted>>

\* What a run stamps and leaves as it is: a bundled provider whose partner it
\* reuses, and the core's files when it is the worker's own.
KeptAsIs(c) == \/ c \in Bundled /\ target # c /\ BundledWith[c] \notin flagged
               \/ c \in Workers /\ target = c

save_manifest ==
  /\ pc = "save"
  /\ pin' = m.pin /\ unit' = m.unit
  /\ adopted' = {c \in Providers \cup Workers :
                    /\ m.unit[c].mode = Managed /\ tree[Files(c)] # cli
                    /\ \/ unit[c].mode # Managed
                       \/ c \in flagged /\ KeptAsIs(c) /\ m.unit[c] # unit[c]
                       \/ c \in adopted}
  /\ pc' = IF caller = "operator" THEN "idle" ELSE "units"
  /\ Discard
  /\ UNCHANGED <<cli, tree, relay, loop, queue>>

-----------------------------------------------------------------------------
(* cmd/upgrade.py *)

\* Mutant: no check that the installed CLI is at least the pinned one.
UpgradeAnyCli ==
  /\ pc = "idle"
  /\ pin # 0
  /\ pc' = "realign"
  /\ caller' = "upgrade" /\ todo' = {} /\ failed' = {}
  /\ UNCHANGED <<disk, run, queue, adopted>>

upgrade ==
  /\ pc = "idle"
  /\ pin # 0 /\ cli >= pin                        \* pin.require_not_older
  /\ pc' = "realign"
  /\ caller' = "upgrade" /\ todo' = {} /\ failed' = {}
  /\ UNCHANGED <<disk, run, queue, adopted>>

Realign ==
  /\ pc = "realign"
  /\ pin' = cli
  /\ pc' = "needs"
  /\ UNCHANGED <<cli, unit, tree, relay, run, loop, queue, adopted>>

ReplayMode == IF FullReplay(unit, cli) THEN "modify" ELSE "silent"

NothingPending ==
  /\ pc = "needs" /\ needed(unit, cli) = {}
  /\ pc' = "units"
  /\ UNCHANGED <<disk, run, loop, queue, adopted>>

ReplayAll(r) ==
  /\ pc = "needs" /\ needed(unit, cli) # {} /\ HasTree(Core)
  /\ Begin(All, ReplayMode, r)
  /\ caller' = "upgrade all"
  /\ UNCHANGED <<disk, todo, failed, queue, adopted>>

NoCoreTree ==
  /\ pc = "needs" /\ needed(unit, cli) # {} /\ ~HasTree(Core)
  /\ todo' = needed(unit, cli)
  /\ pc' = "units"
  /\ UNCHANGED <<disk, run, caller, failed, queue, adopted>>

ReplayUnit(c) ==
  /\ pc = "units" /\ c \in todo
  /\ Begin(c, ReplayMode, FALSE)
  /\ todo' = todo \ {c}
  /\ UNCHANGED <<disk, caller, failed, queue, adopted>>

UpgradeDone ==
  /\ pc = "units" /\ todo = {}
  /\ Idle
  /\ UNCHANGED <<disk, run, adopted>>

-----------------------------------------------------------------------------
(* cmd/deploy.py *)

ManagedUnits == {c \in Components : unit[c].mode = Managed}

\* Mutant: a flag at the pin itself does not block.
BlockingBelowPin(c) ==
  /\ NeedVersions(unit, cli, c) # {}
  /\ \A w \in NeedVersions(unit, cli, c) : w < pin

\* drift.pending_needs keeps the newest need of a unit; the gate reads that one.
Blocking(c) ==
  /\ NeedVersions(unit, cli, c) # {}
  /\ \A w \in NeedVersions(unit, cli, c) : w <= pin

deploy(cs) ==
  /\ pc = "idle"
  /\ cs # {} /\ cs \subseteq ManagedUnits
  /\ cli >= pin                                   \* pin.require_not_older
  /\ \A c \in cs : ~Blocking(c)
  /\ queue' = cs
  /\ pc' = "play"
  /\ UNCHANGED <<disk, run, loop, adopted>>

play(c) ==
  /\ pc = "play" /\ c \in queue
  /\ queue' = queue \ {c}
  /\ UNCHANGED <<disk, pc, run, loop, adopted>>

DeployDone ==
  /\ pc = "play" /\ queue = {}
  /\ pc' = "idle"
  /\ UNCHANGED <<disk, run, loop, queue, adopted>>

-----------------------------------------------------------------------------
(* The operators. *)

InstallCli(v) ==
  /\ pc = "idle"
  /\ OlderCli \/ v > cli
  /\ cli' = v
  /\ UNCHANGED <<pin, unit, tree, relay, pc, run, loop, queue, adopted>>

\* A prompt cancelled, a write or a play that fails: the command raises.
Cancel ==
  /\ pc # "idle"
  /\ Raise
  /\ UNCHANGED <<disk, adopted>>

\* The process is killed; the manifest in memory is lost with it.
Crash ==
  /\ pc # "idle"
  /\ Discard /\ Idle
  /\ UNCHANGED <<disk, adopted>>

\* Stopped between the files of the bundled provider and those of its partner.
CrashBundle(d) ==
  /\ pc = "deps" /\ d \in deps /\ Partners(d) # {} /\ "deploy" \in Choices(d)
  /\ Write(Partners(d))
  /\ Discard /\ Idle
  /\ UNCHANGED <<cli, pin, unit, relay, adopted>>

-----------------------------------------------------------------------------

\* A fresh repository, or one whose first release still had the legacy units.
Init ==
  /\ cli = 1 /\ relay = FALSE
  /\ \E old \in {{}} \cup IF Legacy = {} THEN {} ELSE {{Core} \cup Legacy} :
       /\ pin  = IF old = {} THEN 0 ELSE 1
       /\ unit = [c \in Components |-> IF c \in old
                    THEN [mode |-> Managed, stamp |-> 1] ELSE Absent]
       /\ tree = [c \in Components |-> IF c \in old THEN 1 ELSE 0]
  /\ pc = "idle" /\ target = All /\ action = "modify"
  /\ m = NoManifest
  /\ flagged = {} /\ offered = {} /\ deps = {} /\ relayAns = FALSE
  /\ caller = "operator" /\ todo = {} /\ failed = {} /\ queue = {}
  /\ adopted = {}

\* The steps of a command that has started.
Step ==
  \/ \E d \in Providers : _handle_dependency(d) \/ MissingPartner(d)
  \/ WriteCore \/ save_manifest
  \/ Realign \/ NothingPending \/ NoCoreTree \/ UpgradeDone
  \/ \E r \in BOOLEAN : ReplayAll(r)
  \/ \E c \in Replayable : ReplayUnit(c)
  \/ \E c \in Components : play(c)
  \/ DeployDone

Next ==
  \/ Step
  \/ \E t \in Targets, a \in {"modify", "override"}, r \in BOOLEAN : bootstrap(t, a, r)
  \/ upgrade
  \/ \E cs \in SUBSET Components : deploy(cs)
  \/ \E v \in Versions : InstallCli(v)
  \/ Cancel \/ Crash
  \/ \E d \in Providers : CrashBundle(d)

Spec == Init /\ [][Next]_vars

\* A started command runs on and its prompts are answered or cancelled.
FairSpec == Spec /\ WF_vars(Step)

-----------------------------------------------------------------------------
(* Properties *)

Pcs     == {"idle", "deps", "save", "realign", "needs", "units", "play"}
Actions == {"modify", "silent", "override"}

\* The types of the variables.
TypeOK ==
  /\ cli \in Versions /\ pin \in Stamps /\ relay \in BOOLEAN
  /\ unit \in [Components -> UnitSet]
  /\ tree \in [Components -> Stamps]
  /\ pc \in Pcs /\ target \in Targets /\ action \in Actions
  /\ m \in [pin : Stamps, unit : [Components -> UnitSet]]
  /\ flagged \subseteq Components /\ offered \subseteq Providers
  /\ deps \subseteq Providers /\ relayAns \in BOOLEAN
  /\ caller \in {"operator", "upgrade", "upgrade all"}
  /\ todo \subseteq Components /\ failed \subseteq Targets
  /\ queue \subseteq Components /\ adopted \subseteq Providers \cup Workers

\* A run that takes the pending flag off a unit has rewritten the files the unit
\* plays with its own templates, for every component and whatever was answered,
\* reused or cancelled.  The code keeps two of them as they are all the same, and
\* clears their flag against its documentation: a bundled provider beside a
\* partner it reuses, and the core's files in a run of the worker alone (KeptAsIs).
FlagClearedOnlyByReplay ==
  pc = "save" =>
    \A c \in flagged :
      m.unit[c].mode = Managed /\ m.unit[c] # unit[c]
        => tree[Files(c)] = cli \/ KeptAsIs(c)

\* The stamp the gate trusts is earned: a flag that a stamp answers was
\* replayed into the files, through any sequence of runs, cancellations,
\* kills and CLI installs.  The exceptions are what save_manifest stamped over
\* files nobody replayed: a unit it registers over a tree it found, and a
\* flagged one that is kept as it is.
StampsAreEarned ==
  \A c \in Components \ adopted :
    unit[c].mode = Managed =>
      \A f \in Flags : Names(f, c) /\ f.version <= unit[c].stamp
                      => tree[Files(c)] >= f.version

\* What the gate is for: when the installed CLI is the pinned one, every unit
\* a deploy plays has files that carry each flag of the pinned collection, but
\* the units stamped over old files and the legacy ones, which no release replays.
PlaysReplayedConfig ==
  pc = "play" /\ cli = pin =>
    \A c \in queue \ (adopted \cup Legacy) :
      \A f \in Known(pin) : Names(f, c) => tree[Files(c)] >= f.version

UpgradeEnding == pc = "units" /\ todo = {}

\* An upgrade that runs to its end leaves no unit flagged, but those it said
\* it gave up on and those no dependency step of the full run reaches: what
\* relay mode skips, and a bundled provider whose partner became external.
UpgradeClearsNeeds ==
  UpgradeEnding =>
    needed(unit, cli) \subseteq failed \cup RelaySkips
                             \cup {e \in Bundled : unit[BundledWith[e]].mode = External}

\* The offer of a new component stays quiet after the run that made it.
OfferStaysQuiet ==
  UpgradeEnding /\ caller = "upgrade all" => new_component_offers(unit, cli) = {}

\* Whatever CLI versions the operators run, the committed pin never moves back.
PinNeverMovesBack == [][pin' >= pin]_vars

\* No unit enters the repository, or leaves management, with a half-done run:
\* whatever is registered as managed has a tree to play.
ManagedHasFiles ==
  \A c \in Components \ Legacy : unit[c].mode = Managed => HasTree(Files(c))

\* A command that started comes to its end.
CommandEnds == pc # "idle" ~> pc = "idle"

-----------------------------------------------------------------------------
(* The inductive strengthening the proofs and the runs use. *)

\* How the manifest in memory may differ from the committed one on component c:
\* the files are of this release, or nothing flagged them, or they were kept as
\* they are.
Registered(c) ==
  \/ m.unit[c] = unit[c]
  \/ m.unit[c].mode # Managed
  \/ tree[Files(c)] = cli
  \/ /\ c \in Providers \cup Workers
     /\ unit[c].mode # Managed \/ c \notin flagged \/ KeptAsIs(c)

RunInv == pc \in {"deps", "save"} =>
            flagged = needed(unit, cli) /\ \A c \in Components : Registered(c)

\* When no operator runs an older CLI, nothing is ahead of the installed one.
Bounds == \A c \in Components :
            tree[c] <= cli /\ unit[c].stamp <= cli /\ m.unit[c].stamp <= cli

GateInv == pc = "play" => \A c \in queue : unit[c].mode = Managed /\ ~Blocking(c)

PinInv == /\ pc \in {"deps", "save"} => m.pin >= pin
          /\ pc = "realign" => cli >= pin

\* The inductive invariant: RunInv and Bounds carry StampsAreEarned through a
\* run, whose manifest is saved long after its trees are written.
EarnedInv == TypeOK /\ RunInv /\ Bounds /\ GateInv /\ StampsAreEarned

\* The manifest in memory, saved as it is at the end of the run, registers
\* nothing without files either; a worker's own run starts from a core tree.
FilesInv ==
  /\ ManagedHasFiles
  /\ pc \in {"deps", "save"} =>
       \A c \in Components \ Legacy : m.unit[c].mode = Managed => HasTree(Files(c))
  /\ pc = "deps" /\ target \in Workers => HasTree(Core)

\* A bundled provider is handled on its own only by its own run, and is
\* registered only beside the tree of its partner.
BundleInv ==
  /\ pc = "deps" => \A d \in deps \cap Bundled : target = d
  /\ \A e \in Bundled : unit[e].mode = Managed => HasTree(BundledWith[e])
  /\ pc \in {"deps", "save"} =>
       \A e \in Bundled : m.unit[e].mode = Managed => HasTree(BundledWith[e])

Stranded(u) == {e \in Bundled : u[BundledWith[e]].mode = External}

\* What is still flagged while upgrade replays: the units it has yet to reach,
\* one by one or in the run of the whole app, and those no step of it reaches.
ClearInv ==
  /\ pc \in {"realign", "needs"} => caller = "upgrade" /\ todo = {} /\ failed = {}
  /\ pc = "units" =>
       \/ caller = "upgrade" /\ needed(unit, cli) \subseteq todo \cup failed
       \/ /\ caller = "upgrade all" /\ todo = {}
          /\ needed(unit, cli) \subseteq RelaySkips \cup Stranded(unit)
  /\ pc \in {"deps", "save"} /\ caller = "upgrade" =>
       /\ needed(unit, cli) \subseteq todo \cup failed \cup {target}
       /\ \A c \in needed(m.unit, cli) :
            /\ c \in needed(unit, cli)
            /\ c = target => pc = "deps" /\ c \in {Core} \cup Workers \cup deps
  /\ pc \in {"deps", "save"} /\ caller = "upgrade all" =>
       /\ target = All /\ todo = {}
       /\ \A c \in needed(m.unit, cli) :
            \/ c \in RelaySkips \cup Stranded(m.unit)
            \/ pc = "deps" /\ c \in {Core} \cup Workers \cup deps
            \/ pc = "deps" /\ c \in Bundled /\ BundledWith[c] \in deps

-----------------------------------------------------------------------------
(* What the documentation says, and the code does not do. *)

\* README: deploy blocks when "a pending rebootstrap flag sits at or below the
\* pin".  The gate only reads the newest flag of a unit.
DeployBlocksAtThePin ==
  pc = "play" => \A c \in queue :
    \A w \in NeedVersions(unit, cli, c) : w > pin
============================================================================
