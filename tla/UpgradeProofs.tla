--------------------------- MODULE UpgradeProofs ---------------------------
(***************************************************************************)
(* Proofs about Upgrade, for every component graph, flag history, number   *)
(* of releases and baseline.                                               *)
(***************************************************************************)
EXTENDS Upgrade, TLAPS

USE DEF None, Managed, External

\* Facts about the constants the steps below need.
LEMMA Constants ==
  /\ Versions \subseteq Stamps
  /\ Providers \subseteq Components /\ Workers \subseteq Components
  /\ Core \in Components /\ Bundled \subseteq Providers
  /\ Replayable \subseteq Targets /\ Replayable \subseteq Components
  /\ Absent \in UnitSet
BY VersionAssumption, BundleAssumption
   DEF Versions, Stamps, Components, Bundled, Targets, Absent, UnitSet, Replayable

\* A manifest stays well-typed when units are upserted.
LEMMA UpsertType ==
  ASSUME TypeOK, NEW mf \in [pin : Stamps, unit : [Components -> UnitSet]],
         NEW cs, NEW mode \in {None, Managed, External}
  PROVE  /\ upsert_unit(mf, cs, mode) \in [pin : Stamps, unit : [Components -> UnitSet]]
         /\ upsert_unit(mf, cs, mode).pin = mf.pin
         /\ \A c \in Components : upsert_unit(mf, cs, mode).unit[c] =
              IF c \in cs THEN [mode |-> mode, stamp |-> cli] ELSE mf.unit[c]
BY Constants DEF upsert_unit, TypeOK, UnitSet

LEMMA WriteType ==
  ASSUME TypeOK, NEW cs, Write(cs)
  PROVE  /\ tree' \in [Components -> Stamps]
         /\ \A c \in Components : tree'[c] = IF c \in cs THEN cli ELSE tree[c]
BY Constants DEF Write, TypeOK

\* The locals of a bootstrap that starts.
LEMMA BeginType ==
  ASSUME TypeOK, NEW t \in Targets, NEW a \in Actions, NEW r \in BOOLEAN, Begin(t, a, r)
  PROVE  /\ target' \in Targets /\ action' \in Actions /\ relayAns' \in BOOLEAN
         /\ m' \in [pin : Stamps, unit : [Components -> UnitSet]]
         /\ flagged' \subseteq Components /\ offered' \subseteq Providers
         /\ deps' \subseteq Providers /\ pc' = "deps"
BY Constants DEF Begin, TypeOK, _ensure_manifest, needed, new_component_offers,
   LoopDeps

\* The locals after a command is over.
LEMMA DiscardType ==
  ASSUME Discard
  PROVE  /\ target' \in Targets /\ action' \in Actions /\ relayAns' \in BOOLEAN
         /\ m' \in [pin : Stamps, unit : [Components -> UnitSet]]
         /\ flagged' \subseteq Components /\ offered' \subseteq Providers
         /\ deps' \subseteq Providers
<1>1. m' \in [pin : Stamps, unit : [Components -> UnitSet]]
  <2>1. m' = [pin |-> 0, unit |-> [c \in Components |-> Absent]]
    BY DEF Discard, NoManifest
  <2>2. [c \in Components |-> Absent] \in [Components -> UnitSet]
    BY Constants
  <2>3. 0 \in Stamps
    BY VersionAssumption DEF Stamps
  <2> QED BY <2>1, <2>2, <2>3
<1> QED BY <1>1 DEF Discard, Targets, Actions

-----------------------------------------------------------------------------

LEMMA InitType == Init => TypeOK
<1> SUFFICES ASSUME Init PROVE TypeOK
  OBVIOUS
<1>1. PICK old \in {{}} \cup IF Legacy = {} THEN {} ELSE {{Core} \cup Legacy} :
        /\ pin  = IF old = {} THEN 0 ELSE 1
        /\ unit = [c \in Components |-> IF c \in old
                     THEN [mode |-> Managed, stamp |-> 1] ELSE Absent]
        /\ tree = [c \in Components |-> IF c \in old THEN 1 ELSE 0]
  BY DEF Init
<1>2. 0 \in Stamps /\ 1 \in Stamps /\ 1 \in Versions
  BY VersionAssumption DEF Stamps, Versions
<1>3. [mode |-> Managed, stamp |-> 1] \in UnitSet /\ Absent \in UnitSet
  BY <1>2, Constants DEF UnitSet
<1>4. unit \in [Components -> UnitSet] /\ tree \in [Components -> Stamps]
  BY <1>1, <1>2, <1>3
<1>5. m \in [pin : Stamps, unit : [Components -> UnitSet]]
  BY <1>2, <1>3 DEF Init, NoManifest
<1> QED
  BY <1>1, <1>2, <1>4, <1>5 DEF Init, TypeOK, Pcs, Actions, Targets

\* Every step keeps the types.
LEMMA NextType == TypeOK /\ [Next]_vars => TypeOK'
<1> SUFFICES ASSUME TypeOK, [Next]_vars PROVE TypeOK'
  OBVIOUS
<1> USE DEF Pcs
<1>1. ASSUME NEW d \in Providers, _handle_dependency(d) PROVE TypeOK'
  <2>1. /\ UNCHANGED <<cli, pin, unit, relay, pc, target, action, flagged, offered,
                       relayAns, caller, todo, failed, queue, adopted>>
        /\ deps' \subseteq deps
    BY <1>1 DEF _handle_dependency, loop
  <2>2. tree' \in [Components -> Stamps]
    BY <1>1, WriteType DEF _handle_dependency, TypeOK
  <2>3. m' \in [pin : Stamps, unit : [Components -> UnitSet]]
    <3>1. ASSUME NEW cs, NEW mode \in {None, Managed, External}, Register(cs, mode)
          PROVE  m' \in [pin : Stamps, unit : [Components -> UnitSet]]
      <4>1. m \in [pin : Stamps, unit : [Components -> UnitSet]]
        BY DEF TypeOK
      <4>2. upsert_unit(m, cs, mode) \in [pin : Stamps, unit : [Components -> UnitSet]]
        BY <4>1, UpsertType
      <4> QED BY <3>1, <4>1, <4>2 DEF Register
    <3> QED BY <1>1, <3>1 DEF _handle_dependency, TypeOK
  <2> QED BY <2>1, <2>2, <2>3 DEF TypeOK
<1>2. ASSUME Discard, Idle, UNCHANGED <<cli, pin, unit, relay, adopted>>,
             tree' \in [Components -> Stamps]
      PROVE  TypeOK'
  BY <1>2, DiscardType DEF TypeOK, Idle
<1>3. ASSUME Raise, UNCHANGED <<disk, adopted>> PROVE TypeOK'
  <2>1. CASE pc = "deps" /\ caller = "upgrade"
    BY <1>3, <2>1, DiscardType DEF TypeOK, Raise, disk
  <2>2. CASE ~(pc = "deps" /\ caller = "upgrade")
    BY <1>2, <1>3, <2>2 DEF TypeOK, Raise, disk
  <2> QED BY <2>1, <2>2
<1>4. ASSUME WriteCore PROVE TypeOK'
  <2>1. tree' \in [Components -> Stamps] /\ relay' \in BOOLEAN
    BY <1>4, WriteType DEF WriteCore, TypeOK
  <2>2. m' \in [pin : Stamps, unit : [Components -> UnitSet]]
    <3> DEFINE cs == (IF TargetsCore THEN {Core} ELSE {})
                       \cup {w \in Workers : target \in {All, w}}
    <3>1. m' = upsert_unit(m, cs, Managed)
      BY <1>4 DEF WriteCore
    <3>2. m \in [pin : Stamps, unit : [Components -> UnitSet]]
      BY DEF TypeOK
    <3> HIDE DEF cs
    <3> QED BY <3>1, <3>2, UpsertType
  <2> QED BY <1>4, <2>1, <2>2 DEF WriteCore, TypeOK, loop
<1>5. ASSUME save_manifest PROVE TypeOK'
  <2>1. adopted' \subseteq Providers \cup Workers /\ pc' \in Pcs
    BY <1>5 DEF save_manifest
  <2>2. pin' \in Stamps /\ unit' \in [Components -> UnitSet]
    BY <1>5 DEF save_manifest, TypeOK
  <2> QED BY <1>5, <2>1, <2>2, DiscardType DEF save_manifest, TypeOK, loop
<1>6. ASSUME NEW t \in Targets, NEW a \in Actions, NEW r \in BOOLEAN, Begin(t, a, r),
             UNCHANGED <<disk, failed, queue, adopted>>, todo' \subseteq Components,
             caller' \in {"operator", "upgrade", "upgrade all"}
      PROVE  TypeOK'
  <2>1. /\ target' \in Targets /\ action' \in Actions /\ relayAns' \in BOOLEAN
        /\ m' \in [pin : Stamps, unit : [Components -> UnitSet]]
        /\ flagged' \subseteq Components /\ offered' \subseteq Providers
        /\ deps' \subseteq Providers /\ pc' = "deps"
    BY <1>6, BeginType
  <2>2. UNCHANGED <<cli, pin, unit, tree, relay, failed, queue, adopted>>
    BY <1>6 DEF disk
  <2> QED BY <1>6, <2>1, <2>2 DEF TypeOK
<1>7. ASSUME NEW t \in Targets, NEW a \in {"modify", "override"}, NEW r \in BOOLEAN,
             bootstrap(t, a, r)
      PROVE  TypeOK'
  BY <1>6, <1>7 DEF bootstrap, Actions, TypeOK
<1>8. ASSUME NEW r \in BOOLEAN, ReplayAll(r) PROVE TypeOK'
  BY <1>6, <1>8 DEF ReplayAll, ReplayMode, Actions, TypeOK, Targets
<1>9. ASSUME NEW c \in Replayable, ReplayUnit(c) PROVE TypeOK'
  BY <1>6, <1>9, Constants DEF ReplayUnit, ReplayMode, Actions, TypeOK
<1>10. ASSUME Realign \/ NothingPending \/ NoCoreTree \/ UpgradeDone PROVE TypeOK'
  BY <1>10, Constants
     DEF Realign, NothingPending, NoCoreTree, UpgradeDone, Idle, TypeOK, needed,
         disk, run, loop
<1>11. ASSUME NEW c \in Components, play(c) PROVE TypeOK'
  BY <1>11 DEF play, TypeOK, disk, run, loop
<1>12. ASSUME DeployDone \/ upgrade PROVE TypeOK'
  BY <1>12 DEF DeployDone, upgrade, Idle, TypeOK, disk, run, loop
<1>13. ASSUME NEW cs \in SUBSET Components, deploy(cs) PROVE TypeOK'
  BY <1>13 DEF deploy, TypeOK, disk, run, loop
<1>14. ASSUME NEW v \in Versions, InstallCli(v) PROVE TypeOK'
  BY <1>14 DEF InstallCli, TypeOK, run, loop
<1>15. ASSUME NEW d \in Providers, CrashBundle(d) PROVE TypeOK'
  BY <1>2, <1>15, WriteType DEF CrashBundle
<1>16. ASSUME NEW d \in Providers, MissingPartner(d) PROVE TypeOK'
  BY <1>3, <1>16 DEF MissingPartner
<1>17. ASSUME Cancel \/ Crash PROVE TypeOK'
  BY <1>2, <1>3, <1>17 DEF Cancel, Crash, disk, TypeOK
<1>18. CASE UNCHANGED vars
  BY <1>18 DEF vars, disk, run, loop, TypeOK
<1> QED
  BY <1>1, <1>4, <1>5, <1>7, <1>8, <1>9, <1>10, <1>11, <1>12, <1>13, <1>14,
     <1>15, <1>16, <1>17, <1>18
  DEF Next, Step

\* Every variable keeps its type in every behaviour.
THEOREM TypeCorrect == Spec => []TypeOK
<1>1. Init => TypeOK
  BY InitType
<1>2. TypeOK /\ [Next]_vars => TypeOK'
  BY NextType
<1> QED BY <1>1, <1>2, PTL DEF Spec

-----------------------------------------------------------------------------
(* The manifest in memory, from the start of a run to its save. *)

\* Where the files of a component are: its own tree, the core's for a worker.
LEMMA FilesPlace ==
  /\ \A c \in Components : Files(c) \in Components
  /\ \A c \in Components \ Workers : Files(c) = c
  /\ \A w \in Workers : Files(w) = Core
  /\ Files(Core) = Core
  /\ \A d \in Providers : d \notin Workers /\ Files(d) = d
  /\ \A d \in Providers : Partners(d) \subseteq Providers
BY Constants, ComponentAssumption DEF Files, Partners

\* What stays true of a component when its unit in memory does not move.
LEMMA StillRegistered ==
  ASSUME NEW c \in Components, Registered(c), m'.unit[c] = m.unit[c],
         UNCHANGED <<cli, unit, flagged, target>>, tree'[Files(c)] \in {tree[Files(c)], cli}
  PROVE  Registered(c)'
BY DEF Registered, KeptAsIs

\* One dependency handled: the branches that leave files alone are the reuse of
\* a provider nothing flags, its bundle kept with it, and those that do not
\* manage it.
LEMMA HandledRegistered ==
  ASSUME TypeOK, RunInv, NEW d \in Providers, _handle_dependency(d)
  PROVE  RunInv'
<1>1. /\ pc = "deps" /\ pc' = "deps"
      /\ UNCHANGED <<cli, unit, flagged, target, action>>
  BY DEF _handle_dependency
<1>2. flagged = needed(unit, cli) /\ \A c \in Components : Registered(c)
  BY <1>1 DEF RunInv
<1>3. ASSUME NEW c \in Components PROVE Registered(c)'
  <2> USE <1>1
  <2>a. /\ m \in [pin : Stamps, unit : [Components -> UnitSet]]
        /\ Files(c) \in Components
    BY FilesPlace DEF TypeOK
  <2>b. tree'[Files(c)] \in {tree[Files(c)], cli}
    <3>1. tree' = tree \/ \E cs : Write(cs)
      BY DEF _handle_dependency
    <3> QED BY <3>1, <2>a, WriteType
  <2>c. CASE m'.unit[c] = m.unit[c]
    BY <1>2, <2>b, <2>c, StillRegistered
  <2>1. CASE External \in Choices(d) /\ Register({d}, External) /\ UNCHANGED tree
    <3>1. m'.unit[c] = m.unit[c] \/ m'.unit[c].mode = External
      BY <2>a, <2>1, UpsertType DEF Register
    <3> QED BY <3>1, <2>c DEF Registered
  <2>2. CASE "skip" \in Choices(d) /\ UNCHANGED <<tree, m>>
    BY <2>2, <2>c
  <2>3. CASE /\ "reuse" \in Choices(d)
             /\ Register({d} \cup Partners(d), Managed)
             /\ Write(IF WireOnly THEN {} ELSE {e \in Partners(d) : ~HasTree(e)})
    <3>1. CASE WireOnly \/ c \notin {d} \cup Partners(d)
      <4>1. m'.unit[c] = m.unit[c]
        BY <2>a, <2>3, <3>1, UpsertType DEF Register
      <4> QED BY <4>1, <2>c
    <3>2. CASE ~WireOnly /\ c \in {d} \cup Partners(d)
      <4>1. d \notin flagged /\ target \notin Providers
        BY <2>3, <3>2 DEF Choices, AssumeDeploy
      <4>2. c = d \/ (c \in Bundled /\ BundledWith[c] = d)
        BY <3>2 DEF Partners
      <4>3. c \in Providers /\ (c \notin flagged \/ KeptAsIs(c))
        BY <4>1, <4>2, Constants DEF KeptAsIs
      <4> QED BY <4>3 DEF Registered, KeptAsIs
    <3> QED BY <3>1, <3>2
  <2>4. CASE /\ "deploy" \in Choices(d)
             /\ Register({d} \cup Partners(d), Managed)
             /\ Write({d} \cup Partners(d))
    <3>1. CASE c \notin {d} \cup Partners(d)
      <4>1. m'.unit[c] = m.unit[c]
        BY <2>a, <2>4, <3>1, UpsertType DEF Register
      <4> QED BY <4>1, <2>c
    <3>2. CASE c \in {d} \cup Partners(d)
      <4>1. Files(c) = c
        BY <3>2, FilesPlace
      <4>2. tree'[c] = cli
        BY <2>4, <3>2, WriteType
      <4> QED BY <4>1, <4>2 DEF Registered
    <3> QED BY <3>1, <3>2
  <2> QED BY <2>1, <2>2, <2>3, <2>4 DEF _handle_dependency
<1> QED BY <1>1, <1>2, <1>3 DEF RunInv, needed, NeedVersions, Known

\* The core is stamped over the files it has just written, and so is the worker
\* that shares them, but in a run of its own.
LEMMA WriteCoreRegistered ==
  ASSUME TypeOK, RunInv, WriteCore
  PROVE  RunInv'
<1> DEFINE cs == (IF TargetsCore THEN {Core} ELSE {})
                   \cup {w \in Workers : target \in {All, w}}
<1>1. /\ pc = "deps" /\ UNCHANGED <<cli, unit, flagged, target>>
      /\ m' = upsert_unit(m, cs, Managed)
  BY DEF WriteCore
<1>2. flagged = needed(unit, cli) /\ \A c \in Components : Registered(c)
  BY <1>1 DEF RunInv
<1>3. ASSUME NEW c \in Components PROVE Registered(c)'
  <2>1. /\ m \in [pin : Stamps, unit : [Components -> UnitSet]]
        /\ Files(c) \in Components
    BY FilesPlace DEF TypeOK
  <2>2. TargetsCore => tree'[Core] = cli /\ tree'[Files(c)] \in {tree[Files(c)], cli}
    BY <2>1, WriteType, Constants DEF WriteCore
  <2>3. ~TargetsCore => tree' = tree
    BY DEF WriteCore
  <2>4. CASE c \notin cs
    <3>1. m'.unit[c] = m.unit[c]
      <4> HIDE DEF cs
      <4> QED BY <1>1, <2>1, <2>4, UpsertType
    <3> QED BY <1>1, <1>2, <2>2, <2>3, <3>1, StillRegistered
  <2>5. CASE c \in cs /\ TargetsCore
    <3>1. c = Core \/ c \in Workers
      BY <2>5
    <3>2. Files(c) = Core
      BY <3>1, FilesPlace
    <3> QED BY <1>1, <2>2, <2>5, <3>2 DEF Registered
  <2>6. CASE c \in cs /\ ~TargetsCore
    <3>1. c \in Workers /\ target = c
      BY <2>6 DEF TargetsCore
    <3> QED BY <1>1, <3>1 DEF Registered, KeptAsIs
  <2> QED BY <2>4, <2>5, <2>6
<1> QED BY <1>1, <1>2, <1>3 DEF RunInv, needed, NeedVersions, Known

\* A run starts with the committed units and the flags pending on them.
LEMMA BeginRegistered ==
  ASSUME TypeOK, NEW t, NEW a, NEW r, Begin(t, a, r), UNCHANGED disk
  PROVE  RunInv'
<1>1. m' = [pin |-> IF pin = 0 THEN cli ELSE pin, unit |-> unit]
      /\ flagged' = needed(unit, cli) /\ UNCHANGED <<cli, unit>>
  BY DEF Begin, _ensure_manifest, disk
<1>2. needed(unit, cli)' = needed(unit, cli)
  BY <1>1 DEF needed, NeedVersions, Known
<1>3. m'.unit = unit'
  BY <1>1
<1> QED BY <1>1, <1>2, <1>3 DEF RunInv, Registered

LEMMA RunStep == TypeOK /\ RunInv /\ [Next]_vars => RunInv'
<1> SUFFICES ASSUME TypeOK, RunInv, [Next]_vars PROVE RunInv'
  OBVIOUS
<1>1. ASSUME pc' \notin {"deps", "save"} PROVE RunInv'
  BY <1>1 DEF RunInv
<1>2. ASSUME Raise PROVE RunInv'
  BY <1>1, <1>2 DEF Raise, Idle
<1>3. CASE UNCHANGED vars
  BY <1>3 DEF vars, disk, run, RunInv, Registered, KeptAsIs, needed, NeedVersions, Known
<1>4. CASE \E t \in Targets, a \in {"modify", "override"}, r \in BOOLEAN : bootstrap(t, a, r)
  BY <1>4, BeginRegistered DEF bootstrap
<1>5. CASE \E r \in BOOLEAN : ReplayAll(r)
  BY <1>5, BeginRegistered DEF ReplayAll
<1>6. CASE \E c \in Replayable : ReplayUnit(c)
  BY <1>6, BeginRegistered DEF ReplayUnit
<1>7. CASE \E d \in Providers : _handle_dependency(d)
  BY <1>7, HandledRegistered
<1>8. CASE WriteCore
  BY <1>8, WriteCoreRegistered
<1>9. CASE save_manifest \/ Realign \/ NothingPending \/ NoCoreTree \/ UpgradeDone
  BY <1>1, <1>9 DEF save_manifest, Realign, NothingPending, NoCoreTree, UpgradeDone, Idle
<1>10. CASE upgrade \/ DeployDone \/ Crash
  BY <1>1, <1>10 DEF upgrade, DeployDone, Crash, Idle
<1>11. CASE \/ \E c \in Components : play(c)
            \/ \E cs \in SUBSET Components : deploy(cs)
            \/ \E v \in Versions : InstallCli(v)
  BY <1>1, <1>11 DEF play, deploy, InstallCli
<1>12. CASE \E d \in Providers : CrashBundle(d)
  BY <1>1, <1>12 DEF CrashBundle, Idle
<1>13. CASE Cancel \/ \E d \in Providers : MissingPartner(d)
  BY <1>2, <1>13 DEF Cancel, MissingPartner
<1> QED
  BY <1>3, <1>4, <1>5, <1>6, <1>7, <1>8, <1>9, <1>10, <1>11, <1>12, <1>13
  DEF Next, Step

\* A run that takes a pending flag off a unit, whichever it is, has rewritten the
\* files the unit plays, but for a bundled provider beside a reused partner and a
\* worker in a run of its own, whichever CLI releases the operators run.
THEOREM ClearedByReplayOnly == Spec => []FlagClearedOnlyByReplay
<1>1. Init => RunInv
  BY DEF Init, RunInv
<1>2. TypeOK /\ RunInv => FlagClearedOnlyByReplay
  BY DEF RunInv, Registered, FlagClearedOnlyByReplay, needed, NeedVersions
<1> QED BY <1>1, <1>2, InitType, NextType, RunStep, PTL DEF Spec

-----------------------------------------------------------------------------
(* The pin. *)

LEMMA UpsertPin ==
  ASSUME NEW cs, NEW mode, TypeOK
  PROVE  upsert_unit(m, cs, mode).pin = m.pin
BY DEF upsert_unit, TypeOK

LEMMA PinStep == TypeOK /\ PinInv /\ [Next]_vars => PinInv' /\ pin' >= pin
<1> SUFFICES ASSUME TypeOK, PinInv, [Next]_vars PROVE PinInv' /\ pin' >= pin
  OBVIOUS
<1>0. pin \in Nat /\ cli \in Nat /\ cli >= 1
  <2>1. pin \in Stamps /\ cli \in Versions
    BY DEF TypeOK
  <2> QED BY <2>1, VersionAssumption DEF Stamps, Versions
<1>1. ASSUME pc' \notin {"deps", "save", "realign"}, UNCHANGED pin
      PROVE  PinInv' /\ pin' >= pin
  BY <1>0, <1>1 DEF PinInv
<1>2. ASSUME Raise, UNCHANGED disk PROVE PinInv' /\ pin' >= pin
  BY <1>1, <1>2 DEF Raise, Idle, disk
<1>3. CASE UNCHANGED vars
  BY <1>0, <1>3 DEF vars, disk, run, PinInv
<1>4. ASSUME NEW t, NEW a, NEW r, Begin(t, a, r), UNCHANGED disk
      PROVE  PinInv' /\ pin' >= pin
  BY <1>0, <1>4 DEF Begin, _ensure_manifest, disk, PinInv
<1>5. CASE \E t \in Targets, a \in {"modify", "override"}, r \in BOOLEAN : bootstrap(t, a, r)
  BY <1>4, <1>5 DEF bootstrap
<1>6. CASE (\E r \in BOOLEAN : ReplayAll(r)) \/ \E c \in Replayable : ReplayUnit(c)
  BY <1>4, <1>6 DEF ReplayAll, ReplayUnit
<1>7. ASSUME NEW d \in Providers, _handle_dependency(d) PROVE PinInv' /\ pin' >= pin
  <2>1. m'.pin = m.pin
    BY <1>7, UpsertPin DEF _handle_dependency, Register
  <2> QED BY <1>0, <1>7, <2>1 DEF _handle_dependency, PinInv
<1>8. CASE WriteCore
  <2>1. m'.pin = m.pin
    BY <1>8, UpsertPin DEF WriteCore
  <2> QED BY <1>0, <1>8, <2>1 DEF WriteCore, PinInv
<1>9. CASE save_manifest \/ Realign
  BY <1>0, <1>9 DEF save_manifest, Realign, PinInv
<1>10. CASE NothingPending \/ NoCoreTree \/ UpgradeDone \/ DeployDone
  BY <1>1, <1>10 DEF NothingPending, NoCoreTree, UpgradeDone, DeployDone, Idle, disk
<1>11. CASE upgrade
  BY <1>0, <1>11 DEF upgrade, disk, PinInv
<1>12. CASE \/ \E c \in Components : play(c)
            \/ \E cs \in SUBSET Components : deploy(cs)
            \/ \E v \in Versions : InstallCli(v)
  BY <1>1, <1>12 DEF play, deploy, InstallCli, disk
<1>13. CASE (\E d \in Providers : CrashBundle(d)) \/ Crash
  BY <1>1, <1>13 DEF CrashBundle, Crash, Idle, disk
<1>14. CASE Cancel \/ \E d \in Providers : MissingPartner(d)
  BY <1>2, <1>14 DEF Cancel, MissingPartner
<1> QED
  BY <1>3, <1>5, <1>6, <1>7, <1>8, <1>9, <1>10, <1>11, <1>12, <1>13, <1>14
  DEF Next, Step

\* Whatever CLI releases the operators run, the committed pin never moves back.
THEOREM PinOnlyMovesForward == Spec => PinNeverMovesBack
<1>1. Init => PinInv
  BY DEF Init, PinInv
<1>2. TypeOK /\ PinInv /\ [Next]_vars => PinInv' /\ [pin' >= pin]_vars
  BY PinStep
<1> QED BY <1>1, <1>2, InitType, NextType, PTL DEF Spec, PinNeverMovesBack

-----------------------------------------------------------------------------
(* The stamps, when no operator runs an older CLI than the repository saw. *)

LEMMA InitEarned == Init => Bounds /\ GateInv /\ StampsAreEarned
<1> SUFFICES ASSUME Init PROVE Bounds /\ GateInv /\ StampsAreEarned
  OBVIOUS
<1>1. PICK old \in {{}} \cup IF Legacy = {} THEN {} ELSE {{Core} \cup Legacy} :
        /\ pin  = IF old = {} THEN 0 ELSE 1
        /\ unit = [c \in Components |-> IF c \in old
                     THEN [mode |-> Managed, stamp |-> 1] ELSE Absent]
        /\ tree = [c \in Components |-> IF c \in old THEN 1 ELSE 0]
  BY DEF Init
<1>2. \A c \in Components :
        /\ tree[c] = IF c \in old THEN 1 ELSE 0
        /\ unit[c] = IF c \in old THEN [mode |-> Managed, stamp |-> 1] ELSE Absent
  BY <1>1
<1>3. \A c \in Components : m.unit[c] = Absent
  BY DEF Init, NoManifest
<1>4. Bounds
  BY <1>1, <1>2, <1>3 DEF Init, Bounds, Absent
<1>5. \A c \in Components : c \in old => Files(c) = c
  BY <1>1, FilesPlace, ComponentAssumption
<1>6. StampsAreEarned
  BY <1>2, <1>5, FilesPlace DEF StampsAreEarned, Absent
<1> QED BY <1>4, <1>6 DEF Init, GateInv

\* Trees are only ever brought up to the installed release.
LEMMA TreesGrow ==
  ASSUME TypeOK, [Next]_vars
  PROVE  \A c \in Components : tree'[c] = tree[c] \/ (tree'[c] = cli /\ cli' = cli)
<1>1. ASSUME NEW cs, Write(cs), cli' = cli
      PROVE  \A c \in Components : tree'[c] = tree[c] \/ (tree'[c] = cli /\ cli' = cli)
  BY <1>1, WriteType
<1>2. ASSUME NEW d \in Providers, _handle_dependency(d)
      PROVE  \A c \in Components : tree'[c] = tree[c] \/ (tree'[c] = cli /\ cli' = cli)
  <2>1. cli' = cli /\ (tree' = tree \/ \E cs : Write(cs))
    BY <1>2 DEF _handle_dependency
  <2> QED BY <1>1, <2>1
<1>3. CASE WriteCore
  <2>1. cli' = cli /\ (tree' = tree \/ \E cs : Write(cs))
    BY <1>3 DEF WriteCore
  <2> QED BY <1>1, <2>1
<1>4. CASE \E d \in Providers : CrashBundle(d)
  BY <1>1, <1>4 DEF CrashBundle
<1>5. CASE tree' = tree
  BY <1>5
<1>6. ASSUME Next PROVE \/ tree' = tree \/ WriteCore
                       \/ \E d \in Providers : _handle_dependency(d) \/ CrashBundle(d)
  BY <1>6 DEF Next, Step, disk, save_manifest, Realign, NothingPending, NoCoreTree,
    UpgradeDone, ReplayAll, ReplayUnit, play, DeployDone, bootstrap, upgrade, deploy,
    InstallCli, Cancel, Crash, MissingPartner
<1>7. UNCHANGED vars => tree' = tree
  BY DEF vars, disk
<1> QED BY <1>2, <1>3, <1>4, <1>5, <1>6, <1>7

\* Versions and stamps are natural numbers, so that they can be compared.
LEMMA Numbers ==
  ASSUME TypeOK
  PROVE  /\ cli \in Nat /\ pin \in Nat /\ cli >= 1
         /\ \A c \in Components : /\ tree[c] \in Nat
                                  /\ unit[c].stamp \in Nat /\ m.unit[c].stamp \in Nat
         /\ \A f \in Flags : f.version \in Versions /\ f.version \in Nat
<1>1. Stamps \subseteq Nat /\ Versions \subseteq Nat /\ \A v \in Versions : v >= 1
  BY VersionAssumption DEF Stamps, Versions
<1>2. cli \in Versions /\ pin \in Stamps
  BY DEF TypeOK
<1>3. \A c \in Components : /\ tree[c] \in Stamps
                            /\ unit[c].stamp \in Stamps /\ m.unit[c].stamp \in Stamps
  BY DEF TypeOK, UnitSet
<1>4. \A f \in Flags : f.version \in Versions
  BY FlagAssumption DEF FlagSet
<1> QED BY <1>1, <1>2, <1>3, <1>4

\* The installed release only changes when an operator installs another one.
LEMMA CliStep ==
  ASSUME TypeOK, TypeOK', OlderCli = FALSE, [Next]_vars
  PROVE  cli' >= cli
<1>1. cli \in Nat /\ cli' \in Nat
  <2>1. cli \in Versions /\ cli' \in Versions
    BY DEF TypeOK
  <2> QED BY <2>1, VersionAssumption DEF Versions
<1>2. cli' = cli \/ \E v \in Versions : InstallCli(v)
  BY DEF Next, Step, vars, disk, _handle_dependency, WriteCore, save_manifest, Realign,
    NothingPending, NoCoreTree, UpgradeDone, ReplayAll, ReplayUnit, play, DeployDone,
    bootstrap, upgrade, deploy, Cancel, Crash, MissingPartner, CrashBundle
<1> QED BY <1>1, <1>2 DEF InstallCli

LEMMA BoundsStep ==
  ASSUME TypeOK, TypeOK', Bounds, OlderCli = FALSE, [Next]_vars
  PROVE  Bounds'
<1>0. ASSUME NEW c \in Components
      PROVE  /\ tree[c] \in Nat /\ tree[c] <= cli /\ tree'[c] \in Nat
             /\ unit[c].stamp \in Nat /\ unit[c].stamp <= cli
             /\ m.unit[c].stamp \in Nat /\ m.unit[c].stamp <= cli
  <2>1. tree'[c] \in Nat
    <3>1. tree'[c] \in Stamps
      BY <1>0 DEF TypeOK
    <3> QED BY <3>1, VersionAssumption DEF Stamps
  <2> QED BY <1>0, <2>1, Numbers DEF Bounds
<1>1. cli \in Nat /\ cli' \in Nat /\ cli' >= cli
  <2>1. cli' \in Versions
    BY DEF TypeOK
  <2>2. cli' \in Nat
    BY <2>1, VersionAssumption DEF Versions
  <2>3. cli \in Nat
    BY Numbers
  <2>4. cli' >= cli
    BY CliStep
  <2> QED BY <2>2, <2>3, <2>4
<1>2. \A c \in Components : tree'[c] <= cli'
  BY <1>0, <1>1, TreesGrow
<1>3. ASSUME UNCHANGED <<unit, m>> PROVE Bounds'
  BY <1>0, <1>1, <1>2, <1>3 DEF Bounds
<1>4. ASSUME Discard, \/ unit' = unit
                      \/ unit' = m.unit
      PROVE  Bounds'
  <2>1. \A c \in Components : m'.unit[c].stamp = 0
    BY <1>4 DEF Discard, NoManifest, Absent
  <2> QED BY <1>0, <1>1, <1>2, <1>4, <2>1 DEF Bounds
<1>5. ASSUME NEW t, NEW a, NEW r, Begin(t, a, r), UNCHANGED disk PROVE Bounds'
  <2>1. m'.unit = unit /\ unit' = unit
    BY <1>5 DEF Begin, _ensure_manifest, disk
  <2> QED BY <1>0, <1>1, <1>2, <2>1 DEF Bounds
<1>6. ASSUME NEW cs, NEW mode \in {None, Managed, External},
             m' = upsert_unit(m, cs, mode), UNCHANGED <<cli, unit>>
      PROVE  Bounds'
  <2>0. m \in [pin : Stamps, unit : [Components -> UnitSet]]
    BY DEF TypeOK
  <2>1. ASSUME NEW c \in Components
        PROVE  m'.unit[c].stamp = cli \/ m'.unit[c].stamp = m.unit[c].stamp
    <3>1. m'.unit[c] = IF c \in cs THEN [mode |-> mode, stamp |-> cli] ELSE m.unit[c]
      BY <1>6, <2>0, UpsertType
    <3> QED BY <3>1
  <2> QED BY <1>0, <1>1, <1>2, <1>6, <2>1 DEF Bounds
<1>7. ASSUME NEW d \in Providers, _handle_dependency(d) PROVE Bounds'
  <2>1. UNCHANGED <<cli, unit>>
    BY <1>7 DEF _handle_dependency
  <2>2. m' = m \/ \E cs, mode : mode \in {None, Managed, External}
                               /\ m' = upsert_unit(m, cs, mode)
    BY <1>7 DEF _handle_dependency, Register
  <2> QED BY <1>3, <1>6, <2>1, <2>2
<1>8. CASE WriteCore
  BY <1>6, <1>8 DEF WriteCore
<1>9. CASE save_manifest
  BY <1>4, <1>9 DEF save_manifest
<1>10. CASE \E t \in Targets, a \in {"modify", "override"}, r \in BOOLEAN : bootstrap(t, a, r)
  BY <1>5, <1>10 DEF bootstrap
<1>11. CASE (\E r \in BOOLEAN : ReplayAll(r)) \/ \E c \in Replayable : ReplayUnit(c)
  BY <1>5, <1>11 DEF ReplayAll, ReplayUnit
<1>12. CASE Realign \/ NothingPending \/ NoCoreTree \/ UpgradeDone \/ upgrade
  BY <1>3, <1>12 DEF Realign, NothingPending, NoCoreTree, UpgradeDone, upgrade, run, disk
<1>13. CASE \/ DeployDone
            \/ \E c \in Components : play(c)
            \/ \E cs \in SUBSET Components : deploy(cs)
            \/ \E v \in Versions : InstallCli(v)
  BY <1>3, <1>13 DEF DeployDone, play, deploy, InstallCli, run, disk
<1>14. CASE \/ Cancel \/ Crash
            \/ \E d \in Providers : MissingPartner(d) \/ CrashBundle(d)
  BY <1>4, <1>14 DEF Cancel, Crash, MissingPartner, CrashBundle, Raise, disk
<1>15. CASE UNCHANGED vars
  BY <1>3, <1>15 DEF vars, disk, run
<1> QED
  BY <1>7, <1>8, <1>9, <1>10, <1>11, <1>12, <1>13, <1>14, <1>15 DEF Next, Step

\* A deploy is under way only on units its gate let through.
LEMMA GateStep ==
  ASSUME GateInv, [Next]_vars
  PROVE  GateInv'
<1>1. ASSUME pc' # "play" PROVE GateInv'
  BY <1>1 DEF GateInv
<1>2. ASSUME UNCHANGED <<cli, pin, unit>>, queue' \subseteq queue, pc' = pc PROVE GateInv'
  BY <1>2 DEF GateInv, Blocking, NeedVersions, Known
<1>3. CASE \E cs \in SUBSET Components : deploy(cs)
  BY <1>3 DEF deploy, ManagedUnits, GateInv, Blocking, NeedVersions, Known, disk
<1>4. CASE (\E c \in Components : play(c)) \/ UNCHANGED vars
  BY <1>2, <1>4 DEF play, vars, disk
<1>5. CASE \/ \E d \in Providers : _handle_dependency(d) \/ MissingPartner(d) \/ CrashBundle(d)
           \/ WriteCore \/ save_manifest \/ Cancel \/ Crash
  BY <1>1, <1>5 DEF _handle_dependency, MissingPartner, CrashBundle, WriteCore,
     save_manifest, Cancel, Crash, Raise, Idle
<1>6. CASE \/ Realign \/ NothingPending \/ NoCoreTree \/ UpgradeDone \/ DeployDone
           \/ upgrade \/ (\E v \in Versions : InstallCli(v))
  BY <1>1, <1>6 DEF Realign, NothingPending, NoCoreTree, UpgradeDone, DeployDone,
     upgrade, InstallCli, Idle
<1>7. CASE \/ \E r \in BOOLEAN : ReplayAll(r)
           \/ \E c \in Replayable : ReplayUnit(c)
           \/ \E t \in Targets, a \in {"modify", "override"}, r \in BOOLEAN : bootstrap(t, a, r)
  BY <1>1, <1>7 DEF ReplayAll, ReplayUnit, bootstrap, Begin
<1> QED BY <1>3, <1>4, <1>5, <1>6, <1>7 DEF Next, Step

\* What a component nothing flags means: its stamp answers every known flag.
LEMMA UnflaggedAnswers ==
  ASSUME TypeOK, NEW c \in Replayable, NEW f \in Flags, unit[c].mode = Managed,
         c \notin needed(unit, cli), Names(f, c), f.version <= cli
  PROVE  f.version <= unit[c].stamp
<1>1. c \in Replayable /\ c \in Components
  BY Constants
<1>2. NeedVersions(unit, cli, c) = {}
  BY <1>1 DEF needed
<1>3. f.version \in Versions /\ f \in Known(cli)
  BY Numbers DEF Known
<1>4. ~(f.version > unit[c].stamp)
  BY <1>1, <1>2, <1>3 DEF NeedVersions
<1> QED BY <1>1, <1>4, Numbers

\* Saving the manifest: the one step that moves the committed stamps.
LEMMA SaveEarned ==
  ASSUME TypeOK, RunInv, Bounds, StampsAreEarned, save_manifest
  PROVE  StampsAreEarned'
<1> SUFFICES ASSUME NEW c \in Components, c \notin adopted', m.unit[c].mode = Managed,
                    NEW f \in Flags, Names(f, c), f.version <= m.unit[c].stamp
             PROVE  tree[Files(c)] >= f.version
  BY DEF save_manifest, StampsAreEarned, Files
<1>1. /\ tree[Files(c)] \in Nat /\ cli \in Nat /\ f.version \in Nat
      /\ m.unit[c].stamp <= cli /\ m.unit[c].stamp \in Nat
  BY FilesPlace, Numbers DEF Bounds
<1>2. f.version <= cli
  BY <1>1
<1>3. CASE tree[Files(c)] = cli
  BY <1>1, <1>2, <1>3
<1>4. CASE tree[Files(c)] # cli
  <2>1. /\ c \notin adopted
        /\ c \in Providers \cup Workers => unit[c].mode = Managed
        /\ c \in Providers \cup Workers =>
             ~(c \in flagged /\ KeptAsIs(c) /\ m.unit[c] # unit[c])
    BY <1>4 DEF save_manifest, TypeOK
  <2>2. flagged = needed(unit, cli) /\ Registered(c)
    BY DEF RunInv, save_manifest
  <2>3. CASE m.unit[c] = unit[c]
    BY <2>1, <2>3 DEF StampsAreEarned
  <2>4. CASE c \in Providers \cup Workers /\ c \notin flagged
    <3>1. f.version <= unit[c].stamp
      BY <1>2, <2>1, <2>2, <2>4, UnflaggedAnswers DEF Replayable
    <3> QED BY <2>1, <2>4, <3>1 DEF StampsAreEarned
  <2> QED BY <1>4, <2>1, <2>2, <2>3, <2>4 DEF Registered
<1> QED BY <1>3, <1>4

LEMMA EarnedStep ==
  ASSUME TypeOK, TypeOK', RunInv, Bounds, StampsAreEarned, [Next]_vars
  PROVE  StampsAreEarned'
<1>1. CASE save_manifest
  BY <1>1, SaveEarned
<1>2. ASSUME UNCHANGED <<unit, adopted>> PROVE StampsAreEarned'
  <2> SUFFICES ASSUME NEW c \in Components, c \notin adopted, unit[c].mode = Managed,
                      NEW f \in Flags, Names(f, c), f.version <= unit[c].stamp
               PROVE  tree'[Files(c)] >= f.version
    BY <1>2 DEF StampsAreEarned, Files
  <2>1. tree[Files(c)] >= f.version
    BY DEF StampsAreEarned
  <2>2. /\ Files(c) \in Components /\ tree[Files(c)] \in Nat /\ cli \in Nat
        /\ f.version \in Nat /\ tree[Files(c)] <= cli
    BY FilesPlace, Numbers DEF Bounds
  <2>3. tree'[Files(c)] = tree[Files(c)] \/ tree'[Files(c)] = cli
    BY <2>2, TreesGrow
  <2> QED BY <2>1, <2>2, <2>3
<1>3. ASSUME ~save_manifest PROVE UNCHANGED <<unit, adopted>>
  BY <1>3 DEF Next, Step, vars, disk, _handle_dependency, WriteCore, Realign,
    NothingPending, NoCoreTree, UpgradeDone, ReplayAll, ReplayUnit, play, DeployDone,
    bootstrap, upgrade, deploy, InstallCli, Cancel, Crash, MissingPartner, CrashBundle
<1> QED BY <1>1, <1>2, <1>3

\* Unless an operator runs an older CLI, the stamp the gate trusts is earned for
\* every component whatever is cancelled, killed or installed in between, but
\* where save_manifest stamped files nobody replayed.
THEOREM StampsEarned ==
  ASSUME OlderCli = FALSE
  PROVE  Spec => []StampsAreEarned
<1>1. Init => RunInv
  BY DEF Init, RunInv
<1>2. TypeOK /\ TypeOK' /\ RunInv /\ Bounds /\ StampsAreEarned /\ [Next]_vars
        => Bounds' /\ StampsAreEarned'
  BY BoundsStep, EarnedStep
<1> QED BY <1>1, <1>2, InitType, NextType, RunStep, InitEarned, PTL DEF Spec

\* The gate and the stamps together: with the pinned CLI installed, a deploy
\* plays no unit whose files miss a flag of the pinned collection, legacy units
\* and those stamped over old files aside.
LEMMA GateSuffices ==
  ASSUME TypeOK, GateInv, StampsAreEarned
  PROVE  PlaysReplayedConfig
<1> SUFFICES ASSUME pc = "play", cli = pin,
                    NEW c \in queue \ (adopted \cup Legacy),
                    NEW f \in Known(pin), Names(f, c)
             PROVE  tree[Files(c)] >= f.version
  BY DEF PlaysReplayedConfig
<1>0. c \in Components /\ c \in Replayable
  BY DEF TypeOK, Components, Replayable
<1>1. unit[c].mode = Managed /\ ~Blocking(c)
  BY DEF GateInv
<1>2. f \in Flags /\ f.version <= cli
  BY DEF Known
<1>3. \A w \in NeedVersions(unit, cli, c) : w <= pin
  <2>1. \A w \in Versions : w = Baseline[cli] => w <= cli
    BY BaselineAssumption DEF TypeOK
  <2>2. \A g \in Known(cli) : g.version <= cli
    BY DEF Known
  <2> QED BY <2>1, <2>2 DEF NeedVersions
<1>4. c \notin needed(unit, cli)
  BY <1>1, <1>3 DEF Blocking, needed
<1>5. f.version <= unit[c].stamp
  BY <1>0, <1>1, <1>2, <1>4, UnflaggedAnswers
<1> QED BY <1>0, <1>1, <1>2, <1>5 DEF StampsAreEarned

\* Unless an operator runs an older CLI, what deploy plays has been replayed, the
\* units stamped over old files and the legacy ones aside.
THEOREM PlaysReplayed ==
  ASSUME OlderCli = FALSE
  PROVE  Spec => []PlaysReplayedConfig
<1>1. Init => RunInv
  BY DEF Init, RunInv
<1>2. TypeOK /\ TypeOK' /\ RunInv /\ Bounds /\ StampsAreEarned /\ GateInv /\ [Next]_vars
        => Bounds' /\ StampsAreEarned' /\ GateInv'
  BY BoundsStep, EarnedStep, GateStep
<1>3. TypeOK /\ GateInv /\ StampsAreEarned => PlaysReplayedConfig
  BY GateSuffices
<1> QED BY <1>1, <1>2, <1>3, InitType, NextType, RunStep, InitEarned, PTL DEF Spec

-----------------------------------------------------------------------------
(* What is registered as managed has a tree to play. *)

\* No step takes a tree away.
LEMMA TreesStay ==
  ASSUME TypeOK, [Next]_vars
  PROVE  \A c \in Components : HasTree(c) => HasTree(c)'
BY TreesGrow, Numbers DEF HasTree

LEMMA InitFiles == Init => FilesInv
<1> SUFFICES ASSUME Init PROVE FilesInv
  OBVIOUS
<1>1. PICK old \in {{}} \cup IF Legacy = {} THEN {} ELSE {{Core} \cup Legacy} :
        /\ unit = [c \in Components |-> IF c \in old
                     THEN [mode |-> Managed, stamp |-> 1] ELSE Absent]
        /\ tree = [c \in Components |-> IF c \in old THEN 1 ELSE 0]
  BY DEF Init
<1>2. ASSUME NEW c \in Components \ Legacy, unit[c].mode = Managed
      PROVE  HasTree(Files(c))
  <2>1. c \in old
    BY <1>1, <1>2 DEF Absent
  <2>2. c = Core
    BY <1>2, <2>1
  <2> QED BY <1>1, <2>1, <2>2, FilesPlace DEF HasTree
<1> QED BY <1>2 DEF FilesInv, ManagedHasFiles, Init

\* A manifest whose managed units have files still is one after an upsert of
\* units that have theirs.
LEMMA UpsertFiles ==
  ASSUME TypeOK, [Next]_vars, NEW cs, NEW mode \in {None, Managed, External},
         \A c \in Components \ Legacy : m.unit[c].mode = Managed => HasTree(Files(c)),
         mode = Managed => \A c \in cs \cap Components : HasTree(Files(c))',
         m' = m \/ m' = upsert_unit(m, cs, mode)
  PROVE  \A c \in Components \ Legacy : m'.unit[c].mode = Managed => HasTree(Files(c))'
<1> SUFFICES ASSUME NEW c \in Components \ Legacy, m'.unit[c].mode = Managed
             PROVE  HasTree(Files(c))'
  OBVIOUS
<1>1. m \in [pin : Stamps, unit : [Components -> UnitSet]]
  BY DEF TypeOK
<1>2. m'.unit[c] = m.unit[c] \/ (c \in cs /\ m'.unit[c] = [mode |-> mode, stamp |-> cli])
  <2>1. upsert_unit(m, cs, mode).unit[c]
          = IF c \in cs THEN [mode |-> mode, stamp |-> cli] ELSE m.unit[c]
    BY <1>1, UpsertType
  <2> QED BY <2>1
<1>3. CASE m'.unit[c] = m.unit[c]
  <2>1. HasTree(Files(c))
    BY <1>3
  <2>2. Files(c) \in Components
    BY FilesPlace
  <2>3. HasTree(Files(c))' <=> tree'[Files(c)] # 0
    BY DEF HasTree, Files
  <2> QED BY <2>1, <2>2, <2>3, TreesStay DEF HasTree
<1>4. CASE c \in cs /\ m'.unit[c] = [mode |-> mode, stamp |-> cli]
  BY <1>4
<1> QED BY <1>2, <1>3, <1>4

\* One dependency handled: it is registered as managed when its tree is there
\* or is written, together with the trees of the providers written in its step.
LEMMA HandledFiles ==
  ASSUME TypeOK, [Next]_vars, FilesInv, NEW d \in Providers, _handle_dependency(d)
  PROVE  FilesInv'
<1>1. pc = "deps" /\ UNCHANGED <<pc, unit, target>>
  BY DEF _handle_dependency
<1>2. \A c \in Components \ Legacy : m.unit[c].mode = Managed => HasTree(Files(c))
  BY <1>1 DEF FilesInv
<1>3. ASSUME NEW cs, NEW ws, Write(ws), NEW e \in cs \cap Providers,
             HasTree(e) \/ e \in ws
      PROVE  HasTree(Files(e))'
  <2>1. e \in Components /\ Files(e) = e
    BY Constants, FilesPlace
  <2>2. tree'[e] # 0
    BY <1>3, <2>1, WriteType, Numbers DEF HasTree
  <2>3. HasTree(Files(e))' <=> tree'[Files(e)] # 0
    BY DEF HasTree, Files
  <2> QED BY <2>1, <2>2, <2>3
<1>4. \A c \in Components \ Legacy : m'.unit[c].mode = Managed => HasTree(Files(c))'
  <2>1. CASE UNCHANGED <<tree, m>>
    BY <1>2, <2>1, UpsertFiles
  <2>2. CASE Register({d}, External)
    BY <1>2, <2>2, UpsertFiles DEF Register
  <2>3. CASE /\ "reuse" \in Choices(d)
             /\ Register({d} \cup Partners(d), Managed)
             /\ Write(IF WireOnly THEN {} ELSE {e \in Partners(d) : ~HasTree(e)})
    <3>1. CASE WireOnly
      BY <1>2, <2>3, <3>1, UpsertFiles DEF Register
    <3>2. CASE ~WireOnly
      <4>1. HasTree(d)
        BY <2>3 DEF Choices
      <4>2. Write({e \in Partners(d) : ~HasTree(e)})
        BY <2>3, <3>2
      <4>3. \A e \in {d} \cup Partners(d) : HasTree(Files(e))'
        BY <1>3, <4>1, <4>2, FilesPlace
      <4> QED BY <1>2, <2>3, <3>2, <4>3, UpsertFiles DEF Register
    <3> QED BY <3>1, <3>2
  <2>4. CASE /\ Register({d} \cup Partners(d), Managed)
             /\ Write({d} \cup Partners(d))
    <3>1. \A e \in {d} \cup Partners(d) : HasTree(Files(e))'
      BY <1>3, <2>4, FilesPlace
    <3> QED BY <1>2, <2>4, <3>1, UpsertFiles DEF Register
  <2> QED BY <2>1, <2>2, <2>3, <2>4 DEF _handle_dependency
<1> QED BY <1>1, <1>4, TreesStay, FilesPlace, Constants
        DEF FilesInv, ManagedHasFiles, HasTree, Files

\* The core's own step registers the core, whose tree it writes, and the worker
\* of the run: a run on the whole app writes the core first, and a run on the
\* worker alone started from a core tree.
LEMMA WriteCoreFiles ==
  ASSUME TypeOK, [Next]_vars, FilesInv, WriteCore
  PROVE  FilesInv'
<1> DEFINE cs == (IF TargetsCore THEN {Core} ELSE {})
                   \cup {w \in Workers : target \in {All, w}}
<1>1. pc = "deps" /\ pc' = "save" /\ m' = upsert_unit(m, cs, Managed) /\ unit' = unit
  BY DEF WriteCore
<1>2. \A c \in Components \ Legacy : m.unit[c].mode = Managed => HasTree(Files(c))
  BY <1>1 DEF FilesInv
<1>3. cs # {} => tree'[Core] # 0
  <2>1. CASE TargetsCore
    BY <2>1, WriteType, Numbers, Constants DEF WriteCore
  <2>2. CASE ~TargetsCore
    <3>1. cs # {} => target \in Workers
      BY <2>2 DEF TargetsCore
    <3>2. target \in Workers => tree[Core] # 0
      BY <1>1 DEF FilesInv, HasTree
    <3>3. tree' = tree
      BY <2>2 DEF WriteCore
    <3> QED BY <3>1, <3>2, <3>3
  <2> QED BY <2>1, <2>2
<1>4. \A c \in cs \cap Components : HasTree(Files(c))'
  <2>1. \A c \in cs : Files(c) = Core
    BY FilesPlace
  <2> HIDE DEF cs
  <2>2. \A c : HasTree(Files(c))' <=> tree'[Files(c)] # 0
    BY DEF HasTree, Files
  <2> QED BY <1>3, <2>1, <2>2
<1>5. \A c \in Components \ Legacy : m'.unit[c].mode = Managed => HasTree(Files(c))'
  <2> HIDE DEF cs
  <2> QED BY <1>1, <1>2, <1>4, UpsertFiles
<1> QED BY <1>1, <1>5, TreesStay, FilesPlace DEF FilesInv, ManagedHasFiles, HasTree, Files

\* A run starts from the committed units, a worker's from a core tree.
LEMMA BeginFiles ==
  ASSUME TypeOK, FilesInv, NEW t, NEW a, NEW r, Begin(t, a, r), UNCHANGED disk
  PROVE  FilesInv'
<1>1. m'.unit = unit /\ UNCHANGED <<unit, tree>> /\ target' = t
  BY DEF Begin, _ensure_manifest, disk
<1>2. t \in Workers => HasTree(Core)
  BY DEF Begin
<1> QED BY <1>1, <1>2 DEF FilesInv, ManagedHasFiles, HasTree, Files

LEMMA FilesStep == TypeOK /\ FilesInv /\ [Next]_vars => FilesInv'
<1> SUFFICES ASSUME TypeOK, FilesInv, [Next]_vars PROVE FilesInv'
  OBVIOUS
<1>1. ASSUME pc' \notin {"deps", "save"}, unit' = unit PROVE FilesInv'
  BY <1>1, TreesStay, FilesPlace DEF FilesInv, ManagedHasFiles, HasTree, Files
<1>2. ASSUME Raise, unit' = unit PROVE FilesInv'
  BY <1>1, <1>2 DEF Raise, Idle
<1>3. CASE UNCHANGED vars
  BY <1>3 DEF vars, disk, run, FilesInv, ManagedHasFiles, HasTree, Files
<1>4. CASE \E t \in Targets, a \in {"modify", "override"}, r \in BOOLEAN : bootstrap(t, a, r)
  BY <1>4, BeginFiles DEF bootstrap
<1>5. CASE (\E r \in BOOLEAN : ReplayAll(r)) \/ \E c \in Replayable : ReplayUnit(c)
  BY <1>5, BeginFiles DEF ReplayAll, ReplayUnit
<1>6. CASE \E d \in Providers : _handle_dependency(d)
  BY <1>6, HandledFiles
<1>7. CASE WriteCore
  BY <1>7, WriteCoreFiles
<1>8. CASE save_manifest
  <2>1. pc = "save" /\ unit' = m.unit /\ tree' = tree /\ pc' \notin {"deps", "save"}
    BY <1>8 DEF save_manifest
  <2> QED BY <2>1 DEF FilesInv, ManagedHasFiles, HasTree, Files
<1>9. CASE Realign \/ NothingPending \/ NoCoreTree \/ UpgradeDone
  BY <1>1, <1>9 DEF Realign, NothingPending, NoCoreTree, UpgradeDone, Idle, disk
<1>10. CASE upgrade \/ DeployDone \/ Crash
  BY <1>1, <1>10 DEF upgrade, DeployDone, Crash, Idle, disk
<1>11. CASE \E c \in Components : play(c)
  BY <1>1, <1>11 DEF play, disk
<1>12. CASE \E cs \in SUBSET Components : deploy(cs)
  BY <1>1, <1>12 DEF deploy, disk
<1>13. CASE \E v \in Versions : InstallCli(v)
  BY <1>1, <1>13 DEF InstallCli
<1>14. CASE \E d \in Providers : CrashBundle(d)
  BY <1>1, <1>14 DEF CrashBundle, Idle
<1>15. CASE Cancel \/ \E d \in Providers : MissingPartner(d)
  BY <1>2, <1>15 DEF Cancel, MissingPartner, disk
<1> QED
  BY <1>3, <1>4, <1>5, <1>6, <1>7, <1>8, <1>9, <1>10, <1>11, <1>12, <1>13, <1>14, <1>15
  DEF Next, Step

\* Whatever is cancelled, killed or run with an older CLI, every unit the
\* committed manifest lists as managed has a tree that deploy can play.
THEOREM ManagedAlwaysHasFiles == Spec => []ManagedHasFiles
<1>1. FilesInv => ManagedHasFiles
  BY DEF FilesInv
<1> QED BY <1>1, InitFiles, InitType, NextType, FilesStep, PTL DEF Spec

-----------------------------------------------------------------------------
(* What an upgrade leaves flagged. *)

\* A unit stamped by the installed release needs nothing of it.
LEMMA FreshNeedsNothing ==
  ASSUME TypeOK, NEW u, NEW c, u[c].stamp = cli
  PROVE  NeedVersions(u, cli, c) = {}
<1>1. cli \in Versions /\ Baseline[cli] <= cli
  BY BaselineAssumption DEF TypeOK
<1>2. \A w \in Versions : w \in Nat
  BY VersionAssumption DEF Versions
<1>3. \A f \in Known(cli) : f.version <= cli
  BY DEF Known
<1>4. ASSUME NEW w \in Versions, w > cli,
             w = Baseline[cli] \/ \E f \in Known(cli) : f.version = w
      PROVE  FALSE
  <2>1. w <= cli
    BY <1>1, <1>3, <1>4
  <2> QED BY <1>1, <1>2, <1>4, <2>1
<1> QED BY <1>4 DEF NeedVersions

\* An upsert takes the flags off the units it stamps, and raises none.
LEMMA UpsertNeeds ==
  ASSUME TypeOK, NEW cs, NEW mode \in {None, Managed, External},
         m' = upsert_unit(m, cs, mode), cli' = cli, NEW c \in needed(m.unit, cli)'
  PROVE  c \in needed(m.unit, cli) /\ c \notin cs
<1>1. c \in Components /\ NeedVersions(m'.unit, cli, c) # {}
  BY DEF needed, NeedVersions, Known
<1>2. m'.unit[c] = IF c \in cs THEN [mode |-> mode, stamp |-> cli] ELSE m.unit[c]
  <2>1. m \in [pin : Stamps, unit : [Components -> UnitSet]]
    BY DEF TypeOK
  <2> QED BY <1>1, <2>1, UpsertType
<1>3. c \notin cs
  <2>1. c \in cs => m'.unit[c].stamp = cli
    BY <1>2
  <2> QED BY <1>1, <2>1, FreshNeedsNothing
<1>4. NeedVersions(m'.unit, cli, c) = NeedVersions(m.unit, cli, c)
  BY <1>2, <1>3 DEF NeedVersions
<1> QED BY <1>1, <1>3, <1>4 DEF needed

\* Only managed units are flagged.
LEMMA NeededManaged ==
  ASSUME NEW u, NEW c \in needed(u, cli)
  PROVE  u[c].mode = Managed /\ c \in {Core} \cup Providers \cup Workers
BY DEF needed, NeedVersions, Replayable

LEMMA UnitsNeeds ==
  ASSUME cli' = cli
  PROVE  /\ m'.unit = m.unit => needed(m.unit, cli)' = needed(m.unit, cli)
         /\ unit' = unit => needed(unit, cli)' = needed(unit, cli)
         /\ m'.unit = unit => needed(m.unit, cli)' = needed(unit, cli)
         /\ unit' = m.unit => needed(unit, cli)' = needed(m.unit, cli)
BY DEF needed, NeedVersions, Known

\* The trees of the bundled providers' partners.
LEMMA HandledBundle ==
  ASSUME TypeOK, [Next]_vars, BundleInv, NEW d \in Providers, _handle_dependency(d)
  PROVE  BundleInv'
<1>1. /\ pc = "deps" /\ d \in deps /\ deps' = deps \ {d}
      /\ UNCHANGED <<pc, unit, target>>
  BY DEF _handle_dependency
<1>2. \A e \in Bundled : m.unit[e].mode = Managed => HasTree(BundledWith[e])
  BY <1>1 DEF BundleInv
<1>3. \A e \in Bundled : e \in Components /\ BundledWith[e] \in Components
  BY BundleAssumption, Constants
<1>4. \A e \in Bundled : HasTree(BundledWith[e]) => HasTree(BundledWith[e])'
  BY <1>3, TreesStay DEF HasTree
<1>5. d \in Bundled => AssumeDeploy
  BY <1>1 DEF BundleInv, AssumeDeploy
<1>6. ASSUME NEW cs, NEW mode \in {None, Managed, External}, Register(cs, mode),
             mode = Managed => \A e \in cs \cap Bundled : HasTree(BundledWith[e])'
      PROVE  \A e \in Bundled : m'.unit[e].mode = Managed => HasTree(BundledWith[e])'
  <2>1. CASE m' = m
    BY <1>2, <1>4, <2>1
  <2>2. CASE m' = upsert_unit(m, cs, mode)
    <3>1. m \in [pin : Stamps, unit : [Components -> UnitSet]]
      BY DEF TypeOK
    <3>2. ASSUME NEW e \in Bundled
          PROVE  m'.unit[e] = IF e \in cs THEN [mode |-> mode, stamp |-> cli] ELSE m.unit[e]
      BY <1>3, <2>2, <3>1, UpsertType
    <3> QED BY <1>2, <1>4, <1>6, <3>2
  <2> QED BY <1>6, <2>1, <2>2 DEF Register
<1>7. \A e \in Bundled : m'.unit[e].mode = Managed => HasTree(BundledWith[e])'
  <2>1. CASE UNCHANGED <<tree, m>>
    BY <1>2, <1>4, <2>1
  <2>2. CASE Register({d}, External)
    BY <1>6, <2>2
  <2>3. CASE "reuse" \in Choices(d) /\ Register({d} \cup Partners(d), Managed)
    <3>1. d \notin Bundled /\ HasTree(d)
      BY <1>5, <2>3 DEF Choices
    <3>2. \A e \in ({d} \cup Partners(d)) \cap Bundled : HasTree(BundledWith[e])'
      BY <1>4, <3>1 DEF Partners
    <3> QED BY <1>6, <2>3, <3>2
  <2>4. CASE /\ d \in Bundled => HasTree(BundledWith[d])
             /\ Register({d} \cup Partners(d), Managed)
             /\ Write({d} \cup Partners(d))
    <3>1. HasTree(d)'
      <4>1. d \in Components
        BY Constants
      <4>2. tree'[d] = cli
        BY <2>4, <4>1, WriteType
      <4> QED BY <4>2, Numbers DEF HasTree
    <3>2. \A e \in ({d} \cup Partners(d)) \cap Bundled : HasTree(BundledWith[e])'
      BY <1>4, <2>4, <3>1 DEF Partners
    <3> QED BY <1>6, <2>4, <3>2
  <2> QED BY <2>1, <2>2, <2>3, <2>4 DEF _handle_dependency
<1> QED BY <1>1, <1>4, <1>7 DEF BundleInv

LEMMA BundleStep == TypeOK /\ BundleInv /\ [Next]_vars => BundleInv'
<1> SUFFICES ASSUME TypeOK, BundleInv, [Next]_vars PROVE BundleInv'
  OBVIOUS
<1>0. \A e \in Bundled : HasTree(BundledWith[e]) => HasTree(BundledWith[e])'
  BY BundleAssumption, Constants, TreesStay DEF HasTree
<1>1. ASSUME pc' \notin {"deps", "save"}, unit' = unit PROVE BundleInv'
  BY <1>0, <1>1 DEF BundleInv
<1>2. ASSUME Raise, unit' = unit PROVE BundleInv'
  BY <1>1, <1>2 DEF Raise, Idle
<1>3. CASE UNCHANGED vars
  BY <1>0, <1>3 DEF vars, disk, run, BundleInv
<1>4. ASSUME NEW t, NEW a, NEW r, Begin(t, a, r), UNCHANGED disk PROVE BundleInv'
  <2>1. m'.unit = unit /\ unit' = unit /\ target' = t /\ deps' = LoopDeps(t, r)
    BY <1>4 DEF Begin, _ensure_manifest, disk
  <2>2. \A d \in deps' \cap Bundled : target' = d
    BY <2>1 DEF LoopDeps
  <2> QED BY <1>0, <2>1, <2>2 DEF BundleInv
<1>5. CASE \E t \in Targets, a \in {"modify", "override"}, r \in BOOLEAN : bootstrap(t, a, r)
  BY <1>4, <1>5 DEF bootstrap
<1>6. CASE (\E r \in BOOLEAN : ReplayAll(r)) \/ \E c \in Replayable : ReplayUnit(c)
  BY <1>4, <1>6 DEF ReplayAll, ReplayUnit
<1>7. CASE \E d \in Providers : _handle_dependency(d)
  BY <1>7, HandledBundle
<1>8. CASE WriteCore
  <2> DEFINE cs == (IF TargetsCore THEN {Core} ELSE {})
                     \cup {w \in Workers : target \in {All, w}}
  <2>1. pc = "deps" /\ pc' = "save" /\ m' = upsert_unit(m, cs, Managed) /\ unit' = unit
    BY <1>8 DEF WriteCore
  <2>2. ASSUME NEW e \in Bundled PROVE m'.unit[e] = m.unit[e]
    <3>1. e \in Components /\ e \notin cs
      BY BundleAssumption, ComponentAssumption DEF Components
    <3>2. m \in [pin : Stamps, unit : [Components -> UnitSet]]
      BY DEF TypeOK
    <3> HIDE DEF cs
    <3> QED BY <2>1, <3>1, <3>2, UpsertType
  <2> QED BY <1>0, <2>1, <2>2 DEF BundleInv
<1>9. CASE save_manifest
  <2>1. pc = "save" /\ unit' = m.unit /\ pc' \notin {"deps", "save"}
    BY <1>9 DEF save_manifest
  <2> QED BY <1>0, <2>1 DEF BundleInv
<1>10. CASE Realign \/ NothingPending \/ NoCoreTree \/ UpgradeDone
  BY <1>1, <1>10 DEF Realign, NothingPending, NoCoreTree, UpgradeDone, Idle, disk
<1>11. CASE upgrade \/ DeployDone \/ Crash
  BY <1>1, <1>11 DEF upgrade, DeployDone, Crash, Idle, disk
<1>12. CASE \E c \in Components : play(c)
  BY <1>1, <1>12 DEF play, disk
<1>13. CASE \E cs \in SUBSET Components : deploy(cs)
  BY <1>1, <1>13 DEF deploy, disk
<1>14. CASE \E v \in Versions : InstallCli(v)
  BY <1>1, <1>14 DEF InstallCli
<1>15. CASE \E d \in Providers : CrashBundle(d)
  BY <1>1, <1>15 DEF CrashBundle, Idle
<1>16. CASE Cancel \/ \E d \in Providers : MissingPartner(d)
  BY <1>2, <1>16 DEF Cancel, MissingPartner, disk
<1> QED
  BY <1>3, <1>5, <1>6, <1>7, <1>8, <1>9, <1>10, <1>11, <1>12, <1>13, <1>14, <1>15, <1>16
  DEF Next, Step

\* One dependency handled in a run of upgrade: it is stamped, unless it was
\* skipped for want of a tree, and then it was not managed, or is external.
LEMMA HandledClear ==
  ASSUME TypeOK, FilesInv, BundleInv, ClearInv, NEW d \in Providers, _handle_dependency(d)
  PROVE  ClearInv'
<1>1. /\ pc = "deps" /\ d \in deps /\ deps' = deps \ {d}
      /\ UNCHANGED <<cli, pc, unit, target, caller, todo, failed, action>>
  BY DEF _handle_dependency, loop
<1>2. needed(unit, cli)' = needed(unit, cli)
  BY <1>1, UnitsNeeds
<1>3. d \in Components /\ d \notin Legacy /\ Files(d) = d /\ d \notin Workers /\ d # Core
  BY Constants, ComponentAssumption, FilesPlace
<1>4. m \in [pin : Stamps, unit : [Components -> UnitSet]]
  BY DEF TypeOK
\* The four outcomes, as they bear on the needs of the manifest in memory.
<1>5. \/ "skip" \in Choices(d) /\ m' = m
      \/ External \in Choices(d) /\ Register({d}, External)
      \/ "reuse" \in Choices(d) /\ Register({d} \cup Partners(d), Managed)
      \/ "deploy" \in Choices(d) /\ Register({d} \cup Partners(d), Managed)
  BY DEF _handle_dependency
<1>6. ~WireOnly => \/ "skip" \in Choices(d) /\ m' = m
                   \/ External \in Choices(d) /\ m' = upsert_unit(m, {d}, External)
                   \/ m' = upsert_unit(m, {d} \cup Partners(d), Managed)
  BY <1>5 DEF Register
<1>7. needed(m.unit, cli)' \subseteq needed(m.unit, cli)
  <2>1. m' = m \/ \E cs, mode : mode \in {None, Managed, External}
                               /\ m' = upsert_unit(m, cs, mode)
    BY <1>5 DEF Register
  <2> QED BY <1>1, <2>1, UnitsNeeds, UpsertNeeds
<1>8. CASE caller = "upgrade"
  <2>1. ASSUME target = d PROVE d \notin needed(m.unit, cli)'
    <3>1. AssumeDeploy /\ ~WireOnly
      BY <1>3, <2>1 DEF AssumeDeploy, WireOnly
    <3>2. m' = upsert_unit(m, {d} \cup Partners(d), Managed)
      BY <1>6, <3>1 DEF Choices
    <3> QED BY <1>1, <3>2, UpsertNeeds
  <2>2. /\ needed(unit, cli) \subseteq todo \cup failed \cup {target}
        /\ \A c \in needed(m.unit, cli) :
             /\ c \in needed(unit, cli)
             /\ c = target => c \in {Core} \cup Workers \cup deps
    BY <1>1, <1>8 DEF ClearInv
  <2>3. \A c \in needed(m.unit, cli)' :
             /\ c \in needed(unit, cli)
             /\ c = target => c \in {Core} \cup Workers \cup deps'
    BY <1>1, <1>7, <2>1, <2>2
  <2> QED BY <1>1, <1>2, <1>8, <2>2, <2>3 DEF ClearInv
<1>9. CASE caller = "upgrade all"
  <2>1. /\ target = All
        /\ \A c \in needed(m.unit, cli) :
             \/ c \in RelaySkips \cup Stranded(m.unit)
             \/ c \in {Core} \cup Workers \cup deps
             \/ c \in Bundled /\ BundledWith[c] \in deps
    BY <1>1, <1>9 DEF ClearInv
  <2>2. ASSUME NEW c \in needed(m.unit, cli)'
        PROVE  \/ c \in RelaySkips \cup Stranded(m.unit)'
               \/ c \in {Core} \cup Workers \cup deps'
               \/ c \in Bundled /\ BundledWith[c] \in deps'
    <3>0. c \in needed(m.unit, cli) /\ c \in Components
      BY <1>7 DEF needed
    <3>1. m.unit[c].mode = Managed
      BY <3>0, NeededManaged
    <3>2. CASE "skip" \in Choices(d) /\ m' = m
      <4>1. ~HasTree(d)
        BY <1>3, <3>2 DEF Choices
      <4>2. c # d
        BY <1>1, <1>3, <3>1, <4>1 DEF FilesInv
      <4>3. c \in Bundled => BundledWith[c] # d
        BY <1>1, <3>1, <4>1 DEF BundleInv
      <4>4. Stranded(m.unit)' = Stranded(m.unit)
        BY <3>2 DEF Stranded
      <4> QED BY <1>1, <2>1, <3>0, <4>2, <4>3, <4>4
    <3>3. CASE m' = upsert_unit(m, {d}, External)
      <4>1. c # d
        BY <1>1, <3>3, UpsertNeeds
      <4>2. \A x \in Components :
              m'.unit[x] = IF x \in {d} THEN [mode |-> External, stamp |-> cli] ELSE m.unit[x]
        BY <1>4, <3>3, UpsertType
      <4>3. \A e \in Bundled : BundledWith[e] \in Components
        BY BundleAssumption, Constants
      <4>4. Stranded(m.unit) \subseteq Stranded(m.unit)'
        BY <4>2, <4>3 DEF Stranded
      <4>5. c \in Bundled /\ BundledWith[c] = d => c \in Stranded(m.unit)'
        BY <1>3, <4>2 DEF Stranded
      <4> QED BY <1>1, <2>1, <3>0, <4>1, <4>4, <4>5
    <3>4. CASE m' = upsert_unit(m, {d} \cup Partners(d), Managed)
      <4>1. c # d /\ c \notin Partners(d)
        BY <1>1, <3>4, UpsertNeeds
      <4>2. c \in Bundled => BundledWith[c] # d
        BY <4>1 DEF Partners
      <4>3. c \in Stranded(m.unit) => c \in Stranded(m.unit)'
        <5>1. SUFFICES ASSUME c \in Bundled, m.unit[BundledWith[c]].mode = External
                       PROVE  m'.unit[BundledWith[c]].mode = External
          BY DEF Stranded
        <5>2. BundledWith[c] \in Components /\ BundledWith[c] \notin Bundled
          BY <5>1, BundleAssumption, Constants
        <5>3. BundledWith[c] \notin {d} \cup Partners(d)
          BY <4>2, <5>1, <5>2 DEF Partners
        <5>4. m'.unit[BundledWith[c]] = m.unit[BundledWith[c]]
          BY <1>4, <3>4, <5>2, <5>3, UpsertType
        <5> QED BY <5>1, <5>4
      <4> QED BY <1>1, <2>1, <3>0, <4>1, <4>2, <4>3
    <3>5. ~WireOnly
      BY <2>1, TargetAssumption DEF WireOnly, Components
    <3> QED BY <1>6, <3>2, <3>3, <3>4, <3>5
  <2> QED BY <1>1, <1>9, <2>1, <2>2 DEF ClearInv
<1>10. CASE caller = "operator"
  BY <1>1, <1>10 DEF ClearInv
<1> QED BY <1>8, <1>9, <1>10 DEF TypeOK

LEMMA WriteCoreClear ==
  ASSUME TypeOK, ClearInv, WriteCore
  PROVE  ClearInv'
<1> DEFINE cs == (IF TargetsCore THEN {Core} ELSE {})
                   \cup {w \in Workers : target \in {All, w}}
<1>1. /\ pc = "deps" /\ deps = {} /\ pc' = "save" /\ m' = upsert_unit(m, cs, Managed)
      /\ UNCHANGED <<cli, unit, target, caller, todo, failed>>
  BY DEF WriteCore, loop
<1>2. needed(unit, cli)' = needed(unit, cli)
  BY <1>1, UnitsNeeds
<1>3. \A c \in needed(m.unit, cli)' : c \in needed(m.unit, cli) /\ c \notin cs
  <2> HIDE DEF cs
  <2> QED BY <1>1, UpsertNeeds
<1>4. CASE caller = "upgrade"
  <2>1. /\ needed(unit, cli) \subseteq todo \cup failed \cup {target}
        /\ \A c \in needed(m.unit, cli) :
             /\ c \in needed(unit, cli)
             /\ c = target => c \in {Core} \cup Workers
    BY <1>1, <1>4 DEF ClearInv
  <2>2. target \in {Core} \cup Workers => target \in cs
    BY DEF TargetsCore
  <2>3. \A c \in needed(m.unit, cli)' : c \in needed(unit, cli) /\ c # target
    BY <1>3, <2>1, <2>2
  <2> QED BY <1>1, <1>2, <1>4, <2>1, <2>3 DEF ClearInv
<1>5. CASE caller = "upgrade all"
  <2>1. /\ target = All
        /\ \A c \in needed(m.unit, cli) :
             c \in RelaySkips \cup Stranded(m.unit) \cup {Core} \cup Workers
    BY <1>1, <1>5 DEF ClearInv
  <2>2. {Core} \cup Workers \subseteq cs /\ cs \cap Providers = {}
    BY <2>1, ComponentAssumption DEF TargetsCore
  <2>3. Stranded(m.unit) \subseteq Stranded(m.unit)'
    <3>1. SUFFICES ASSUME NEW e \in Bundled, m.unit[BundledWith[e]].mode = External
                   PROVE  m'.unit[BundledWith[e]].mode = External
      BY DEF Stranded
    <3>2. BundledWith[e] \in Providers /\ BundledWith[e] \in Components
      BY BundleAssumption, Constants
    <3>3. m \in [pin : Stamps, unit : [Components -> UnitSet]]
      BY DEF TypeOK
    <3> HIDE DEF cs
    <3>4. m'.unit[BundledWith[e]] = m.unit[BundledWith[e]]
      BY <1>1, <2>2, <3>2, <3>3, UpsertType
    <3> QED BY <3>1, <3>4
  <2>4. \A c \in needed(m.unit, cli)' : c \in RelaySkips \cup Stranded(m.unit)'
    <3> HIDE DEF cs
    <3> QED BY <1>3, <2>1, <2>2, <2>3
  <2> QED BY <1>1, <1>5, <2>1, <2>4 DEF ClearInv
<1>6. CASE caller = "operator"
  BY <1>1, <1>6 DEF ClearInv
<1> QED BY <1>4, <1>5, <1>6 DEF TypeOK

LEMMA ClearStep ==
  ASSUME TypeOK, FilesInv, BundleInv, ClearInv, [Next]_vars,
         \A e \in Bundled : BundledWith[e] \notin RelaySkips
  PROVE  ClearInv'
<1>1. ASSUME pc' \in {"idle", "play"} PROVE ClearInv'
  BY <1>1 DEF ClearInv
\* A replay given up on is reported; every other one that raises ends upgrade.
<1>2. ASSUME Raise, UNCHANGED <<cli, unit>> PROVE ClearInv'
  <2>1. CASE pc = "deps" /\ caller = "upgrade"
    <3>1. pc' = "units" /\ failed' = failed \cup {target} /\ UNCHANGED <<caller, todo>>
      BY <1>2, <2>1 DEF Raise
    <3>2. needed(unit, cli)' = needed(unit, cli)
      BY <1>2, UnitsNeeds
    <3>3. needed(unit, cli) \subseteq todo \cup failed \cup {target}
      BY <2>1 DEF ClearInv
    <3> QED BY <2>1, <3>1, <3>2, <3>3 DEF ClearInv
  <2>2. CASE ~(pc = "deps" /\ caller = "upgrade")
    BY <1>1, <1>2, <2>2 DEF Raise, Idle
  <2> QED BY <2>1, <2>2
<1>3. CASE UNCHANGED vars
  <2>1. UNCHANGED <<cli, unit, m, pc, target, deps, caller, todo, failed>>
    BY <1>3 DEF vars, disk, run, loop
  <2>2. /\ needed(unit, cli)' = needed(unit, cli) /\ needed(m.unit, cli)' = needed(m.unit, cli)
        /\ Stranded(unit)' = Stranded(unit) /\ Stranded(m.unit)' = Stranded(m.unit)
    BY <2>1, UnitsNeeds DEF Stranded
  <2> QED BY <2>1, <2>2 DEF ClearInv
<1>4. CASE \E t \in Targets, a \in {"modify", "override"}, r \in BOOLEAN : bootstrap(t, a, r)
  <2>1. pc' = "deps" /\ caller' = "operator"
    BY <1>4 DEF bootstrap, Begin
  <2> QED BY <2>1 DEF ClearInv
<1>5. ASSUME NEW r \in BOOLEAN, ReplayAll(r) PROVE ClearInv'
  <2>1. /\ pc' = "deps" /\ caller' = "upgrade all" /\ UNCHANGED <<cli, unit>>
        /\ target' = All /\ todo' = {} /\ deps' = LoopDeps(All, r) /\ m'.unit = unit
    BY <1>5 DEF ReplayAll, Begin, _ensure_manifest, disk, ClearInv
  <2>2. ASSUME NEW c \in needed(m.unit, cli)'
        PROVE  \/ c \in RelaySkips \cup {Core} \cup Workers \cup deps'
               \/ c \in Bundled /\ BundledWith[c] \in deps'
    <3>1. c \in {Core} \cup Providers \cup Workers
      BY <2>1, UnitsNeeds, NeededManaged
    <3>2. CASE c \in Bundled
      <4>1. BundledWith[c] \in Providers \ Bundled /\ BundledWith[c] \notin RelaySkips
        BY <3>2, BundleAssumption
      <4> QED BY <2>1, <3>2, <4>1 DEF LoopDeps
    <3>3. CASE c \in Providers \ Bundled
      BY <2>1, <3>3 DEF LoopDeps
    <3> QED BY <3>1, <3>2, <3>3
  <2> QED BY <2>1, <2>2 DEF ClearInv
<1>6. ASSUME NEW c \in Replayable, ReplayUnit(c) PROVE ClearInv'
  <2>1. /\ pc = "units" /\ c \in todo /\ todo' = todo \ {c} /\ pc' = "deps"
        /\ target' = c /\ deps' = LoopDeps(c, FALSE) /\ m'.unit = unit
        /\ UNCHANGED <<cli, unit, caller, failed>>
    BY <1>6 DEF ReplayUnit, Begin, _ensure_manifest, disk
  <2>2. needed(m.unit, cli)' = needed(unit, cli) /\ needed(unit, cli)' = needed(unit, cli)
    BY <2>1, UnitsNeeds
  <2>3. c \in {Core} \cup Workers \cup deps'
    BY <2>1 DEF LoopDeps, Replayable
  <2>4. CASE caller = "upgrade"
    BY <2>1, <2>2, <2>3, <2>4 DEF ClearInv
  <2>5. CASE caller = "upgrade all"
    BY <2>1, <2>5 DEF ClearInv
  <2> QED BY <2>1, <2>4, <2>5 DEF ClearInv
<1>7. CASE \E d \in Providers : _handle_dependency(d)
  BY <1>7, HandledClear
<1>8. CASE WriteCore
  BY <1>8, WriteCoreClear
<1>9. CASE save_manifest
  <2>1. /\ pc = "save" /\ unit' = m.unit /\ UNCHANGED <<cli, caller, todo, failed>>
        /\ pc' = IF caller = "operator" THEN "idle" ELSE "units"
    BY <1>9 DEF save_manifest, loop
  <2>2. needed(unit, cli)' = needed(m.unit, cli) /\ Stranded(unit)' = Stranded(m.unit)
    BY <2>1, UnitsNeeds DEF Stranded
  <2>3. CASE caller = "upgrade"
    BY <2>1, <2>2, <2>3 DEF ClearInv
  <2>4. CASE caller = "upgrade all"
    BY <2>1, <2>2, <2>4 DEF ClearInv
  <2>5. CASE caller = "operator"
    BY <1>1, <2>1, <2>5
  <2> QED BY <2>3, <2>4, <2>5 DEF TypeOK
<1>10. CASE Realign
  BY <1>10 DEF Realign, loop, ClearInv
<1>11. CASE NothingPending
  <2>1. /\ pc = "needs" /\ pc' = "units" /\ needed(unit, cli) = {}
        /\ UNCHANGED <<cli, unit, caller, todo, failed>>
    BY <1>11 DEF NothingPending, disk, loop
  <2>2. needed(unit, cli)' = {}
    BY <2>1, UnitsNeeds
  <2> QED BY <2>1, <2>2 DEF ClearInv
<1>12. CASE NoCoreTree
  <2>1. /\ pc = "needs" /\ pc' = "units" /\ todo' = needed(unit, cli)
        /\ UNCHANGED <<cli, unit, caller, failed>>
    BY <1>12 DEF NoCoreTree, disk
  <2>2. needed(unit, cli)' = needed(unit, cli)
    BY <2>1, UnitsNeeds
  <2> QED BY <2>1, <2>2 DEF ClearInv
<1>13. CASE upgrade
  BY <1>13 DEF upgrade, ClearInv
<1>14. CASE UpgradeDone \/ DeployDone \/ Crash
  BY <1>1, <1>14 DEF UpgradeDone, DeployDone, Crash, Idle
<1>15. CASE \/ \E c \in Components : play(c)
            \/ \E cs \in SUBSET Components : deploy(cs)
            \/ \E v \in Versions : InstallCli(v)
  BY <1>1, <1>15 DEF play, deploy, InstallCli
<1>16. CASE \E d \in Providers : CrashBundle(d)
  BY <1>1, <1>16 DEF CrashBundle, Idle
<1>17. CASE Cancel \/ \E d \in Providers : MissingPartner(d)
  BY <1>2, <1>17 DEF Cancel, MissingPartner, disk
<1> QED
  BY <1>3, <1>4, <1>5, <1>6, <1>7, <1>8, <1>9, <1>10, <1>11, <1>12, <1>13, <1>14, <1>15,
     <1>16, <1>17
  DEF Next, Step

LEMMA InitClear == Init => BundleInv /\ ClearInv
<1> SUFFICES ASSUME Init PROVE BundleInv /\ ClearInv
  OBVIOUS
<1>1. PICK old \in {{}} \cup IF Legacy = {} THEN {} ELSE {{Core} \cup Legacy} :
        unit = [c \in Components |-> IF c \in old
                  THEN [mode |-> Managed, stamp |-> 1] ELSE Absent]
  BY DEF Init
<1>2. ASSUME NEW e \in Bundled PROVE unit[e].mode # Managed
  <2>1. e \in Components /\ e \notin old
    BY <1>1, BundleAssumption, ComponentAssumption DEF Components
  <2> QED BY <1>1, <2>1 DEF Absent
<1> QED BY <1>2 DEF Init, BundleInv, ClearInv

\* Whatever is cancelled, killed or skipped on the way, an upgrade that comes to
\* its end has cleared every flag but those it reported and those no dependency
\* step reaches.  A partner that relay mode skips would take its bundled
\* provider with it, so none may be among those.
THEOREM UpgradeClears ==
  ASSUME \A e \in Bundled : BundledWith[e] \notin RelaySkips
  PROVE  Spec => []UpgradeClearsNeeds
<1>1. TypeOK /\ FilesInv /\ BundleInv /\ ClearInv /\ [Next]_vars => ClearInv'
  BY ClearStep
<1>2. ClearInv => UpgradeClearsNeeds
  BY DEF ClearInv, UpgradeClearsNeeds, UpgradeEnding, Stranded
<1> QED BY <1>1, <1>2, InitType, InitFiles, InitClear, NextType, FilesStep, BundleStep,
           PTL DEF Spec

-----------------------------------------------------------------------------
(* What an upgrade leaves to offer. *)

\* The managed units that are not of the installed release.
Behind(u) == {c \in Components : u[c].mode = Managed /\ u[c].stamp # cli}

\* Those no run of the whole app reaches.
Left(u) == RelaySkips \cup Legacy \cup Stranded(u)

\* A full run of upgrade brings the others up to the installed release.
QuietInv ==
  /\ pc = "units" /\ caller = "upgrade all" => Behind(unit) \subseteq Left(unit)
  /\ pc \in {"deps", "save"} /\ caller = "upgrade all" =>
       /\ target = All
       /\ \A c \in Behind(m.unit) :
            \/ c \in Left(m.unit)
            \/ pc = "deps" /\ c \in {Core} \cup Workers \cup deps
            \/ pc = "deps" /\ c \in Bundled /\ BundledWith[c] \in deps

\* An upsert brings the units it stamps up to the release, and takes none behind.
LEMMA UpsertBehind ==
  ASSUME TypeOK, NEW cs, NEW mode \in {None, Managed, External},
         m' = upsert_unit(m, cs, mode), cli' = cli, NEW c \in Behind(m.unit)'
  PROVE  c \in Behind(m.unit) /\ c \notin cs
<1>1. c \in Components /\ m \in [pin : Stamps, unit : [Components -> UnitSet]]
  BY DEF Behind, TypeOK
<1>2. m'.unit[c] = IF c \in cs THEN [mode |-> mode, stamp |-> cli] ELSE m.unit[c]
  BY <1>1, UpsertType
<1> QED BY <1>1, <1>2 DEF Behind

LEMMA UnitsBehind ==
  ASSUME cli' = cli
  PROVE  /\ m'.unit = m.unit => Behind(m.unit)' = Behind(m.unit)
         /\ unit' = unit => Behind(unit)' = Behind(unit)
         /\ m'.unit = unit => Behind(m.unit)' = Behind(unit)
         /\ unit' = m.unit => Behind(unit)' = Behind(m.unit)
BY DEF Behind

\* A stranded provider stays so until its partner is handled.
LEMMA StillStranded ==
  ASSUME TypeOK, NEW cs, m' = upsert_unit(m, cs, Managed),
         NEW c \in Stranded(m.unit), BundledWith[c] \notin cs
  PROVE  c \in Stranded(m.unit)'
<1>1. c \in Bundled /\ m.unit[BundledWith[c]].mode = External
  BY DEF Stranded
<1>2. BundledWith[c] \in Components
  BY <1>1, BundleAssumption, Constants
<1>3. m \in [pin : Stamps, unit : [Components -> UnitSet]]
  BY DEF TypeOK
<1>4. m'.unit[BundledWith[c]] = m.unit[BundledWith[c]]
  BY <1>2, <1>3, UpsertType
<1> QED BY <1>1, <1>4 DEF Stranded

LEMMA HandledQuiet ==
  ASSUME TypeOK, FilesInv, BundleInv, QuietInv, NEW d \in Providers, _handle_dependency(d)
  PROVE  QuietInv'
<1>1. /\ pc = "deps" /\ d \in deps /\ deps' = deps \ {d}
      /\ UNCHANGED <<cli, pc, unit, target, caller, action>>
  BY DEF _handle_dependency, loop
<1>2. CASE caller # "upgrade all"
  BY <1>1, <1>2 DEF QuietInv
<1>3. CASE caller = "upgrade all"
  <2>1. /\ target = All
        /\ \A c \in Behind(m.unit) :
             \/ c \in Left(m.unit)
             \/ c \in {Core} \cup Workers \cup deps
             \/ c \in Bundled /\ BundledWith[c] \in deps
    BY <1>1, <1>3 DEF QuietInv
  <2>2. d \in Components /\ d \notin Legacy /\ Files(d) = d
    BY Constants, ComponentAssumption, FilesPlace
  <2>3. ~WireOnly
    BY <2>1, TargetAssumption DEF WireOnly, Components
  <2>4. \/ "skip" \in Choices(d) /\ m' = m
        \/ External \in Choices(d) /\ m' = upsert_unit(m, {d}, External)
        \/ m' = upsert_unit(m, {d} \cup Partners(d), Managed)
    BY <2>3 DEF _handle_dependency, Register
  <2>5. m \in [pin : Stamps, unit : [Components -> UnitSet]]
    BY DEF TypeOK
  <2>6. ASSUME NEW c \in Behind(m.unit)'
        PROVE  \/ c \in Left(m.unit)'
               \/ c \in {Core} \cup Workers \cup deps'
               \/ c \in Bundled /\ BundledWith[c] \in deps'
    <3>1. CASE "skip" \in Choices(d) /\ m' = m
      <4>1. ~HasTree(d)
        BY <2>2, <3>1 DEF Choices
      <4>2. c \in Behind(m.unit) /\ m.unit[c].mode = Managed
        BY <1>1, <3>1, UnitsBehind DEF Behind
      <4>3. c # d
        BY <1>1, <2>2, <4>1, <4>2 DEF FilesInv
      <4>4. c \in Bundled => BundledWith[c] # d
        BY <1>1, <4>1, <4>2 DEF BundleInv
      <4>5. Left(m.unit)' = Left(m.unit)
        BY <3>1 DEF Left, Stranded
      <4> QED BY <1>1, <2>1, <4>2, <4>3, <4>4, <4>5
    <3>2. CASE m' = upsert_unit(m, {d}, External)
      <4>1. c \in Behind(m.unit) /\ c # d
        BY <1>1, <3>2, UpsertBehind
      <4>2. \A x \in Components :
              m'.unit[x] = IF x \in {d} THEN [mode |-> External, stamp |-> cli] ELSE m.unit[x]
        BY <2>5, <3>2, UpsertType
      <4>3. \A e \in Bundled : BundledWith[e] \in Components
        BY BundleAssumption, Constants
      <4>4. Left(m.unit) \subseteq Left(m.unit)'
        BY <4>2, <4>3 DEF Left, Stranded
      <4>5. c \in Bundled /\ BundledWith[c] = d => c \in Left(m.unit)'
        BY <2>2, <4>2 DEF Left, Stranded
      <4> QED BY <1>1, <2>1, <4>1, <4>4, <4>5
    <3>3. CASE m' = upsert_unit(m, {d} \cup Partners(d), Managed)
      <4>1. c \in Behind(m.unit) /\ c # d /\ c \notin Partners(d)
        BY <1>1, <3>3, UpsertBehind
      <4>2. c \in Bundled => BundledWith[c] # d /\ BundledWith[c] \notin Partners(d)
        BY <4>1, BundleAssumption DEF Partners
      <4>3. c \in Stranded(m.unit) => c \in Stranded(m.unit)'
        BY <3>3, <4>2, StillStranded DEF Stranded
      <4>4. c \in Left(m.unit) => c \in Left(m.unit)'
        BY <4>3 DEF Left
      <4> QED BY <1>1, <2>1, <4>1, <4>2, <4>4
    <3> QED BY <2>4, <3>1, <3>2, <3>3
  <2> QED BY <1>1, <1>3, <2>1, <2>6 DEF QuietInv
<1> QED BY <1>2, <1>3

LEMMA WriteCoreQuiet ==
  ASSUME TypeOK, QuietInv, WriteCore
  PROVE  QuietInv'
<1>1. PICK cs : cs = (IF TargetsCore THEN {Core} ELSE {})
                       \cup {w \in Workers : target \in {All, w}}
  OBVIOUS
<1>2. /\ pc = "deps" /\ deps = {} /\ pc' = "save" /\ m' = upsert_unit(m, cs, Managed)
      /\ UNCHANGED <<cli, unit, target, caller>>
  BY <1>1 DEF WriteCore, loop
<1>3. CASE caller # "upgrade all"
  BY <1>2, <1>3 DEF QuietInv
<1>4. CASE caller = "upgrade all"
  <2>1. /\ target = All
        /\ \A c \in Behind(m.unit) : c \in Left(m.unit) \cup {Core} \cup Workers
    BY <1>2, <1>4 DEF QuietInv
  <2>2. cs = {Core} \cup Workers /\ cs \cap Providers = {}
    BY <1>1, <2>1, ComponentAssumption DEF TargetsCore
  <2>3. \A e \in Bundled : BundledWith[e] \notin cs
    BY <2>2, BundleAssumption
  <2>4. ASSUME NEW c \in Behind(m.unit)' PROVE c \in Left(m.unit)'
    <3>1. c \in Behind(m.unit) /\ c \notin cs
      BY <1>2, UpsertBehind
    <3>2. c \in Left(m.unit)
      BY <2>1, <2>2, <3>1
    <3>3. c \in Stranded(m.unit) => c \in Stranded(m.unit)'
      BY <1>2, <2>3, StillStranded DEF Stranded
    <3> QED BY <3>2, <3>3 DEF Left
  <2> QED BY <1>2, <1>4, <2>1, <2>4 DEF QuietInv
<1> QED BY <1>3, <1>4

LEMMA ReplayAllQuiet ==
  ASSUME TypeOK, NEW r \in BOOLEAN, ReplayAll(r),
         \A e \in Bundled : BundledWith[e] \notin RelaySkips
  PROVE  QuietInv'
<1>1. /\ pc' = "deps" /\ UNCHANGED <<cli, unit>>
      /\ target' = All /\ deps' = LoopDeps(All, r) /\ m'.unit = unit
  BY DEF ReplayAll, Begin, _ensure_manifest, disk
<1>2. ASSUME NEW c \in Behind(m.unit)'
      PROVE  \/ c \in Left(m.unit)'
             \/ c \in {Core} \cup Workers \cup deps'
             \/ c \in Bundled /\ BundledWith[c] \in deps'
  <2>1. c \in {Core} \cup Workers \cup Providers \cup Legacy
    BY DEF Behind, Components
  <2>2. CASE c \in Bundled
    <3>1. BundledWith[c] \in Providers \ Bundled /\ BundledWith[c] \notin RelaySkips
      BY <2>2, BundleAssumption
    <3> QED BY <1>1, <2>2, <3>1 DEF LoopDeps
  <2>3. CASE c \in Providers \ Bundled
    BY <1>1, <2>3 DEF LoopDeps, Left
  <2>4. CASE c \in Legacy
    BY <2>4 DEF Left
  <2> QED BY <2>1, <2>2, <2>3, <2>4
<1> QED BY <1>1, <1>2 DEF QuietInv

LEMMA QuietStep ==
  ASSUME TypeOK, FilesInv, BundleInv, ClearInv, QuietInv, [Next]_vars,
         \A e \in Bundled : BundledWith[e] \notin RelaySkips
  PROVE  QuietInv'
<1>1. ASSUME pc' \notin {"units", "deps", "save"} \/ caller' # "upgrade all" PROVE QuietInv'
  BY <1>1 DEF QuietInv
<1>2. ASSUME Raise PROVE QuietInv'
  <2>1. pc' = "idle" \/ (caller = "upgrade" /\ caller' = caller)
    BY <1>2 DEF Raise, Idle
  <2> QED BY <1>1, <2>1
<1>3. CASE UNCHANGED vars
  <2>1. UNCHANGED <<cli, unit, m, pc, target, deps, caller>>
    BY <1>3 DEF vars, disk, run, loop
  <2>2. /\ Behind(unit)' = Behind(unit) /\ Behind(m.unit)' = Behind(m.unit)
        /\ Left(unit)' = Left(unit) /\ Left(m.unit)' = Left(m.unit)
    BY <2>1, UnitsBehind DEF Left, Stranded
  <2> QED BY <2>1, <2>2 DEF QuietInv
<1>4. CASE \E t \in Targets, a \in {"modify", "override"}, r \in BOOLEAN : bootstrap(t, a, r)
  BY <1>1, <1>4 DEF bootstrap
<1>5. CASE \E r \in BOOLEAN : ReplayAll(r)
  BY <1>5, ReplayAllQuiet
\* One unit at a time only where there is no tree of the core.
<1>6. CASE \E c \in Replayable : ReplayUnit(c)
  <2>1. caller' = caller /\ pc = "units" /\ todo # {}
    BY <1>6 DEF ReplayUnit
  <2>2. caller # "upgrade all"
    BY <2>1 DEF ClearInv
  <2> QED BY <1>1, <2>1, <2>2
<1>7. CASE \E d \in Providers : _handle_dependency(d)
  BY <1>7, HandledQuiet
<1>8. CASE WriteCore
  BY <1>8, WriteCoreQuiet
<1>9. CASE save_manifest
  <2>1. /\ pc = "save" /\ unit' = m.unit /\ UNCHANGED <<cli, caller>>
        /\ pc' = IF caller = "operator" THEN "idle" ELSE "units"
    BY <1>9 DEF save_manifest, loop
  <2>2. Behind(unit)' = Behind(m.unit) /\ Left(unit)' = Left(m.unit)
    BY <2>1, UnitsBehind DEF Left, Stranded
  <2>3. CASE caller = "upgrade all"
    <3>1. Behind(m.unit) \subseteq Left(m.unit)
      BY <2>1, <2>3 DEF QuietInv
    <3> QED BY <2>1, <2>2, <2>3, <3>1 DEF QuietInv
  <2> QED BY <1>1, <2>1, <2>3
<1>10. CASE Realign \/ NothingPending \/ NoCoreTree
  <2>1. caller = "upgrade" /\ caller' = caller
    BY <1>10 DEF Realign, NothingPending, NoCoreTree, loop, ClearInv
  <2> QED BY <1>1, <2>1
<1>11. CASE upgrade
  BY <1>1, <1>11 DEF upgrade
<1>12. CASE UpgradeDone \/ Crash \/ \E d \in Providers : CrashBundle(d)
  BY <1>1, <1>12 DEF UpgradeDone, Crash, CrashBundle, Idle
<1>13. CASE \/ DeployDone
            \/ \E c \in Components : play(c)
            \/ \E cs \in SUBSET Components : deploy(cs)
            \/ \E v \in Versions : InstallCli(v)
  BY <1>1, <1>13 DEF DeployDone, play, deploy, InstallCli
<1>14. CASE Cancel \/ \E d \in Providers : MissingPartner(d)
  BY <1>2, <1>14 DEF Cancel, MissingPartner
<1> QED
  BY <1>3, <1>4, <1>5, <1>6, <1>7, <1>8, <1>9, <1>10, <1>11, <1>12, <1>13, <1>14
  DEF Next, Step

\* A component is offered for a unit that is behind.
LEMMA OfferedForBehind ==
  ASSUME TypeOK, NEW c \in new_component_offers(unit, cli)
  PROVE  /\ c \in Providers \ Bundled /\ unit[c].mode = None
         /\ \E o \in Behind(unit) : TRUE
<1>1. /\ c \in Providers \ Bundled /\ unit[c].mode = None
      /\ \E f \in Known(cli) : \E o \in Components :
           unit[o].mode = Managed /\ unit[o].stamp < f.version
  BY DEF new_component_offers
<1>2. PICK f \in Known(cli) : \E o \in Components :
        unit[o].mode = Managed /\ unit[o].stamp < f.version
  BY <1>1
<1>3. PICK o \in Components : unit[o].mode = Managed /\ unit[o].stamp < f.version
  BY <1>2
<1>4. f.version <= cli /\ f \in FlagSet
  BY FlagAssumption DEF Known
<1>5. f.version \in Nat /\ cli \in Nat /\ unit[o].stamp \in Nat
  BY <1>4, Numbers DEF FlagSet, Versions
<1>6. unit[o].stamp # cli
  BY <1>3, <1>4, <1>5
<1> QED BY <1>1, <1>3, <1>6 DEF Behind

\* In an app without legacy units, relay mode or a provider beside the pairs of a bundle
\* (meet, drive and the others, not messages), what upgrade offered in a run of the whole
\* app it does not offer again: whether the operator took, wired or declined it, every
\* unit the run could not stamp leaves nothing to offer (new_component_offers,
\* core/upgrades.py).
THEOREM OffersEnd ==
  ASSUME Legacy = {}, RelaySkips = {},
         \A e \in Bundled : \A d \in Providers \ Bundled : d = BundledWith[e]
  PROVE  Spec => []OfferStaysQuiet
<1>1. TypeOK /\ FilesInv /\ BundleInv /\ ClearInv /\ [Next]_vars => ClearInv'
  BY ClearStep
<1>2. TypeOK /\ FilesInv /\ BundleInv /\ ClearInv /\ QuietInv /\ [Next]_vars => QuietInv'
  BY QuietStep
<1>3. TypeOK /\ QuietInv => OfferStaysQuiet
  <2> SUFFICES ASSUME TypeOK, QuietInv, UpgradeEnding, caller = "upgrade all",
                      NEW c \in new_component_offers(unit, cli)
               PROVE  FALSE
    BY DEF OfferStaysQuiet
  <2>1. Behind(unit) \subseteq Stranded(unit)
    BY DEF QuietInv, UpgradeEnding, Left
  <2>2. c \in Providers \ Bundled /\ unit[c].mode = None /\ \E o \in Behind(unit) : TRUE
    BY OfferedForBehind
  <2>3. PICK o \in Bundled : unit[BundledWith[o]].mode = External
    BY <2>1, <2>2 DEF Stranded
  <2>4. c = BundledWith[o]
    BY <2>2
  <2> QED BY <2>2, <2>3, <2>4 DEF None, External
<1>4. Init => QuietInv
  BY DEF Init, QuietInv
<1> QED BY <1>1, <1>2, <1>3, <1>4, InitType, InitFiles, InitClear, NextType, FilesStep,
           BundleStep, PTL DEF Spec
=============================================================================
