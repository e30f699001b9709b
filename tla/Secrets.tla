------------------------------ MODULE Secrets ------------------------------
(***************************************************************************)
(* The secrets of one (app, env) through any sequence of bootstrap runs,   *)
(* with the ansible-vault backend.                                         *)
(*                                                                         *)
(* A component is a vars.yml, whose env blob holds {{ vault_* }}           *)
(* references, and a vault.yml, which holds the values.  A secret that two *)
(* services share is in both vaults.  Who decides its value, and when the  *)
(* other side gets it, depends on its kind:                                *)
(*                                                                         *)
(*   private    the core's alone                    DJANGO_SECRET_KEY      *)
(*   mirrored   minted by the core, copied to the   MDA_API_SECRET,        *)
(*              provider when that is deployed      Y_PROVIDER_API_KEY     *)
(*   shared     minted by the provider's step,      LIVEKIT_API_KEY        *)
(*              raw in its vault                                           *)
(*   issued     minted by the provider's step, with PROXY_USERS,           *)
(*              a reference in its vars.yml         vault_mpa_auth_bearer  *)
(*                                                                         *)
(* A value is the number of times its secret was minted or typed.  A run   *)
(* can be cancelled at every prompt and killed at every step.              *)
(***************************************************************************)
EXTENDS Naturals

CONSTANTS
  Core,         \* key of the core component
  Providers,    \* the targets of dependencies[].on that share a secret
  Secrets,
  Kind,         \* the kind of each secret
  Holder,       \* the component that holds it beside the core
  Adopting,     \* mirrored secrets the core takes over from a reused provider
  Newer,        \* private secrets that only a later release asks for
  MaxMints,     \* bound: how often one secret can be minted or typed
  TornWrites    \* can a run die between a vars.yml and its vault.yml?

Components == {Core} \cup Providers
Of(kind)   == {s \in Secrets : Kind[s] = kind}
Own(p)     == {s \in Secrets : Holder[s] = p}

ASSUME ComponentAssumption == Core \notin Providers
ASSUME KindAssumption ==
  /\ Kind \in [Secrets -> {"private", "mirrored", "shared", "issued"}]
  /\ Holder \in [Secrets -> Components]
  /\ \A s \in Secrets : Holder[s] = Core <=> Kind[s] = "private"
ASSUME AdoptingAssumption == Adopting \subseteq Of("mirrored")
ASSUME NewerAssumption    == Newer \subseteq Of("private")
ASSUME MintAssumption     == MaxMints \in Nat
ASSUME TornAssumption     == TornWrites \in BOOLEAN

Absent   == 0
Theirs   == MaxMints + 1      \* what an external service was given by its owner
Minted   == 1 .. MaxMints
Values   == 0 .. MaxMints + 1
NoValues == [s \in Secrets |-> Absent]

All     == "all components"   \* bootstrap without -c
Targets == {All} \cup Components
None == "none"   Managed == "managed"   External == "external"

VARIABLES
  asks,     \* the secrets the installed release knows
  unit,     \* mode of each registered component
  has,      \* components with a vars.yml
  ref,      \* secrets the core's vars.yml refers to
  vault,    \* the value of each secret in each component's vault.yml
  pc, target, action,
  deps,     \* dependencies the loop has still to handle
  did,      \* what the loop did with each of them
  cur,      \* the provider whose files are being written
  ans,      \* secrets decided in the answers of the run
  buf,      \* backend._buf, the values the run has to store
  mints     \* how often each secret was minted or typed

disk == <<asks, unit, has, ref, vault>>
vars == <<disk, pc, target, action, deps, did, cur, ans, buf, mints>>

-----------------------------------------------------------------------------
(* core/secretbackend.py, core/writer.py *)

Or(v, w) == IF v # Absent THEN v ELSE w

\* _ask_secret: a decided answer is neither asked nor minted again.
Undecided(S) == S \ ans

\* Put the value val[s] of each s \in S into the buffers of the components cs.
Store(cs, S, val) ==
  buf' = [c \in Components |-> [s \in Secrets |->
            IF c \in cs /\ s \in S THEN val[s] ELSE buf[c][s]]]

\* The secrets of S get a new value, each at most MaxMints times.
CanMint(S) == \A s \in S : mints[s] < MaxMints
Mint(S)    == mints' = [s \in Secrets |-> IF s \in S THEN mints[s] + 1 ELSE mints[s]]

\* Mutant: the buffers of every component end up in one vault.
WriteBuffers(c, replace) == vault' = [vault EXCEPT ![c] = buf]

write_vault(c, replace) ==
  vault' = [vault EXCEPT ![c] = IF replace /\ buf[c] # NoValues THEN buf[c]
              ELSE [s \in Secrets |-> Or(buf[c][s], vault[c][s])]]

-----------------------------------------------------------------------------
(* cmd/bootstrap.py *)

WritesCore == target \in {All, Core}
WireOnly   == target = Core

\* Mutant: an override replays the recovered answers.
SeedAlways(t, a) == IF t \in {All, Core} /\ Core \in has THEN ref ELSE {}

\* The secrets recover.recover finds decided in the committed core.
Seed(t, a) == IF t \in {All, Core} /\ Core \in has /\ a = "replay" THEN ref ELSE {}

bootstrap(t, a) ==
  /\ pc = "idle"
  /\ a = "override" => t = All /\ Core \in has
  /\ target' = t /\ action' = a
  /\ ans' = Seed(t, a)
  /\ deps' = IF t \in {All, Core} THEN Providers ELSE {t}
  /\ pc' = IF t \in {All, Core} THEN "core" ELSE "deps"
  /\ UNCHANGED <<disk, did, cur, buf, mints>>

_ask_core ==
  LET new == Undecided(asks \cap (Of("private") \cup Of("mirrored"))) IN
  /\ pc = "core" /\ CanMint(new)
  /\ Store({Core}, new, [s \in Secrets |-> mints[s] + 1])
  /\ Mint(new)
  /\ ans' = ans \cup new
  /\ pc' = "deps"
  /\ UNCHANGED <<disk, target, action, deps, did, cur>>

\* The menu of a dependency, or the branch that skips it.
Choices(p) ==
  IF target = p THEN {"deploy"}
  ELSE IF unit[p] = External
    THEN {"keep"} \cup IF WireOnly THEN {} ELSE {"redo", "deploy"}
  ELSE IF p \in has
    THEN IF action = "override" THEN {"deploy"}
         ELSE {"reuse"} \cup IF WireOnly THEN {} ELSE {"deploy"}
  ELSE {"skip", "declare"} \cup IF WireOnly THEN {} ELSE {"deploy"}

Chosen(p, c) ==
  /\ pc = "deps" /\ p \in deps /\ c \in Choices(p)
  /\ deps' = deps \ {p}
  /\ did' = [did EXCEPT ![p] = c]
  /\ UNCHANGED <<asks, unit, ref, vault, target, action>>

skip(p) ==
  /\ Chosen(p, "skip")
  /\ UNCHANGED <<has, pc, cur, ans, buf, mints>>

\* Secrets whose external value is typed: missing ones, all of them on a redo,
\* and those of yprovider unless its recorded wiring is kept.
Typed(p, c) ==
  {s \in Own(p) : \/ Kind[s] # "mirrored" /\ (c = "redo" \/ s \notin ans)
                  \/ s \in Adopting /\ ~(c = "keep" /\ action # "override")}

external(p, c) ==
  /\ Chosen(p, c)
  /\ Store({Core}, Typed(p, c), [s \in Secrets |-> Theirs])
  /\ ans' = ans \cup Typed(p, c)
  /\ UNCHANGED <<has, pc, cur, mints>>

\* Mutant: the core keeps its own value of an adopted secret.
TakenWithoutAdoption(p) == Own(p) \cap Undecided(Of("shared"))

\* Secrets the core takes from the vault of a reused provider.
Taken(p) == Own(p) \cap (Adopting \cup Undecided(Of("shared")))

reuse(p) ==
  LET typed == {s \in Taken(p) : vault[p][s] = Absent} IN
  /\ Chosen(p, "reuse") /\ CanMint(typed)
  /\ Store({Core}, Taken(p), [s \in Secrets |-> Or(vault[p][s], mints[s] + 1)])
  /\ Mint(typed)
  /\ ans' = ans \cup Taken(p)
  /\ UNCHANGED <<has, pc, cur>>

\* Mutant: a recovered provider secret is minted again.
CommittedIgnored(p, s) ==
  IF Kind[s] = "mirrored" THEN Or(buf[Core][s], vault[Core][s]) ELSE Absent

\* The value a replay of the provider finds decided: the core's for a mirrored
\* secret, this run's before the committed one, and else the provider's own.
Committed(p, s) ==
  IF Kind[s] = "mirrored" THEN Or(buf[Core][s], vault[Core][s]) ELSE vault[p][s]

\* Both sides buffer the decided value, the core not for what it owns.
StoreBoth(p, S, M, new) ==
  buf' = [c \in Components |-> [s \in Secrets |->
            IF s \in S /\ (c = p \/ (c = Core /\ s \notin M))
              THEN Or(Committed(p, s), new[s]) ELSE buf[c][s]]]

\* Replay the provider's questionnaire and write its vars.yml.  An issued
\* secret whose reference is committed but whose value is not stays missing.
deploy(p) ==
  LET lost == IF p \in has THEN {s \in Own(p) \cap Of("issued") : vault[p][s] = Absent}
                           ELSE {}
      S    == Own(p) \ lost
      new  == {s \in S : Committed(p, s) = Absent} IN
  /\ Chosen(p, "deploy") /\ CanMint(new)
  /\ StoreBoth(p, S, Of("mirrored"), [s \in Secrets |-> mints[s] + 1])
  /\ Mint(new)
  /\ ans' = ans \cup Own(p)
  /\ has' = has \cup {p} /\ cur' = p /\ pc' = "vault"

WriteProviderVault ==
  /\ pc = "vault"
  /\ write_vault(cur, FALSE)
  /\ pc' = "deps" /\ cur' = Core
  /\ UNCHANGED <<asks, unit, has, ref, target, action, deps, did, ans, buf, mints>>

\* write_core: the vars.yml, merged unless the run is an override, ...
write_core ==
  /\ pc = "deps" /\ deps = {}
  /\ IF WritesCore
       THEN /\ has' = has \cup {Core} /\ pc' = "core vault"
            /\ ref' = ans \cup IF action = "override" THEN {} ELSE ref
       ELSE pc' = "save" /\ UNCHANGED <<has, ref>>
  /\ UNCHANGED <<asks, unit, vault, target, action, deps, did, cur, ans, buf, mints>>

\* ... then the vault.yml.
WriteCoreVault ==
  /\ pc = "core vault"
  /\ write_vault(Core, action = "override")
  /\ pc' = "save"
  /\ UNCHANGED <<asks, unit, has, ref, target, action, deps, did, cur, ans, buf, mints>>

\* The locals of a run end with it.
Discard ==
  /\ pc' = "idle" /\ target' = All /\ action' = "replay" /\ deps' = {}
  /\ did' = [p \in Providers |-> None] /\ cur' = Core
  /\ ans' = {} /\ buf' = [c \in Components |-> NoValues]

save_manifest ==
  /\ pc = "save"
  /\ unit' = [c \in Components |->
       IF c = Core THEN IF WritesCore THEN Managed ELSE unit[c]
       ELSE IF WireOnly \/ did[c] \in {None, "skip"} THEN unit[c]
       ELSE IF did[c] \in {"reuse", "deploy"} THEN Managed ELSE External]
  /\ Discard
  /\ UNCHANGED <<asks, has, ref, vault, mints>>

\* A prompt cancelled, a write that failed, a process killed.
Abort ==
  /\ pc # "idle"
  /\ pc \in {"vault", "core vault"} => TornWrites
  /\ Discard
  /\ UNCHANGED <<disk, mints>>

\* The next release, whose questionnaire asks for the newer secrets too.
Release ==
  /\ pc = "idle" /\ asks # Secrets
  /\ asks' = Secrets
  /\ UNCHANGED <<unit, has, ref, vault, pc, target, action, deps, did, cur, ans,
                 buf, mints>>

-----------------------------------------------------------------------------

Init ==
  /\ asks = Secrets \ Newer
  /\ unit = [c \in Components |-> None] /\ has = {} /\ ref = {}
  /\ vault = [c \in Components |-> NoValues]
  /\ pc = "idle" /\ target = All /\ action = "replay" /\ deps = {}
  /\ did = [p \in Providers |-> None] /\ cur = Core
  /\ ans = {} /\ buf = [c \in Components |-> NoValues] /\ mints = NoValues

_handle_dependency(p) ==
  \/ skip(p) \/ reuse(p) \/ deploy(p)
  \/ \E c \in {"keep", "redo", "declare"} : external(p, c)

Next ==
  \/ \E t \in Targets, a \in {"replay", "override"} : bootstrap(t, a)
  \/ _ask_core
  \/ \E p \in Providers : _handle_dependency(p)
  \/ WriteProviderVault \/ write_core \/ WriteCoreVault \/ save_manifest
  \/ Abort \/ Release

Spec == Init /\ [][Next]_vars

-----------------------------------------------------------------------------
(* Properties *)

\* The types of the variables.
TypeOK ==
  /\ asks \subseteq Secrets /\ has \subseteq Components /\ ref \subseteq Secrets
  /\ unit \in [Components -> {None, Managed, External}]
  /\ vault \in [Components -> [Secrets -> Values]]
  /\ pc \in {"idle", "core", "deps", "vault", "core vault", "save"}
  /\ target \in Targets /\ action \in {"replay", "override"}
  /\ deps \subseteq Providers /\ cur \in Components
  /\ did \in [Providers -> {None, "skip", "keep", "redo", "declare", "reuse", "deploy"}]
  /\ ans \subseteq Secrets
  /\ buf \in [Components -> [Secrets -> Values]]
  /\ mints \in [Secrets -> 0 .. MaxMints]

Owner(s) == IF Kind[s] \in {"shared", "issued"} THEN Holder[s] ELSE Core

\* README: "your secrets.  st-cli never re-prompts or regenerates an
\* already-answered secret", and an override regenerates only "the core's own
\* generated secrets".  A stored value changes only when its owner is the core
\* and the run overrides it, or adopts the value of a provider.
SecretsNeverRotate ==
  [][\A s \in Secrets :
       LET o == Owner(s) IN
       vault[o][s] # Absent /\ vault'[o][s] # vault[o][s]
         => o = Core /\ (action = "override" \/ s \in Adopting)]_vars

\* The core never holds a stale copy of a secret a provider owns: its vault has
\* nothing, the value of an external service, or exactly the provider's value,
\* whatever was cancelled, overridden, reused or replayed before.
OwnedCopiesAgree ==
  \A s \in Of("shared") \cup Of("issued") :
    vault[Core][s] \in {Absent, Theirs, vault[Holder[s]][s]}

Agree(p, s) == vault[Core][s] # Absent /\ vault[Core][s] = vault[p][s]

\* README, on an override: "a managed unit that mirrors a core-owned secret is
\* replayed in the same run and picks up the regenerated value".  When a run
\* of the whole app ends, every provider it replayed holds the core's values,
\* and so does every reused one whose secrets the core adopts.
RunAligns ==
  pc = "save" /\ target = All =>
    \A p \in Providers : \A s \in Own(p) :
      did[p] = "deploy" \/ (did[p] = "reuse" /\ s \in Adopting) => Agree(p, s)

CoreResolves == \A s \in ref : vault[Core][s] # Absent

\* Every reference of a registered component resolves in its vault: a deploy
\* never meets an undefined vault_* variable.
ReferencesResolve ==
  pc = "idle" =>
    /\ unit[Core] = Managed => CoreResolves
    /\ \A p \in Providers : unit[p] = Managed =>
         \A s \in Own(p) : vault[p][s] # Absent

-----------------------------------------------------------------------------
(* The inductive strengthening of SecretsNeverRotate and OwnedCopiesAgree. *)

Provided  == Of("shared") \cup Of("issued")
CoreOwned == (Of("private") \cup Of("mirrored")) \ Adopting
Writing(p) == pc = "vault" /\ cur = p

\* A provider's buffer never holds another value than its vault, but for a new
\* secret on its way to the vault.
BufferInv ==
  /\ pc = "vault" => cur # Core
  /\ \A s \in Provided :
       LET h == Holder[s] IN
       \/ buf[h][s] \in {Absent, vault[h][s]}
       \/ Writing(h) /\ vault[h][s] = Absent

\* What the core's vault stores is decided in its vars.yml, so a replay finds
\* it in its answers and buffers no other value.
DecidedInv ==
  \A s \in CoreOwned :
    /\ vault[Core][s] # Absent => s \in ref \cap asks /\ Core \in has
    /\ buf[Core][s] # Absent =>
         /\ s \in ans \cap asks /\ pc \notin {"idle", "core"}
         /\ action = "override" \/ vault[Core][s] \in {Absent, buf[Core][s]}
         /\ pc = "core vault" => s \in ref
    /\ pc = "core" /\ action = "replay" /\ vault[Core][s] # Absent => s \in ans

ScopeInv ==
  /\ pc = "core vault" => Core \in has
  /\ pc \in {"core", "core vault"} \/ action = "override" => WritesCore
  /\ pc \notin {"idle", "core"} /\ WritesCore
       => asks \cap (Of("private") \cup Of("mirrored")) \subseteq ans

RotateInv == TypeOK /\ BufferInv /\ DecidedInv /\ ScopeInv

\* Without torn writes a provider with files has its secrets in its vault, and
\* the core's buffer holds what that vault has, or is about to have.
CopyInv ==
  \A s \in Provided :
    LET h == Holder[s] IN
    /\ \/ buf[Core][s] \in {Absent, Theirs, vault[h][s]}
       \/ Writing(h) /\ vault[h][s] = Absent /\ buf[Core][s] = buf[h][s]
    /\ h \in has /\ ~Writing(h) => vault[h][s] # Absent
    /\ Writing(h) => Or(buf[h][s], vault[h][s]) # Absent

AgreeInv == TypeOK /\ BufferInv /\ OwnedCopiesAgree /\ CopyInv

\* The value the core's vault is about to have for a secret, and the one the
\* vault of a provider has, or is about to have.
Coming(s)  == IF action = "override" THEN buf[Core][s] ELSE Or(buf[Core][s], vault[Core][s])
Held(p, s) == IF Writing(p) THEN Or(buf[p][s], vault[p][s]) ELSE vault[p][s]

\* A provider a run registers has files, and a provider with files its secrets.
HeldInv ==
  /\ pc = "vault" => cur \in has
  /\ \A p \in Providers :
       /\ unit[p] = Managed \/ did[p] \in {"reuse", "deploy"} => p \in has
       /\ pc \in {"idle", "core"} => did[p] = None
       /\ p \in has => \A s \in Own(p) : Held(p, s) # Absent

\* What the answers decide, and what the core's vars.yml refers to, has a
\* value in the core's vault, or is about to get one there.
CoreInv ==
  /\ Of("mirrored") \subseteq asks
  /\ pc # "core vault" => CoreResolves
  /\ pc = "core vault" => \A s \in ref : Coming(s) # Absent
  /\ pc \in {"core", "deps", "vault"} /\ WritesCore => \A s \in ans : Coming(s) # Absent

\* RunAligns from the step of the provider on, until the core's vault is written.
AlignInv ==
  pc \notin {"idle", "core"} /\ target = All =>
    \A p \in Providers : \A s \in Own(p) :
      did[p] = "deploy" \/ (did[p] = "reuse" /\ s \in Adopting) =>
        LET v == IF pc = "save" THEN vault[Core][s] ELSE Coming(s) IN
        v # Absent /\ v = Held(p, s)

ResolveInv == TypeOK /\ BufferInv /\ ScopeInv /\ HeldInv /\ CoreInv /\ AlignInv

-----------------------------------------------------------------------------
(* What the documentation says, and the code does not do. *)

\* README: "a crashed st-cli upgrade is safe to re-run".  The replay of a
\* registered core that completes after one that died between vars.yml and
\* vault.yml takes the reference for a decided answer, and never stores the
\* value.
RerunRepairsVault ==
  pc = "save" /\ WritesCore /\ unit[Core] = Managed => CoreResolves
============================================================================
