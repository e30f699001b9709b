--------------------------- MODULE SecretsProofs ---------------------------
(***************************************************************************)
(* Proofs about Secrets, for every set of providers and secrets, every     *)
(* assignment of kinds and every bound on the number of mints.             *)
(***************************************************************************)
EXTENDS Secrets, TLAPS

USE DEF None, Managed, External, Absent, All

LEMMA Constants ==
  /\ Core \in Components /\ Providers \subseteq Components
  /\ Components \subseteq Targets /\ All \in Targets
  /\ MaxMints \in Nat /\ Theirs \in Values
  /\ \A n \in 0 .. MaxMints : n \in Values /\ n + 1 \in Values /\ n + 1 # 0
  /\ \A n \in 0 .. MaxMints : n < MaxMints => n + 1 \in 0 .. MaxMints
  /\ 0 \in Values /\ 0 \in 0 .. MaxMints
<1>1. MaxMints \in Nat
  BY MintAssumption
<1>2. Values = 0 .. (MaxMints + 1) /\ Theirs = MaxMints + 1
  BY DEF Values, Theirs
<1>4. Core \in Components /\ Providers \subseteq Components
  BY DEF Components
<1>5. Components \subseteq Targets /\ All \in Targets
  BY DEF Targets
<1>6. ASSUME NEW n \in 0 .. MaxMints
      PROVE  /\ n \in Values /\ n + 1 \in Values /\ n + 1 # 0
             /\ n < MaxMints => n + 1 \in 0 .. MaxMints
  BY <1>1, <1>2
<1>7. 0 \in Values /\ Theirs \in Values /\ 0 \in 0 .. MaxMints
  BY <1>1, <1>2
<1> QED BY <1>1, <1>4, <1>5, <1>6, <1>7

\* Buffers keep their type when values are stored.
LEMMA StoreType ==
  ASSUME TypeOK, NEW cs, NEW S, NEW val,
         \A s \in Secrets : s \in S => val[s] \in Values,
         Store(cs, S, val)
  PROVE  buf' \in [Components -> [Secrets -> Values]]
BY DEF Store, TypeOK

LEMMA MintType ==
  ASSUME TypeOK, NEW S \in SUBSET Secrets, CanMint(S), Mint(S)
  PROVE  mints' \in [Secrets -> 0 .. MaxMints]
BY Constants DEF CanMint, Mint, TypeOK

\* A value that may be minted is a value.
LEMMA FreshType ==
  ASSUME TypeOK, NEW S \in SUBSET Secrets, CanMint(S)
  PROVE  \A s \in S : mints[s] + 1 \in Values /\ mints[s] + 1 # 0
BY Constants DEF CanMint, TypeOK, Values

LEMMA WriteVaultType ==
  ASSUME TypeOK, NEW c \in Components, NEW replace \in BOOLEAN, write_vault(c, replace)
  PROVE  vault' \in [Components -> [Secrets -> Values]]
BY DEF write_vault, TypeOK, Or

LEMMA DiscardType ==
  ASSUME Discard
  PROVE  /\ pc' = "idle" /\ target' \in Targets /\ action' = "replay"
         /\ deps' = {} /\ cur' \in Components /\ ans' = {}
         /\ did' \in [Providers -> {None, "skip", "keep", "redo", "declare", "reuse", "deploy"}]
         /\ buf' \in [Components -> [Secrets -> Values]]
         /\ \A c \in Components, s \in Secrets : buf'[c][s] = 0
BY Constants DEF Discard, NoValues

LEMMA ChosenType ==
  ASSUME TypeOK, NEW p \in Providers,
         NEW c \in {"skip", "keep", "redo", "declare", "reuse", "deploy"}, Chosen(p, c)
  PROVE  /\ deps' \subseteq Providers
         /\ did' \in [Providers -> {None, "skip", "keep", "redo", "declare", "reuse", "deploy"}]
         /\ pc = "deps"
         /\ UNCHANGED <<asks, unit, ref, vault, target, action>>
BY DEF Chosen, TypeOK

\* The mirrored secrets of StoreBoth and its values are typed.
LEMMA StoreBothType ==
  ASSUME TypeOK, NEW p \in Providers, NEW S \in SUBSET Secrets, NEW new,
         \A s \in S : Committed(p, s) = 0 => new[s] \in Values,
         StoreBoth(p, S, Of("mirrored"), new)
  PROVE  buf' \in [Components -> [Secrets -> Values]]
<1>1. \A s \in S : Or(Committed(p, s), new[s]) \in Values
  BY Constants DEF Or, Committed, TypeOK
<1> QED BY <1>1, Constants DEF StoreBoth, TypeOK

LEMMA TypeStep ==
  ASSUME TypeOK, [Next]_vars PROVE TypeOK'
<1>1. ASSUME NEW t \in Targets, NEW a \in {"replay", "override"}, bootstrap(t, a)
      PROVE TypeOK'
  BY <1>1, Constants DEF bootstrap, Seed, TypeOK, disk, Targets, Components
<1>2. ASSUME _ask_core PROVE TypeOK'
  <2> DEFINE new == Undecided(asks \cap (Of("private") \cup Of("mirrored")))
  <2>1. new \in SUBSET Secrets
    BY DEF Undecided, Of
  <2>2. buf' \in [Components -> [Secrets -> Values]]
    <3> DEFINE val == [s \in Secrets |-> mints[s] + 1]
    <3>1. Store({Core}, new, val) /\ CanMint(new)
      BY <1>2 DEF _ask_core
    <3>2. \A s \in Secrets : s \in new => val[s] \in Values
      BY <2>1, <3>1, FreshType
    <3> HIDE DEF val, new
    <3> QED BY <3>1, <3>2, StoreType
  <2>3. mints' \in [Secrets -> 0 .. MaxMints]
    BY <1>2, <2>1, MintType DEF _ask_core
  <2> QED BY <1>2, <2>1, <2>2, <2>3 DEF _ask_core, TypeOK, disk
<1>3. ASSUME NEW p \in Providers, skip(p) PROVE TypeOK'
  BY <1>3, ChosenType DEF skip, TypeOK
<1>4. ASSUME NEW p \in Providers, NEW c \in {"keep", "redo", "declare"}, external(p, c)
      PROVE TypeOK'
  <2>1. Typed(p, c) \subseteq Secrets
    BY DEF Typed, Own
  <2>2. buf' \in [Components -> [Secrets -> Values]]
    <3> DEFINE val == [s \in Secrets |-> Theirs]
    <3>1. Store({Core}, Typed(p, c), val)
      BY <1>4 DEF external
    <3>2. \A s \in Secrets : s \in Typed(p, c) => val[s] \in Values
      BY Constants
    <3> HIDE DEF val
    <3> QED BY <3>1, <3>2, StoreType
  <2>3. Chosen(p, c) /\ ans' \subseteq Secrets
    BY <1>4, <2>1 DEF external, TypeOK
  <2> QED BY <1>4, <2>2, <2>3, ChosenType DEF external, TypeOK
<1>5. ASSUME NEW p \in Providers, reuse(p) PROVE TypeOK'
  <2> DEFINE typed == {s \in Taken(p) : vault[p][s] = Absent}
  <2>1. Taken(p) \subseteq Secrets /\ typed \in SUBSET Secrets
    BY DEF Taken, Own
  <2>2. \A s \in Taken(p) : Or(vault[p][s], mints[s] + 1) \in Values
    BY <1>5, <2>1, Constants, FreshType DEF reuse, Or, TypeOK
  <2>3. buf' \in [Components -> [Secrets -> Values]]
    <3> DEFINE val == [s \in Secrets |-> Or(vault[p][s], mints[s] + 1)]
    <3>1. Store({Core}, Taken(p), val)
      BY <1>5 DEF reuse
    <3>2. \A s \in Secrets : s \in Taken(p) => val[s] \in Values
      BY <2>2
    <3> HIDE DEF val
    <3> QED BY <3>1, <3>2, StoreType
  <2>4. mints' \in [Secrets -> 0 .. MaxMints]
    BY <1>5, <2>1, MintType DEF reuse
  <2>5. Chosen(p, "reuse") /\ ans' \subseteq Secrets
    BY <1>5, <2>1 DEF reuse, TypeOK
  <2> QED BY <1>5, <2>3, <2>4, <2>5, ChosenType DEF reuse, TypeOK
<1>6. ASSUME NEW p \in Providers, deploy(p) PROVE TypeOK'
  <2> DEFINE lost == IF p \in has THEN {s \in Own(p) \cap Of("issued") : vault[p][s] = Absent}
                                  ELSE {}
             S    == Own(p) \ lost
             new  == {s \in S : Committed(p, s) = Absent}
  <2>1. S \in SUBSET Secrets /\ new \in SUBSET Secrets /\ Own(p) \subseteq Secrets
    BY DEF Own
  <2>2. CanMint(new) /\ Mint(new) /\ StoreBoth(p, S, Of("mirrored"), [s \in Secrets |-> mints[s] + 1])
    BY <1>6 DEF deploy
  <2>3. mints' \in [Secrets -> 0 .. MaxMints]
    BY <2>1, <2>2, MintType
  <2>4. \A s \in S : Committed(p, s) = 0 => [x \in Secrets |-> mints[x] + 1][s] \in Values
    <3>1. \A s \in new : mints[s] + 1 \in Values
      BY <2>1, <2>2, FreshType
    <3> QED BY <2>1, <3>1
  <2>5. buf' \in [Components -> [Secrets -> Values]]
    <3> HIDE DEF S, new
    <3> QED BY <2>1, <2>2, <2>4, StoreBothType
  <2>6. /\ Chosen(p, "deploy") /\ ans' \subseteq Secrets /\ has' \subseteq Components
        /\ cur' \in Components /\ pc' = "vault"
    BY <1>6, <2>1, Constants DEF deploy, TypeOK
  <2> QED BY <2>3, <2>5, <2>6, ChosenType DEF TypeOK
<1>7. CASE WriteProviderVault
  BY <1>7, Constants, WriteVaultType DEF WriteProviderVault, TypeOK
<1>8. CASE write_core
  BY <1>8, Constants DEF write_core, TypeOK
<1>9. CASE WriteCoreVault
  BY <1>9, Constants, WriteVaultType DEF WriteCoreVault, TypeOK
<1>10. CASE save_manifest
  BY <1>10, DiscardType DEF save_manifest, TypeOK
<1>11. CASE Abort
  BY <1>11, DiscardType DEF Abort, TypeOK, disk
<1>12. CASE Release
  BY <1>12 DEF Release, TypeOK
<1>13. CASE UNCHANGED vars
  BY <1>13 DEF vars, disk, TypeOK
<1> QED
  BY <1>1, <1>2, <1>3, <1>4, <1>5, <1>6, <1>7, <1>8, <1>9, <1>10, <1>11, <1>12, <1>13
     DEF Next, _handle_dependency

LEMMA TypeInit == Init => TypeOK
<1> SUFFICES ASSUME Init PROVE TypeOK
  OBVIOUS
<1>1. NoValues \in [Secrets -> Values] /\ NoValues \in [Secrets -> 0 .. MaxMints]
  BY Constants DEF NoValues
<1>2. /\ vault \in [Components -> [Secrets -> Values]]
      /\ buf \in [Components -> [Secrets -> Values]]
      /\ mints \in [Secrets -> 0 .. MaxMints]
  BY <1>1 DEF Init
<1> QED BY <1>2, Constants DEF Init, TypeOK

\* Every variable of Secrets keeps its type.
THEOREM TypeCorrect == Spec => []TypeOK
BY TypeInit, TypeStep, PTL DEF Spec

-----------------------------------------------------------------------------
(* What the steps do to one secret. *)

\* A provided secret is held by a provider; the core owns the others.
LEMMA Kinds ==
  /\ \A s \in Provided : /\ s \in Secrets /\ Holder[s] \in Providers
                         /\ Holder[s] # Core /\ Holder[s] \in Components
                         /\ Kind[s] # "mirrored" /\ Owner(s) = Holder[s]
                         /\ s \notin Adopting /\ s \notin Of("private")
  /\ \A s \in Secrets \ Provided : Owner(s) = Core
  /\ \A s \in CoreOwned : s \in Secrets /\ s \notin Provided /\ s \notin Adopting
  /\ \A s \in Secrets : s \notin Provided /\ s \notin Adopting => s \in CoreOwned
BY KindAssumption, AdoptingAssumption, ComponentAssumption
   DEF Provided, CoreOwned, Of, Owner, Components

LEMMA StoreEffect ==
  ASSUME TypeOK, NEW S, NEW val, Store({Core}, S, val),
         NEW c \in Components, NEW s \in Secrets
  PROVE  buf'[c][s] = IF c = Core /\ s \in S THEN val[s] ELSE buf[c][s]
BY DEF Store

LEMMA ProviderVaultEffect ==
  ASSUME TypeOK, WriteProviderVault, NEW d \in Components, NEW s \in Secrets
  PROVE  vault'[d][s] = IF d = cur THEN Or(buf[d][s], vault[d][s]) ELSE vault[d][s]
<1>1. write_vault(cur, FALSE)
  BY DEF WriteProviderVault
<1> QED BY <1>1 DEF write_vault, TypeOK

LEMMA CoreVaultEffect ==
  ASSUME TypeOK, WriteCoreVault, NEW d \in Components, NEW s \in Secrets
  PROVE  vault'[d][s] = IF d # Core THEN vault[d][s]
                        ELSE IF action = "override" /\ buf[Core] # NoValues
                             THEN buf[Core][s]
                        ELSE Or(buf[Core][s], vault[Core][s])
<1>1. write_vault(Core, action = "override")
  BY DEF WriteCoreVault
<1>2. CASE d # Core
  BY <1>1, <1>2 DEF write_vault, TypeOK
<1>3. CASE d = Core /\ action = "override" /\ buf[Core] # NoValues
  BY <1>1, <1>3 DEF write_vault, TypeOK
<1>4. CASE d = Core /\ ~(action = "override" /\ buf[Core] # NoValues)
  BY <1>1, <1>4 DEF write_vault, TypeOK
<1> QED BY <1>2, <1>3, <1>4

\* A deploy hands a provided secret, old or new, to both buffers.
LEMMA DeployProvided ==
  ASSUME TypeOK, NEW p \in Providers, deploy(p), NEW s \in Provided
  PROVE  \/ /\ \A c \in Components : buf'[c][s] = buf[c][s]
            /\ p # Holder[s] \/ (p \in has /\ vault[p][s] = 0)
         \/ /\ p = Holder[s]
            /\ buf'[p][s] # 0 /\ buf'[Core][s] = buf'[p][s]
            /\ vault[p][s] # 0 => buf'[p][s] = vault[p][s]
<1> DEFINE lost == IF p \in has THEN {x \in Own(p) \cap Of("issued") : vault[p][x] = Absent}
                                ELSE {}
           S    == Own(p) \ lost
           new  == {x \in S : Committed(p, x) = Absent}
           val  == [x \in Secrets |-> mints[x] + 1]
<1>1. StoreBoth(p, S, Of("mirrored"), val) /\ CanMint(new)
  BY DEF deploy
<1>2. s \in Secrets /\ s \notin Of("mirrored") /\ Committed(p, s) = vault[p][s]
  BY Kinds DEF Of, Committed
<1>3. ASSUME NEW c \in Components
      PROVE  buf'[c][s] = IF s \in S /\ (c = p \/ c = Core)
                            THEN Or(vault[p][s], mints[s] + 1) ELSE buf[c][s]
  <2> HIDE DEF S
  <2> QED BY <1>1, <1>2, <1>3 DEF StoreBoth
<1>4. s \in S <=> p = Holder[s] /\ ~(p \in has /\ Kind[s] = "issued" /\ vault[p][s] = 0)
  BY <1>2 DEF Own, Of
<1>5. s \in S /\ vault[p][s] = 0 => mints[s] + 1 # 0
  BY <1>1, <1>2, FreshType, Constants DEF TypeOK
<1>6. CASE s \notin S
  BY <1>3, <1>4, <1>6
<1>7. CASE s \in S
  BY <1>3, <1>4, <1>5, <1>7, Constants DEF Or
<1> QED BY <1>6, <1>7

\* It leaves what the core owns in the core's buffer alone.
LEMMA DeployCoreOwned ==
  ASSUME TypeOK, NEW p \in Providers, deploy(p), NEW s \in CoreOwned
  PROVE  buf'[Core][s] = buf[Core][s]
<1> DEFINE lost == IF p \in has THEN {x \in Own(p) \cap Of("issued") : vault[p][x] = Absent}
                                ELSE {}
           S    == Own(p) \ lost
           val  == [x \in Secrets |-> mints[x] + 1]
<1>1. StoreBoth(p, S, Of("mirrored"), val)
  BY DEF deploy
<1>2. s \in Secrets /\ Core # p /\ (s \in S => s \in Of("mirrored"))
  BY Kinds, ComponentAssumption, KindAssumption DEF CoreOwned, Of, Own
<1>3. Core \in Components
  BY Constants
<1> QED
  <2> HIDE DEF S, val
  <2> QED BY <1>1, <1>2, <1>3 DEF StoreBoth

\* The other dependency steps, _ask_core included, store in the core's buffer
\* only: what the core owns if it is undecided, adopted or shared values else.
LEMMA CoreStores ==
  ASSUME TypeOK,
         \/ _ask_core
         \/ \E p \in Providers : \/ skip(p) \/ reuse(p)
                                 \/ \E c \in {"keep", "redo", "declare"} : external(p, c)
  PROVE  /\ \A c \in Components \ {Core}, s \in Secrets : buf'[c][s] = buf[c][s]
         /\ pc \in {"core", "deps"} /\ pc' = "deps"
         /\ UNCHANGED <<disk, target, action, cur>>
         /\ ans \subseteq ans'
         /\ \A s \in CoreOwned :
              \/ buf'[Core][s] = buf[Core][s]
              \/ _ask_core /\ s \notin ans /\ s \in ans' \cap asks
         /\ \A s \in Provided :
              \/ buf'[Core][s] \in {buf[Core][s], Theirs}
              \/ vault[Holder[s]][s] = 0 /\ Holder[s] \in has
              \/ buf'[Core][s] = vault[Holder[s]][s]
<1>1. CASE _ask_core
  <2> DEFINE new == Undecided(asks \cap (Of("private") \cup Of("mirrored")))
             val == [s \in Secrets |-> mints[s] + 1]
  <2>1. Store({Core}, new, val) /\ ans' = ans \cup new /\ pc = "core" /\ pc' = "deps"
    BY <1>1 DEF _ask_core
  <2>2. \A c \in Components, s \in Secrets :
          buf'[c][s] = IF c = Core /\ s \in new THEN val[s] ELSE buf[c][s]
    <3> HIDE DEF new, val
    <3> QED BY <2>1, StoreEffect
  <2>3. \A s \in Provided : s \notin new
    BY Kinds DEF Undecided, Of
  <2>4. \A s \in new : s \notin ans /\ s \in asks
    BY DEF Undecided
  <2>5. UNCHANGED <<disk, target, action, cur>>
    BY <1>1 DEF _ask_core
  <2> HIDE DEF new, val
  <2> QED BY <1>1, <2>1, <2>2, <2>3, <2>4, <2>5, Kinds, Constants
<1>2. ASSUME NEW p \in Providers, skip(p)
      PROVE  UNCHANGED <<disk, target, action, cur, buf, ans, pc>> /\ pc = "deps"
  BY <1>2 DEF skip, Chosen, disk
<1>3. ASSUME NEW p \in Providers, NEW c \in {"keep", "redo", "declare"}, external(p, c)
      PROVE  /\ \A d \in Components, s \in Secrets :
                  buf'[d][s] = IF d = Core /\ s \in Typed(p, c) THEN Theirs ELSE buf[d][s]
             /\ Typed(p, c) \cap CoreOwned = {}
             /\ UNCHANGED <<disk, target, action, cur, pc>> /\ pc = "deps"
             /\ ans \subseteq ans'
  <2> DEFINE val == [s \in Secrets |-> Theirs]
  <2>1. Store({Core}, Typed(p, c), val)
    BY <1>3 DEF external
  <2>2. \A d \in Components, s \in Secrets :
          buf'[d][s] = IF d = Core /\ s \in Typed(p, c) THEN val[s] ELSE buf[d][s]
    <3> HIDE DEF val
    <3> QED BY <2>1, StoreEffect
  <2>3. Typed(p, c) \cap CoreOwned = {}
    BY KindAssumption, ComponentAssumption DEF Typed, Own, CoreOwned, Of
  <2> QED BY <1>3, <2>2, <2>3 DEF external, Chosen, disk
<1>4. ASSUME NEW p \in Providers, reuse(p)
      PROVE  /\ \A d \in Components, s \in Secrets :
                  buf'[d][s] = IF d = Core /\ s \in Taken(p)
                                 THEN Or(vault[p][s], mints[s] + 1) ELSE buf[d][s]
             /\ Taken(p) \cap CoreOwned = {} /\ p \in has
             /\ UNCHANGED <<disk, target, action, cur, pc>> /\ pc = "deps"
             /\ ans \subseteq ans'
  <2> DEFINE val == [s \in Secrets |-> Or(vault[p][s], mints[s] + 1)]
  <2>1. Store({Core}, Taken(p), val)
    BY <1>4 DEF reuse
  <2>2. \A d \in Components, s \in Secrets :
          buf'[d][s] = IF d = Core /\ s \in Taken(p) THEN val[s] ELSE buf[d][s]
    <3> HIDE DEF val
    <3> QED BY <2>1, StoreEffect
  <2>3. Taken(p) \cap CoreOwned = {}
    BY Kinds DEF Taken, Undecided, CoreOwned, Provided, Of
  <2>4. p \in has
    BY <1>4 DEF reuse, Chosen, Choices
  <2> QED BY <1>4, <2>2, <2>3, <2>4 DEF reuse, Chosen, disk
<1>5. \A p \in Providers, s \in Provided : s \in Taken(p) => Holder[s] = p
  BY DEF Taken, Own
<1>6. CASE \E p \in Providers : skip(p)
  <2>1. UNCHANGED <<disk, target, action, cur, buf, ans, pc>> /\ pc = "deps"
    BY <1>2, <1>6
  <2> QED BY <2>1
<1>7. ASSUME NEW p \in Providers, NEW c \in {"keep", "redo", "declare"}, external(p, c)
      PROVE  /\ \A s \in CoreOwned : buf'[Core][s] = buf[Core][s]
             /\ \A s \in Provided : buf'[Core][s] \in {buf[Core][s], Theirs}
             /\ \A d \in Components \ {Core}, s \in Secrets : buf'[d][s] = buf[d][s]
  <2>1. \A d \in Components, s \in Secrets :
          buf'[d][s] = IF d = Core /\ s \in Typed(p, c) THEN Theirs ELSE buf[d][s]
    BY <1>3, <1>7
  <2>2. Typed(p, c) \cap CoreOwned = {}
    BY <1>3, <1>7
  <2>3. \A s \in CoreOwned : s \in Secrets /\ s \notin Typed(p, c)
    BY <2>2, Kinds
  <2>4. \A s \in Provided : s \in Secrets
    BY Kinds
  <2>5. Core \in Components
    BY Constants
  <2> QED BY <2>1, <2>3, <2>4, <2>5
<1>8. CASE \E p \in Providers, c \in {"keep", "redo", "declare"} : external(p, c)
  <2>1. PICK p \in Providers, c \in {"keep", "redo", "declare"} : external(p, c)
    BY <1>8
  <2>2. UNCHANGED <<disk, target, action, cur, pc>> /\ pc = "deps" /\ ans \subseteq ans'
    BY <1>3, <2>1
  <2> QED BY <1>7, <2>1, <2>2
<1>9. ASSUME NEW p \in Providers, reuse(p)
      PROVE  /\ \A s \in CoreOwned : buf'[Core][s] = buf[Core][s]
             /\ \A s \in Provided :
                  \/ buf'[Core][s] \in {buf[Core][s], Theirs}
                  \/ vault[Holder[s]][s] = 0 /\ Holder[s] \in has
                  \/ buf'[Core][s] = vault[Holder[s]][s]
             /\ \A d \in Components \ {Core}, s \in Secrets : buf'[d][s] = buf[d][s]
  <2>1. \A d \in Components, s \in Secrets :
          buf'[d][s] = IF d = Core /\ s \in Taken(p)
                         THEN Or(vault[p][s], mints[s] + 1) ELSE buf[d][s]
    BY <1>4, <1>9
  <2>2. Taken(p) \cap CoreOwned = {} /\ p \in has
    BY <1>4, <1>9
  <2>3. \A s \in CoreOwned : s \in Secrets /\ s \notin Taken(p)
    BY <2>2, Kinds
  <2>4. Core \in Components
    BY Constants
  <2>5. ASSUME NEW s \in Provided
        PROVE  \/ buf'[Core][s] \in {buf[Core][s], Theirs}
               \/ vault[Holder[s]][s] = 0 /\ Holder[s] \in has
               \/ buf'[Core][s] = vault[Holder[s]][s]
    <3>1. s \in Secrets
      BY Kinds
    <3>2. CASE s \notin Taken(p)
      BY <2>1, <2>4, <3>1, <3>2
    <3>3. CASE s \in Taken(p)
      <4>1. Holder[s] = p
        BY <1>5, <3>3
      <4>2. buf'[Core][s] = Or(vault[p][s], mints[s] + 1)
        BY <2>1, <2>4, <3>1, <3>3
      <4> QED BY <2>2, <4>1, <4>2 DEF Or
    <3> QED BY <3>2, <3>3
  <2> QED BY <2>1, <2>3, <2>4, <2>5
<1>10. CASE \E p \in Providers : reuse(p)
  <2>1. PICK p \in Providers : reuse(p)
    BY <1>10
  <2>2. UNCHANGED <<disk, target, action, cur, pc>> /\ pc = "deps" /\ ans \subseteq ans'
    BY <1>4, <2>1
  <2> QED BY <1>9, <2>1, <2>2
<1> QED BY <1>1, <1>6, <1>8, <1>10

-----------------------------------------------------------------------------
(* A provider's buffer. *)

\* No step buffers a second value for a secret its provider has stored.
LEMMA BufferStep ==
  ASSUME TypeOK, BufferInv, [Next]_vars PROVE BufferInv'
<1>1. ASSUME NEW s \in Provided
      PROVE  /\ s \in Secrets /\ Holder[s] \in Components /\ Holder[s] # Core
             /\ \/ buf[Holder[s]][s] \in {0, vault[Holder[s]][s]}
                \/ Writing(Holder[s]) /\ vault[Holder[s]][s] = 0
  BY Kinds DEF BufferInv
<1>2. CASE pc \notin {"vault"} /\ pc' # "vault" /\ UNCHANGED <<vault, buf>>
  BY <1>1, <1>2 DEF BufferInv, Writing
<1>3. ASSUME NEW t \in Targets, NEW a \in {"replay", "override"}, bootstrap(t, a)
      PROVE BufferInv'
  BY <1>2, <1>3 DEF bootstrap, disk
<1>4. CASE \/ _ask_core
           \/ \E p \in Providers : \/ skip(p) \/ reuse(p)
                                   \/ \E c \in {"keep", "redo", "declare"} : external(p, c)
  <2>1. /\ \A c \in Components \ {Core}, s \in Secrets : buf'[c][s] = buf[c][s]
        /\ pc # "vault" /\ pc' = "deps" /\ vault' = vault
    BY <1>4, CoreStores DEF disk
  <2> QED BY <1>1, <2>1 DEF BufferInv, Writing
<1>5. ASSUME NEW p \in Providers, deploy(p) PROVE BufferInv'
  <2>1. /\ pc = "deps" /\ vault' = vault /\ pc' = "vault" /\ cur' = p /\ p # Core
    BY <1>5, ComponentAssumption DEF deploy, Chosen
  <2>2. ASSUME NEW s \in Provided
        PROVE  \/ buf'[Holder[s]][s] \in {0, vault'[Holder[s]][s]}
               \/ Writing(Holder[s])' /\ vault'[Holder[s]][s] = 0
    BY <1>1, <1>5, <2>1, DeployProvided DEF Writing
  <2> QED BY <2>1, <2>2 DEF BufferInv
<1>6. CASE WriteProviderVault
  <2>1. pc = "vault" /\ pc' = "deps" /\ buf' = buf
    BY <1>6 DEF WriteProviderVault
  <2>2. ASSUME NEW s \in Provided
        PROVE  buf'[Holder[s]][s] \in {0, vault'[Holder[s]][s]}
    <3>1. vault'[Holder[s]][s] = IF Holder[s] = cur
                                   THEN Or(buf[Holder[s]][s], vault[Holder[s]][s])
                                   ELSE vault[Holder[s]][s]
      BY <1>1, <1>6, ProviderVaultEffect
    <3> QED BY <1>1, <2>1, <3>1 DEF Or, Writing
  <2> QED BY <2>1, <2>2 DEF BufferInv
<1>7. CASE write_core
  BY <1>2, <1>7 DEF write_core
<1>8. CASE WriteCoreVault
  <2>1. pc = "core vault" /\ pc' = "save" /\ buf' = buf
    BY <1>8 DEF WriteCoreVault
  <2>2. \A s \in Provided : vault'[Holder[s]][s] = vault[Holder[s]][s]
    BY <1>1, <1>8, CoreVaultEffect
  <2> QED BY <1>1, <2>1, <2>2 DEF BufferInv, Writing
<1>9. CASE save_manifest \/ Abort
  <2>1. pc' = "idle" /\ \A c \in Components, s \in Secrets : buf'[c][s] = 0
    BY <1>9, DiscardType DEF save_manifest, Abort
  <2> QED BY <1>1, <2>1 DEF BufferInv
<1>10. CASE Release
  BY <1>2, <1>10 DEF Release
<1>11. CASE UNCHANGED vars
  BY <1>11 DEF vars, disk, BufferInv, Writing
<1> QED
  BY <1>3, <1>4, <1>5, <1>6, <1>7, <1>8, <1>9, <1>10, <1>11 DEF Next, _handle_dependency

-----------------------------------------------------------------------------
(* The core's copy of a provider's secret. *)

\* The conjuncts of AgreeInv for one secret.
LEMMA CopyOf ==
  ASSUME AgreeInv, NEW s \in Provided, NEW h, h = Holder[s]
  PROVE  /\ s \in Secrets /\ h \in Components /\ h # Core
         /\ vault[Core][s] \in {0, Theirs, vault[h][s]}
         /\ \/ buf[h][s] \in {0, vault[h][s]}
            \/ Writing(h) /\ vault[h][s] = 0
         /\ \/ buf[Core][s] \in {0, Theirs, vault[h][s]}
            \/ Writing(h) /\ vault[h][s] = 0 /\ buf[Core][s] = buf[h][s]
         /\ h \in has /\ ~Writing(h) => vault[h][s] # 0
         /\ Writing(h) => Or(buf[h][s], vault[h][s]) # 0
BY Kinds DEF AgreeInv, OwnedCopiesAgree, BufferInv, CopyInv, Provided

LEMMA CopyStep ==
  ASSUME AgreeInv, [Next]_vars, TornWrites = FALSE
  PROVE  OwnedCopiesAgree' /\ CopyInv'
<1>0. TypeOK /\ BufferInv /\ (pc = "vault" => cur # Core)
  BY DEF AgreeInv, BufferInv
<1> SUFFICES ASSUME NEW s \in Provided, NEW h, h = Holder[s]
             PROVE  /\ vault'[Core][s] \in {0, Theirs, vault'[h][s]}
                    /\ \/ buf'[Core][s] \in {0, Theirs, vault'[h][s]}
                       \/ Writing(h)' /\ vault'[h][s] = 0 /\ buf'[Core][s] = buf'[h][s]
                    /\ h \in has' /\ ~Writing(h)' => vault'[h][s] # 0
                    /\ Writing(h)' => Or(buf'[h][s], vault'[h][s]) # 0
  BY DEF OwnedCopiesAgree, CopyInv, Provided
<1>1. /\ s \in Secrets /\ h \in Components /\ h # Core /\ Core \in Components
      /\ vault[Core][s] \in {0, Theirs, vault[h][s]}
      /\ \/ buf[h][s] \in {0, vault[h][s]}
         \/ Writing(h) /\ vault[h][s] = 0
      /\ \/ buf[Core][s] \in {0, Theirs, vault[h][s]}
         \/ Writing(h) /\ vault[h][s] = 0 /\ buf[Core][s] = buf[h][s]
      /\ h \in has /\ ~Writing(h) => vault[h][s] # 0
      /\ Writing(h) => Or(buf[h][s], vault[h][s]) # 0
  BY CopyOf, Constants
<1> DEFINE Goal == /\ vault'[Core][s] \in {0, Theirs, vault'[h][s]}
                   /\ \/ buf'[Core][s] \in {0, Theirs, vault'[h][s]}
                      \/ Writing(h)' /\ vault'[h][s] = 0 /\ buf'[Core][s] = buf'[h][s]
                   /\ h \in has' /\ ~Writing(h)' => vault'[h][s] # 0
                   /\ Writing(h)' => Or(buf'[h][s], vault'[h][s]) # 0
<1>2. CASE /\ pc # "vault" /\ pc' # "vault" /\ UNCHANGED <<vault, buf>>
           /\ h \in has' => h \in has
  BY <1>1, <1>2 DEF Writing
<1>3. ASSUME NEW t \in Targets, NEW a \in {"replay", "override"}, bootstrap(t, a)
      PROVE Goal
  BY <1>2, <1>3 DEF bootstrap, disk
<1>4. CASE \/ _ask_core
           \/ \E p \in Providers : \/ skip(p) \/ reuse(p)
                                   \/ \E c \in {"keep", "redo", "declare"} : external(p, c)
  <2>1. /\ pc # "vault" /\ pc' # "vault" /\ vault' = vault /\ has' = has
        /\ \/ buf'[Core][s] \in {buf[Core][s], Theirs}
           \/ vault[h][s] = 0 /\ h \in has
           \/ buf'[Core][s] = vault[h][s]
    <3>1. pc \in {"core", "deps"} /\ pc' = "deps" /\ UNCHANGED disk
      BY <1>0, <1>4, CoreStores
    <3>2. \/ buf'[Core][s] \in {buf[Core][s], Theirs}
          \/ vault[Holder[s]][s] = 0 /\ Holder[s] \in has
          \/ buf'[Core][s] = vault[Holder[s]][s]
      BY <1>0, <1>4, CoreStores
    <3> QED BY <3>1, <3>2 DEF disk
  <2> QED BY <1>1, <2>1 DEF Writing
<1>5. ASSUME NEW p \in Providers, deploy(p) PROVE Goal
  <2>1. /\ pc = "deps" /\ vault' = vault /\ pc' = "vault" /\ cur' = p
        /\ has' = has \cup {p}
    BY <1>5 DEF deploy, Chosen
  <2>2. CASE p = h
    BY <1>0, <1>1, <1>5, <2>1, <2>2, DeployProvided DEF Writing, Or
  <2>3. CASE p # h
    BY <1>0, <1>1, <1>5, <2>1, <2>3, DeployProvided DEF Writing
  <2> QED BY <2>2, <2>3
<1>6. CASE WriteProviderVault
  <2>1. pc = "vault" /\ pc' = "deps" /\ buf' = buf /\ has' = has
    BY <1>6 DEF WriteProviderVault
  <2>2. /\ vault'[Core][s] = vault[Core][s]
        /\ vault'[h][s] = IF h = cur THEN Or(buf[h][s], vault[h][s]) ELSE vault[h][s]
    BY <1>0, <1>1, <1>6, <2>1, ProviderVaultEffect
  <2>3. CASE h = cur
    BY <1>1, <2>1, <2>2, <2>3 DEF Or, Writing
  <2>4. CASE h # cur
    BY <1>1, <2>1, <2>2, <2>4 DEF Writing
  <2> QED BY <2>3, <2>4
<1>7. CASE write_core
  BY <1>1, <1>2, <1>7 DEF write_core
<1>8. CASE WriteCoreVault
  <2>1. pc = "core vault" /\ pc' = "save" /\ buf' = buf /\ has' = has
    BY <1>8 DEF WriteCoreVault
  <2>2. /\ vault'[h][s] = vault[h][s]
        /\ vault'[Core][s] \in {buf[Core][s], vault[Core][s]}
    BY <1>0, <1>1, <1>8, CoreVaultEffect DEF Or
  <2> QED BY <1>1, <2>1, <2>2 DEF Writing
<1>9. CASE save_manifest \/ Abort
  <2>1. /\ pc # "vault" /\ pc' = "idle" /\ vault' = vault /\ has' = has
        /\ buf'[Core][s] = 0
    BY <1>1, <1>9, DiscardType DEF save_manifest, Abort, disk
  <2> QED BY <1>1, <2>1 DEF Writing
<1>10. CASE Release
  BY <1>2, <1>10 DEF Release
<1>11. CASE UNCHANGED vars
  BY <1>1, <1>11 DEF vars, disk, Writing
<1> QED
  BY <1>3, <1>4, <1>5, <1>6, <1>7, <1>8, <1>9, <1>10, <1>11 DEF Next, _handle_dependency

LEMMA AgreeInit == Init => AgreeInv
<1> SUFFICES ASSUME Init PROVE AgreeInv
  OBVIOUS
<1>1. \A s \in Provided : /\ s \in Secrets /\ Holder[s] \in Components
                         /\ Core \in Components
  BY Kinds, Constants
<1>2. \A c \in Components, s \in Secrets : vault[c][s] = 0 /\ buf[c][s] = 0
  BY DEF Init, NoValues
<1>3. pc = "idle" /\ has = {}
  BY DEF Init
<1> QED
  BY <1>1, <1>2, <1>3, TypeInit
     DEF AgreeInv, OwnedCopiesAgree, BufferInv, CopyInv, Writing, Provided

\* If no run dies between a vars.yml and its vault.yml, the core never holds a
\* stale copy of a secret that a provider owns.
THEOREM CopiesAgree ==
  ASSUME TornWrites = FALSE
  PROVE  Spec => []OwnedCopiesAgree
<1>1. AgreeInv /\ [Next]_vars => AgreeInv'
  BY TypeStep, BufferStep, CopyStep DEF AgreeInv
<1>2. AgreeInv => OwnedCopiesAgree
  BY DEF AgreeInv
<1> QED BY <1>1, <1>2, AgreeInit, PTL DEF Spec

-----------------------------------------------------------------------------
(* What the core stores is decided. *)

\* Where a run is, and what it has decided on the way there.
LEMMA ScopeStep ==
  ASSUME TypeOK, ScopeInv, [Next]_vars PROVE ScopeInv'
<1>1. ASSUME NEW t \in Targets, NEW a \in {"replay", "override"}, bootstrap(t, a)
      PROVE ScopeInv'
  BY <1>1 DEF bootstrap, disk, ScopeInv, WritesCore
<1>2. CASE _ask_core
  BY <1>2 DEF _ask_core, disk, ScopeInv, WritesCore, Undecided
<1>3. CASE \E p \in Providers : \/ skip(p) \/ reuse(p)
                               \/ \E c \in {"keep", "redo", "declare"} : external(p, c)
  <2>1. /\ pc \in {"core", "deps"} /\ pc' = "deps" /\ ans \subseteq ans'
        /\ UNCHANGED <<disk, target, action>>
    BY <1>3, CoreStores
  <2>2. pc = "deps"
    BY <1>3 DEF skip, reuse, external, Chosen
  <2> QED BY <2>1, <2>2 DEF disk, ScopeInv, WritesCore
<1>4. ASSUME NEW p \in Providers, deploy(p) PROVE ScopeInv'
  BY <1>4 DEF deploy, Chosen, ScopeInv, WritesCore
<1>5. CASE WriteProviderVault \/ WriteCoreVault
  BY <1>5 DEF WriteProviderVault, WriteCoreVault, ScopeInv, WritesCore
<1>6. CASE write_core
  BY <1>6 DEF write_core, ScopeInv, WritesCore
<1>7. CASE save_manifest \/ Abort
  BY <1>7 DEF save_manifest, Abort, Discard, ScopeInv
<1>8. CASE Release
  BY <1>8 DEF Release, ScopeInv, WritesCore
<1>9. CASE UNCHANGED vars
  BY <1>9 DEF vars, disk, ScopeInv, WritesCore
<1> QED
  BY <1>1, <1>2, <1>3, <1>4, <1>5, <1>6, <1>7, <1>8, <1>9 DEF Next, _handle_dependency

LEMMA DecidedStep ==
  ASSUME TypeOK, BufferInv, ScopeInv, DecidedInv, [Next]_vars PROVE DecidedInv'
<1> SUFFICES ASSUME NEW s \in CoreOwned
             PROVE  /\ vault'[Core][s] # 0 => s \in ref' \cap asks' /\ Core \in has'
                    /\ buf'[Core][s] # 0 =>
                         /\ s \in ans' \cap asks' /\ pc' \notin {"idle", "core"}
                         /\ action' = "override" \/ vault'[Core][s] \in {0, buf'[Core][s]}
                         /\ pc' = "core vault" => s \in ref'
                    /\ pc' = "core" /\ action' = "replay" /\ vault'[Core][s] # 0
                         => s \in ans'
  BY DEF DecidedInv, CoreOwned
<1>1. /\ s \in Secrets /\ Core \in Components
      /\ vault[Core][s] # 0 => s \in ref \cap asks /\ Core \in has
      /\ buf[Core][s] # 0 =>
           /\ s \in ans \cap asks /\ pc \notin {"idle", "core"}
           /\ action = "override" \/ vault[Core][s] \in {0, buf[Core][s]}
           /\ pc = "core vault" => s \in ref
      /\ pc = "core" /\ action = "replay" /\ vault[Core][s] # 0 => s \in ans
  BY Kinds, Constants DEF DecidedInv
<1>2. action \in {"replay", "override"}
  BY DEF TypeOK
<1> DEFINE Goal == /\ vault'[Core][s] # 0 => s \in ref' \cap asks' /\ Core \in has'
                   /\ buf'[Core][s] # 0 =>
                        /\ s \in ans' \cap asks' /\ pc' \notin {"idle", "core"}
                        /\ action' = "override" \/ vault'[Core][s] \in {0, buf'[Core][s]}
                        /\ pc' = "core vault" => s \in ref'
                   /\ pc' = "core" /\ action' = "replay" /\ vault'[Core][s] # 0
                        => s \in ans'
<1>3. ASSUME NEW t \in Targets, NEW a \in {"replay", "override"}, bootstrap(t, a)
      PROVE Goal
  BY <1>1, <1>3 DEF bootstrap, disk, Seed
<1>4. CASE \/ _ask_core
           \/ \E p \in Providers : \/ skip(p) \/ reuse(p)
                                   \/ \E c \in {"keep", "redo", "declare"} : external(p, c)
  <2>1. /\ pc \in {"core", "deps"} /\ pc' = "deps" /\ ans \subseteq ans'
        /\ UNCHANGED <<disk, action>>
        /\ \/ buf'[Core][s] = buf[Core][s]
           \/ _ask_core /\ s \notin ans /\ s \in ans' \cap asks
    BY <1>4, CoreStores
  <2>2. _ask_core => pc = "core"
    BY DEF _ask_core
  <2> QED BY <1>1, <1>2, <2>1, <2>2 DEF disk
<1>5. ASSUME NEW p \in Providers, deploy(p) PROVE Goal
  <2>1. /\ pc = "deps" /\ pc' = "vault" /\ has \subseteq has' /\ ans \subseteq ans'
        /\ UNCHANGED <<asks, ref, vault, action>>
    BY <1>5 DEF deploy, Chosen
  <2>2. buf'[Core][s] = buf[Core][s]
    BY <1>5, DeployCoreOwned
  <2> QED BY <1>1, <2>1, <2>2
<1>6. CASE WriteProviderVault
  <2>1. vault'[Core][s] = vault[Core][s]
    BY <1>1, <1>6, ProviderVaultEffect DEF BufferInv, WriteProviderVault
  <2> QED BY <1>1, <1>6, <2>1 DEF WriteProviderVault
<1>7. CASE write_core
  <2>1. vault[Core][s] # 0 /\ WritesCore => s \in ans \/ action = "replay"
    <3>1. s \in Of("private") \cup Of("mirrored")
      BY DEF CoreOwned
    <3> QED BY <1>1, <1>2, <1>7, <3>1 DEF ScopeInv, write_core
  <2> QED BY <1>1, <1>7, <2>1 DEF write_core
<1>8. CASE WriteCoreVault
  <2>1. vault'[Core][s] = IF action = "override" /\ buf[Core] # NoValues
                          THEN buf[Core][s] ELSE Or(buf[Core][s], vault[Core][s])
    BY <1>1, <1>8, CoreVaultEffect
  <2>2. pc = "core vault" /\ Core \in has
    BY <1>8 DEF WriteCoreVault, ScopeInv
  <2> QED BY <1>1, <1>8, <2>1, <2>2 DEF WriteCoreVault, Or
<1>9. CASE save_manifest \/ Abort
  <2>1. pc' = "idle" /\ buf'[Core][s] = 0 /\ UNCHANGED <<asks, has, ref, vault>>
    BY <1>1, <1>9, DiscardType DEF save_manifest, Abort, disk
  <2> QED BY <1>1, <2>1
<1>10. CASE Release
  BY <1>1, <1>10 DEF Release
<1>11. CASE UNCHANGED vars
  BY <1>1, <1>11 DEF vars, disk
<1> QED
  BY <1>3, <1>4, <1>5, <1>6, <1>7, <1>8, <1>9, <1>10, <1>11 DEF Next, _handle_dependency

\* A step from a state of the invariant rotates no stored value, unless the
\* core overrides or adopts it.
LEMMA RotateStep ==
  ASSUME RotateInv, [Next]_vars, NEW s \in Secrets, NEW o, o = Owner(s),
         vault[o][s] # 0, vault'[o][s] # vault[o][s]
  PROVE  o = Core /\ (action = "override" \/ s \in Adopting)
<1>0. TypeOK /\ BufferInv /\ DecidedInv /\ action \in {"replay", "override"}
  BY DEF RotateInv, TypeOK
<1>1. o \in Components /\ Core \in Components
  BY Kinds, Constants
<1>2. WriteProviderVault \/ WriteCoreVault
  <2>1. vault' # vault
    OBVIOUS
  <2>2. _ask_core => vault' = vault
    BY DEF _ask_core, disk
  <2>3. \A p \in Providers : _handle_dependency(p) => vault' = vault
    BY DEF _handle_dependency, skip, reuse, external, deploy, Chosen
  <2> QED BY <2>1, <2>2, <2>3
          DEF Next, vars, disk, bootstrap, write_core, save_manifest, Abort, Release
<1>3. CASE s \in Provided
  <2>1. /\ o = Holder[s] /\ o # Core
        /\ buf[o][s] \in {0, vault[o][s]}
    BY <1>0, <1>3, Kinds DEF BufferInv
  <2>2. CASE WriteProviderVault
    BY <1>0, <1>1, <2>1, <2>2, ProviderVaultEffect DEF Or
  <2>3. CASE WriteCoreVault
    BY <1>0, <1>1, <2>1, <2>3, CoreVaultEffect
  <2> QED BY <1>2, <2>2, <2>3
<1>4. CASE s \in CoreOwned
  <2>1. o = Core /\ (buf[Core][s] # 0 => \/ action = "override"
                                       \/ vault[Core][s] \in {0, buf[Core][s]})
    BY <1>0, <1>4, Kinds DEF DecidedInv
  <2>2. CASE WriteProviderVault
    BY <1>0, <1>1, <2>1, <2>2, ProviderVaultEffect DEF Or
  <2>3. CASE WriteCoreVault
    BY <1>0, <1>1, <2>1, <2>3, CoreVaultEffect DEF Or
  <2> QED BY <1>2, <2>2, <2>3
<1> QED BY <1>3, <1>4, Kinds

LEMMA RotateInit == Init => RotateInv
<1> SUFFICES ASSUME Init PROVE RotateInv
  OBVIOUS
<1>1. /\ \A s \in Provided : s \in Secrets /\ Holder[s] \in Components
      /\ \A s \in CoreOwned : s \in Secrets
      /\ Core \in Components
  BY Kinds, Constants
<1>2. \A c \in Components, s \in Secrets : vault[c][s] = 0 /\ buf[c][s] = 0
  BY DEF Init, NoValues
<1>3. pc = "idle" /\ action = "replay"
  BY DEF Init
<1> QED
  BY <1>1, <1>2, <1>3, TypeInit DEF RotateInv, BufferInv, DecidedInv, ScopeInv

\* A stored value changes only when its owner is the core and the run overrides
\* it or adopts a provider's, whatever was cancelled, killed or replayed.
THEOREM NeverRotated == Spec => SecretsNeverRotate
<1> DEFINE Kept(s) == LET o == Owner(s) IN
                      vault[o][s] # Absent /\ vault'[o][s] # vault[o][s]
                        => o = Core /\ (action = "override" \/ s \in Adopting)
<1>1. RotateInv /\ [Next]_vars => RotateInv'
  BY TypeStep, BufferStep, ScopeStep, DecidedStep DEF RotateInv
<1>2. RotateInv /\ [Next]_vars => [\A s \in Secrets : Kept(s)]_vars
  <2> SUFFICES ASSUME RotateInv, [Next]_vars, NEW s \in Secrets PROVE Kept(s)
    OBVIOUS
  <2> QED BY RotateStep
<1> QED BY <1>1, <1>2, RotateInit, PTL DEF Spec, SecretsNeverRotate

-----------------------------------------------------------------------------
(* Every reference resolves, and a run of the whole app aligns both sides. *)

\* What _ask_core puts into the core's buffer, and into the answers.
LEMMA AskEffect ==
  ASSUME TypeOK, _ask_core, NEW s \in Secrets
  PROVE  /\ buf'[Core][s] = buf[Core][s] \/ buf'[Core][s] # 0
         /\ s \in ans' => s \in ans \/ buf'[Core][s] # 0
         /\ s \in asks \cap (Of("private") \cup Of("mirrored")) => s \in ans'
         /\ did' = did
<1> DEFINE new == Undecided(asks \cap (Of("private") \cup Of("mirrored")))
           val == [x \in Secrets |-> mints[x] + 1]
<1>1. Store({Core}, new, val) /\ CanMint(new) /\ ans' = ans \cup new /\ did' = did
  BY DEF _ask_core
<1>2. new \in SUBSET Secrets /\ Core \in Components
  BY Constants DEF Undecided, Of
<1>3. s \in asks \cap (Of("private") \cup Of("mirrored")) => s \in ans \cup new
  BY DEF Undecided
<1>4. s \in new => val[s] # 0
  <2> HIDE DEF new
  <2> QED BY <1>1, <1>2, FreshType
<1>5. buf'[Core][s] = IF s \in new THEN val[s] ELSE buf[Core][s]
  <2> HIDE DEF new, val
  <2> QED BY <1>1, <1>2, StoreEffect
<1> HIDE DEF new, val
<1> QED BY <1>1, <1>3, <1>4, <1>5

\* The same for a dependency that is external or reused.
LEMMA ExternalEffect ==
  ASSUME TypeOK, NEW p \in Providers, NEW c \in {"keep", "redo", "declare"},
         external(p, c), NEW s \in Secrets
  PROVE  /\ buf'[Core][s] = IF s \in Typed(p, c) THEN Theirs ELSE buf[Core][s]
         /\ s \in ans' => s \in ans \/ s \in Typed(p, c)
         /\ Typed(p, c) \subseteq Own(p)
         /\ did' = [did EXCEPT ![p] = c]
<1> DEFINE val == [x \in Secrets |-> Theirs]
<1>1. Store({Core}, Typed(p, c), val) /\ ans' = ans \cup Typed(p, c)
      /\ did' = [did EXCEPT ![p] = c]
  BY DEF external, Chosen
<1>2. Typed(p, c) \subseteq Own(p)
  BY DEF Typed
<1>3. buf'[Core][s] = IF s \in Typed(p, c) THEN val[s] ELSE buf[Core][s]
  <2>1. Core \in Components
    BY Constants
  <2> HIDE DEF val
  <2> QED BY <1>1, <2>1, StoreEffect
<1>4. val[s] = Theirs
  OBVIOUS
<1> HIDE DEF val
<1> QED BY <1>1, <1>2, <1>3, <1>4

LEMMA ReuseEffect ==
  ASSUME TypeOK, NEW p \in Providers, reuse(p), NEW s \in Secrets
  PROVE  /\ buf'[Core][s] = IF s \in Taken(p) THEN Or(vault[p][s], mints[s] + 1)
                            ELSE buf[Core][s]
         /\ s \in Taken(p) => buf'[Core][s] # 0
         /\ s \in ans' => s \in ans \/ s \in Taken(p)
         /\ Taken(p) \subseteq Own(p) /\ Own(p) \cap Adopting \subseteq Taken(p)
         /\ p \in has /\ did' = [did EXCEPT ![p] = "reuse"]
<1> DEFINE typed == {x \in Taken(p) : vault[p][x] = Absent}
           val == [x \in Secrets |-> Or(vault[p][x], mints[x] + 1)]
<1>1. /\ Store({Core}, Taken(p), val) /\ CanMint(typed) /\ ans' = ans \cup Taken(p)
      /\ did' = [did EXCEPT ![p] = "reuse"] /\ p \in has
  BY DEF reuse, Chosen, Choices
<1>2. Taken(p) \subseteq Own(p) /\ Own(p) \cap Adopting \subseteq Taken(p)
      /\ typed \in SUBSET Secrets
  BY DEF Taken, Own
<1>3. buf'[Core][s] = IF s \in Taken(p) THEN val[s] ELSE buf[Core][s]
  <2>1. Core \in Components
    BY Constants
  <2>2. Store({Core}, Taken(p), val)
    BY <1>1
  <2> HIDE DEF typed, val
  <2>3. \A d \in Components, x \in Secrets :
          buf'[d][x] = IF d = Core /\ x \in Taken(p) THEN val[x] ELSE buf[d][x]
    BY <2>2, StoreEffect
  <2> QED BY <2>1, <2>3
<1>4. val[s] = Or(vault[p][s], mints[s] + 1)
  OBVIOUS
<1>5. s \in Taken(p) /\ vault[p][s] = 0 => mints[s] + 1 # 0
  <2>1. s \in Taken(p) /\ vault[p][s] = 0 => s \in typed
    OBVIOUS
  <2> HIDE DEF typed
  <2> QED BY <1>1, <1>2, <2>1, FreshType
<1> HIDE DEF typed, val
<1> QED BY <1>1, <1>2, <1>3, <1>4, <1>5 DEF Or

\* A deploy decides every secret of its provider: none that was issued is lost.
LEMMA DeployOwn ==
  ASSUME TypeOK, HeldInv, NEW p \in Providers, deploy(p), NEW s \in Secrets
  PROVE  /\ s \notin Own(p) => \A c \in Components : buf'[c][s] = buf[c][s]
         /\ s \in Own(p) =>
              /\ buf'[p][s] # 0
              /\ Committed(p, s) # 0 => buf'[p][s] = Committed(p, s)
              /\ buf'[Core][s] = IF s \in Of("mirrored") THEN buf[Core][s] ELSE buf'[p][s]
<1> DEFINE lost == IF p \in has THEN {x \in Own(p) \cap Of("issued") : vault[p][x] = Absent}
                                ELSE {}
           S    == Own(p) \ lost
           new  == {x \in S : Committed(p, x) = Absent}
           val  == [x \in Secrets |-> mints[x] + 1]
<1>1. StoreBoth(p, S, Of("mirrored"), val) /\ CanMint(new) /\ pc = "deps"
  BY DEF deploy, Chosen
<1>2. S = Own(p)
  <2>1. p \in has => \A x \in Own(p) : vault[p][x] # 0
    BY <1>1 DEF HeldInv, Held, Writing
  <2> QED BY <2>1
<1>3. p \in Components /\ Core \in Components /\ p # Core /\ new \in SUBSET Secrets
  BY Constants, ComponentAssumption DEF Own
<1>4. s \in Own(p) /\ Committed(p, s) = 0 => val[s] # 0
  <2>1. s \in Own(p) /\ Committed(p, s) = 0 => s \in new
    BY <1>2
  <2>2. val[s] = mints[s] + 1
    OBVIOUS
  <2> HIDE DEF new, val
  <2> QED BY <1>1, <1>3, <2>1, <2>2, FreshType
<1>5. ASSUME NEW c \in Components
      PROVE  buf'[c][s] = IF s \in Own(p) /\ (c = p \/ (c = Core /\ s \notin Of("mirrored")))
                            THEN Or(Committed(p, s), val[s]) ELSE buf[c][s]
  <2> HIDE DEF S, val
  <2> QED BY <1>1, <1>2, <1>5 DEF StoreBoth
<1>6. Or(Committed(p, s), val[s]) = IF Committed(p, s) # 0 THEN Committed(p, s) ELSE val[s]
  BY DEF Or
<1> HIDE DEF S, new, val
<1> QED BY <1>3, <1>4, <1>5, <1>6

LEMMA HeldStep ==
  ASSUME TypeOK, BufferInv, HeldInv, [Next]_vars, TornWrites = FALSE
  PROVE  HeldInv'
<1>0. did \in [Providers -> {None, "skip", "keep", "redo", "declare", "reuse", "deploy"}]
  BY DEF TypeOK
<1>1. CASE /\ pc # "vault" /\ pc' # "vault" /\ UNCHANGED <<unit, vault>>
           /\ \A p \in Providers : /\ p \in has' <=> p \in has
                                   /\ did'[p] \in {"reuse", "deploy"} => p \in has
                                   /\ pc' \in {"idle", "core"} => did'[p] = None
  BY <1>1 DEF HeldInv, Held, Writing
<1>2. ASSUME NEW t \in Targets, NEW a \in {"replay", "override"}, bootstrap(t, a)
      PROVE  HeldInv'
  <2>1. pc = "idle" /\ pc' # "vault" /\ UNCHANGED <<unit, vault, has, did>>
    BY <1>2 DEF bootstrap, disk
  <2> QED BY <1>1, <2>1 DEF HeldInv
<1>3. CASE _ask_core
  <2>1. pc = "core" /\ pc' = "deps" /\ UNCHANGED <<unit, vault, has, did>>
    BY <1>3 DEF _ask_core, disk
  <2> QED BY <1>1, <2>1 DEF HeldInv
<1>4. ASSUME NEW p \in Providers, skip(p) PROVE HeldInv'
  <2>1. pc = "deps" /\ pc' = "deps" /\ UNCHANGED <<unit, vault, has>>
        /\ did' = [did EXCEPT ![p] = "skip"]
    BY <1>4 DEF skip, Chosen
  <2> QED BY <1>0, <1>1, <2>1 DEF HeldInv
<1>5. ASSUME NEW p \in Providers, NEW c \in {"keep", "redo", "declare"}, external(p, c)
      PROVE  HeldInv'
  <2>1. pc = "deps" /\ pc' = "deps" /\ UNCHANGED <<unit, vault, has>>
        /\ did' = [did EXCEPT ![p] = c]
    BY <1>5 DEF external, Chosen
  <2> QED BY <1>0, <1>1, <2>1 DEF HeldInv
<1>6. ASSUME NEW p \in Providers, reuse(p) PROVE HeldInv'
  <2>1. pc = "deps" /\ pc' = "deps" /\ UNCHANGED <<unit, vault, has>>
        /\ did' = [did EXCEPT ![p] = "reuse"] /\ p \in has
    BY <1>6 DEF reuse, Chosen, Choices
  <2> QED BY <1>0, <1>1, <2>1 DEF HeldInv
<1>7. ASSUME NEW p \in Providers, deploy(p) PROVE HeldInv'
  <2>1. /\ pc = "deps" /\ pc' = "vault" /\ cur' = p /\ UNCHANGED <<unit, vault>>
        /\ did' = [did EXCEPT ![p] = "deploy"] /\ has' = has \cup {p}
    BY <1>7 DEF deploy, Chosen
  <2>2. \A x \in Own(p) : buf'[p][x] # 0
    BY <1>7, DeployOwn DEF Own
  <2>3. \A x \in Own(p) : Held(p, x)' # 0
    BY <2>1, <2>2 DEF Held, Writing, Or
  <2>4. ASSUME NEW q \in Providers, q # p, q \in has', NEW x \in Own(q)
        PROVE  Held(q, x)' # 0
    BY <2>1, <2>4 DEF HeldInv, Held, Writing
  <2>5. \A q \in Providers : q \in has' => \A x \in Own(q) : Held(q, x)' # 0
    BY <2>3, <2>4
  <2> QED BY <1>0, <2>1, <2>5 DEF HeldInv
<1>8. CASE WriteProviderVault
  <2>1. pc = "vault" /\ pc' = "deps" /\ UNCHANGED <<unit, has, did>>
    BY <1>8 DEF WriteProviderVault
  <2>2. ASSUME NEW q \in Providers, NEW x \in Own(q) PROVE Held(q, x)' = Held(q, x)
    <3>1. q \in Components /\ x \in Secrets
      BY Constants DEF Own
    <3>2. vault'[q][x] = IF q = cur THEN Or(buf[q][x], vault[q][x]) ELSE vault[q][x]
      BY <1>8, <3>1, ProviderVaultEffect
    <3> QED BY <2>1, <3>2 DEF Held, Writing
  <2> QED BY <2>1, <2>2 DEF HeldInv
<1>9. CASE write_core
  <2>1. pc = "deps" /\ pc' \in {"core vault", "save"} /\ UNCHANGED <<unit, vault, did>>
        /\ has' \in {has, has \cup {Core}}
    BY <1>9 DEF write_core
  <2> QED BY <1>1, <2>1, ComponentAssumption DEF HeldInv
<1>10. CASE WriteCoreVault
  <2>1. pc = "core vault" /\ pc' = "save" /\ UNCHANGED <<unit, has, did>>
    BY <1>10 DEF WriteCoreVault
  <2>2. ASSUME NEW q \in Providers, NEW x \in Own(q) PROVE Held(q, x)' = Held(q, x)
    <3>1. q \in Components /\ q # Core /\ x \in Secrets
      BY Constants, ComponentAssumption DEF Own
    <3>2. vault'[q][x] = vault[q][x]
      BY <1>10, <3>1, CoreVaultEffect
    <3> QED BY <2>1, <3>2 DEF Held, Writing
  <2> QED BY <2>1, <2>2 DEF HeldInv
<1>11. CASE save_manifest
  <2>1. /\ pc = "save" /\ pc' = "idle" /\ UNCHANGED <<vault, has>>
        /\ \A p \in Providers : did'[p] = None
    BY <1>11 DEF save_manifest, Discard
  <2>2. ASSUME NEW p \in Providers, unit'[p] = Managed PROVE p \in has
    <3>1. p \in Components /\ p # Core
      BY Constants, ComponentAssumption
    <3>2. unit[p] = Managed \/ did[p] \in {"reuse", "deploy"}
      BY <1>11, <2>2, <3>1 DEF save_manifest
    <3> QED BY <3>2 DEF HeldInv
  <2>3. \A p \in Providers : \A x \in Own(p) : Held(p, x)' = Held(p, x)
    BY <2>1 DEF Held, Writing
  <2> QED BY <2>1, <2>2, <2>3 DEF HeldInv
<1>12. CASE Abort
  <2>1. /\ pc # "vault" /\ pc' = "idle" /\ UNCHANGED <<unit, vault, has>>
        /\ \A p \in Providers : did'[p] = None
    BY <1>12 DEF Abort, Discard, disk
  <2> QED BY <1>1, <2>1
<1>13. CASE Release \/ UNCHANGED vars
  BY <1>13 DEF Release, vars, disk, HeldInv, Held, Writing
<1> QED
  BY <1>2, <1>3, <1>4, <1>5, <1>6, <1>7, <1>8, <1>9, <1>10, <1>11, <1>12, <1>13
     DEF Next, _handle_dependency

\* The answers a dependency step adds have a value in the core's buffer.
LEMMA AnswersComing ==
  ASSUME TypeOK, NEW s \in Secrets, s \in ans => Coming(s) # 0,
         buf'[Core][s] = buf[Core][s] \/ buf'[Core][s] # 0,
         s \in ans' => s \in ans \/ buf'[Core][s] # 0,
         UNCHANGED <<vault, action>>
  PROVE  s \in ans' => Coming(s)' # 0
BY DEF Coming, Or

LEMMA CoreStep ==
  ASSUME TypeOK, BufferInv, ScopeInv, HeldInv, CoreInv, [Next]_vars, TornWrites = FALSE
  PROVE  CoreInv'
<1>0. ans \subseteq Secrets /\ ref \subseteq Secrets /\ action \in {"replay", "override"}
      /\ Core \in Components /\ Of("mirrored") \subseteq asks /\ Theirs # 0
  <2>1. Theirs # 0
    BY MintAssumption DEF Theirs
  <2>2. Core \in Components
    BY DEF Components
  <2> QED BY <2>1, <2>2 DEF TypeOK, CoreInv
<1>1. ASSUME pc = "deps" \/ pc = "core", pc' \in {"deps", "vault"},
             UNCHANGED <<asks, ref, vault, target, action>>, ans' \subseteq Secrets,
             WritesCore => \A s \in Secrets :
               /\ buf'[Core][s] = buf[Core][s] \/ buf'[Core][s] # 0
               /\ s \in ans' => s \in ans \/ buf'[Core][s] # 0
      PROVE  CoreInv'
  <2>1. CoreResolves
    BY <1>1 DEF CoreInv
  <2>2. CoreResolves'
    BY <1>1, <2>1 DEF CoreResolves
  <2>3. WritesCore' => WritesCore
    BY <1>1 DEF WritesCore
  <2>4. ASSUME WritesCore, NEW s \in ans' PROVE Coming(s)' # 0
    <3>1. s \in Secrets /\ (s \in ans => Coming(s) # 0)
      BY <1>1, <2>4 DEF CoreInv
    <3> QED BY <1>1, <2>4, <3>1, AnswersComing
  <2> QED BY <1>0, <1>1, <2>2, <2>3, <2>4 DEF CoreInv
<1>2. ASSUME NEW t \in Targets, NEW a \in {"replay", "override"}, bootstrap(t, a)
      PROVE  CoreInv'
  <2>1. /\ pc = "idle" /\ pc' \in {"core", "deps"} /\ UNCHANGED <<asks, ref, vault, buf>>
        /\ target' = t /\ action' = a /\ ans' = Seed(t, a)
    BY <1>2 DEF bootstrap, disk
  <2>2. CoreResolves /\ CoreResolves'
    BY <2>1 DEF CoreInv, CoreResolves
  <2>3. ASSUME NEW s \in ans' PROVE Coming(s)' # 0
    <3>1. s \in ref /\ a = "replay"
      BY <2>1, <2>3 DEF Seed
    <3> QED BY <2>1, <2>2, <3>1 DEF Coming, Or, CoreResolves
  <2> QED BY <1>0, <2>1, <2>2, <2>3 DEF CoreInv
<1>3. CASE _ask_core
  <2>1. pc = "core" /\ pc' = "deps" /\ UNCHANGED <<asks, ref, vault, target, action>>
    BY <1>3 DEF _ask_core, disk
  <2>2. ans' \subseteq Secrets
    BY <1>3, TypeStep DEF TypeOK
  <2> QED BY <1>1, <1>3, <2>1, <2>2, AskEffect
<1>4. ASSUME NEW p \in Providers, skip(p) PROVE CoreInv'
  <2>1. pc = "deps" /\ pc' = "deps" /\ UNCHANGED <<asks, ref, vault, target, action, ans, buf>>
    BY <1>4 DEF skip, Chosen
  <2> QED BY <1>0, <1>1, <2>1
<1>5. ASSUME NEW p \in Providers, NEW c \in {"keep", "redo", "declare"}, external(p, c)
      PROVE  CoreInv'
  <2>1. pc = "deps" /\ pc' = "deps" /\ UNCHANGED <<asks, ref, vault, target, action>>
    BY <1>5 DEF external, Chosen
  <2>2. ans' \subseteq Secrets
    BY TypeStep DEF TypeOK
  <2>3. ASSUME NEW s \in Secrets
        PROVE  /\ buf'[Core][s] = buf[Core][s] \/ buf'[Core][s] # 0
               /\ s \in ans' => s \in ans \/ buf'[Core][s] # 0
    BY <1>0, <1>5, ExternalEffect
  <2> QED BY <1>1, <2>1, <2>2, <2>3
<1>6. ASSUME NEW p \in Providers, reuse(p) PROVE CoreInv'
  <2>1. pc = "deps" /\ pc' = "deps" /\ UNCHANGED <<asks, ref, vault, target, action>>
    BY <1>6 DEF reuse, Chosen
  <2>2. ans' \subseteq Secrets
    BY TypeStep DEF TypeOK
  <2>3. ASSUME NEW s \in Secrets
        PROVE  /\ buf'[Core][s] = buf[Core][s] \/ buf'[Core][s] # 0
               /\ s \in ans' => s \in ans \/ buf'[Core][s] # 0
    BY <1>6, ReuseEffect
  <2> QED BY <1>1, <2>1, <2>2, <2>3
<1>7. ASSUME NEW p \in Providers, deploy(p) PROVE CoreInv'
  <2>1. /\ pc = "deps" /\ pc' = "vault" /\ UNCHANGED <<asks, ref, vault, target, action>>
        /\ ans' = ans \cup Own(p)
    BY <1>7 DEF deploy, Chosen
  <2>2. ans' \subseteq Secrets
    BY TypeStep DEF TypeOK
  <2>3. ASSUME WritesCore, NEW s \in Secrets
        PROVE  /\ buf'[Core][s] = buf[Core][s] \/ buf'[Core][s] # 0
               /\ s \in ans' => s \in ans \/ buf'[Core][s] # 0
    <3>1. s \in Of("mirrored") => s \in ans
      BY <1>0, <2>1, <2>3 DEF ScopeInv
    <3>2. CASE s \in Own(p)
      BY <1>7, <3>1, <3>2, DeployOwn
    <3>3. CASE s \notin Own(p)
      BY <1>0, <1>7, <2>1, <3>3, DeployOwn
    <3> QED BY <3>2, <3>3
  <2> QED BY <1>1, <2>1, <2>2, <2>3
<1>8. CASE WriteProviderVault
  <2>1. /\ pc = "vault" /\ pc' = "deps" /\ cur # Core
        /\ UNCHANGED <<asks, ref, target, action, ans, buf>>
    BY <1>8 DEF WriteProviderVault, BufferInv
  <2>2. \A s \in Secrets : vault'[Core][s] = vault[Core][s]
    BY <1>0, <1>8, <2>1, ProviderVaultEffect
  <2>3. CoreResolves /\ CoreResolves'
    BY <1>0, <2>1, <2>2 DEF CoreInv, CoreResolves
  <2>4. \A s \in ans : Coming(s)' = Coming(s)
    BY <1>0, <2>1, <2>2 DEF Coming
  <2> QED BY <1>0, <2>1, <2>3, <2>4 DEF CoreInv, WritesCore
<1>9. CASE write_core
  <2>1. pc = "deps" /\ UNCHANGED <<asks, vault, target, action, ans, buf>>
    BY <1>9 DEF write_core
  <2>2. CoreResolves /\ \A s : Coming(s)' = Coming(s)
    BY <2>1 DEF CoreInv, Coming
  <2>3. CASE WritesCore
    <3>1. pc' = "core vault"
          /\ ref' = ans \cup IF action = "override" THEN {} ELSE ref
      BY <1>9, <2>3 DEF write_core
    <3>2. ASSUME NEW s \in ref' PROVE Coming(s) # 0
      <4>1. CASE s \in ans
        BY <2>1, <2>3, <4>1 DEF CoreInv
      <4>2. CASE s \in ref /\ action # "override"
        BY <2>2, <4>2 DEF CoreResolves, Coming, Or
      <4> QED BY <3>1, <3>2, <4>1, <4>2
    <3> QED BY <1>0, <2>1, <2>2, <3>1, <3>2 DEF CoreInv
  <2>4. CASE ~WritesCore
    <3>1. pc' = "save" /\ ref' = ref
      BY <1>9, <2>4 DEF write_core
    <3> QED BY <1>0, <2>1, <2>2, <3>1 DEF CoreInv, CoreResolves
  <2> QED BY <2>3, <2>4
<1>10. CASE WriteCoreVault
  <2>1. pc = "core vault" /\ pc' = "save" /\ UNCHANGED <<asks, ref>>
    BY <1>10 DEF WriteCoreVault
  <2>2. ASSUME NEW s \in ref PROVE vault'[Core][s] # 0
    <3>1. Coming(s) # 0 /\ s \in Secrets
      BY <1>0, <2>1, <2>2 DEF CoreInv
    <3>2. buf[Core] = NoValues => buf[Core][s] = 0
      BY <3>1 DEF NoValues
    <3>3. vault'[Core][s] = IF action = "override" /\ buf[Core] # NoValues
                            THEN buf[Core][s] ELSE Or(buf[Core][s], vault[Core][s])
      BY <1>0, <1>10, <3>1, CoreVaultEffect
    <3> QED BY <3>1, <3>2, <3>3 DEF Coming
  <2> QED BY <1>0, <2>1, <2>2 DEF CoreInv, CoreResolves
<1>11. CASE save_manifest \/ Abort
  <2>1. pc # "core vault" /\ pc' = "idle" /\ UNCHANGED <<asks, ref, vault>>
    BY <1>11 DEF save_manifest, Abort, Discard, disk
  <2> QED BY <1>0, <2>1 DEF CoreInv, CoreResolves
<1>12. CASE Release
  <2>1. pc = "idle" /\ pc' = "idle" /\ asks' = Secrets /\ UNCHANGED <<ref, vault>>
    BY <1>12 DEF Release
  <2> QED BY <2>1 DEF CoreInv, CoreResolves, Of
<1>13. CASE UNCHANGED vars
  BY <1>13 DEF vars, disk, CoreInv, CoreResolves, Coming, WritesCore
<1> QED
  BY <1>2, <1>3, <1>4, <1>5, <1>6, <1>7, <1>8, <1>9, <1>10, <1>11, <1>12, <1>13
     DEF Next, _handle_dependency

LEMMA ResolveInit == Init => ResolveInv
<1> SUFFICES ASSUME Init PROVE ResolveInv
  OBVIOUS
<1>1. /\ pc = "idle" /\ has = {} /\ ref = {} /\ asks = Secrets \ Newer
      /\ action = "replay"
      /\ \A p \in Providers : did[p] = None /\ unit[p] = None
  BY Constants DEF Init
<1>2. RotateInv
  BY RotateInit
<1>3. Of("mirrored") \subseteq asks
  BY <1>1, NewerAssumption DEF Of
<1> QED
  BY <1>1, <1>2, <1>3
     DEF ResolveInv, RotateInv, HeldInv, CoreInv, CoreResolves, AlignInv

\* In a state of the invariant every registered component finds its secrets.
LEMMA Resolved == HeldInv /\ CoreInv => ReferencesResolve
BY DEF HeldInv, CoreInv, ReferencesResolve, Held, Writing

LEMMA AlignStep ==
  ASSUME TypeOK, BufferInv, ScopeInv, HeldInv, CoreInv, AlignInv, [Next]_vars,
         TornWrites = FALSE
  PROVE  AlignInv'
<1>0. /\ did \in [Providers -> {None, "skip", "keep", "redo", "declare", "reuse", "deploy"}]
      /\ action \in {"replay", "override"} /\ Core \in Components
  BY DEF TypeOK, Components
<1> DEFINE Due(p, s) == did[p] = "deploy" \/ (did[p] = "reuse" /\ s \in Adopting)
           Ends(s)   == IF pc = "save" THEN vault[Core][s] ELSE Coming(s)
<1>1. SUFFICES ASSUME pc' \notin {"idle", "core"}, target' = All,
                      NEW p \in Providers, NEW s \in Own(p),
                      did'[p] = "deploy" \/ (did'[p] = "reuse" /\ s \in Adopting)
               PROVE  LET v == IF pc' = "save" THEN vault'[Core][s] ELSE Coming(s)' IN
                      v # 0 /\ v = Held(p, s)'
  BY DEF AlignInv
<1>2. s \in Secrets /\ p \in Components /\ p # Core
  BY Constants, ComponentAssumption DEF Own
<1>3. /\ pc \notin {"idle", "core"} /\ target = All /\ Due(p, s)
         => Ends(s) # 0 /\ Ends(s) = Held(p, s)
  BY DEF AlignInv
<1> DEFINE Goal == LET v == IF pc' = "save" THEN vault'[Core][s] ELSE Coming(s)' IN
                   v # 0 /\ v = Held(p, s)'
\* A step that leaves this secret and the provider's files alone.
<1>4. CASE /\ pc \notin {"idle", "core", "save", "vault"}
           /\ pc' \notin {"save", "vault"}
           /\ target = All /\ did'[p] = did[p] /\ UNCHANGED <<action, vault>>
           /\ buf'[Core][s] = buf[Core][s]
  BY <1>1, <1>3, <1>4 DEF Coming, Held, Writing
<1>5. CASE \E t \in Targets, a \in {"replay", "override"} : bootstrap(t, a)
  BY <1>1, <1>5 DEF bootstrap, HeldInv
<1>6. CASE _ask_core
  BY <1>1, <1>6 DEF _ask_core, HeldInv
<1>7. ASSUME NEW q \in Providers, q # p PROVE s \notin Own(q)
  BY <1>7 DEF Own
<1>8. ASSUME NEW q \in Providers, skip(q) PROVE Goal
  <2>1. /\ pc = "deps" /\ pc' = "deps" /\ UNCHANGED <<vault, target, action, buf>>
        /\ did' = [did EXCEPT ![q] = "skip"]
    BY <1>8 DEF skip, Chosen
  <2>2. q # p
    BY <1>0, <1>1, <2>1
  <2>3. did'[p] = did[p]
    BY <1>0, <2>1, <2>2
  <2> QED BY <1>1, <1>4, <2>1, <2>3
<1>9. ASSUME NEW q \in Providers, NEW c \in {"keep", "redo", "declare"}, external(q, c)
      PROVE  Goal
  <2>1. pc = "deps" /\ pc' = "deps" /\ UNCHANGED <<vault, target, action>>
        /\ did' = [did EXCEPT ![q] = c]
    BY <1>9 DEF external, Chosen
  <2>2. q # p
    BY <1>0, <1>1, <2>1
  <2>3. did'[p] = did[p]
    BY <1>0, <2>1, <2>2
  <2>4. buf'[Core][s] = buf[Core][s]
    BY <1>2, <1>7, <1>9, <2>2, ExternalEffect
  <2> QED BY <1>1, <1>4, <2>1, <2>3, <2>4
<1>10. ASSUME NEW q \in Providers, reuse(q) PROVE Goal
  <2>1. pc = "deps" /\ pc' = "deps" /\ UNCHANGED <<vault, target, action, has>>
        /\ did' = [did EXCEPT ![q] = "reuse"] /\ q \in has
    BY <1>10 DEF reuse, Chosen, Choices
  <2>2. CASE q # p
    <3>1. did'[p] = did[p]
      BY <1>0, <2>1, <2>2
    <3>2. buf'[Core][s] = buf[Core][s]
      BY <1>2, <1>7, <1>10, <2>2, ReuseEffect
    <3> QED BY <1>1, <1>4, <2>1, <3>1, <3>2
  <2>3. CASE q = p
    <3>1. s \in Adopting
      BY <1>0, <1>1, <2>1, <2>3
    <3>2. vault[p][s] # 0
      BY <2>1, <2>3 DEF HeldInv, Held, Writing
    <3>3. buf'[Core][s] = vault[p][s]
      BY <1>2, <1>10, <2>3, <3>1, <3>2, ReuseEffect DEF Or
    <3> QED BY <2>1, <3>2, <3>3 DEF Coming, Held, Writing, Or
  <2> QED BY <2>2, <2>3
<1>11. ASSUME NEW q \in Providers, deploy(q) PROVE Goal
  <2>1. /\ pc = "deps" /\ pc' = "vault" /\ cur' = q /\ UNCHANGED <<vault, target, action, asks>>
        /\ did' = [did EXCEPT ![q] = "deploy"]
    BY <1>11 DEF deploy, Chosen
  <2>2. CASE q # p
    <3>1. did'[p] = did[p]
      BY <1>0, <2>1, <2>2
    <3>2. buf'[Core][s] = buf[Core][s]
      BY <1>0, <1>2, <1>7, <1>11, <2>2, DeployOwn
    <3> QED BY <1>1, <1>3, <2>1, <2>2, <3>1, <3>2 DEF Coming, Held, Writing
  <2>3. CASE q = p
    <3>1. /\ buf'[p][s] # 0
          /\ Committed(p, s) # 0 => buf'[p][s] = Committed(p, s)
          /\ buf'[Core][s] = IF s \in Of("mirrored") THEN buf[Core][s] ELSE buf'[p][s]
      BY <1>2, <1>11, <2>3, DeployOwn
    <3>2. Held(p, s)' = buf'[p][s]
      BY <2>1, <2>3, <3>1 DEF Held, Writing, Or
    <3>3. CASE s \notin Of("mirrored")
      BY <2>1, <3>1, <3>2, <3>3 DEF Coming, Or
    <3>4. CASE s \in Of("mirrored")
      <4>1. WritesCore
        BY <1>1, <2>1 DEF WritesCore
      <4>2. s \in ans
        BY <2>1, <3>4, <4>1 DEF ScopeInv, CoreInv
      <4>3. Coming(s) # 0
        BY <2>1, <4>1, <4>2 DEF CoreInv
      <4>4. Coming(s)' = Coming(s)
        BY <2>1, <3>1, <3>4 DEF Coming
      <4>5. Committed(p, s) = Coming(s)
        BY <1>0, <1>2, <3>4, <4>3 DEF Committed, Coming, Or, Of
      <4> QED BY <2>1, <3>1, <3>2, <4>3, <4>4, <4>5
    <3> QED BY <3>3, <3>4
  <2> QED BY <2>2, <2>3
<1>12. CASE WriteProviderVault
  <2>1. /\ pc = "vault" /\ pc' = "deps" /\ cur # Core
        /\ UNCHANGED <<target, action, did, buf>>
    BY <1>12 DEF WriteProviderVault, BufferInv
  <2>2. vault'[Core][s] = vault[Core][s]
    BY <1>0, <1>2, <1>12, <2>1, ProviderVaultEffect
  <2>3. vault'[p][s] = IF p = cur THEN Or(buf[p][s], vault[p][s]) ELSE vault[p][s]
    BY <1>2, <1>12, ProviderVaultEffect
  <2>4. Coming(s)' = Coming(s) /\ Held(p, s)' = Held(p, s)
    BY <2>1, <2>2, <2>3 DEF Coming, Held, Writing
  <2> QED BY <1>1, <1>3, <2>1, <2>4
<1>13. CASE write_core
  <2>1. /\ pc = "deps" /\ UNCHANGED <<vault, target, action, did, buf>>
        /\ WritesCore => pc' = "core vault"
    BY <1>13 DEF write_core
  <2>2. WritesCore
    BY <1>1, <2>1 DEF WritesCore
  <2> QED BY <1>1, <1>4, <2>1, <2>2
<1>14. CASE WriteCoreVault
  <2>1. pc = "core vault" /\ pc' = "save" /\ UNCHANGED <<target, action, did, buf>>
    BY <1>14 DEF WriteCoreVault
  <2>2. Coming(s) # 0 /\ Coming(s) = Held(p, s)
    BY <1>1, <1>3, <2>1
  <2>3. buf[Core] = NoValues => buf[Core][s] = 0
    BY <1>2 DEF NoValues
  <2>4. vault'[Core][s] = IF action = "override" /\ buf[Core] # NoValues
                          THEN buf[Core][s] ELSE Or(buf[Core][s], vault[Core][s])
    BY <1>0, <1>2, <1>14, CoreVaultEffect
  <2>5. vault'[Core][s] = Coming(s)
    BY <2>2, <2>3, <2>4 DEF Coming
  <2>6. vault'[p][s] = vault[p][s]
    BY <1>2, <1>14, CoreVaultEffect
  <2> QED BY <2>1, <2>2, <2>5, <2>6 DEF Held, Writing
<1>15. CASE save_manifest \/ Abort
  BY <1>1, <1>15 DEF save_manifest, Abort, Discard
<1>16. CASE Release
  BY <1>1, <1>16 DEF Release
<1>17. CASE UNCHANGED vars
  BY <1>1, <1>3, <1>17 DEF vars, disk, Coming, Held, Writing
<1> QED
  BY <1>5, <1>6, <1>8, <1>9, <1>10, <1>11, <1>12, <1>13, <1>14, <1>15, <1>16, <1>17
     DEF Next, _handle_dependency

LEMMA ResolveStep ==
  ASSUME ResolveInv, [Next]_vars, TornWrites = FALSE
  PROVE  ResolveInv'
BY TypeStep, BufferStep, ScopeStep, HeldStep, CoreStep, AlignStep DEF ResolveInv

\* If no run dies between a vars.yml and its vault.yml, every reference of every
\* registered component resolves, whatever was cancelled, reused, overridden or
\* replayed by a later release.
THEOREM AlwaysResolves ==
  ASSUME TornWrites = FALSE
  PROVE  Spec => []ReferencesResolve
<1>1. ResolveInv => ReferencesResolve
  BY Resolved DEF ResolveInv
<1>2. ResolveInv /\ [Next]_vars => ResolveInv'
  BY ResolveStep
<1> QED BY <1>1, <1>2, ResolveInit, PTL DEF Spec

\* Under the same assumption a run of the whole app ends with both sides of
\* every coupling it replayed holding one value.
THEOREM WholeRunAligns ==
  ASSUME TornWrites = FALSE
  PROVE  Spec => []RunAligns
<1>1. ResolveInv => RunAligns
  BY DEF ResolveInv, AlignInv, RunAligns, Agree, Held, Writing
<1>2. ResolveInv /\ [Next]_vars => ResolveInv'
  BY ResolveStep
<1> QED BY <1>1, <1>2, ResolveInit, PTL DEF Spec
============================================================================
