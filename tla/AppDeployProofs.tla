-------------------------- MODULE AppDeployProofs --------------------------
(***************************************************************************)
(* Theorems about AppDeploy for any number of hosts and releases.          *)
(***************************************************************************)
EXTENDS AppDeploy, TLAPS

\* What the proofs use of the constants.
LEMMA Constants ==
  /\ N \in Nat /\ 1 \in Hosts /\ Hosts \subseteq Nat
  /\ "core" \in Units /\ Units \subseteq {"core", "workers"}
  /\ Releases \subseteq Versions /\ 0 \in Versions /\ Versions \subseteq Nat
  /\ 1 \in Releases /\ 0 \notin Releases
  /\ ScriptFrom \in [Releases -> Versions] /\ UnitFrom \in [Releases -> Versions]
  /\ FilesFrom \in [Releases -> Versions]
  /\ NoDir \in Dirs /\ Down \in Service
<1>1. N \in Nat /\ N >= 1 /\ MaxRelease \in Nat /\ MaxRelease >= 1
  BY HostAssumption, ReleaseAssumption
<1>2. Releases \subseteq Versions /\ 0 \in Versions /\ 1 \in Releases
  BY <1>1 DEF Releases, Versions
<1>3. /\ ScriptFrom \in [Releases -> Releases] /\ UnitFrom \in [Releases -> Releases]
      /\ FilesFrom \in [Releases -> Releases]
  BY ContentAssumption
<1>4. NoDir \in Dirs
  BY <1>2 DEF NoDir, Dirs
<1>5. Down \in Service
  BY <1>2, <1>4 DEF Down, Service
<1>6. /\ ScriptFrom \in [Releases -> Versions] /\ UnitFrom \in [Releases -> Versions]
      /\ FilesFrom \in [Releases -> Versions]
  BY <1>2, <1>3
<1>7. 1 \in Hosts /\ Hosts \subseteq Nat /\ Versions \subseteq Nat /\ 0 \notin Releases
  BY <1>1 DEF Hosts, Releases, Versions
<1>8. "core" \in Units /\ Units \subseteq {"core", "workers"}
  BY UnitAssumption
<1> QED BY <1>1, <1>2, <1>4, <1>5, <1>6, <1>7, <1>8

-----------------------------------------------------------------------------
(* Type correctness *)

LEMMA InitType == Init => TypeOK
BY Constants DEF Init, TypeOK, On

\* Setting an entry of the host being played keeps the type of a table.
LEMMA SetType ==
  ASSUME NEW T, NEW f \in [Units -> [Hosts -> T]], NEW x \in T, u \in Units, h \in Hosts
  PROVE  Set(f, x) \in [Units -> [Hosts -> T]]
BY DEF Set

LEMMA FirstType == TypeOK => First \in Hosts
BY Constants DEF TypeOK, First, Hosts

LEMMA EndType == TypeOK /\ End => /\ pc' = "idle" /\ todo' \subseteq Units
                                  /\ limit' \in 0 .. N /\ u' \in Units /\ h' \in Hosts
                                  /\ notified' \subseteq {"reload", "restart"} /\ before' \in Dirs
BY Constants DEF End, TypeOK

LEMMA StartedType ==
  ASSUME TypeOK, Started
  PROVE  svc' \in [Units -> [Hosts -> Service]] /\ loaded' \in [Units -> [Hosts -> Versions]]
<1>1. Loaded \in Versions
  BY DEF Loaded, TypeOK
<1>2. OnDisk \in Service
  BY <1>1 DEF OnDisk, Service, TypeOK
<1> QED BY <1>1, <1>2, SetType DEF Started, TypeOK

LEMMA StoppedType ==
  ASSUME TypeOK, Stopped
  PROVE  svc' \in [Units -> [Hosts -> Service]] /\ loaded' \in [Units -> [Hosts -> Versions]]
<1>1. Loaded \in Versions
  BY DEF Loaded, TypeOK
<1>2. Set(svc, Down) \in [Units -> [Hosts -> Service]]
  BY Constants, SetType DEF TypeOK
<1>3. Set(loaded, Loaded) \in [Units -> [Hosts -> Versions]]
  BY <1>1, SetType DEF TypeOK
<1> QED BY <1>2, <1>3 DEF Stopped, TypeOK

\* The directories of the host being played, as each task leaves them.
LEMMA DirType ==
  ASSUME TypeOK
  PROVE  /\ dir[u][h] \in Dirs /\ backup[u][h] \in Dirs
         /\ [dir[u][h] EXCEPT !.there = TRUE] \in Dirs
         /\ \A r \in Versions, b \in BOOLEAN :
              /\ [dir[u][h] EXCEPT !.files = r] \in Dirs
              /\ [dir[u][h] EXCEPT !.compose = r, !.beat = b] \in Dirs
         /\ \A d \in Dirs : Set(dir, d) \in [Units -> [Hosts -> Dirs]]
         /\ \A d \in Dirs : Set(backup, d) \in [Units -> [Hosts -> Dirs]]
<1>1. dir[u][h] \in Dirs /\ backup[u][h] \in Dirs
  BY DEF TypeOK
<1>2. [dir[u][h] EXCEPT !.there = TRUE] \in Dirs
  BY <1>1 DEF Dirs
<1>3. ASSUME NEW r \in Versions, NEW b \in BOOLEAN
      PROVE  /\ [dir[u][h] EXCEPT !.files = r] \in Dirs
             /\ [dir[u][h] EXCEPT !.compose = r, !.beat = b] \in Dirs
  BY <1>1, <1>3 DEF Dirs
<1>4. ASSUME NEW d \in Dirs
      PROVE  Set(dir, d) \in [Units -> [Hosts -> Dirs]] /\ Set(backup, d) \in [Units -> [Hosts -> Dirs]]
  BY SetType DEF TypeOK
<1> QED BY <1>1, <1>2, <1>3, <1>4

LEMMA TypeStep == TypeOK /\ [Next]_vars => TypeOK'
<1> SUFFICES ASSUME TypeOK, [Next]_vars PROVE TypeOK'
  OBVIOUS
<1> USE Constants
<1>1. ASSUME NEW us \in SUBSET Units, NEW l \in 0 .. N, deploy(us, l) PROVE TypeOK'
  <2>1. u' \in Units /\ todo' \in SUBSET Units /\ limit' \in 0 .. N /\ pc' = "clean"
    BY <1>1 DEF deploy
  <2>2. h' \in Hosts
    BY <1>1 DEF deploy, Hosts
  <2>3. before' \in Dirs
    BY <1>1, <2>1, <2>2 DEF deploy, TypeOK
  <2> QED BY <1>1, <2>1, <2>2, <2>3 DEF deploy, TypeOK, host, files
<1>2. CASE CleanRollback
  BY <1>2, DirType DEF CleanRollback, TypeOK, Task, play
<1>3. CASE Backup
  BY <1>3, DirType DEF Backup, TypeOK, Task, play
<1>4. CASE DeployUnit
  BY <1>4, SetType DEF DeployUnit, TypeOK, Task, play
<1>5. CASE DeployScript
  BY <1>5, SetType DEF DeployScript, TypeOK, Task, play
<1>6. CASE EnsureDirectory
  BY <1>6, DirType DEF EnsureDirectory, TypeOK, Task, play, Block
<1>7. CASE DeployFiles
  <2>1. FilesFrom[release] \in Versions
    BY DEF TypeOK
  <2>2. dir' \in [Units -> [Hosts -> Dirs]]
    BY <1>7, <2>1, DirType DEF DeployFiles
  <2> QED BY <1>7, <2>2 DEF DeployFiles, TypeOK, Task, play, Block
<1>8. CASE DeployCompose
  <2>1. Beats \in BOOLEAN
    BY DEF Beats
  <2>2. dir' \in [Units -> [Hosts -> Dirs]]
    BY <1>8, <2>1, DirType DEF DeployCompose, TypeOK
  <2> QED BY <1>8, <2>2 DEF DeployCompose, TypeOK, Task, play, Block
<1>9. CASE FlushReload
  BY <1>9 DEF FlushReload, TypeOK, Task, play, files, Block
<1>10. CASE FlushRestart
  <2>1. svc' \in [Units -> [Hosts -> Service]] /\ loaded' \in [Units -> [Hosts -> Versions]]
    BY <1>10, StartedType DEF FlushRestart, TypeOK
  <2> QED BY <1>10, <2>1 DEF FlushRestart, TypeOK, Task, play, files, Block
<1>11. CASE Start
  <2>1. svc' \in [Units -> [Hosts -> Service]] /\ loaded' \in [Units -> [Hosts -> Versions]]
    BY <1>11, StartedType DEF Start, TypeOK
  <2>2. enabled' \in [Units -> [Hosts -> BOOLEAN]]
    BY <1>11, SetType DEF Start, TypeOK
  <2> QED BY <1>11, <2>1, <2>2 DEF Start, TypeOK, Task, play, files, Block
<1>12. CASE ForgetRollback
  BY <1>12, DirType DEF ForgetRollback, TypeOK, Task, play
<1>13. CASE Remove
  BY <1>13, DirType DEF Remove, TypeOK, Task, play
<1>14. CASE Restore
  <2>1. /\ dir' \in [Units -> [Hosts -> Dirs]] /\ backup' \in [Units -> [Hosts -> Dirs]]
    BY <1>14, DirType DEF Restore, TypeOK
  <2> QED BY <1>14, <2>1 DEF Restore, TypeOK, Task, play
<1>15. CASE Rerun
  BY <1>15, StartedType DEF Rerun, TypeOK, Task, play, files
<1>16. CASE Migrate
  <2>1. db' \in Versions
    BY <1>16 DEF Migrate, TypeOK, Dirs
  <2> QED BY <1>16, <2>1 DEF Migrate, TypeOK, Task, play, host, files
<1>17. CASE NextTurn
  <2>1. CASE limit = 0 /\ h < N
    <3>1. h + 1 \in Hosts
      BY <2>1 DEF TypeOK, Hosts
    <3>2. dir[u][h + 1] \in Dirs
      BY <3>1 DEF TypeOK
    <3>3. u' = u /\ h' = h + 1 /\ before' = dir[u][h + 1] /\ pc' = "clean"
          /\ UNCHANGED <<todo, limit, notified>>
      BY <1>17, <2>1 DEF NextTurn, Turn
    <3> QED BY <1>17, <3>1, <3>2, <3>3 DEF NextTurn, TypeOK, host, files
  <2>2. CASE ~(limit = 0 /\ h < N) /\ todo = {}
    BY <1>17, <2>2, EndType DEF NextTurn, TypeOK, host, files
  <2>3. CASE ~(limit = 0 /\ h < N) /\ todo # {}
    <3>1. PICK v \in todo : Turn(v, First) /\ todo' = todo \ {v} /\ UNCHANGED <<limit, notified>>
      BY <1>17, <2>3 DEF NextTurn
    <3>2. First \in Hosts /\ v \in Units
      BY FirstType DEF TypeOK
    <3>3. dir[v][First] \in Dirs
      BY <3>2 DEF TypeOK
    <3> QED BY <1>17, <3>1, <3>2, <3>3 DEF NextTurn, Turn, TypeOK, host, files
  <2> QED BY <2>1, <2>2, <2>3
<1>18. CASE Rescue
  BY <1>18, StoppedType DEF Rescue, TypeOK, play, files
<1>19. CASE Fail
  BY <1>19, StoppedType, EndType DEF Fail, TypeOK, files
<1>20. CASE FailDeployment \/ Lost
  BY <1>20, EndType DEF FailDeployment, Lost, TypeOK, host, files
<1>21. ASSUME NEW r \in Releases, Release(r) PROVE TypeOK'
  BY <1>21 DEF Release, TypeOK, host, files, play
<1>22. ASSUME NEW k \in Hosts, NEW up \in SUBSET Units, Reboot(k, up) PROVE TypeOK'
  <2>1. \A v \in Units :
          [dir |-> dir[v][k], script |-> script[v][k], unit |-> unit[v][k]] \in Service
    BY DEF TypeOK, Service
  <2>2. svc' \in [Units -> [Hosts -> Service]]
    BY <1>22, <2>1 DEF Reboot, TypeOK
  <2>3. loaded' \in [Units -> [Hosts -> Versions]]
    BY <1>22 DEF Reboot, TypeOK
  <2> QED BY <1>22, <2>2, <2>3 DEF Reboot, TypeOK, files, play
<1>23. CASE UNCHANGED vars
  BY <1>23 DEF vars, host, files, play, TypeOK
<1> QED
  BY <1>1, <1>2, <1>3, <1>4, <1>5, <1>6, <1>7, <1>8, <1>9, <1>10, <1>11, <1>12, <1>13,
     <1>14, <1>15, <1>16, <1>17, <1>18, <1>19, <1>20, <1>21, <1>22, <1>23 DEF Next

\* Every variable keeps its type, for any number of hosts and releases.
THEOREM TypeCorrect == Spec => []TypeOK
BY InitType, TypeStep, PTL DEF Spec

-----------------------------------------------------------------------------
(* What a step changes of the tables *)

LEMMA SetValue ==
  ASSUME NEW T, NEW f \in [Units -> [Hosts -> T]], NEW x, TypeOK
  PROVE  /\ Set(f, x)[u][h] = x
         /\ \A v \in Units, k \in Hosts : <<v, k>> # <<u, h>> => Set(f, x)[v][k] = f[v][k]
BY DEF Set, TypeOK

LEMMA StartedValue ==
  ASSUME TypeOK, Started
  PROVE  /\ svc'[u][h].dir = dir[u][h]
         /\ \A v \in Units, k \in Hosts : <<v, k>> # <<u, h>> => svc'[v][k] = svc[v][k]
<1>1. /\ svc' = Set(svc, OnDisk) /\ svc \in [Units -> [Hosts -> Service]]
      /\ u \in Units /\ h \in Hosts
  BY DEF Started, TypeOK
<1>2. OnDisk.dir = dir[u][h]
  BY DEF OnDisk
<1> QED BY <1>1, <1>2 DEF Set

LEMMA StoppedValue ==
  ASSUME TypeOK, Stopped
  PROVE  /\ svc'[u][h] \in {svc[u][h], Down}
         /\ pc = "rerun" => svc'[u][h] = Down
         /\ pc = "restart" /\ "restart" \in notified => svc'[u][h] = Down
         /\ \A v \in Units, k \in Hosts : <<v, k>> # <<u, h>> => svc'[v][k] = svc[v][k]
<1>1. svc \in [Units -> [Hosts -> Service]] /\ u \in Units /\ h \in Hosts
  BY DEF TypeOK
<1> QED BY <1>1 DEF Stopped, Set

-----------------------------------------------------------------------------
(* The rollback *)

LEMMA RollbackInit == Init => RollbackInv
BY DEF Init, RollbackInv, RollbackRestores, Block

LEMMA RollbackStep == TypeOK /\ RollbackInv /\ [Next]_vars => RollbackInv'
<1> SUFFICES ASSUME TypeOK, RollbackInv, [Next]_vars PROVE RollbackInv'
  OBVIOUS
<1>0. /\ dir \in [Units -> [Hosts -> Dirs]] /\ backup \in [Units -> [Hosts -> Dirs]]
      /\ u \in Units /\ h \in Hosts
  BY DEF TypeOK
<1>1. ASSUME pc' \in {"idle", "migrate", "next"} PROVE RollbackInv'
  BY <1>1 DEF RollbackInv, RollbackRestores, Block
<1>2. ASSUME NEW us \in SUBSET Units, NEW l \in 0 .. N, deploy(us, l) PROVE RollbackInv'
  BY <1>2 DEF deploy, RollbackInv, RollbackRestores, Block, host, files
<1>3. CASE CleanRollback
  BY <1>3 DEF CleanRollback, Task, play, RollbackInv, RollbackRestores, Block
<1>4. CASE Backup
  <2>1. Rolls => backup'[u][h] = before
    BY <1>0, <1>4, SetValue DEF Backup, Task, RollbackInv
  <2> QED BY <1>4, <2>1 DEF Backup, Task, play, Rolls, First, RollbackInv, RollbackRestores, Block
<1>5. CASE DeployUnit \/ DeployScript \/ EnsureDirectory \/ DeployFiles \/ DeployCompose
           \/ FlushReload \/ FlushRestart \/ Start
  <2>1. /\ pc \in Block \cup {"unit", "script", "directory"}
        /\ pc' \in Block \cup {"script", "directory"}
        /\ backup' = backup /\ UNCHANGED play
    BY <1>5 DEF DeployUnit, DeployScript, EnsureDirectory, DeployFiles, DeployCompose,
       FlushReload, FlushRestart, Start, Task, files, Block
  <2> QED BY <2>1 DEF play, Rolls, First, RollbackInv, RollbackRestores, Block
<1>6. CASE Remove
  <2>1. dir'[u][h] = NoDir
    BY <1>0, <1>6, SetValue DEF Remove
  <2> QED BY <1>6, <2>1 DEF Remove, Task, play, Rolls, First, RollbackInv, RollbackRestores, Block
<1>7. CASE Restore
  <2>1. ~dir[u][h].there /\ backup[u][h] = before
    BY <1>7 DEF Restore, Task, RollbackInv, NoDir
  <2>2. dir'[u][h] = before
    <3>1. dir' = Set(dir, backup[u][h])
      BY <1>7, <2>1 DEF Restore
    <3> QED BY <1>0, <2>1, <3>1, SetValue
  <2> QED BY <1>7, <2>2 DEF Restore, Task, play, RollbackInv, RollbackRestores, Block
<1>8. CASE Rerun
  <2>1. svc'[u][h].dir = dir[u][h]
    BY <1>8, StartedValue DEF Rerun
  <2> QED BY <1>8, <2>1 DEF Rerun, Task, play, files, RollbackInv, RollbackRestores, Block
<1>9. CASE Rescue
  BY <1>9 DEF Rescue, play, files, Rolls, First, RollbackInv, RollbackRestores, Block
<1>10. CASE NextTurn
  <2>1. CASE pc' = "idle"
    BY <1>1, <2>1
  <2>2. CASE pc' # "idle"
    <3>1. pc' = "clean" /\ before' = dir'[u'][h']
      BY <1>10, <2>2 DEF NextTurn, Turn, End, host, files
    <3> QED BY <3>1 DEF RollbackInv, RollbackRestores, Block
  <2> QED BY <2>1, <2>2
<1>11. CASE ForgetRollback \/ Migrate \/ FailDeployment \/ Fail \/ Lost
  BY <1>1, <1>11 DEF ForgetRollback, Migrate, Task, FailDeployment, Fail, Lost, End
<1>12. ASSUME pc = "idle", UNCHANGED pc PROVE RollbackInv'
  BY <1>1, <1>12
<1>13. ASSUME NEW r \in Releases, Release(r) PROVE RollbackInv'
  BY <1>12, <1>13 DEF Release
<1>14. ASSUME NEW k \in Hosts, NEW up \in SUBSET Units, Reboot(k, up) PROVE RollbackInv'
  BY <1>12, <1>14 DEF Reboot
<1>15. CASE UNCHANGED vars
  BY <1>15 DEF vars, host, files, play, Rolls, First, RollbackInv, RollbackRestores
<1> QED
  BY <1>2, <1>3, <1>4, <1>5, <1>6, <1>7, <1>8, <1>9, <1>10, <1>11, <1>13, <1>14, <1>15 DEF Next

\* When the rescue reports the failure, the host is back on the directory it
\* had before its turn and runs it, whatever the policy, the limits and the
\* plays that were lost before.
THEOREM RollsBack == Spec => []RollbackRestores
<1>1. RollbackInv => RollbackRestores
  BY DEF RollbackInv
<1> QED BY <1>1, InitType, TypeStep, RollbackInit, RollbackStep, PTL DEF Spec

-----------------------------------------------------------------------------
(* The migrations *)

LEMMA SchemaInit == Init => SchemaInv
BY Constants DEF Init, SchemaInv, Behind, Ready, On, NoDir, Down

\* The tables of the hosts that are not being played do not change, and those
\* of the host being played only take a directory it has, or none.
LEMMA TablesStep ==
  ASSUME TypeOK, NEW v \in Units, NEW k \in Hosts,
         \/ CleanRollback \/ Backup \/ ForgetRollback \/ EnsureDirectory \/ DeployFiles
         \/ FlushRestart \/ Start \/ Remove \/ Restore \/ Rerun \/ Rescue \/ Fail
         \/ \E j \in Hosts, up \in SUBSET Units : Reboot(j, up),
         Behind(v, k)
  PROVE  Behind(v, k)'
<1>0. /\ dir \in [Units -> [Hosts -> Dirs]] /\ backup \in [Units -> [Hosts -> Dirs]]
      /\ svc \in [Units -> [Hosts -> Service]]
      /\ u \in Units /\ h \in Hosts /\ db \in Nat
  BY Constants DEF TypeOK
<1>1. NoDir.compose = 0 /\ Down.dir.compose = 0
  BY DEF NoDir, Down
<1>2. CASE CleanRollback \/ Backup \/ ForgetRollback
  <2>1. backup'[v][k] \in {backup[v][k], dir[v][k], NoDir}
    BY <1>0, <1>2 DEF CleanRollback, Backup, ForgetRollback, Set
  <2>2. UNCHANGED <<dir, svc, db>>
    BY <1>2 DEF CleanRollback, Backup, ForgetRollback
  <2> QED BY <1>0, <1>1, <2>1, <2>2 DEF Behind
<1>3. CASE EnsureDirectory \/ DeployFiles
  <2>1. \/ dir' = Set(dir, [dir[u][h] EXCEPT !.there = TRUE])
        \/ dir' = Set(dir, [dir[u][h] EXCEPT !.files = FilesFrom[release]])
    BY <1>3 DEF EnsureDirectory, DeployFiles
  <2>2. dir[u][h] \in Dirs
    BY <1>0
  <2>3. /\ [dir[u][h] EXCEPT !.there = TRUE].compose = dir[u][h].compose
        /\ [dir[u][h] EXCEPT !.files = FilesFrom[release]].compose = dir[u][h].compose
    BY <2>2 DEF Dirs
  <2>5. dir'[v][k].compose = dir[v][k].compose
    <3>1. CASE <<v, k>> = <<u, h>>
      <4>1. \/ dir'[u][h] = [dir[u][h] EXCEPT !.there = TRUE]
            \/ dir'[u][h] = [dir[u][h] EXCEPT !.files = FilesFrom[release]]
        <5>1. \A x : Set(dir, x)[u][h] = x
          BY <1>0 DEF Set
        <5> QED BY <2>1, <5>1
      <4> QED BY <2>3, <3>1, <4>1
    <3>2. CASE <<v, k>> # <<u, h>>
      BY <1>0, <2>1, <3>2 DEF Set
    <3> QED BY <3>1, <3>2
  <2>4. UNCHANGED <<backup, svc, db>>
    BY <1>3 DEF EnsureDirectory, DeployFiles
  <2> QED BY <2>4, <2>5 DEF Behind
<1>4. CASE FlushRestart \/ Start \/ Rerun
  <2>1. svc'[v][k] = svc[v][k] \/ svc'[v][k].dir = dir[v][k]
    BY <1>4, StartedValue DEF FlushRestart, Start, Rerun
  <2>2. UNCHANGED <<dir, backup, db>>
    BY <1>4 DEF FlushRestart, Start, Rerun, files
  <2> QED BY <2>1, <2>2 DEF Behind
<1>5. CASE Remove
  <2>1. dir'[v][k] \in {dir[v][k], NoDir} /\ UNCHANGED <<backup, svc, db>>
    BY <1>0, <1>5 DEF Remove, Set
  <2> QED BY <1>0, <1>1, <2>1 DEF Behind
<1>6. CASE Restore
  <2>1. /\ dir'[v][k] \in {dir[v][k], backup[v][k]} /\ backup'[v][k] \in {backup[v][k], NoDir}
        /\ UNCHANGED <<svc, db>>
    BY <1>0, <1>6 DEF Restore, Set
  <2> QED BY <1>0, <1>1, <2>1 DEF Behind
<1>7. CASE Rescue \/ Fail
  <2>1. svc'[v][k] \in {svc[v][k], Down} /\ UNCHANGED <<dir, backup, db>>
    BY <1>7, StoppedValue DEF Rescue, Fail, files
  <2> QED BY <1>0, <1>1, <2>1 DEF Behind
<1>8. ASSUME NEW j \in Hosts, NEW up \in SUBSET Units, Reboot(j, up) PROVE Behind(v, k)'
  <2>1. svc'[v][k] = svc[v][k] \/ svc'[v][k] = Down \/ svc'[v][k].dir = dir[v][k]
    BY <1>0, <1>8 DEF Reboot
  <2>2. UNCHANGED <<dir, backup, db>>
    BY <1>8 DEF Reboot, files
  <2> QED BY <1>0, <1>1, <2>1, <2>2 DEF Behind
<1> QED BY <1>2, <1>3, <1>4, <1>5, <1>6, <1>7, <1>8

LEMMA SchemaStep ==
  ASSUME Limits = FALSE, TypeOK, SchemaInv, [Next]_vars
  PROVE  SchemaInv'
<1> DEFINE Tables == \A v \in Units, k \in Hosts : <<v, k>> # <<"core", 1>> => Behind(v, k)
<1>0. /\ dir \in [Units -> [Hosts -> Dirs]] /\ u \in Units /\ h \in Hosts
      /\ db \in Nat /\ release \in Nat /\ Tables /\ Hosts \subseteq Nat
  BY Constants DEF TypeOK, SchemaInv
<1>1. First = 1
  BY DEF SchemaInv, First
<1>2. ASSUME NEW us \in SUBSET Units, NEW l \in 0 .. N, deploy(us, l) PROVE SchemaInv'
  <2>1. us = Units /\ l = 0 /\ u' = "core" /\ todo' = Units \ {"core"} /\ limit' = 0 /\ h' = 1
    BY <1>2, Constants DEF deploy
  <2>2. pc' = "clean" /\ UNCHANGED <<dir, backup, svc, db>>
    BY <1>2 DEF deploy, host, files
  <2> QED BY <1>0, <2>1, <2>2, Constants DEF SchemaInv, Behind, Ready
<1>3. CASE CleanRollback \/ Backup \/ EnsureDirectory \/ DeployFiles \/ Remove \/ Restore \/ Rerun
           \/ Rescue
  <2>1. Tables'
    BY <1>0, <1>3, TablesStep
  <2>2. pc # "idle" /\ pc' \notin {"next", "idle"} \cup Ready /\ UNCHANGED <<release, db, play>>
    BY <1>3 DEF CleanRollback, Backup, EnsureDirectory, DeployFiles, Remove, Restore, Rerun,
       Rescue, Task, Ready, Block
  <2> QED BY <2>1, <2>2 DEF SchemaInv, play
<1>4. CASE FlushRestart \/ Start \/ ForgetRollback
  <2>1. Tables'
    BY <1>0, <1>4, TablesStep
  <2>2. pc \in Ready /\ pc' \in Ready /\ UNCHANGED <<release, db, play, dir>>
    BY <1>4 DEF FlushRestart, Start, ForgetRollback, Task, Ready, files
  <2> QED BY <2>1, <2>2 DEF SchemaInv, play, Ready
<1>5. CASE DeployUnit \/ DeployScript \/ FlushReload
  <2>1. UNCHANGED <<release, db, play, dir, backup, svc>>
    BY <1>5 DEF DeployUnit, DeployScript, FlushReload, files
  <2>2. \/ pc \in {"unit", "script"} /\ pc' \in {"script", "directory"}
        \/ pc = "reload" /\ pc' = "restart"
    BY <1>5 DEF DeployUnit, DeployScript, FlushReload, Task
  <2> QED BY <1>0, <2>1, <2>2 DEF SchemaInv, Behind, play, Ready
<1>6. CASE DeployCompose
  <2>1. dir' = Set(dir, [dir[u][h] EXCEPT !.compose = release, !.beat = Beats])
    BY <1>6 DEF DeployCompose
  <2>2. pc = "compose" /\ pc' = "reload" /\ UNCHANGED <<release, db, play, backup, svc>>
    BY <1>6 DEF DeployCompose, Task
  <2>3. dir[u][h] \in Dirs
    BY <1>0
  <2>4. /\ dir'[u][h].compose = release
        /\ \A v \in Units, k \in Hosts : <<v, k>> # <<u, h>> => dir'[v][k] = dir[v][k]
    BY <1>0, <2>1, <2>3 DEF Set, Dirs
  <2>5. <<u, h>> # <<"core", 1>> => release <= db
    BY <2>2 DEF SchemaInv
  <2>6. Tables'
    BY <1>0, <2>2, <2>4, <2>5 DEF Behind
  <2> QED BY <2>2, <2>4, <2>6 DEF SchemaInv, play, Ready
<1>7. CASE Migrate
  <2>1. pc = "migrate" /\ pc' = "next" /\ UNCHANGED <<release, play, dir, backup, svc>>
    BY <1>7 DEF Migrate, Task, host, files
  <2>2. dir[u][h].compose = release
    BY <2>1 DEF SchemaInv, Ready
  <2>3. db' \in Nat /\ db' >= db /\ release <= db'
    <3>1. CASE u = "core" /\ h = 1
      BY <1>0, <1>1, <1>7, <2>2, <3>1 DEF Migrate
    <3>2. CASE ~(u = "core" /\ h = 1)
      BY <1>0, <1>1, <1>7, <2>1, <2>2, <3>2 DEF Migrate, SchemaInv
    <3> QED BY <3>1, <3>2
  <2>4. Tables'
    <3> SUFFICES ASSUME NEW v \in Units, NEW k \in Hosts, Behind(v, k) PROVE Behind(v, k)'
      BY <1>0
    <3>1. /\ dir[v][k].compose \in Nat /\ backup[v][k].compose \in Nat
          /\ svc[v][k].dir.compose \in Nat
      <4>1. dir[v][k] \in Dirs /\ backup[v][k] \in Dirs /\ svc[v][k] \in Service
        BY DEF TypeOK
      <4> QED BY <4>1, Constants DEF Dirs, Service
    <3> QED BY <1>0, <2>1, <2>3, <3>1 DEF Behind
  <2> QED BY <1>0, <2>1, <2>3, <2>4 DEF SchemaInv, play, Ready
<1>8. CASE NextTurn
  <2>1. pc = "next" /\ release <= db /\ limit = 0 /\ UNCHANGED <<release, dir, backup, svc, db>>
    BY <1>8 DEF NextTurn, SchemaInv, host, files
  <2>2. Tables'
    BY <1>0, <2>1 DEF Behind
  <2>3. \/ pc' = "clean" /\ u' = u /\ UNCHANGED <<todo, limit>>
        \/ pc' = "idle" /\ todo' = {} /\ limit' = 0
        \/ pc' = "clean" /\ \E v \in todo : u' = v /\ todo' = todo \ {v} /\ UNCHANGED limit
    BY <1>8 DEF NextTurn, Turn, End
  <2> QED BY <2>1, <2>2, <2>3 DEF SchemaInv, Ready
<1>9. CASE Fail \/ FailDeployment \/ Lost
  <2>1. Tables'
    <3>1. CASE Fail
      BY <1>0, <3>1, TablesStep
    <3>2. CASE FailDeployment \/ Lost
      BY <1>0, <3>2 DEF FailDeployment, Lost, host, files, Behind
    <3> QED BY <1>9, <3>1, <3>2
  <2>2. pc' = "idle" /\ todo' = {} /\ limit' = 0
    BY <1>9 DEF Fail, FailDeployment, Lost, End
  <2> QED BY <2>1, <2>2 DEF SchemaInv, Ready
<1>10. ASSUME NEW r \in Releases, Release(r) PROVE SchemaInv'
  BY <1>0, <1>10 DEF Release, host, files, play, SchemaInv, Behind, Ready
<1>11. ASSUME NEW j \in Hosts, NEW up \in SUBSET Units, Reboot(j, up) PROVE SchemaInv'
  <2>1. Tables'
    BY <1>0, <1>11, TablesStep
  <2>2. pc = "idle" /\ pc' = "idle" /\ UNCHANGED play
    BY <1>11 DEF Reboot
  <2> QED BY <2>1, <2>2 DEF SchemaInv, play, Ready
<1>12. CASE UNCHANGED vars
  BY <1>0, <1>12 DEF vars, host, files, play, SchemaInv, Behind
<1> QED
  BY <1>2, <1>3, <1>4, <1>5, <1>6, <1>7, <1>8, <1>9, <1>10, <1>11, <1>12 DEF Next

\* When every deploy is of all units and hosts, no host but the first of the
\* core runs a release before its migrations, however many hosts there are,
\* whatever fails and whichever way the release moves.
THEOREM MigratedFirst == Limits = FALSE /\ Spec => []SchemaFirst
<1>1. Limits = FALSE /\ TypeOK /\ SchemaInv /\ [Next]_vars => SchemaInv'
  BY SchemaStep
<1>2. SchemaInv => SchemaFirst
  BY DEF SchemaInv, SchemaFirst, Behind
<1>3. CASE Limits = FALSE
  BY <1>1, <1>2, <1>3, InitType, TypeStep, SchemaInit, PTL DEF Spec
<1> QED BY <1>3

-----------------------------------------------------------------------------
(* What a host with a rollback runs *)

LEMMA SyncInit == Init => SyncInv
BY Constants DEF Init, SyncInv, Synced, Ready, On, NoDir

Turns == \/ CleanRollback \/ Backup \/ DeployUnit \/ DeployScript \/ EnsureDirectory
         \/ DeployFiles \/ DeployCompose \/ FlushReload \/ FlushRestart \/ Start
         \/ ForgetRollback \/ Migrate \/ NextTurn \/ Remove \/ Restore \/ Rerun
         \/ FailDeployment \/ Rescue \/ Fail

\* A turn touches the tables of its own host only.
LEMMA OthersKeep ==
  ASSUME TypeOK, Turns, NEW v \in Units, NEW k \in Hosts, <<v, k>> # <<u, h>>
  PROVE  dir'[v][k] = dir[v][k] /\ svc'[v][k] = svc[v][k] /\ backup'[v][k] = backup[v][k]
<1>0. /\ dir \in [Units -> [Hosts -> Dirs]] /\ backup \in [Units -> [Hosts -> Dirs]]
      /\ u \in Units /\ h \in Hosts
  BY DEF TypeOK
<1>1. /\ \A x : Set(dir, x)[v][k] = dir[v][k]
      /\ \A x : Set(backup, x)[v][k] = backup[v][k]
  BY <1>0 DEF Set
<1>2. CASE CleanRollback \/ Backup \/ ForgetRollback \/ Remove \/ Restore
  BY <1>1, <1>2 DEF CleanRollback, Backup, ForgetRollback, Remove, Restore
<1>3. CASE EnsureDirectory \/ DeployFiles \/ DeployCompose
  <2>1. UNCHANGED <<svc, backup>> /\ \E x : dir' = Set(dir, x)
    BY <1>3 DEF EnsureDirectory, DeployFiles, DeployCompose
  <2> QED BY <1>1, <2>1
<1>4. CASE FlushRestart \/ Start \/ Rerun
  BY <1>4, StartedValue DEF FlushRestart, Start, Rerun, files
<1>5. CASE Rescue \/ Fail
  BY <1>5, StoppedValue DEF Rescue, Fail, files
<1>6. CASE DeployUnit \/ DeployScript \/ FlushReload \/ Migrate \/ NextTurn \/ FailDeployment
  BY <1>6 DEF DeployUnit, DeployScript, FlushReload, Migrate, NextTurn, FailDeployment, host, files
<1> QED BY <1>2, <1>3, <1>4, <1>5, <1>6 DEF Turns

\* An entry of the directories either is none or says that it is there.
LEMMA ThereStep ==
  ASSUME TypeOK, SyncInv, [Next]_vars, NEW v \in Units, NEW k \in Hosts
  PROVE  /\ dir'[v][k] = NoDir \/ dir'[v][k].there
         /\ backup'[v][k] = NoDir \/ backup'[v][k].there
<1>0. /\ dir \in [Units -> [Hosts -> Dirs]] /\ backup \in [Units -> [Hosts -> Dirs]]
      /\ u \in Units /\ h \in Hosts /\ dir[u][h] \in Dirs
  BY DEF TypeOK
<1> DEFINE Here(x) == x = NoDir \/ x.there
<1>1. /\ Here(NoDir) /\ Here(dir[u][h]) /\ Here(backup[u][h])
      /\ Here(dir[v][k]) /\ Here(backup[v][k])
  BY <1>0 DEF SyncInv
<1> SUFFICES Here(dir'[v][k]) /\ Here(backup'[v][k])
  OBVIOUS
<1>2. /\ \A x : Set(dir, x)[v][k] \in {x, dir[v][k]}
      /\ \A x : Set(backup, x)[v][k] \in {x, backup[v][k]}
  BY <1>0 DEF Set
<1>3. CASE CleanRollback \/ Backup \/ ForgetRollback \/ Remove \/ Restore
  <2>1. /\ dir'[v][k] \in {dir[v][k], backup[u][h], NoDir}
        /\ backup'[v][k] \in {backup[v][k], dir[u][h], NoDir}
    <3>1. CASE CleanRollback \/ ForgetRollback
      BY <1>2, <3>1 DEF CleanRollback, ForgetRollback
    <3>2. CASE Backup
      BY <1>2, <3>2 DEF Backup
    <3>3. CASE Remove
      BY <1>2, <3>3 DEF Remove
    <3>4. CASE Restore
      BY <1>2, <3>4 DEF Restore
    <3> QED BY <1>3, <3>1, <3>2, <3>3, <3>4
  <2> HIDE DEF Here
  <2> QED BY <1>1, <2>1
<1>4. CASE EnsureDirectory \/ DeployFiles \/ DeployCompose
  <2>1. /\ [dir[u][h] EXCEPT !.there = TRUE].there
        /\ dir[u][h].there => /\ [dir[u][h] EXCEPT !.files = FilesFrom[release]].there
                              /\ [dir[u][h] EXCEPT !.compose = release, !.beat = Beats].there
    BY <1>0 DEF Dirs
  <2>2. pc \in {"files", "compose"} => dir[u][h].there
    BY DEF SyncInv
  <2>3. \E x : x.there /\ dir' = Set(dir, x)
    <3>1. CASE EnsureDirectory
      BY <2>1, <3>1 DEF EnsureDirectory
    <3>2. CASE DeployFiles
      BY <2>1, <2>2, <3>2 DEF DeployFiles, Task
    <3>3. CASE DeployCompose
      BY <2>1, <2>2, <3>3 DEF DeployCompose, Task
    <3> QED BY <1>4, <3>1, <3>2, <3>3
  <2>4. backup' = backup
    BY <1>4 DEF EnsureDirectory, DeployFiles, DeployCompose
  <2>5. dir'[v][k] = dir[v][k] \/ Here(dir'[v][k])
    BY <1>2, <2>3
  <2> HIDE DEF Here
  <2> QED BY <1>1, <2>4, <2>5
<1>5. CASE UNCHANGED <<dir, backup>>
  <2>1. dir'[v][k] = dir[v][k] /\ backup'[v][k] = backup[v][k]
    BY <1>5
  <2> HIDE DEF Here
  <2> QED BY <1>1, <2>1
<1> QED
  BY <1>3, <1>4, <1>5 DEF Next, vars, host, files, deploy, DeployUnit, DeployScript, FlushReload,
     FlushRestart, Start, Migrate, NextTurn, Rerun, FailDeployment, Rescue, Fail, Lost, Release,
     Reboot

LEMMA SyncStep ==
  ASSUME Rollback = "always", Lossy = FALSE, Undeletable = FALSE, TypeOK, SyncInv, [Next]_vars
  PROVE  SyncInv'
<1> DEFINE Quiet == {"idle", "clean", "backup", "unit", "script", "directory"}
           Safe(v, k) == Synced(v, k) \/ dir[v][k] = NoDir
           There == \A v \in Units, k \in Hosts : /\ dir[v][k] = NoDir \/ dir[v][k].there
                                                  /\ backup[v][k] = NoDir \/ backup[v][k].there
           Rest  == \A v \in Units, k \in Hosts : <<v, k>> # <<u, h>> => Safe(v, k)
           All   == \A v \in Units, k \in Hosts : Safe(v, k)
<1>0. /\ dir \in [Units -> [Hosts -> Dirs]] /\ u \in Units /\ h \in Hosts /\ dir[u][h] \in Dirs
      /\ release \in Nat /\ release # 0 /\ Rest /\ \A x : Set(dir, x)[u][h] = x
      /\ dir[u][h] = NoDir \/ dir[u][h].there
  <2>1. release \in Nat /\ release # 0
    BY Constants DEF TypeOK
  <2>2. /\ dir \in [Units -> [Hosts -> Dirs]] /\ u \in Units /\ h \in Hosts
    BY DEF TypeOK
  <2>3. \A x : Set(dir, x)[u][h] = x
    BY <2>2 DEF Set
  <2> QED BY <2>1, <2>2, <2>3 DEF SyncInv
<1>1. There'
  BY ThereStep
<1>2. ASSUME Turns
      PROVE  \A v \in Units, k \in Hosts : <<v, k>> # <<u, h>> => Safe(v, k)'
  BY <1>0, <1>2, OthersKeep DEF Synced
<1>3. ASSUME Turns, UNCHANGED <<u, h>> PROVE Rest'
  BY <1>2, <1>3
<1>4. ASSUME Turns, svc'[u][h] = Down \/ svc'[u][h].dir = dir'[u][h] \/ dir'[u][h] = NoDir
      PROVE  All'
  BY <1>2, <1>4 DEF Synced
<1>5. ASSUME All', pc' \in Quiet PROVE SyncInv'
  BY <1>1, <1>5 DEF SyncInv, Ready
<1>6. ASSUME NEW us \in SUBSET Units, NEW l \in 0 .. N, deploy(us, l) PROVE SyncInv'
  <2>1. pc = "idle" /\ pc' = "clean" /\ UNCHANGED <<dir, svc>>
    BY <1>6 DEF deploy, host, files
  <2>2. All'
    BY <2>1 DEF SyncInv, Synced
  <2> QED BY <1>5, <2>1, <2>2
<1>7. CASE CleanRollback \/ Backup \/ DeployUnit \/ DeployScript
  <2>1. pc \in Quiet /\ pc' \in Quiet /\ UNCHANGED <<dir, svc>>
    BY <1>7 DEF CleanRollback, Backup, DeployUnit, DeployScript, Task
  <2>2. All'
    BY <2>1 DEF SyncInv, Synced
  <2> QED BY <1>5, <2>1, <2>2
<1>8. CASE EnsureDirectory
  <2>1. /\ pc = "directory" /\ pc' = "files" /\ UNCHANGED <<svc, play, release, notified>>
        /\ dir'[u][h] = [dir[u][h] EXCEPT !.there = TRUE]
    BY <1>0, <1>8 DEF EnsureDirectory, Task
  <2>2. Synced(u, h) \/ dir[u][h] = NoDir
    BY <1>0, <2>1 DEF SyncInv
  <2>3. CASE dir[u][h] = NoDir
    <3>1. dir'[u][h].compose = 0 /\ dir'[u][h].there
      BY <2>1, <2>3 DEF NoDir
    <3> QED BY <1>1, <1>3, <1>8, <2>1, <3>1 DEF SyncInv, Ready, Turns, play
  <2>4. CASE dir[u][h] # NoDir
    <3>1. dir'[u][h] = dir[u][h] /\ dir'[u][h].there
      BY <1>0, <2>1, <2>4 DEF Dirs
    <3>2. Synced(u, h)'
      BY <2>1, <2>2, <2>4, <3>1 DEF Synced, play
    <3> QED BY <1>1, <1>3, <1>8, <2>1, <3>1, <3>2 DEF SyncInv, Ready, Turns, play
  <2> QED BY <2>3, <2>4
<1>9. CASE DeployFiles
  <2>1. /\ pc = "files" /\ pc' = "compose" /\ UNCHANGED <<svc, play, release>>
        /\ dir'[u][h] = [dir[u][h] EXCEPT !.files = FilesFrom[release]]
        /\ notified' = notified \cup IF dir' # dir THEN {"restart"} ELSE {}
    BY <1>0, <1>9 DEF DeployFiles, Task
  <2>2. dir'[u][h].there /\ dir'[u][h].files = FilesFrom[release]
    BY <1>0, <2>1 DEF SyncInv, Dirs
  <2>3. (Synced(u, h) \/ "restart" \in notified \/ dir[u][h].compose = 0)'
    BY <2>1 DEF SyncInv, Synced, play
  <2> QED BY <1>1, <1>3, <1>9, <2>1, <2>2, <2>3 DEF SyncInv, Ready, Turns, play
<1>10. CASE DeployCompose
  <2>1. /\ pc = "compose" /\ pc' = "reload" /\ UNCHANGED <<svc, play, release>>
        /\ dir'[u][h] = [dir[u][h] EXCEPT !.compose = release, !.beat = Beats]
        /\ notified' = notified \cup IF dir' # dir THEN {"restart"} ELSE {}
    BY <1>0, <1>10 DEF DeployCompose, Task
  <2>2. Deployed' = Deployed
    BY <2>1 DEF Deployed, Beats, First, play
  <2>3. dir'[u][h] = Deployed
    BY <1>0, <2>1 DEF SyncInv, Dirs, Deployed
  <2>4. dir' = dir => dir[u][h].compose # 0
    BY <1>0, <2>3 DEF Deployed
  <2>5. (Synced(u, h) \/ "restart" \in notified)'
    BY <2>1, <2>4 DEF SyncInv, Synced, play
  <2> QED BY <1>1, <1>3, <1>10, <2>1, <2>2, <2>3, <2>5 DEF SyncInv, Ready, Turns, play
<1>11. CASE FlushReload \/ FlushRestart \/ Start \/ ForgetRollback \/ Migrate
  <2>1. UNCHANGED <<release, dir, play>>
    BY <1>11 DEF FlushReload, FlushRestart, Start, ForgetRollback, Migrate, files, host
  <2>2. Deployed' = Deployed
    BY <2>1 DEF Deployed, Beats, First, play
  <2>3. Rest' /\ pc \in Ready
    BY <1>3, <1>11, <2>1 DEF Turns, play, FlushReload, FlushRestart, Start, ForgetRollback,
       Migrate, Task, Ready
  <2>4. CASE FlushReload
    <3>1. /\ pc = "reload" /\ pc' = "restart" /\ svc' = svc
          /\ "restart" \in notified => "restart" \in notified'
      BY <2>4 DEF FlushReload, Task
    <3> QED BY <1>1, <2>1, <2>2, <2>3, <3>1 DEF SyncInv, Synced, Ready, play
  <2>5. CASE FlushRestart
    <3>1. pc = "restart" /\ pc' = "start" /\ ("restart" \in notified \/ svc' = svc)
      BY <2>5 DEF FlushRestart, Task
    <3>2. "restart" \in notified => svc'[u][h].dir = dir[u][h]
      BY <2>5, StartedValue DEF FlushRestart
    <3>3. Synced(u, h)'
      BY <2>1, <3>1, <3>2 DEF SyncInv, Synced, play
    <3> QED BY <1>1, <2>1, <2>2, <2>3, <3>1, <3>3 DEF SyncInv, Ready, play
  <2>6. CASE Start
    <3>1. pc = "start" /\ pc' = "forget" /\ (svc[u][h] = Down \/ svc' = svc)
      BY <2>6 DEF Start, Task
    <3>2. svc[u][h] = Down => svc'[u][h].dir = dir[u][h]
      BY <2>6, StartedValue DEF Start
    <3>3. svc'[u][h].dir = dir[u][h]
      BY <3>1, <3>2 DEF SyncInv, Synced
    <3> QED BY <1>1, <2>1, <2>2, <2>3, <3>1, <3>3 DEF SyncInv, Ready, play
  <2>7. CASE ForgetRollback \/ Migrate
    <3>1. pc \in {"forget", "migrate"} /\ pc' \in {"migrate", "next"} /\ svc' = svc
      BY <2>7 DEF ForgetRollback, Migrate, Task, host
    <3> QED BY <1>1, <2>1, <2>2, <2>3, <3>1 DEF SyncInv, Ready, play
  <2> QED BY <1>11, <2>4, <2>5, <2>6, <2>7
<1>12. CASE NextTurn
  <2>1. pc = "next" /\ pc' \in {"clean", "idle"} /\ UNCHANGED <<dir, svc>>
    BY <1>12 DEF NextTurn, Turn, End, host, files
  <2>2. svc'[u][h].dir = dir'[u][h]
    BY <2>1 DEF SyncInv
  <2> QED BY <1>4, <1>5, <1>12, <2>1, <2>2 DEF Turns
<1>13. CASE Remove
  <2>1. pc' = "restore" /\ dir'[u][h] = NoDir /\ UNCHANGED play
    BY <1>0, <1>13 DEF Remove, Task
  <2> QED BY <1>1, <1>3, <1>13, <2>1 DEF SyncInv, Ready, Turns, play
<1>14. CASE Restore
  <2>1. pc' = "rerun" /\ UNCHANGED play
    BY <1>14 DEF Restore, Task
  <2> QED BY <1>1, <1>3, <1>14, <2>1 DEF SyncInv, Ready, Turns, play
<1>15. CASE Rerun
  <2>1. pc' = "fail" /\ svc'[u][h].dir = dir'[u][h] /\ UNCHANGED play
    BY <1>15, StartedValue DEF Rerun, Task, files
  <2> QED BY <1>1, <1>3, <1>15, <2>1 DEF SyncInv, Ready, Turns, play
<1>16. CASE Rescue
  <2>1. pc' = "remove" /\ UNCHANGED play
    BY <1>16 DEF Rescue
  <2> QED BY <1>1, <1>3, <1>16, <2>1 DEF SyncInv, Ready, Turns, play
<1>17. CASE Fail \/ FailDeployment
  <2>1. pc' = "idle" /\ dir' = dir
    BY <1>17 DEF Fail, FailDeployment, End, host, files
  <2>2. svc'[u][h] = Down \/ svc'[u][h].dir = dir[u][h] \/ dir[u][h] = NoDir
    <3>1. CASE Fail
      <4>1. pc \in {"clean", "backup", "unit", "script", "directory", "restore", "rerun", "migrate"}
        BY <3>1 DEF Fail, Tasks, Block, Rolls
      <4>2. svc'[u][h] \in {svc[u][h], Down} /\ (pc = "rerun" => svc'[u][h] = Down)
        BY <3>1, StoppedValue DEF Fail
      <4> QED BY <1>0, <4>1, <4>2 DEF SyncInv, Synced
    <3>2. CASE FailDeployment
      BY <3>2 DEF FailDeployment, SyncInv, host
    <3> QED BY <1>17, <3>1, <3>2
  <2> QED BY <1>4, <1>5, <1>17, <2>1, <2>2 DEF Turns
<1>18. ASSUME NEW r \in Releases, Release(r) PROVE SyncInv'
  <2>1. pc = "idle" /\ pc' = "idle" /\ UNCHANGED <<dir, svc>>
    BY <1>18 DEF Release, host, files
  <2>2. All'
    BY <2>1 DEF SyncInv, Synced
  <2> QED BY <1>5, <2>1, <2>2
<1>19. ASSUME NEW j \in Hosts, NEW up \in SUBSET Units, Reboot(j, up) PROVE SyncInv'
  <2>1. pc = "idle" /\ pc' = "idle" /\ dir' = dir
    BY <1>19 DEF Reboot, files
  <2>2. \A v \in Units, k \in Hosts :
          svc'[v][k] = svc[v][k] \/ svc'[v][k] = Down \/ svc'[v][k].dir = dir[v][k]
    BY <1>19 DEF Reboot, TypeOK
  <2>3. All'
    BY <2>1, <2>2 DEF SyncInv, Synced
  <2> QED BY <1>5, <2>1, <2>3
<1>20. CASE UNCHANGED vars
  BY <1>20 DEF vars, host, files, play, SyncInv, Synced, Deployed, Beats, First
<1>21. ~Lost
  BY DEF Lost
<1> QED
  BY <1>6, <1>7, <1>8, <1>9, <1>10, <1>11, <1>12, <1>13, <1>14, <1>15, <1>16, <1>17, <1>18,
     <1>19, <1>20, <1>21 DEF Next

\* With the rollback on every host, and as long as no play is lost and a broken
\* directory can be removed, a turn that ends well leaves the host running the
\* application directory the release put there, for any number of hosts and releases.
THEOREM RunsTheRelease ==
  Rollback = "always" /\ Lossy = FALSE /\ Undeletable = FALSE /\ Spec => []RollbackHostRunsIt
<1>1. Rollback = "always" /\ Lossy = FALSE /\ Undeletable = FALSE /\ TypeOK /\ SyncInv
        /\ [Next]_vars => SyncInv'
  BY SyncStep
<1>2. SyncInv => RollbackHostRunsIt
  BY DEF SyncInv, RollbackHostRunsIt
<1>3. CASE Rollback = "always" /\ Lossy = FALSE /\ Undeletable = FALSE
  BY <1>1, <1>2, <1>3, InitType, TypeStep, SyncInit, PTL DEF Spec
<1> QED BY <1>3

-----------------------------------------------------------------------------
(* The hosts a play has been through *)

\* A host whose service was started serves to the end of its turn and after it.
ServeInv ==
  /\ EarlierHostsServe
  /\ pc \in {"forget", "migrate", "next"} => svc[u][h] # Down

\* What is in service, and not played, stays in service.
LEMMA TurnServes ==
  ASSUME TypeOK, ServeInv, Turns, UNCHANGED <<u, h, limit>>
  PROVE  EarlierHostsServe'
<1> SUFFICES ASSUME pc' # "idle", limit = 0, NEW k \in 1 .. h - 1
             PROVE  svc'[u][k] # Down
  BY DEF EarlierHostsServe
<1>1. k \in Hosts /\ k # h
  BY Constants DEF TypeOK, Hosts
<1>2. pc # "idle"
  BY DEF Turns, CleanRollback, Backup, DeployUnit, DeployScript, EnsureDirectory,
     DeployFiles, DeployCompose, FlushReload, FlushRestart, Start, ForgetRollback, Migrate,
     NextTurn, Remove, Restore, Rerun, FailDeployment, Rescue, Fail, Task, Tasks, Block
<1>3. svc[u][k] # Down
  BY <1>2 DEF ServeInv, EarlierHostsServe
<1>4. u \in Units /\ <<u, k>> # <<u, h>>
  BY <1>1 DEF TypeOK
<1> QED BY <1>1, <1>3, <1>4, OthersKeep

\* A start leaves a service behind, or was not needed.
LEMMA StartServes ==
  ASSUME TypeOK, Start
  PROVE  svc'[u][h] # Down
<1>1. CASE svc[u][h] = Down
  <2>1. Started /\ dir[u][h].compose # 0
    BY <1>1 DEF Start, Started
  <2>2. svc'[u][h].dir = dir[u][h]
    BY <2>1, StartedValue
  <2> QED BY <2>1, <2>2 DEF Down, NoDir
<1>2. CASE svc[u][h] # Down
  BY <1>2 DEF Start
<1> QED BY <1>1, <1>2

LEMMA EndServes ==
  ASSUME pc' = "idle"
  PROVE  ServeInv'
BY DEF ServeInv, EarlierHostsServe

LEMMA ServeStep == TypeOK /\ ServeInv /\ [Next]_vars => ServeInv'
<1> SUFFICES ASSUME TypeOK, ServeInv, [Next]_vars PROVE ServeInv'
  OBVIOUS
<1>1. CASE \E us \in SUBSET Units, l \in 0 .. N : deploy(us, l)
  BY <1>1, Constants DEF deploy, ServeInv, EarlierHostsServe
<1>2. CASE Start
  <2>1. UNCHANGED <<u, h, limit>> /\ pc' = "forget"
    BY <1>2 DEF Start, Task, play
  <2> QED BY <1>2, <2>1, TurnServes, StartServes DEF Turns, ServeInv
<1>3. CASE ForgetRollback \/ Migrate
  <2>1. UNCHANGED <<u, h, limit, svc>> /\ pc \in {"forget", "migrate"}
    BY <1>3 DEF ForgetRollback, Migrate, Task, play, host
  <2> QED BY <1>3, <2>1, TurnServes DEF Turns, ServeInv
<1>4. CASE \/ CleanRollback \/ Backup \/ DeployUnit \/ DeployScript \/ EnsureDirectory
           \/ DeployFiles \/ DeployCompose \/ FlushReload \/ FlushRestart
           \/ Remove \/ Restore \/ Rerun \/ Rescue
  <2>1. UNCHANGED <<u, h, limit>> /\ pc' \notin {"forget", "migrate", "next"}
    BY <1>4 DEF CleanRollback, Backup, DeployUnit, DeployScript, EnsureDirectory, DeployFiles,
       DeployCompose, FlushReload, FlushRestart, Remove, Restore, Rerun, Rescue, Task, play
  <2> QED BY <1>4, <2>1, TurnServes DEF Turns, ServeInv
<1>5. CASE NextTurn
  <2>1. pc = "next" /\ UNCHANGED svc /\ svc[u][h] # Down /\ h \in Nat
    BY <1>5, Constants DEF NextTurn, host, ServeInv, TypeOK, Hosts
  <2>2. CASE limit = 0 /\ h < N
    <3>1. u' = u /\ h' = h + 1 /\ limit' = limit /\ pc' = "clean"
      BY <1>5, <2>2 DEF NextTurn, Turn
    <3> SUFFICES ASSUME NEW k \in 1 .. h PROVE svc[u][k] # Down
      BY <2>1, <3>1 DEF ServeInv, EarlierHostsServe
    <3>2. k = h \/ k \in 1 .. h - 1
      BY <2>1
    <3> QED BY <2>1, <2>2, <3>2 DEF ServeInv, EarlierHostsServe
  <2>3. CASE ~(limit = 0 /\ h < N) /\ todo = {}
    BY <1>5, <2>3, EndServes DEF NextTurn, End
  <2>4. CASE ~(limit = 0 /\ h < N) /\ todo # {}
    <3>1. h' = First /\ limit' = limit /\ pc' = "clean"
      BY <1>5, <2>4 DEF NextTurn, Turn
    <3> QED BY <3>1 DEF First, ServeInv, EarlierHostsServe
  <2> QED BY <2>2, <2>3, <2>4
<1>6. CASE FailDeployment \/ Fail \/ Lost
  BY <1>6, EndServes DEF FailDeployment, Fail, Lost, End
<1>7. CASE \E r \in Releases : Release(r)
  BY <1>7, EndServes DEF Release
<1>8. CASE \E k \in Hosts, up \in SUBSET Units : Reboot(k, up)
  BY <1>8, EndServes DEF Reboot
<1>9. CASE UNCHANGED vars
  BY <1>9 DEF vars, host, play, ServeInv, EarlierHostsServe
<1> QED BY <1>1, <1>2, <1>3, <1>4, <1>5, <1>6, <1>7, <1>8, <1>9 DEF Next

\* A play over all the hosts goes to the next one only when the service is up on this
\* one, whichever task failed, for any number of hosts and whatever the policy.
THEOREM HostsServe == Spec => []EarlierHostsServe
<1>1. Init => ServeInv
  BY DEF Init, ServeInv, EarlierHostsServe
<1>2. ServeInv => EarlierHostsServe
  BY DEF ServeInv
<1> QED BY <1>1, <1>2, InitType, TypeStep, ServeStep, PTL DEF Spec
=============================================================================
