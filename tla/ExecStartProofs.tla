-------------------------- MODULE ExecStartProofs --------------------------
(***************************************************************************)
(* The start script implements the abstract Service, for every compose     *)
(* file and every timeout, and gives a service up only when nothing of it  *)
(* runs any more.                                                          *)
(***************************************************************************)
EXTENDS ExecStart, FiniteSetTheorems, TLAPS

USE DeclaredAssumption, ScansAssumption

----------------------------------------------------------------------------
(* The inductive invariant *)

\* The position of the script is the state of the unit.
Coherent ==
  /\ unit = "activating" <=> pc \in {"up", "ps", "config", "scan", "judge"}
  /\ unit = "active" <=> pc \in {"ready", "wait"}
  /\ unit = "deactivating" <=> pc = "stop"

\* A scan counts distinct containers of the list, which is complete when compose
\* can say what it declares.
Counted ==
  /\ pc \in {"up", "ps"} => todo = {} /\ RUNNING = {} /\ found = {}
  /\ pc \in {"config", "scan", "judge"} => CONTAINERS # {}
  /\ pc \in {"scan", "judge"} => /\ found \subseteq CONTAINERS \ todo
                                 /\ HEALTHY = Cardinality(found)
                                 /\ listed => CONTAINERS = Declared
  /\ pc = "judge" => current \in CONTAINERS \ (todo \union found)

\* What runs was listed, and at the end is waited for, or known to have escaped.
Watched ==
  /\ pc \in {"config", "scan", "judge", "ready", "wait"} =>
       \A c \in Declared : Runs(c) => c \in CONTAINERS
  /\ pc = "wait" => lost \/ \A c \in Declared : Runs(c) => c \in RUNNING

IInv == StartTypeOK /\ Coherent /\ Counted /\ Watched

----------------------------------------------------------------------------
(* Counting *)

LEMMA CountOneMore ==
  ASSUME NEW S1, S1 \subseteq Declared, NEW c \in Declared, c \notin S1
  PROVE  Cardinality(S1 \union {c}) = Cardinality(S1) + 1
BY FS_Subset, FS_AddElement

LEMMA CountIsAll ==
  ASSUME NEW S1, NEW S2, S1 \subseteq S2, S2 \subseteq Declared,
         Cardinality(S1) >= Cardinality(S2)
  PROVE  S1 = S2
<1>1. IsFiniteSet(S2) /\ IsFiniteSet(S1)
  BY FS_Subset
<1>2. Cardinality(S1) \in Nat /\ Cardinality(S2) \in Nat
  BY <1>1, FS_CardinalityType
<1>3. Cardinality(S1) <= Cardinality(S2)
  BY <1>1, FS_Subset
<1>4. Cardinality(S1) = Cardinality(S2)
  BY <1>2, <1>3
<1> QED
  BY <1>1, <1>4, FS_Subset

\* A list as long as the declaration is the declaration.
LEMMA ListedIsDeclared ==
  ASSUME StartTypeOK, listed, ~MissesSome
  PROVE  CONTAINERS = Declared
<1>1. IsFiniteSet(CONTAINERS)
  BY FS_Subset DEF StartTypeOK
<1>2. Cardinality(CONTAINERS) \in Nat /\ Cardinality(Declared) \in Nat
  BY <1>1, FS_CardinalityType
<1>3. Cardinality(CONTAINERS) >= Cardinality(Declared)
  BY <1>2 DEF MissesSome, TOTAL
<1> QED
  BY <1>3, CountIsAll DEF StartTypeOK

----------------------------------------------------------------------------
(* The invariant is inductive *)

LEMMA NoScanYet == 0 \in 0 .. MaxScans - 1
OBVIOUS

LEMMA InitHolds == Init => IInv
<1> SUFFICES ASSUME Init PROVE IInv
  OBVIOUS
<1>1. StartTypeOK
  BY NoScanYet DEF Init, StartTypeOK, Absent
<1>2. Coherent /\ Counted /\ Watched
  BY DEF Init, Coherent, Counted, Watched
<1> QED
  BY <1>1, <1>2 DEF IInv

\* The script leaves, whatever the reason.
LEMMA DeactivateKeeps ==
  ASSUME IInv, NEW why \in {"success", "exit-code", "abnormal"}, Deactivate(why)
  PROVE  IInv'
<1>1. StartTypeOK'
  BY DEF IInv, StartTypeOK, Deactivate, Leave, scanVars, countVars
<1>2. Coherent' /\ Counted' /\ Watched'
  BY DEF Deactivate, Leave, Coherent, Counted, Watched
<1> QED
  BY <1>1, <1>2 DEF IInv

LEMMA NewScanKeeps ==
  ASSUME IInv, pc \in {"config", "scan"}, NewScan, ELAPSED' \in 0 .. MaxScans - 1,
         listed => CONTAINERS = Declared
  PROVE  IInv'
<1>1. StartTypeOK'
  BY DEF IInv, StartTypeOK, NewScan
<1>2. Coherent'
  BY DEF IInv, StartTypeOK, Coherent, NewScan
<1>3. Counted'
  BY FS_EmptySet DEF IInv, Counted, NewScan
<1>4. Watched'
  BY DEF IInv, Watched, NewScan, Runs
<1> QED
  BY <1>1, <1>2, <1>3, <1>4 DEF IInv

LEMMA StartKeeps ==
  ASSUME IInv, start
  PROVE  IInv'
<1>1. StartTypeOK'
  BY NoScanYet DEF IInv, StartTypeOK, start
<1>2. Coherent' /\ Counted' /\ Watched'
  BY DEF start, Coherent, Counted, Watched
<1> QED
  BY <1>1, <1>2 DEF IInv

LEMMA StopKeeps ==
  ASSUME IInv, stop
  PROVE  IInv'
<1>1. CASE unit \in {"activating", "active"} /\ Deactivate("success")
  BY <1>1, DeactivateKeeps
<1>2. CASE /\ unit = "auto-restart" /\ unit' = "inactive"
           /\ UNCHANGED <<result, pc, box, lost>> /\ UNCHANGED scanVars
  <2>1. StartTypeOK'
    BY <1>2 DEF IInv, StartTypeOK, scanVars, countVars
  <2>2. Coherent' /\ Counted' /\ Watched'
    BY <1>2 DEF IInv, StartTypeOK, Coherent, Counted, Watched, Runs, scanVars, countVars
  <2> QED
    BY <2>1, <2>2 DEF IInv
<1> QED
  BY <1>1, <1>2 DEF stop

LEMMA ExecStopPostKeeps ==
  ASSUME IInv, ExecStopPost
  PROVE  IInv'
<1>1. /\ box' \in [Declared -> {"absent", "pending", "fine", "done", "dead"}]
      /\ result' \in {"success", "exit-code", "abnormal"}
      /\ unit' \in {"inactive", "auto-restart", "failed"}
      /\ pc = "stop" /\ pc' = "none"
  BY DEF IInv, StartTypeOK, ExecStopPost, Absent
<1>2. StartTypeOK'
  BY <1>1 DEF IInv, StartTypeOK, ExecStopPost, scanVars, countVars
<1>3. Coherent' /\ Counted' /\ Watched'
  BY <1>1 DEF Coherent, Counted, Watched
<1> QED
  BY <1>2, <1>3 DEF IInv

\* Only up creates; a container that stopped does not run again.
LEMMA CreateKeeps ==
  ASSUME IInv, NEW c \in Declared, Create(c)
  PROVE  IInv'
<1>1. StartTypeOK'
  BY DEF IInv, StartTypeOK, Create, scanVars, countVars
<1>2. Coherent' /\ Counted' /\ Watched'
  BY DEF IInv, StartTypeOK, Create, Coherent, Counted, Watched, scanVars, countVars
<1> QED
  BY <1>1, <1>2 DEF IInv

LEMMA ChangeKeeps ==
  ASSUME IInv, NEW c \in Declared, Change(c)
  PROVE  IInv'
<1>0. PICK b \in Successors(box[c]) : box' = [box EXCEPT ![c] = b]
  BY DEF Change
<1>1. /\ box[c] \in {"pending", "fine"}
      /\ b \in {"pending", "fine", "done", "dead"}
  BY <1>0 DEF Successors
<1>2. StartTypeOK'
  <2>1. box' \in [Declared -> {"absent", "pending", "fine", "done", "dead"}]
    BY <1>0, <1>1 DEF IInv, StartTypeOK
  <2> QED
    BY <2>1 DEF IInv, StartTypeOK, Change, scanVars, countVars
<1>3. \A d \in Declared : Runs(d)' => Runs(d)
  BY <1>0, <1>1 DEF IInv, StartTypeOK, Runs
<1>4. Coherent' /\ Counted'
  BY DEF IInv, StartTypeOK, Change, Coherent, Counted, scanVars, countVars
<1>5. Watched'
  BY <1>3 DEF IInv, Change, Watched, scanVars, countVars
<1> QED
  BY <1>2, <1>4, <1>5 DEF IInv

LEMMA UpReturnsKeeps ==
  ASSUME IInv, UpReturns
  PROVE  IInv'
<1>1. CASE Deactivate("exit-code")
  BY <1>1, DeactivateKeeps
<1>2. CASE pc = "up" /\ pc' = "ps" /\ UNCHANGED <<unit, result, box, lost>> /\ UNCHANGED scanVars
  <2>1. StartTypeOK'
    BY <1>2 DEF IInv, StartTypeOK, scanVars, countVars
  <2>2. Coherent' /\ Counted' /\ Watched'
    BY <1>2 DEF IInv, StartTypeOK, Coherent, Counted, Watched, scanVars, countVars
  <2> QED
    BY <2>1, <2>2 DEF IInv
<1> QED
  BY <1>1, <1>2 DEF UpReturns

LEMMA ListContainersKeeps ==
  ASSUME IInv, ListContainers
  PROVE  IInv'
<1>1. CONTAINERS' \subseteq Declared
  BY DEF ListContainers
<1>2. todo = {} /\ RUNNING = {} /\ found = {}
  BY DEF IInv, Counted, ListContainers
<1>3. pc' \in {"stop", "config"}
  BY DEF ListContainers
<1>4. StartTypeOK'
  BY <1>1, <1>2 DEF IInv, StartTypeOK, ListContainers, countVars
<1>5. Coherent'
  BY DEF IInv, StartTypeOK, Coherent, ListContainers
<1>6. Counted'
  BY <1>3 DEF ListContainers, Counted
<1>7. Watched'
  <2>1. CASE CONTAINERS' = {}
    BY <2>1 DEF ListContainers, Watched
  <2>2. CASE CONTAINERS' # {}
    <3>1. CONTAINERS' = {c \in Declared : box[c] # "absent"} /\ box' = box
      BY <2>2 DEF ListContainers
    <3>2. \A c \in Declared : Runs(c)' => c \in CONTAINERS'
      BY <3>1 DEF Runs
    <3> QED
      BY <1>3, <3>2 DEF Watched
  <2> QED
    BY <2>1, <2>2
<1> QED
  BY <1>4, <1>5, <1>6, <1>7 DEF IInv

LEMMA CheckDeclaredKeeps ==
  ASSUME IInv, CheckDeclared
  PROVE  IInv'
<1>1. CASE MissesSome
  BY <1>1, DeactivateKeeps DEF CheckDeclared
<1>2. CASE ~MissesSome
  <2>1. listed => CONTAINERS = Declared
    BY <1>2, ListedIsDeclared DEF IInv
  <2>2. NewScan /\ ELAPSED' = ELAPSED /\ pc = "config"
    BY <1>2 DEF CheckDeclared
  <2> QED
    BY <2>1, <2>2, NewScanKeeps DEF IInv, StartTypeOK
<1> QED
  BY <1>1, <1>2

LEMMA InspectKeeps ==
  ASSUME IInv, NEW c \in Declared, inspect(c)
  PROVE  IInv'
<1>1. /\ pc = "scan" /\ pc' = "judge" /\ c \in todo /\ todo' = todo \ {c} /\ current' = c
      /\ UNCHANGED <<unit, result, box, CONTAINERS, listed, ELAPSED, RUNNING, HEALTHY,
                     found, lost>>
  BY DEF inspect, countVars
<1>2. answer' \in {"", "running", "exited"}
  BY DEF inspect, Status
<1>3. StartTypeOK'
  BY <1>1, <1>2 DEF IInv, StartTypeOK
<1>4. Coherent' /\ Watched'
  BY <1>1 DEF IInv, Coherent, Watched, Runs
<1>5. Counted'
  BY <1>1 DEF IInv, StartTypeOK, Counted
<1> QED
  BY <1>3, <1>4, <1>5 DEF IInv

\* The scan goes on, having counted the container or not.
LEMMA NextContainerKeeps ==
  ASSUME IInv, pc = "judge", NextContainer,
         UNCHANGED countVars \/ Count
  PROVE  IInv'
<1>1. /\ pc' = "scan" /\ answer' = ""
      /\ UNCHANGED <<unit, result, box, CONTAINERS, listed, todo, current, ELAPSED,
                     RUNNING, lost>>
  BY DEF NextContainer
<1>2. /\ found \subseteq CONTAINERS \ todo /\ HEALTHY = Cardinality(found)
      /\ listed => CONTAINERS = Declared
      /\ CONTAINERS # {}
      /\ current \in CONTAINERS \ (todo \union found)
      /\ found \subseteq Declared /\ current \in Declared
  BY DEF IInv, StartTypeOK, Counted
<1>3. CASE UNCHANGED countVars
  <2>1. StartTypeOK'
    BY <1>1, <1>3 DEF IInv, StartTypeOK, countVars
  <2>2. Coherent' /\ Watched' /\ Counted'
    BY <1>1, <1>2, <1>3 DEF IInv, Coherent, Watched, Counted, Runs, countVars
  <2> QED
    BY <2>1, <2>2 DEF IInv
<1>4. CASE Count
  <2>1. HEALTHY' = HEALTHY + 1 /\ found' = found \union {current}
    BY <1>4 DEF Count
  <2>2. HEALTHY' = Cardinality(found')
    BY <1>2, <2>1, CountOneMore
  <2>3. StartTypeOK'
    <3>1. found' \subseteq CONTAINERS'
      BY <1>1, <1>2, <1>4, <2>1 DEF IInv, StartTypeOK
    <3>2. HEALTHY \in Nat
      BY DEF IInv, StartTypeOK
    <3>3. HEALTHY' \in Nat
      BY <2>1, <3>2
    <3> QED
      BY <1>1, <3>1, <3>3 DEF IInv, StartTypeOK
  <2>4. Counted'
    BY <1>1, <1>2, <2>1, <2>2 DEF Counted
  <2>5. Coherent' /\ Watched'
    BY <1>1 DEF IInv, Coherent, Watched, Runs
  <2> QED
    BY <2>3, <2>4, <2>5 DEF IInv
<1> QED
  BY <1>3, <1>4

LEMMA JudgeKeeps ==
  ASSUME IInv, JudgeRunning \/ JudgeExited \/ JudgeUnknown
  PROVE  IInv'
<1>1. CASE JudgeRunning
  BY <1>1, NextContainerKeeps DEF JudgeRunning
<1>2. CASE JudgeExited
  BY <1>2, NextContainerKeeps, DeactivateKeeps DEF JudgeExited
<1>3. CASE JudgeUnknown
  BY <1>3, NextContainerKeeps DEF JudgeUnknown
<1> QED
  BY <1>1, <1>2, <1>3

\* What EndScan does when the scan found them all.
LEMMA ActivateKeeps ==
  ASSUME IInv, unit' = "active", pc' = "ready", UNCHANGED <<result, box, lost>>,
         UNCHANGED scanVars, pc = "scan"
  PROVE  IInv'
<1>1. StartTypeOK'
  BY DEF IInv, StartTypeOK, scanVars, countVars
<1>2. Coherent' /\ Counted' /\ Watched'
  BY DEF IInv, Coherent, Counted, Watched, Runs, scanVars, countVars
<1> QED
  BY <1>1, <1>2 DEF IInv

LEMMA EndScanKeeps ==
  ASSUME IInv, EndScan
  PROVE  IInv'
<1>1. CASE HEALTHY >= TOTAL
  BY <1>1, ActivateKeeps DEF EndScan
<1>2. CASE ~(HEALTHY >= TOTAL) /\ ELAPSED + 1 >= MaxScans
  BY <1>2, DeactivateKeeps DEF EndScan
<1>3. CASE ~(HEALTHY >= TOTAL) /\ ~(ELAPSED + 1 >= MaxScans)
  <2>1. NewScan /\ ELAPSED' = ELAPSED + 1 /\ pc = "scan"
    BY <1>3 DEF EndScan
  <2>2. ELAPSED' \in 0 .. MaxScans - 1
    <3>1. MaxScans \in Nat /\ ELAPSED \in 0 .. MaxScans - 1
      BY DEF IInv, StartTypeOK
    <3> QED
      BY <1>3, <2>1, <3>1
  <2> QED
    BY <2>1, <2>2, NewScanKeeps DEF IInv, Counted
<1> QED
  BY <1>1, <1>2, <1>3

LEMMA CollectRunningKeeps ==
  ASSUME IInv, CollectRunning
  PROVE  IInv'
<1>1. PICK answered \in SUBSET CONTAINERS :
        /\ RUNNING' = {c \in answered : Runs(c)}
        /\ lost' = \E c \in CONTAINERS \ answered : Runs(c)
  BY DEF CollectRunning
<1>2. /\ pc = "ready" /\ pc' = "wait"
      /\ UNCHANGED <<unit, result, box, CONTAINERS, listed, todo, current, answer,
                     ELAPSED, HEALTHY, found>>
  BY DEF CollectRunning, countVars
<1>3. lost' \in BOOLEAN
  BY <1>1
<1>4. StartTypeOK'
  BY <1>1, <1>2, <1>3 DEF IInv, StartTypeOK
<1>5. Coherent' /\ Counted'
  BY <1>2 DEF IInv, Coherent, Counted
<1>6. Watched'
  <2>1. \A c \in Declared : Runs(c) => c \in CONTAINERS
    BY <1>2 DEF IInv, Watched
  <2>2. ASSUME ~lost', NEW c \in Declared, Runs(c)
        PROVE  c \in RUNNING'
    BY <1>1, <2>1, <2>2
  <2>3. \A c \in Declared : Runs(c)' = Runs(c)
    BY <1>2 DEF Runs
  <2> QED
    BY <1>2, <2>1, <2>2, <2>3 DEF Watched
<1> QED
  BY <1>4, <1>5, <1>6 DEF IInv

LEMMA WaitFailsKeeps ==
  ASSUME IInv, WaitFails
  PROVE  IInv'
<1>1. lost' \in BOOLEAN
  BY DEF IInv, StartTypeOK, WaitFails
<1>2. StartTypeOK'
  BY <1>1 DEF IInv, StartTypeOK, WaitFails, Leave, scanVars, countVars
<1>3. Coherent' /\ Counted' /\ Watched'
  BY DEF WaitFails, Leave, Coherent, Counted, Watched
<1> QED
  BY <1>2, <1>3 DEF IInv

LEMMA NextKeeps ==
  ASSUME IInv, Next
  PROVE  IInv'
<1>1. CASE start \/ stop \/ ExecStopPost
  BY <1>1, StartKeeps, StopKeeps, ExecStopPostKeeps
<1>2. CASE StartTimesOut \/ Killed
  BY <1>2, DeactivateKeeps DEF StartTimesOut, Killed
<1>3. CASE \E c \in Declared : Create(c) \/ Change(c)
  BY <1>3, CreateKeeps, ChangeKeeps
<1>4. CASE UpReturns \/ NotifyFails \/ WaitFails
  BY <1>4, UpReturnsKeeps, DeactivateKeeps, WaitFailsKeeps DEF NotifyFails
<1>5. CASE Script
  <2>1. CASE ListContainers \/ CheckDeclared \/ EndScan \/ CollectRunning
    BY <2>1, ListContainersKeeps, CheckDeclaredKeeps, EndScanKeeps, CollectRunningKeeps
  <2>2. CASE WaitReturns
    BY <2>2, DeactivateKeeps DEF WaitReturns
  <2>3. CASE \E c \in Declared : inspect(c)
    BY <2>3, InspectKeeps
  <2>4. CASE JudgeRunning \/ JudgeExited \/ JudgeUnknown
    BY <2>4, JudgeKeeps
  <2> QED
    BY <1>5, <2>1, <2>2, <2>3, <2>4 DEF Script
<1> QED
  BY <1>1, <1>2, <1>3, <1>4, <1>5 DEF Next

LEMMA StutterKeeps ==
  ASSUME IInv, UNCHANGED vars
  PROVE  IInv'
BY DEF IInv, StartTypeOK, Coherent, Counted, Watched, Runs, vars, countVars

THEOREM Inductive == Spec => []IInv
<1>1. IInv /\ [Next]_vars => IInv'
  BY NextKeeps, StutterKeeps
<1> QED
  BY InitHolds, <1>1, PTL DEF Spec

\* StartTypeOK in every behaviour of the unit and its script.
THEOREM TypeCorrect == Spec => []StartTypeOK
<1>1. IInv => StartTypeOK
  BY DEF IInv
<1> QED
  BY Inductive, <1>1, PTL

----------------------------------------------------------------------------
(* A service ends on its own only when nothing of it runs *)

LEMMA EndsStep ==
  ASSUME IInv, Next, unit = "active", unit' = "deactivating", result' = "exit-code"
  PROVE  lost' \/ \A c \in Declared : ~Runs(c)
<1>1. pc \in {"ready", "wait"}
  BY DEF IInv, Coherent
<1>2. WaitReturns \/ WaitFails
  BY <1>1 DEF Next, Script, start, stop, StartTimesOut, Killed, Deactivate, Leave,
       ExecStopPost, Create, Change, UpReturns, NotifyFails, ListContainers, CheckDeclared, inspect,
       JudgeRunning, JudgeExited, JudgeUnknown, EndScan, CollectRunning
<1>3. CASE WaitReturns
  <2>1. /\ \A c \in RUNNING : ~Runs(c)
        /\ pc = "wait" /\ lost' = lost
    BY <1>3 DEF WaitReturns, Stopped, Deactivate
  <2> QED
    BY <2>1 DEF IInv, Watched
<1>4. CASE WaitFails
  <2>1. pc = "wait" /\ lost' = (lost \/ \E c \in RUNNING : Runs(c))
    BY <1>4 DEF WaitFails
  <2> QED
    BY <2>1 DEF IInv, Watched
<1> QED
  BY <1>2, <1>3, <1>4

\* For any compose file, an active unit whose script exits has no running container,
\* unless podman gave no state for one that ran when the wait was set up, or the wait
\* itself failed.
THEOREM EndsWhenStopped == Spec => EndsOnlyWhenStopped
<1>1. IInv /\ [Next]_vars =>
        [unit = "active" /\ unit' = "deactivating" /\ result' = "exit-code"
           => lost' \/ \A c \in Declared : ~Runs(c)]_vars
  BY EndsStep
<1> QED
  BY Inductive, <1>1, PTL DEF Spec, EndsOnlyWhenStopped

----------------------------------------------------------------------------
(* The script implements Service *)

Down == {"inactive", "deactivating", "auto-restart", "failed"}

LEMMA IsStart ==
  ASSUME unit \in Down, unit' = "activating", found' = {}
  PROVE  S!Start("unit")
BY DEF S!Start, Down, Sound

LEMMA IsStop ==
  ASSUME unit \in {"activating", "active"}, unit' = "deactivating"
  PROVE  S!Stop("unit")
BY DEF S!Stop

LEMMA IsLook ==
  ASSUME unit = "activating", unit' = "activating"
  PROVE  S!Look("unit")
<1>1. Sound' \in BOOLEAN
  BY DEF Sound
<1> QED
  BY <1>1 DEF S!Look

LEMMA IsReady ==
  ASSUME unit = "activating", unit' = "active", Sound, Sound'
  PROVE  S!Ready("unit")
BY DEF S!Ready

LEMMA IsSame ==
  ASSUME unit' = unit, UNCHANGED <<CONTAINERS, listed, found>>
  PROVE  UNCHANGED S!serviceVars
<1>1. Sound' = Sound
  BY DEF Sound
<1> QED
  BY <1>1 DEF S!serviceVars

LEMMA IsDown ==
  ASSUME unit \in Down, unit' \in Down
  PROVE  UNCHANGED S!serviceVars
BY DEF S!serviceVars, Down

LEMMA OneService ==
  ASSUME S!Start("unit") \/ S!Look("unit") \/ S!Ready("unit") \/ S!Stop("unit")
  PROVE  S!ServiceNext
BY DEF S!ServiceNext

\* The scan that ends well has vouched for every container.
LEMMA ScanIsSound ==
  ASSUME IInv, pc = "scan", todo = {}, HEALTHY >= TOTAL
  PROVE  Sound
<1>1. /\ found \subseteq CONTAINERS /\ CONTAINERS \subseteq Declared
      /\ Cardinality(found) >= Cardinality(CONTAINERS)
      /\ CONTAINERS # {}
      /\ listed => CONTAINERS = Declared
  BY DEF IInv, StartTypeOK, Counted, TOTAL
<1>2. found = CONTAINERS
  BY <1>1, CountIsAll
<1> QED
  BY <1>1, <1>2 DEF Sound

LEMMA NextImplements ==
  ASSUME IInv, [Next]_vars
  PROVE  [S!ServiceNext]_(S!serviceVars)
<1>1. CASE start
  BY <1>1, IsStart, OneService DEF start, Down
<1>2. ASSUME NEW why, Leave(why), unit \in {"activating", "active"}
      PROVE  S!ServiceNext
  BY <1>2, IsStop, OneService DEF Leave
<1>3. CASE stop \/ StartTimesOut \/ Killed
  <2>1. CASE stop /\ unit = "auto-restart"
    BY <2>1, IsDown DEF stop, Deactivate, Leave, Down
  <2> QED
    BY <1>2, <1>3, <2>1 DEF stop, StartTimesOut, Killed, Deactivate
<1>4. CASE ExecStopPost
  <2>1. unit \in Down /\ unit' \in Down
    BY <1>4 DEF ExecStopPost, IInv, Coherent, Down
  <2> QED
    BY <2>1, IsDown
<1>5. CASE \E c \in Declared : Create(c) \/ Change(c)
  BY <1>5, IsSame DEF Create, Change, scanVars, countVars
<1>6. CASE UpReturns \/ NotifyFails
  <2>1. CASE Deactivate("exit-code")
    BY <1>6, <2>1, <1>2 DEF UpReturns, NotifyFails, Deactivate, IInv, Coherent
  <2> QED
    BY <1>6, <2>1, IsSame DEF UpReturns, NotifyFails, scanVars, countVars
<1>7. CASE \/ ListContainers \/ CheckDeclared \/ EndScan \/ \E c \in Declared : inspect(c)
           \/ JudgeRunning \/ JudgeExited \/ JudgeUnknown
  <2>1. unit = "activating"
    BY <1>7 DEF ListContainers, CheckDeclared, EndScan, inspect, JudgeRunning, JudgeExited,
         JudgeUnknown, IInv, Coherent
  <2>2. CASE unit' = "activating"
    BY <2>1, <2>2, IsLook, OneService
  <2>3. CASE unit' = "deactivating"
    BY <2>1, <2>3, IsStop, OneService
  <2>4. CASE unit' = "active"
    <3>1. /\ pc = "scan" /\ todo = {} /\ HEALTHY >= TOTAL /\ UNCHANGED scanVars
      BY <1>7, <2>1, <2>4 DEF ListContainers, CheckDeclared, EndScan, inspect,
           JudgeRunning, JudgeExited, JudgeUnknown, NextContainer, NewScan, Deactivate, Leave
    <3>2. Sound /\ Sound'
      BY <3>1, ScanIsSound DEF Sound, scanVars, countVars, countVars
    <3> QED
      BY <2>1, <2>4, <3>2, IsReady, OneService
  <2>5. unit' \in {"activating", "deactivating", "active"}
    BY <1>7, <2>1 DEF ListContainers, CheckDeclared, EndScan, inspect, JudgeRunning,
         JudgeExited, JudgeUnknown, NextContainer, NewScan, Deactivate, Leave
  <2> QED
    BY <2>2, <2>3, <2>4, <2>5
<1>8. CASE CollectRunning
  BY <1>8, IsSame DEF CollectRunning, countVars
<1>9. CASE WaitReturns \/ WaitFails
  BY <1>9, <1>2 DEF WaitReturns, WaitFails, Deactivate, IInv, Coherent
<1>10. CASE UNCHANGED vars
  BY <1>10, IsSame DEF vars
<1> QED
  BY <1>1, <1>3, <1>4, <1>5, <1>6, <1>7, <1>8, <1>9, <1>10 DEF Next, Script

LEMMA InitImplements == Init => S!ServiceInit
BY DEF Init, S!ServiceInit

\* Every behaviour of the unit and its script is one of Service: for any compose
\* file and timeout a unit is ready only after one scan that vouched for every declared
\* container, those podman gave no health for included.
THEOREM Implements == Spec => S!SafeSpec
<1>1. IInv /\ [Next]_vars => [S!ServiceNext]_(S!serviceVars)
  BY NextImplements
<1> QED
  BY Inductive, InitImplements, <1>1, PTL DEF Spec, S!SafeSpec
============================================================================
