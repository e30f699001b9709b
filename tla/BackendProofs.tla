--------------------------- MODULE BackendProofs ---------------------------
(***************************************************************************)
(* Runs of bootstrap, cancelled, dying or complete, by any operator, for   *)
(* every set of sites, clones, releases and env keys, and every number of  *)
(* runs, edits and passwords: the vault of a registered site keeps its     *)
(* password; the references of an env blob resolve with the backend of the *)
(* site; what the operator answers is what is read; and the operator's own *)
(* lines stay.  The first needs the invariant IInv only; the others need   *)
(* BInv as well, and what merge makes of two blobs of any length.          *)
(***************************************************************************)
EXTENDS Backend, ListFacts, FiniteSetTheorems

USE PasswordAssumption, ReleaseAssumption

----------------------------------------------------------------------------
(* The inductive invariant *)

Typed ==
  /\ password \in [Clones -> Nat]
  /\ made \in Nat
  /\ vault = [s \in Sites |-> [by |-> vault[s].by, names |-> vault[s].names]]
  /\ \A s \in Sites : vault[s].by \in Nat
  /\ unit \in [Sites -> BOOLEAN]

RunTyped ==
  /\ run = [pc |-> run.pc, clone |-> run.clone, site |-> run.site, fresh |-> run.fresh,
            backend |-> run.backend, choice |-> run.choice, answers |-> run.answers,
            buf |-> run.buf]
  /\ run.pc # "idle" => run.clone \in Clones /\ run.site \in Sites

\* A vault that exists is encrypted with some password.
Encrypted == \A s \in Sites : vault[s] # NoVault => vault[s].by # 0

\* Secrets to write exist only with ansible-vault, and then so does the password.
Equipped ==
  /\ run.pc \in {"ask", "vars", "vault"} /\ run.backend = "ansible-vault" =>
       password[run.clone] # 0
  /\ run.pc \in {"vars", "vault"} /\ run.buf # {} => run.backend = "ansible-vault"

\* What ensure_vault_readable found stays true to the end of the run.
Readable == run.pc # "idle" /\ unit[run.site] => CanRead(run.clone, run.site)

IInv == Typed /\ RunTyped /\ Encrypted /\ Equipped /\ Readable

\* What the operator does between two runs, and what leaves the vaults and the
\* passwords alone.
Untouched == UNCHANGED <<password, made, vault, unit>>

----------------------------------------------------------------------------
(* The invariant is inductive *)

LEMMA InitHolds == Init => IInv
<1> SUFFICES ASSUME Init PROVE IInv
  OBVIOUS
<1>1. Typed /\ RunTyped /\ Encrypted
  BY DEF Init, Typed, RunTyped, Encrypted, NoVault, Idle
<1>2. Equipped /\ Readable
  BY DEF Init, Idle, Equipped, Readable
<1> QED
  BY <1>1, <1>2 DEF IInv

\* A run that moves on with its clone, its site, its backend and its secrets.
LEMMA GoesOn ==
  ASSUME IInv, Untouched, RunTyped', Equipped',
         run.pc # "idle" \/ run'.pc = "idle",
         run'.pc # "idle" => run'.clone = run.clone /\ run'.site = run.site
  PROVE  IInv'
<1>1. Typed' /\ Encrypted'
  BY DEF IInv, Untouched, Typed, Encrypted
<1>2. Readable'
  BY DEF IInv, Untouched, Readable, CanRead
<1> QED
  BY <1>1, <1>2 DEF IInv

LEMMA BetweenRuns ==
  ASSUME IInv, run.pc = "idle", UNCHANGED <<made, vault, unit, run>>,
         password' \in [Clones -> Nat]
  PROVE  IInv'
<1>1. Typed' /\ RunTyped' /\ Encrypted'
  BY DEF IInv, Typed, RunTyped, Encrypted
<1>2. Equipped' /\ Readable'
  BY DEF IInv, Equipped, Readable
<1> QED
  BY <1>1, <1>2 DEF IInv

LEMMA OperatorKeeps ==
  ASSUME IInv,
         \/ install_release
         \/ \E c, d \in Clones : HandOver(c, d)
         \/ \E s \in Sites : EditVars(s)
  PROVE  IInv'
<1>1. CASE install_release
  BY <1>1, BetweenRuns DEF IInv, Typed, install_release, tree, manifest
<1>2. CASE \E c, d \in Clones : HandOver(c, d)
  BY <1>2, BetweenRuns DEF IInv, Typed, HandOver, tree, manifest, bounds
<1>3. CASE \E s \in Sites : EditVars(s)
  BY <1>3, BetweenRuns DEF IInv, Typed, EditVars, tree, manifest, bounds
<1> QED
  BY <1>1, <1>2, <1>3

LEMMA BootstrapKeeps ==
  ASSUME IInv, NEW c \in Clones, NEW s \in Sites, bootstrap(c, s)
  PROVE  IInv'
<1>1. Untouched /\ (unit[s] => CanRead(c, s))
  BY DEF bootstrap, Mem, Untouched, tree, manifest
<1>2. PICK fresh \in BOOLEAN :
        run' = [Idle EXCEPT !.pc = "backend", !.clone = c, !.site = s, !.fresh = fresh,
                            !.choice = choice[s]]
  BY DEF bootstrap
<1>3. /\ run'.pc = "backend" /\ run'.clone = c /\ run'.site = s
      /\ RunTyped'
  BY <1>2 DEF Idle, RunTyped
<1>4. Typed' /\ Encrypted' /\ Equipped'
  BY <1>1, <1>3 DEF IInv, Untouched, Typed, Encrypted, Equipped
<1>5. Readable'
  BY <1>1, <1>3 DEF Untouched, Readable, CanRead
<1> QED
  BY <1>3, <1>4, <1>5 DEF IInv

LEMMA SetupBackendKeeps ==
  ASSUME IInv, setup_backend
  PROVE  IInv'
<1>1. Untouched /\ run.pc = "backend"
  BY DEF setup_backend, Mem, Untouched, manifest
<1>2. PICK b, ch : run' = [run EXCEPT !.pc = "password", !.backend = b, !.choice = ch]
  <2>1. CASE choice[run.site] # "none" \/ unit[run.site]
    <3>1. run' = [run EXCEPT !.pc = "password", !.backend = secret_config_for(run.site)]
      BY <2>1 DEF setup_backend
    <3>2. run' = [run EXCEPT !.pc = "password", !.backend = secret_config_for(run.site),
                             !.choice = run.choice]
      BY <3>1 DEF IInv, RunTyped
    <3> QED
      BY <3>2
  <2>2. CASE ~(choice[run.site] # "none" \/ unit[run.site])
    BY <2>2 DEF setup_backend, Chosen
  <2> QED
    BY <2>1, <2>2
<1>3. /\ run'.pc = "password" /\ run'.clone = run.clone /\ run'.site = run.site
      /\ RunTyped'
  BY <1>1, <1>2 DEF IInv, RunTyped
<1>4. Equipped'
  BY <1>3 DEF Equipped
<1> QED
  BY <1>1, <1>3, <1>4, GoesOn

LEMMA EnsureVaultPasswordKeeps ==
  ASSUME IInv, ensure_vault_password
  PROVE  IInv'
<1>1. /\ run.pc = "password" /\ run.clone \in Clones /\ run.site \in Sites
      /\ run' = [run EXCEPT !.pc = "ask"]
      /\ UNCHANGED <<vault, unit>>
  BY DEF IInv, RunTyped, ensure_vault_password, tree, manifest
<1>2. /\ run'.pc = "ask" /\ run'.clone = run.clone /\ run'.site = run.site
      /\ run'.backend = run.backend /\ RunTyped'
  BY <1>1 DEF IInv, RunTyped
<1>3. CASE run.backend = "ansible-vault" /\ password[run.clone] = 0
  <2>1. /\ made' = made + 1
        /\ password' = [password EXCEPT ![run.clone] = made + 1]
    BY <1>3 DEF ensure_vault_password
  <2>2. Typed' /\ Encrypted'
    BY <1>1, <2>1 DEF IInv, Typed, Encrypted
  <2>3. Equipped'
    BY <1>1, <1>2, <2>1 DEF IInv, Typed, Equipped
  <2>4. Readable'
    <3> SUFFICES ASSUME unit[run.site] PROVE CanRead(run.clone, run.site)'
      BY <1>1, <1>2 DEF Readable
    <3>1. CanRead(run.clone, run.site)
      BY <1>1 DEF IInv, Readable
    <3>2. vault[run.site] = NoVault
      BY <1>1, <1>3, <3>1 DEF IInv, Encrypted, CanRead
    <3> QED
      BY <1>1, <1>2, <3>2 DEF CanRead
  <2> QED
    BY <1>2, <2>2, <2>3, <2>4 DEF IInv
<1>4. CASE ~(run.backend = "ansible-vault" /\ password[run.clone] = 0)
  <2>1. Untouched
    BY <1>1, <1>4 DEF ensure_vault_password, Untouched
  <2>2. Equipped'
    BY <1>2, <1>4, <2>1 DEF Untouched, Equipped
  <2> QED
    BY <1>1, <1>2, <2>1, <2>2, GoesOn
<1> QED
  BY <1>3, <1>4

LEMMA QuestionnaireKeeps ==
  ASSUME IInv, questionnaire
  PROVE  IInv'
<1>1. Untouched /\ run.pc = "ask"
  BY DEF questionnaire, Untouched, tree, manifest
<1>2. PICK answers, buf :
        /\ run' = [run EXCEPT !.pc = "vars", !.answers = answers, !.buf = buf]
        /\ buf # {} => run.backend = "ansible-vault"
  BY DEF questionnaire
<1>3. /\ run'.pc = "vars" /\ run'.clone = run.clone /\ run'.site = run.site
      /\ run'.backend = run.backend
      /\ run'.buf # {} => run.backend = "ansible-vault"
      /\ RunTyped'
  BY <1>1, <1>2 DEF IInv, RunTyped
<1>4. Equipped'
  BY <1>1, <1>3 DEF IInv, Equipped, Untouched
<1> QED
  BY <1>1, <1>3, <1>4, GoesOn

LEMMA WriteVarsKeeps ==
  ASSUME IInv, write_vars
  PROVE  IInv'
<1>1. /\ Untouched /\ run.pc = "vars"
      /\ run' = [run EXCEPT !.pc = "vault"]
  BY DEF write_vars, Untouched, Mem, manifest
<1>2. /\ run'.pc = "vault" /\ run'.clone = run.clone /\ run'.site = run.site
      /\ run'.backend = run.backend /\ run'.buf = run.buf
      /\ RunTyped'
  BY <1>1 DEF IInv, RunTyped
<1>3. Equipped'
  BY <1>1, <1>2 DEF IInv, Equipped, Untouched
<1> QED
  BY <1>1, <1>2, <1>3, GoesOn

\* The password of a run that writes secrets is the one of the vault it merges into,
\* and of the vault it replaces when the site is registered.
LEMMA WriteVaultWrites ==
  ASSUME IInv, write_vault, run.buf # {}
  PROVE  /\ run.site \in Sites /\ password[run.clone] \in Nat \ {0}
         /\ \E names : vault' = [vault EXCEPT ![run.site] =
                                   [by |-> password[run.clone], names |-> names]]
<1>1. run.pc = "vault"
  BY DEF write_vault
<1>2. run.site \in Sites /\ run.clone \in Clones
  BY <1>1 DEF IInv, RunTyped
<1>3. password[run.clone] # 0
  BY <1>1 DEF IInv, Equipped
<1> QED
  BY <1>2, <1>3 DEF IInv, Typed, write_vault

LEMMA WriteVaultKeeps ==
  ASSUME IInv, write_vault
  PROVE  IInv'
<1>1. /\ UNCHANGED <<password, made, unit>> /\ run.pc = "vault"
      /\ run' = [run EXCEPT !.pc = "save"]
      /\ run.buf = {} => vault' = vault
  BY DEF write_vault, Mem, manifest
<1>2. /\ run'.pc = "save" /\ run'.clone = run.clone /\ run'.site = run.site
      /\ RunTyped'
  BY <1>1 DEF IInv, RunTyped
<1>3. Equipped'
  BY <1>2 DEF Equipped
<1>4. CASE run.buf = {}
  BY <1>1, <1>2, <1>3, <1>4, GoesOn DEF Untouched
<1>5. CASE run.buf # {}
  <2>1. /\ run.site \in Sites /\ password[run.clone] \in Nat \ {0}
        /\ \E names : vault' = [vault EXCEPT ![run.site] =
                                  [by |-> password[run.clone], names |-> names]]
    BY <1>5, WriteVaultWrites
  <2>2. PICK names : vault' = [vault EXCEPT ![run.site] =
                                 [by |-> password[run.clone], names |-> names]]
    BY <2>1
  <2>3. DOMAIN vault = Sites
    BY DEF IInv, Typed
  <2>4. vault'[run.site].by = password[run.clone]
    BY <2>1, <2>2, <2>3
  <2>5. Typed'
    BY <1>1, <2>1, <2>2, <2>3 DEF IInv, Typed
  <2>6. Encrypted'
    BY <2>1, <2>2, <2>3, <2>4 DEF IInv, Encrypted
  <2>7. Readable'
    BY <1>1, <1>2, <2>4 DEF Readable, CanRead
  <2> QED
    BY <1>2, <1>3, <2>5, <2>6, <2>7 DEF IInv
<1> QED
  BY <1>4, <1>5

LEMMA SaveManifestKeeps ==
  ASSUME IInv, save_manifest
  PROVE  IInv'
<1>1. /\ run.pc = "save" /\ run' = Idle
      /\ UNCHANGED <<password, made, vault>>
      /\ unit' = [unit EXCEPT ![run.site] = TRUE]
  BY DEF save_manifest, tree
<1>2. RunTyped' /\ Equipped' /\ Readable'
  BY <1>1 DEF Idle, RunTyped, Equipped, Readable
<1>3. Typed' /\ Encrypted'
  BY <1>1 DEF IInv, Typed, Encrypted
<1> QED
  BY <1>2, <1>3 DEF IInv

LEMMA DiesKeeps ==
  ASSUME IInv, Dies
  PROVE  IInv'
<1>1. Untouched /\ run' = Idle
  BY DEF Dies, Untouched, tree, manifest
<1>2. RunTyped' /\ Equipped' /\ run'.pc = "idle"
  BY <1>1 DEF Idle, RunTyped, Equipped
<1> QED
  BY <1>1, <1>2, GoesOn

LEMMA StutterKeeps ==
  ASSUME IInv, UNCHANGED vars
  PROVE  IInv'
<1>1. Untouched /\ UNCHANGED run
  BY DEF vars, Untouched, tree, manifest
<1>2. RunTyped' /\ Equipped'
  BY <1>1 DEF IInv, RunTyped, Equipped, Untouched
<1> QED
  BY <1>1, <1>2, GoesOn

LEMMA NextKeeps ==
  ASSUME IInv, Next
  PROVE  IInv'
<1>1. CASE \E c \in Clones, s \in Sites : bootstrap(c, s)
  BY <1>1, BootstrapKeeps
<1>2. CASE RunNext
  BY <1>2, SetupBackendKeeps, EnsureVaultPasswordKeeps, QuestionnaireKeeps,
     WriteVarsKeeps, WriteVaultKeeps, SaveManifestKeeps, DiesKeeps DEF RunNext
<1> QED
  BY <1>1, <1>2, OperatorKeeps DEF Next

\* The invariant holds in every reachable state.
THEOREM Inductive == Spec => []IInv
<1>1. IInv /\ [Next]_vars => IInv'
  BY NextKeeps, StutterKeeps
<1> QED
  BY InitHolds, <1>1, PTL DEF Spec

----------------------------------------------------------------------------
(* One password *)

KeepsPassword ==
  \A s \in Sites : unit[s] /\ vault[s] # NoVault => vault'[s].by = vault[s].by

LEMMA WriteVaultKeepsPassword ==
  ASSUME IInv, write_vault
  PROVE  KeepsPassword
<1>1. CASE run.buf = {}
  BY <1>1 DEF write_vault, KeepsPassword
<1>2. CASE run.buf # {}
  <2>1. /\ run.site \in Sites
        /\ \E names : vault' = [vault EXCEPT ![run.site] =
                                  [by |-> password[run.clone], names |-> names]]
    BY <1>2, WriteVaultWrites
  <2>2. PICK names : vault' = [vault EXCEPT ![run.site] =
                                 [by |-> password[run.clone], names |-> names]]
    BY <2>1
  <2>3. DOMAIN vault = Sites
    BY DEF IInv, Typed
  <2> SUFFICES ASSUME NEW s \in Sites, unit[s], vault[s] # NoVault
               PROVE  vault'[s].by = vault[s].by
    BY DEF KeepsPassword
  <2>4. CASE s = run.site
    <3>1. run.pc = "vault"
      BY DEF write_vault
    <3>2. vault[s].by = password[run.clone]
      BY <2>4, <3>1 DEF IInv, Readable, CanRead
    <3> QED
      BY <2>1, <2>2, <2>3, <2>4, <3>2
  <2>5. CASE s # run.site
    BY <2>2, <2>3, <2>5
  <2> QED
    BY <2>4, <2>5
<1> QED
  BY <1>1, <1>2

LEMMA OthersLeaveVaults ==
  ASSUME [Next]_vars, ~write_vault
  PROVE  UNCHANGED vault
<1>1. CASE UNCHANGED vars
  BY <1>1 DEF vars, tree
<1>2. CASE install_release \/ (\E c, d \in Clones : HandOver(c, d))
             \/ \E s \in Sites : EditVars(s)
  BY <1>2 DEF install_release, HandOver, EditVars, tree
<1>3. CASE \E c \in Clones, s \in Sites : bootstrap(c, s)
  BY <1>3 DEF bootstrap, tree
<1>4. CASE setup_backend \/ ensure_vault_password \/ questionnaire
  BY <1>4 DEF setup_backend, ensure_vault_password, questionnaire, tree
<1>5. CASE write_vars \/ save_manifest \/ Dies
  BY <1>5 DEF write_vars, save_manifest, Dies, tree
<1> QED
  BY <1>1, <1>2, <1>3, <1>4, <1>5 DEF Next, RunNext

LEMMA PasswordStep ==
  ASSUME IInv, [Next]_vars
  PROVE  KeepsPassword
<1>1. CASE write_vault
  BY <1>1, WriteVaultKeepsPassword
<1>2. CASE ~write_vault
  BY <1>2, OthersLeaveVaults DEF KeepsPassword
<1> QED
  BY <1>1, <1>2

\* A registered site's vault keeps the password every other clone reads it with
\* (ensure_vault_readable, core/vault.py).
THEOREM OnePassword == Spec => RegisteredVaultKeepsPassword
<1>1. IInv /\ [Next]_vars =>
        [\A s \in Sites : unit[s] /\ vault[s] # NoVault =>
           vault'[s].by = vault[s].by]_vars
  BY PasswordStep DEF KeepsPassword
<1> QED
  BY Inductive, <1>1, PTL DEF Spec, RegisteredVaultKeepsPassword

----------------------------------------------------------------------------
(* The invariant of the blobs and the vaults' names *)

Backends == {"ansible-vault", "hashi_vault"}

Stored ==
  /\ password \in [Clones -> 0 .. made] /\ made \in 0 .. MaxPasswords
  /\ release \in Releases
  /\ choice \in [Sites -> {"none"} \union Backends]
  /\ unit \in [Sites -> BOOLEAN]
  /\ blob \in [Sites -> Seq(Lines)]
  /\ vault \in [Sites -> [by : 0 .. made, names : SUBSET AllKeys]]
  /\ connection \in [Sites -> BOOLEAN]
  /\ interrupted \subseteq Sites

\* The backend of a run, once setup_backend has settled it: the one the manifest names,
\* with the connection OpenBao needs.
Settled ==
  /\ run.pc \in {"idle", "backend", "password", "ask", "vars", "vault", "save"}
  /\ \A s \in Sites : /\ unit[s] <=> choice[s] # "none"
                      /\ choice[s] = "hashi_vault" => connection[s]
  /\ run.pc = "backend" => run.choice = choice[run.site]
  /\ run.pc \in {"idle", "backend"} => run.backend = "none" /\ run.buf = {}
  /\ run.pc \in {"password", "ask", "vars", "vault", "save"} =>
       /\ run.backend \in Backends /\ run.choice = run.backend
       /\ unit[run.site] => run.backend = choice[run.site]
       /\ run.backend = "hashi_vault" => connection[run.site]

Answered ==
  /\ run.buf \subseteq AllKeys
  /\ run.backend = "hashi_vault" => run.buf = {}
  /\ run.pc \in {"vars", "vault"} => run.answers \in [Asked(release) -> Values]

\* The names of the vault once the run has written it.
WrittenNames == run.buf \union (IF run.fresh THEN {} ELSE vault[run.site].names)

At(s, pcs) == run.site = s /\ run.pc \in pcs
BackendOf(s) ==
  IF unit[s] THEN choice[s]
  ELSE IF At(s, {"password", "ask", "vars", "vault", "save"}) THEN run.backend ELSE "none"
NamesOf(s) == IF At(s, {"vault"}) THEN WrittenNames ELSE vault[s].names

\* A reference of that key works with the backend and the names of the vault.
Fit(backend, names, key, value) ==
  /\ value = "vault" => backend = "ansible-vault" /\ key \in names
  /\ value = "lookup" => backend = "hashi_vault"

Fits ==
  \A s \in Sites \ interrupted :
    /\ ~unit[s] /\ ~At(s, {"vault", "save"}) => blob[s] = <<>>
    /\ ~unit[s] /\ ~At(s, {"save"}) => vault[s] = NoVault
    /\ BackendOf(s) = "hashi_vault" => vault[s] = NoVault
    /\ \A i \in DOMAIN blob[s] : Fit(BackendOf(s), NamesOf(s), blob[s][i].key, blob[s][i].value)

AnswersFit ==
  run.pc = "vars" /\ run.site \notin interrupted =>
    \A k \in Asked(release) : Fit(run.backend, WrittenNames, k, run.answers[k])

\* st-cli writes a key once, and what it writes is the answer.
Once ==
  \A s \in Sites, k \in AllKeys : <<s, k>> \notin doubled =>
    \A i, j \in DOMAIN blob[s] : blob[s][i].key = k /\ blob[s][j].key = k => i = j

Takes ==
  run.pc = "vault" =>
    \A k \in Asked(release) : <<run.site, k>> \notin doubled =>
      \E i \in DOMAIN blob[run.site] :
        blob[run.site][i].key = k /\ Same(Line(k, run.answers[k]), blob[run.site][i])

\* What a run leaves in the files fits what the next one, or a deployment, makes of them.
BInv == Stored /\ Settled /\ Answered /\ Fits /\ AnswersFit /\ Once /\ Takes

----------------------------------------------------------------------------
(* The env blob *)

OfLines(R) == \A l \in R : l = Line(l.key, l.value)

LEMMA LineIs == ASSUME NEW k, NEW v PROVE Line(k, v).key = k /\ Line(k, v).value = v
BY DEF Line

\* The value that is read is the value of one of the lines of the key.
LEMMA ParseIs ==
  ASSUME NEW R, NEW b \in Seq(R), NEW k \in KeysOf(b)
  PROVE  \E i \in DOMAIN b : b[i].key = k /\ parse(b)[k] = b[i].value
<1> DEFINE I == {i \in DOMAIN b : b[i].key = k}
<1>1. Len(b) \in Nat /\ DOMAIN b = 1 .. Len(b) /\ k # NoKey /\ I # {}
  BY DEF KeysOf
<1>2. I \subseteq 1 .. Len(b)
  BY <1>1
<1>3. PICK l \in I : \A j \in I : j <= l
  <2> HIDE DEF I
  <2> QED
    BY <1>1, <1>2, FirstAndLast
<1>4. l \in DOMAIN b /\ b[l].key = k /\ IsLast(b, l)
  BY <1>1, <1>3 DEF IsLast
<1> DEFINE c == CHOOSE i \in DOMAIN b : b[i].key = k /\ IsLast(b, i)
<1>5. c \in DOMAIN b /\ b[c].key = k
  BY <1>4
<1>6. parse(b)[k] = b[c].value
  BY DEF parse
<1> QED
  BY <1>5, <1>6

LEMMA FirstIs ==
  ASSUME NEW R, NEW b \in Seq(R), NEW k \in KeysOf(b)
  PROVE  \E i \in DOMAIN b : b[i].key = k /\ IsFirst(b, i)
<1> DEFINE I == {i \in DOMAIN b : b[i].key = k}
<1>1. Len(b) \in Nat /\ DOMAIN b = 1 .. Len(b) /\ k # NoKey /\ I # {}
  BY DEF KeysOf
<1>2. I \subseteq 1 .. Len(b)
  BY <1>1
<1>3. PICK l \in I : \A j \in I : l <= j
  <2> HIDE DEF I
  <2> QED
    BY <1>1, <1>2, FirstAndLast
<1>4. l \in DOMAIN b /\ b[l].key = k /\ IsFirst(b, l)
  BY <1>1, <1>3 DEF IsFirst
<1> QED
  BY <1>4

\* The lines of a key of the render, as they are rewritten or added.
Rendered(r, k) == Line(k, parse(r)[k])

LEMMA RenderedIs ==
  ASSUME NEW R, OfLines(R), NEW r \in Seq(R), NEW k \in KeysOf(r)
  PROVE  /\ Rendered(r, k) \in R /\ Rendered(r, k).key = k
         /\ Rendered(r, k).value = parse(r)[k]
<1>1. PICK i \in DOMAIN r : r[i].key = k /\ parse(r)[k] = r[i].value
  BY ParseIs
<1>2. r[i] \in R
  OBVIOUS
<1>3. r[i] = Line(k, parse(r)[k])
  BY <1>1, <1>2 DEF OfLines
<1> QED
  BY <1>1, <1>2, <1>3 DEF Rendered

LEMMA RewriteIs ==
  ASSUME NEW R, OfLines(R), NEW e \in Seq(R), NEW r \in Seq(R)
  PROVE  LET w == rewrite(e, r)
         IN  /\ w \in Seq(R) /\ Len(w) = Len(e) /\ DOMAIN w = DOMAIN e
             /\ \A i \in DOMAIN e :
                  /\ w[i].key = e[i].key
                  /\ e[i].key \notin KeysOf(r) => w[i] = e[i]
                  /\ IsFirst(e, i) /\ e[i].key \in KeysOf(r) => w[i] = Rendered(r, e[i].key)
                  /\ w[i] = e[i] \/ (e[i].key \in KeysOf(r) /\ w[i] = Rendered(r, e[i].key))
<1> DEFINE w == rewrite(e, r)
<1>1. Len(e) \in Nat /\ DOMAIN e = 1 .. Len(e) /\ \A i \in DOMAIN e : e[i] \in R
  OBVIOUS
<1>2. DOMAIN w = DOMAIN e
  BY DEF rewrite
<1>3. \A i \in DOMAIN e :
        w[i] = IF IsFirst(e, i) /\ e[i].key \in KeysOf(r) THEN Rendered(r, e[i].key) ELSE e[i]
  BY DEF rewrite, Rendered
<1>4. w = [i \in DOMAIN e |-> w[i]]
  BY DEF rewrite
<1>5. \A k \in KeysOf(r) : Rendered(r, k) \in R /\ Rendered(r, k).key = k
  BY RenderedIs
<1> HIDE DEF w
<1>6. \A i \in DOMAIN e :
        /\ w[i] \in R
        /\ w[i].key = e[i].key
        /\ e[i].key \notin KeysOf(r) => w[i] = e[i]
        /\ IsFirst(e, i) /\ e[i].key \in KeysOf(r) => w[i] = Rendered(r, e[i].key)
        /\ w[i] = e[i] \/ (e[i].key \in KeysOf(r) /\ w[i] = Rendered(r, e[i].key))
  BY <1>1, <1>3, <1>5
<1>7. w \in [1 .. Len(e) -> R]
  BY <1>1, <1>4, <1>6
<1>8. w \in Seq(R) /\ Len(w) = Len(e)
  BY <1>1, <1>7
<1> QED
  BY <1>2, <1>6, <1>8 DEF w

LEMMA NewLinesIs ==
  ASSUME NEW R, OfLines(R), NEW e \in Seq(R), NEW r \in Seq(R)
  PROVE  LET n == new_lines(e, r)
         IN  /\ n \in Seq(R)
             /\ \A j \in DOMAIN n : /\ n[j].key \in KeysOf(r) \ KeysOf(e)
                                    /\ n[j] = Rendered(r, n[j].key)
             /\ \A k \in KeysOf(r) \ KeysOf(e) : \E j \in DOMAIN n : n[j].key = k
             /\ \A i, j \in DOMAIN n : n[i].key = n[j].key => i = j
<1> DEFINE I == {i \in DOMAIN r : IsFirst(r, i) /\ r[i].key \notin KeysOf(e)}
           q == Where(r, I)
           n == new_lines(e, r)
<1>1. /\ q \in Seq(R)
      /\ \A j \in DOMAIN q : \E i \in I \cap DOMAIN r : q[j] = r[i]
      /\ \A i \in I \cap DOMAIN r : \E j \in DOMAIN q : q[j] = r[i]
      /\ \A j, k \in DOMAIN q : j # k =>
           \E h, i \in I \cap DOMAIN r : h # i /\ q[j] = r[h] /\ q[k] = r[i]
  <2> HIDE DEF I
  <2> QED
    BY WhereFacts
<1>2. n = [j \in DOMAIN q |-> Rendered(r, q[j].key)]
  BY DEF new_lines, Rendered
<1>3. Len(r) \in Nat /\ DOMAIN r = 1 .. Len(r) /\ Len(q) \in Nat /\ DOMAIN q = 1 .. Len(q)
  BY <1>1
<1>4. \A i \in I \cap DOMAIN r : r[i].key \in KeysOf(r) \ KeysOf(e) /\ IsFirst(r, i)
  BY DEF KeysOf, IsFirst
<1>5. \A h, i \in I \cap DOMAIN r : h # i => r[h].key # r[i].key
  BY <1>3 DEF IsFirst
<1>6. \A k \in KeysOf(r) \ KeysOf(e) : \E i \in I \cap DOMAIN r : r[i].key = k
  BY FirstIs
<1>7. \A k \in KeysOf(r) : Rendered(r, k) \in R /\ Rendered(r, k).key = k
  BY RenderedIs
<1> HIDE DEF I, q, n
<1>8. \A j \in DOMAIN q : q[j].key \in KeysOf(r) \ KeysOf(e)
  BY <1>1, <1>4
<1>9. /\ DOMAIN n = DOMAIN q
      /\ \A j \in DOMAIN q : n[j] \in R /\ n[j].key = q[j].key /\ n[j] = Rendered(r, q[j].key)
  BY <1>2, <1>7, <1>8
<1>10. n \in Seq(R)
  <2>1. n = [j \in 1 .. Len(q) |-> n[j]]
    BY <1>2, <1>3, <1>9
  <2>2. n \in [1 .. Len(q) -> R]
    BY <1>3, <1>9, <2>1
  <2> QED
    BY <1>3, <2>2
<1>11. \A j \in DOMAIN n : n[j].key \in KeysOf(r) \ KeysOf(e) /\ n[j] = Rendered(r, n[j].key)
  BY <1>8, <1>9
<1>12. \A k \in KeysOf(r) \ KeysOf(e) : \E j \in DOMAIN n : n[j].key = k
  BY <1>1, <1>6, <1>9
<1>13. \A i, j \in DOMAIN n : n[i].key = n[j].key => i = j
  <2> SUFFICES ASSUME NEW i \in DOMAIN n, NEW j \in DOMAIN n, i # j
               PROVE  n[i].key # n[j].key
    OBVIOUS
  <2>1. PICK h, l \in I \cap DOMAIN r : h # l /\ q[i] = r[h] /\ q[j] = r[l]
    BY <1>1, <1>9
  <2> QED
    BY <1>5, <1>9, <2>1
<1> QED
  BY <1>10, <1>11, <1>12, <1>13 DEF n

\* What is appended: nothing, or the marker and the new lines.
LEMMA TailIs ==
  ASSUME NEW R, NEW n \in Seq(R), NEW marker \in R
  PROVE  LET t == IF n = <<>> THEN <<>> ELSE <<marker>> \o n
         IN  /\ t \in Seq(R)
             /\ \A i \in DOMAIN t : IF i = 1 THEN t[i] = marker
                                             ELSE i - 1 \in DOMAIN n /\ t[i] = n[i - 1]
             /\ \A j \in DOMAIN n : j + 1 \in DOMAIN t /\ t[j + 1] = n[j]
<1> DEFINE t == <<marker>> \o n
<1>1. CASE n = <<>>
  BY <1>1
<1>2. CASE n # <<>>
  <2>1. <<marker>> \in Seq(R) /\ Len(<<marker>>) = 1 /\ <<marker>>[1] = marker
    OBVIOUS
  <2>2. /\ t \in Seq(R) /\ Len(t) = 1 + Len(n) /\ t[1] = marker
        /\ \A j \in 1 .. Len(n) : t[1 + j] = n[j]
    <3>1. /\ <<marker>> \o n \in Seq(R) /\ Len(<<marker>> \o n) = Len(<<marker>>) + Len(n)
          /\ \A i \in 1 .. Len(<<marker>>) : (<<marker>> \o n)[i] = <<marker>>[i]
          /\ \A i \in 1 .. Len(n) : (<<marker>> \o n)[Len(<<marker>>) + i] = n[i]
      BY <2>1, ConcatIs
    <3> HIDE DEF t
    <3> QED
      BY <2>1, <3>1 DEF t
  <2> HIDE DEF t
  <2>3. /\ DOMAIN n = 1 .. Len(n) /\ DOMAIN t = 1 .. 1 + Len(n) /\ Len(n) \in Nat
    BY <2>2
  <2>4. ASSUME NEW i \in DOMAIN t, i # 1 PROVE i - 1 \in DOMAIN n /\ t[i] = n[i - 1]
    <3>1. i - 1 \in DOMAIN n /\ 1 + (i - 1) = i
      BY <2>3, <2>4
    <3> QED
      BY <2>2, <2>3, <3>1
  <2>5. ASSUME NEW j \in DOMAIN n PROVE j + 1 \in DOMAIN t /\ t[j + 1] = n[j]
    BY <2>2, <2>3
  <2> QED
    BY <1>2, <2>2, <2>4, <2>5 DEF t
<1> QED
  BY <1>1, <1>2

\* What merge makes of a blob e and a render r of the answers A, with one line a key.
Renders(r, A) ==
  /\ \A i \in DOMAIN r : r[i].key \in DOMAIN A /\ r[i].value = A[r[i].key]
  /\ \A k \in DOMAIN A : \E i \in DOMAIN r : r[i].key = k
  /\ \A i, j \in DOMAIN r : r[i].key = r[j].key => i = j

AtMostOnce(b, k) == \A i, j \in DOMAIN b : b[i].key = k /\ b[j].key = k => i = j

LEMMA RenderedAnswers ==
  ASSUME NEW R, OfLines(R), NEW r \in Seq(R), NEW A, NoKey \notin DOMAIN A, Renders(r, A)
  PROVE  /\ KeysOf(r) = DOMAIN A
         /\ \A k \in DOMAIN A : Rendered(r, k) \in R /\ Rendered(r, k) = Line(k, A[k])
<1>1. KeysOf(r) = DOMAIN A
  <2>1. ASSUME NEW k \in KeysOf(r) PROVE k \in DOMAIN A
    <3>1. PICK i \in DOMAIN r : r[i].key = k
      BY DEF KeysOf
    <3> QED
      BY <3>1 DEF Renders
  <2>2. ASSUME NEW k \in DOMAIN A PROVE k \in KeysOf(r)
    <3>1. PICK i \in DOMAIN r : r[i].key = k
      BY DEF Renders
    <3> QED
      BY <3>1 DEF KeysOf
  <2> QED
    BY <2>1, <2>2
<1>2. ASSUME NEW k \in DOMAIN A
      PROVE  Rendered(r, k) \in R /\ Rendered(r, k) = Line(k, A[k])
  <2>1. k \in KeysOf(r)
    BY <1>1
  <2>2. PICK i \in DOMAIN r : r[i].key = k /\ parse(r)[k] = r[i].value
    BY <2>1, ParseIs
  <2>3. parse(r)[k] = A[k]
    BY <2>2 DEF Renders
  <2>4. Rendered(r, k) \in R
    BY <2>1, RenderedIs
  <2> QED
    BY <2>3, <2>4 DEF Rendered
<1> QED
  BY <1>1, <1>2

\* A blob e, rewritten to w, then the marker and the new lines n.
Splits(e, w, n, marker, m) ==
  /\ Len(m) >= Len(e)
  /\ \A i \in DOMAIN e : i \in DOMAIN m /\ m[i] = w[i]
  /\ \A i \in DOMAIN m \ DOMAIN e :
       \/ m[i] = marker /\ i = Len(e) + 1
       \/ i - (Len(e) + 1) \in DOMAIN n /\ m[i] = n[i - (Len(e) + 1)]
  /\ \A j \in DOMAIN n : /\ Len(e) + 1 + j \in DOMAIN m \ DOMAIN e
                         /\ m[Len(e) + 1 + j] = n[j]

LEMMA MergeSplits ==
  ASSUME NEW R, OfLines(R), NEW e \in Seq(R), NEW r \in Seq(R), e # <<>>,
         NEW marker \in R
  PROVE  /\ merge(e, r, marker) \in Seq(R)
         /\ Splits(e, rewrite(e, r), new_lines(e, r), marker, merge(e, r, marker))
<1> DEFINE m == merge(e, r, marker)
           n == new_lines(e, r)
           w == rewrite(e, r)
           t == IF n = <<>> THEN <<>> ELSE <<marker>> \o n
<1>1. m = w \o t
  BY DEF merge, IsBlank
<1>2. w \in Seq(R) /\ Len(w) = Len(e) /\ DOMAIN w = DOMAIN e
  BY RewriteIs
<1>3. n \in Seq(R)
  BY NewLinesIs
<1> HIDE DEF w, n, m
<1>4. /\ t \in Seq(R)
      /\ \A i \in DOMAIN t : IF i = 1 THEN t[i] = marker
                                      ELSE i - 1 \in DOMAIN n /\ t[i] = n[i - 1]
      /\ \A j \in DOMAIN n : j + 1 \in DOMAIN t /\ t[j + 1] = n[j]
  BY <1>3, TailIs
<1> HIDE DEF t
<1>5. /\ w \o t \in Seq(R) /\ Len(w \o t) = Len(w) + Len(t)
      /\ \A i \in 1 .. Len(w) : (w \o t)[i] = w[i]
      /\ \A i \in 1 .. Len(t) : (w \o t)[Len(w) + i] = t[i]
  <2>1. w \in Seq(R) /\ t \in Seq(R)
    BY <1>2, <1>4
  <2> QED
    BY <2>1, ConcatIs
<1>6. /\ m \in Seq(R) /\ Len(m) = Len(e) + Len(t)
      /\ \A i \in 1 .. Len(e) : m[i] = w[i]
      /\ \A i \in 1 .. Len(t) : m[Len(e) + i] = t[i]
  BY <1>1, <1>2, <1>5
<1>7. /\ Len(e) \in Nat /\ Len(t) \in Nat /\ DOMAIN e = 1 .. Len(e) /\ DOMAIN t = 1 .. Len(t)
      /\ DOMAIN m = 1 .. Len(e) + Len(t) /\ DOMAIN n = 1 .. Len(n) /\ Len(n) \in Nat
  BY <1>3, <1>4, <1>6
<1>8. \A i \in DOMAIN e : i \in DOMAIN m /\ m[i] = w[i]
  BY <1>6, <1>7
<1>9. ASSUME NEW i \in DOMAIN m \ DOMAIN e
      PROVE  \/ m[i] = marker /\ i = Len(e) + 1
             \/ i - (Len(e) + 1) \in DOMAIN n /\ m[i] = n[i - (Len(e) + 1)]
  <2>1. /\ i \in Int /\ i - Len(e) \in 1 .. Len(t) /\ Len(e) + (i - Len(e)) = i
        /\ (i - Len(e)) - 1 = i - (Len(e) + 1)
    <3> DEFINE a == Len(e)
               b == Len(t)
    <3>1. a \in Nat /\ b \in Nat /\ i \in (1 .. a + b) \ (1 .. a)
      BY <1>7
    <3> HIDE DEF a, b
    <3>2. i \in Int /\ i - a \in 1 .. b /\ a + (i - a) = i /\ (i - a) - 1 = i - (a + 1)
      BY <3>1
    <3> QED
      BY <3>2 DEF a, b
  <2>2. m[i] = t[i - Len(e)]
    BY <1>6, <2>1
  <2>3. CASE i - Len(e) = 1
    <3>1. i = Len(e) + 1
      BY <1>7, <2>1, <2>3
    <3>2. 1 \in DOMAIN t
      BY <1>7, <2>1, <2>3
    <3>3. t[1] = marker
      BY <1>4, <3>2
    <3> QED
      BY <2>2, <2>3, <3>1, <3>3
  <2>4. CASE i - Len(e) # 1
    <3>1. i - Len(e) \in DOMAIN t
      BY <1>7, <2>1
    <3>2. (i - Len(e)) - 1 \in DOMAIN n /\ t[i - Len(e)] = n[(i - Len(e)) - 1]
      BY <1>4, <2>4, <3>1
    <3> QED
      BY <2>1, <2>2, <3>2
  <2> QED
    BY <2>3, <2>4
<1>10. ASSUME NEW j \in DOMAIN n
       PROVE  Len(e) + 1 + j \in DOMAIN m \ DOMAIN e /\ m[Len(e) + 1 + j] = n[j]
  <2>1. j + 1 \in 1 .. Len(t) /\ t[j + 1] = n[j]
    BY <1>4, <1>7
  <2>2. /\ Len(e) + (j + 1) = Len(e) + 1 + j
        /\ Len(e) + 1 + j \in DOMAIN m \ DOMAIN e
    BY <1>7, <2>1
  <2> QED
    BY <1>6, <2>1, <2>2
<1>11. Len(m) >= Len(e)
  BY <1>6, <1>7
<1> QED
  BY <1>6, <1>8, <1>9, <1>10, <1>11 DEF Splits, w, n, m

\* Folding the answers into a blob: the lines keep their place and key, those of other
\* keys stay; every line is an old one, the marker or an answer; a key that was at most
\* once there still is, and then its line is the answer.
Folded(e, m, A, marker) ==
  /\ Len(m) >= Len(e)
  /\ \A i \in DOMAIN e : /\ i \in DOMAIN m /\ m[i].key = e[i].key
                         /\ e[i].key \notin DOMAIN A => m[i] = e[i]
  /\ \A i \in DOMAIN m : \/ i \in DOMAIN e /\ m[i] = e[i]
                         \/ m[i] = marker
                         \/ m[i].key \in DOMAIN A /\ m[i].value = A[m[i].key]
  /\ \A k : k # NoKey /\ AtMostOnce(e, k) => AtMostOnce(m, k)
  /\ \A k \in DOMAIN A : AtMostOnce(e, k) => \E i \in DOMAIN m : m[i] = Line(k, A[k])

LEMMA MergeFolds ==
  ASSUME NEW R, OfLines(R), NEW e \in Seq(R), NEW r \in Seq(R), e # <<>>,
         NEW marker \in R, marker.key = NoKey,
         NEW A, NoKey \notin DOMAIN A, Renders(r, A),
         NEW m, m = merge(e, r, marker)
  PROVE  m \in Seq(R) /\ Folded(e, m, A, marker)
<1>0. PICK n, w : n = new_lines(e, r) /\ w = rewrite(e, r)
  OBVIOUS
<1>1. /\ m \in Seq(R) /\ Len(m) >= Len(e)
      /\ \A i \in DOMAIN e : i \in DOMAIN m /\ m[i] = w[i]
      /\ \A i \in DOMAIN m \ DOMAIN e :
           \/ m[i] = marker /\ i = Len(e) + 1
           \/ i - (Len(e) + 1) \in DOMAIN n /\ m[i] = n[i - (Len(e) + 1)]
      /\ \A j \in DOMAIN n : Len(e) + 1 + j \in DOMAIN m \ DOMAIN e /\ m[Len(e) + 1 + j] = n[j]
  <2>1. merge(e, r, marker) \in Seq(R)
        /\ Splits(e, rewrite(e, r), new_lines(e, r), marker, merge(e, r, marker))
    BY MergeSplits
  <2> QED
    BY <1>0, <2>1 DEF Splits
<1>2. \A i \in DOMAIN e :
        /\ w[i].key = e[i].key
        /\ e[i].key \notin KeysOf(r) => w[i] = e[i]
        /\ IsFirst(e, i) /\ e[i].key \in KeysOf(r) => w[i] = Rendered(r, e[i].key)
        /\ w[i] = e[i] \/ (e[i].key \in KeysOf(r) /\ w[i] = Rendered(r, e[i].key))
  BY <1>0, RewriteIs
<1>3. /\ \A j \in DOMAIN n : n[j].key \in KeysOf(r) \ KeysOf(e) /\ n[j] = Rendered(r, n[j].key)
      /\ \A k \in KeysOf(r) \ KeysOf(e) : \E j \in DOMAIN n : n[j].key = k
      /\ \A i, j \in DOMAIN n : n[i].key = n[j].key => i = j
  <2>1. LET n1 == new_lines(e, r)
        IN  /\ \A j \in DOMAIN n1 : /\ n1[j].key \in KeysOf(r) \ KeysOf(e)
                                    /\ n1[j] = Rendered(r, n1[j].key)
            /\ \A k \in KeysOf(r) \ KeysOf(e) : \E j \in DOMAIN n1 : n1[j].key = k
            /\ \A i, j \in DOMAIN n1 : n1[i].key = n1[j].key => i = j
    BY NewLinesIs
  <2> QED
    BY <1>0, <2>1
<1>4. /\ KeysOf(r) = DOMAIN A
      /\ \A k \in DOMAIN A : Rendered(r, k) = Line(k, A[k])
  BY RenderedAnswers
<1>5. Len(e) \in Nat /\ DOMAIN e = 1 .. Len(e) /\ DOMAIN m = 1 .. Len(m) /\ Len(m) \in Nat
  BY <1>1
<1>6. \A i \in DOMAIN e : /\ i \in DOMAIN m /\ m[i].key = e[i].key
                          /\ e[i].key \notin DOMAIN A => m[i] = e[i]
  BY <1>1, <1>2, <1>4
<1>7. ASSUME NEW i \in DOMAIN m
      PROVE  \/ i \in DOMAIN e /\ m[i] = e[i]
             \/ m[i] = marker
             \/ m[i].key \in DOMAIN A /\ m[i].value = A[m[i].key]
  <2>1. CASE i \in DOMAIN e
    BY <1>1, <1>2, <1>4, <2>1, LineIs
  <2>2. CASE i \notin DOMAIN e
    BY <1>1, <1>3, <1>4, <2>2, LineIs
  <2> QED
    BY <2>1, <2>2
<1>8. \A i \in DOMAIN m \ DOMAIN e : m[i].key # NoKey =>
        /\ m[i].key \in KeysOf(r) \ KeysOf(e)
        /\ i - (Len(e) + 1) \in DOMAIN n /\ m[i] = n[i - (Len(e) + 1)]
  BY <1>1, <1>3
<1>9. \A i \in DOMAIN e : e[i].key # NoKey => e[i].key \in KeysOf(e)
  BY DEF KeysOf
<1>10. ASSUME NEW k, k # NoKey, AtMostOnce(e, k)
       PROVE  AtMostOnce(m, k)
  <2> SUFFICES ASSUME NEW i \in DOMAIN m, NEW j \in DOMAIN m, m[i].key = k, m[j].key = k
               PROVE  i = j
    BY DEF AtMostOnce
  <2>1. CASE i \in DOMAIN e /\ j \in DOMAIN e
    BY <1>6, <1>10, <2>1 DEF AtMostOnce
  <2>2. CASE i \in DOMAIN e /\ j \notin DOMAIN e
    BY <1>6, <1>8, <1>9, <1>10, <2>2
  <2>3. CASE i \notin DOMAIN e /\ j \in DOMAIN e
    BY <1>6, <1>8, <1>9, <1>10, <2>3
  <2>4. CASE i \notin DOMAIN e /\ j \notin DOMAIN e
    <3>1. /\ i - (Len(e) + 1) \in DOMAIN n /\ m[i] = n[i - (Len(e) + 1)]
          /\ j - (Len(e) + 1) \in DOMAIN n /\ m[j] = n[j - (Len(e) + 1)]
      BY <1>8, <1>10, <2>4
    <3>2. i - (Len(e) + 1) = j - (Len(e) + 1)
      BY <1>3, <3>1
    <3> QED
      BY <1>5, <3>2
  <2> QED
    BY <2>1, <2>2, <2>3, <2>4
<1>11. ASSUME NEW k \in DOMAIN A, AtMostOnce(e, k)
       PROVE  \E i \in DOMAIN m : m[i] = Line(k, A[k])
  <2>1. CASE k \in KeysOf(e)
    <3>1. PICK i \in DOMAIN e : e[i].key = k /\ IsFirst(e, i)
      BY <2>1, FirstIs
    <3> QED
      BY <1>1, <1>2, <1>4, <3>1
  <2>2. CASE k \notin KeysOf(e)
    <3>1. PICK j \in DOMAIN n : n[j].key = k
      BY <1>3, <1>4, <2>2
    <3> QED
      BY <1>1, <1>3, <1>4, <3>1
  <2> QED
    BY <2>1, <2>2
<1> QED
  BY <1>1, <1>6, <1>7, <1>10, <1>11 DEF Folded

LEMMA BlankFolds ==
  ASSUME NEW R, OfLines(R), NEW r \in Seq(R), NEW marker,
         NEW A, NoKey \notin DOMAIN A, Renders(r, A)
  PROVE  /\ merge(<<>>, r, marker) = r
         /\ Folded(<<>>, r, A, marker)
<1>1. merge(<<>>, r, marker) = r
  BY DEF merge, IsBlank
<1>2. Len(r) >= Len(<<>>) /\ DOMAIN <<>> = {}
  OBVIOUS
<1>3. \A k : AtMostOnce(r, k)
  BY DEF AtMostOnce, Renders
<1>4. ASSUME NEW k \in DOMAIN A PROVE \E i \in DOMAIN r : r[i] = Line(k, A[k])
  <2>1. PICK i \in DOMAIN r : r[i].key = k
    BY DEF Renders
  <2>2. r[i] \in R
    OBVIOUS
  <2>3. r[i] = Line(k, r[i].value) /\ r[i].value = A[k]
    BY <2>1, <2>2 DEF OfLines, Renders
  <2> QED
    BY <2>3
<1>5. \A i \in DOMAIN r : r[i].key \in DOMAIN A /\ r[i].value = A[r[i].key]
  BY DEF Renders
<1> QED
  BY <1>1, <1>2, <1>3, <1>4, <1>5 DEF Folded

----------------------------------------------------------------------------
(* What write_vars writes *)

LEMMA LinesAre ==
  /\ OfLines(Lines)
  /\ \A k \in {NoKey} \union AllKeys \union OwnKeys, v \in Values :
       Line(k, v) \in Lines /\ Line(k, v).key = k /\ Line(k, v).value = v
BY DEF OfLines, Lines, Line

LEMMA AskedIs ==
  /\ \A r \in Releases : Asked(r) \subseteq AllKeys
  /\ \A r \in Releases : NoKey \notin Asked(r)
<1>1. ASSUME NEW r \in Releases PROVE Asked(r) \subseteq AllKeys
  <2>1. 1 .. r \subseteq 1 .. Len(SecretKeys)
    OBVIOUS
  <2> QED
    BY <2>1 DEF Asked, AllKeys
<1> QED
  BY <1>1, KeysAssumption

\* render_env has one line for each answer, in the order of the template.
LEMMA RenderIs ==
  ASSUME NEW K, K \subseteq AllKeys, run.answers \in [K -> Values]
  PROVE  render_env \in Seq(Lines) /\ Renders(render_env, run.answers)
<1> DEFINE I == {i \in DOMAIN Order : Order[i] \in DOMAIN run.answers}
           keys == Where(Order, I)
           A == run.answers
<1>1. /\ Order \in Seq(AllKeys)
      /\ \A k \in AllKeys : \E i \in DOMAIN Order : Order[i] = k
      /\ \A i, j \in DOMAIN Order : Order[i] = Order[j] => i = j
  BY OrderAssumption
<1>2. /\ keys \in Seq(AllKeys)
      /\ \A j \in DOMAIN keys : \E i \in I \cap DOMAIN Order : keys[j] = Order[i]
      /\ \A i \in I \cap DOMAIN Order : \E j \in DOMAIN keys : keys[j] = Order[i]
      /\ \A j, k \in DOMAIN keys : j # k =>
           \E h, i \in I \cap DOMAIN Order : h # i /\ keys[j] = Order[h] /\ keys[k] = Order[i]
  <2> HIDE DEF I
  <2> QED
    BY <1>1, WhereFacts
<1>3. render_env = [i \in DOMAIN keys |-> Line(keys[i], A[keys[i]])]
  BY DEF render_env
<1>4. DOMAIN A = K /\ \A k \in K : A[k] \in Values
  OBVIOUS
<1>5. \A i \in I : Order[i] \in K /\ i \in DOMAIN Order
  BY <1>4
<1>6. \A k \in K : \E i \in I \cap DOMAIN Order : Order[i] = k
  BY <1>1, <1>4
<1> HIDE DEF I, keys, A
<1>7. \A j \in DOMAIN keys : keys[j] \in K
  BY <1>2, <1>5
<1>8. /\ DOMAIN render_env = DOMAIN keys
      /\ \A j \in DOMAIN keys : render_env[j] = Line(keys[j], A[keys[j]])
  BY <1>3
<1>9. \A j \in DOMAIN keys : /\ render_env[j] \in Lines
                             /\ render_env[j].key = keys[j]
                             /\ render_env[j].value = A[keys[j]]
  BY <1>4, <1>7, <1>8, LinesAre
<1>10. render_env \in Seq(Lines)
  <2>1. Len(keys) \in Nat /\ DOMAIN keys = 1 .. Len(keys)
    BY <1>2
  <2>2. render_env \in [1 .. Len(keys) -> Lines]
    BY <1>3, <1>8, <1>9, <2>1
  <2> QED
    BY <2>1, <2>2
<1>11. \A k \in K : \E j \in DOMAIN keys : keys[j] = k
  BY <1>2, <1>6
<1>12. \A i, j \in DOMAIN keys : keys[i] = keys[j] => i = j
  BY <1>1, <1>2, <1>5
<1>13. Renders(render_env, A)
  BY <1>4, <1>7, <1>8, <1>9, <1>11, <1>12 DEF Renders
<1> QED
  BY <1>10, <1>13 DEF A

\* Expanding the markers leaves every line its place and its key.
LEMMA ExpandIs ==
  ASSUME NEW m \in Seq(Lines)
  PROVE  /\ expand_var_markers(m) \in Seq(Lines)
         /\ Len(expand_var_markers(m)) = Len(m)
         /\ DOMAIN expand_var_markers(m) = DOMAIN m
         /\ \A i \in DOMAIN m :
              /\ expand_var_markers(m)[i].key = m[i].key
              /\ Same(m[i], expand_var_markers(m)[i])
              /\ \/ expand_var_markers(m)[i] = m[i]
                 \/ /\ run.backend = "hashi_vault"
                    /\ expand_var_markers(m)[i].value = "lookup"
<1>1. CASE run.backend # "hashi_vault"
  <2>1. expand_var_markers(m) = m
    BY <1>1 DEF expand_var_markers
  <2> QED
    BY <2>1 DEF Same
<1>2. CASE run.backend = "hashi_vault"
  <2>0. PICK b : b = expand_var_markers(m)
    OBVIOUS
  <2>1. b = [i \in DOMAIN m |-> IF m[i].value = "marker" THEN Line(m[i].key, "lookup") ELSE m[i]]
    BY <1>2, <2>0 DEF expand_var_markers
  <2>2. Len(m) \in Nat /\ DOMAIN m = 1 .. Len(m) /\ \A i \in DOMAIN m : m[i] \in Lines
    OBVIOUS
  <2>3. \A l \in Lines : l.key \in {NoKey} \union AllKeys \union OwnKeys
    BY DEF Lines
  <2>4. \A l \in Lines : /\ Line(l.key, "lookup") \in Lines /\ Line(l.key, "lookup").key = l.key
                         /\ Line(l.key, "lookup").value = "lookup"
    BY <2>3, LinesAre DEF Values
  <2>5. \A i \in DOMAIN m : /\ b[i] \in Lines /\ b[i].key = m[i].key
                            /\ Same(m[i], b[i])
                            /\ b[i] = m[i] \/ b[i].value = "lookup"
    BY <2>1, <2>2, <2>4 DEF Same
  <2>6. b \in [1 .. Len(m) -> Lines]
    BY <2>1, <2>2, <2>5
  <2>7. b \in Seq(Lines) /\ Len(b) = Len(m) /\ DOMAIN b = DOMAIN m
    BY <2>2, <2>6
  <2> QED
    BY <1>2, <2>0, <2>5, <2>7
<1> QED
  BY <1>1, <1>2

\* The blob before and after write_vars: the operator's, or none under Override.
Before == IF run.fresh THEN <<>> ELSE blob[run.site]
Text == Line(NoKey, "text")

LEMMA WriteVarsWrites ==
  ASSUME IInv, BInv, write_vars
  PROVE  \E m \in Seq(Lines) :
           /\ Before \in Seq(Lines) /\ run.site \in Sites
           /\ Folded(Before, m, run.answers, Text)
           /\ blob' = [blob EXCEPT ![run.site] = expand_var_markers(m)]
<1>1. run.pc = "vars" /\ run.site \in Sites /\ blob \in [Sites -> Seq(Lines)]
      /\ run.answers \in [Asked(release) -> Values] /\ release \in Releases
  BY DEF write_vars, IInv, RunTyped, BInv, Stored, Answered
<1> DEFINE m == merge(Before, render_env, Text)
<1>2. blob' = [blob EXCEPT ![run.site] = expand_var_markers(m)]
  BY <1>1 DEF write_vars, Before, Text
<1>3. Before \in Seq(Lines)
  <2>1. <<>> \in Seq(Lines)
    OBVIOUS
  <2> QED
    BY <1>1, <2>1 DEF Before
<1>4. Asked(release) \subseteq AllKeys /\ NoKey \notin Asked(release)
  BY <1>1, AskedIs
<1>5. render_env \in Seq(Lines) /\ Renders(render_env, run.answers)
  BY <1>1, <1>4, RenderIs
<1>6. Text \in Lines /\ Text.key = NoKey /\ OfLines(Lines)
  BY LinesAre DEF Text, Values
<1>7. DOMAIN run.answers = Asked(release)
  BY <1>1
<1>8. CASE Before = <<>>
  <2>1. merge(<<>>, render_env, Text) = render_env /\ Folded(<<>>, render_env, run.answers, Text)
    BY <1>4, <1>5, <1>6, <1>7, BlankFolds
  <2> QED
    BY <1>1, <1>2, <1>3, <1>5, <1>8, <2>1
<1>9. CASE Before # <<>>
  <2>1. m \in Seq(Lines) /\ Folded(Before, m, run.answers, Text)
    <3>1. NoKey \notin DOMAIN run.answers
      BY <1>4, <1>7
    <3> QED
      BY <1>3, <1>5, <1>6, <1>9, <3>1, MergeFolds
  <2> QED
    BY <1>1, <1>2, <1>3, <2>1
<1> QED
  BY <1>8, <1>9

----------------------------------------------------------------------------
(* References and answers: the invariant is inductive *)

FitsAt(s) ==
  /\ ~unit[s] /\ ~At(s, {"vault", "save"}) => blob[s] = <<>>
  /\ ~unit[s] /\ ~At(s, {"save"}) => vault[s] = NoVault
  /\ BackendOf(s) = "hashi_vault" => vault[s] = NoVault
  /\ \A i \in DOMAIN blob[s] : Fit(BackendOf(s), NamesOf(s), blob[s][i].key, blob[s][i].value)

LEMMA FitsIs == Fits <=> \A s \in Sites \ interrupted : FitsAt(s)
BY DEF Fits, FitsAt

Between == run.pc \in {"idle", "backend"}

LEMMA BlobsStart == Init => BInv
<1> SUFFICES ASSUME Init PROVE BInv
  OBVIOUS
<1>1. Stored
  <2>1. <<>> \in Seq(Lines) /\ DOMAIN SecretKeys = 1 .. Len(SecretKeys) /\ 1 \in Releases
    OBVIOUS
  <2>2. NoVault \in [by : 0 .. made, names : SUBSET AllKeys]
    BY DEF Init, NoVault
  <2> QED
    BY <2>1, <2>2 DEF Init, Stored
<1>2. Settled /\ Answered /\ AnswersFit /\ Takes
  BY DEF Init, Idle, Settled, Answered, AnswersFit, Takes
<1>3. Fits /\ Once
  <2>1. DOMAIN <<>> = {}
    OBVIOUS
  <2>2. Once
    BY <2>1 DEF Init, Once
  <2>3. Fits
    BY <2>1 DEF Init, Idle, Fits, BackendOf, At
  <2> QED
    BY <2>2, <2>3
<1> QED
  BY <1>1, <1>2, <1>3 DEF BInv

LEMMA InstallReleaseBlobs ==
  ASSUME IInv, BInv, install_release
  PROVE  BInv'
<1>1. /\ run.pc = "idle" /\ release < Len(SecretKeys) /\ release' = release + 1
      /\ UNCHANGED <<password, made, choice, unit, blob, vault, connection, run,
                     interrupted, doubled>>
  BY DEF install_release, tree, manifest
<1>2. Stored'
  BY <1>1 DEF BInv, Stored
<1>3. Settled' /\ Answered' /\ AnswersFit' /\ Takes' /\ Once'
  BY <1>1 DEF BInv, Settled, Answered, AnswersFit, Takes, Once
<1>4. Fits'
  BY <1>1 DEF BInv, Fits, BackendOf, NamesOf, WrittenNames, At
<1> QED
  BY <1>2, <1>3, <1>4 DEF BInv

LEMMA HandOverBlobs ==
  ASSUME IInv, BInv, NEW c \in Clones, NEW d \in Clones, HandOver(c, d)
  PROVE  BInv'
<1>1. /\ run.pc = "idle" /\ password' = [password EXCEPT ![d] = password[c]]
      /\ UNCHANGED <<made, release, choice, unit, blob, vault, connection, run,
                     interrupted, doubled>>
  BY DEF HandOver, tree, manifest, bounds
<1>2. Stored'
  BY <1>1 DEF BInv, Stored
<1>3. Settled' /\ Answered' /\ AnswersFit' /\ Takes' /\ Once'
  BY <1>1 DEF BInv, Settled, Answered, AnswersFit, Takes, Once
<1>4. Fits'
  BY <1>1 DEF BInv, Fits, BackendOf, NamesOf, WrittenNames, At
<1> QED
  BY <1>2, <1>3, <1>4 DEF BInv

\* What an edit leaves: a line more, no reference among the new ones, and a key of
\* st-cli's written twice only where that is noted.
LEMMA EditWrites ==
  ASSUME IInv, BInv, NEW s \in Sites, EditVars(s)
  PROVE  /\ blob[s] # <<>> /\ doubled \subseteq doubled'
         /\ \E b \in Seq(Lines) :
              /\ blob' = [blob EXCEPT ![s] = b]
              /\ \A i \in DOMAIN b : \/ \E j \in DOMAIN blob[s] : b[i] = blob[s][j]
                                     \/ b[i].value \in {"text", "marker", "a"}
              /\ \A k \in AllKeys : <<s, k>> \notin doubled' /\ AtMostOnce(blob[s], k) =>
                   AtMostOnce(b, k)
<1>1. blob \in [Sites -> Seq(Lines)] /\ blob[s] \in Seq(Lines)
  BY DEF BInv, Stored
<1>2. PICK e : e = blob[s] /\ e \in Seq(Lines)
  BY <1>1
<1>3. /\ Len(e) \in Nat /\ DOMAIN e = 1 .. Len(e)
  BY <1>2
<1>4. e # <<>>
  BY <1>2 DEF EditVars
<1>5. CASE \E own \in {Line(NoKey, "text")} \union {Line(k, "marker") : k \in OwnKeys} :
             blob' = [blob EXCEPT ![s] = <<own>> \o @] /\ UNCHANGED doubled
  <2>1. PICK own \in {Line(NoKey, "text")} \union {Line(k, "marker") : k \in OwnKeys} :
          blob' = [blob EXCEPT ![s] = <<own>> \o e] /\ UNCHANGED doubled
    BY <1>1, <1>2, <1>5
  <2>2. /\ own \in Lines /\ own.value \in {"text", "marker"}
        /\ own.key \in {NoKey} \union OwnKeys
    BY <2>1, LinesAre DEF Values, Plain
  <2>3. <<own>> \in Seq(Lines) /\ Len(<<own>>) = 1 /\ <<own>>[1] = own
    BY <2>2
  <2>4. PICK b : b = <<own>> \o e
    OBVIOUS
  <2>5. /\ <<own>> \o e \in Seq(Lines) /\ Len(<<own>> \o e) = Len(<<own>>) + Len(e)
        /\ \A i \in 1 .. Len(<<own>>) : (<<own>> \o e)[i] = <<own>>[i]
        /\ \A i \in 1 .. Len(e) : (<<own>> \o e)[Len(<<own>>) + i] = e[i]
    BY <1>2, <2>3, ConcatIs
  <2>6. /\ b \in Seq(Lines) /\ DOMAIN b = 1 .. 1 + Len(e) /\ b[1] = own
        /\ \A i \in 1 .. Len(e) : b[1 + i] = e[i]
    BY <1>3, <2>3, <2>4, <2>5
  <2>7. \A i \in DOMAIN b : i # 1 => i - 1 \in DOMAIN e /\ b[i] = e[i - 1]
    <3> SUFFICES ASSUME NEW i \in 1 .. 1 + Len(e), i # 1
                 PROVE  i - 1 \in DOMAIN e /\ b[i] = e[i - 1]
      BY <2>6
    <3>1. i - 1 \in 1 .. Len(e) /\ 1 + (i - 1) = i
      BY <1>3
    <3> QED
      BY <1>3, <2>6, <3>1
  <2>8. \A i \in DOMAIN b : (\E j \in DOMAIN e : b[i] = e[j]) \/ b[i].value \in {"text", "marker"}
    BY <2>2, <2>6, <2>7
  <2>9. ASSUME NEW k \in AllKeys, AtMostOnce(e, k) PROVE AtMostOnce(b, k)
    <3>1. own.key # k
      BY <2>2, KeysAssumption
    <3>2. \A i \in DOMAIN b : b[i].key = k => i # 1
      BY <2>6, <3>1
    <3>3. \A i, j \in DOMAIN b : b[i].key = k /\ b[j].key = k => i - 1 = j - 1
      BY <2>7, <2>9, <3>2 DEF AtMostOnce
    <3> QED
      BY <1>3, <2>6, <3>3 DEF AtMostOnce
  <2> QED
    BY <1>2, <1>4, <2>1, <2>4, <2>6, <2>8, <2>9
<1>6. CASE \E k \in PlainKeys :
             /\ blob' = [blob EXCEPT ![s] = Append(@, Line(k, "a"))]
             /\ doubled' = doubled \union {<<s, k>>}
  <2>1. PICK k \in PlainKeys :
             /\ blob' = [blob EXCEPT ![s] = Append(e, Line(k, "a"))]
             /\ doubled' = doubled \union {<<s, k>>}
    BY <1>1, <1>2, <1>6
  <2>2. PICK l : l = Line(k, "a")
    OBVIOUS
  <2>3. k \in AllKeys
    BY DEF AllKeys, Asked
  <2>4. l \in Lines /\ l.value = "a" /\ l.key = k
    BY <2>2, <2>3, LinesAre DEF Values, Plain
  <2>5. PICK b : b = Append(e, l)
    OBVIOUS
  <2>6. /\ b \in Seq(Lines) /\ DOMAIN b = 1 .. Len(e) + 1 /\ b[Len(e) + 1] = l
        /\ \A i \in 1 .. Len(e) : b[i] = e[i]
    BY <1>2, <1>3, <2>4, <2>5
  <2>7. \A i \in DOMAIN b : i \in DOMAIN e \/ i = Len(e) + 1
    BY <1>3, <2>6
  <2>8. \A i \in DOMAIN b : (\E j \in DOMAIN e : b[i] = e[j]) \/ b[i].value = "a"
    BY <1>3, <2>4, <2>6, <2>7
  <2>9. ASSUME NEW h \in AllKeys, h # k, AtMostOnce(e, h) PROVE AtMostOnce(b, h)
    BY <1>3, <2>4, <2>6, <2>7, <2>9 DEF AtMostOnce
  <2>10. \A h \in AllKeys : <<s, h>> \notin doubled' /\ AtMostOnce(e, h) => AtMostOnce(b, h)
    BY <2>1, <2>9
  <2>11. b \in Seq(Lines) /\ blob' = [blob EXCEPT ![s] = b] /\ doubled \subseteq doubled'
    BY <2>1, <2>2, <2>5, <2>6
  <2> QED
    BY <1>2, <1>4, <2>8, <2>10, <2>11
<1> QED
  BY <1>5, <1>6 DEF EditVars

LEMMA EditVarsBlobs ==
  ASSUME IInv, BInv, NEW s \in Sites, EditVars(s)
  PROVE  BInv'
<1>1. /\ run.pc = "idle"
      /\ UNCHANGED <<password, made, release, choice, unit, vault, connection, run,
                     interrupted>>
  BY DEF EditVars, manifest
<1>2. /\ blob[s] # <<>> /\ doubled \subseteq doubled'
      /\ \E b \in Seq(Lines) :
           /\ blob' = [blob EXCEPT ![s] = b]
           /\ \A i \in DOMAIN b : \/ \E j \in DOMAIN blob[s] : b[i] = blob[s][j]
                                  \/ b[i].value \in {"text", "marker", "a"}
           /\ \A k \in AllKeys : <<s, k>> \notin doubled' /\ AtMostOnce(blob[s], k) =>
                AtMostOnce(b, k)
  BY EditWrites
<1>3. PICK b \in Seq(Lines) :
        /\ blob' = [blob EXCEPT ![s] = b]
        /\ \A i \in DOMAIN b : \/ \E j \in DOMAIN blob[s] : b[i] = blob[s][j]
                               \/ b[i].value \in {"text", "marker", "a"}
        /\ \A k \in AllKeys : <<s, k>> \notin doubled' /\ AtMostOnce(blob[s], k) =>
             AtMostOnce(b, k)
  BY <1>2
<1>4. blob \in [Sites -> Seq(Lines)]
  BY DEF BInv, Stored
<1>5. blob'[s] = b /\ \A t \in Sites : t # s => blob'[t] = blob[t]
  BY <1>3, <1>4
<1>6. Stored'
  BY <1>1, <1>3 DEF BInv, Stored
<1>7. Settled' /\ Answered' /\ AnswersFit' /\ Takes'
  BY <1>1 DEF BInv, Settled, Answered, AnswersFit, Takes
<1>8. Once'
  <2> SUFFICES ASSUME NEW t \in Sites, NEW k \in AllKeys, <<t, k>> \notin doubled'
               PROVE  AtMostOnce(blob'[t], k)
    BY DEF Once, AtMostOnce
  <2>1. AtMostOnce(blob[t], k)
    BY <1>2 DEF BInv, Once, AtMostOnce
  <2> QED
    BY <1>3, <1>5, <2>1
<1>9. Fits'
  <2> SUFFICES ASSUME NEW t \in Sites \ interrupted PROVE FitsAt(t)'
    BY <1>1 DEF Fits, FitsAt
  <2>1. FitsAt(t)
    BY FitsIs DEF BInv
  <2>2. BackendOf(t)' = BackendOf(t) /\ NamesOf(t)' = NamesOf(t)
    BY <1>1 DEF BackendOf, NamesOf, WrittenNames, At
  <2>3. CASE t # s
    BY <1>1, <1>5, <2>1, <2>2, <2>3 DEF FitsAt, At
  <2>4. CASE t = s
    <3>1. unit[s]
      BY <1>1, <1>2, <2>1, <2>4 DEF FitsAt, At
    <3>2. \A i \in DOMAIN b : Fit(BackendOf(s), NamesOf(s), b[i].key, b[i].value)
      BY <1>3, <2>1, <2>4 DEF FitsAt, Fit
    <3> QED
      BY <1>1, <1>5, <2>1, <2>2, <2>4, <3>1, <3>2 DEF FitsAt
  <2> QED
    BY <2>3, <2>4
<1> QED
  BY <1>6, <1>7, <1>8, <1>9 DEF BInv

LEMMA BootstrapBlobs ==
  ASSUME IInv, BInv, NEW c \in Clones, NEW s \in Sites, bootstrap(c, s)
  PROVE  BInv'
<1>1. /\ run.pc = "idle"
      /\ UNCHANGED <<password, made, release, choice, unit, blob, vault, connection,
                     interrupted, doubled>>
  BY DEF bootstrap, Mem, tree, manifest, bounds
<1>2. PICK fresh \in BOOLEAN :
        run' = [Idle EXCEPT !.pc = "backend", !.clone = c, !.site = s, !.fresh = fresh,
                            !.choice = choice[s]]
  BY DEF bootstrap
<1>3. /\ run'.pc = "backend" /\ run'.site = s /\ run'.choice = choice[s]
      /\ run'.backend = "none" /\ run'.buf = {}
  BY <1>2 DEF Idle
<1>4. Stored' /\ Settled' /\ Answered' /\ AnswersFit' /\ Takes' /\ Once'
  BY <1>1, <1>3 DEF BInv, Stored, Settled, Answered, AnswersFit, Takes, Once
<1>5. Fits'
  BY <1>1, <1>3 DEF BInv, Fits, BackendOf, NamesOf, At
<1> QED
  BY <1>4, <1>5 DEF BInv

LEMMA SetupBackendBlobs ==
  ASSUME IInv, BInv, setup_backend
  PROVE  BInv'
<1>1. /\ run.pc = "backend" /\ run.site \in Sites /\ run.choice = choice[run.site]
      /\ UNCHANGED <<password, made, release, choice, unit, blob, vault, interrupted,
                     doubled>>
  BY DEF setup_backend, Mem, manifest, bounds, IInv, RunTyped, BInv, Settled
<1>2. /\ run'.pc = "password" /\ run'.site = run.site /\ run'.buf = {}
      /\ run'.backend \in Backends /\ run'.choice = run'.backend
      /\ unit[run.site] => run'.backend = choice[run.site]
      /\ connection' \in [Sites -> BOOLEAN]
      /\ \A s \in Sites : connection[s] => connection'[s]
      /\ run'.backend = "hashi_vault" => connection'[run.site]
  <2>1. /\ choice[run.site] \in {"none"} \union Backends
        /\ unit[run.site] <=> choice[run.site] # "none"
        /\ run.buf = {} /\ connection \in [Sites -> BOOLEAN]
        /\ choice[run.site] = "hashi_vault" => connection[run.site]
    BY <1>1 DEF BInv, Stored, Settled
  <2>2. CASE choice[run.site] # "none"
    <3>1. /\ run' = [run EXCEPT !.pc = "password", !.backend = choice[run.site]]
          /\ UNCHANGED connection
      BY <2>2 DEF setup_backend, secret_config_for
    <3> QED
      BY <1>1, <2>1, <2>2, <3>1 DEF IInv, RunTyped
  <2>3. CASE choice[run.site] = "none"
    <3>1. PICK name \in Backends :
            /\ run' = [run EXCEPT !.pc = "password", !.backend = name, !.choice = name]
            /\ write_common_connection(run.site, name)
      BY <2>1, <2>3 DEF setup_backend, Chosen, Backends
    <3>2. /\ connection' \in [Sites -> BOOLEAN]
          /\ \A s \in Sites : connection[s] => connection'[s]
          /\ name = "hashi_vault" => connection'[run.site]
      BY <1>1, <2>1, <3>1 DEF write_common_connection
    <3>3. /\ run'.pc = "password" /\ run'.site = run.site /\ run'.buf = run.buf
          /\ run'.backend = name /\ run'.choice = name
      BY <3>1 DEF IInv, RunTyped
    <3> QED
      BY <1>1, <2>1, <2>3, <3>2, <3>3
  <2> QED
    BY <2>2, <2>3
<1>3. Stored'
  BY <1>1, <1>2 DEF BInv, Stored
<1>4. Settled' /\ Answered' /\ AnswersFit' /\ Takes' /\ Once'
  BY <1>1, <1>2 DEF BInv, Settled, Answered, AnswersFit, Takes, Once
<1>5. Fits'
  <2> SUFFICES ASSUME NEW t \in Sites \ interrupted PROVE FitsAt(t)'
    BY <1>1 DEF Fits, FitsAt
  <2>1. FitsAt(t)
    BY FitsIs DEF BInv
  <2>2. NamesOf(t)' = NamesOf(t)
    BY <1>1, <1>2 DEF NamesOf, At
  <2>3. CASE unit[t]
    BY <1>1, <2>1, <2>2, <2>3 DEF FitsAt, BackendOf
  <2>4. CASE ~unit[t]
    <3>1. blob[t] = <<>> /\ vault[t] = NoVault
      BY <1>1, <2>1, <2>4 DEF FitsAt, At
    <3>2. blob[t]' = <<>> /\ vault[t]' = NoVault /\ DOMAIN <<>> = {}
      BY <1>1, <3>1
    <3> QED
      BY <3>2 DEF FitsAt
  <2> QED
    BY <2>3, <2>4
<1> QED
  BY <1>3, <1>4, <1>5 DEF BInv

LEMMA EnsureVaultPasswordBlobs ==
  ASSUME IInv, BInv, ensure_vault_password
  PROVE  BInv'
<1>1. /\ run.pc = "password" /\ run' = [run EXCEPT !.pc = "ask"]
      /\ UNCHANGED <<release, choice, unit, blob, vault, connection, interrupted, doubled>>
  BY DEF ensure_vault_password, tree, manifest, bounds
<1>2. /\ run'.pc = "ask" /\ run'.site = run.site /\ run'.backend = run.backend
      /\ run'.choice = run.choice /\ run'.buf = run.buf /\ run'.fresh = run.fresh
  BY <1>1 DEF IInv, RunTyped
<1>3. Stored'
  <2>1. /\ made' \in 0 .. MaxPasswords /\ made <= made'
        /\ password' \in [Clones -> 0 .. made']
    <3>0. made \in 0 .. MaxPasswords /\ password \in [Clones -> 0 .. made]
      BY DEF BInv, Stored
    <3>1. CASE run.backend = "ansible-vault" /\ password[run.clone] = 0
      <4>1. made < MaxPasswords /\ made' = made + 1
        BY <3>1 DEF ensure_vault_password
      <4>2. password' = [password EXCEPT ![run.clone] = made + 1]
        BY <3>1 DEF ensure_vault_password
      <4>3. made' \in 0 .. MaxPasswords /\ made <= made' /\ made + 1 \in 0 .. made'
        BY <3>0, <4>1
      <4>4. 0 .. made \subseteq 0 .. made'
        BY <3>0, <4>1
      <4> QED
        BY <3>0, <4>2, <4>3, <4>4
    <3>2. CASE ~(run.backend = "ansible-vault" /\ password[run.clone] = 0)
      BY <3>0, <3>2 DEF ensure_vault_password
    <3> QED
      BY <3>1, <3>2
  <2>2. 0 .. made \subseteq 0 .. made'
    BY <2>1 DEF BInv, Stored
  <2>3. vault' \in [Sites -> [by : 0 .. made', names : SUBSET AllKeys]]
    BY <1>1, <2>2 DEF BInv, Stored
  <2> QED
    BY <1>1, <2>1, <2>3 DEF BInv, Stored
<1>4. Settled' /\ Answered' /\ AnswersFit' /\ Takes' /\ Once'
  BY <1>1, <1>2 DEF BInv, Settled, Answered, AnswersFit, Takes, Once
<1>5. Fits'
  BY <1>1, <1>2 DEF BInv, Fits, BackendOf, NamesOf, At
<1> QED
  BY <1>3, <1>4, <1>5 DEF BInv

\* A value that is read from a blob whose lines fit, fits.
LEMMA ParsedFits ==
  ASSUME NEW e \in Seq(Lines), NEW backend, NEW names,
         \A i \in DOMAIN e : Fit(backend, names, e[i].key, e[i].value)
  PROVE  \A k \in KeysOf(e) : Fit(backend, names, k, parse(e)[k])
<1> TAKE k \in KeysOf(e)
<1>1. PICK i \in DOMAIN e : e[i].key = k /\ parse(e)[k] = e[i].value
  BY ParseIs
<1> QED
  BY <1>1

LEMMA QuestionnaireBlobs ==
  ASSUME IInv, BInv, questionnaire
  PROVE  BInv'
<1>1. /\ run.pc = "ask" /\ run.site \in Sites /\ release \in Releases
      /\ run.backend \in Backends
      /\ UNCHANGED <<password, made, release, choice, unit, blob, vault, connection,
                     interrupted, doubled>>
  BY DEF questionnaire, tree, manifest, IInv, RunTyped, BInv, Stored, Settled
<1>2. PICK answers \in [Asked(release) -> Values] :
        /\ \A k \in Asked(release) :
             IF IsSecret(k)
             THEN IF k \in DOMAIN recover THEN answers[k] = recover[k]
                                          ELSE env_secret(k, answers[k])
             ELSE answers[k] \in Plain \union (IF k \in DOMAIN recover THEN {recover[k]} ELSE {})
        /\ run' = [run EXCEPT !.pc = "vars", !.answers = answers,
                     !.buf = IF run.backend = "ansible-vault"
                             THEN {k \in Asked(release) : IsSecret(k) /\ k \notin DOMAIN recover}
                             ELSE {}]
  BY DEF questionnaire
<1>3. /\ run'.pc = "vars" /\ run'.site = run.site /\ run'.backend = run.backend
      /\ run'.choice = run.choice /\ run'.fresh = run.fresh /\ run'.answers = answers
      /\ run'.buf = IF run.backend = "ansible-vault"
                    THEN {k \in Asked(release) : IsSecret(k) /\ k \notin DOMAIN recover}
                    ELSE {}
  BY <1>2 DEF IInv, RunTyped
<1>4. Asked(release) \subseteq AllKeys
  BY <1>1, AskedIs
<1>5. run'.buf \subseteq AllKeys
  BY <1>3, <1>4
<1>6. Stored' /\ Settled' /\ Takes' /\ Once'
  BY <1>1, <1>3 DEF BInv, Stored, Settled, Takes, Once
<1>7. Answered'
  BY <1>1, <1>3, <1>5 DEF Answered, Backends
<1>8. AnswersFit'
  <2> SUFFICES ASSUME run.site \notin interrupted, NEW k \in Asked(release)
               PROVE  Fit(run.backend, WrittenNames', k, answers[k])
    BY <1>1, <1>3 DEF AnswersFit
  <2>1. FitsAt(run.site)
    BY <1>1, FitsIs DEF BInv
  <2>2. BackendOf(run.site) = run.backend /\ NamesOf(run.site) = vault[run.site].names
    BY <1>1 DEF BInv, Settled, BackendOf, NamesOf, At
  <2>3. \A i \in DOMAIN blob[run.site] :
          Fit(run.backend, vault[run.site].names, blob[run.site][i].key, blob[run.site][i].value)
    BY <2>1, <2>2 DEF FitsAt
  <2>4. WrittenNames' = run'.buf \union (IF run.fresh THEN {} ELSE vault[run.site].names)
    BY <1>1, <1>3 DEF WrittenNames
  <2>5. ASSUME k \in DOMAIN recover PROVE Fit(run.backend, WrittenNames', k, recover[k])
    <3>1. ~run.fresh /\ recover = parse(blob[run.site]) /\ k \in KeysOf(blob[run.site])
      <4>1. ~run.fresh
        <5>1. DOMAIN <<>> = {}
          OBVIOUS
        <5> QED
          BY <2>5, <5>1 DEF recover
      <4>2. DOMAIN parse(blob[run.site]) = KeysOf(blob[run.site])
        BY DEF parse
      <4> QED
        BY <2>5, <4>1, <4>2 DEF recover
    <3>2. Fit(run.backend, vault[run.site].names, k, parse(blob[run.site])[k])
      <4>1. blob[run.site] \in Seq(Lines)
        BY <1>1 DEF BInv, Stored
      <4> QED
        BY <2>3, <3>1, <4>1, ParsedFits
    <3> QED
      BY <2>4, <3>1, <3>2 DEF Fit
  <2>6. CASE k \in DOMAIN recover /\ answers[k] = recover[k]
    BY <2>5, <2>6
  <2>7. CASE IsSecret(k) /\ k \notin DOMAIN recover
    BY <1>1, <1>2, <1>3, <2>4, <2>7 DEF env_secret, Fit, Backends
  <2>8. CASE answers[k] \in Plain
    BY <2>8 DEF Plain, Fit
  <2> QED
    BY <1>2, <2>6, <2>7, <2>8
<1>9. Fits'
  BY <1>1, <1>3 DEF BInv, Fits, BackendOf, NamesOf, At
<1> QED
  BY <1>6, <1>7, <1>8, <1>9 DEF BInv

LEMMA WriteVarsBlobs ==
  ASSUME IInv, BInv, write_vars
  PROVE  BInv'
<1>1. /\ run.pc = "vars" /\ run' = [run EXCEPT !.pc = "vault"]
      /\ UNCHANGED <<password, made, release, choice, unit, vault, connection,
                     interrupted, doubled>>
  BY DEF write_vars, Mem, manifest, bounds
<1>2. /\ run'.pc = "vault" /\ run'.site = run.site /\ run'.backend = run.backend
      /\ run'.choice = run.choice /\ run'.fresh = run.fresh /\ run'.answers = run.answers
      /\ run'.buf = run.buf
  BY <1>1 DEF IInv, RunTyped
<1>3. PICK m \in Seq(Lines) :
        /\ Before \in Seq(Lines) /\ run.site \in Sites
        /\ Folded(Before, m, run.answers, Text)
        /\ blob' = [blob EXCEPT ![run.site] = expand_var_markers(m)]
  BY WriteVarsWrites
<1>4. PICK b : b = expand_var_markers(m)
  OBVIOUS
<1>5. /\ b \in Seq(Lines) /\ DOMAIN b = DOMAIN m
      /\ \A i \in DOMAIN m :
           /\ b[i].key = m[i].key
           /\ Same(m[i], b[i])
           /\ b[i] = m[i] \/ (run.backend = "hashi_vault" /\ b[i].value = "lookup")
  BY <1>4, ExpandIs
<1>6. blob \in [Sites -> Seq(Lines)] /\ release \in Releases
      /\ run.answers \in [Asked(release) -> Values] /\ DOMAIN run.answers = Asked(release)
  BY <1>1 DEF BInv, Stored, Answered
<1>7. blob'[run.site] = b /\ \A t \in Sites : t # run.site => blob'[t] = blob[t]
  BY <1>3, <1>4, <1>6
<1>8. Stored'
  BY <1>1, <1>3, <1>4, <1>5 DEF BInv, Stored
<1>9. Settled' /\ Answered' /\ AnswersFit'
  BY <1>1, <1>2 DEF BInv, Settled, Answered, AnswersFit
<1>10. ASSUME NEW k \in AllKeys, <<run.site, k>> \notin doubled PROVE AtMostOnce(Before, k)
  <2>1. DOMAIN <<>> = {}
    OBVIOUS
  <2> QED
    BY <1>3, <1>10, <2>1 DEF Before, AtMostOnce, BInv, Once
<1>11. Once'
  <2> SUFFICES ASSUME NEW t \in Sites, NEW k \in AllKeys, <<t, k>> \notin doubled
               PROVE  AtMostOnce(blob'[t], k)
    BY <1>1 DEF Once, AtMostOnce
  <2>1. CASE t # run.site
    BY <1>7, <2>1 DEF BInv, Once, AtMostOnce
  <2>2. CASE t = run.site
    <3>1. AtMostOnce(Before, k) /\ k # NoKey
      BY <1>10, <2>2, KeysAssumption
    <3>2. AtMostOnce(m, k)
      BY <1>3, <3>1 DEF Folded
    <3> QED
      BY <1>5, <1>7, <2>2, <3>2 DEF AtMostOnce
  <2> QED
    BY <2>1, <2>2
<1>12. Takes'
  <2> SUFFICES ASSUME NEW k \in Asked(release), <<run.site, k>> \notin doubled
               PROVE  \E i \in DOMAIN b : b[i].key = k /\ Same(Line(k, run.answers[k]), b[i])
    BY <1>1, <1>2, <1>7 DEF Takes
  <2>1. AtMostOnce(Before, k)
    BY <1>6, <1>10, AskedIs
  <2>2. PICK i \in DOMAIN m : m[i] = Line(k, run.answers[k])
    BY <1>3, <1>6, <2>1 DEF Folded
  <2> QED
    BY <1>5, <2>2, LineIs
<1>13. Fits'
  <2> SUFFICES ASSUME NEW t \in Sites \ interrupted PROVE FitsAt(t)'
    BY <1>1 DEF Fits, FitsAt
  <2>1. FitsAt(t)
    BY FitsIs DEF BInv
  <2>2. BackendOf(t)' = BackendOf(t)
    BY <1>1, <1>2 DEF BackendOf, At
  <2>3. CASE t # run.site
    <3>1. NamesOf(t)' = NamesOf(t)
      BY <1>1, <1>2, <2>3 DEF NamesOf, At
    <3> QED
      BY <1>1, <1>2, <1>7, <2>1, <2>2, <2>3, <3>1 DEF FitsAt, At
  <2>4. CASE t = run.site
    <3>1. /\ BackendOf(t) = run.backend /\ NamesOf(t) = vault[t].names
          /\ NamesOf(t)' = WrittenNames
      BY <1>1, <1>2, <2>4 DEF BInv, Settled, BackendOf, NamesOf, WrittenNames, At
    <3>2. \A i \in DOMAIN Before : Fit(run.backend, WrittenNames, Before[i].key, Before[i].value)
      <4>1. DOMAIN <<>> = {}
        OBVIOUS
      <4> QED
        BY <2>1, <2>4, <3>1, <4>1 DEF FitsAt, Before, WrittenNames, Fit
    <3>3. \A k \in Asked(release) : Fit(run.backend, WrittenNames, k, run.answers[k])
      BY <1>1, <2>4 DEF BInv, AnswersFit
    <3>4. Text.value = "text"
      BY DEF Text, Line
    <3>5. ASSUME NEW i \in DOMAIN m PROVE Fit(run.backend, WrittenNames, m[i].key, m[i].value)
      <4>1. \/ i \in DOMAIN Before /\ m[i] = Before[i]
            \/ m[i] = Text
            \/ m[i].key \in Asked(release) /\ m[i].value = run.answers[m[i].key]
        BY <1>3, <1>6 DEF Folded
      <4>2. CASE i \in DOMAIN Before /\ m[i] = Before[i]
        BY <3>2, <4>2
      <4>3. CASE m[i] = Text
        BY <3>4, <4>3 DEF Fit
      <4>4. CASE m[i].key \in Asked(release) /\ m[i].value = run.answers[m[i].key]
        BY <3>3, <4>4
      <4> QED
        BY <4>1, <4>2, <4>3, <4>4
    <3>6. \A i \in DOMAIN b : Fit(run.backend, WrittenNames, b[i].key, b[i].value)
      BY <1>5, <3>5 DEF Fit
    <3>7. (BackendOf(t) = "hashi_vault" => vault[t] = NoVault)
          /\ (~unit[t] => vault[t] = NoVault)
      BY <1>1, <2>1 DEF FitsAt, At
    <3> QED
      BY <1>1, <1>2, <1>7, <2>2, <2>4, <3>1, <3>6, <3>7 DEF FitsAt, At
  <2> QED
    BY <2>3, <2>4
<1> QED
  BY <1>8, <1>9, <1>11, <1>12, <1>13 DEF BInv

LEMMA WriteVaultBlobs ==
  ASSUME IInv, BInv, write_vault
  PROVE  BInv'
<1>1. /\ run.pc = "vault" /\ run.site \in Sites /\ run.clone \in Clones
      /\ run' = [run EXCEPT !.pc = "save"]
      /\ UNCHANGED <<password, made, release, choice, unit, blob, connection,
                     interrupted, doubled>>
  BY DEF write_vault, Mem, manifest, bounds, IInv, RunTyped
<1>2. /\ run'.pc = "save" /\ run'.site = run.site /\ run'.backend = run.backend
      /\ run'.choice = run.choice /\ run'.buf = run.buf
  BY <1>1 DEF IInv, RunTyped
<1>3. /\ run.buf \subseteq AllKeys /\ password[run.clone] \in 0 .. made
      /\ vault \in [Sites -> [by : 0 .. made, names : SUBSET AllKeys]]
  BY <1>1 DEF BInv, Stored, Answered
<1>4. PICK names \in SUBSET AllKeys :
        /\ run.buf # {} => names = WrittenNames
        /\ vault' = IF run.buf = {} THEN vault
                    ELSE [vault EXCEPT ![run.site] =
                            [by |-> password[run.clone], names |-> names]]
  <2> DEFINE old == vault[run.site]
             merges == ~run.fresh /\ old # NoVault
             names == run.buf \union (IF merges THEN old.names ELSE {})
  <2>1. vault' = IF run.buf = {} THEN vault
                 ELSE [vault EXCEPT ![run.site] =
                         [by |-> password[run.clone], names |-> names]]
    BY DEF write_vault
  <2>2. names \in SUBSET AllKeys
    BY <1>1, <1>3
  <2>3. NoVault.names = {}
    BY DEF NoVault
  <2>4. names = WrittenNames
    BY <2>3 DEF WrittenNames
  <2> QED
    BY <2>1, <2>2, <2>4
<1>5. \A t \in Sites : t # run.site => vault'[t] = vault[t]
  BY <1>3, <1>4
<1>6. vault' \in [Sites -> [by : 0 .. made, names : SUBSET AllKeys]]
  <2>1. [by |-> password[run.clone], names |-> names] \in [by : 0 .. made, names : SUBSET AllKeys]
    BY <1>3
  <2> QED
    BY <1>3, <1>4, <2>1
<1>7. Stored'
  BY <1>1, <1>6 DEF BInv, Stored
<1>8. Settled' /\ Answered' /\ AnswersFit' /\ Takes' /\ Once'
  BY <1>1, <1>2 DEF BInv, Settled, Answered, AnswersFit, Takes, Once
<1>9. Fits'
  <2> SUFFICES ASSUME NEW t \in Sites \ interrupted PROVE FitsAt(t)'
    BY <1>1 DEF Fits, FitsAt
  <2>1. FitsAt(t)
    BY FitsIs DEF BInv
  <2>2. BackendOf(t)' = BackendOf(t)
    BY <1>1, <1>2 DEF BackendOf, At
  <2>3. CASE t # run.site
    <3>1. NamesOf(t)' = NamesOf(t)
      BY <1>1, <1>2, <1>5, <2>3 DEF NamesOf, At
    <3> QED
      BY <1>1, <1>2, <1>5, <2>1, <2>2, <2>3, <3>1 DEF FitsAt, At
  <2>4. CASE t = run.site
    <3>1. BackendOf(t) = run.backend /\ NamesOf(t) = WrittenNames /\ NamesOf(t)' = vault'[t].names
      BY <1>1, <1>2, <2>4 DEF BInv, Settled, BackendOf, NamesOf, At
    <3>2. WrittenNames \subseteq vault'[t].names
      <4>1. CASE run.buf = {}
        BY <1>4, <2>4, <4>1 DEF WrittenNames
      <4>2. CASE run.buf # {}
        BY <1>1, <1>3, <1>4, <2>4, <4>2
      <4> QED
        BY <4>1, <4>2
    <3>3. \A i \in DOMAIN blob[t] :
            Fit(BackendOf(t), vault'[t].names, blob[t][i].key, blob[t][i].value)
      BY <2>1, <3>1, <3>2 DEF FitsAt, Fit
    <3>4. run.backend = "hashi_vault" => vault'[t] = NoVault
      BY <1>4, <2>1, <3>1 DEF BInv, Answered, FitsAt
    <3> QED
      BY <1>1, <1>2, <2>2, <2>4, <3>1, <3>3, <3>4 DEF FitsAt, At
  <2> QED
    BY <2>3, <2>4
<1> QED
  BY <1>7, <1>8, <1>9 DEF BInv

LEMMA SaveManifestBlobs ==
  ASSUME IInv, BInv, save_manifest
  PROVE  BInv'
<1>1. /\ run.pc = "save" /\ run.site \in Sites /\ run' = Idle
      /\ unit' = [unit EXCEPT ![run.site] = TRUE]
      /\ choice' = [choice EXCEPT ![run.site] = run.choice]
      /\ UNCHANGED <<password, made, release, blob, vault, connection, interrupted, doubled>>
  BY DEF save_manifest, tree, bounds, IInv, RunTyped
<1>2. run'.pc = "idle" /\ run'.backend = "none" /\ run'.buf = {}
  BY <1>1 DEF Idle
<1>3. /\ run.backend \in Backends /\ run.choice = run.backend
      /\ unit[run.site] => run.backend = choice[run.site]
      /\ run.backend = "hashi_vault" => connection[run.site]
  BY <1>1 DEF BInv, Settled
<1>4. choice \in [Sites -> {"none"} \union Backends] /\ unit \in [Sites -> BOOLEAN]
  BY DEF BInv, Stored
<1>5. /\ unit'[run.site] /\ choice'[run.site] = run.backend
      /\ \A t \in Sites : t # run.site => unit'[t] = unit[t] /\ choice'[t] = choice[t]
  BY <1>1, <1>3, <1>4
<1>6. Stored'
  BY <1>1, <1>3, <1>4 DEF BInv, Stored
<1>7. Settled'
  BY <1>1, <1>2, <1>3, <1>5 DEF BInv, Settled, Backends
<1>8. Answered' /\ AnswersFit' /\ Takes' /\ Once'
  BY <1>1, <1>2 DEF BInv, Answered, AnswersFit, Takes, Once
<1>9. Fits'
  <2> SUFFICES ASSUME NEW t \in Sites \ interrupted PROVE FitsAt(t)'
    BY <1>1 DEF Fits, FitsAt
  <2>1. FitsAt(t)
    BY FitsIs DEF BInv
  <2>2. BackendOf(t)' = BackendOf(t)
    BY <1>1, <1>2, <1>3, <1>5 DEF BackendOf, At
  <2>3. NamesOf(t)' = NamesOf(t)
    BY <1>1, <1>2 DEF NamesOf, At
  <2> QED
    BY <1>1, <1>2, <1>5, <2>1, <2>2, <2>3 DEF FitsAt, At
<1> QED
  BY <1>6, <1>7, <1>8, <1>9 DEF BInv

LEMMA DiesBlobs ==
  ASSUME IInv, BInv, Dies
  PROVE  BInv'
<1>1. /\ run.pc # "idle" /\ run.site \in Sites /\ run' = Idle
      /\ interrupted' = IF run.pc \in {"vault", "save"} THEN interrupted \union {run.site}
                                                        ELSE interrupted
      /\ UNCHANGED <<password, made, release, choice, unit, blob, vault, connection, doubled>>
  BY DEF Dies, tree, manifest, bounds, IInv, RunTyped
<1>2. run'.pc = "idle" /\ run'.backend = "none" /\ run'.buf = {}
  BY <1>1 DEF Idle
<1>3. Stored'
  BY <1>1 DEF BInv, Stored
<1>4. Settled' /\ Answered' /\ AnswersFit' /\ Takes' /\ Once'
  BY <1>1, <1>2 DEF BInv, Settled, Answered, AnswersFit, Takes, Once
<1>5. Fits'
  <2> SUFFICES ASSUME NEW t \in Sites \ interrupted' PROVE FitsAt(t)'
    BY DEF Fits, FitsAt
  <2>1. t \in Sites \ interrupted /\ ~At(t, {"vault", "save"})
    BY <1>1 DEF At
  <2>2. FitsAt(t) /\ ~At(t, {"vault"}) /\ ~At(t, {"save"})
    BY <2>1, FitsIs DEF BInv, At
  <2>3. NamesOf(t)' = NamesOf(t)
    BY <1>1, <1>2, <2>2 DEF NamesOf, At
  <2>4. CASE unit[t]
    BY <1>1, <1>2, <2>2, <2>3, <2>4 DEF FitsAt, BackendOf
  <2>5. CASE ~unit[t]
    <3>1. blob[t] = <<>> /\ vault[t] = NoVault
      BY <2>1, <2>2, <2>5 DEF FitsAt
    <3>2. blob[t]' = <<>> /\ vault[t]' = NoVault /\ DOMAIN <<>> = {}
      BY <1>1, <3>1
    <3> QED
      BY <3>2 DEF FitsAt
  <2> QED
    BY <2>4, <2>5
<1> QED
  BY <1>3, <1>4, <1>5 DEF BInv

LEMMA StutterBlobs ==
  ASSUME IInv, BInv, UNCHANGED vars
  PROVE  BInv'
<1>1. UNCHANGED <<password, made, release, choice, unit, blob, vault, connection, run,
                  interrupted, doubled>>
  BY DEF vars, tree, manifest, bounds
<1>2. Stored' /\ Settled' /\ Answered'
  BY <1>1 DEF BInv, Stored, Settled, Answered
<1>4. AnswersFit'
  BY <1>1 DEF BInv, AnswersFit, WrittenNames
<1>5. Takes' /\ Once'
  BY <1>1 DEF BInv, Takes, Once
<1>3. Fits'
  BY <1>1 DEF BInv, Fits, BackendOf, NamesOf, WrittenNames, At
<1> QED
  BY <1>2, <1>3, <1>4, <1>5 DEF BInv

LEMMA NextBlobs ==
  ASSUME IInv, BInv, Next
  PROVE  BInv'
<1>1. CASE install_release \/ (\E c, d \in Clones : HandOver(c, d))
             \/ \E s \in Sites : EditVars(s)
  BY <1>1, InstallReleaseBlobs, HandOverBlobs, EditVarsBlobs
<1>2. CASE \E c \in Clones, s \in Sites : bootstrap(c, s)
  BY <1>2, BootstrapBlobs
<1>3. CASE RunNext
  BY <1>3, SetupBackendBlobs, EnsureVaultPasswordBlobs, QuestionnaireBlobs, WriteVarsBlobs,
     WriteVaultBlobs, SaveManifestBlobs, DiesBlobs DEF RunNext
<1> QED
  BY <1>1, <1>2, <1>3 DEF Next

\* The second invariant holds in every reachable state.
THEOREM BlobsInductive == Spec => []BInv
<1>1. IInv /\ BInv /\ [Next]_vars => BInv'
  BY NextBlobs, StutterBlobs
<1> QED
  BY Inductive, BlobsStart, <1>1, PTL DEF Spec

----------------------------------------------------------------------------
(* What the second invariant gives *)

\* Every file, answer and choice of backend has its type, and a unit of the manifest
\* has a backend (core/manifest.py, core/secretbackend.py).
THEOREM TypeCorrect == Spec => []BackendTypeOK
<1>1. BInv => BackendTypeOK
  <2> SUFFICES ASSUME BInv PROVE BackendTypeOK
    OBVIOUS
  <2>1. made \in 0 .. MaxPasswords /\ password \in [Clones -> 0 .. made]
    BY DEF BInv, Stored
  <2>2. 0 .. made \subseteq 0 .. MaxPasswords
    BY <2>1
  <2>3. password \in [Clones -> 0 .. MaxPasswords]
    BY <2>1, <2>2
  <2> QED
    BY <2>1, <2>3 DEF BackendTypeOK, BInv, Stored, Settled, Answered, Backends
<1> QED
  BY BlobsInductive, <1>1, PTL

LEMMA ReferencesFit ==
  ASSUME BInv
  PROVE  ReferencesFitBackend
<1> SUFFICES ASSUME NEW s \in Sites \ interrupted, unit[s], run.pc = "idle" \/ run.site # s
             PROVE  /\ \A i \in DOMAIN blob[s] : Resolved(s, blob[s][i])
                    /\ \A c \in Clones : vault[s] = NoVault \/ vault[s].by = password[c] =>
                         Loads(c, s)
  BY DEF ReferencesFitBackend
<1>1. FitsAt(s)
  BY FitsIs DEF BInv
<1>2. BackendOf(s) = choice[s] /\ NamesOf(s) = vault[s].names
  BY DEF BackendOf, NamesOf, At
<1>3. /\ choice[s] \in Backends /\ secret_config_for(s) = choice[s]
      /\ choice[s] = "hashi_vault" => connection[s]
  BY DEF BInv, Stored, Settled, secret_config_for
<1>4. ASSUME NEW i \in DOMAIN blob[s] PROVE Resolved(s, blob[s][i])
  BY <1>1, <1>2, <1>3 DEF FitsAt, Fit, Resolved
<1>5. ASSUME NEW c \in Clones, vault[s] = NoVault \/ vault[s].by = password[c]
      PROVE  Loads(c, s)
  BY <1>1, <1>2, <1>3, <1>5 DEF FitsAt, Loads, CanRead, Backends
<1> QED
  BY <1>4, <1>5

\* An env blob refers to its secrets the way the site's backend resolves them, with
\* every name in the vault and the connection written (core/secretbackend.py,
\* core/writer.py), whatever was cancelled or chosen elsewhere.
THEOREM ReferencesResolve == Spec => []ReferencesFitBackend
BY BlobsInductive, ReferencesFit, PTL

LEMMA AnswersRead ==
  ASSUME IInv, BInv
  PROVE  AnswersTakeEffect
<1> SUFFICES ASSUME run.pc = "vault", NEW k \in DOMAIN run.answers,
                    <<run.site, k>> \notin doubled
             PROVE  /\ Cardinality({i \in DOMAIN blob[run.site] : blob[run.site][i].key = k}) = 1
                    /\ Same(Line(k, run.answers[k]), Line(k, parse(blob[run.site])[k]))
  BY DEF AnswersTakeEffect
<1>1. /\ run.site \in Sites /\ release \in Releases
      /\ run.answers \in [Asked(release) -> Values] /\ blob[run.site] \in Seq(Lines)
  BY DEF IInv, RunTyped, BInv, Stored, Answered
<1>2. PICK b : b = blob[run.site] /\ b \in Seq(Lines)
  BY <1>1
<1>3. k \in Asked(release) /\ k \in AllKeys /\ k # NoKey
  BY <1>1, AskedIs
<1>4. PICK i \in DOMAIN b : b[i].key = k /\ Same(Line(k, run.answers[k]), b[i])
  BY <1>2, <1>3 DEF BInv, Takes
<1>5. \A j \in DOMAIN b : b[j].key = k => j = i
  BY <1>1, <1>2, <1>3, <1>4 DEF BInv, Once
<1>6. {j \in DOMAIN b : b[j].key = k} = {i}
  BY <1>4, <1>5
<1>7. Cardinality({i}) = 1
  BY FS_Singleton
<1>8. k \in KeysOf(b)
  BY <1>3, <1>4 DEF KeysOf
<1>9. PICK j \in DOMAIN b : b[j].key = k /\ parse(b)[k] = b[j].value
  BY <1>2, <1>8, ParseIs
<1>10. parse(b)[k] = b[i].value
  BY <1>5, <1>9
<1>11. b[i] = Line(k, b[i].value)
  <2>1. b[i] \in Lines
    BY <1>2
  <2> QED
    BY <1>4, <2>1, LinesAre DEF OfLines
<1> QED
  BY <1>2, <1>4, <1>6, <1>7, <1>10, <1>11

\* What the operator answers is what parse reads back from the file that is written:
\* one line a key, and the last of them (core/envblob.py merge and parse).
THEOREM AnswersAreRead == Spec => []AnswersTakeEffect
<1>1. IInv /\ BInv => AnswersTakeEffect
  BY AnswersRead
<1> QED
  BY Inductive, BlobsInductive, <1>1, PTL

LEMMA OthersLeaveBlobs ==
  ASSUME [Next]_vars, run.pc = "vars", ~write_vars
  PROVE  UNCHANGED blob
<1>1. CASE UNCHANGED vars
  BY <1>1 DEF vars, tree
<1>2. CASE install_release \/ (\E c, d \in Clones : HandOver(c, d))
             \/ (\E s \in Sites : EditVars(s)) \/ \E c \in Clones, s \in Sites : bootstrap(c, s)
  BY <1>2 DEF install_release, HandOver, EditVars, bootstrap
<1>3. CASE setup_backend \/ ensure_vault_password \/ questionnaire \/ write_vault
             \/ save_manifest
  BY <1>3 DEF setup_backend, ensure_vault_password, questionnaire, write_vault, save_manifest
<1>4. CASE Dies
  BY <1>4 DEF Dies, tree
<1> QED
  BY <1>1, <1>2, <1>3, <1>4 DEF Next, RunNext

LEMMA LinesStayStep ==
  ASSUME IInv, BInv, [Next]_vars, NEW s \in Sites,
         blob'[s] # blob[s], run.pc = "vars", ~run.fresh
  PROVE  /\ Len(blob'[s]) >= Len(blob[s])
         /\ \A i \in DOMAIN blob[s] :
              /\ blob'[s][i].key = blob[s][i].key
              /\ blob[s][i].key \notin Asked(release) => Same(blob[s][i], blob'[s][i])
<1>1. write_vars
  BY OthersLeaveBlobs
<1>2. PICK m \in Seq(Lines) :
        /\ Before \in Seq(Lines) /\ run.site \in Sites
        /\ Folded(Before, m, run.answers, Text)
        /\ blob' = [blob EXCEPT ![run.site] = expand_var_markers(m)]
  BY <1>1, WriteVarsWrites
<1>3. blob \in [Sites -> Seq(Lines)] /\ DOMAIN run.answers = Asked(release)
  BY DEF BInv, Stored, Answered
<1>4. s = run.site /\ blob'[s] = expand_var_markers(m) /\ blob[s] = Before
  BY <1>2, <1>3 DEF Before
<1>5. /\ Len(m) >= Len(Before)
      /\ \A i \in DOMAIN Before : /\ i \in DOMAIN m /\ m[i].key = Before[i].key
                                  /\ Before[i].key \notin Asked(release) => m[i] = Before[i]
  BY <1>2, <1>3 DEF Folded
<1>6. /\ Len(expand_var_markers(m)) = Len(m)
      /\ \A i \in DOMAIN m : /\ expand_var_markers(m)[i].key = m[i].key
                             /\ Same(m[i], expand_var_markers(m)[i])
  BY ExpandIs
<1> QED
  BY <1>4, <1>5, <1>6

\* merge keeps the operator's lines in their places, comments and unknown keys as they
\* are: a run that does not override takes none of them away (core/envblob.py merge).
THEOREM LinesAreKept == Spec => OperatorLinesStay
<1>1. IInv /\ BInv /\ [Next]_vars =>
        [\A s \in Sites : blob'[s] # blob[s] /\ run.pc = "vars" /\ ~run.fresh =>
           /\ Len(blob'[s]) >= Len(blob[s])
           /\ \A i \in DOMAIN blob[s] :
                /\ blob'[s][i].key = blob[s][i].key
                /\ blob[s][i].key \notin Asked(release) => Same(blob[s][i], blob'[s][i])]_vars
  BY LinesStayStep
<1> QED
  BY Inductive, BlobsInductive, <1>1, PTL DEF Spec, OperatorLinesStay
============================================================================
