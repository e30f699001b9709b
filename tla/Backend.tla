------------------------------ MODULE Backend ------------------------------
(***************************************************************************)
(* The secret backend of each (app, env) and the one .vault-pass of each   *)
(* clone of the repository, through bootstrap runs that are cancelled or   *)
(* die: core/secretbackend.py, core/vault.py, core/writer.py.              *)
(*                                                                         *)
(* A site is an (app, env) with its core; its env blob refers to a secret  *)
(* by "vault" ({{ vault_<key> }}) or "lookup" (the OpenBao ref); a         *)
(* "marker" is @openbao(...) as typed.  Operators work one after the       *)
(* other, on what the last one left in the repository; .vault-pass is      *)
(* gitignored, so each clone has its own, or none.                         *)
(***************************************************************************)
EXTENDS EnvBlob, FiniteSets

CONSTANTS
  Sites,
  Clones,
  SecretKeys,    \* env keys with a secret, by the release that asks first
  PlainKeys,     \* env keys without
  OwnKeys,       \* env keys only the operator knows
  Order,         \* the keys in the order of the env template
  MaxPasswords,  \* passwords ever generated
  MaxEdits,      \* edits by hand
  MaxRuns        \* runs of bootstrap that write something

Releases == DOMAIN SecretKeys

ASSUME PasswordAssumption == MaxPasswords \in Nat \ {0}
ASSUME ReleaseAssumption == Releases = 1 .. Len(SecretKeys) /\ Len(SecretKeys) \in Nat \ {0}

VARIABLES
  password,     \* .vault-pass of each clone, 0 for none
  made,         \* passwords generated so far
  release,      \* of the installed st-cli
  choice,       \* secrets[].backend in .st-cli.yml
  unit,         \* the core is registered in .st-cli.yml
  blob,         \* the env blob of vars.yml, <<>> for no file
  vault,        \* vault.yml: the password it is encrypted with, its names
  connection,   \* common.yml has the OpenBao connection
  run,          \* the run of bootstrap
  edits,        \* edits by hand so far
  writes,       \* runs that came to write
  interrupted,  \* history: sites where a run died between vars.yml and the manifest
  doubled       \* history: keys the operator has written twice

tree == <<blob, vault, connection>>
manifest == <<choice, unit>>
bounds == <<release, edits, writes>>
vars == <<password, made, tree, manifest, run, bounds, interrupted, doubled>>

NoVault == [by |-> 0, names |-> {}]
Idle == [pc |-> "idle", clone |-> "none", site |-> "none", fresh |-> FALSE,
         backend |-> "none", choice |-> "none", answers |-> <<>>, buf |-> {}]

\* The keys asked for by release r.
Asked(r) == PlainKeys \union UNION {SecretKeys[i] : i \in 1 .. r}
IsSecret(k) == \E i \in Releases : k \in SecretKeys[i]
AllKeys == Asked(Len(SecretKeys))

\* The template has a line for every key that is asked for, and one only.
ASSUME KeysAssumption == NoKey \notin AllKeys \union OwnKeys /\ OwnKeys \intersect AllKeys = {}
ASSUME OrderAssumption ==
  /\ Order \in Seq(AllKeys)
  /\ \A k \in AllKeys : \E i \in DOMAIN Order : Order[i] = k
  /\ \A i, j \in DOMAIN Order : Order[i] = Order[j] => i = j

Plain == {"a", "marker"}
Values == Plain \union {"vault", "lookup", "new", "text"}
Lines == [key : {NoKey} \union AllKeys \union OwnKeys, value : Values]

BackendTypeOK ==
  /\ password \in [Clones -> 0 .. MaxPasswords]
  /\ made \in 0 .. MaxPasswords
  /\ release \in Releases
  /\ choice \in [Sites -> {"none", "ansible-vault", "hashi_vault"}]
  /\ unit \in [Sites -> BOOLEAN]
  /\ blob \in [Sites -> Seq(Lines)]
  /\ vault \in [Sites -> [by : 0 .. made, names : SUBSET AllKeys]]
  /\ connection \in [Sites -> BOOLEAN]
  /\ run.pc \in {"idle", "backend", "password", "ask", "vars", "vault", "save"}
  /\ run.buf \subseteq AllKeys
  /\ run.backend = "hashi_vault" => run.buf = {}
  /\ \A s \in Sites : unit[s] => choice[s] # "none"
  /\ interrupted \subseteq Sites

----------------------------------------------------------------------------
(* The operator *)

install_release ==
  /\ run.pc = "idle"
  /\ release < Len(SecretKeys)
  /\ release' = release + 1
  /\ UNCHANGED <<password, made, tree, manifest, run, edits, writes, interrupted, doubled>>

\* The password file handed from one operator to another.
HandOver(c, d) ==
  /\ run.pc = "idle"
  /\ password[c] # 0 /\ password[d] = 0
  /\ password' = [password EXCEPT ![d] = password[c]]
  /\ UNCHANGED <<made, tree, manifest, run, bounds, interrupted, doubled>>

\* A line of one's own: a comment, a key st-cli does not know, or knows.
EditVars(s) ==
  /\ run.pc = "idle" /\ blob[s] # <<>> /\ edits < MaxEdits
  /\ edits' = edits + 1
  /\ \/ /\ \E own \in {Line(NoKey, "text")} \union {Line(k, "marker") : k \in OwnKeys} :
             blob' = [blob EXCEPT ![s] = <<own>> \o @]
        /\ UNCHANGED doubled
     \/ \E k \in PlainKeys :
          /\ blob' = [blob EXCEPT ![s] = Append(@, Line(k, "a"))]
          /\ doubled' = doubled \union {<<s, k>>}
  /\ UNCHANGED <<password, made, vault, connection, manifest, run, release, writes,
                 interrupted>>

----------------------------------------------------------------------------
(* bootstrap *)

CanRead(c, s) == vault[s] = NoVault \/ vault[s].by = password[c]

Mem == UNCHANGED <<password, made, manifest, bounds, interrupted, doubled>>

\* Mutant: no look at the vaults before the questionnaire.
BootstrapUnchecked(c, s) ==
  /\ run.pc = "idle"
  /\ \E fresh \in IF blob[s] = <<>> THEN {FALSE} ELSE BOOLEAN :
       run' = [Idle EXCEPT !.pc = "backend", !.clone = c, !.site = s, !.fresh = fresh,
                           !.choice = choice[s]]
  /\ UNCHANGED tree /\ Mem

\* ensure_vault_readable: the vaults of registered units only.  fresh is Override.
bootstrap(c, s) ==
  /\ run.pc = "idle"
  /\ unit[s] => CanRead(c, s)
  /\ \E fresh \in IF blob[s] = <<>> THEN {FALSE} ELSE BOOLEAN :
       run' = [Idle EXCEPT !.pc = "backend", !.clone = c, !.site = s, !.fresh = fresh,
                           !.choice = choice[s]]
  /\ UNCHANGED tree /\ Mem

\* Mutant: the choice is not kept for the manifest.
ChosenForNow(name) == run' = [run EXCEPT !.pc = "password", !.backend = name]

Chosen(name) ==
  run' = [run EXCEPT !.pc = "password", !.backend = name, !.choice = name]

write_common_connection(s, name) ==
  connection' = IF name = "hashi_vault" THEN [connection EXCEPT ![s] = TRUE] ELSE connection

\* Mutant: the question is asked again.
setup_backend_asks ==
  /\ run.pc = "backend"
  /\ \E name \in {"ansible-vault", "hashi_vault"} :
       Chosen(name) /\ write_common_connection(run.site, name)
  /\ UNCHANGED <<blob, vault>> /\ Mem

secret_config_for(s) == IF choice[s] = "none" THEN "ansible-vault" ELSE choice[s]

\* A site the manifest knows keeps its backend; the choice goes into the manifest
\* in memory, and to disk with it.
setup_backend ==
  /\ run.pc = "backend"
  /\ IF choice[run.site] # "none" \/ unit[run.site]
     THEN /\ run' = [run EXCEPT !.pc = "password", !.backend = secret_config_for(run.site)]
          /\ UNCHANGED connection
     ELSE \E name \in {"ansible-vault", "hashi_vault"} :
            Chosen(name) /\ write_common_connection(run.site, name)
  /\ UNCHANGED <<blob, vault>> /\ Mem

ensure_vault_password ==
  /\ run.pc = "password"
  /\ run' = [run EXCEPT !.pc = "ask"]
  /\ IF run.backend = "ansible-vault" /\ password[run.clone] = 0
     THEN /\ made < MaxPasswords
          /\ made' = made + 1
          /\ password' = [password EXCEPT ![run.clone] = made + 1]
     ELSE UNCHANGED <<made, password>>
  /\ UNCHANGED <<tree, manifest, bounds, interrupted, doubled>>

recover == IF run.fresh THEN <<>> ELSE parse(blob[run.site])

\* env_secret: a value under its name, or a marker that becomes a lookup; one that
\* is retyped stays the literal it is.
env_secret(k, v) ==
  IF run.backend = "ansible-vault" THEN v = "vault" ELSE v \in {"lookup", "new"}

\* A recovered secret is not asked for again; a plain answer can be changed.
questionnaire ==
  /\ run.pc = "ask"
  /\ writes < MaxRuns
  /\ \E answers \in [Asked(release) -> Values] :
       /\ \A k \in Asked(release) :
            IF IsSecret(k)
            THEN IF k \in DOMAIN recover THEN answers[k] = recover[k] ELSE env_secret(k, answers[k])
            ELSE answers[k] \in Plain \union (IF k \in DOMAIN recover THEN {recover[k]} ELSE {})
       /\ run' = [run EXCEPT !.pc = "vars", !.answers = answers,
                    !.buf = IF run.backend = "ansible-vault"
                            THEN {k \in Asked(release) : IsSecret(k) /\ k \notin DOMAIN recover}
                            ELSE {}]
  /\ writes' = writes + 1
  /\ UNCHANGED <<password, made, tree, manifest, release, edits, interrupted, doubled>>

render_env ==
  LET keys == Where(Order, {i \in DOMAIN Order : Order[i] \in DOMAIN run.answers})
  IN  [i \in DOMAIN keys |-> Line(keys[i], run.answers[keys[i]])]

\* Every string of vars.yml, whoever wrote it.
expand_var_markers(b) ==
  IF run.backend = "hashi_vault"
  THEN [i \in DOMAIN b |-> IF b[i].value = "marker" THEN Line(b[i].key, "lookup") ELSE b[i]]
  ELSE b

write_vars ==
  /\ run.pc = "vars"
  /\ run' = [run EXCEPT !.pc = "vault"]
  /\ blob' = [blob EXCEPT ![run.site] =
       expand_var_markers(merge(IF run.fresh THEN <<>> ELSE @, render_env, Line(NoKey, "text")))]
  /\ UNCHANGED <<vault, connection>> /\ Mem

\* Merging needs the vault read; that of an unregistered site was not checked.
write_vault ==
  /\ run.pc = "vault"
  /\ LET old == vault[run.site]
         merges == ~run.fresh /\ old # NoVault
     IN  /\ run.buf # {} /\ merges => CanRead(run.clone, run.site)
         /\ vault' = IF run.buf = {} THEN vault
                     ELSE [vault EXCEPT ![run.site] =
                             [by |-> password[run.clone],
                              names |-> run.buf \union (IF merges THEN old.names ELSE {})]]
  /\ run' = [run EXCEPT !.pc = "save"]
  /\ UNCHANGED <<blob, connection>> /\ Mem

save_manifest ==
  /\ run.pc = "save"
  /\ unit' = [unit EXCEPT ![run.site] = TRUE]
  /\ choice' = [choice EXCEPT ![run.site] = run.choice]
  /\ run' = Idle
  /\ UNCHANGED <<password, made, tree, bounds, interrupted, doubled>>

\* Ctrl-C at a prompt, an error, a crash: what is written stays.
Dies ==
  /\ run.pc # "idle"
  /\ run' = Idle
  /\ interrupted' = IF run.pc \in {"vault", "save"} THEN interrupted \union {run.site}
                                                    ELSE interrupted
  /\ UNCHANGED <<password, made, tree, manifest, bounds, doubled>>

----------------------------------------------------------------------------
Init ==
  /\ password = [c \in Clones |-> 0] /\ made = 0
  /\ release = 1
  /\ choice = [s \in Sites |-> "none"] /\ unit = [s \in Sites |-> FALSE]
  /\ blob = [s \in Sites |-> <<>>] /\ vault = [s \in Sites |-> NoVault]
  /\ connection = [s \in Sites |-> FALSE]
  /\ run = Idle
  /\ edits = 0 /\ writes = 0
  /\ interrupted = {} /\ doubled = {}

RunNext ==
  \/ setup_backend \/ ensure_vault_password \/ questionnaire
  \/ write_vars \/ write_vault \/ save_manifest \/ Dies

Next ==
  \/ install_release
  \/ \E c, d \in Clones : HandOver(c, d)
  \/ \E s \in Sites : EditVars(s)
  \/ \E c \in Clones, s \in Sites : bootstrap(c, s)
  \/ RunNext

Spec == Init /\ [][Next]_vars

----------------------------------------------------------------------------
(* What ansible-playbook can do with the files generate_all gives it *)

\* ansible.cfg has the password file for ansible-vault, galaxy-requirements has
\* community.hashi_vault for the other; every vault.yml there is is loaded.
Loads(c, s) ==
  vault[s] # NoVault => secret_config_for(s) = "ansible-vault" /\ CanRead(c, s)

Resolved(s, l) ==
  /\ l.value = "vault" => l.key \in vault[s].names
  /\ l.value = "lookup" => secret_config_for(s) = "hashi_vault" /\ connection[s]

\* A site that was bootstrapped, and whose runs all came to their end, deploys with
\* the password of its vault: every reference of its env blob resolves with the
\* backend the manifest names, whatever other sites and clones chose.
ReferencesFitBackend ==
  \A s \in Sites \ interrupted :
    unit[s] /\ (run.pc = "idle" \/ run.site # s) =>
      /\ \A i \in DOMAIN blob[s] : Resolved(s, blob[s][i])
      /\ \A c \in Clones : vault[s] = NoVault \/ vault[s].by = password[c] => Loads(c, s)

\* The vault of a registered site is never encrypted with another password, even
\* by the clone of an operator who was not handed the file and generated one.
RegisteredVaultKeepsPassword ==
  [][\A s \in Sites : unit[s] /\ vault[s] # NoVault =>
       vault'[s].by = vault[s].by]_vars

\* The lines st-cli does not own survive every run but an override, in their order,
\* markers being expanded for OpenBao.
Same(l, m) == l = m \/ (l.value = "marker" /\ m = Line(l.key, "lookup"))
OperatorLinesStay ==
  [][\A s \in Sites : blob'[s] # blob[s] /\ run.pc = "vars" /\ ~run.fresh =>
       /\ Len(blob'[s]) >= Len(blob[s])
       /\ \A i \in DOMAIN blob[s] :
            /\ blob'[s][i].key = blob[s][i].key
            /\ blob[s][i].key \notin Asked(release) => Same(blob[s][i], blob'[s][i])]_vars

\* An answer is what the containers will read, unless the operator wrote its key
\* twice; st-cli never does.
AnswersTakeEffect ==
  run.pc = "vault" =>
    \A k \in DOMAIN run.answers : <<run.site, k>> \notin doubled =>
      /\ Cardinality({i \in DOMAIN blob[run.site] : blob[run.site][i].key = k}) = 1
      /\ Same(Line(k, run.answers[k]), Line(k, parse(blob[run.site])[k]))
============================================================================
