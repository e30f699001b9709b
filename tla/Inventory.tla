----------------------------- MODULE Inventory -----------------------------
(***************************************************************************)
(* The hosts files of the config tree (core/tree.py) and the units a       *)
(* command targets: what bootstrap writes, what restart, reset and the     *)
(* generated playbooks read back.  Everything here is a function of the    *)
(* hosts files and of the manifest.                                        *)
(*                                                                         *)
(* A name is [base, sep], sep being "-", "_" or "": the dash is all that   *)
(* group_name changes.  An alias <group><n> is the pair <<name, n>>.       *)
(***************************************************************************)
EXTENDS Lists, FiniteSets

CONSTANT Meta  \* of each component: app_name, files (whose tree it uses), order

Keys == DOMAIN Meta
Names == [base : STRING, sep : {"-", "_", ""}]

files_component(c) == Meta[c].files
is_worker(c) == files_component(c) # c
app_name(c) == Meta[c].app_name

group_name(n) == [n EXCEPT !.sep = IF @ = "-" THEN "_" ELSE @]

\* The metadata of an app: one worker at most, in the files of the core, and two
\* groups of one file that no dash makes the same.
ASSUME MetaAssumption ==
  /\ \A c \in Keys : /\ app_name(c) \in Names
                      /\ files_component(c) \in Keys /\ ~is_worker(files_component(c))
  /\ \A v, w \in Keys : is_worker(v) /\ is_worker(w) => v = w
  /\ \A w \in Keys : is_worker(w) =>
       group_name(app_name(w)) # group_name(app_name(files_component(w)))

----------------------------------------------------------------------------
(* Writing.  "own" is the hosts the operator gave each component, <<>> for *)
(* a worker on the core's hosts and a unit st-cli does not deploy          *)

Header(n) == [kind |-> "header", name |-> n]
Entry(n, i, ip) == [kind |-> "entry", alias |-> <<n, i>>, ip |-> ip]

Lines(name, ips) ==
  <<Header(name)>> \o [i \in 1 .. Len(ips) |-> Entry(name, i, ips[i])]

_group_lines(group, ips) == Lines(group_name(group), ips)

\* What st-cli wrote before 0.5.0.
LegacyLines(group, ips) == Lines(group, ips)

Section(old, group, ips) ==
  IF ips = <<>> THEN <<>>
  ELSE IF old THEN LegacyLines(group, ips) ELSE _group_lines(group, ips)

write_hosts(own, old, c) == Section(old, app_name(c), own[c])

\* The core's file: its group, and its workers' when they have hosts of their own.
write_groups(own, old, c, w) ==
  Section(old, app_name(c), own[c]) \o Section(old, app_name(w), own[w])

\* The hosts file of every component, which a release before 0.5.0 wrote, or not.
hosts_files(own, old) ==
  [c \in Keys |->
     LET workers == {w \in Keys \ {c} : files_component(w) = c}
     IN  IF is_worker(c) THEN <<>>
         ELSE IF workers = {} THEN write_hosts(own, old[c], c)
         ELSE write_groups(own, old[c], c, CHOOSE w \in workers : TRUE)]

----------------------------------------------------------------------------
(* Reading.  "text" is a hosts file, "hosts" the files by component *)

Last(S) == CHOOSE i \in S : \A j \in S : j <= i

\* A header compared as it is written.
currentAsWritten(text, i) ==
  LET above == {j \in 1 .. i : text[j].kind = "header"}
  IN  IF above = {} THEN [base |-> "none", sep |-> ""] ELSE text[Last(above)].name

\* The section line i is in.
current(text, i) ==
  LET above == {j \in 1 .. i : text[j].kind = "header"}
  IN  IF above = {} THEN [base |-> "none", sep |-> ""]
                    ELSE group_name(text[Last(above)].name)

read_inventory(text, group) ==
  LET found == Where(text, {i \in DOMAIN text : /\ text[i].kind = "entry"
                                               /\ current(text, i) = group_name(group)})
  IN  [k \in DOMAIN found |-> [alias |-> found[k].alias, ip |-> found[k].ip]]

effective_group(hosts, c) ==
  IF /\ is_worker(c)
     /\ read_inventory(hosts[files_component(c)], app_name(c)) # <<>>
  THEN app_name(c)
  ELSE app_name(files_component(c))

component_inventory(hosts, c) ==
  read_inventory(hosts[files_component(c)], effective_group(hosts, c))

find_host(entries, alias) ==
  LET same == {i \in DOMAIN entries : entries[i].alias = alias}
  IN  IF same = {} THEN <<>> ELSE <<entries[CHOOSE i \in same : \A j \in same : i <= j]>>

----------------------------------------------------------------------------
(* Targeting.  A unit is in the manifest with its mode; no -H is <<>> *)

managed(units) == {c \in DOMAIN units : units[c] # "external"}

managed_units(units, components) ==
  IF components = {} THEN managed(units) ELSE components

\* managed_units raises.
NoSuchUnits(units, components) ==
  ~ components \subseteq managed(units) \/ managed_units(units, components) = {}

Narrowed(hosts, c, host) ==
  IF host = <<>> THEN component_inventory(hosts, c)
                  ELSE find_host(component_inventory(hosts, c), host)

\* iter_targeted_hosts raises.
NoSuchHosts(hosts, units, components, host) ==
  LET targeted == managed_units(units, components)
  IN  \/ \E c \in targeted : component_inventory(hosts, c) = <<>>
      \/ components # {} /\ \E c \in targeted : Narrowed(hosts, c, host) = <<>>
      \/ \A c \in targeted : Narrowed(hosts, c, host) = <<>>

iter_targeted_hosts(hosts, units, components, host, c) ==
  IF c \in managed_units(units, components) THEN Narrowed(hosts, c, host) ELSE <<>>
============================================================================
