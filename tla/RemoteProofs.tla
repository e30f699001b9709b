---------------------------- MODULE RemoteProofs ----------------------------
(***************************************************************************)
(* What restart and reset promise, for every set of components, machines   *)
(* and layouts, and every number of commands and of services that die      *)
(* meanwhile.  Three invariants, each with the ones before it:             *)
(*   IInv  a restart rolls, one that succeeds has brought everything back, *)
(*         and a reset redeploys into an empty place                       *)
(*   UInv  the ssh user is asked for once, before any host is reached      *)
(*   TInv  the types, and the hosts a restart goes to                      *)
(* They rest on what reading a hosts file back returns, which comes first. *)
(***************************************************************************)
EXTENDS Remote, ListFacts, SequenceTheorems

USE ServicesAssumption

----------------------------------------------------------------------------
(* Reading a hosts file back *)

Headers == [kind : {"header"}, name : Names]
Entries0 == [kind : {"entry"}, alias : Names \X Nat, ip : Machines]
HostsLines == Headers \union Entries0
Found == [alias : Names \X Nat, ip : Machines]

\* The entries that are read are those of the hosts ips.
Reads(entries, ips) ==
  /\ entries \in Seq(Found)
  /\ \A j \in DOMAIN entries : \E k \in DOMAIN ips : entries[j].ip = ips[k]
  /\ \A k \in DOMAIN ips : \E j \in DOMAIN entries : entries[j].ip = ips[k]
  /\ (\A i, j \in DOMAIN ips : ips[i] = ips[j] => i = j) =>
       \A i, j \in DOMAIN entries : entries[i].ip = entries[j].ip => i = j

\* The places of a group in a hosts file.
Places(text, group) ==
  {i \in DOMAIN text : text[i].kind = "entry" /\ current(text, i) = group_name(group)}

LEMMA ReadsPlaces ==
  ASSUME NEW text \in Seq(HostsLines), NEW group, NEW ips \in Seq(Machines), NEW off \in Nat,
         \A k \in DOMAIN ips : off + k \in Places(text, group) /\ text[off + k].ip = ips[k],
         \A i \in Places(text, group) : i - off \in DOMAIN ips
  PROVE  Reads(read_inventory(text, group), ips)
<1> DEFINE I == Places(text, group)
           found == Where(text, I)
           entries == read_inventory(text, group)
<1>1. /\ found \in Seq(HostsLines)
      /\ \A j \in DOMAIN found : \E i \in I \cap DOMAIN text : found[j] = text[i]
      /\ \A i \in I \cap DOMAIN text : \E j \in DOMAIN found : found[j] = text[i]
      /\ \A j, k \in DOMAIN found : j # k =>
           \E h, i \in I \cap DOMAIN text : h # i /\ found[j] = text[h] /\ found[k] = text[i]
  <2> HIDE DEF I
  <2> QED
    BY WhereFacts
<1>2. entries = [k \in DOMAIN found |-> [alias |-> found[k].alias, ip |-> found[k].ip]]
  BY DEF read_inventory, Places
<1>3. I \subseteq DOMAIN text /\ \A i \in I : text[i].kind = "entry"
  BY DEF Places
<1>4. \A i \in DOMAIN text : text[i] \in HostsLines
  OBVIOUS
<1>5. \A l \in HostsLines : l.kind = "entry" => l \in Entries0
  BY DEF HostsLines, Headers
<1>6. \A i \in I : text[i] \in Entries0
  BY <1>3, <1>4, <1>5
<1>7. /\ Len(found) \in Nat /\ DOMAIN found = 1 .. Len(found)
      /\ DOMAIN text = 1 .. Len(text) /\ Len(text) \in Nat
      /\ DOMAIN ips = 1 .. Len(ips) /\ Len(ips) \in Nat
  BY <1>1
<1> HIDE DEF I, found, entries
<1>8. \A k \in DOMAIN found : found[k] \in Entries0
  BY <1>1, <1>6
<1>9. \A k \in DOMAIN found : /\ entries[k].ip = found[k].ip
                              /\ entries[k] \in Found
  BY <1>2, <1>8 DEF Entries0, Found
<1>10. entries \in Seq(Found) /\ DOMAIN entries = DOMAIN found
  <2>1. entries \in [1 .. Len(found) -> Found]
    BY <1>2, <1>7, <1>9
  <2> QED
    BY <1>2, <1>7, <2>1
<1>11. \A i \in I : i - off \in DOMAIN ips /\ off + (i - off) = i /\ text[i].ip = ips[i - off]
  <2> SUFFICES ASSUME NEW i \in I
               PROVE  i - off \in DOMAIN ips /\ off + (i - off) = i /\ text[i].ip = ips[i - off]
    OBVIOUS
  <2>1. i \in Nat
    BY <1>3, <1>7
  <2>2. i - off \in DOMAIN ips /\ off + (i - off) = i
    BY <2>1 DEF I
  <2>3. text[off + (i - off)].ip = ips[i - off]
    BY <2>2
  <2> QED
    BY <2>2, <2>3
<1>12. \A j \in DOMAIN entries : \E k \in DOMAIN ips : entries[j].ip = ips[k]
  <2> TAKE j \in DOMAIN entries
  <2>1. PICK i \in I \cap DOMAIN text : found[j] = text[i]
    BY <1>1, <1>10
  <2>2. entries[j].ip = text[i].ip
    BY <1>9, <1>10, <2>1
  <2> QED
    BY <1>11, <2>2
<1>13. \A k \in DOMAIN ips : \E j \in DOMAIN entries : entries[j].ip = ips[k]
  <2> TAKE k \in DOMAIN ips
  <2>1. off + k \in I /\ text[off + k].ip = ips[k]
    BY DEF I
  <2>2. PICK j \in DOMAIN found : found[j] = text[off + k]
    BY <1>1, <1>3, <2>1
  <2>3. entries[j].ip = ips[k]
    BY <1>9, <2>1, <2>2
  <2> QED
    BY <1>10, <2>3
<1>14. ASSUME \A i, j \in DOMAIN ips : ips[i] = ips[j] => i = j,
              NEW i \in DOMAIN entries, NEW j \in DOMAIN entries, i # j
       PROVE  entries[i].ip # entries[j].ip
  <2>1. PICK g, h \in I \cap DOMAIN text : g # h /\ found[i] = text[g] /\ found[j] = text[h]
    BY <1>1, <1>10, <1>14
  <2>2. g - off # h - off
    BY <1>7, <2>1
  <2>3. ips[g - off] # ips[h - off]
    BY <1>11, <1>14, <2>1, <2>2
  <2> QED
    BY <1>9, <1>10, <1>11, <2>1, <2>3
<1> QED
  BY <1>10, <1>12, <1>13, <1>14 DEF Reads, entries

\* The section of a line is that of the header above it.
LEMMA CurrentIs ==
  ASSUME NEW text, NEW i \in Nat, NEW h \in 1 .. i,
         text[h].kind = "header", \A j \in h + 1 .. i : text[j].kind # "header"
  PROVE  current(text, i) = group_name(text[h].name)
<1> DEFINE above == {j \in 1 .. i : text[j].kind = "header"}
<1>1. h \in above /\ \A j \in above : j <= h
  OBVIOUS
<1>2. above \subseteq Nat
  OBVIOUS
<1> HIDE DEF above
<1>3. \A m \in above : (\A j \in above : j <= m) => m = h
  BY <1>1, <1>2
<1>4. Last(above) = h
  BY <1>1, <1>3 DEF Last
<1> QED
  BY <1>1, <1>4 DEF current, above

LEMMA LinesIs ==
  ASSUME NEW h \in Names, NEW ips \in Seq(Machines)
  PROVE  LET t == Lines(h, ips)
         IN  /\ t \in Seq(HostsLines) /\ Len(t) = 1 + Len(ips)
             /\ t[1].kind = "header" /\ t[1].name = h
             /\ \A k \in DOMAIN ips : t[1 + k].kind = "entry" /\ t[1 + k].ip = ips[k]
<1> DEFINE e == [i \in 1 .. Len(ips) |-> Entry(h, i, ips[i])]
<1>0. Len(ips) \in Nat /\ DOMAIN ips = 1 .. Len(ips) /\ \A k \in DOMAIN ips : ips[k] \in Machines
  OBVIOUS
<1>1. Header(h) \in HostsLines /\ Header(h).kind = "header" /\ Header(h).name = h
  BY DEF Header, HostsLines, Headers
<1>2. ASSUME NEW i \in 1 .. Len(ips)
      PROVE  /\ Entry(h, i, ips[i]) \in HostsLines
             /\ Entry(h, i, ips[i]).kind = "entry" /\ Entry(h, i, ips[i]).ip = ips[i]
  <2>1. i \in Nat /\ ips[i] \in Machines
    BY <1>0
  <2>2. <<h, i>> \in Names \X Nat
    BY <2>1
  <2> QED
    BY <2>1, <2>2 DEF Entry, HostsLines, Entries0
<1>3. e \in Seq(HostsLines) /\ Len(e) = Len(ips)
  <2>1. e \in [1 .. Len(ips) -> HostsLines]
    BY <1>2
  <2> QED
    BY <1>0, <2>1
<1>4. <<Header(h)>> \in Seq(HostsLines) /\ Len(<<Header(h)>>) = 1 /\ <<Header(h)>>[1] = Header(h)
  BY <1>1
<1>5. \A i \in 1 .. Len(ips) : e[i].kind = "entry" /\ e[i].ip = ips[i]
  BY <1>2
<1>6. PICK t : t = <<Header(h)>> \o e
  OBVIOUS
<1>7. Lines(h, ips) = t
  BY <1>6 DEF Lines
<1> HIDE DEF e
<1>8. /\ <<Header(h)>> \o e \in Seq(HostsLines)
      /\ Len(<<Header(h)>> \o e) = Len(<<Header(h)>>) + Len(e)
      /\ \A i \in 1 .. Len(<<Header(h)>>) : (<<Header(h)>> \o e)[i] = <<Header(h)>>[i]
      /\ \A i \in 1 .. Len(e) : (<<Header(h)>> \o e)[Len(<<Header(h)>>) + i] = e[i]
  <2>1. <<Header(h)>> \in Seq(HostsLines) /\ e \in Seq(HostsLines)
    BY <1>3, <1>4
  <2> QED
    BY <2>1, ConcatIs
<1>9. /\ t \in Seq(HostsLines) /\ Len(t) = 1 + Len(ips) /\ t[1] = Header(h)
      /\ \A i \in 1 .. Len(ips) : t[1 + i] = e[i]
  BY <1>3, <1>4, <1>6, <1>8
<1> QED
  BY <1>0, <1>1, <1>5, <1>7, <1>9

\* A group is read back from a file of one or two sections, whatever the other holds.
LEMMA ReadsOne ==
  ASSUME NEW h \in Names, NEW ips \in Seq(Machines), NEW group
  PROVE  Reads(read_inventory(Lines(h, ips), group),
               IF group_name(h) = group_name(group) THEN ips ELSE <<>>)
<1>1. PICK t : t = Lines(h, ips)
  OBVIOUS
<1>2. /\ t \in Seq(HostsLines) /\ Len(t) = 1 + Len(ips)
      /\ t[1].kind = "header" /\ t[1].name = h
      /\ \A k \in DOMAIN ips : t[1 + k].kind = "entry" /\ t[1 + k].ip = ips[k]
  BY <1>1, LinesIs
<1>3. /\ Len(ips) \in Nat /\ DOMAIN ips = 1 .. Len(ips) /\ DOMAIN t = 1 .. 1 + Len(ips)
  BY <1>2
<1>4. \A i \in DOMAIN t : i # 1 => i - 1 \in DOMAIN ips /\ t[i].kind = "entry"
  <2> SUFFICES ASSUME NEW i \in DOMAIN t, i # 1 PROVE i - 1 \in DOMAIN ips /\ t[i].kind = "entry"
    OBVIOUS
  <2>1. i - 1 \in DOMAIN ips /\ 1 + (i - 1) = i
    BY <1>3
  <2> QED
    BY <1>2, <2>1
<1>5. ASSUME NEW i \in DOMAIN t PROVE current(t, i) = group_name(h)
  <2>1. i \in Nat /\ 1 \in 1 .. i /\ \A j \in 1 + 1 .. i : j \in DOMAIN t /\ j # 1
    BY <1>3
  <2>2. \A j \in 1 + 1 .. i : t[j].kind # "header"
    BY <1>4, <2>1
  <2> QED
    BY <1>2, <2>1, <2>2, CurrentIs
<1>6. CASE group_name(h) = group_name(group)
  <2>1. \A k \in DOMAIN ips : 1 + k \in Places(t, group) /\ t[1 + k].ip = ips[k]
    BY <1>2, <1>3, <1>5, <1>6 DEF Places
  <2>2. \A i \in Places(t, group) : i - 1 \in DOMAIN ips
    BY <1>2, <1>4 DEF Places
  <2>3. Reads(read_inventory(t, group), ips)
    BY <1>2, <2>1, <2>2, ReadsPlaces
  <2> QED
    BY <1>1, <1>6, <2>3
<1>7. CASE group_name(h) # group_name(group)
  <2>1. <<>> \in Seq(Machines) /\ DOMAIN <<>> = {} /\ 0 \in Nat
    OBVIOUS
  <2>2. Places(t, group) = {}
    BY <1>5, <1>7 DEF Places
  <2>3. Reads(read_inventory(t, group), <<>>)
    BY <1>2, <2>1, <2>2, ReadsPlaces
  <2> QED
    BY <1>1, <1>7, <2>3
<1> QED
  BY <1>6, <1>7

\* The lines of two sections, and the section of each.
Sectioned(t, h, a, i, b) ==
  /\ DOMAIN t = 1 .. 2 + Len(a) + Len(b)
  /\ \A k \in DOMAIN a : t[1 + k].kind = "entry" /\ t[1 + k].ip = a[k]
  /\ \A k \in DOMAIN b : /\ t[2 + Len(a) + k].kind = "entry"
                         /\ t[2 + Len(a) + k].ip = b[k]
  /\ t[1].kind = "header" /\ t[2 + Len(a)].kind = "header"
  /\ \A k \in 1 .. 1 + Len(a) : current(t, k) = group_name(h)
  /\ \A k \in 2 + Len(a) .. 2 + Len(a) + Len(b) : current(t, k) = group_name(i)

LEMMA TwoSections ==
  ASSUME NEW h \in Names, NEW a \in Seq(Machines),
         NEW i \in Names, NEW b \in Seq(Machines)
  PROVE  /\ Lines(h, a) \o Lines(i, b) \in Seq(HostsLines)
         /\ Sectioned(Lines(h, a) \o Lines(i, b), h, a, i, b)
<1>1. PICK x, y : x = Lines(h, a) /\ y = Lines(i, b)
  OBVIOUS
<1>2. /\ x \in Seq(HostsLines) /\ Len(x) = 1 + Len(a)
      /\ x[1].kind = "header" /\ x[1].name = h
      /\ \A k \in DOMAIN a : x[1 + k].kind = "entry" /\ x[1 + k].ip = a[k]
  BY <1>1, LinesIs
<1>3. /\ y \in Seq(HostsLines) /\ Len(y) = 1 + Len(b)
      /\ y[1].kind = "header" /\ y[1].name = i
      /\ \A k \in DOMAIN b : y[1 + k].kind = "entry" /\ y[1 + k].ip = b[k]
  BY <1>1, LinesIs
<1>4. PICK t : t = x \o y
  OBVIOUS
<1>5. /\ x \o y \in Seq(HostsLines) /\ Len(x \o y) = Len(x) + Len(y)
      /\ \A k \in 1 .. Len(x) : (x \o y)[k] = x[k]
      /\ \A k \in 1 .. Len(y) : (x \o y)[Len(x) + k] = y[k]
  <2>1. x \in Seq(HostsLines) /\ y \in Seq(HostsLines)
    BY <1>2, <1>3
  <2> QED
    BY <2>1, ConcatIs
<1>6. PICK m, n \in Nat : m = Len(a) /\ n = Len(b) /\ DOMAIN a = 1 .. m /\ DOMAIN b = 1 .. n
  OBVIOUS
<1>7. /\ t \in Seq(HostsLines) /\ DOMAIN t = 1 .. 2 + m + n
      /\ \A k \in 1 .. 1 + m : t[k] = x[k]
      /\ \A k \in 1 .. 1 + n : t[1 + m + k] = y[k]
  <2>1. Len(x) = 1 + m /\ Len(y) = 1 + n /\ (1 + m) + (1 + n) = 2 + m + n
    BY <1>2, <1>3, <1>6
  <2>2. t \in Seq(HostsLines) /\ Len(t) = 2 + m + n
    BY <1>4, <1>5, <2>1
  <2> QED
    BY <1>4, <1>5, <2>1, <2>2
<1>8. ASSUME NEW k \in 1 .. m PROVE t[1 + k].kind = "entry" /\ t[1 + k].ip = a[k]
  <2>1. 1 + k \in 1 .. 1 + m
    BY <1>6
  <2> QED
    BY <1>2, <1>6, <1>7, <2>1
<1>9. ASSUME NEW k \in 1 .. n PROVE t[2 + m + k].kind = "entry" /\ t[2 + m + k].ip = b[k]
  <2>1. 1 + k \in 1 .. 1 + n /\ 1 + m + (1 + k) = 2 + m + k
    BY <1>6
  <2>2. t[2 + m + k] = y[1 + k]
    BY <1>7, <2>1
  <2> QED
    BY <1>3, <1>6, <2>2
<1>10. t[1].kind = "header" /\ t[1].name = h /\ t[2 + m].kind = "header" /\ t[2 + m].name = i
  <2>1. 1 \in 1 .. 1 + m /\ 1 \in 1 .. 1 + n /\ 1 + m + 1 = 2 + m
    BY <1>6
  <2>2. t[1] = x[1] /\ t[2 + m] = y[1]
    BY <1>7, <2>1
  <2> QED
    BY <1>2, <1>3, <2>2
<1>11. ASSUME NEW k \in 1 .. 1 + m PROVE current(t, k) = group_name(h)
  <2>1. k \in Nat /\ 1 \in 1 .. k /\ \A j \in 1 + 1 .. k : j - 1 \in 1 .. m /\ 1 + (j - 1) = j
    BY <1>6
  <2>2. \A j \in 1 + 1 .. k : t[j].kind # "header"
    BY <1>8, <2>1
  <2> QED
    BY <1>10, <2>1, <2>2, CurrentIs
<1>12. ASSUME NEW k \in 2 + m .. 2 + m + n PROVE current(t, k) = group_name(i)
  <2>1. /\ k \in Nat /\ 2 + m \in 1 .. k
        /\ \A j \in 2 + m + 1 .. k : j - (2 + m) \in 1 .. n /\ 2 + m + (j - (2 + m)) = j
    BY <1>6
  <2>2. \A j \in 2 + m + 1 .. k : t[j].kind # "header"
    BY <1>9, <2>1
  <2> QED
    BY <1>10, <2>1, <2>2, CurrentIs
<1>13. Sectioned(t, h, a, i, b)
  BY <1>6, <1>7, <1>8, <1>9, <1>10, <1>11, <1>12 DEF Sectioned
<1>14. t = Lines(h, a) \o Lines(i, b)
  BY <1>1, <1>4
<1> QED
  BY <1>7, <1>13, <1>14

LEMMA ReadsTwo ==
  ASSUME NEW h \in Names, NEW a \in Seq(Machines),
         NEW i \in Names, NEW b \in Seq(Machines),
         group_name(h) # group_name(i), NEW n, group_name(n) = group_name(h),
         NEW w, group_name(w) = group_name(i)
  PROVE  /\ Reads(read_inventory(Lines(h, a) \o Lines(i, b), n), a)
         /\ Reads(read_inventory(Lines(h, a) \o Lines(i, b), w), b)
<1>0. PICK t \in Seq(HostsLines) :
        t = Lines(h, a) \o Lines(i, b) /\ Sectioned(t, h, a, i, b)
  BY TwoSections
<1>1. /\ DOMAIN t = 1 .. 2 + Len(a) + Len(b)
      /\ \A k \in DOMAIN a : t[1 + k].kind = "entry" /\ t[1 + k].ip = a[k]
      /\ \A k \in DOMAIN b : /\ t[2 + Len(a) + k].kind = "entry"
                             /\ t[2 + Len(a) + k].ip = b[k]
      /\ t[1].kind = "header" /\ t[2 + Len(a)].kind = "header"
      /\ \A k \in 1 .. 1 + Len(a) : current(t, k) = group_name(h)
      /\ \A k \in 2 + Len(a) .. 2 + Len(a) + Len(b) : current(t, k) = group_name(i)
  BY <1>0 DEF Sectioned
<1>2. PICK p, q \in Nat : p = Len(a) /\ q = Len(b) /\ DOMAIN a = 1 .. p /\ DOMAIN b = 1 .. q
  OBVIOUS
<1>3. \A k \in DOMAIN t : k \in 1 .. 1 + p \/ k \in 2 + p .. 2 + p + q
  BY <1>1, <1>2
<1>4. Reads(read_inventory(t, n), a)
  <2>1. \A k \in DOMAIN a : 1 + k \in Places(t, n) /\ t[1 + k].ip = a[k]
    <3> SUFFICES ASSUME NEW k \in 1 .. p PROVE 1 + k \in Places(t, n) /\ t[1 + k].ip = a[k]
      BY <1>2
    <3>1. 1 + k \in DOMAIN t /\ 1 + k \in 1 .. 1 + p
      BY <1>1, <1>2
    <3> QED
      BY <1>1, <1>2, <3>1 DEF Places
  <2>2. ASSUME NEW k \in Places(t, n) PROVE k - 1 \in DOMAIN a
    <3>1. k \in DOMAIN t /\ k # 1 /\ k \in 1 .. 1 + p
      BY <1>1, <1>2, <1>3 DEF Places
    <3> QED
      BY <1>2, <3>1
  <2>3. 1 \in Nat
    OBVIOUS
  <2> QED
    BY <2>1, <2>2, <2>3, ReadsPlaces
<1>5. Reads(read_inventory(t, w), b)
  <2>1. \A k \in DOMAIN b : 2 + p + k \in Places(t, w) /\ t[2 + p + k].ip = b[k]
    <3> SUFFICES ASSUME NEW k \in 1 .. q
                 PROVE  2 + p + k \in Places(t, w) /\ t[2 + p + k].ip = b[k]
      BY <1>2
    <3>1. 2 + p + k \in DOMAIN t /\ 2 + p + k \in 2 + p .. 2 + p + q
      BY <1>1, <1>2
    <3> QED
      BY <1>1, <1>2, <3>1 DEF Places
  <2>2. ASSUME NEW k \in Places(t, w) PROVE k - (2 + p) \in DOMAIN b
    <3>1. k \in DOMAIN t /\ k # 2 + p /\ k \in 2 + p .. 2 + p + q
      BY <1>1, <1>2, <1>3 DEF Places
    <3> QED
      BY <1>2, <3>1
  <2>3. 2 + p \in Nat
    BY <1>2
  <2> QED
    BY <2>1, <2>2, <2>3, ReadsPlaces
<1> QED
  BY <1>0, <1>4, <1>5

\* The names of groups.
LEMMA GroupNames ==
  ASSUME NEW n \in Names
  PROVE  group_name(n) \in Names /\ group_name(group_name(n)) = group_name(n)
BY DEF Names, group_name

\* A section has its group as the header, dashed or not.
LEMMA SectionIs ==
  ASSUME NEW old, NEW n \in Names, NEW ips
  PROVE  \/ ips = <<>> /\ Section(old, n, ips) = <<>>
         \/ /\ ips # <<>>
            /\ \E h \in Names : /\ Section(old, n, ips) = Lines(h, ips)
                                /\ group_name(h) = group_name(n)
BY GroupNames DEF Section, LegacyLines, _group_lines

LEMMA ReadsNothing ==
  ASSUME NEW group
  PROVE  Reads(read_inventory(<<>>, group), <<>>)
<1>1. <<>> \in Seq(HostsLines) /\ <<>> \in Seq(Machines) /\ DOMAIN <<>> = {} /\ 0 \in Nat
  OBVIOUS
<1>2. Places(<<>>, group) = {}
  BY <1>1 DEF Places
<1> QED
  BY <1>1, <1>2, ReadsPlaces

LEMMA ReadsSection ==
  ASSUME NEW old, NEW n \in Names, NEW ips \in Seq(Machines), NEW group
  PROVE  Reads(read_inventory(Section(old, n, ips), group),
               IF group_name(n) = group_name(group) THEN ips ELSE <<>>)
<1>1. CASE ips = <<>> /\ Section(old, n, ips) = <<>>
  <2>1. Reads(read_inventory(<<>>, group), <<>>)
    BY ReadsNothing
  <2> QED
    BY <1>1, <2>1
<1>2. CASE \E h \in Names : /\ Section(old, n, ips) = Lines(h, ips)
                            /\ group_name(h) = group_name(n)
  <2>1. PICK h \in Names : /\ Section(old, n, ips) = Lines(h, ips)
                           /\ group_name(h) = group_name(n)
    BY <1>2
  <2>2. Reads(read_inventory(Lines(h, ips), group),
              IF group_name(h) = group_name(group) THEN ips ELSE <<>>)
    BY ReadsOne
  <2> QED
    BY <2>1, <2>2
<1> QED
  BY <1>1, <1>2, SectionIs

LEMMA NothingAround ==
  /\ \A s : s \in Seq(HostsLines) => <<>> \o s = s /\ s \o <<>> = s
  /\ <<>> \o <<>> = <<>>
OBVIOUS

LEMMA ReadsSections ==
  ASSUME NEW old, NEW n \in Names, NEW a \in Seq(Machines),
         NEW w \in Names, NEW b \in Seq(Machines), group_name(n) # group_name(w)
  PROVE  /\ Reads(read_inventory(Section(old, n, a) \o Section(old, w, b), n), a)
         /\ Reads(read_inventory(Section(old, n, a) \o Section(old, w, b), w), b)
<1>1. /\ Section(old, n, a) \in Seq(HostsLines)
      /\ Section(old, w, b) \in Seq(HostsLines)
  <2>1. <<>> \in Seq(HostsLines)
    OBVIOUS
  <2>2. \A h \in Names : /\ Lines(h, a) \in Seq(HostsLines)
                         /\ Lines(h, b) \in Seq(HostsLines)
    BY LinesIs
  <2> QED
    BY <2>1, <2>2, SectionIs
<1>2. CASE a = <<>>
  <2>1. Section(old, n, a) = <<>>
    BY <1>2 DEF Section
  <2>2. Section(old, n, a) \o Section(old, w, b) = Section(old, w, b)
    BY <1>1, <2>1, NothingAround
  <2>3. /\ Reads(read_inventory(Section(old, w, b), n),
                 IF group_name(w) = group_name(n) THEN b ELSE <<>>)
        /\ Reads(read_inventory(Section(old, w, b), w),
                 IF group_name(w) = group_name(w) THEN b ELSE <<>>)
    BY ReadsSection
  <2> QED
    BY <1>2, <2>2, <2>3
<1>3. CASE a # <<>> /\ b = <<>>
  <2>1. Section(old, w, b) = <<>>
    BY <1>3 DEF Section
  <2>2. Section(old, n, a) \o Section(old, w, b) = Section(old, n, a)
    BY <1>1, <2>1, NothingAround
  <2>3. /\ Reads(read_inventory(Section(old, n, a), n),
                 IF group_name(n) = group_name(n) THEN a ELSE <<>>)
        /\ Reads(read_inventory(Section(old, n, a), w),
                 IF group_name(n) = group_name(w) THEN a ELSE <<>>)
    BY ReadsSection
  <2> QED
    BY <1>3, <2>2, <2>3
<1>4. CASE a # <<>> /\ b # <<>>
  <2>1. PICK h \in Names : /\ Section(old, n, a) = Lines(h, a)
                           /\ group_name(h) = group_name(n)
    BY <1>4, SectionIs
  <2>2. PICK i \in Names : /\ Section(old, w, b) = Lines(i, b)
                           /\ group_name(i) = group_name(w)
    BY <1>4, SectionIs
  <2>3. /\ Reads(read_inventory(Lines(h, a) \o Lines(i, b), n), a)
        /\ Reads(read_inventory(Lines(h, a) \o Lines(i, b), w), b)
    BY <2>1, <2>2, ReadsTwo
  <2> QED
    BY <2>1, <2>2, <2>3
<1> QED
  BY <1>2, <1>3, <1>4

----------------------------------------------------------------------------
(* The hosts of a component *)

LEMMA MetaIs ==
  /\ \A c \in Keys : /\ app_name(c) \in Names
                     /\ files_component(c) \in Keys /\ ~is_worker(files_component(c))
  /\ \A v, w \in Keys : is_worker(v) /\ is_worker(w) => v = w
  /\ \A w \in Keys : is_worker(w) =>
       group_name(app_name(w)) # group_name(app_name(files_component(w)))
BY MetaAssumption DEF Names

\* What a file with or without workers is read back as.
LEMMA ReadsOwn ==
  ASSUME NEW l \in Layouts, NEW c \in Keys
  PROVE  Reads(read_inventory(l.hosts[files_component(c)], app_name(c)), l.own[c])
<1>0. PICK f : f = files_component(c)
  OBVIOUS
<1> DEFINE workers == {w \in Keys \ {f} : files_component(w) = f}
<1>1. /\ l.own \in [Keys -> Seq(Machines)] /\ l.old \in [Keys -> BOOLEAN]
      /\ l.hosts = hosts_files(l.own, l.old)
  BY LayoutsAssumption
<1>2. f \in Keys /\ ~is_worker(f) /\ files_component(f) = f
      /\ app_name(f) \in Names /\ app_name(c) \in Names
      /\ l.own[f] \in Seq(Machines) /\ l.own[c] \in Seq(Machines)
  BY <1>0, <1>1, MetaIs DEF is_worker
<1>3. \A w \in workers : is_worker(w)
  BY DEF is_worker
<1>4. l.hosts[f] = IF workers = {} THEN write_hosts(l.own, l.old[f], f)
                   ELSE write_groups(l.own, l.old[f], f, CHOOSE w \in workers : TRUE)
  BY <1>1, <1>2 DEF hosts_files
<1>5. CASE workers = {}
  <2>1. c = f
    BY <1>0, <1>5
  <2>2. l.hosts[f] = Section(l.old[f], app_name(f), l.own[f])
    BY <1>4, <1>5 DEF write_hosts
  <2>3. Reads(read_inventory(Section(l.old[f], app_name(f), l.own[f]), app_name(f)),
              IF group_name(app_name(f)) = group_name(app_name(f)) THEN l.own[f] ELSE <<>>)
    BY <1>2, ReadsSection
  <2>4. Reads(read_inventory(l.hosts[f], app_name(f)), l.own[f])
    BY <2>2, <2>3
  <2> QED
    BY <1>0, <2>1, <2>4
<1>6. CASE workers # {}
  <2>1. PICK w \in workers : w = CHOOSE v \in workers : TRUE
    BY <1>6
  <2>2. w \in Keys /\ is_worker(w) /\ files_component(w) = f
    BY <1>3
  <2>3. l.hosts[f] = Section(l.old[f], app_name(f), l.own[f])
                       \o Section(l.old[f], app_name(w), l.own[w])
    BY <1>4, <1>6, <2>1 DEF write_groups
  <2>4. c = f \/ c = w
    <3>1. CASE c # f
      BY <1>0, <2>2, <3>1, MetaIs DEF is_worker
    <3> QED
      BY <3>1
  <2>5. app_name(w) \in Names /\ l.own[w] \in Seq(Machines)
        /\ group_name(app_name(f)) # group_name(app_name(w))
    BY <1>1, <2>2, MetaIs
  <2> HIDE DEF workers
  <2>6. /\ Reads(read_inventory(l.hosts[f], app_name(f)), l.own[f])
        /\ Reads(read_inventory(l.hosts[f], app_name(w)), l.own[w])
    BY <1>2, <2>3, <2>5, ReadsSections
  <2> QED
    BY <1>0, <2>4, <2>6
<1> QED
  BY <1>5, <1>6

\* The hosts of a component: its own, or the core's for a worker without any.
MeantBy(l, c) == IF l.own[c] = <<>> THEN l.own[files_component(c)] ELSE l.own[c]

LEMMA ReadsEmpty ==
  ASSUME NEW e, NEW ips \in Seq(Machines), Reads(e, ips)
  PROVE  e = <<>> <=> ips = <<>>
<1>1. e \in Seq(Found)
  BY DEF Reads
<1>2. /\ Len(e) \in Nat /\ DOMAIN e = 1 .. Len(e) /\ (e = <<>> <=> Len(e) = 0)
      /\ Len(ips) \in Nat /\ DOMAIN ips = 1 .. Len(ips) /\ (ips = <<>> <=> Len(ips) = 0)
  BY <1>1
<1>3. DOMAIN e = {} <=> DOMAIN ips = {}
  BY DEF Reads
<1> QED
  BY <1>2, <1>3

LEMMA InventoryIs ==
  ASSUME NEW l \in Layouts, NEW c \in Keys
  PROVE  Reads(component_inventory(l.hosts, c), MeantBy(l, c))
<1>1. PICK f : f = files_component(c)
  OBVIOUS
<1>2. f \in Keys /\ files_component(f) = f /\ ~is_worker(f)
  BY <1>1, MetaIs DEF is_worker
<1>3. l.own[c] \in Seq(Machines) /\ l.own[f] \in Seq(Machines)
  BY <1>2, LayoutsAssumption
<1>4. /\ Reads(read_inventory(l.hosts[f], app_name(c)), l.own[c])
      /\ Reads(read_inventory(l.hosts[f], app_name(f)), l.own[f])
  <2>1. Reads(read_inventory(l.hosts[files_component(f)], app_name(f)), l.own[f])
    BY <1>2, ReadsOwn
  <2>2. Reads(read_inventory(l.hosts[files_component(c)], app_name(c)), l.own[c])
    BY ReadsOwn
  <2> QED
    BY <1>1, <1>2, <2>1, <2>2
<1>5. read_inventory(l.hosts[f], app_name(c)) = <<>> <=> l.own[c] = <<>>
  BY <1>3, <1>4, ReadsEmpty
<1>6. CASE ~is_worker(c)
  <2>1. f = c
    BY <1>1, <1>6 DEF is_worker
  <2> QED
    BY <1>1, <1>4, <1>6, <2>1 DEF component_inventory, effective_group, MeantBy
<1>7. CASE is_worker(c)
  BY <1>1, <1>4, <1>5, <1>7 DEF component_inventory, effective_group, MeantBy
<1> QED
  BY <1>6, <1>7

\* No host of a component is there twice.
LEMMA MeantOnce ==
  ASSUME NEW l \in Layouts, NEW c \in Keys
  PROVE  /\ MeantBy(l, c) \in Seq(Machines)
         /\ \A i, j \in DOMAIN MeantBy(l, c) : MeantBy(l, c)[i] = MeantBy(l, c)[j] => i = j
<1>1. files_component(c) \in Keys
  BY MetaIs
<1> QED
  BY <1>1, LayoutsAssumption DEF MeantBy

LEMMA FindHostIs ==
  ASSUME NEW e \in Seq(Found), NEW alias
  PROVE  \/ find_host(e, alias) = <<>>
         \/ \E i \in DOMAIN e : find_host(e, alias) = <<e[i]>>
<1> DEFINE same == {i \in DOMAIN e : e[i].alias = alias}
<1>1. CASE same = {}
  BY <1>1 DEF find_host
<1>2. CASE same # {}
  <2>1. Len(e) \in Nat /\ same \subseteq 1 .. Len(e)
    OBVIOUS
  <2>2. PICK h \in same : \A j \in same : h <= j
    <3> HIDE DEF same
    <3> QED
      BY <1>2, <2>1, FirstAndLast
  <2>3. PICK i \in same : i = CHOOSE k \in same : \A j \in same : k <= j
    <3> HIDE DEF same
    <3> QED
      BY <2>2
  <2>4. find_host(e, alias) = <<e[i]>>
    BY <1>2, <2>3 DEF find_host
  <2> QED
    BY <2>4
<1> QED
  BY <1>1, <1>2

\* The targets of a command are machines, none of them twice.
LEMMA TargetsAre ==
  ASSUME NEW l \in Layouts, NEW r, NEW c \in Keys
  PROVE  /\ TargetedBy(l, r, c) \in Seq(Machines)
         /\ \A i, j \in DOMAIN TargetedBy(l, r, c) :
              TargetedBy(l, r, c)[i] = TargetedBy(l, r, c)[j] => i = j
<1>1. PICK e, m : e = component_inventory(l.hosts, c) /\ m = MeantBy(l, c)
  OBVIOUS
<1>2. Reads(e, m) /\ m \in Seq(Machines) /\ (\A i, j \in DOMAIN m : m[i] = m[j] => i = j)
  BY <1>1, InventoryIs, MeantOnce
<1>3. e \in Seq(Found) /\ \A i, j \in DOMAIN e : e[i].ip = e[j].ip => i = j
  BY <1>2 DEF Reads
<1>4. PICK t : t = iter_targeted_hosts(l.hosts, l.units, r.components, r.host, c)
  OBVIOUS
<1>5. t \in Seq(Found) /\ \A i, j \in DOMAIN t : t[i].ip = t[j].ip => i = j
  <2>1. t = e \/ t = find_host(e, r.host) \/ t = <<>>
    BY <1>1, <1>4 DEF iter_targeted_hosts, Narrowed
  <2>2. t = e \/ t = <<>> \/ \E i \in DOMAIN e : t = <<e[i]>>
    BY <1>3, <2>1, FindHostIs
  <2>3. CASE t = <<>>
    BY <2>3
  <2>4. CASE \E i \in DOMAIN e : t = <<e[i]>>
    <3>1. PICK i \in DOMAIN e : t = <<e[i]>>
      BY <2>4
    <3>2. e[i] \in Found
      BY <1>3
    <3>3. t \in Seq(Found) /\ Len(t) = 1
      BY <3>1, <3>2
    <3> QED
      BY <3>3
  <2> QED
    BY <1>3, <2>2, <2>3, <2>4
<1>6. Len(t) \in Nat /\ DOMAIN t = 1 .. Len(t) /\ \A i \in DOMAIN t : t[i].ip \in Machines
  <2>1. \A i \in DOMAIN t : t[i] \in Found
    BY <1>5
  <2> QED
    BY <1>5, <2>1 DEF Found
<1>7. PICK ips : ips = Ips(t)
  OBVIOUS
<1>8. ips = [i \in DOMAIN t |-> t[i].ip]
  BY <1>7 DEF Ips
<1>9. ips \in [1 .. Len(t) -> Machines]
  BY <1>6, <1>8
<1>10. ips \in Seq(Machines) /\ \A i, j \in DOMAIN ips : ips[i] = ips[j] => i = j
  BY <1>5, <1>6, <1>8, <1>9
<1> QED
  BY <1>4, <1>7, <1>10 DEF TargetedBy

Hosts(ips) == {ips[i] : i \in DOMAIN ips}

\* Without -H they are the hosts meant for the component.
LEMMA TargetsAreMeant ==
  ASSUME NEW l \in Layouts, NEW r, NEW c \in Keys, r.host = <<>>,
         c \in managed_units(l.units, r.components)
  PROVE  Hosts(TargetedBy(l, r, c)) = Hosts(MeantBy(l, c))
<1>1. PICK e, m : e = component_inventory(l.hosts, c) /\ m = MeantBy(l, c)
  OBVIOUS
<1>2. Reads(e, m)
  BY <1>1, InventoryIs
<1>3. TargetedBy(l, r, c) = [i \in DOMAIN e |-> e[i].ip]
  BY <1>1 DEF TargetedBy, Ips, iter_targeted_hosts, Narrowed
<1> QED
  BY <1>1, <1>2, <1>3 DEF Reads, Hosts

USE BoundsAssumption, RequestsAssumption

----------------------------------------------------------------------------
(* The inductive invariant *)

Positions0 == {"off", "guard", "resolve", "prompt", "connect", "wait", "end"}
Jobs == {"none", "queued", "running", "ok", "failed"}

Typed ==
  /\ layout \in Layouts
  /\ groups \in [Keys -> Seq(Machines)]
  /\ turn \in [Keys -> Nat \ {0}]
  /\ at \in [Threads -> Positions0]
  /\ job \in [Services -> Jobs]

\* The hosts of a component are different machines.
Distinct ==
  \A c \in Keys : \A i, j \in DOMAIN groups[c] : groups[c][i] = groups[c][j] => i = j

\* The phases before a restart runs, and those of a reset.
Phased ==
  /\ phase # "idle" => outcome = "none"
  /\ phase \in {"confirm", "target", "prewarm"} =>
       cmd \in Requests /\ turn = [c \in Keys |-> 1]
  /\ phase \in {"reset", "tear", "redeploy", "play"} =>
       cmd.op = "reset" /\ "op" \in DOMAIN cmd
  /\ phase = "redeploy" => Torn \notin dir

\* A thread ends when it is past the last host of its component.
AtHost(c) == /\ turn[c] <= Len(groups[c]) + 1
             /\ at[c] = "end" <=> turn[c] = Len(groups[c]) + 1
Placed == phase = "run" => \A c \in Components : AtHost(c)

\* The job a thread waits for is done when its service came up again.
Waited ==
  \A c \in Keys : at[c] = "wait" =>
    /\ phase = "run" /\ c \in Components
    /\ job[Current(c)] = "ok" => Current(c) \in back

IInv == Typed /\ Distinct /\ Phased /\ Placed /\ Waited /\ Rolling /\ OkMeansBack

----------------------------------------------------------------------------
(* The service a thread is at *)

LEMMA CurrentIsService ==
  ASSUME IInv, phase = "run", NEW c \in Components, at[c] # "end"
  PROVE  /\ c \in Keys /\ turn[c] \in 1 .. Len(groups[c])
         /\ Current(c) \in Services
<1>1. c \in Keys
  BY DEF Components
<1>2. turn[c] \in Nat \ {0} /\ groups[c] \in Seq(Machines) /\ Len(groups[c]) \in Nat
  BY <1>1 DEF IInv, Typed
<1>3. turn[c] <= Len(groups[c]) + 1 /\ turn[c] # Len(groups[c]) + 1
  BY DEF IInv, Placed, AtHost
<1>4. turn[c] \in 1 .. Len(groups[c])
  BY <1>2, <1>3
<1>5. groups[c][turn[c]] \in Machines
  BY <1>2, <1>4
<1> QED
  BY <1>1, <1>4, <1>5 DEF Current

----------------------------------------------------------------------------
(* The steps of systemd *)

LEMMA SystemKeeps ==
  ASSUME IInv, UNCHANGED layout, UNCHANGED ctlVars,
         job' \in [Services -> Jobs], back \subseteq back', dir' \subseteq dir,
         \A s \in Services : job'[s] = "ok" => job[s] = "ok" \/ s \in back'
  PROVE  IInv'
<1>1. Typed' /\ Distinct'
  BY DEF IInv, Typed, Distinct, ctlVars
<1>2. Phased'
  BY DEF IInv, Phased, Torn, Unit, ctlVars
<1>3. Components' = Components
  BY DEF Components, ctlVars
<1>4. Placed'
  BY <1>3 DEF IInv, Placed, AtHost, ctlVars
<1>5. Rolling'
  BY <1>3 DEF IInv, Rolling, ctlVars
<1>6. OkMeansBack'
  BY DEF IInv, OkMeansBack, Targets, ctlVars
<1>7. Waited'
  <2> SUFFICES ASSUME NEW c \in Keys, at'[c] = "wait"
               PROVE  /\ phase' = "run" /\ c \in Components'
                      /\ job'[Current(c)'] = "ok" => Current(c)' \in back'
    BY DEF Waited
  <2>1. at[c] = "wait" /\ Current(c)' = Current(c) /\ phase' = phase
    BY DEF Current, ctlVars
  <2>2. phase = "run" /\ c \in Components
    BY <2>1 DEF IInv, Waited
  <2>3. Current(c) \in Services
    BY <2>1, <2>2, CurrentIsService
  <2>4. job[Current(c)] = "ok" => Current(c) \in back
    BY <2>1 DEF IInv, Waited
  <2> QED
    BY <1>3, <2>1, <2>2, <2>3, <2>4
<1> QED
  BY <1>1, <1>2, <1>4, <1>5, <1>6, <1>7 DEF IInv

LEMMA SystemdKeeps ==
  ASSUME IInv, NEW s \in Services,
         \/ systemctl_start(s) \/ start_fails(s) \/ comes_up(s)
         \/ goes_down(s) \/ looks(s) \/ ghost_strikes(s)
  PROVE  IInv'
<1>0. job \in [Services -> Jobs]
  BY DEF IInv, Typed
<1>1. CASE systemctl_start(s)
  <2>1. UNCHANGED layout /\ UNCHANGED ctlVars /\ UNCHANGED <<back, dir>>
    BY <1>1 DEF systemctl_start, Keep
  <2>2. job' = [job EXCEPT ![s] = IF @ = "queued" THEN "running" ELSE @]
    BY <1>1 DEF systemctl_start
  <2> QED
    BY <1>0, <2>1, <2>2, SystemKeeps DEF Jobs
<1>2. CASE start_fails(s)
  <2>1. UNCHANGED layout /\ UNCHANGED ctlVars /\ UNCHANGED <<back, dir>>
    BY <1>2 DEF start_fails, Keep
  <2>2. job' = [job EXCEPT ![s] = "failed"]
    BY <1>2 DEF start_fails
  <2> QED
    BY <1>0, <2>1, <2>2, SystemKeeps DEF Jobs
<1>3. CASE comes_up(s)
  <2>1. UNCHANGED layout /\ UNCHANGED ctlVars /\ UNCHANGED dir
    BY <1>3 DEF comes_up, Keep
  <2>2. /\ job' = [job EXCEPT ![s] = IF @ = "running" THEN "ok" ELSE @]
        /\ back' = IF job[s] = "running" THEN back \union {s} ELSE back
    BY <1>3 DEF comes_up
  <2> QED
    BY <1>0, <2>1, <2>2, SystemKeeps DEF Jobs
<1>4. CASE goes_down(s)
  <2>1. UNCHANGED layout /\ UNCHANGED ctlVars /\ UNCHANGED <<back, dir>>
    BY <1>4 DEF goes_down, Keep
  <2>2. job' = [job EXCEPT ![s] = "failed"] \/ job' = job
    BY <1>4 DEF goes_down
  <2> QED
    BY <1>0, <2>1, <2>2, SystemKeeps DEF Jobs
<1>5. CASE looks(s)
  BY <1>0, <1>5, SystemKeeps DEF looks, Keep, unitVars
<1>6. CASE ghost_strikes(s)
  <2>1. UNCHANGED layout /\ UNCHANGED ctlVars /\ UNCHANGED <<back, job>>
    BY <1>6 DEF ghost_strikes, Keep
  <2>2. dir' \subseteq dir
    BY <1>6 DEF ghost_strikes
  <2> QED
    BY <1>0, <2>1, <2>2, SystemKeeps
<1> QED
  BY <1>1, <1>2, <1>3, <1>4, <1>5, <1>6

----------------------------------------------------------------------------
(* A command that does not run yet, or no longer *)

\* Outside "run" only the phase matters.
LEMMA OutsideRun ==
  ASSUME Typed', Distinct', Phased', phase' # "run",
         \A c \in Keys : at'[c] # "wait",
         cmd'.op = "restart" => outcome' # "ok"
  PROVE  IInv'
<1>1. Placed' /\ Rolling' /\ OkMeansBack' /\ Waited'
  BY DEF Placed, Rolling, OkMeansBack, Waited
<1> QED
  BY <1>1 DEF IInv

LEMMA NobodyWaits ==
  ASSUME IInv, phase # "run"
  PROVE  \A c \in Keys : at[c] # "wait"
BY DEF IInv, Waited

LEMMA BeginTypes ==
  ASSUME IInv, NEW r \in Requests, Begin(r)
  PROVE  /\ Typed' /\ Distinct' /\ turn' = [c \in Keys |-> 1]
         /\ \A c \in Keys : at'[c] # "wait"
<1>1. /\ at' = [t \in Threads |-> "off"] /\ turn' = [c \in Keys |-> 1]
      /\ groups' = [c \in Keys |-> <<>>] /\ UNCHANGED <<layout, job>>
  BY DEF Begin, World
<1>2. <<>> \in Seq(Machines)
  OBVIOUS
<1>3. Typed'
  BY <1>1, <1>2 DEF IInv, Typed, Positions0
<1>4. Distinct'
  BY <1>1 DEF Distinct
<1> QED
  BY <1>1, <1>3, <1>4 DEF Threads

LEMMA BeginKeeps ==
  ASSUME IInv, NEW r \in Requests, restart(r) \/ resolve_target(r)
  PROVE  IInv'
<1>1. Begin(r) /\ cmd' = r
  BY DEF restart, resolve_target, Begin
<1>2. /\ Typed' /\ Distinct' /\ turn' = [c \in Keys |-> 1]
      /\ \A c \in Keys : at'[c] # "wait"
  BY <1>1, BeginTypes
<1>3. r.op \in {"restart", "reset"} /\ "op" \in DOMAIN r
  OBVIOUS
<1>4. CASE restart(r)
  <2>1. /\ r.op = "restart" /\ outcome' # "ok"
        /\ phase' \in {"idle", "confirm", "target"}
        /\ phase' # "idle" => outcome' = "none"
    BY <1>4 DEF restart, End
  <2>2. Phased'
    BY <1>1, <1>2, <2>1 DEF Phased
  <2> QED
    BY <1>2, <2>1, <2>2, OutsideRun
<1>5. CASE resolve_target(r)
  <2>1. /\ r.op = "reset"
        /\ phase' \in {"idle", "reset"}
        /\ phase' # "idle" => outcome' = "none"
    BY <1>5 DEF resolve_target
  <2>2. Phased'
    BY <1>1, <1>3, <2>1 DEF Phased
  <2> QED
    BY <1>1, <1>2, <2>1, <2>2, OutsideRun
<1> QED
  BY <1>4, <1>5

LEMMA ConfirmKeeps ==
  ASSUME IInv, Confirm
  PROVE  IInv'
<1>1. /\ phase = "confirm" /\ UNCHANGED <<layout, groups, turn, at, job, cmd>>
      /\ phase' \in {"target", "idle"} /\ outcome' # "ok"
      /\ phase' = "target" => outcome' = outcome
  BY DEF IInv, Phased, Confirm, World, End
<1>2. Typed' /\ Distinct' /\ Phased'
  BY <1>1 DEF IInv, Typed, Distinct, Phased
<1> QED
  BY <1>1, <1>2, NobodyWaits, OutsideRun

----------------------------------------------------------------------------
(* The threads start *)

LEMMA RunStarts ==
  ASSUME Typed', Distinct', Phased', phase' = "run", turn' = [c \in Keys |-> 1],
         \A c \in Keys : at'[c] \in {"guard", "off"}
  PROVE  IInv'
<1>1. Placed'
  <2> SUFFICES ASSUME NEW c \in Components' PROVE AtHost(c)'
    BY DEF Placed
  <2>1. c \in Keys /\ groups'[c] # <<>>
    BY DEF Components
  <2>2. groups'[c] \in Seq(Machines)
    BY <2>1 DEF Typed
  <2>3. Len(groups'[c]) \in Nat /\ Len(groups'[c]) # 0
    BY <2>1, <2>2, EmptySeq
  <2>4. turn'[c] = 1 /\ at'[c] # "end"
    BY <2>1
  <2> QED
    BY <2>3, <2>4 DEF AtHost
<1>2. Rolling'
  <2>1. \A c \in Components' : turn'[c] - 1 = 0
    BY DEF Components
  <2> QED
    BY <2>1 DEF Rolling
<1>3. OkMeansBack' /\ Waited'
  BY DEF Phased, OkMeansBack, Waited
<1> QED
  BY <1>1, <1>2, <1>3 DEF IInv

LEMMA TargetKeeps ==
  ASSUME IInv, Target
  PROVE  IInv'
<1>1. /\ phase = "target" /\ UNCHANGED <<layout, turn, job, cmd>>
      /\ cmd \in Requests /\ turn = [c \in Keys |-> 1]
  BY DEF IInv, Phased, Target, World
<1>2. CASE NoTarget
  <2>1. phase' = "idle" /\ outcome' = "error" /\ UNCHANGED <<at, groups>>
    BY <1>2 DEF Target, End
  <2>2. Typed' /\ Distinct' /\ Phased'
    BY <1>1, <2>1 DEF IInv, Typed, Distinct, Phased
  <2> QED
    BY <1>1, <2>1, <2>2, NobodyWaits, OutsideRun
<1>3. CASE ~NoTarget
  <2>1. groups' = [c \in Keys |-> TargetedBy(layout, cmd, c)] /\ outcome' = outcome
    BY <1>3 DEF Target, FindGroups, Targeted
  <2>2. layout \in Layouts
    BY DEF IInv, Typed
  <2>3. groups' \in [Keys -> Seq(Machines)] /\ Distinct'
    BY <1>1, <2>1, <2>2, TargetsAre DEF Distinct
  <2>4. outcome' = "none"
    BY <1>1, <2>1 DEF IInv, Phased
  <2>5. CASE cmd.parallel
    <3>1. phase' = "prewarm" /\ at' = [at EXCEPT !["main"] = "guard"]
      BY <1>3, <2>5 DEF Target
    <3>2. at \in [Threads -> Positions0] /\ at' \in [Threads -> Positions0]
      BY <3>1 DEF IInv, Typed, Positions0
    <3>3. Typed' /\ Phased'
      BY <1>1, <2>3, <2>4, <3>1, <3>2 DEF IInv, Typed, Phased
    <3>4. \A c \in Keys : at'[c] # "wait"
      BY <1>1, <3>1, <3>2, NobodyWaits DEF Threads
    <3> QED
      BY <2>3, <2>4, <3>1, <3>3, <3>4, OutsideRun
  <2>6. CASE ~cmd.parallel
    <3>1. /\ phase' = "run"
          /\ at' = [t \in Threads |-> IF t # "main" /\ groups'[t] # <<>> THEN "guard"
                                                                        ELSE "off"]
      BY <1>3, <2>6 DEF Target, Spawn
    <3>2. Typed' /\ Phased'
      BY <1>1, <2>3, <2>4, <3>1 DEF IInv, Typed, Phased, Positions0
    <3>3. \A c \in Keys : at'[c] \in {"guard", "off"}
      BY <3>1 DEF Threads
    <3> QED
      BY <1>1, <2>3, <3>1, <3>2, <3>3, RunStarts
  <2> QED
    BY <2>5, <2>6
<1> QED
  BY <1>2, <1>3

LEMMA PrewarmedKeeps ==
  ASSUME IInv, Prewarmed
  PROVE  IInv'
<1>1. /\ phase = "prewarm" /\ phase' = "run"
      /\ UNCHANGED <<layout, turn, job, cmd, groups, outcome>>
      /\ at' = [t \in Threads |-> IF t # "main" /\ groups'[t] # <<>> THEN "guard" ELSE "off"]
  BY DEF Prewarmed, Spawn, World
<1>2. Typed' /\ Distinct' /\ Phased'
  BY <1>1 DEF IInv, Typed, Distinct, Phased, Positions0
<1>3. turn' = [c \in Keys |-> 1] /\ \A c \in Keys : at'[c] \in {"guard", "off"}
  BY <1>1 DEF IInv, Phased, Threads
<1> QED
  BY <1>1, <1>2, <1>3, RunStarts

----------------------------------------------------------------------------
(* The threads run *)

LEMMA MoveKeeps ==
  ASSUME IInv, NEW t \in Threads, NEW p \in {"guard", "resolve", "prompt", "connect"},
         at[t] \notin {"wait", "end"}, Move(t, p)
  PROVE  IInv'
<1>1. /\ UNCHANGED <<layout, groups, turn, job, cmd, phase, outcome, failures, back, dir>>
      /\ at' = [at EXCEPT ![t] = p]
  BY DEF Move, World
<1>2. Typed' /\ Distinct' /\ Phased' /\ Rolling' /\ OkMeansBack'
  <2>1. Typed'
    BY <1>1 DEF IInv, Typed, Positions0
  <2>2. Distinct' /\ Phased' /\ OkMeansBack'
    BY <1>1 DEF IInv, Distinct, Phased, Torn, Unit, OkMeansBack, Targets
  <2>3. Rolling'
    BY <1>1 DEF IInv, Rolling, Components
  <2> QED
    BY <2>1, <2>2, <2>3
<1>3. /\ at \in [Threads -> Positions0]
      /\ \A c \in Keys : (at'[c] = "wait" <=> at[c] = "wait")
                         /\ (at'[c] = "end" <=> at[c] = "end")
  BY <1>1 DEF IInv, Typed, Threads
<1>4. Components' = Components /\ Components \subseteq Keys
  BY <1>1 DEF Components
<1>5. Placed'
  BY <1>1, <1>3, <1>4 DEF IInv, Placed, AtHost
<1>6. Waited'
  BY <1>1, <1>3, <1>4 DEF IInv, Waited, Current
<1> QED
  BY <1>2, <1>5, <1>6 DEF IInv

LEMMA CancelKeeps ==
  ASSUME IInv, NEW t \in Threads, Cancel(t)
  PROVE  IInv'
<1>1. /\ UNCHANGED <<layout, groups, turn, job, cmd>>
      /\ at' = [x \in Threads |-> "off"]
      /\ phase' = "idle" /\ outcome' = "aborted"
  BY DEF Cancel, World, End
<1>2. Typed' /\ Distinct' /\ Phased'
  BY <1>1 DEF IInv, Typed, Distinct, Phased, Positions0
<1> QED
  BY <1>1, <1>2, OutsideRun DEF Threads

LEMMA UserKeeps ==
  ASSUME IInv, UserNext
  PROVE  IInv'
<1> PICK t \in Threads : \/ ensure_ssh_user(t) \/ _resolved_ssh_user(t)
                         \/ _persist_user(t) \/ Cancel(t)
  BY DEF UserNext
<1>1. CASE ensure_ssh_user(t)
  BY <1>1, MoveKeeps DEF ensure_ssh_user
<1>2. CASE _resolved_ssh_user(t)
  BY <1>2, MoveKeeps DEF _resolved_ssh_user
<1>3. CASE _persist_user(t)
  BY <1>3, MoveKeeps DEF _persist_user
<1> QED
  BY <1>1, <1>2, <1>3, CancelKeeps

LEMMA ReportKeeps ==
  ASSUME IInv, Report
  PROVE  IInv'
<1>1. /\ UNCHANGED <<layout, groups, turn, job, cmd, at, back, dir>>
      /\ phase = "run" /\ phase' = "idle"
      /\ \A c \in Components : at[c] = "end"
      /\ outcome' = IF failures = {} THEN "ok" ELSE "failed"
  BY DEF Report, World, End
<1>2. Typed' /\ Distinct' /\ Phased'
  BY <1>1 DEF IInv, Typed, Distinct, Phased
<1>3. \A c \in Keys : at[c] # "wait"
  BY <1>1 DEF IInv, Waited
<1>4. OkMeansBack'
  <2> SUFFICES ASSUME failures = {}, NEW s \in Targets PROVE s \in back
    BY <1>1 DEF OkMeansBack, Targets
  <2>1. PICK i \in DOMAIN groups[s[1]] : groups[s[1]][i] = s[2]
    BY DEF Targets
  <2>2. s \in Keys \X Machines /\ s[1] \in Keys /\ s = <<s[1], s[2]>>
    BY DEF Targets
  <2>3. groups[s[1]] \in Seq(Machines)
    BY <2>2 DEF IInv, Typed
  <2>4. i \in 1 .. Len(groups[s[1]]) /\ Len(groups[s[1]]) \in Nat
    BY <2>1, <2>3
  <2>5. groups[s[1]] # <<>>
    BY <2>4
  <2>6. s[1] \in Components
    BY <2>2, <2>5 DEF Components
  <2>7. turn[s[1]] = Len(groups[s[1]]) + 1
    BY <1>1, <2>6 DEF IInv, Placed, AtHost
  <2>8. i \in 1 .. turn[s[1]] - 1
    BY <2>4, <2>7
  <2>9. <<s[1], groups[s[1]][i]>> \in back \union failures
    BY <1>1, <2>6, <2>8 DEF IInv, Rolling
  <2> QED
    BY <2>1, <2>2, <2>9
<1> QED
  BY <1>1, <1>2, <1>3, <1>4 DEF IInv, Placed, Rolling, Waited

\* A thread takes down the service it is at: every one it has passed is another.
LEMMA PassedIsAnother ==
  ASSUME IInv, phase = "run", NEW c \in Components, at[c] # "end",
         NEW d \in Components, NEW i \in 1 .. turn[d] - 1
  PROVE  <<d, groups[d][i]>> # Current(c)
<1>1. /\ c \in Keys /\ turn[c] \in 1 .. Len(groups[c])
  BY CurrentIsService
<1>2. CASE d # c
  BY <1>2 DEF Current
<1>3. CASE d = c
  <2>1. turn[c] \in Nat /\ Len(groups[c]) \in Nat /\ groups[c] \in Seq(Machines)
    BY <1>1 DEF IInv, Typed
  <2>2. i \in DOMAIN groups[c] /\ turn[c] \in DOMAIN groups[c] /\ i # turn[c]
    BY <1>1, <1>3, <2>1
  <2>3. groups[c][i] # groups[c][turn[c]]
    BY <1>1, <2>2 DEF IInv, Distinct
  <2> QED
    BY <1>3, <2>3 DEF Current
<1> QED
  BY <1>2, <1>3

LEMMA RestartComponentKeeps ==
  ASSUME IInv, NEW c \in Keys, _restart_component(c)
  PROVE  IInv'
<1>1. /\ UNCHANGED <<layout, groups, turn, cmd, phase, outcome, failures, dir>>
      /\ phase = "run" /\ c \in Components /\ at[c] = "connect"
      /\ at' = [at EXCEPT ![c] = "wait"]
      /\ job' = [job EXCEPT ![Current(c)] = "queued"]
      /\ back' = back \ {Current(c)}
  BY DEF _restart_component, TakeDown, MayStep, Quiet
<1>2. Current(c) \in Services /\ at \in [Threads -> Positions0] /\ c \in Threads
      /\ job \in [Services -> Jobs]
  BY <1>1, CurrentIsService DEF IInv, Typed, Threads
<1>3. Components' = Components /\ Components \subseteq Keys /\ Keys \subseteq Threads
  BY <1>1 DEF Components, Threads
<1>4. Typed' /\ Distinct' /\ Phased'
  <2>1. Typed'
    BY <1>1, <1>2 DEF IInv, Typed, Positions0, Jobs
  <2>2. Distinct' /\ Phased'
    BY <1>1 DEF IInv, Distinct, Phased
  <2> QED
    BY <2>1, <2>2
<1>5. Placed'
  BY <1>1, <1>2, <1>3 DEF IInv, Placed, AtHost
<1>6. Rolling'
  <2> SUFFICES ASSUME NEW d \in Components, NEW i \in 1 .. turn[d] - 1
               PROVE  <<d, groups[d][i]>> \in back' \union failures
    BY <1>1, <1>3 DEF Rolling
  <2>1. <<d, groups[d][i]>> \in back \union failures
    BY <1>1 DEF IInv, Rolling
  <2>2. <<d, groups[d][i]>> # Current(c)
    BY <1>1, PassedIsAnother
  <2> QED
    BY <1>1, <2>1, <2>2
<1>7. Waited'
  <2> SUFFICES ASSUME NEW d \in Keys, at'[d] = "wait"
               PROVE  /\ d \in Components
                      /\ job'[Current(d)] = "ok" => Current(d) \in back'
    BY <1>1, <1>3 DEF Waited, Current
  <2>1. CASE d = c
    BY <1>1, <1>2, <2>1
  <2>2. CASE d # c
    <3>1. at[d] = "wait"
      BY <1>1, <1>2, <1>3, <2>2
    <3>2. d \in Components /\ (job[Current(d)] = "ok" => Current(d) \in back)
      BY <3>1 DEF IInv, Waited
    <3>3. Current(d) \in Services
      BY <1>1, <3>1, <3>2, CurrentIsService
    <3>4. Current(d) # Current(c)
      BY <2>2 DEF Current
    <3> QED
      BY <1>1, <1>2, <3>2, <3>3, <3>4
  <2> QED
    BY <2>1, <2>2
<1>8. OkMeansBack'
  BY <1>1 DEF IInv, Phased, OkMeansBack
<1> QED
  BY <1>4, <1>5, <1>6, <1>7, <1>8 DEF IInv

\* A thread passes to the next host when the last one is back or has failed.
LEMMA AdvanceKeeps ==
  ASSUME IInv, phase = "run", NEW c \in Components, at[c] # "end",
         NEW failed \in BOOLEAN, Advance(c, failed),
         failed \/ Current(c) \in back,
         UNCHANGED <<layout, groups, cmd, phase, outcome, dir, back>>,
         job' = job \/ job' = [job EXCEPT ![Current(c)] = "none"]
  PROVE  IInv'
<1>1. /\ c \in Keys /\ turn[c] \in 1 .. Len(groups[c]) /\ Current(c) \in Services
      /\ Len(groups[c]) \in Nat
  BY CurrentIsService DEF IInv, Typed
<1>2. /\ turn' = [turn EXCEPT ![c] = @ + 1]
      /\ at' = [at EXCEPT ![c] = IF turn[c] = Len(groups[c]) THEN "end" ELSE "guard"]
      /\ failures' = IF failed THEN failures \union {Current(c)} ELSE failures
  BY DEF Advance
<1>3. /\ Components' = Components /\ Components \subseteq Keys /\ Keys \subseteq Threads
      /\ at \in [Threads -> Positions0] /\ turn \in [Keys -> Nat \ {0}]
      /\ job \in [Services -> Jobs]
  BY DEF IInv, Typed, Components, Threads
<1>4. Typed'
  <2>1. at' \in [Threads -> Positions0]
    BY <1>2, <1>3 DEF Positions0
  <2>2. turn' \in [Keys -> Nat \ {0}]
    BY <1>1, <1>2, <1>3
  <2>3. job' \in [Services -> Jobs]
    BY <1>3 DEF Jobs
  <2> QED
    BY <2>1, <2>2, <2>3 DEF IInv, Typed
<1>5. Distinct' /\ Phased'
  BY DEF IInv, Distinct, Phased
<1>6. Placed'
  <2> SUFFICES ASSUME NEW d \in Components PROVE AtHost(d)'
    BY <1>3 DEF Placed
  <2>1. AtHost(d)
    BY DEF IInv, Placed
  <2>2. CASE d = c
    <3>1. turn'[c] = turn[c] + 1
          /\ (at'[c] = "end" <=> turn[c] = Len(groups[c]))
      BY <1>1, <1>2, <1>3
    <3> QED
      BY <1>1, <2>2, <3>1 DEF AtHost
  <2>3. CASE d # c
    BY <1>2, <1>3, <2>1, <2>3 DEF AtHost
  <2> QED
    BY <2>2, <2>3
<1>7. Rolling'
  <2> SUFFICES ASSUME NEW d \in Components, NEW i \in 1 .. turn'[d] - 1
               PROVE  <<d, groups[d][i]>> \in back \union failures'
    BY <1>3 DEF Rolling
  <2>1. CASE d = c /\ i = turn[c]
    BY <1>2, <2>1 DEF Current
  <2>2. CASE ~(d = c /\ i = turn[c])
    <3>1. turn[d] \in Nat /\ turn[c] \in Nat /\ d \in Keys
      BY <1>3
    <3>2. turn'[d] = IF d = c THEN turn[c] + 1 ELSE turn[d]
      BY <1>2, <1>3, <3>1
    <3>3. i \in 1 .. turn[d] - 1
      BY <2>2, <3>1, <3>2
    <3>4. <<d, groups[d][i]>> \in back \union failures
      BY <3>3 DEF IInv, Rolling
    <3> QED
      BY <1>2, <3>4
  <2> QED
    BY <2>1, <2>2
<1>8. Waited'
  <2> SUFFICES ASSUME NEW d \in Keys, at'[d] = "wait"
               PROVE  /\ d \in Components
                      /\ job'[Current(d)'] = "ok" => Current(d)' \in back
    BY <1>3 DEF Waited
  <2>1. d # c /\ at[d] = "wait"
    BY <1>2, <1>3
  <2>2. d \in Components /\ (job[Current(d)] = "ok" => Current(d) \in back)
    BY <2>1 DEF IInv, Waited
  <2>3. Current(d)' = Current(d)
    BY <1>2, <1>3, <2>1 DEF Current
  <2>4. Current(d) \in Services
    BY <2>1, <2>2, CurrentIsService
  <2>5. Current(d) # Current(c)
    BY <2>1 DEF Current
  <2> QED
    BY <1>3, <2>2, <2>3, <2>4, <2>5
<1>9. OkMeansBack'
  BY DEF IInv, Phased, OkMeansBack
<1> QED
  BY <1>4, <1>5, <1>6, <1>7, <1>8, <1>9 DEF IInv

LEMMA SshKeeps ==
  ASSUME IInv, NEW c \in Keys, ssh_fails(c) \/ ssh_returns(c) \/ ssh_drops(c)
  PROVE  IInv'
<1>1. CASE ssh_fails(c)
  <2>1. /\ phase = "run" /\ c \in Components /\ at[c] # "end" /\ Advance(c, TRUE)
        /\ UNCHANGED <<layout, groups, cmd, phase, outcome, dir, back, job>>
    BY <1>1 DEF ssh_fails, MayStep, Quiet
  <2> QED
    BY <2>1, AdvanceKeeps
<1>2. CASE ssh_drops(c)
  <2>1. /\ phase = "run" /\ c \in Components /\ at[c] # "end" /\ Advance(c, TRUE)
        /\ UNCHANGED <<layout, groups, cmd, phase, outcome, dir, back, job>>
    BY <1>2 DEF IInv, Waited, ssh_drops, Quiet
  <2> QED
    BY <2>1, AdvanceKeeps
<1>3. CASE ssh_returns(c)
  <2>1. /\ phase = "run" /\ c \in Components /\ at[c] # "end"
        /\ Advance(c, job[Current(c)] = "failed")
        /\ UNCHANGED <<layout, groups, cmd, phase, outcome, dir, back>>
        /\ job' = [job EXCEPT ![Current(c)] = "none"]
    BY <1>3 DEF IInv, Waited, ssh_returns, Quiet
  <2>2. job[Current(c)] = "failed" \/ Current(c) \in back
    BY <1>3 DEF IInv, Waited, ssh_returns
  <2>3. (job[Current(c)] = "failed") \in BOOLEAN
    OBVIOUS
  <2> QED
    BY <2>1, <2>2, <2>3, AdvanceKeeps
<1> QED
  BY <1>1, <1>2, <1>3

----------------------------------------------------------------------------
(* A reset *)

\* Before it plays, a reset changes nothing a restart depends on.
LEMMA ResetGoesOn ==
  ASSUME IInv, phase \in {"reset", "tear", "redeploy", "play"},
         UNCHANGED <<layout, groups, turn, job>>, at' \in [Threads -> Positions0],
         \A c \in Keys : at'[c] # "wait",
         cmd'.op = "reset", "op" \in DOMAIN cmd',
         phase' \in {"idle", "reset", "tear", "redeploy", "play"},
         phase' # "idle" => outcome' = "none",
         phase' = "redeploy" => Torn' \notin dir'
  PROVE  IInv'
<1>1. Typed' /\ Distinct' /\ Phased'
  BY DEF IInv, Typed, Distinct, Phased
<1> QED
  BY <1>1, OutsideRun

LEMMA ResetKeeps ==
  ASSUME IInv, ResetNext
  PROVE  IInv'
<1>1. at \in [Threads -> Positions0]
  BY DEF IInv, Typed
<1>2. phase \in {"reset", "tear", "redeploy", "play"} =>
        /\ cmd.op = "reset" /\ "op" \in DOMAIN cmd /\ outcome = "none"
        /\ \A c \in Keys : at[c] # "wait"
  BY NobodyWaits DEF IInv, Phased
<1>3. CASE PickHost
  <2>1. /\ phase = "reset" /\ UNCHANGED <<layout, groups, turn, job>>
        /\ phase' \in {"idle", "reset"}
        /\ phase' # "idle" => outcome' = outcome
        /\ cmd' = cmd \/ \E ip \in _select_host : cmd' = [cmd EXCEPT !.ip = ip]
        /\ at' = at \/ at' = [at EXCEPT !["main"] = "guard"]
    BY <1>3 DEF PickHost, World, End
  <2>2. cmd'.op = "reset" /\ "op" \in DOMAIN cmd'
    BY <1>2, <2>1
  <2>3. at' \in [Threads -> Positions0] /\ \A c \in Keys : at'[c] # "wait"
    BY <1>1, <1>2, <2>1 DEF Positions0, Threads
  <2> QED
    BY <1>2, <2>1, <2>2, <2>3, ResetGoesOn
<1>4. CASE teardown
  <2>1. /\ phase = "reset" /\ UNCHANGED <<layout, groups, turn, job, at, cmd>>
        /\ phase' \in {"idle", "tear"}
        /\ phase' # "idle" => outcome' = outcome
    BY <1>4 DEF teardown, End
  <2> QED
    BY <1>1, <1>2, <2>1, ResetGoesOn
<1>5. CASE TornDown
  <2>1. /\ phase = "tear" /\ UNCHANGED <<layout, groups, turn, job, at, cmd>>
        /\ phase' \in {"idle", "redeploy"}
        /\ phase' # "idle" => outcome' = outcome
    BY <1>5 DEF TornDown, End
  <2>2. phase' = "redeploy" => Torn' \notin dir'
    BY <1>5, <2>1 DEF TornDown, End, Torn, Unit
  <2> QED
    BY <1>1, <1>2, <2>1, <2>2, ResetGoesOn
<1>6. CASE Redeploy
  <2>1. /\ phase = "redeploy" /\ UNCHANGED <<layout, groups, turn, job, at, cmd>>
        /\ phase' \in {"idle", "play"}
        /\ phase' # "idle" => outcome' = outcome
    BY <1>6 DEF Redeploy, World, End
  <2> QED
    BY <1>1, <1>2, <2>1, ResetGoesOn
<1>7. CASE play
  <2>1. /\ phase = "play" /\ UNCHANGED <<layout, groups, turn, job, at, cmd>>
        /\ phase' \in {"idle", "play"}
        /\ phase' # "idle" => outcome' = outcome
    BY <1>7 DEF play, End
  <2> QED
    BY <1>1, <1>2, <2>1, ResetGoesOn
<1> QED
  BY <1>3, <1>4, <1>5, <1>6, <1>7 DEF ResetNext

----------------------------------------------------------------------------
(* The invariant is inductive *)

LEMMA InitHolds == Init => IInv
<1> SUFFICES ASSUME Init PROVE IInv
  OBVIOUS
<1>1. <<>> \in Seq(Machines)
  OBVIOUS
<1>2. Typed /\ Distinct /\ Phased
  BY <1>1 DEF Init, Typed, Distinct, Phased, Positions0, Jobs
<1>3. Placed /\ Waited /\ Rolling /\ OkMeansBack
  BY DEF Init, Placed, Waited, Rolling, OkMeansBack, Threads
<1> QED
  BY <1>2, <1>3 DEF IInv

LEMMA StutterKeeps ==
  ASSUME IInv, UNCHANGED vars
  PROVE  IInv'
<1>1. UNCHANGED layout /\ UNCHANGED ctlVars /\ UNCHANGED <<job, back, dir>>
  BY DEF vars, ctlVars
<1>2. job \in [Services -> Jobs]
  BY DEF IInv, Typed
<1> QED
  BY <1>1, <1>2, SystemKeeps

LEMMA NextKeeps ==
  ASSUME IInv, Next
  PROVE  IInv'
<1>1. CASE SystemdNext
  BY <1>1, SystemdKeeps DEF SystemdNext
<1>2. CASE \E r \in Requests : restart(r) \/ resolve_target(r)
  BY <1>2, BeginKeeps
<1>3. CASE RestartNext
  BY <1>3, TargetKeeps, PrewarmedKeeps, ReportKeeps, SshKeeps, RestartComponentKeeps
     DEF RestartNext
<1> QED
  BY <1>1, <1>2, <1>3, ConfirmKeeps, UserKeeps, ResetKeeps DEF Next

\* The invariant holds in every reachable state.
THEOREM Inductive == Spec => []IInv
<1>1. IInv /\ [Next]_vars => IInv'
  BY NextKeeps, StutterKeeps
<1> QED
  BY InitHolds, <1>1, PTL DEF Spec

\* A restart takes a component's next host down only when the one before came back
\* or is counted as failed (_restart_component, cmd/remote.py).
THEOREM RestartRolls == Spec => []Rolling
<1>1. IInv => Rolling
  BY DEF IInv
<1> QED
  BY Inductive, <1>1, PTL

\* A restart that succeeds has brought back every service it was asked for.
THEOREM SuccessIsBack == Spec => []OkMeansBack
<1>1. IInv => OkMeansBack
  BY DEF IInv
<1> QED
  BY Inductive, <1>1, PTL

\* The redeploy of a reset finds no directory of the unit it tore down.
THEOREM StartsClean == Spec => ResetStartsClean
<1>1. IInv /\ [Next]_vars =>
        [phase = "redeploy" /\ phase' = "play" => Torn \notin dir]_vars
  BY DEF IInv, Phased
<1> QED
  BY Inductive, <1>1, PTL DEF Spec, ResetStartsClean

----------------------------------------------------------------------------
(* The ssh user is asked for once, and no host is reached before the answer, *)
(* with any number of threads: either they run one after the other, and the  *)
(* first one asks, or the main thread has asked before any of them starts.   *)

USE OrderAssumption, RequestsAssumption

\* Every component has a place of its own in the list that is sorted.
Listed(r) ==
  /\ r.place \in [Keys -> Nat]
  /\ \A c, d \in Keys : r.place[c] = r.place[d] => c = d

UserTyped ==
  /\ phase \in {"confirm", "target", "prewarm", "run"} => Listed(cmd)
  /\ checked \in BOOLEAN /\ user \in BOOLEAN /\ stranger \in BOOLEAN
  /\ {"op", "tty", "parallel", "ip"} \subseteq DOMAIN cmd

\* The one thread that may ask.
Asker == IF phase = "run" THEN First ELSE "main"
OneAsks ==
  \A t \in Threads : at[t] \in {"resolve", "prompt"} =>
    /\ t = Asker /\ phase \in {"prewarm", "reset", "run"}
    /\ phase = "run" => /\ ~cmd.parallel /\ t \in Components /\ turn[t] = 1

\* What has passed the guard has found it checked, or checked it.
Guarded ==
  /\ \A t \in Threads : at[t] \in {"prompt", "connect", "wait", "end"} => checked
  /\ \A t \in Threads : at[t] = "resolve" => ~checked /\ ~user
  /\ phase = "run" => /\ cmd.parallel => checked
                      /\ \A c \in Components : turn[c] > 1 => checked

Fresh ==
  /\ phase \in {"confirm", "target"} => ~checked /\ ~stranger
  /\ phase = "reset" /\ at["main"] = "off" => ~checked /\ ~stranger
  /\ phase = "reset" => cmd.op = "reset"
  /\ phase \in {"confirm", "target", "prewarm", "run"} => cmd.op = "restart"

Answered == user \/ ~cmd.tty \/ MainHost \in UserIn
Settled ==
  /\ prompts \in {0, 1}
  /\ ~checked => prompts = 0
  /\ phase \in {"prewarm", "run", "reset"} /\ checked
       /\ (\A t \in Threads : at[t] # "prompt") => Answered
  /\ cmd.tty /\ stranger => MainHost \in UserIn

UInv == UserTyped /\ OneAsks /\ Guarded /\ Fresh /\ Settled

----------------------------------------------------------------------------
(* The first component *)

\* Numbers have a least one.
LEMMA LeastIs ==
  ASSUME NEW S \in SUBSET Nat, S # {}
  PROVE  \E n \in S : \A m \in S : n <= m
<1>1. PICK n \in S : \A m \in S : <<m, n>> \notin OpToRel(<, Nat)
  BY WFMin, NatLessThanWellFounded
<1>2. \A m \in S : ~(m < n)
  BY <1>1 DEF OpToRel
<1> QED
  BY <1>2

\* A component of the least deploy_order, and of these the one that was listed first.
LEMMA FirstIs ==
  ASSUME Components # {}, Listed(cmd)
  PROVE  /\ First \in Components
         /\ \A d \in Components \ {First} : Before(First, d)
<1>1. Components \subseteq Keys
  BY DEF Components
<1>2. PICK n \in {Meta[c].order : c \in Components} :
        \A m \in {Meta[c].order : c \in Components} : n <= m
  <2>1. {Meta[c].order : c \in Components} \in SUBSET Nat /\ {Meta[c].order : c \in Components} # {}
    BY <1>1
  <2> QED
    BY <2>1, LeastIs
<1> DEFINE Ties == {c \in Components : Meta[c].order = n}
<1>3. PICK p \in {cmd.place[c] : c \in Ties} : \A q \in {cmd.place[c] : c \in Ties} : p <= q
  <2>1. {cmd.place[c] : c \in Ties} \in SUBSET Nat /\ {cmd.place[c] : c \in Ties} # {}
    BY <1>1, <1>2 DEF Listed
  <2> QED
    BY <2>1, LeastIs
<1>4. PICK c \in Ties : cmd.place[c] = p
  BY <1>3
<1>5. ASSUME NEW d \in Components \ {c} PROVE Before(c, d)
  <2>1. Meta[c].order = n /\ n \in Nat /\ Meta[d].order \in Nat /\ n <= Meta[d].order
    BY <1>1, <1>2, <1>4
  <2>2. CASE Meta[d].order = n
    <3>1. cmd.place[c] <= cmd.place[d] /\ cmd.place[c] # cmd.place[d]
      BY <1>1, <1>3, <1>4, <2>2 DEF Listed
    <3>2. cmd.place[c] \in Nat /\ cmd.place[d] \in Nat
      BY <1>1 DEF Listed
    <3> QED
      BY <2>1, <2>2, <3>1, <3>2 DEF Before
  <2> QED
    BY <2>1, <2>2 DEF Before
<1> QED
  BY <1>4, <1>5 DEF First

\* A thread other than the first one steps once the first has ended, or in parallel.
LEMMA FirstGoesFirst ==
  ASSUME UserTyped, NEW c \in Keys, MayStep(c), ~cmd.parallel, c # First
  PROVE  First \in Components /\ at[First] = "end"
<1>1. c \in Components /\ Listed(cmd)
  BY DEF MayStep, UserTyped
<1>2. First \in Components /\ Before(First, c)
  BY <1>1, FirstIs
<1> QED
  BY <1>2 DEF MayStep

LEMMA SameHost ==
  ASSUME UNCHANGED <<cmd, groups>>
  PROVE  MainHost' = MainHost /\ Components' = Components /\ First' = First
<1>1. Components' = Components
  BY DEF Components
<1>2. First' = First
  BY <1>1 DEF First, Before
<1> QED
  BY <1>1, <1>2 DEF MainHost

----------------------------------------------------------------------------
(* Steps that do not touch the user *)

LEMMA NothingMoves ==
  ASSUME UInv, UNCHANGED <<cmd, phase, at, turn, groups, UserIn>>, UNCHANGED sshVars
  PROVE  UInv'
<1>1. MainHost' = MainHost /\ Components' = Components /\ First' = First
  BY SameHost
<1> QED
  BY <1>1 DEF UInv, UserTyped, OneAsks, Asker, Guarded, Fresh, Settled, Answered, sshVars

LEMMA SystemdLeavesUser ==
  ASSUME UInv, SystemdNext
  PROVE  UInv'
<1>1. PICK s \in Services : \/ systemctl_start(s) \/ start_fails(s) \/ comes_up(s)
                            \/ goes_down(s) \/ looks(s) \/ ghost_strikes(s)
  BY DEF SystemdNext
<1>2. UNCHANGED <<cmd, phase, at, turn, groups, UserIn>> /\ UNCHANGED sshVars
  BY <1>1 DEF systemctl_start, start_fails, comes_up, goes_down, looks, ghost_strikes,
     Keep, ctlVars
<1> QED
  BY <1>2, NothingMoves

\* The command is over, or goes on without a thread that asks or connects.
LEMMA Quits ==
  ASSUME UInv, UNCHANGED <<cmd, groups, UserIn>>, UNCHANGED sshVars,
         phase' \in {"idle", "tear", "redeploy", "play"},
         \A t \in Threads : at'[t] \notin {"resolve", "prompt"},
         \A t \in Threads : at'[t] \in {"connect", "wait", "end"} => checked
  PROVE  UInv'
<1>1. MainHost' = MainHost
  BY SameHost
<1> QED
  BY <1>1 DEF UInv, UserTyped, OneAsks, Guarded, Fresh, Settled, sshVars

\* Nobody asks, outside the phases that do.
LEMMA NobodyAsks ==
  ASSUME UInv, phase \notin {"prewarm", "reset", "run"}
  PROVE  \A t \in Threads : at[t] \notin {"resolve", "prompt"}
BY DEF UInv, OneAsks

LEMMA BeginAfresh ==
  ASSUME UInv, NEW r \in Requests, restart(r) \/ resolve_target(r)
  PROVE  UInv'
<1>1. /\ cmd' = r /\ at' = [t \in Threads |-> "off"]
      /\ turn' = [c \in Keys |-> 1] /\ groups' = [c \in Keys |-> <<>>]
      /\ prompts' = 0 /\ stranger' = FALSE /\ checked' = FALSE
      /\ UNCHANGED <<user, UserIn>>
  BY DEF restart, resolve_target, Begin, World
<1>2. {"op", "tty", "parallel", "ip"} \subseteq DOMAIN r /\ Listed(r)
  BY DEF Listed
<1>3. UserTyped' /\ OneAsks' /\ Settled'
  BY <1>1, <1>2 DEF UInv, UserTyped, OneAsks, Settled
<1>4. CASE restart(r)
  <2>1. phase' \in {"idle", "confirm", "target"} /\ r.op = "restart"
    BY <1>4 DEF restart, End
  <2>2. Guarded' /\ Fresh'
    BY <1>1, <2>1 DEF Guarded, Fresh
  <2> QED
    BY <1>3, <2>2 DEF UInv
<1>5. CASE resolve_target(r)
  <2>1. phase' \in {"idle", "reset"} /\ r.op = "reset"
    BY <1>5 DEF resolve_target
  <2>2. Guarded' /\ Fresh'
    BY <1>1, <2>1 DEF Guarded, Fresh
  <2> QED
    BY <1>3, <2>2 DEF UInv
<1> QED
  BY <1>4, <1>5

LEMMA ConfirmLeavesUser ==
  ASSUME UInv, Confirm
  PROVE  UInv'
<1>1. /\ phase = "confirm" /\ phase' \in {"target", "idle"}
      /\ UNCHANGED <<cmd, at, turn, groups, UserIn>> /\ UNCHANGED sshVars
  BY DEF Confirm, End, World
<1>2. MainHost' = MainHost
  BY <1>1, SameHost
<1>3. \A t \in Threads : at[t] \notin {"resolve", "prompt"}
  BY <1>1, NobodyAsks
<1> QED
  BY <1>1, <1>2, <1>3 DEF UInv, UserTyped, OneAsks, Guarded, Fresh, Settled, sshVars

----------------------------------------------------------------------------
(* The threads start *)

LEMMA TargetLeavesUser ==
  ASSUME IInv, UInv, Target
  PROVE  UInv'
<1>1. /\ phase = "target" /\ UNCHANGED <<cmd, turn, UserIn>>
      /\ UNCHANGED <<checked, user, prompts, stranger>>
  BY DEF Target, World, sshVars
<1>2. /\ ~checked /\ ~stranger /\ prompts = 0 /\ cmd.op = "restart"
      /\ \A t \in Threads : at[t] \notin {"resolve", "prompt", "connect", "wait", "end"}
  BY <1>1, NobodyAsks DEF UInv, Fresh, Settled, Guarded
<1>3. turn = [c \in Keys |-> 1] /\ at \in [Threads -> Positions0]
  BY <1>1 DEF IInv, Phased, Typed
<1>4. UserTyped' /\ Settled'
  BY <1>1, <1>2 DEF UInv, UserTyped, Settled
<1>5. CASE NoTarget
  <2>1. phase' = "idle" /\ UNCHANGED <<at, groups>>
    BY <1>5 DEF Target, End
  <2>2. UNCHANGED sshVars
    BY <1>1 DEF sshVars
  <2> QED
    BY <1>1, <1>2, <2>1, <2>2, Quits
<1>6. CASE ~NoTarget /\ cmd.parallel
  <2>1. phase' = "prewarm" /\ at' = [at EXCEPT !["main"] = "guard"]
    BY <1>6 DEF Target
  <2>2. \A t \in Threads : at'[t] \notin {"resolve", "prompt", "connect", "wait", "end"}
    BY <1>2, <1>3, <2>1
  <2>3. OneAsks' /\ Guarded' /\ Fresh'
    BY <1>1, <1>2, <2>1, <2>2 DEF OneAsks, Guarded, Fresh
  <2> QED
    BY <1>4, <2>3 DEF UInv
<1>7. CASE ~NoTarget /\ ~cmd.parallel
  <2>1. /\ phase' = "run"
        /\ at' = [t \in Threads |-> IF t # "main" /\ groups'[t] # <<>> THEN "guard"
                                                                      ELSE "off"]
    BY <1>7 DEF Target, Spawn
  <2>2. \A t \in Threads : at'[t] \notin {"resolve", "prompt", "connect", "wait", "end"}
    BY <2>1
  <2>3. \A c \in Components' : turn'[c] = 1
    BY <1>1, <1>3 DEF Components
  <2>4. OneAsks' /\ Fresh'
    BY <1>1, <1>2, <2>1, <2>2 DEF OneAsks, Fresh
  <2>5. Guarded'
    BY <1>1, <1>7, <2>1, <2>2, <2>3 DEF Guarded
  <2> QED
    BY <1>4, <2>4, <2>5 DEF UInv
<1> QED
  BY <1>5, <1>6, <1>7

LEMMA PrewarmedIsSettled ==
  ASSUME UInv, Prewarmed
  PROVE  UInv'
<1>1. /\ phase = "prewarm" /\ phase' = "run" /\ at["main"] = "connect"
      /\ UNCHANGED <<cmd, turn, groups, UserIn>> /\ UNCHANGED sshVars
      /\ at' = [t \in Threads |-> IF t # "main" /\ groups'[t] # <<>> THEN "guard" ELSE "off"]
  BY DEF Prewarmed, Spawn, World
<1>2. "main" \in Threads
  BY DEF Threads
<1>3. checked /\ MainHost' = MainHost
  BY <1>1, <1>2, SameHost DEF UInv, Guarded
<1>4. \A t \in Threads : at[t] # "prompt"
  BY <1>1 DEF UInv, OneAsks, Asker
<1>5. Answered /\ \A t \in Threads : at'[t] \in {"guard", "off"}
  BY <1>1, <1>3, <1>4 DEF UInv, Settled
<1>6. UserTyped' /\ OneAsks' /\ Fresh'
  BY <1>1, <1>5 DEF UInv, UserTyped, OneAsks, Fresh, sshVars
<1>7. Guarded'
  BY <1>1, <1>3, <1>5 DEF Guarded, sshVars
<1>8. Settled'
  BY <1>1, <1>3, <1>5 DEF UInv, Settled, Answered, sshVars
<1> QED
  BY <1>6, <1>7, <1>8 DEF UInv

----------------------------------------------------------------------------
(* The guard *)

\* A thread that finds nothing checked is the one that may ask.
LEMMA OnlyAskerGuards ==
  ASSUME IInv, UInv, NEW t \in Threads, at[t] = "guard", Steps(t), ~checked
  PROVE  /\ t = Asker /\ phase \in {"prewarm", "reset", "run"}
         /\ phase = "run" => ~cmd.parallel /\ t \in Components /\ turn[t] = 1
<1>1. CASE t = "main"
  BY <1>1 DEF Steps, Asker
<1>2. CASE t # "main"
  <2>1. t \in Keys /\ MayStep(t) /\ phase = "run" /\ t \in Components
    BY <1>2 DEF Threads, Steps, MayStep
  <2>2. ~cmd.parallel
    BY <2>1 DEF UInv, Guarded
  <2>3. t = First
    <3> SUFFICES ASSUME t # First PROVE FALSE
      OBVIOUS
    <3>1. First \in Components /\ at[First] = "end"
      BY <2>1, <2>2, FirstGoesFirst DEF UInv
    <3>2. First \in Threads
      BY <3>1 DEF Components, Threads
    <3> QED
      BY <3>1, <3>2 DEF UInv, Guarded
  <2>4. turn[t] \in Nat \ {0}
    BY <2>1 DEF IInv, Typed
  <2>5. turn[t] = 1
    BY <2>1, <2>4 DEF UInv, Guarded
  <2> QED
    BY <2>1, <2>2, <2>3, <2>5 DEF Asker
<1> QED
  BY <1>1, <1>2

LEMMA MoveIs ==
  ASSUME IInv, NEW t \in Threads, NEW p \in Positions0, Move(t, p)
  PROVE  /\ UNCHANGED <<cmd, phase, turn, groups, UserIn>>
         /\ MainHost' = MainHost /\ Components' = Components /\ First' = First
         /\ at'[t] = p /\ \A x \in Threads \ {t} : at'[x] = at[x]
<1>1. at \in [Threads -> Positions0]
  BY DEF IInv, Typed
<1>2. UNCHANGED <<cmd, phase, turn, groups, UserIn>> /\ at' = [at EXCEPT ![t] = p]
  BY DEF Move, World
<1> QED
  BY <1>1, <1>2, SameHost

LEMMA EnsureSettles ==
  ASSUME IInv, UInv, NEW t \in Threads, ensure_ssh_user(t)
  PROVE  UInv'
<1>1. /\ at[t] = "guard" /\ Steps(t) /\ checked' = (checked \/ user)
      /\ UNCHANGED <<user, prompts, stranger>>
  BY DEF ensure_ssh_user
<1>2. CASE checked \/ user
  <2>1. Move(t, "connect")
    BY <1>2 DEF ensure_ssh_user
  <2>2. /\ UNCHANGED <<cmd, phase, turn, groups, UserIn>>
        /\ MainHost' = MainHost /\ Components' = Components /\ First' = First
        /\ at'[t] = "connect" /\ \A x \in Threads \ {t} : at'[x] = at[x]
    BY <2>1, MoveIs DEF Positions0
  <2>3. checked' = TRUE
    BY <1>1, <1>2
  <2>4. UserTyped'
    BY <1>1, <2>2, <2>3 DEF UInv, UserTyped
  <2>5. OneAsks'
    BY <2>2 DEF UInv, OneAsks, Asker
  <2>6. \A x \in Threads : at'[x] # "resolve"
    BY <1>1, <1>2, <2>2 DEF UInv, Guarded
  <2>7. Guarded'
    BY <2>3, <2>6 DEF Guarded
  <2>8. Fresh'
    <3>1. phase \notin {"confirm", "target"}
      BY <1>1 DEF Steps, MayStep
    <3>2. at["main"] # "off" => at'["main"] # "off"
      BY <2>2 DEF Threads
    <3>3. phase = "reset" => at["main"] # "off"
      BY <1>1 DEF Steps, MayStep
    <3> QED
      BY <2>2, <3>1, <3>2, <3>3 DEF UInv, Fresh
  <2>9. Settled'
    <3>1. (\A x \in Threads : at'[x] # "prompt") => \A x \in Threads : at[x] # "prompt"
      BY <1>1, <2>2
    <3>2. Answered' <=> Answered
      BY <1>1, <2>2 DEF Answered
    <3>3. user => Answered
      BY DEF Answered
    <3> QED
      BY <1>1, <1>2, <2>2, <2>3, <3>1, <3>2, <3>3 DEF UInv, Settled
  <2> QED
    BY <2>4, <2>5, <2>7, <2>8, <2>9 DEF UInv
<1>3. CASE ~(checked \/ user)
  <2>1. Move(t, "resolve")
    BY <1>3 DEF ensure_ssh_user
  <2>2. /\ UNCHANGED <<cmd, phase, turn, groups, UserIn>>
        /\ MainHost' = MainHost /\ Components' = Components /\ First' = First
        /\ at'[t] = "resolve" /\ \A x \in Threads \ {t} : at'[x] = at[x]
    BY <2>1, MoveIs DEF Positions0
  <2>3. checked' = FALSE /\ ~checked /\ ~user
    BY <1>1, <1>3
  <2>4. /\ t = Asker /\ phase \in {"prewarm", "reset", "run"}
        /\ phase = "run" => ~cmd.parallel /\ t \in Components /\ turn[t] = 1
    BY <1>1, <2>3, OnlyAskerGuards
  <2>5. UserTyped'
    BY <1>1, <2>2, <2>3 DEF UInv, UserTyped
  <2>6. OneAsks'
    BY <2>2, <2>4 DEF UInv, OneAsks, Asker
  <2>7. Guarded'
    BY <1>1, <2>2, <2>3 DEF UInv, Guarded
  <2>8. Fresh'
    <3>1. at["main"] # "off" => at'["main"] # "off"
      BY <2>2 DEF Threads
    <3>2. phase = "reset" => at["main"] # "off"
      BY <1>1 DEF Steps, MayStep
    <3> QED
      BY <2>2, <2>4, <3>1, <3>2 DEF UInv, Fresh
  <2>9. Settled'
    BY <1>1, <2>2, <2>3 DEF UInv, Settled
  <2> QED
    BY <2>5, <2>6, <2>7, <2>8, <2>9 DEF UInv
<1> QED
  BY <1>2, <1>3

\* Nobody else is being asked while one is.
LEMMA AsksAlone ==
  ASSUME UInv, NEW t \in Threads, at[t] \in {"resolve", "prompt"}
  PROVE  /\ t = Asker /\ phase \in {"prewarm", "reset", "run"}
         /\ \A x \in Threads \ {t} : at[x] \notin {"resolve", "prompt"}
BY DEF UInv, OneAsks

LEMMA AskerHost ==
  ASSUME UInv, NEW t \in Threads, at[t] \in {"resolve", "prompt"}
  PROVE  HostOf(t) = MainHost
<1>1. CASE t = "main"
  BY <1>1 DEF HostOf
<1>2. CASE t # "main"
  <2>1. phase = "run" /\ t = First /\ turn[t] = 1
    BY <1>2, AsksAlone DEF UInv, OneAsks, Asker
  <2>2. cmd.op = "restart"
    BY <2>1 DEF UInv, Fresh
  <2> QED
    BY <1>2, <2>1, <2>2 DEF HostOf, MainHost, Current
<1> QED
  BY <1>1, <1>2

LEMMA ResolvedSettles ==
  ASSUME IInv, UInv, NEW t \in Threads, _resolved_ssh_user(t)
  PROVE  UInv'
<1>1. /\ at[t] = "resolve" /\ checked' = TRUE /\ UNCHANGED <<user, stranger>>
  BY DEF _resolved_ssh_user
<1>2. PICK p \in {"connect", "prompt"} :
        /\ Move(t, p)
        /\ p = "connect" => HostOf(t) \in UserIn \/ ~cmd.tty
        /\ prompts' = IF p = "connect" THEN prompts ELSE prompts + 1
  BY DEF _resolved_ssh_user
<1>3. /\ UNCHANGED <<cmd, phase, turn, groups, UserIn>>
      /\ MainHost' = MainHost /\ Components' = Components /\ First' = First
      /\ at'[t] = p /\ \A x \in Threads \ {t} : at'[x] = at[x]
  BY <1>2, MoveIs DEF Positions0
<1>4. /\ t = Asker /\ phase \in {"prewarm", "reset", "run"}
      /\ \A x \in Threads \ {t} : at[x] \notin {"resolve", "prompt"}
  BY <1>1, AsksAlone
<1>5. ~checked /\ ~user /\ prompts = 0
  BY <1>1 DEF UInv, Guarded, Settled
<1>6. UserTyped'
  BY <1>1, <1>3 DEF UInv, UserTyped
<1>7. OneAsks'
  BY <1>1, <1>3, <1>4 DEF UInv, OneAsks, Asker
<1>8. Guarded'
  BY <1>1, <1>3, <1>4 DEF Guarded
<1>9. Fresh'
  <2>1. phase = "reset" => at'["main"] # "off"
    BY <1>3, <1>4 DEF Asker
  <2> QED
    BY <1>3, <1>4, <2>1 DEF UInv, Fresh
<1>10. Settled'
  <2>1. HostOf(t) = MainHost
    BY <1>1, AskerHost
  <2>2. p = "connect" => Answered'
    BY <1>2, <1>3, <2>1 DEF Answered
  <2>3. p = "prompt" => ~ \A x \in Threads : at'[x] # "prompt"
    BY <1>3
  <2> QED
    BY <1>1, <1>2, <1>3, <1>5, <2>2, <2>3 DEF UInv, Settled
<1> QED
  BY <1>6, <1>7, <1>8, <1>9, <1>10 DEF UInv

LEMMA PersistSettles ==
  ASSUME IInv, UInv, NEW t \in Threads, _persist_user(t)
  PROVE  UInv'
<1>1. /\ at[t] = "prompt" /\ user' = TRUE /\ UNCHANGED <<checked, prompts, stranger>>
      /\ Move(t, "connect")
  BY DEF _persist_user
<1>2. /\ UNCHANGED <<cmd, phase, turn, groups, UserIn>>
      /\ MainHost' = MainHost /\ Components' = Components /\ First' = First
      /\ at'[t] = "connect" /\ \A x \in Threads \ {t} : at'[x] = at[x]
  BY <1>1, MoveIs DEF Positions0
<1>3. /\ t = Asker /\ phase \in {"prewarm", "reset", "run"}
      /\ \A x \in Threads \ {t} : at[x] \notin {"resolve", "prompt"}
  BY <1>1, AsksAlone
<1>4. checked
  BY <1>1 DEF UInv, Guarded
<1>5. UserTyped' /\ OneAsks'
  BY <1>1, <1>2, <1>3 DEF UInv, UserTyped, OneAsks
<1>6. Guarded'
  BY <1>1, <1>2, <1>3, <1>4 DEF Guarded
<1>7. Fresh'
  <2>1. phase = "reset" => at'["main"] # "off"
    BY <1>2, <1>3 DEF Asker
  <2> QED
    BY <1>2, <1>3, <2>1 DEF UInv, Fresh
<1>8. Settled'
  BY <1>1, <1>2 DEF UInv, Settled, Answered
<1> QED
  BY <1>5, <1>6, <1>7, <1>8 DEF UInv

LEMMA CancelSettles ==
  ASSUME UInv, NEW t \in Threads, Cancel(t)
  PROVE  UInv'
<1>1. /\ phase' = "idle" /\ at' = [x \in Threads |-> "off"]
      /\ UNCHANGED <<cmd, groups, UserIn>> /\ UNCHANGED sshVars
  BY DEF Cancel, End, World
<1> QED
  BY <1>1, Quits

LEMMA UserSettles ==
  ASSUME IInv, UInv, UserNext
  PROVE  UInv'
BY EnsureSettles, ResolvedSettles, PersistSettles, CancelSettles DEF UserNext

----------------------------------------------------------------------------
(* The connections *)

\* Whoever connects does so after the answer.
LEMMA ConnectsAnswered ==
  ASSUME IInv, UInv, NEW c \in Keys, MayStep(c), at[c] = "connect"
  PROVE  checked /\ Answered
<1>1. phase = "run" /\ c \in Components /\ c \in Threads /\ checked
  BY DEF MayStep, Threads, UInv, Guarded
<1>2. \A t \in Threads : at[t] # "prompt"
  <2> SUFFICES ASSUME NEW t \in Threads, at[t] = "prompt" PROVE FALSE
    OBVIOUS
  <2>1. t = First /\ ~cmd.parallel
    BY <1>1 DEF UInv, OneAsks, Asker
  <2>2. c # First
    BY <2>1
  <2>3. at[First] = "end"
    BY <2>1, <2>2, FirstGoesFirst DEF UInv
  <2> QED
    BY <2>1, <2>3
<1> QED
  BY <1>1, <1>2 DEF UInv, Settled

\* A thread moves on behind the guard.
LEMMA BehindGuard ==
  ASSUME IInv, UInv, phase = "run", NEW c \in Components, at[c] \in {"connect", "wait"},
         UNCHANGED <<cmd, phase, groups, UserIn, checked, user, prompts>>,
         NEW p \in {"wait", "end", "guard"}, at' = [at EXCEPT ![c] = p],
         turn' = turn \/ \E n : turn' = [turn EXCEPT ![c] = n],
         stranger' \in BOOLEAN,
         cmd.tty /\ stranger' => MainHost \in UserIn
  PROVE  UInv'
<1>1. /\ c \in Threads /\ at \in [Threads -> Positions0]
      /\ turn \in [Keys -> Nat \ {0}] /\ Components \subseteq Keys
  BY DEF Components, Threads, IInv, Typed
<1>2. checked /\ MainHost' = MainHost /\ Components' = Components /\ First' = First
  BY <1>1, SameHost DEF UInv, Guarded
<1>3. /\ at'[c] = p /\ \A x \in Threads \ {c} : at'[x] = at[x]
      /\ \A d \in Components \ {c} : turn'[d] = turn[d]
  BY <1>1
<1>4. UserTyped' /\ Fresh'
  BY DEF UInv, UserTyped, Fresh
<1>5. OneAsks'
  BY <1>2, <1>3 DEF UInv, OneAsks, Asker
<1>6. Guarded'
  BY <1>2, <1>3 DEF UInv, Guarded
<1>7. Settled'
  BY <1>2, <1>3 DEF UInv, Settled, Answered
<1> QED
  BY <1>4, <1>5, <1>6, <1>7 DEF UInv

LEMMA ReachesAnswered ==
  ASSUME UInv, Answered, NEW ip, Reaches(ip)
  PROVE  /\ UNCHANGED <<checked, user, prompts>> /\ stranger' \in BOOLEAN
         /\ cmd.tty /\ stranger' => MainHost \in UserIn
BY DEF UInv, UserTyped, Settled, Answered, Reaches

LEMMA RestartLeavesUser ==
  ASSUME IInv, UInv, NEW c \in Keys,
         \/ ssh_fails(c) \/ _restart_component(c) \/ ssh_returns(c) \/ ssh_drops(c)
  PROVE  UInv'
<1>1. CASE ssh_fails(c) \/ _restart_component(c)
  <2>1. /\ phase = "run" /\ c \in Components /\ at[c] = "connect" /\ MayStep(c)
        /\ UNCHANGED <<cmd, phase, groups, UserIn>>
        /\ Reaches(Current(c)[2])
    BY <1>1 DEF ssh_fails, _restart_component, TakeDown, MayStep, Quiet
  <2>2. /\ \E p \in {"wait", "end", "guard"} : at' = [at EXCEPT ![c] = p]
        /\ turn' = turn \/ \E n : turn' = [turn EXCEPT ![c] = n]
    BY <1>1 DEF ssh_fails, _restart_component, Advance
  <2>3. Answered
    BY <2>1, ConnectsAnswered
  <2>4. /\ UNCHANGED <<checked, user, prompts>> /\ stranger' \in BOOLEAN
        /\ cmd.tty /\ stranger' => MainHost \in UserIn
    BY <2>1, <2>3, ReachesAnswered
  <2> QED
    BY <2>1, <2>2, <2>4, BehindGuard
<1>2. CASE ssh_returns(c) \/ ssh_drops(c)
  <2>1. /\ at[c] = "wait" /\ UNCHANGED sshVars
        /\ UNCHANGED <<cmd, phase, groups, UserIn>>
    BY <1>2 DEF ssh_returns, ssh_drops, Quiet
  <2>2. phase = "run" /\ c \in Components
    BY <2>1 DEF IInv, Waited
  <2>3. /\ \E p \in {"wait", "end", "guard"} : at' = [at EXCEPT ![c] = p]
        /\ turn' = turn \/ \E n : turn' = [turn EXCEPT ![c] = n]
    BY <1>2 DEF ssh_returns, ssh_drops, Advance
  <2>4. /\ UNCHANGED <<checked, user, prompts>> /\ stranger' \in BOOLEAN
        /\ cmd.tty /\ stranger' => MainHost \in UserIn
    BY <2>1 DEF UInv, UserTyped, Settled, sshVars
  <2> QED
    BY <2>1, <2>2, <2>3, <2>4, BehindGuard
<1> QED
  BY <1>1, <1>2

LEMMA ReportLeavesUser ==
  ASSUME UInv, Report
  PROVE  UInv'
<1>1. /\ phase = "run" /\ phase' = "idle" /\ UNCHANGED <<cmd, at, groups, UserIn>>
      /\ UNCHANGED sshVars /\ \A c \in Components : at[c] = "end"
  BY DEF Report, End, World
<1>2. \A t \in Threads : at[t] \notin {"resolve", "prompt"}
  BY <1>1 DEF UInv, OneAsks
<1>3. \A t \in Threads : at[t] \in {"connect", "wait", "end"} => checked
  BY DEF UInv, Guarded
<1> QED
  BY <1>1, <1>2, <1>3, Quits

----------------------------------------------------------------------------
(* A reset *)

LEMMA PickHostLeavesUser ==
  ASSUME IInv, UInv, PickHost
  PROVE  UInv'
<1>1. /\ phase = "reset" /\ at["main"] = "off" /\ UNCHANGED <<turn, groups, UserIn>>
      /\ UNCHANGED sshVars
  BY DEF PickHost, World
<1>2. /\ ~checked /\ ~stranger /\ prompts = 0 /\ cmd.op = "reset"
      /\ \A t \in Threads : at[t] \notin {"prompt", "connect", "wait", "end"}
  BY <1>1 DEF UInv, Fresh, Settled, Guarded
<1>3. \A t \in Threads : at[t] # "resolve"
  BY <1>1 DEF UInv, OneAsks, Asker
<1>4. CASE UNCHANGED <<phase, outcome>>
  <2>1. /\ at' = [at EXCEPT !["main"] = "guard"]
        /\ \E ip \in _select_host : cmd' = [cmd EXCEPT !.ip = ip]
    BY <1>1, <1>4 DEF PickHost, End
  <2>2. at \in [Threads -> Positions0] /\ "main" \in Threads
    BY DEF IInv, Typed, Threads
  <2>3. \A t \in Threads : at'[t] \notin {"resolve", "prompt", "connect", "wait", "end"}
    BY <1>2, <1>3, <2>1, <2>2
  <2>4. cmd'.op = "reset" /\ DOMAIN cmd' = DOMAIN cmd
    BY <1>2, <2>1 DEF UInv, UserTyped
  <2>5. UserTyped' /\ Fresh'
    BY <1>1, <1>2, <1>4, <2>1, <2>2, <2>4 DEF UInv, UserTyped, Fresh, sshVars
  <2>6. OneAsks' /\ Guarded' /\ Settled'
    BY <1>1, <1>2, <1>4, <2>3 DEF OneAsks, Guarded, Settled, sshVars
  <2> QED
    BY <2>5, <2>6 DEF UInv
<1>5. CASE ~UNCHANGED <<phase, outcome>>
  <2>1. phase' = "idle" /\ UNCHANGED <<cmd, at>>
    BY <1>5 DEF PickHost, End
  <2> QED
    BY <1>1, <1>2, <1>3, <2>1, Quits
<1> QED
  BY <1>4, <1>5

LEMMA TeardownLeavesUser ==
  ASSUME UInv, teardown
  PROVE  UInv'
<1>1. /\ phase = "reset" /\ at["main"] = "connect" /\ Reaches(cmd.ip)
      /\ UNCHANGED <<cmd, at, turn, groups, UserIn>> /\ phase' \in {"tear", "idle"}
  BY DEF teardown, End
<1>2. \A t \in Threads : at[t] \notin {"resolve", "prompt"}
  BY <1>1 DEF UInv, OneAsks, Asker
<1>3. "main" \in Threads
  BY DEF Threads
<1>4. checked /\ Answered
  BY <1>1, <1>2, <1>3 DEF UInv, Guarded, Settled
<1>5. /\ UNCHANGED <<checked, user, prompts>> /\ stranger' \in BOOLEAN
      /\ cmd.tty /\ stranger' => MainHost \in UserIn
  BY <1>1, <1>4, ReachesAnswered
<1>6. MainHost' = MainHost
  BY <1>1, SameHost
<1>7. UserTyped' /\ OneAsks' /\ Fresh' /\ Guarded'
  BY <1>1, <1>2, <1>4, <1>5 DEF UInv, UserTyped, OneAsks, Fresh, Guarded
<1>8. Settled'
  BY <1>1, <1>4, <1>5, <1>6 DEF UInv, Settled
<1> QED
  BY <1>7, <1>8 DEF UInv

LEMMA ResetLeavesUser ==
  ASSUME IInv, UInv, ResetNext
  PROVE  UInv'
<1>1. CASE TornDown \/ Redeploy \/ play
  <2>1. /\ phase \in {"tear", "redeploy", "play"}
        /\ phase' \in {"idle", "tear", "redeploy", "play"}
        /\ UNCHANGED <<cmd, at, turn, groups, UserIn>> /\ UNCHANGED sshVars
    BY <1>1 DEF TornDown, Redeploy, play, End, World
  <2>2. \A t \in Threads : at[t] \notin {"resolve", "prompt"}
    BY <2>1, NobodyAsks
  <2>3. \A t \in Threads : at[t] \in {"connect", "wait", "end"} => checked
    BY DEF UInv, Guarded
  <2> QED
    BY <2>1, <2>2, <2>3, Quits
<1> QED
  BY <1>1, PickHostLeavesUser, TeardownLeavesUser DEF ResetNext

----------------------------------------------------------------------------
(* The invariant is inductive *)

LEMMA UserInit == Init => UInv
<1> SUFFICES ASSUME Init PROVE UInv
  OBVIOUS
<1>1. /\ at = [t \in Threads |-> "off"] /\ phase = "idle" /\ cmd = NoCommand
      /\ prompts = 0 /\ checked = FALSE /\ stranger = FALSE /\ user \in BOOLEAN
  BY DEF Init
<1> QED
  BY <1>1 DEF UInv, UserTyped, NoCommand, OneAsks, Guarded, Fresh, Settled

LEMMA UserNextKeeps ==
  ASSUME IInv, UInv, [Next]_vars
  PROVE  UInv'
<1>1. CASE UNCHANGED vars
  BY <1>1, NothingMoves DEF vars, sshVars
<1>2. CASE \E r \in Requests : restart(r) \/ resolve_target(r)
  BY <1>2, BeginAfresh
<1>3. CASE RestartNext
  BY <1>3, TargetLeavesUser, PrewarmedIsSettled, ReportLeavesUser, RestartLeavesUser
     DEF RestartNext
<1> QED
  BY <1>1, <1>2, <1>3, SystemdLeavesUser, ConfirmLeavesUser, UserSettles,
     ResetLeavesUser DEF Next

\* The second invariant, which the guard of ensure_ssh_user and the pre-warm keep.
THEOREM UserInductive == Spec => []UInv
<1>1. IInv /\ UInv /\ [Next]_vars => UInv'
  BY UserNextKeeps
<1> QED
  BY Inductive, UserInit, <1>1, PTL DEF Spec

\* A restart or a reset asks for the ssh user once, whatever its threads do, and on a
\* terminal it reaches no host without a user before the answer (ensure_ssh_user,
\* core/sshuser.py; the pre-warm of restart, cmd/remote.py).
THEOREM AsksOnceFirst == Spec => []UserSettled
<1>1. UInv => UserSettled
  BY DEF UInv, Settled, UserSettled
<1> QED
  BY UserInductive, <1>1, PTL

----------------------------------------------------------------------------
(* The types, and the hosts a restart goes to *)

Phases == {"idle", "confirm", "target", "prewarm", "run", "reset", "tear", "redeploy", "play"}
Outcomes == {"none", "ok", "failed", "error", "aborted"}

\* What no other part of the state decides.
Ranged ==
  /\ ServiceTypeOK
  /\ UserIn \subseteq Machines
  /\ commands \in 0 .. MaxCommands
  /\ phase \in Phases /\ outcome \in Outcomes
  /\ falls \in 0 .. MaxFalls
  /\ failures \subseteq Services /\ back \subseteq Services
  /\ ghosts \subseteq Services /\ dir \subseteq Services

\* The command line, and from the time a host is picked that host.
Commanded ==
  /\ \E r \in Requests \union {NoCommand} : \E ip \in Machines \union {"none"} :
       cmd = [r EXCEPT !.ip = ip]
  /\ (phase = "reset" /\ at["main"] # "off") \/ phase \in {"tear", "redeploy", "play"} =>
       cmd.ip \in Machines

\* Before the threads start none of them is anywhere; a reset has no hosts to go through.
Unstarted ==
  /\ phase \in {"confirm", "target"} => at = [t \in Threads |-> "off"]
  /\ phase = "reset" => turn = [c \in Keys |-> 1]

\* One after the other, nobody has left the guard before the first one has ended.
InTurn ==
  phase = "run" /\ ~cmd.parallel =>
    at[First] = "end" \/ \A c \in Components \ {First} : at[c] \in {"off", "guard"}

\* A thread is at one of its hosts or past the last one, also when the command is over.
Stands == \A c \in Keys : IF groups[c] = <<>> THEN turn[c] = 1 ELSE AtHost(c)

\* The hosts the threads go through are those of the command line.
Aimed ==
  phase \in {"prewarm", "run"} =>
    cmd \in Requests /\ groups = [c \in Keys |-> TargetedBy(layout, cmd, c)]

TInv == Ranged /\ Commanded /\ Unstarted /\ InTurn /\ Stands /\ Aimed

\* The service a reset tears down is one.
LEMMA TornIsService ==
  ASSUME IInv, TInv,
         (phase = "reset" /\ at["main"] # "off") \/ phase \in {"tear", "redeploy", "play"}
  PROVE  Torn \in Services
<1>1. PICK r \in Requests \union {NoCommand}, ip \in Machines \union {"none"} :
        cmd = [r EXCEPT !.ip = ip]
  BY DEF TInv, Commanded
<1>2. "op" \in DOMAIN cmd /\ cmd.op = "reset" /\ cmd.ip \in Machines
  BY DEF IInv, Phased, TInv, Commanded
<1>3. r \in Requests /\ r.op = "reset"
  BY <1>1, <1>2 DEF NoCommand
<1>4. PICK c \in Keys : r.components = {c}
  BY <1>3
<1>5. cmd.components = {c}
  BY <1>1, <1>3, <1>4
<1>6. Unit = c
  BY <1>5 DEF Unit
<1> QED
  BY <1>2, <1>6 DEF Torn

\* A host to reset is one of the machines.
LEMMA SelectedIsMachine ==
  ASSUME IInv, TInv, phase = "reset"
  PROVE  _select_host \subseteq Machines
<1>1. PICK r \in Requests \union {NoCommand}, ip \in Machines \union {"none"} :
        cmd = [r EXCEPT !.ip = ip]
  BY DEF TInv, Commanded
<1>2. "op" \in DOMAIN cmd /\ cmd.op = "reset"
  BY DEF IInv, Phased
<1>3. r \in Requests /\ r.op = "reset"
  BY <1>1, <1>2 DEF NoCommand
<1>4. PICK c \in Keys : r.components = {c}
  BY <1>3
<1>5. cmd.components = {c}
  BY <1>1, <1>3, <1>4
<1>6. Unit = c
  BY <1>5 DEF Unit
<1>7. layout \in Layouts
  BY DEF IInv, Typed
<1>8. PICK e, h : e = Entries /\ h = cmd.host
  OBVIOUS
<1>9. Reads(e, MeantBy(layout, c))
  BY <1>6, <1>7, <1>8, InventoryIs DEF Entries
<1>10. e \in Seq(Found)
  BY <1>9 DEF Reads
<1>11. \A i \in DOMAIN e : e[i].ip \in Machines
  <2>1. \A i \in DOMAIN e : e[i] \in Found
    BY <1>10
  <2> QED
    BY <2>1 DEF Found
<1>12. find_host(e, h) = <<>> \/ \E i \in DOMAIN e : find_host(e, h) = <<e[i]>>
  BY <1>10, FindHostIs
<1>13. CASE h = <<>>
  <2>1. _select_host = {x.ip : x \in {e[i] : i \in DOMAIN e}}
    BY <1>8, <1>13 DEF _select_host
  <2> QED
    BY <1>11, <2>1
<1>14. CASE h # <<>>
  <2>1. PICK f : f = find_host(e, h)
    OBVIOUS
  <2>2. _select_host = {x.ip : x \in {f[i] : i \in DOMAIN f}}
    BY <1>8, <1>14, <2>1 DEF _select_host
  <2>3. \A i \in DOMAIN f : f[i].ip \in Machines
    <3>1. CASE f = <<>>
      <4>1. DOMAIN f = {}
        BY <3>1
      <4> QED
        BY <4>1
    <3>2. CASE \E i \in DOMAIN e : f = <<e[i]>>
      BY <1>11, <3>2
    <3> QED
      BY <1>12, <2>1, <3>1, <3>2
  <2> QED
    BY <2>2, <2>3
<1> QED
  BY <1>13, <1>14

LEMMA ServicesKeep ==
  ASSUME ServiceTypeOK, NEW s,
         Start(s) \/ Look(s) \/ Ready(s) \/ Stop(s) \/ UNCHANGED serviceVars
  PROVE  ServiceTypeOK'
BY DEF ServiceTypeOK, Start, Look, Ready, Stop, serviceVars

----------------------------------------------------------------------------
(* Steps that leave the command where it is *)

LEMMA CommandStays ==
  ASSUME TInv, UNCHANGED layout, UNCHANGED <<cmd, phase, turn, groups, at>>, Ranged'
  PROVE  TInv'
<1>1. Commanded' /\ Unstarted' /\ Aimed'
  BY DEF TInv, Commanded, Unstarted, Aimed
<1>2. Stands'
  BY DEF TInv, Stands, AtHost
<1>3. InTurn'
  BY SameHost DEF TInv, InTurn
<1> QED
  BY <1>1, <1>2, <1>3 DEF TInv

LEMMA SystemdTypes ==
  ASSUME TInv, NEW s \in Services,
         \/ systemctl_start(s) \/ start_fails(s) \/ comes_up(s)
         \/ goes_down(s) \/ looks(s) \/ ghost_strikes(s)
  PROVE  TInv'
<1>1. UNCHANGED <<layout, UserIn>> /\ UNCHANGED ctlVars
  BY DEF systemctl_start, start_fails, comes_up, goes_down, looks, ghost_strikes, Keep
<1>2. ServiceTypeOK'
  <2>1. Start(s) \/ Look(s) \/ Ready(s) \/ Stop(s) \/ UNCHANGED serviceVars
    BY DEF systemctl_start, start_fails, comes_up, goes_down, looks, ghost_strikes
  <2> QED
    BY <2>1, ServicesKeep DEF TInv, Ranged
<1>3. back' \subseteq Services /\ ghosts' \subseteq Services /\ dir' \subseteq Services
  <2>1. back' = back \/ back' = back \union {s}
    BY DEF systemctl_start, start_fails, comes_up, goes_down, looks, ghost_strikes, unitVars
  <2>2. ghosts' = ghosts \/ ghosts' = ghosts \ {s}
    BY DEF systemctl_start, start_fails, comes_up, goes_down, looks, ghost_strikes, unitVars
  <2>3. dir' = dir \/ dir' = dir \ {s}
    BY DEF systemctl_start, start_fails, comes_up, goes_down, looks, ghost_strikes, unitVars
  <2> QED
    BY <2>1, <2>2, <2>3 DEF TInv, Ranged
<1>4. falls' \in 0 .. MaxFalls
  <2>1. falls' = falls \/ (falls < MaxFalls /\ falls' = falls + 1)
    BY DEF systemctl_start, start_fails, comes_up, goes_down, looks, ghost_strikes, unitVars
  <2> QED
    BY <2>1 DEF TInv, Ranged
<1>5. Ranged'
  BY <1>1, <1>2, <1>3, <1>4 DEF TInv, Ranged, ctlVars
<1> QED
  BY <1>1, <1>5, CommandStays DEF ctlVars

\* A step of the command line or of the threads that leaves the services alone.
LEMMA WorldStays ==
  ASSUME Ranged, World, commands' \in 0 .. MaxCommands, phase' \in Phases,
         outcome' \in Outcomes, failures' \subseteq Services, back' \subseteq Services
  PROVE  Ranged'
<1>1. ServiceTypeOK'
  BY DEF Ranged, World, ServiceTypeOK, serviceVars
<1> QED
  BY <1>1 DEF Ranged, World

----------------------------------------------------------------------------
(* The command line *)

LEMMA BeginIsTyped ==
  ASSUME TInv, NEW r \in Requests, restart(r) \/ resolve_target(r)
  PROVE  TInv'
<1>1. /\ commands < MaxCommands /\ commands' = commands + 1
      /\ cmd' = r /\ at' = [t \in Threads |-> "off"]
      /\ turn' = [c \in Keys |-> 1] /\ groups' = [c \in Keys |-> <<>>]
      /\ failures' = {} /\ back' = {} /\ World
  BY DEF restart, resolve_target, Begin
<1>2. phase' \in {"idle", "confirm", "target", "reset"} /\ outcome' \in {"none", "error"}
  BY DEF restart, resolve_target, End
<1>3. commands' \in 0 .. MaxCommands
  BY <1>1 DEF TInv, Ranged
<1>4. Ranged'
  BY <1>1, <1>2, <1>3, WorldStays DEF TInv, Phases, Outcomes
<1>5. Commanded'
  <2>1. r = [r EXCEPT !.ip = "none"]
    OBVIOUS
  <2>2. at'["main"] = "off"
    BY <1>1 DEF Threads
  <2> QED
    BY <1>1, <1>2, <2>1, <2>2 DEF Commanded
<1>6. Unstarted' /\ InTurn' /\ Aimed'
  BY <1>1, <1>2 DEF Unstarted, InTurn, Aimed
<1>7. Stands'
  BY <1>1 DEF Stands
<1> QED
  BY <1>4, <1>5, <1>6, <1>7 DEF TInv

\* The command goes on, or ends, with its threads where they were.
LEMMA PhaseMoves ==
  ASSUME TInv, Ranged', UNCHANGED <<layout, cmd, at, turn, groups>>,
         phase' \notin {"prewarm", "run"},
         phase' = "target" => phase = "confirm",
         phase' \notin {"confirm", "reset"},
         phase' \in {"tear", "redeploy", "play"} => cmd.ip \in Machines
  PROVE  TInv'
<1>1. Commanded' /\ Unstarted' /\ InTurn' /\ Aimed'
  BY DEF TInv, Commanded, Unstarted, InTurn, Aimed
<1>2. Stands'
  BY DEF TInv, Stands, AtHost
<1> QED
  BY <1>1, <1>2 DEF TInv

LEMMA ConfirmTypes ==
  ASSUME TInv, Confirm
  PROVE  TInv'
<1>1. /\ phase = "confirm" /\ phase' \in {"target", "idle"}
      /\ outcome' = outcome \/ outcome' \in {"aborted", "error"}
      /\ UNCHANGED <<commands, cmd, at, turn, groups, failures, back>> /\ World
  BY DEF Confirm, End
<1>2. Ranged'
  BY <1>1, WorldStays DEF TInv, Ranged, Phases, Outcomes
<1>3. UNCHANGED layout
  BY <1>1 DEF World
<1> QED
  BY <1>1, <1>2, <1>3, PhaseMoves

LEMMA ReportTypes ==
  ASSUME TInv, Report
  PROVE  TInv'
<1>1. /\ phase' = "idle" /\ outcome' \in {"ok", "failed"}
      /\ UNCHANGED <<commands, cmd, at, turn, groups, failures, back>> /\ World
  BY DEF Report, End
<1>2. Ranged'
  BY <1>1, WorldStays DEF TInv, Ranged, Phases, Outcomes
<1>3. UNCHANGED layout
  BY <1>1 DEF World
<1> QED
  BY <1>1, <1>2, <1>3, PhaseMoves

----------------------------------------------------------------------------
(* The threads *)

\* While a restart runs its threads stand where the first invariant has them.
LEMMA StandsInRun ==
  ASSUME IInv', phase' = "run", \A c \in Keys : groups'[c] = <<>> => turn'[c] = 1
  PROVE  Stands'
BY DEF IInv, Placed, Components, Stands

\* They all start at the guard.
LEMMA SpawnInTurn ==
  ASSUME Spawn
  PROVE  InTurn'
<1>1. \A c \in Components' : at'[c] \in {"off", "guard"}
  BY DEF Spawn, Components, Threads
<1> QED
  BY <1>1 DEF InTurn

LEMMA TargetTypes ==
  ASSUME IInv, IInv', TInv, Target
  PROVE  TInv'
<1>1. /\ phase = "target" /\ phase' \in {"idle", "prewarm", "run"}
      /\ outcome' = outcome \/ outcome' = "error"
      /\ UNCHANGED <<commands, cmd, turn, failures, back>> /\ World
  BY DEF Target, End
<1>2. Ranged'
  BY <1>1, WorldStays DEF TInv, Ranged, Phases, Outcomes
<1>3. UNCHANGED layout /\ cmd \in Requests /\ turn = [c \in Keys |-> 1]
  BY <1>1 DEF World, IInv, Phased
<1>4. CASE NoTarget
  <2>1. phase' = "idle" /\ UNCHANGED <<at, groups>>
    BY <1>4 DEF Target, End
  <2> QED
    BY <1>1, <1>2, <1>3, <2>1, PhaseMoves
<1>5. CASE ~NoTarget
  <2>1. groups' = [c \in Keys |-> TargetedBy(layout, cmd, c)] /\ phase' \in {"prewarm", "run"}
    BY <1>5 DEF Target, FindGroups, Targeted
  <2>2. Aimed' /\ Unstarted'
    BY <1>1, <1>3, <2>1 DEF Aimed, Unstarted
  <2>3. Commanded'
    BY <1>1, <2>1 DEF TInv, Commanded
  <2>4. CASE phase' = "run"
    <3>1. Stands'
      <4>1. \A c \in Keys : groups'[c] = <<>> => turn'[c] = 1
        BY <1>1, <1>3
      <4> QED
        BY <2>4, <4>1, StandsInRun
    <3>2. Spawn
      BY <1>5, <2>4 DEF Target
    <3>3. InTurn'
      BY <3>2, SpawnInTurn
    <3> QED
      BY <1>2, <2>2, <2>3, <3>1, <3>3 DEF TInv
  <2>5. CASE phase' = "prewarm"
    <3>1. at' = [at EXCEPT !["main"] = "guard"] /\ at = [t \in Threads |-> "off"]
      BY <1>1, <1>5, <2>5 DEF Target, TInv, Unstarted
    <3>2. \A c \in Keys : at'[c] \in {"off", "guard"}
      BY <3>1 DEF Threads
    <3>3. Stands'
      <4> SUFFICES ASSUME NEW c \in Keys, groups'[c] # <<>> PROVE AtHost(c)'
        BY <1>1, <1>3 DEF Stands
      <4>1. groups'[c] \in Seq(Machines)
        BY DEF IInv, Typed
      <4>2. Len(groups'[c]) \in Nat \ {0}
        BY <4>1, EmptySeq
      <4>3. turn'[c] = 1 /\ at'[c] # "end"
        BY <1>1, <1>3, <3>2
      <4> QED
        BY <4>2, <4>3 DEF AtHost
    <3> QED
      BY <1>2, <2>2, <2>3, <2>5, <3>3 DEF TInv, InTurn
  <2> QED
    BY <2>1, <2>4, <2>5
<1> QED
  BY <1>4, <1>5

LEMMA PrewarmedTypes ==
  ASSUME IInv, IInv', TInv, Prewarmed
  PROVE  TInv'
<1>1. /\ phase = "prewarm" /\ phase' = "run"
      /\ UNCHANGED <<commands, cmd, outcome, turn, groups, failures, back>> /\ World
  BY DEF Prewarmed
<1>2. Ranged'
  BY <1>1, WorldStays DEF TInv, Ranged, Phases, Outcomes
<1>3. UNCHANGED layout /\ turn = [c \in Keys |-> 1]
  BY <1>1 DEF World, IInv, Phased
<1>4. Aimed' /\ Unstarted' /\ Commanded'
  BY <1>1, <1>3 DEF TInv, Aimed, Unstarted, Commanded
<1>5. InTurn'
  BY SpawnInTurn DEF Prewarmed
<1>6. Stands'
  <2>1. \A c \in Keys : groups'[c] = <<>> => turn'[c] = 1
    BY <1>1, <1>3
  <2> QED
    BY <1>1, <2>1, StandsInRun
<1> QED
  BY <1>2, <1>4, <1>5, <1>6 DEF TInv

LEMMA MoveTypes ==
  ASSUME IInv, UInv, TInv, NEW t \in Threads, NEW p \in Positions0, Move(t, p),
         at[t] \notin {"off", "end"}, p # "end",
         at[t] = "guard" => Steps(t)
  PROVE  TInv'
<1>1. at \in [Threads -> Positions0]
  BY DEF IInv, Typed
<1>2. /\ UNCHANGED <<commands, cmd, phase, outcome, turn, groups, failures, back>>
      /\ World /\ at' = [at EXCEPT ![t] = p]
  BY DEF Move
<1>3. Ranged'
  BY <1>2, WorldStays DEF TInv, Ranged
<1>4. UNCHANGED layout
  BY <1>2 DEF World
<1>5. Aimed'
  BY <1>2, <1>4 DEF TInv, Aimed
<1>6. phase \notin {"confirm", "target"}
  BY DEF TInv, Unstarted
<1>7. Commanded'
  <2>1. at'["main"] # "off" => at["main"] # "off"
    BY <1>1, <1>2 DEF Threads
  <2> QED
    BY <1>2, <2>1 DEF TInv, Commanded
<1>8. Unstarted'
  BY <1>2, <1>6 DEF TInv, Unstarted
<1>9. Stands'
  <2>1. \A c \in Keys : at'[c] = "end" <=> at[c] = "end"
    BY <1>1, <1>2 DEF Threads
  <2> QED
    BY <1>2, <2>1 DEF TInv, Stands, AtHost
<1>10. InTurn'
  <2> SUFFICES ASSUME phase' = "run", ~cmd'.parallel,
                      NEW c \in Components' \ {First'}, at'[c] \notin {"off", "guard"}
               PROVE  at'[First'] = "end"
    BY DEF InTurn
  <2>1. /\ phase = "run" /\ ~cmd.parallel /\ c \in Components \ {First}
        /\ Components' = Components /\ First' = First
    BY <1>2, SameHost
  <2>2. First \in Components /\ c \in Keys /\ First \in Threads /\ c \in Threads
    BY <2>1, FirstIs DEF Components, Threads, UInv, UserTyped
  <2>3. at[First] = "end"
    <3>1. CASE at[c] \notin {"off", "guard"}
      BY <2>1, <3>1 DEF TInv, InTurn
    <3>2. CASE at[c] = "guard" /\ t = c
      BY <2>1, <2>2, <3>2, FirstGoesFirst DEF Steps, UInv
    <3>3. CASE at[c] \in {"off", "guard"} /\ t # c
      BY <1>1, <1>2, <2>2, <3>3
    <3> QED
      BY <3>1, <3>2, <3>3
  <2> QED
    BY <1>1, <1>2, <2>1, <2>2, <2>3
<1> QED
  BY <1>3, <1>5, <1>7, <1>8, <1>9, <1>10 DEF TInv

\* Nobody has ended when the one that is asked cancels.
LEMMA CancelTypes ==
  ASSUME IInv, UInv, TInv, NEW t \in Threads, Cancel(t)
  PROVE  TInv'
<1>1. /\ at[t] = "prompt" /\ phase' = "idle" /\ outcome' = "aborted"
      /\ at' = [x \in Threads |-> "off"]
      /\ UNCHANGED <<commands, cmd, turn, groups, failures, back>> /\ World
  BY DEF Cancel, End
<1>2. Ranged'
  BY <1>1, WorldStays DEF TInv, Ranged, Phases, Outcomes
<1>3. Commanded' /\ Unstarted' /\ Aimed'
  BY <1>1 DEF TInv, Commanded, Unstarted, Aimed
<1>4. /\ t = Asker /\ phase \in {"prewarm", "reset", "run"}
      /\ phase = "run" => ~cmd.parallel /\ t \in Components /\ turn[t] = 1
  BY <1>1 DEF UInv, OneAsks
<1>5. \A c \in Keys : groups[c] # <<>> => at[c] # "end"
  <2>1. CASE phase \in {"prewarm", "reset"}
    <3> SUFFICES ASSUME NEW c \in Keys, groups[c] # <<>> PROVE at[c] # "end"
      OBVIOUS
    <3>1. groups[c] \in Seq(Machines) /\ turn[c] = 1
      BY <2>1 DEF IInv, Typed, Phased, TInv, Unstarted
    <3>2. Len(groups[c]) \in Nat \ {0}
      BY <3>1, EmptySeq
    <3>3. AtHost(c)
      BY DEF TInv, Stands
    <3> QED
      BY <3>1, <3>2, <3>3 DEF AtHost
  <2>2. CASE phase = "run"
    <3>1. t = First /\ ~cmd.parallel /\ at[First] = "prompt"
      BY <1>1, <1>4, <2>2 DEF Asker
    <3>2. \A c \in Components : at[c] # "end"
      BY <2>2, <3>1 DEF TInv, InTurn
    <3> QED
      BY <3>2 DEF Components
  <2> QED
    BY <1>4, <2>1, <2>2
<1>6. Stands'
  <2> SUFFICES ASSUME NEW c \in Keys, groups[c] # <<>> PROVE AtHost(c)'
    BY <1>1 DEF TInv, Stands
  <2>1. AtHost(c) /\ at[c] # "end"
    BY <1>5 DEF TInv, Stands
  <2>2. at'[c] = "off"
    BY <1>1 DEF Threads
  <2> QED
    BY <1>1, <2>1, <2>2 DEF AtHost
<1>7. InTurn'
  BY <1>1 DEF InTurn
<1> QED
  BY <1>2, <1>3, <1>6, <1>7 DEF TInv

LEMMA UserTypes ==
  ASSUME IInv, UInv, TInv, UserNext
  PROVE  TInv'
<1>1. PICK t \in Threads : \/ ensure_ssh_user(t) \/ _resolved_ssh_user(t)
                           \/ _persist_user(t) \/ Cancel(t)
  BY DEF UserNext
<1>2. CASE ensure_ssh_user(t)
  <2>1. at[t] = "guard" /\ Steps(t) /\ \E p \in {"connect", "resolve"} : Move(t, p)
    BY <1>2 DEF ensure_ssh_user
  <2> QED
    BY <2>1, MoveTypes DEF Positions0
<1>3. CASE _resolved_ssh_user(t) \/ _persist_user(t)
  <2>1. at[t] \in {"resolve", "prompt"} /\ \E p \in {"connect", "prompt"} : Move(t, p)
    BY <1>3 DEF _resolved_ssh_user, _persist_user
  <2> QED
    BY <2>1, MoveTypes DEF Positions0
<1> QED
  BY <1>1, <1>2, <1>3, CancelTypes

----------------------------------------------------------------------------
(* The connections *)

\* A thread takes its host down, or goes to the next one.
LEMMA ConnectionTypes ==
  ASSUME IInv, IInv', UInv, TInv, phase = "run", NEW c \in Components, at[c] \in {"connect", "wait"},
         UNCHANGED <<layout, UserIn, falls, commands, cmd, phase, outcome, groups, ghosts, dir>>,
         ServiceTypeOK', back' \subseteq back,
         failures' = failures \/ failures' = failures \union {Current(c)},
         NEW p \in {"wait", "end", "guard"}, at' = [at EXCEPT ![c] = p],
         turn' = turn \/ \E n : turn' = [turn EXCEPT ![c] = n]
  PROVE  TInv'
<1>1. /\ c \in Keys /\ c \in Threads /\ groups[c] # <<>>
      /\ at \in [Threads -> Positions0] /\ turn \in [Keys -> Nat \ {0}]
  BY DEF Components, Threads, IInv, Typed
<1>2. /\ \A x \in Threads \ {c} : at'[x] = at[x]
      /\ \A d \in Keys \ {c} : turn'[d] = turn[d]
  BY <1>1
<1>3. Current(c) \in Services
  BY CurrentIsService
<1>4. Ranged'
  BY <1>3 DEF TInv, Ranged
<1>5. Unstarted' /\ Aimed' /\ Commanded'
  BY DEF TInv, Unstarted, Aimed, Commanded
<1>6. Stands'
  <2>1. \A d \in Keys : groups'[d] = <<>> => turn'[d] = 1
    BY <1>1, <1>2 DEF TInv, Stands
  <2> QED
    BY <2>1, StandsInRun
<1>7. InTurn'
  <2> SUFFICES ASSUME ~cmd.parallel, NEW d \in Components \ {First},
                      at'[d] \notin {"off", "guard"}
               PROVE  at'[First] = "end"
    BY SameHost DEF InTurn
  <2>1. d \in Threads /\ First \in Components /\ First \in Threads
    BY FirstIs DEF Components, Threads, UInv, UserTyped
  <2>2. at[d] \notin {"off", "guard"}
    BY <1>2, <2>1
  <2>3. at[First] = "end"
    BY <2>2 DEF TInv, InTurn
  <2> QED
    BY <1>2, <2>1, <2>3
<1> QED
  BY <1>4, <1>5, <1>6, <1>7 DEF TInv

LEMMA RestartTypes ==
  ASSUME IInv, IInv', UInv, TInv, NEW c \in Keys,
         \/ ssh_fails(c) \/ _restart_component(c) \/ ssh_returns(c) \/ ssh_drops(c)
  PROVE  TInv'
<1>1. at[c] \in {"connect", "wait"}
  BY DEF ssh_fails, _restart_component, TakeDown, ssh_returns, ssh_drops
<1>2. phase = "run" /\ c \in Components
  BY DEF ssh_fails, _restart_component, TakeDown, ssh_returns, ssh_drops, MayStep,
     IInv, Waited
<1>3. UNCHANGED <<layout, UserIn, falls, commands, cmd, phase, outcome, groups, ghosts, dir>>
  BY DEF ssh_fails, _restart_component, TakeDown, ssh_returns, ssh_drops, Quiet
<1>4. ServiceTypeOK'
  <2>1. Stop(Current(c)) \/ UNCHANGED serviceVars
    BY DEF ssh_fails, _restart_component, TakeDown, ssh_returns, ssh_drops
  <2> QED
    BY <2>1, ServicesKeep DEF TInv, Ranged
<1>5. back' \subseteq back
  BY DEF ssh_fails, _restart_component, TakeDown, ssh_returns, ssh_drops
<1>6. /\ failures' = failures \/ failures' = failures \union {Current(c)}
      /\ \E p \in {"wait", "end", "guard"} : at' = [at EXCEPT ![c] = p]
      /\ turn' = turn \/ \E n : turn' = [turn EXCEPT ![c] = n]
  BY DEF ssh_fails, _restart_component, ssh_returns, ssh_drops, Advance
<1> QED
  BY <1>1, <1>2, <1>3, <1>4, <1>5, <1>6, ConnectionTypes

----------------------------------------------------------------------------
(* A reset *)

LEMMA PickHostTypes ==
  ASSUME IInv, TInv, PickHost
  PROVE  TInv'
<1>1. /\ phase = "reset" /\ at["main"] = "off"
      /\ UNCHANGED <<commands, turn, groups, failures, back>> /\ World
  BY DEF PickHost
<1>2. CASE /\ \E ip \in _select_host : cmd' = [cmd EXCEPT !.ip = ip]
           /\ at' = [at EXCEPT !["main"] = "guard"]
           /\ UNCHANGED <<phase, outcome>>
  <2>1. Ranged'
    BY <1>1, <1>2, WorldStays DEF TInv, Ranged
  <2>2. Unstarted' /\ InTurn' /\ Aimed'
    BY <1>1, <1>2 DEF TInv, Unstarted, InTurn, Aimed
  <2>3. PICK m \in Machines : cmd' = [cmd EXCEPT !.ip = m]
    BY <1>1, <1>2, SelectedIsMachine
  <2>4. Commanded'
    <3>1. PICK r \in Requests \union {NoCommand}, ip \in Machines \union {"none"} :
            cmd = [r EXCEPT !.ip = ip]
      BY DEF TInv, Commanded
    <3>2. cmd' = [r EXCEPT !.ip = m] /\ "ip" \in DOMAIN r
      BY <2>3, <3>1 DEF NoCommand
    <3>3. cmd'.ip = m
      BY <3>2
    <3> QED
      BY <3>2, <3>3 DEF Commanded
  <2>5. Stands'
    <3>1. at \in [Threads -> Positions0]
      BY DEF IInv, Typed
    <3>2. \A c \in Keys : at'[c] = "end" <=> at[c] = "end"
      BY <1>1, <1>2, <3>1 DEF Threads
    <3> QED
      BY <1>1, <3>2 DEF TInv, Stands, AtHost
  <2> QED
    BY <2>1, <2>2, <2>4, <2>5 DEF TInv
<1>3. CASE phase' = "idle" /\ outcome' \in {"aborted", "error"} /\ UNCHANGED <<at, cmd>>
  <2>1. Ranged' /\ UNCHANGED layout
    BY <1>1, <1>3, WorldStays DEF TInv, Ranged, Phases, Outcomes, World
  <2> QED
    BY <1>1, <1>3, <2>1, PhaseMoves
<1> QED
  BY <1>2, <1>3 DEF PickHost, End

LEMMA ResetTypes ==
  ASSUME IInv, TInv, ResetNext
  PROVE  TInv'
<1>1. CASE teardown \/ TornDown \/ Redeploy \/ play
  <2>1. phase \in {"reset", "tear", "redeploy", "play"} /\ (phase = "reset" => at["main"] = "connect")
    BY <1>1 DEF teardown, TornDown, Redeploy, play
  <2>2. cmd.ip \in Machines /\ Torn \in Services
    BY <2>1, TornIsService DEF TInv, Commanded
  <2>3. /\ UNCHANGED <<layout, UserIn, falls, commands, cmd, at, turn, groups, failures, back>>
        /\ phase' \in {"idle", "tear", "redeploy", "play"}
    BY <1>1, <2>1 DEF teardown, TornDown, Redeploy, play, End, World
  <2>4. outcome' = outcome \/ outcome' \in {"ok", "failed"}
    BY <1>1 DEF teardown, TornDown, Redeploy, play, End
  <2>5. ServiceTypeOK'
    <3>1. Stop(Torn) \/ UNCHANGED serviceVars
      BY <1>1 DEF teardown, TornDown, Redeploy, play, World
    <3> QED
      BY <3>1, ServicesKeep DEF TInv, Ranged
  <2>6. dir' \subseteq Services /\ ghosts' \subseteq Services
    <3>1. dir' \subseteq dir \union {Torn} /\ ghosts' \subseteq ghosts \union {Torn}
      BY <1>1 DEF teardown, TornDown, Redeploy, play, World
    <3> QED
      BY <2>2, <3>1 DEF TInv, Ranged
  <2>7. Ranged'
    BY <2>3, <2>4, <2>5, <2>6 DEF TInv, Ranged, Phases, Outcomes
  <2> QED
    BY <2>2, <2>3, <2>7, PhaseMoves
<1> QED
  BY <1>1, PickHostTypes DEF ResetNext

----------------------------------------------------------------------------
(* The invariant is inductive *)

LEMMA TypesInit == Init => TInv
<1> SUFFICES ASSUME Init PROVE TInv
  OBVIOUS
<1>1. dir \subseteq Services
  BY LayoutsAssumption DEF Init
<1>2. Ranged
  BY <1>1 DEF Init, Ranged, ServiceTypeOK, Phases, Outcomes
<1>3. Commanded
  <2>1. NoCommand = [NoCommand EXCEPT !.ip = "none"]
    BY DEF NoCommand
  <2> QED
    BY <2>1 DEF Init, Commanded
<1>4. Unstarted /\ InTurn /\ Stands /\ Aimed
  BY DEF Init, Unstarted, InTurn, Stands, Aimed
<1> QED
  BY <1>2, <1>3, <1>4 DEF TInv

LEMMA TypesKeep ==
  ASSUME IInv, IInv', UInv, TInv, [Next]_vars
  PROVE  TInv'
<1>1. CASE UNCHANGED vars
  <2>1. Ranged'
    BY <1>1 DEF vars, TInv, Ranged, ServiceTypeOK
  <2> QED
    BY <1>1, <2>1, CommandStays DEF vars
<1>2. CASE SystemdNext
  BY <1>2, SystemdTypes DEF SystemdNext
<1>3. CASE \E r \in Requests : restart(r) \/ resolve_target(r)
  BY <1>3, BeginIsTyped
<1>4. CASE RestartNext
  BY <1>4, TargetTypes, PrewarmedTypes, ReportTypes, RestartTypes DEF RestartNext
<1> QED
  BY <1>1, <1>2, <1>3, <1>4, ConfirmTypes, UserTypes, ResetTypes DEF Next

\* The third invariant: where the threads, the command line and the hosts are.
THEOREM TypesInductive == Spec => []TInv
<1>1. IInv /\ [Next]_vars => IInv'
  BY NextKeeps, StutterKeeps
<1>2. IInv /\ UInv /\ [Next]_vars => UInv'
  BY UserNextKeeps
<1>3. IInv /\ UInv /\ TInv /\ [Next]_vars => TInv'
  BY <1>1, TypesKeep
<1> QED
  BY InitHolds, UserInit, TypesInit, <1>1, <1>2, <1>3, PTL DEF Spec

\* Whatever the operator and the machines do, the state of a restart or a reset keeps its
\* types: no thread is past the end of its hosts (_restart_component, cmd/remote.py), and
\* what is torn down is a service of the tree (_teardown).
THEOREM TypeCorrect == Spec => []RemoteTypeOK
<1>1. IInv /\ UInv /\ TInv => RemoteTypeOK
  <2> SUFFICES ASSUME IInv, UInv, TInv PROVE RemoteTypeOK
    OBVIOUS
  <2>1. /\ ServiceTypeOK /\ layout \in Layouts /\ UserIn \subseteq Machines
        /\ commands \in 0 .. MaxCommands /\ phase \in Phases /\ outcome \in Outcomes
        /\ failures \subseteq Services /\ job \in [Services -> Jobs]
        /\ falls \in 0 .. MaxFalls /\ ghosts \subseteq Services /\ dir \subseteq Services
        /\ back \subseteq Services
    BY DEF IInv, Typed, TInv, Ranged
  <2>2. /\ checked \in BOOLEAN /\ user \in BOOLEAN /\ stranger \in BOOLEAN /\ prompts \in Nat
    BY DEF UInv, UserTyped, Settled
  <2>3. [cmd EXCEPT !.ip = "none"] \in Requests \union {NoCommand}
        /\ cmd.ip \in Machines \union {"none"}
    <3>1. PICK r \in Requests \union {NoCommand}, ip \in Machines \union {"none"} :
            cmd = [r EXCEPT !.ip = ip]
      BY DEF TInv, Commanded
    <3>2. r = [r EXCEPT !.ip = "none"] /\ "ip" \in DOMAIN r
      BY DEF NoCommand
    <3>3. [cmd EXCEPT !.ip = "none"] = r
      BY <3>1, <3>2
    <3> QED
      BY <3>1, <3>2, <3>3
  <2>4. /\ at \in [Threads -> Positions0] /\ groups \in [Keys -> Seq(Machines)]
        /\ turn \in [Keys -> Nat \ {0}]
    BY DEF IInv, Typed
  <2>5. \A c \in Keys : /\ turn[c] \in 1 .. Len(groups[c]) + 1
                        /\ groups[c] # <<>> => (turn[c] > Len(groups[c]) <=> at[c] = "end")
    <3> SUFFICES ASSUME NEW c \in Keys
                 PROVE  /\ turn[c] \in 1 .. Len(groups[c]) + 1
                        /\ groups[c] # <<>> => (turn[c] > Len(groups[c]) <=> at[c] = "end")
      OBVIOUS
    <3>1. groups[c] \in Seq(Machines) /\ turn[c] \in Nat \ {0} /\ Len(groups[c]) \in Nat
      BY <2>4
    <3>2. CASE groups[c] = <<>>
      BY <3>1, <3>2 DEF TInv, Stands
    <3>3. CASE groups[c] # <<>>
      <4>1. AtHost(c)
        BY <3>3 DEF TInv, Stands
      <4> QED
        BY <3>1, <4>1 DEF AtHost
    <3> QED
      BY <3>2, <3>3
  <2> QED
    BY <2>1, <2>2, <2>3, <2>4, <2>5 DEF RemoteTypeOK, Components, Phases, Outcomes,
       Positions0, Jobs
<1> QED
  BY Inductive, UserInductive, TypesInductive, <1>1, PTL

\* Without -H a restart goes to the machines the operator gave each managed component, a
\* worker without any to the core's, also when an older st-cli wrote the hosts files
\* (effective_group, component_inventory, iter_targeted_hosts, core/tree.py).
THEOREM RightHosts == Spec => []TargetsAreTheHosts
<1>1. IInv /\ TInv => TargetsAreTheHosts
  <2> SUFFICES ASSUME IInv, TInv, phase = "run", cmd.host = <<>>,
                      NEW c \in managed_units(layout.units, cmd.components)
               PROVE  Hosts(groups[c]) = Hosts(Meant(c))
    BY DEF TargetsAreTheHosts, Hosts
  <2>1. cmd \in Requests /\ layout \in Layouts
        /\ groups = [d \in Keys |-> TargetedBy(layout, cmd, d)]
    BY DEF TInv, Aimed, IInv, Typed
  <2>2. c \in Keys
    BY <2>1, LayoutsAssumption DEF managed_units, managed
  <2>3. Meant(c) = MeantBy(layout, c) /\ groups[c] = TargetedBy(layout, cmd, c)
    BY <2>1, <2>2 DEF Meant, MeantBy
  <2>4. Hosts(TargetedBy(layout, cmd, c)) = Hosts(MeantBy(layout, c))
    BY <2>1, <2>2, TargetsAreMeant
  <2> QED
    BY <2>3, <2>4
<1> QED
  BY Inductive, TypesInductive, <1>1, PTL
=============================================================================
