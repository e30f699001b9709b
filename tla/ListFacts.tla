----------------------------- MODULE ListFacts -----------------------------
(***************************************************************************)
(* What a filter returns, by induction over the prefixes of the list.  The *)
(* induction is over a set of numbers, from the theorem that the order of  *)
(* the naturals is well founded.                                           *)
(***************************************************************************)
EXTENDS Lists, WellFoundedInduction, TLAPS

LessThan == {p \in Nat \X Nat : p[1] < p[2]}

LEMMA LessThanWellFounded == IsWellFoundedOn(LessThan, Nat)
<1>1. OpToRel(<, Nat) = LessThan
  BY DEF OpToRel, LessThan
<1> QED
  BY <1>1, NatLessThanWellFounded

LEMMA LeastNumber ==
  ASSUME NEW T, T \subseteq Nat, T # {}
  PROVE  \E n \in T : \A k \in T : n <= k
<1>1. PICK n \in T : \A k \in T : ~ <<k, n>> \in LessThan
  BY LessThanWellFounded, WFMin
<1>2. ASSUME NEW k \in T PROVE n <= k
  <2>1. n \in Nat /\ k \in Nat
    OBVIOUS
  <2>2. ~ (k < n)
    BY <1>1, <2>1 DEF LessThan
  <2> QED
    BY <2>1, <2>2
<1> QED
  BY <1>2

\* What holds of 0 and of each successor holds of every number.
LEMMA SetInduction ==
  ASSUME NEW S, 0 \in S, \A n \in Nat : n \in S => n + 1 \in S
  PROVE  \A n \in Nat : n \in S
<1> DEFINE rest == {n \in Nat : n \notin S}
<1> SUFFICES ASSUME rest # {} PROVE FALSE
  OBVIOUS
<1>1. PICK n \in rest : \A k \in rest : n <= k
  BY LeastNumber
<1>2. n \in Nat /\ n # 0
  OBVIOUS
<1>3. n - 1 \in Nat /\ ~ (n <= n - 1) /\ (n - 1) + 1 = n
  BY <1>2
<1>4. n - 1 \in S
  BY <1>1, <1>3
<1> QED
  BY <1>3, <1>4

\* Some places of a list have a first and a last one.
LEMMA FirstAndLast ==
  ASSUME NEW n \in Nat, NEW I, I \subseteq 1 .. n, I # {}
  PROVE  /\ \E i \in I : \A j \in I : i <= j
         /\ \E i \in I : \A j \in I : j <= i
<1>1. \E i \in I : \A j \in I : i <= j
  <2>1. I \subseteq Nat
    OBVIOUS
  <2> QED
    BY <2>1, LeastNumber
<1>2. \E i \in I : \A j \in I : j <= i
  <2> DEFINE above == {m \in Nat : \A j \in I : j <= m}
  <2>1. n \in above /\ above \subseteq Nat
    OBVIOUS
  <2>2. PICK m \in above : \A k \in above : m <= k
    BY <2>1, LeastNumber
  <2>3. m \in Nat /\ \A j \in I : j \in Nat /\ j # 0 /\ j <= m
    OBVIOUS
  <2>4. m \in I
    <3> SUFFICES ASSUME m \notin I PROVE FALSE
      OBVIOUS
    <3>1. PICK j \in I : TRUE
      OBVIOUS
    <3>2. m # 0 /\ m - 1 \in Nat /\ ~ (m <= m - 1)
      BY <2>3, <3>1
    <3>3. ASSUME NEW k \in I PROVE k <= m - 1
      BY <2>3, <3>2, k # m
    <3> QED
      BY <2>2, <3>2, <3>3
  <2> QED
    BY <2>3, <2>4
<1> QED
  BY <1>1, <1>2

----------------------------------------------------------------------------
(* The function Where defines by recursion *)

PrefixStep(f, s, I, n) == IF n \in I THEN Append(f[n - 1], s[n]) ELSE f[n - 1]
Partials(f, s, I, m) ==
  f = [n \in 0 .. m |-> IF n = 0 THEN <<>> ELSE PrefixStep(f, s, I, n)]

LEMMA PartialsExtend ==
  ASSUME NEW s, NEW I, NEW m \in Nat, NEW f, Partials(f, s, I, m)
  PROVE  \E g : Partials(g, s, I, m + 1)
<1> DEFINE g == [n \in 0 .. m + 1 |-> IF n = m + 1 THEN PrefixStep(f, s, I, n) ELSE f[n]]
<1>1. ASSUME NEW n \in 0 .. m + 1
      PROVE  g[n] = IF n = 0 THEN <<>> ELSE PrefixStep(g, s, I, n)
  <2>1. CASE n = 0
    BY <2>1 DEF Partials
  <2>2. CASE n # 0
    <3>1. n - 1 \in 0 .. m /\ g[n - 1] = f[n - 1]
      BY <2>2
    <3>2. g[n] = PrefixStep(f, s, I, n)
      BY <2>2 DEF Partials
    <3>3. PrefixStep(f, s, I, n) = PrefixStep(g, s, I, n)
      BY <3>1 DEF PrefixStep
    <3> HIDE DEF g
    <3> QED
      BY <2>2, <3>2, <3>3
  <2> QED
    BY <2>1, <2>2
<1>2. g = [n \in 0 .. m + 1 |-> g[n]]
  OBVIOUS
<1> HIDE DEF g
<1>3. Partials(g, s, I, m + 1)
  BY <1>1, <1>2 DEF Partials
<1> QED
  BY <1>3

LEMMA PartialsExist ==
  ASSUME NEW s, NEW I
  PROVE  \A m \in Nat : \E f : Partials(f, s, I, m)
<1> DEFINE S == {m \in Nat : \E f : Partials(f, s, I, m)}
<1>1. 0 \in S
  <2>1. Partials([n \in 0 .. 0 |-> <<>>], s, I, 0)
    BY DEF Partials
  <2> QED
    BY <2>1
<1>2. \A m \in Nat : m \in S => m + 1 \in S
  BY PartialsExtend
<1> HIDE DEF S
<1>3. \A m \in Nat : m \in S
  BY <1>1, <1>2, SetInduction
<1> QED
  BY <1>3 DEF S

\* What the CHOOSE of the recursive definition picks.
LEMMA WhereIs ==
  ASSUME NEW S, NEW s \in Seq(S), NEW I
  PROVE  \E f : Partials(f, s, I, Len(s)) /\ Where(s, I) = f[Len(s)]
<1> DEFINE f == CHOOSE f : Partials(f, s, I, Len(s))
<1>1. Len(s) \in Nat
  OBVIOUS
<1>2. Partials(f, s, I, Len(s))
  BY <1>1, PartialsExist
<1>3. Where(s, I) = f[Len(s)]
  BY DEF Where, Partials, PrefixStep
<1> HIDE DEF f
<1> QED
  BY <1>2, <1>3

----------------------------------------------------------------------------
(* Where(s, I) is s along the places of I *)

\* e numbers the places of I up to n, in order, and r is s along them.
Along(r, s, I, n, e) ==
  /\ e \in [1 .. Len(r) -> I \cap (1 .. n)]
  /\ \A j, k \in 1 .. Len(r) : j < k => e[j] < e[k]
  /\ \A i \in I \cap (1 .. n) : \E j \in 1 .. Len(r) : e[j] = i
  /\ \A j \in 1 .. Len(r) : r[j] = s[e[j]]

LEMMA AlongStep ==
  ASSUME NEW S, NEW s \in Seq(S), NEW I, NEW n \in Nat, n + 1 \in 1 .. Len(s),
         NEW r \in Seq(S), NEW e, Along(r, s, I, n, e), n + 1 \in I
  PROVE  \E f : Along(Append(r, s[n + 1]), s, I, n + 1, f)
<1> DEFINE q == Append(r, s[n + 1])
           f == [j \in 1 .. Len(r) + 1 |-> IF j = Len(r) + 1 THEN n + 1 ELSE e[j]]
<1>0. Len(r) \in Nat /\ s[n + 1] \in S
  OBVIOUS
<1>1. /\ q \in Seq(S) /\ Len(q) = Len(r) + 1
      /\ \A j \in 1 .. Len(r) : q[j] = r[j]
      /\ q[Len(r) + 1] = s[n + 1]
  BY <1>0
<1>2. \A j \in 1 .. Len(r) : e[j] \in I /\ e[j] \in 1 .. n /\ f[j] = e[j]
  BY <1>0 DEF Along
<1>3. f[Len(r) + 1] = n + 1
  BY <1>0
<1>4. \A j \in 1 .. Len(q) : j \in 1 .. Len(r) \/ j = Len(r) + 1
  BY <1>0, <1>1
<1>5. DOMAIN f = 1 .. Len(q)
  BY <1>1
<1> HIDE DEF q, f
<1>6. \A j \in 1 .. Len(q) : f[j] \in I \cap (1 .. n + 1)
  BY <1>2, <1>3, <1>4
<1>7. f \in [1 .. Len(q) -> I \cap (1 .. n + 1)]
  <2>1. f = [j \in 1 .. Len(q) |-> f[j]]
    BY <1>5 DEF f
  <2> QED
    BY <1>6, <2>1
<1>8. \A j, k \in 1 .. Len(q) : j < k => f[j] < f[k]
  <2> SUFFICES ASSUME NEW j \in 1 .. Len(q), NEW k \in 1 .. Len(q), j < k
               PROVE  f[j] < f[k]
    OBVIOUS
  <2>1. j \in 1 .. Len(r)
    BY <1>0, <1>1
  <2>2. CASE k \in 1 .. Len(r)
    BY <1>2, <2>1, <2>2 DEF Along
  <2>3. CASE k = Len(r) + 1
    BY <1>2, <1>3, <2>1, <2>3
  <2> QED
    BY <1>4, <2>2, <2>3
<1>9. ASSUME NEW i \in I \cap (1 .. n + 1)
      PROVE  \E j \in 1 .. Len(q) : f[j] = i
  <2>1. CASE i = n + 1
    BY <1>0, <1>1, <1>3, <2>1
  <2>2. CASE i # n + 1
    <3>1. i \in I \cap (1 .. n)
      BY <2>2
    <3>2. PICK j \in 1 .. Len(r) : e[j] = i
      BY <3>1 DEF Along
    <3> QED
      BY <1>0, <1>1, <1>2, <3>2
  <2> QED
    BY <2>1, <2>2
<1>10. \A j \in 1 .. Len(q) : q[j] = s[f[j]]
  BY <1>1, <1>2, <1>3, <1>4 DEF Along
<1> QED
  BY <1>7, <1>8, <1>9, <1>10 DEF Along, q

LEMMA WhereAlong ==
  ASSUME NEW S, NEW s \in Seq(S), NEW I
  PROVE  /\ Where(s, I) \in Seq(S)
         /\ \E e : Along(Where(s, I), s, I, Len(s), e)
<1>1. PICK f : Partials(f, s, I, Len(s)) /\ Where(s, I) = f[Len(s)]
  BY WhereIs
<1> DEFINE P(n) == n <= Len(s) => f[n] \in Seq(S) /\ \E e : Along(f[n], s, I, n, e)
           T == {n \in Nat : P(n)}
<1>0. Len(s) \in Nat
  OBVIOUS
<1>2. 0 \in T
  <2>1. f[0] = <<>>
    BY <1>0, <1>1 DEF Partials
  <2>2. Along(<<>>, s, I, 0, <<>>)
    BY DEF Along
  <2>3. f[0] \in Seq(S)
    BY <2>1
  <2>4. P(0)
    BY <2>1, <2>2, <2>3
  <2> HIDE DEF P
  <2> QED
    BY <2>4
<1>3. ASSUME NEW n \in Nat, P(n)
      PROVE  P(n + 1)
  <2> SUFFICES ASSUME n + 1 <= Len(s)
               PROVE  f[n + 1] \in Seq(S) /\ \E e : Along(f[n + 1], s, I, n + 1, e)
    OBVIOUS
  <2>1. /\ n + 1 \in 1 .. Len(s) /\ n \in 0 .. Len(s)
        /\ (n + 1) - 1 = n
    BY <1>0
  <2>2. f[n] \in Seq(S) /\ \E e : Along(f[n], s, I, n, e)
    BY <1>3, <2>1
  <2>3. PICK e : Along(f[n], s, I, n, e)
    BY <2>2
  <2>4. f[n + 1] = PrefixStep(f, s, I, n + 1)
    BY <1>0, <1>1, <2>1 DEF Partials
  <2>5. CASE n + 1 \in I
    <3>1. f[n + 1] = Append(f[n], s[n + 1])
      BY <2>1, <2>4, <2>5 DEF PrefixStep
    <3>2. s[n + 1] \in S
      BY <2>1
    <3> QED
      BY <2>1, <2>2, <2>3, <2>5, <3>1, <3>2, AlongStep
  <2>6. CASE n + 1 \notin I
    <3>1. f[n + 1] = f[n]
      BY <2>1, <2>4, <2>6 DEF PrefixStep
    <3>2. I \cap (1 .. n + 1) = I \cap (1 .. n)
      BY <2>6
    <3>3. Along(f[n], s, I, n + 1, e)
      BY <2>3, <3>2 DEF Along
    <3> QED
      BY <2>2, <3>1, <3>3
  <2> QED
    BY <2>5, <2>6
<1> HIDE DEF P
<1>4. \A n \in Nat : n \in T => n + 1 \in T
  BY <1>3
<1> HIDE DEF T
<1>5. Len(s) \in T
  BY <1>0, <1>2, <1>4, SetInduction
<1>6. P(Len(s))
  BY <1>5 DEF T
<1> QED
  BY <1>0, <1>1, <1>6 DEF P

\* The elements of Where(s, I), their places, and that none is repeated.
LEMMA WhereFacts ==
  ASSUME NEW S, NEW s \in Seq(S), NEW I
  PROVE  LET r == Where(s, I)
         IN  /\ r \in Seq(S)
             /\ \A j \in DOMAIN r : \E i \in I \cap DOMAIN s : r[j] = s[i]
             /\ \A i \in I \cap DOMAIN s : \E j \in DOMAIN r : r[j] = s[i]
             /\ \A j, k \in DOMAIN r : j # k =>
                  \E h, i \in I \cap DOMAIN s : h # i /\ r[j] = s[h] /\ r[k] = s[i]
<1> DEFINE r == Where(s, I)
<1>1. r \in Seq(S) /\ Len(r) \in Nat /\ DOMAIN r = 1 .. Len(r) /\ DOMAIN s = 1 .. Len(s)
  BY WhereAlong
<1>2. PICK e : Along(r, s, I, Len(s), e)
  BY WhereAlong
<1> HIDE DEF r
<1>3. \A j \in DOMAIN r : e[j] \in I \cap DOMAIN s /\ r[j] = s[e[j]]
  BY <1>1, <1>2 DEF Along
<1>4. \A j, k \in DOMAIN r : j # k => e[j] # e[k]
  <2> SUFFICES ASSUME NEW j \in DOMAIN r, NEW k \in DOMAIN r, j # k
               PROVE  e[j] # e[k]
    OBVIOUS
  <2>1. j \in Nat /\ k \in Nat /\ e[j] \in Nat /\ e[k] \in Nat
    BY <1>1, <1>3
  <2>2. j < k \/ k < j
    BY <2>1
  <2>3. e[j] < e[k] \/ e[k] < e[j]
    BY <1>1, <1>2, <2>2 DEF Along
  <2> QED
    BY <2>1, <2>3
<1>5. \A i \in I \cap DOMAIN s : \E j \in DOMAIN r : e[j] = i
  BY <1>1, <1>2 DEF Along
<1> QED
  BY <1>1, <1>3, <1>4, <1>5 DEF r

----------------------------------------------------------------------------
(* Lists one after the other *)

LEMMA ConcatIs ==
  ASSUME NEW S, NEW s \in Seq(S), NEW t \in Seq(S)
  PROVE  /\ s \o t \in Seq(S) /\ Len(s \o t) = Len(s) + Len(t)
         /\ \A i \in 1 .. Len(s) : (s \o t)[i] = s[i]
         /\ \A i \in 1 .. Len(t) : (s \o t)[Len(s) + i] = t[i]
OBVIOUS
============================================================================
