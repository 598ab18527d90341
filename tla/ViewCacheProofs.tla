--------------------------- MODULE ViewCacheProofs ---------------------------
(***************************************************************************)
(* Machine-checked proofs about ViewCache: the caches stay typed and       *)
(* within their limits, answers are never staler than TTL and compute time *)
(* allow, and the circuit breaker keeps a dead server from being hammered. *)
(***************************************************************************)
EXTENDS ViewCache, WellFoundedInduction, TLAPS

-----------------------------------------------------------------------------
(* Filtering a sequence *)

\* A set of numbers that is not empty has a least one.
LEMMA LeastNumber ==
    ASSUME NEW T, T \subseteq Nat, T # {}
    PROVE  \E x \in T : \A y \in T : x <= y
<1> DEFINE R == OpToRel(<, Nat)
<1>1. IsWellFoundedOn(R, Nat)
  BY NatLessThanWellFounded
<1>2. \A x \in Nat, y \in Nat : <<y, x>> \in R <=> y < x
  BY DEF OpToRel
<1> HIDE DEF R
<1>3. PICK x \in T : \A y \in T : ~ (<<y, x>> \in R)
  BY <1>1, WFMin
<1>4. \A y \in T : x <= y
  <2> TAKE y \in T
  <2>1. x \in Nat /\ y \in Nat /\ ~ (y < x)
    BY <1>2, <1>3
  <2> QED
    BY <2>1
<1> QED
  BY <1>4

\* What SelectSeq computes: the part kept of the first i elements of s, if the
\* indices in T are those to keep.
FirstParts(F, s, n, T) ==
    F = [i \in 0..n |-> IF i = 0 THEN << >>
                        ELSE IF i \in T THEN Append(F[i - 1], s[i]) ELSE F[i - 1]]

\* There are such parts, by induction on the number of elements.
LEMMA FirstPartsExist ==
    ASSUME NEW s, NEW n \in Nat, NEW T
    PROVE  \E F : FirstParts(F, s, n, T)
<1> DEFINE Good(m) == \E F : FirstParts(F, s, m, T)
           Bad == {m \in 0..n : ~ Good(m)}
<1> HIDE DEF Good
<1>1. Bad = {}
  <2> SUFFICES ASSUME Bad # {} PROVE FALSE
    OBVIOUS
  <2>0. Bad \subseteq Nat
    OBVIOUS
  <2>1. PICK m \in Bad : \A y \in Bad : m <= y
    <3> HIDE DEF Bad
    <3> QED
      BY <2>0, LeastNumber
  <2>2. m # 0
    <3>1. FirstParts([i \in 0..0 |-> << >>], s, 0, T)
      BY DEF FirstParts
    <3> QED
      BY <2>1, <3>1 DEF Good
  <2>3. m - 1 \in 0..n /\ m - 1 \notin Bad
    BY <2>1, <2>2
  <2>4. PICK F : FirstParts(F, s, m - 1, T)
    BY <2>3 DEF Good
  <2> DEFINE G == [i \in 0..m |-> IF i < m THEN F[i]
                                  ELSE IF m \in T THEN Append(F[m - 1], s[m]) ELSE F[m - 1]]
             H == [i \in 0..m |-> IF i = 0 THEN << >>
                                  ELSE IF i \in T THEN Append(G[i - 1], s[i]) ELSE G[i - 1]]
  <2>5. \A i \in 0..m : G[i] = H[i]
    <3> TAKE i \in 0..m
    <3>1. CASE i = 0
      <4>1. F[0] = << >>
        BY <2>2, <2>3, <2>4 DEF FirstParts
      <4> QED
        BY <2>2, <3>1, <4>1
    <3>2. CASE i # 0 /\ i < m
      <4>1. i \in 0..(m - 1) /\ i - 1 \in 0..m /\ i - 1 < m
        BY <3>2
      <4>2. F[i] = IF i \in T THEN Append(F[i - 1], s[i]) ELSE F[i - 1]
        BY <2>4, <3>2, <4>1 DEF FirstParts
      <4>3. G[i - 1] = F[i - 1] /\ G[i] = F[i]
        BY <3>2, <4>1
      <4> QED
        BY <3>2, <4>2, <4>3
    <3>3. CASE i = m
      <4>1. G[m - 1] = F[m - 1]
        BY <2>2
      <4> QED
        BY <2>2, <3>3, <4>1
    <3> QED
      BY <3>1, <3>2, <3>3
  <2>6. FirstParts(G, s, m, T)
    BY <2>5 DEF FirstParts
  <2> QED
    BY <2>1, <2>6 DEF Good
<1>2. Good(n)
  BY <1>1
<1> QED
  BY <1>2 DEF Good

\* What a filter of s may return: elements of s with an index in T, no longer
\* than s, shorter if something was dropped, and no view twice.
Filtered(t, s, n, S, T) ==
    /\ t \in Seq(S)
    /\ Len(t) <= n
    /\ (\E i \in 1..n : i \notin T) => Len(t) < n
    /\ \A k \in 1..Len(t) : \E j \in 1..n : j \in T /\ t[k] = s[j]
    /\ (\A i, j \in 1..Len(s) : s[i].view = s[j].view => i = j) =>
           \A k, l \in 1..Len(t) : t[k].view = t[l].view => k = l

\* The parts are filters of the first elements, by the same induction.
LEMMA FirstPartsFiltered ==
    ASSUME NEW S, NEW s \in Seq(S), NEW T, NEW F, FirstParts(F, s, Len(s), T)
    PROVE  Filtered(F[Len(s)], s, Len(s), S, T)
<1> DEFINE Good(m) == Filtered(F[m], s, m, S, T)
           Bad == {m \in 0..Len(s) : ~ Good(m)}
<1>0. Len(s) \in Nat
  OBVIOUS
<1> HIDE DEF Good
<1>1. Bad = {}
  <2> SUFFICES ASSUME Bad # {} PROVE FALSE
    OBVIOUS
  <2>0. Bad \subseteq Nat
    OBVIOUS
  <2>1. PICK m \in Bad : \A y \in Bad : m <= y
    <3> HIDE DEF Bad
    <3> QED
      BY <2>0, LeastNumber
  <2>2. m # 0
    <3>1. F[0] = << >>
      BY <1>0 DEF FirstParts
    <3>2. Good(0)
      BY <3>1 DEF Good, Filtered
    <3> QED
      BY <2>1, <3>2
  <2>3. m - 1 \in 0..Len(s) /\ m - 1 \notin Bad
    BY <2>1, <2>2
  <2>4. Filtered(F[m - 1], s, m - 1, S, T)
    BY <2>3 DEF Good
  <2> DEFINE u == F[m - 1]
  <2>5. F[m] = IF m \in T THEN Append(u, s[m]) ELSE u
    BY <2>1, <2>2 DEF FirstParts
  <2>6. s[m] \in S
    BY <2>1, <2>2
  <2> HIDE DEF u
  <2>7. Filtered(u, s, m - 1, S, T)
    BY <2>4 DEF u
  <2>8. CASE m \in T
    <3> DEFINE t == Append(u, s[m])
    <3>1. /\ t \in Seq(S) /\ Len(t) = Len(u) + 1 /\ t[Len(t)] = s[m]
          /\ \A k \in 1..Len(u) : t[k] = u[k]
      BY <2>6, <2>7 DEF Filtered
    <3>2. Len(u) \in Nat /\ Len(u) <= m - 1 /\ m \in 1..Len(s)
      BY <2>1, <2>2, <2>7 DEF Filtered
    <3> HIDE DEF t
    <3>3. Len(t) <= m /\ ((\E i \in 1..m : i \notin T) => Len(t) < m)
      <4>1. ASSUME NEW i \in 1..m, i \notin T PROVE Len(u) < m - 1
        <5>1. i \in 1..(m - 1)
          BY <2>8, <4>1, <3>2
        <5> QED
          BY <2>7, <4>1, <5>1 DEF Filtered
      <4> QED
        BY <3>1, <3>2, <4>1
    <3>4. ASSUME NEW k \in 1..Len(t)
          PROVE  \E j \in 1..m : /\ j \in T /\ t[k] = s[j]
                                 /\ k = Len(t) => j = m
                                 /\ k < Len(t) => j < m
      <4>1. CASE k = Len(t)
        BY <2>8, <3>1, <3>2, <4>1
      <4>2. CASE k # Len(t)
        <5>1. k \in 1..Len(u) /\ k < Len(t)
          BY <3>1, <3>2, <4>2
        <5>2. PICK j \in 1..(m - 1) : j \in T /\ u[k] = s[j]
          BY <2>7, <5>1 DEF Filtered
        <5>3. j \in 1..m /\ j < m
          BY <3>2
        <5> QED
          BY <3>1, <5>1, <5>2, <5>3
      <4> QED
        BY <4>1, <4>2
    <3>5. ASSUME \A i, j \in 1..Len(s) : s[i].view = s[j].view => i = j,
                 NEW k \in 1..Len(t), NEW l \in 1..Len(t), t[k].view = t[l].view
          PROVE  k = l
      <4>1. CASE k = Len(t) /\ l # Len(t)
        <5>1. PICK j \in 1..m : t[l] = s[j] /\ j < m
          BY <3>2, <3>4, <4>1
        <5> QED
          BY <3>1, <3>2, <3>5, <4>1, <5>1
      <4>2. CASE k # Len(t) /\ l = Len(t)
        <5>1. PICK j \in 1..m : t[k] = s[j] /\ j < m
          BY <3>2, <3>4, <4>2
        <5> QED
          BY <3>1, <3>2, <3>5, <4>2, <5>1
      <4>3. CASE k # Len(t) /\ l # Len(t)
        <5>1. k \in 1..Len(u) /\ l \in 1..Len(u)
          BY <3>1, <3>2, <4>3
        <5>2. u[k].view = u[l].view
          BY <3>1, <3>5, <5>1
        <5> QED
          BY <2>7, <3>5, <5>1, <5>2 DEF Filtered
      <4> QED
        BY <4>1, <4>2, <4>3
    <3>6. Filtered(t, s, m, S, T)
      <4>1. \A k \in 1..Len(t) : \E j \in 1..m : j \in T /\ t[k] = s[j]
        BY <3>4
      <4> QED
        BY <3>1, <3>3, <3>5, <4>1 DEF Filtered
    <3>7. F[m] = t
      BY <2>5, <2>8 DEF t
    <3> QED
      BY <2>1, <3>6, <3>7 DEF Good
  <2>9. CASE m \notin T
    <3>1. F[m] = u /\ Len(u) \in Nat /\ m \in Nat
      BY <2>1, <2>5, <2>7, <2>9 DEF Filtered
    <3>2. 1..(m - 1) \subseteq 1..m /\ m \in 1..m
      BY <2>2, <3>1
    <3>3. Filtered(u, s, m, S, T)
      BY <2>7, <2>9, <3>1, <3>2 DEF Filtered
    <3> QED
      BY <2>1, <3>1, <3>3 DEF Good
  <2> QED
    BY <2>8, <2>9
<1>2. Good(Len(s))
  BY <1>0, <1>1
<1> QED
  BY <1>2 DEF Good

\* Keep(s, vs) is a filter of s.
LEMMA KeepFilters ==
    ASSUME NEW S, NEW s \in Seq(S), NEW vs
    PROVE  Filtered(Keep(s, vs), s, Len(s), S, {i \in 1..Len(s) : s[i].view \in vs})
<1> DEFINE T == {i \in 1..Len(s) : s[i].view \in vs}
           Eq(F) == F = [i \in 0..Len(s) |->
                            IF i = 0 THEN << >>
                            ELSE IF s[i].view \in vs THEN Append(F[i - 1], s[i]) ELSE F[i - 1]]
           F0 == CHOOSE F : Eq(F)
<1>0. Len(s) \in Nat
  OBVIOUS
<1>1. \A F : Eq(F) <=> FirstParts(F, s, Len(s), T)
  BY <1>0 DEF FirstParts
<1>2. Eq(F0)
  <2>1. \E F : Eq(F)
    BY <1>0, <1>1, FirstPartsExist
  <2> QED
    BY <2>1
<1>3. Keep(s, vs) = F0[Len(s)]
  BY DEF Keep
<1> HIDE DEF F0, Eq, T
<1>4. Filtered(F0[Len(s)], s, Len(s), S, T)
  BY <1>1, <1>2, FirstPartsFiltered
<1> QED
  BY <1>3, <1>4 DEF T

-----------------------------------------------------------------------------
(* The content of a cache *)

\* t is a content made of entries that satisfy P[e]: typed and within limits.
Content(t, P) ==
    /\ t \in Seq(Entry)
    /\ WithinLimits(t)
    /\ \A k \in 1..Len(t) : t[k] \in P

Held(s) == {s[i] : i \in 1..Len(s)}

\* Dropping entries leaves a content with nothing new.
LEMMA KeepContent ==
    ASSUME NEW s \in Seq(Entry), WithinLimits(s), NEW vs
    PROVE  Content(Keep(s, vs), Held(s))
<1> DEFINE t == Keep(s, vs)
           T == {i \in 1..Len(s) : s[i].view \in vs}
<1>1. Filtered(t, s, Len(s), Entry, T)
  BY KeepFilters
<1> HIDE DEF t, T
<1>2. Len(t) \in Nat /\ Len(s) \in Nat /\ Len(t) <= Len(s)
  BY <1>1 DEF Filtered
<1>3. WithinLimits(t)
  BY <1>1, <1>2, ViewCacheAssumption DEF Filtered, WithinLimits
<1> QED
  BY <1>1, <1>3 DEF Filtered, Content, Held, t

\* An entry put at the end of a content that has dropped its view leaves no view
\* twice, and takes the place of what was dropped.
LEMMA AppendContent ==
    ASSUME NEW s \in Seq(Entry), WithinLimits(s), NEW e \in Entry, deployment \in Deployments
    PROVE  LET t == Append(Without(s, e.view), e) IN
           /\ t \in Seq(Entry)
           /\ \A i, j \in 1..Len(t) : t[i].view = t[j].view => i = j
           /\ \A k \in 1..Len(t) : t[k] \in Held(s) \union {e}
           /\ Backend = "memory" => Len(t) <= MaxEntries + 1
           /\ (\E i \in 1..Len(s) : s[i].view = e.view) => Len(t) <= Len(s)
<1> DEFINE u == Without(s, e.view)
           t == Append(u, e)
           T == {i \in 1..Len(s) : s[i].view \in Views \ {e.view}}
<1>1. Filtered(u, s, Len(s), Entry, T)
  BY KeepFilters DEF Without
<1> HIDE DEF u
<1>2. /\ Len(u) \in Nat /\ Len(s) \in Nat /\ Len(u) <= Len(s) /\ MaxEntries \in Nat
      /\ (\E i \in 1..Len(s) : s[i].view = e.view) => Len(u) < Len(s)
  <2>1. Len(u) \in Nat /\ Len(s) \in Nat /\ Len(u) <= Len(s) /\ MaxEntries \in Nat
    BY <1>1, ViewCacheAssumption DEF Filtered
  <2>2. \A i \in 1..Len(s) : s[i].view = e.view => i \notin T
    OBVIOUS
  <2>3. (\E i \in 1..Len(s) : i \notin T) => Len(u) < Len(s)
    BY <1>1 DEF Filtered
  <2> QED
    BY <2>1, <2>2, <2>3
<1>3. /\ t \in Seq(Entry) /\ Len(t) = Len(u) + 1 /\ t[Len(t)] = e
      /\ \A k \in 1..Len(u) : t[k] = u[k]
  BY <1>1 DEF Filtered
<1>4. \A k \in 1..Len(u) : u[k] \in Held(s) /\ u[k].view # e.view
  BY <1>1 DEF Filtered, Held
<1>5. \A i, j \in 1..Len(u) : u[i].view = u[j].view => i = j
  BY <1>1 DEF Filtered, WithinLimits
<1> HIDE DEF t
<1>6. \A k \in 1..Len(t) : k = Len(t) \/ k \in 1..Len(u)
  BY <1>2, <1>3
<1>7. \A i, j \in 1..Len(t) : t[i].view = t[j].view => i = j
  BY <1>3, <1>4, <1>5, <1>6
<1>8. \A k \in 1..Len(t) : t[k] \in Held(s) \union {e}
  BY <1>3, <1>4, <1>6
<1>9. Backend = "memory" => Len(t) <= MaxEntries + 1
  BY <1>2, <1>3 DEF WithinLimits
<1>10. (\E i \in 1..Len(s) : s[i].view = e.view) => Len(t) <= Len(s)
  BY <1>2, <1>3
<1> QED
  BY <1>3, <1>7, <1>8, <1>9, <1>10 DEF t, u

\* A hit moves an entry and nothing else.
LEMMA HitContent ==
    ASSUME TypeOK, NEW o \in Caches, NEW v, NEW e \in Found(o, v)
    PROVE  Content(AfterHit(o, e), Held(entries[o]))
<1> DEFINE s == entries[o]
<1>1. s \in Seq(Entry) /\ WithinLimits(s) /\ deployment \in Deployments
  BY DEF TypeOK
<1>2. PICK i \in 1..Len(s) : e = s[i]
  BY DEF Found
<1>3. e \in Entry /\ e \in Held(s) /\ e.view = s[i].view
  BY <1>1, <1>2 DEF Held
<1> HIDE DEF s
<1>4. CASE Backend = "memory"
  <2> DEFINE t == Append(Without(s, e.view), e)
  <2>1. /\ t \in Seq(Entry)
        /\ \A k, j \in 1..Len(t) : t[k].view = t[j].view => k = j
        /\ \A k \in 1..Len(t) : t[k] \in Held(s) \union {e}
        /\ (\E k \in 1..Len(s) : s[k].view = e.view) => Len(t) <= Len(s)
    BY <1>1, <1>3, AppendContent
  <2> HIDE DEF t
  <2>2. Len(t) <= MaxEntries
    BY <1>1, <1>2, <1>3, <1>4, <2>1, ViewCacheAssumption DEF WithinLimits
  <2>3. AfterHit(o, e) = t
    BY <1>4 DEF AfterHit, t, s
  <2> QED
    BY <1>3, <2>1, <2>2, <2>3 DEF Content, WithinLimits, s
<1>5. CASE Backend # "memory"
  BY <1>1, <1>5 DEF AfterHit, Content, Held, s
<1> QED
  BY <1>4, <1>5

NewEntry(v, value) == [view |-> v, value |-> value, expires |-> now + Lifetime[v]]

\* A store adds one entry, and evicts one that is at the other end if needed.
LEMMA SetContent ==
    ASSUME TypeOK, NEW o \in Caches, NEW v \in Views, NEW value \in Nat
    PROVE  Content(AfterSet(o, v, value), Held(entries[o]) \union {NewEntry(v, value)})
<1> DEFINE s == entries[o]
           e == NewEntry(v, value)
           t == Append(Without(s, e.view), e)
<1>1. s \in Seq(Entry) /\ WithinLimits(s) /\ deployment \in Deployments
  BY DEF TypeOK
<1>2. e \in Entry /\ e.view = v
  <2>1. Lifetime[v] \in Nat /\ now \in Nat
    BY <1>1, ViewCacheAssumption DEF Lifetime, Views, TypeOK
  <2> QED
    BY <2>1 DEF Entry, NewEntry
<1> HIDE DEF e, s
<1>3. /\ t \in Seq(Entry)
      /\ \A k, j \in 1..Len(t) : t[k].view = t[j].view => k = j
      /\ \A k \in 1..Len(t) : t[k] \in Held(s) \union {e}
      /\ Backend = "memory" => Len(t) <= MaxEntries + 1
  BY <1>1, <1>2, AppendContent
<1>4. AfterSet(o, v, value) = IF Backend = "memory" /\ Len(t) > MaxEntries THEN Tail(t) ELSE t
  BY <1>2 DEF AfterSet, NewEntry, e, s
<1>5. MaxEntries \in Nat \ {0}
  BY ViewCacheAssumption
<1> HIDE DEF t
<1>6. CASE Backend = "memory" /\ Len(t) > MaxEntries
  <2>1. /\ Tail(t) \in Seq(Entry) /\ Len(Tail(t)) = Len(t) - 1
        /\ \A k \in 1..Len(Tail(t)) : Tail(t)[k] = t[k + 1] /\ k + 1 \in 1..Len(t)
    BY <1>3, <1>5, <1>6
  <2>2. Len(Tail(t)) <= MaxEntries
    BY <1>3, <1>5, <1>6, <2>1
  <2>3. \A k, j \in 1..Len(Tail(t)) : Tail(t)[k].view = Tail(t)[j].view => k = j
    BY <1>3, <2>1
  <2>4. \A k \in 1..Len(Tail(t)) : Tail(t)[k] \in Held(s) \union {e}
    BY <1>3, <2>1
  <2> QED
    BY <1>4, <1>6, <2>1, <2>2, <2>3, <2>4 DEF Content, WithinLimits, e, s
<1>7. CASE ~ (Backend = "memory" /\ Len(t) > MaxEntries)
  <2>1. Backend = "memory" => Len(t) <= MaxEntries
    BY <1>3, <1>5, <1>7
  <2> QED
    BY <1>3, <1>4, <1>7, <2>1 DEF Content, WithinLimits, e, s
<1> QED
  BY <1>6, <1>7

\* What a step may make of the caches: each keeps its type and its limits, and
\* holds nothing new but entries of P.
CachesStep(P) ==
    /\ entries' \in [Caches -> Seq(Entry)]
    /\ \A c \in Caches :
          /\ WithinLimits(entries'[c])
          /\ \A k \in 1..Len(entries'[c]) : entries'[c][k] \in Held(entries[c]) \union P

\* One cache gets a new content.
LEMMA UpdateOne ==
    ASSUME TypeOK, NEW o \in Caches, NEW t, NEW P, Content(t, Held(entries[o]) \union P),
           entries' = [entries EXCEPT ![o] = t]
    PROVE  CachesStep(P)
<1>1. entries' \in [Caches -> Seq(Entry)]
  BY DEF Content, TypeOK
<1>2. ASSUME NEW c \in Caches
      PROVE  /\ WithinLimits(entries'[c])
             /\ \A k \in 1..Len(entries'[c]) : entries'[c][k] \in Held(entries[c]) \union P
  <2>1. CASE c = o
    <3>1. entries'[c] = t
      BY <2>1 DEF TypeOK
    <3> QED
      BY <2>1, <3>1 DEF Content
  <2>2. CASE c # o
    <3>1. entries'[c] = entries[c]
      BY <2>2 DEF TypeOK
    <3> QED
      BY <3>1 DEF TypeOK, Held
  <2> QED
    BY <2>1, <2>2
<1> QED
  BY <1>1, <1>2 DEF CachesStep

\* No cache changes.
LEMMA UpdateNone ==
    ASSUME TypeOK, NEW P, entries' = entries
    PROVE  CachesStep(P)
BY DEF TypeOK, CachesStep, Held

\* The cache of a replica is one of the caches.
LEMMA CacheOfReplica ==
    ASSUME TypeOK, NEW r \in Replicas
    PROVE  CacheOf(r) \in Caches
BY DEF CacheOf, Caches

\* Clearing a prefix, or all of them, drops entries.
LEMMA ClearContent ==
    ASSUME TypeOK, NEW o \in Caches, NEW prefixes
    PROVE  Content(Cleared(o, prefixes), Held(entries[o]) \union {})
<1>1. entries[o] \in Seq(Entry) /\ WithinLimits(entries[o])
  BY DEF TypeOK
<1>2. Content(Cleared(o, prefixes), Held(entries[o]))
  BY <1>1, KeepContent DEF Cleared
<1> QED
  BY <1>2

\* What cache.clear makes of the caches.
LEMMA ClearStep ==
    ASSUME TypeOK, NEW r \in Replicas, NEW p, Clear(r, p)
    PROVE  CachesStep({})
<1>1. CacheOf(r) \in Caches
  BY CacheOfReplica
<1>2. CASE entries' = [entries EXCEPT ![CacheOf(r)] = Cleared(CacheOf(r), {p})]
  BY <1>1, <1>2, ClearContent, UpdateOne
<1>3. CASE entries' = entries
  BY <1>3, UpdateNone
<1> QED
  BY <1>2, <1>3 DEF Clear

\* The value that a request stores.
Stored(r) == {NewEntry(request[r].view, request[r].value)}

\* What each step makes of the caches: only Store brings something new.
LEMMA EntriesStep ==
    ASSUME TypeOK, [Next]_vars
    PROVE  \/ CachesStep({})
           \/ \E r \in Replicas : Store(r) /\ CachesStep(Stored(r))
<1>1. ASSUME NEW r \in Replicas, NEW v \in Views, Hit(r, v) PROVE CachesStep({})
  <2>1. PICK e \in Found(CacheOf(r), v) :
           entries' = [entries EXCEPT ![CacheOf(r)] = AfterHit(CacheOf(r), e)]
    BY <1>1 DEF Hit
  <2>2. Content(AfterHit(CacheOf(r), e), Held(entries[CacheOf(r)]) \union {})
    BY CacheOfReplica, HitContent
  <2> QED
    BY <2>1, <2>2, CacheOfReplica, UpdateOne
<1>2. ASSUME NEW r \in Replicas, NEW v \in Views, Miss(r, v) PROVE CachesStep({})
  <2>1. CASE Backend = "memory" /\ entries' = [entries EXCEPT ![r] = AfterMiss(r, v)]
    <3>1. r \in Caches
      BY <2>1 DEF Caches
    <3>2. entries[r] \in Seq(Entry) /\ WithinLimits(entries[r])
      BY <3>1 DEF TypeOK
    <3>3. Content(AfterMiss(r, v), Held(entries[r]) \union {})
      BY <3>2, KeepContent DEF AfterMiss, Without
    <3> QED
      BY <2>1, <3>1, <3>3, UpdateOne
  <2>2. CASE entries' = entries
    BY <2>2, UpdateNone
  <2>3. CASE \E e \in Found(CacheOf(r), v) :
               entries' = [entries EXCEPT ![CacheOf(r)] = AfterHit(CacheOf(r), e)]
    <3>1. PICK e \in Found(CacheOf(r), v) :
             entries' = [entries EXCEPT ![CacheOf(r)] = AfterHit(CacheOf(r), e)]
      BY <2>3
    <3>2. Content(AfterHit(CacheOf(r), e), Held(entries[CacheOf(r)]) \union {})
      BY CacheOfReplica, HitContent
    <3> QED
      BY <3>1, <3>2, CacheOfReplica, UpdateOne
  <2> QED
    BY <1>2, <2>1, <2>2, <2>3 DEF Miss
<1>3. ASSUME NEW r \in Replicas, Store(r) PROVE CachesStep({}) \/ CachesStep(Stored(r))
  <2> DEFINE v == request[r].view
             value == request[r].value
  <2>1. v \in Views /\ value \in Nat
    BY <1>3 DEF Store, TypeOK, Request
  <2>2. CASE entries' = [entries EXCEPT ![CacheOf(r)] = AfterSet(CacheOf(r), v, value)]
    <3>1. Content(AfterSet(CacheOf(r), v, value), Held(entries[CacheOf(r)]) \union Stored(r))
      BY <2>1, CacheOfReplica, SetContent DEF Stored
    <3> QED
      BY <2>2, <3>1, CacheOfReplica, UpdateOne
  <2>3. CASE entries' = entries
    BY <2>3, UpdateNone
  <2> QED
    BY <1>3, <2>2, <2>3 DEF Store
<1>4. ASSUME NEW r \in Replicas, NEW p, AdminClear(r, p) PROVE CachesStep({})
  BY <1>4, ClearStep DEF AdminClear
<1>5. ASSUME NEW r \in Replicas, ClearNext(r) PROVE CachesStep({})
  BY <1>5, ClearStep DEF ClearNext
<1>6. ASSUME NEW r \in Replicas, Compute(r) \/ AdminClearAll(r) \/ Ping(r)
      PROVE  CachesStep({})
  BY <1>6, UpdateNone DEF Compute, AdminClearAll, Ping
<1>7. ASSUME NEW j, Invalidate(j) PROVE CachesStep({})
  <2>1. CASE Backend = "redis" /\ entries' = [entries EXCEPT !["redis"] = Cleared("redis", Families)]
    <3>1. "redis" \in Caches
      BY <2>1 DEF Caches
    <3> QED
      BY <2>1, <3>1, ClearContent, UpdateOne
  <2>2. CASE entries' = entries
    BY <2>2, UpdateNone
  <2> QED
    BY <1>7, <2>1, <2>2 DEF Invalidate
<1>8. CASE Land \/ Tick \/ ServerFails \/ ServerReturns \/ UNCHANGED vars
  BY <1>8, UpdateNone DEF Land, Tick, ServerFails, ServerReturns, vars
<1> QED
  BY <1>1, <1>2, <1>3, <1>4, <1>5, <1>6, <1>7, <1>8 DEF Next, RequestStep

-----------------------------------------------------------------------------
(* Type correctness *)

\* A backend is one of the two.
LEMMA BackendIs == TypeOK => Backend \in {"memory", "redis"}
BY ViewCacheAssumption DEF TypeOK, Backend

\* What each step does to the server, the breakers and the clock: a call by one
\* replica, nothing, or a step of the environment.
LEMMA CallStep ==
    ASSUME TypeOK, [Next]_vars
    PROVE  \/ \E r \in Replicas : /\ CallSucceeds(r) \/ CallDegrades(r)
                                  /\ UNCHANGED <<deployment, up, downSince, outages, now>>
           \/ UNCHANGED <<deployment, up, downSince, outages, now, breaker, wasted>>
           \/ Tick \/ ServerFails \/ ServerReturns
<1>0. Backend \in {"memory", "redis"}
  BY BackendIs
<1> USE DEF serverVars, dataVars
<1>1. ASSUME NEW r \in Replicas, RequestStep(r)
      PROVE  /\ CallSucceeds(r) \/ CallDegrades(r) \/ UNCHANGED <<breaker, wasted>>
             /\ UNCHANGED <<deployment, up, downSince, outages, now>>
  <2>1. CASE \E v \in Views : Hit(r, v)
    BY <1>0, <2>1 DEF Hit
  <2>2. CASE \E v \in Views : Miss(r, v)
    BY <1>0, <2>2 DEF Miss
  <2>3. CASE Compute(r) \/ AdminClearAll(r)
    BY <2>3 DEF Compute, AdminClearAll
  <2>4. CASE Store(r)
    BY <1>0, <2>4 DEF Store
  <2>5. CASE \E p \in Views \union Families : AdminClear(r, p)
    BY <1>0, <2>5 DEF AdminClear, Clear
  <2>6. CASE ClearNext(r)
    BY <1>0, <2>6 DEF ClearNext, Clear
  <2>7. CASE Ping(r)
    BY <2>7 DEF Ping
  <2> QED
    BY <1>1, <2>1, <2>2, <2>3, <2>4, <2>5, <2>6, <2>7 DEF RequestStep
<1>2. CASE Land \/ (\E j \in running : Invalidate(j)) \/ UNCHANGED vars
  BY <1>2 DEF Land, Invalidate, vars
<1> QED
  BY <1>1, <1>2 DEF Next

\* The configuration does not change.
LEMMA SameDeployment ==
    ASSUME TypeOK, [Next]_vars
    PROVE  deployment' = deployment
BY CallStep DEF Tick, ServerFails, ServerReturns, dataVars

\* The breakers keep their types.
LEMMA BreakerTypes ==
    ASSUME TypeOK, [Next]_vars
    PROVE  /\ breaker' \in [Replicas -> Breaker] /\ wasted' \in [Replicas -> Nat]
           /\ up' \in BOOLEAN /\ downSince' \in Nat /\ outages' \in 0..MaxOutages
           /\ now' \in Nat
<1>0. /\ breaker \in [Replicas -> Breaker] /\ wasted \in [Replicas -> Nat] /\ now \in Nat
      /\ up \in BOOLEAN /\ downSince \in Nat /\ outages \in 0..MaxOutages
      /\ MaxOutages \in Nat
  BY ViewCacheAssumption DEF TypeOK
<1>1. ASSUME NEW r \in Replicas, CallSucceeds(r) \/ CallDegrades(r)
      PROVE  breaker' \in [Replicas -> Breaker] /\ wasted' \in [Replicas -> Nat]
  <2>1. ASSUME NEW b \in Breaker PROVE RecordSuccess(b) \in Breaker
    BY DEF RecordSuccess, Breaker
  <2>2. ASSUME NEW b \in Breaker PROVE RecordFailure(b) \in Breaker
    <3>1. State(b) \in {"closed", "open", "half_open"}
      BY DEF State, Breaker
    <3>2. b.failures + 1 \in Nat
      BY DEF Breaker
    <3>3. [state |-> "open", failures |-> b.failures + 1, openedAt |-> now] \in Breaker
      BY <1>0, <3>2 DEF Breaker
    <3>4. [b EXCEPT !.state = State(b), !.failures = @ + 1] \in Breaker
      BY <3>1, <3>2 DEF Breaker
    <3> QED
      BY <3>3, <3>4 DEF RecordFailure
  <2> QED
    BY <1>0, <1>1, <2>1, <2>2 DEF CallSucceeds, CallDegrades
<1>2. CASE Tick
  <2>1. now' \in Nat
    BY <1>0, <1>2 DEF Tick
  <2> QED
    BY <1>0, <1>2, <2>1 DEF Tick, serverVars
<1>3. CASE ServerFails
  <2>1. outages' \in 0..MaxOutages
    BY <1>0, <1>3 DEF ServerFails
  <2>2. wasted' \in [Replicas -> Nat] /\ up' \in BOOLEAN
    BY <1>3 DEF ServerFails
  <2> QED
    BY <1>0, <1>3, <2>1, <2>2 DEF ServerFails
<1>4. CASE ServerReturns
  BY <1>0, <1>4 DEF ServerReturns
<1>5. CASE UNCHANGED <<deployment, up, downSince, outages, now, breaker, wasted>>
  BY <1>0, <1>5
<1>6. CASE \E r \in Replicas : /\ CallSucceeds(r) \/ CallDegrades(r)
                              /\ UNCHANGED <<deployment, up, downSince, outages, now>>
  BY <1>0, <1>1, <1>6
<1> QED
  BY <1>2, <1>3, <1>4, <1>5, <1>6, CallStep

\* The requests keep their types, and one that computes is about a view.
LEMMA RequestTypes ==
    ASSUME TypeOK, [Next]_vars
    PROVE  /\ pc' \in [Replicas -> {"idle", "compute", "store", "clear"}]
           /\ request' \in [Replicas -> Request]
           /\ answer' \in [Replicas -> Answer]
           /\ \A r \in Replicas : pc'[r] \in {"compute", "store"} => request'[r].view \in Views
<1>0. /\ pc \in [Replicas -> {"idle", "compute", "store", "clear"}]
      /\ request \in [Replicas -> Request]
      /\ answer \in [Replicas -> Answer]
      /\ \A r \in Replicas : pc[r] \in {"compute", "store"} => request[r].view \in Views
      /\ data \in Nat /\ now \in Nat
  BY DEF TypeOK
<1>n. NoRequest \in Request /\ NoAnswer \in Answer
  BY DEF NoRequest, NoAnswer, Request, Answer
<1>1. ASSUME NEW r \in Replicas, NEW v \in Views, Hit(r, v)
      PROVE  UNCHANGED <<pc, request>> /\ answer' \in [Replicas -> Answer]
  <2>1. PICK e \in Found(CacheOf(r), v) :
           answer' = [answer EXCEPT ![r] = [view |-> v, value |-> e.value]]
    BY <1>1 DEF Hit
  <2>2. CacheOf(r) \in Caches
    BY CacheOfReplica
  <2>3. e \in Entry
    BY <2>1, <2>2 DEF Found, TypeOK
  <2>4. [view |-> v, value |-> e.value] \in Answer
    BY <2>3 DEF Answer, Entry
  <2> QED
    BY <1>0, <1>1, <2>1, <2>4 DEF Hit
<1>2. ASSUME NEW r \in Replicas, NEW v \in Views, Miss(r, v)
      PROVE  /\ answer' = answer /\ pc' = [pc EXCEPT ![r] = "compute"]
             /\ \E q \in Request : q.view \in Views /\ request' = [request EXCEPT ![r] = q]
  <2>1. /\ [NoRequest EXCEPT !.view = v] \in Request
        /\ [NoRequest EXCEPT !.view = v].view = v
    BY DEF NoRequest, Request
  <2> QED
    BY <1>2, <2>1 DEF Miss
<1>3. ASSUME NEW r \in Replicas, Compute(r)
      PROVE  /\ answer' = answer /\ pc' = [pc EXCEPT ![r] = "store"]
             /\ \E q \in Request : q.view \in Views /\ request' = [request EXCEPT ![r] = q]
  <2> DEFINE q == [request[r] EXCEPT !.value = data, !.scanned = now]
  <2>1. q \in Request /\ q.view \in Views
    BY <1>0, <1>3 DEF Compute, Request
  <2>2. request' = [request EXCEPT ![r] = q]
    BY <1>0, <1>3 DEF Compute, Request
  <2> QED
    BY <1>3, <2>1, <2>2 DEF Compute
<1>4. ASSUME NEW r \in Replicas, Store(r)
      PROVE  /\ pc' = [pc EXCEPT ![r] = "idle"]
             /\ request' \in [Replicas -> Request]
             /\ answer' \in [Replicas -> Answer]
             /\ \A q \in Replicas : q # r => request'[q] = request[q]
  <2>1. [view |-> request[r].view, value |-> request[r].value] \in Answer
    BY <1>0, <1>4 DEF Store, Answer, Request
  <2> QED
    BY <1>0, <1>n, <1>4, <2>1 DEF Store
<1>5. ASSUME NEW r \in Replicas, AdminClearAll(r)
      PROVE  /\ answer' = answer /\ pc' = [pc EXCEPT ![r] = "clear"]
             /\ \E q \in Request : request' = [request EXCEPT ![r] = q]
  <2> DEFINE q == [request[r] EXCEPT !.left = Families]
  <2>1. q \in Request
    BY <1>0 DEF Request
  <2>2. request' = [request EXCEPT ![r] = q]
    BY <1>0, <1>5 DEF AdminClearAll, Request
  <2> QED
    BY <1>5, <2>1, <2>2 DEF AdminClearAll
<1>6. ASSUME NEW r \in Replicas, ClearNext(r)
      PROVE  /\ answer' = answer
             /\ \E l \in {"idle", "clear"} : pc' = [pc EXCEPT ![r] = l]
             /\ \E q \in Request : request' = [request EXCEPT ![r] = q]
  <2>1. PICK p \in request[r].left :
           /\ request' = [request EXCEPT ![r].left = @ \ {p}]
           /\ pc' = [pc EXCEPT ![r] = IF request[r].left = {p} THEN "idle" ELSE @]
    BY <1>6 DEF ClearNext
  <2> DEFINE q == [request[r] EXCEPT !.left = @ \ {p}]
  <2>2. q \in Request
    BY <1>0 DEF Request
  <2>3. request' = [request EXCEPT ![r] = q]
    BY <1>0, <2>1 DEF Request
  <2>4. \E l \in {"idle", "clear"} : pc' = [pc EXCEPT ![r] = l]
    BY <1>0, <1>6, <2>1 DEF ClearNext
  <2> QED
    BY <1>6, <2>2, <2>3, <2>4 DEF ClearNext
<1>7. ASSUME NEW r \in Replicas,
             (\E p \in Views \union Families : AdminClear(r, p)) \/ Ping(r)
      PROVE  UNCHANGED <<pc, request, answer>>
  BY <1>7 DEF AdminClear, Ping
<1>8. CASE Land \/ (\E j \in running : Invalidate(j)) \/ ServerFails \/ ServerReturns
           \/ UNCHANGED vars
  BY <1>0, <1>8 DEF Land, Invalidate, ServerFails, ServerReturns, vars
<1>9. CASE Tick
  BY <1>0, <1>n, <1>9 DEF Tick
<1>10. ASSUME NEW r \in Replicas, RequestStep(r)
       PROVE  /\ pc' \in [Replicas -> {"idle", "compute", "store", "clear"}]
              /\ request' \in [Replicas -> Request]
              /\ answer' \in [Replicas -> Answer]
              /\ \A o \in Replicas : pc'[o] \in {"compute", "store"} => request'[o].view \in Views
  <2>1. CASE \E v \in Views : Hit(r, v)
    BY <1>0, <1>1, <2>1
  <2>2. CASE (\E v \in Views : Miss(r, v)) \/ Compute(r)
    BY <1>0, <1>2, <1>3, <2>2
  <2>3. CASE Store(r)
    BY <1>0, <1>4, <2>3
  <2>4. CASE AdminClearAll(r) \/ ClearNext(r)
    BY <1>0, <1>5, <1>6, <2>4
  <2>5. CASE (\E p \in Views \union Families : AdminClear(r, p)) \/ Ping(r)
    BY <1>0, <1>7, <2>5
  <2> QED
    BY <1>10, <2>1, <2>2, <2>3, <2>4, <2>5 DEF RequestStep
<1> QED
  BY <1>8, <1>9, <1>10 DEF Next

\* The ingests that landed keep their times.
LEMMA DataTypes ==
    ASSUME TypeOK, [Next]_vars
    PROVE  /\ data' \in Nat /\ running' \subseteq 1..data'
           /\ landedAt' \in Seq(Nat) /\ Len(landedAt') = data'
<1>0. data \in Nat /\ running \subseteq 1..data /\ now \in Nat
      /\ landedAt \in Seq(Nat) /\ Len(landedAt) = data
  BY DEF TypeOK
<1>1. CASE Land
  BY <1>0, <1>1 DEF Land
<1>2. CASE \E j \in running : Invalidate(j)
  BY <1>0, <1>2 DEF Invalidate
<1>3. CASE UNCHANGED dataVars
  BY <1>0, <1>3 DEF dataVars
<1> QED
  BY <1>1, <1>2, <1>3 DEF Next, RequestStep, Hit, Miss, Compute, Store, AdminClear,
     AdminClearAll, ClearNext, Ping, Tick, ServerFails, ServerReturns, vars, dataVars

\* The initial state is well typed.
LEMMA InitTypes == Init => TypeOK
<1> SUFFICES ASSUME Init PROVE TypeOK
  OBVIOUS
<1>1. ClosedBreaker \in Breaker /\ NoRequest \in Request /\ NoAnswer \in Answer
  BY DEF ClosedBreaker, NoRequest, NoAnswer, Breaker, Request, Answer
<1>2. \A o \in Caches : WithinLimits(entries[o])
  BY ViewCacheAssumption DEF Init, WithinLimits
<1> QED
  BY <1>1, <1>2, ViewCacheAssumption DEF Init, TypeOK

\* Every step keeps the types.
LEMMA NextTypes == TypeOK /\ [Next]_vars => TypeOK'
<1> SUFFICES ASSUME TypeOK, [Next]_vars PROVE TypeOK'
  OBVIOUS
<1>1. deployment' = deployment
  BY SameDeployment
<1>2. entries' \in [Caches -> Seq(Entry)] /\ \A c \in Caches : WithinLimits(entries'[c])
  BY EntriesStep DEF CachesStep
<1>3. /\ (entries \in [Caches -> Seq(Entry)])'
      /\ (\A c \in Caches : WithinLimits(entries[c]))'
  BY <1>1, <1>2 DEF Caches, Replicas, Backend, Entry, Views, WithinLimits
<1>4. /\ (breaker \in [Replicas -> Breaker] /\ wasted \in [Replicas -> Nat])'
      /\ (up \in BOOLEAN /\ downSince \in Nat /\ outages \in 0..MaxOutages /\ now \in Nat)'
  BY <1>1, BreakerTypes DEF Replicas, Breaker
<1>5. (/\ pc \in [Replicas -> {"idle", "compute", "store", "clear"}]
       /\ request \in [Replicas -> Request]
       /\ answer \in [Replicas -> Answer]
       /\ \A r \in Replicas : pc[r] \in {"compute", "store"} => request[r].view \in Views)'
  BY <1>1, RequestTypes DEF Replicas, Request, Answer, Views
<1>6. (deployment \in Deployments)'
  BY <1>1 DEF TypeOK
<1> QED
  BY <1>3, <1>4, <1>5, <1>6, DataTypes DEF TypeOK

\* Whatever is stored, found, evicted and cleared, by however many replicas,
\* every variable keeps its type, no cache holds two entries for one key and no
\* MemoryCache grows past max_entries.
THEOREM TypeCorrect == Spec => []TypeOK
<1>1. Init => TypeOK
  BY InitTypes
<1>2. TypeOK /\ [Next]_vars => TypeOK'
  BY NextTypes
<1> QED
  BY <1>1, <1>2, PTL DEF Spec

-----------------------------------------------------------------------------
(* Staleness *)

\* A version is superseded at a time.
LEMMA SupersededNat ==
    ASSUME TypeOK
    PROVE  \A v \in 0..data : Superseded(v) \in Nat
<1>1. data \in Nat /\ now \in Nat /\ landedAt \in Seq(Nat) /\ Len(landedAt) = data
  BY DEF TypeOK
<1>2. \A v \in 0..data : v < data => v + 1 \in 1..Len(landedAt)
  BY <1>1
<1> QED
  BY <1>1, <1>2 DEF Superseded

\* A version, once superseded, was superseded at a fixed time, and until then
\* the time only moves on.
LEMMA SupersededGrows ==
    ASSUME TypeOK, [Next]_vars
    PROVE  /\ data <= data' /\ now <= now' /\ data' \in Nat /\ now' \in Nat
           /\ \A v \in 0..data : /\ Superseded(v) \in Nat
                                 /\ Superseded(v)' \in Nat
                                 /\ Superseded(v) <= Superseded(v)'
<1>0. data \in Nat /\ now \in Nat /\ landedAt \in Seq(Nat) /\ Len(landedAt) = data
  BY DEF TypeOK
<1>1. \A v \in 0..data : v < data => v + 1 \in 1..Len(landedAt)
  BY <1>0
<1>2. \A v \in 0..data : Superseded(v) \in Nat
  BY SupersededNat
<1>3. CASE Land
  <2>1. data' = data + 1 /\ landedAt' = Append(landedAt, now) /\ now' = now
    BY <1>3 DEF Land
  <2>2. \A v \in 0..data : Superseded(v)' = Superseded(v)
    BY <1>0, <1>1, <2>1 DEF Superseded
  <2> QED
    BY <1>0, <1>2, <2>1, <2>2
<1>4. CASE Tick
  <2>1. data' = data /\ landedAt' = landedAt /\ now' = now + 1
    BY <1>4 DEF Tick, dataVars
  <2> QED
    BY <1>0, <1>1, <1>2, <2>1 DEF Superseded
<1>5. CASE UNCHANGED <<data, landedAt, now>>
  BY <1>0, <1>2, <1>5 DEF Superseded
<1> QED
  BY <1>3, <1>4, <1>5 DEF Next, RequestStep, Hit, Miss, Compute, Store, AdminClear,
     AdminClearAll, ClearNext, Ping, Invalidate, ServerFails, ServerReturns, vars, dataVars

\* The entry that a request in time stores dies in time.
LEMMA StoredInTime ==
    ASSUME TypeOK, NEW q \in Request, q.view \in Views, RequestInTime(q)
    PROVE  EntryInTime(NewEntry(q.view, q.value))
<1> DEFINE e == NewEntry(q.view, q.value)
<1>1. e.value = q.value /\ e.view = q.view /\ e.expires = now + Lifetime[q.view]
  BY DEF NewEntry
<1>2. Lifetime[q.view] \in Nat /\ ComputeBound \in Nat /\ now \in Nat /\ q.scanned \in Nat
      /\ q.value \in Nat /\ data \in Nat
  BY ViewCacheAssumption DEF TypeOK, Lifetime, Views, Request
<1>3. Superseded(q.value) \in Nat
  <2>1. q.value \in 0..data
    BY <1>2 DEF RequestInTime
  <2> QED
    BY <2>1, SupersededNat
<1> QED
  BY <1>1, <1>2, <1>3 DEF EntryInTime, RequestInTime

\* An entry, or an answer, stays in time when a step is taken, the latter as long
\* as the clock does not move.
LEMMA StaysInTime ==
    ASSUME TypeOK, [Next]_vars
    PROVE  /\ \A e \in Entry : EntryInTime(e) => EntryInTime(e)'
           /\ now' = now => \A a \in Answer : a.view \in Views /\ AnswerInTime(a) => AnswerInTime(a)'
           /\ now' = now => \A q \in Request : RequestInTime(q) => RequestInTime(q)'
<1>0. deployment' = deployment /\ data \in Nat /\ now \in Nat /\ ComputeBound \in Nat
  BY SameDeployment, ViewCacheAssumption DEF TypeOK
<1>1. \A v \in Views : Lifetime[v] \in Nat /\ Lifetime'[v] = Lifetime[v]
  BY <1>0, ViewCacheAssumption DEF TypeOK, Lifetime, Views
<1>2. ASSUME NEW e \in Entry, EntryInTime(e) PROVE EntryInTime(e)'
  <2>1. e.value \in 0..data /\ e.view \in Views /\ e.expires \in Nat
    BY <1>0, <1>2 DEF Entry, EntryInTime
  <2> QED
    BY <1>0, <1>1, <1>2, <2>1, SupersededGrows DEF EntryInTime
<1>3. ASSUME now' = now, NEW a \in Answer, a.view \in Views, AnswerInTime(a)
      PROVE  AnswerInTime(a)'
  <2>1. a.value \in 0..data
    BY <1>0, <1>3 DEF Answer, AnswerInTime
  <2> QED
    BY <1>0, <1>1, <1>3, <2>1, SupersededGrows DEF AnswerInTime
<1>4. ASSUME now' = now, NEW q \in Request, RequestInTime(q) PROVE RequestInTime(q)'
  <2>1. q.value \in 0..data /\ q.scanned \in Nat
    BY <1>0, <1>4 DEF Request, RequestInTime
  <2> QED
    BY <1>0, <1>4, <2>1, SupersededGrows DEF RequestInTime
<1> QED
  BY <1>2, <1>3, <1>4

\* Every step but that of one of the replicas leaves requests and answers alone.
LEMMA OtherNext ==
    ASSUME [Next]_vars, ~Tick, \A o \in Replicas : ~RequestStep(o)
    PROVE  pc' = pc /\ request' = request /\ answer' = answer /\ now' = now
<1>1. CASE Land \/ \E j \in running : Invalidate(j)
  BY <1>1 DEF Land, Invalidate
<1>2. CASE ServerFails \/ ServerReturns
  BY <1>2 DEF ServerFails, ServerReturns
<1>3. CASE UNCHANGED vars
  BY <1>3 DEF vars
<1> QED
  BY <1>1, <1>2, <1>3 DEF Next

\* A request is to be stored because it was computed, or still is.
LEMMA StoreNext ==
    ASSUME TypeOK, [Next]_vars, NEW r \in Replicas, pc'[r] = "store"
    PROVE  Compute(r) \/ Tick \/ (pc[r] = "store" /\ request'[r] = request[r] /\ now' = now)
<1>0. DOMAIN pc = Replicas /\ DOMAIN request = Replicas
  BY DEF TypeOK
<1>1. ASSUME NEW o \in Replicas, RequestStep(o), ~Compute(r)
      PROVE  pc[r] = "store" /\ request'[r] = request[r] /\ now' = now
  <2>1. CASE (\E v \in Views : Hit(o, v)) \/ (\E p \in Views \union Families : AdminClear(o, p))
             \/ Ping(o)
    BY <2>1 DEF Hit, AdminClear, Ping
  <2>2. CASE \E v \in Views : Miss(o, v)
    <3>1. /\ pc' = [pc EXCEPT ![o] = "compute"] /\ now' = now
          /\ \E x : request' = [request EXCEPT ![o] = x]
      BY <2>2 DEF Miss
    <3> QED
      BY <1>0, <3>1
  <2>3. CASE Compute(o)
    BY <1>0, <1>1, <2>3 DEF Compute
  <2>4. CASE Store(o)
    BY <1>0, <2>4 DEF Store
  <2>5. CASE AdminClearAll(o)
    BY <1>0, <2>5 DEF AdminClearAll
  <2>6. CASE ClearNext(o)
    <3>1. /\ pc[o] = "clear" /\ now' = now
          /\ \E x \in {"idle", "clear"} : pc' = [pc EXCEPT ![o] = x]
          /\ \E x : request' = [request EXCEPT ![o] = x]
      BY <1>0, <2>6 DEF ClearNext
    <3> QED
      BY <1>0, <3>1
  <2> QED
    BY <1>1, <2>1, <2>2, <2>3, <2>4, <2>5, <2>6 DEF RequestStep
<1> QED
  BY <1>1, OtherNext

\* An answer is given by a hit or with a store.
LEMMA AnswerNext ==
    ASSUME TypeOK, [Next]_vars, NEW r \in Replicas
    PROVE  \/ Tick \/ Store(r) \/ (\E v \in Views : Hit(r, v))
           \/ answer'[r] = answer[r] /\ now' = now
<1>0. DOMAIN answer = Replicas
  BY DEF TypeOK
<1>1. ASSUME NEW o \in Replicas, RequestStep(o), ~Store(r), ~ \E v \in Views : Hit(r, v)
      PROVE  answer'[r] = answer[r] /\ now' = now
  <2>1. CASE \E v \in Views : Hit(o, v)
    <3>1. o # r
      BY <1>1, <2>1
    <3>2. now' = now /\ \E x : answer' = [answer EXCEPT ![o] = x]
      BY <2>1 DEF Hit
    <3> QED
      BY <1>0, <3>1, <3>2
  <2>2. CASE Store(o)
    BY <1>0, <1>1, <2>2 DEF Store
  <2>3. CASE \E v \in Views : Miss(o, v)
    BY <2>3 DEF Miss
  <2>4. CASE Compute(o) \/ AdminClearAll(o) \/ ClearNext(o) \/ Ping(o)
             \/ \E p \in Views \union Families : AdminClear(o, p)
    BY <2>4 DEF Compute, AdminClearAll, ClearNext, Ping, AdminClear
  <2> QED
    BY <1>1, <2>1, <2>2, <2>3, <2>4 DEF RequestStep
<1> QED
  BY <1>1, OtherNext

\* Every step keeps InTime.
LEMMA InTimeStep == TypeOK /\ InTime /\ [Next]_vars => InTime'
<1> SUFFICES ASSUME TypeOK, InTime, [Next]_vars PROVE InTime'
  OBVIOUS
<1>0. /\ deployment' = deployment /\ TypeOK'
      /\ Caches' = Caches /\ Replicas' = Replicas /\ Views' = Views
  BY SameDeployment, NextTypes DEF Caches, Replicas, Views, Backend
<1>t. data \in Nat /\ now \in Nat /\ ComputeBound \in Nat
      /\ \A v \in Views : Lifetime[v] \in Nat /\ Lifetime[v] > 0
  BY ViewCacheAssumption DEF TypeOK, Lifetime, Views
<1>1. ASSUME NEW c \in Caches, NEW k \in 1..Len(entries'[c])
      PROVE  EntryInTime(entries[c][k])'
  <2>0. PICK e : e = entries'[c][k]
    OBVIOUS
  <2> SUFFICES EntryInTime(e)'
    BY <2>0 DEF EntryInTime
  <2>1. CASE e \in Held(entries[c])
    <3>1. e \in Entry /\ EntryInTime(e)
      BY <2>1 DEF Held, InTime, TypeOK
    <3> QED
      BY <3>1, StaysInTime
  <2>2. ASSUME NEW r \in Replicas, Store(r), e \in Stored(r)
        PROVE  EntryInTime(e)'
    <3>1. /\ request[r] \in Request /\ request[r].view \in Views
          /\ RequestInTime(request[r])
      BY <2>2 DEF Store, InTime, TypeOK
    <3>2. EntryInTime(e)
      BY <2>2, <3>1, StoredInTime DEF Stored
    <3>3. e \in Entry
      BY <1>t, <2>2, <3>1 DEF Stored, NewEntry, Entry, Request
    <3> QED
      BY <3>2, <3>3, StaysInTime
  <2> QED
    BY <2>0, <2>1, <2>2, EntriesStep DEF CachesStep
<1>2. ASSUME NEW r \in Replicas, pc'[r] = "store" PROVE RequestInTime(request[r])'
  <2>0. PICK q : q = request'[r]
    OBVIOUS
  <2> SUFFICES RequestInTime(q)'
    BY <2>0 DEF RequestInTime
  <2>1. CASE Compute(r)
    <3>1. q.value = data /\ q.scanned = now /\ data' = data /\ now' = now
      BY <2>0, <2>1 DEF Compute, TypeOK, dataVars, Request
    <3> QED
      BY <1>t, <3>1 DEF RequestInTime, Superseded
  <2>2. CASE Tick
    <3>1. /\ q = request[r] /\ pc' = pc /\ now' = now + 1
          /\ data' = data /\ landedAt' = landedAt
          /\ now < q.scanned + ComputeBound
      BY <1>2, <2>0, <2>2 DEF Tick, dataVars
    <3>2. RequestInTime(q) /\ q \in Request
      BY <1>2, <3>1 DEF InTime, TypeOK
    <3>3. q.scanned \in Nat /\ q.value \in 0..data
      BY <1>t, <3>2 DEF Request, RequestInTime
    <3>4. Superseded(q.value) \in Nat /\ Superseded(q.value)' \in Nat
          /\ Superseded(q.value) <= Superseded(q.value)'
      BY <3>3, SupersededGrows
    <3> QED
      BY <1>t, <3>1, <3>2, <3>3, <3>4 DEF RequestInTime
  <2>3. CASE pc[r] = "store" /\ request'[r] = request[r] /\ now' = now
    <3>1. RequestInTime(q) /\ q \in Request
      BY <2>0, <2>3 DEF InTime, TypeOK
    <3> QED
      BY <2>3, <3>1, StaysInTime
  <2>4. Compute(r) \/ Tick \/ (pc[r] = "store" /\ request'[r] = request[r] /\ now' = now)
    BY <1>2, StoreNext
  <2> QED
    BY <2>1, <2>2, <2>3, <2>4
<1>3. ASSUME NEW r \in Replicas, answer'[r].view # "none" PROVE AnswerInTime(answer[r])'
  <2>0. PICK a : a = answer'[r]
    OBVIOUS
  <2> SUFFICES AnswerInTime(a)'
    BY <2>0 DEF AnswerInTime
  <2>1. CASE Tick
    BY <1>3, <2>1 DEF Tick, NoAnswer
  <2>2. ASSUME NEW v \in Views, Hit(r, v) PROVE AnswerInTime(a)'
    <3>1. PICK e \in Found(CacheOf(r), v) :
             answer' = [answer EXCEPT ![r] = [view |-> v, value |-> e.value]]
      BY <2>2 DEF Hit
    <3>2. /\ a.value = e.value /\ a.view = e.view /\ e.expires > now
          /\ data' = data /\ now' = now /\ landedAt' = landedAt
      BY <2>0, <2>2, <3>1 DEF Hit, TypeOK, Found, Live, dataVars
    <3>3. e \in Entry /\ EntryInTime(e)
      BY <3>1, CacheOfReplica DEF Found, TypeOK, InTime
    <3>4. e.expires \in Nat /\ e.value \in 0..data /\ e.view \in Views
      BY <1>t, <3>3 DEF Entry, EntryInTime
    <3>5. Superseded(e.value) \in Nat /\ Superseded(e.value)' = Superseded(e.value)
      BY <3>2, <3>4, SupersededGrows DEF Superseded
    <3> QED
      BY <1>0, <1>t, <3>2, <3>3, <3>4, <3>5 DEF AnswerInTime, EntryInTime, Lifetime
  <2>3. CASE Store(r)
    <3>0. PICK q : q = request[r]
      OBVIOUS
    <3>1. /\ a.value = q.value /\ a.view = q.view
          /\ data' = data /\ now' = now /\ landedAt' = landedAt
      BY <2>0, <2>3, <3>0 DEF Store, TypeOK, dataVars
    <3>2. q \in Request /\ q.view \in Views /\ RequestInTime(q)
      BY <2>3, <3>0 DEF Store, TypeOK, InTime
    <3>3. q.scanned \in Nat /\ q.value \in 0..data
      BY <1>t, <3>2 DEF Request, RequestInTime
    <3>4. Superseded(q.value) \in Nat /\ Superseded(q.value)' = Superseded(q.value)
      BY <3>1, <3>3, SupersededGrows DEF Superseded
    <3> QED
      BY <1>0, <1>t, <3>1, <3>2, <3>3, <3>4 DEF AnswerInTime, RequestInTime, Lifetime
  <2>4. CASE answer'[r] = answer[r] /\ now' = now
    <3>1. a \in Answer /\ a.view \in Views /\ AnswerInTime(a)
      BY <1>3, <2>0, <2>4 DEF InTime, TypeOK, Answer
    <3> QED
      BY <2>4, <3>1, StaysInTime
  <2>5. \/ Tick \/ Store(r) \/ (\E v \in Views : Hit(r, v))
        \/ answer'[r] = answer[r] /\ now' = now
    BY AnswerNext
  <2> QED
    BY <2>1, <2>2, <2>3, <2>4, <2>5
<1> QED
  BY <1>0, <1>1, <1>2, <1>3 DEF InTime

\* InTime holds of every reachable state.
LEMMA InTimeHolds == Spec => [](TypeOK /\ InTime)
<1>1. Init => TypeOK /\ InTime
  BY InitTypes DEF Init, InTime, NoAnswer
<1>2. TypeOK /\ InTime /\ [Next]_vars => TypeOK' /\ InTime'
  BY NextTypes, InTimeStep
<1> QED
  BY <1>1, <1>2, PTL DEF Spec

\* For every backend, any number of replicas, views, TTLs and entries, and any
\* order of requests, ingests, clears and outages: no answer misses an ingest
\* that landed longer ago than the view's TTL and the time from scan to store.
THEOREM StalenessBoundedHolds == Spec => []StalenessBounded
<1>1. TypeOK /\ InTime => StalenessBounded
  <2> SUFFICES ASSUME TypeOK, InTime, NEW r \in Replicas,
                      answer[r].view # "none", answer[r].value < data
               PROVE  now < landedAt[answer[r].value + 1] + Lifetime[answer[r].view] + ComputeBound
    BY DEF StalenessBounded
  <2> QED
    BY DEF InTime, AnswerInTime, Superseded
<1> QED
  BY <1>1, InTimeHolds, PTL

-----------------------------------------------------------------------------
(* The circuit breaker *)

\* Whole timeouts are counted up as time passes, and each one counts.
LEMMA Timeouts ==
    ASSUME NEW a \in Nat, NEW b \in Nat, NEW d \in Nat \ {0}, a <= b
    PROVE  /\ a \div d \in Nat /\ b \div d \in Nat
           /\ a \div d <= b \div d
           /\ a + d <= b => (a \div d) + 1 <= b \div d
<1> DEFINE p == a \div d
           q == b \div d
<1>1. /\ p \in Int /\ q \in Int
      /\ d * p <= a /\ a < d * p + d /\ d * q <= b /\ b < d * q + d
  BY Z3
<1> HIDE DEF p, q
<1>2. \A x \in Int : x <= -1 => d * x <= -d
  BY Z3
<1>3. p >= 0 /\ q >= 0
  BY <1>1, <1>2
<1>4. \A x \in Int, y \in Int : x <= y => d * x <= d * y
  BY Z3
<1>5. p <= q
  <2> SUFFICES ASSUME q + 1 <= p PROVE FALSE
    BY <1>1
  <2>1. d * (q + 1) <= d * p /\ d * (q + 1) = d * q + d
    BY <1>1, <1>4
  <2> QED
    BY <1>1, <2>1
<1>6. ASSUME a + d <= b PROVE p + 1 <= q
  <2> SUFFICES ASSUME q <= p PROVE FALSE
    BY <1>1
  <2>1. d * q <= d * p
    BY <1>1, <1>4
  <2> QED
    BY <1>1, <1>6, <2>1
<1> QED
  BY <1>1, <1>3, <1>5, <1>6 DEF p, q

\* A breaker whose replica makes no call keeps its invariant, whatever time
\* passes, and however the server comes and goes.
LEMMA BreakerSame ==
    ASSUME NEW r, BreakerInv(r), breaker'[r] = breaker[r],
           now \in Nat, now' \in Nat, now <= now', breaker[r].openedAt \in Nat,
           \/ UNCHANGED <<up, downSince>> /\ wasted'[r] = wasted[r]
           \/ up'
           \/ ~ up' /\ wasted'[r] = 0 /\ breaker[r].failures \in Nat
    PROVE  BreakerInv(r)'
BY DEF BreakerInv

\* A failed call is counted, and if it opens the breaker again, a reset timeout
\* has passed since the last one.
LEMMA BreakerFails ==
    ASSUME TypeOK, Guarded, NEW r \in Replicas, ~ up, Allows(breaker[r]),
           UNCHANGED <<up, downSince, now>>,
           breaker'[r] = RecordFailure(breaker[r]), wasted'[r] = wasted[r] + 1
    PROVE  BreakerInv(r)'
<1> DEFINE b == breaker[r]
           w == wasted[r]
           past == (b.openedAt - downSince) \div ResetTimeout
           ages == (now - downSince) \div ResetTimeout
<1>0. /\ b.failures \in Nat /\ b.openedAt \in Nat /\ w \in Nat /\ now \in Nat
      /\ downSince \in Nat /\ downSince <= now
      /\ Threshold \in Nat \ {0} /\ ResetTimeout \in Nat \ {0}
  BY ViewCacheAssumption DEF TypeOK, Breaker, Guarded
<1>1. /\ b.state = (IF b.failures < Threshold THEN "closed" ELSE "open")
      /\ w <= b.failures
      /\ w > 0 /\ b.failures >= Threshold =>
             /\ downSince <= b.openedAt /\ b.openedAt <= now
             /\ w <= Threshold + past
  BY DEF Guarded, BreakerInv
<1>2. CASE b.failures + 1 < Threshold
  <2>1. b.state = "closed"
    BY <1>0, <1>1, <1>2
  <2>2. State(b) = "closed"
    BY <2>1 DEF State
  <2>3. breaker'[r] = [b EXCEPT !.state = "closed", !.failures = @ + 1]
    BY <1>0, <1>2, <2>2 DEF RecordFailure
  <2>4. breaker'[r].state = "closed" /\ breaker'[r].failures = b.failures + 1
    BY <2>3 DEF TypeOK, Breaker
  <2> QED
    BY <1>0, <1>1, <1>2, <2>4 DEF BreakerInv
<1>3. CASE b.failures + 1 >= Threshold
  <2>1. /\ breaker'[r].state = "open" /\ breaker'[r].failures = b.failures + 1
        /\ breaker'[r].openedAt = now
    BY <1>3 DEF RecordFailure
  <2>2. ages \in Nat
    BY <1>0, Timeouts
  <2>3. w + 1 <= Threshold + ages
    <3>1. CASE w = 0
      BY <1>0, <2>2, <3>1
    <3>2. CASE w > 0 /\ b.failures < Threshold
      BY <1>0, <1>1, <2>2, <3>2
    <3>3. CASE w > 0 /\ b.failures >= Threshold
      <4>1. b.state = "open" /\ now - b.openedAt >= ResetTimeout
        BY <1>0, <1>1, <3>3 DEF Allows, State
      <4>2. /\ b.openedAt - downSince \in Nat /\ now - downSince \in Nat
            /\ b.openedAt - downSince <= now - downSince
            /\ (b.openedAt - downSince) + ResetTimeout <= now - downSince
        BY <1>0, <1>1, <3>3, <4>1
      <4>3. past \in Nat /\ past + 1 <= ages
        BY <1>0, <4>2, Timeouts
      <4> QED
        BY <1>0, <1>1, <2>2, <3>3, <4>3
    <3> QED
      BY <1>0, <3>1, <3>2, <3>3
  <2>4. ~ (b.failures + 1 < Threshold) /\ w + 1 <= b.failures + 1
    BY <1>0, <1>1, <1>3
  <2> QED
    BY <1>0, <2>1, <2>3, <2>4 DEF BreakerInv
<1> QED
  BY <1>0, <1>2, <1>3

\* Every step keeps Guarded.
LEMMA GuardedStep == TypeOK /\ Guarded /\ [Next]_vars => Guarded'
<1> SUFFICES ASSUME TypeOK, Guarded, [Next]_vars PROVE Guarded'
  OBVIOUS
<1>0. /\ Replicas' = Replicas /\ now \in Nat /\ now' \in Nat /\ downSince \in Nat
      /\ \A r \in Replicas : BreakerInv(r) /\ breaker[r] \in Breaker
      /\ breaker \in [Replicas -> Breaker] /\ wasted \in [Replicas -> Nat]
      /\ downSince <= now
  BY SameDeployment, NextTypes DEF TypeOK, Guarded, Replicas
<1>b. \A r \in Replicas : breaker[r].openedAt \in Nat /\ breaker[r].failures \in Nat
  BY <1>0 DEF Breaker
<1>1. ASSUME NEW r \in Replicas, CallSucceeds(r) \/ CallDegrades(r),
             UNCHANGED <<deployment, up, downSince, outages, now>>
      PROVE  Guarded'
  <2>1. ASSUME NEW o \in Replicas PROVE BreakerInv(o)'
    <3>1. CASE breaker'[o] = breaker[o] /\ wasted'[o] = wasted[o]
      BY <1>0, <1>b, <1>1, <3>1, BreakerSame
    <3>2. CASE o = r /\ CallSucceeds(r)
      <4>1. up /\ breaker'[r].state = "closed" /\ breaker'[r].failures = 0
        BY <1>0, <3>2 DEF CallSucceeds, RecordSuccess, Breaker
      <4> QED
        BY <1>1, <3>2, <4>1, ViewCacheAssumption DEF BreakerInv
    <3>3. CASE o = r /\ ~ up /\ Allows(breaker[r])
               /\ breaker'[r] = RecordFailure(breaker[r]) /\ wasted'[r] = wasted[r] + 1
      BY <1>1, <3>3, BreakerFails
    <3> QED
      BY <1>0, <1>1, <3>1, <3>2, <3>3 DEF CallSucceeds, CallDegrades
  <2> QED
    BY <1>0, <1>1, <2>1 DEF Guarded
<1>2. CASE UNCHANGED <<deployment, up, downSince, outages, now, breaker, wasted>>
  BY <1>0, <1>b, <1>2, BreakerSame DEF Guarded
<1>3. CASE Tick
  <2>1. now' = now + 1 /\ UNCHANGED <<up, downSince, breaker, wasted>>
    BY <1>3 DEF Tick, serverVars
  <2>2. \A r \in Replicas : BreakerInv(r)'
    BY <1>0, <1>b, <2>1, BreakerSame
  <2> QED
    BY <1>0, <2>1, <2>2 DEF Guarded
<1>4. CASE ServerFails
  <2>1. /\ ~ up' /\ downSince' = now /\ now' = now /\ breaker' = breaker
        /\ \A r \in Replicas : wasted'[r] = 0
    BY <1>4 DEF ServerFails
  <2>2. \A r \in Replicas : BreakerInv(r)'
    BY <1>0, <1>b, <2>1, BreakerSame
  <2> QED
    BY <1>0, <2>1, <2>2 DEF Guarded
<1>5. CASE ServerReturns
  <2>1. up' /\ UNCHANGED <<downSince, now, breaker>>
    BY <1>5 DEF ServerReturns
  <2>2. \A r \in Replicas : BreakerInv(r)'
    BY <1>0, <1>b, <2>1, BreakerSame
  <2> QED
    BY <1>0, <2>1, <2>2 DEF Guarded
<1> QED
  BY <1>1, <1>2, <1>3, <1>4, <1>5, CallStep

\* The calls of a replica into an outage are bounded in every state.
LEMMA GuardedBounds == TypeOK /\ Guarded => NotHammered
<1> SUFFICES ASSUME TypeOK, Guarded, ~ up, NEW r \in Replicas
             PROVE  wasted[r] <= Threshold + (now - downSince) \div ResetTimeout
  BY DEF NotHammered
<1> DEFINE b == breaker[r]
<1>0. /\ b.failures \in Nat /\ b.openedAt \in Nat /\ wasted[r] \in Nat /\ now \in Nat
      /\ downSince \in Nat /\ downSince <= now
      /\ Threshold \in Nat \ {0} /\ ResetTimeout \in Nat \ {0}
  BY ViewCacheAssumption DEF TypeOK, Breaker, Guarded
<1>1. /\ wasted[r] <= b.failures
      /\ wasted[r] > 0 /\ b.failures >= Threshold =>
             /\ downSince <= b.openedAt /\ b.openedAt <= now
             /\ wasted[r] <= Threshold + (b.openedAt - downSince) \div ResetTimeout
  BY DEF Guarded, BreakerInv
<1>2. now - downSince \in Nat /\ (now - downSince) \div ResetTimeout \in Nat
  BY <1>0, Timeouts
<1>3. CASE wasted[r] > 0 /\ b.failures >= Threshold
  <2>1. b.openedAt - downSince \in Nat /\ b.openedAt - downSince <= now - downSince
    BY <1>0, <1>1, <1>3
  <2>2. /\ (b.openedAt - downSince) \div ResetTimeout \in Nat
        /\ (b.openedAt - downSince) \div ResetTimeout <= (now - downSince) \div ResetTimeout
    BY <1>0, <1>2, <2>1, Timeouts
  <2> QED
    BY <1>0, <1>1, <1>2, <1>3, <2>2
<1>4. CASE ~ (wasted[r] > 0 /\ b.failures >= Threshold)
  BY <1>0, <1>1, <1>2, <1>4
<1> QED
  BY <1>3, <1>4

\* For every threshold, reset timeout and number of replicas: during an outage
\* a replica's calls reach the dead server no more often than the threshold, and
\* once more for each reset timeout.
THEOREM NotHammeredHolds == Spec => []NotHammered
<1>1. Init => TypeOK /\ Guarded
  BY InitTypes, ViewCacheAssumption DEF Init, Guarded, BreakerInv, ClosedBreaker
<1>2. TypeOK /\ Guarded /\ [Next]_vars => TypeOK' /\ Guarded'
  BY NextTypes, GuardedStep
<1>3. TypeOK /\ Guarded => NotHammered
  BY GuardedBounds
<1> QED
  BY <1>1, <1>2, <1>3, PTL DEF Spec
=============================================================================
