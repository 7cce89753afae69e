--------------------------- MODULE Watches_proofs ---------------------------
(***************************************************************************)
(* WInv is inductive, hence TwoWatches, FormulaKept and Settled hold for   *)
(* any clauses, decisions, deductions, splits and learnt clauses.          *)
(***************************************************************************)
EXTENDS WatchesInvariant, DataLemmas

-----------------------------------------------------------------------------
(* Sequences of numbers in order. *)

\* Ordered enumerates a finite set of numbers, without repetition.
LEMMA OrderedFacts ==
    ASSUME NEW S \in SUBSET Int, IsFiniteSet(S)
    PROVE  /\ Cardinality(S) \in Nat
           /\ Ordered(S) \in [1..Cardinality(S) -> S]
           /\ \A m, n \in 1..Cardinality(S) : Ordered(S)[m] = Ordered(S)[n] => m = n
           /\ {Ordered(S)[n] : n \in 1..Cardinality(S)} = S
  <1> DEFINE N == Cardinality(S)
             s == [n \in 1..N |-> CHOOSE x \in S : Rank(S, x) = n]
             t == Ordered(S)
  <1>1. /\ N \in Nat
        /\ \A x \in S : Rank(S, x) \in 1..N
        /\ \A x, y \in S : x < y => Rank(S, x) < Rank(S, y)
        /\ \A n \in 1..N : \E x \in S : Rank(S, x) = n
    BY RankFacts
  <1>2. \A n \in 1..N : s[n] \in S /\ Rank(S, s[n]) = n
    BY <1>1
  <1>3. s \in [1..N -> S] /\ \A m, n \in DOMAIN s : m < n => s[m] < s[n]
    <2>1. s \in [1..N -> S]
      BY <1>2
    <2>2. ASSUME NEW m \in 1..N, NEW n \in 1..N, m < n
          PROVE  s[m] < s[n]
      <3>1. s[m] \in S /\ s[n] \in S /\ Rank(S, s[m]) = m /\ Rank(S, s[n]) = n
        BY <1>2
      <3> HIDE DEF s
      <3>2. s[m] \in Int /\ s[n] \in Int
        BY <3>1
      <3>3. m \in Int /\ n \in Int /\ ~ (n < m) /\ m # n
        BY <2>2
      <3>4. s[n] < s[m] => n < m
        BY <1>1, <3>1
      <3> QED
        BY <3>1, <3>2, <3>3, <3>4
    <2> QED
      BY <2>1, <2>2
  <1>4. t \in [1..N -> S] /\ \A m, n \in 1..N : m < n => t[m] < t[n]
    <2> HIDE DEF s
    <2>1. \E u \in [1..N -> S] : \A m, n \in DOMAIN u : m < n => u[m] < u[n]
      BY <1>3
    <2>2. t = CHOOSE u \in [1..N -> S] : \A m, n \in DOMAIN u : m < n => u[m] < u[n]
      BY DEF Ordered
    <2> HIDE DEF t
    <2>3. t \in [1..N -> S] /\ \A m, n \in DOMAIN t : m < n => t[m] < t[n]
      BY <2>1, <2>2
    <2> QED
      BY <2>3
  <1> HIDE DEF s, t
  <1>5. \A m, n \in 1..N : t[m] = t[n] => m = n
    <2>1. TAKE m, n \in 1..N
    <2>2. t[m] \in S /\ t[n] \in S
      BY <1>4
    <2>3. t[m] \in Int /\ t[n] \in Int
      BY <2>2
    <2>4. m < n \/ n < m \/ m = n
      OBVIOUS
    <2> QED
      BY <1>4, <2>3, <2>4
  <1>6. {t[n] : n \in 1..N} = S
    <2>1. t \in Injection(1..N, S)
      BY <1>4, <1>5, Fun_IsInj
    <2>2. IsFiniteSet(1..N) /\ Cardinality(1..N) = N
      BY <1>1, FS_Interval
    <2>3. t \in Surjection(1..N, S)
      BY <2>1, <2>2, FS_Injection
    <2>4. \A x \in S : \E n \in 1..N : t[n] = x
      BY <2>3 DEF Surjection
    <2> QED
      BY <1>4, <2>4
  <1> QED
    BY <1>1, <1>4, <1>5, <1>6 DEF t

-----------------------------------------------------------------------------
(* Literals, clauses and the trail. *)

LEMMA LitFacts ==
    ASSUME NEW l \in Lits
    PROVE  /\ l \in Int /\ l # 0 /\ -l \in Lits /\ -(-l) = l /\ -l # l
           /\ var(l) \in Vars /\ var(-l) = var(l)
  BY VarsAssumption DEF Lits, var

LEMMA SameVar ==
    ASSUME NEW l \in Lits, NEW k \in Lits, var(l) = var(k)
    PROVE  l = k \/ l = -k
  <1>1. l \in Int /\ k \in Int
    BY LitFacts
  <1> QED
    BY <1>1 DEF var

\* The parts of TrailOK, with the indices spelled out.
LEMMA TrailParts ==
    ASSUME NEW t, NEW tl, TrailOK(t, tl)
    PROVE  /\ t \in Seq(Lits) /\ Len(t) \in Nat /\ DOMAIN t = 1..Len(t)
           /\ tl \in Seq(Nat) /\ Len(tl) \in Nat /\ DOMAIN tl = 1..Len(tl)
           /\ \A n \in 1..Len(t) : t[n] \in Lits
           /\ \A m, n \in 1..Len(t) : var(t[m]) = var(t[n]) => m = n
           /\ \A k \in 1..Len(tl) : tl[k] \in Nat /\ tl[k] <= Len(t)
           /\ \A j, k \in 1..Len(tl) : j <= k => tl[j] <= tl[k]
  <1>1. t \in Seq(Lits) /\ tl \in Seq(Nat)
    BY DEF TrailOK
  <1>2. /\ Len(t) \in Nat /\ DOMAIN t = 1..Len(t) /\ Len(tl) \in Nat /\ DOMAIN tl = 1..Len(tl)
        /\ \A n \in 1..Len(t) : t[n] \in Lits
        /\ \A k \in 1..Len(tl) : tl[k] \in Nat
    BY <1>1, SeqFacts
  <1>3. \A m, n \in 1..Len(t) : var(t[m]) = var(t[n]) => m = n
    BY <1>2, Zenon DEF TrailOK
  <1>4. \A j, k \in 1..Len(tl) : tl[k] <= Len(t) /\ (j <= k => tl[j] <= tl[k])
    BY <1>2, Zenon DEF TrailOK
  <1> QED
    BY <1>1, <1>2, <1>3, <1>4

LEMMA MakeTrail ==
    ASSUME NEW t \in Seq(Lits), NEW tl \in Seq(Nat),
           \A m, n \in 1..Len(t) : var(t[m]) = var(t[n]) => m = n,
           \A k \in 1..Len(tl) : tl[k] <= Len(t),
           \A j, k \in 1..Len(tl) : j <= k => tl[j] <= tl[k]
    PROVE  TrailOK(t, tl)
  <1>1. DOMAIN t = 1..Len(t) /\ DOMAIN tl = 1..Len(tl)
    BY SeqFacts
  <1> QED
    BY <1>1 DEF TrailOK

\* The values of the literals.
LEMMA ValueFacts ==
    ASSUME TrailInv
    PROVE  /\ \A l : IsTrue(l) <=> \E n \in 1..Len(trail) : trail[n] = l
           /\ \A l : IsTrue(l) => l \in Lits
           /\ \A l \in Lits : ~ (IsTrue(l) /\ IsFalse(l))
           /\ \A l \in Lits : Free(l) <=> \A n \in 1..Len(trail) : var(trail[n]) # var(l)
  <1>1. DOMAIN trail = 1..Len(trail) /\ \A n \in 1..Len(trail) : trail[n] \in Lits
    BY TrailParts DEF TrailInv
  <1>2. \A l : IsTrue(l) <=> \E n \in 1..Len(trail) : trail[n] = l
    BY <1>1 DEF IsTrue, Assigned
  <1>3. \A l : IsFalse(l) <=> \E n \in 1..Len(trail) : trail[n] = -l
    BY <1>1 DEF IsFalse, Assigned
  <1>4. ASSUME NEW l \in Lits, IsTrue(l), IsFalse(l)
        PROVE  FALSE
    <2>1. PICK m \in 1..Len(trail) : trail[m] = l
      BY <1>2, <1>4
    <2>2. PICK n \in 1..Len(trail) : trail[n] = -l
      BY <1>3, <1>4
    <2>3. var(trail[m]) = var(trail[n]) /\ -l # l
      BY <2>1, <2>2, LitFacts
    <2>4. m = n
      BY <2>3, TrailParts DEF TrailInv
    <2> QED
      BY <2>1, <2>2, <2>3, <2>4
  <1>5. ASSUME NEW l \in Lits
        PROVE  Free(l) <=> \A n \in 1..Len(trail) : var(trail[n]) # var(l)
    <2>1. ASSUME NEW n \in 1..Len(trail), var(trail[n]) = var(l)
          PROVE  ~ Free(l)
      <3>1. trail[n] = l \/ trail[n] = -l
        BY <1>1, <2>1, SameVar
      <3> QED
        BY <1>2, <1>3, <3>1 DEF Free
    <2>2. ASSUME ~ Free(l)
          PROVE  \E n \in 1..Len(trail) : var(trail[n]) = var(l)
      <3>1. PICK n \in 1..Len(trail) : trail[n] = l \/ trail[n] = -l
        BY <1>2, <1>3, <2>2 DEF Free
      <3> QED
        BY <3>1, LitFacts
    <2> QED
      BY <2>1, <2>2
  <1> QED
    BY <1>1, <1>2, <1>4, <1>5

\* The number of levels that have begun below position n on the trail: the
\* level of the variable that stands there.
LEMMA LevelFacts ==
    ASSUME TrailInv, NEW n \in 1..Len(trail)
    PROVE  /\ level(var(trail[n])) \in 0..decisionLevel
           /\ \A k \in 1..decisionLevel : trail_lim[k] < n <=> k <= level(var(trail[n]))
  <1> DEFINE D == decisionLevel
             S == {k \in DOMAIN trail_lim : trail_lim[k] < n}
  <1>1. /\ D \in Nat /\ DOMAIN trail_lim = 1..D /\ DOMAIN trail = 1..Len(trail)
        /\ \A k \in 1..D : trail_lim[k] \in Nat
        /\ \A j, k \in 1..D : j <= k => trail_lim[j] <= trail_lim[k]
        /\ n \in Nat
    BY TrailParts DEF TrailInv, decisionLevel
  <1>2. PositionOf(var(trail[n])) = n
    BY TrailParts DEF TrailInv, PositionOf
  <1>3. level(var(trail[n])) = Cardinality(S)
    BY <1>2 DEF level
  <1>4. \E m \in 0..D : S = 1..m
    <2>1. CASE S = {}
      <3>1. S = 1..0
        BY <2>1
      <3> QED
        BY <1>1, <3>1
    <2>2. CASE S # {}
      <3>1. S \in SUBSET (0..D)
        BY <1>1
      <3>2. PICK m \in S : \A l \in S : l <= m
        BY <1>1, <2>2, <3>1, MaxExists
      <3>3. m \in 1..D /\ trail_lim[m] < n
        BY <1>1, <3>2
      <3>4. ASSUME NEW k \in 1..m
            PROVE  k \in S
        <4>1. k \in 1..D /\ k <= m
          BY <1>1, <3>3
        <4>2. trail_lim[k] <= trail_lim[m] /\ trail_lim[k] \in Nat /\ trail_lim[m] \in Nat
          BY <1>1, <3>3, <4>1
        <4> QED
          BY <1>1, <3>3, <4>1, <4>2
      <3>5. \A k \in S : k \in 1..m
        BY <1>1, <3>2
      <3>6. m \in 0..D
        BY <1>1, <3>3
      <3> HIDE DEF S
      <3>7. \A k : k \in S <=> k \in 1..m
        BY <3>4, <3>5
      <3>8. S = 1..m
        BY <3>7
      <3> QED
        BY <3>6, <3>8
    <2> QED
      BY <2>1, <2>2
  <1>5. PICK m \in 0..D : S = 1..m
    BY <1>4
  <1>6. Cardinality(S) = m
    <2>1. 1 \in Int /\ m \in Int /\ m >= 0
      BY <1>1, <1>5
    <2>2. Cardinality(1..m) = IF 1 > m THEN 0 ELSE m - 1 + 1
      BY <2>1, FS_Interval
    <2>3. Cardinality(1..m) = m
      BY <2>1, <2>2
    <2> HIDE DEF S
    <2> QED
      BY <1>5, <2>3, Zenon
  <1>7. \A k \in 1..D : trail_lim[k] < n <=> k \in S
    BY <1>1
  <1> HIDE DEF S
  <1>8. \A k \in 1..D : k \in S <=> k <= m
    BY <1>1, <1>5
  <1> QED
    BY <1>3, <1>5, <1>6, <1>7, <1>8

-----------------------------------------------------------------------------
(* Moving along the trail. *)

\* The literals decided at level 0 on a given trail.
Level0(t, tl) == {t[n] : n \in 1..(IF tl = <<>> THEN Len(t) ELSE tl[1])}

\* A further literal.
LEMMA PushFacts ==
    ASSUME NEW t, NEW tl, TrailOK(t, tl), NEW l \in Lits,
           \A n \in 1..Len(t) : var(t[n]) # var(l)
    PROVE  /\ TrailOK(Append(t, l), tl)
           /\ Len(Append(t, l)) = Len(t) + 1
           /\ \A n \in 1..Len(t) : Append(t, l)[n] = t[n]
           /\ Append(t, l)[Len(t) + 1] = l
           /\ Level0(t, tl) \subseteq Level0(Append(t, l), tl)
           /\ tl = <<>> => l \in Level0(Append(t, l), tl)
  <1> DEFINE u == Append(t, l)
  <1>1. /\ t \in Seq(Lits) /\ tl \in Seq(Nat) /\ Len(t) \in Nat /\ Len(tl) \in Nat
        /\ \A m, n \in 1..Len(t) : var(t[m]) = var(t[n]) => m = n
        /\ \A k \in 1..Len(tl) : tl[k] \in Nat /\ tl[k] <= Len(t)
        /\ \A j, k \in 1..Len(tl) : j <= k => tl[j] <= tl[k]
    BY TrailParts
  <1>2. /\ u \in Seq(Lits) /\ Len(u) = Len(t) + 1
        /\ \A n \in 1..Len(t) : u[n] = t[n]
        /\ u[Len(t) + 1] = l
    BY <1>1, AppendFacts
  <1> HIDE DEF u
  <1>3. \A m, n \in 1..Len(u) : var(u[m]) = var(u[n]) => m = n
    <2> TAKE m, n \in 1..Len(u)
    <2>1. m \in 1..Len(t) \/ m = Len(t) + 1
      BY <1>1, <1>2
    <2>2. n \in 1..Len(t) \/ n = Len(t) + 1
      BY <1>1, <1>2
    <2> QED
      BY <1>1, <1>2, <2>1, <2>2
  <1>4. TrailOK(u, tl)
    <2>1. \A k \in 1..Len(tl) : tl[k] <= Len(u)
      BY <1>1, <1>2
    <2> QED
      BY <1>1, <1>2, <1>3, <2>1, MakeTrail
  <1>5. Level0(t, tl) \subseteq Level0(u, tl)
    <2> DEFINE z == IF tl = <<>> THEN Len(t) ELSE tl[1]
               y == IF tl = <<>> THEN Len(u) ELSE tl[1]
    <2>1. tl # <<>> => 1 \in 1..Len(tl)
      BY <1>1, EmptySeq
    <2>2. z \in Nat /\ z <= Len(t) /\ y \in Nat /\ z <= y
      BY <1>1, <1>2, <2>1
    <2> HIDE DEF z, y
    <2>3. \A n \in 1..z : n \in 1..y /\ t[n] = u[n]
      BY <1>1, <1>2, <2>2
    <2> QED
      BY <2>3 DEF Level0, z, y
  <1>6. tl = <<>> => l \in Level0(u, tl)
    <2>1. Len(u) \in 1..Len(u)
      BY <1>1, <1>2
    <2> QED
      BY <1>2, <2>1 DEF Level0
  <1> QED
    BY <1>2, <1>4, <1>5, <1>6 DEF u

\* A further level.
LEMMA NewLevelFacts ==
    ASSUME NEW t, NEW tl, TrailOK(t, tl)
    PROVE  /\ TrailOK(t, Append(tl, Len(t)))
           /\ Len(Append(tl, Len(t))) = Len(tl) + 1
           /\ \A k \in 1..Len(tl) : Append(tl, Len(t))[k] = tl[k]
           /\ Append(tl, Len(t))[Len(tl) + 1] = Len(t)
           /\ Level0(t, Append(tl, Len(t))) = Level0(t, tl)
  <1> DEFINE u == Append(tl, Len(t))
  <1>1. /\ t \in Seq(Lits) /\ tl \in Seq(Nat) /\ Len(t) \in Nat /\ Len(tl) \in Nat
        /\ \A m, n \in 1..Len(t) : var(t[m]) = var(t[n]) => m = n
        /\ \A k \in 1..Len(tl) : tl[k] \in Nat /\ tl[k] <= Len(t)
        /\ \A j, k \in 1..Len(tl) : j <= k => tl[j] <= tl[k]
    BY TrailParts
  <1>2. /\ u \in Seq(Nat) /\ Len(u) = Len(tl) + 1
        /\ \A k \in 1..Len(tl) : u[k] = tl[k]
        /\ u[Len(tl) + 1] = Len(t)
    BY <1>1, AppendFacts
  <1> HIDE DEF u
  <1>3. \A k \in 1..Len(u) : k \in 1..Len(tl) \/ k = Len(tl) + 1
    BY <1>1, <1>2
  <1>4. \A k \in 1..Len(u) : u[k] <= Len(t)
    <2> SUFFICES ASSUME NEW k \in 1..Len(u) PROVE u[k] <= Len(t)
      OBVIOUS
    <2>1. CASE k \in 1..Len(tl)
      BY <1>1, <1>2, <2>1
    <2>2. CASE k = Len(tl) + 1
      BY <1>1, <1>2, <2>2
    <2> QED
      BY <1>3, <2>1, <2>2
  <1>5. \A j, k \in 1..Len(u) : j <= k => u[j] <= u[k]
    <2> SUFFICES ASSUME NEW j \in 1..Len(u), NEW k \in 1..Len(u), j <= k
                 PROVE  u[j] <= u[k]
      OBVIOUS
    <2>1. CASE k \in 1..Len(tl)
      <3>1. j \in 1..Len(tl)
        BY <2>1, <1>1
      <3> QED
        BY <1>1, <1>2, <2>1, <3>1
    <2>2. CASE k = Len(tl) + 1
      BY <1>2, <1>4, <2>2
    <2> QED
      BY <1>3, <2>1, <2>2
  <1>6. TrailOK(t, u)
    BY <1>1, <1>2, <1>4, <1>5, MakeTrail
  <1>7. Level0(t, u) = Level0(t, tl)
    <2>1. u # <<>>
      BY <1>1, <1>2, EmptySeq
    <2>2. CASE tl = <<>>
      <3>1. u[1] = Len(t)
        BY <1>2, <2>2, EmptySeq
      <3> QED
        BY <2>1, <2>2, <3>1 DEF Level0
    <2>3. CASE tl # <<>>
      <3>1. 1 \in 1..Len(tl)
        BY <1>1, <2>3, EmptySeq
      <3>2. u[1] = tl[1]
        BY <1>2, <3>1
      <3> QED
        BY <2>1, <2>3, <3>2 DEF Level0
    <2> QED
      BY <2>2, <2>3
  <1> QED
    BY <1>2, <1>6, <1>7 DEF u

\* What a backjump to a level keeps.
LEMMA KeptFacts ==
    ASSUME TrailInv, NEW lev \in 0..decisionLevel
    PROVE  /\ TrailOK(KeptTrail(lev), KeptLims(lev))
           /\ Len(KeptTrail(lev)) \in 0..Len(trail)
           /\ \A n \in 1..Len(KeptTrail(lev)) : n \in 1..Len(trail) /\ KeptTrail(lev)[n] = trail[n]
           /\ Len(KeptLims(lev)) = lev
           /\ \A k \in 1..lev : k \in 1..decisionLevel /\ KeptLims(lev)[k] = trail_lim[k]
           /\ \A n \in 1..Len(trail) :
                 n <= Len(KeptTrail(lev)) <=> level(var(trail[n])) <= lev
           /\ Level0(trail, trail_lim) \subseteq Level0(KeptTrail(lev), KeptLims(lev))
           /\ lev < decisionLevel =>
                 KeptHead(lev) = Len(KeptTrail(lev)) /\ Len(KeptTrail(lev)) = trail_lim[lev + 1]
           /\ lev = decisionLevel =>
                 KeptHead(lev) = qhead /\ KeptTrail(lev) = trail /\ KeptLims(lev) = trail_lim
  <1> DEFINE t == KeptTrail(lev)
             tl == KeptLims(lev)
             D == decisionLevel
             K == Len(t)
  <1>1. /\ trail \in Seq(Lits) /\ trail_lim \in Seq(Nat) /\ Len(trail) \in Nat
        /\ D = Len(trail_lim) /\ D \in Nat
        /\ \A m, n \in 1..Len(trail) : var(trail[m]) = var(trail[n]) => m = n
        /\ \A k \in 1..D : trail_lim[k] \in Nat /\ trail_lim[k] <= Len(trail)
        /\ \A j, k \in 1..D : j <= k => trail_lim[j] <= trail_lim[k]
    BY TrailParts DEF TrailInv, decisionLevel
  <1>2. /\ tl \in Seq(Nat) /\ Len(tl) = lev /\ lev \in Nat /\ lev <= D
        /\ \A k \in 1..lev : k \in 1..D /\ tl[k] = trail_lim[k]
    BY <1>1, PrefixFacts DEF KeptLims
  <1>3. lev < D => /\ lev + 1 \in 1..D
                   /\ trail_lim[lev + 1] \in 0..Len(trail)
                   /\ t = SubSeq(trail, 1, trail_lim[lev + 1])
                   /\ K = trail_lim[lev + 1] /\ KeptHead(lev) = K
    <2>1. ASSUME lev < D
          PROVE  lev + 1 \in 1..D
      BY <1>1, <1>2, <2>1
    <2>2. lev < D => trail_lim[lev + 1] \in 0..Len(trail)
      BY <1>1, <2>1
    <2>3. lev < D => t = SubSeq(trail, 1, trail_lim[lev + 1])
      BY DEF KeptTrail
    <2> QED
      BY <1>1, <2>1, <2>2, <2>3, PrefixFacts DEF KeptHead
  <1>4. lev = D => t = trail /\ KeptHead(lev) = qhead
    BY <1>1 DEF KeptTrail, KeptHead
  <1>5. lev < D \/ lev = D
    BY <1>1, <1>2
  <1>6. lev = D => tl = trail_lim
    <2>1. SubSeq(trail_lim, 1, Len(trail_lim)) = trail_lim
      BY <1>1, SubSeqFull
    <2> QED
      BY <1>1, <2>1 DEF KeptLims
  <1>7. /\ t \in Seq(Lits) /\ K \in 0..Len(trail)
        /\ \A n \in 1..K : n \in 1..Len(trail) /\ t[n] = trail[n]
    <2>1. CASE lev < D
      <3>1. PICK m \in 0..Len(trail) : t = SubSeq(trail, 1, m)
        BY <1>3, <2>1
      <3> HIDE DEF t
      <3>2. t \in Seq(Lits) /\ K = m /\ \A n \in 1..m : t[n] = trail[n]
        BY <1>1, <3>1, PrefixFacts
      <3> QED
        BY <1>1, <3>2
    <2>2. CASE lev = D
      BY <1>1, <1>4, <2>2
    <2> QED
      BY <1>5, <2>1, <2>2
  <1> HIDE DEF t, tl
  <1>8. \A k \in 1..lev : tl[k] <= K
    <2> TAKE k \in 1..lev
    <2>1. CASE lev < D
      <3>1. k <= lev + 1 /\ k \in 1..D /\ lev + 1 \in 1..D
        BY <1>2, <1>3, <2>1
      <3>2. trail_lim[k] <= trail_lim[lev + 1]
        BY <1>1, <3>1
      <3> QED
        BY <1>2, <1>3, <2>1, <3>2
    <2>2. CASE lev = D
      BY <1>1, <1>2, <1>4, <2>2
    <2> QED
      BY <1>5, <2>1, <2>2
  <1>9. TrailOK(t, tl)
    <2>1. \A m, n \in 1..Len(t) : var(t[m]) = var(t[n]) => m = n
      BY <1>1, <1>7
    <2>2. \A k \in 1..Len(tl) : tl[k] <= Len(t)
      BY <1>2, <1>8
    <2>3. \A j, k \in 1..Len(tl) : j <= k => tl[j] <= tl[k]
      BY <1>1, <1>2
    <2> QED
      BY <1>2, <1>7, <2>1, <2>2, <2>3, MakeTrail
  <1>10. \A n \in 1..Len(trail) : n <= K <=> level(var(trail[n])) <= lev
    <2> TAKE n \in 1..Len(trail)
    <2>1. /\ level(var(trail[n])) \in 0..D
          /\ \A k \in 1..D : trail_lim[k] < n <=> k <= level(var(trail[n]))
      BY LevelFacts
    <2>2. CASE lev < D
      <3>1. trail_lim[lev + 1] < n <=> lev + 1 <= level(var(trail[n]))
        BY <1>3, <2>1, <2>2
      <3>2. trail_lim[lev + 1] \in Nat /\ level(var(trail[n])) \in Nat
        BY <1>1, <1>3, <2>1, <2>2
      <3>3. ~ (trail_lim[lev + 1] < n) <=> n <= trail_lim[lev + 1]
        BY <3>2
      <3>4. ~ (lev + 1 <= level(var(trail[n]))) <=> level(var(trail[n])) <= lev
        BY <1>2, <3>2
      <3> QED
        BY <1>3, <2>2, <3>1, <3>3, <3>4
    <2>3. CASE lev = D
      <3>1. K = Len(trail)
        BY <1>4, <2>3
      <3> QED
        BY <1>1, <2>1, <2>3, <3>1
    <2> QED
      BY <1>5, <2>2, <2>3
  <1>11. Level0(trail, trail_lim) \subseteq Level0(t, tl)
    <2>1. CASE lev = D
      BY <1>4, <1>6, <2>1
    <2>2. CASE lev < D
      <3>1. trail_lim # <<>> /\ 1 \in 1..D
        BY <1>1, <1>3, <2>2, EmptySeq
      <3>2. trail_lim[1] <= K /\ trail_lim[1] \in Nat
        <4>1. 1 <= lev + 1 /\ lev + 1 \in 1..D
          BY <1>2, <1>3, <2>2
        <4> QED
          BY <1>1, <1>3, <2>2, <3>1, <4>1
      <3>3. \A n \in 1..trail_lim[1] : t[n] = trail[n] /\ n \in 1..K
        BY <1>7, <3>2
      <3>4. (IF tl = <<>> THEN Len(t) ELSE tl[1]) \in {K, trail_lim[1]}
        <4>1. CASE tl = <<>>
          BY <4>1
        <4>2. CASE tl # <<>>
          <5>1. 1 \in 1..lev
            BY <1>2, <4>2, EmptySeq
          <5> QED
            BY <1>2, <4>2, <5>1
        <4> QED
          BY <4>1, <4>2
      <3>5. \A n \in 1..trail_lim[1] :
               n \in 1..(IF tl = <<>> THEN Len(t) ELSE tl[1]) /\ t[n] = trail[n]
        BY <3>3, <3>4
      <3> QED
        BY <3>1, <3>5 DEF Level0
    <2> QED
      BY <1>5, <2>1, <2>2
  <1> QED
    BY <1>2, <1>3, <1>4, <1>6, <1>7, <1>9, <1>10, <1>11 DEF t, tl

-----------------------------------------------------------------------------
(* Excuses, reasons and the formula when the trail moves. *)

LEMMA ExcusedKept ==
    ASSUME TrailInv, NEW lev \in 0..decisionLevel, NEW S,
           NEW n \in 1..Len(KeptTrail(lev)), ExcusedIn(S, trail, trail_lim, n)
    PROVE  ExcusedIn(S, KeptTrail(lev), KeptLims(lev), n)
  <1> DEFINE t == KeptTrail(lev)
             tl == KeptLims(lev)
  <1>1. /\ DOMAIN trail = 1..Len(trail) /\ DOMAIN trail_lim = 1..decisionLevel
        /\ Len(trail) \in Nat /\ decisionLevel \in Nat
        /\ \A k \in 1..decisionLevel : trail_lim[k] \in Nat
    BY TrailParts DEF TrailInv, decisionLevel
  <1>2. /\ TrailOK(t, tl) /\ Len(t) \in 0..Len(trail)
        /\ \A m \in 1..Len(t) : m \in 1..Len(trail) /\ t[m] = trail[m]
        /\ Len(tl) = lev
        /\ \A k \in 1..lev : k \in 1..decisionLevel /\ tl[k] = trail_lim[k]
        /\ lev < decisionLevel => Len(t) = trail_lim[lev + 1]
        /\ lev = decisionLevel => t = trail
    BY KeptFacts
  <1>3. DOMAIN t = 1..Len(t) /\ DOMAIN tl = 1..lev
    BY <1>2, TrailParts
  <1> HIDE DEF t, tl
  <1>4. PICK m \in 1..Len(trail) : trail[m] \in S /\ NoDecisionBetween(trail_lim, n, m)
    BY <1>1 DEF ExcusedIn
  <1>5. m \in 1..Len(t)
    <2>1. CASE lev < decisionLevel
      <3>1. lev + 1 \in 1..decisionLevel
        BY <1>1, <2>1
      <3>2. trail_lim[lev + 1] < m => trail_lim[lev + 1] < n
        BY <1>1, <1>4, <3>1 DEF NoDecisionBetween
      <3>3. n <= Len(t) /\ n \in Nat
        BY <1>1, <1>2 DEF t
      <3> QED
        BY <1>1, <1>2, <2>1, <3>1, <3>2, <3>3
    <2>2. CASE lev = decisionLevel
      BY <1>2, <2>2
    <2> QED
      BY <1>1, <2>1, <2>2
  <1>6. NoDecisionBetween(tl, n, m)
    BY <1>1, <1>2, <1>3, <1>4 DEF NoDecisionBetween
  <1>7. t[m] \in S
    BY <1>2, <1>4, <1>5
  <1> QED
    BY <1>3, <1>5, <1>6, <1>7 DEF ExcusedIn, t, tl

LEMMA ExcusedPush ==
    ASSUME NEW t, NEW tl, TrailOK(t, tl), NEW l \in Lits, NEW S, NEW n,
           ExcusedIn(S, t, tl, n)
    PROVE  ExcusedIn(S, Append(t, l), tl, n)
  <1>1. t \in Seq(Lits) /\ DOMAIN t = 1..Len(t) /\ Len(t) \in Nat
    BY TrailParts
  <1>2. PICK m \in 1..Len(t) : t[m] \in S /\ NoDecisionBetween(tl, n, m)
    BY <1>1 DEF ExcusedIn
  <1>3. m \in DOMAIN Append(t, l) /\ Append(t, l)[m] = t[m]
    BY <1>1, AppendFacts
  <1> QED
    BY <1>2, <1>3 DEF ExcusedIn

LEMMA ExcusedNewLevel ==
    ASSUME NEW t, NEW tl, TrailOK(t, tl), NEW S, NEW n \in 1..Len(t),
           ExcusedIn(S, t, tl, n)
    PROVE  ExcusedIn(S, t, Append(tl, Len(t)), n)
  <1> DEFINE u == Append(tl, Len(t))
  <1>1. /\ DOMAIN t = 1..Len(t) /\ Len(t) \in Nat /\ DOMAIN tl = 1..Len(tl) /\ Len(tl) \in Nat
    BY TrailParts
  <1>2. /\ TrailOK(t, u) /\ Len(u) = Len(tl) + 1
        /\ \A k \in 1..Len(tl) : u[k] = tl[k]
        /\ u[Len(tl) + 1] = Len(t)
    BY NewLevelFacts
  <1>3. DOMAIN u = 1..(Len(tl) + 1)
    BY <1>2, TrailParts
  <1> HIDE DEF u
  <1>4. PICK m \in 1..Len(t) : t[m] \in S /\ NoDecisionBetween(tl, n, m)
    BY <1>1 DEF ExcusedIn
  <1>5. ASSUME NEW k \in 1..(Len(tl) + 1), u[k] < m
        PROVE  u[k] < n
    <2>1. k # Len(tl) + 1
      BY <1>1, <1>2, <1>5
    <2>2. k \in 1..Len(tl)
      BY <1>1, <2>1
    <2> QED
      BY <1>1, <1>2, <1>4, <1>5, <2>2 DEF NoDecisionBetween
  <1> QED
    BY <1>1, <1>3, <1>4, <1>5 DEF ExcusedIn, NoDecisionBetween, u

\* The reasons stay right when the clauses do not lose a head that is true.
LEMMA FirstTo ==
    ASSUME TrailInv, ReasonInv, NEW f2,
           \A cr \in InUse : IsTrue(ca[cr].lits[1]) =>
              cr \in DOMAIN f2 /\ f2[cr] = ca[cr].lits[1]
    PROVE  ReasonsOK(reason, trail, f2)
  <1>1. DOMAIN trail = 1..Len(trail)
    BY TrailParts DEF TrailInv
  <1>2. ASSUME NEW n \in DOMAIN trail, reason[var(trail[n])] > 0
        PROVE  reason[var(trail[n])] \in DOMAIN f2 /\ f2[reason[var(trail[n])]] = trail[n]
    <2> DEFINE cr == reason[var(trail[n])]
    <2>1. cr \in InUse /\ ca[cr].lits[1] = trail[n]
      BY <1>2 DEF ReasonInv, ReasonsOK, First
    <2>2. IsTrue(ca[cr].lits[1])
      BY <1>1, <2>1 DEF IsTrue, Assigned
    <2> QED
      BY <2>1, <2>2
  <1> QED
    BY <1>2 DEF ReasonInv, ReasonsOK

LEMMA ReasonsCut ==
    ASSUME NEW f2, ReasonsOK(reason, trail, f2), NEW t, NEW tl, TrailOK(t, tl), TrailInv,
           \A n \in 1..Len(t) : n \in 1..Len(trail) /\ t[n] = trail[n]
    PROVE  ReasonsOK(ReasonsOn(t), t, f2)
  <1>1. /\ DOMAIN t = 1..Len(t) /\ DOMAIN trail = 1..Len(trail)
        /\ \A n \in 1..Len(t) : t[n] \in Lits
    BY TrailParts DEF TrailInv
  <1>2. \A n \in 1..Len(t) : var(t[n]) \in Vars
    BY <1>1, LitFacts
  <1>3. ReasonsOn(t) \in [Vars -> Int]
    BY DEF ReasonsOK, ReasonsOn, CRef_Undef
  <1>4. \A n \in 1..Len(t) : ReasonsOn(t)[var(t[n])] = reason[var(t[n])]
    BY <1>1, <1>2 DEF ReasonsOn
  <1>5. \A n \in 1..Len(t) :
           reason[var(t[n])] > 0 =>
              reason[var(t[n])] \in DOMAIN f2 /\ f2[reason[var(t[n])]] = t[n]
    BY <1>1 DEF ReasonsOK
  <1> QED
    BY <1>1, <1>3, <1>4, <1>5 DEF ReasonsOK

LEMMA ReasonsPush ==
    ASSUME NEW f2, ReasonsOK(reason, trail, f2), NEW t, NEW tl, TrailOK(t, tl), TrailInv,
           \A n \in 1..Len(t) : n \in 1..Len(trail) /\ t[n] = trail[n],
           NEW l \in Lits, \A n \in 1..Len(t) : var(t[n]) # var(l),
           NEW from \in Int, from > 0 => from \in DOMAIN f2 /\ f2[from] = l
    PROVE  ReasonsOK([ReasonsOn(t) EXCEPT ![var(l)] = from], Append(t, l), f2)
  <1> DEFINE r == ReasonsOn(t)
             r2 == [r EXCEPT ![var(l)] = from]
             u == Append(t, l)
  <1>1. /\ DOMAIN t = 1..Len(t) /\ Len(t) \in Nat /\ t \in Seq(Lits)
        /\ \A n \in 1..Len(t) : t[n] \in Lits
    BY TrailParts
  <1>2. /\ DOMAIN u = 1..(Len(t) + 1)
        /\ \A n \in 1..Len(t) : u[n] = t[n]
        /\ u[Len(t) + 1] = l
    BY <1>1, AppendFacts
  <1>3. ReasonsOK(r, t, f2)
    BY ReasonsCut
  <1>4. r \in [Vars -> Int] /\ var(l) \in Vars /\ \A n \in 1..Len(t) : var(t[n]) \in Vars
    BY <1>1, <1>3, LitFacts DEF ReasonsOK
  <1> HIDE DEF r, u
  <1>5. /\ r2 \in [Vars -> Int] /\ r2[var(l)] = from
        /\ \A n \in 1..Len(t) : r2[var(t[n])] = r[var(t[n])]
    BY <1>4
  <1> HIDE DEF r2
  <1>6. ASSUME NEW n \in DOMAIN u, r2[var(u[n])] > 0
        PROVE  r2[var(u[n])] \in DOMAIN f2 /\ f2[r2[var(u[n])]] = u[n]
    <2>1. CASE n = Len(t) + 1
      BY <1>2, <1>5, <1>6, <2>1
    <2>2. CASE n \in 1..Len(t)
      BY <1>1, <1>2, <1>3, <1>5, <1>6, <2>2 DEF ReasonsOK
    <2> QED
      BY <1>1, <1>2, <2>1, <2>2
  <1> QED
    BY <1>5, <1>6 DEF ReasonsOK, r2, r, u

\* A clause of the database with the literals of L stands for the added clause
\* c when those of A are decided at level 0.
Remains(L, A, c) == L \cup {q \in c : -q \in A} = c
Kept(c) == \/ \E q \in c : q \in AtLevel0 \/ -q \in c
           \/ \E cr \in clauses : Remains(LitsOf(cr), AtLevel0, c)
LEMMA FormulaRemains ==
    FormulaInv <=> (ok => /\ \A c \in added : Kept(c)
                          /\ \A cr \in clauses : \E c \in added :
                                Remains(LitsOf(cr), AtLevel0, c))
  BY DEF FormulaInv, Kept, Remains, False0

LEMMA FormulaTo ==
    ASSUME FormulaInv, ok' => ok, added \subseteq added', AtLevel0 \subseteq AtLevel0',
           \A cr \in clauses : \/ \E x \in clauses' : LitsOf(x)' = LitsOf(cr)
                               \/ \E q \in LitsOf(cr) : q \in AtLevel0',
           \A x \in clauses' : \/ \E cr \in clauses : LitsOf(x)' = LitsOf(cr)
                               \/ \E c \in added' : Remains(LitsOf(x)', AtLevel0', c),
           \A c \in added' : c \in added \/ Kept(c)'
    PROVE  FormulaInv'
  <1> SUFFICES ASSUME ok'
               PROVE  /\ \A c \in added' : Kept(c)'
                      /\ \A x \in clauses' : \E c \in added' : Remains(LitsOf(x)', AtLevel0', c)
    BY DEF FormulaInv, Kept, Remains, False0
  <1>1. /\ \A c \in added : Kept(c)
        /\ \A cr \in clauses : \E c \in added : Remains(LitsOf(cr), AtLevel0, c)
    BY FormulaRemains
  <1>2. \A L, c : Remains(L, AtLevel0, c) => Remains(L, AtLevel0', c)
    BY DEF Remains
  <1>3. ASSUME NEW c \in added
        PROVE  Kept(c)'
    <2>1. CASE \E q \in c : q \in AtLevel0 \/ -q \in c
      BY <2>1 DEF Kept
    <2>2. CASE \E cr \in clauses : Remains(LitsOf(cr), AtLevel0, c)
      <3>1. PICK cr \in clauses : Remains(LitsOf(cr), AtLevel0, c)
        BY <2>2
      <3>2. CASE \E x \in clauses' : LitsOf(x)' = LitsOf(cr)
        BY <1>2, <3>1, <3>2 DEF Kept
      <3>3. CASE \E q \in LitsOf(cr) : q \in AtLevel0'
        <4>1. LitsOf(cr) \subseteq c
          BY <3>1 DEF Remains
        <4> QED
          BY <3>3, <4>1 DEF Kept
      <3> QED
        BY <3>2, <3>3
    <2> QED
      BY <1>1, <2>1, <2>2 DEF Kept
  <1>4. ASSUME NEW x \in clauses'
        PROVE  \E c \in added' : Remains(LitsOf(x)', AtLevel0', c)
    <2>1. CASE \E cr \in clauses : LitsOf(x)' = LitsOf(cr)
      BY <1>1, <1>2, <2>1
    <2> QED
      BY <2>1
  <1> QED
    BY <1>3, <1>4

-----------------------------------------------------------------------------
(* The arena and the lists. *)

LEMMA ClauseFacts ==
    ASSUME DbInv, NEW cr \in InUse
    PROVE  /\ cr \in 1..Len(ca) /\ ca[cr] \in Clauses /\ ca[cr].mark = 0
           /\ ca[cr].lits \in Seq(Lits)
           /\ Len(ca[cr].lits) \in Nat /\ Len(ca[cr].lits) >= 2
           /\ DOMAIN ca[cr].lits = 1..Len(ca[cr].lits)
           /\ \A n \in 1..Len(ca[cr].lits) : ca[cr].lits[n] \in Lits
           /\ \A m, n \in 1..Len(ca[cr].lits) : ca[cr].lits[m] = ca[cr].lits[n] => m = n
           /\ LitsOf(cr) = Elements(ca[cr].lits)
           /\ LitsOf(cr) \subseteq Lits /\ Heads(cr) \subseteq LitsOf(cr)
           /\ ca[cr].lits[1] # ca[cr].lits[2]
  <1>1. ca \in Seq(Clauses) /\ DOMAIN ca = 1..Len(ca)
    BY SeqFacts DEF DbInv
  <1>2. cr \in 1..Len(ca)
    BY <1>1 DEF DbInv, InUse
  <1>3. /\ ca[cr] \in Clauses /\ ca[cr].mark = 0 /\ Len(ca[cr].lits) >= 2
        /\ \A m, n \in DOMAIN ca[cr].lits : ca[cr].lits[m] = ca[cr].lits[n] => m = n
    BY <1>1, <1>2, SeqFacts DEF DbInv
  <1>4. ca[cr].lits \in Seq(Lits)
    BY <1>3 DEF Clauses
  <1>5. /\ Len(ca[cr].lits) \in Nat /\ DOMAIN ca[cr].lits = 1..Len(ca[cr].lits)
        /\ \A n \in 1..Len(ca[cr].lits) : ca[cr].lits[n] \in Lits
    BY <1>4, SeqFacts
  <1>6. LitsOf(cr) = Elements(ca[cr].lits)
    BY <1>5 DEF LitsOf, Elements
  <1>7. 1 \in 1..Len(ca[cr].lits) /\ 2 \in 1..Len(ca[cr].lits)
    BY <1>3, <1>5
  <1>8. Heads(cr) \subseteq LitsOf(cr)
    BY <1>6, <1>7 DEF Heads, Elements
  <1>9. ca[cr].lits[1] # ca[cr].lits[2]
    BY <1>3, <1>5, <1>7
  <1>10. \A m, n \in 1..Len(ca[cr].lits) : ca[cr].lits[m] = ca[cr].lits[n] => m = n
    BY <1>3, <1>5
  <1>11. LitsOf(cr) \subseteq Lits
    BY <1>5, <1>6 DEF Elements
  <1> QED
    BY <1>2, <1>3, <1>4, <1>5, <1>6, <1>8, <1>9, <1>10, <1>11

\* The watchers that are left in a list whose clauses are in use.
LEMMA WatcherFacts ==
    ASSUME DbInv, WatchInv, NEW l \in Lits, NEW w \in watches[l], w.cref \in InUse
    PROVE  /\ -l \in Heads(w.cref) /\ w.blocker \in LitsOf(w.cref) \ {-l}
           /\ Watching(w.cref, l) = {w}
           /\ w = Watcher(w.cref, w.blocker)
  <1>1. w \in Watching(w.cref, l)
    BY DEF Watching
  <1>2. -l \in Heads(w.cref)
    BY <1>1 DEF WatchInv
  <1>3. PICK b \in LitsOf(w.cref) \ {-l} : Watching(w.cref, l) = {Watcher(w.cref, b)}
    BY <1>2 DEF WatchInv
  <1>4. w = Watcher(w.cref, b)
    BY <1>1, <1>3
  <1>5. w.blocker = b
    BY <1>4 DEF Watcher
  <1> QED
    BY <1>2, <1>3, <1>4, <1>5

\* What a step that leaves the database alone keeps.
LEMMA SameDb ==
    ASSUME UNCHANGED db
    PROVE  /\ InUse' = InUse /\ clauses' = clauses /\ ca' = ca /\ First' = First
           /\ \A cr : LitsOf(cr)' = LitsOf(cr) /\ Heads(cr)' = Heads(cr)
           /\ DbInv /\ WatchInv /\ ListsClean => (DbInv /\ WatchInv /\ ListsClean)'
  <1>1. /\ ca' = ca /\ clauses' = clauses /\ learnts' = learnts
        /\ watches' = watches /\ dirties' = dirties
    BY DEF db
  <1>2. InUse' = InUse /\ \A cr : LitsOf(cr)' = LitsOf(cr) /\ Heads(cr)' = Heads(cr)
    BY <1>1 DEF InUse, LitsOf, Heads
  <1>3. First' = First
    BY <1>1, <1>2 DEF First
  <1>4. DbInv => DbInv'
    BY <1>1, <1>2 DEF DbInv
  <1>5. ListsClean => ListsClean'
    BY <1>1, <1>2 DEF ListsClean
  <1>6. WatchInv => WatchInv'
    <2>1. \A cr, l : Watching(cr, l)' = Watching(cr, l)
      BY <1>1 DEF Watching
    <2> QED
      BY <1>2, <2>1 DEF WatchInv
  <1> QED
    BY <1>1, <1>2, <1>3, <1>4, <1>5, <1>6

\* A new clause, attached: it is in use, and nothing else has changed.
LEMMA AllocDb ==
    ASSUME DbInv, WatchInv, ListsClean,
           NEW c \in Seq(Lits), Len(c) >= 2,
           \A m, n \in 1..Len(c) : c[m] = c[n] => m = n,
           NEW learnt \in BOOLEAN, Allocate(c, learnt), NEW N, N = Len(ca) + 1
    PROVE  /\ DbInv' /\ WatchInv' /\ ListsClean'
           /\ N \in Nat \ {0} /\ N \notin InUse
           /\ InUse' = InUse \cup {N}
           /\ clauses' = IF learnt THEN clauses ELSE clauses \cup {N}
           /\ dirties' = dirties
           /\ ca'[N].lits = c
           /\ LitsOf(N)' = Elements(c) /\ Heads(N)' = {c[1], c[2]}
           /\ \A cr \in InUse : /\ ca'[cr] = ca[cr]
                                /\ LitsOf(cr)' = LitsOf(cr) /\ Heads(cr)' = Heads(cr)
  <1> DEFINE e == [lits |-> c, learnt |-> learnt, mark |-> 0]
  <1>1. /\ ca \in Seq(Clauses) /\ Len(ca) \in Nat /\ DOMAIN ca = 1..Len(ca)
        /\ \A cr \in 1..Len(ca) : ca[cr] \in Clauses
        /\ clauses \subseteq 1..Len(ca) /\ learnts \subseteq 1..Len(ca)
        /\ clauses \cap learnts = {}
        /\ InUse \subseteq 1..Len(ca) /\ N \notin InUse /\ N \notin 1..Len(ca)
    <2>1. ca \in Seq(Clauses) /\ Len(ca) \in Nat /\ DOMAIN ca = 1..Len(ca)
          /\ \A cr \in 1..Len(ca) : ca[cr] \in Clauses
      BY SeqFacts DEF DbInv
    <2>2. clauses \subseteq 1..Len(ca) /\ learnts \subseteq 1..Len(ca) /\ clauses \cap learnts = {}
      BY <2>1 DEF DbInv
    <2> QED
      BY <2>1, <2>2 DEF InUse
  <1>2. Len(c) \in Nat /\ DOMAIN c = 1..Len(c) /\ \A n \in 1..Len(c) : c[n] \in Lits
    BY SeqFacts
  <1>3. /\ c[1] \in Lits /\ c[2] \in Lits /\ c[1] # c[2]
        /\ -c[1] \in Lits /\ -c[2] \in Lits /\ -c[1] # -c[2]
    <2>1. 1 \in 1..Len(c) /\ 2 \in 1..Len(c)
      BY <1>2
    <2>2. c[1] \in Lits /\ c[2] \in Lits /\ c[1] # c[2]
      BY <1>2, <2>1
    <2> QED
      BY <2>2, LitFacts
  <1>4. e \in Clauses
    BY DEF Clauses
  <1> HIDE DEF e
  <1>5. /\ ca' = Append(ca, e)
        /\ watches' = Attached(watches, N, c) /\ dirties' = dirties
        /\ clauses' = IF learnt THEN clauses ELSE clauses \cup {N}
        /\ learnts' = IF learnt THEN learnts \cup {N} ELSE learnts
    BY DEF Allocate, e
  <1>6. /\ ca' \in Seq(Clauses) /\ DOMAIN ca' = 1..N /\ ca'[N] = e
        /\ \A cr \in 1..Len(ca) : ca'[cr] = ca[cr]
    BY <1>1, <1>4, <1>5, AppendFacts
  <1>7. /\ InUse' = InUse \cup {N} /\ clauses' \cap learnts' = {}
        /\ clauses' \subseteq 1..N /\ learnts' \subseteq 1..N
    <2>1. \A x \in 1..Len(ca) : x \in 1..N
      BY <1>1
    <2>2. N \in 1..N
      BY <1>1
    <2>3. InUse' = clauses' \cup learnts'
      BY DEF InUse
    <2>4. N \notin clauses /\ N \notin learnts
      BY <1>1
    <2> QED
      BY <1>1, <1>5, <2>1, <2>2, <2>3, <2>4 DEF InUse
  <1>8. e.lits = c /\ e.mark = 0
    BY DEF e
  <1>9. /\ LitsOf(N)' = Elements(c) /\ Heads(N)' = {c[1], c[2]}
        /\ \A cr \in InUse : LitsOf(cr)' = LitsOf(cr) /\ Heads(cr)' = Heads(cr)
    <2>1. ca'[N].lits = c
      BY <1>6, <1>8
    <2>2. \A cr \in InUse : ca'[cr] = ca[cr]
      BY <1>1, <1>6
    <2>3. LitsOf(N)' = Elements(c) /\ Heads(N)' = {c[1], c[2]}
      BY <1>2, <2>1 DEF LitsOf, Heads, Elements
    <2>4. \A cr \in InUse : LitsOf(cr)' = LitsOf(cr) /\ Heads(cr)' = Heads(cr)
      BY <2>2 DEF LitsOf, Heads
    <2> QED
      BY <2>3, <2>4
  <1>10. watches \in [Lits -> SUBSET [cref : 1..Len(ca), blocker : Lits]]
    BY <1>1 DEF DbInv
  <1>11. /\ DOMAIN watches' = Lits
         /\ \A l \in Lits : watches'[l] = IF l = -c[1] THEN watches[l] \cup {Watcher(N, c[2])}
                                         ELSE IF l = -c[2] THEN watches[l] \cup {Watcher(N, c[1])}
                                         ELSE watches[l]
    BY <1>3, <1>5, <1>10 DEF Attached
  <1>12. DbInv'
    <2>1. watches' \in [Lits -> SUBSET [cref : 1..N, blocker : Lits]]
      <3>1. \A l \in Lits : watches[l] \subseteq [cref : 1..N, blocker : Lits]
        <4>1. 1..Len(ca) \subseteq 1..N
          BY <1>1
        <4>2. \A l \in Lits : watches[l] \subseteq [cref : 1..Len(ca), blocker : Lits]
          BY <1>10
        <4> QED
          BY <4>1, <4>2
      <3>2. \A x \in {c[1], c[2]} : Watcher(N, x) \in [cref : 1..N, blocker : Lits]
        BY <1>1, <1>3 DEF Watcher
      <3>3. \A l \in Lits : watches'[l] \subseteq [cref : 1..N, blocker : Lits]
        BY <1>11, <3>1, <3>2
      <3>4. watches' = [l \in Lits |-> watches'[l]]
        BY <1>3, <1>5, <1>10 DEF Attached
      <3> QED
        BY <3>3, <3>4
    <2>2. ASSUME NEW cr \in 1..N
          PROVE  /\ Len(ca'[cr].lits) >= 2
                 /\ \A m, n \in DOMAIN ca'[cr].lits : ca'[cr].lits[m] = ca'[cr].lits[n] => m = n
                 /\ ca'[cr].mark = 0 <=> cr \in InUse'
      <3>1. CASE cr = N
        BY <1>2, <1>6, <1>7, <1>8, <3>1
      <3>2. CASE cr \in 1..Len(ca)
        <4>1. /\ Len(ca[cr].lits) >= 2
              /\ \A m, n \in DOMAIN ca[cr].lits : ca[cr].lits[m] = ca[cr].lits[n] => m = n
              /\ ca[cr].mark = 0 <=> cr \in InUse
          BY <1>1, <3>2 DEF DbInv
        <4>2. cr \in InUse <=> cr \in InUse'
          BY <1>1, <1>7, <3>2
        <4> QED
          BY <1>6, <3>2, <4>1, <4>2
      <3> QED
        BY <1>1, <3>1, <3>2
    <2>3. dirties' \subseteq Lits
      BY <1>5 DEF DbInv
    <2> QED
      BY <1>6, <1>7, <2>1, <2>2, <2>3 DEF DbInv
  <1>13. ASSUME NEW cr \in InUse, NEW l \in Lits
         PROVE  Watching(cr, l)' = Watching(cr, l)
    <2>1. \A x : Watcher(N, x).cref # cr
      BY <1>1 DEF Watcher
    <2> QED
      BY <1>11, <2>1 DEF Watching
  <1>14. ASSUME NEW l \in Lits
         PROVE  Watching(N, l)' = IF l = -c[1] THEN {Watcher(N, c[2])}
                                  ELSE IF l = -c[2] THEN {Watcher(N, c[1])} ELSE {}
    <2>1. \A w \in watches[l] : w.cref # N
      BY <1>1, <1>10
    <2>2. \A x : Watcher(N, x).cref = N
      BY DEF Watcher
    <2>3. \A x : {w \in watches[l] \cup {Watcher(N, x)} : w.cref = N} = {Watcher(N, x)}
      BY <2>1, <2>2
    <2>4. {w \in watches[l] : w.cref = N} = {}
      BY <2>1
    <2>5. Watching(N, l)' = {w \in watches'[l] : w.cref = N}
      BY DEF Watching
    <2>6. CASE l = -c[1]
      BY <1>11, <2>3, <2>5, <2>6
    <2>7. CASE l # -c[1] /\ l = -c[2]
      BY <1>11, <2>3, <2>5, <2>7
    <2>8. CASE l # -c[1] /\ l # -c[2]
      BY <1>11, <2>4, <2>5, <2>8
    <2> QED
      BY <2>6, <2>7, <2>8
  <1>15. WatchInv'
    <2> SUFFICES ASSUME NEW cr \in InUse', NEW l \in Lits
                 PROVE  IF -l \in Heads(cr)'
                        THEN \E b \in LitsOf(cr)' \ {-l} : Watching(cr, l)' = {Watcher(cr, b)}
                        ELSE Watching(cr, l)' = {}
      BY DEF WatchInv, Watcher
    <2>1. CASE cr \in InUse
      BY <1>9, <1>13, <2>1 DEF WatchInv
    <2>2. CASE cr = N
      <3>1. /\ Heads(N)' = {c[1], c[2]} /\ c[1] \in LitsOf(N)' /\ c[2] \in LitsOf(N)'
        <4>1. 1 \in 1..Len(c) /\ 2 \in 1..Len(c)
          BY <1>2
        <4> QED
          BY <1>9, <4>1 DEF Elements
      <3>2. -l = c[1] <=> l = -c[1]
        BY <1>3, LitFacts
      <3>3. -l = c[2] <=> l = -c[2]
        BY <1>3, LitFacts
      <3>4. CASE l = -c[1]
        <4>1. -l = c[1] /\ c[2] \in LitsOf(N)' \ {-l}
          BY <1>3, <3>1, <3>2, <3>4
        <4>2. Watching(N, l)' = {Watcher(N, c[2])}
          BY <1>14, <3>4
        <4> QED
          BY <2>2, <3>1, <4>1, <4>2
      <3>5. CASE l # -c[1] /\ l = -c[2]
        <4>1. -l = c[2] /\ c[1] \in LitsOf(N)' \ {-l}
          BY <1>3, <3>1, <3>3, <3>5
        <4>2. Watching(N, l)' = {Watcher(N, c[1])}
          BY <1>14, <3>5
        <4> QED
          BY <2>2, <3>1, <4>1, <4>2
      <3>6. CASE l # -c[1] /\ l # -c[2]
        BY <1>14, <2>2, <3>1, <3>2, <3>3, <3>6
      <3> QED
        BY <3>4, <3>5, <3>6
    <2> QED
      BY <1>7, <2>1, <2>2
  <1>16. ListsClean'
    <2> SUFFICES ASSUME NEW l \in Lits \ dirties, NEW w \in watches'[l]
                 PROVE  w.cref \in InUse'
      BY <1>5 DEF ListsClean
    <2>1. w \in watches[l] \/ w.cref = N
      BY <1>11 DEF Watcher
    <2> QED
      BY <1>7, <2>1 DEF ListsClean
  <1> QED
    BY <1>1, <1>5, <1>6, <1>7, <1>8, <1>9, <1>12, <1>15, <1>16

\* A clause in use whose literals are put in another order, with the watchers
\* that belong to it, and no other clause touched.
LEMMA RewriteDb ==
    ASSUME DbInv, WatchInv, ListsClean, NEW cr \in InUse, NEW c \in Seq(Lits),
           Len(c) = Len(ca[cr].lits),
           \A m, n \in 1..Len(c) : c[m] = c[n] => m = n,
           Elements(c) = LitsOf(cr),
           ca' = [ca EXCEPT ![cr].lits = c], UNCHANGED <<clauses, learnts, dirties>>,
           watches' \in [Lits -> SUBSET [cref : DOMAIN ca, blocker : Lits]],
           \A l \in Lits : \A w \in watches'[l] : w \in watches[l] \/ w.cref = cr,
           \A x \in InUse \ {cr}, l \in Lits : Watching(x, l)' = Watching(x, l),
           \A l \in Lits : IF -l \in {c[1], c[2]}
                         THEN \E b \in LitsOf(cr) \ {-l} : Watching(cr, l)' = {Watcher(cr, b)}
                         ELSE Watching(cr, l)' = {}
    PROVE  /\ DbInv' /\ WatchInv' /\ ListsClean' /\ InUse' = InUse
           /\ ca'[cr].lits = c /\ Heads(cr)' = {c[1], c[2]}
           /\ \A x \in InUse : LitsOf(x)' = LitsOf(x)
           /\ \A x \in InUse \ {cr} : ca'[x] = ca[x] /\ Heads(x)' = Heads(x)
  <1>1. /\ ca \in Seq(Clauses) /\ DOMAIN ca = 1..Len(ca) /\ Len(ca) \in Nat
        /\ \A x \in 1..Len(ca) : ca[x] \in Clauses
    BY SeqFacts DEF DbInv
  <1>2. cr \in 1..Len(ca) /\ ca[cr] \in Clauses /\ Len(ca[cr].lits) >= 2
    BY ClauseFacts
  <1>3. [ca[cr] EXCEPT !.lits = c] \in Clauses
    BY <1>2 DEF Clauses
  <1>4. /\ DOMAIN ca' = 1..Len(ca) /\ ca'[cr] = [ca[cr] EXCEPT !.lits = c]
        /\ \A x \in 1..Len(ca) : x # cr => ca'[x] = ca[x]
    BY <1>1, <1>2
  <1>5. ca' \in Seq(Clauses)
    <2>1. \A x \in 1..Len(ca) : ca'[x] \in Clauses
      BY <1>1, <1>3, <1>4
    <2>2. ca' \in [1..Len(ca) -> Clauses]
      BY <1>1, <1>3
    <2> QED
      BY <1>1, <2>2, IsASeq
  <1>6. ca'[cr].lits = c /\ ca'[cr].mark = ca[cr].mark
    BY <1>2, <1>4 DEF Clauses
  <1>7. InUse' = InUse
    BY DEF InUse
  <1>8. Len(c) \in Nat /\ DOMAIN c = 1..Len(c)
    BY SeqFacts
  <1>9. DbInv'
    <2>1. ASSUME NEW x \in 1..Len(ca)
          PROVE  /\ Len(ca'[x].lits) >= 2
                 /\ \A m, n \in DOMAIN ca'[x].lits : ca'[x].lits[m] = ca'[x].lits[n] => m = n
                 /\ ca'[x].mark = 0 <=> x \in InUse
      <3>1. /\ Len(ca[x].lits) >= 2
            /\ \A m, n \in DOMAIN ca[x].lits : ca[x].lits[m] = ca[x].lits[n] => m = n
            /\ ca[x].mark = 0 <=> x \in InUse
        BY <1>1 DEF DbInv
      <3>2. CASE x = cr
        BY <1>2, <1>6, <1>8, <3>1, <3>2
      <3>3. CASE x # cr
        BY <1>4, <3>1, <3>3
      <3> QED
        BY <3>2, <3>3
    <2>2. DOMAIN ca' = DOMAIN ca
      BY <1>1, <1>4
    <2>3. /\ clauses \subseteq DOMAIN ca /\ learnts \subseteq DOMAIN ca
          /\ clauses \cap learnts = {} /\ dirties \subseteq Lits
      BY DEF DbInv
    <2> QED
      BY <1>4, <1>5, <1>7, <2>1, <2>2, <2>3 DEF DbInv
  <1>10. /\ Heads(cr)' = {c[1], c[2]} /\ LitsOf(cr)' = LitsOf(cr)
         /\ \A x \in InUse \ {cr} : /\ ca'[x] = ca[x] /\ Heads(x)' = Heads(x)
                                    /\ LitsOf(x)' = LitsOf(x)
    <2>1. Heads(cr)' = {c[1], c[2]}
      BY <1>6 DEF Heads
    <2>2. LitsOf(cr)' = LitsOf(cr)
      <3>1. LitsOf(cr)' = {ca'[cr].lits[n] : n \in DOMAIN ca'[cr].lits}
        BY DEF LitsOf
      <3> QED
        BY <1>6, <1>8, <3>1 DEF Elements
    <2>3. \A x \in InUse \ {cr} : ca'[x] = ca[x]
      BY <1>4, ClauseFacts
    <2>4. \A x \in InUse \ {cr} : Heads(x)' = Heads(x) /\ LitsOf(x)' = LitsOf(x)
      BY <2>3 DEF Heads, LitsOf
    <2> QED
      BY <2>1, <2>2, <2>3, <2>4
  <1>11. WatchInv'
    <2> SUFFICES ASSUME NEW x \in InUse, NEW l \in Lits
                 PROVE  IF -l \in Heads(x)'
                        THEN \E b \in LitsOf(x)' \ {-l} : Watching(x, l)' = {Watcher(x, b)}
                        ELSE Watching(x, l)' = {}
      BY <1>7 DEF WatchInv, Watcher
    <2>1. CASE x = cr
      BY <1>10, <2>1
    <2>2. CASE x # cr
      BY <1>10, <2>2 DEF WatchInv
    <2> QED
      BY <2>1, <2>2
  <1>12. ListsClean'
    BY <1>7 DEF ListsClean
  <1> QED
    BY <1>6, <1>7, <1>9, <1>10, <1>11, <1>12

-----------------------------------------------------------------------------
(* propagate: the visit of one watcher. *)

\* Where a visit starts from: the clause is in use, and watches the negation of
\* the literal at hand.
LEMMA VisitFacts ==
    ASSUME WInv, pc = "propagate", NEW w \in todo
    PROVE  /\ dirties = {} /\ confl = CRef_Undef /\ Visited = (skipped + 1)..qhead /\ ~ Broken
           /\ skipped \in Nat /\ qhead \in 1..Len(trail) /\ p = trail[qhead] /\ p \in Lits /\ -p \in Lits /\ -p # p
           /\ IsTrue(p) /\ ~ IsTrue(-p)
           /\ \A k \in 1..decisionLevel : trail_lim[k] < qhead
           /\ todo \subseteq watches[p] /\ w \in watches[p] /\ w.cref \in InUse
           /\ -p \in Heads(w.cref) /\ w.blocker \in LitsOf(w.cref) \ {-p}
           /\ w = Watcher(w.cref, w.blocker)
           /\ Watching(w.cref, p) = {w}
  <1>1. /\ dirties = {} /\ confl = CRef_Undef /\ qhead \in DOMAIN trail
        /\ todo \subseteq watches[trail[qhead]]
        /\ \A k \in DOMAIN trail_lim : trail_lim[k] < qhead
    BY DEF WInv, StageInv
  <1>2. /\ DOMAIN trail = 1..Len(trail) /\ Len(trail) \in Nat
        /\ DOMAIN trail_lim = 1..decisionLevel
        /\ \A n \in 1..Len(trail) : trail[n] \in Lits
    BY TrailParts DEF WInv, TrailInv, decisionLevel
  <1>3. p = trail[qhead] /\ p \in Lits /\ -p \in Lits /\ -p # p /\ -(-p) = p
    BY <1>1, <1>2, LitFacts DEF p
  <1>4. IsTrue(p) /\ ~ IsTrue(-p)
    <2>1. TrailInv
      BY DEF WInv
    <2>2. IsTrue(p)
      BY <1>1, <1>2, <1>3, <2>1, ValueFacts
    <2>3. ~ IsFalse(p)
      BY <1>3, <2>1, <2>2, ValueFacts
    <2> QED
      BY <2>2, <2>3 DEF IsFalse, IsTrue
  <1>5. w \in watches[p] /\ w.cref \in InUse
    <2>1. w \in watches[p]
      BY <1>1, <1>3
    <2> QED
      BY <1>1, <1>3, <2>1 DEF WInv, ListsClean
  <1>6. ~ Broken /\ Visited = (skipped + 1)..qhead
    BY <1>1 DEF Broken, Visited
  <1>7. /\ -p \in Heads(w.cref) /\ w.blocker \in LitsOf(w.cref) \ {-p}
        /\ w = Watcher(w.cref, w.blocker) /\ Watching(w.cref, p) = {w}
    BY <1>3, <1>5, WatcherFacts DEF WInv
  <1>8. skipped \in Nat
    BY DEF WInv, StageInv
  <1> QED
    BY <1>1, <1>2, <1>3, <1>4, <1>5, <1>6, <1>7, <1>8

\* The literal made false by the one at hand goes to the second place.
LEMMA SwappedFacts ==
    ASSUME DbInv, NEW cr \in InUse, p \in Lits, -p \in Heads(cr),
           NEW c, c = Swapped(ca[cr].lits)
    PROVE  /\ c \in Seq(Lits) /\ Len(c) = Len(ca[cr].lits) /\ Len(c) \in Nat /\ Len(c) >= 2
           /\ \A m, n \in 1..Len(c) : c[m] = c[n] => m = n
           /\ Elements(c) = LitsOf(cr)
           /\ {c[1], c[2]} = Heads(cr) /\ c[2] = -p /\ c[1] # -p
           /\ c[1] \in LitsOf(cr) /\ c[1] \in Lits
           /\ ca[cr].lits[1] = -p \/ c[1] = ca[cr].lits[1]
  <1> DEFINE s == ca[cr].lits
  <1>1. /\ s \in Seq(Lits) /\ Len(s) \in Nat /\ Len(s) >= 2
        /\ \A m, n \in 1..Len(s) : s[m] = s[n] => m = n
        /\ LitsOf(cr) = Elements(s)
        /\ LitsOf(cr) \subseteq Lits /\ Heads(cr) \subseteq LitsOf(cr)
        /\ Heads(cr) = {s[1], s[2]} /\ s[1] # s[2]
    BY ClauseFacts DEF Heads
  <1>2. c = IF s[1] = -p THEN [s EXCEPT ![1] = s[2], ![2] = s[1]] ELSE s
    BY DEF Swapped
  <1> HIDE DEF s
  <1>3. CASE s[1] = -p
    <2>1. 1 \in 1..Len(s) /\ 2 \in 1..Len(s)
      BY <1>1
    <2>2. c = Exchanged(s, 1, 2)
      BY <1>2, <1>3 DEF Exchanged
    <2>3. /\ c \in Seq(Lits) /\ Len(c) = Len(s) /\ c[1] = s[2] /\ c[2] = s[1]
          /\ \A m, n \in 1..Len(s) : c[m] = c[n] => m = n
          /\ Elements(c) = Elements(s)
      BY <1>1, <2>1, <2>2, ExchangedFacts
    <2>4. {c[1], c[2]} = Heads(cr) /\ c[2] = -p /\ c[1] # -p
      BY <1>1, <1>3, <2>3
    <2> QED
      BY <1>1, <1>3, <2>3, <2>4 DEF s
  <1>4. CASE s[1] # -p
    <2>1. c = s
      BY <1>2, <1>4
    <2>2. s[2] = -p
      BY <1>1, <1>4
    <2> QED
      BY <1>1, <1>4, <2>1, <2>2 DEF s
  <1> QED
    BY <1>3, <1>4

\* The formula is kept by a step that leaves it alone.
LEMMA SameFormula ==
    ASSUME FormulaInv, ok' => ok, UNCHANGED <<clauses, added>>, AtLevel0 \subseteq AtLevel0',
           \A x \in clauses : LitsOf(x)' = LitsOf(x)
    PROVE  FormulaInv'
  BY FormulaTo

\* A visit settles its clause and leaves the others to theirs.
LEMMA VisitProp ==
    ASSUME WInv, pc = "propagate", NEW w \in todo,
           UNCHANGED <<skipped, ok, confl, pc, qhead, trail_lim>>, todo' = todo \ {w}, InUse' = InUse,
           \A n \in 1..Len(trail) : trail'[n] = trail[n],
           \A S, n : ExcusedIn(S, trail, trail_lim, n) => ExcusedIn(S, trail', trail_lim, n),
           \A x \in InUse : LitsOf(x)' = LitsOf(x),
           \A x \in InUse \ {w.cref} : Heads(x)' = Heads(x),
           \A n \in (skipped + 1)..qhead : -trail[n] \in Heads(w.cref)' => Excused(w.cref, n)'
    PROVE  PropInv'
  <1>1. qhead \in 1..Len(trail) /\ skipped \in Nat /\ Visited = (skipped + 1)..qhead /\ ~ Broken
    BY VisitFacts
  <1>2. ~ Broken'
    BY <1>1 DEF Broken
  <1>3. Visited' = (skipped + 1)..qhead
    BY <1>2 DEF Visited
  <1>4. \A n \in (skipped + 1)..qhead : n \in 1..Len(trail)
    BY <1>1, TrailParts DEF WInv, TrailInv
  <1> SUFFICES ASSUME ok, NEW x \in InUse, NEW n \in (skipped + 1)..qhead, -trail[n] \in Heads(x)'
               PROVE  (n = qhead /\ \E u \in todo' : u.cref = x) \/ Excused(x, n)'
    BY <1>3, <1>4 DEF PropInv
  <1>5. CASE x = w.cref
    BY <1>5
  <1>6. CASE x # w.cref
    <2>1. -trail[n] \in Heads(x)
      BY <1>6
    <2>2. (n = qhead /\ \E u \in todo : u.cref = x) \/ Excused(x, n)
      BY <1>1, <2>1 DEF WInv, PropInv
    <2>3. CASE Excused(x, n)
      BY <2>3 DEF Excused
    <2>4. CASE n = qhead /\ \E u \in todo : u.cref = x
      BY <1>6, <2>4
    <2> QED
      BY <2>2, <2>3, <2>4
  <1> QED
    BY <1>5, <1>6

\* A literal that is true excuses the clause at hand, whatever its level.
LEMMA TrueExcuses ==
    ASSUME WInv, pc = "propagate", NEW w \in todo, NEW S, NEW l \in S, IsTrue(l)
    PROVE  ExcusedIn(S, trail, trail_lim, qhead)
  <1>1. /\ DOMAIN trail = 1..Len(trail) /\ DOMAIN trail_lim = 1..decisionLevel
    BY TrailParts DEF WInv, TrailInv, decisionLevel
  <1>2. \A k \in 1..decisionLevel : trail_lim[k] < qhead
    BY VisitFacts
  <1>3. PICK m \in DOMAIN trail : trail[m] = l
    BY <1>1, ValueFacts DEF WInv
  <1> QED
    BY <1>1, <1>2, <1>3 DEF ExcusedIn, NoDecisionBetween

LEMMA BlockerTrueInv ==
    ASSUME WInv, NEW w \in todo, BlockerTrue(w)
    PROVE  WInv'
  <1>1. /\ pc = "propagate" /\ todo' = todo \ {w} /\ IsTrue(w.blocker)
        /\ UNCHANGED <<skipped, ok, added, clauses, learnts, dirties, trail_lim>>
        /\ UNCHANGED <<ca, watches, trail, reason, qhead, confl, pc>>
    BY DEF BlockerTrue, Visit
  <1>2. UNCHANGED db /\ UNCHANGED assignment
    BY <1>1 DEF db, assignment
  <1>3. /\ InUse' = InUse /\ clauses' = clauses /\ ca' = ca /\ First' = First
        /\ \A cr : LitsOf(cr)' = LitsOf(cr) /\ Heads(cr)' = Heads(cr)
        /\ (DbInv /\ WatchInv /\ ListsClean)'
    BY <1>2, SameDb DEF WInv
  <1>4. TrailInv' /\ ReasonInv'
    BY <1>1, <1>3 DEF WInv, TrailInv, ReasonInv
  <1>5. StageInv'
    BY <1>1 DEF WInv, StageInv
  <1>6. PropInv'
    <2>1. w.blocker \in LitsOf(w.cref) /\ -p \in Heads(w.cref) /\ w.cref \in InUse
          /\ Visited = (skipped + 1)..qhead /\ p = trail[qhead]
      BY <1>1, VisitFacts
    <2>2. Excused(w.cref, qhead)
      BY <1>1, <2>1, TrueExcuses DEF Excused
    <2>3. ASSUME NEW n \in (skipped + 1)..qhead, -trail[n] \in Heads(w.cref)', ok
          PROVE  Excused(w.cref, n)'
      <3>1. (n = qhead /\ \E u \in todo : u.cref = w.cref) \/ Excused(w.cref, n)
        BY <1>3, <2>1, <2>3 DEF WInv, PropInv
      <3>2. Excused(w.cref, n)
        BY <2>2, <3>1
      <3> QED
        BY <1>1, <1>3, <3>2 DEF Excused
    <2>4. CASE ok
      BY <1>1, <1>3, <2>3, <2>4, VisitProp
    <2>5. CASE ~ ok
      BY <1>1, <2>5 DEF PropInv
    <2> QED
      BY <2>4, <2>5
  <1>7. FormulaInv'
    <2>1. AtLevel0' = AtLevel0
      BY <1>1 DEF AtLevel0
    <2> QED
      BY <1>1, <1>3, <2>1, SameFormula DEF WInv
  <1> QED
    BY <1>3, <1>4, <1>5, <1>6, <1>7 DEF WInv

\* What the steps that keep the clause in its list write.
SwappedTo(w, c) ==
    /\ c = Swapped(ca[w.cref].lits)
    /\ ca' = [ca EXCEPT ![w.cref].lits = c] /\ watches' = WrittenBack(w, c[1])
    /\ UNCHANGED <<clauses, learnts, dirties>>

\* The watcher is written back: the clause keeps its two heads.
LEMMA WrittenBackDb ==
    ASSUME WInv, pc = "propagate", NEW w \in todo, NEW c, SwappedTo(w, c)
    PROVE  /\ DbInv' /\ WatchInv' /\ ListsClean' /\ InUse' = InUse
           /\ \A x \in InUse : LitsOf(x)' = LitsOf(x) /\ Heads(x)' = Heads(x)
           /\ ReasonsOK(reason, trail, First')
           /\ w.cref \in DOMAIN First' /\ First'[w.cref] = c[1]
           /\ todo \ {w} \subseteq watches'[p]
  <1> DEFINE cr == w.cref
             b == c[1]
  <1>1. /\ DbInv /\ WatchInv /\ ListsClean /\ TrailInv /\ ReasonInv
    BY DEF WInv
  <1>0. PICK q : q = p
    OBVIOUS
  <1>2. /\ q \in Lits /\ -q \in Lits /\ -q # q /\ IsTrue(q) /\ ~ IsTrue(-q)
        /\ todo \subseteq watches[q] /\ w \in watches[q] /\ cr \in InUse
        /\ -q \in Heads(cr) /\ Watching(cr, q) = {w}
    BY <1>0, VisitFacts
  <1>3. /\ c \in Seq(Lits) /\ Len(c) = Len(ca[cr].lits)
        /\ \A m, n \in 1..Len(c) : c[m] = c[n] => m = n
        /\ Elements(c) = LitsOf(cr)
        /\ {c[1], c[2]} = Heads(cr) /\ c[1] # -q
        /\ c[1] \in LitsOf(cr) /\ c[1] \in Lits
        /\ ca[cr].lits[1] = -q \/ c[1] = ca[cr].lits[1]
    <2>1. c = Swapped(ca[cr].lits)
      BY DEF SwappedTo
    <2>2. DbInv /\ cr \in InUse /\ p \in Lits /\ -p \in Heads(cr)
      BY <1>0, <1>1, <1>2
    <2>3. /\ c \in Seq(Lits) /\ Len(c) = Len(ca[cr].lits)
          /\ \A m, n \in 1..Len(c) : c[m] = c[n] => m = n
          /\ Elements(c) = LitsOf(cr)
          /\ {c[1], c[2]} = Heads(cr) /\ c[1] # -p
          /\ c[1] \in LitsOf(cr) /\ c[1] \in Lits
          /\ ca[cr].lits[1] = -p \/ c[1] = ca[cr].lits[1]
      BY <2>1, <2>2, SwappedFacts
    <2> QED
      BY <1>0, <2>3
  <1>4. cr \in DOMAIN ca /\ watches \in [Lits -> SUBSET [cref : DOMAIN ca, blocker : Lits]]
    BY <1>1, <1>2 DEF DbInv, InUse
  <1>5. /\ Watcher(cr, b) \in [cref : DOMAIN ca, blocker : Lits]
        /\ Watcher(cr, b).cref = cr
    BY <1>3, <1>4 DEF Watcher
  <1> HIDE DEF cr, b
  <1>6. /\ watches' = [watches EXCEPT ![q] = (@ \ {w}) \cup {Watcher(cr, b)}]
        /\ watches' \in [Lits -> SUBSET [cref : DOMAIN ca, blocker : Lits]]
        /\ watches'[q] = (watches[q] \ {w}) \cup {Watcher(cr, b)}
        /\ \A l \in Lits : l # q => watches'[l] = watches[l]
    <2>1. watches' = [watches EXCEPT ![q] = (@ \ {w}) \cup {Watcher(cr, b)}]
      BY <1>0 DEF SwappedTo, WrittenBack, cr, b
    <2>2. (watches[q] \ {w}) \cup {Watcher(cr, b)} \in SUBSET [cref : DOMAIN ca, blocker : Lits]
      BY <1>2, <1>4, <1>5
    <2> QED
      BY <1>2, <1>4, <2>1, <2>2
  <1>7. \A l \in Lits : \A u \in watches'[l] : u \in watches[l] \/ u.cref = cr
    BY <1>5, <1>6
  <1>8. \A x \in InUse \ {cr}, l \in Lits : Watching(x, l)' = Watching(x, l)
    <2> SUFFICES ASSUME NEW x \in InUse \ {cr}, NEW l \in Lits
                 PROVE  Watching(x, l)' = Watching(x, l)
      OBVIOUS
    <2>1. w.cref = cr
      BY DEF cr
    <2>2. \A u : u.cref = x => (u \in watches'[l] <=> u \in watches[l])
      BY <1>5, <1>6, <2>1
    <2> QED
      BY <2>2 DEF Watching
  <1>9. /\ Watching(cr, q)' = {Watcher(cr, b)}
        /\ \A l \in Lits : l # q => Watching(cr, l)' = Watching(cr, l)
    <2>1. \A u : u \in watches[q] /\ u.cref = cr <=> u = w
      BY <1>2 DEF Watching
    <2>2. \A u : u \in watches'[q] /\ u.cref = cr <=> u = Watcher(cr, b)
      BY <1>5, <1>6, <2>1
    <2>3. Watching(cr, q)' = {Watcher(cr, b)}
      BY <2>2 DEF Watching
    <2> QED
      BY <1>6, <2>3 DEF Watching
  <1>10. \A l \in Lits : IF -l \in {c[1], c[2]}
                        THEN \E y \in LitsOf(cr) \ {-l} : Watching(cr, l)' = {Watcher(cr, y)}
                        ELSE Watching(cr, l)' = {}
    <2> TAKE l \in Lits
    <2>1. CASE l = q
      <3>1. -l \in {c[1], c[2]} /\ b \in LitsOf(cr) \ {-l}
        BY <1>2, <1>3, <2>1 DEF b
      <3> QED
        BY <1>9, <2>1, <3>1
    <2>2. CASE l # q
      <3>1. Watching(cr, l)' = Watching(cr, l) /\ {c[1], c[2]} = Heads(cr)
        BY <1>3, <1>9, <2>2
      <3> QED
        BY <1>1, <1>2, <3>1 DEF WatchInv
    <2> QED
      BY <2>1, <2>2
  <1>11. ca' = [ca EXCEPT ![cr].lits = c]
    BY DEF SwappedTo, cr
  <1>12. /\ DbInv' /\ WatchInv' /\ ListsClean' /\ InUse' = InUse
         /\ ca'[cr].lits = c /\ Heads(cr)' = {c[1], c[2]}
         /\ \A x \in InUse : LitsOf(x)' = LitsOf(x)
         /\ \A x \in InUse \ {cr} : ca'[x] = ca[x] /\ Heads(x)' = Heads(x)
    <2>1. cr \in InUse /\ DbInv /\ WatchInv /\ ListsClean
      BY <1>1, <1>2
    <2>2. /\ c \in Seq(Lits) /\ Len(c) = Len(ca[cr].lits) /\ Elements(c) = LitsOf(cr)
          /\ \A m, n \in 1..Len(c) : c[m] = c[n] => m = n
      BY <1>3
    <2>3. UNCHANGED <<clauses, learnts, dirties>>
      BY DEF SwappedTo
    <2> QED
      BY <1>6, <1>7, <1>8, <1>10, <1>11, <2>1, <2>2, <2>3, RewriteDb
  <1>13. \A x \in InUse : Heads(x)' = Heads(x)
    BY <1>3, <1>12
  <1>14. PICK f2 : f2 = First'
    OBVIOUS
  <1>15. DOMAIN f2 = InUse /\ \A x \in InUse : f2[x] = ca'[x].lits[1]
    BY <1>12, <1>14 DEF First
  <1>16. ReasonsOK(reason, trail, f2)
    <2>1. ASSUME NEW x \in InUse, IsTrue(ca[x].lits[1])
          PROVE  x \in DOMAIN f2 /\ f2[x] = ca[x].lits[1]
      <3>1. CASE x = cr
        BY <1>2, <1>3, <1>12, <1>15, <2>1, <3>1
      <3>2. CASE x # cr
        BY <1>12, <1>15, <3>2
      <3> QED
        BY <3>1, <3>2
    <2> QED
      BY <1>1, <2>1, FirstTo
  <1>17. todo \ {w} \subseteq watches'[q]
    BY <1>2, <1>6
  <1> QED
    BY <1>0, <1>2, <1>12, <1>13, <1>14, <1>15, <1>16, <1>17 DEF cr, b

LEMMA FirstTrueInv ==
    ASSUME WInv, NEW w \in todo, FirstTrue(w)
    PROVE  WInv'
  <1>1. PICK c : c = Swapped(ca[w.cref].lits)
    OBVIOUS
  <1>2. /\ pc = "propagate" /\ todo' = todo \ {w} /\ IsTrue(c[1])
        /\ ca' = [ca EXCEPT ![w.cref].lits = c] /\ watches' = WrittenBack(w, c[1])
        /\ UNCHANGED <<skipped, ok, added, clauses, learnts, dirties, trail_lim>>
        /\ UNCHANGED <<trail, reason, qhead, confl, pc>>
    BY <1>1 DEF FirstTrue, Visit
  <1>3. /\ DbInv' /\ WatchInv' /\ ListsClean' /\ InUse' = InUse
        /\ \A x \in InUse : LitsOf(x)' = LitsOf(x) /\ Heads(x)' = Heads(x)
        /\ ReasonsOK(reason, trail, First')
        /\ todo \ {w} \subseteq watches'[p]
    <2>1. SwappedTo(w, c)
      BY <1>1, <1>2 DEF SwappedTo
    <2> QED
      BY <1>2, <2>1, WrittenBackDb
  <1>4. /\ w.cref \in InUse /\ p = trail[qhead] /\ p \in Lits /\ -p \in Heads(w.cref)
        /\ qhead \in 1..Len(trail) /\ skipped \in Nat /\ Visited = (skipped + 1)..qhead
        /\ dirties = {} /\ confl = CRef_Undef
    BY <1>2, VisitFacts
  <1>5. TrailInv' /\ ReasonInv'
    BY <1>2, <1>3 DEF WInv, TrailInv, ReasonInv
  <1>6. StageInv'
    <2>1. todo' \subseteq watches'[trail[qhead]]
      BY <1>2, <1>3, <1>4
    <2> QED
      BY <1>2, <1>4, <2>1 DEF WInv, StageInv
  <1>7. PropInv'
    <2>1. c[1] \in LitsOf(w.cref)
      BY <1>1, <1>4, SwappedFacts DEF WInv
    <2>2. Excused(w.cref, qhead)
      BY <1>2, <2>1, TrueExcuses DEF Excused
    <2>3. ASSUME NEW n \in (skipped + 1)..qhead, -trail[n] \in Heads(w.cref)', ok
          PROVE  Excused(w.cref, n)'
      <3>1. (n = qhead /\ \E u \in todo : u.cref = w.cref) \/ Excused(w.cref, n)
        BY <1>3, <1>4, <2>3 DEF WInv, PropInv
      <3>2. Excused(w.cref, n)
        BY <2>2, <3>1
      <3> QED
        BY <1>2, <1>3, <1>4, <3>2 DEF Excused
    <2>4. CASE ok
      BY <1>2, <1>3, <2>3, <2>4, VisitProp
    <2>5. CASE ~ ok
      BY <1>2, <2>5 DEF PropInv
    <2> QED
      BY <2>4, <2>5
  <1>8. FormulaInv'
    <2>1. AtLevel0' = AtLevel0
      BY <1>2 DEF AtLevel0
    <2> QED
      BY <1>2, <1>3, <2>1, SameFormula DEF WInv, InUse
  <1> QED
    BY <1>3, <1>5, <1>6, <1>7, <1>8 DEF WInv

\* The first literal is free: it is implied, and so excuses the clause.
LEMMA UnitInv ==
    ASSUME WInv, NEW w \in todo, Unit(w)
    PROVE  WInv'
  <1>1. PICK c : c = Swapped(ca[w.cref].lits)
    OBVIOUS
  <1>2. /\ pc = "propagate" /\ todo' = todo \ {w}
        /\ ~ IsTrue(w.blocker) /\ ~ (c[1] # w.blocker /\ IsTrue(c[1])) /\ ~ IsFalse(c[1])
        /\ ca' = [ca EXCEPT ![w.cref].lits = c] /\ watches' = WrittenBack(w, c[1])
        /\ trail' = Append(trail, c[1])
        /\ reason' = [ReasonsOn(trail) EXCEPT ![var(c[1])] = w.cref]
        /\ UNCHANGED <<skipped, ok, added, clauses, learnts, dirties, trail_lim>>
        /\ UNCHANGED <<qhead, confl, pc>>
    <2>1. NoNewWatch(w, c) /\ ~ IsFalse(c[1]) /\ UNCHANGED <<qhead, confl, pc>>
      BY <1>1 DEF Unit
    <2>6. Enqueue(c[1], w.cref, trail)
      BY <1>1 DEF Unit
    <2>2. /\ Visit(w) /\ ~ IsTrue(w.blocker) /\ ~ (c[1] # w.blocker /\ IsTrue(c[1]))
          /\ ca' = [ca EXCEPT ![w.cref].lits = c] /\ watches' = WrittenBack(w, c[1])
      BY <2>1 DEF NoNewWatch
    <2>3. pc = "propagate" /\ todo' = todo \ {w}
      BY <2>2 DEF Visit
    <2>4. UNCHANGED <<skipped, ok, added, clauses, learnts, dirties, trail_lim>>
      BY <2>2 DEF Visit
    <2>5. /\ trail' = Append(trail, c[1])
          /\ reason' = [ReasonsOn(trail) EXCEPT ![var(c[1])] = w.cref]
      BY <2>6 DEF Enqueue
    <2> QED
      BY <2>1, <2>2, <2>3, <2>4, <2>5
  <1>3. /\ DbInv' /\ WatchInv' /\ ListsClean' /\ InUse' = InUse
        /\ \A x \in InUse : LitsOf(x)' = LitsOf(x) /\ Heads(x)' = Heads(x)
        /\ ReasonsOK(reason, trail, First')
        /\ w.cref \in DOMAIN First' /\ First'[w.cref] = c[1]
        /\ todo \ {w} \subseteq watches'[p]
    <2>1. SwappedTo(w, c)
      BY <1>1, <1>2 DEF SwappedTo
    <2> QED
      BY <1>2, <2>1, WrittenBackDb
  <1>4. /\ w.cref \in InUse /\ p = trail[qhead] /\ p \in Lits /\ -p \in Heads(w.cref)
        /\ qhead \in 1..Len(trail) /\ skipped \in Nat /\ Visited = (skipped + 1)..qhead
        /\ dirties = {} /\ confl = CRef_Undef
        /\ \A k \in 1..decisionLevel : trail_lim[k] < qhead
    BY <1>2, VisitFacts
  <1>5. c[1] \in LitsOf(w.cref) /\ c[1] \in Lits
    BY <1>1, <1>4, SwappedFacts DEF WInv
  <1>6. TrailInv /\ TrailOK(trail, trail_lim)
    BY DEF WInv, TrailInv
  <1>7. \A n \in 1..Len(trail) : var(trail[n]) # var(c[1])
    <2>1. Free(c[1])
      BY <1>2 DEF Free
    <2> QED
      BY <1>5, <1>6, <2>1, ValueFacts
  <1>8. /\ TrailOK(Append(trail, c[1]), trail_lim)
        /\ Len(trail') = Len(trail) + 1
        /\ \A n \in 1..Len(trail) : trail'[n] = trail[n]
        /\ trail'[Len(trail) + 1] = c[1]
        /\ Level0(trail, trail_lim) \subseteq Level0(trail', trail_lim)
    BY <1>2, <1>5, <1>6, <1>7, PushFacts
  <1>9. /\ Len(trail) \in Nat /\ DOMAIN trail = 1..Len(trail) /\ DOMAIN trail' = 1..(Len(trail) + 1)
        /\ DOMAIN trail_lim = 1..decisionLevel
    BY <1>2, <1>6, <1>8, TrailParts DEF decisionLevel
  <1>10. TrailInv'
    BY <1>2, <1>8 DEF TrailInv
  <1>11. ReasonInv'
    <2>1. w.cref \in Int
      BY <1>4, ClauseFacts DEF WInv
    <2>2. PICK f2 : f2 = First'
      OBVIOUS
    <2>3. ReasonsOK([ReasonsOn(trail) EXCEPT ![var(c[1])] = w.cref], Append(trail, c[1]), f2)
      BY <1>3, <1>5, <1>6, <1>7, <2>1, <2>2, ReasonsPush
    <2> QED
      BY <1>2, <2>2, <2>3 DEF ReasonInv
  <1>12. StageInv'
    <2>1. trail'[qhead] = trail[qhead] /\ qhead \in DOMAIN trail' /\ qhead \in 0..Len(trail')
      BY <1>4, <1>8, <1>9
    <2>2. todo' \subseteq watches'[trail'[qhead]]
      <3>1. todo' \subseteq watches'[p]
        BY <1>2, <1>3
      <3>2. trail'[qhead] = p
        BY <2>1 DEF p
      <3> QED
        BY <3>1, <3>2
    <2>3. \A k \in DOMAIN trail_lim : trail_lim[k] < qhead /\ trail_lim[k] <= qhead
      BY <1>4, <1>9 DEF WInv, StageInv
    <2> QED
      BY <1>2, <1>4, <2>1, <2>2, <2>3 DEF WInv, StageInv
  <1>13. PropInv'
    <2>1. \A S, n : ExcusedIn(S, trail, trail_lim, n) => ExcusedIn(S, trail', trail_lim, n)
      BY <1>2, <1>5, <1>6, ExcusedPush
    <2>2. ExcusedIn(LitsOf(w.cref), trail', trail_lim, qhead)
      <3>1. Len(trail) + 1 \in DOMAIN trail'
        BY <1>9
      <3>2. NoDecisionBetween(trail_lim, qhead, Len(trail) + 1)
        BY <1>4, <1>9 DEF NoDecisionBetween
      <3> QED
        BY <1>5, <1>8, <3>1, <3>2 DEF ExcusedIn
    <2>3. ASSUME NEW n \in (skipped + 1)..qhead, -trail[n] \in Heads(w.cref)', ok
          PROVE  Excused(w.cref, n)'
      <3>1. (n = qhead /\ \E u \in todo : u.cref = w.cref) \/ Excused(w.cref, n)
        BY <1>3, <1>4, <2>3 DEF WInv, PropInv
      <3>2. ExcusedIn(LitsOf(w.cref), trail', trail_lim, n)
        BY <2>1, <2>2, <3>1 DEF Excused
      <3> QED
        BY <1>2, <1>3, <1>4, <3>2 DEF Excused
    <2>4. CASE ok
      BY <1>2, <1>3, <1>8, <2>1, <2>3, <2>4, VisitProp
    <2>5. CASE ~ ok
      BY <1>2, <2>5 DEF PropInv
    <2> QED
      BY <2>4, <2>5
  <1>14. FormulaInv'
    <2>1. AtLevel0 \subseteq AtLevel0'
      BY <1>2, <1>8 DEF AtLevel0, Level0
    <2> QED
      BY <1>2, <1>3, <2>1, SameFormula DEF WInv, InUse
  <1> QED
    BY <1>3, <1>10, <1>11, <1>12, <1>13, <1>14 DEF WInv

\* The clause is false: what stands in the levels below stays visited.
LEMMA FalsifiedInv ==
    ASSUME WInv, NEW w \in todo, Falsified(w)
    PROVE  WInv'
  <1>1. PICK c : c = Swapped(ca[w.cref].lits)
    OBVIOUS
  <1>2. /\ pc = "propagate" /\ todo' = {} /\ confl' = w.cref /\ qhead' = Len(trail)
        /\ ca' = [ca EXCEPT ![w.cref].lits = c] /\ watches' = WrittenBack(w, c[1])
        /\ UNCHANGED <<clauses, learnts, dirties, trail, trail_lim, reason, skipped, ok, added, pc>>
    BY <1>1 DEF Falsified
  <1>3. /\ DbInv' /\ WatchInv' /\ ListsClean' /\ InUse' = InUse
        /\ \A x \in InUse : LitsOf(x)' = LitsOf(x) /\ Heads(x)' = Heads(x)
        /\ ReasonsOK(reason, trail, First')
    <2>1. SwappedTo(w, c)
      BY <1>1, <1>2 DEF SwappedTo
    <2> QED
      BY <1>2, <2>1, WrittenBackDb
  <1>4. /\ qhead \in 1..Len(trail) /\ skipped \in Nat /\ Visited = (skipped + 1)..qhead
        /\ dirties = {} /\ confl = CRef_Undef /\ w.cref \in InUse
        /\ \A k \in 1..decisionLevel : trail_lim[k] < qhead
    BY <1>2, VisitFacts
  <1>5. TrailInv' /\ ReasonInv'
    BY <1>2, <1>3 DEF WInv, TrailInv, ReasonInv
  <1>6. /\ Len(trail) \in Nat /\ DOMAIN trail = 1..Len(trail) /\ DOMAIN trail_lim = 1..decisionLevel
        /\ \A k \in 1..decisionLevel : trail_lim[k] \in Nat /\ trail_lim[k] <= Len(trail)
    BY TrailParts DEF WInv, TrailInv, decisionLevel
  <1>7. StageInv'
    BY <1>2, <1>4, <1>6 DEF WInv, StageInv
  <1>8. PropInv'
    <2>1. confl' # CRef_Undef
      BY <1>2, <1>4, ClauseFacts DEF CRef_Undef, WInv
    <2>2. Visited' = {n \in DOMAIN trail : skipped < n /\ \E k \in DOMAIN trail_lim : n <= trail_lim[k]}
      BY <1>2, <2>1 DEF Visited, Broken
    <2>3. \A n \in Visited' : n \in (skipped + 1)..qhead /\ n # qhead
      BY <1>4, <1>6, <2>2
    <2> SUFFICES ASSUME ok, NEW x \in InUse, NEW n \in Visited', -trail[n] \in Heads(x)
                 PROVE  Excused(x, n)'
      BY <1>2, <1>3 DEF PropInv
    <2>4. Excused(x, n)
      BY <1>4, <2>3 DEF WInv, PropInv
    <2> QED
      BY <1>2, <1>3, <2>4 DEF Excused
  <1>9. FormulaInv'
    <2>1. AtLevel0' = AtLevel0
      BY <1>2 DEF AtLevel0
    <2> QED
      BY <1>2, <1>3, <2>1, SameFormula DEF WInv, InUse
  <1> QED
    BY <1>3, <1>5, <1>7, <1>8, <1>9 DEF WInv

\* What the step that finds a new watch writes, with the literals and the place it finds.
SwapOf(w, c, k) == c = Swapped(ca[w.cref].lits) /\ Candidates(c) # {} /\ k = NewWatchOf(c)
MovedTo(w, c, k) ==
    /\ ca' = [ca EXCEPT ![w.cref].lits = Moved(c, k)]
    /\ watches' = [watches EXCEPT ![p] = @ \ {w}, ![-c[k]] = @ \cup {Watcher(w.cref, c[1])}]
    /\ UNCHANGED <<clauses, learnts, dirties>>

\* The clause moves to the list of the literal found, which is not false.
LEMMA MovedDb ==
    ASSUME WInv, pc = "propagate", NEW w \in todo, NEW c, NEW k, SwapOf(w, c, k), MovedTo(w, c, k)
    PROVE  /\ DbInv' /\ WatchInv' /\ ListsClean' /\ InUse' = InUse
           /\ \A x \in InUse : LitsOf(x)' = LitsOf(x)
           /\ \A x \in InUse \ {w.cref} : Heads(x)' = Heads(x)
           /\ Heads(w.cref)' = {c[1], c[k]} /\ c[k] \in Lits /\ ~ IsFalse(c[k])
           /\ c[1] \in Heads(w.cref) /\ c[1] # -p
           /\ ReasonsOK(reason, trail, First')
           /\ todo \ {w} \subseteq watches'[p]
  <1> DEFINE cr == w.cref
             b == c[1]
             d == Moved(c, k)
             h == -c[k]
  <1>1. /\ DbInv /\ WatchInv /\ ListsClean /\ TrailInv /\ ReasonInv
    BY DEF WInv
  <1>0. PICK q : q = p
    OBVIOUS
  <1>2. /\ q \in Lits /\ -q \in Lits /\ -q # q /\ IsTrue(q) /\ ~ IsTrue(-q)
        /\ todo \subseteq watches[q] /\ w \in watches[q] /\ cr \in InUse
        /\ -q \in Heads(cr) /\ Watching(cr, q) = {w}
    BY <1>0, VisitFacts
  <1>3. /\ c \in Seq(Lits) /\ Len(c) = Len(ca[cr].lits) /\ Len(c) \in Nat /\ Len(c) >= 2
        /\ \A m, n \in 1..Len(c) : c[m] = c[n] => m = n
        /\ Elements(c) = LitsOf(cr)
        /\ {c[1], c[2]} = Heads(cr) /\ c[1] # -q /\ c[2] = -q
        /\ c[1] \in LitsOf(cr) /\ c[1] \in Lits
        /\ ca[cr].lits[1] = -q \/ c[1] = ca[cr].lits[1]
    <2>1. c = Swapped(ca[cr].lits)
      BY DEF SwapOf
    <2>2. DbInv /\ cr \in InUse /\ p \in Lits /\ -p \in Heads(cr)
      BY <1>0, <1>1, <1>2
    <2>3. /\ c \in Seq(Lits) /\ Len(c) = Len(ca[cr].lits) /\ Len(c) \in Nat /\ Len(c) >= 2
          /\ \A m, n \in 1..Len(c) : c[m] = c[n] => m = n
          /\ Elements(c) = LitsOf(cr)
          /\ {c[1], c[2]} = Heads(cr) /\ c[1] # -p /\ c[2] = -p
          /\ c[1] \in LitsOf(cr) /\ c[1] \in Lits
          /\ ca[cr].lits[1] = -p \/ c[1] = ca[cr].lits[1]
      BY <2>1, <2>2, SwappedFacts
    <2> QED
      BY <1>0, <2>3
  <1>4. k \in 3..Len(c) /\ ~ IsFalse(c[k])
    <2>1. Candidates(c) \in SUBSET Nat
      BY <1>3 DEF Candidates
    <2>2. \E m \in Candidates(c) : \A n \in Candidates(c) : m <= n
      BY <2>1, MinExists DEF SwapOf
    <2>3. k \in Candidates(c)
      BY <2>2 DEF NewWatchOf, SwapOf
    <2> QED
      BY <2>3 DEF Candidates
  <1>5. /\ k \in 1..Len(c) /\ 1 \in 1..Len(c) /\ 2 \in 1..Len(c) /\ k # 1 /\ k # 2
        /\ \A n \in 1..Len(c) : c[n] \in Lits
        /\ DOMAIN c = 1..Len(c)
    BY <1>3, <1>4, SeqFacts
  <1>6. /\ c[k] \in Lits /\ c[k] # c[1] /\ c[k] # c[2] /\ c[k] \notin Heads(cr)
        /\ h \in Lits /\ h # q /\ -h = c[k]
    <2>1. c[k] \in Lits /\ c[k] # c[1] /\ c[k] # c[2]
      BY <1>3, <1>5
    <2>2. h \in Lits /\ -h = c[k]
      BY <2>1, LitFacts
    <2> QED
      BY <1>3, <2>1, <2>2
  <1>7. d[1] = c[1] /\ d[2] = c[k]
    BY <1>5 DEF Moved
  <1> HIDE DEF cr, b, d, h
  <1>8. /\ d \in Seq(Lits) /\ Len(d) = Len(c)
        /\ \A m, n \in 1..Len(d) : d[m] = d[n] => m = n
        /\ Elements(d) = LitsOf(cr)
    <2>1. d = Exchanged(c, 2, k)
      BY DEF d, Moved, Exchanged
    <2>2. /\ c \in Seq(Lits) /\ 2 \in 1..Len(c) /\ k \in 1..Len(c)
          /\ \A m, n \in 1..Len(c) : c[m] = c[n] => m = n
      BY <1>3, <1>5
    <2>3. /\ d \in Seq(Lits) /\ Len(d) = Len(c)
          /\ \A m, n \in 1..Len(c) : d[m] = d[n] => m = n
          /\ Elements(d) = Elements(c)
      BY <2>1, <2>2, ExchangedFacts
    <2> QED
      BY <1>3, <2>3
  <1>9. cr \in DOMAIN ca /\ watches \in [Lits -> SUBSET [cref : DOMAIN ca, blocker : Lits]]
    BY <1>1, <1>2 DEF DbInv, InUse
  <1>10. /\ Watcher(cr, b) \in [cref : DOMAIN ca, blocker : Lits]
         /\ Watcher(cr, b).cref = cr
    BY <1>3, <1>9 DEF Watcher, b
  <1>11. /\ watches' \in [Lits -> SUBSET [cref : DOMAIN ca, blocker : Lits]]
         /\ watches'[q] = watches[q] \ {w} /\ watches'[h] = watches[h] \cup {Watcher(cr, b)}
         /\ \A l \in Lits : l # q /\ l # h => watches'[l] = watches[l]
    <2>1. watches' = [watches EXCEPT ![q] = @ \ {w}, ![h] = @ \cup {Watcher(cr, b)}]
      BY <1>0 DEF MovedTo, cr, b, h
    <2>2. /\ watches[q] \ {w} \in SUBSET [cref : DOMAIN ca, blocker : Lits]
          /\ watches[h] \cup {Watcher(cr, b)} \in SUBSET [cref : DOMAIN ca, blocker : Lits]
      BY <1>2, <1>6, <1>9, <1>10
    <2>3. DOMAIN watches = Lits /\ q \in Lits /\ h \in Lits /\ h # q
      BY <1>2, <1>6, <1>9
    <2>4. /\ watches'[q] = watches[q] \ {w} /\ watches'[h] = watches[h] \cup {Watcher(cr, b)}
          /\ \A l \in Lits : l # q /\ l # h => watches'[l] = watches[l]
      BY <2>1, <2>3
    <2>5. watches' \in [Lits -> SUBSET [cref : DOMAIN ca, blocker : Lits]]
      <3>1. \A l \in Lits : watches'[l] \in SUBSET [cref : DOMAIN ca, blocker : Lits]
        BY <1>9, <2>2, <2>4
      <3>2. watches' = [l \in Lits |-> watches'[l]]
        BY <2>1, <2>3
      <3> QED
        BY <3>1, <3>2
    <2> QED
      BY <2>4, <2>5
  <1>12. \A l \in Lits : \A u \in watches'[l] : u \in watches[l] \/ u.cref = cr
    BY <1>10, <1>11
  <1>13. \A x \in InUse \ {cr}, l \in Lits : Watching(x, l)' = Watching(x, l)
    <2> SUFFICES ASSUME NEW x \in InUse \ {cr}, NEW l \in Lits
                 PROVE  Watching(x, l)' = Watching(x, l)
      OBVIOUS
    <2>1. w.cref = cr
      BY DEF cr
    <2>2. \A u : u.cref = x => (u \in watches'[l] <=> u \in watches[l])
      BY <1>10, <1>11, <2>1
    <2> QED
      BY <2>2 DEF Watching
  <1>14. /\ Watching(cr, q)' = {} /\ Watching(cr, h)' = {Watcher(cr, b)}
         /\ \A l \in Lits : l # q /\ l # h => Watching(cr, l)' = Watching(cr, l)
    <2>1. \A u : u \in watches[q] /\ u.cref = cr <=> u = w
      BY <1>2 DEF Watching
    <2>2. Watching(cr, q)' = {}
      BY <1>11, <2>1 DEF Watching
    <2>3. Watching(cr, h) = {}
      BY <1>1, <1>2, <1>6 DEF WatchInv
    <2>4. \A u : u \in watches'[h] /\ u.cref = cr <=> u = Watcher(cr, b)
      BY <1>10, <1>11, <2>3 DEF Watching
    <2>5. Watching(cr, h)' = {Watcher(cr, b)}
      BY <2>4 DEF Watching
    <2> QED
      BY <1>11, <2>2, <2>5 DEF Watching
  <1>15. \A l \in Lits : IF -l \in {d[1], d[2]}
                        THEN \E y \in LitsOf(cr) \ {-l} : Watching(cr, l)' = {Watcher(cr, y)}
                        ELSE Watching(cr, l)' = {}
    <2> TAKE l \in Lits
    <2>1. CASE l = q
      <3>1. -l \notin {d[1], d[2]}
        BY <1>3, <1>6, <1>7, <2>1
      <3> QED
        BY <1>14, <2>1, <3>1
    <2>2. CASE l = h
      <3>1. -l \in {d[1], d[2]} /\ b \in LitsOf(cr) \ {-l}
        BY <1>3, <1>6, <1>7, <2>2 DEF b
      <3> QED
        BY <1>14, <2>2, <3>1
    <2>3. CASE l # q /\ l # h
      <3>1. Watching(cr, l)' = Watching(cr, l)
        BY <1>14, <2>3
      <3>2. -l \in {d[1], d[2]} <=> -l \in Heads(cr)
        <4>1. -(-l) = l /\ -h = c[k] /\ -l # c[2] /\ -l # c[k]
          <5>1. l \in Int /\ q \in Int /\ h \in Int
            BY <1>2, <1>6, LitFacts
          <5> QED
            BY <1>3, <1>6, <2>3, <5>1
        <4> QED
          BY <1>3, <1>7, <4>1
      <3> QED
        BY <1>1, <1>2, <3>1, <3>2 DEF WatchInv
    <2> QED
      BY <2>1, <2>2, <2>3
  <1>16. ca' = [ca EXCEPT ![cr].lits = d]
    BY DEF MovedTo, cr, d
  <1>17. /\ DbInv' /\ WatchInv' /\ ListsClean' /\ InUse' = InUse
         /\ ca'[cr].lits = d /\ Heads(cr)' = {d[1], d[2]}
         /\ \A x \in InUse : LitsOf(x)' = LitsOf(x)
         /\ \A x \in InUse \ {cr} : ca'[x] = ca[x] /\ Heads(x)' = Heads(x)
    <2>1. cr \in InUse /\ Len(d) = Len(ca[cr].lits)
      BY <1>2, <1>3, <1>8
    <2>2. DbInv /\ WatchInv /\ ListsClean
      BY <1>1
    <2>3. watches' \in [Lits -> SUBSET [cref : DOMAIN ca, blocker : Lits]]
      BY <1>11
    <2>4. UNCHANGED <<clauses, learnts, dirties>>
      BY DEF MovedTo
    <2> QED
      BY <2>4, <1>8, <1>12, <1>13, <1>15, <1>16, <2>1, <2>2, <2>3, RewriteDb
  <1>18. PICK f2 : f2 = First'
    OBVIOUS
  <1>19. DOMAIN f2 = InUse /\ \A x \in InUse : f2[x] = ca'[x].lits[1]
    BY <1>17, <1>18 DEF First
  <1>20. ReasonsOK(reason, trail, f2)
    <2>1. ASSUME NEW x \in InUse, IsTrue(ca[x].lits[1])
          PROVE  x \in DOMAIN f2 /\ f2[x] = ca[x].lits[1]
      <3>1. CASE x = cr
        BY <1>2, <1>3, <1>7, <1>17, <1>19, <2>1, <3>1
      <3>2. CASE x # cr
        BY <1>17, <1>19, <3>2
      <3> QED
        BY <3>1, <3>2
    <2> QED
      BY <1>1, <2>1, FirstTo
  <1>21. todo \ {w} \subseteq watches'[p]
    BY <1>0, <1>2, <1>11
  <1> QED
    BY <1>0, <1>3, <1>4, <1>6, <1>7, <1>17, <1>18, <1>20, <1>21 DEF cr

LEMMA NewWatchInv ==
    ASSUME WInv, NEW w \in todo, NewWatch(w)
    PROVE  WInv'
  <1>1. PICK c : c = Swapped(ca[w.cref].lits)
    OBVIOUS
  <1>2. PICK k : k = NewWatchOf(c)
    OBVIOUS
  <1>3. /\ pc = "propagate" /\ todo' = todo \ {w} /\ Candidates(c) # {}
        /\ ca' = [ca EXCEPT ![w.cref].lits = Moved(c, k)]
        /\ watches' = [watches EXCEPT ![p] = @ \ {w}, ![-c[k]] = @ \cup {Watcher(w.cref, c[1])}]
        /\ UNCHANGED <<skipped, ok, added, clauses, learnts, dirties, trail_lim>>
        /\ UNCHANGED <<trail, reason, qhead, confl, pc>>
    BY <1>1, <1>2 DEF NewWatch, Visit
  <1>4. /\ DbInv' /\ WatchInv' /\ ListsClean' /\ InUse' = InUse
        /\ \A x \in InUse : LitsOf(x)' = LitsOf(x)
        /\ \A x \in InUse \ {w.cref} : Heads(x)' = Heads(x)
        /\ Heads(w.cref)' = {c[1], c[k]} /\ c[k] \in Lits /\ ~ IsFalse(c[k])
        /\ c[1] \in Heads(w.cref) /\ c[1] # -p
        /\ ReasonsOK(reason, trail, First')
        /\ todo \ {w} \subseteq watches'[p]
    <2>1. SwapOf(w, c, k) /\ MovedTo(w, c, k)
      BY <1>1, <1>2, <1>3 DEF SwapOf, MovedTo
    <2> QED
      BY <1>3, <2>1, MovedDb
  <1>5. /\ w.cref \in InUse /\ p = trail[qhead] /\ p \in Lits
        /\ qhead \in 1..Len(trail) /\ skipped \in Nat /\ Visited = (skipped + 1)..qhead
        /\ dirties = {} /\ confl = CRef_Undef
    BY <1>3, VisitFacts
  <1>6. TrailInv' /\ ReasonInv'
    BY <1>3, <1>4 DEF WInv, TrailInv, ReasonInv
  <1>7. StageInv'
    <2>1. todo' \subseteq watches'[trail[qhead]]
      BY <1>3, <1>4, <1>5
    <2> QED
      BY <1>3, <1>5, <2>1 DEF WInv, StageInv
  <1>8. PropInv'
    <2>1. ASSUME NEW n \in (skipped + 1)..qhead, -trail[n] \in Heads(w.cref)', ok
          PROVE  Excused(w.cref, n)'
      <3>1. n \in 1..Len(trail) /\ trail[n] \in Lits
        BY <1>5, TrailParts DEF WInv, TrailInv
      <3>2. -trail[n] # c[k]
        <4>1. SUFFICES ASSUME -trail[n] = c[k] PROVE FALSE
          OBVIOUS
        <4>2. trail[n] = -c[k]
          BY <3>1, <4>1, LitFacts
        <4>3. DOMAIN trail = 1..Len(trail)
          BY TrailParts DEF WInv, TrailInv
        <4> QED
          BY <1>4, <3>1, <4>2, <4>3 DEF IsFalse, Assigned
      <3>3. -trail[n] = c[1] /\ -trail[n] \in Heads(w.cref) /\ n # qhead
        BY <1>4, <1>5, <2>1, <3>2
      <3>4. Excused(w.cref, n)
        BY <1>5, <2>1, <3>3 DEF WInv, PropInv
      <3> QED
        BY <1>3, <1>4, <1>5, <3>4 DEF Excused
    <2>2. CASE ok
      BY <1>3, <1>4, <2>1, <2>2, VisitProp
    <2>3. CASE ~ ok
      BY <1>3, <2>3 DEF PropInv
    <2> QED
      BY <2>2, <2>3
  <1>9. FormulaInv'
    <2>1. AtLevel0' = AtLevel0
      BY <1>3 DEF AtLevel0
    <2> QED
      BY <1>3, <1>4, <2>1, SameFormula DEF WInv, InUse
  <1> QED
    BY <1>4, <1>6, <1>7, <1>8, <1>9 DEF WInv

\* The other steps of propagate.
LEMMA StartPropagateInv ==
    ASSUME WInv, StartPropagate
    PROVE  WInv'
  <1>1. /\ pc = "enqueued" /\ watches' = Cleaned(watches) /\ dirties' = {}
        /\ confl' = CRef_Undef /\ pc' = "propagate"
        /\ UNCHANGED <<ca, clauses, learnts, trail, trail_lim, reason, qhead, todo, skipped, ok, added>>
    BY DEF StartPropagate, assignment
  <1>2. /\ InUse' = InUse /\ First' = First
        /\ \A x : LitsOf(x)' = LitsOf(x) /\ Heads(x)' = Heads(x)
    BY <1>1 DEF InUse, First, LitsOf, Heads
  <1>3. watches \in [Lits -> SUBSET [cref : DOMAIN ca, blocker : Lits]]
    BY DEF WInv, DbInv
  <1>4. /\ watches' \in [Lits -> SUBSET [cref : DOMAIN ca, blocker : Lits]]
        /\ \A l \in Lits : \A u : u \in watches'[l] <=>
              u \in watches[l] /\ (l \in dirties => ca[u.cref].mark = 0)
    BY <1>1, <1>3 DEF Cleaned
  <1>5. \A l \in Lits : \A u \in watches[l] : u.cref \in DOMAIN ca
    BY <1>3
  <1>6. \A x \in DOMAIN ca : ca[x].mark = 0 <=> x \in InUse
    BY DEF WInv, DbInv
  <1>7. DbInv'
    BY <1>1, <1>2, <1>4 DEF WInv, DbInv
  <1>8. WatchInv'
    <2>1. ASSUME NEW x \in InUse, NEW l \in Lits
          PROVE  Watching(x, l)' = Watching(x, l)
      <3>1. ca[x].mark = 0
        BY ClauseFacts DEF WInv
      <3>2. \A u : u.cref = x => (u \in watches'[l] <=> u \in watches[l])
        BY <1>4, <3>1
      <3> QED
        BY <3>2 DEF Watching
    <2> QED
      BY <1>2, <2>1 DEF WInv, WatchInv
  <1>9. ListsClean'
    BY <1>1, <1>2, <1>4, <1>5, <1>6 DEF WInv, ListsClean
  <1>10. TrailInv' /\ ReasonInv'
    BY <1>1, <1>2 DEF WInv, TrailInv, ReasonInv
  <1>11. StageInv'
    BY <1>1 DEF WInv, StageInv
  <1>12. PropInv'
    <2>1. ~ Broken /\ ~ Broken'
      BY <1>1 DEF WInv, StageInv, Broken
    <2>2. Visited' = Visited
      BY <1>1, <2>1 DEF Visited
    <2> QED
      BY <1>1, <1>2, <2>2 DEF WInv, PropInv, Excused
  <1>13. FormulaInv'
    <2>1. AtLevel0' = AtLevel0
      BY <1>1 DEF AtLevel0
    <2> QED
      BY <1>1, <1>2, <2>1, SameFormula DEF WInv
  <1> QED
    BY <1>7, <1>8, <1>9, <1>10, <1>11, <1>12, <1>13 DEF WInv

LEMMA TakeLiteralInv ==
    ASSUME WInv, TakeLiteral
    PROVE  WInv'
  <1>1. /\ pc = "propagate" /\ todo = {} /\ qhead < Len(trail) /\ qhead' = qhead + 1
        /\ todo' = watches[trail[qhead + 1]]
        /\ UNCHANGED db /\ UNCHANGED <<trail, trail_lim, reason, confl, skipped, ok, added, pc>>
    BY DEF TakeLiteral
  <1>2. /\ InUse' = InUse /\ clauses' = clauses /\ ca' = ca /\ First' = First
        /\ \A cr : LitsOf(cr)' = LitsOf(cr) /\ Heads(cr)' = Heads(cr)
        /\ (DbInv /\ WatchInv /\ ListsClean)'
        /\ watches' = watches /\ dirties' = dirties
    BY <1>1, SameDb DEF WInv, db
  <1>3. TrailInv' /\ ReasonInv'
    BY <1>1, <1>2 DEF WInv, TrailInv, ReasonInv
  <1>4. /\ DOMAIN trail = 1..Len(trail) /\ Len(trail) \in Nat
        /\ \A n \in 1..Len(trail) : trail[n] \in Lits
        /\ \A k \in DOMAIN trail_lim : trail_lim[k] \in Nat
    BY TrailParts DEF WInv, TrailInv
  <1>5. qhead \in Nat /\ qhead + 1 \in 1..Len(trail) /\ qhead # Len(trail) /\ confl = CRef_Undef
    <2>1. qhead \in 0..Len(trail) /\ (confl # CRef_Undef => qhead = Len(trail))
      BY DEF WInv, StageInv
    <2>2. Len(trail) \in Nat /\ qhead < Len(trail)
      BY <1>1, <1>4
    <2>3. qhead \in Nat /\ qhead # Len(trail) /\ qhead + 1 \in 1..Len(trail)
      BY <2>1, <2>2
    <2> QED
      BY <2>1, <2>3
  <1>6. StageInv'
    <2>0. skipped' \in 0..qhead' /\ \A k \in DOMAIN trail_lim' : skipped' <= trail_lim'[k]
      BY <1>1, <1>5 DEF WInv, StageInv
    <2>1. \A k \in DOMAIN trail_lim : trail_lim[k] < qhead + 1 /\ trail_lim[k] <= qhead + 1
      <3>1. \A k \in DOMAIN trail_lim : trail_lim[k] <= qhead
        BY DEF WInv, StageInv
      <3>2. ASSUME NEW k \in DOMAIN trail_lim
            PROVE  trail_lim[k] < qhead + 1 /\ trail_lim[k] <= qhead + 1
        <4>1. trail_lim[k] \in Nat /\ trail_lim[k] <= qhead /\ qhead \in Nat
          BY <1>4, <1>5, <3>1
        <4> QED
          BY <4>1
      <3> QED
        BY <3>2
    <2>2. qhead + 1 \in 0..Len(trail) /\ qhead + 1 \in DOMAIN trail
      <3>1. \A x \in 1..Len(trail) : x \in 0..Len(trail)
        BY <1>4
      <3> QED
        BY <1>4, <1>5, <3>1
    <2>3. qhead' \in 0..Len(trail') /\ ok' \in BOOLEAN /\ pc' = "propagate" /\ confl' = CRef_Undef
      BY <1>1, <1>5, <2>2 DEF WInv, StageInv
    <2>4. dirties' = {} /\ qhead' \in DOMAIN trail' /\ todo' \subseteq watches'[trail'[qhead']]
      BY <1>1, <1>2, <2>2 DEF WInv, StageInv
    <2>5. \A k \in DOMAIN trail_lim' : trail_lim'[k] < qhead' /\ trail_lim'[k] <= qhead'
      BY <1>1, <2>1
    <2> QED
      BY <2>0, <2>3, <2>4, <2>5 DEF StageInv
  <1>7. PropInv'
    <2>1. ~ Broken /\ ~ Broken'
      BY <1>1, <1>5 DEF Broken
    <2>2. Visited = (skipped + 1)..qhead /\ Visited' = (skipped + 1)..(qhead + 1)
      BY <1>1, <2>1 DEF Visited
    <2> SUFFICES ASSUME ok, NEW x \in InUse, NEW n \in (skipped + 1)..(qhead + 1), -trail[n] \in Heads(x)
                 PROVE  (n = qhead + 1 /\ \E u \in todo' : u.cref = x) \/ Excused(x, n)
      BY <1>1, <1>2, <2>2 DEF PropInv, Excused
    <2>0. skipped \in Nat
      BY DEF WInv, StageInv
    <2>3. CASE n \in (skipped + 1)..qhead
      BY <1>1, <2>2, <2>3 DEF WInv, PropInv
    <2>4. CASE n = qhead + 1
      <3>1. trail[n] \in Lits
        BY <1>4, <1>5, <2>4
      <3>2. PICK b \in LitsOf(x) \ {-trail[n]} : Watching(x, trail[n]) = {Watcher(x, b)}
        BY <3>1 DEF WInv, WatchInv
      <3>3. Watcher(x, b) \in watches[trail[n]] /\ Watcher(x, b).cref = x
        BY <3>2 DEF Watching
      <3>4. todo' = watches[trail[n]]
        BY <1>1, <2>4
      <3>5. \E u \in todo' : u.cref = x
        BY <3>3, <3>4
      <3> QED
        BY <2>4, <3>5
    <2> QED
      BY <1>5, <2>0, <2>3, <2>4
  <1>8. FormulaInv'
    <2>1. AtLevel0' = AtLevel0
      BY <1>1 DEF AtLevel0
    <2> QED
      BY <1>1, <1>2, <2>1, SameFormula DEF WInv
  <1> QED
    BY <1>2, <1>3, <1>6, <1>7, <1>8 DEF WInv

LEMMA PropagatedInv ==
    ASSUME WInv, Propagated
    PROVE  WInv'
  <1>1. /\ pc = "propagate" /\ todo = {} /\ qhead = Len(trail)
        /\ \/ confl = CRef_Undef /\ pc' = "idle" /\ UNCHANGED <<skipped, ok>>
           \/ /\ confl # CRef_Undef /\ decisionLevel = 0 /\ pc' = "idle"
              /\ \/ ok' = FALSE /\ skipped' = skipped
                 \/ skipped' = Len(trail) /\ ok' = ok
           \/ confl # CRef_Undef /\ decisionLevel > 0 /\ pc' = "conflict" /\ UNCHANGED <<skipped, ok>>
        /\ confl' = CRef_Undef /\ UNCHANGED <<db, trail, trail_lim, reason, qhead, todo, added>>
    BY DEF Propagated, assignment
  <1>2. /\ InUse' = InUse /\ clauses' = clauses /\ ca' = ca /\ First' = First
        /\ \A cr : LitsOf(cr)' = LitsOf(cr) /\ Heads(cr)' = Heads(cr)
        /\ (DbInv /\ WatchInv /\ ListsClean)'
        /\ watches' = watches /\ dirties' = dirties
    BY <1>1, SameDb DEF WInv, db
  <1>3. TrailInv' /\ ReasonInv'
    BY <1>1, <1>2 DEF WInv, TrailInv, ReasonInv
  <1>4. /\ decisionLevel > 0 => trail_lim # <<>>
        /\ DOMAIN trail_lim = 1..decisionLevel /\ decisionLevel \in Nat /\ Len(trail) \in Nat
    BY EmptySeq, TrailParts DEF decisionLevel, WInv, TrailInv
  <1>5. StageInv'
    <2>1. skipped' \in 0..qhead'
      BY <1>1, <1>4 DEF WInv, StageInv
    <2>2. \A k \in DOMAIN trail_lim' : skipped' <= trail_lim'[k]
      BY <1>1, <1>4 DEF WInv, StageInv
    <2>3. /\ ok' \in BOOLEAN /\ pc' \in {"idle", "conflict"} /\ confl' = CRef_Undef
          /\ pc' = "conflict" => trail_lim' # <<>>
      BY <1>1, <1>4 DEF WInv, StageInv
    <2>4. \A k \in DOMAIN trail_lim' : trail_lim'[k] <= qhead'
      BY <1>1 DEF WInv, StageInv
    <2> QED
      BY <1>1, <2>1, <2>2, <2>3, <2>4 DEF WInv, StageInv
  <1>6. PropInv'
    <2>1. CASE ok' /\ skipped' = skipped /\ ~ (confl # CRef_Undef /\ decisionLevel = 0)
      <3>1. ok /\ (Broken <=> Broken')
        BY <1>1, <2>1 DEF Broken
      <3>2. Visited' = Visited
        BY <1>1, <2>1, <3>1 DEF Visited
      <3> QED
        BY <1>1, <1>2, <3>1, <3>2 DEF WInv, PropInv, Excused
    <2>2. CASE ~ ok'
      BY <2>2 DEF PropInv
    <2>3. CASE skipped' = Len(trail) /\ pc' = "idle"
      <3>1. Visited' = {}
        BY <1>1, <1>4, <2>3 DEF Visited, Broken
      <3> QED
        BY <3>1 DEF PropInv
    <2> QED
      BY <1>1, <2>1, <2>2, <2>3
  <1>7. FormulaInv'
    <2>1. AtLevel0' = AtLevel0 /\ (ok' => ok)
      BY <1>1 DEF AtLevel0
    <2> QED
      BY <1>1, <1>2, <2>1, SameFormula DEF WInv
  <1> QED
    BY <1>2, <1>3, <1>5, <1>6, <1>7 DEF WInv

-----------------------------------------------------------------------------
(* Steps outside propagate: the trail goes back to a level, or stays, and  *)
(* may then grow.                                                          *)

LEMMA HeadFacts ==
    ASSUME TrailInv, StageInv, NEW lev \in 0..decisionLevel
    PROVE  /\ KeptHead(lev) \in 0..Len(KeptTrail(lev)) /\ KeptHead(lev) <= qhead
           /\ \A k \in 1..lev : KeptLims(lev)[k] <= KeptHead(lev)
           /\ skipped \in 0..KeptHead(lev) /\ \A k \in 1..lev : skipped <= KeptLims(lev)[k]
           /\ DOMAIN KeptLims(lev) = 1..lev
           /\ Len(KeptTrail(lev)) \in Nat /\ DOMAIN KeptTrail(lev) = 1..Len(KeptTrail(lev))
  <1> DEFINE t == KeptTrail(lev)
             tl == KeptLims(lev)
             h == KeptHead(lev)
  <1>1. /\ DOMAIN trail_lim = 1..decisionLevel /\ decisionLevel \in Nat /\ Len(trail) \in Nat
        /\ \A k \in 1..decisionLevel : trail_lim[k] \in Nat
        /\ \A j, k \in 1..decisionLevel : j <= k => trail_lim[j] <= trail_lim[k]
    BY TrailParts DEF TrailInv, decisionLevel
  <1>2. /\ qhead \in 0..Len(trail) /\ skipped \in 0..qhead
        /\ \A k \in 1..decisionLevel : skipped <= trail_lim[k] /\ trail_lim[k] <= qhead
    BY <1>1 DEF StageInv
  <1>3. /\ TrailOK(t, tl) /\ Len(tl) = lev
        /\ \A k \in 1..lev : k \in 1..decisionLevel /\ tl[k] = trail_lim[k]
        /\ lev < decisionLevel => h = Len(t) /\ Len(t) = trail_lim[lev + 1]
        /\ lev = decisionLevel => h = qhead /\ t = trail /\ tl = trail_lim
    BY KeptFacts
  <1> HIDE DEF t, tl, h
  <1>4. DOMAIN tl = 1..lev /\ Len(t) \in Nat /\ DOMAIN t = 1..Len(t)
    BY <1>3, TrailParts
  <1>5. CASE lev < decisionLevel
    <2>1. lev \in Nat /\ lev + 1 \in 1..decisionLevel
      BY <1>1, <1>5
    <2>2. h \in 0..Len(t) /\ h <= qhead
      BY <1>2, <1>3, <1>4, <1>5, <2>1
    <2>3. \A k \in 1..lev : tl[k] <= h
      BY <1>1, <1>3, <1>5, <2>1
    <2>4. skipped \in 0..h /\ \A k \in 1..lev : skipped <= tl[k]
      BY <1>1, <1>2, <1>3, <1>5, <2>1
    <2> QED
      BY <1>4, <2>2, <2>3, <2>4 DEF t, tl, h
  <1>6. CASE lev = decisionLevel
    <2>1. h \in 0..Len(t) /\ h <= qhead
      BY <1>1, <1>2, <1>3, <1>6
    <2>2. \A k \in 1..lev : tl[k] <= h
      BY <1>2, <1>3, <1>6
    <2>3. skipped \in 0..h /\ \A k \in 1..lev : skipped <= tl[k]
      BY <1>2, <1>3, <1>6
    <2> QED
      BY <1>4, <2>1, <2>2, <2>3 DEF t, tl, h
  <1> QED
    BY <1>1, <1>5, <1>6

\* PropInv holds again after such a step when it holds of the clauses it adds.
LEMMA JumpProp ==
    ASSUME TrailInv, StageInv, PropInv, pc # "propagate", ok' => ok,
           NEW lev \in 0..decisionLevel, pc = "conflict" => lev < decisionLevel,
           Visited' \subseteq (skipped + 1)..KeptHead(lev),
           \A n \in 1..Len(KeptTrail(lev)) : trail'[n] = KeptTrail(lev)[n],
           \A S : \A n \in 1..Len(KeptTrail(lev)) :
              ExcusedIn(S, KeptTrail(lev), KeptLims(lev), n) => ExcusedIn(S, trail', trail_lim', n),
           \A x \in InUse' :
              \/ x \in InUse /\ LitsOf(x)' = LitsOf(x) /\ Heads(x)' = Heads(x)
              \/ \A n \in 1..KeptHead(lev) : -trail'[n] \in Heads(x)' => Excused(x, n)'
    PROVE  PropInv'
  <1>0. skipped \in Nat
    BY DEF StageInv
  <1> SUFFICES ASSUME ok, NEW x \in InUse', NEW n \in 1..KeptHead(lev), n > skipped,
                      -trail'[n] \in Heads(x)'
               PROVE  Excused(x, n)'
    <2>1. \A n \in Visited' : n \in 1..KeptHead(lev) /\ n > skipped
      <3>1. KeptHead(lev) \in Int
        BY HeadFacts
      <3> QED
        BY <1>0, <3>1
    <2> QED
      BY <2>1 DEF PropInv
  <1>1. /\ KeptHead(lev) \in 0..Len(KeptTrail(lev)) /\ KeptHead(lev) <= qhead
        /\ Len(KeptTrail(lev)) \in Nat
    BY HeadFacts
  <1>2. n \in 1..Len(KeptTrail(lev)) /\ n <= qhead /\ n \in Nat /\ skipped < n
    <2>1. qhead \in Nat
      BY TrailParts DEF StageInv, TrailInv
    <2> QED
      BY <1>0, <1>1, <2>1
  <1>3. n \in 1..Len(trail) /\ KeptTrail(lev)[n] = trail[n]
    BY <1>2, KeptFacts
  <1>4. n \in Visited
    <2>1. confl = CRef_Undef /\ qhead \in Nat
      BY TrailParts DEF StageInv, TrailInv
    <2>2. CASE pc # "conflict"
      <3>1. Visited = (skipped + 1)..qhead
        BY <2>1, <2>2 DEF Visited, Broken
      <3> QED
        BY <1>0, <1>2, <2>1, <3>1
    <2>3. CASE pc = "conflict"
      <3>1. lev < decisionLevel
        BY <2>3
      <3>2. Len(KeptTrail(lev)) = trail_lim[lev + 1]
        BY <3>1, KeptFacts
      <3>3. DOMAIN trail_lim = 1..decisionLevel /\ decisionLevel \in Nat /\ DOMAIN trail = 1..Len(trail)
        BY TrailParts DEF TrailInv, decisionLevel
      <3>4. lev + 1 \in DOMAIN trail_lim /\ n <= trail_lim[lev + 1]
        BY <1>2, <3>1, <3>2, <3>3
      <3> QED
        BY <1>2, <1>3, <2>3, <3>3, <3>4 DEF Visited, Broken
    <2> QED
      BY <2>2, <2>3
  <1>5. CASE x \in InUse /\ LitsOf(x)' = LitsOf(x) /\ Heads(x)' = Heads(x)
    <2>1. todo = {}
      BY DEF StageInv
    <2>2. -trail[n] \in Heads(x)
      BY <1>2, <1>3, <1>5
    <2>3. Excused(x, n)
      BY <1>4, <1>5, <2>1, <2>2 DEF PropInv
    <2>4. ExcusedIn(LitsOf(x), KeptTrail(lev), KeptLims(lev), n)
      BY <1>2, <2>3, ExcusedKept DEF Excused
    <2>5. ExcusedIn(LitsOf(x), trail', trail_lim', n)
      BY <1>2, <2>4
    <2> QED
      BY <1>5, <2>5 DEF Excused
  <1> QED
    BY <1>5

\* A literal is enqueued at the level at hand: by the theory, or by a clause of
\* one literal.
LEMMA PushInv ==
    ASSUME WInv, pc \in {"idle", "enqueued"}, NEW l \in Lits, Free(l),
           NEW from \in {CRef_Undef, CRef_Fake}, Enqueue(l, from, trail),
           UNCHANGED db, UNCHANGED <<trail_lim, qhead, todo, confl, skipped, ok>>, pc' = "enqueued"
    PROVE  /\ DbInv' /\ TrailInv' /\ WatchInv' /\ ListsClean' /\ ReasonInv' /\ StageInv' /\ PropInv'
           /\ AtLevel0 \subseteq AtLevel0'
           /\ trail_lim = <<>> => l \in AtLevel0'
  <1>1. /\ trail' = Append(trail, l)
        /\ reason' = [ReasonsOn(trail) EXCEPT ![var(l)] = from]
    BY DEF Enqueue
  <1>2. /\ InUse' = InUse /\ clauses' = clauses /\ ca' = ca /\ First' = First
        /\ \A cr : LitsOf(cr)' = LitsOf(cr) /\ Heads(cr)' = Heads(cr)
        /\ (DbInv /\ WatchInv /\ ListsClean)'
    BY SameDb DEF WInv
  <1>3. TrailInv /\ TrailOK(trail, trail_lim) /\ StageInv /\ PropInv /\ ReasonInv
    BY DEF WInv, TrailInv
  <1>4. \A n \in 1..Len(trail) : var(trail[n]) # var(l)
    BY <1>3, ValueFacts
  <1>5. /\ TrailOK(trail', trail_lim) /\ Len(trail') = Len(trail) + 1
        /\ \A n \in 1..Len(trail) : trail'[n] = trail[n]
        /\ Level0(trail, trail_lim) \subseteq Level0(trail', trail_lim)
        /\ trail_lim = <<>> => l \in Level0(trail', trail_lim)
    BY <1>1, <1>3, <1>4, PushFacts
  <1>6. ReasonInv'
    <2>1. from \in Int /\ ~ (from > 0)
      BY DEF CRef_Undef, CRef_Fake
    <2>2. PICK f2 : f2 = First
      OBVIOUS
    <2>3. ReasonsOK(reason, trail, f2)
      BY <1>3, <2>2 DEF ReasonInv
    <2>4. ReasonsOK([ReasonsOn(trail) EXCEPT ![var(l)] = from], Append(trail, l), f2)
      BY <1>3, <1>4, <2>1, <2>3, ReasonsPush
    <2> QED
      BY <1>1, <1>2, <2>2, <2>4 DEF ReasonInv
  <1>7. /\ Len(trail) \in Nat /\ DOMAIN trail_lim = 1..decisionLevel /\ decisionLevel \in Nat
    BY <1>3, TrailParts DEF decisionLevel
  <1>8. StageInv'
    <2>1. qhead \in 0..Len(trail')
      BY <1>3, <1>5, <1>7 DEF StageInv
    <2> QED
      BY <1>3, <2>1 DEF StageInv
  <1>9. PropInv'
    <2>1. decisionLevel \in 0..decisionLevel
      BY <1>7
    <2>2. /\ KeptHead(decisionLevel) = qhead /\ KeptTrail(decisionLevel) = trail
          /\ KeptLims(decisionLevel) = trail_lim
      BY <1>3, <2>1, KeptFacts
    <2>3. PICK lev \in 0..decisionLevel : lev = decisionLevel
      BY <2>1
    <2>4. KeptHead(lev) = qhead /\ KeptTrail(lev) = trail /\ KeptLims(lev) = trail_lim
      BY <2>2, <2>3
    <2>5. Visited' \subseteq (skipped + 1)..KeptHead(lev)
      BY <1>3, <2>4 DEF Visited, Broken, StageInv
    <2>6. \A S, n : ExcusedIn(S, trail, trail_lim, n) => ExcusedIn(S, trail', trail_lim', n)
      BY <1>1, <1>3, ExcusedPush
    <2> QED
      BY <1>2, <1>3, <1>5, <2>4, <2>5, <2>6, JumpProp
  <1> QED
    BY <1>2, <1>5, <1>6, <1>8, <1>9 DEF TrailInv, AtLevel0, Level0

LEMMA DeduceInv ==
    ASSUME WInv, NEW l \in Lits, Deduce(l)
    PROVE  WInv'
  <1>1. /\ pc \in {"idle", "enqueued"} /\ Free(l) /\ Enqueue(l, CRef_Fake, trail) /\ pc' = "enqueued"
        /\ UNCHANGED db /\ UNCHANGED <<trail_lim, qhead, todo, confl, skipped, ok, added>>
    BY DEF Deduce
  <1>2. /\ DbInv' /\ TrailInv' /\ WatchInv' /\ ListsClean' /\ ReasonInv' /\ StageInv' /\ PropInv'
        /\ AtLevel0 \subseteq AtLevel0'
    BY <1>1, PushInv
  <1>3. FormulaInv'
    BY <1>1, <1>2, SameDb, SameFormula DEF WInv
  <1> QED
    BY <1>2, <1>3 DEF WInv

LEMMA DecideInv ==
    ASSUME WInv, NEW l \in Lits, Decide(l)
    PROVE  WInv'
  <1>1. /\ ok /\ pc = "idle" /\ Free(l) /\ trail_lim' = Append(trail_lim, Len(trail))
        /\ trail' = Append(trail, l)
        /\ reason' = [ReasonsOn(trail) EXCEPT ![var(l)] = CRef_Undef] /\ pc' = "enqueued"
        /\ UNCHANGED db /\ UNCHANGED <<qhead, todo, confl, skipped, ok, added>>
    BY DEF Decide, Enqueue
  <1>2. /\ InUse' = InUse /\ clauses' = clauses /\ ca' = ca /\ First' = First
        /\ \A cr : LitsOf(cr)' = LitsOf(cr) /\ Heads(cr)' = Heads(cr)
        /\ (DbInv /\ WatchInv /\ ListsClean)'
    BY <1>1, SameDb DEF WInv
  <1>3. TrailInv /\ TrailOK(trail, trail_lim) /\ StageInv /\ PropInv /\ ReasonInv
    BY DEF WInv, TrailInv
  <1>4. \A n \in 1..Len(trail) : var(trail[n]) # var(l)
    BY <1>1, <1>3, ValueFacts
  <1>5. /\ TrailOK(trail, trail_lim') /\ Len(trail_lim') = decisionLevel + 1
        /\ \A k \in 1..decisionLevel : trail_lim'[k] = trail_lim[k]
        /\ trail_lim'[decisionLevel + 1] = Len(trail)
        /\ Level0(trail, trail_lim') = Level0(trail, trail_lim)
    BY <1>1, <1>3, NewLevelFacts DEF decisionLevel
  <1>6. /\ TrailOK(trail', trail_lim') /\ Len(trail') = Len(trail) + 1
        /\ \A n \in 1..Len(trail) : trail'[n] = trail[n]
        /\ Level0(trail, trail_lim') \subseteq Level0(trail', trail_lim')
    BY <1>1, <1>4, <1>5, PushFacts
  <1>7. /\ Len(trail) \in Nat /\ DOMAIN trail_lim = 1..decisionLevel /\ decisionLevel \in Nat
        /\ DOMAIN trail_lim' = 1..(decisionLevel + 1)
        /\ \A k \in 1..decisionLevel : trail_lim[k] <= Len(trail)
    BY <1>3, <1>5, TrailParts DEF decisionLevel
  <1>8. ReasonInv'
    <2>1. CRef_Undef \in Int /\ ~ (CRef_Undef > 0)
      BY DEF CRef_Undef
    <2>2. PICK f2 : f2 = First
      OBVIOUS
    <2>3. ReasonsOK(reason, trail, f2)
      BY <1>3, <2>2 DEF ReasonInv
    <2>4. ReasonsOK([ReasonsOn(trail) EXCEPT ![var(l)] = CRef_Undef], Append(trail, l), f2)
      BY <1>3, <1>4, <2>1, <2>3, ReasonsPush
    <2> QED
      BY <1>1, <1>2, <2>2, <2>4 DEF ReasonInv
  <1>9. StageInv'
    <2>1. qhead = Len(trail) /\ qhead \in 0..Len(trail')
      BY <1>1, <1>3, <1>6, <1>7 DEF StageInv
    <2>2. \A k \in DOMAIN trail_lim' : skipped <= trail_lim'[k] /\ trail_lim'[k] <= qhead
      <3> TAKE k \in DOMAIN trail_lim'
      <3>1. k \in 1..decisionLevel \/ k = decisionLevel + 1
        BY <1>7
      <3>2. skipped <= Len(trail) /\ \A j \in 1..decisionLevel : skipped <= trail_lim[j]
        BY <1>3, <1>7, <2>1 DEF StageInv
      <3> QED
        BY <1>5, <1>7, <2>1, <3>1, <3>2
    <2> QED
      BY <1>1, <1>3, <2>1, <2>2 DEF StageInv
  <1>10. PropInv'
    <2>1. decisionLevel \in 0..decisionLevel
      BY <1>7
    <2>2. /\ KeptHead(decisionLevel) = qhead /\ KeptTrail(decisionLevel) = trail
          /\ KeptLims(decisionLevel) = trail_lim
      BY <1>3, <2>1, KeptFacts
    <2>3. PICK lev \in 0..decisionLevel : lev = decisionLevel
      BY <2>1
    <2>4. KeptHead(lev) = qhead /\ KeptTrail(lev) = trail /\ KeptLims(lev) = trail_lim
      BY <2>2, <2>3
    <2>5. Visited' \subseteq (skipped + 1)..KeptHead(lev)
      BY <1>1, <1>3, <2>4 DEF Visited, Broken, StageInv
    <2>6. \A S : \A n \in 1..Len(trail) :
             ExcusedIn(S, trail, trail_lim, n) => ExcusedIn(S, trail', trail_lim', n)
      <3> TAKE S
      <3> TAKE n \in 1..Len(trail)
      <3>1. ExcusedIn(S, trail, trail_lim, n) => ExcusedIn(S, trail, trail_lim', n)
        BY <1>1, <1>3, ExcusedNewLevel
      <3>2. ExcusedIn(S, trail, trail_lim', n) => ExcusedIn(S, trail', trail_lim', n)
        BY <1>1, <1>5, ExcusedPush
      <3> QED
        BY <3>1, <3>2
    <2> QED
      BY <1>1, <1>2, <1>3, <1>6, <2>4, <2>5, <2>6, JumpProp
  <1>11. FormulaInv'
    <2>1. AtLevel0 \subseteq AtLevel0'
      BY <1>5, <1>6 DEF AtLevel0, Level0
    <2> QED
      BY <1>1, <1>2, <2>1, SameFormula DEF WInv
  <1> QED
    BY <1>2, <1>6, <1>8, <1>9, <1>10, <1>11 DEF WInv, TrailInv

\* A backjump alone.
LEMMA BackjumpInv ==
    ASSUME WInv, pc \in {"idle", "enqueued"}, NEW lev \in 0..decisionLevel, Backjump(lev),
           UNCHANGED db, UNCHANGED <<todo, confl, skipped, ok, added>>,
           \/ pc' = "conflict" /\ lev > 0 /\ pc = "idle"
           \/ pc' = "idle" /\ lev < decisionLevel
    PROVE  WInv'
  <1>1. /\ trail' = KeptTrail(lev) /\ trail_lim' = KeptLims(lev) /\ qhead' = KeptHead(lev)
        /\ reason' = ReasonsOn(KeptTrail(lev))
    BY DEF Backjump
  <1>2. /\ InUse' = InUse /\ clauses' = clauses /\ ca' = ca /\ First' = First
        /\ \A cr : LitsOf(cr)' = LitsOf(cr) /\ Heads(cr)' = Heads(cr)
        /\ (DbInv /\ WatchInv /\ ListsClean)'
    BY SameDb DEF WInv
  <1>3. TrailInv /\ StageInv /\ PropInv /\ ReasonInv
    BY DEF WInv
  <1>4. /\ TrailOK(trail', trail_lim') /\ Len(trail_lim') = lev
        /\ \A n \in 1..Len(trail') : n \in 1..Len(trail) /\ trail'[n] = trail[n]
        /\ Level0(trail, trail_lim) \subseteq Level0(trail', trail_lim')
        /\ lev < decisionLevel => qhead' = Len(trail')
    BY <1>1, <1>3, KeptFacts
  <1>5. /\ qhead' \in 0..Len(trail') /\ \A k \in 1..lev : trail_lim'[k] <= qhead'
        /\ skipped \in 0..qhead' /\ \A k \in 1..lev : skipped <= trail_lim'[k]
        /\ DOMAIN trail_lim' = 1..lev
    BY <1>1, <1>3, HeadFacts
  <1>6. ReasonInv'
    <2>1. PICK t : t = KeptTrail(lev)
      OBVIOUS
    <2>2. PICK tl : tl = KeptLims(lev)
      OBVIOUS
    <2>3. PICK f2 : f2 = First
      OBVIOUS
    <2>4. /\ TrailOK(t, tl) /\ ReasonsOK(reason, trail, f2)
          /\ \A n \in 1..Len(t) : n \in 1..Len(trail) /\ t[n] = trail[n]
      BY <1>1, <1>3, <1>4, <2>1, <2>2, <2>3 DEF ReasonInv
    <2>5. ReasonsOK(ReasonsOn(t), t, f2)
      BY <1>3, <2>4, ReasonsCut
    <2> QED
      BY <1>1, <1>2, <2>1, <2>3, <2>5 DEF ReasonInv
  <1>7. StageInv'
    <2>1. pc' = "conflict" => trail_lim' # <<>>
      <3>1. lev > 0 => trail_lim' # <<>>
        BY <1>4, EmptySeq
      <3> QED
        BY <3>1
    <2> QED
      BY <1>3, <1>4, <1>5, <2>1 DEF StageInv
  <1>8. PropInv'
    <2>1. Visited' \subseteq (skipped + 1)..KeptHead(lev)
      <3>1. confl' = CRef_Undef
        BY <1>3 DEF StageInv
      <3>2. CASE pc' = "idle"
        BY <1>1, <3>1, <3>2 DEF Visited, Broken
      <3>3. CASE pc' = "conflict"
        <4>1. Visited' = {n \in DOMAIN trail' : skipped < n /\ \E k \in 1..lev : n <= trail_lim'[k]}
          BY <1>5, <3>3 DEF Visited, Broken
        <4>2. DOMAIN trail' = 1..Len(trail') /\ Len(trail') \in Nat
              /\ \A k \in 1..lev : trail_lim'[k] \in Nat
          BY <1>4, TrailParts
        <4>3. \A n \in Visited' : n \in (skipped + 1)..qhead'
          BY <1>5, <4>1, <4>2
        <4> QED
          BY <1>1, <4>3
      <3> QED
        BY <3>2, <3>3
    <2> QED
      BY <1>1, <1>2, <1>3, <2>1, JumpProp
  <1>9. FormulaInv'
    <2>1. AtLevel0 \subseteq AtLevel0'
      BY <1>4 DEF AtLevel0, Level0
    <2> QED
      BY <1>2, <2>1, SameFormula DEF WInv
  <1> QED
    BY <1>2, <1>4, <1>6, <1>7, <1>8, <1>9 DEF WInv, TrailInv

LEMMA TheoryConflictInv ==
    ASSUME WInv, TheoryConflict
    PROVE  WInv'
  <1>1. PICK lev \in 1..decisionLevel : Backjump(lev)
    BY DEF TheoryConflict
  <1>2. lev \in 0..decisionLevel /\ lev > 0
    BY TrailParts DEF WInv, TrailInv, decisionLevel
  <1> QED
    BY <1>1, <1>2, BackjumpInv DEF TheoryConflict

LEMMA CancelUntilInv ==
    ASSUME WInv, NEW lev \in 0..Len(trail_lim), CancelUntil(lev)
    PROVE  WInv'
  <1>1. lev \in 0..decisionLevel /\ lev < decisionLevel /\ Backjump(lev)
    BY DEF CancelUntil, decisionLevel
  <1>2. pc' = "idle"
    <2>1. qhead' = Len(trail') /\ Len(trail') \in Nat
      BY <1>1, KeptFacts, HeadFacts DEF Backjump, WInv
    <2> QED
      BY <2>1 DEF CancelUntil
  <1> QED
    BY <1>1, <1>2, BackjumpInv DEF CancelUntil

-----------------------------------------------------------------------------
(* New clauses. *)

\* A position of the trail that makes a literal false.
LEMMA FalseAt ==
    ASSUME TrailInv, NEW l \in Lits
    PROVE  IsFalse(l) <=> \E n \in 1..Len(trail) : -trail[n] = l
  <1>1. DOMAIN trail = 1..Len(trail) /\ \A n \in 1..Len(trail) : trail[n] \in Lits
    BY TrailParts DEF TrailInv
  <1>2. \A n \in 1..Len(trail) : -trail[n] = l <=> trail[n] = -l
    <2> TAKE n \in 1..Len(trail)
    <2>1. trail[n] \in Int /\ l \in Int
      BY <1>1, LitFacts
    <2> QED
      BY <2>1
  <1>3. IsFalse(l) <=> \E n \in 1..Len(trail) : trail[n] = -l
    BY <1>1 DEF IsFalse, Assigned
  <1> QED
    BY <1>2, <1>3

\* A clause of the formula whose first two literals are not false is attached.
LEMMA AttachInv ==
    ASSUME WInv, pc \in {"idle", "enqueued"},
           NEW c \in Seq(Lits), Len(c) >= 2, \A m, n \in 1..Len(c) : c[m] = c[n] => m = n,
           Allocate(c, FALSE), ~ IsFalse(c[1]), ~ IsFalse(c[2]),
           UNCHANGED <<trail, trail_lim, reason, qhead, todo, confl, skipped, ok, pc>>,
           NEW s, Remains(Elements(c), AtLevel0, s), added' = added \cup {s}
    PROVE  WInv'
  <1>0. PICK N : N = Len(ca) + 1
    OBVIOUS
  <1>1. DbInv /\ WatchInv /\ ListsClean /\ TrailInv /\ StageInv /\ PropInv /\ ReasonInv /\ FormulaInv
    BY DEF WInv
  <1>2. /\ DbInv' /\ WatchInv' /\ ListsClean'
        /\ InUse' = InUse \cup {N} /\ clauses' = clauses \cup {N} /\ dirties' = dirties
        /\ LitsOf(N)' = Elements(c) /\ Heads(N)' = {c[1], c[2]}
        /\ \A x \in InUse : /\ ca'[x] = ca[x]
                            /\ LitsOf(x)' = LitsOf(x) /\ Heads(x)' = Heads(x)
    BY <1>0, <1>1, AllocDb
  <1>3. TrailInv'
    BY <1>1 DEF TrailInv
  <1>4. StageInv'
    BY <1>1 DEF StageInv
  <1>5. ReasonInv'
    <2>1. PICK f2 : f2 = First'
      OBVIOUS
    <2>2. DOMAIN f2 = InUse \cup {N} /\ \A x \in InUse : f2[x] = ca[x].lits[1]
      BY <1>2, <2>1 DEF First
    <2>3. ReasonsOK(reason, trail, f2)
      BY <1>1, <2>2, FirstTo
    <2> QED
      BY <2>1, <2>3 DEF ReasonInv
  <1>6. PropInv'
    <2>1. c[1] \in Lits /\ c[2] \in Lits
      <3>1. 1 \in 1..Len(c) /\ 2 \in 1..Len(c)
        BY SeqFacts
      <3> QED
        BY <3>1, SeqFacts
    <2>2. \A n \in 1..Len(trail) : -trail[n] \notin {c[1], c[2]}
      BY <1>1, <2>1, FalseAt
    <2>3. Visited' = (skipped + 1)..qhead /\ Visited = (skipped + 1)..qhead /\ todo = {}
          /\ qhead \in 0..Len(trail) /\ Len(trail) \in Nat /\ skipped \in Nat
      BY <1>1, TrailParts DEF Visited, Broken, StageInv, TrailInv
    <2> SUFFICES ASSUME ok, NEW x \in InUse \cup {N}, NEW n \in (skipped + 1)..qhead, -trail[n] \in Heads(x)'
                 PROVE  Excused(x, n)'
      BY <1>2, <2>3 DEF PropInv
    <2>4. n \in 1..Len(trail)
      BY <2>3
    <2>5. x \in InUse /\ -trail[n] \in Heads(x)
      BY <1>2, <2>2, <2>4
    <2>6. Excused(x, n)
      BY <1>1, <2>3, <2>5 DEF PropInv
    <2> QED
      BY <1>2, <2>5, <2>6 DEF Excused
  <1>7. FormulaInv'
    <2>1. AtLevel0' = AtLevel0
      BY DEF AtLevel0
    <2>2. \A x \in clauses : x \in clauses' /\ LitsOf(x)' = LitsOf(x)
      BY <1>2 DEF InUse
    <2>3. Remains(LitsOf(N)', AtLevel0', s)
      BY <1>2, <2>1
    <2>4. Kept(s)'
      <3>1. N \in clauses'
        BY <1>2
      <3> QED
        BY <2>3, <3>1 DEF Kept
    <2>5. \A x \in clauses' : \/ \E cr \in clauses : LitsOf(x)' = LitsOf(cr)
                              \/ \E d \in added' : Remains(LitsOf(x)', AtLevel0', d)
      BY <1>2, <2>2, <2>3
    <2> QED
      BY <1>1, <2>1, <2>2, <2>4, <2>5, FormulaTo
  <1> QED
    BY <1>2, <1>3, <1>4, <1>5, <1>6, <1>7 DEF WInv

LEMMA AddClauseInv ==
    ASSUME WInv, NEW c \in Formula, AddClause(c)
    PROVE  WInv'
  <1>1. PICK ps : ps = {l \in c : ~ IsFalse(l)}
    OBVIOUS
  <1>2. /\ ok /\ pc \in {"idle", "enqueued"} /\ decisionLevel = 0
        /\ added' = added \cup {c} /\ UNCHANGED <<todo, confl, skipped>>
        /\ \/ /\ \E l \in c : IsTrue(l) \/ -l \in c
              /\ UNCHANGED <<db, assignment, ok, pc>>
           \/ ps = {} /\ ok' = FALSE /\ UNCHANGED <<db, assignment, pc>>
           \/ /\ \A l \in c : ~ IsTrue(l)
              /\ Cardinality(ps) = 1
              /\ Enqueue(Ordered(ps)[1], CRef_Undef, trail)
              /\ pc' = "enqueued" /\ UNCHANGED <<db, trail_lim, qhead, ok>>
           \/ /\ \A l \in c : ~ IsTrue(l)
              /\ Cardinality(ps) > 1 /\ Allocate(Ordered(ps), FALSE)
              /\ UNCHANGED <<assignment, ok, pc>>
    BY <1>1 DEF AddClause
  <1>3. c \subseteq Lits /\ IsFiniteSet(c)
    BY ClausesAssumption
  <1>4. ps \in SUBSET Int /\ IsFiniteSet(ps) /\ ps \subseteq Lits /\ ps \subseteq c
    <2>1. ps \subseteq c
      BY <1>1
    <2>2. IsFiniteSet(ps)
      BY <1>3, <2>1, FS_Subset
    <2> QED
      BY <1>3, <2>1, <2>2, LitFacts
  <1>5. /\ Cardinality(ps) \in Nat
        /\ Ordered(ps) \in [1..Cardinality(ps) -> ps]
        /\ \A m, n \in 1..Cardinality(ps) : Ordered(ps)[m] = Ordered(ps)[n] => m = n
        /\ {Ordered(ps)[n] : n \in 1..Cardinality(ps)} = ps
    BY <1>4, OrderedFacts
  <1>6. TrailInv /\ StageInv /\ PropInv /\ ReasonInv /\ FormulaInv /\ trail_lim = <<>>
    <2>1. TrailInv /\ StageInv /\ PropInv /\ ReasonInv /\ FormulaInv
      BY DEF WInv
    <2>2. trail_lim = <<>>
      BY <1>2, <2>1, TrailParts, EmptySeq DEF TrailInv, decisionLevel
    <2> QED
      BY <2>1, <2>2
  <1>7. \A l : IsTrue(l) <=> l \in AtLevel0
    BY <1>6, ValueFacts DEF AtLevel0
  <1>8. ASSUME UNCHANGED db, UNCHANGED assignment, UNCHANGED pc, ok' => ok, ok' \in BOOLEAN,
               ok' => \E l \in c : IsTrue(l) \/ -l \in c
        PROVE  WInv'
    <2>1. UNCHANGED <<trail, trail_lim, reason, qhead>>
      BY <1>8 DEF assignment
    <2>2. /\ InUse' = InUse /\ clauses' = clauses /\ ca' = ca /\ First' = First
          /\ \A cr : LitsOf(cr)' = LitsOf(cr) /\ Heads(cr)' = Heads(cr)
          /\ (DbInv /\ WatchInv /\ ListsClean)'
      BY <1>8, SameDb DEF WInv
    <2>3. TrailInv' /\ ReasonInv'
      BY <1>6, <2>1, <2>2 DEF TrailInv, ReasonInv
    <2>4. StageInv'
      BY <1>2, <1>6, <1>8, <2>1, <2>2 DEF StageInv
    <2>5. PropInv'
      <3>1. Visited' = Visited
        BY <1>2, <1>8, <2>1 DEF Visited, Broken
      <3> QED
        BY <1>2, <1>6, <1>8, <2>1, <2>2, <3>1 DEF PropInv, Excused
    <2>6. FormulaInv'
      <3>1. AtLevel0' = AtLevel0
        BY <2>1 DEF AtLevel0
      <3>2. CASE ok'
        <4>1. Kept(c)'
          <5>1. PICK l \in c : l \in AtLevel0 \/ -l \in c
            BY <1>7, <1>8, <3>2
          <5> QED
            BY <3>1, <5>1 DEF Kept
        <4> QED
          BY <1>2, <1>6, <1>8, <2>2, <3>1, <4>1, FormulaTo
      <3>3. CASE ~ ok'
        BY <3>3 DEF FormulaInv
      <3> QED
        BY <3>2, <3>3
    <2> QED
      BY <2>2, <2>3, <2>4, <2>5, <2>6 DEF WInv
  <1>9. CASE (\E l \in c : IsTrue(l) \/ -l \in c) /\ UNCHANGED <<db, assignment, ok, pc>>
    <2>1. ok' \in BOOLEAN
      BY <1>6, <1>9 DEF StageInv
    <2> QED
      BY <1>8, <1>9, <2>1
  <1>10. CASE ps = {} /\ ok' = FALSE /\ UNCHANGED <<db, assignment, pc>>
    BY <1>8, <1>10
  <1>11. CASE /\ \A l \in c : ~ IsTrue(l)
              /\ Cardinality(ps) = 1
              /\ Enqueue(Ordered(ps)[1], CRef_Undef, trail)
              /\ pc' = "enqueued" /\ UNCHANGED <<db, trail_lim, qhead, ok>>
    <2>1. PICK l : l = Ordered(ps)[1]
      OBVIOUS
    <2>2. l \in ps
      <3>1. 1 \in 1..Cardinality(ps)
        BY <1>11
      <3> QED
        BY <1>5, <2>1, <3>1
    <2>3. l \in Lits /\ l \in c /\ Free(l)
      BY <1>1, <1>4, <1>11, <2>2 DEF Free
    <2>4. /\ Enqueue(l, CRef_Undef, trail) /\ pc' = "enqueued"
          /\ UNCHANGED db /\ UNCHANGED <<trail_lim, qhead, todo, confl, skipped, ok>>
      BY <1>2, <1>11, <2>1
    <2>5. /\ DbInv' /\ TrailInv' /\ WatchInv' /\ ListsClean' /\ ReasonInv' /\ StageInv' /\ PropInv'
          /\ AtLevel0 \subseteq AtLevel0' /\ l \in AtLevel0'
      BY <1>2, <1>6, <2>3, <2>4, PushInv
    <2>6. FormulaInv'
      <3>1. Kept(c)'
        BY <2>3, <2>5 DEF Kept
      <3>2. clauses' = clauses /\ \A cr : LitsOf(cr)' = LitsOf(cr)
        BY <2>4, SameDb
      <3> QED
        BY <1>2, <1>6, <2>4, <2>5, <3>1, <3>2, FormulaTo
    <2> QED
      BY <2>5, <2>6 DEF WInv
  <1>12. CASE /\ \A l \in c : ~ IsTrue(l)
              /\ Cardinality(ps) > 1 /\ Allocate(Ordered(ps), FALSE)
              /\ UNCHANGED <<assignment, ok, pc>>
    <2>1. PICK d : d = Ordered(ps)
      OBVIOUS
    <2>2. /\ d \in Seq(Lits) /\ Len(d) = Cardinality(ps)
          /\ \A n \in 1..Len(d) : d[n] \in ps
      <3>1. d \in [1..Cardinality(ps) -> Lits]
        BY <1>4, <1>5, <2>1
      <3>2. d \in Seq(Lits)
        BY <1>5, <3>1, IsASeq
      <3>3. Len(d) \in Nat /\ DOMAIN d = 1..Len(d)
        BY <3>2, SeqFacts
      <3>4. Len(d) = Cardinality(ps)
        BY <1>5, <3>1, <3>3
      <3> QED
        BY <1>5, <2>1, <3>2, <3>4
    <2>3. Len(d) >= 2 /\ \A m, n \in 1..Len(d) : d[m] = d[n] => m = n
      BY <1>5, <1>12, <2>1, <2>2
    <2>4. Elements(d) = ps
      BY <1>5, <2>1, <2>2 DEF Elements
    <2>5. ~ IsFalse(d[1]) /\ ~ IsFalse(d[2])
      <3>1. 1 \in 1..Len(d) /\ 2 \in 1..Len(d)
        BY <2>2, <2>3, SeqFacts
      <3> QED
        BY <1>1, <2>2, <3>1
    <2>6. Remains(Elements(d), AtLevel0, c)
      <3>1. \A l : IsFalse(l) <=> -l \in AtLevel0
        BY <1>7 DEF IsFalse, IsTrue
      <3> QED
        BY <1>1, <2>4, <3>1 DEF Remains
    <2>7. Allocate(d, FALSE) /\ UNCHANGED <<trail, trail_lim, reason, qhead, todo, confl, skipped, ok, pc>>
      BY <1>2, <1>12, <2>1 DEF assignment
    <2> QED
      BY <1>2, <2>2, <2>3, <2>5, <2>6, <2>7, AttachInv
  <1> QED
    BY <1>2, <1>9, <1>10, <1>11, <1>12

-----------------------------------------------------------------------------
(* A backjump that enqueues a literal: of a learnt clause, or of a split.  *)

LEMMA JumpTrail ==
    ASSUME TrailInv, NEW lev \in 0..decisionLevel, NEW l \in Lits,
           \A n \in 1..Len(KeptTrail(lev)) : var(KeptTrail(lev)[n]) # var(l),
           trail' = Append(KeptTrail(lev), l), trail_lim' = KeptLims(lev)
    PROVE  /\ TrailOK(trail', trail_lim')
           /\ Len(trail') = Len(KeptTrail(lev)) + 1 /\ trail'[Len(trail')] = l
           /\ \A n \in 1..Len(KeptTrail(lev)) :
                 /\ trail'[n] = KeptTrail(lev)[n] /\ trail'[n] = trail[n] /\ n \in 1..Len(trail)
           /\ Len(trail_lim') = lev /\ DOMAIN trail_lim' = 1..lev
           /\ AtLevel0 \subseteq AtLevel0'
           /\ lev = 0 => l \in AtLevel0'
  <1>1. PICK t : t = KeptTrail(lev)
    OBVIOUS
  <1>2. PICK tl : tl = KeptLims(lev)
    OBVIOUS
  <1>3. /\ TrailOK(t, tl) /\ Len(tl) = lev
        /\ \A n \in 1..Len(t) : n \in 1..Len(trail) /\ t[n] = trail[n]
        /\ Level0(trail, trail_lim) \subseteq Level0(t, tl)
    BY <1>1, <1>2, KeptFacts
  <1>4. /\ TrailOK(Append(t, l), tl)
        /\ Len(Append(t, l)) = Len(t) + 1
        /\ \A n \in 1..Len(t) : Append(t, l)[n] = t[n]
        /\ Append(t, l)[Len(t) + 1] = l
        /\ Level0(t, tl) \subseteq Level0(Append(t, l), tl)
        /\ tl = <<>> => l \in Level0(Append(t, l), tl)
    BY <1>1, <1>3, PushFacts
  <1>5. tl = <<>> <=> lev = 0
    BY <1>3, TrailParts, EmptySeq
  <1>6. DOMAIN tl = 1..lev
    BY <1>3, TrailParts
  <1>7. AtLevel0 = Level0(trail, trail_lim) /\ AtLevel0' = Level0(trail', trail_lim')
    BY DEF AtLevel0, Level0
  <1> QED
    BY <1>1, <1>2, <1>3, <1>4, <1>5, <1>6, <1>7

\* What holds after it, whatever clause comes with it.
LEMMA JumpInv ==
    ASSUME WInv, pc \in {"idle", "conflict"}, NEW lev \in 0..decisionLevel,
           pc = "conflict" => lev < decisionLevel,
           NEW l \in Lits, \A n \in 1..Len(KeptTrail(lev)) : var(KeptTrail(lev)[n]) # var(l),
           NEW from \in Int, Enqueue(l, from, KeptTrail(lev)),
           trail_lim' = KeptLims(lev), qhead' = KeptHead(lev), pc' = "enqueued",
           UNCHANGED <<todo, confl, skipped, ok>>,
           NEW f2, f2 = First', ReasonsOK(reason, trail, f2),
           from > 0 => from \in DOMAIN f2 /\ f2[from] = l,
           \A x \in InUse' :
              \/ x \in InUse /\ LitsOf(x)' = LitsOf(x) /\ Heads(x)' = Heads(x)
              \/ \A n \in 1..KeptHead(lev) : -trail'[n] \in Heads(x)' => Excused(x, n)'
    PROVE  TrailInv' /\ ReasonInv' /\ StageInv' /\ PropInv'
  <1>1. trail' = Append(KeptTrail(lev), l) /\ reason' = [ReasonsOn(KeptTrail(lev)) EXCEPT ![var(l)] = from]
    BY DEF Enqueue
  <1>2. TrailInv /\ StageInv /\ PropInv
    BY DEF WInv
  <1>3. PICK t : t = KeptTrail(lev)
    OBVIOUS
  <1>4. PICK tl : tl = KeptLims(lev)
    OBVIOUS
  <1>5. /\ TrailOK(t, tl)
        /\ \A n \in 1..Len(t) : n \in 1..Len(trail) /\ t[n] = trail[n] /\ var(t[n]) # var(l)
    BY <1>2, <1>3, <1>4, KeptFacts
  <1>6. /\ TrailOK(trail', trail_lim') /\ Len(trail') = Len(t) + 1
        /\ \A n \in 1..Len(t) : trail'[n] = t[n]
        /\ DOMAIN trail_lim' = 1..lev
    BY <1>1, <1>2, <1>3, JumpTrail
  <1>7. ReasonInv'
    <2>1. ReasonsOK([ReasonsOn(t) EXCEPT ![var(l)] = from], Append(t, l), f2)
      BY <1>2, <1>5, ReasonsPush
    <2> QED
      BY <1>1, <1>3, <2>1 DEF ReasonInv
  <1>8. StageInv'
    <2>1. /\ qhead' \in 0..Len(t) /\ \A k \in 1..lev : trail_lim'[k] <= qhead'
          /\ skipped \in 0..qhead' /\ \A k \in 1..lev : skipped <= trail_lim'[k]
          /\ Len(t) \in Nat
      BY <1>2, <1>3, HeadFacts
    <2>2. qhead' \in 0..Len(trail')
      BY <1>6, <2>1
    <2>3. \A k \in DOMAIN trail_lim' : skipped <= trail_lim'[k] /\ trail_lim'[k] <= qhead'
      BY <1>6, <2>1
    <2>4. skipped' \in 0..qhead' /\ \A k \in DOMAIN trail_lim' : skipped' <= trail_lim'[k]
      BY <2>1, <2>3
    <2>5. confl = CRef_Undef /\ todo = {} /\ ok \in BOOLEAN
      BY <1>2 DEF StageInv
    <2> QED
      BY <2>2, <2>3, <2>4, <2>5 DEF StageInv
  <1>9. PropInv'
    <2>1. Visited' \subseteq (skipped + 1)..KeptHead(lev)
      BY <1>2 DEF Visited, Broken, StageInv
    <2>2. \A S : \A n \in 1..Len(t) : ExcusedIn(S, t, tl, n) => ExcusedIn(S, trail', trail_lim', n)
      <3> TAKE S
      <3> TAKE n \in 1..Len(t)
      <3>1. ExcusedIn(S, t, tl, n) => ExcusedIn(S, Append(t, l), tl, n)
        BY <1>5, ExcusedPush
      <3> QED
        BY <1>1, <1>3, <1>4, <3>1
    <2> QED
      BY <1>2, <1>3, <1>4, <1>6, <2>1, <2>2, JumpProp
  <1> QED
    BY <1>6, <1>7, <1>8, <1>9 DEF TrailInv

\* With a clause of one literal, at level 0.
LEMMA JumpUnitInv ==
    ASSUME WInv, pc \in {"idle", "conflict"}, pc = "conflict" => 0 < decisionLevel,
           NEW l \in Lits, \A n \in 1..Len(KeptTrail(0)) : var(KeptTrail(0)[n]) # var(l),
           Enqueue(l, CRef_Undef, KeptTrail(0)), UNCHANGED db,
           trail_lim' = KeptLims(0), qhead' = KeptHead(0), pc' = "enqueued",
           UNCHANGED <<todo, confl, skipped, ok>>,
           added' = added \/ \E s : l \in s /\ added' = added \cup {s}
    PROVE  WInv'
  <1>1. DbInv /\ WatchInv /\ ListsClean /\ TrailInv /\ ReasonInv /\ FormulaInv
    BY DEF WInv
  <1>2. /\ InUse' = InUse /\ clauses' = clauses /\ First' = First
        /\ \A cr : LitsOf(cr)' = LitsOf(cr) /\ Heads(cr)' = Heads(cr)
        /\ (DbInv /\ WatchInv /\ ListsClean)'
    BY <1>1, SameDb
  <1>3. PICK lev \in 0..decisionLevel : lev = 0
    BY <1>1, TrailParts DEF TrailInv, decisionLevel
  <1>4. PICK from \in Int : from = CRef_Undef /\ ~ (from > 0)
    BY DEF CRef_Undef
  <1>5. TrailInv' /\ ReasonInv' /\ StageInv' /\ PropInv'
    <2>1. PICK f2 : f2 = First'
      OBVIOUS
    <2>2. ReasonsOK(reason, trail, f2)
      BY <1>1, <1>2, <2>1 DEF ReasonInv
    <2> QED
      BY <1>2, <1>3, <1>4, <2>1, <2>2, JumpInv
  <1>6. AtLevel0 \subseteq AtLevel0' /\ l \in AtLevel0'
    BY <1>1, <1>3, JumpTrail DEF Enqueue
  <1>7. FormulaInv'
    <2>1. \A c \in added' : c \in added \/ Kept(c)'
      BY <1>6 DEF Kept
    <2> QED
      BY <1>1, <1>2, <1>6, <2>1, FormulaTo
  <1> QED
    BY <1>2, <1>5, <1>7 DEF WInv

\* With a clause that implies its first literal at the level of its second.
LEMMA JumpClauseInv ==
    ASSUME WInv, pc \in {"idle", "conflict"}, NEW lev \in 0..decisionLevel,
           pc = "conflict" => lev < decisionLevel,
           NEW c \in Seq(Lits), Len(c) >= 2, \A m, n \in 1..Len(c) : c[m] = c[n] => m = n,
           \A n \in 1..Len(KeptTrail(lev)) : var(KeptTrail(lev)[n]) # var(c[1]),
           level(var(c[2])) = lev,
           NEW learnt \in BOOLEAN, Allocate(c, learnt),
           Enqueue(c[1], Len(ca) + 1, KeptTrail(lev)),
           trail_lim' = KeptLims(lev), qhead' = KeptHead(lev), pc' = "enqueued",
           UNCHANGED <<todo, confl, skipped, ok>>,
           IF learnt THEN added' = added
           ELSE \E s : added' = added \cup {s} /\ Remains(Elements(c), AtLevel0', s)
    PROVE  WInv'
  <1>0. PICK N : N = Len(ca) + 1
    OBVIOUS
  <1>1. DbInv /\ WatchInv /\ ListsClean /\ TrailInv /\ StageInv /\ ReasonInv /\ FormulaInv
    BY DEF WInv
  <1>2. /\ DbInv' /\ WatchInv' /\ ListsClean'
        /\ N \in Nat \ {0} /\ N \notin InUse
        /\ InUse' = InUse \cup {N}
        /\ clauses' = IF learnt THEN clauses ELSE clauses \cup {N}
        /\ ca'[N].lits = c
        /\ LitsOf(N)' = Elements(c) /\ Heads(N)' = {c[1], c[2]}
        /\ \A x \in InUse : /\ ca'[x] = ca[x]
                            /\ LitsOf(x)' = LitsOf(x) /\ Heads(x)' = Heads(x)
    BY <1>0, <1>1, AllocDb
  <1>3. 1 \in 1..Len(c) /\ c[1] \in Lits /\ c[2] \in Lits
    <2>1. 1 \in 1..Len(c) /\ 2 \in 1..Len(c)
      BY SeqFacts
    <2> QED
      BY <2>1, SeqFacts
  <1>4. PICK l \in Lits : l = c[1]
    BY <1>3
  <1>5. trail' = Append(KeptTrail(lev), l) /\ Enqueue(l, N, KeptTrail(lev))
    BY <1>0, <1>4 DEF Enqueue
  <1>6. /\ TrailOK(trail', trail_lim')
        /\ Len(trail') = Len(KeptTrail(lev)) + 1 /\ trail'[Len(trail')] = l
        /\ \A n \in 1..Len(KeptTrail(lev)) :
              trail'[n] = KeptTrail(lev)[n] /\ trail'[n] = trail[n] /\ n \in 1..Len(trail)
        /\ DOMAIN trail_lim' = 1..lev
        /\ AtLevel0 \subseteq AtLevel0'
    BY <1>1, <1>4, <1>5, JumpTrail
  <1>7. ASSUME NEW n \in 1..KeptHead(lev), -trail'[n] \in Heads(N)'
        PROVE  Excused(N, n)'
    <2>1. n \in 1..Len(KeptTrail(lev))
      BY <1>1, HeadFacts
    <2>2. /\ trail'[n] = trail[n] /\ n \in 1..Len(trail) /\ trail[n] \in Lits
          /\ KeptTrail(lev)[n] = trail[n]
      BY <1>1, <1>6, <2>1, TrailParts DEF TrailInv
    <2>3. -trail[n] # c[1]
      BY <2>1, <2>2, LitFacts
    <2>4. -trail[n] = c[2]
      BY <1>2, <1>7, <2>2, <2>3
    <2>5. level(var(trail[n])) = lev
      BY <2>2, <2>4, LitFacts
    <2>6. \A k \in 1..decisionLevel : trail_lim[k] < n <=> k <= lev
      BY <1>1, <2>2, <2>5, LevelFacts
    <2>7. \A k \in 1..lev : trail_lim'[k] < n
      <3> TAKE k \in 1..lev
      <3>1. k \in 1..decisionLevel /\ trail_lim'[k] = trail_lim[k]
        BY <1>1, KeptFacts
      <3> QED
        BY <2>6, <3>1
    <2>8. NoDecisionBetween(trail_lim', n, Len(trail'))
      BY <1>6, <2>7 DEF NoDecisionBetween
    <2>9. Len(trail') \in DOMAIN trail'
      BY <1>1, <1>6, HeadFacts, TrailParts
    <2>10. l \in LitsOf(N)'
      BY <1>2, <1>3, <1>4 DEF Elements
    <2> QED
      BY <1>6, <2>8, <2>9, <2>10 DEF Excused, ExcusedIn
  <1>8. TrailInv' /\ ReasonInv' /\ StageInv' /\ PropInv'
    <2>1. PICK f2 : f2 = First'
      OBVIOUS
    <2>2. /\ DOMAIN f2 = InUse \cup {N} /\ f2[N] = l
          /\ \A x \in InUse : f2[x] = ca[x].lits[1]
      BY <1>2, <1>4, <2>1 DEF First
    <2>3. ReasonsOK(reason, trail, f2)
      BY <1>1, <2>2, FirstTo
    <2>4. PICK from \in Int : from = N
      BY <1>2
    <2>5. \A x \in InUse' :
              \/ x \in InUse /\ LitsOf(x)' = LitsOf(x) /\ Heads(x)' = Heads(x)
              \/ \A n \in 1..KeptHead(lev) : -trail'[n] \in Heads(x)' => Excused(x, n)'
      BY <1>2, <1>7
    <2>6. /\ Enqueue(l, from, KeptTrail(lev)) /\ from \in DOMAIN f2 /\ f2[from] = l
          /\ \A n \in 1..Len(KeptTrail(lev)) : var(KeptTrail(lev)[n]) # var(l)
      BY <1>4, <1>5, <2>2, <2>4
    <2> QED
      BY <2>1, <2>3, <2>5, <2>6, JumpInv
  <1>9. FormulaInv'
    <2>1. \A x \in clauses : x \in clauses' /\ LitsOf(x)' = LitsOf(x)
      BY <1>2 DEF InUse
    <2>2. CASE learnt
      <3>1. clauses' = clauses /\ added' = added
        BY <1>2, <2>2
      <3> QED
        BY <1>1, <1>6, <2>1, <3>1, FormulaTo
    <2>3. CASE ~ learnt
      <3>1. PICK s : added' = added \cup {s} /\ Remains(Elements(c), AtLevel0', s)
        BY <2>3
      <3>2. clauses' = clauses \cup {N} /\ Remains(LitsOf(N)', AtLevel0', s)
        BY <1>2, <2>3, <3>1
      <3>3. Kept(s)'
        <4>1. N \in clauses'
          BY <3>2
        <4> QED
          BY <3>2, <4>1 DEF Kept
      <3>4. \A x \in clauses' : \/ \E cr \in clauses : LitsOf(x)' = LitsOf(cr)
                                \/ \E d \in added' : Remains(LitsOf(x)', AtLevel0', d)
        BY <2>1, <3>1, <3>2
      <3> QED
        BY <1>1, <1>6, <2>1, <3>1, <3>3, <3>4, FormulaTo
    <2> QED
      BY <2>2, <2>3
  <1> QED
    BY <1>2, <1>8, <1>9 DEF WInv

\* The literals of a finite set as the sequence of a clause.
LEMMA OrderedSeq ==
    ASSUME NEW T \in SUBSET Lits, IsFiniteSet(T)
    PROVE  /\ Ordered(T) \in Seq(Lits) /\ Len(Ordered(T)) \in Nat
           /\ Len(Ordered(T)) = Cardinality(T)
           /\ \A n \in 1..Len(Ordered(T)) : Ordered(T)[n] \in T
           /\ \A m, n \in 1..Len(Ordered(T)) : Ordered(T)[m] = Ordered(T)[n] => m = n
           /\ Elements(Ordered(T)) = T
  <1> DEFINE d == Ordered(T)
  <1>1. T \in SUBSET Int
    BY LitFacts
  <1>2. /\ Cardinality(T) \in Nat
        /\ d \in [1..Cardinality(T) -> T]
        /\ \A m, n \in 1..Cardinality(T) : d[m] = d[n] => m = n
        /\ {d[n] : n \in 1..Cardinality(T)} = T
    BY <1>1, OrderedFacts
  <1> HIDE DEF d
  <1>3. d \in [1..Cardinality(T) -> Lits]
    BY <1>2
  <1>4. d \in Seq(Lits)
    BY <1>2, <1>3, IsASeq
  <1>5. Len(d) \in Nat /\ DOMAIN d = 1..Len(d)
    BY <1>4, SeqFacts
  <1>6. Len(d) = Cardinality(T)
    BY <1>2, <1>3, <1>5
  <1>7. Elements(d) = T
    BY <1>2, <1>6 DEF Elements
  <1> QED
    BY <1>2, <1>4, <1>5, <1>6, <1>7 DEF d

\* Two literals put before others.
LEMMA PrependFacts ==
    ASSUME NEW q1 \in Lits, NEW q2 \in Lits, q1 # q2, NEW o \in Seq(Lits),
           \A m, n \in 1..Len(o) : o[m] = o[n] => m = n,
           \A n \in 1..Len(o) : o[n] # q1 /\ o[n] # q2
    PROVE  /\ <<q1, q2>> \o o \in Seq(Lits) /\ Len(<<q1, q2>> \o o) >= 2
           /\ (<<q1, q2>> \o o)[1] = q1 /\ (<<q1, q2>> \o o)[2] = q2
           /\ \A m, n \in 1..Len(<<q1, q2>> \o o) :
                 (<<q1, q2>> \o o)[m] = (<<q1, q2>> \o o)[n] => m = n
  <1> DEFINE h == <<q1, q2>>
             c == h \o o
             k == Len(o)
             I == 1..(2 + k)
  <1>1. h \in Seq(Lits) /\ Len(h) = 2 /\ h[1] = q1 /\ h[2] = q2
    OBVIOUS
  <1> HIDE DEF h
  <1>2. k \in Nat
    BY SeqFacts
  <1>3. /\ c \in Seq(Lits) /\ Len(c) = Len(h) + k
        /\ \A i \in 1..(Len(h) + k) : c[i] = IF i <= Len(h) THEN h[i] ELSE o[i - Len(h)]
    BY <1>1, ConcatProperties
  <1>4. Len(c) = 2 + k /\ \A i \in I : c[i] = IF i <= 2 THEN h[i] ELSE o[i - 2]
    BY <1>1, <1>3
  <1> HIDE DEF c, k
  <1>5. \A i \in I : i = 1 \/ i = 2 \/ (i - 2 \in 1..k /\ ~ (i <= 2))
    BY <1>2
  <1>6. 1 \in I /\ 2 \in I /\ 2 + k >= 2
    BY <1>2
  <1>7. \A i, j \in I : i - 2 = j - 2 => i = j
    BY <1>2
  <1> HIDE DEF I
  <1>8. c[1] = q1 /\ c[2] = q2
    BY <1>1, <1>4, <1>6
  <1>9. \A i \in I : \/ i = 1 /\ c[i] = q1
                     \/ i = 2 /\ c[i] = q2
                     \/ i - 2 \in 1..k /\ c[i] = o[i - 2]
    BY <1>4, <1>5, <1>8
  <1>10. \A i \in 1..k : o[i] # q1 /\ o[i] # q2
    BY DEF k
  <1>11. \A i, j \in 1..k : o[i] = o[j] => i = j
    BY DEF k
  <1>12. ASSUME NEW i \in I, NEW j \in I, c[i] = c[j]
         PROVE  i = j
    <2>1. CASE i = 1 /\ c[i] = q1
      BY <1>9, <1>10, <1>12, <2>1
    <2>2. CASE i = 2 /\ c[i] = q2
      BY <1>9, <1>10, <1>12, <2>2
    <2>3. CASE i - 2 \in 1..k /\ c[i] = o[i - 2]
      <3>1. j - 2 \in 1..k /\ c[j] = o[j - 2]
        BY <1>9, <1>10, <1>12, <2>3
      <3>2. i - 2 = j - 2
        BY <1>11, <1>12, <2>3, <3>1
      <3> QED
        BY <1>7, <3>2
    <2> QED
      BY <1>9, <2>1, <2>2, <2>3
  <1>13. 1..Len(c) = I
    BY <1>4 DEF I
  <1>14. \A i, j \in 1..Len(c) : c[i] = c[j] => i = j
    BY <1>12, <1>13
  <1>15. c \in Seq(Lits) /\ Len(c) >= 2
    BY <1>3, <1>4, <1>6
  <1> QED
    BY <1>8, <1>14, <1>15 DEF c, h

LEMMA PairFacts ==
    ASSUME NEW q1 \in Lits, NEW q2 \in Lits \ {q1}, NEW c, c = <<q1, q2>>
    PROVE  /\ c \in Seq(Lits) /\ Len(c) >= 2 /\ c[1] = q1 /\ c[2] = q2
           /\ \A m, n \in 1..Len(c) : c[m] = c[n] => m = n
           /\ Elements(c) = {q1, q2}
  <1>1. c \in Seq(Lits) /\ Len(c) = 2 /\ c[1] = q1 /\ c[2] = q2
    OBVIOUS
  <1>2. \A n \in 1..2 : n = 1 \/ n = 2
    OBVIOUS
  <1>3. 1 \in 1..2 /\ 2 \in 1..2
    OBVIOUS
  <1>4. Elements(c) = {q1, q2}
    BY <1>1, <1>2, <1>3 DEF Elements
  <1> QED
    BY <1>1, <1>2, <1>4

\* A false literal of a level above the one gone back to leaves the trail.
LEMMA Undone ==
    ASSUME TrailInv, NEW l \in Lits, IsFalse(l), NEW lev \in 0..decisionLevel,
           lev < level(var(l))
    PROVE  \A n \in 1..Len(KeptTrail(lev)) : var(KeptTrail(lev)[n]) # var(l)
  <1>1. PICK m \in 1..Len(trail) : -trail[m] = l
    BY FalseAt
  <1>2. /\ \A n \in 1..Len(trail) : trail[n] \in Lits
        /\ \A i, j \in 1..Len(trail) : var(trail[i]) = var(trail[j]) => i = j
        /\ decisionLevel \in Nat
    BY TrailParts DEF TrailInv, decisionLevel
  <1>3. var(l) = var(trail[m])
    BY <1>1, <1>2, LitFacts
  <1>4. ASSUME NEW n \in 1..Len(KeptTrail(lev)), var(KeptTrail(lev)[n]) = var(l)
        PROVE  FALSE
    <2>1. n \in 1..Len(trail) /\ KeptTrail(lev)[n] = trail[n]
      BY KeptFacts
    <2>2. n = m
      BY <1>2, <1>3, <1>4, <2>1
    <2>3. level(var(trail[n])) <= lev /\ level(var(trail[n])) \in 0..decisionLevel
      <3>1. n <= Len(KeptTrail(lev))
        BY HeadFacts, KeptFacts
      <3> QED
        BY <2>1, <3>1, KeptFacts, LevelFacts
    <2> QED
      BY <1>2, <1>3, <2>2, <2>3
  <1> QED
    BY <1>4

LEMMA LearnInv ==
    ASSUME WInv, Learn
    PROVE  WInv'
  <1>1. PICK S \in Learnable : LearntFrom(S)
    BY DEF Learn
  <1>2. pc = "conflict" /\ pc' = "enqueued" /\ UNCHANGED <<todo, confl, skipped, ok, added>>
    BY DEF Learn
  <1>3. S \in SUBSET Lits /\ IsFiniteSet(S)
    BY ClausesAssumption
  <1>4. TrailInv /\ StageInv /\ 0 < decisionLevel /\ 0 \in 0..decisionLevel /\ decisionLevel \in Nat
    <2>1. TrailInv /\ StageInv /\ trail_lim # <<>>
      BY <1>2 DEF WInv, StageInv
    <2>2. decisionLevel \in Nat /\ decisionLevel # 0
      BY <2>1, TrailParts, EmptySeq DEF TrailInv, decisionLevel
    <2> QED
      BY <2>1, <2>2
  <1>5. \A q \in S : IsFalse(q) /\ level(var(q)) \in 0..decisionLevel
    <2> TAKE q \in S
    <2>1. IsFalse(q) /\ q \in Lits
      BY <1>1, <1>3 DEF LearntFrom
    <2>2. PICK n \in 1..Len(trail) : -trail[n] = q
      BY <1>4, <2>1, FalseAt
    <2>3. var(trail[n]) = var(q)
      BY <1>4, <2>2, TrailParts, LitFacts DEF TrailInv
    <2> QED
      BY <1>4, <2>1, <2>3, LevelFacts
  <1>6. PICK first \in S :
          /\ level(var(first)) = decisionLevel
          /\ IF S \ {first} = {}
             THEN /\ Enqueue(first, CRef_Undef, KeptTrail(0))
                  /\ trail_lim' = <<>> /\ qhead' = KeptHead(0) /\ UNCHANGED db
             ELSE \E second \in SecondHighest(S \ {first}), lev \in {level(var(m)) : m \in S \ {first}} :
                  /\ \A m \in S \ {first} : level(var(m)) <= lev /\ lev < decisionLevel
                  /\ Allocate(<<first, second>> \o Ordered((S \ {first}) \ {second}), TRUE)
                  /\ Enqueue(first, Len(ca) + 1, KeptTrail(lev))
                  /\ trail_lim' = KeptLims(lev) /\ qhead' = KeptHead(lev)
    BY <1>1 DEF LearntFrom
  <1>7. first \in Lits /\ IsFalse(first)
    BY <1>3, <1>5
  <1>8. CASE S \ {first} = {}
    <2>1. \A n \in 1..Len(KeptTrail(0)) : var(KeptTrail(0)[n]) # var(first)
      BY <1>4, <1>6, <1>7, Undone
    <2>2. KeptLims(0) = <<>>
      BY <1>4, KeptFacts, TrailParts, EmptySeq
    <2> QED
      BY <1>2, <1>4, <1>6, <1>7, <1>8, <2>1, <2>2, JumpUnitInv
  <1>9. CASE S \ {first} # {}
    <2>1. PICK second \in SecondHighest(S \ {first}), lev \in {level(var(m)) : m \in S \ {first}} :
                  /\ \A m \in S \ {first} : level(var(m)) <= lev /\ lev < decisionLevel
                  /\ Allocate(<<first, second>> \o Ordered((S \ {first}) \ {second}), TRUE)
                  /\ Enqueue(first, Len(ca) + 1, KeptTrail(lev))
                  /\ trail_lim' = KeptLims(lev) /\ qhead' = KeptHead(lev)
      BY <1>6, <1>9
    <2>2. /\ second \in S \ {first}
          /\ \A m \in S \ {first} : level(var(m)) <= level(var(second))
      BY DEF SecondHighest
    <2>3. PICK x \in S \ {first} : lev = level(var(x))
      BY <2>1
    <2>4. /\ level(var(second)) = lev /\ lev \in 0..decisionLevel /\ lev < decisionLevel
          /\ lev < level(var(first))
      <3>1. lev <= level(var(second)) /\ level(var(second)) <= lev /\ lev < decisionLevel
        BY <2>1, <2>2, <2>3
      <3>2. lev \in 0..decisionLevel /\ level(var(second)) \in 0..decisionLevel
        BY <1>5, <2>2, <2>3
      <3> QED
        BY <1>4, <1>6, <3>1, <3>2
    <2>5. PICK T : T = (S \ {first}) \ {second}
      OBVIOUS
    <2>6. PICK c : c = <<first, second>> \o Ordered(T)
      OBVIOUS
    <2>7. /\ c \in Seq(Lits) /\ Len(c) >= 2 /\ c[1] = first /\ c[2] = second
          /\ \A i, j \in 1..Len(c) : c[i] = c[j] => i = j
      <3>1. T \in SUBSET S /\ first \notin T /\ second \notin T
        BY <2>5
      <3>2. T \in SUBSET Lits /\ IsFiniteSet(T)
        BY <1>3, <3>1, FS_Subset
      <3>3. PICK o : o = Ordered(T)
        OBVIOUS
      <3>4. /\ o \in Seq(Lits)
            /\ \A n \in 1..Len(o) : o[n] \in T
            /\ \A m, n \in 1..Len(o) : o[m] = o[n] => m = n
        BY <3>2, <3>3, OrderedSeq
      <3>5. \A n \in 1..Len(o) : o[n] # first /\ o[n] # second
        BY <3>1, <3>4
      <3>6. first \in Lits /\ second \in Lits /\ first # second
        BY <1>3, <2>2
      <3>7. /\ <<first, second>> \o o \in Seq(Lits) /\ Len(<<first, second>> \o o) >= 2
            /\ (<<first, second>> \o o)[1] = first /\ (<<first, second>> \o o)[2] = second
            /\ \A m, n \in 1..Len(<<first, second>> \o o) :
                 (<<first, second>> \o o)[m] = (<<first, second>> \o o)[n] => m = n
        BY <3>4, <3>5, <3>6, PrependFacts
      <3> QED
        BY <2>6, <3>3, <3>7
    <2>8. \A n \in 1..Len(KeptTrail(lev)) : var(KeptTrail(lev)[n]) # var(first)
      BY <1>4, <1>7, <2>4, Undone
    <2>9. /\ Allocate(c, TRUE) /\ Enqueue(c[1], Len(ca) + 1, KeptTrail(lev))
          /\ trail_lim' = KeptLims(lev) /\ qhead' = KeptHead(lev)
          /\ level(var(c[2])) = lev
          /\ \A n \in 1..Len(KeptTrail(lev)) : var(KeptTrail(lev)[n]) # var(c[1])
      BY <2>1, <2>4, <2>5, <2>6, <2>7, <2>8
    <2>10. PICK learnt \in BOOLEAN : learnt = TRUE
      OBVIOUS
    <2>11. Allocate(c, learnt)
      BY <2>9, <2>10
    <2> QED
      BY <1>2, <2>4, <2>7, <2>9, <2>10, <2>11, JumpClauseInv
  <1> QED
    BY <1>8, <1>9

LEMMA SplitInv ==
    ASSUME WInv, Split
    PROVE  WInv'
  <1>1. PICK s \in Splits :
          /\ added' = added \cup {s}
          /\ \E l1 \in s : \E l2 \in s \ {l1} : SplitFree(l1, l2) \/ SplitImplied(l1, l2)
    BY DEF Split
  <1>2. pc = "idle" /\ UNCHANGED <<todo, confl, skipped, ok>>
    BY DEF Split
  <1>3. PICK l1 \in s : \E l2 \in s \ {l1} : SplitFree(l1, l2) \/ SplitImplied(l1, l2)
    BY <1>1
  <1>4. PICK l2 \in s \ {l1} : SplitFree(l1, l2) \/ SplitImplied(l1, l2)
    BY <1>3
  <1>5. l1 \in Lits /\ l2 \in Lits \ {l1} /\ s = {l1, l2}
    BY ClausesAssumption
  <1>6. PICK c : c = <<l1, l2>>
    OBVIOUS
  <1>7. /\ c \in Seq(Lits) /\ Len(c) >= 2 /\ c[1] = l1 /\ c[2] = l2
        /\ \A m, n \in 1..Len(c) : c[m] = c[n] => m = n
        /\ Elements(c) = s
    BY <1>5, <1>6, PairFacts
  <1>8. \A A : Remains(Elements(c), A, s)
    BY <1>7 DEF Remains
  <1>9. TrailInv /\ 0 \in 0..decisionLevel /\ decisionLevel \in Nat
    BY TrailParts DEF WInv, TrailInv, decisionLevel
  <1>10. CASE SplitFree(l1, l2)
    <2>1. /\ ~ IsFalse(c[1]) /\ ~ IsFalse(c[2]) /\ Allocate(c, FALSE)
          /\ UNCHANGED <<trail, trail_lim, reason, qhead, pc>>
      BY <1>6, <1>7, <1>10 DEF SplitFree, Free, assignment
    <2>2. Remains(Elements(c), AtLevel0, s)
      BY <1>8
    <2> QED
      BY <1>1, <1>2, <1>7, <2>1, <2>2, AttachInv
  <1>11. CASE SplitImplied(l1, l2)
    <2>1. PICK lev : lev = level(var(l2))
      OBVIOUS
    <2>2. /\ IsFalse(l2) /\ Free(l1)
          /\ trail_lim' = KeptLims(lev) /\ qhead' = KeptHead(lev)
          /\ IF lev = 0
             THEN Enqueue(l1, CRef_Undef, KeptTrail(0)) /\ UNCHANGED db
             ELSE /\ Allocate(<<l1, l2>>, FALSE)
                  /\ Enqueue(l1, Len(ca) + 1, KeptTrail(lev))
          /\ pc' = "enqueued"
      BY <1>11, <2>1 DEF SplitImplied, SplitLevel
    <2>3. lev \in 0..decisionLevel
      <3>1. PICK n \in 1..Len(trail) : -trail[n] = l2
        BY <1>5, <1>9, <2>2, FalseAt
      <3>2. var(trail[n]) = var(l2)
        BY <1>9, <3>1, TrailParts, LitFacts DEF TrailInv
      <3> QED
        BY <1>9, <2>1, <3>2, LevelFacts
    <2>4. \A n \in 1..Len(KeptTrail(lev)) : var(KeptTrail(lev)[n]) # var(l1)
      <3>1. \A n \in 1..Len(trail) : var(trail[n]) # var(l1)
        BY <1>5, <1>9, <2>2, ValueFacts
      <3> QED
        BY <1>9, <2>3, <3>1, KeptFacts
    <2>5. CASE lev = 0
      BY <1>1, <1>2, <1>5, <2>2, <2>4, <2>5, JumpUnitInv
    <2>6. CASE lev # 0
      <3>1. PICK learnt \in BOOLEAN : learnt = FALSE
        OBVIOUS
      <3>2. /\ Allocate(c, learnt) /\ Enqueue(c[1], Len(ca) + 1, KeptTrail(lev))
            /\ level(var(c[2])) = lev
            /\ \A n \in 1..Len(KeptTrail(lev)) : var(KeptTrail(lev)[n]) # var(c[1])
        BY <1>6, <1>7, <2>1, <2>2, <2>4, <2>6, <3>1
      <3>3. added' = added \cup {s} /\ Remains(Elements(c), AtLevel0', s)
        BY <1>1, <1>8
      <3> QED
        BY <1>2, <1>7, <2>2, <2>3, <3>1, <3>2, <3>3, JumpClauseInv
    <2> QED
      BY <2>5, <2>6
  <1> QED
    BY <1>4, <1>10, <1>11

-----------------------------------------------------------------------------
(* Clauses are deleted, and the arena may be relocated. *)

\* The clauses in live stay, each under the reference "to" gives it.
Renamed(live, to) ==
  /\ live \in SUBSET InUse /\ to \in [live -> Nat \ {0}]
  /\ InUse' = {to[x] : x \in live} /\ clauses' = {to[x] : x \in clauses \cap live}
  /\ \A x \in live : /\ LitsOf(to[x])' = LitsOf(x) /\ Heads(to[x])' = Heads(x)
                     /\ ca'[to[x]].lits[1] = ca[x].lits[1]
  /\ \A x \in live : \A l \in Lits : \A y :
        y \in watches'[l] /\ y.cref = to[x] <=>
           \E w \in watches[l] : w.cref = x /\ y = Watcher(to[x], w.blocker)
  /\ reason' \in [Vars -> Int]
  /\ \A n \in 1..Len(trail) : reason'[var(trail[n])] > 0 =>
        \E x \in live : reason'[var(trail[n])] = to[x] /\ ca[x].lits[1] = trail[n]

\* The others are not needed, and the search stands where it stood.
MayGo(gone) == \A cr \in clauses \cap gone : \E q \in LitsOf(cr) : q \in AtLevel0
SearchStays == pc = "idle" /\ UNCHANGED <<trail, trail_lim, qhead, todo, confl, skipped, ok, added, pc>>

LEMMA RenamedInv ==
    ASSUME WInv, SearchStays, NEW live, NEW to, Renamed(live, to), MayGo(InUse \ live),
           DbInv', ListsClean'
    PROVE  WInv'
  <1>0. /\ live \in SUBSET InUse /\ to \in [live -> Nat \ {0}]
        /\ InUse' = {to[x] : x \in live} /\ clauses' = {to[x] : x \in clauses \cap live}
        /\ \A x \in live : /\ LitsOf(to[x])' = LitsOf(x) /\ Heads(to[x])' = Heads(x)
                           /\ ca'[to[x]].lits[1] = ca[x].lits[1]
        /\ pc = "idle" /\ UNCHANGED <<trail, trail_lim, qhead, todo, confl, skipped, ok, added, pc>>
    BY DEF Renamed, SearchStays
  <1>1. WatchInv /\ TrailInv /\ StageInv /\ PropInv /\ FormulaInv
    BY DEF WInv
  <1>2. AtLevel0' = AtLevel0 /\ Visited' = Visited
    BY <1>0 DEF AtLevel0, Visited, Broken
  <1>3. WatchInv'
    <2> SUFFICES ASSUME NEW x \in live, NEW l \in Lits
                 PROVE  IF -l \in Heads(to[x])'
                        THEN \E b \in LitsOf(to[x])' \ {-l} : Watching(to[x], l)' = {Watcher(to[x], b)}
                        ELSE Watching(to[x], l)' = {}
      BY <1>0 DEF WatchInv, Watcher
    <2>1. x \in InUse /\ Heads(to[x])' = Heads(x) /\ LitsOf(to[x])' = LitsOf(x)
      BY <1>0
    <2>2. \A y : y \in Watching(to[x], l)' <=>
                    \E w \in Watching(x, l) : y = Watcher(to[x], w.blocker)
      BY DEF Watching, Renamed
    <2>3. CASE -l \in Heads(x)
      <3>1. PICK b \in LitsOf(x) \ {-l} : Watching(x, l) = {Watcher(x, b)}
        BY <1>1, <2>1, <2>3 DEF WatchInv
      <3>2. Watcher(x, b).blocker = b
        BY DEF Watcher
      <3>3. \A y : y \in Watching(to[x], l)' <=> y = Watcher(to[x], b)
        BY <2>2, <3>1, <3>2
      <3>4. Watching(to[x], l)' = {Watcher(to[x], b)}
        BY <3>3
      <3> QED
        BY <2>1, <2>3, <3>4
    <2>4. CASE -l \notin Heads(x)
      <3>1. Watching(x, l) = {}
        BY <1>1, <2>1, <2>4 DEF WatchInv
      <3>2. Watching(to[x], l)' = {}
        BY <2>2, <3>1
      <3> QED
        BY <2>1, <2>4, <3>2
    <2> QED
      BY <2>3, <2>4
  <1>4. TrailInv'
    BY <1>0, <1>1 DEF TrailInv
  <1>5. ReasonInv'
    <2>1. DOMAIN trail = 1..Len(trail)
      BY <1>1, TrailParts DEF TrailInv
    <2>2. PICK f2 : f2 = First'
      OBVIOUS
    <2>3. \A x \in live : to[x] \in DOMAIN f2 /\ f2[to[x]] = ca[x].lits[1]
      BY <1>0, <2>2 DEF First
    <2>4. ReasonsOK(reason', trail, f2)
      BY <2>1, <2>3 DEF ReasonsOK, Renamed
    <2> QED
      BY <1>0, <2>2, <2>4 DEF ReasonInv
  <1>6. StageInv'
    BY <1>0, <1>1 DEF StageInv
  <1>7. PropInv'
    <2> SUFFICES ASSUME ok, NEW x \in live, NEW n \in Visited, -trail[n] \in Heads(to[x])'
                 PROVE  Excused(to[x], n)'
      BY <1>0, <1>2 DEF PropInv
    <2>1. x \in InUse /\ -trail[n] \in Heads(x) /\ todo = {}
      BY <1>0, <1>1 DEF StageInv
    <2>2. Excused(x, n)
      BY <1>1, <2>1 DEF PropInv
    <2> QED
      BY <1>0, <2>2 DEF Excused
  <1>8. FormulaInv'
    <2>1. ASSUME NEW cr \in clauses
          PROVE  \/ \E x \in clauses' : LitsOf(x)' = LitsOf(cr)
                 \/ \E q \in LitsOf(cr) : q \in AtLevel0'
      <3>1. CASE cr \in live
        <4>1. to[cr] \in clauses' /\ LitsOf(to[cr])' = LitsOf(cr)
          BY <1>0, <3>1
        <4> QED
          BY <4>1
      <3>2. CASE cr \notin live
        BY <1>0, <1>2, <3>2 DEF MayGo, InUse
      <3> QED
        BY <3>1, <3>2
    <2>2. ASSUME NEW x \in clauses'
          PROVE  \E cr \in clauses : LitsOf(x)' = LitsOf(cr)
      <3>1. PICK cr \in clauses \cap live : x = to[cr]
        BY <1>0
      <3>2. LitsOf(to[cr])' = LitsOf(cr)
        BY <1>0
      <3>3. LitsOf(x)' = LitsOf(to[cr])'
        BY <3>1 DEF LitsOf
      <3> QED
        BY <3>2, <3>3
    <2> QED
      BY <1>0, <1>1, <1>2, <2>1, <2>2, FormulaTo
  <1> QED
    BY <1>3, <1>4, <1>5, <1>6, <1>7, <1>8 DEF WInv

\* The references relocAll keeps.
Live(a, w, r, cs, ls) ==
  {x.cref : x \in UNION {w[l] : l \in Lits}}
    \cup ({r[var(trail[n])] : n \in DOMAIN trail}
            \cap {cr \in DOMAIN a : IsTrue(a[cr].lits[1]) /\ r[var(a[cr].lits[1])] = cr})
    \cup cs \cup ls

\* They are numbered from 1, and everything follows.
Numbered(to, a, w, r, cs, ls, live, N) ==
  /\ N \in Nat /\ to \in [live -> 1..N]
  /\ \A x, y \in live : to[x] = to[y] => x = y
  /\ \A n \in 1..N : \E x \in live : to[x] = n
  /\ ca' = [n \in 1..N |-> ca'[n]] /\ \A x \in live : ca'[to[x]] = a[x]
  /\ watches' = [l \in Lits |-> watches'[l]]
  /\ \A l \in Lits : \A y : y \in watches'[l] <=>
        \E x \in w[l] : x.cref \in live /\ y = Watcher(to[x.cref], x.blocker)
  /\ reason' = [v \in Vars |-> reason'[v]]
  /\ \A v \in Vars : reason'[v] = IF r[v] \in live /\ (IsTrue(v) \/ IsFalse(v))
                                  THEN to[r[v]] ELSE r[v]
  /\ clauses' = {to[x] : x \in cs} /\ learnts' = {to[x] : x \in ls}

LEMMA CollectedTo ==
    ASSUME NEW a, NEW w, NEW r, NEW cs, NEW ls, Collected(a, w, r, cs, ls),
           NEW live \in SUBSET Int, IsFiniteSet(live), live = Live(a, w, r, cs, ls),
           NEW N, N = Cardinality(live)
    PROVE  \E to : Numbered(to, a, w, r, cs, ls, live, N)
  <1>1. /\ ca' = [n \in 1..Cardinality(Live(a, w, r, cs, ls)) |->
                    a[CHOOSE cr \in Live(a, w, r, cs, ls) : Rank(Live(a, w, r, cs, ls), cr) = n]]
        /\ watches' = [l \in Lits |->
             {Watcher(Rank(Live(a, w, r, cs, ls), x.cref), x.blocker) : x \in w[l]}]
        /\ reason' = [v \in Vars |->
             IF r[v] \in Live(a, w, r, cs, ls) /\ (IsTrue(v) \/ IsFalse(v))
             THEN Rank(Live(a, w, r, cs, ls), r[v]) ELSE r[v]]
        /\ clauses' = {Rank(Live(a, w, r, cs, ls), cr) : cr \in cs}
        /\ learnts' = {Rank(Live(a, w, r, cs, ls), cr) : cr \in ls}
    BY DEF Collected, Live, Rank
  <1>2. /\ \A l \in Lits : \A x \in w[l] : x.cref \in live
        /\ cs \subseteq live /\ ls \subseteq live
    BY DEF Live
  <1>3. /\ N \in Nat
        /\ \A x \in live : Rank(live, x) \in 1..N
        /\ \A x, y \in live : x < y => Rank(live, x) < Rank(live, y)
        /\ \A n \in 1..N : \E x \in live : Rank(live, x) = n
    BY RankFacts
  <1>4. PICK to : to = [x \in live |-> Rank(live, x)]
    OBVIOUS
  <1>5. to \in [live -> 1..N] /\ \A x \in live : to[x] = Rank(live, x)
    BY <1>3, <1>4
  <1>6. \A x, y \in live : Rank(live, x) = Rank(live, y) => x = y
    <2> TAKE x, y \in live
    <2>1. x < y \/ y < x \/ x = y
      OBVIOUS
    <2>2. Rank(live, x) \in Int /\ Rank(live, y) \in Int
      BY <1>3
    <2> QED
      BY <1>3, <2>1, <2>2
  <1>7. ca' = [n \in 1..N |-> a[CHOOSE cr \in live : Rank(live, cr) = n]]
    BY <1>1
  <1>8. ca' = [n \in 1..N |-> ca'[n]] /\ \A x \in live : ca'[to[x]] = a[x]
    <2>1. \A x \in live : (CHOOSE cr \in live : Rank(live, cr) = Rank(live, x)) = x
      BY <1>6
    <2>2. \A n \in 1..N : ca'[n] = a[CHOOSE cr \in live : Rank(live, cr) = n]
      BY <1>7
    <2>3. \A x \in live : ca'[to[x]] = a[x]
      BY <1>3, <1>5, <2>1, <2>2
    <2>4. ca' = [n \in 1..N |-> ca'[n]]
      BY <1>7
    <2> QED
      BY <2>3, <2>4
  <1>9. watches' = [l \in Lits |-> {Watcher(Rank(live, x.cref), x.blocker) : x \in w[l]}]
    BY <1>1
  <1>10. /\ watches' = [l \in Lits |-> watches'[l]]
         /\ \A l \in Lits : \A y : y \in watches'[l] <=>
               \E x \in w[l] : x.cref \in live /\ y = Watcher(to[x.cref], x.blocker)
    <2>1. watches' = [l \in Lits |-> watches'[l]]
      BY <1>9
    <2>2. \A l \in Lits : watches'[l] = {Watcher(Rank(live, x.cref), x.blocker) : x \in w[l]}
      BY <1>9
    <2>3. \A l \in Lits : \A x \in w[l] : x.cref \in live /\ to[x.cref] = Rank(live, x.cref)
      BY <1>2, <1>5
    <2>4. ASSUME NEW l \in Lits, NEW y
          PROVE  y \in watches'[l] <=>
                   \E x \in w[l] : x.cref \in live /\ y = Watcher(to[x.cref], x.blocker)
      <3>1. y \in watches'[l] <=> \E x \in w[l] : y = Watcher(Rank(live, x.cref), x.blocker)
        BY <2>2
      <3> QED
        BY <2>3, <3>1
    <2> QED
      BY <2>1, <2>4
  <1>11. /\ reason' = [v \in Vars |-> reason'[v]]
         /\ \A v \in Vars : reason'[v] = IF r[v] \in live /\ (IsTrue(v) \/ IsFalse(v))
                                         THEN to[r[v]] ELSE r[v]
    BY <1>1, <1>5
  <1>12. clauses' = {to[x] : x \in cs} /\ learnts' = {to[x] : x \in ls}
    BY <1>1, <1>2, <1>5
  <1>13. /\ \A x, y \in live : to[x] = to[y] => x = y
         /\ \A n \in 1..N : \E x \in live : to[x] = n
    BY <1>3, <1>5, <1>6
  <1>14. N \in Nat /\ to \in [live -> 1..N]
    BY <1>3, <1>5
  <1>15. Numbered(to, a, w, r, cs, ls, live, N)
    BY <1>8, <1>10, <1>11, <1>12, <1>13, <1>14, Zenon DEF Numbered
  <1> QED
    BY <1>15

\* The reasons of the trail are none of the deleted clauses.
LEMMA ReasonsLeft ==
    ASSUME TrailInv, ReasonInv, NEW R \in SUBSET InUse
    PROVE  /\ ReasonsWithout(R) \in [Vars -> Int]
           /\ \A n \in 1..Len(trail) : ReasonsWithout(R)[var(trail[n])] > 0 =>
                 /\ ReasonsWithout(R)[var(trail[n])] \in InUse \ R
                 /\ ca[ReasonsWithout(R)[var(trail[n])]].lits[1] = trail[n]
  <1> DEFINE r == ReasonsWithout(R)
  <1>1. /\ DOMAIN trail = 1..Len(trail)
        /\ \A n \in 1..Len(trail) : trail[n] \in Lits /\ var(trail[n]) \in Vars
    BY TrailParts, LitFacts DEF TrailInv
  <1>2. r \in [Vars -> Int]
    BY DEF ReasonsWithout, ReasonInv, ReasonsOK, CRef_Undef
  <1>3. ASSUME NEW n \in 1..Len(trail), r[var(trail[n])] > 0
        PROVE  r[var(trail[n])] \in InUse \ R /\ ca[r[var(trail[n])]].lits[1] = trail[n]
    <2>1. ~ \E cr \in R : locked(cr) /\ var(ca[cr].lits[1]) = var(trail[n])
      BY <1>1, <1>3 DEF ReasonsWithout, CRef_Undef
    <2>2. r[var(trail[n])] = reason[var(trail[n])]
      BY <1>1, <2>1 DEF ReasonsWithout
    <2>3. PICK cr : cr = reason[var(trail[n])]
      OBVIOUS
    <2>4. cr \in InUse /\ ca[cr].lits[1] = trail[n]
      BY <1>1, <1>3, <2>2, <2>3 DEF ReasonInv, ReasonsOK, First
    <2>5. locked(cr)
      BY <1>1, <2>3, <2>4 DEF locked, IsTrue, Assigned
    <2> QED
      BY <2>1, <2>2, <2>3, <2>4, <2>5
  <1> QED
    BY <1>2, <1>3

\* The lists hold no other watchers of deleted clauses than the smudged ones.
LEMMA ListsLeft ==
    ASSUME DbInv, WatchInv, ListsClean, NEW R \in SUBSET InUse, NEW l \in Lits,
           l \notin dirties \cup UNION {Smudged(cr) : cr \in R}, NEW x \in watches[l]
    PROVE  x.cref \in InUse \ R
  <1>1. x.cref \in InUse
    BY DEF ListsClean
  <1>2. ASSUME x.cref \in R
        PROVE  FALSE
    <2>1. -l \in Heads(x.cref)
      BY <1>1, WatcherFacts
    <2>2. /\ ca[x.cref].lits[1] \in Lits /\ ca[x.cref].lits[2] \in Lits
      BY <1>1, ClauseFacts DEF Heads
    <2>3. l \in Smudged(x.cref)
      <3>1. CASE -l = ca[x.cref].lits[1]
        BY <3>1, LitFacts DEF Smudged
      <3>2. CASE -l = ca[x.cref].lits[2]
        BY <3>2, LitFacts DEF Smudged
      <3> QED
        BY <2>1, <3>1, <3>2 DEF Heads
    <2> QED
      BY <1>2, <2>3
  <1> QED
    BY <1>1, <1>2

\* The clauses that stay, in the arena with the marks of the deleted ones.
LEMMA MarkedFacts ==
    ASSUME DbInv, NEW R \in SUBSET InUse
    PROVE  /\ MarkedAll(R) \in Seq(Clauses) /\ DOMAIN MarkedAll(R) = DOMAIN ca
           /\ \A x \in DOMAIN ca : /\ MarkedAll(R)[x].lits = ca[x].lits
                                   /\ MarkedAll(R)[x].mark = 0 <=> x \in InUse \ R
           /\ \A x \in InUse \ R : MarkedAll(R)[x] = ca[x]
  <1> DEFINE a == MarkedAll(R)
  <1>1. /\ ca \in Seq(Clauses) /\ DOMAIN ca = 1..Len(ca) /\ Len(ca) \in Nat
        /\ \A x \in 1..Len(ca) : ca[x] \in Clauses
    BY SeqFacts DEF DbInv
  <1>2. InUse \subseteq 1..Len(ca)
    BY <1>1 DEF DbInv, InUse
  <1>3. a = [x \in 1..Len(ca) |-> IF x \in R THEN [ca[x] EXCEPT !.mark = 1] ELSE ca[x]]
    BY <1>1 DEF MarkedAll
  <1>4. ASSUME NEW x \in 1..Len(ca)
        PROVE  /\ a[x] \in Clauses /\ a[x].lits = ca[x].lits
               /\ a[x].mark = 0 <=> x \in InUse \ R
               /\ x \notin R => a[x] = ca[x]
    <2>1. ca[x] \in Clauses /\ (ca[x].mark = 0 <=> x \in InUse)
      BY <1>1 DEF DbInv
    <2>2. CASE x \in R
      <3>1. a[x] = [ca[x] EXCEPT !.mark = 1]
        BY <1>3, <2>2
      <3>2. a[x] \in Clauses /\ a[x].lits = ca[x].lits /\ a[x].mark = 1
        BY <2>1, <3>1 DEF Clauses
      <3> QED
        BY <2>2, <3>2
    <2>3. CASE x \notin R
      BY <1>3, <2>1, <2>3
    <2> QED
      BY <2>2, <2>3
  <1>5. a \in Seq(Clauses) /\ DOMAIN a = DOMAIN ca
    <2>1. a \in [1..Len(ca) -> Clauses]
      BY <1>3, <1>4
    <2> QED
      BY <1>1, <2>1, IsASeq
  <1> HIDE DEF a
  <1>6. /\ \A x \in DOMAIN ca : a[x].lits = ca[x].lits /\ (a[x].mark = 0 <=> x \in InUse \ R)
        /\ \A x \in InUse \ R : a[x] = ca[x]
    BY <1>1, <1>2, <1>4
  <1> QED
    BY <1>5, <1>6 DEF a

\* The arena stays where it is.
MarkedOnly(R) ==
  /\ ca' = MarkedAll(R) /\ clauses' = clauses \ R /\ learnts' = learnts \ R
  /\ reason' = ReasonsWithout(R)
  /\ dirties' = dirties \cup UNION {Smudged(cr) : cr \in R} /\ UNCHANGED watches

LEMMA MarkedInv ==
    ASSUME WInv, SearchStays, NEW R \in SUBSET InUse, MayGo(R), MarkedOnly(R)
    PROVE  WInv'
  <1>0. /\ ca' = MarkedAll(R) /\ clauses' = clauses \ R /\ learnts' = learnts \ R
        /\ reason' = ReasonsWithout(R)
        /\ dirties' = dirties \cup UNION {Smudged(cr) : cr \in R} /\ UNCHANGED watches
    BY DEF MarkedOnly
  <1>1. DbInv /\ TrailInv /\ WatchInv /\ ListsClean /\ ReasonInv
    BY DEF WInv
  <1>2. PICK live : live = InUse \ R
    OBVIOUS
  <1>3. /\ live \subseteq DOMAIN ca /\ DOMAIN ca = 1..Len(ca)
        /\ watches \in [Lits -> SUBSET [cref : DOMAIN ca, blocker : Lits]]
    BY <1>1, <1>2, SeqFacts DEF DbInv, InUse
  <1>4. PICK a : a = MarkedAll(R)
    OBVIOUS
  <1>5. /\ a \in Seq(Clauses) /\ DOMAIN a = DOMAIN ca
        /\ \A x \in DOMAIN ca : /\ a[x].lits = ca[x].lits
                                /\ a[x].mark = 0 <=> x \in live
        /\ \A x \in live : a[x] = ca[x]
    <2>1. /\ a \in Seq(Clauses) /\ DOMAIN a = DOMAIN ca
          /\ \A x \in DOMAIN ca : /\ a[x].lits = ca[x].lits
                                  /\ a[x].mark = 0 <=> x \in InUse \ R
          /\ \A x \in InUse \ R : a[x] = ca[x]
      BY <1>1, <1>4, MarkedFacts
    <2> QED
      BY <1>2, <2>1
  <1>6. ca' = a /\ InUse' = live
    BY <1>0, <1>2, <1>4 DEF InUse
  <1>7. DbInv'
    <2>1. /\ clauses' \subseteq DOMAIN ca' /\ learnts' \subseteq DOMAIN ca' /\ clauses' \cap learnts' = {}
          /\ watches' \in [Lits -> SUBSET [cref : DOMAIN ca', blocker : Lits]]
      BY <1>0, <1>1, <1>5, <1>6 DEF DbInv
    <2>2. dirties' \subseteq Lits
      <3>1. ASSUME NEW cr \in R
            PROVE  Smudged(cr) \subseteq Lits
        <4>1. ca[cr].lits[1] \in Lits /\ ca[cr].lits[2] \in Lits
          BY <1>1, ClauseFacts DEF Heads
        <4> QED
          BY <4>1, LitFacts DEF Smudged
      <3> QED
        BY <1>0, <1>1, <3>1 DEF DbInv
    <2>3. \A x \in DOMAIN ca' : /\ Len(ca'[x].lits) >= 2
                                /\ \A m, n \in DOMAIN ca'[x].lits :
                                      ca'[x].lits[m] = ca'[x].lits[n] => m = n
                                /\ ca'[x].mark = 0 <=> x \in InUse'
      BY <1>1, <1>5, <1>6 DEF DbInv
    <2>4. ca' \in Seq(Clauses)
      BY <1>5, <1>6
    <2> QED
      BY <2>1, <2>2, <2>3, <2>4 DEF DbInv
  <1>8. ListsClean'
    <2> SUFFICES ASSUME NEW l \in Lits \ dirties', NEW x \in watches[l]
                 PROVE  x.cref \in live
      BY <1>0, <1>6 DEF ListsClean
    <2> QED
      BY <1>0, <1>1, <1>2, ListsLeft
  <1>9. PICK to : to = [x \in live |-> x]
    OBVIOUS
  <1>10. to \in [live -> Nat \ {0}] /\ \A x \in live : to[x] = x
    <2>1. \A x \in live : x \in Nat \ {0}
      BY <1>3
    <2> QED
      BY <1>9, <2>1
  <1>11. InUse' = {to[x] : x \in live} /\ clauses' = {to[x] : x \in clauses \cap live}
    <2>1. clauses \cap live = clauses \ R
      BY <1>2 DEF InUse
    <2> QED
      BY <1>0, <1>6, <1>10, <2>1
  <1>12. \A x \in live : /\ LitsOf(to[x])' = LitsOf(x) /\ Heads(to[x])' = Heads(x)
                         /\ ca'[to[x]].lits[1] = ca[x].lits[1]
    BY <1>5, <1>6, <1>10 DEF LitsOf, Heads
  <1>13. ASSUME NEW x \in live, NEW l \in Lits, NEW y
         PROVE  y \in watches'[l] /\ y.cref = to[x] <=>
                   \E w \in watches[l] : w.cref = x /\ y = Watcher(to[x], w.blocker)
    <2>1. \A w \in watches[l] : w = Watcher(w.cref, w.blocker)
      BY <1>3 DEF Watcher
    <2>2. \A b : Watcher(x, b).cref = x
      BY DEF Watcher
    <2> QED
      BY <1>0, <1>10, <2>1, <2>2
  <1>14. /\ reason' \in [Vars -> Int]
         /\ \A n \in 1..Len(trail) : reason'[var(trail[n])] > 0 =>
               \E x \in live : reason'[var(trail[n])] = to[x] /\ ca[x].lits[1] = trail[n]
    BY <1>0, <1>1, <1>2, <1>10, ReasonsLeft
  <1>15. InUse \ live = R /\ live \in SUBSET InUse
    BY <1>2
  <1>16. \A x \in live : \A l \in Lits : \A y :
            y \in watches'[l] /\ y.cref = to[x] <=>
               \E w \in watches[l] : w.cref = x /\ y = Watcher(to[x], w.blocker)
    BY <1>13
  <1>17. Renamed(live, to)
    BY <1>10, <1>11, <1>12, <1>14, <1>15, <1>16 DEF Renamed
  <1>18. MayGo(InUse \ live)
    BY <1>15
  <1> QED
    BY <1>7, <1>8, <1>17, <1>18, RenamedInv

\* The arena is relocated; the smudged lists are cleaned first.
Relocated(R, w) ==
  /\ Collected(MarkedAll(R), w, ReasonsWithout(R), clauses \ R, learnts \ R) /\ dirties' = {}
  /\ \A l \in Lits :
       w[l] = IF l \in dirties \cup UNION {Smudged(cr) : cr \in R}
              THEN {x \in watches[l] : MarkedAll(R)[x.cref].mark = 0} ELSE watches[l]

LEMMA RelocatedInv ==
    ASSUME WInv, SearchStays, NEW R \in SUBSET InUse, MayGo(R), NEW w, Relocated(R, w)
    PROVE  WInv'
  <1>1. DbInv /\ TrailInv /\ WatchInv /\ ListsClean /\ ReasonInv
    BY DEF WInv
  <1>2. PICK live : live = InUse \ R
    OBVIOUS
  <1>3. /\ DOMAIN ca = 1..Len(ca) /\ Len(ca) \in Nat /\ live \subseteq 1..Len(ca)
        /\ watches \in [Lits -> SUBSET [cref : 1..Len(ca), blocker : Lits]]
        /\ clauses \cap learnts = {}
    BY <1>1, <1>2, SeqFacts DEF DbInv, InUse
  <1>4. PICK a : a = MarkedAll(R)
    OBVIOUS
  <1>5. /\ a \in Seq(Clauses) /\ DOMAIN a = DOMAIN ca
        /\ \A x \in DOMAIN ca : /\ a[x].lits = ca[x].lits
                                /\ a[x].mark = 0 <=> x \in live
        /\ \A x \in live : a[x] = ca[x]
    <2>1. /\ a \in Seq(Clauses) /\ DOMAIN a = DOMAIN ca
          /\ \A x \in DOMAIN ca : /\ a[x].lits = ca[x].lits
                                  /\ a[x].mark = 0 <=> x \in InUse \ R
          /\ \A x \in InUse \ R : a[x] = ca[x]
      BY <1>1, <1>4, MarkedFacts
    <2> QED
      BY <1>2, <2>1
  <1>6. PICK r : r = ReasonsWithout(R)
    OBVIOUS
  <1>7. /\ r \in [Vars -> Int]
        /\ \A n \in 1..Len(trail) : r[var(trail[n])] > 0 =>
              r[var(trail[n])] \in live /\ ca[r[var(trail[n])]].lits[1] = trail[n]
    BY <1>1, <1>2, <1>6, ReasonsLeft
  <1>8. ASSUME NEW l \in Lits, NEW x
        PROVE  x \in w[l] <=> x \in watches[l] /\ x.cref \in live
    <2>1. x \in watches[l] => (a[x.cref].mark = 0 <=> x.cref \in live)
      BY <1>3, <1>5
    <2>2. CASE l \in dirties \cup UNION {Smudged(cr) : cr \in R}
      <3>1. w[l] = {y \in watches[l] : a[y.cref].mark = 0}
        BY <1>4, <2>2 DEF Relocated
      <3> QED
        BY <2>1, <3>1
    <2>3. CASE l \notin dirties \cup UNION {Smudged(cr) : cr \in R}
      BY <1>1, <1>2, <2>3, ListsLeft DEF Relocated
    <2> QED
      BY <2>2, <2>3
  <1>9. live = Live(a, w, r, clauses \ R, learnts \ R)
    <2>1. DOMAIN trail = 1..Len(trail)
      BY <1>1, TrailParts DEF TrailInv
    <2>2. {x.cref : x \in UNION {w[l] : l \in Lits}} \subseteq live
      BY <1>8
    <2>3. \A n \in DOMAIN trail : r[var(trail[n])] \in DOMAIN a => r[var(trail[n])] \in live
      BY <1>3, <1>5, <1>7, <2>1
    <2>4. live = (clauses \ R) \cup (learnts \ R)
      BY <1>2 DEF InUse
    <2> QED
      BY <2>2, <2>3, <2>4 DEF Live
  <1>10. Collected(a, w, r, clauses \ R, learnts \ R) /\ dirties' = {}
    BY <1>4, <1>6 DEF Relocated
  <1>11. live \in SUBSET Int /\ IsFiniteSet(live)
    <2>1. IsFiniteSet(1..Len(ca))
      BY <1>3, FS_Interval
    <2>2. live \in SUBSET Int
      BY <1>3
    <2> QED
      BY <1>3, <2>1, <2>2, FS_Subset
  <1>12. PICK N : N = Cardinality(live)
    OBVIOUS
  <1>13. PICK cs : cs = clauses \ R
    OBVIOUS
  <1>14. PICK ls : ls = learnts \ R
    OBVIOUS
  <1>15. Collected(a, w, r, cs, ls) /\ live = Live(a, w, r, cs, ls)
    BY <1>9, <1>10, <1>13, <1>14
  <1>16. PICK to : Numbered(to, a, w, r, cs, ls, live, N)
    BY <1>11, <1>12, <1>15, CollectedTo
  <1>17. /\ N \in Nat /\ to \in [live -> 1..N]
         /\ \A x, y \in live : to[x] = to[y] => x = y
         /\ \A n \in 1..N : \E x \in live : to[x] = n
         /\ ca' = [n \in 1..N |-> ca'[n]] /\ \A x \in live : ca'[to[x]] = a[x]
         /\ watches' = [l \in Lits |-> watches'[l]]
         /\ \A l \in Lits : \A y : y \in watches'[l] <=>
               \E x \in w[l] : x.cref \in live /\ y = Watcher(to[x.cref], x.blocker)
         /\ reason' = [v \in Vars |-> reason'[v]]
         /\ \A v \in Vars : reason'[v] = IF r[v] \in live /\ (IsTrue(v) \/ IsFalse(v))
                                         THEN to[r[v]] ELSE r[v]
         /\ clauses' = {to[x] : x \in clauses \ R} /\ learnts' = {to[x] : x \in learnts \ R}
    BY <1>13, <1>14, <1>16 DEF Numbered
  <1>18. /\ \A x \in live : ca'[to[x]] = ca[x]
         /\ InUse' = {to[x] : x \in live} /\ InUse' = 1..N
         /\ clauses' = {to[x] : x \in clauses \cap live}
    <2>1. \A x \in live : ca'[to[x]] = ca[x]
      BY <1>5, <1>17
    <2>2. live = (clauses \ R) \cup (learnts \ R) /\ clauses \cap live = clauses \ R
      BY <1>2 DEF InUse
    <2>3. InUse' = {to[x] : x \in live}
      BY <1>17, <2>2 DEF InUse
    <2>4. {to[x] : x \in live} = 1..N
      BY <1>17
    <2> QED
      BY <1>17, <2>1, <2>2, <2>3, <2>4
  <1>19. ASSUME NEW l \in Lits, NEW y
         PROVE  y \in watches'[l] <=> \E x \in watches[l] : /\ x.cref \in live
                                                           /\ y = Watcher(to[x.cref], x.blocker)
    BY <1>8, <1>17
  <1>20. DbInv'
    <2>1. ASSUME NEW n \in 1..N
          PROVE  /\ ca'[n] \in Clauses /\ ca'[n].mark = 0
                 /\ Len(ca'[n].lits) >= 2
                 /\ \A i, j \in DOMAIN ca'[n].lits : ca'[n].lits[i] = ca'[n].lits[j] => i = j
      <3>1. PICK x \in live : ca'[n] = ca[x]
        BY <1>17, <1>18
      <3>2. x \in InUse
        BY <1>2
      <3> QED
        BY <1>1, <3>1, <3>2, ClauseFacts
    <2>2. ca' \in Seq(Clauses) /\ DOMAIN ca' = 1..N
      <3>1. DOMAIN ca' = 1..N /\ ca' \in [1..N -> Clauses]
        BY <1>17, <2>1
      <3> QED
        BY <1>17, <3>1, IsASeq
    <2>3. clauses' \subseteq 1..N /\ learnts' \subseteq 1..N /\ clauses' \cap learnts' = {}
      <3>1. \A x \in clauses \ R : x \in live
        BY <1>2 DEF InUse
      <3>2. \A x \in learnts \ R : x \in live
        BY <1>2 DEF InUse
      <3>3. \A x \in clauses \ R : \A y \in learnts \ R : x # y
        BY <1>3
      <3> QED
        BY <1>17, <3>1, <3>2, <3>3
    <2>4. watches' \in [Lits -> SUBSET [cref : 1..N, blocker : Lits]]
      <3>1. ASSUME NEW l \in Lits, NEW y \in watches'[l]
            PROVE  y \in [cref : 1..N, blocker : Lits]
        <4>1. PICK x \in watches[l] : x.cref \in live /\ y = Watcher(to[x.cref], x.blocker)
          BY <1>19
        <4>2. x.blocker \in Lits /\ to[x.cref] \in 1..N
          BY <1>3, <1>17, <4>1
        <4> QED
          BY <4>1, <4>2 DEF Watcher
      <3>2. watches' = [l \in Lits |-> watches'[l]]
        BY <1>17
      <3> QED
        BY <3>1, <3>2
    <2>5. \A n \in DOMAIN ca' : /\ Len(ca'[n].lits) >= 2
                                /\ \A i, j \in DOMAIN ca'[n].lits :
                                      ca'[n].lits[i] = ca'[n].lits[j] => i = j
                                /\ ca'[n].mark = 0 <=> n \in InUse'
      BY <1>18, <2>1, <2>2
    <2> QED
      BY <1>10, <2>2, <2>3, <2>4, <2>5 DEF DbInv
  <1>21. ListsClean'
    <2> SUFFICES ASSUME NEW l \in Lits, NEW y \in watches'[l]
                 PROVE  y.cref \in InUse'
      BY DEF ListsClean
    <2>1. PICK x \in watches[l] : x.cref \in live /\ y = Watcher(to[x.cref], x.blocker)
      BY <1>19
    <2>2. y.cref = to[x.cref]
      BY <2>1 DEF Watcher
    <2> QED
      BY <1>18, <2>1, <2>2
  <1>22. ASSUME NEW x \in live, NEW l \in Lits, NEW y
         PROVE  y \in watches'[l] /\ y.cref = to[x] <=>
                   \E u \in watches[l] : u.cref = x /\ y = Watcher(to[x], u.blocker)
    <2>1. ASSUME y \in watches'[l], y.cref = to[x]
          PROVE  \E u \in watches[l] : u.cref = x /\ y = Watcher(to[x], u.blocker)
      <3>1. PICK u \in watches[l] : u.cref \in live /\ y = Watcher(to[u.cref], u.blocker)
        BY <1>19, <2>1
      <3>2. to[u.cref] = to[x]
        BY <2>1, <3>1 DEF Watcher
      <3>3. u.cref = x
        BY <1>17, <3>1, <3>2
      <3> QED
        BY <3>1, <3>3
    <2>2. ASSUME NEW u \in watches[l], u.cref = x, y = Watcher(to[x], u.blocker)
          PROVE  y \in watches'[l] /\ y.cref = to[x]
      <3>1. y.cref = to[x]
        BY <2>2 DEF Watcher
      <3>2. y \in watches'[l]
        BY <1>19, <2>2
      <3> QED
        BY <3>1, <3>2
    <2> QED
      BY <2>1, <2>2
  <1>23. /\ reason' \in [Vars -> Int]
         /\ \A n \in 1..Len(trail) : reason'[var(trail[n])] > 0 =>
               \E x \in live : reason'[var(trail[n])] = to[x] /\ ca[x].lits[1] = trail[n]
    <2>1. \A x \in live : to[x] \in Int
      BY <1>17
    <2>2. \A v \in Vars : reason'[v] \in Int
      BY <1>7, <1>17, <2>1
    <2>3. reason' \in [Vars -> Int]
      BY <1>17, <2>2
    <2>4. ASSUME NEW n \in 1..Len(trail), reason'[var(trail[n])] > 0
          PROVE  \E x \in live : reason'[var(trail[n])] = to[x] /\ ca[x].lits[1] = trail[n]
      <3>1. PICK v \in Vars : v = var(trail[n])
        BY <1>1, TrailParts, LitFacts DEF TrailInv
      <3>2. IsTrue(v) \/ IsFalse(v)
        <4>1. v = trail[n] \/ -v = trail[n]
          BY <1>1, <3>1, TrailParts, LitFacts DEF TrailInv, var
        <4> QED
          BY <1>1, <4>1, TrailParts DEF TrailInv, IsTrue, IsFalse, Assigned
      <3>3. r[v] \in live
        BY <1>7, <1>17, <2>4, <3>1
      <3>4. reason'[v] = to[r[v]]
        BY <1>17, <3>2, <3>3
      <3>5. r[v] > 0
        <4>1. \A x \in 1..Len(ca) : x > 0
          BY <1>3
        <4> QED
          BY <1>3, <3>3, <4>1
      <3> QED
        BY <1>7, <3>1, <3>3, <3>4, <3>5
    <2> QED
      BY <2>3, <2>4
  <1>24. /\ live \in SUBSET InUse /\ InUse \ live = R
         /\ to \in [live -> Nat \ {0}]
    BY <1>2, <1>17
  <1>25. \A x \in live : /\ LitsOf(to[x])' = LitsOf(x) /\ Heads(to[x])' = Heads(x)
                         /\ ca'[to[x]].lits[1] = ca[x].lits[1]
    BY <1>18 DEF LitsOf, Heads
  <1>26. \A x \in live : \A l \in Lits : \A y :
            y \in watches'[l] /\ y.cref = to[x] <=>
               \E u \in watches[l] : u.cref = x /\ y = Watcher(to[x], u.blocker)
    BY <1>22
  <1>27. Renamed(live, to)
    BY <1>18, <1>23, <1>24, <1>25, <1>26 DEF Renamed
  <1>28. MayGo(InUse \ live)
    BY <1>24
  <1> QED
    BY <1>20, <1>21, <1>27, <1>28, RenamedInv

LEMMA RemovedInv ==
    ASSUME WInv, SearchStays, NEW R \in SUBSET InUse, MayGo(R), Removed(R)
    PROVE  WInv'
  <1> DEFINE smudged == dirties \cup UNION {Smudged(cr) : cr \in R}
             cleaned == [l \in Lits |-> IF l \in smudged
                                        THEN {x \in watches[l] : MarkedAll(R)[x.cref].mark = 0}
                                        ELSE watches[l]]
  <1>1. \/ /\ Collected(MarkedAll(R), cleaned, ReasonsWithout(R), clauses \ R, learnts \ R)
           /\ dirties' = {}
        \/ MarkedOnly(R)
    BY DEF Removed, MarkedOnly
  <1>2. \A l \in Lits : cleaned[l] = IF l \in smudged
                                     THEN {x \in watches[l] : MarkedAll(R)[x.cref].mark = 0}
                                     ELSE watches[l]
    OBVIOUS
  <1>3. PICK w : w = cleaned
    OBVIOUS
  <1>4. (\A l \in Lits : w[l] = IF l \in smudged
                                THEN {x \in watches[l] : MarkedAll(R)[x.cref].mark = 0}
                                ELSE watches[l])
    BY <1>2, <1>3, Zenon
  <1> HIDE DEF cleaned
  <1>5. Relocated(R, w) \/ MarkedOnly(R)
    BY <1>1, <1>3, <1>4 DEF Relocated
  <1> QED
    BY <1>5, RelocatedInv, MarkedInv

LEMMA ReduceInv ==
    ASSUME WInv, reduceDB
    PROVE  WInv'
  <1>1. PICK R \in SUBSET {cr \in learnts : Deletable(cr)} : Removed(R)
    BY DEF reduceDB
  <1>2. SearchStays
    BY DEF reduceDB, SearchStays
  <1>3. R \in SUBSET learnts /\ clauses \cap R = {}
    BY DEF WInv, DbInv
  <1>4. R \in SUBSET InUse /\ MayGo(R)
    BY <1>3 DEF InUse, MayGo
  <1> QED
    BY <1>1, <1>2, <1>4, RemovedInv

LEMMA SimplifyInv ==
    ASSUME WInv, simplify
    PROVE  WInv'
  <1>1. PICK R : R = {cr \in clauses \cup learnts : \E q \in LitsOf(cr) : IsTrue(q)}
    OBVIOUS
  <1>2. SearchStays /\ Removed(R) /\ decisionLevel = 0
    BY <1>1 DEF simplify, SearchStays
  <1>3. \A q : IsTrue(q) => q \in AtLevel0
    <2>1. TrailInv
      BY DEF WInv
    <2>2. trail_lim = <<>>
      BY <1>2, <2>1, TrailParts, EmptySeq DEF TrailInv, decisionLevel
    <2> QED
      BY <2>1, <2>2, ValueFacts DEF AtLevel0
  <1>4. R \in SUBSET InUse
    BY <1>1 DEF InUse
  <1>5. MayGo(R)
    BY <1>1, <1>3 DEF MayGo
  <1> QED
    BY <1>2, <1>4, <1>5, RemovedInv

-----------------------------------------------------------------------------
(* The invariant. *)

LEMMA InitInv ==
    ASSUME Init
    PROVE  WInv
  <1>1. /\ ca = <<>> /\ clauses = {} /\ learnts = {} /\ watches = [l \in Lits |-> {}] /\ dirties = {}
        /\ trail = <<>> /\ trail_lim = <<>> /\ reason = [v \in Vars |-> CRef_Undef] /\ qhead = 0
        /\ todo = {} /\ confl = CRef_Undef /\ skipped = 0 /\ ok = TRUE /\ added = {} /\ pc = "idle"
    BY DEF Init
  <1>2. InUse = {}
    BY <1>1 DEF InUse
  <1>3. DOMAIN trail = {} /\ DOMAIN trail_lim = {} /\ Len(trail) = 0 /\ DOMAIN ca = {}
    BY <1>1
  <1>4. DbInv
    BY <1>1, <1>2, <1>3 DEF DbInv
  <1>5. TrailInv
    BY <1>1, <1>3 DEF TrailInv, TrailOK
  <1>6. WatchInv /\ ListsClean /\ PropInv
    BY <1>1, <1>2 DEF WatchInv, ListsClean, PropInv
  <1>7. ReasonInv
    BY <1>1, <1>3 DEF ReasonInv, ReasonsOK, CRef_Undef
  <1>8. StageInv
    BY <1>1, <1>3 DEF StageInv
  <1>9. FormulaInv
    BY <1>1 DEF FormulaInv
  <1> QED
    BY <1>4, <1>5, <1>6, <1>7, <1>8, <1>9 DEF WInv

LEMMA StutterInv ==
    ASSUME WInv, UNCHANGED vars
    PROVE  WInv'
  <1>1. /\ UNCHANGED db
        /\ UNCHANGED <<trail, trail_lim, reason, qhead, todo, confl, skipped, ok, added, pc>>
    BY DEF vars, assignment
  <1>2. /\ InUse' = InUse /\ clauses' = clauses /\ ca' = ca /\ First' = First
        /\ \A cr : LitsOf(cr)' = LitsOf(cr) /\ Heads(cr)' = Heads(cr)
        /\ (DbInv /\ WatchInv /\ ListsClean)'
        /\ watches' = watches /\ dirties' = dirties
    BY <1>1, SameDb DEF WInv, db
  <1>3. AtLevel0' = AtLevel0 /\ Visited' = Visited
    BY <1>1 DEF AtLevel0, Visited, Broken
  <1>4. TrailInv' /\ ReasonInv' /\ StageInv'
    BY <1>1, <1>2 DEF WInv, TrailInv, ReasonInv, StageInv
  <1>5. PropInv'
    BY <1>1, <1>2, <1>3 DEF WInv, PropInv, Excused
  <1>6. FormulaInv'
    BY <1>1, <1>2, <1>3, SameFormula DEF WInv
  <1> QED
    BY <1>2, <1>4, <1>5, <1>6 DEF WInv

LEMMA NextInv ==
    ASSUME WInv, [Next]_vars
    PROVE  WInv'
  <1>1. CASE Propagate
    BY <1>1, StartPropagateInv, TakeLiteralInv, PropagatedInv, BlockerTrueInv, FirstTrueInv,
       NewWatchInv, UnitInv, FalsifiedInv DEF Propagate
  <1>2. CASE Learn
    BY <1>2, LearnInv
  <1>3. CASE TheoryConflict
    BY <1>3, TheoryConflictInv
  <1>4. CASE Split
    BY <1>4, SplitInv
  <1>5. CASE reduceDB
    BY <1>5, ReduceInv
  <1>6. CASE simplify
    BY <1>6, SimplifyInv
  <1>7. CASE \E c \in Formula : AddClause(c)
    BY <1>7, AddClauseInv
  <1>8. CASE \E l \in Lits : Decide(l) \/ Deduce(l)
    BY <1>8, DecideInv, DeduceInv
  <1>9. CASE \E lev \in 0..Len(trail_lim) : CancelUntil(lev)
    BY <1>9, CancelUntilInv
  <1>10. CASE UNCHANGED vars
    BY <1>10, StutterInv
  <1> QED
    BY <1>1, <1>2, <1>3, <1>4, <1>5, <1>6, <1>7, <1>8, <1>9, <1>10 DEF Next

\* The invariant holds in every state that is reached, whatever is added,
\* decided, deduced, split on and learnt, and however the watchers are visited.
THEOREM Invariant == Spec => []WInv
  <1>1. Init => WInv
    BY InitInv
  <1>2. WInv /\ [Next]_vars => WInv'
    BY NextInv
  <1> QED
    BY <1>1, <1>2, PTL DEF Spec

-----------------------------------------------------------------------------
(* What it implies. *)

LEMMA TwoWatchesHolds ==
    ASSUME WInv
    PROVE  TwoWatches
  <1> SUFFICES ASSUME NEW cr \in InUse, NEW l \in Lits
               PROVE  /\ Cardinality(Watching(cr, l)) = IF -l \in Heads(cr) THEN 1 ELSE 0
                      /\ \A w \in Watching(cr, l) : w.blocker \in LitsOf(cr) \ {-l}
    BY DEF TwoWatches, Watching, Heads
  <1>1. CASE -l \in Heads(cr)
    <2>1. PICK b \in LitsOf(cr) \ {-l} : Watching(cr, l) = {Watcher(cr, b)}
      BY <1>1 DEF WInv, WatchInv
    <2>2. Watcher(cr, b).blocker = b
      BY DEF Watcher
    <2>3. Cardinality(Watching(cr, l)) = 1
      BY <2>1, FS_Singleton
    <2> QED
      BY <1>1, <2>1, <2>2, <2>3
  <1>2. CASE -l \notin Heads(cr)
    <2>1. Watching(cr, l) = {}
      BY <1>2 DEF WInv, WatchInv
    <2>2. Cardinality(Watching(cr, l)) = 0
      BY <2>1, FS_EmptySet
    <2> QED
      BY <1>2, <2>1, <2>2
  <1> QED
    BY <1>1, <1>2

LEMMA LitsCount ==
    ASSUME DbInv, NEW cr \in InUse
    PROVE  IsFiniteSet(LitsOf(cr)) /\ Cardinality(LitsOf(cr)) = Len(ca[cr].lits)
  <1>1. PICK c : c = ca[cr].lits
    OBVIOUS
  <1>2. PICK N : N = Len(c)
    OBVIOUS
  <1>3. /\ c \in Seq(Lits) /\ N \in Nat /\ DOMAIN c = 1..N
        /\ \A m, n \in 1..N : c[m] = c[n] => m = n
        /\ LitsOf(cr) = {c[n] : n \in 1..N}
    <2>1. /\ c \in Seq(Lits) /\ Len(c) \in Nat /\ DOMAIN c = 1..Len(c)
          /\ \A m, n \in 1..Len(c) : c[m] = c[n] => m = n
          /\ LitsOf(cr) = Elements(c)
      BY <1>1, ClauseFacts
    <2> QED
      BY <1>2, <2>1 DEF Elements
  <1>4. IsFiniteSet(1..N) /\ Cardinality(1..N) = N
    BY <1>3, FS_Interval
  <1>5. PICK f : f = [n \in 1..N |-> c[n]]
    OBVIOUS
  <1>6. f \in [1..N -> LitsOf(cr)] /\ \A n \in 1..N : f[n] = c[n]
    BY <1>3, <1>5
  <1>7. f \in Injection(1..N, LitsOf(cr))
    BY <1>3, <1>6, Fun_IsInj
  <1>8. f \in Surjection(1..N, LitsOf(cr))
    BY <1>3, <1>6 DEF Surjection
  <1>9. /\ IsFiniteSet(LitsOf(cr))
        /\ Cardinality(LitsOf(cr)) = Cardinality(1..N)
    BY <1>4, <1>7, <1>8, FS_Surjection
  <1> QED
    BY <1>1, <1>2, <1>4, <1>9

LEMMA FormulaKeptHolds ==
    ASSUME WInv
    PROVE  FormulaKept
  <1>1. DbInv /\ TrailInv /\ ListsClean /\ ReasonInv /\ FormulaInv
    BY DEF WInv
  <1>2. NoDangling
    <2>1. \A cr \in InUse : cr \in DOMAIN ca /\ ca[cr].mark = 0
      BY <1>1 DEF DbInv, InUse
    <2>2. \A n \in DOMAIN trail :
             reason[var(trail[n])] > 0 =>
               reason[var(trail[n])] \in InUse /\ ca[reason[var(trail[n])]].lits[1] = trail[n]
      BY <1>1 DEF ReasonInv, ReasonsOK, First
    <2> QED
      BY <1>1, <2>1, <2>2 DEF NoDangling, ListsClean
  <1>3. \A cr \in InUse : Cardinality(LitsOf(cr)) = Len(ca[cr].lits)
    BY <1>1, LitsCount
  <1>4. \A cr \in clauses : cr \in InUse
    BY DEF InUse
  <1> QED
    BY <1>1, <1>2, <1>3, <1>4 DEF FormulaKept, FormulaInv

LEMMA SettledHolds ==
    ASSUME WInv
    PROVE  Settled
  <1>1. DbInv /\ TrailInv /\ StageInv /\ PropInv
    BY DEF WInv
  <1> SUFFICES ASSUME pc = "idle", ok, NEW cr \in InUse, \A q \in LitsOf(cr) : ~ IsTrue(q),
                      \A n \in 1..skipped : -trail[n] \notin Heads(cr)
               PROVE  Cardinality({q \in LitsOf(cr) : Free(q)}) > 1
    BY DEF Settled
  <1>2. PICK h1 : h1 = ca[cr].lits[1]
    OBVIOUS
  <1>3. PICK h2 : h2 = ca[cr].lits[2]
    OBVIOUS
  <1>4. /\ Heads(cr) = {h1, h2} /\ h1 \in LitsOf(cr) /\ h2 \in LitsOf(cr) /\ h1 # h2
        /\ LitsOf(cr) \subseteq Lits
    BY <1>1, <1>2, <1>3, ClauseFacts DEF Heads
  <1>5. ASSUME NEW h \in Heads(cr)
        PROVE  Free(h)
    <2>1. h \in Lits /\ h \in LitsOf(cr)
      BY <1>4
    <2>2. ASSUME IsFalse(h)
          PROVE  FALSE
      <3>1. PICK n \in 1..Len(trail) : -trail[n] = h
        BY <1>1, <2>1, <2>2, FalseAt
      <3>2. Visited = (skipped + 1)..Len(trail) /\ todo = {} /\ skipped \in Nat /\ Len(trail) \in Nat
        BY <1>1, TrailParts DEF Visited, Broken, StageInv, TrailInv
      <3>3. Excused(cr, n)
        BY <1>1, <3>1, <3>2 DEF PropInv
      <3>4. PICK m \in DOMAIN trail : trail[m] \in LitsOf(cr)
        BY <3>3 DEF Excused, ExcusedIn
      <3> QED
        BY <3>4 DEF IsTrue, Assigned
    <2> QED
      BY <2>1, <2>2 DEF Free
  <1>6. {h1, h2} \in SUBSET {q \in LitsOf(cr) : Free(q)}
    BY <1>4, <1>5
  <1>7. IsFiniteSet({h1, h2}) /\ Cardinality({h1, h2}) = 2
    <2>1. IsFiniteSet({h1}) /\ Cardinality({h1}) = 1
      BY FS_Singleton
    <2>2. IsFiniteSet({h1} \cup {h2}) /\ Cardinality({h1} \cup {h2}) = 1 + 1
      BY <1>4, <2>1, FS_AddElement
    <2>3. {h1} \cup {h2} = {h1, h2}
      OBVIOUS
    <2> QED
      BY <2>2, <2>3
  <1>8. IsFiniteSet(LitsOf(cr))
    BY <1>1, LitsCount
  <1>9. IsFiniteSet({q \in LitsOf(cr) : Free(q)})
    BY <1>8, FS_Subset
  <1>10. /\ Cardinality({h1, h2}) <= Cardinality({q \in LitsOf(cr) : Free(q)})
         /\ Cardinality({q \in LitsOf(cr) : Free(q)}) \in Nat
    BY <1>6, <1>9, FS_Subset, FS_CardinalityType
  <1> QED
    BY <1>7, <1>10

\* Every clause in use is watched by exactly the two literals at its head, each
\* with a blocker out of the clause: through attachClause, the rewriting of the
\* lists in propagate, lazy detaching and relocAll.
THEOREM TwoWatchesKept == Spec => []TwoWatches
  BY Invariant, TwoWatchesHolds, PTL

\* The database holds what addOriginalClause_ and the splits added, up to what
\* level 0 decided, and no reference leads to a freed clause.
THEOREM FormulaIsKept == Spec => []FormulaKept
  BY Invariant, FormulaKeptHolds, PTL

\* When propagate has returned without a conflict, and after any backjump from
\* there, no clause is false or unit, but for those with a watch on a literal of
\* level 0 that an earlier search passed over.
THEOREM AlwaysSettled == Spec => []Settled
  BY Invariant, SettledHolds, PTL
=============================================================================
