------------------------ MODULE SearchInvariant_proofs ------------------------
(***************************************************************************)
(* SearchInv is an inductive invariant of CoreSMTSolver, for any problem   *)
(* and any bounds; the invariants it implies follow.  Facts about          *)
(* literals, trails and cuts of a trail come first.                        *)
(***************************************************************************)
EXTENDS SearchInvariant, DataLemmas

-----------------------------------------------------------------------------
(* Literals.                                                               *)

\* A literal is a non-zero integer, and has its variable and its negation.
LEMMA LitFacts ==
    \A p \in Lit : /\ p \in Int /\ p # 0 /\ -p \in Lit /\ -(-p) = p /\ p # -p
                   /\ var(p) \in Vars /\ var(p) \in Nat \ {0}
                   /\ var(-p) = var(p)
  BY VarsAssumption DEF Lit, var

\* Two literals over one variable are equal or opposite.
LEMMA SameVar ==
    \A p, q \in Lit : var(p) = var(q) <=> p = q \/ p = -q
  BY LitFacts DEF Lit, var

\* A set of literals names no clause reference that stands for "none".
LEMMA ClauseIsClause ==
    \A c : c \subseteq Lit => IsClause(c) /\ c \in Clause
  BY CRefAssumption DEF IsClause, Clause

-----------------------------------------------------------------------------
(* Trails.                                                                 *)

\* Entries have a literal, a level and a reason.
LEMMA TrailFacts ==
    ASSUME NEW t \in Seq(Entry)
    PROVE  /\ Len(t) \in Nat /\ DOMAIN t = 1..Len(t)
           /\ \A i \in 1..Len(t) : /\ t[i] \in Entry /\ t[i].lit \in Lit /\ t[i].level \in Nat
                                   /\ t[i].reason \in {CRef_Undef, CRef_Fake} \cup Clause
  <1>1. /\ Len(t) \in Nat /\ DOMAIN t = 1..Len(t)
        /\ \A i \in 1..Len(t) : t[i] \in Entry
    BY SeqFacts
  <1>2. \A e \in Entry : /\ e.lit \in Lit /\ e.level \in Nat
                          /\ e.reason \in {CRef_Undef, CRef_Fake} \cup Clause
    BY DEF Entry
  <1> QED
    BY <1>1, <1>2

\* What uncheckedEnqueue makes of a trail.
LEMMA EnqueuedFacts ==
    ASSUME NEW t \in Seq(Entry), NEW p \in Lit, NEW lev \in Nat,
           NEW r \in {CRef_Undef, CRef_Fake} \cup Clause
    PROVE  /\ Enqueued(t, p, lev, r) \in Seq(Entry)
           /\ Len(Enqueued(t, p, lev, r)) = Len(t) + 1
           /\ DOMAIN Enqueued(t, p, lev, r) = 1..(Len(t) + 1)
           /\ \A i \in 1..Len(t) : Enqueued(t, p, lev, r)[i] = t[i]
           /\ Enqueued(t, p, lev, r)[Len(t) + 1].lit = p
           /\ Enqueued(t, p, lev, r)[Len(t) + 1].level = lev
           /\ Enqueued(t, p, lev, r)[Len(t) + 1].reason = r
  <1> DEFINE e == [lit |-> p, level |-> lev, reason |-> r]
  <1>1. e \in Entry /\ e.lit = p /\ e.level = lev /\ e.reason = r
    BY DEF Entry
  <1> HIDE DEF e
  <1>2. Enqueued(t, p, lev, r) = Append(t, e)
    BY DEF Enqueued, e
  <1> QED
    BY <1>1, <1>2, AppendFacts

\* The parts of TrailOK, with the indices spelled out.
LEMMA TrailParts ==
    ASSUME NEW t \in Seq(Entry), NEW tl \in Seq(Nat), TrailOK(t, tl)
    PROVE  /\ \A i, j \in 1..Len(t) : var(t[i].lit) = var(t[j].lit) => i = j
           /\ \A i \in 1..Len(t) : t[i].level \in Nat /\ t[i].level <= Len(tl)
           /\ \A i \in 1..Len(t), k \in 1..Len(tl) : tl[k] < i <=> k <= t[i].level
  <1>1. DOMAIN t = 1..Len(t) /\ \A i \in 1..Len(t) : t[i].level \in Nat
    BY TrailFacts
  <1>2. DOMAIN tl = 1..Len(tl)
    BY SeqFacts
  <1>3. \A i, j \in 1..Len(t) : var(t[i].lit) = var(t[j].lit) => i = j
    BY <1>1, Zenon DEF TrailOK
  <1>4. \A i \in 1..Len(t) : /\ t[i].level <= Len(tl)
                            /\ \A k \in 1..Len(tl) : tl[k] < i <=> k <= t[i].level
    BY <1>1, <1>2, Zenon DEF TrailOK
  <1> QED
    BY <1>1, <1>3, <1>4

\* Levels grow along the trail.
LEMMA LevelsMonotone ==
    ASSUME NEW t \in Seq(Entry), NEW tl \in Seq(Nat), TrailOK(t, tl)
    PROVE  \A i, j \in 1..Len(t) : i <= j => t[i].level <= t[j].level
  <1> SUFFICES ASSUME NEW i \in 1..Len(t), NEW j \in 1..Len(t), i <= j
               PROVE  t[i].level <= t[j].level
    OBVIOUS
  <1>1. t[i].level \in Nat /\ t[j].level \in Nat
    BY TrailFacts
  <1>2. CASE t[i].level = 0
    BY <1>1, <1>2
  <1>3. CASE t[i].level > 0
    <2>1. DOMAIN t = 1..Len(t) /\ DOMAIN tl = 1..Len(tl) /\ Len(t) \in Nat /\ Len(tl) \in Nat
      BY TrailFacts, SeqFacts
    <2>2. t[i].level \in 1..Len(tl)
      BY <1>1, <1>3, <2>1, TrailParts
    <2>3. tl[t[i].level] < i
      <3>1. tl[t[i].level] < i <=> t[i].level <= t[i].level
        BY <2>2, TrailParts
      <3> QED
        BY <1>1, <3>1
    <2>4. tl[t[i].level] \in Nat
      BY <2>2, SeqFacts
    <2>5. tl[t[i].level] < j
      BY <2>3, <2>4
    <2>6. tl[t[i].level] < j <=> t[i].level <= t[j].level
      BY <2>2, TrailParts
    <2> QED
      BY <2>5, <2>6
  <1> QED
    BY <1>1, <1>2, <1>3

\* A prefix that ends between two decision levels, or inside the last one, is
\* a trail again.
LEMMA PrefixOK ==
    ASSUME NEW t \in Seq(Entry), NEW tl \in Seq(Nat), TrailOK(t, tl),
           NEW m \in 0..Len(t), NEW n \in 0..Len(tl),
           \A k \in 1..n : tl[k] <= m,
           n < Len(tl) => m <= tl[n + 1]
    PROVE  TrailOK(SubSeq(t, 1, m), SubSeq(tl, 1, n))
  <1> DEFINE u == SubSeq(t, 1, m)
             ul == SubSeq(tl, 1, n)
  <1>1. /\ Len(u) = m /\ DOMAIN u = 1..m
        /\ \A i \in 1..m : u[i] = t[i]
    BY PrefixFacts
  <1>2. /\ Len(ul) = n /\ DOMAIN ul = 1..n
        /\ \A k \in 1..n : ul[k] = tl[k]
    BY PrefixFacts
  <1>3. /\ DOMAIN t = 1..Len(t) /\ Len(t) \in Nat
        /\ \A i \in 1..Len(t) : t[i].level \in Nat
    BY TrailFacts
  <1>4. /\ DOMAIN tl = 1..Len(tl) /\ Len(tl) \in Nat
        /\ \A k \in 1..Len(tl) : tl[k] \in Nat
    BY SeqFacts
  <1>0. n \in Nat /\ m \in Nat /\ n <= Len(tl) /\ m <= Len(t)
    BY <1>3, <1>4
  <1> HIDE DEF u, ul
  <1>5. \A i, j \in 1..m : var(u[i].lit) = var(u[j].lit) => i = j
    <2> SUFFICES ASSUME NEW i \in 1..m, NEW j \in 1..m, var(u[i].lit) = var(u[j].lit)
                 PROVE  i = j
      OBVIOUS
    <2>1. i \in 1..Len(t) /\ j \in 1..Len(t)
      BY <1>0, <1>3
    <2>2. u[i] = t[i] /\ u[j] = t[j]
      BY <1>1
    <2> QED
      BY <2>1, <2>2, TrailParts
  <1>6. \A k, l \in 1..n : ul[k] <= m /\ (k <= l => ul[k] <= ul[l])
    <2>1. \A k, l \in 1..Len(tl) : k <= l => tl[k] <= tl[l]
      BY <1>4 DEF TrailOK
    <2>2. \A k \in 1..n : k \in 1..Len(tl) /\ ul[k] = tl[k]
      BY <1>0, <1>2, <1>4
    <2>3. \A k \in 1..n : ul[k] <= m
      BY <2>2
    <2>4. \A k, l \in 1..n : k <= l => ul[k] <= ul[l]
      BY <2>1, <2>2
    <2> QED
      BY <2>3, <2>4
  <1>7. ASSUME NEW i \in 1..m
        PROVE  /\ u[i].level <= n
               /\ \A k \in 1..n : ul[k] < i <=> k <= u[i].level
    <2>1. i \in 1..Len(t) /\ u[i] = t[i]
      BY <1>1, <1>3
    <2>2. \A k \in 1..Len(tl) : tl[k] < i <=> k <= t[i].level
      BY <2>1, <1>3, <1>4 DEF TrailOK
    <2>3. t[i].level <= Len(tl)
      BY <2>1, <1>3 DEF TrailOK
    <2>4. t[i].level <= n
      <3>1. CASE n = Len(tl)
        BY <2>3, <3>1
      <3>2. CASE n < Len(tl)
        <4>1. n + 1 \in 1..Len(tl) /\ ~ (tl[n + 1] < i)
          BY <3>2, <1>4
        <4> QED
          BY <4>1, <2>1, <2>2, <1>3
      <3> QED
        BY <3>1, <3>2, <1>0
    <2> QED
      BY <2>1, <2>2, <2>4, <1>0, <1>2, <1>4
  <1> QED
    BY <1>1, <1>2, <1>5, <1>6, <1>7 DEF TrailOK, u, ul

\* Enqueueing an unassigned literal at the current level.
LEMMA EnqueueOK ==
    ASSUME NEW t \in Seq(Entry), NEW tl \in Seq(Nat), TrailOK(t, tl),
           NEW p \in Lit, NEW r \in {CRef_Undef, CRef_Fake} \cup Clause,
           \A i \in 1..Len(t) : var(t[i].lit) # var(p)
    PROVE  TrailOK(Enqueued(t, p, Len(tl), r), tl)
  <1> DEFINE u == Enqueued(t, p, Len(tl), r)
             n == Len(t) + 1
  <1>1. /\ DOMAIN tl = 1..Len(tl) /\ Len(tl) \in Nat
        /\ \A k \in 1..Len(tl) : tl[k] \in Nat
    BY SeqFacts
  <1>2. /\ Len(u) = n /\ DOMAIN u = 1..n
        /\ \A i \in 1..Len(t) : u[i] = t[i]
        /\ u[n].lit = p /\ u[n].level = Len(tl)
    BY <1>1, EnqueuedFacts
  <1>3. /\ DOMAIN t = 1..Len(t) /\ Len(t) \in Nat
        /\ \A i \in 1..Len(t) : t[i].level \in Nat
    BY TrailFacts
  <1> HIDE DEF u
  <1>4. \A i, j \in 1..n : var(u[i].lit) = var(u[j].lit) => i = j
    <2>1. \A i, j \in 1..Len(t) : var(t[i].lit) = var(t[j].lit) => i = j
      BY <1>3 DEF TrailOK
    <2>2. \A i \in 1..n : i \in 1..Len(t) \/ i = n
      BY <1>3
    <2> QED
      BY <2>1, <2>2, <1>2
  <1>5. \A k, l \in 1..Len(tl) : tl[k] <= Len(t) /\ (k <= l => tl[k] <= tl[l])
    BY <1>1 DEF TrailOK
  <1>6. ASSUME NEW i \in 1..n
        PROVE  /\ u[i].level <= Len(tl)
               /\ \A k \in 1..Len(tl) : tl[k] < i <=> k <= u[i].level
    <2>1. CASE i = n
      BY <2>1, <1>1, <1>2, <1>3, <1>5
    <2>2. CASE i \in 1..Len(t)
      BY <2>2, <1>1, <1>2, <1>3 DEF TrailOK
    <2> QED
      BY <2>1, <2>2, <1>3
  <1>7. \A k \in 1..Len(tl) : tl[k] <= n
    BY <1>1, <1>3, <1>5
  <1> QED
    BY <1>1, <1>2, <1>4, <1>5, <1>6, <1>7 DEF TrailOK, u

\* Opening a decision level.
LEMMA NewLevelOK ==
    ASSUME NEW t \in Seq(Entry), NEW tl \in Seq(Nat), TrailOK(t, tl)
    PROVE  TrailOK(t, Append(tl, Len(t)))
  <1> DEFINE ul == Append(tl, Len(t))
             n == Len(tl) + 1
  <1>1. /\ DOMAIN t = 1..Len(t) /\ Len(t) \in Nat
        /\ \A i \in 1..Len(t) : t[i].level \in Nat
    BY TrailFacts
  <1>2. /\ DOMAIN tl = 1..Len(tl) /\ Len(tl) \in Nat
        /\ \A k \in 1..Len(tl) : tl[k] \in Nat
    BY SeqFacts
  <1>3. /\ Len(ul) = n /\ DOMAIN ul = 1..n
        /\ \A k \in 1..Len(tl) : ul[k] = tl[k]
        /\ ul[n] = Len(t)
    BY <1>1, AppendFacts
  <1> HIDE DEF ul
  <1>4. \A i, j \in 1..Len(t) : var(t[i].lit) = var(t[j].lit) => i = j
    BY <1>1 DEF TrailOK
  <1>5. \A k \in 1..Len(tl) : tl[k] <= Len(t)
    BY <1>2 DEF TrailOK
  <1>6. \A k, l \in 1..n : ul[k] <= Len(t) /\ (k <= l => ul[k] <= ul[l])
    <2>1. TAKE k, l \in 1..n
    <2>2. CASE k \in 1..Len(tl) /\ l \in 1..Len(tl)
      BY <2>2, <1>2, <1>3 DEF TrailOK
    <2>3. CASE l = n
      <3>1. k \in 1..Len(tl) \/ k = n
        BY <1>2
      <3>2. CASE k \in 1..Len(tl)
        BY <2>3, <3>2, <1>3, <1>5
      <3>3. CASE k = n
        BY <2>3, <3>3, <1>1, <1>3
      <3> QED
        BY <3>1, <3>2, <3>3
    <2>4. CASE k = n /\ l # n
      BY <2>4, <1>1, <1>2, <1>3
    <2> QED
      BY <2>2, <2>3, <2>4, <1>2
  <1>7. ASSUME NEW i \in 1..Len(t)
        PROVE  /\ t[i].level <= n
               /\ \A k \in 1..n : ul[k] < i <=> k <= t[i].level
    <2>1. /\ t[i].level <= Len(tl)
          /\ \A k \in 1..Len(tl) : tl[k] < i <=> k <= t[i].level
      BY <1>1, <1>2 DEF TrailOK
    <2> QED
      BY <2>1, <1>1, <1>2, <1>3
  <1> QED
    BY <1>1, <1>3, <1>4, <1>6, <1>7 DEF TrailOK, ul

\* Reasons and decisions in a prefix are those of the trail.
LEMMA PrefixReasons ==
    ASSUME NEW t \in Seq(Entry), NEW m \in 0..Len(t), NEW db,
           ReasonsOK(t, db), DecisionsFirst(t)
    PROVE  ReasonsOK(SubSeq(t, 1, m), db) /\ DecisionsFirst(SubSeq(t, 1, m))
  <1> DEFINE u == SubSeq(t, 1, m)
  <1>1. /\ DOMAIN u = 1..m
        /\ \A i \in 1..m : u[i] = t[i]
    BY PrefixFacts
  <1>2. DOMAIN t = 1..Len(t) /\ Len(t) \in Nat
    BY TrailFacts
  <1> HIDE DEF u
  <1>3. \A i \in 1..m : i \in 1..Len(t) /\ \A j \in 1..(i - 1) : j \in 1..m /\ j \in 1..Len(t)
    BY <1>2
  <1>4. \A i \in 1..m : \A j \in 1..(i - 1) : u[j] = t[j]
    BY <1>1, <1>3
  <1>5. ReasonsOK(u, db)
    <2> SUFFICES ASSUME NEW i \in 1..m, IsClause(u[i].reason)
                 PROVE  /\ u[i].lit \in u[i].reason /\ u[i].reason \in db
                        /\ \A q \in u[i].reason \ {u[i].lit} :
                              \E j \in 1..(i - 1) : u[j].lit = -q
                        /\ u[i].level > 0 =>
                              \E j \in 1..(i - 1) : /\ -u[j].lit \in u[i].reason
                                                    /\ u[j].level = u[i].level
      BY <1>1 DEF ReasonsOK
    <2>1. u[i] = t[i] /\ i \in DOMAIN t
      BY <1>1, <1>2, <1>3
    <2>2. /\ t[i].lit \in t[i].reason /\ t[i].reason \in db
          /\ \A q \in t[i].reason \ {t[i].lit} : \E j \in 1..(i - 1) : t[j].lit = -q
          /\ t[i].level > 0 => \E j \in 1..(i - 1) : /\ -t[j].lit \in t[i].reason
                                                     /\ t[j].level = t[i].level
      BY <2>1 DEF ReasonsOK
    <2> QED
      BY <2>1, <2>2, <1>4
  <1>6. DecisionsFirst(u)
    <2> SUFFICES ASSUME NEW i \in 1..m, u[i].reason = CRef_Undef, u[i].level > 0,
                        NEW j \in 1..(i - 1)
                 PROVE  u[j].level < u[i].level
      BY <1>1 DEF DecisionsFirst
    <2>1. u[i] = t[i] /\ i \in DOMAIN t /\ u[j] = t[j]
      BY <1>1, <1>2, <1>3, <1>4
    <2> QED
      BY <2>1 DEF DecisionsFirst
  <1> QED
    BY <1>5, <1>6 DEF u

\* Whether r may become the reason of p, enqueued at level lev after t.
Supports(t, p, lev, r, db) ==
    IsClause(r) =>
       /\ p \in r /\ r \in db
       /\ \A q \in r \ {p} : \E j \in 1..Len(t) : t[j].lit = -q
       /\ lev > 0 => \E j \in 1..Len(t) : -t[j].lit \in r /\ t[j].level = lev

\* An enqueued literal brings a reason that is in order, or none.
LEMMA EnqueueReasons ==
    ASSUME NEW t \in Seq(Entry), NEW db, NEW db2, ReasonsOK(t, db), db \subseteq db2,
           NEW p \in Lit, NEW lev \in Nat, NEW r \in {CRef_Undef, CRef_Fake} \cup Clause,
           Supports(t, p, lev, r, db2)
    PROVE  ReasonsOK(Enqueued(t, p, lev, r), db2)
  <1> DEFINE u == Enqueued(t, p, lev, r)
             n == Len(t) + 1
  <1>1. /\ DOMAIN u = 1..n
        /\ \A i \in 1..Len(t) : u[i] = t[i]
        /\ u[n].lit = p /\ u[n].level = lev /\ u[n].reason = r
    BY EnqueuedFacts
  <1>2. DOMAIN t = 1..Len(t) /\ Len(t) \in Nat
    BY TrailFacts
  <1> HIDE DEF u
  <1> SUFFICES ASSUME NEW i \in 1..n, IsClause(u[i].reason)
               PROVE  /\ u[i].lit \in u[i].reason /\ u[i].reason \in db2
                      /\ \A q \in u[i].reason \ {u[i].lit} :
                            \E j \in 1..(i - 1) : u[j].lit = -q
                      /\ u[i].level > 0 =>
                            \E j \in 1..(i - 1) : /\ -u[j].lit \in u[i].reason
                                                  /\ u[j].level = u[i].level
    BY <1>1 DEF ReasonsOK, u
  <1>3. \A j \in 1..(i - 1) : u[j] = t[j]
    BY <1>1, <1>2
  <1>4. CASE i = n
    <2>1. i - 1 = Len(t)
      BY <1>2, <1>4
    <2> QED
      BY <1>1, <1>3, <1>4, <2>1 DEF Supports
  <1>5. CASE i # n
    <2>1. i \in 1..Len(t)
      BY <1>2, <1>5
    <2>2. u[i] = t[i]
      BY <1>1, <2>1
    <2>3. /\ t[i].lit \in t[i].reason /\ t[i].reason \in db
          /\ \A q \in t[i].reason \ {t[i].lit} : \E j \in 1..(i - 1) : t[j].lit = -q
          /\ t[i].level > 0 => \E j \in 1..(i - 1) : /\ -t[j].lit \in t[i].reason
                                                     /\ t[j].level = t[i].level
      BY <1>2, <2>1, <2>2 DEF ReasonsOK
    <2> QED
      BY <2>2, <2>3, <1>3
  <1> QED
    BY <1>4, <1>5

\* A decision is enqueued first in its level.
LEMMA EnqueueDecisions ==
    ASSUME NEW t \in Seq(Entry), DecisionsFirst(t),
           NEW p \in Lit, NEW lev \in Nat, NEW r \in {CRef_Undef, CRef_Fake} \cup Clause,
           r = CRef_Undef /\ lev > 0 => \A j \in 1..Len(t) : t[j].level < lev
    PROVE  DecisionsFirst(Enqueued(t, p, lev, r))
  <1> DEFINE u == Enqueued(t, p, lev, r)
             n == Len(t) + 1
  <1>1. /\ DOMAIN u = 1..n
        /\ \A i \in 1..Len(t) : u[i] = t[i]
        /\ u[n].level = lev /\ u[n].reason = r
    BY EnqueuedFacts
  <1>2. DOMAIN t = 1..Len(t) /\ Len(t) \in Nat
    BY TrailFacts
  <1> HIDE DEF u
  <1> SUFFICES ASSUME NEW i \in 1..n, u[i].reason = CRef_Undef, u[i].level > 0,
                      NEW j \in 1..(i - 1)
               PROVE  u[j].level < u[i].level
    BY <1>1 DEF DecisionsFirst, u
  <1>3. j \in 1..Len(t) /\ u[j] = t[j]
    BY <1>1, <1>2
  <1>4. CASE i = n
    BY <1>1, <1>3, <1>4
  <1>5. CASE i # n
    <2>1. i \in DOMAIN t /\ u[i] = t[i]
      BY <1>1, <1>2, <1>5
    <2> QED
      BY <2>1, <1>3 DEF DecisionsFirst
  <1> QED
    BY <1>4, <1>5

-----------------------------------------------------------------------------
(* Settled levels.                                                         *)

\* The trails t and u hold the same literals at the levels up to k.
SameUpTo(t, u, k) ==
    /\ \A i \in DOMAIN t : t[i].level <= k =>
          \E j \in DOMAIN u : u[j].lit = t[i].lit /\ u[j].level <= k
    /\ \A j \in DOMAIN u : u[j].level <= k =>
          \E i \in DOMAIN t : t[i].lit = u[j].lit /\ t[i].level <= k

\* Whether a clause is settled at level k is decided by the levels up to k.
LEMMA SettledSame ==
    ASSUME NEW t \in Seq(Entry), NEW u \in Seq(Entry), NEW k \in Nat, NEW c,
           SameUpTo(t, u, k), Settled(t, c, k)
    PROVE  Settled(u, c, k)
  <1>1. \A i \in DOMAIN t : t[i].level \in Nat
    BY TrailFacts
  <1>2. \A i \in DOMAIN u : u[i].level \in Nat
    BY TrailFacts
  <1>3. ASSUME NEW p, Open(t, p, k)
        PROVE  Open(u, p, k)
    <2> SUFFICES ASSUME NEW j \in DOMAIN u, u[j].lit = -p, ~ (u[j].level > k)
                 PROVE  FALSE
      BY DEF Open
    <2>1. u[j].level <= k
      BY <1>2
    <2>2. PICK i \in DOMAIN t : t[i].lit = u[j].lit /\ t[i].level <= k
      BY <2>1 DEF SameUpTo
    <2>3. t[i].level > k
      BY <1>3, <2>2 DEF Open
    <2> QED
      BY <1>1, <2>2, <2>3
  <1>4. CASE \E i \in DOMAIN t : t[i].lit \in c /\ t[i].level <= k
    BY <1>4 DEF SameUpTo, Settled
  <1>5. CASE \E p, q \in c : p # q /\ Open(t, p, k) /\ Open(t, q, k)
    BY <1>3, <1>5 DEF Settled
  <1> QED
    BY <1>4, <1>5 DEF Settled

\* A prefix that keeps all of levels 0..k, and an entry above level k.
LEMMA PrefixSame ==
    ASSUME NEW t \in Seq(Entry), NEW m \in 0..Len(t), NEW k \in Nat,
           \A i \in 1..Len(t) : t[i].level <= k => i <= m
    PROVE  SameUpTo(t, SubSeq(t, 1, m), k)
  <1> DEFINE u == SubSeq(t, 1, m)
  <1>1. DOMAIN u = 1..m /\ \A i \in 1..m : u[i] = t[i]
    BY PrefixFacts
  <1>2. DOMAIN t = 1..Len(t) /\ Len(t) \in Nat
    BY TrailFacts
  <1> HIDE DEF u
  <1>3. \A i \in 1..m : i \in 1..Len(t)
    BY <1>2
  <1>4. \A i \in 1..Len(t) : i <= m => i \in 1..m
    BY <1>2
  <1> QED
    BY <1>1, <1>2, <1>3, <1>4 DEF SameUpTo, u

\* Enqueuing at a level does not change what is below it.
LEMMA EnqueuedSame ==
    ASSUME NEW t \in Seq(Entry), NEW p \in Lit, NEW lev \in Nat,
           NEW r \in {CRef_Undef, CRef_Fake} \cup Clause, NEW k \in Nat, k < lev
    PROVE  SameUpTo(t, Enqueued(t, p, lev, r), k)
  <1> DEFINE u == Enqueued(t, p, lev, r)
             n == Len(t) + 1
  <1>1. /\ Len(u) = n /\ DOMAIN u = 1..n
        /\ \A i \in 1..Len(t) : u[i] = t[i]
        /\ u[n].level = lev
    BY EnqueuedFacts
  <1>2. DOMAIN t = 1..Len(t) /\ Len(t) \in Nat
    BY TrailFacts
  <1> HIDE DEF u
  <1>3. \A i \in 1..n : i \in 1..Len(t) \/ i = n
    BY <1>2
  <1>4. \A i \in 1..Len(t) : i \in 1..n
    BY <1>2
  <1>5. ~ (u[n].level <= k)
    BY <1>1
  <1> QED
    BY <1>1, <1>2, <1>3, <1>4, <1>5 DEF SameUpTo, u

\* Levels 0 to n are n and those below it.
LEMMA LevelsUpTo ==
    ASSUME NEW t, NEW db, NEW n \in Nat
    PROVE  /\ LevelsSettled(t, db, n + 1) <=> \A c \in db : \A k \in 0..n : Settled(t, c, k)
           /\ LevelsSettled(t, db, n + 1) => LevelsSettled(t, db, n)
  <1>1. 0..(n + 1 - 1) = 0..n /\ 0..(n - 1) \subseteq 0..n
    OBVIOUS
  <1> QED
    BY <1>1 DEF LevelsSettled

\* Settled levels stay settled under such changes, and when clauses are removed.
LEMMA LevelsSame ==
    ASSUME NEW t \in Seq(Entry), NEW u \in Seq(Entry), NEW db, NEW db2, db2 \subseteq db,
           NEW n \in Nat, NEW n2 \in 0..n, LevelsSettled(t, db, n),
           \A k \in 0..(n2 - 1) : SameUpTo(t, u, k)
    PROVE  LevelsSettled(u, db2, n2)
  <1> SUFFICES ASSUME NEW c \in db2, NEW k \in 0..(n2 - 1)
               PROVE  Settled(u, c, k)
    BY DEF LevelsSettled
  <1>1. k \in Nat /\ k \in 0..(n - 1)
    OBVIOUS
  <1>2. Settled(t, c, k)
    BY <1>1 DEF LevelsSettled
  <1> QED
    BY <1>1, <1>2, SettledSame

\* A settled trail is settled at an empty level above it.
LEMMA SettledAbove ==
    ASSUME NEW t \in Seq(Entry), NEW c, NEW k \in Nat,
           \A i \in DOMAIN t : t[i].level <= k, Settled(t, c, k)
    PROVE  Settled(t, c, k + 1)
  <1>1. \A i \in DOMAIN t : t[i].level \in Nat
    BY TrailFacts
  <1>2. ASSUME NEW p, Open(t, p, k)
        PROVE  Open(t, p, k + 1)
    BY <1>1, <1>2 DEF Open
  <1>3. CASE \E i \in DOMAIN t : t[i].lit \in c /\ t[i].level <= k
    BY <1>1, <1>3 DEF Settled
  <1>4. CASE \E p, q \in c : p # q /\ Open(t, p, k) /\ Open(t, q, k)
    BY <1>2, <1>4 DEF Settled
  <1> QED
    BY <1>3, <1>4 DEF Settled

-----------------------------------------------------------------------------
(* Backtracking and looking up levels.                                     *)

\* What cancelUntil(lev) keeps: exactly the levels up to lev.
LEMMA CancelOK ==
    ASSUME trail \in Seq(Entry), trail_lim \in Seq(Nat), TrailOK(trail, trail_lim),
           NEW lev \in 0..decisionLevel
    PROVE  \E m \in 0..nAssigns :
              /\ KeptTrail(lev) = SubSeq(trail, 1, m)
              /\ KeptLim(lev) = SubSeq(trail_lim, 1, lev)
              /\ \A i \in 1..nAssigns : trail[i].level <= lev <=> i <= m
              /\ TrailOK(KeptTrail(lev), KeptLim(lev))
  <1>1. /\ DOMAIN trail = 1..Len(trail) /\ Len(trail) \in Nat
        /\ \A i \in 1..Len(trail) : trail[i].level \in Nat
    BY TrailFacts
  <1>2. /\ DOMAIN trail_lim = 1..Len(trail_lim) /\ Len(trail_lim) \in Nat
        /\ \A k \in 1..Len(trail_lim) : trail_lim[k] \in Nat
    BY SeqFacts
  <1>0. decisionLevel = Len(trail_lim) /\ lev \in Nat /\ lev <= decisionLevel
    BY <1>2 DEF decisionLevel
  <1>3. CASE decisionLevel > lev
    <2> DEFINE m == trail_lim[lev + 1]
    <2>1. lev + 1 \in 1..Len(trail_lim) /\ lev \in 0..Len(trail_lim)
      BY <1>2, <1>3 DEF decisionLevel
    <2>2. m \in 0..nAssigns
      <3>1. trail_lim[lev + 1] <= Len(trail)
        BY <2>1, <1>2 DEF TrailOK
      <3>2. trail_lim[lev + 1] \in Nat
        BY <2>1, <1>2
      <3> QED
        BY <3>1, <3>2, <1>1 DEF nAssigns
    <2>3. \A k \in 1..lev : trail_lim[k] <= m
      <3>1. \A k \in 1..lev : k \in 1..Len(trail_lim) /\ k <= lev + 1
        BY <2>1, <1>2
      <3>2. \A k, l \in 1..Len(trail_lim) : k <= l => trail_lim[k] <= trail_lim[l]
        BY <1>2 DEF TrailOK
      <3> QED
        BY <2>1, <3>1, <3>2
    <2>4. \A i \in 1..nAssigns : trail[i].level <= lev <=> i <= m
      <3>1. \A i \in 1..nAssigns : trail_lim[lev + 1] < i <=> lev + 1 <= trail[i].level
        BY <2>1, <1>1, <1>2 DEF TrailOK, nAssigns
      <3> QED
        BY <3>1, <2>1, <2>2, <1>1, <1>2 DEF nAssigns
    <2>5. KeptTrail(lev) = SubSeq(trail, 1, m) /\ KeptLim(lev) = SubSeq(trail_lim, 1, lev)
      BY <1>3 DEF KeptTrail, KeptLim
    <2>6. TrailOK(SubSeq(trail, 1, m), SubSeq(trail_lim, 1, lev))
      <3>1. m \in 0..Len(trail) /\ (lev < Len(trail_lim) => m <= trail_lim[lev + 1])
        BY <2>1, <2>2, <1>2 DEF nAssigns
      <3> HIDE DEF m
      <3> QED
        BY <2>1, <2>3, <3>1, PrefixOK
    <2> QED
      BY <2>2, <2>4, <2>5, <2>6
  <1>4. CASE ~ (decisionLevel > lev)
    <2>1. lev = Len(trail_lim)
      BY <1>0, <1>4
    <2>2. KeptTrail(lev) = trail /\ KeptLim(lev) = trail_lim
      BY <1>4 DEF KeptTrail, KeptLim
    <2>3. trail = SubSeq(trail, 1, Len(trail)) /\ trail_lim = SubSeq(trail_lim, 1, lev)
      BY <2>1, SubSeqFull
    <2>4. \A i \in 1..nAssigns : trail[i].level <= lev
      BY <1>1, <2>1 DEF TrailOK, nAssigns
    <2>5. Len(trail) \in 0..nAssigns
      BY <1>1 DEF nAssigns
    <2>6. \A i \in 1..nAssigns : i <= Len(trail)
      BY <1>1 DEF nAssigns
    <2> QED
      BY <2>2, <2>3, <2>4, <2>5, <2>6
  <1> QED
    BY <1>3, <1>4

\* The same, as facts about the two sequences.
LEMMA KeptFacts ==
    ASSUME trail \in Seq(Entry), trail_lim \in Seq(Nat), TrailOK(trail, trail_lim),
           NEW lev \in 0..decisionLevel
    PROVE  /\ KeptTrail(lev) \in Seq(Entry) /\ KeptLim(lev) \in Seq(Nat)
           /\ TrailOK(KeptTrail(lev), KeptLim(lev))
           /\ Len(KeptLim(lev)) = lev
           /\ Len(KeptTrail(lev)) \in 0..nAssigns
           /\ \A i \in 1..Len(KeptTrail(lev)) : /\ KeptTrail(lev)[i] = trail[i]
                                                /\ trail[i].level <= lev
           /\ \A i \in 1..nAssigns : trail[i].level <= lev => i \in 1..Len(KeptTrail(lev))
  <1>1. PICK m \in 0..nAssigns :
              /\ KeptTrail(lev) = SubSeq(trail, 1, m)
              /\ KeptLim(lev) = SubSeq(trail_lim, 1, lev)
              /\ \A i \in 1..nAssigns : trail[i].level <= lev <=> i <= m
              /\ TrailOK(KeptTrail(lev), KeptLim(lev))
    BY CancelOK
  <1>2. Len(trail) \in Nat /\ Len(trail_lim) \in Nat
    BY SeqFacts
  <1>3. /\ KeptTrail(lev) \in Seq(Entry) /\ Len(KeptTrail(lev)) = m
        /\ \A i \in 1..m : KeptTrail(lev)[i] = trail[i]
    BY <1>1, PrefixFacts DEF nAssigns
  <1>4. KeptLim(lev) \in Seq(Nat) /\ Len(KeptLim(lev)) = lev
    BY <1>1, PrefixFacts DEF decisionLevel
  <1>5. \A i \in 1..m : i \in 1..nAssigns /\ i <= m
    BY <1>2 DEF nAssigns
  <1>6. \A i \in 1..nAssigns : i <= m => i \in 1..m
    BY <1>2 DEF nAssigns
  <1> QED
    BY <1>1, <1>3, <1>4, <1>5, <1>6

\* cancelUntil preserves what is known of the trail.
LEMMA CancelInv ==
    ASSUME trail \in Seq(Entry), trail_lim \in Seq(Nat), TrailInv,
           NEW lev \in 0..decisionLevel
    PROVE  /\ ReasonsOK(KeptTrail(lev), DB)
           /\ DecisionsFirst(KeptTrail(lev))
           /\ LevelsSettled(KeptTrail(lev), Heard, lev)
  <1>1. TrailOK(trail, trail_lim)
    BY DEF TrailInv
  <1>2. PICK m \in 0..nAssigns :
              /\ KeptTrail(lev) = SubSeq(trail, 1, m)
              /\ \A i \in 1..nAssigns : trail[i].level <= lev <=> i <= m
    BY <1>1, CancelOK
  <1>3. /\ Len(trail) \in Nat /\ Len(trail_lim) \in Nat /\ m \in 0..Len(trail)
        /\ \A i \in 1..Len(trail) : trail[i].level \in Nat
    BY SeqFacts, TrailFacts DEF nAssigns
  <1>4. ReasonsOK(KeptTrail(lev), DB) /\ DecisionsFirst(KeptTrail(lev))
    BY <1>2, <1>3, PrefixReasons DEF TrailInv
  <1>5. KeptTrail(lev) \in Seq(Entry)
    BY <1>2, <1>3, PrefixFacts
  <1>6. \A k \in 0..(lev - 1) : SameUpTo(trail, KeptTrail(lev), k)
    <2> SUFFICES ASSUME NEW k \in 0..(lev - 1)
                 PROVE  SameUpTo(trail, KeptTrail(lev), k)
      OBVIOUS
    <2>1. k \in Nat /\ k <= lev
      BY <1>3 DEF decisionLevel
    <2>2. \A i \in 1..Len(trail) : trail[i].level <= k => i <= m
      BY <1>2, <1>3, <2>1 DEF nAssigns, decisionLevel
    <2> QED
      BY <1>2, <1>3, <2>1, <2>2, PrefixSame
  <1>7. lev \in Nat /\ decisionLevel \in Nat
    BY <1>3 DEF decisionLevel
  <1> QED
    BY <1>4, <1>5, <1>6, <1>7, LevelsSame DEF TrailInv

\* vardata: the level of an assigned variable is that of its trail entry.
LEMMA LevelOfEntry ==
    ASSUME trail \in Seq(Entry), TrailOK(trail, trail_lim), NEW i \in 1..nAssigns
    PROVE  LevelOf(var(trail[i].lit)) = trail[i].level
  <1>1. DOMAIN trail = 1..nAssigns
    BY TrailFacts DEF nAssigns
  <1> DEFINE j == CHOOSE j \in DOMAIN trail : var(trail[j].lit) = var(trail[i].lit)
  <1>2. j \in DOMAIN trail /\ var(trail[j].lit) = var(trail[i].lit)
    BY <1>1
  <1>3. j = i
    BY <1>1, <1>2 DEF TrailOK
  <1> QED
    BY <1>3 DEF LevelOf, EntryOf

\* The same for the variable of a literal that is true or false.
LEMMA LevelOfLit ==
    ASSUME trail \in Seq(Entry), TrailOK(trail, trail_lim), NEW i \in 1..nAssigns,
           NEW q \in Lit, trail[i].lit = q \/ trail[i].lit = -q
    PROVE  LevelOf(var(q)) = trail[i].level
  <1>1. var(q) = var(trail[i].lit)
    BY LitFacts
  <1> QED
    BY <1>1, LevelOfEntry

\* An unassigned literal's variable is nowhere on the trail.
LEMMA UnassignedVar ==
    ASSUME trail \in Seq(Entry), NEW p \in Lit, Unassigned(p)
    PROVE  \A i \in 1..nAssigns : var(trail[i].lit) # var(p)
  <1> SUFFICES ASSUME NEW i \in 1..nAssigns, var(trail[i].lit) = var(p)
               PROVE  FALSE
    OBVIOUS
  <1>1. i \in DOMAIN trail /\ trail[i].lit \in Lit
    BY TrailFacts DEF nAssigns
  <1>2. trail[i].lit = p \/ trail[i].lit = -p
    BY <1>1, SameVar
  <1> QED
    BY <1>1, <1>2 DEF Unassigned, TrueLits, LitsOf

\* No literal is both true and false.
LEMMA TrailConsistentLits ==
    ASSUME trail \in Seq(Entry), TrailOK(trail, trail_lim), NEW p \in TrueLits
    PROVE  p \in Lit /\ -p \notin TrueLits
  <1>1. PICK i \in DOMAIN trail : trail[i].lit = p
    BY DEF TrueLits, LitsOf
  <1>2. p \in Lit
    BY <1>1, TrailFacts
  <1> SUFFICES ASSUME -p \in TrueLits
               PROVE  FALSE
    BY <1>2
  <1>3. PICK j \in DOMAIN trail : trail[j].lit = -p
    BY DEF TrueLits, LitsOf
  <1>4. i = j
    BY <1>1, <1>2, <1>3, LitFacts DEF TrailOK
  <1> QED
    BY <1>1, <1>2, <1>3, <1>4, LitFacts

-----------------------------------------------------------------------------
(* Initial states, and the steps that leave the trail and the clauses alone. *)

\* The solver starts with an empty trail and clear analysis state.
LEMMA InitInv == Init => SearchInv
  <1> SUFFICES ASSUME Init
               PROVE  SearchInv
    OBVIOUS
  <1>1. TypeOK
    <2>1. clauses \subseteq Clause
      BY InputAssumption DEF Init
    <2>2. decision \subseteq Vars
      BY <2>1, LitFacts DEF Init, Clause
    <2>3. trail \in Seq(Entry) /\ trail_lim \in Seq(Nat) /\ assumptions \in Seq(Lit)
      BY EmptySeq DEF Init
    <2>4. solves \in 0..MaxSolves
      BY BoundsAssumption DEF Init
    <2>9. missed \subseteq Clause /\ skipped \in Nat
      BY DEF Init
    <2>5. /\ learnts \subseteq Clause /\ cuts \subseteq Splits /\ seen \subseteq Vars
          /\ out_learnt \subseteq Lit /\ conflict \subseteq Lit /\ model \subseteq Lit
          /\ formula \subseteq Clause
      BY <2>1 DEF Init
    <2>6. /\ forced_split \in Lit \cup {lit_Undef} /\ pivot \in Lit \cup {lit_Undef}
          /\ confl \in {CRef_Undef, CRef_Fake} \cup Clause
          /\ pathC \in Int /\ index \in Nat /\ restarts \in Nat /\ conflictC \in Nat
      BY DEF Init
    <2>8. ok \in BOOLEAN /\ stop \in BOOLEAN
      <3>1. ok = TRUE /\ stop = FALSE
        BY Zenon DEF Init
      <3> QED
        BY <3>1, Zenon
    <2>7. status = "l_Undef" /\ pc = "idle"
      BY DEF Init
    <2> QED
      BY <2>1, <2>2, <2>3, <2>4, <2>5, <2>6, <2>7, <2>8, <2>9 DEF TypeOK
  <1>2. trail = <<>> /\ trail_lim = <<>> /\ DOMAIN trail = {} /\ DOMAIN trail_lim = {}
    BY DEF Init
  <1>3. TrailInv
    BY <1>2 DEF TrailInv, TrailOK, ReasonsOK, DecisionsFirst, LevelsSettled, decisionLevel
  <1>4. pc = "idle" /\ seen = {} /\ pivot = lit_Undef /\ pathC = 0 /\ out_learnt = {}
    BY DEF Init
  <1> QED
    BY <1>1, <1>2, <1>3, <1>4
       DEF SearchInv, CalmInv, Calm, Phases, Clean, Analysing, AnalyzeInv, LearnInv, FinalInv

\* The invariant of the trail is about the trail and the clauses only.
LEMMA TrailInvUnchanged ==
    ASSUME TrailInv, UNCHANGED <<trail, trail_lim, clauses, learnts>>, missed \subseteq missed'
    PROVE  TrailInv'
  <1>1. DB' = DB /\ Heard' \subseteq Heard /\ decisionLevel' = decisionLevel
    BY DEF DB, Heard, decisionLevel
  <1>2. LevelsSettled(trail', Heard', decisionLevel')
    BY <1>1 DEF TrailInv, LevelsSettled
  <1> QED
    BY <1>1, <1>2 DEF TrailInv

\* Interrupt changes the flag only.
LEMMA InterruptInv ==
    ASSUME SearchInv, Interrupt, UNCHANGED formula
    PROVE  SearchInv'
  <1> USE DEF dbVars, trailVars, analyzeVars, resultVars, callVars
  <1>1. TypeOK'
    BY DEF SearchInv, Interrupt, TypeOK
  <1>2. TrailInv'
    BY TrailInvUnchanged DEF SearchInv, Interrupt
  <1>3. /\ Heard' = Heard /\ decisionLevel' = decisionLevel /\ nAssigns' = nAssigns /\ Marked' = Marked
        /\ Calm' = Calm /\ Analysing' = Analysing
    BY DEF Interrupt, DB, Heard, decisionLevel, nAssigns, Marked, Calm, Analysing
  <1>4. CalmInv' /\ Phases' /\ Clean'
    BY <1>3 DEF SearchInv, Interrupt, CalmInv, Phases, Clean
  <1>5. AnalyzeInv' /\ LearnInv' /\ FinalInv'
    BY <1>3 DEF SearchInv, Interrupt, AnalyzeInv, LearnInv, FinalInv
  <1> QED
    BY <1>1, <1>2, <1>4, <1>5 DEF SearchInv

\* The steps that move the control of a call and neither touch the trail and
\* the clauses nor begin an analysis.
LEMMA QuietStep ==
    ASSUME SearchInv, TypeOK',
           UNCHANGED <<trail, trail_lim, clauses, learnts, seen, pivot, pathC, out_learnt,
                       assumptions, solves>>,
           missed \subseteq missed', ~ Analysing, pc \notin {"idle", "addClause", "done"},
           pc' \notin {"analyze", "learn", "final", "assert", "idle", "addClause"},
           Calm' => Calm
    PROVE  SearchInv'
  <1>1. TrailInv'
    BY TrailInvUnchanged DEF SearchInv
  <1>2. Heard' \subseteq Heard /\ decisionLevel' = decisionLevel
    BY DEF DB, Heard, decisionLevel
  <1>3. CalmInv'
    BY <1>2 DEF SearchInv, CalmInv, LevelsSettled
  <1>4. Phases'
    BY DEF SearchInv, Phases
  <1>5. Clean'
    BY DEF SearchInv, Clean, Analysing
  <1>6. AnalyzeInv' /\ LearnInv' /\ FinalInv'
    BY DEF AnalyzeInv, LearnInv, FinalInv
  <1> QED
    BY <1>1, <1>3, <1>4, <1>5, <1>6 DEF SearchInv

\* A stopped search leaves its trail as it is, for clearSearch to undo.
LEMMA StoppedInv ==
    ASSUME SearchInv, Stopped, UNCHANGED formula
    PROVE  SearchInv'
  <1>1. TypeOK'
    BY DEF SearchInv, Stopped, TypeOK, Finish, dbVars, trailVars, analyzeVars, callVars
  <1> QED
    BY <1>1, QuietStep
       DEF Stopped, Finish, dbVars, trailVars, analyzeVars, callVars, Analysing, Calm

\* The end of a theory propagation only moves the control.
LEMMA DeducedAllInv ==
    ASSUME SearchInv, DeducedAll, UNCHANGED formula
    PROVE  SearchInv'
  <1>1. TypeOK'
    BY DEF SearchInv, DeducedAll, TypeOK, dbVars, trailVars, analyzeVars, resultVars, callVars
  <1> QED
    BY <1>1, QuietStep
       DEF DeducedAll, dbVars, trailVars, analyzeVars, callVars, Analysing, Calm

\* Where a theory check hands the control to.
LEMMA AfterDecideFacts ==
    ASSUME Checking
    PROVE  /\ pc \in {"start", "check", "complete"}
           /\ AfterDecide \in {"search", "assume", "branch2"}
           /\ pc = "start" => AfterDecide = "search"
  BY DEF Checking, AfterDecide

\* A theory check that finds nothing goes on to the next stage, and only the one at
\* the entry of search does so before propagation was completed.
LEMMA TheoryPassInv ==
    ASSUME SearchInv, TheoryPass, UNCHANGED formula
    PROVE  SearchInv'
  <1>1. /\ pc \in {"start", "check", "complete"}
        /\ pc' \in {"search", "assume", "branch2"}
        /\ pc = "start" => pc' = "search"
    BY AfterDecideFacts DEF TheoryPass
  <1>2. TypeOK'
    BY <1>1 DEF SearchInv, TheoryPass, TypeOK, dbVars, trailVars, analyzeVars, resultVars, callVars
  <1> QED
    BY <1>1, <1>2, QuietStep
       DEF TheoryPass, dbVars, trailVars, analyzeVars, callVars, Analysing, Calm

\* When the assumptions are decided, the level is still settled.
LEMMA AssumptionsDoneInv ==
    ASSUME SearchInv, AssumptionsDone, UNCHANGED formula
    PROVE  SearchInv'
  <1>1. TypeOK'
    BY DEF SearchInv, AssumptionsDone, TypeOK, dbVars, trailVars, analyzeVars, resultVars, callVars
  <1> QED
    BY <1>1, QuietStep
       DEF AssumptionsDone, dbVars, trailVars, analyzeVars, callVars, Analysing, Calm

\* No candidate is left: the complete check, or the answer sat.
LEMMA NoDecisionInv ==
    ASSUME SearchInv, NoDecision, UNCHANGED formula
    PROVE  SearchInv'
  <1>1. TrueLits \subseteq Lit
    BY TrailFacts DEF SearchInv, TypeOK, TrueLits, LitsOf
  <1>2. pc \in {"branch", "branch2"} /\ pc' \in {"complete", "done"}
    BY DEF NoDecision, Branching, Finish
  <1>3. TypeOK'
    BY <1>1 DEF SearchInv, NoDecision, Finish, TypeOK, dbVars, trailVars, analyzeVars,
                resultVars, callVars
  <1> QED
    BY <1>2, <1>3, QuietStep
       DEF NoDecision, dbVars, trailVars, analyzeVars, callVars, Analysing, Calm

\* A clause was added and its consequences are propagated, at level 0.
LEMMA ClauseAddedInv ==
    ASSUME SearchInv, ClauseAdded, UNCHANGED formula
    PROVE  SearchInv'
  <1> USE DEF dbVars, trailVars, analyzeVars, resultVars, callVars
  <1>1. TypeOK'
    BY DEF SearchInv, ClauseAdded, TypeOK
  <1>2. TrailInv'
    BY TrailInvUnchanged DEF SearchInv, ClauseAdded
  <1>3. CalmInv' /\ Phases' /\ Clean'
    BY DEF SearchInv, ClauseAdded, CalmInv, Calm, Phases, Clean, Analysing
  <1>4. AnalyzeInv' /\ LearnInv' /\ FinalInv'
    BY DEF ClauseAdded, AnalyzeInv, LearnInv, FinalInv
  <1> QED
    BY <1>1, <1>2, <1>3, <1>4 DEF SearchInv

\* A new call starts at level 0 with clear marks.
LEMMA SolveInv ==
    ASSUME SearchInv, solves < MaxSolves, NEW as \in Assumptions[solves + 1], Solve(as), UNCHANGED formula
    PROVE  SearchInv'
  <1> USE DEF dbVars, trailVars, analyzeVars, resultVars, callVars
  <1>0. as \in Seq(Lit) /\ MaxSolves \in Nat
    <2>1. solves \in Nat /\ MaxSolves \in Nat
      BY BoundsAssumption DEF SearchInv, TypeOK
    <2>2. solves + 1 \in 1..MaxSolves
      BY <2>1
    <2> QED
      BY <2>1, <2>2, InputAssumption
  <1>1. /\ UNCHANGED <<dbVars, trailVars, forced_split, seen, analyzeVars, ok, stop, formula>>
        /\ assumptions' = as /\ solves' = solves + 1 /\ solves < MaxSolves
        /\ conflict' = {} /\ model' = {} /\ restarts' = 0 /\ conflictC' = 0
    BY DEF Solve
  <1>2. status' \in {"l_Undef", "l_False"} /\ pc' \in {"start", "done"} /\ pc = "idle"
    BY DEF Solve
  <1>3. solves \in Nat /\ solves' \in 0..MaxSolves
    BY <1>0, <1>1 DEF SearchInv, TypeOK
  <1>4. TypeOK'
    BY <1>0, <1>1, <1>2, <1>3 DEF SearchInv, TypeOK
  <1>5. TrailInv'
    BY TrailInvUnchanged DEF SearchInv, Solve
  <1>6. CalmInv' /\ Phases'
    <2>1. CalmInv'
      BY <1>2 DEF CalmInv, Calm
    <2>2. assumptions' \in Assumptions[solves']
      BY <1>1
    <2>3. solves' >= 1
      BY <1>3, solves' = solves + 1 DEF Solve
    <2> QED
      BY <1>2, <2>1, <2>2, <2>3 DEF Phases
  <1>7. Clean'
    BY <1>0, <1>2, <1>1, <1>3 DEF SearchInv, Clean, Analysing
  <1>8. AnalyzeInv' /\ LearnInv' /\ FinalInv'
    BY <1>2 DEF AnalyzeInv, LearnInv, FinalInv
  <1> QED
    BY <1>4, <1>5, <1>6, <1>7, <1>8 DEF SearchInv

\* After clearSearch only level 0 is left.
LEMMA ClearSearchInv ==
    ASSUME SearchInv, clearSearch, UNCHANGED formula
    PROVE  SearchInv'
  <1> USE DEF dbVars, trailVars, analyzeVars, resultVars, callVars
  <1>1. trail \in Seq(Entry) /\ trail_lim \in Seq(Nat) /\ TrailInv /\ TrailOK(trail, trail_lim)
    BY DEF SearchInv, TypeOK, TrailInv
  <1>2. 0 \in 0..decisionLevel
    BY <1>1, SeqFacts DEF decisionLevel
  <1>3. /\ trail' \in Seq(Entry) /\ trail_lim' \in Seq(Nat)
        /\ TrailOK(trail', trail_lim') /\ Len(trail_lim') = 0
    BY <1>1, <1>2, KeptFacts DEF clearSearch
  <1>4. trail_lim' = <<>> /\ decisionLevel' = 0 /\ DB' = DB /\ Heard' = Heard
    BY <1>3, EmptySeq DEF decisionLevel, clearSearch, DB, Heard
  <1>5. TypeOK'
    BY <1>3 DEF SearchInv, clearSearch, TypeOK
  <1>6. ReasonsOK(trail', DB) /\ DecisionsFirst(trail') /\ LevelsSettled(trail', Heard, 0)
    BY <1>1, <1>2, CancelInv DEF clearSearch
  <1>7. TrailInv'
    BY <1>3, <1>4, <1>6 DEF TrailInv
  <1>8. CalmInv' /\ Phases' /\ Clean'
    BY <1>4 DEF SearchInv, clearSearch, CalmInv, Calm, Phases, Clean, Analysing
  <1>9. AnalyzeInv' /\ LearnInv' /\ FinalInv'
    BY DEF clearSearch, AnalyzeInv, LearnInv, FinalInv
  <1> QED
    BY <1>5, <1>7, <1>8, <1>9 DEF SearchInv

\* A restart gives up every level but the first.
LEMMA RestartInv ==
    ASSUME SearchInv, Restart, UNCHANGED formula
    PROVE  SearchInv'
  <1> USE DEF dbVars, trailVars, analyzeVars, resultVars, callVars
  <1>1. trail \in Seq(Entry) /\ trail_lim \in Seq(Nat) /\ TrailInv /\ TrailOK(trail, trail_lim)
    BY DEF SearchInv, TypeOK, TrailInv
  <1>2. 0 \in 0..decisionLevel
    BY <1>1, SeqFacts DEF decisionLevel
  <1>3. /\ trail' \in Seq(Entry) /\ trail_lim' \in Seq(Nat)
        /\ TrailOK(trail', trail_lim') /\ Len(trail_lim') = 0
    BY <1>1, <1>2, KeptFacts DEF Restart
  <1>4. decisionLevel' = 0 /\ DB' = DB /\ Heard' = Heard
    BY <1>3 DEF decisionLevel, Restart, DB, Heard
  <1>5. TypeOK'
    BY <1>3 DEF SearchInv, Restart, TypeOK
  <1>6. ReasonsOK(trail', DB) /\ DecisionsFirst(trail') /\ LevelsSettled(trail', Heard, 0)
    BY <1>1, <1>2, CancelInv DEF Restart
  <1>7. TrailInv'
    BY <1>3, <1>4, <1>6 DEF TrailInv
  <1>8. CalmInv' /\ Phases' /\ Clean'
    BY <1>4 DEF SearchInv, Restart, CalmInv, Calm, Phases, Clean, Analysing
  <1>9. AnalyzeInv' /\ LearnInv' /\ FinalInv'
    BY DEF Restart, AnalyzeInv, LearnInv, FinalInv
  <1> QED
    BY <1>5, <1>7, <1>8, <1>9 DEF SearchInv

-----------------------------------------------------------------------------
(* Enqueueing, and what propagation finds.                                 *)

\* Enqueueing an unassigned literal at the current level, with a reason that is
\* in order or - at level 0, or from the theory - without a stored one.
LEMMA EnqueueStep ==
    ASSUME trail \in Seq(Entry), trail_lim \in Seq(Nat), TrailInv,
           NEW p \in Lit, Unassigned(p), NEW r \in {CRef_Undef, CRef_Fake} \cup Clause,
           trail' = Enqueued(trail, p, decisionLevel, r),
           UNCHANGED <<trail_lim, clauses, learnts, missed>>,
           r = CRef_Undef => decisionLevel = 0,
           IsClause(r) =>
              /\ p \in r /\ r \in DB
              /\ \A q \in r \ {p} : -q \in TrueLits
              /\ decisionLevel > 0 =>
                    \E j \in 1..nAssigns : -trail[j].lit \in r /\ trail[j].level = decisionLevel
    PROVE  trail' \in Seq(Entry) /\ TrailInv'
  <1>1. /\ DOMAIN trail = 1..Len(trail) /\ Len(trail) \in Nat /\ Len(trail_lim) \in Nat
        /\ nAssigns = Len(trail) /\ decisionLevel = Len(trail_lim)
    BY TrailFacts, SeqFacts DEF nAssigns, decisionLevel
  <1>2. DB' = DB /\ Heard' = Heard /\ decisionLevel' = decisionLevel
    BY DEF DB, Heard, decisionLevel
  <1>3. trail' \in Seq(Entry)
    BY <1>1, EnqueuedFacts
  <1>4. TrailOK(trail', trail_lim')
    <2>1. \A i \in 1..Len(trail) : var(trail[i].lit) # var(p)
      BY <1>1, UnassignedVar
    <2> QED
      BY <2>1, <1>1, EnqueueOK DEF TrailInv
  <1>5. ReasonsOK(trail', DB)
    <2>1. IsClause(r) => \A q \in r \ {p} : \E j \in 1..Len(trail) : trail[j].lit = -q
      BY <1>1 DEF TrueLits, LitsOf
    <2>2. ReasonsOK(trail, DB)
      BY DEF TrailInv
    <2> QED
      BY <2>1, <2>2, <1>1, EnqueueReasons DEF Supports
  <1>6. DecisionsFirst(trail')
    <2>1. DecisionsFirst(trail) /\ ~ (r = CRef_Undef /\ decisionLevel > 0)
      BY <1>1 DEF TrailInv
    <2> QED
      BY <2>1, <1>1, EnqueueDecisions
  <1>7. LevelsSettled(trail', Heard, decisionLevel)
    <2>1. \A k \in 0..(decisionLevel - 1) : SameUpTo(trail, trail', k)
      BY <1>1, EnqueuedSame
    <2>2. decisionLevel \in 0..decisionLevel
      BY <1>1
    <2> QED
      BY <2>1, <2>2, <1>1, <1>3, LevelsSame DEF TrailInv
  <1> QED
    BY <1>2, <1>3, <1>4, <1>5, <1>6, <1>7 DEF TrailInv

\* Opening a level with a decision, when the levels below are settled.
LEMMA DecisionStep ==
    ASSUME trail \in Seq(Entry), trail_lim \in Seq(Nat), TrailInv,
           LevelsSettled(trail, Heard, decisionLevel + 1),
           NEW p \in Lit, Unassigned(p),
           trail_lim' = Append(trail_lim, nAssigns),
           trail' = Enqueued(trail, p, decisionLevel + 1, CRef_Undef),
           UNCHANGED <<clauses, learnts, missed>>
    PROVE  trail' \in Seq(Entry) /\ trail_lim' \in Seq(Nat) /\ TrailInv'
  <1>1. /\ DOMAIN trail = 1..Len(trail) /\ Len(trail) \in Nat /\ Len(trail_lim) \in Nat
        /\ nAssigns = Len(trail) /\ decisionLevel = Len(trail_lim)
        /\ \A i \in 1..Len(trail) : trail[i].level \in Nat
    BY TrailFacts, SeqFacts DEF nAssigns, decisionLevel
  <1>2. trail_lim' \in Seq(Nat) /\ Len(trail_lim') = decisionLevel + 1
    BY <1>1, AppendFacts
  <1>3. DB' = DB /\ Heard' = Heard /\ decisionLevel' = decisionLevel + 1
    BY <1>2 DEF DB, Heard, decisionLevel
  <1>4. trail' \in Seq(Entry)
    BY <1>1, EnqueuedFacts
  <1>5. TrailOK(trail', trail_lim')
    <2>1. \A i \in 1..Len(trail) : var(trail[i].lit) # var(p)
      BY <1>1, UnassignedVar
    <2>2. TrailOK(trail, trail_lim')
      BY <1>1, NewLevelOK DEF TrailInv
    <2> QED
      BY <2>1, <2>2, <1>2, EnqueueOK
  <1>6. ReasonsOK(trail', DB)
    <2>1. ReasonsOK(trail, DB) /\ ~ IsClause(CRef_Undef)
      BY DEF TrailInv, IsClause
    <2>2. decisionLevel + 1 \in Nat
      BY <1>1
    <2> QED
      BY <2>1, <2>2, EnqueueReasons DEF Supports
  <1>7. DecisionsFirst(trail')
    <2>1. \A j \in 1..Len(trail) : trail[j].level < decisionLevel + 1
      <3>1. \A j \in 1..Len(trail) : trail[j].level \in Nat /\ trail[j].level <= Len(trail_lim)
        BY TrailParts DEF TrailInv
      <3> QED
        BY <1>1, <3>1
    <2> QED
      BY <2>1, <1>1, EnqueueDecisions DEF TrailInv
  <1>8. LevelsSettled(trail', Heard, decisionLevel + 1)
    <2> DEFINE n == decisionLevel + 1
    <2>1. \A k \in 0..(n - 1) : SameUpTo(trail, trail', k)
      BY <1>1, EnqueuedSame
    <2>2. n \in Nat /\ n \in 0..n /\ LevelsSettled(trail, Heard, n) /\ Heard \subseteq Heard
      BY <1>1
    <2> HIDE DEF n
    <2>3. LevelsSettled(trail', Heard, n)
      BY <2>1, <2>2, <1>4, LevelsSame
    <2> QED
      BY <2>3 DEF n
  <1> QED
    BY <1>2, <1>3, <1>4, <1>5, <1>6, <1>7, <1>8 DEF TrailInv

\* A clause that became false, or unit, did so at the current level.
LEMMA CurrentLevel ==
    ASSUME trail \in Seq(Entry), trail_lim \in Seq(Nat), TrailInv, decisionLevel > 0,
           NEW c \in Heard, c \subseteq Lit, NEW p, p \notin TrueLits,
           \A q \in c \ {p} : -q \in TrueLits
    PROVE  \E i \in 1..nAssigns : -trail[i].lit \in c \ {p} /\ trail[i].level = decisionLevel
  <1>1. /\ DOMAIN trail = 1..nAssigns /\ decisionLevel \in Nat
        /\ \A i \in 1..nAssigns : trail[i].lit \in Lit /\ trail[i].level \in Nat
    BY TrailFacts, SeqFacts DEF nAssigns, decisionLevel
  <1>2. TrailOK(trail, trail_lim)
    BY DEF TrailInv
  <1>3. Settled(trail, c, decisionLevel - 1)
    BY <1>1 DEF TrailInv, LevelsSettled
  <1>4. ~ \E i \in DOMAIN trail : trail[i].lit \in c
    <2> SUFFICES ASSUME NEW i \in DOMAIN trail, trail[i].lit \in c
                 PROVE  FALSE
      OBVIOUS
    <2>1. trail[i].lit \in TrueLits
      BY DEF TrueLits, LitsOf
    <2>2. -trail[i].lit \in TrueLits
      BY <2>1
    <2> QED
      BY <2>1, <2>2, <1>2, TrailConsistentLits
  <1>5. PICK q \in c : q # p /\ Open(trail, q, decisionLevel - 1)
    BY <1>3, <1>4 DEF Settled
  <1>6. PICK i \in DOMAIN trail : trail[i].lit = -q
    BY <1>5 DEF TrueLits, LitsOf
  <1>7. trail[i].level > decisionLevel - 1
    BY <1>5, <1>6 DEF Open
  <1>8. trail[i].level <= decisionLevel
    BY <1>2 DEF TrailOK, decisionLevel
  <1>9. -trail[i].lit = q
    BY <1>6, LitFacts
  <1> QED
    BY <1>1, <1>5, <1>6, <1>7, <1>8, <1>9

\* lit_Undef is no literal.
LEMMA UndefNotTrue ==
    ASSUME trail \in Seq(Entry)
    PROVE  lit_Undef \notin TrueLits /\ lit_Undef \notin Lit
  BY LitFacts, TrailFacts DEF lit_Undef, TrueLits, LitsOf

\* A unit clause makes a sound reason for its literal: propagation was complete at
\* the lower levels, so another literal of the clause is of the current level.
LEMMA PropagateUnitInv ==
    ASSUME SearchInv, PropagateUnit, UNCHANGED formula
    PROVE  SearchInv'
  <1>1. trail \in Seq(Entry) /\ trail_lim \in Seq(Nat) /\ TrailInv
    BY DEF SearchInv, TypeOK
  <1>2. pc \in {"addClause", "search"} /\ pc' = pc
    BY DEF PropagateUnit, Propagating
  <1>3. PICK c \in Heard : \E p \in c : /\ UnitIn(c, p)
                                        /\ trail' = Enqueued(trail, p, decisionLevel, c)
    BY DEF PropagateUnit
  <1>4. PICK p \in c : UnitIn(c, p) /\ trail' = Enqueued(trail, p, decisionLevel, c)
    BY <1>3
  <1>5. c \in DB /\ c \subseteq Lit /\ c \in Clause /\ p \in Lit
    BY <1>4 DEF SearchInv, TypeOK, DB, Heard, Clause
  <1>6. Unassigned(p) /\ p \notin TrueLits /\ \A q \in c \ {p} : -q \in TrueLits
    BY <1>4 DEF UnitIn, Unassigned, Falsified
  <1>7. decisionLevel > 0 =>
            \E i \in 1..nAssigns : -trail[i].lit \in c /\ trail[i].level = decisionLevel
    BY <1>1, <1>5, <1>6, CurrentLevel
  <1>8. trail' \in Seq(Entry) /\ TrailInv'
    <2>1. UNCHANGED <<trail_lim, clauses, learnts, missed>>
      BY DEF PropagateUnit, dbVars
    <2>2. IsClause(c) /\ c # CRef_Undef
      BY <1>5, ClauseIsClause DEF IsClause
    <2> QED
      BY <1>1, <1>4, <1>5, <1>6, <1>7, <2>1, <2>2, EnqueueStep
  <1> USE DEF dbVars, analyzeVars, resultVars, callVars
  <1>9. TypeOK'
    BY <1>8 DEF SearchInv, PropagateUnit, TypeOK
  <1>10. CalmInv' /\ Phases' /\ Clean'
    BY <1>2 DEF SearchInv, PropagateUnit, CalmInv, Calm, Phases, Clean, Analysing
  <1>11. AnalyzeInv' /\ LearnInv' /\ FinalInv'
    BY <1>2 DEF AnalyzeInv, LearnInv, FinalInv
  <1> QED
    BY <1>8, <1>9, <1>10, <1>11 DEF SearchInv

-----------------------------------------------------------------------------
(* Conflicts.                                                              *)

\* What analyze starts from: a false clause with a literal of the current level.
LEMMA AnalysisStart ==
    ASSUME (trail \in Seq(Entry))', (seen = {})', (pivot = lit_Undef)', (pathC = 0)',
           (out_learnt = {})', (confl \subseteq Lit)', (index = nAssigns)',
           (decisionLevel > 0)',
           (\A q \in confl : \E i \in 1..nAssigns : trail[i].lit = -q)',
           (\E i \in 1..nAssigns : -trail[i].lit \in confl /\ trail[i].level = decisionLevel)'
    PROVE  AnalyzeInv'
  <1>1. (confl \ {pivot})' = confl'
    BY LitFacts DEF lit_Undef
  <1>2. Marked' = {}
    BY DEF Marked
  <1>3. pathC' = Cardinality(Marked')
    BY <1>2, FS_EmptySet
  <1>4. IsClause(confl')
    BY ClauseIsClause
  <1>5. (nAssigns \in Nat)'
    BY TrailFacts DEF nAssigns
  <1> QED
    BY <1>1, <1>3, <1>4, <1>5 DEF AnalyzeInv

\* A falsified clause starts an analysis with a literal of the current level.
LEMMA PropagateConflictInv ==
    ASSUME SearchInv, PropagateConflict, UNCHANGED formula
    PROVE  SearchInv'
  <1> USE DEF dbVars, trailVars, callVars
  <1>1. trail \in Seq(Entry) /\ trail_lim \in Seq(Nat) /\ TrailInv /\ TrailOK(trail, trail_lim)
    BY DEF SearchInv, TypeOK, TrailInv
  <1>2. PICK c \in DB :
          /\ FoundFalse(c)
          /\ \/ /\ pc = "addClause"
                /\ ok' = FALSE /\ pc' = "idle"
                /\ UNCHANGED <<analyzeVars, status, conflictC, missed, skipped>>
             \/ /\ pc = "search" /\ decisionLevel = 0
                /\ Finish("l_False")
                /\ LeftBehind
                /\ UNCHANGED <<analyzeVars, ok, conflictC>>
             \/ /\ pc = "search" /\ decisionLevel > 0
                /\ conflictC' = conflictC + 1
                /\ confl' = c /\ index' = nAssigns /\ pc' = "analyze"
                /\ UNCHANGED <<pivot, pathC, out_learnt, status, ok, missed, skipped>>
    BY Zenon DEF PropagateConflict
  <1>3. /\ UNCHANGED <<clauses, learnts, decision, cuts, trailVars, forced_split, seen,
                       conflict, model, callVars, stop>>
        /\ UNCHANGED formula
    BY DEF PropagateConflict
  <1>4. c \subseteq Lit /\ c \in Clause /\ Falsified(c) /\ DB \subseteq Clause
    BY <1>2 DEF SearchInv, TypeOK, DB, Clause, FoundFalse
  <1>5. missed \subseteq missed' /\ missed' \subseteq Clause /\ skipped' \in Nat
    <2>1. missed \subseteq Clause /\ skipped \in Nat /\ nAssigns \in Nat
      BY <1>1, SeqFacts DEF SearchInv, TypeOK, nAssigns
    <2>2. CASE UNCHANGED <<missed, skipped>>
      BY <2>1, <2>2
    <2>3. CASE LeftBehind
      BY <1>4, <2>1, <2>3 DEF LeftBehind
    <2> QED
      BY <1>2, <2>2, <2>3, Zenon
  <1>9. TrailInv'
    BY <1>1, <1>3, <1>5, TrailInvUnchanged
  <1>6. CASE pc = "addClause" /\ ok' = FALSE /\ pc' = "idle"
             /\ UNCHANGED <<analyzeVars, status, conflictC>>
    <2>1. ok' \in BOOLEAN
      BY <1>6, Zenon
    <2>2. TypeOK'
      <3>1. UNCHANGED <<analyzeVars, status, conflictC>> /\ pc' = "idle"
        BY <1>6
      <3> QED
        BY <1>3, <1>5, <2>1, <3>1 DEF SearchInv, TypeOK, analyzeVars
    <2>3. CalmInv' /\ Phases' /\ Clean'
      BY <1>3, <1>6 DEF SearchInv, CalmInv, Calm, Phases, Clean, Analysing, analyzeVars
    <2>4. AnalyzeInv' /\ LearnInv' /\ FinalInv'
      BY <1>6 DEF AnalyzeInv, LearnInv, FinalInv
    <2> QED
      BY <1>9, <2>2, <2>3, <2>4 DEF SearchInv
  <1>7. CASE pc = "search" /\ Finish("l_False") /\ UNCHANGED <<analyzeVars, ok, conflictC>>
    <2>1. TypeOK'
      BY <1>3, <1>5, <1>7 DEF SearchInv, TypeOK, analyzeVars, Finish
    <2> QED
      BY <1>3, <1>5, <1>7, <2>1, QuietStep DEF Finish, analyzeVars, Analysing, Calm
  <1>8. CASE /\ pc = "search" /\ decisionLevel > 0
             /\ conflictC' = conflictC + 1
             /\ confl' = c /\ index' = nAssigns /\ pc' = "analyze"
             /\ UNCHANGED <<pivot, pathC, out_learnt, status, ok>>
    <2>1. nAssigns \in Nat /\ DOMAIN trail = 1..nAssigns
      BY <1>1, TrailFacts DEF nAssigns
    <2>2. TypeOK'
      BY <1>3, <1>4, <1>5, <1>8, <2>1 DEF SearchInv, TypeOK
    <2>3. seen = {} /\ pivot = lit_Undef /\ pathC = 0 /\ out_learnt = {}
      BY <1>8 DEF SearchInv, Clean, Analysing
    <2>4. \A q \in c : \E i \in 1..nAssigns : trail[i].lit = -q
      BY <1>4, <2>1 DEF Falsified, TrueLits, LitsOf
    <2>5. \E i \in 1..nAssigns : -trail[i].lit \in c /\ trail[i].level = decisionLevel
      <3>1. lit_Undef \notin TrueLits /\ \A q \in c \ {lit_Undef} : -q \in TrueLits
        BY <1>1, <1>4, UndefNotTrue DEF Falsified
      <3>2. CASE c \in Heard
        BY <1>1, <1>4, <1>8, <3>1, <3>2, CurrentLevel
      <3>3. CASE c \in missed
        <4>1. skipped \in Nat
          BY DEF SearchInv, TypeOK
        <4>2. PICK i \in (skipped + 1)..nAssigns : -trail[i].lit \in c /\ trail[i].level = decisionLevel
          BY <1>2, <3>3 DEF FoundFalse
        <4>3. i \in 1..nAssigns
          BY <2>1, <4>1, <4>2
        <4> QED
          BY <4>2, <4>3
      <3> QED
        BY <3>2, <3>3 DEF Heard
    <2>6. AnalyzeInv'
      <3>1. nAssigns' = nAssigns /\ decisionLevel' = decisionLevel /\ trail' = trail
            /\ confl' = c /\ index' = nAssigns
        BY <1>3, <1>8 DEF nAssigns, decisionLevel
      <3>2. seen' = {} /\ pivot' = lit_Undef /\ pathC' = 0 /\ out_learnt' = {}
        BY <1>3, <1>8, <2>3
      <3> QED
        BY <1>1, <1>4, <1>8, <2>4, <2>5, <3>1, <3>2, AnalysisStart
    <2>7. CalmInv' /\ Phases' /\ Clean'
      BY <1>3, <1>8 DEF SearchInv, CalmInv, Calm, Phases, Clean, Analysing
    <2>8. LearnInv' /\ FinalInv'
      BY <1>8 DEF LearnInv, FinalInv
    <2> QED
      BY <1>9, <2>2, <2>6, <2>7, <2>8 DEF SearchInv
  <1> QED
    BY <1>2, <1>6, <1>7, <1>8

-----------------------------------------------------------------------------
(* Removing clauses.                                                       *)

\* After propagation to the end every clause is settled at the current level.
LEMMA QuiescentSettled ==
    ASSUME trail \in Seq(Entry), trail_lim \in Seq(Nat), TrailOK(trail, trail_lim),
           Quiescent, NEW c \in Heard
    PROVE  Settled(trail, c, decisionLevel)
  <1>1. /\ DOMAIN trail = 1..Len(trail)
        /\ \A i \in DOMAIN trail : trail[i].level <= decisionLevel
    BY TrailFacts DEF TrailOK, decisionLevel
  <1>2. CASE \E p \in c : p \in TrueLits
    BY <1>1, <1>2 DEF Settled, TrueLits, LitsOf
  <1>3. CASE ~ \E p \in c : p \in TrueLits
    <2>1. PICK p \in c : -p \notin TrueLits
      BY DEF Quiescent, Falsified
    <2>2. ~ Falsified(c \ {p})
      BY <1>3, <2>1 DEF Quiescent, UnitIn, Unassigned
    <2>3. PICK q \in c \ {p} : -q \notin TrueLits
      BY <2>2 DEF Falsified
    <2>4. \A r : -r \notin TrueLits => Open(trail, r, decisionLevel)
      BY DEF Open, TrueLits, LitsOf
    <2> QED
      BY <2>1, <2>3, <2>4 DEF Settled
  <1> QED
    BY <1>2, <1>3

\* A trail with the same literals and levels, of which some reasons are gone.
LEMMA RelabelOK ==
    ASSUME NEW t \in Seq(Entry), NEW u \in Seq(Entry), NEW tl \in Seq(Nat), TrailOK(t, tl),
           Len(u) = Len(t),
           \A i \in 1..Len(t) : u[i].lit = t[i].lit /\ u[i].level = t[i].level
    PROVE  TrailOK(u, tl) /\ \A k \in Nat : SameUpTo(t, u, k)
  <1>1. DOMAIN t = 1..Len(t) /\ DOMAIN u = 1..Len(t)
    BY TrailFacts
  <1>2. TrailOK(u, tl)
    BY <1>1 DEF TrailOK
  <1>3. \A k \in Nat : SameUpTo(t, u, k)
    BY <1>1 DEF SameUpTo
  <1> QED
    BY <1>2, <1>3

\* Deleting clauses frees no reason: reduceDB skips the locked ones, and simplify
\* resets the reasons of level 0 that it frees.
LEMMA TidyDBInv ==
    ASSUME SearchInv, TidyDB, UNCHANGED formula
    PROVE  SearchInv'
  <1> USE DEF dbVars, trailVars, analyzeVars, resultVars, callVars
  <1>1. trail \in Seq(Entry) /\ trail_lim \in Seq(Nat) /\ TrailInv /\ TrailOK(trail, trail_lim)
    BY DEF SearchInv, TypeOK, TrailInv
  <1>2. /\ DOMAIN trail = 1..Len(trail) /\ Len(trail) \in Nat /\ decisionLevel \in Nat
        /\ \A i \in 1..Len(trail) : /\ trail[i] \in Entry /\ trail[i].level \in Nat
                                    /\ trail[i].level <= decisionLevel
    BY <1>1, TrailFacts, SeqFacts DEF decisionLevel, TrailOK
  <1>3. /\ pc = "search" /\ pc' = "check" /\ Quiescent
        /\ UNCHANGED <<clauses, decision, cuts, missed, skipped, trail_lim, forced_split, seen,
                       analyzeVars, resultVars, callVars, conflictC, ok, stop, formula>>
    BY DEF TidyDB
  <1>4. PICK sat \in {{}, IF decisionLevel = 0 THEN {c \in learnts : Satisfied(c)} ELSE {}} :
          /\ trail' = [i \in DOMAIN trail |->
                         IF trail[i].reason \in sat
                           THEN [trail[i] EXCEPT !.reason = CRef_Undef] ELSE trail[i]]
          /\ \E gone \in SUBSET {c \in learnts \ sat : Cardinality(c) > 2 /\ ~ locked(c)} :
                learnts' = (learnts \ sat) \ gone
    BY DEF TidyDB
  <1>5. PICK gone \in SUBSET {c \in learnts \ sat : Cardinality(c) > 2 /\ ~ locked(c)} :
             learnts' = (learnts \ sat) \ gone
    BY <1>4
  <1>6. sat # {} => decisionLevel = 0
    BY <1>4
  <1>7. \A i \in 1..Len(trail) : /\ trail'[i] \in Entry
                                 /\ trail'[i].lit = trail[i].lit
                                 /\ trail'[i].level = trail[i].level
                                 /\ IF trail[i].reason \in sat
                                      THEN trail'[i].reason = CRef_Undef
                                      ELSE trail'[i].reason = trail[i].reason
    <2> TAKE i \in 1..Len(trail)
    <2>1. trail[i] \in Entry /\ i \in DOMAIN trail
      BY <1>2
    <2>2. trail'[i] = IF trail[i].reason \in sat
                        THEN [trail[i] EXCEPT !.reason = CRef_Undef] ELSE trail[i]
      BY <1>4, <2>1
    <2> QED
      BY <2>1, <2>2 DEF Entry
  <1>8. trail' \in Seq(Entry) /\ Len(trail') = Len(trail) /\ DOMAIN trail' = 1..Len(trail)
    <2>1. trail' \in [1..Len(trail) -> Entry]
      BY <1>2, <1>4, <1>7
    <2> QED
      BY <2>1, <1>2, SeqDef
  <1>9. /\ DB' \subseteq DB /\ Heard' \subseteq Heard
        /\ DB \subseteq Clause /\ learnts' \subseteq Clause
    BY <1>3, <1>5 DEF DB, Heard, SearchInv, TypeOK
  <1>10. TypeOK'
    BY <1>3, <1>8, <1>9 DEF SearchInv, TypeOK
  <1>11. TrailOK(trail', trail_lim') /\ \A k \in Nat : SameUpTo(trail, trail', k)
    BY <1>1, <1>3, <1>7, <1>8, RelabelOK
  <1>12. ReasonsOK(trail', DB')
    <2> SUFFICES ASSUME NEW i \in 1..Len(trail), IsClause(trail'[i].reason)
                 PROVE  /\ trail'[i].lit \in trail'[i].reason /\ trail'[i].reason \in DB'
                        /\ \A q \in trail'[i].reason \ {trail'[i].lit} :
                              \E j \in 1..(i - 1) : trail'[j].lit = -q
                        /\ trail'[i].level > 0 =>
                              \E j \in 1..(i - 1) : /\ -trail'[j].lit \in trail'[i].reason
                                                    /\ trail'[j].level = trail'[i].level
      BY <1>8 DEF ReasonsOK
    <2>1. trail[i].reason \notin sat /\ trail'[i].reason = trail[i].reason
      BY <1>7 DEF IsClause
    <2>2. /\ trail[i].lit \in trail[i].reason /\ trail[i].reason \in DB
          /\ \A q \in trail[i].reason \ {trail[i].lit} : \E j \in 1..(i - 1) : trail[j].lit = -q
          /\ trail[i].level > 0 => \E j \in 1..(i - 1) : /\ -trail[j].lit \in trail[i].reason
                                                         /\ trail[j].level = trail[i].level
      BY <1>1, <1>2, <2>1 DEF TrailInv, ReasonsOK
    <2>3. locked(trail[i].reason)
      BY <1>2 DEF locked
    <2>4. trail[i].reason \in DB'
      BY <1>3, <1>5, <2>1, <2>2, <2>3 DEF DB
    <2>5. \A j \in 1..(i - 1) : trail'[j].lit = trail[j].lit /\ trail'[j].level = trail[j].level
      BY <1>2, <1>7
    <2> QED
      BY <1>7, <2>1, <2>2, <2>4, <2>5
  <1>13. DecisionsFirst(trail')
    <2> SUFFICES ASSUME NEW i \in 1..Len(trail),
                        trail'[i].reason = CRef_Undef, trail'[i].level > 0,
                        NEW j \in 1..(i - 1)
                 PROVE  trail'[j].level < trail'[i].level
      BY <1>8 DEF DecisionsFirst
    <2>1. trail[i].level > 0 /\ trail[i].level <= decisionLevel
      BY <1>2, <1>7
    <2>2. sat = {}
      BY <1>2, <1>6, <2>1
    <2>3. trail[i].reason = CRef_Undef
      BY <1>7, <2>2
    <2>4. trail[j].level < trail[i].level
      BY <1>1, <1>2, <2>1, <2>3 DEF TrailInv, DecisionsFirst
    <2>5. j \in 1..Len(trail)
      BY <1>2
    <2> QED
      BY <1>7, <2>4, <2>5
  <1>14. LevelsSettled(trail', Heard', decisionLevel + 1)
    <2> SUFFICES ASSUME NEW c \in Heard', NEW k \in 0..decisionLevel
                 PROVE  Settled(trail', c, k)
      BY <1>2, LevelsUpTo
    <2>1. c \in Heard /\ k \in Nat
      BY <1>9
    <2>2. Settled(trail, c, k)
      <3>1. CASE k = decisionLevel
        BY <1>1, <1>3, <2>1, <3>1, QuiescentSettled
      <3>2. CASE k # decisionLevel
        <4>1. k \in 0..(decisionLevel - 1)
          BY <1>2, <3>2
        <4> QED
          BY <1>1, <2>1, <4>1 DEF TrailInv, LevelsSettled
      <3> QED
        BY <3>1, <3>2
    <2> QED
      BY <1>1, <1>8, <1>11, <2>1, <2>2, SettledSame
  <1>15. decisionLevel' = decisionLevel
    BY <1>3 DEF decisionLevel
  <1>16. LevelsSettled(trail', Heard', decisionLevel)
    BY <1>2, <1>14, LevelsUpTo
  <1>17. TrailInv' /\ CalmInv'
    BY <1>11, <1>12, <1>13, <1>14, <1>15, <1>16 DEF TrailInv, CalmInv
  <1>18. Phases' /\ Clean'
    BY <1>3 DEF SearchInv, Phases, Clean, Analysing
  <1>19. AnalyzeInv' /\ LearnInv' /\ FinalInv'
    BY <1>3 DEF AnalyzeInv, LearnInv, FinalInv
  <1> QED
    BY <1>10, <1>17, <1>18, <1>19 DEF SearchInv

-----------------------------------------------------------------------------
(* Adding clauses, and the theory.                                         *)

\* More clauses do not spoil a reason.
LEMMA ReasonsMono ==
    ASSUME NEW t, NEW db, NEW db2, ReasonsOK(t, db), db \subseteq db2
    PROVE  ReasonsOK(t, db2)
  BY DEF ReasonsOK

\* A clause attached at level 0 has no level below it to be settled at.
LEMMA AddOriginalClauseInv ==
    ASSUME SearchInv, NEW c \in NewClauses, AddOriginalClause(c)
    PROVE  SearchInv'
  <1> USE DEF analyzeVars, resultVars, callVars
  <1> DEFINE ps == {p \in c : Unassigned(p)}
  <1>1. trail \in Seq(Entry) /\ trail_lim \in Seq(Nat) /\ TrailInv /\ TrailOK(trail, trail_lim)
    BY DEF SearchInv, TypeOK, TrailInv
  <1>2. /\ pc = "idle" /\ trail_lim = <<>> /\ formula' = formula \cup {c}
        /\ decision' = Declared(c)
        /\ UNCHANGED <<learnts, cuts, missed, skipped, trail_lim, forced_split, seen,
                       analyzeVars, resultVars, callVars, conflictC, stop>>
    BY DEF AddOriginalClause, SearchInv, Phases
  <1>3. decisionLevel = 0 /\ decisionLevel' = 0
    BY <1>2 DEF decisionLevel
  <1>4. c \in Clause /\ c \subseteq Lit /\ Declared(c) \subseteq Vars
    BY InputAssumption, LitFacts DEF Clause, Declared, SearchInv, TypeOK
  <1>5. \/ UNCHANGED <<clauses, trail, ok, pc>>
        \/ ok' = FALSE /\ UNCHANGED <<clauses, trail, pc>>
        \/ \E p \in ps : /\ trail' = Enqueued(trail, p, 0, CRef_Undef)
                         /\ pc' = "addClause"
                         /\ UNCHANGED <<clauses, ok>>
        \/ clauses' = clauses \cup {ps} /\ UNCHANGED <<trail, ok, pc>>
    BY Zenon DEF AddOriginalClause
  <1>6. pc' \in {"idle", "addClause"}
    BY <1>2, <1>5
  <1>7. ok' \in BOOLEAN
    <2>1. ok \in BOOLEAN
      BY Zenon DEF SearchInv, TypeOK
    <2>2. ok' = ok \/ ok' = FALSE
      BY <1>5, Zenon
    <2> QED
      BY <2>1, <2>2, Zenon
  <1>8. clauses' \subseteq Clause
    <2>1. ps \in Clause /\ clauses \subseteq Clause
      BY <1>4 DEF Clause, SearchInv, TypeOK
    <2>2. clauses' = clauses \/ clauses' = clauses \cup {ps}
      BY <1>5, Zenon
    <2> QED
      BY <2>1, <2>2
  <1>9. trail' \in Seq(Entry) /\ TrailInv'
    <2>1. CASE UNCHANGED <<clauses, trail>>
      BY <1>1, <1>2, <2>1, TrailInvUnchanged
    <2>2. CASE \E p \in ps : trail' = Enqueued(trail, p, 0, CRef_Undef) /\ clauses' = clauses
      <3>1. PICK p \in ps : trail' = Enqueued(trail, p, 0, CRef_Undef) /\ clauses' = clauses
        BY <2>2
      <3>2. p \in Lit /\ Unassigned(p) /\ ~ IsClause(CRef_Undef)
        BY <1>4 DEF IsClause
      <3> QED
        BY <1>1, <1>2, <1>3, <3>1, <3>2, EnqueueStep
    <2>3. CASE clauses' = clauses \cup {ps} /\ trail' = trail
      <3>1. DB \subseteq DB'
        BY <1>2, <2>3 DEF DB
      <3>2. ReasonsOK(trail', DB')
        BY <3>1, <2>3, ReasonsMono DEF TrailInv, SearchInv
      <3>3. LevelsSettled(trail', Heard', decisionLevel')
        BY <1>3 DEF LevelsSettled
      <3> QED
        BY <1>1, <1>2, <2>3, <3>2, <3>3 DEF TrailInv
    <2> QED
      BY <1>5, <2>1, <2>2, <2>3, Zenon
  <1>10. TypeOK'
    BY <1>2, <1>4, <1>6, <1>7, <1>8, <1>9 DEF SearchInv, TypeOK
  <1>11. CalmInv' /\ Phases' /\ Clean'
    BY <1>2, <1>6 DEF SearchInv, CalmInv, Calm, Phases, Clean, Analysing
  <1>12. AnalyzeInv' /\ LearnInv' /\ FinalInv'
    BY <1>6 DEF AnalyzeInv, LearnInv, FinalInv
  <1> QED
    BY <1>9, <1>10, <1>11, <1>12 DEF SearchInv

\* A theory deduction enqueues a free literal at the current level.
LEMMA TheoryDeduceInv ==
    ASSUME SearchInv, TheoryDeduce, UNCHANGED formula
    PROVE  SearchInv'
  <1> USE DEF dbVars, analyzeVars, resultVars, callVars
  <1>1. trail \in Seq(Entry) /\ trail_lim \in Seq(Nat) /\ TrailInv
    BY DEF SearchInv, TypeOK
  <1>2. pc \in {"start", "check", "complete", "deduce"} /\ pc' = "deduce"
    BY DEF TheoryDeduce, Checking
  <1>3. PICK p \in Lit : Unassigned(p) /\ trail' = Enqueued(trail, p, decisionLevel, CRef_Fake)
    BY DEF TheoryDeduce
  <1>4. trail' \in Seq(Entry) /\ TrailInv'
    <2>1. UNCHANGED <<trail_lim, clauses, learnts, missed>>
      BY DEF TheoryDeduce
    <2>2. ~ IsClause(CRef_Fake) /\ CRef_Fake # CRef_Undef
      BY CRefAssumption DEF IsClause
    <2> QED
      BY <1>1, <1>3, <2>1, <2>2, EnqueueStep
  <1>5. TypeOK'
    BY <1>4 DEF SearchInv, TheoryDeduce, TypeOK
  <1>6. CalmInv' /\ Phases' /\ Clean'
    BY <1>2 DEF SearchInv, TheoryDeduce, CalmInv, Calm, Phases, Clean, Analysing
  <1>7. AnalyzeInv' /\ LearnInv' /\ FinalInv'
    BY <1>2 DEF AnalyzeInv, LearnInv, FinalInv
  <1> QED
    BY <1>4, <1>5, <1>6, <1>7 DEF SearchInv

\* A split consists of two literals over different variables.
LEMMA SplitFacts ==
    \A s \in Splits : /\ s[1] \in Lit /\ s[2] \in Lit /\ var(s[1]) # var(s[2])
                      /\ s[1] # s[2] /\ {s[1], s[2]} \in Clause
  <1>1. \A s \in Splits : s[1] \in Lit /\ s[2] \in Lit /\ var(s[1]) # var(s[2])
    BY SplitsAssumption
  <1> QED
    BY <1>1 DEF Clause

\* The new clause has two unassigned literals: it is settled at every level.
LEMMA TheorySplitInv ==
    ASSUME SearchInv, TheorySplit, UNCHANGED formula
    PROVE  SearchInv'
  <1> USE DEF trailVars, analyzeVars, resultVars, callVars
  <1>1. trail \in Seq(Entry) /\ trail_lim \in Seq(Nat) /\ TrailInv
    BY DEF SearchInv, TypeOK
  <1>2. /\ pc \in {"start", "check", "complete"}
        /\ pc' \in {"search", "assume", "branch2"}
        /\ pc = "start" => pc' = "search"
    BY AfterDecideFacts DEF TheorySplit
  <1>3. /\ UNCHANGED <<learnts, missed, skipped, trailVars, seen, analyzeVars, resultVars,
                       callVars, conflictC, ok, stop, formula>>
    BY DEF TheorySplit
  <1>4. PICK s \in Splits : /\ Unassigned(s[1]) /\ Unassigned(s[2])
                            /\ cuts' = cuts \cup {s}
                            /\ decision' = decision \cup {var(s[1]), var(s[2])}
                            /\ clauses' = clauses \cup {{s[1], s[2]}}
                            /\ forced_split' = -s[1]
    BY DEF TheorySplit
  <1>5. /\ s[1] \in Lit /\ s[2] \in Lit /\ s[1] # s[2] /\ {s[1], s[2]} \in Clause
        /\ -s[1] \in Lit /\ var(s[1]) \in Vars /\ var(s[2]) \in Vars
    BY SplitFacts, LitFacts
  <1>6. TypeOK'
    BY <1>2, <1>3, <1>4, <1>5 DEF SearchInv, TypeOK
  <1>7. /\ DB' = DB \cup {{s[1], s[2]}} /\ Heard' \subseteq Heard \cup {{s[1], s[2]}}
        /\ decisionLevel' = decisionLevel
    BY <1>3, <1>4 DEF DB, Heard, decisionLevel
  <1>8. \A k : Settled(trail, {s[1], s[2]}, k)
    <2> SUFFICES ASSUME NEW k
                 PROVE  Settled(trail, {s[1], s[2]}, k)
      OBVIOUS
    <2>1. Open(trail, s[1], k) /\ Open(trail, s[2], k)
      BY <1>4 DEF Open, Unassigned, TrueLits, LitsOf
    <2> QED
      BY <1>5, <2>1 DEF Settled
  <1>9. ASSUME NEW n, LevelsSettled(trail, Heard, n)
        PROVE  LevelsSettled(trail', Heard', n)
    BY <1>3, <1>7, <1>8, <1>9 DEF LevelsSettled
  <1>10. TrailInv'
    <2>1. ReasonsOK(trail', DB')
      BY <1>3, <1>7, ReasonsMono DEF TrailInv, SearchInv
    <2> QED
      BY <1>1, <1>3, <1>7, <1>9, <2>1 DEF TrailInv
  <1>11. CalmInv'
    BY <1>2, <1>7, <1>9 DEF SearchInv, CalmInv, Calm
  <1>12. Phases' /\ Clean'
    BY <1>2, <1>3 DEF SearchInv, Phases, Clean, Analysing
  <1>13. AnalyzeInv' /\ LearnInv' /\ FinalInv'
    BY <1>2 DEF AnalyzeInv, LearnInv, FinalInv
  <1> QED
    BY <1>6, <1>10, <1>11, <1>12, <1>13 DEF SearchInv

-----------------------------------------------------------------------------
(* Backjumps.                                                              *)

\* cancelUntil(lev) by itself.
LEMMA CancelStep ==
    ASSUME trail \in Seq(Entry), trail_lim \in Seq(Nat), TrailInv,
           NEW lev \in 0..decisionLevel,
           trail' = KeptTrail(lev), trail_lim' = KeptLim(lev), UNCHANGED <<clauses, learnts, missed>>
    PROVE  /\ trail' \in Seq(Entry) /\ trail_lim' \in Seq(Nat)
           /\ decisionLevel' = lev /\ TrailInv'
  <1>1. TrailOK(trail, trail_lim)
    BY DEF TrailInv
  <1>2. /\ trail' \in Seq(Entry) /\ trail_lim' \in Seq(Nat)
        /\ TrailOK(trail', trail_lim') /\ Len(trail_lim') = lev
    BY <1>1, KeptFacts
  <1>3. ReasonsOK(trail', DB) /\ DecisionsFirst(trail') /\ LevelsSettled(trail', Heard, lev)
    BY CancelInv
  <1>4. DB' = DB /\ Heard' = Heard /\ decisionLevel' = lev
    BY <1>2 DEF DB, Heard, decisionLevel
  <1> QED
    BY <1>2, <1>3, <1>4 DEF TrailInv

\* After cancelUntil(lev) the variable of p is free; the clause r, of db, implies
\* p there; and the clause c has two literals that are not false below lev.
FreedAt(lev, p) == \A i \in 1..nAssigns : var(trail[i].lit) = var(p) => trail[i].level > lev

ImpliesAt(lev, r, p, db) ==
    /\ p \in r /\ r \in db
    /\ \A q \in r \ {p} : \E i \in 1..nAssigns : trail[i].lit = -q /\ trail[i].level <= lev
    /\ lev > 0 => \E i \in 1..nAssigns : -trail[i].lit \in r /\ trail[i].level = lev

OpenBelow(lev, c) ==
    \E a, b \in c :
       /\ a # b
       /\ \A i \in 1..nAssigns : trail[i].lit \in {-a, -b} => trail[i].level >= lev

\* cancelUntil(lev), then a literal implied at that level, possibly by a clause
\* that is added in the same step.
LEMMA BackjumpStep ==
    ASSUME trail \in Seq(Entry), trail_lim \in Seq(Nat), TrailInv,
           NEW lev \in 0..decisionLevel, NEW p \in Lit,
           NEW r \in {CRef_Undef, CRef_Fake} \cup Clause, NEW added,
           trail' = Enqueued(KeptTrail(lev), p, lev, r), trail_lim' = KeptLim(lev),
           DB' = DB \cup added, missed' = missed,
           FreedAt(lev, p),
           r = CRef_Undef => lev = 0,
           IsClause(r) => ImpliesAt(lev, r, p, DB'),
           \A c \in added : OpenBelow(lev, c)
    PROVE  /\ trail' \in Seq(Entry) /\ trail_lim' \in Seq(Nat)
           /\ decisionLevel' = lev /\ TrailInv'
  <1> DEFINE t == KeptTrail(lev)
  <1>1. TrailOK(trail, trail_lim)
    BY DEF TrailInv
  <1>2. /\ t \in Seq(Entry) /\ KeptLim(lev) \in Seq(Nat)
        /\ TrailOK(t, KeptLim(lev)) /\ Len(KeptLim(lev)) = lev
        /\ Len(t) \in 0..nAssigns
        /\ \A i \in 1..Len(t) : t[i] = trail[i] /\ trail[i].level <= lev
        /\ \A i \in 1..nAssigns : trail[i].level <= lev => i \in 1..Len(t)
    BY <1>1, KeptFacts
  <1>3. ReasonsOK(t, DB) /\ DecisionsFirst(t) /\ LevelsSettled(t, Heard, lev)
    BY CancelInv
  <1>4. /\ nAssigns \in Nat /\ decisionLevel \in Nat /\ lev \in Nat
        /\ DOMAIN t = 1..Len(t) /\ DOMAIN trail = 1..nAssigns
        /\ \A i \in 1..nAssigns : trail[i].level \in Nat
    BY <1>2, TrailFacts, SeqFacts DEF nAssigns, decisionLevel
  <1>5. \A i \in 1..Len(t) : i \in 1..nAssigns
    BY <1>2, <1>4
  <1> HIDE DEF t
  <1>6. trail' = Enqueued(t, p, lev, r)
    BY DEF t
  <1>7. trail' \in Seq(Entry)
    BY <1>2, <1>4, <1>6, EnqueuedFacts
  <1>8. TrailOK(trail', trail_lim')
    <2>1. \A i \in 1..Len(t) : var(t[i].lit) # var(p)
      <3> TAKE i \in 1..Len(t)
      <3>1. i \in 1..nAssigns /\ t[i] = trail[i] /\ trail[i].level <= lev
        BY <1>2, <1>5
      <3>2. ~ (trail[i].level > lev)
        BY <3>1, <1>4
      <3> QED
        BY <3>1, <3>2 DEF FreedAt
    <2> QED
      BY <2>1, <1>2, <1>6, EnqueueOK
  <1>9. ReasonsOK(trail', DB')
    <2>1. IsClause(r) =>
             /\ \A q \in r \ {p} : \E i \in 1..Len(t) : t[i].lit = -q
             /\ lev > 0 => \E i \in 1..Len(t) : -t[i].lit \in r /\ t[i].level = lev
      <3> SUFFICES ASSUME IsClause(r)
                   PROVE  /\ \A q \in r \ {p} : \E i \in 1..Len(t) : t[i].lit = -q
                          /\ lev > 0 =>
                                \E i \in 1..Len(t) : -t[i].lit \in r /\ t[i].level = lev
        OBVIOUS
      <3>1. \A q \in r \ {p} : \E i \in 1..Len(t) : t[i].lit = -q
        BY <1>2 DEF ImpliesAt
      <3>2. ASSUME lev > 0
            PROVE  \E i \in 1..Len(t) : -t[i].lit \in r /\ t[i].level = lev
        <4>1. PICK i \in 1..nAssigns : -trail[i].lit \in r /\ trail[i].level = lev
          BY <3>2 DEF ImpliesAt
        <4>2. i \in 1..Len(t)
          BY <4>1, <1>2, <1>4
        <4> QED
          BY <4>1, <4>2, <1>2
      <3> QED
        BY <3>1, <3>2
    <2>2. DB \subseteq DB' /\ (IsClause(r) => p \in r /\ r \in DB')
      BY DEF ImpliesAt
    <2>3. ReasonsOK(Enqueued(t, p, lev, r), DB')
      BY <2>1, <2>2, <1>2, <1>3, <1>4, EnqueueReasons DEF Supports
    <2> QED
      BY <2>3, <1>6
  <1>10. DecisionsFirst(trail')
    <2>1. ~ (r = CRef_Undef /\ lev > 0)
      BY <1>4
    <2> QED
      BY <2>1, <1>2, <1>3, <1>4, <1>6, EnqueueDecisions
  <1>11. LevelsSettled(trail', Heard', lev)
    <2> SUFFICES ASSUME NEW c \in Heard', NEW k \in 0..(lev - 1)
                 PROVE  Settled(trail', c, k)
      BY DEF LevelsSettled
    <2>0. c \in Heard \/ c \in added
      BY DEF Heard
    <2>1. k \in Nat /\ k < lev
      BY <1>4
    <2>2. SameUpTo(t, trail', k)
      BY <2>1, <1>2, <1>4, <1>6, EnqueuedSame
    <2>3. Settled(t, c, k)
      <3>1. CASE c \in Heard
        BY <3>1, <1>3 DEF LevelsSettled
      <3>2. CASE c \in added
        <4>1. PICK a, b \in c :
                 /\ a # b
                 /\ \A i \in 1..nAssigns : trail[i].lit \in {-a, -b} => trail[i].level >= lev
          BY <3>2 DEF OpenBelow
        <4>2. \A i \in 1..Len(t) : t[i].lit \in {-a, -b} => t[i].level > k
          BY <4>1, <2>1, <1>2, <1>4, <1>5
        <4>3. Open(t, a, k) /\ Open(t, b, k)
          BY <4>2, <1>4 DEF Open
        <4> QED
          BY <4>1, <4>3 DEF Settled
      <3> QED
        BY <2>0, <3>1, <3>2
    <2> QED
      BY <2>1, <2>2, <2>3, <1>2, <1>7, SettledSame
  <1>12. decisionLevel' = lev /\ trail_lim' \in Seq(Nat)
    BY <1>2 DEF decisionLevel
  <1> QED
    BY <1>7, <1>8, <1>9, <1>10, <1>11, <1>12 DEF TrailInv

\* A split whose one literal is false implies the other at the level of the first.
LEMMA TheorySplitImpliedInv ==
    ASSUME SearchInv, TheorySplitImplied, UNCHANGED formula
    PROVE  SearchInv'
  <1> USE DEF analyzeVars, resultVars, callVars
  <1>1. trail \in Seq(Entry) /\ trail_lim \in Seq(Nat) /\ TrailInv /\ TrailOK(trail, trail_lim)
    BY DEF SearchInv, TypeOK, TrailInv
  <1>2. pc \in {"start", "check", "complete"} /\ pc' = "search"
    BY DEF TheorySplitImplied, Checking
  <1>3. UNCHANGED <<learnts, missed, skipped, forced_split, seen, analyzeVars, resultVars,
                    callVars, conflictC, ok, stop, formula>>
    BY DEF TheorySplitImplied
  <1> DEFINE Implied(s, lf, li) ==
          /\ -lf \in TrueLits /\ Unassigned(li)
          /\ cuts' = cuts \cup {s}
          /\ decision' = decision \cup {var(lf), var(li)}
          /\ clauses' = IF LevelOf(var(lf)) = 0 THEN clauses ELSE clauses \cup {{lf, li}}
          /\ trail' = Enqueued(KeptTrail(LevelOf(var(lf))), li, LevelOf(var(lf)),
                               IF LevelOf(var(lf)) = 0 THEN CRef_Undef ELSE {lf, li})
          /\ trail_lim' = KeptLim(LevelOf(var(lf)))
  <1>4a. PICK s \in Splits \ cuts :
            \E lf \in {s[1], s[2]} : \E li \in {s[1], s[2]} \ {lf} : Implied(s, lf, li)
    BY DEF TheorySplitImplied
  <1>4b. PICK lf \in {s[1], s[2]} : \E li \in {s[1], s[2]} \ {lf} : Implied(s, lf, li)
    BY <1>4a
  <1>4. PICK li \in {s[1], s[2]} \ {lf} : Implied(s, lf, li)
    BY <1>4b
  <1> DEFINE lev == LevelOf(var(lf))
             r == IF lev = 0 THEN CRef_Undef ELSE {lf, li}
             added == IF lev = 0 THEN {} ELSE {{lf, li}}
  <1>5. /\ lf \in Lit /\ li \in Lit /\ lf # li /\ {lf, li} \in Clause
        /\ var(lf) \in Vars /\ var(li) \in Vars
    <2>1. lf \in Lit /\ li \in Lit /\ lf # li
      BY SplitFacts
    <2> QED
      BY <2>1, LitFacts DEF Clause
  <1>6. /\ DOMAIN trail = 1..nAssigns /\ nAssigns \in Nat /\ decisionLevel \in Nat
        /\ \A i \in 1..nAssigns : /\ trail[i].level \in Nat /\ trail[i].lit \in Lit
                                  /\ trail[i].level <= decisionLevel
    BY <1>1, TrailFacts, SeqFacts DEF nAssigns, decisionLevel, TrailOK
  <1>7. PICK n \in 1..nAssigns : trail[n].lit = -lf
    BY <1>4, <1>6 DEF TrueLits, LitsOf
  <1>8. trail[n].level = lev /\ lev \in 0..decisionLevel /\ -trail[n].lit = lf
    <2>1. trail[n].level = lev
      BY <1>1, <1>5, <1>7, LevelOfLit
    <2>2. -trail[n].lit = lf
      BY <1>5, <1>7, LitFacts
    <2> QED
      BY <2>1, <2>2, <1>6
  <1>9. \A i \in 1..nAssigns : trail[i].lit \in {-lf, -li} => trail[i].level >= lev
    <2> SUFFICES ASSUME NEW i \in 1..nAssigns, trail[i].lit \in {-lf, -li}
                 PROVE  trail[i].level >= lev
      OBVIOUS
    <2>1. trail[i].lit # -li
      BY <1>4, <1>6 DEF Unassigned, TrueLits, LitsOf
    <2>2. trail[i].level = lev
      BY <1>1, <1>5, <2>1, LevelOfLit
    <2> QED
      BY <2>2, <1>6
  <1>10. FreedAt(lev, li)
    BY <1>1, <1>4, <1>5, UnassignedVar DEF FreedAt
  <1> HIDE DEF lev
  <1>11. DB' = DB \cup added /\ missed' = missed
    BY <1>3, <1>4 DEF DB, lev
  <1>12. r \in {CRef_Undef, CRef_Fake} \cup Clause /\ (r = CRef_Undef => lev = 0)
    BY <1>5, ClauseIsClause DEF IsClause
  <1>13. IsClause(r) => ImpliesAt(lev, r, li, DB')
    <2> SUFFICES ASSUME IsClause(r)
                 PROVE  ImpliesAt(lev, r, li, DB')
      OBVIOUS
    <2>1. r = {lf, li} /\ added = {{lf, li}}
      BY DEF IsClause
    <2>2. trail[n].level <= lev
      BY <1>6, <1>8
    <2> QED
      BY <2>1, <2>2, <1>7, <1>8, <1>11 DEF ImpliesAt
  <1>14. \A c \in added : OpenBelow(lev, c)
    <2>1. \A c \in added : c = {lf, li}
      OBVIOUS
    <2> QED
      BY <2>1, <1>5, <1>9 DEF OpenBelow
  <1>15. trail' = Enqueued(KeptTrail(lev), li, lev, r) /\ trail_lim' = KeptLim(lev)
    BY <1>4 DEF lev
  <1> HIDE DEF r, added
  <1>16. /\ trail' \in Seq(Entry) /\ trail_lim' \in Seq(Nat)
         /\ decisionLevel' = lev /\ TrailInv'
    BY <1>1, <1>5, <1>8, <1>10, <1>11, <1>12, <1>13, <1>14, <1>15, BackjumpStep
  <1>17. TypeOK'
    <2>1. clauses' \subseteq Clause
      BY <1>4, <1>5 DEF SearchInv, TypeOK, lev
    <2>2. decision' \subseteq Vars /\ cuts' \subseteq Splits
      BY <1>4, <1>5 DEF SearchInv, TypeOK
    <2> QED
      BY <1>2, <1>3, <1>16, <2>1, <2>2 DEF SearchInv, TypeOK
  <1>18. CalmInv' /\ Phases' /\ Clean'
    BY <1>2, <1>3 DEF SearchInv, CalmInv, Calm, Phases, Clean, Analysing
  <1>19. AnalyzeInv' /\ LearnInv' /\ FinalInv'
    BY <1>2 DEF AnalyzeInv, LearnInv, FinalInv
  <1> QED
    BY <1>16, <1>17, <1>18, <1>19 DEF SearchInv

-----------------------------------------------------------------------------
(* Assumptions, decisions and the final conflict.                          *)

\* pickBranchLit returns literals.
LEMMA CandidatesFacts ==
    ASSUME SearchInv
    PROVE  Candidates \subseteq Lit
  BY DEF Candidates, SearchInv, TypeOK, lit_Undef

\* A decision opens a level over a settled one.
LEMMA DecideInv ==
    ASSUME SearchInv, Decide, UNCHANGED formula
    PROVE  SearchInv'
  <1> USE DEF dbVars, analyzeVars, resultVars, callVars
  <1>1. trail \in Seq(Entry) /\ trail_lim \in Seq(Nat) /\ TrailInv
    BY DEF SearchInv, TypeOK
  <1>2. pc \in {"branch", "branch2"} /\ pc' = "search"
    BY DEF Decide, Branching
  <1>3. /\ UNCHANGED <<dbVars, seen, analyzeVars, resultVars, callVars, conflictC, ok, stop,
                       formula>>
        /\ forced_split' = lit_Undef
    BY DEF Decide
  <1>4. PICK p \in Candidates :
          IF Unassigned(p)
            THEN /\ trail_lim' = Append(trail_lim, nAssigns)
                 /\ trail' = Enqueued(trail, p, decisionLevel + 1, CRef_Undef)
            ELSE UNCHANGED trailVars
    BY DEF Decide
  <1>5. trail' \in Seq(Entry) /\ trail_lim' \in Seq(Nat) /\ TrailInv'
    <2>1. CASE Unassigned(p)
      <3>1. LevelsSettled(trail, Heard, decisionLevel + 1)
        BY <1>2 DEF SearchInv, CalmInv, Calm
      <3>2. p \in Lit
        BY CandidatesFacts
      <3> QED
        BY <1>1, <1>3, <1>4, <2>1, <3>1, <3>2, DecisionStep
    <2>2. CASE ~ Unassigned(p)
      BY <1>1, <1>3, <1>4, <2>2, TrailInvUnchanged DEF trailVars
    <2> QED
      BY <2>1, <2>2
  <1>6. TypeOK'
    BY <1>2, <1>3, <1>5 DEF SearchInv, TypeOK
  <1>7. CalmInv' /\ Phases' /\ Clean'
    BY <1>2, <1>3 DEF SearchInv, CalmInv, Calm, Phases, Clean, Analysing
  <1>8. AnalyzeInv' /\ LearnInv' /\ FinalInv'
    BY <1>2 DEF AnalyzeInv, LearnInv, FinalInv
  <1> QED
    BY <1>5, <1>6, <1>7, <1>8 DEF SearchInv

\* A second assumption is refuted above level 0 only in a call that has two, and
\* CleanCalls makes that the last call.
LEMMA AssumeNextInv ==
    ASSUME CleanCalls, SearchInv, AssumeNext, UNCHANGED formula
    PROVE  SearchInv'
  <1> USE DEF dbVars, callVars
  <1> DEFINE p == assumptions[decisionLevel + 1]
  <1>1. trail \in Seq(Entry) /\ trail_lim \in Seq(Nat) /\ TrailInv /\ TrailOK(trail, trail_lim)
    BY DEF SearchInv, TypeOK, TrailInv
  <1>2. /\ pc = "assume" /\ decisionLevel < Len(assumptions)
        /\ UNCHANGED <<dbVars, forced_split, confl, pathC, out_learnt, model, callVars,
                       conflictC, ok, stop, formula>>
    BY DEF AssumeNext
  <1>3. /\ decisionLevel \in Nat /\ decisionLevel = Len(trail_lim)
        /\ nAssigns \in Nat /\ nAssigns = Len(trail) /\ DOMAIN trail = 1..Len(trail)
        /\ Len(assumptions) \in Nat
    BY <1>1, SeqFacts, TrailFacts DEF decisionLevel, nAssigns, SearchInv, TypeOK
  <1>4. p \in Lit /\ -p \in Lit /\ var(p) \in Vars
    <2>1. decisionLevel + 1 \in 1..Len(assumptions) /\ assumptions \in Seq(Lit)
      BY <1>2, <1>3 DEF SearchInv, TypeOK
    <2>2. p \in Lit
      BY <2>1, SeqFacts
    <2> QED
      BY <2>2, LitFacts
  <1>5. LevelsSettled(trail, Heard, decisionLevel + 1)
    BY <1>2 DEF SearchInv, CalmInv, Calm
  <1>6. /\ seen = {} /\ pivot = lit_Undef /\ pathC = 0 /\ out_learnt = {}
        /\ assumptions \in Assumptions[solves] /\ solves >= 1
    BY <1>2 DEF SearchInv, Clean, Analysing, Phases
  <1>7. \/ /\ trail_lim' = Append(trail_lim, nAssigns)
           /\ UNCHANGED <<trail, seen, pivot, index, conflict, status, pc>>
        \/ /\ conflict' = {-p}
           /\ IF decisionLevel = 0
                THEN Finish("l_False") /\ UNCHANGED <<seen, pivot, index>>
                ELSE /\ seen' = seen \cup {var(p)}
                     /\ pivot' = p /\ index' = nAssigns /\ pc' = "final"
                     /\ UNCHANGED status
           /\ UNCHANGED trailVars
        \/ /\ Unassigned(p)
           /\ trail_lim' = Append(trail_lim, nAssigns)
           /\ trail' = Enqueued(trail, p, decisionLevel + 1, CRef_Undef)
           /\ pc' = "search"
           /\ UNCHANGED <<seen, pivot, index, conflict, status>>
    BY DEF AssumeNext
  <1> HIDE DEF p
  <1>8. CASE /\ trail_lim' = Append(trail_lim, nAssigns)
             /\ UNCHANGED <<trail, seen, pivot, index, conflict, status, pc>>
    <2>1. /\ trail_lim' \in Seq(Nat) /\ decisionLevel' = decisionLevel + 1
          /\ TrailOK(trail, trail_lim') /\ DB' = DB /\ Heard' = Heard
      BY <1>1, <1>2, <1>3, <1>8, AppendFacts, NewLevelOK DEF decisionLevel, DB, Heard
    <2>2. TypeOK'
      BY <1>2, <1>8, <2>1 DEF SearchInv, TypeOK
    <2>3. TrailInv'
      BY <1>1, <1>5, <1>8, <2>1 DEF TrailInv
    <2>4. CalmInv'
      <3>1. decisionLevel + 1 \in Nat
        BY <1>3
      <3> SUFFICES ASSUME NEW c \in Heard, NEW k \in 0..(decisionLevel + 1)
                   PROVE  Settled(trail, c, k)
        BY <1>8, <2>1, <3>1, LevelsUpTo DEF CalmInv
      <3>2. \A l \in 0..decisionLevel : Settled(trail, c, l)
        BY <1>3, <1>5, LevelsUpTo
      <3>3. CASE k = decisionLevel + 1
        <4>1. \A i \in DOMAIN trail : trail[i].level <= decisionLevel
          BY <1>1, <1>3 DEF TrailOK
        <4>2. decisionLevel \in 0..decisionLevel
          BY <1>3
        <4> QED
          BY <1>1, <1>3, <3>2, <3>3, <4>1, <4>2, SettledAbove
      <3>4. CASE k # decisionLevel + 1
        <4>1. k \in 0..decisionLevel
          BY <1>3, <3>4
        <4> QED
          BY <3>2, <4>1
      <3> QED
        BY <3>3, <3>4
    <2>5. Phases' /\ Clean'
      BY <1>2, <1>6, <1>8 DEF SearchInv, Phases, Clean, Analysing
    <2>6. AnalyzeInv' /\ LearnInv' /\ FinalInv'
      BY <1>2, <1>8 DEF AnalyzeInv, LearnInv, FinalInv
    <2> QED
      BY <2>2, <2>3, <2>4, <2>5, <2>6 DEF SearchInv
  <1>9. CASE /\ conflict' = {-p} /\ decisionLevel = 0
             /\ Finish("l_False") /\ UNCHANGED <<seen, pivot, index>>
             /\ UNCHANGED trailVars
    <2>1. TypeOK'
      BY <1>2, <1>4, <1>9 DEF SearchInv, TypeOK, Finish, trailVars
    <2> QED
      BY <1>2, <1>9, <2>1, QuietStep DEF Finish, trailVars, Analysing, Calm
  <1>10. CASE /\ conflict' = {-p} /\ decisionLevel # 0
              /\ seen' = seen \cup {var(p)}
              /\ pivot' = p /\ index' = nAssigns /\ pc' = "final"
              /\ UNCHANGED status /\ UNCHANGED trailVars
    <2>1. TypeOK'
      BY <1>2, <1>3, <1>4, <1>10 DEF SearchInv, TypeOK, trailVars
    <2>2. TrailInv'
      BY <1>1, <1>2, <1>10, TrailInvUnchanged DEF trailVars
    <2>3. solves >= MaxSolves
      <3>1. Len(assumptions) > 1
        BY <1>2, <1>3, <1>10
      <3>2. solves \in 0..MaxSolves /\ MaxSolves \in Nat
        BY BoundsAssumption DEF SearchInv, TypeOK
      <3>3. ~ (Len(assumptions) <= 1)
        BY <1>3, <3>1
      <3>4. solves \in 1..MaxSolves /\ ~ (solves < MaxSolves)
        BY <1>6, <3>2, <3>3 DEF CleanCalls
      <3> QED
        BY <3>2, <3>4
    <2>4. FinalInv'
      <3>1. decisionLevel' = decisionLevel /\ nAssigns' = nAssigns
        BY <1>10 DEF trailVars, decisionLevel, nAssigns
      <3> QED
        BY <1>2, <1>3, <1>4, <1>6, <1>10, <2>3, <3>1 DEF FinalInv
    <2>5. CalmInv' /\ Phases' /\ Clean'
      BY <1>2, <1>6, <1>10 DEF CalmInv, Calm, Phases, Clean, Analysing
    <2>6. AnalyzeInv' /\ LearnInv'
      BY <1>10 DEF AnalyzeInv, LearnInv
    <2> QED
      BY <2>1, <2>2, <2>4, <2>5, <2>6 DEF SearchInv
  <1>11. CASE /\ Unassigned(p)
              /\ trail_lim' = Append(trail_lim, nAssigns)
              /\ trail' = Enqueued(trail, p, decisionLevel + 1, CRef_Undef)
              /\ pc' = "search"
              /\ UNCHANGED <<seen, pivot, index, conflict, status>>
    <2>1. trail' \in Seq(Entry) /\ trail_lim' \in Seq(Nat) /\ TrailInv'
      BY <1>1, <1>2, <1>4, <1>5, <1>11, DecisionStep
    <2>2. TypeOK'
      BY <1>2, <1>11, <2>1 DEF SearchInv, TypeOK
    <2>3. CalmInv' /\ Phases' /\ Clean'
      BY <1>2, <1>6, <1>11 DEF CalmInv, Calm, Phases, Clean, Analysing
    <2>4. AnalyzeInv' /\ LearnInv' /\ FinalInv'
      BY <1>11 DEF AnalyzeInv, LearnInv, FinalInv
    <2> QED
      BY <2>1, <2>2, <2>3, <2>4 DEF SearchInv
  <1> QED
    BY <1>7, <1>8, <1>9, <1>10, <1>11

\* What a reason may be: nothing, or a clause of literals that were false before.
LEMMA ReasonTypes ==
    ASSUME trail \in Seq(Entry), ReasonsOK(trail, DB), NEW i \in 1..nAssigns,
           NEW r \in ReasonsFor(i)
    PROVE  \/ r = CRef_Undef /\ trail[i].reason = CRef_Undef
           \/ /\ r \in Clause /\ r \subseteq Lit /\ IsClause(r)
              /\ \A q \in r \ {trail[i].lit} : \E j \in 1..(i - 1) : trail[j].lit = -q
  <1>1. /\ nAssigns \in Nat /\ nAssigns = Len(trail) /\ DOMAIN trail = 1..nAssigns
        /\ \A j \in 1..nAssigns : /\ trail[j].lit \in Lit
                                  /\ trail[j].reason \in {CRef_Undef, CRef_Fake} \cup Clause
    BY TrailFacts DEF nAssigns
  <1>2. CASE trail[i].reason = CRef_Fake
    <2>1. PICK S \in SUBSET TheoryLits(SubSeq(trail, 1, i - 1)) :
                  r = {trail[i].lit} \cup {-q : q \in S}
      BY <1>2 DEF ReasonsFor, TheoryReasons
    <2>2. \A q \in S : \E j \in 1..(i - 1) : trail[j].lit = q
      <3>1. i - 1 \in 0..Len(trail)
        BY <1>1
      <3>2. /\ DOMAIN SubSeq(trail, 1, i - 1) = 1..(i - 1)
            /\ \A j \in 1..(i - 1) : SubSeq(trail, 1, i - 1)[j] = trail[j]
        BY <3>1, PrefixFacts
      <3> QED
        BY <3>2 DEF TheoryLits, LitsOf
    <2>3. \A q \in S : q \in Lit
      BY <1>1, <2>2
    <2>4. r \subseteq Lit
      BY <1>1, <2>1, <2>3, LitFacts
    <2>5. \A x \in r \ {trail[i].lit} : \E j \in 1..(i - 1) : trail[j].lit = -x
      <3> TAKE x \in r \ {trail[i].lit}
      <3>1. PICK q \in S : x = -q
        BY <2>1
      <3>2. -x = q
        BY <2>3, <3>1, LitFacts
      <3> QED
        BY <2>2, <3>2
    <2> QED
      BY <2>4, <2>5, ClauseIsClause
  <1>3. CASE trail[i].reason # CRef_Fake
    <2>1. r = trail[i].reason
      BY <1>3 DEF ReasonsFor
    <2>2. CASE r = CRef_Undef
      BY <2>1, <2>2
    <2>3. CASE r # CRef_Undef
      <3>1. r \in Clause /\ IsClause(r)
        BY <1>1, <1>3, <2>1, <2>3 DEF IsClause
      <3> QED
        BY <1>1, <2>1, <3>1 DEF ReasonsOK, Clause
    <2> QED
      BY <2>2, <2>3
  <1> QED
    BY <1>2, <1>3

\* A turn of analyzeFinal touches the marks and the final conflict only.
LEMMA FinalStepInv ==
    ASSUME SearchInv, FinalStep, UNCHANGED formula
    PROVE  SearchInv'
  <1> USE DEF dbVars, trailVars, callVars
  <1>1. trail \in Seq(Entry) /\ trail_lim \in Seq(Nat) /\ TrailInv /\ ReasonsOK(trail, DB)
    BY DEF SearchInv, TypeOK, TrailInv
  <1>2. /\ pc = "final"
        /\ UNCHANGED <<dbVars, trailVars, forced_split, confl, pivot, pathC, out_learnt,
                       model, status, callVars, conflictC, ok, stop, pc, formula>>
    BY DEF FinalStep
  <1>3. /\ decisionLevel > 0 /\ pivot \in Lit /\ index <= nAssigns /\ solves >= MaxSolves
        /\ pathC = 0 /\ out_learnt = {}
    BY <1>2 DEF SearchInv, FinalInv
  <1>4. /\ trail_lim[1] \in Nat /\ index \in Nat /\ nAssigns \in Nat
        /\ \A i \in 1..nAssigns : trail[i].lit \in Lit
    <2>1. Len(trail_lim) \in Nat /\ \A k \in 1..Len(trail_lim) : trail_lim[k] \in Nat
      BY <1>1, SeqFacts
    <2>2. 1 \in 1..Len(trail_lim)
      BY <1>3, <2>1 DEF decisionLevel
    <2> QED
      BY <1>1, <2>1, <2>2, TrailFacts DEF nAssigns, SearchInv, TypeOK
  <1>5. PICK i \in (trail_lim[1] + 1)..index : \E r \in ReasonsFor(i) :
          /\ index' = i - 1
          /\ IF r = CRef_Undef
               THEN conflict' = conflict \cup {-trail[i].lit} /\ UNCHANGED seen
               ELSE /\ seen' = (seen \cup {var(q) : q \in Above0(r \ {trail[i].lit})})
                               \ {var(trail[i].lit)}
                    /\ UNCHANGED conflict
    BY DEF FinalStep
  <1>6. PICK r \in ReasonsFor(i) :
          /\ index' = i - 1
          /\ IF r = CRef_Undef
               THEN conflict' = conflict \cup {-trail[i].lit} /\ UNCHANGED seen
               ELSE /\ seen' = (seen \cup {var(q) : q \in Above0(r \ {trail[i].lit})})
                               \ {var(trail[i].lit)}
                    /\ UNCHANGED conflict
    BY <1>5
  <1>7. i \in 1..nAssigns /\ index' \in Nat /\ index' <= nAssigns
    BY <1>3, <1>4, <1>6
  <1>8. conflict' \subseteq Lit /\ seen' \subseteq Vars
    <2>1. CASE r = CRef_Undef
      <3>1. -trail[i].lit \in Lit
        BY <1>4, <1>7, LitFacts
      <3>2. conflict \subseteq Lit /\ seen \subseteq Vars
        BY DEF SearchInv, TypeOK
      <3> QED
        BY <1>6, <2>1, <3>1, <3>2
    <2>2. CASE r # CRef_Undef
      <3>1. r \subseteq Lit
        BY <1>1, <1>7, <2>2, ReasonTypes
      <3>2. {var(q) : q \in Above0(r \ {trail[i].lit})} \subseteq Vars
        BY <3>1, LitFacts DEF Above0
      <3> QED
        BY <1>6, <2>2, <3>2 DEF SearchInv, TypeOK
    <2> QED
      BY <2>1, <2>2
  <1>9. TypeOK'
    BY <1>2, <1>7, <1>8 DEF SearchInv, TypeOK
  <1>10. TrailInv'
    BY <1>1, <1>2, TrailInvUnchanged
  <1>11. FinalInv'
    <2>1. decisionLevel' = decisionLevel /\ nAssigns' = nAssigns
      BY <1>2 DEF decisionLevel, nAssigns
    <2> QED
      BY <1>2, <1>3, <1>7, <2>1 DEF FinalInv
  <1>12. CalmInv' /\ Phases' /\ Clean'
    BY <1>2 DEF SearchInv, CalmInv, Calm, Phases, Clean, Analysing
  <1>13. AnalyzeInv' /\ LearnInv'
    BY <1>2 DEF AnalyzeInv, LearnInv
  <1> QED
    BY <1>9, <1>10, <1>11, <1>12, <1>13 DEF SearchInv

\* The call is over, and no other will come to meet the marks left behind.
LEMMA FinalDoneInv ==
    ASSUME SearchInv, FinalDone, UNCHANGED formula
    PROVE  SearchInv'
  <1> USE DEF dbVars, trailVars, callVars
  <1>1. TrailInv /\ FinalInv /\ Phases
    BY DEF SearchInv
  <1>2. /\ pc = "final" /\ pc' = "done" /\ status' = "l_False"
        /\ seen' = seen \ {var(pivot)} /\ pivot' = lit_Undef /\ index' = 0
        /\ UNCHANGED <<dbVars, trailVars, forced_split, confl, pathC, out_learnt, conflict,
                       model, callVars, conflictC, ok, stop, formula>>
    BY DEF FinalDone, Finish
  <1>3. TypeOK'
    BY <1>2 DEF SearchInv, TypeOK
  <1>4. TrailInv'
    BY <1>1, <1>2, TrailInvUnchanged
  <1>5. pathC = 0 /\ out_learnt = {}
    BY <1>1, <1>2 DEF FinalInv
  <1>6. CalmInv' /\ Phases' /\ Clean'
    BY <1>1, <1>2, <1>5 DEF CalmInv, Calm, Phases, Clean, Analysing, FinalInv
  <1>7. AnalyzeInv' /\ LearnInv' /\ FinalInv'
    BY <1>2 DEF AnalyzeInv, LearnInv, FinalInv
  <1> QED
    BY <1>3, <1>4, <1>6, <1>7 DEF SearchInv

-----------------------------------------------------------------------------
(* A theory conflict.                                                      *)

\* The level handleUnsat returns to is the highest level of the explanation.
LEMMA ConflictLevel ==
    ASSUME trail \in Seq(Entry), trail_lim \in Seq(Nat), TrailOK(trail, trail_lim),
           NEW S \in SUBSET TrueLits
    PROVE  \E k \in 0..decisionLevel :
              /\ \A q \in S : LevelOf(var(q)) <= k
              /\ k = 0 \/ \E q \in S : LevelOf(var(q)) = k
  <1> DEFINE L == {LevelOf(var(q)) : q \in S}
  <1>1. decisionLevel \in Nat /\ DOMAIN trail = 1..nAssigns
        /\ \A i \in 1..nAssigns : trail[i].level \in 0..decisionLevel
    BY TrailFacts, SeqFacts DEF nAssigns, decisionLevel, TrailOK
  <1>2. \A q \in S : LevelOf(var(q)) \in 0..decisionLevel
    <2> SUFFICES ASSUME NEW q \in S
                 PROVE  LevelOf(var(q)) \in 0..decisionLevel
      OBVIOUS
    <2>1. PICK i \in 1..nAssigns : trail[i].lit = q
      BY <1>1 DEF TrueLits, LitsOf
    <2>2. LevelOf(var(q)) = trail[i].level
      BY <2>1, LevelOfEntry
    <2> QED
      BY <1>1, <2>2
  <1>3. CASE S = {}
    BY <1>1, <1>3
  <1>4. CASE S # {}
    <2>1. L \in SUBSET (0..decisionLevel) /\ L # {}
      BY <1>2, <1>4
    <2>2. PICK k \in L : \A l \in L : l <= k
      <3> HIDE DEF L
      <3> QED
        BY <1>1, <2>1, MaxExists
    <2> QED
      BY <1>1, <2>1, <2>2
  <1> QED
    BY <1>3, <1>4

\* A theory conflict, after the return to the highest level of its explanation,
\* starts an analysis as a falsified clause does.
LEMMA TheoryConflictInv ==
    ASSUME SearchInv, TheoryConflict, UNCHANGED formula
    PROVE  SearchInv'
  <1>1. trail \in Seq(Entry) /\ trail_lim \in Seq(Nat) /\ TrailInv /\ TrailOK(trail, trail_lim)
    BY DEF SearchInv, TypeOK, TrailInv
  <1>2. pc \in {"start", "check", "complete"}
    BY DEF TheoryConflict, Checking
  <1>3. UNCHANGED <<dbVars, forced_split, seen, conflict, model, callVars, ok, stop, formula>>
    BY DEF TheoryConflict
  <1> DEFINE Highest(S, k) == /\ \A q \in S : LevelOf(var(q)) <= k
                              /\ k = 0 \/ \E q \in S : LevelOf(var(q)) = k
             Top(S) == CHOOSE k \in 0..decisionLevel : Highest(S, k)
             Outcome(S, lev) ==
                \/ /\ lev = 0
                   /\ Finish("l_False")
                   /\ UNCHANGED analyzeVars
                \/ /\ lev > 0
                   /\ confl' = {-q : q \in S} /\ index' = Len(KeptTrail(lev))
                   /\ pc' = "analyze"
                   /\ UNCHANGED <<pivot, pathC, out_learnt, status>>
  <1>4. PICK S \in SUBSET TheoryLits(trail) :
            /\ conflictC' = conflictC + 1
            /\ trail' = KeptTrail(Top(S)) /\ trail_lim' = KeptLim(Top(S))
            /\ Outcome(S, Top(S))
    BY Zenon DEF TheoryConflict
  <1>5. S \in SUBSET TrueLits
    BY DEF TheoryLits, TrueLits, LitsOf
  <1>6. PICK lev \in 0..decisionLevel : lev = Top(S) /\ Highest(S, lev)
    <2>1. \E k \in 0..decisionLevel : Highest(S, k)
      BY <1>1, <1>5, ConflictLevel
    <2> QED
      BY <2>1, Zenon
  <1> HIDE DEF Top
  <1>7. /\ trail' = KeptTrail(lev) /\ trail_lim' = KeptLim(lev) /\ Outcome(S, lev)
        /\ conflictC' = conflictC + 1
    BY <1>4, <1>6, Zenon
  <1>8. /\ trail' \in Seq(Entry) /\ trail_lim' \in Seq(Nat)
        /\ decisionLevel' = lev /\ TrailInv'
    BY <1>1, <1>3, <1>7, CancelStep DEF dbVars
  <1>9. /\ DOMAIN trail = 1..nAssigns /\ nAssigns \in Nat
        /\ \A i \in 1..nAssigns : trail[i].level \in Nat /\ trail[i].lit \in Lit
    BY <1>1, TrailFacts DEF nAssigns
  <1>10. /\ Len(trail') \in 0..nAssigns
         /\ \A i \in 1..Len(trail') : trail'[i] = trail[i]
         /\ \A i \in 1..nAssigns : trail[i].level <= lev => i \in 1..Len(trail')
    BY <1>1, <1>7, KeptFacts
  <1>11. conflictC' \in Nat
    BY <1>7 DEF SearchInv, TypeOK
  <1>12. CASE lev = 0 /\ Finish("l_False") /\ UNCHANGED analyzeVars
    <2>1. TypeOK'
      BY <1>3, <1>8, <1>11, <1>12
         DEF SearchInv, TypeOK, analyzeVars, dbVars, callVars, Finish
    <2>2. CalmInv' /\ Phases' /\ Clean'
      BY <1>2, <1>3, <1>12 DEF SearchInv, CalmInv, Calm, Phases, Clean, Analysing,
                               analyzeVars, callVars, Finish
    <2>3. AnalyzeInv' /\ LearnInv' /\ FinalInv'
      BY <1>12 DEF AnalyzeInv, LearnInv, FinalInv, Finish
    <2> QED
      BY <1>8, <2>1, <2>2, <2>3 DEF SearchInv
  <1>13. CASE /\ lev > 0
              /\ confl' = {-q : q \in S} /\ index' = Len(KeptTrail(lev)) /\ pc' = "analyze"
              /\ UNCHANGED <<pivot, pathC, out_learnt, status>>
    <2>1. seen = {} /\ pivot = lit_Undef /\ pathC = 0 /\ out_learnt = {}
      BY <1>2 DEF SearchInv, Clean, Analysing
    <2>2. \A q \in S : q \in Lit /\ -(-q) = q /\ -q \in Lit
                       /\ \E i \in 1..Len(trail') : trail'[i].lit = q
                                /\ trail'[i].level = LevelOf(var(q))
      <3> SUFFICES ASSUME NEW q \in S
                   PROVE  q \in Lit /\ -(-q) = q /\ -q \in Lit
                          /\ \E i \in 1..Len(trail') : trail'[i].lit = q
                                /\ trail'[i].level = LevelOf(var(q))
        OBVIOUS
      <3>1. PICK i \in 1..nAssigns : trail[i].lit = q
        BY <1>5, <1>9 DEF TrueLits, LitsOf
      <3>2. LevelOf(var(q)) = trail[i].level
        BY <1>1, <3>1, LevelOfEntry
      <3>3. trail[i].level <= lev
        BY <1>6, <3>2
      <3>4. i \in 1..Len(trail') /\ trail'[i] = trail[i]
        BY <1>10, <3>3
      <3>5. q \in Lit
        BY <1>9, <3>1
      <3> QED
        BY <3>1, <3>2, <3>4, <3>5, LitFacts
    <2>3. confl' = {-q : q \in S} /\ confl' \subseteq Lit
      BY <1>13, <2>2
    <2>4. \A q \in confl' : \E i \in 1..Len(trail') : trail'[i].lit = -q
      BY <2>2, <2>3
    <2>5. \E i \in 1..Len(trail') : -trail'[i].lit \in confl' /\ trail'[i].level = lev
      <3>1. PICK q \in S : LevelOf(var(q)) = lev
        BY <1>6, <1>13
      <3>2. PICK i \in 1..Len(trail') : trail'[i].lit = q /\ trail'[i].level = LevelOf(var(q))
        BY <2>2
      <3> QED
        BY <2>3, <3>1, <3>2
    <2>6. index' = Len(trail') /\ nAssigns' = Len(trail') /\ index' \in Nat
      BY <1>7, <1>10, <1>13, <1>9 DEF nAssigns
    <2>7. AnalyzeInv'
      <3>1. seen' = {} /\ pivot' = lit_Undef /\ pathC' = 0 /\ out_learnt' = {}
        BY <1>3, <1>13, <2>1
      <3>2. (\A q \in confl : \E i \in 1..nAssigns : trail[i].lit = -q)'
        BY <2>4, <2>6
      <3>3. (\E i \in 1..nAssigns : -trail[i].lit \in confl /\ trail[i].level = decisionLevel)'
        BY <1>8, <2>5, <2>6
      <3>4. (index = nAssigns)' /\ (decisionLevel > 0)'
        BY <1>8, <1>13, <2>6
      <3> QED
        BY <1>8, <2>3, <3>1, <3>2, <3>3, <3>4, AnalysisStart
    <2>8. TypeOK'
      <3>1. confl' \in Clause
        BY <2>3 DEF Clause
      <3> QED
        BY <1>3, <1>8, <1>11, <1>13, <2>6, <3>1
           DEF SearchInv, TypeOK, dbVars, callVars
    <2>9. CalmInv' /\ Phases' /\ Clean'
      BY <1>2, <1>3, <1>13 DEF SearchInv, CalmInv, Calm, Phases, Clean, Analysing, callVars
    <2>10. LearnInv' /\ FinalInv'
      BY <1>13 DEF LearnInv, FinalInv
    <2> QED
      BY <1>8, <2>7, <2>8, <2>9, <2>10 DEF SearchInv
  <1> QED
    BY <1>7, <1>12, <1>13

-----------------------------------------------------------------------------
(* Learning.                                                               *)

\* The backjump goes below the current level, to the highest level of the
\* literals that the learnt clause keeps.
LEMMA BacktrackFacts ==
    ASSUME trail \in Seq(Entry), trail_lim \in Seq(Nat), TrailOK(trail, trail_lim),
           decisionLevel > 0, NEW others \in SUBSET Lit,
           \A q \in others :
              \E i \in 1..nAssigns : /\ trail[i].lit = -q
                                     /\ trail[i].level \in 1..(decisionLevel - 1)
    PROVE  /\ BacktrackLevel(others) \in 0..(decisionLevel - 1)
           /\ others = {} => BacktrackLevel(others) = 0
           /\ others # {} => \E q \in others : LevelOf(var(q)) = BacktrackLevel(others)
           /\ \A q \in others : LevelOf(var(q)) <= BacktrackLevel(others)
  <1> DEFINE L == {LevelOf(var(q)) : q \in others}
  <1>1. decisionLevel \in Nat
    BY SeqFacts DEF decisionLevel
  <1>2. \A q \in others : LevelOf(var(q)) \in 1..(decisionLevel - 1)
    <2> SUFFICES ASSUME NEW q \in others
                 PROVE  LevelOf(var(q)) \in 1..(decisionLevel - 1)
      OBVIOUS
    <2>1. PICK i \in 1..nAssigns : /\ trail[i].lit = -q
                                   /\ trail[i].level \in 1..(decisionLevel - 1)
      OBVIOUS
    <2>2. LevelOf(var(q)) = trail[i].level
      BY <2>1, LevelOfLit
    <2> QED
      BY <2>1, <2>2
  <1>3. CASE others = {}
    BY <1>1, <1>3 DEF BacktrackLevel
  <1>4. CASE others # {}
    <2>1. L \in SUBSET (0..decisionLevel) /\ L # {}
      BY <1>1, <1>2, <1>4
    <2>2. \E k \in L : \A l \in L : l <= k
      <3> HIDE DEF L
      <3> QED
        BY <1>1, <2>1, MaxExists
    <2>3. \E k \in L : \A q \in others : LevelOf(var(q)) <= k
      BY <2>2
    <2>4. BacktrackLevel(others) = CHOOSE k \in L : \A q \in others : LevelOf(var(q)) <= k
      BY <1>4 DEF BacktrackLevel
    <2>5. /\ BacktrackLevel(others) \in L
          /\ \A q \in others : LevelOf(var(q)) <= BacktrackLevel(others)
      <3> HIDE DEF L
      <3> QED
        BY <2>3, <2>4, Zenon
    <2>6. PICK q \in others : LevelOf(var(q)) = BacktrackLevel(others)
      BY <2>5
    <2> QED
      BY <1>1, <1>2, <1>4, <2>5, <2>6
  <1> QED
    BY <1>3, <1>4

\* The backjump frees the first UIP, and the learnt clause implies its negation.
LEMMA LearnStepInv ==
    ASSUME SearchInv, Learn, UNCHANGED formula
    PROVE  SearchInv'
  <1>1. trail \in Seq(Entry) /\ trail_lim \in Seq(Nat) /\ TrailInv /\ TrailOK(trail, trail_lim)
    BY DEF SearchInv, TypeOK, TrailInv
  <1> DEFINE others == Minimized(seen \cup Toclear)
             lev == BacktrackLevel(others)
             learnt == {-pivot} \cup others
             r == IF others = {} THEN CRef_Undef ELSE learnt
             added == IF others = {} THEN {} ELSE {learnt}
  <1>2. /\ pc = "learn"
        /\ seen' = seen \ Toclear
        /\ trail' = Enqueued(KeptTrail(lev), -pivot, lev, r)
        /\ trail_lim' = KeptLim(lev)
        /\ learnts' = IF others = {} THEN learnts ELSE learnts \cup {learnt}
        /\ pc' = IF {pivot, -pivot} \cap LitsOf(KeptTrail(lev)) = {}
                   THEN "search" ELSE "assert"
    BY Zenon DEF Learn
  <1>3. /\ confl' = CRef_Undef /\ pivot' = lit_Undef /\ pathC' = 0 /\ index' = 0
        /\ out_learnt' = {}
        /\ UNCHANGED <<clauses, decision, cuts, missed, skipped, forced_split, resultVars,
                       callVars, conflictC, ok, stop, formula>>
    BY DEF Learn
  <1>4. /\ decisionLevel > 0 /\ pivot \in Lit /\ -pivot \in Lit
        /\ seen = {var(q) : q \in out_learnt} /\ out_learnt \subseteq Lit
    BY <1>2, LitFacts DEF SearchInv, LearnInv, TypeOK
  <1>5. others \subseteq out_learnt /\ others \subseteq Lit
    BY <1>4 DEF Minimized
  <1>6. /\ DOMAIN trail = 1..nAssigns /\ nAssigns \in Nat /\ decisionLevel \in Nat
        /\ \A i \in 1..nAssigns : trail[i].level \in Nat /\ trail[i].lit \in Lit
    BY <1>1, TrailFacts, SeqFacts DEF nAssigns, decisionLevel
  <1>7. \A i \in 1..nAssigns : var(trail[i].lit) = var(pivot) => trail[i].level = decisionLevel
    BY <1>2, <1>6 DEF SearchInv, LearnInv
  <1>8. \A q \in others : \E i \in 1..nAssigns : /\ trail[i].lit = -q
                                                 /\ trail[i].level \in 1..(decisionLevel - 1)
    BY <1>2, <1>5, <1>6 DEF SearchInv, LearnInv
  <1> HIDE DEF others
  <1>9. /\ lev \in 0..(decisionLevel - 1)
        /\ others = {} => lev = 0
        /\ others # {} => \E q \in others : LevelOf(var(q)) = lev
        /\ \A q \in others : LevelOf(var(q)) <= lev
    BY <1>1, <1>4, <1>5, <1>8, BacktrackFacts
  <1> HIDE DEF lev
  <1>10. lev \in 0..decisionLevel /\ lev < decisionLevel
    BY <1>6, <1>9
  <1>11. \A q \in others : \E i \in 1..nAssigns : /\ trail[i].lit = -q
                                                  /\ trail[i].level = LevelOf(var(q))
    <2> SUFFICES ASSUME NEW q \in others
                 PROVE  \E i \in 1..nAssigns : /\ trail[i].lit = -q
                                               /\ trail[i].level = LevelOf(var(q))
      OBVIOUS
    <2>1. PICK i \in 1..nAssigns : trail[i].lit = -q
      BY <1>8
    <2>2. q \in Lit
      BY <1>5
    <2> QED
      BY <1>1, <2>1, <2>2, LevelOfLit
  <1>12. FreedAt(lev, -pivot)
    <2>1. var(-pivot) = var(pivot)
      BY <1>4, LitFacts
    <2> QED
      BY <1>7, <1>10, <2>1 DEF FreedAt
  <1>13. learnt \in Clause /\ IsClause(learnt)
    BY <1>4, <1>5, ClauseIsClause
  <1>14. r \in {CRef_Undef, CRef_Fake} \cup Clause /\ (r = CRef_Undef => lev = 0)
    BY <1>9, <1>13 DEF IsClause
  <1>15. DB' = DB \cup added /\ missed' = missed
    BY <1>2, <1>3 DEF DB
  <1>16. IsClause(r) => ImpliesAt(lev, r, -pivot, DB')
    <2> SUFFICES ASSUME IsClause(r)
                 PROVE  ImpliesAt(lev, r, -pivot, DB')
      OBVIOUS
    <2>1. r = learnt /\ others # {} /\ added = {learnt}
      BY DEF IsClause
    <2>2. -pivot \in r /\ r \in DB'
      BY <1>15, <2>1
    <2>3. \A q \in r \ {-pivot} :
             \E i \in 1..nAssigns : trail[i].lit = -q /\ trail[i].level <= lev
      BY <1>9, <1>11, <2>1
    <2>4. \E i \in 1..nAssigns : -trail[i].lit \in r /\ trail[i].level = lev
      <3>1. PICK q \in others : LevelOf(var(q)) = lev
        BY <1>9, <2>1
      <3>2. PICK i \in 1..nAssigns : trail[i].lit = -q /\ trail[i].level = LevelOf(var(q))
        BY <1>11
      <3>3. -trail[i].lit = q
        BY <1>5, <3>2, LitFacts
      <3> QED
        BY <2>1, <3>1, <3>2, <3>3
    <2> QED
      BY <2>2, <2>3, <2>4 DEF ImpliesAt
  <1>17. \A c \in added : OpenBelow(lev, c)
    <2> SUFFICES ASSUME NEW c \in added
                 PROVE  OpenBelow(lev, c)
      OBVIOUS
    <2>1. c = learnt /\ others # {}
      OBVIOUS
    <2>2. PICK q \in others : LevelOf(var(q)) = lev
      BY <1>9, <2>1
    <2>3. PICK n \in 1..nAssigns : trail[n].lit = -q /\ trail[n].level = lev
      BY <1>11, <2>2
    <2>4. q # -pivot
      <3>1. var(trail[n].lit) = var(q) /\ var(-pivot) = var(pivot)
        BY <1>4, <1>5, <2>3, LitFacts
      <3> QED
        BY <1>7, <1>10, <2>3, <3>1
    <2>5. \A i \in 1..nAssigns : trail[i].lit \in {-(-pivot), -q} => trail[i].level >= lev
      <3> SUFFICES ASSUME NEW i \in 1..nAssigns, trail[i].lit \in {-(-pivot), -q}
                   PROVE  trail[i].level >= lev
        OBVIOUS
      <3>1. CASE trail[i].lit = -(-pivot)
        <4>1. trail[i].lit = pivot
          BY <1>4, <3>1, LitFacts
        <4> QED
          BY <1>7, <1>10, <4>1
      <3>2. CASE trail[i].lit = -q
        <4>1. q \in Lit
          BY <1>5
        <4>2. LevelOf(var(q)) = trail[i].level
          BY <1>1, <3>2, <4>1, LevelOfLit
        <4> QED
          BY <1>6, <2>2, <4>2
      <3> QED
        BY <3>1, <3>2
    <2>6. -pivot \in c /\ q \in c
      BY <2>1
    <2> QED
      BY <2>4, <2>5, <2>6 DEF OpenBelow
  <1>18. pc' = "search"
    <2>1. \A p \in LitsOf(KeptTrail(lev)) : p \notin {pivot, -pivot}
      <3> SUFFICES ASSUME NEW p \in LitsOf(KeptTrail(lev))
                   PROVE  p \notin {pivot, -pivot}
        OBVIOUS
      <3>1. /\ KeptTrail(lev) \in Seq(Entry) /\ Len(KeptTrail(lev)) \in 0..nAssigns
            /\ \A i \in 1..Len(KeptTrail(lev)) : /\ KeptTrail(lev)[i] = trail[i]
                                                 /\ trail[i].level <= lev
        BY <1>1, <1>10, KeptFacts
      <3>2. DOMAIN KeptTrail(lev) = 1..Len(KeptTrail(lev))
        BY <3>1, TrailFacts
      <3>3. PICK i \in 1..nAssigns : trail[i].lit = p /\ trail[i].level <= lev
        BY <1>6, <3>1, <3>2 DEF LitsOf
      <3>4. var(p) # var(pivot)
        BY <1>6, <1>7, <1>10, <3>3
      <3> QED
        BY <1>4, <3>4, LitFacts
    <2> QED
      BY <1>2, <2>1
  <1>19. trail' = Enqueued(KeptTrail(lev), -pivot, lev, r) /\ trail_lim' = KeptLim(lev)
    BY <1>2
  <1>20. learnts' \subseteq Clause /\ clauses' \subseteq Clause
    BY <1>2, <1>3, <1>13 DEF SearchInv, TypeOK
  <1>21. seen' = {}
    BY <1>2, <1>4 DEF Toclear
  <1> HIDE DEF learnt, r, added
  <1>22. /\ trail' \in Seq(Entry) /\ trail_lim' \in Seq(Nat)
         /\ decisionLevel' = lev /\ TrailInv'
    BY <1>1, <1>4, <1>10, <1>12, <1>14, <1>15, <1>16, <1>17, <1>19, BackjumpStep
  <1>23. TypeOK'
    BY <1>3, <1>18, <1>20, <1>21, <1>22 DEF SearchInv, TypeOK, lit_Undef, resultVars, callVars
  <1>24. CalmInv' /\ Phases' /\ Clean'
    BY <1>2, <1>3, <1>18, <1>21
       DEF SearchInv, CalmInv, Calm, Phases, Clean, Analysing, callVars
  <1>25. AnalyzeInv' /\ LearnInv' /\ FinalInv'
    BY <1>18 DEF AnalyzeInv, LearnInv, FinalInv
  <1> QED
    BY <1>22, <1>23, <1>24, <1>25 DEF SearchInv

-----------------------------------------------------------------------------
(* Conflict analysis.                                                      *)

\* What one turn of the analysis adds to the marks: the literals of the clause
\* it resolves with that are above level 0 and not yet marked, those of the
\* current level among them, and the marks of that level it can go on with.
NewMarks == {q \in Above0(confl \ {pivot}) : var(q) \notin seen}
HereMarks == {q \in NewMarks : LevelOf(var(q)) >= decisionLevel}
AllMarks == seen \cup {var(q) : q \in NewMarks}
TopMarks == {v \in AllMarks : \E j \in 1..index :
                                 var(trail[j].lit) = v /\ trail[j].level = decisionLevel}

\* The trail at the time of an analysis, as plain facts.
LEMMA AnalyzeFacts ==
    ASSUME SearchInv, pc = "analyze"
    PROVE  /\ trail \in Seq(Entry) /\ trail_lim \in Seq(Nat) /\ TrailOK(trail, trail_lim)
           /\ index \in Nat /\ nAssigns \in Nat /\ index <= nAssigns
           /\ decisionLevel \in Nat /\ decisionLevel > 0
           /\ \A i \in 1..index : /\ i \in 1..nAssigns
                                  /\ trail[i].lit \in Lit /\ trail[i].level \in Nat
                                  /\ trail[i].level <= decisionLevel
           /\ \A i, j \in 1..index : var(trail[i].lit) = var(trail[j].lit) => i = j
           /\ \A i, j \in 1..index : i <= j => trail[i].level <= trail[j].level
           /\ confl \subseteq Lit
  <1>1. /\ trail \in Seq(Entry) /\ trail_lim \in Seq(Nat) /\ TrailOK(trail, trail_lim)
        /\ index \in Nat
    BY DEF SearchInv, TypeOK, TrailInv
  <1>2. index <= nAssigns /\ decisionLevel > 0 /\ IsClause(confl)
    BY DEF SearchInv, AnalyzeInv
  <1>3. /\ nAssigns \in Nat /\ nAssigns = Len(trail) /\ DOMAIN trail = 1..nAssigns
        /\ \A i \in 1..nAssigns : trail[i].lit \in Lit /\ trail[i].level \in Nat
    BY <1>1, TrailFacts DEF nAssigns
  <1>4. decisionLevel \in Nat /\ decisionLevel = Len(trail_lim)
    BY <1>1, SeqFacts DEF decisionLevel
  <1>5. \A i \in 1..index : i \in 1..nAssigns
    BY <1>1, <1>2, <1>3
  <1>6. /\ \A i \in 1..nAssigns : trail[i].level <= decisionLevel
        /\ \A i, j \in 1..nAssigns : var(trail[i].lit) = var(trail[j].lit) => i = j
    BY <1>1, <1>3, <1>4 DEF TrailOK
  <1>7. \A i, j \in 1..nAssigns : i <= j => trail[i].level <= trail[j].level
    BY <1>1, <1>3, LevelsMonotone
  <1>8. confl \subseteq Lit
    BY <1>2 DEF SearchInv, TypeOK, IsClause, Clause
  <1> QED
    BY <1>1, <1>2, <1>3, <1>4, <1>5, <1>6, <1>7, <1>8

\* Every literal of the clause is false by an entry of the walked part.
LEMMA ConflFacts ==
    ASSUME SearchInv, pc = "analyze", NEW q \in confl \ {pivot}
    PROVE  /\ q \in Lit
           /\ \E j \in 1..index : trail[j].lit = -q /\ trail[j].level = LevelOf(var(q))
  <1>1. q \in Lit
    BY AnalyzeFacts
  <1>2. PICK j \in 1..index : trail[j].lit = -q
    BY DEF SearchInv, AnalyzeInv
  <1>3. j \in 1..nAssigns /\ trail \in Seq(Entry) /\ TrailOK(trail, trail_lim)
    BY AnalyzeFacts
  <1>4. LevelOf(var(q)) = trail[j].level
    BY <1>1, <1>2, <1>3, LevelOfLit
  <1> QED
    BY <1>1, <1>2, <1>4

\* So every mark, old or new, stands for one entry of the walked part, which is
\* above level 0.
LEMMA MarkFacts ==
    ASSUME SearchInv, pc = "analyze"
    PROVE  /\ \A q \in NewMarks : /\ q \in Lit /\ var(q) \in Vars /\ var(q) \notin seen
                                  /\ q \in confl \ {pivot} /\ LevelOf(var(q)) > 0
           /\ \A v \in AllMarks : \E j \in 1..index :
                 var(trail[j].lit) = v /\ trail[j].level > 0
  <1>1. \A q \in NewMarks : /\ q \in Lit /\ var(q) \notin seen
                            /\ q \in confl \ {pivot} /\ LevelOf(var(q)) > 0
    BY ConflFacts DEF NewMarks, Above0
  <1>2. \A q \in NewMarks : \E j \in 1..index :
           var(trail[j].lit) = var(q) /\ trail[j].level > 0
    <2> TAKE q \in NewMarks
    <2>1. PICK j \in 1..index : trail[j].lit = -q /\ trail[j].level = LevelOf(var(q))
      BY <1>1, ConflFacts
    <2>2. var(trail[j].lit) = var(q)
      BY <1>1, <2>1, LitFacts
    <2> QED
      BY <1>1, <2>1, <2>2
  <1>3. \A v \in seen : \E j \in 1..index : var(trail[j].lit) = v /\ trail[j].level > 0
    BY DEF SearchInv, AnalyzeInv
  <1> QED
    BY <1>1, <1>2, <1>3, LitFacts DEF AllMarks

\* pathC counts: the marks of the current level are those there were and, each
\* once, those of the new literals of that level.
LEMMA TopMarksCount ==
    ASSUME SearchInv, pc = "analyze"
    PROVE  /\ IsFiniteSet(TopMarks) /\ TopMarks # {}
           /\ Cardinality(TopMarks) = pathC + Cardinality(HereMarks)
           /\ Cardinality(TopMarks) \in Nat /\ Cardinality(HereMarks) \in Nat /\ pathC \in Nat
  <1> DEFINE H == {var(q) : q \in HereMarks}
  <1>1. IsFiniteSet(Vars)
    BY VarsAssumption
  <1>2. seen \subseteq Vars /\ pathC = Cardinality(Marked)
    BY DEF SearchInv, TypeOK, AnalyzeInv
  <1>3. \A q \in HereMarks : /\ q \in NewMarks /\ q \in Lit /\ var(q) \in Vars
                             /\ var(q) \notin seen /\ q \in confl \ {pivot}
    BY MarkFacts DEF HereMarks
  <1>4. \A q \in HereMarks : \E j \in 1..index : /\ trail[j].lit = -q
                                                 /\ var(trail[j].lit) = var(q)
                                                 /\ trail[j].level = decisionLevel
    <2> TAKE q \in HereMarks
    <2>1. PICK j \in 1..index : trail[j].lit = -q /\ trail[j].level = LevelOf(var(q))
      BY <1>3, ConflFacts
    <2>2. trail[j].level = decisionLevel
      BY <2>1, AnalyzeFacts DEF HereMarks
    <2>3. var(trail[j].lit) = var(q)
      BY <1>3, <2>1, LitFacts
    <2> QED
      BY <2>1, <2>2, <2>3
  <1>5. Marked \subseteq Vars /\ H \subseteq Vars /\ Marked \cap H = {}
    BY <1>2, <1>3 DEF Marked
  <1>6. IsFiniteSet(Marked) /\ IsFiniteSet(H)
    BY <1>1, <1>5, FS_Subset
  <1>7. TopMarks = Marked \cup H
    <2>1. Marked \cup H \subseteq TopMarks
      <3>1. Marked \subseteq TopMarks
        BY DEF Marked, TopMarks, AllMarks
      <3>2. \A q \in HereMarks : var(q) \in TopMarks
        BY <1>3, <1>4 DEF TopMarks, AllMarks
      <3> QED
        BY <3>1, <3>2
    <2>2. \A v \in TopMarks : v \in Marked \cup H
      <3> TAKE v \in TopMarks
      <3>1. PICK j \in 1..index : var(trail[j].lit) = v /\ trail[j].level = decisionLevel
        BY DEF TopMarks
      <3>2. CASE v \in seen
        BY <3>1, <3>2 DEF Marked
      <3>3. CASE v \notin seen
        <4>1. PICK q \in NewMarks : v = var(q)
          BY <3>3 DEF TopMarks, AllMarks
        <4>2. PICK k \in 1..index : trail[k].lit = -q /\ trail[k].level = LevelOf(var(q))
          BY MarkFacts, ConflFacts
        <4>3. k = j
          <5>1. var(trail[k].lit) = var(q)
            BY <4>2, MarkFacts, LitFacts
          <5> QED
            BY <3>1, <4>1, <5>1, AnalyzeFacts
        <4>4. q \in HereMarks
          BY <3>1, <4>2, <4>3, AnalyzeFacts DEF HereMarks
        <4> QED
          BY <4>1, <4>4
      <3> QED
        BY <3>2, <3>3
    <2> QED
      BY <2>1, <2>2
  <1>8. Cardinality(H) = Cardinality(HereMarks)
    <2> DEFINE f == [q \in HereMarks |-> var(q)]
    <2>1. \A p, q \in HereMarks : var(p) = var(q) => p = q
      <3> SUFFICES ASSUME NEW p \in HereMarks, NEW q \in HereMarks, var(p) = var(q)
                   PROVE  p = q
        OBVIOUS
      <3>1. PICK j \in 1..index : trail[j].lit = -p /\ var(trail[j].lit) = var(p)
        BY <1>4
      <3>2. PICK k \in 1..index : trail[k].lit = -q /\ var(trail[k].lit) = var(q)
        BY <1>4
      <3>3. j = k
        BY <3>1, <3>2, AnalyzeFacts
      <3> QED
        BY <1>3, <3>1, <3>2, <3>3, LitFacts
    <2>2. f \in Bijection(HereMarks, H)
      BY <2>1 DEF Bijection, Injection, Surjection, IsInjective
    <2>3. ExistsBijection(HereMarks, H)
      BY <2>2 DEF ExistsBijection
    <2>4. IsFiniteSet(HereMarks)
      <3>1. ExistsBijection(H, HereMarks)
        BY <2>3, Fun_ExistsBijSymmetric
      <3> QED
        BY <1>6, <3>1, FS_Bijection
    <2> QED
      BY <2>3, <2>4, FS_Bijection
  <1>9. Cardinality(TopMarks) = pathC + Cardinality(HereMarks)
    <2>1. Cardinality(Marked \cup H)
             = Cardinality(Marked) + Cardinality(H) - Cardinality(Marked \cap H)
      BY <1>6, FS_Union
    <2>2. Cardinality(Marked \cap H) = 0
      BY <1>5, FS_EmptySet
    <2>3. Cardinality(Marked) \in Nat /\ Cardinality(H) \in Nat
      BY <1>6, FS_CardinalityType
    <2> QED
      BY <1>2, <1>7, <1>8, <2>1, <2>2, <2>3
  <1>10. IsFiniteSet(TopMarks) /\ Cardinality(TopMarks) \in Nat
    <2>1. IsFiniteSet(TopMarks)
      BY <1>6, <1>7, FS_Union
    <2> QED
      BY <2>1, FS_CardinalityType
  <1>11. TopMarks # {}
    <2>1. \/ Marked # {}
          \/ \E i \in 1..index : /\ -trail[i].lit \in confl \ {pivot}
                                 /\ trail[i].level = decisionLevel
      BY DEF SearchInv, AnalyzeInv
    <2>2. CASE Marked # {}
      BY <1>7, <2>2
    <2>3. ASSUME NEW i \in 1..index, -trail[i].lit \in confl \ {pivot},
                 trail[i].level = decisionLevel
          PROVE  TopMarks # {}
      <3>1. i \in 1..nAssigns /\ trail[i].lit \in Lit /\ var(-trail[i].lit) = var(trail[i].lit)
        BY AnalyzeFacts, LitFacts
      <3>2. LevelOf(var(-trail[i].lit)) = decisionLevel
        BY <2>3, <3>1, AnalyzeFacts, LevelOfEntry
      <3>3. var(trail[i].lit) \in AllMarks
        <4>1. CASE var(trail[i].lit) \in seen
          BY <4>1 DEF AllMarks
        <4>2. CASE var(trail[i].lit) \notin seen
          <5>1. -trail[i].lit \in NewMarks
            BY <2>3, <3>1, <3>2, <4>2, AnalyzeFacts DEF NewMarks, Above0
          <5> QED
            BY <3>1, <5>1 DEF AllMarks
        <4> QED
          BY <4>1, <4>2
      <3> QED
        BY <2>3, <3>3 DEF TopMarks
    <2> QED
      BY <2>1, <2>2, <2>3
  <1>12. Cardinality(HereMarks) \in Nat /\ pathC \in Nat
    BY <1>2, <1>6, <1>8, FS_CardinalityType
  <1> QED
    BY <1>9, <1>10, <1>11, <1>12

\* The topmost marked entry is of the current level, and every other mark stands
\* for an entry below it.
LEMMA TopEntry ==
    ASSUME SearchInv, pc = "analyze", NEW i \in 1..index, IsTopSeen(i, AllMarks)
    PROVE  /\ trail[i].level = decisionLevel /\ var(trail[i].lit) \in TopMarks
           /\ \A v \in AllMarks \ {var(trail[i].lit)} : \A j \in 1..index :
                 var(trail[j].lit) = v => j \in 1..(i - 1)
  <1>1. /\ var(trail[i].lit) \in AllMarks
        /\ \A j \in (i + 1)..index : var(trail[j].lit) \notin AllMarks
    BY DEF IsTopSeen
  <1>2. \A j \in 1..index : var(trail[j].lit) \in AllMarks => j <= i
    <2> SUFFICES ASSUME NEW j \in 1..index, var(trail[j].lit) \in AllMarks
                 PROVE  j <= i
      OBVIOUS
    <2>1. index \in Nat
      BY AnalyzeFacts
    <2> QED
      BY <1>1, <2>1
  <1>3. PICK v \in TopMarks : TRUE
    BY TopMarksCount
  <1>4. PICK j \in 1..index : var(trail[j].lit) = v /\ trail[j].level = decisionLevel
    BY DEF TopMarks
  <1>5. j <= i
    BY <1>2, <1>4 DEF TopMarks
  <1>6. trail[i].level = decisionLevel
    BY <1>4, <1>5, AnalyzeFacts
  <1>7. var(trail[i].lit) \in TopMarks
    BY <1>1, <1>6 DEF TopMarks
  <1>8. \A w \in AllMarks \ {var(trail[i].lit)} : \A k \in 1..index :
           var(trail[k].lit) = w => k \in 1..(i - 1)
    <2> SUFFICES ASSUME NEW k \in 1..index,
                        var(trail[k].lit) \in AllMarks \ {var(trail[i].lit)}
                 PROVE  k \in 1..(i - 1)
      OBVIOUS
    <2>1. k <= i /\ k # i
      BY <1>2
    <2> QED
      BY <2>1
  <1> QED
    BY <1>6, <1>7, <1>8

\* Taking the topmost mark back leaves one mark of the current level less.
LEMMA MarksLeft ==
    ASSUME SearchInv, pc = "analyze", NEW i \in 1..index, IsTopSeen(i, AllMarks),
           NEW M, M = {v \in AllMarks \ {var(trail[i].lit)} :
                          \E j \in 1..(i - 1) : /\ var(trail[j].lit) = v
                                                /\ trail[j].level = decisionLevel}
    PROVE  /\ Cardinality(M) = pathC + Cardinality(HereMarks) - 1
           /\ Cardinality(M) \in Nat
           /\ Cardinality(M) = 0 <=> M = {}
  <1>1. /\ IsFiniteSet(TopMarks) /\ Cardinality(TopMarks) \in Nat
        /\ Cardinality(TopMarks) = pathC + Cardinality(HereMarks)
        /\ pathC \in Nat /\ Cardinality(HereMarks) \in Nat
    BY TopMarksCount
  <1>2. index \in Nat
    BY AnalyzeFacts
  <1>3. M = TopMarks \ {var(trail[i].lit)}
    <2>1. \A v \in M : v \in TopMarks \ {var(trail[i].lit)}
      <3>1. \A j \in 1..(i - 1) : j \in 1..index
        BY <1>2
      <3> QED
        BY <3>1 DEF TopMarks
    <2>2. \A v \in TopMarks \ {var(trail[i].lit)} : v \in M
      <3> TAKE v \in TopMarks \ {var(trail[i].lit)}
      <3>1. v \in AllMarks \ {var(trail[i].lit)}
        BY DEF TopMarks
      <3>2. PICK j \in 1..index : var(trail[j].lit) = v /\ trail[j].level = decisionLevel
        BY DEF TopMarks
      <3>3. j \in 1..(i - 1)
        BY <3>1, <3>2, TopEntry
      <3> QED
        BY <3>1, <3>2, <3>3
    <2> QED
      BY <2>1, <2>2
  <1>4. var(trail[i].lit) \in TopMarks
    BY TopEntry
  <1>5. IsFiniteSet(M) /\ Cardinality(M) = Cardinality(TopMarks) - 1
    <2> DEFINE x == var(trail[i].lit)
    <2>1. IsFiniteSet(TopMarks) /\ x \in TopMarks
      BY <1>1, <1>4
    <2> HIDE DEF x
    <2>2. /\ IsFiniteSet(TopMarks \ {x})
          /\ Cardinality(TopMarks \ {x}) = Cardinality(TopMarks) - 1
      BY <2>1, FS_RemoveElement
    <2>3. M = TopMarks \ {x}
      BY <1>3 DEF x
    <2> QED
      BY <2>2, <2>3
  <1>6. Cardinality(M) \in Nat /\ (Cardinality(M) = 0 <=> M = {})
    BY <1>5, FS_CardinalityType, FS_EmptySet
  <1>7. Cardinality(M) = pathC + Cardinality(HereMarks) - 1
    BY <1>1, <1>5
  <1> QED
    BY <1>6, <1>7

\* The literals collected for the learnt clause are false by the marked entries
\* of lower levels, and all of them.
LEMMA CollectedFacts ==
    ASSUME SearchInv, pc = "analyze", NEW i \in 1..index, IsTopSeen(i, AllMarks),
           NEW out, out = out_learnt \cup (NewMarks \ HereMarks)
    PROVE  /\ \A j \in 1..(i - 1) :
                 /\ var(trail[j].lit) \in AllMarks
                 /\ trail[j].level < decisionLevel
                 => -trail[j].lit \in out
           /\ \A q \in out :
                 /\ q \in Lit /\ var(q) \in AllMarks \ {var(trail[i].lit)}
                 /\ \E j \in 1..(i - 1) : /\ trail[j].lit = -q
                                          /\ trail[j].level \in 1..(decisionLevel - 1)
  <1>1. index \in Nat /\ decisionLevel \in Nat
    BY AnalyzeFacts
  <1>2. ASSUME NEW j \in 1..(i - 1), var(trail[j].lit) \in AllMarks,
               trail[j].level < decisionLevel
        PROVE  -trail[j].lit \in out
    <2>0. j \in 1..index
      BY <1>1
    <2>1. CASE var(trail[j].lit) \in seen
      BY <1>2, <2>0, <2>1 DEF SearchInv, AnalyzeInv
    <2>2. CASE var(trail[j].lit) \notin seen
      <3>1. PICK q \in NewMarks : var(trail[j].lit) = var(q)
        BY <1>2, <2>2 DEF AllMarks
      <3>2. PICK k \in 1..index : trail[k].lit = -q /\ trail[k].level = LevelOf(var(q))
        BY MarkFacts, ConflFacts
      <3>3. q \in Lit /\ var(trail[k].lit) = var(q) /\ -trail[k].lit = q
        BY <3>2, MarkFacts, LitFacts
      <3>4. k = j
        BY <2>0, <3>1, <3>3, AnalyzeFacts
      <3>5. q \notin HereMarks
        BY <1>2, <3>2, <3>4, AnalyzeFacts DEF HereMarks
      <3> QED
        BY <3>3, <3>4, <3>5
    <2> QED
      BY <2>1, <2>2
  <1>3. \A q \in out : /\ q \in Lit /\ var(q) \in AllMarks
                       /\ \E j \in 1..index : /\ trail[j].lit = -q
                                              /\ trail[j].level \in 1..(decisionLevel - 1)
    <2> TAKE q \in out
    <2>1. CASE q \in out_learnt
      BY <2>1 DEF SearchInv, AnalyzeInv, AllMarks, TypeOK
    <2>2. CASE q \in NewMarks \ HereMarks
      <3>1. PICK j \in 1..index : trail[j].lit = -q /\ trail[j].level = LevelOf(var(q))
        BY <2>2, MarkFacts, ConflFacts
      <3>2. LevelOf(var(q)) > 0 /\ ~ (LevelOf(var(q)) >= decisionLevel)
        BY <2>2, MarkFacts DEF HereMarks
      <3>3. trail[j].level \in 1..(decisionLevel - 1)
        BY <1>1, <3>1, <3>2, AnalyzeFacts
      <3> QED
        BY <2>2, <3>1, <3>3, MarkFacts DEF AllMarks
    <2> QED
      BY <2>1, <2>2
  <1>4. \A q \in out :
           /\ q \in Lit /\ var(q) \in AllMarks \ {var(trail[i].lit)}
           /\ \E j \in 1..(i - 1) : /\ trail[j].lit = -q
                                    /\ trail[j].level \in 1..(decisionLevel - 1)
    <2> TAKE q \in out
    <2>1. PICK j \in 1..index : /\ trail[j].lit = -q
                                /\ trail[j].level \in 1..(decisionLevel - 1)
      BY <1>3
    <2>2. q \in Lit /\ var(q) \in AllMarks /\ var(trail[j].lit) = var(q)
      BY <1>3, <2>1, LitFacts
    <2>3. trail[i].level = decisionLevel
      BY TopEntry
    <2>4. var(q) # var(trail[i].lit)
      <3>1. i # j
        BY <1>1, <2>1, <2>3
      <3> QED
        BY <2>2, <3>1, AnalyzeFacts
    <2>5. j \in 1..(i - 1)
      BY <2>2, <2>4, TopEntry
    <2> QED
      BY <2>1, <2>2, <2>4, <2>5
  <1> QED
    BY <1>2, <1>4

\* cancelUntilVar shortens the trail, but leaves all its levels open: the entry
\* it removes is never the first one below the current level.
LEMMA TrailCut ==
    ASSUME SearchInv, pc = "analyze", NEW i \in 1..index, trail[i].level = decisionLevel,
           UNCHANGED <<clauses, learnts, missed>>,
           \/ trail' = SubSeq(trail, 1, i - 1) /\ trail_lim' = CancelVarLim(i)
           \/ trail' = trail /\ trail_lim' = trail_lim
    PROVE  /\ trail' \in Seq(Entry) /\ trail_lim' = trail_lim /\ TrailInv'
           /\ Len(trail') \in Nat /\ i - 1 <= Len(trail')
           /\ DOMAIN trail' = 1..Len(trail')
           /\ \A j \in 1..Len(trail') : j \in 1..nAssigns /\ trail'[j] = trail[j]
  <1>1. TrailInv
    BY DEF SearchInv
  <1>2. /\ trail \in Seq(Entry) /\ trail_lim \in Seq(Nat) /\ TrailOK(trail, trail_lim)
        /\ nAssigns \in Nat /\ i \in 1..nAssigns /\ decisionLevel \in Nat
        /\ nAssigns = Len(trail) /\ DOMAIN trail = 1..nAssigns /\ i - 1 \in 0..Len(trail)
    BY AnalyzeFacts, TrailFacts DEF nAssigns
  <1>3. CASE trail' = trail /\ trail_lim' = trail_lim
    <2>1. TrailInv'
      BY <1>1, <1>3, TrailInvUnchanged
    <2> QED
      BY <1>2, <1>3, <2>1
  <1>4. CASE trail' = SubSeq(trail, 1, i - 1) /\ trail_lim' = CancelVarLim(i)
    <2>1. trail_lim' = trail_lim
      BY <1>2, <1>4 DEF CancelVarLim
    <2>2. /\ trail' \in Seq(Entry) /\ Len(trail') = i - 1 /\ DOMAIN trail' = 1..(i - 1)
          /\ \A j \in 1..(i - 1) : trail'[j] = trail[j]
      BY <1>2, <1>4, PrefixFacts
    <2>3. TrailOK(trail', trail_lim')
      <3>1. /\ decisionLevel = Len(trail_lim) /\ DOMAIN trail_lim = 1..decisionLevel
            /\ \A k \in 1..decisionLevel : trail_lim[k] \in Nat
        BY <1>2, SeqFacts DEF decisionLevel
      <3>2. \A k \in 1..decisionLevel : trail_lim[k] <= i - 1
        <4> SUFFICES ASSUME NEW k \in 1..decisionLevel
                     PROVE  trail_lim[k] <= i - 1
          OBVIOUS
        <4>1. k \in DOMAIN trail_lim /\ i \in DOMAIN trail /\ k <= trail[i].level
          BY <1>2, <3>1
        <4>2. trail_lim[k] < i
          BY <1>2, <4>1, Zenon DEF TrailOK
        <4> QED
          BY <1>2, <3>1, <4>2
      <3>3. SubSeq(trail_lim, 1, decisionLevel) = trail_lim
        BY <1>2, <3>1, SubSeqFull
      <3>4. TrailOK(SubSeq(trail, 1, i - 1), SubSeq(trail_lim, 1, decisionLevel))
        <4>1. /\ decisionLevel \in 0..Len(trail_lim) /\ i - 1 \in 0..Len(trail)
              /\ ~ (decisionLevel < Len(trail_lim))
          BY <1>2, <3>1
        <4>2. trail \in Seq(Entry) /\ trail_lim \in Seq(Nat) /\ TrailOK(trail, trail_lim)
          BY <1>2
        <4> QED
          BY <3>2, <4>1, <4>2, PrefixOK
      <3> QED
        BY <1>4, <2>1, <3>3, <3>4
    <2>4. ReasonsOK(trail', DB) /\ DecisionsFirst(trail')
      BY <1>1, <1>2, <1>4, PrefixReasons DEF TrailInv
    <2>5. LevelsSettled(trail', Heard, decisionLevel)
      <3>1. \A k \in 0..(decisionLevel - 1) : SameUpTo(trail, trail', k)
        <4> TAKE k \in 0..(decisionLevel - 1)
        <4>1. \A j \in 1..Len(trail) : trail[j].level <= k => j <= i - 1
          <5> SUFFICES ASSUME NEW j \in 1..Len(trail), trail[j].level <= k
                       PROVE  j <= i - 1
            OBVIOUS
          <5>1. trail[j].level \in Nat
            BY <1>2, TrailFacts
          <5>2. ~ (i <= j)
            <6>1. i <= j => trail[i].level <= trail[j].level
              BY <1>2, LevelsMonotone
            <6> QED
              BY <1>2, <5>1, <6>1
          <5> QED
            BY <1>2, <5>2
        <4>2. k \in Nat
          BY <1>2
        <4> QED
          BY <1>2, <1>4, <4>1, <4>2, PrefixSame
      <3>2. LevelsSettled(trail, Heard, decisionLevel)
        BY <1>1 DEF TrailInv
      <3>3. decisionLevel \in 0..decisionLevel
        BY <1>2
      <3> QED
        BY <1>2, <2>2, <3>1, <3>2, <3>3, LevelsSame
    <2>6. TrailInv'
      <3>1. DB' = DB /\ Heard' = Heard /\ decisionLevel' = decisionLevel
        BY <2>1 DEF DB, Heard, decisionLevel
      <3> QED
        BY <2>3, <2>4, <2>5, <3>1 DEF TrailInv
    <2>7. \A j \in 1..(i - 1) : j \in 1..nAssigns
      BY <1>2
    <2> QED
      BY <1>2, <2>1, <2>2, <2>6, <2>7
  <1> QED
    BY <1>3, <1>4

\* One turn of the loop of analyze, which either goes on with a clause that has
\* a marked literal of the current level left, or is the last.
LEMMA AnalyzeStepInv ==
    ASSUME SearchInv, AnalyzeStep, UNCHANGED formula
    PROVE  SearchInv'
  <1> DEFINE n == pathC + Cardinality(HereMarks) - 1
             Turn(i, r) ==
                /\ IsTopSeen(i, AllMarks)
                /\ pivot' = trail[i].lit
                /\ out_learnt' = out_learnt \cup (NewMarks \ HereMarks)
                /\ seen' = AllMarks \ {var(trail[i].lit)}
                /\ pathC' = n
                /\ index' = i - 1
                /\ confl' = r
                /\ IF trail[i].reason = CRef_Fake
                     THEN /\ trail' = SubSeq(trail, 1, i - 1)
                          /\ trail_lim' = CancelVarLim(i)
                     ELSE UNCHANGED trailVars
                /\ pc' = IF n <= 0 THEN "learn"
                         ELSE IF r = CRef_Undef THEN "assert" ELSE "analyze"
  <1>1. pc = "analyze"
    BY DEF AnalyzeStep
  <1>2. UNCHANGED <<dbVars, forced_split, resultVars, callVars, conflictC, ok, stop, formula>>
    BY DEF AnalyzeStep
  <1>3a. PICK i \in 1..index : \E r \in ReasonsFor(i) : Turn(i, r)
    BY Zenon DEF AnalyzeStep, NewMarks, HereMarks, AllMarks
  <1>3. PICK r \in ReasonsFor(i) : Turn(i, r)
    BY <1>3a
  <1>4. /\ IsTopSeen(i, AllMarks)
        /\ pivot' = trail[i].lit
        /\ out_learnt' = out_learnt \cup (NewMarks \ HereMarks)
        /\ seen' = AllMarks \ {var(trail[i].lit)}
        /\ pathC' = n
        /\ index' = i - 1
        /\ confl' = r
        /\ \/ trail' = SubSeq(trail, 1, i - 1) /\ trail_lim' = CancelVarLim(i)
           \/ trail' = trail /\ trail_lim' = trail_lim
        /\ pc' = IF n <= 0 THEN "learn"
                 ELSE IF r = CRef_Undef THEN "assert" ELSE "analyze"
    BY <1>3 DEF trailVars
  <1>5. /\ trail \in Seq(Entry) /\ trail_lim \in Seq(Nat) /\ TrailOK(trail, trail_lim)
        /\ index \in Nat /\ nAssigns \in Nat /\ i \in 1..nAssigns
        /\ decisionLevel \in Nat /\ decisionLevel > 0
        /\ trail[i].lit \in Lit
        /\ DOMAIN trail = 1..nAssigns
    BY <1>1, AnalyzeFacts, TrailFacts DEF nAssigns
  <1>6. trail[i].level = decisionLevel
    BY <1>1, <1>4, TopEntry
  <1>7. /\ trail' \in Seq(Entry) /\ trail_lim' = trail_lim /\ TrailInv'
        /\ Len(trail') \in Nat /\ i - 1 <= Len(trail')
        /\ DOMAIN trail' = 1..Len(trail')
        /\ \A j \in 1..Len(trail') : j \in 1..nAssigns /\ trail'[j] = trail[j]
    BY <1>1, <1>2, <1>4, <1>6, TrailCut DEF dbVars
  <1>8. /\ decisionLevel' = decisionLevel
        /\ nAssigns' = Len(trail') /\ nAssigns' \in Nat
        /\ \A j \in 1..(i - 1) : /\ j \in 1..Len(trail') /\ trail'[j] = trail[j]
                                 /\ j \in 1..index
    BY <1>5, <1>7 DEF decisionLevel, nAssigns
  \* What the marks stand for afterwards.
  <1>9. \A v \in seen' : \E j \in 1..(i - 1) :
           var(trail[j].lit) = v /\ trail[j].level > 0
    <2> TAKE v \in seen'
    <2>1. v \in AllMarks \ {var(trail[i].lit)} /\ v \in AllMarks
      BY <1>4
    <2>2. PICK j \in 1..index : var(trail[j].lit) = v /\ trail[j].level > 0
      BY <1>1, <2>1, MarkFacts
    <2>3. j \in 1..(i - 1)
      BY <1>1, <1>4, <2>1, <2>2, TopEntry
    <2> QED
      BY <2>2, <2>3
  <1>10. /\ \A j \in 1..(i - 1) :
               var(trail[j].lit) \in seen' /\ trail[j].level < decisionLevel
               => -trail[j].lit \in out_learnt'
         /\ \A q \in out_learnt' :
               /\ q \in Lit /\ var(q) \in seen'
               /\ \E j \in 1..(i - 1) : /\ trail[j].lit = -q
                                        /\ trail[j].level \in 1..(decisionLevel - 1)
    <2> DEFINE out == out_learnt \cup (NewMarks \ HereMarks)
    <2>1. /\ \A j \in 1..(i - 1) :
                /\ var(trail[j].lit) \in AllMarks
                /\ trail[j].level < decisionLevel
                => -trail[j].lit \in out
          /\ \A q \in out :
                /\ q \in Lit /\ var(q) \in AllMarks \ {var(trail[i].lit)}
                /\ \E j \in 1..(i - 1) : /\ trail[j].lit = -q
                                         /\ trail[j].level \in 1..(decisionLevel - 1)
      BY <1>1, <1>4, CollectedFacts
    <2>2. out_learnt' = out
      BY <1>4
    <2> HIDE DEF out
    <2> QED
      BY <1>4, <2>1, <2>2
  <1> DEFINE Left == {v \in AllMarks \ {var(trail[i].lit)} :
                         \E j \in 1..(i - 1) : /\ var(trail[j].lit) = v
                                               /\ trail[j].level = decisionLevel}
  <1>11. Cardinality(Left) = n /\ Cardinality(Left) \in Nat /\ (Cardinality(Left) = 0 <=> Left = {})
    BY <1>1, <1>4, MarksLeft
  <1>12. Marked' = Left
    <2>1. \A j \in 1..(i - 1) : trail'[j] = trail[j]
      BY <1>8
    <2>2. Marked' = {v \in seen' : \E j \in 1..index' :
                        var(trail'[j].lit) = v /\ trail'[j].level = decisionLevel'}
      BY DEF Marked
    <2>3. index' = i - 1 /\ seen' = AllMarks \ {var(trail[i].lit)}
      BY <1>4
    <2> QED
      BY <1>8, <2>1, <2>2, <2>3
  <1> HIDE DEF n, Left
  \* The types.
  <1>13. seen' \subseteq Vars
    <2>1. \A v \in AllMarks : v \in Vars
      BY <1>1, MarkFacts DEF AllMarks, SearchInv, TypeOK
    <2> QED
      BY <1>4, <2>1
  <1>14. out_learnt' \subseteq Lit /\ pathC' \in Nat /\ index' \in Nat /\ pivot' \in Lit
    BY <1>4, <1>5, <1>10, <1>11
  <1>15. \/ r = CRef_Undef /\ trail[i].reason = CRef_Undef
         \/ /\ r \in Clause /\ r \subseteq Lit /\ IsClause(r)
            /\ \A q \in r \ {trail[i].lit} : \E j \in 1..(i - 1) : trail[j].lit = -q
    BY <1>5, ReasonTypes DEF SearchInv, TrailInv
  <1>16. confl' \in {CRef_Undef, CRef_Fake} \cup Clause
    BY <1>4, <1>15
  <1>17. pc' \in {"learn", "analyze", "assert"}
    BY <1>4
  <1>18. TypeOK'
    BY <1>2, <1>7, <1>13, <1>14, <1>16, <1>17
       DEF SearchInv, TypeOK, dbVars, resultVars, callVars
  <1>19. CASE n <= 0
    <2>1. pc' = "learn" /\ Left = {}
      BY <1>4, <1>11, <1>19
    <2>2. \A v \in seen' : \E q \in out_learnt' : var(q) = v
      <3> TAKE v \in seen'
      <3>1. PICK j \in 1..(i - 1) : var(trail[j].lit) = v /\ trail[j].level > 0
        BY <1>9
      <3>2. trail[j].level # decisionLevel
        BY <1>4, <2>1, <3>1 DEF Left
      <3>3. j \in 1..index
        BY <1>8
      <3>4. trail[j].lit \in Lit /\ trail[j].level \in Nat /\ trail[j].level <= decisionLevel
        BY <1>1, <3>3, AnalyzeFacts
      <3>5. trail[j].level < decisionLevel
        BY <1>5, <3>2, <3>4
      <3>6. var(-trail[j].lit) = var(trail[j].lit)
        BY <3>4, LitFacts
      <3> QED
        BY <1>10, <3>1, <3>5, <3>6
    <2>3. seen' = {var(q) : q \in out_learnt'}
      BY <1>10, <2>2
    <2>4. \A j \in DOMAIN trail' :
             var(trail'[j].lit) = var(pivot') => trail'[j].level = decisionLevel'
      <3> SUFFICES ASSUME NEW j \in DOMAIN trail', var(trail'[j].lit) = var(pivot')
                   PROVE  trail'[j].level = decisionLevel'
        OBVIOUS
      <3>1. j \in 1..nAssigns /\ trail'[j] = trail[j]
        BY <1>7
      <3>2. j = i
        BY <1>4, <1>5, <3>1 DEF TrailOK
      <3> QED
        BY <1>6, <1>8, <3>1, <3>2
    <2>5. \A q \in out_learnt' :
             \E j \in DOMAIN trail' : /\ trail'[j].lit = -q
                                      /\ trail'[j].level \in 1..(decisionLevel' - 1)
      <3> TAKE q \in out_learnt'
      <3>1. PICK j \in 1..(i - 1) : /\ trail[j].lit = -q
                                    /\ trail[j].level \in 1..(decisionLevel - 1)
        BY <1>10
      <3>2. j \in DOMAIN trail' /\ trail'[j] = trail[j]
        BY <1>7, <1>8
      <3> QED
        BY <1>8, <3>1, <3>2
    <2>6. LearnInv'
      BY <1>5, <1>8, <1>14, <2>3, <2>4, <2>5 DEF LearnInv
    <2>7. CalmInv' /\ Phases' /\ Clean'
      BY <1>1, <1>2, <2>1 DEF SearchInv, CalmInv, Calm, Phases, Clean, Analysing, callVars
    <2>8. AnalyzeInv' /\ FinalInv'
      BY <2>1 DEF AnalyzeInv, FinalInv
    <2> QED
      BY <1>7, <1>18, <2>6, <2>7, <2>8 DEF SearchInv
  <1>20. CASE ~ (n <= 0)
    <2>1. PICK v \in Left : TRUE
      <3>1. Cardinality(Left) # 0
        BY <1>11, <1>20
      <3> QED
        BY <1>11, <3>1
    <2>2. PICK j \in 1..(i - 1) : trail[j].level = decisionLevel
      BY <2>1 DEF Left
    <2>3. trail[i].reason # CRef_Undef
      <3>1. DecisionsFirst(trail)
        BY DEF SearchInv, TrailInv
      <3>2. SUFFICES ASSUME trail[i].reason = CRef_Undef PROVE FALSE
        OBVIOUS
      <3>3. i \in DOMAIN trail /\ trail[i].level > 0
        BY <1>5, <1>6
      <3>4. trail[j].level < trail[i].level
        BY <2>2, <3>1, <3>2, <3>3 DEF DecisionsFirst
      <3> QED
        BY <1>5, <1>6, <2>2, <3>4
    <2>4. /\ r \subseteq Lit /\ IsClause(r)
          /\ \A q \in r \ {trail[i].lit} : \E k \in 1..(i - 1) : trail[k].lit = -q
      BY <1>15, <2>3
    <2>5. pc' = "analyze"
      BY <1>4, <1>20, <2>4 DEF IsClause
    <2>6. AnalyzeInv'
      <3>1. index' <= nAssigns'
        BY <1>4, <1>7, <1>8
      <3>2. \A q \in confl' \ {pivot'} : \E k \in 1..index' : trail'[k].lit = -q
        BY <1>4, <1>8, <2>4
      <3>3. \A w \in seen' : \E k \in 1..index' :
               var(trail'[k].lit) = w /\ trail'[k].level > 0
        BY <1>4, <1>8, <1>9
      <3>4. \A k \in 1..index' :
               var(trail'[k].lit) \in seen' /\ trail'[k].level < decisionLevel'
               => -trail'[k].lit \in out_learnt'
        BY <1>4, <1>8, <1>10
      <3>5. \A q \in out_learnt' :
               /\ var(q) \in seen'
               /\ \E k \in 1..index' : /\ trail'[k].lit = -q
                                       /\ trail'[k].level \in 1..(decisionLevel' - 1)
        <4> TAKE q \in out_learnt'
        <4>1. PICK k \in 1..(i - 1) : /\ trail[k].lit = -q
                                      /\ trail[k].level \in 1..(decisionLevel - 1)
          BY <1>10
        <4> QED
          BY <1>4, <1>8, <1>10, <4>1
      <3>6. pathC' = Cardinality(Marked') /\ Marked' # {}
        BY <1>4, <1>11, <1>12, <2>1
      <3>7. decisionLevel' > 0 /\ IsClause(confl')
        BY <1>4, <1>5, <1>8, <2>4
      <3> QED
        BY <3>1, <3>2, <3>3, <3>4, <3>5, <3>6, <3>7 DEF AnalyzeInv
    <2>7. CalmInv' /\ Phases' /\ Clean'
      BY <1>1, <1>2, <2>5 DEF SearchInv, CalmInv, Calm, Phases, Clean, Analysing, callVars
    <2>8. LearnInv' /\ FinalInv'
      BY <2>5 DEF LearnInv, FinalInv
    <2> QED
      BY <1>7, <1>18, <2>6, <2>7, <2>8 DEF SearchInv
  <1> QED
    BY <1>19, <1>20

-----------------------------------------------------------------------------
(* The invariant.                                                          *)

\* A step that changes nothing preserves the invariant.
LEMMA StutterInv ==
    ASSUME SearchInv, UNCHANGED vars
    PROVE  SearchInv'
  <1> USE DEF vars, dbVars, trailVars, analyzeVars, resultVars, callVars
  <1>1. TypeOK'
    BY DEF SearchInv, TypeOK
  <1>2. TrailInv'
    BY TrailInvUnchanged DEF SearchInv
  <1>3. /\ Heard' = Heard /\ decisionLevel' = decisionLevel /\ nAssigns' = nAssigns /\ Marked' = Marked
        /\ Calm' = Calm /\ Analysing' = Analysing
    BY DEF DB, Heard, decisionLevel, nAssigns, Marked, Calm, Analysing
  <1>4. CalmInv' /\ Phases' /\ Clean'
    BY <1>3 DEF SearchInv, CalmInv, Phases, Clean
  <1>5. AnalyzeInv' /\ LearnInv' /\ FinalInv'
    BY <1>3 DEF SearchInv, AnalyzeInv, LearnInv, FinalInv
  <1> QED
    BY <1>1, <1>2, <1>4, <1>5 DEF SearchInv

\* Every step preserves the invariant.
LEMMA NextInv ==
    ASSUME CleanCalls, SearchInv, [Next]_vars
    PROVE  SearchInv'
  <1>1. CASE UNCHANGED vars
    BY <1>1, StutterInv
  <1>2. ASSUME NEW c \in NewClauses, AddOriginalClause(c)
        PROVE  SearchInv'
    BY <1>2, AddOriginalClauseInv
  <1>3. ASSUME solves < MaxSolves, NEW as \in Assumptions[solves + 1], Solve(as), UNCHANGED formula
        PROVE  SearchInv'
    BY <1>3, SolveInv
  <1>4. CASE Propagation /\ UNCHANGED formula
    BY <1>4, PropagateUnitInv, PropagateConflictInv, ClauseAddedInv DEF Propagation
  <1>5. CASE TheoryCheck /\ UNCHANGED formula
    BY <1>5, TheoryConflictInv, TheorySplitInv, TheorySplitImpliedInv, TheoryDeduceInv,
       DeducedAllInv, TheoryPassInv DEF TheoryCheck
  <1>6. CASE Analysis /\ UNCHANGED formula
    BY <1>6, AnalyzeStepInv, LearnStepInv, FinalStepInv, FinalDoneInv DEF Analysis
  <1>7. CASE Deciding /\ UNCHANGED formula
    BY <1>7, AssumeNextInv, AssumptionsDoneInv, DecideInv, NoDecisionInv DEF Deciding
  <1>8. CASE (Stopped \/ Restart \/ TidyDB \/ clearSearch \/ Interrupt) /\ UNCHANGED formula
    BY <1>8, StoppedInv, RestartInv, TidyDBInv, ClearSearchInv, InterruptInv
  <1> QED
    BY <1>1, <1>2, <1>3, <1>4, <1>5, <1>6, <1>7, <1>8 DEF Next, Run, Step, Call

\* The invariant of the search holds in every reachable state, whatever the
\* clauses, the theory and the bounds, as long as no analysis can meet the marks
\* that analyzeFinal leaves behind (CleanCalls).
\* Clauses that a search left behind on a conflict at level 0 are among the
\* states covered: every level is settled but for those.
THEOREM SearchInvariance ==
    ASSUME CleanCalls
    PROVE  Spec => []SearchInv
  <1>1. Init => SearchInv
    BY InitInv
  <1>2. SearchInv /\ [Next]_vars => SearchInv'
    BY NextInv
  <1> QED
    BY <1>1, <1>2, PTL DEF Spec

-----------------------------------------------------------------------------
(* What it implies.                                                        *)

\* Every operation keeps the state of the solver well-typed: levels, positions
\* and reasons never leave their ranges, and no cancelUntil reads beyond the trail.
THEOREM TypeCorrect ==
    ASSUME CleanCalls
    PROVE  Spec => []TypeOK
  <1>1. SearchInv => TypeOK
    BY DEF SearchInv
  <1> QED
    BY <1>1, SearchInvariance, PTL

\* enqueue, cancelUntil, cancelUntilVar and the backjumps of the theory keep
\* trail, trail_lim and vardata in step.
THEOREM TrailCorrect ==
    ASSUME CleanCalls
    PROVE  Spec => []TrailConsistent
  <1>1. SearchInv => TrailConsistent
    BY DEF SearchInv, TrailInv, TrailOK, TrailConsistent, nAssigns, decisionLevel
  <1> QED
    BY <1>1, SearchInvariance, PTL

\* A stored reason implies its literal from earlier ones, one of them of the
\* same level, and reduceDB and simplify never free it.
THEOREM ReasonsCorrect ==
    ASSUME CleanCalls
    PROVE  Spec => []ReasonsInOrder
  <1>1. SearchInv => ReasonsInOrder
    BY DEF SearchInv, TrailInv, ReasonsOK, ReasonsInOrder
  <1> QED
    BY <1>1, SearchInvariance, PTL

\* A search meets no mark but those of its own analysis.
THEOREM SeenCorrect ==
    ASSUME CleanCalls
    PROVE  Spec => []SeenCleared
  <1>1. SearchInv => SeenCleared
    BY DEF SearchInv, Clean, Analysing, SeenCleared
  <1> QED
    BY <1>1, SearchInvariance, PTL

\* pathC counts entries as well as variables.
LEMMA PathCounts ==
    ASSUME SearchInv, pc = "analyze"
    PROVE  pathC = Cardinality({i \in 1..index : /\ var(trail[i].lit) \in seen
                                                 /\ trail[i].level = decisionLevel})
  <1> DEFINE P == {i \in 1..index : /\ var(trail[i].lit) \in seen
                                    /\ trail[i].level = decisionLevel}
             f == [i \in P |-> var(trail[i].lit)]
  <1>1. Marked = {var(trail[i].lit) : i \in P}
    BY DEF Marked
  <1>2. \A i, j \in P : var(trail[i].lit) = var(trail[j].lit) => i = j
    BY AnalyzeFacts
  <1>3. f \in Bijection(P, Marked)
    BY <1>1, <1>2 DEF Bijection, Injection, Surjection, IsInjective
  <1>4. ExistsBijection(P, Marked)
    BY <1>3 DEF ExistsBijection
  <1>5. IsFiniteSet(P)
    <2>1. 1 \in Int /\ index \in Int
      BY AnalyzeFacts
    <2>2. IsFiniteSet(1..index)
      BY <2>1, FS_Interval
    <2> QED
      BY <2>2, FS_Subset
  <1>6. Cardinality(Marked) = Cardinality(P)
    BY <1>4, <1>5, FS_Bijection
  <1> QED
    BY <1>6 DEF SearchInv, AnalyzeInv

\* Conflict analysis always has a literal left to resolve on and ends with a
\* first UIP: one literal of the current level, the others false below it.
THEOREM UIPCorrect ==
    ASSUME CleanCalls
    PROVE  Spec => []UIPReached
  <1>1. SearchInv => UIPReached
    <2> SUFFICES ASSUME SearchInv
                 PROVE  UIPReached
      OBVIOUS
    <2>1. pc # "assert"
      BY DEF SearchInv, Phases
    <2>2. ASSUME pc = "analyze"
          PROVE  /\ \E i \in 1..index :
                       \/ var(trail[i].lit) \in seen
                       \/ -trail[i].lit \in confl \ {pivot} /\ trail[i].level > 0
                 /\ pathC = Cardinality({i \in 1..index :
                                            /\ var(trail[i].lit) \in seen
                                            /\ trail[i].level = decisionLevel})
      <3>1. decisionLevel > 0
        BY <2>2 DEF SearchInv, AnalyzeInv
      <3>2. \/ Marked # {}
            \/ \E i \in 1..index : /\ -trail[i].lit \in confl \ {pivot}
                                   /\ trail[i].level = decisionLevel
        BY <2>2 DEF SearchInv, AnalyzeInv
      <3>3. \E i \in 1..index :
               \/ var(trail[i].lit) \in seen
               \/ -trail[i].lit \in confl \ {pivot} /\ trail[i].level > 0
        BY <3>1, <3>2 DEF Marked
      <3> QED
        BY <2>2, <3>3, PathCounts
    <2>3. ASSUME pc = "learn"
          PROVE  /\ \A i \in DOMAIN trail :
                       var(trail[i].lit) = var(pivot) => trail[i].level = decisionLevel
                 /\ seen = {var(q) : q \in out_learnt}
                 /\ \A q \in out_learnt :
                       -q \in TrueLits /\ LevelOf(var(q)) \in 1..(decisionLevel - 1)
      <3>1. /\ trail \in Seq(Entry) /\ TrailOK(trail, trail_lim) /\ out_learnt \subseteq Lit
            /\ DOMAIN trail = 1..nAssigns
        BY TrailFacts DEF SearchInv, TypeOK, TrailInv, nAssigns
      <3>2. /\ \A i \in DOMAIN trail :
                  var(trail[i].lit) = var(pivot) => trail[i].level = decisionLevel
            /\ seen = {var(q) : q \in out_learnt}
            /\ \A q \in out_learnt :
                  \E i \in DOMAIN trail : /\ trail[i].lit = -q
                                          /\ trail[i].level \in 1..(decisionLevel - 1)
        BY <2>3 DEF SearchInv, LearnInv
      <3>3. \A q \in out_learnt :
               -q \in TrueLits /\ LevelOf(var(q)) \in 1..(decisionLevel - 1)
        <4> TAKE q \in out_learnt
        <4>1. PICK i \in 1..nAssigns : /\ trail[i].lit = -q
                                       /\ trail[i].level \in 1..(decisionLevel - 1)
          BY <3>1, <3>2
        <4>2. LevelOf(var(q)) = trail[i].level
          BY <3>1, <4>1, LevelOfLit
        <4> QED
          BY <3>1, <4>1, <4>2 DEF TrueLits, LitsOf
      <3> QED
        BY <3>2, <3>3
    <2> QED
      BY <2>1, <2>2, <2>3 DEF UIPReached
  <1> QED
    BY <1>1, SearchInvariance, PTL
=============================================================================
