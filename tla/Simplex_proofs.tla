-------------------------- MODULE Simplex_proofs ---------------------------
(***************************************************************************)
(* Why the simplex is right: SInv, of SimplexInvariant, holds from the     *)
(* start and is kept by every step, and so are the properties it gives.    *)
(***************************************************************************)
EXTENDS SimplexInvariant, DataLemmas

-----------------------------------------------------------------------------
(* Polynomials and their values.                                           *)

Numbers == [Vars -> Rationals]

\* Sets of variables are finite.
LEMMA VarsFinite ==
    /\ IsFiniteSet(Vars)
    /\ \A S \in SUBSET Vars : IsFiniteSet(S)
  <1>1. IsFiniteSet(Vars)
    BY VarsAssumption, FS_Interval DEF Vars
  <1> QED
    BY <1>1, FS_Subset

\* The coefficients and the terms of a polynomial.
LEMMA PolyFacts ==
    ASSUME NEW p \in Polys
    PROVE  /\ p \in [Vars -> Rationals] /\ \A u \in Vars : p[u] \in Rationals
           /\ Terms(p) \in SUBSET Vars
           /\ \A u \in Vars : u \in Terms(p) <=> p[u] # Zero
  BY DEF Polys, Terms

\* A sum over the terms is a sum over all variables.
LEMMA DotAll ==
    ASSUME NEW p \in Polys, NEW g \in Numbers
    PROVE  /\ Dot(p, g) = RSum([u \in Vars |-> RMul(p[u], g[u])], Vars)
           /\ Dot(p, g) \in Rationals
  <1> DEFINE f == [u \in Vars |-> RMul(p[u], g[u])]
  <1>1. \A u \in Vars : f[u] \in Rationals
    BY PolyFacts, RationalClosed DEF Numbers
  <1>2. \A u \in Vars \ Terms(p) : f[u] = Zero
    BY PolyFacts, Neutral DEF Numbers
  <1>3. Terms(p) \in SUBSET Vars
    BY PolyFacts
  <1> HIDE DEF f
  <1>4. RSum(f, Vars) = RSum(f, Terms(p)) /\ RSum(f, Vars) \in Rationals
    BY <1>1, <1>2, <1>3, VarsFinite, RSumNonZero, RSumEquation
  <1> QED
    BY <1>4 DEF Dot, f

\* Sums and multiples of polynomials, coefficient by coefficient.
LEMMA PolyClosed ==
    ASSUME NEW p \in Polys, NEW q \in Polys, NEW c \in Rationals
    PROVE  /\ Plus(p, q) \in Polys /\ Scaled(c, p) \in Polys /\ NoPoly \in Polys
           /\ \A u \in Vars : /\ Plus(p, q)[u] = RAdd(p[u], q[u])
                              /\ Scaled(c, p)[u] = RMul(c, p[u])
                              /\ NoPoly[u] = Zero
  <1>1. \A u \in Vars : p[u] \in Rationals /\ q[u] \in Rationals
    BY PolyFacts
  <1>2. NoPoly \in Polys /\ \A u \in Vars : NoPoly[u] = Zero
    BY ZeroOne DEF NoPoly, Polys
  <1>3. Plus(p, q) \in Polys /\ \A u \in Vars : Plus(p, q)[u] = RAdd(p[u], q[u])
    BY <1>1, RationalClosed DEF Plus, Polys
  <1>4. Scaled(c, p) \in Polys /\ \A u \in Vars : Scaled(c, p)[u] = RMul(c, p[u])
    BY <1>1, RationalClosed DEF Scaled, Polys
  <1> QED
    BY <1>2, <1>3, <1>4

\* One coefficient set; the polynomial that is a variable.
LEMMA PolyChanged ==
    ASSUME NEW p \in Polys, NEW v \in Vars, NEW c \in Rationals
    PROVE  /\ [p EXCEPT ![v] = c] \in Polys
           /\ \A u \in Vars : [p EXCEPT ![v] = c][u] = IF u = v THEN c ELSE p[u]
           /\ Unit(v) \in Polys
           /\ \A u \in Vars : Unit(v)[u] = IF u = v THEN One ELSE Zero
  <1>1. Unit(v) \in Polys /\ \A u \in Vars : Unit(v)[u] = IF u = v THEN One ELSE Zero
    BY ZeroOne DEF Unit, NoPoly, Polys
  <1>2. [p EXCEPT ![v] = c] \in Polys /\ \A u \in Vars : [p EXCEPT ![v] = c][u] = IF u = v THEN c ELSE p[u]
    BY DEF Polys
  <1> QED
    BY <1>1, <1>2

\* The value of a polynomial is linear in its coefficients.
LEMMA DotLinear ==
    ASSUME NEW p \in Polys, NEW q \in Polys, NEW c \in Rationals, NEW g \in Numbers
    PROVE  /\ Dot(Plus(p, q), g) = RAdd(Dot(p, g), Dot(q, g))
           /\ Dot(Scaled(c, p), g) = RMul(c, Dot(p, g))
           /\ Dot(NoPoly, g) = Zero
  <1> DEFINE f(r) == [u \in Vars |-> RMul(r[u], g[u])]
  <1>1. \A r \in Polys : /\ Dot(r, g) = RSum(f(r), Vars)
                         /\ \A u \in Vars : f(r)[u] = RMul(r[u], g[u]) /\ f(r)[u] \in Rationals
    BY DotAll, PolyFacts, RationalClosed DEF Numbers
  <1>2. \A u \in Vars : p[u] \in Rationals /\ q[u] \in Rationals /\ g[u] \in Rationals
    BY PolyFacts DEF Numbers
  <1> DEFINE pq == Plus(p, q)
             cp == Scaled(c, p)
  <1>3. /\ pq \in Polys /\ cp \in Polys /\ NoPoly \in Polys
        /\ \A u \in Vars : /\ pq[u] = RAdd(p[u], q[u]) /\ cp[u] = RMul(c, p[u])
                           /\ NoPoly[u] = Zero
    BY PolyClosed
  <1> HIDE DEF f, pq, cp
  <1>4. ASSUME NEW u \in Vars
        PROVE  f(pq)[u] = RAdd(f(p)[u], f(q)[u])
    <2>1. f(pq)[u] = RMul(RAdd(p[u], q[u]), g[u])
      BY <1>1, <1>3
    <2>2. RMul(RAdd(p[u], q[u]), g[u]) = RMul(g[u], RAdd(p[u], q[u]))
      BY <1>2, RationalClosed, AddCommutes
    <2>3. RMul(g[u], RAdd(p[u], q[u])) = RAdd(RMul(g[u], p[u]), RMul(g[u], q[u]))
      BY <1>2, Distributes
    <2>4. RMul(g[u], p[u]) = RMul(p[u], g[u]) /\ RMul(g[u], q[u]) = RMul(q[u], g[u])
      BY <1>2, AddCommutes
    <2> QED
      BY <1>1, <2>1, <2>2, <2>3, <2>4
  <1>5. ASSUME NEW u \in Vars
        PROVE  f(cp)[u] = RMul(c, f(p)[u])
    BY <1>1, <1>2, <1>3, MulAssociates
  <1>6. ASSUME NEW u \in Vars
        PROVE  f(NoPoly)[u] = Zero
    BY <1>1, <1>2, <1>3, Neutral
  <1>7. RSum(f(pq), Vars) = RAdd(RSum(f(p), Vars), RSum(f(q), Vars))
    BY <1>1, <1>4, VarsFinite, RSumAdd
  <1>8. RSum(f(cp), Vars) = RMul(c, RSum(f(p), Vars))
    BY <1>1, <1>5, VarsFinite, RSumMul
  <1>9. RSum(f(NoPoly), Vars) = Zero
    <2>1. RSum(f(NoPoly), Vars) = RSum(f(NoPoly), {})
      BY <1>1, <1>3, <1>6, VarsFinite, RSumNonZero
    <2>2. RSum(f(NoPoly), {}) = Zero
      BY VarsFinite, RSumEquation
    <2> QED
      BY <2>1, <2>2
  <1> QED
    BY <1>1, <1>3, <1>7, <1>8, <1>9 DEF pq, cp

\* Only the numbers of the terms matter.
LEMMA DotSame ==
    ASSUME NEW p \in Polys, NEW g \in Numbers, NEW h \in Numbers,
           \A u \in Terms(p) : g[u] = h[u]
    PROVE  Dot(p, g) = Dot(p, h)
  <1> DEFINE f == [u \in Vars |-> RMul(p[u], g[u])]
             e == [u \in Vars |-> RMul(p[u], h[u])]
  <1>1. Terms(p) \in SUBSET Vars /\ IsFiniteSet(Terms(p))
    BY PolyFacts, VarsFinite
  <1>2. \A u \in Terms(p) : f[u] \in Rationals /\ f[u] = e[u]
    BY <1>1, PolyFacts, RationalClosed DEF Numbers
  <1> HIDE DEF f, e
  <1>3. RSum(f, Terms(p)) = RSum(e, Terms(p))
    BY <1>1, <1>2, RSumSame
  <1> QED
    BY <1>3 DEF Dot, f, e

\* One variable taken out of the sum.
LEMMA DotWithout ==
    ASSUME NEW p \in Polys, NEW g \in Numbers, NEW y \in Vars
    PROVE  Dot(p, g) = RAdd(Dot([p EXCEPT ![y] = Zero], g), RMul(p[y], g[y]))
  <1> DEFINE q == [p EXCEPT ![y] = Zero]
             f == [u \in Vars |-> RMul(p[u], g[u])]
             e == [u \in Vars |-> RMul(q[u], g[u])]
  <1>1. q \in Polys /\ \A u \in Vars : q[u] = IF u = y THEN Zero ELSE p[u]
    BY PolyChanged, ZeroOne
  <1>2. Dot(p, g) = RSum(f, Vars) /\ Dot(q, g) = RSum(e, Vars)
    BY <1>1, DotAll
  <1>3. \A u \in Vars : f[u] \in Rationals /\ e[u] \in Rationals
    BY <1>1, PolyFacts, RationalClosed DEF Numbers
  <1>4. f[y] = RMul(p[y], g[y]) /\ e[y] = Zero
    BY <1>1, Neutral DEF Numbers
  <1>5. \A u \in Vars \ {y} : f[u] = e[u]
    BY <1>1
  <1> HIDE DEF q, f, e
  <1> DEFINE W == Vars \ {y}
  <1>6. IsFiniteSet(W) /\ \A u \in W : f[u] \in Rationals /\ e[u] \in Rationals /\ f[u] = e[u]
    BY <1>3, <1>5, VarsFinite
  <1> HIDE DEF W
  <1>7a. RSum(f, W) = RSum(e, W) /\ RSum(e, W) \in Rationals
    <2>1. RSum(f, W) = RSum(e, W)
      BY <1>6, RSumSame
    <2>2. \A u \in W : e[u] \in Rationals
      BY <1>6
    <2> QED
      BY <1>6, <2>1, <2>2, RSumEquation
  <1>7. RSum(f, Vars \ {y}) = RSum(e, Vars \ {y}) /\ RSum(e, Vars \ {y}) \in Rationals
    BY <1>7a DEF W
  <1>8. RSum(f, Vars) = RAdd(f[y], RSum(f, Vars \ {y})) /\ RSum(e, Vars) = RAdd(e[y], RSum(e, Vars \ {y}))
    BY <1>3, VarsFinite, RSumAt
  <1>9. RSum(e, Vars) = RSum(e, Vars \ {y})
    BY <1>4, <1>7, <1>8, Neutral
  <1> QED
    BY <1>2, <1>3, <1>4, <1>7, <1>8, <1>9, AddCommutes DEF q

\* The polynomial that is a variable has its number as value.
LEMMA DotUnit ==
    ASSUME NEW v \in Vars, NEW g \in Numbers
    PROVE  Dot(Unit(v), g) = g[v]
  <1>1. Unit(v) \in Polys /\ NoPoly \in Polys /\ Unit(v)[v] = One
    <2>1. NoPoly \in Polys
      BY ZeroOne DEF NoPoly, Polys
    <2> QED
      BY <2>1, ZeroOne, PolyChanged
  <1>2. [Unit(v) EXCEPT ![v] = Zero] = NoPoly
    BY DEF Unit, NoPoly
  <1>3. Dot(Unit(v), g) = RAdd(Dot(NoPoly, g), RMul(One, g[v]))
    BY <1>1, <1>2, DotWithout
  <1>4. Dot(NoPoly, g) = Zero /\ g[v] \in Rationals
    BY <1>1, ZeroOne, DotLinear DEF Numbers
  <1> QED
    BY <1>3, <1>4, Neutral

\* One variable moves.
LEMMA DotMoved ==
    ASSUME NEW p \in Polys, NEW g \in Numbers, NEW h \in Numbers, NEW y \in Vars,
           NEW d \in Rationals, h[y] = RAdd(g[y], d),
           \A u \in Terms(p) : u # y => h[u] = g[u]
    PROVE  Dot(p, h) = RAdd(Dot(p, g), RMul(p[y], d))
  <1> DEFINE q == [p EXCEPT ![y] = Zero]
  <1>1. q \in Polys /\ \A u \in Vars : q[u] = IF u = y THEN Zero ELSE p[u]
    BY PolyChanged, ZeroOne
  <1>2. \A u \in Terms(q) : h[u] = g[u]
    BY <1>1, PolyFacts
  <1>3. Dot(q, h) = Dot(q, g) /\ Dot(q, g) \in Rationals
    BY <1>1, <1>2, DotSame, DotAll
  <1>4. Dot(p, h) = RAdd(Dot(q, h), RMul(p[y], h[y])) /\ Dot(p, g) = RAdd(Dot(q, g), RMul(p[y], g[y]))
    BY DotWithout
  <1> HIDE DEF q
  <1>5. p[y] \in Rationals /\ g[y] \in Rationals
    BY PolyFacts DEF Numbers
  <1>6. RMul(p[y], h[y]) = RAdd(RMul(p[y], g[y]), RMul(p[y], d))
    BY <1>5, Distributes
  <1>7. RMul(p[y], g[y]) \in Rationals /\ RMul(p[y], d) \in Rationals
    BY <1>5, RationalClosed
  <1> QED
    BY <1>3, <1>4, <1>6, <1>7, AddAssociates

-----------------------------------------------------------------------------
(* Replacing variables by polynomials.                                     *)

PolyMaps == [Vars -> Polys]

\* Replacing variables by polynomials gives a polynomial.
LEMMA CombinedFacts ==
    ASSUME NEW p \in Polys, NEW F \in PolyMaps
    PROVE  /\ Combined(p, F) \in Polys
           /\ \A w \in Terms(Combined(p, F)) : \E u \in Terms(p) : w \in Terms(F[u])
  <1> DEFINE at(w) == [u \in Vars |-> F[u][w]]
  <1>1. \A u \in Vars, w \in Vars : F[u] \in Polys /\ F[u][w] \in Rationals
    BY PolyFacts DEF PolyMaps
  <1>2. \A w \in Vars : at(w) \in Numbers
    BY <1>1 DEF Numbers
  <1>3. \A w \in Vars : Combined(p, F)[w] = Dot(p, at(w))
    BY DEF Combined
  <1>4. Combined(p, F) \in Polys
    <2>1. \A w \in Vars : Dot(p, at(w)) \in Rationals
      BY <1>2, DotAll
    <2> QED
      BY <2>1 DEF Combined, Polys
  <1>5. ASSUME NEW w \in Vars, \A u \in Terms(p) : w \notin Terms(F[u])
        PROVE  Combined(p, F)[w] = Zero
    <2> DEFINE z == [u \in Vars |-> Zero]
    <2>1. z \in Numbers
      BY ZeroOne DEF Numbers
    <2>2. \A u \in Terms(p) : at(w)[u] = z[u]
      BY <1>1, <1>5, PolyFacts
    <2>3. Dot(p, at(w)) = Dot(p, z)
      BY <1>2, <2>1, <2>2, DotSame
    <2>4. Dot(p, z) = Zero
      <3> DEFINE f == [u \in Vars |-> RMul(p[u], z[u])]
      <3>1. \A u \in Vars : f[u] = Zero /\ f[u] \in Rationals
        BY PolyFacts, Neutral, ZeroOne
      <3>2. Dot(p, z) = RSum(f, Vars)
        BY <2>1, DotAll
      <3> HIDE DEF f
      <3>3. RSum(f, Vars) = RSum(f, {})
        BY <3>1, VarsFinite, RSumNonZero
      <3>4. RSum(f, {}) = Zero
        BY VarsFinite, RSumEquation
      <3> QED
        BY <3>2, <3>3, <3>4
    <2> QED
      BY <1>3, <2>3, <2>4
  <1>6. ASSUME NEW w \in Terms(Combined(p, F))
        PROVE  \E u \in Terms(p) : w \in Terms(F[u])
    <2>1. w \in Vars /\ Combined(p, F)[w] # Zero
      BY <1>4, PolyFacts
    <2> QED
      BY <1>5, <2>1
  <1> QED
    BY <1>4, <1>6

\* Only the replacements of the terms matter.
LEMMA CombinedSame ==
    ASSUME NEW p \in Polys, NEW F \in PolyMaps, NEW G \in PolyMaps,
           \A u \in Terms(p) : F[u] = G[u]
    PROVE  Combined(p, F) = Combined(p, G)
  <1>1. ASSUME NEW w \in Vars
        PROVE  Dot(p, [u \in Vars |-> F[u][w]]) = Dot(p, [u \in Vars |-> G[u][w]])
    <2> DEFINE f == [u \in Vars |-> F[u][w]]
               g == [u \in Vars |-> G[u][w]]
    <2>1. f \in Numbers /\ g \in Numbers
      BY PolyFacts DEF Numbers, PolyMaps
    <2>2. \A u \in Terms(p) : f[u] = g[u]
      BY PolyFacts
    <2> HIDE DEF f, g
    <2>3. Dot(p, f) = Dot(p, g)
      BY <2>1, <2>2, DotSame
    <2> QED
      BY <2>3 DEF f, g
  <1> QED
    BY <1>1 DEF Combined

\* The sums over the terms of the polynomials may be exchanged.
LEMMA DotCombined ==
    ASSUME NEW p \in Polys, NEW F \in PolyMaps, NEW g \in Numbers
    PROVE  Dot(Combined(p, F), g) = Dot(p, [u \in Vars |-> Dot(F[u], g)])
  <1> DEFINE e == [u \in Vars |-> RMul(p[u], Dot(F[u], g))]
             q(S) == [w \in Vars |-> RSum([u \in Vars |-> RMul(p[u], F[u][w])], S)]
             Exchanged2(S) == Dot(q(S), g) = RSum(e, S)
             C == {S \in SUBSET Vars : ~ Exchanged2(S)}
  <1>1. \A u \in Vars, w \in Vars : /\ F[u] \in Polys /\ F[u][w] \in Rationals /\ p[u] \in Rationals
                                    /\ RMul(p[u], F[u][w]) \in Rationals
    BY PolyFacts, RationalClosed DEF PolyMaps
  <1>2. \A u \in Vars : Dot(F[u], g) \in Rationals /\ e[u] \in Rationals
                        /\ e[u] = RMul(p[u], Dot(F[u], g))
    BY <1>1, DotAll, RationalClosed
  <1>3. \A S \in SUBSET Vars : q(S) \in Polys
    <2>1. ASSUME NEW S \in SUBSET Vars, NEW w \in Vars
          PROVE  RSum([u \in Vars |-> RMul(p[u], F[u][w])], S) \in Rationals
      <3> DEFINE f == [u \in Vars |-> RMul(p[u], F[u][w])]
      <3>1. \A u \in S : f[u] \in Rationals
        BY <1>1
      <3> HIDE DEF f
      <3>2. RSum(f, S) \in Rationals
        BY <3>1, VarsFinite, RSumEquation
      <3> QED
        BY <3>2 DEF f
    <2> QED
      BY <2>1 DEF Polys
  <1>4. Exchanged2({})
    <2>1. q({}) = NoPoly
      <3>1. ASSUME NEW w \in Vars
            PROVE  RSum([u \in Vars |-> RMul(p[u], F[u][w])], {}) = Zero
        BY VarsFinite, RSumEquation
      <3> QED
        BY <3>1 DEF NoPoly
    <2>2. Dot(NoPoly, g) = Zero
      BY ZeroOne, DotLinear
    <2>3. RSum(e, {}) = Zero
      BY VarsFinite, RSumEquation
    <2> HIDE DEF q, e
    <2> QED
      BY <2>1, <2>2, <2>3
  <1>5. ASSUME NEW S \in SUBSET Vars, NEW a \in S, Exchanged2(S \ {a})
        PROVE  Exchanged2(S)
    <2> DEFINE T == S \ {a}
    <2>1. T \in SUBSET Vars /\ a \in Vars
      OBVIOUS
    <2>2. q(S) = Plus(Scaled(p[a], F[a]), q(T))
      <3>1. ASSUME NEW w \in Vars
            PROVE  q(S)[w] = RAdd(RMul(p[a], F[a][w]), q(T)[w])
        <4> DEFINE f == [u \in Vars |-> RMul(p[u], F[u][w])]
        <4>1. (\A u \in S : f[u] \in Rationals) /\ f[a] = RMul(p[a], F[a][w])
          BY <1>1
        <4>2. q(S)[w] = RSum(f, S) /\ q(T)[w] = RSum(f, T)
          OBVIOUS
        <4> HIDE DEF f, q
        <4>3. RSum(f, S) = RAdd(f[a], RSum(f, T))
          BY <4>1, VarsFinite, RSumAt
        <4> QED
          BY <4>1, <4>2, <4>3
      <3>2. \A w \in Vars : Scaled(p[a], F[a])[w] = RMul(p[a], F[a][w])
        BY DEF Scaled
      <3>3. q(S) = [w \in Vars |-> q(S)[w]]
        OBVIOUS
      <3> HIDE DEF q, T
      <3> QED
        BY <3>1, <3>2, <3>3 DEF Plus
    <2> DEFINE sa == Scaled(p[a], F[a])
    <2>3. sa \in Polys /\ q(T) \in Polys /\ p[a] \in Rationals /\ F[a] \in Polys
      BY <1>1, <1>3, <2>1, PolyClosed
    <2>4. Dot(sa, g) = RMul(p[a], Dot(F[a], g))
      BY <2>3, DotLinear
    <2> HIDE DEF q, e, T, sa
    <2>5. Dot(q(S), g) = RAdd(Dot(sa, g), Dot(q(T), g))
      BY <2>2, <2>3, DotLinear, ZeroOne DEF sa
    <2>6. RSum(e, S) = RAdd(e[a], RSum(e, T))
      BY <1>2, VarsFinite, RSumAt DEF T
    <2>7. Dot(q(T), g) = RSum(e, T)
      BY <1>5 DEF T
    <2> QED
      BY <1>2, <2>1, <2>4, <2>5, <2>6, <2>7
  <1>6. C = {}
    <2> SUFFICES ASSUME C # {} PROVE FALSE
      OBVIOUS
    <2>1. PICK S \in C : \A x \in S : S \ {x} \notin C
      <3>1. C \in SUBSET (SUBSET Vars)
        OBVIOUS
      <3> HIDE DEF C
      <3> QED
        BY <3>1, VarsFinite, LeastSubset
    <2> HIDE DEF Exchanged2
    <2>2. S \in SUBSET Vars /\ ~ Exchanged2(S)
      BY <2>1
    <2>3. PICK a \in S : TRUE
      BY <1>4, <2>2
    <2>4. Exchanged2(S \ {a})
      BY <2>1, <2>2, <2>3
    <2> QED
      BY <1>5, <2>2, <2>3, <2>4
  <1>7. Exchanged2(Terms(p))
    <2>1. Terms(p) \in SUBSET Vars
      BY PolyFacts
    <2> HIDE DEF Exchanged2
    <2> QED
      BY <1>6, <2>1
  <1>8. q(Terms(p)) = Combined(p, F)
    BY PolyFacts DEF Combined, Dot
  <1>9. RSum(e, Terms(p)) = Dot(p, [u \in Vars |-> Dot(F[u], g)])
    BY DEF Dot
  <1> HIDE DEF q, e
  <1> QED
    BY <1>7, <1>8, <1>9

-----------------------------------------------------------------------------
(* Rows set aside, normalized.                                             *)

\* Every variable is of one kind.
LEMMA KindFacts ==
    ASSUME TypeInv
    PROVE  /\ Basic \in SUBSET Vars /\ Quasi \in SUBSET Vars /\ NonBasic \in SUBSET Vars
           /\ Vars \ NonBasic = Basic \cup Quasi
           /\ Basic \cap Quasi = {} /\ Basic \cap NonBasic = {} /\ Quasi \cap NonBasic = {}
           /\ \A v \in Vars : /\ v \in Basic <=> kind[v] = "basic"
                              /\ v \in Quasi <=> kind[v] = "quasi"
                              /\ v \in NonBasic <=> kind[v] = "nonbasic"
           /\ \A v \in Vars : row[v] \in Polys
  BY DEF TypeInv, Basic, Quasi, NonBasic

\* Only rows set aside name variables that are not in the tableau.
LEMMA RowTerms ==
    ASSUME TypeInv, TableauConsistent
    PROVE  \A x \in Vars : x \notin Quasi => Terms(row[x]) \subseteq NonBasic
  <1> SUFFICES ASSUME NEW x \in Vars, x \notin Quasi
               PROVE  Terms(row[x]) \subseteq NonBasic
    OBVIOUS
  <1>1. CASE x \in Basic
    BY <1>1 DEF TableauConsistent
  <1>2. CASE x \in NonBasic
    <2>1. row[x] = NoPoly
      BY <1>2 DEF TableauConsistent
    <2>2. Terms(NoPoly) = {}
      BY DEF Terms, NoPoly
    <2> QED
      BY <2>1, <2>2
  <1> QED
    BY <1>1, <1>2, KindFacts

\* What normalizeRow puts in the place of a variable, and its equation.
Meant(U) == [u \in Vars |-> IF kind[u] = "nonbasic" THEN Unit(u)
                              ELSE IF kind[u] = "basic" THEN row[u] ELSE U[u]]
Normalizes(U) ==
  /\ U \in PolyMaps
  /\ \A x \in Vars : U[x] = Combined(row[x], Meant(U)) /\ Unfolded(x) = U[x]

\* What normalizeRow puts in the place of each kind of variable.
LEMMA MeantFacts ==
    ASSUME TypeInv, NEW U \in PolyMaps
    PROVE  /\ Meant(U) \in PolyMaps
           /\ \A u \in NonBasic : Meant(U)[u] = Unit(u)
           /\ \A u \in Basic : Meant(U)[u] = row[u]
           /\ \A u \in Quasi : Meant(U)[u] = U[u]
  <1>1. \A u \in Vars : /\ Unit(u) \in Polys /\ row[u] \in Polys /\ U[u] \in Polys
                        /\ kind[u] \in {"basic", "nonbasic", "quasi"}
    <2>1. \A u \in Vars : Unit(u) \in Polys
      BY ZeroOne DEF Unit, NoPoly, Polys
    <2> QED
      BY <2>1 DEF TypeInv, PolyMaps
  <1>2. \A u \in Vars : Meant(U)[u] = IF kind[u] = "nonbasic" THEN Unit(u)
                                       ELSE IF kind[u] = "basic" THEN row[u] ELSE U[u]
    BY DEF Meant
  <1>3. \A u \in Vars : /\ kind[u] = "nonbasic" => Meant(U)[u] = Unit(u)
                        /\ kind[u] = "basic" => Meant(U)[u] = row[u]
                        /\ kind[u] = "quasi" => Meant(U)[u] = U[u]
    BY <1>2
  <1>4. \A u \in Vars : Meant(U)[u] \in Polys
    BY <1>1, <1>3
  <1>5. Meant(U) \in PolyMaps
    BY <1>4 DEF Meant, PolyMaps
  <1> QED
    BY <1>3, <1>5 DEF Basic, Quasi, NonBasic

\* Since rows set aside are graded, the equation has a solution.
LEMMA NormalizeDefined ==
    ASSUME TypeInv, TableauConsistent, AsideInv
    PROVE  \E U : Normalizes(U)
  <1>1. PICK m \in Nat : \E grade \in [Vars -> 0..m] : Graded(m, grade)
    BY DEF AsideInv
  <1>2. PICK grade \in [Vars -> 0..m] : Graded(m, grade)
    BY <1>1
  <1> DEFINE step == [p \in Vars \X PolyMaps |-> Combined(row[p[1]], Meant(p[2]))]
             U == CHOOSE U : U = [x \in Vars |->
                    Combined(row[x], [u \in Vars |-> IF kind[u] = "nonbasic" THEN Unit(u)
                                                       ELSE IF kind[u] = "basic" THEN row[u] ELSE U[u]])]
  <1>3. \A x \in Vars : Unfolded(x) = U[x]
    BY DEF Unfolded
  <1>4. \A x \in Vars, V \in PolyMaps : step[<<x, V>>] = Combined(row[x], Meant(V))
    OBVIOUS
  <1>5. Recursive(Vars, Polys, grade, m + 1, step)
    <2>1. Polys # {} /\ grade \in [Vars -> Nat] /\ m + 1 \in Nat /\ \A x \in Vars : grade[x] < m + 1
      <3>1. NoPoly \in Polys
        BY ZeroOne DEF NoPoly, Polys
      <3> QED
        BY <3>1
    <2>2. ASSUME NEW x \in Vars, NEW V \in PolyMaps
          PROVE  step[<<x, V>>] \in Polys
      BY <1>4, MeantFacts, KindFacts, CombinedFacts
    <2>3. ASSUME NEW x \in Vars, NEW V \in PolyMaps, NEW W \in PolyMaps,
                 \A y \in Vars : grade[y] < grade[x] => V[y] = W[y]
          PROVE  step[<<x, V>>] = step[<<x, W>>]
      <3>1. ASSUME NEW u \in Terms(row[x])
            PROVE  Meant(V)[u] = Meant(W)[u]
        <4>1. u \in Vars
          BY KindFacts, PolyFacts
        <4>2. CASE u \in NonBasic
          BY <4>2, MeantFacts
        <4>3. CASE u \in Basic
          BY <4>3, MeantFacts
        <4>4. CASE u \in Quasi
          <5>1. x \in Quasi
            BY <4>4, RowTerms, KindFacts
          <5>2. grade[u] < grade[x]
            BY <1>2, <4>4, <5>1 DEF Graded
          <5>3. V[u] = W[u]
            BY <2>3, <4>1, <5>2
          <5> QED
            BY <4>4, <5>3, MeantFacts
        <4> QED
          BY <4>1, <4>2, <4>3, <4>4, KindFacts
      <3>2. Meant(V) \in PolyMaps /\ Meant(W) \in PolyMaps /\ row[x] \in Polys
        BY MeantFacts, KindFacts
      <3>3. Combined(row[x], Meant(V)) = Combined(row[x], Meant(W))
        BY <3>1, <3>2, CombinedSame
      <3> QED
        BY <1>4, <3>3
    <2> HIDE DEF step
    <2> QED
      BY <2>1, <2>2, <2>3 DEF Recursive, PolyMaps
  <1>6. PICK V : Solution(V, Vars, Polys, step)
    <2> HIDE DEF step
    <2> QED
      BY <1>5, RecursionDefined
  <1>7. V \in PolyMaps /\ \A x \in Vars : V[x] = Combined(row[x], Meant(V))
    <2>1. V \in PolyMaps /\ \A x \in Vars : V[x] = step[<<x, V>>]
      BY <1>6 DEF Solution, PolyMaps
    <2> QED
      BY <1>4, <2>1
  <1>8. V = [x \in Vars |->
              Combined(row[x], [u \in Vars |-> IF kind[u] = "nonbasic" THEN Unit(u)
                                                 ELSE IF kind[u] = "basic" THEN row[u] ELSE V[u]])]
    <2>1. V = [x \in Vars |-> V[x]]
      BY <1>7 DEF PolyMaps
    <2>2. V = [x \in Vars |-> Combined(row[x], Meant(V))]
      BY <1>7, <2>1
    <2> QED
      BY <2>2 DEF Meant
  <1>9. U = [x \in Vars |->
              Combined(row[x], [u \in Vars |-> IF kind[u] = "nonbasic" THEN Unit(u)
                                                 ELSE IF kind[u] = "basic" THEN row[u] ELSE U[u]])]
    BY <1>8
  <1> HIDE DEF U
  <1>10. U = [x \in Vars |-> Combined(row[x], Meant(U))]
    BY <1>9 DEF Meant
  <1>11. \A x \in Vars : U[x] \in Polys
    <2> DEFINE bad == {grade[x] : x \in {y \in Vars : U[y] \notin Polys}}
    <2> SUFFICES ASSUME bad # {} PROVE FALSE
      OBVIOUS
    <2>1. bad \in SUBSET Nat
      OBVIOUS
    <2>2. PICK k \in bad : \A l \in bad : k <= l
      <3> HIDE DEF bad
      <3> QED
        BY <2>1, MinExists
    <2>3. PICK x \in Vars : U[x] \notin Polys /\ grade[x] = k
      BY <2>2
    <2> DEFINE W == [u \in Vars |-> IF U[u] \in Polys THEN U[u] ELSE NoPoly]
    <2>4. W \in PolyMaps
      BY ZeroOne DEF PolyMaps, NoPoly, Polys
    <2>5. U[x] = Combined(row[x], Meant(U))
      BY <1>10
    <2>6. ASSUME NEW w \in Vars
          PROVE  Dot(row[x], [u \in Vars |-> Meant(U)[u][w]]) = Dot(row[x], [u \in Vars |-> Meant(W)[u][w]])
      <3> DEFINE f == [u \in Vars |-> RMul(row[x][u], [t \in Vars |-> Meant(U)[t][w]][u])]
                 e == [u \in Vars |-> RMul(row[x][u], [t \in Vars |-> Meant(W)[t][w]][u])]
      <3>1. ASSUME NEW u \in Terms(row[x])
            PROVE  u \in Vars /\ Meant(U)[u] = Meant(W)[u]
        <4>1. u \in Vars
          BY KindFacts, PolyFacts
        <4>2. CASE u \in NonBasic \cup Basic
          BY <4>1, <4>2, KindFacts DEF Meant
        <4>3. CASE u \in Quasi
          <5>1. x \in Quasi
            BY <4>3, RowTerms, KindFacts
          <5>2. grade[u] < grade[x]
            BY <1>2, <4>3, <5>1 DEF Graded
          <5>3. U[u] \in Polys
            <6> SUFFICES ASSUME U[u] \notin Polys PROVE FALSE
              OBVIOUS
            <6>1. grade[u] \in bad
              BY <4>1
            <6>2. grade[x] <= grade[u]
              BY <2>2, <2>3, <6>1
            <6> QED
              BY <4>1, <5>2, <6>2
          <5>4. W[u] = U[u]
            BY <4>1, <5>3
          <5> QED
            BY <4>1, <5>4 DEF Meant
        <4> QED
          BY <4>1, <4>2, <4>3, KindFacts
      <3>2. Terms(row[x]) \in SUBSET Vars /\ Meant(W) \in PolyMaps
        BY <2>4, MeantFacts, KindFacts, PolyFacts
      <3>3. \A u \in Terms(row[x]) : e[u] \in Rationals /\ f[u] = e[u]
        <4>1. ASSUME NEW u \in Terms(row[x])
              PROVE  e[u] \in Rationals /\ f[u] = e[u]
          <5>1. u \in Vars /\ Meant(U)[u] = Meant(W)[u]
            BY <3>1
          <5>2. Meant(W)[u] \in Polys /\ row[x] \in Polys
            BY <3>2, <5>1, KindFacts DEF PolyMaps
          <5>3. Meant(W)[u][w] \in Rationals /\ row[x][u] \in Rationals
            BY <5>1, <5>2, PolyFacts
          <5> QED
            BY <5>1, <5>3, RationalClosed
        <4> QED
          BY <4>1
      <3> HIDE DEF f, e
      <3>4. IsFiniteSet(Terms(row[x]))
        BY <3>2, VarsFinite
      <3>5. RSum(f, Terms(row[x])) = RSum(e, Terms(row[x]))
        <4>1. \A u \in Terms(row[x]) : f[u] \in Rationals /\ f[u] = e[u]
          BY <3>3
        <4> QED
          BY <3>4, <4>1, RSumSame
      <3> QED
        BY <3>5 DEF Dot, f, e
    <2>7. U[x] = Combined(row[x], Meant(W))
      BY <2>5, <2>6 DEF Combined
    <2>8. Combined(row[x], Meant(W)) \in Polys
      BY <2>4, MeantFacts, KindFacts, CombinedFacts
    <2> QED
      BY <2>3, <2>7, <2>8
  <1>12. U \in PolyMaps
    <2>1. U = [x \in Vars |-> U[x]]
      BY <1>10
    <2> QED
      BY <1>11, <2>1 DEF PolyMaps
  <1>13. \A x \in Vars : U[x] = Combined(row[x], Meant(U))
    BY <1>10
  <1> QED
    BY <1>3, <1>12, <1>13 DEF Normalizes, U

-----------------------------------------------------------------------------
(* Along the order of the rows set aside.                                  *)

\* A property of rows that is inherited from the rows set aside that they name
\* holds of all rows.
LEMMA GradeInduction ==
    ASSUME TypeInv, TableauConsistent, AsideInv, NEW G \in SUBSET Vars,
           \A x \in Vars : (Terms(row[x]) \cap Quasi) \subseteq G => x \in G
    PROVE  G = Vars
  <1>1. PICK m \in Nat : \E grade \in [Vars -> 0..m] : Graded(m, grade)
    BY DEF AsideInv
  <1>2. PICK grade \in [Vars -> 0..m] : Graded(m, grade)
    BY <1>1
  <1> DEFINE bad == {grade[x] : x \in Vars \ G}
  <1> SUFFICES ASSUME bad # {} PROVE FALSE
    OBVIOUS
  <1>3. bad \in SUBSET Nat
    OBVIOUS
  <1>4. PICK k \in bad : \A l \in bad : k <= l
    <2> HIDE DEF bad
    <2> QED
      BY <1>3, MinExists
  <1>5. PICK x \in Vars \ G : grade[x] = k
    BY <1>4
  <1>6. PICK u \in Terms(row[x]) \cap Quasi : u \notin G
    BY <1>5
  <1>7. u \in Vars /\ x \in Quasi
    BY <1>5, <1>6, RowTerms, KindFacts
  <1>8. grade[u] < grade[x]
    BY <1>2, <1>6, <1>7 DEF Graded
  <1>9. grade[u] \in bad
    BY <1>6, <1>7
  <1>10. grade[x] <= grade[u]
    BY <1>4, <1>5, <1>9
  <1> QED
    BY <1>5, <1>7, <1>8, <1>10

\* A normalized row names nonbasic variables only.
LEMMA NormalizedTerms ==
    ASSUME TypeInv, TableauConsistent, AsideInv, NEW U, Normalizes(U)
    PROVE  \A x \in Vars : Terms(U[x]) \subseteq NonBasic
  <1> DEFINE G == {x \in Vars : Terms(U[x]) \subseteq NonBasic}
  <1>1. ASSUME NEW x \in Vars, (Terms(row[x]) \cap Quasi) \subseteq G
        PROVE  x \in G
    <2>1. /\ U \in PolyMaps /\ U[x] = Combined(row[x], Meant(U)) /\ Meant(U) \in PolyMaps
          /\ row[x] \in Polys
      BY MeantFacts, KindFacts DEF Normalizes
    <2>2. ASSUME NEW w \in Terms(U[x])
          PROVE  w \in NonBasic
      <3>1. PICK u \in Terms(row[x]) : w \in Terms(Meant(U)[u])
        BY <2>1, CombinedFacts
      <3>2. u \in Vars
        BY <2>1, PolyFacts
      <3>3. CASE u \in NonBasic
        <4>1. w \in Terms(Unit(u))
          BY <2>1, <3>1, <3>3, MeantFacts
        <4>2. w = u
          BY <4>1, PolyChanged, PolyFacts, <2>1, <3>2, ZeroOne
        <4> QED
          BY <3>3, <4>2
      <3>4. CASE u \in Basic
        <4>1. w \in Terms(row[u])
          BY <2>1, <3>1, <3>4, MeantFacts
        <4> QED
          BY <3>4, <4>1 DEF TableauConsistent
      <3>5. CASE u \in Quasi
        <4>1. w \in Terms(U[u])
          BY <2>1, <3>1, <3>5, MeantFacts
        <4> QED
          BY <1>1, <3>1, <3>5, <4>1
      <3> QED
        BY <3>2, <3>3, <3>4, <3>5, KindFacts
    <2> QED
      BY <2>2
  <1> HIDE DEF G
  <1>2. G \in SUBSET Vars
    BY DEF G
  <1>3. G = Vars
    BY <1>1, <1>2, GradeInduction
  <1> QED
    BY <1>3 DEF G

\* The rows normalized on the way to v.
LEMMA BelowFacts ==
    ASSUME TypeInv, TableauConsistent, AsideInv, NEW v \in Quasi
    PROVE  /\ v \in QuasiBelow(v) /\ QuasiBelow(v) \in SUBSET Quasi
           /\ \A x \in QuasiBelow(v) : Terms(row[x]) \cap Quasi \subseteq QuasiBelow(v)
  <1>1. PICK m \in Nat : \E grade \in [Vars -> 0..m] : Graded(m, grade)
    BY DEF AsideInv
  <1>2. PICK grade \in [Vars -> 0..m] : Graded(m, grade)
    BY <1>1
  <1> DEFINE step == [p \in Vars \X [Vars -> SUBSET Vars] |->
                        {p[1]} \cup UNION {p[2][u] : u \in Terms(row[p[1]]) \cap Quasi}]
             B == CHOOSE B : B = [x \in Vars |->
                    {x} \cup UNION {B[u] : u \in Terms(row[x]) \cap Quasi}]
  <1>3. QuasiBelow(v) = B[v]
    BY DEF QuasiBelow
  <1>4. \A x \in Vars, b \in [Vars -> SUBSET Vars] :
          step[<<x, b>>] = {x} \cup UNION {b[u] : u \in Terms(row[x]) \cap Quasi}
    OBVIOUS
  <1>5. Recursive(Vars, SUBSET Vars, grade, m + 1, step)
    <2>1. /\ SUBSET Vars # {} /\ grade \in [Vars -> Nat] /\ m + 1 \in Nat
          /\ \A x \in Vars : grade[x] < m + 1
      OBVIOUS
    <2>2. ASSUME NEW x \in Vars, NEW b \in [Vars -> SUBSET Vars]
          PROVE  step[<<x, b>>] \in SUBSET Vars
      BY <1>4, KindFacts
    <2>3. ASSUME NEW x \in Vars, NEW b \in [Vars -> SUBSET Vars], NEW c \in [Vars -> SUBSET Vars],
                 \A y \in Vars : grade[y] < grade[x] => b[y] = c[y]
          PROVE  step[<<x, b>>] = step[<<x, c>>]
      <3>1. ASSUME NEW u \in Terms(row[x]) \cap Quasi
            PROVE  b[u] = c[u]
        <4>1. x \in Quasi /\ u \in Vars
          BY <3>1, RowTerms, KindFacts
        <4>2. grade[u] < grade[x]
          BY <1>2, <4>1 DEF Graded
        <4> QED
          BY <2>3, <4>1, <4>2
      <3>2. {b[u] : u \in Terms(row[x]) \cap Quasi} = {c[u] : u \in Terms(row[x]) \cap Quasi}
        BY <3>1
      <3>3. /\ step[<<x, b>>] = {x} \cup UNION {b[u] : u \in Terms(row[x]) \cap Quasi}
            /\ step[<<x, c>>] = {x} \cup UNION {c[u] : u \in Terms(row[x]) \cap Quasi}
        BY <1>4
      <3> HIDE DEF step
      <3> QED
        BY <3>2, <3>3
    <2> HIDE DEF step
    <2> QED
      BY <2>1, <2>2, <2>3 DEF Recursive
  <1>6. PICK b : Solution(b, Vars, SUBSET Vars, step)
    <2> HIDE DEF step
    <2> QED
      BY <1>5, RecursionDefined
  <1>7. b = [x \in Vars |-> {x} \cup UNION {b[u] : u \in Terms(row[x]) \cap Quasi}]
    <2>1. b \in [Vars -> SUBSET Vars] /\ \A x \in Vars : b[x] = step[<<x, b>>]
      BY <1>6 DEF Solution
    <2>2. \A x \in Vars : b[x] = {x} \cup UNION {b[u] : u \in Terms(row[x]) \cap Quasi}
      BY <1>4, <2>1
    <2>3. b = [x \in Vars |-> b[x]]
      BY <2>1
    <2> HIDE DEF step
    <2> QED
      BY <2>2, <2>3
  <1>8. B = [x \in Vars |-> {x} \cup UNION {B[u] : u \in Terms(row[x]) \cap Quasi}]
    BY <1>7
  <1> HIDE DEF B
  <1>9. \A x \in Vars : B[x] = {x} \cup UNION {B[u] : u \in Terms(row[x]) \cap Quasi}
    BY <1>8
  <1>10. \A x \in Vars : x \in Quasi => B[x] \in SUBSET Quasi
    <2> DEFINE G == {x \in Vars : x \in Quasi => B[x] \in SUBSET Quasi}
    <2>1. ASSUME NEW x \in Vars, (Terms(row[x]) \cap Quasi) \subseteq G
          PROVE  x \in G
      BY <1>9, <2>1
    <2> HIDE DEF G
    <2>2. G \in SUBSET Vars
      BY DEF G
    <2>3. G = Vars
      BY <2>1, <2>2, GradeInduction
    <2> QED
      BY <2>3 DEF G
  <1>11. \A x \in Vars : \A y \in B[x] : \A u \in Terms(row[y]) \cap Quasi : u \in B[x]
    <2> DEFINE G == {x \in Vars : \A y \in B[x] : \A u \in Terms(row[y]) \cap Quasi : u \in B[x]}
    <2>1. ASSUME NEW x \in Vars, (Terms(row[x]) \cap Quasi) \subseteq G
          PROVE  x \in G
      <3>1. ASSUME NEW y \in B[x], NEW u \in Terms(row[y]) \cap Quasi
            PROVE  u \in B[x]
        <4>1. CASE y = x
          <5>1. u \in Vars
            BY KindFacts
          <5>2. u \in B[u]
            BY <1>9, <5>1
          <5> QED
            BY <1>9, <4>1, <5>2
        <4>2. CASE y # x
          <5>1. PICK w \in Terms(row[x]) \cap Quasi : y \in B[w]
            BY <1>9, <4>2
          <5>2. u \in B[w]
            BY <2>1, <5>1
          <5> QED
            BY <1>9, <5>1, <5>2
        <4> QED
          BY <4>1, <4>2
      <3> QED
        BY <3>1
    <2> HIDE DEF G
    <2>2. G \in SUBSET Vars
      BY DEF G
    <2>3. G = Vars
      BY <2>1, <2>2, GradeInduction
    <2> QED
      BY <2>3 DEF G
  <1>12. v \in Vars /\ v \in B[v]
    BY <1>9, KindFacts
  <1> QED
    BY <1>3, <1>10, <1>11, <1>12

-----------------------------------------------------------------------------
(* The equations of the rows. *)

Holds(p, v, g) == g[v] = Dot(p, g)

\* A normalized row has the same solutions, when the rows below it hold.
LEMMA NormalizedDot ==
    ASSUME TypeInv, TableauConsistent, NEW U, Normalizes(U), NEW x \in Vars,
           NEW g \in Numbers,
           \A u \in Terms(row[x]) \cap Basic : Holds(row[u], u, g),
           \A u \in Terms(row[x]) \cap Quasi : Holds(U[u], u, g)
    PROVE  Dot(U[x], g) = Dot(row[x], g)
  <1>1. /\ U \in PolyMaps /\ U[x] = Combined(row[x], Meant(U)) /\ Meant(U) \in PolyMaps
        /\ row[x] \in Polys /\ Terms(row[x]) \in SUBSET Vars
    BY MeantFacts, KindFacts, PolyFacts DEF Normalizes
  <1> DEFINE h == [u \in Vars |-> Dot(Meant(U)[u], g)]
  <1>2. Dot(U[x], g) = Dot(row[x], h)
    BY <1>1, DotCombined
  <1>3. h \in Numbers
    <2>1. \A u \in Vars : Meant(U)[u] \in Polys
      BY <1>1 DEF PolyMaps
    <2> QED
      BY <2>1, DotAll DEF Numbers
  <1>4. ASSUME NEW u \in Terms(row[x])
        PROVE  h[u] = g[u]
    <2>1. u \in Vars
      BY <1>1
    <2>2. CASE u \in NonBasic
      BY <1>1, <2>1, <2>2, MeantFacts, DotUnit
    <2>3. CASE u \in Basic
      BY <1>1, <2>1, <2>3, MeantFacts DEF Holds
    <2>4. CASE u \in Quasi
      BY <1>1, <2>1, <2>4, MeantFacts DEF Holds
    <2> QED
      BY <2>1, <2>2, <2>3, <2>4, KindFacts
  <1> HIDE DEF h
  <1>5. Dot(row[x], h) = Dot(row[x], g)
    BY <1>1, <1>3, <1>4, DotSame
  <1> QED
    BY <1>2, <1>5

\* Normalized rows hold where all rows hold.
LEMMA NormalizedHolds ==
    ASSUME TypeInv, TableauConsistent, AsideInv, NEW U, Normalizes(U),
           NEW g \in Numbers, SatisfiesRows(g)
    PROVE  \A x \in Quasi : Holds(U[x], x, g)
  <1>1. \A x \in Basic \cup Quasi : Holds(row[x], x, g)
    BY KindFacts DEF SatisfiesRows, Holds
  <1> DEFINE G == {x \in Vars : x \in Quasi => Holds(U[x], x, g)}
  <1>2. ASSUME NEW x \in Vars, (Terms(row[x]) \cap Quasi) \subseteq G
        PROVE  x \in G
    <2>1. ASSUME x \in Quasi
          PROVE  Holds(U[x], x, g)
      <3>1. \A u \in Terms(row[x]) \cap Quasi : Holds(U[u], u, g)
        BY <1>2
      <3>2. \A u \in Terms(row[x]) \cap Basic : Holds(row[u], u, g)
        BY <1>1
      <3>3. Dot(U[x], g) = Dot(row[x], g)
        BY <3>1, <3>2, NormalizedDot
      <3> QED
        BY <1>1, <2>1, <3>3 DEF Holds
    <2> QED
      BY <2>1
  <1> HIDE DEF G
  <1>3. G \in SUBSET Vars
    BY DEF G
  <1>4. G = Vars
    BY <1>2, <1>3, GradeInduction
  <1> QED
    BY <1>4, KindFacts DEF G

-----------------------------------------------------------------------------
(* A row taken back into the tableau.                                      *)

\* Only the values of the terms matter, and a row's value is a value.
LEMMA EvalSame ==
    ASSUME NEW p \in Polys, NEW f \in [Vars -> Values], NEW h \in [Vars -> Values],
           \A u \in Terms(p) : f[u] = h[u]
    PROVE  Eval(p, f) = Eval(p, h) /\ Eval(p, f) \in Values
  <1> DEFINE R(e) == [u \in Vars |-> e[u].r]
             D(e) == [u \in Vars |-> e[u].d]
  <1>1. \A e \in [Vars -> Values] : R(e) \in Numbers /\ D(e) \in Numbers
    BY DEF Values, Numbers
  <1>2. Terms(p) \in SUBSET Vars
    BY PolyFacts
  <1>3. \A u \in Terms(p) : R(f)[u] = R(h)[u] /\ D(f)[u] = D(h)[u]
    BY <1>2
  <1>4. R(f) \in Numbers /\ D(f) \in Numbers /\ R(h) \in Numbers /\ D(h) \in Numbers
    BY <1>1
  <1>5. \A e : Eval(p, e) = Delta(Dot(p, R(e)), Dot(p, D(e)))
    BY DEF Eval
  <1> HIDE DEF R, D
  <1>6. Dot(p, R(f)) = Dot(p, R(h))
    <2>1. \A u \in Terms(p) : R(f)[u] = R(h)[u]
      BY <1>3
    <2> QED
      BY <1>4, <2>1, DotSame
  <1>7. Dot(p, D(f)) = Dot(p, D(h))
    <2>1. \A u \in Terms(p) : D(f)[u] = D(h)[u]
      BY <1>3
    <2> QED
      BY <1>4, <2>1, DotSame
  <1>8. Dot(p, R(f)) \in Rationals /\ Dot(p, D(f)) \in Rationals
    BY <1>4, DotAll
  <1>9. Eval(p, f) = Delta(Dot(p, R(f)), Dot(p, D(f))) /\ Eval(p, h) = Delta(Dot(p, R(h)), Dot(p, D(h)))
    BY <1>5
  <1> QED
    BY <1>6, <1>7, <1>8, <1>9 DEF Delta, Values

\* The tableau by itself.
TableauShape ==
  /\ \A v \in Basic : Terms(row[v]) \subseteq NonBasic
  /\ \A u \in NonBasic : row[u] = NoPoly /\ col[u] = {r \in Basic : u \in Terms(row[r])}
  /\ \A v \in Vars \ NonBasic : col[v] = {}
ActiveInTableau == \A v \in Vars : active[v] > 0 => v \notin Quasi

\* The consistency of the tableau, apart from what it says of active bounds.
LEMMA TableauSplit ==
    /\ TableauConsistent <=> TableauShape /\ ActiveInTableau
    /\ TableauConsistent' <=> TableauShape' /\ ActiveInTableau'
  <1>1. TableauConsistent <=> TableauShape /\ ActiveInTableau
    BY DEF TableauConsistent, TableauShape, ActiveInTableau
  <1>2. TableauConsistent' <=> TableauShape' /\ ActiveInTableau'
    BY DEF TableauConsistent, TableauShape, ActiveInTableau
  <1> QED
    BY <1>1, <1>2

\* What taking a row back does.
LEMMA TakenBack ==
    ASSUME TypeInv, TableauConsistent, AsideInv, NEW v \in Quasi, quasiToBasic(v)
    PROVE  \E U : /\ Normalizes(U) /\ Terms(U[v]) \subseteq NonBasic
                  /\ Basic' = Basic \cup {v} /\ Quasi' = Quasi \ {v} /\ NonBasic' = NonBasic
                  /\ \A u \in Vars : row'[u] = IF u \in QuasiBelow(v) THEN U[u] ELSE row[u]
                  /\ \A u \in Vars : col'[u] = IF u \in Terms(U[v]) THEN col[u] \cup {v} ELSE col[u]
                  /\ val' = [val EXCEPT ![v] = Eval(U[v], val)]
                  /\ backup' = [backup EXCEPT ![v] = Eval(U[v], backup)]
                  /\ row' \in [Vars -> Polys] /\ col' \in [Vars -> SUBSET Vars]
                  /\ kind' \in [Vars -> {"basic", "nonbasic", "quasi"}]
                  /\ val' \in [Vars -> Values] /\ backup' \in [Vars -> Values]
                  /\ \A u \in Vars : U[u] \in Polys
  <1>1. PICK U : Normalizes(U)
    BY NormalizeDefined
  <1>2. v \in Vars /\ U[v] \in Polys /\ \A u \in Vars : U[u] \in Polys /\ Unfolded(u) = U[u]
    BY <1>1, KindFacts DEF Normalizes, PolyMaps
  <1>3. Terms(U[v]) \subseteq NonBasic
    BY <1>1, <1>2, NormalizedTerms
  <1>4. kind' = [kind EXCEPT ![v] = "basic"] /\ kind \in [Vars -> {"basic", "nonbasic", "quasi"}]
    BY DEF quasiToBasic, TypeInv
  <1>5. kind' \in [Vars -> {"basic", "nonbasic", "quasi"}]
    BY <1>4
  <1>6. Basic' = Basic \cup {v} /\ Quasi' = Quasi \ {v} /\ NonBasic' = NonBasic
    BY <1>2, <1>4, <1>5 DEF Basic, Quasi, NonBasic
  <1>7. row' = [u \in Vars |-> IF u \in QuasiBelow(v) THEN U[u] ELSE row[u]]
    BY <1>2 DEF quasiToBasic, NormalizedRow
  <1>8. col' = [u \in Vars |-> IF u \in Terms(U[v]) THEN col[u] \cup {v} ELSE col[u]]
    BY <1>2 DEF quasiToBasic, NormalizedRow
  <1>9. val' = [val EXCEPT ![v] = Eval(U[v], val)] /\ backup' = [backup EXCEPT ![v] = Eval(U[v], backup)]
    BY <1>2 DEF quasiToBasic, NormalizedRow, BackupOf
  <1>10. row' \in [Vars -> Polys] /\ col' \in [Vars -> SUBSET Vars]
    BY <1>2, <1>7, <1>8 DEF TypeInv
  <1>11. val' \in [Vars -> Values] /\ backup' \in [Vars -> Values]
    BY <1>2, <1>9, EvalSame DEF TypeInv
  <1> QED
    BY <1>1, <1>2, <1>3, <1>5, <1>6, <1>7, <1>8, <1>9, <1>10, <1>11

\* Taking a row back keeps the tableau, and the equations of the rows.
LEMMA TakenBackKeeps ==
    ASSUME TypeInv, TableauConsistent, AsideInv, RowsInv, ValuesConsistent,
           NEW v \in Quasi, quasiToBasic(v)
    PROVE  TableauShape' /\ AsideInv' /\ RowsInv' /\ ValuesConsistent'
  <1> DEFINE QB == QuasiBelow(v)
  <1>1. PICK U : /\ Normalizes(U) /\ Terms(U[v]) \subseteq NonBasic
                 /\ Basic' = Basic \cup {v} /\ Quasi' = Quasi \ {v} /\ NonBasic' = NonBasic
                 /\ \A u \in Vars : row'[u] = IF u \in QB THEN U[u] ELSE row[u]
                 /\ \A u \in Vars : col'[u] = IF u \in Terms(U[v]) THEN col[u] \cup {v} ELSE col[u]
                 /\ val' = [val EXCEPT ![v] = Eval(U[v], val)]
                 /\ backup' = [backup EXCEPT ![v] = Eval(U[v], backup)]
                 /\ row' \in [Vars -> Polys] /\ col' \in [Vars -> SUBSET Vars]
                 /\ val' \in [Vars -> Values] /\ backup' \in [Vars -> Values]
                 /\ \A u \in Vars : U[u] \in Polys
    BY TakenBack
  <1>2. v \in QB /\ QB \in SUBSET Quasi /\ \A x \in QB : Terms(row[x]) \cap Quasi \subseteq QB
    BY BelowFacts
  <1> HIDE DEF QB
  <1>3. /\ v \in Vars /\ v \notin NonBasic /\ v \notin Basic /\ Basic \subseteq Vars /\ NonBasic \subseteq Vars
        /\ Quasi \subseteq Vars /\ Basic \cap Quasi = {} /\ NonBasic \cap Quasi = {}
        /\ Basic \cap NonBasic = {} /\ Vars \ NonBasic = Basic \cup Quasi
        /\ \A u \in Vars : row[u] \in Polys
    BY KindFacts
  <1>4. /\ \A u \in Basic \cup NonBasic : row'[u] = row[u]
        /\ \A u \in QB : row'[u] = U[u]
        /\ \A u \in Quasi \ QB : row'[u] = row[u]
        /\ row'[v] = U[v]
    BY <1>1, <1>2, <1>3
  <1>5. TableauShape
    BY TableauSplit
  <1>6. \A w \in Vars : Terms(row[w])' = Terms(row'[w])
    BY DEF Terms
  <1>7. TableauShape'
    <2>1. \A w \in Basic' : (Terms(row[w]) \subseteq NonBasic)'
      BY <1>1, <1>3, <1>4, <1>5, <1>6 DEF TableauShape
    <2>2. ASSUME NEW u \in NonBasic'
          PROVE  (row[u] = NoPoly /\ col[u] = {r \in Basic : u \in Terms(row[r])})'
      <3>1. u \in NonBasic /\ u \in Vars
        BY <1>1, <1>3
      <3>2. row'[u] = NoPoly /\ col[u] = {r \in Basic : u \in Terms(row[r])}
        BY <1>4, <1>5, <3>1 DEF TableauShape
      <3>3. col'[u] = {r \in Basic \cup {v} : u \in Terms(row'[r])}
        <4>1. \A r \in Basic : row'[r] = row[r]
          BY <1>4
        <4>2. v \notin col[u]
          BY <1>3, <3>2
        <4>3. CASE u \in Terms(U[v])
          <5>1. col'[u] = col[u] \cup {v}
            BY <1>1, <3>1, <4>3
          <5> QED
            BY <1>4, <3>2, <4>1, <4>3, <5>1
        <4>4. CASE u \notin Terms(U[v])
          <5>1. col'[u] = col[u]
            BY <1>1, <3>1, <4>4
          <5> QED
            BY <1>4, <3>2, <4>1, <4>4, <5>1
        <4> QED
          BY <4>3, <4>4
      <3>4. {r \in Basic : u \in Terms(row[r])}' = {r \in Basic \cup {v} : u \in Terms(row'[r])}
        BY <1>1, <1>3, <1>6
      <3>5. NoPoly' = NoPoly
        BY DEF NoPoly, Vars, Zero
      <3> QED
        BY <3>2, <3>3, <3>4, <3>5
    <2>3. \A u \in Vars' \ NonBasic' : col'[u] = {}
      <3>1. \A u \in Vars \ NonBasic : col[u] = {} /\ u \notin Terms(U[v])
        BY <1>1, <1>5 DEF TableauShape
      <3>2. Vars' = Vars
        BY DEF Vars
      <3> QED
        BY <1>1, <3>1, <3>2
    <2> QED
      BY <2>1, <2>2, <2>3 DEF TableauShape
  <1>8. AsideInv'
    <2>1. PICK m \in Nat : \E grade \in [Vars -> 0..m] : Graded(m, grade)
      BY DEF AsideInv
    <2>2. PICK grade \in [Vars -> 0..m] : Graded(m, grade)
      BY <2>1
    <2>3. ASSUME NEW w \in Quasi', NEW u \in Terms(row'[w]) \cap Quasi'
          PROVE  grade[u] < grade[w]
      <3>1. w \in Quasi /\ u \in Quasi
        BY <1>1
      <3>2. w \notin QB
        <4> SUFFICES ASSUME w \in QB PROVE FALSE
          OBVIOUS
        <4>1. w \in Vars /\ Terms(U[w]) \subseteq NonBasic
          BY <1>1, <1>3, <3>1, NormalizedTerms
        <4>2. u \in Terms(U[w])
          BY <1>4
        <4> QED
          BY <1>3, <3>1, <4>1, <4>2
      <3>3. u \in Terms(row[w])
        BY <1>4, <3>1, <3>2
      <3> QED
        BY <2>2, <3>1, <3>3 DEF Graded
    <2>4. Graded(m, grade)'
      <3>1. \A w \in Quasi' : (Terms(row[w]))' = Terms(row'[w])
        BY <1>1, <1>3, <1>6
      <3>2. \A w \in Quasi' : \A u \in (Terms(row[w]))' \cap Quasi' : grade[u] < grade[w]
        BY <2>3, <3>1
      <3> QED
        BY <3>2 DEF Graded, Vars
    <2>5. Vars' = Vars
      BY DEF Vars
    <2> QED
      BY <2>4 DEF AsideInv, Vars
  <1>9. RowsInv'
    <2>1. ASSUME NEW g \in Numbers, SatisfiesRows(g)
          PROVE  \A w \in Basic' \cup Quasi' : g[w] = Dot(row'[w], g)
      <3>1. \A x \in Quasi : Holds(U[x], x, g)
        BY <1>1, <2>1, NormalizedHolds
      <3>2. \A w \in Basic \cup Quasi : g[w] = Dot(row[w], g)
        BY <1>3, <2>1 DEF SatisfiesRows
      <3>3. \A w \in QB : g[w] = Dot(U[w], g)
        BY <1>2, <3>1 DEF Holds
      <3> QED
        BY <1>1, <1>2, <1>4, <3>2, <3>3
    <2>2. ASSUME NEW g \in Numbers, \A w \in Basic' \cup Quasi' : g[w] = Dot(row'[w], g)
          PROVE  SatisfiesRows(g)
      <3>1. \A w \in Basic \cup Quasi : g[w] = Dot(row'[w], g)
        BY <1>1, <2>2
      <3>2. \A u \in Basic : Holds(row[u], u, g)
        BY <1>4, <3>1 DEF Holds
      <3>3. \A u \in QB : Holds(U[u], u, g)
        BY <1>2, <1>4, <3>1 DEF Holds
      <3>4. ASSUME NEW w \in QB
            PROVE  g[w] = Dot(row[w], g)
        <4>1. \A u \in Terms(row[w]) \cap Basic : Holds(row[u], u, g)
          BY <3>2
        <4>2. \A u \in Terms(row[w]) \cap Quasi : Holds(U[u], u, g)
          BY <1>2, <3>3
        <4>3. w \in Vars
          BY <1>2, <1>3
        <4>4. Dot(U[w], g) = Dot(row[w], g)
          BY <1>1, <4>1, <4>2, <4>3, NormalizedDot
        <4> QED
          BY <3>3, <4>4 DEF Holds
      <3>5. \A w \in Basic \cup Quasi : g[w] = Dot(row[w], g)
        BY <1>4, <3>1, <3>4
      <3> QED
        BY <1>3, <3>5 DEF SatisfiesRows
    <2>3. Vars' \ NonBasic' = Basic' \cup Quasi'
      BY <1>1, <1>2, <1>3 DEF Vars
    <2>4. \A g \in Numbers : SatisfiesRows(g)' <=> \A w \in Basic' \cup Quasi' : g[w] = Dot(row'[w], g)
      BY <2>3 DEF SatisfiesRows, Dot, Terms, Vars
    <2>5. \A g \in Numbers : SatisfiesRows(g)' <=> SatisfiesRows(g)
      BY <2>1, <2>2, <2>4
    <2>6. \A g \in Numbers : SatisfiesRows(g) <=> SatisfiesDefs(g)
      BY DEF RowsInv, Numbers
    <2>7. \A g \in Numbers : SatisfiesRows(g)' <=> SatisfiesDefs(g)'
      BY <2>5, <2>6 DEF SatisfiesDefs, Dot, Terms, Vars
    <2> QED
      BY <2>7 DEF RowsInv, Numbers, Vars
  <1>10. ValuesConsistent'
    <2>1. ASSUME NEW w \in Basic'
          PROVE  val'[w] = Eval(row'[w], val') /\ backup'[w] = Eval(row'[w], backup')
      <3>1. w \in Vars /\ row'[w] \in Polys /\ \A u \in Terms(row'[w]) : u \in Vars /\ u # v
        <4>1. w \in Vars
          BY <1>1, <1>3
        <4>2. Terms(row'[w]) \subseteq NonBasic
          BY <1>1, <1>4, <1>5 DEF TableauShape
        <4> QED
          BY <1>1, <1>3, <4>1, <4>2
      <3>2. val \in [Vars -> Values] /\ backup \in [Vars -> Values]
        BY DEF TypeInv
      <3>3. \A u \in Vars : /\ val'[u] = IF u = v THEN Eval(U[v], val) ELSE val[u]
                            /\ backup'[u] = IF u = v THEN Eval(U[v], backup) ELSE backup[u]
        BY <1>1, <3>2
      <3>4. Eval(row'[w], val) = Eval(row'[w], val') /\ Eval(row'[w], backup) = Eval(row'[w], backup')
        <4>1. \A u \in Terms(row'[w]) : val[u] = val'[u] /\ backup[u] = backup'[u]
          BY <3>1, <3>3
        <4>2. \A u \in Terms(row'[w]) : val[u] = val'[u]
          BY <4>1
        <4>3. \A u \in Terms(row'[w]) : backup[u] = backup'[u]
          BY <4>1
        <4> QED
          BY <1>1, <3>1, <3>2, <4>2, <4>3, EvalSame
      <3>5. CASE w = v
        BY <1>4, <3>3, <3>4, <3>5, <3>1
      <3>6. CASE w \in Basic
        <4>1. val[w] = Eval(row[w], val) /\ backup[w] = Eval(row[w], backup) /\ row'[w] = row[w] /\ w # v
          BY <1>3, <1>4, <3>6 DEF ValuesConsistent
        <4> QED
          BY <3>1, <3>3, <3>4, <4>1
      <3> QED
        BY <1>1, <3>5, <3>6
    <2>2. \A w \in Basic' : (Eval(row[w], val))' = Eval(row'[w], val') /\ (Eval(row[w], backup))' = Eval(row'[w], backup')
      BY DEF Eval, Dot, Terms, Vars
    <2> QED
      BY <2>1, <2>2 DEF ValuesConsistent
  <1> QED
    BY <1>7, <1>8, <1>9, <1>10

-----------------------------------------------------------------------------
(* The rows of a pivot.                                                    *)

\* The reciprocal of a coefficient.
LEMMA Reciprocal ==
    ASSUME NEW c \in Rationals, c # Zero
    PROVE  /\ RDiv(One, c) \in Rationals /\ RDiv(One, c) # Zero
           /\ RMul(c, RDiv(One, c)) = One
           /\ \A p \in Rationals : /\ RMul(c, RMul(RDiv(One, c), p)) = p
                                   /\ RMul(RDiv(One, c), RMul(c, p)) = p
  <1> DEFINE i == RDiv(One, c)
  <1>1. One \in Rationals
    BY ZeroOne
  <1>2. i \in Rationals /\ i # Zero /\ RMul(c, i) = One
    BY <1>1, RationalClosed, DivBack, Neutral
  <1> HIDE DEF i
  <1>3. RMul(i, c) = One
    BY <1>2, AddCommutes
  <1>4. \A p \in Rationals : RMul(c, RMul(i, p)) = p /\ RMul(i, RMul(c, p)) = p
    <2> SUFFICES ASSUME NEW p \in Rationals
                 PROVE  RMul(c, RMul(i, p)) = p /\ RMul(i, RMul(c, p)) = p
      OBVIOUS
    <2>1. RMul(c, RMul(i, p)) = RMul(RMul(c, i), p)
      BY <1>2, MulAssociates
    <2>2. RMul(i, RMul(c, p)) = RMul(RMul(i, c), p)
      BY <1>2, MulAssociates
    <2> QED
      BY <1>2, <1>3, <2>1, <2>2, Neutral
  <1> QED
    BY <1>2, <1>4 DEF i

\* An equation solved for one of its terms.
LEMMA SolveFor ==
    ASSUME NEW a \in Rationals, NEW b \in Rationals, NEW e \in Rationals,
           NEW c \in Rationals, c # Zero
    PROVE  a = RAdd(e, RMul(c, b))
             <=> b = RAdd(RMul(RNeg(RDiv(One, c)), e), RMul(RDiv(One, c), a))
  <1> DEFINE i == RDiv(One, c)
             ie == RMul(i, e)
  <1>1. i \in Rationals /\ \A p \in Rationals : RMul(c, RMul(i, p)) = p /\ RMul(i, RMul(c, p)) = p
    BY Reciprocal
  <1> HIDE DEF i
  <1>2. ie \in Rationals /\ RNeg(ie) \in Rationals /\ RMul(c, b) \in Rationals /\ RMul(i, a) \in Rationals
    BY <1>1, RationalClosed
  <1>3. RMul(RNeg(i), e) = RNeg(ie)
    BY <1>1, NegFacts
  <1>4. ASSUME a = RAdd(e, RMul(c, b))
        PROVE  b = RAdd(RNeg(ie), RMul(i, a))
    <2>1. RMul(i, a) = RAdd(ie, b)
      <3>1. RMul(i, a) = RAdd(RMul(i, e), RMul(i, RMul(c, b)))
        BY <1>1, <1>2, <1>4, Distributes
      <3> QED
        BY <1>1, <3>1
    <2> HIDE DEF ie
    <2>2. RAdd(RNeg(ie), RAdd(ie, b)) = RAdd(RAdd(RNeg(ie), ie), b)
      BY <1>2, AddAssociates
    <2>3. RAdd(RNeg(ie), ie) = Zero
      BY <1>2, Neutral, AddCommutes
    <2> QED
      BY <2>1, <2>2, <2>3, Neutral
  <1>5. ASSUME b = RAdd(RNeg(ie), RMul(i, a))
        PROVE  a = RAdd(e, RMul(c, b))
    <2>1. RMul(c, b) = RAdd(RMul(c, RNeg(ie)), RMul(c, RMul(i, a)))
      BY <1>2, <1>5, Distributes
    <2>2. RMul(c, RMul(i, a)) = a
      BY <1>1
    <2>3. RMul(c, RNeg(ie)) = RNeg(e)
      <3>1. RMul(c, RNeg(ie)) = RMul(RNeg(ie), c) /\ RMul(ie, c) = RMul(c, ie)
        BY <1>2, AddCommutes
      <3>2. RMul(RNeg(ie), c) = RNeg(RMul(ie, c))
        BY <1>2, NegFacts
      <3> QED
        BY <1>1, <3>1, <3>2
    <2>4. RAdd(e, RAdd(RNeg(e), a)) = RAdd(RAdd(e, RNeg(e)), a)
      BY RationalClosed, AddAssociates
    <2> QED
      BY <2>1, <2>2, <2>3, <2>4, Neutral
  <1> QED
    BY <1>3, <1>4, <1>5 DEF i

-----------------------------------------------------------------------------
\* The pivot row, and the rows y is replaced in.
Pivots(x, y) ==
  x \in Vars /\ y \in Vars /\ x # y /\ row[x] \in Polys /\ row[x][y] # Zero /\ row[x][x] = Zero

\* The row of the variable that enters names the one that leaves, and not itself.
LEMMA PivotRowFacts ==
    ASSUME NEW x, NEW y, Pivots(x, y)
    PROVE  /\ PivotRow(x, y) \in Polys
           /\ \A u \in Vars : PivotRow(x, y)[u] =
                IF u = x THEN RDiv(One, row[x][y])
                ELSE IF u = y THEN Zero ELSE RMul(RNeg(RDiv(One, row[x][y])), row[x][u])
           /\ Terms(PivotRow(x, y)) = (Terms(row[x]) \ {y}) \cup {x}
  <1> DEFINE p == row[x]
             i == RDiv(One, p[y])
             k == RNeg(i)
             q == [p EXCEPT ![y] = Zero]
             s == Scaled(k, q)
  <1>1. /\ x \in Vars /\ y \in Vars /\ p \in Polys /\ p[y] # Zero /\ p[x] = Zero /\ x # y
        /\ \A u \in Vars : p[u] \in Rationals
    BY PolyFacts DEF Pivots
  <1>2. i \in Rationals /\ i # Zero /\ k \in Rationals /\ k # Zero
    BY <1>1, Reciprocal, RationalClosed, NegFacts
  <1>3. q \in Polys /\ \A u \in Vars : q[u] = IF u = y THEN Zero ELSE p[u]
    BY <1>1, ZeroOne, PolyChanged
  <1>p. PivotRow(x, y) = [s EXCEPT ![x] = i]
    BY DEF PivotRow
  <1> HIDE DEF i, k, q
  <1>4. s \in Polys /\ \A u \in Vars : s[u] = RMul(k, q[u])
    BY <1>2, <1>3, PolyClosed
  <1> HIDE DEF s
  <1>5. /\ PivotRow(x, y) \in Polys
        /\ \A u \in Vars : PivotRow(x, y)[u] = IF u = x THEN i ELSE s[u]
    <2>1. s \in Polys /\ x \in Vars /\ i \in Rationals
      BY <1>1, <1>2, <1>4
    <2>2. /\ [s EXCEPT ![x] = i] \in Polys
          /\ \A u \in Vars : [s EXCEPT ![x] = i][u] = IF u = x THEN i ELSE s[u]
      BY <2>1, PolyChanged
    <2> QED
      BY <1>p, <2>2
  <1>6. \A u \in Vars : PivotRow(x, y)[u] =
          IF u = x THEN i ELSE IF u = y THEN Zero ELSE RMul(k, p[u])
    BY <1>1, <1>2, <1>3, <1>4, <1>5, Neutral
  <1>7. Terms(PivotRow(x, y)) = (Terms(p) \ {y}) \cup {x}
    <2>1. \A u \in Vars : p[u] # Zero => RMul(k, p[u]) # Zero
      <3> SUFFICES ASSUME NEW u \in Vars, RMul(k, p[u]) = Zero PROVE p[u] = Zero
        OBVIOUS
      <3>1. RMul(RDiv(One, k), RMul(k, p[u])) = p[u] /\ RDiv(One, k) \in Rationals
        BY <1>1, <1>2, Reciprocal
      <3> QED
        BY <3>1, Neutral
    <2>2. \A u \in Vars : p[u] = Zero => RMul(k, p[u]) = Zero
      BY <1>2, Neutral
    <2>3. ASSUME NEW u \in Vars
          PROVE  PivotRow(x, y)[u] # Zero <=> u = x \/ (u # y /\ p[u] # Zero)
      <3>1. CASE u = x
        BY <1>2, <1>6, <3>1
      <3>2. CASE u = y
        <4>1. u # x /\ PivotRow(x, y)[u] = Zero
          BY <1>1, <1>6, <3>2
        <4> QED
          BY <3>2, <4>1
      <3>3. CASE u # x /\ u # y
        <4>1. PivotRow(x, y)[u] = RMul(k, p[u])
          BY <1>6, <3>3
        <4> QED
          BY <2>1, <2>2, <3>3, <4>1
      <3> QED
        BY <3>1, <3>2, <3>3
    <2> QED
      BY <1>1, <2>3 DEF Terms
  <1> QED
    BY <1>5, <1>6, <1>7 DEF k, i

\* The row of the entering variable is the leaving one's, solved for it.
LEMMA PivotRowHolds ==
    ASSUME NEW x, NEW y, Pivots(x, y), NEW g \in Numbers
    PROVE  Holds(row[x], x, g) <=> Holds(PivotRow(x, y), y, g)
  <1> DEFINE p == row[x]
             i == RDiv(One, p[y])
             k == RNeg(i)
             q == [p EXCEPT ![y] = Zero]
             P == PivotRow(x, y)
             t == [P EXCEPT ![x] = Zero]
  <1>1. /\ x \in Vars /\ y \in Vars /\ p \in Polys /\ p[y] # Zero /\ p[x] = Zero /\ x # y
        /\ \A u \in Vars : p[u] \in Rationals
    BY PolyFacts DEF Pivots
  <1>2. i \in Rationals /\ i # Zero /\ k \in Rationals
    BY <1>1, Reciprocal, RationalClosed
  <1>3. q \in Polys /\ \A u \in Vars : q[u] = IF u = y THEN Zero ELSE p[u]
    BY <1>1, ZeroOne, PolyChanged
  <1>4. P \in Polys /\ \A u \in Vars : P[u] = IF u = x THEN i ELSE IF u = y THEN Zero ELSE RMul(k, p[u])
    BY PivotRowFacts
  <1> HIDE DEF P
  <1>5. t \in Polys /\ \A u \in Vars : t[u] = IF u = x THEN Zero ELSE P[u]
    BY <1>1, <1>4, ZeroOne, PolyChanged
  <1>6. Dot(p, g) = RAdd(Dot(q, g), RMul(p[y], g[y])) /\ Dot(P, g) = RAdd(Dot(t, g), RMul(P[x], g[x]))
    BY <1>1, <1>4, DotWithout
  <1> HIDE DEF q, t, i, k
  <1>7. t = Scaled(k, q)
    <2>1. \A u \in Vars : t[u] = RMul(k, q[u])
      BY <1>1, <1>2, <1>3, <1>4, <1>5, Neutral
    <2>2. t = [u \in Vars |-> t[u]]
      BY <1>5 DEF Polys
    <2> QED
      BY <2>1, <2>2 DEF Scaled
  <1>8. Dot(t, g) = RMul(k, Dot(q, g)) /\ Dot(q, g) \in Rationals
    BY <1>2, <1>3, <1>7, DotLinear, DotAll
  <1>9. g[x] \in Rationals /\ g[y] \in Rationals /\ P[x] = i
    BY <1>1, <1>4 DEF Numbers
  <1>10. g[x] = RAdd(Dot(q, g), RMul(p[y], g[y]))
           <=> g[y] = RAdd(RMul(k, Dot(q, g)), RMul(i, g[x]))
    BY <1>1, <1>8, <1>9, SolveFor DEF i, k
  <1> QED
    BY <1>6, <1>8, <1>9, <1>10 DEF Holds, P

\* A rewritten row has lost the entering variable and keeps its equation.
LEMMA RewrittenFacts ==
    ASSUME NEW x, NEW y, Pivots(x, y), NEW r \in Vars, row[r] \in Polys
    PROVE  /\ Rewritten(r, x, y) \in Polys
           /\ Terms(Rewritten(r, x, y)) \subseteq (Terms(row[r]) \ {y}) \cup Terms(PivotRow(x, y))
           /\ \A g \in Numbers : Holds(PivotRow(x, y), y, g)
                                  => Dot(Rewritten(r, x, y), g) = Dot(row[r], g)
  <1> DEFINE P == PivotRow(x, y)
             p == row[r]
             q == [p EXCEPT ![y] = Zero]
             s == Scaled(p[y], P)
  <1>1. P \in Polys /\ y \in Vars /\ y \notin Terms(P) /\ P[y] = Zero
    <2>1. P \in Polys /\ y \in Vars /\ P[y] = Zero
      BY PivotRowFacts DEF Pivots
    <2> QED
      BY <2>1 DEF Terms
  <1> HIDE DEF P
  <1>2. \A u \in Vars : p[u] \in Rationals /\ P[u] \in Rationals
    BY <1>1, PolyFacts
  <1>3. q \in Polys /\ \A u \in Vars : q[u] = IF u = y THEN Zero ELSE p[u]
    BY <1>1, ZeroOne, PolyChanged
  <1>4. s \in Polys /\ \A u \in Vars : s[u] = RMul(p[y], P[u])
    <2>1. p[y] \in Rationals
      BY <1>1, <1>2
    <2> DEFINE c == p[y]
    <2> HIDE DEF p, q, c
    <2>2. Scaled(c, P) \in Polys /\ \A u \in Vars : Scaled(c, P)[u] = RMul(c, P[u])
      BY <1>1, <2>1, PolyClosed DEF c
    <2> QED
      BY <2>2 DEF c
  <1>5. Rewritten(r, x, y) = Plus(q, s)
    BY DEF Rewritten, P
  <1>w. \A g \in Numbers : Dot(p, g) = RAdd(Dot(q, g), RMul(p[y], g[y]))
    <2>1. p \in Polys
      OBVIOUS
    <2> HIDE DEF p
    <2>2. \A g \in Numbers : Dot(p, g) = RAdd(Dot([p EXCEPT ![y] = Zero], g), RMul(p[y], g[y]))
      BY <1>1, <2>1, DotWithout
    <2> QED
      BY <2>2
  <1>l. \A g \in Numbers : Dot(s, g) = RMul(p[y], Dot(P, g))
    BY <1>1, <1>2, DotLinear
  <1> HIDE DEF q, s
  <1>6. Plus(q, s) \in Polys /\ \A u \in Vars : Plus(q, s)[u] = RAdd(q[u], s[u])
    BY <1>3, <1>4, PolyClosed, ZeroOne
  <1>7. Terms(Plus(q, s)) \subseteq (Terms(p) \ {y}) \cup Terms(P)
    <2> SUFFICES ASSUME NEW u \in Terms(Plus(q, s)), u \notin Terms(p) \/ u = y, u \notin Terms(P)
                 PROVE  FALSE
      OBVIOUS
    <2>1. u \in Vars /\ Plus(q, s)[u] # Zero
      BY <1>6, PolyFacts
    <2>2. P[u] = Zero
      BY <2>1 DEF Terms
    <2>3. q[u] = Zero
      BY <1>3, <2>1 DEF Terms
    <2>4. s[u] = Zero
      BY <1>1, <1>2, <1>4, <2>1, <2>2, Neutral
    <2> QED
      BY <1>6, <2>1, <2>3, <2>4, ZeroOne, Neutral
  <1>8. ASSUME NEW g \in Numbers, Holds(P, y, g)
        PROVE  Dot(Plus(q, s), g) = Dot(p, g)
    <2>1. Dot(Plus(q, s), g) = RAdd(Dot(q, g), Dot(s, g))
      BY <1>3, <1>4, DotLinear, ZeroOne
    <2> QED
      BY <1>8, <1>w, <1>l, <2>1 DEF Holds
  <1> QED
    BY <1>5, <1>6, <1>7, <1>8 DEF P

-----------------------------------------------------------------------------
(* Values and their two coordinates.                                       *)

\* The two coordinates of values.
ValueMaps == [Vars -> Values]

\* A map of values is two maps of numbers.
LEMMA PartsFacts ==
    ASSUME NEW f \in ValueMaps
    PROVE  /\ RParts(f) \in Numbers /\ DParts(f) \in Numbers
           /\ \A u \in Vars : /\ f[u] \in Values /\ f[u] = Delta(RParts(f)[u], DParts(f)[u])
                              /\ RParts(f)[u] = f[u].r /\ DParts(f)[u] = f[u].d
                              /\ f[u].r \in Rationals /\ f[u].d \in Rationals /\ f[u].inf = 0
  <1>1. \A u \in Vars : f[u] \in Values
    BY DEF ValueMaps
  <1>2. \A u \in Vars : f[u].r \in Rationals /\ f[u].d \in Rationals /\ f[u].inf = 0
                        /\ f[u] = Delta(f[u].r, f[u].d)
    BY <1>1 DEF Values, Delta
  <1>3. \A u \in Vars : RParts(f)[u] = f[u].r /\ DParts(f)[u] = f[u].d
    BY DEF RParts, DParts
  <1>4. RParts(f) \in Numbers /\ DParts(f) \in Numbers
    BY <1>2 DEF RParts, DParts, Numbers
  <1> QED
    BY <1>1, <1>2, <1>3, <1>4

\* A value is its two coordinates.
LEMMA DeltaFacts ==
    ASSUME NEW r \in Rationals, NEW d \in Rationals, NEW s \in Rationals, NEW e \in Rationals
    PROVE  /\ Delta(r, d) \in Values /\ Delta(r, d).r = r /\ Delta(r, d).d = d /\ ~ isInf(Delta(r, d))
           /\ Delta(r, d) = Delta(s, e) <=> r = s /\ d = e
  <1>1. Delta(r, d) \in Values /\ Delta(r, d).r = r /\ Delta(r, d).d = d /\ ~ isInf(Delta(r, d))
    BY DEF Delta, Values, isInf
  <1>2. Delta(s, e).r = s /\ Delta(s, e).d = e
    BY DEF Delta
  <1> QED
    BY <1>1, <1>2

\* A row holds of values when it holds of both coordinates.
LEMMA EvalParts ==
    ASSUME NEW p \in Polys, NEW f \in ValueMaps, NEW v \in Vars
    PROVE  /\ f[v] = Eval(p, f) <=> Holds(p, v, RParts(f)) /\ Holds(p, v, DParts(f))
           /\ Eval(p, f) = Delta(Dot(p, RParts(f)), Dot(p, DParts(f)))
           /\ Dot(p, RParts(f)) \in Rationals /\ Dot(p, DParts(f)) \in Rationals
  <1>1. Eval(p, f) = Delta(Dot(p, RParts(f)), Dot(p, DParts(f)))
    BY DEF Eval, RParts, DParts
  <1>2. /\ RParts(f)[v] \in Rationals /\ DParts(f)[v] \in Rationals
        /\ f[v] = Delta(RParts(f)[v], DParts(f)[v])
    BY PartsFacts
  <1>3. Dot(p, RParts(f)) \in Rationals /\ Dot(p, DParts(f)) \in Rationals
    BY PartsFacts, DotAll
  <1>4. f[v] = Eval(p, f) <=> RParts(f)[v] = Dot(p, RParts(f)) /\ DParts(f)[v] = Dot(p, DParts(f))
    BY <1>1, <1>2, <1>3, DeltaFacts
  <1> QED
    BY <1>1, <1>3, <1>4 DEF Holds

\* The arithmetic of values.
LEMMA DeltaClosed ==
    ASSUME NEW a \in Values, NEW b \in Values, NEW c \in Rationals
    PROVE  /\ DAdd(a, b) \in Values /\ DSub(a, b) \in Values /\ DMul(c, a) \in Values
           /\ c # Zero => DDiv(a, c) \in Values
           /\ DAdd(b, DSub(a, b)) = a
           /\ c # Zero => DMul(c, DDiv(a, c)) = a
  <1>1. /\ a.r \in Rationals /\ a.d \in Rationals /\ b.r \in Rationals /\ b.d \in Rationals
        /\ a = Delta(a.r, a.d) /\ b = Delta(b.r, b.d)
    BY DEF Values, Delta
  <1>2. DAdd(a, b) \in Values /\ DSub(a, b) \in Values /\ DMul(c, a) \in Values
    BY <1>1, RationalClosed, DeltaFacts DEF DAdd, DSub, DMul
  <1>3. DAdd(b, DSub(a, b)) = a
    <2>1. DSub(a, b).r = RSub(a.r, b.r) /\ DSub(a, b).d = RSub(a.d, b.d)
      BY DEF DSub, Delta
    <2>2. RAdd(b.r, RSub(a.r, b.r)) = a.r /\ RAdd(b.d, RSub(a.d, b.d)) = a.d
      BY <1>1, SubFacts
    <2> QED
      BY <1>1, <2>1, <2>2 DEF DAdd
  <1>4. ASSUME c # Zero
        PROVE  DDiv(a, c) \in Values /\ DMul(c, DDiv(a, c)) = a
    <2>1. RDiv(a.r, c) \in Rationals /\ RDiv(a.d, c) \in Rationals
      BY <1>1, <1>4, RationalClosed
    <2>2. DDiv(a, c) \in Values /\ DDiv(a, c).r = RDiv(a.r, c) /\ DDiv(a, c).d = RDiv(a.d, c)
      BY <2>1, DeltaFacts DEF DDiv
    <2>3. RMul(c, RDiv(a.r, c)) = a.r /\ RMul(c, RDiv(a.d, c)) = a.d
      BY <1>1, <1>4, DivBack
    <2> QED
      BY <1>1, <2>2, <2>3 DEF DMul
  <1> QED
    BY <1>2, <1>3, <1>4

\* A nonbasic variable moves, and the values still satisfy the rows.
LEMMA MovedFacts ==
    ASSUME TypeInv, TableauConsistent, NEW y \in NonBasic, NEW diff \in Values
    PROVE  /\ Moved(y, diff) \in ValueMaps
           /\ Moved(y, diff)[y] = DAdd(val[y], diff)
           /\ \A u \in Vars : u # y /\ u \notin Affected(y) => Moved(y, diff)[u] = val[u]
           /\ \A u \in Affected(y) : u \in Basic /\ u # y /\ y \in Terms(row[u])
                                     /\ Moved(y, diff)[u] = DAdd(val[u], DMul(row[u][y], diff))
           /\ \A u \in Basic : y \in Terms(row[u]) => u \in Affected(y)
           /\ \A w \in Basic : val[w] = Eval(row[w], val)
                                 => Moved(y, diff)[w] = Eval(row[w], Moved(y, diff))
  <1> DEFINE f == Moved(y, diff)
  <1>1. /\ y \in Vars /\ Basic \subseteq Vars /\ y \notin Basic /\ Affected(y) \subseteq Basic
        /\ Affected(y) = {r \in Basic : y \in Terms(row[r])}
        /\ \A w \in Vars : row[w] \in Polys /\ row[w][y] \in Rationals
        /\ val \in ValueMaps /\ \A w \in Vars : val[w] \in Values
    <2>1. /\ y \in Vars /\ Basic \subseteq Vars /\ y \notin Basic /\ \A w \in Vars : row[w] \in Polys
      BY KindFacts
    <2>2. \A w \in Vars : row[w][y] \in Rationals
      BY <2>1, PolyFacts
    <2>3. Affected(y) = {r \in Basic : y \in Terms(row[r])}
      BY DEF Affected, TableauConsistent
    <2>4. val \in ValueMaps /\ \A w \in Vars : val[w] \in Values
      BY DEF TypeInv, ValueMaps
    <2> QED
      BY <2>1, <2>2, <2>3, <2>4
  <1>2. \A u \in Vars : f[u] = IF u = y THEN DAdd(val[u], diff)
                               ELSE IF u \in Affected(y) THEN DAdd(val[u], DMul(row[u][y], diff))
                               ELSE val[u]
    BY DEF Moved
  <1>3. \A u \in Vars : DMul(row[u][y], diff) \in Values
    BY <1>1, DeltaClosed
  <1>4. \A u \in Vars : DAdd(val[u], diff) \in Values /\ DAdd(val[u], DMul(row[u][y], diff)) \in Values
    BY <1>1, <1>3, DeltaClosed, ZeroOne
  <1>5. f \in ValueMaps
    <2>1. \A u \in Vars : f[u] \in Values
      BY <1>1, <1>2, <1>4
    <2>2. f = [u \in Vars |-> f[u]]
      BY DEF Moved
    <2> QED
      BY <2>1, <2>2 DEF ValueMaps
  <1>6. /\ f[y] = DAdd(val[y], diff)
        /\ \A u \in Vars : u # y /\ u \notin Affected(y) => f[u] = val[u]
        /\ \A u \in Affected(y) : f[u] = DAdd(val[u], DMul(row[u][y], diff))
    BY <1>1, <1>2
  <1> HIDE DEF f
  <1>7. ASSUME NEW w \in Basic, val[w] = Eval(row[w], val)
        PROVE  f[w] = Eval(row[w], f)
    <2> DEFINE g == RParts(val)
               h == RParts(f)
               k == DParts(val)
               l == DParts(f)
               p == row[w]
    <2>1. w \in Vars /\ w # y /\ p \in Polys /\ p[y] \in Rationals
      BY <1>1
    <2>2. Terms(p) \subseteq NonBasic
      BY DEF TableauConsistent
    <2>3. \A u \in Terms(p) : u # y => f[u] = val[u] /\ u \in Vars
      BY <1>1, <1>6, <2>2, KindFacts
    <2>4. g \in Numbers /\ h \in Numbers /\ k \in Numbers /\ l \in Numbers
      BY <1>1, <1>5, PartsFacts
    <2>5. diff.r \in Rationals /\ diff.d \in Rationals
      BY DEF Values
    <2>6. h[y] = RAdd(g[y], diff.r) /\ l[y] = RAdd(k[y], diff.d)
      <3>1. f[y].r = RAdd(val[y].r, diff.r) /\ f[y].d = RAdd(val[y].d, diff.d)
        BY <1>6 DEF DAdd, Delta
      <3>2. g[y] = val[y].r /\ k[y] = val[y].d /\ h[y] = f[y].r /\ l[y] = f[y].d
        BY <1>1, <1>5, PartsFacts
      <3> HIDE DEF g, h, k, l
      <3> QED
        BY <3>1, <3>2
    <2>7. \A u \in Terms(p) : u # y => h[u] = g[u] /\ l[u] = k[u]
      BY <1>1, <1>5, <2>3, PartsFacts
    <2>8. Holds(p, w, g) /\ Holds(p, w, k)
      BY <1>1, <1>7, <2>1, EvalParts
    <2>9. h[w] = RAdd(g[w], RMul(p[y], diff.r)) /\ l[w] = RAdd(k[w], RMul(p[y], diff.d))
      <3>1. CASE w \in Affected(y)
        <4>1. f[w] = DAdd(val[w], DMul(p[y], diff))
          BY <1>6, <3>1
        <4>2. f[w].r = RAdd(val[w].r, RMul(p[y], diff.r)) /\ f[w].d = RAdd(val[w].d, RMul(p[y], diff.d))
          BY <4>1 DEF DAdd, DMul, Delta
        <4> QED
          <5>1. h[w] = f[w].r /\ l[w] = f[w].d /\ g[w] = val[w].r /\ k[w] = val[w].d
            BY <1>1, <1>5, <2>1, PartsFacts
          <5> HIDE DEF g, h, k, l, p
          <5> QED
            BY <4>2, <5>1
      <3>2. CASE w \notin Affected(y)
        <4>1. f[w] = val[w] /\ p[y] = Zero
          BY <1>1, <1>6, <2>1, <3>2 DEF Terms
        <4>2. h[w] = g[w] /\ l[w] = k[w] /\ g[w] \in Rationals /\ k[w] \in Rationals
          BY <1>1, <1>5, <2>1, <4>1, PartsFacts
        <4>3. RMul(p[y], diff.r) = Zero /\ RMul(p[y], diff.d) = Zero
          BY <2>5, <4>1, Neutral
        <4> QED
          BY <4>2, <4>3, Neutral
      <3> QED
        BY <3>1, <3>2
    <2> HIDE DEF g, h, k, l, p
    <2>10. Dot(p, h) = RAdd(Dot(p, g), RMul(p[y], diff.r))
      <3>1. h[y] = RAdd(g[y], diff.r) /\ \A u \in Terms(p) : u # y => h[u] = g[u]
        BY <2>6, <2>7
      <3>2. h[y] = RAdd(g[y], diff.r)
        BY <3>1
      <3>3. \A u \in Terms(p) : u # y => h[u] = g[u]
        BY <3>1
      <3> QED
        BY <1>1, <2>1, <2>4, <2>5, <3>2, <3>3, DotMoved
    <2>11. Dot(p, l) = RAdd(Dot(p, k), RMul(p[y], diff.d))
      <3>2. l[y] = RAdd(k[y], diff.d)
        BY <2>6
      <3>3. \A u \in Terms(p) : u # y => l[u] = k[u]
        BY <2>7
      <3> QED
        BY <1>1, <2>1, <2>4, <2>5, <3>2, <3>3, DotMoved
    <2>12. Holds(p, w, h) /\ Holds(p, w, l)
      BY <2>8, <2>9, <2>10, <2>11 DEF Holds
    <2> QED
      BY <1>5, <2>1, <2>12, EvalParts DEF p, h, l
  <1> QED
    BY <1>1, <1>5, <1>6, <1>7 DEF f

-----------------------------------------------------------------------------
(* The bounds in force, of any backtrack points. *)

ForceIn(P, v, lower) == {k \in DOMAIN P : P[k].pushed /\ P[k].lit.v = v /\ P[k].lit.lower = lower}
LowIn(P, v) == P[Newest(ForceIn(P, v, TRUE))].lit
UppIn(P, v) == P[Newest(ForceIn(P, v, FALSE))].lit
LbIn(P, v) == IF ForceIn(P, v, TRUE) = {} THEN MinusInf ELSE LowIn(P, v).value
UbIn(P, v) == IF ForceIn(P, v, FALSE) = {} THEN PlusInf ELSE UppIn(P, v).value
OutIn(P, f, v) == DLess(f[v], LbIn(P, v)) \/ DLess(UbIn(P, v), f[v])

\* The bounds in force, as a function of the backtrack points.
LEMMA BoundsIn ==
    /\ \A v : Lb(v) = LbIn(points, v) /\ Ub(v) = UbIn(points, v)
    /\ \A f, v : OutOfBounds(f, v) <=> OutIn(points, f, v)
    /\ \A v : Lb(v)' = LbIn(points', v) /\ Ub(v)' = UbIn(points', v)
  <1>1. \A v : Lb(v) = LbIn(points, v) /\ Ub(v) = UbIn(points, v)
    BY DEF Lb, Ub, LbIn, UbIn, LbLit, UbLit, LowIn, UppIn, InForce, ForceIn
  <1>2. \A v : Lb(v)' = LbIn(points', v) /\ Ub(v)' = UbIn(points', v)
    BY DEF Lb, Ub, LbIn, UbIn, LbLit, UbLit, LowIn, UppIn, InForce, ForceIn, Newest
  <1> QED
    BY <1>1, <1>2 DEF OutOfBounds, OutIn

Chained(P) ==
  \A j, k \in DOMAIN P :
     /\ P[j].pushed /\ P[k].pushed /\ j < k /\ SameSide(P[j].lit, P[k].lit)
          => Stronger(P[k].lit, P[j].lit)
     /\ P[j].pushed /\ P[k].pushed /\ Opposite(P[j].lit, P[k].lit)
          => DLeq(P[j].lit.value, P[k].lit.value)
Implied(P) ==
  \A k \in DOMAIN P : P[k].counted =>
     \E j \in 1..k : /\ P[j].pushed /\ SameSide(P[j].lit, P[k].lit)
                     /\ ~ Stronger(P[k].lit, P[j].lit)
Bounded(P) ==
  /\ P \in Seq(Points)
  /\ \A k \in DOMAIN P : P[k].pushed => P[k].counted
  /\ Chained(P) /\ Implied(P)

\* What a backtrack point holds.
LEMMA PointFacts ==
    ASSUME NEW P \in Seq(Points)
    PROVE  /\ DOMAIN P = 1..Len(P) /\ Len(P) \in Nat
           /\ \A k \in DOMAIN P : /\ k \in Nat /\ P[k].pushed \in BOOLEAN /\ P[k].counted \in BOOLEAN
                                  /\ P[k].lit \in Literals /\ P[k].lit.v \in Vars
                                  /\ P[k].lit.lower \in BOOLEAN /\ P[k].lit.value \in Values
                                  /\ P[k].lit.value \in Extended
  <1>1. DOMAIN P = 1..Len(P) /\ Len(P) \in Nat
    OBVIOUS
  <1>2. \A k \in DOMAIN P : P[k] \in Points
    OBVIOUS
  <1>3. \A k \in DOMAIN P : k \in Nat /\ P[k].pushed \in BOOLEAN /\ P[k].counted \in BOOLEAN /\ P[k].lit \in Literals
    BY <1>1, <1>2 DEF Points
  <1> QED
    BY <1>1, <1>3, LiteralsAssumption DEF Extended

\* The newest of some points.
LEMMA NewestFacts ==
    ASSUME NEW P \in Seq(Points), NEW S \in SUBSET (DOMAIN P), S # {}
    PROVE  Newest(S) \in S /\ \A j \in S : j <= Newest(S)
  <1> DEFINE n == Len(P)
             T == {n - k : k \in S}
  <1>1. n \in Nat /\ \A k \in S : k \in Nat /\ k <= n
    BY PointFacts
  <1>2. T \in SUBSET Nat /\ T # {}
    BY <1>1
  <1>3. PICK t \in T : \A u \in T : t <= u
    <2> HIDE DEF T
    <2> QED
      BY <1>2, MinExists
  <1>4. PICK k \in S : t = n - k
    BY <1>3
  <1>5. \A j \in S : j <= k
    <2> SUFFICES ASSUME NEW j \in S PROVE j <= k
      OBVIOUS
    <2>1. n - k <= n - j
      BY <1>3, <1>4
    <2> QED
      BY <1>1, <2>1
  <1> QED
    BY <1>5 DEF Newest

\* The bound in force on a side is the strongest of the side.
LEMMA Strongest ==
    ASSUME NEW P, Bounded(P), NEW v \in Vars, NEW lower \in BOOLEAN, ForceIn(P, v, lower) # {}
    PROVE  LET n == Newest(ForceIn(P, v, lower)) IN
             /\ n \in ForceIn(P, v, lower) /\ n \in DOMAIN P
             /\ P[n].lit \in Literals /\ P[n].lit.v = v /\ P[n].lit.lower = lower
             /\ P[n].lit.value \in Values
             /\ \A k \in ForceIn(P, v, lower) : ~ Stronger(P[k].lit, P[n].lit)
  <1> DEFINE n == Newest(ForceIn(P, v, lower))
  <1>1. P \in Seq(Points) /\ ForceIn(P, v, lower) \in SUBSET DOMAIN P
    BY DEF Bounded, ForceIn
  <1>2. n \in ForceIn(P, v, lower) /\ \A j \in ForceIn(P, v, lower) : j <= n
    BY <1>1, NewestFacts
  <1> HIDE DEF n
  <1>3. /\ n \in DOMAIN P /\ P[n].pushed /\ P[n].lit \in Literals /\ P[n].lit.v = v /\ P[n].lit.lower = lower
        /\ P[n].lit.value \in Values /\ P[n].lit.value \in Extended /\ n \in Nat
    BY <1>1, <1>2, PointFacts DEF ForceIn
  <1>4. ASSUME NEW k \in ForceIn(P, v, lower)
        PROVE  ~ Stronger(P[k].lit, P[n].lit)
    <2>1. /\ k \in DOMAIN P /\ P[k].pushed /\ P[k].lit.v = v /\ P[k].lit.lower = lower /\ k <= n
          /\ P[k].lit.value \in Extended /\ k \in Nat
      BY <1>1, <1>2, PointFacts DEF ForceIn
    <2>2. CASE k = n
      BY <1>3, <2>2, ValueOrder DEF Stronger
    <2>3. CASE k # n
      <3>1. k < n /\ SameSide(P[k].lit, P[n].lit)
        BY <1>3, <2>1, <2>3 DEF SameSide
      <3>2. Stronger(P[n].lit, P[k].lit)
        BY <1>3, <2>1, <3>1 DEF Bounded, Chained
      <3>3. ~ (DLess(P[n].lit.value, P[k].lit.value) /\ DLess(P[k].lit.value, P[n].lit.value))
        BY <1>3, <2>1, ValueOrder
      <3> QED
        BY <1>3, <2>1, <3>2, <3>3 DEF Stronger
    <2> QED
      BY <2>2, <2>3
  <1> QED
    BY <1>2, <1>3, <1>4 DEF n

\* A bound in force is a value of a literal, or the infinity of its side.
LEMMA BoundTypes ==
    ASSUME NEW P, Bounded(P), NEW v \in Vars
    PROVE  /\ LbIn(P, v) \in Extended /\ UbIn(P, v) \in Extended
           /\ LbIn(P, v) # PlusInf /\ UbIn(P, v) # MinusInf
           /\ ForceIn(P, v, TRUE) # {} <=> LbIn(P, v) \in Values
           /\ ForceIn(P, v, FALSE) # {} <=> UbIn(P, v) \in Values
           /\ ForceIn(P, v, TRUE) # {} => LbIn(P, v) = LowIn(P, v).value
           /\ ForceIn(P, v, FALSE) # {} => UbIn(P, v) = UppIn(P, v).value
           /\ ForceIn(P, v, TRUE) = {} => LbIn(P, v) = MinusInf
           /\ ForceIn(P, v, FALSE) = {} => UbIn(P, v) = PlusInf
  <1>1. MinusInf \in Extended /\ PlusInf \in Extended /\ MinusInf \notin Values /\ PlusInf \notin Values
        /\ MinusInf # PlusInf
    <2>1. MinusInf.inf = -1 /\ PlusInf.inf = 1
      BY DEF MinusInf, PlusInf
    <2>2. \A x \in Values : x.inf = 0
      BY DEF Values
    <2> QED
      BY <2>1, <2>2 DEF Extended
  <1>2. ForceIn(P, v, TRUE) # {} => LowIn(P, v).value \in Values
    <2>1. ASSUME ForceIn(P, v, TRUE) # {}
          PROVE  LowIn(P, v).value \in Values
      BY <2>1, Strongest DEF LowIn
    <2> QED
      BY <2>1
  <1>3. ForceIn(P, v, FALSE) # {} => UppIn(P, v).value \in Values
    <2>1. ASSUME ForceIn(P, v, FALSE) # {}
          PROVE  UppIn(P, v).value \in Values
      BY <2>1, Strongest DEF UppIn
    <2> QED
      BY <2>1
  <1> QED
    BY <1>1, <1>2, <1>3 DEF LbIn, UbIn, Extended

\* Values lie between the infinities.
LEMMA InfinityOrder ==
    ASSUME NEW a \in Values
    PROVE  DLess(MinusInf, a) /\ DLess(a, PlusInf) /\ ~ DLess(a, MinusInf) /\ ~ DLess(PlusInf, a)
  <1>1. a.inf = 0 /\ MinusInf.inf = -1 /\ PlusInf.inf = 1
    BY DEF Values, MinusInf, PlusInf
  <1> QED
    BY <1>1 DEF DLess, isInf

\* The bound a literal of a counted point stands for is implied by that in force.
LEMMA BoundImplied ==
    ASSUME NEW P, Bounded(P), NEW k \in DOMAIN P, P[k].counted
    PROVE  /\ P[k].lit.lower => DLeq(P[k].lit.value, LbIn(P, P[k].lit.v))
           /\ ~ P[k].lit.lower => DLeq(UbIn(P, P[k].lit.v), P[k].lit.value)
  <1> DEFINE v == P[k].lit.v
             lower == P[k].lit.lower
             n == Newest(ForceIn(P, v, lower))
  <1>1. P \in Seq(Points)
    BY DEF Bounded
  <1>2. v \in Vars /\ lower \in BOOLEAN /\ P[k].lit.value \in Extended /\ k \in 1..Len(P) /\ Len(P) \in Nat
    BY <1>1, PointFacts
  <1>3. PICK j \in 1..k : /\ P[j].pushed /\ SameSide(P[j].lit, P[k].lit)
                          /\ ~ Stronger(P[k].lit, P[j].lit)
    BY DEF Bounded, Implied
  <1>4. j \in DOMAIN P
    BY <1>1, <1>2, PointFacts
  <1>5. j \in ForceIn(P, v, lower)
    BY <1>3, <1>4 DEF ForceIn, SameSide
  <1> HIDE DEF n, v, lower
  <1>6. /\ n \in DOMAIN P /\ P[n].lit.lower = lower /\ P[n].lit.value \in Values
        /\ ~ Stronger(P[j].lit, P[n].lit)
    BY <1>2, <1>5, Strongest DEF n
  <1>7. P[j].lit.value \in Extended /\ P[n].lit.value \in Extended
    BY <1>1, <1>4, <1>6, PointFacts
  <1>8. CASE lower
    <2>1. DLeq(P[k].lit.value, P[j].lit.value) /\ DLeq(P[j].lit.value, P[n].lit.value)
      BY <1>3, <1>6, <1>8 DEF Stronger, SameSide, DLeq, lower
    <2>2. LbIn(P, v) = P[n].lit.value
      BY <1>5, <1>8, <1>2 DEF LbIn, LowIn, n
    <2>3. DLeq(P[k].lit.value, LbIn(P, v))
      BY <1>2, <1>7, <2>1, <2>2, Between
    <2> QED
      BY <1>8, <2>3 DEF v, lower
  <1>9. CASE ~ lower
    <2>1. DLeq(P[j].lit.value, P[k].lit.value) /\ DLeq(P[n].lit.value, P[j].lit.value)
      BY <1>3, <1>6, <1>9 DEF Stronger, SameSide, DLeq, lower
    <2>2. UbIn(P, v) = P[n].lit.value
      <3>1. lower = FALSE
        BY <1>2, <1>9
      <3> QED
        BY <1>5, <3>1 DEF UbIn, UppIn, n
    <2>3. DLeq(UbIn(P, v), P[k].lit.value)
      BY <1>2, <1>7, <2>1, <2>2, Between
    <2> QED
      BY <1>9, <2>3 DEF v, lower
  <1> QED
    BY <1>8, <1>9

\* A variable is out of bounds when it violates a bound in force.
LEMMA OutMeans ==
    ASSUME NEW P, Bounded(P), NEW v \in Vars, NEW f \in ValueMaps
    PROVE  OutIn(P, f, v) <=> \E k \in DOMAIN P : P[k].pushed /\ P[k].lit.v = v /\ Violates(f, P[k].lit)
  <1>1. f[v] \in Values /\ f[v] \in Extended /\ P \in Seq(Points)
    BY DEF ValueMaps, Extended, Bounded
  <1>2. ASSUME DLess(f[v], LbIn(P, v))
        PROVE  \E k \in DOMAIN P : P[k].pushed /\ P[k].lit.v = v /\ Violates(f, P[k].lit)
    <2>1. ForceIn(P, v, TRUE) # {}
      BY <1>1, <1>2, InfinityOrder DEF LbIn
    <2> DEFINE n == Newest(ForceIn(P, v, TRUE))
    <2>2. n \in ForceIn(P, v, TRUE) /\ n \in DOMAIN P /\ LbIn(P, v) = P[n].lit.value
      BY <2>1, Strongest DEF LbIn, LowIn
    <2> HIDE DEF n
    <2>3. P[n].pushed /\ P[n].lit.v = v /\ P[n].lit.lower
      BY <2>2 DEF ForceIn
    <2> QED
      BY <1>2, <2>2, <2>3 DEF Violates
  <1>3. ASSUME DLess(UbIn(P, v), f[v])
        PROVE  \E k \in DOMAIN P : P[k].pushed /\ P[k].lit.v = v /\ Violates(f, P[k].lit)
    <2>1. ForceIn(P, v, FALSE) # {}
      BY <1>1, <1>3, InfinityOrder DEF UbIn
    <2> DEFINE n == Newest(ForceIn(P, v, FALSE))
    <2>2. n \in ForceIn(P, v, FALSE) /\ n \in DOMAIN P /\ UbIn(P, v) = P[n].lit.value
      BY <2>1, Strongest DEF UbIn, UppIn
    <2> HIDE DEF n
    <2>3. P[n].pushed /\ P[n].lit.v = v /\ P[n].lit.lower = FALSE
      BY <2>2 DEF ForceIn
    <2> QED
      BY <1>3, <2>2, <2>3 DEF Violates
  <1>4. ASSUME NEW k \in DOMAIN P, P[k].pushed, P[k].lit.v = v, Violates(f, P[k].lit)
        PROVE  OutIn(P, f, v)
    <2>1. P[k].counted /\ P[k].lit.value \in Extended /\ P[k].lit.lower \in BOOLEAN
      BY <1>1, <1>4, PointFacts DEF Bounded
    <2>2. LbIn(P, v) \in Extended /\ UbIn(P, v) \in Extended
      BY BoundTypes
    <2>3. CASE P[k].lit.lower
      <3>1. DLess(f[v], P[k].lit.value) /\ DLeq(P[k].lit.value, LbIn(P, v))
        BY <1>4, <2>1, <2>3, BoundImplied DEF Violates
      <3> QED
        BY <1>1, <2>1, <2>2, <3>1, Between DEF OutIn
    <2>4. CASE ~ P[k].lit.lower
      <3>1. DLess(P[k].lit.value, f[v]) /\ DLeq(UbIn(P, v), P[k].lit.value)
        BY <1>4, <2>1, <2>4, BoundImplied DEF Violates
      <3> QED
        BY <1>1, <2>1, <2>2, <3>1, Between DEF OutIn
    <2> QED
      BY <2>3, <2>4
  <1> QED
    BY <1>2, <1>3, <1>4 DEF OutIn

\* The bounds of a variable leave it room.
LEMMA BoundsMeet ==
    ASSUME NEW P, Bounded(P), NEW v \in Vars
    PROVE  DLeq(LbIn(P, v), UbIn(P, v))
  <1>1. CASE ForceIn(P, v, TRUE) = {} \/ ForceIn(P, v, FALSE) = {}
    <2>1. LbIn(P, v) \in Values \/ LbIn(P, v) = MinusInf
      BY BoundTypes
    <2>2. UbIn(P, v) \in Values \/ UbIn(P, v) = PlusInf
      BY BoundTypes
    <2>3. LbIn(P, v) = MinusInf \/ UbIn(P, v) = PlusInf
      BY <1>1, BoundTypes
    <2>4. ~ DLess(PlusInf, MinusInf)
      BY DEF DLess, PlusInf, MinusInf, isInf
    <2> QED
      BY <2>1, <2>2, <2>3, <2>4, InfinityOrder DEF DLeq
  <1>2. CASE ForceIn(P, v, TRUE) # {} /\ ForceIn(P, v, FALSE) # {}
    <2> DEFINE m == Newest(ForceIn(P, v, TRUE))
               n == Newest(ForceIn(P, v, FALSE))
    <2>1. m \in ForceIn(P, v, TRUE) /\ m \in DOMAIN P /\ LbIn(P, v) = P[m].lit.value
      BY <1>2, Strongest DEF LbIn, LowIn
    <2>2. n \in ForceIn(P, v, FALSE) /\ n \in DOMAIN P /\ UbIn(P, v) = P[n].lit.value
      BY <1>2, Strongest DEF UbIn, UppIn
    <2> HIDE DEF m, n
    <2>3. P[m].pushed /\ P[n].pushed /\ Opposite(P[m].lit, P[n].lit)
      BY <2>1, <2>2 DEF ForceIn, Opposite
    <2> QED
      BY <2>1, <2>2, <2>3 DEF Bounded, Chained
  <1> QED
    BY <1>1, <1>2

-----------------------------------------------------------------------------
(* Points added and points taken away.                                     *)

CountIn(P, v) == {k \in DOMAIN P : P[k].counted /\ P[k].lit.v = v}

Extends(Q, P, n, l, pushed, counted) ==
  /\ Q \in Seq(Points) /\ Len(Q) = n /\ n \in Nat /\ DOMAIN P = 1..n - 1 /\ DOMAIN Q = 1..n
  /\ DOMAIN Q = DOMAIN P \cup {n} /\ n \notin DOMAIN P /\ n \in 1..n
  /\ \A k \in DOMAIN P : k \in DOMAIN Q /\ k < n /\ k \in Nat /\ Q[k] = P[k]
  /\ Q[n].lit = l /\ Q[n].pushed = pushed /\ Q[n].counted = counted

\* The bounds in force once a point has been added.
LEMMA Appended ==
    ASSUME NEW P \in Seq(Points), NEW l \in Literals, NEW pushed \in BOOLEAN, NEW counted \in BOOLEAN,
           NEW Q, Q = Append(P, Point(l, pushed, counted))
    PROVE  Extends(Q, P, Len(P) + 1, l, pushed, counted)
  <1> DEFINE e == Point(l, pushed, counted)
  <1>1. e \in Points /\ e.lit = l /\ e.pushed = pushed /\ e.counted = counted
    BY DEF Point, Points
  <1> HIDE DEF e
  <1>2. Len(P) \in Nat /\ DOMAIN P = 1..Len(P)
    OBVIOUS
  <1>3. Q = Append(P, e)
    BY DEF e
  <1>4. /\ Q \in Seq(Points) /\ Len(Q) = Len(P) + 1
        /\ \A k \in 1..Len(P) : Q[k] = P[k]
        /\ Q[Len(P) + 1] = e
    BY <1>1, <1>3, AppendProperties
  <1>5. DOMAIN Q = 1..Len(Q)
    BY <1>4
  <1> QED
    BY <1>1, <1>2, <1>4, <1>5 DEF Extends

\* A refused bound changes nothing.
LEMMA RefusedBounded ==
    ASSUME NEW P, Bounded(P), NEW l \in Literals, NEW Q, Q = Append(P, Point(l, FALSE, FALSE))
    PROVE  Bounded(Q)
  <1>1. P \in Seq(Points)
    BY DEF Bounded
  <1>2. PICK n : n = Len(P) + 1
    OBVIOUS
  <1>3. /\ Q \in Seq(Points) /\ n \in Nat /\ DOMAIN Q = DOMAIN P \cup {n} /\ DOMAIN P = 1..n - 1
        /\ \A k \in DOMAIN P : k \in DOMAIN Q /\ k < n /\ k \in Nat /\ Q[k] = P[k]
        /\ ~ Q[n].pushed /\ ~ Q[n].counted
    <2>1. Extends(Q, P, n, l, FALSE, FALSE)
      BY <1>1, <1>2, Appended
    <2> QED
      BY <2>1 DEF Extends
  <1>4. \A k \in DOMAIN Q : Q[k].pushed => Q[k].counted
    BY <1>3 DEF Bounded
  <1>5. Chained(Q)
    BY <1>3 DEF Bounded, Chained
  <1>6. Implied(Q)
    <2> SUFFICES ASSUME NEW k \in DOMAIN Q, Q[k].counted
                 PROVE  \E j \in 1..k : /\ Q[j].pushed /\ SameSide(Q[j].lit, Q[k].lit)
                                        /\ ~ Stronger(Q[k].lit, Q[j].lit)
      BY DEF Implied
    <2>1. k \in DOMAIN P /\ Q[k] = P[k]
      BY <1>3
    <2>2. PICK j \in 1..k : /\ P[j].pushed /\ SameSide(P[j].lit, P[k].lit)
                            /\ ~ Stronger(P[k].lit, P[j].lit)
      BY <1>3, <2>1 DEF Bounded, Implied
    <2>3. j \in DOMAIN P
      BY <1>3, <2>1
    <2> QED
      BY <1>3, <2>1, <2>2, <2>3
  <1> QED
    BY <1>3, <1>4, <1>5, <1>6 DEF Bounded

UnsatIn(P, l) == IF l.lower THEN DLess(UbIn(P, l.v), l.value) ELSE DLess(l.value, LbIn(P, l.v))
SatIn(P, l) == IF l.lower THEN DLeq(l.value, LbIn(P, l.v)) ELSE DLeq(UbIn(P, l.v), l.value)

\* A bound that is taken is pushed when it is news.
LEMMA TakenBounded ==
    ASSUME NEW P, Bounded(P), NEW l \in Literals, ~ UnsatIn(P, l),
           NEW Q, Q = Append(P, Point(l, ~ SatIn(P, l), TRUE))
    PROVE  Bounded(Q)
  <1>1. P \in Seq(Points)
    BY DEF Bounded
  <1>2. PICK n : n = Len(P) + 1
    OBVIOUS
  <1> DEFINE pushed == ~ SatIn(P, l)
             v == l.v
  <1>p. pushed \in BOOLEAN /\ Q = Append(P, Point(l, pushed, TRUE))
    OBVIOUS
  <1> HIDE DEF pushed
  <1>3. /\ Q \in Seq(Points) /\ n \in Nat /\ DOMAIN Q = DOMAIN P \cup {n} /\ DOMAIN P = 1..n - 1
        /\ \A k \in DOMAIN P : k \in DOMAIN Q /\ k < n /\ k \in Nat /\ Q[k] = P[k]
        /\ Q[n].lit = l /\ Q[n].pushed = pushed /\ Q[n].counted /\ n \in 1..n
    <2>1. Extends(Q, P, n, l, pushed, TRUE)
      BY <1>1, <1>2, <1>p, Appended
    <2> QED
      BY <2>1 DEF Extends
  <1>4. \A k \in DOMAIN Q : Q[k].pushed => Q[k].counted
    BY <1>3 DEF Bounded
  <1>5. v \in Vars /\ l.lower \in BOOLEAN /\ l.value \in Values /\ l.value \in Extended
    BY LiteralsAssumption DEF Extended
  <1> HIDE DEF v
  <1>6. LbIn(P, v) \in Extended /\ UbIn(P, v) \in Extended
    BY <1>5, BoundTypes
  <1>7. ASSUME pushed, NEW k \in DOMAIN P, P[k].pushed
        PROVE  /\ SameSide(P[k].lit, l) => Stronger(l, P[k].lit)
               /\ Opposite(P[k].lit, l) => DLeq(P[k].lit.value, l.value)
               /\ Opposite(l, P[k].lit) => DLeq(l.value, P[k].lit.value)
    <2>1. P[k].counted /\ P[k].lit.value \in Extended /\ P[k].lit.lower \in BOOLEAN
      BY <1>1, <1>7, PointFacts DEF Bounded
    <2>2. CASE P[k].lit.v # v
      BY <2>2 DEF SameSide, Opposite, v
    <2>3. CASE P[k].lit.v = v /\ l.lower
      <3>1. DLess(LbIn(P, v), l.value) /\ DLeq(l.value, UbIn(P, v))
        BY <1>5, <1>6, <1>7, <2>3 DEF UnsatIn, SatIn, pushed, v, DLeq
      <3>2. P[k].lit.lower => DLeq(P[k].lit.value, LbIn(P, v))
        BY <2>1, <2>3, BoundImplied
      <3>3. ~ P[k].lit.lower => DLeq(UbIn(P, v), P[k].lit.value)
        BY <2>1, <2>3, BoundImplied
      <3>4. P[k].lit.lower => DLess(P[k].lit.value, l.value)
        BY <1>5, <1>6, <2>1, <3>1, <3>2, Between
      <3>5. ~ P[k].lit.lower => DLeq(l.value, P[k].lit.value)
        BY <1>5, <1>6, <2>1, <3>1, <3>3, Between
      <3> QED
        BY <2>1, <2>3, <3>4, <3>5 DEF SameSide, Opposite, Stronger
    <2>4. CASE P[k].lit.v = v /\ ~ l.lower
      <3>1. DLess(l.value, UbIn(P, v)) /\ DLeq(LbIn(P, v), l.value)
        BY <1>5, <1>6, <1>7, <2>4 DEF UnsatIn, SatIn, pushed, v, DLeq
      <3>2. P[k].lit.lower => DLeq(P[k].lit.value, LbIn(P, v))
        BY <2>1, <2>4, BoundImplied
      <3>3. ~ P[k].lit.lower => DLeq(UbIn(P, v), P[k].lit.value)
        BY <2>1, <2>4, BoundImplied
      <3>4. ~ P[k].lit.lower => DLess(l.value, P[k].lit.value)
        BY <1>5, <1>6, <2>1, <3>1, <3>3, Between
      <3>5. P[k].lit.lower => DLeq(P[k].lit.value, l.value)
        BY <1>5, <1>6, <2>1, <3>1, <3>2, Between
      <3> QED
        BY <2>1, <2>4, <3>4, <3>5 DEF SameSide, Opposite, Stronger
    <2> QED
      BY <2>2, <2>3, <2>4
  <1>8. Chained(Q)
    <2> SUFFICES ASSUME NEW j \in DOMAIN Q, NEW k \in DOMAIN Q, Q[j].pushed, Q[k].pushed
                 PROVE  /\ j < k /\ SameSide(Q[j].lit, Q[k].lit) => Stronger(Q[k].lit, Q[j].lit)
                        /\ Opposite(Q[j].lit, Q[k].lit) => DLeq(Q[j].lit.value, Q[k].lit.value)
      BY DEF Chained
    <2>1. CASE j \in DOMAIN P /\ k \in DOMAIN P
      BY <1>3, <2>1 DEF Bounded, Chained
    <2>2. CASE j \in DOMAIN P /\ k = n
      BY <1>3, <1>7, <2>2
    <2>3. CASE j = n /\ k \in DOMAIN P
      <3>1. ~ (j < k)
        BY <1>3, <2>3
      <3> QED
        BY <1>3, <1>7, <2>3, <3>1
    <2>4. CASE j = n /\ k = n
      <3>1. ~ (j < k) /\ j = k
        BY <1>3, <2>4
      <3>2. ~ Opposite(Q[j].lit, Q[k].lit)
        BY <3>1 DEF Opposite
      <3> QED
        BY <3>1, <3>2
    <2> QED
      BY <1>3, <2>1, <2>2, <2>3, <2>4
  <1>9. Implied(Q)
    <2> SUFFICES ASSUME NEW k \in DOMAIN Q, Q[k].counted
                 PROVE  \E j \in 1..k : /\ Q[j].pushed /\ SameSide(Q[j].lit, Q[k].lit)
                                        /\ ~ Stronger(Q[k].lit, Q[j].lit)
      BY DEF Implied
    <2>1. CASE k \in DOMAIN P
      <3>1. Q[k] = P[k]
        BY <1>3, <2>1
      <3>2. PICK j \in 1..k : /\ P[j].pushed /\ SameSide(P[j].lit, P[k].lit)
                              /\ ~ Stronger(P[k].lit, P[j].lit)
        BY <2>1, <3>1 DEF Bounded, Implied
      <3>3. j \in DOMAIN P
        BY <1>3, <2>1
      <3> QED
        BY <1>3, <3>1, <3>2, <3>3
    <2>2. CASE k = n /\ pushed
      <3>1. SameSide(l, l) /\ ~ Stronger(l, l)
        BY <1>5, ValueOrder DEF SameSide, Stronger
      <3> QED
        BY <1>3, <2>2, <3>1
    <2>3. CASE k = n /\ ~ pushed
      <3> DEFINE m == Newest(ForceIn(P, v, l.lower))
      <3>1. ForceIn(P, v, l.lower) # {}
        <4>1. SatIn(P, l)
          BY <2>3 DEF pushed
        <4>2. CASE l.lower
          <5>1. LbIn(P, v) # MinusInf
            BY <1>5, <4>1, <4>2, InfinityOrder DEF SatIn, DLeq, v
          <5> QED
            BY <4>2, <5>1 DEF LbIn
        <4>3. CASE ~ l.lower
          <5>1. UbIn(P, v) # PlusInf
            BY <1>5, <4>1, <4>3, InfinityOrder DEF SatIn, DLeq, v
          <5>2. l.lower = FALSE
            BY <1>5, <4>3
          <5> QED
            BY <5>1, <5>2 DEF UbIn
        <4> QED
          BY <4>2, <4>3
      <3>2. m \in ForceIn(P, v, l.lower) /\ m \in DOMAIN P
        BY <1>5, <3>1, Strongest
      <3>3. P[m].pushed /\ SameSide(P[m].lit, l) /\ m \in 1..n
        <4>1. m < n /\ m \in Nat /\ n \in Nat /\ m >= 1
          BY <1>3, <3>2
        <4>2. P[m].pushed /\ SameSide(P[m].lit, l)
          BY <3>2 DEF ForceIn, SameSide, v
        <4> QED
          BY <4>1, <4>2
      <3>4. ~ Stronger(l, P[m].lit)
        <4>1. SatIn(P, l)
          BY <2>3 DEF pushed
        <4>2. CASE l.lower
          BY <3>1, <3>3, <4>1, <4>2, <1>5 DEF SatIn, LbIn, LowIn, Stronger, DLeq, v
        <4>3. CASE ~ l.lower
          <5>1. l.lower = FALSE
            BY <1>5, <4>3
          <5> QED
            BY <3>1, <3>3, <4>1, <5>1, <1>5 DEF SatIn, UbIn, UppIn, Stronger, DLeq, v
        <4> QED
          BY <4>2, <4>3
      <3> HIDE DEF m
      <3>5. Q[m] = P[m]
        BY <1>3, <3>2
      <3> QED
        BY <1>3, <2>3, <3>3, <3>4, <3>5
    <2> QED
      BY <1>3, <2>1, <2>2, <2>3
  <1> QED
    BY <1>3, <1>4, <1>8, <1>9 DEF Bounded

\* Points may be forgotten from the newest on.
LEMMA PrefixBounded ==
    ASSUME NEW P, Bounded(P), NEW n \in 0..Len(P), NEW Q, Q = SubSeq(P, 1, n)
    PROVE  /\ Bounded(Q) /\ Len(Q) = n /\ DOMAIN Q = 1..n /\ n \in Nat
           /\ \A k \in 1..n : k \in DOMAIN P /\ Q[k] = P[k]
  <1>1. P \in Seq(Points) /\ Len(P) \in Nat /\ DOMAIN P = 1..Len(P)
    BY PointFacts DEF Bounded
  <1>2. n \in Nat /\ \A k \in 1..n : k \in DOMAIN P
    BY <1>1
  <1>3. Q \in Seq(Points) /\ Len(Q) = n /\ \A k \in 1..n : Q[k] = P[k]
    <2>1. \A i \in 1..n : P[i] \in Points
      BY <1>1, <1>2
    <2>2. /\ SubSeq(P, 1, n) \in Seq(Points)
          /\ Len(SubSeq(P, 1, n)) = IF 1 <= n THEN n - 1 + 1 ELSE 0
          /\ \A i \in 1..n - 1 + 1 : SubSeq(P, 1, n)[i] = P[1 + i - 1]
      BY <1>2, <2>1, SubSeqProperties
    <2>3. Len(Q) = n
      BY <1>2, <2>2
    <2>4. \A i \in 1..n : Q[i] = P[i]
      <3> SUFFICES ASSUME NEW i \in 1..n PROVE Q[i] = P[i]
        OBVIOUS
      <3>1. i \in 1..n - 1 + 1 /\ 1 + i - 1 = i
        BY <1>2
      <3> QED
        BY <2>2, <3>1
    <2> QED
      BY <2>2, <2>3, <2>4
  <1>4. DOMAIN Q = 1..n
    BY <1>2, <1>3
  <1>5. (\A k \in DOMAIN Q : Q[k].pushed => Q[k].counted) /\ Chained(Q)
    BY <1>2, <1>3, <1>4 DEF Bounded, Chained
  <1>6. Implied(Q)
    <2> SUFFICES ASSUME NEW k \in DOMAIN Q, Q[k].counted
                 PROVE  \E j \in 1..k : /\ Q[j].pushed /\ SameSide(Q[j].lit, Q[k].lit)
                                        /\ ~ Stronger(Q[k].lit, Q[j].lit)
      BY DEF Implied
    <2>1. k \in 1..n /\ k \in DOMAIN P /\ Q[k] = P[k]
      BY <1>2, <1>3, <1>4
    <2>2. PICK j \in 1..k : /\ P[j].pushed /\ SameSide(P[j].lit, P[k].lit)
                            /\ ~ Stronger(P[k].lit, P[j].lit)
      BY <2>1 DEF Bounded, Implied
    <2>3. j \in 1..n
      BY <1>2, <2>1
    <2> QED
      BY <1>3, <2>1, <2>2, <2>3
  <1> QED
    BY <1>2, <1>3, <1>4, <1>5, <1>6 DEF Bounded

-----------------------------------------------------------------------------
(* The counts. *)

\* Finitely many points count for a variable.
LEMMA CountFinite ==
    ASSUME NEW P \in Seq(Points), NEW v
    PROVE  IsFiniteSet(CountIn(P, v)) /\ CountIn(P, v) \in SUBSET (DOMAIN P)
  <1>1. Len(P) \in Nat /\ DOMAIN P = 1..Len(P)
    OBVIOUS
  <1>2. IsFiniteSet(DOMAIN P)
    BY <1>1, FS_Interval
  <1> QED
    BY <1>2, FS_Subset DEF CountIn

\* A point added counts for the variable of its literal, once.
LEMMA CountAppended ==
    ASSUME NEW P \in Seq(Points), NEW Q, NEW n, NEW l, NEW pushed, NEW counted,
           Extends(Q, P, n, l, pushed, counted), NEW v
    PROVE  /\ counted /\ l.v = v => Cardinality(CountIn(Q, v)) = Cardinality(CountIn(P, v)) + 1
           /\ ~ (counted /\ l.v = v) => CountIn(Q, v) = CountIn(P, v)
  <1>2. /\ DOMAIN Q = DOMAIN P \cup {n} /\ n \notin DOMAIN P
        /\ \A k \in DOMAIN P : Q[k] = P[k]
        /\ Q[n].lit = l /\ Q[n].counted = counted
    BY DEF Extends
  <1>3. CASE counted /\ l.v = v
    <2>1. CountIn(Q, v) = CountIn(P, v) \cup {n} /\ n \notin CountIn(P, v)
      BY <1>2, <1>3 DEF CountIn
    <2> QED
      <3>1. IsFiniteSet(CountIn(P, v))
        BY CountFinite
      <3>2. Cardinality(CountIn(P, v) \cup {n}) = Cardinality(CountIn(P, v)) + 1
        BY <2>1, <3>1, FS_AddElement
      <3> QED
        BY <1>3, <2>1, <3>2
  <1>4. CASE ~ (counted /\ l.v = v)
    <2>1. CountIn(Q, v) = CountIn(P, v)
      BY <1>2, <1>4 DEF CountIn
    <2> QED
      BY <1>4, <2>1
  <1> QED
    BY <1>3, <1>4

Drops(Q, P, n, gone) ==
  /\ n \in 0..Len(P) /\ Q = SubSeq(P, 1, n)
  /\ gone = {k \in n + 1..Len(P) : P[k].counted}

\* The points that go take their counts along.
LEMMA CountPrefix ==
    ASSUME NEW P, Bounded(P), NEW n, NEW Q, NEW gone, Drops(Q, P, n, gone), NEW v
    PROVE  /\ Cardinality(CountIn(Q, v)) \in Nat
           /\ Cardinality(CountIn(Q, v))
                = Cardinality(CountIn(P, v)) - Cardinality({k \in gone : P[k].lit.v = v})
           /\ (\A k \in gone : P[k].lit.v # v) => CountIn(Q, v) = CountIn(P, v)
  <1> DEFINE T == {k \in gone : P[k].lit.v = v}
             S == CountIn(P, v)
             R == CountIn(Q, v)
  <1>0. n \in 0..Len(P) /\ Q = SubSeq(P, 1, n) /\ gone = {k \in n + 1..Len(P) : P[k].counted}
    BY DEF Drops
  <1>1. P \in Seq(Points) /\ Q \in Seq(Points)
    BY <1>0, PrefixBounded DEF Bounded
  <1>2. /\ DOMAIN Q = 1..n /\ n \in Nat /\ \A k \in 1..n : Q[k] = P[k]
    BY <1>0, PrefixBounded
  <1>3. DOMAIN P = 1..Len(P) /\ Len(P) \in Nat
    BY <1>1
  <1>4. \A k : k \in DOMAIN P <=> k \in 1..n \/ k \in n + 1..Len(P)
    BY <1>0, <1>2, <1>3
  <1>5. \A k : ~ (k \in 1..n /\ k \in n + 1..Len(P))
    BY <1>2, <1>3
  <1>6. S \cap T = T /\ R = S \ T
    <2>1. \A k : k \in T <=> k \in n + 1..Len(P) /\ P[k].counted /\ P[k].lit.v = v
      BY <1>0
    <2>2. \A k : k \in S <=> k \in DOMAIN P /\ P[k].counted /\ P[k].lit.v = v
      BY DEF CountIn
    <2>3. \A k : k \in R <=> k \in 1..n /\ P[k].counted /\ P[k].lit.v = v
      BY <1>2 DEF CountIn
    <2> HIDE DEF S, T, R
    <2>4. \A k : k \in S \cap T <=> k \in T
      BY <1>4, <2>1, <2>2
    <2>5. \A k : k \in R <=> k \in S \ T
      BY <1>4, <1>5, <2>1, <2>2, <2>3
    <2>6. S \cap T = T
      BY <2>4
    <2>7. R = S \ T
      BY <2>5
    <2> QED
      BY <2>6, <2>7
  <1>7. IsFiniteSet(S) /\ IsFiniteSet(R)
    BY <1>1, CountFinite
  <1>8. (\A k \in gone : P[k].lit.v # v) => T = {}
    OBVIOUS
  <1> HIDE DEF S, T, R
  <1>9. Cardinality(R) = Cardinality(S) - Cardinality(T) /\ Cardinality(R) \in Nat
    <2>1. Cardinality(S \ T) = Cardinality(S) - Cardinality(S \cap T)
      BY <1>7, FS_Difference
    <2>2. Cardinality(R) \in Nat
      BY <1>7, FS_CardinalityType
    <2> QED
      BY <1>6, <2>1, <2>2
  <1> QED
    BY <1>6, <1>8, <1>9 DEF R, S, T

-----------------------------------------------------------------------------
(* A pivot.                                                                *)

PivotBound(x) == IF TooLow(x) THEN Lb(x) ELSE Ub(x)
PivotDiff(x, y) == DDiv(DSub(PivotBound(x), val[x]), row[x][y])
Others(x, y) == Affected(y) \ {x}

\* The variables a pivot exchanges, and the row it solves.
LEMMA PivotPremise ==
    ASSUME TypeInv, TableauConsistent, Bounded(points), NEW x \in Basic, NEW y \in Terms(row[x]),
           OutOfBounds(val, x)
    PROVE  /\ Pivots(x, y) /\ y \in NonBasic /\ x \in Affected(y)
           /\ PivotBound(x) \in Values /\ PivotDiff(x, y) \in Values
           /\ DAdd(val[x], DMul(row[x][y], PivotDiff(x, y))) = PivotBound(x)
  <1>1. /\ x \in Vars /\ row[x] \in Polys /\ Terms(row[x]) \subseteq NonBasic /\ x \notin NonBasic
        /\ NonBasic \subseteq Vars
    BY KindFacts DEF TableauConsistent
  <1>2. y \in NonBasic /\ y \in Vars /\ x # y /\ row[x][y] # Zero /\ row[x][y] \in Rationals
    BY <1>1, PolyFacts
  <1>3. row[x][x] = Zero
    BY <1>1 DEF Terms
  <1>4. x \in Affected(y)
    BY <1>2 DEF Affected, TableauConsistent
  <1>5. val[x] \in Values
    BY <1>1 DEF TypeInv
  <1>6. PivotBound(x) \in Values
    <2>1. /\ Lb(x) \in Extended /\ Ub(x) \in Extended /\ Lb(x) # PlusInf /\ Ub(x) # MinusInf
      BY <1>1, BoundsIn, BoundTypes
    <2>2. CASE TooLow(x)
      BY <1>5, <2>1, <2>2, InfinityOrder DEF PivotBound, TooLow, Extended
    <2>3. CASE ~ TooLow(x)
      <3>1. DLess(Ub(x), val[x])
        BY <2>3 DEF OutOfBounds, TooLow
      <3> QED
        BY <1>5, <2>1, <2>3, <3>1, InfinityOrder DEF PivotBound, Extended
    <2> QED
      BY <2>2, <2>3
  <1>7. DSub(PivotBound(x), val[x]) \in Values /\ DAdd(val[x], DSub(PivotBound(x), val[x])) = PivotBound(x)
    BY <1>5, <1>6, ZeroOne, DeltaClosed
  <1>8. /\ PivotDiff(x, y) \in Values
        /\ DMul(row[x][y], PivotDiff(x, y)) = DSub(PivotBound(x), val[x])
    BY <1>2, <1>5, <1>7, DeltaClosed DEF PivotDiff
  <1> QED
    BY <1>1, <1>2, <1>3, <1>4, <1>6, <1>7, <1>8 DEF Pivots

PivotRows(x, y, newRow) ==
  /\ newRow \in [Vars -> Polys]
  /\ newRow[x] = NoPoly
  /\ newRow[y] = PivotRow(x, y)
  /\ \A v \in Others(x, y) : newRow[v] = Rewritten(v, x, y)
  /\ \A v \in Vars : v # x /\ v # y /\ v \notin Others(x, y) => newRow[v] = row[v]

PivotKinds(x, y) ==
  /\ NonBasic' = (NonBasic \ {y}) \cup {x}
  /\ SetAside(y) => Basic' = Basic \ {x} /\ Quasi' = Quasi \cup {y}
  /\ ~ SetAside(y) => Basic' = (Basic \ {x}) \cup {y} /\ Quasi' = Quasi

\* The tableau after a pivot, variable by variable.
LEMMA Pivoted ==
    ASSUME TypeInv, TableauConsistent, NEW x \in Basic, NEW y \in NonBasic,
           Pivots(x, y), Pivot(x, y)
    PROVE  /\ PivotRows(x, y, row') /\ PivotKinds(x, y)
           /\ kind' \in [Vars -> {"basic", "nonbasic", "quasi"}]
           /\ col' = [u \in Vars |->
                IF u = y THEN {}
                ELSE (col[u] \ ({x} \cup Others(x, y)))
                       \cup {r \in IF SetAside(y) THEN Others(x, y) ELSE Others(x, y) \cup {y} :
                               u \in Terms(row'[r])}]
           /\ val' = Moved(y, PivotDiff(x, y))
           /\ candidates' = (Recandidates(y, PivotDiff(x, y)) \ {x}) \cup TakenIn(y, val')
           /\ changed' = changed \cup {y} \cup Affected(y)
           /\ Others(x, y) \subseteq Basic
  <1>1. /\ Others(x, y) \subseteq Basic /\ x \notin Others(x, y) /\ y \notin Others(x, y) /\ x # y
        /\ x \in Vars /\ y \in Vars /\ Basic \subseteq Vars /\ x \notin NonBasic /\ y \notin Basic
        /\ \A v \in Vars : row[v] \in Polys
    BY KindFacts DEF Others, Affected, Pivots
  <1> DEFINE newRow == [v \in Vars |->
        CASE v = x -> NoPoly
          [] v = y -> PivotRow(x, y)
          [] v \in Others(x, y) -> Rewritten(v, x, y)
          [] OTHER -> row[v]]
  <1>2. /\ val' = Moved(y, PivotDiff(x, y))
        /\ changed' = changed \cup {y} \cup Affected(y)
        /\ row' = newRow
        /\ kind' = [kind EXCEPT ![x] = "nonbasic", ![y] = IF SetAside(y) THEN "quasi" ELSE "basic"]
        /\ col' = [u \in Vars |->
                IF u = y THEN {}
                ELSE (col[u] \ ({x} \cup Others(x, y)))
                       \cup {r \in IF SetAside(y) THEN Others(x, y) ELSE Others(x, y) \cup {y} :
                               u \in Terms(newRow[r])}]
        /\ candidates' = (Recandidates(y, PivotDiff(x, y)) \ {x}) \cup TakenIn(y, val')
    BY DEF Pivot, PivotDiff, PivotBound, Others
  <1>3. /\ newRow[x] = NoPoly /\ newRow[y] = PivotRow(x, y)
        /\ \A v \in Others(x, y) : newRow[v] = Rewritten(v, x, y)
        /\ \A v \in Vars : v # x /\ v # y /\ v \notin Others(x, y) => newRow[v] = row[v]
    <2>1. newRow[x] = NoPoly /\ newRow[y] = PivotRow(x, y)
      BY <1>1
    <2>2. ASSUME NEW v \in Others(x, y)
          PROVE  newRow[v] = Rewritten(v, x, y)
      <3>1. v \in Vars /\ v # x /\ v # y
        BY <1>1
      <3> QED
        BY <3>1
    <2>3. ASSUME NEW v \in Vars, v # x /\ v # y /\ v \notin Others(x, y)
          PROVE  newRow[v] = row[v]
      BY <2>3
    <2> QED
      BY <2>1, <2>2, <2>3
  <1>4. newRow = [v \in Vars |-> newRow[v]]
    OBVIOUS
  <1> HIDE DEF newRow
  <1>5. newRow \in [Vars -> Polys]
    <2>1. NoPoly \in Polys
      BY ZeroOne DEF NoPoly, Polys
    <2>2. PivotRow(x, y) \in Polys
      BY PivotRowFacts
    <2>3. \A v \in Others(x, y) : Rewritten(v, x, y) \in Polys
      BY <1>1, RewrittenFacts
    <2>4. ASSUME NEW v \in Vars
          PROVE  newRow[v] \in Polys
      <3>1. CASE v = x
        BY <1>3, <2>1, <3>1
      <3>2. CASE v = y
        BY <1>3, <2>2, <3>2
      <3>3. CASE v \in Others(x, y)
        BY <1>3, <2>3, <3>3
      <3>4. CASE v # x /\ v # y /\ v \notin Others(x, y)
        BY <1>1, <1>3, <3>4
      <3> QED
        BY <3>1, <3>2, <3>3, <3>4
    <2> QED
      BY <1>4, <2>4
  <1>6. PivotRows(x, y, row')
    BY <1>2, <1>3, <1>5 DEF PivotRows
  <1>7. kind \in [Vars -> {"basic", "nonbasic", "quasi"}]
    BY DEF TypeInv
  <1>8. /\ kind' \in [Vars -> {"basic", "nonbasic", "quasi"}]
        /\ kind'[x] = "nonbasic" /\ kind'[y] = IF SetAside(y) THEN "quasi" ELSE "basic"
        /\ \A v \in Vars : v # x /\ v # y => kind'[v] = kind[v]
    BY <1>1, <1>2, <1>7
  <1>9. /\ NonBasic' = {v \in Vars : kind'[v] = "nonbasic"}
        /\ Basic' = {v \in Vars : kind'[v] = "basic"} /\ Quasi' = {v \in Vars : kind'[v] = "quasi"}
    BY DEF NonBasic, Basic, Quasi, Vars
  <1>10. kind[x] = "basic" /\ kind[y] = "nonbasic"
    BY <1>1, KindFacts
  <1>11. NonBasic' = (NonBasic \ {y}) \cup {x}
    BY <1>1, <1>8, <1>9, <1>10 DEF NonBasic
  <1>12. SetAside(y) => Basic' = Basic \ {x} /\ Quasi' = Quasi \cup {y}
    BY <1>1, <1>8, <1>9, <1>10 DEF Basic, Quasi
  <1>13. ~ SetAside(y) => Basic' = (Basic \ {x}) \cup {y} /\ Quasi' = Quasi
    BY <1>1, <1>8, <1>9, <1>10 DEF Basic, Quasi
  <1> QED
    BY <1>1, <1>2, <1>6, <1>8, <1>11, <1>12, <1>13 DEF PivotKinds

\* Where the terms of the rows lie after a pivot.
RowsWithin(x, y, newRow, M) ==
  /\ Terms(newRow[y]) \subseteq M
  /\ \A w \in Basic \ {x} : Terms(newRow[w]) \subseteq M
  /\ \A w \in (Basic \ {x}) \ Others(x, y) : newRow[w] = row[w] /\ y \notin Terms(row[w])
  /\ \A w \in Quasi : newRow[w] = row[w]
  /\ \A w \in NonBasic \ {y} : newRow[w] = NoPoly
  /\ newRow[x] = NoPoly

\* After a pivot rows in the tableau name nonbasic variables only.
LEMMA PivotTerms ==
    ASSUME TypeInv, TableauConsistent, NEW x \in Basic, NEW y \in NonBasic, y \in Terms(row[x]),
           Pivots(x, y), NEW newRow, PivotRows(x, y, newRow)
    PROVE  RowsWithin(x, y, newRow, (NonBasic \ {y}) \cup {x})
  <1> DEFINE M == (NonBasic \ {y}) \cup {x}
  <1>1. /\ Others(x, y) \subseteq Basic /\ x \notin Others(x, y)
        /\ x \in Vars /\ y \in Vars /\ Basic \subseteq Vars /\ x \notin NonBasic /\ y \notin Basic
        /\ Quasi \subseteq Vars /\ NonBasic \subseteq Vars /\ x \notin Quasi /\ y \notin Quasi
        /\ Quasi \cap Basic = {} /\ NonBasic \cap Basic = {}
        /\ \A v \in Vars : row[v] \in Polys
    BY KindFacts DEF Others, Affected
  <1>2. \A w \in Basic : Terms(row[w]) \subseteq NonBasic
    BY DEF TableauConsistent
  <1>3. Terms(PivotRow(x, y)) \subseteq M
    BY <1>2, PivotRowFacts
  <1>4. \A w \in Others(x, y) : Terms(newRow[w]) \subseteq M
    <2> SUFFICES ASSUME NEW w \in Others(x, y) PROVE Terms(newRow[w]) \subseteq M
      OBVIOUS
    <2>1. w \in Vars /\ row[w] \in Polys /\ w \in Basic /\ newRow[w] = Rewritten(w, x, y)
      BY <1>1 DEF PivotRows
    <2>2. Terms(newRow[w]) \subseteq (Terms(row[w]) \ {y}) \cup Terms(PivotRow(x, y))
      BY <2>1, RewrittenFacts
    <2> QED
      BY <1>2, <1>3, <2>1, <2>2
  <1>5. \A w \in (Basic \ {x}) \ Others(x, y) : newRow[w] = row[w] /\ y \notin Terms(row[w])
    <2> SUFFICES ASSUME NEW w \in (Basic \ {x}) \ Others(x, y)
                 PROVE  newRow[w] = row[w] /\ y \notin Terms(row[w])
      OBVIOUS
    <2>1. newRow[w] = row[w]
      BY <1>1 DEF PivotRows
    <2>2. w \notin col[y]
      BY DEF Others, Affected
    <2> QED
      BY <2>1, <2>2 DEF TableauConsistent
  <1>6. \A w \in Quasi : newRow[w] = row[w]
    BY <1>1 DEF PivotRows
  <1>7. \A w \in NonBasic \ {y} : newRow[w] = NoPoly
    <2> SUFFICES ASSUME NEW w \in NonBasic \ {y} PROVE newRow[w] = NoPoly
      OBVIOUS
    <2>1. w # x /\ w \notin Others(x, y) /\ w \in Vars
      BY <1>1
    <2> QED
      BY <2>1 DEF PivotRows, TableauConsistent
  <1>8. newRow[x] = NoPoly /\ newRow[y] = PivotRow(x, y)
    BY DEF PivotRows
  <1>9. \A w \in Basic \ {x} : Terms(newRow[w]) \subseteq M
    BY <1>2, <1>4, <1>5
  <1> QED
    BY <1>3, <1>5, <1>6, <1>7, <1>8, <1>9 DEF RowsWithin

\* Numbers that satisfy the row of x satisfy that of y, and the other rows as before.
LEMMA PivotEquations ==
    ASSUME TypeInv, TableauConsistent, NEW x \in Basic, NEW y \in NonBasic, Pivots(x, y),
           NEW newRow, PivotRows(x, y, newRow), NEW g \in Numbers
    PROVE  /\ Holds(row[x], x, g) <=> Holds(newRow[y], y, g)
           /\ Holds(newRow[y], y, g) =>
                \A w \in Basic \cup Quasi : w # x => (Holds(newRow[w], w, g) <=> Holds(row[w], w, g))
  <1>1. /\ Others(x, y) \subseteq Basic /\ y \notin Basic /\ y \notin Quasi
        /\ Basic \subseteq Vars /\ Quasi \subseteq Vars /\ \A v \in Vars : row[v] \in Polys
    BY KindFacts DEF Others, Affected
  <1>2. newRow[y] = PivotRow(x, y)
    BY DEF PivotRows
  <1>3. ASSUME Holds(newRow[y], y, g), NEW w \in Basic \cup Quasi, w # x
        PROVE  Holds(newRow[w], w, g) <=> Holds(row[w], w, g)
    <2>1. w \in Vars /\ w # y
      BY <1>1
    <2>2. CASE w \in Others(x, y)
      <3>1. newRow[w] = Rewritten(w, x, y)
        BY <2>2 DEF PivotRows
      <3>2. Dot(Rewritten(w, x, y), g) = Dot(row[w], g)
        BY <1>1, <1>2, <1>3, <2>1, RewrittenFacts
      <3> QED
        BY <3>1, <3>2 DEF Holds
    <2>3. CASE w \notin Others(x, y)
      BY <1>3, <2>1, <2>3 DEF PivotRows
    <2> QED
      BY <2>2, <2>3
  <1> QED
    BY <1>2, <1>3, PivotRowHolds

-----------------------------------------------------------------------------
(* What a pivot keeps.                                                     *)

\* A pivot keeps rows over nonbasic variables, columns and the order of the rows set aside.
LEMMA PivotKeepsTableau ==
    ASSUME TypeInv, TableauConsistent, AsideInv, Bounded(points), NEW x \in Basic, NEW y \in Terms(row[x]),
           OutOfBounds(val, x), Pivot(x, y)
    PROVE  TableauShape' /\ AsideInv'
  <1> DEFINE rows == IF SetAside(y) THEN Others(x, y) ELSE Others(x, y) \cup {y}
             M == (NonBasic \ {y}) \cup {x}
  <1>1. Pivots(x, y) /\ y \in NonBasic
    BY PivotPremise
  <1>2. /\ PivotRows(x, y, row') /\ PivotKinds(x, y)
        /\ col' = [u \in Vars |->
                IF u = y THEN {} ELSE (col[u] \ ({x} \cup Others(x, y))) \cup {r \in rows : u \in Terms(row'[r])}]
    BY <1>1, Pivoted
  <1>3. /\ Terms(row'[y]) \subseteq M
        /\ \A w \in Basic \ {x} : Terms(row'[w]) \subseteq M
        /\ \A w \in (Basic \ {x}) \ Others(x, y) : row'[w] = row[w] /\ y \notin Terms(row[w])
        /\ \A w \in Quasi : row'[w] = row[w]
        /\ \A w \in NonBasic \ {y} : row'[w] = NoPoly
        /\ row'[x] = NoPoly
    <2>1. PICK nr : nr = row'
      OBVIOUS
    <2>2. PivotRows(x, y, nr)
      BY <1>2, <2>1
    <2>3. RowsWithin(x, y, nr, M)
      BY <1>1, <2>2, PivotTerms
    <2> QED
      BY <2>1, <2>3 DEF RowsWithin
  <1>4. /\ Others(x, y) \subseteq Basic \ {x} /\ x \in Vars /\ y \in Vars /\ x # y /\ y \notin Basic /\ y \notin Quasi
        /\ Basic \subseteq Vars /\ Quasi \subseteq Vars /\ NonBasic \subseteq Vars
        /\ Basic \cap NonBasic = {} /\ Quasi \cap NonBasic = {} /\ Quasi \cap Basic = {}
        /\ Vars \ NonBasic = Basic \cup Quasi /\ x \notin NonBasic /\ x \notin Quasi
    <2>1. Others(x, y) \subseteq Basic \ {x}
      BY DEF Others, Affected
    <2>2. x # y
      BY <1>1 DEF Pivots
    <2> QED
      BY <1>1, <2>1, <2>2, KindFacts
  <1>5. /\ NonBasic' = M
        /\ SetAside(y) => Basic' = Basic \ {x} /\ Quasi' = Quasi \cup {y}
        /\ ~ SetAside(y) => Basic' = (Basic \ {x}) \cup {y} /\ Quasi' = Quasi
        /\ Basic' \subseteq (Basic \ {x}) \cup {y} /\ rows \subseteq Basic'
        /\ Basic' = ((Basic \ {x}) \ Others(x, y)) \cup rows
    BY <1>2, <1>4 DEF PivotKinds
  <1>6. \A w \in Vars : Terms(row[w])' = Terms(row'[w])
    BY DEF Terms, Vars
  <1>7. \A w \in Basic : Terms(row[w]) \subseteq NonBasic
    BY DEF TableauConsistent
  <1>8. \A u \in NonBasic : col[u] = {r \in Basic : u \in Terms(row[r])}
    BY DEF TableauConsistent
  <1>9. \A u \in Vars \ NonBasic : col[u] = {}
    BY DEF TableauConsistent
  <1>10. \A u \in Vars : u # y => col'[u] = (col[u] \ ({x} \cup Others(x, y))) \cup {r \in rows : u \in Terms(row'[r])}
    BY <1>2
  <1>11. col'[y] = {}
    BY <1>2, <1>4
  <1> HIDE DEF rows, M
  <1>12. \A r \in rows : Terms(row'[r]) \subseteq M
    BY <1>3, <1>4, <1>5
  <1>13. TableauShape'
    <2>1. \A w \in Basic' : (Terms(row[w]) \subseteq NonBasic)'
      BY <1>3, <1>4, <1>5, <1>6
    <2>2. ASSUME NEW u \in NonBasic'
          PROVE  (row[u] = NoPoly /\ col[u] = {r \in Basic : u \in Terms(row[r])})'
      <3>1. u \in Vars /\ u # y /\ (u \in NonBasic \/ u = x)
        BY <1>4, <1>5 DEF M
      <3>2. row'[u] = NoPoly
        BY <1>3, <3>1
      <3>3. {r \in Basic : u \in Terms(row[r])}' = {r \in Basic' : u \in Terms(row'[r])}
        BY <1>4, <1>5, <1>6
      <3>4. col'[u] = {r \in Basic' : u \in Terms(row'[r])}
        <4>1. \A r \in (Basic \ {x}) \ Others(x, y) : r \in col[u] <=> u \in Terms(row'[r])
          <5> SUFFICES ASSUME NEW r \in (Basic \ {x}) \ Others(x, y)
                       PROVE  r \in col[u] <=> u \in Terms(row'[r])
            OBVIOUS
          <5>1. row'[r] = row[r] /\ r \in Basic
            BY <1>3
          <5>2. CASE u \in NonBasic
            BY <1>8, <5>1, <5>2
          <5>3. CASE u = x
            <6>1. u \notin NonBasic /\ u \notin Terms(row[r])
              BY <1>4, <1>7, <5>1, <5>3
            <6>2. col[u] = {}
              BY <1>9, <3>1, <6>1
            <6> QED
              BY <5>1, <6>1, <6>2
          <5> QED
            BY <3>1, <5>2, <5>3
        <4>2. col[u] \subseteq Basic
          BY <1>8, <1>9, <3>1, <1>4
        <4>3. col[u] \ ({x} \cup Others(x, y)) = {r \in (Basic \ {x}) \ Others(x, y) : u \in Terms(row'[r])}
          BY <4>1, <4>2
        <4>4. col'[u] = (col[u] \ ({x} \cup Others(x, y))) \cup {r \in rows : u \in Terms(row'[r])}
          BY <1>10, <3>1
        <4> QED
          BY <1>5, <4>3, <4>4
      <3>5. NoPoly' = NoPoly
        BY DEF NoPoly, Vars, Zero
      <3> QED
        BY <3>2, <3>3, <3>4, <3>5
    <2>3. ASSUME NEW u \in Vars' \ NonBasic'
          PROVE  col'[u] = {}
      <3>1. u \in Vars /\ u \notin M /\ u # x
        BY <1>5 DEF Vars, M
      <3>2. CASE u = y
        BY <1>11, <3>2
      <3>3. CASE u # y
        <4>1. u \notin NonBasic
          BY <3>1, <3>3 DEF M
        <4>2. col[u] = {}
          BY <1>9, <3>1, <4>1
        <4>3. \A r \in rows : u \notin Terms(row'[r])
          BY <1>12, <3>1
        <4> QED
          BY <1>10, <3>1, <3>3, <4>2, <4>3
      <3> QED
        BY <3>2, <3>3
    <2> QED
      BY <2>1, <2>2, <2>3 DEF TableauShape
  <1>14. AsideInv'
    <2>1. PICK m \in Nat : \E grade \in [Vars -> 0..m] : Graded(m, grade)
      BY DEF AsideInv
    <2>2. PICK grade \in [Vars -> 0..m] : Graded(m, grade)
      BY <2>1
    <2> DEFINE later == [v \in Vars |-> IF v = y THEN 0 ELSE grade[v] + 1]
               k == m + 1
    <2>3. k \in Nat /\ later \in [Vars -> 0..k]
      OBVIOUS
    <2>4. \A v \in Vars : v # y => later[v] = grade[v] + 1 /\ grade[v] \in Nat
      OBVIOUS
    <2>5. later[y] = 0
      BY <1>4
    <2> HIDE DEF later
    <2>6. ASSUME NEW w \in Quasi', NEW u \in Terms(row'[w]) \cap Quasi'
          PROVE  later[u] < later[w]
      <3>1. w \in Quasi \cup {y} /\ u \in Quasi \cup {y}
        BY <1>5
      <3>2. w # y
        <4> SUFFICES ASSUME w = y PROVE FALSE
          OBVIOUS
        <4>1. u \in M
          BY <1>3
        <4> QED
          BY <1>4, <3>1, <4>1 DEF M
      <3>3. w \in Quasi /\ u \in Terms(row[w]) /\ w \in Vars
        BY <1>3, <1>4, <3>1, <3>2
      <3>4. CASE u = y
        BY <2>4, <2>5, <3>2, <3>3, <3>4
      <3>5. CASE u # y
        <4>1. u \in Quasi /\ u \in Vars
          BY <1>4, <3>1, <3>5
        <4>2. grade[u] < grade[w]
          BY <2>2, <3>3, <4>1 DEF Graded
        <4> QED
          BY <2>4, <3>2, <3>3, <3>5, <4>1, <4>2
      <3> QED
        BY <3>4, <3>5
    <2>7. Quasi' \subseteq Vars
      BY <1>4, <1>5
    <2>8. Graded(k, later)'
      <3>1. \A w \in Quasi' : (Terms(row[w]))' = Terms(row'[w])
        BY <1>6, <2>7
      <3>2. \A w \in Quasi' : \A u \in (Terms(row[w]))' \cap Quasi' : later[u] < later[w]
        BY <2>6, <3>1
      <3> QED
        BY <2>3, <3>2 DEF Graded, Vars
    <2> QED
      BY <2>3, <2>8 DEF AsideInv, Vars
  <1> QED
    BY <1>13, <1>14

\* The same numbers satisfy the rows before and after a pivot.
LEMMA PivotKeepsRows ==
    ASSUME TypeInv, TableauConsistent, RowsInv, Bounded(points), NEW x \in Basic, NEW y \in Terms(row[x]),
           OutOfBounds(val, x), Pivot(x, y)
    PROVE  RowsInv'
  <1>1. Pivots(x, y) /\ y \in NonBasic
    BY PivotPremise
  <1>2. PICK nr : nr = row'
    OBVIOUS
  <1>3. PivotRows(x, y, nr) /\ PivotKinds(x, y)
    BY <1>1, <1>2, Pivoted
  <1>4. /\ Vars \ NonBasic = Basic \cup Quasi /\ y \in Vars /\ x \in Vars /\ x # y
        /\ x \notin NonBasic /\ y \notin Basic /\ y \notin Quasi
    BY <1>1, KindFacts DEF Pivots
  <1> DEFINE B == Basic \cup Quasi
  <1>5. Vars' \ NonBasic' = (B \ {x}) \cup {y}
    BY <1>3, <1>4 DEF PivotKinds, Vars
  <1>6. ASSUME NEW g \in Numbers
        PROVE  (\A w \in (B \ {x}) \cup {y} : Holds(nr[w], w, g)) <=> (\A w \in B : Holds(row[w], w, g))
    <2>1. Holds(row[x], x, g) <=> Holds(nr[y], y, g)
      BY <1>1, <1>3, PivotEquations
    <2>2. Holds(nr[y], y, g) => \A w \in B : w # x => (Holds(nr[w], w, g) <=> Holds(row[w], w, g))
      BY <1>1, <1>3, PivotEquations
    <2>3. x \in B
      OBVIOUS
    <2> HIDE DEF B
    <2> QED
      BY <2>1, <2>2, <2>3
  <1> HIDE DEF B
  <1>7. \A g \in Numbers : SatisfiesRows(g) <=> \A w \in B : Holds(row[w], w, g)
    BY <1>4 DEF SatisfiesRows, Holds, B
  <1>8. \A g \in Numbers : SatisfiesRows(g)' <=> \A w \in (B \ {x}) \cup {y} : Holds(nr[w], w, g)
    <2>1. \A g \in Numbers : SatisfiesRows(g)' <=> \A w \in Vars' \ NonBasic' : g[w] = Dot(row'[w], g)
      BY DEF SatisfiesRows, Dot, Terms, Vars
    <2> QED
      BY <1>2, <1>5, <2>1 DEF Holds
  <1>9. \A g \in Numbers : SatisfiesRows(g) <=> SatisfiesDefs(g)
    BY DEF RowsInv, Numbers
  <1>10. \A g \in Numbers : SatisfiesDefs(g)' <=> SatisfiesDefs(g)
    BY DEF SatisfiesDefs, Dot, Terms, Vars
  <1>11. \A g \in Numbers : SatisfiesRows(g)' <=> SatisfiesDefs(g)'
    BY <1>6, <1>7, <1>8, <1>9, <1>10
  <1> QED
    BY <1>11 DEF RowsInv, Numbers, Vars

\* Values that satisfy the rows of the tableau satisfy those of the next.
LEMMA PivotValues ==
    ASSUME TypeInv, TableauConsistent, NEW x \in Basic, NEW y \in NonBasic, Pivots(x, y),
           NEW newRow, PivotRows(x, y, newRow), NEW f \in ValueMaps,
           \A w \in Basic : f[w] = Eval(row[w], f)
    PROVE  \A w \in (Basic \ {x}) \cup {y} : f[w] = Eval(newRow[w], f)
  <1> DEFINE g == RParts(f)
             h == DParts(f)
  <1>1. g \in Numbers /\ h \in Numbers
    BY PartsFacts
  <1>2. Basic \subseteq Vars /\ y \in Vars /\ newRow \in [Vars -> Polys] /\ \A w \in Vars : row[w] \in Polys
    BY KindFacts DEF PivotRows, Pivots
  <1>3. \A w \in Basic : Holds(row[w], w, g) /\ Holds(row[w], w, h)
    BY <1>2, EvalParts
  <1> HIDE DEF g, h
  <1>4. Holds(newRow[y], y, g) /\ Holds(newRow[y], y, h)
    BY <1>1, <1>3, PivotEquations
  <1>5. \A w \in Basic \ {x} : Holds(newRow[w], w, g)
    BY <1>1, <1>3, <1>4, PivotEquations
  <1>6. \A w \in Basic \ {x} : Holds(newRow[w], w, h)
    BY <1>1, <1>3, <1>4, PivotEquations
  <1>7. \A w \in (Basic \ {x}) \cup {y} : w \in Vars /\ newRow[w] \in Polys
                                          /\ Holds(newRow[w], w, g) /\ Holds(newRow[w], w, h)
    BY <1>2, <1>4, <1>5, <1>6
  <1> QED
    BY <1>7, EvalParts DEF g, h

\* Values that satisfied the rows before a pivot satisfy those after it.
LEMMA PivotKeepsValues ==
    ASSUME TypeInv, TableauConsistent, ValuesConsistent, Bounded(points),
           NEW x \in Basic, NEW y \in Terms(row[x]), OutOfBounds(val, x), Pivot(x, y), backup' = backup
    PROVE  ValuesConsistent' /\ val' \in ValueMaps
  <1>1. Pivots(x, y) /\ y \in NonBasic /\ PivotDiff(x, y) \in Values
    BY PivotPremise
  <1>2. PICK nr, f, b : nr = row' /\ f = val' /\ b = backup'
    OBVIOUS
  <1>3. PivotRows(x, y, nr) /\ PivotKinds(x, y) /\ f = Moved(y, PivotDiff(x, y))
    BY <1>1, <1>2, Pivoted
  <1>4. f \in ValueMaps /\ b \in ValueMaps
    BY <1>1, <1>2, <1>3, MovedFacts DEF TypeInv, ValueMaps
  <1>5. \A w \in Basic : f[w] = Eval(row[w], f)
    BY <1>1, <1>3, MovedFacts DEF ValuesConsistent
  <1>6. \A w \in Basic : b[w] = Eval(row[w], b)
    BY <1>2 DEF ValuesConsistent
  <1>7. \A w \in (Basic \ {x}) \cup {y} : f[w] = Eval(nr[w], f)
    BY <1>1, <1>3, <1>4, <1>5, PivotValues
  <1>8. \A w \in (Basic \ {x}) \cup {y} : b[w] = Eval(nr[w], b)
    BY <1>1, <1>3, <1>4, <1>6, PivotValues
  <1>9. Basic' \subseteq (Basic \ {x}) \cup {y}
    BY <1>3 DEF PivotKinds
  <1>10. \A w \in Basic' : (Eval(row[w], val))' = Eval(row'[w], val') /\ (Eval(row[w], backup))' = Eval(row'[w], backup')
    BY DEF Eval, Dot, Terms, Vars
  <1>11. \A w \in Basic' : val'[w] = Eval(row'[w], val') /\ backup'[w] = Eval(row'[w], backup')
    BY <1>2, <1>7, <1>8, <1>9
  <1> QED
    BY <1>2, <1>4, <1>10, <1>11 DEF ValuesConsistent

-----------------------------------------------------------------------------
(* The parts of the invariant, as functions of what they speak of.         *)

Accepted(P, n) == \A k \in 1..n : P[k].counted
AllCounted(P) == \A k \in DOMAIN P : P[k].counted
Counts(P, act) == \A v \in Vars : act[v] = Cardinality(CountIn(P, v))

\* The invariant of the bounds, as a function of points, counts and pending conflict.
LEMMA BoundsSplit ==
    /\ BoundsInv /\ points \in Seq(Points)
         <=> /\ Bounded(points) /\ Accepted(points, checked) /\ (expl = {} => AllCounted(points))
             /\ Counts(points, active)
    /\ BoundsInv' /\ points' \in Seq(Points)
         <=> /\ Bounded(points') /\ Accepted(points', checked') /\ (expl' = {} => AllCounted(points'))
             /\ Counts(points', active')
  <1>1. BoundsInv /\ points \in Seq(Points)
         <=> /\ Bounded(points) /\ Accepted(points, checked) /\ (expl = {} => AllCounted(points))
             /\ Counts(points, active)
    BY DEF BoundsInv, Bounded, Chained, Implied, Accepted, AllCounted, Counts, CountIn, CountedAt
  <1>2. BoundsInv' /\ points' \in Seq(Points)
         <=> /\ Bounded(points') /\ Accepted(points', checked') /\ (expl' = {} => AllCounted(points'))
             /\ Counts(points', active')
    BY DEF BoundsInv, Bounded, Chained, Implied, Accepted, AllCounted, Counts, CountIn, CountedAt,
           SameSide, Stronger, Opposite, DLess, DLeq, isInf, RLess, Vars
  <1> QED
    BY <1>1, <1>2

\* What the invariant says of the bounds.
LEMMA BoundsKnown ==
    ASSUME TypeInv, BoundsInv
    PROVE  /\ Bounded(points) /\ Accepted(points, checked) /\ (expl = {} => AllCounted(points))
           /\ Counts(points, active)
           /\ points \in Seq(Points)
  BY BoundsSplit DEF TypeInv

\* A variable without counted points has no bounds.
LEMMA Unbounded ==
    ASSUME NEW P, Bounded(P), NEW v \in Vars, Cardinality(CountIn(P, v)) = 0
    PROVE  /\ CountIn(P, v) = {}
           /\ LbIn(P, v) = MinusInf /\ UbIn(P, v) = PlusInf
           /\ \A f \in ValueMaps : ~ OutIn(P, f, v)
  <1>1. CountIn(P, v) = {}
    <2>1. IsFiniteSet(CountIn(P, v))
      BY CountFinite DEF Bounded
    <2> QED
      BY <2>1, FS_EmptySet
  <1>2. \A lower \in BOOLEAN : ForceIn(P, v, lower) = {}
    BY <1>1 DEF CountIn, ForceIn, Bounded
  <1>3. LbIn(P, v) = MinusInf /\ UbIn(P, v) = PlusInf
    BY <1>2, BoundTypes
  <1>4. \A f \in ValueMaps : ~ OutIn(P, f, v)
    BY <1>3, InfinityOrder DEF OutIn, ValueMaps
  <1> QED
    BY <1>1, <1>3, <1>4

\* A variable whose row is set aside has no bounds, so it is not out of bounds.
LEMMA QuasiUnbounded ==
    ASSUME TypeInv, TableauConsistent, BoundsInv, NEW v \in Quasi
    PROVE  /\ active[v] = 0 /\ CountIn(points, v) = {} /\ v \in Vars
           /\ LbIn(points, v) = MinusInf /\ UbIn(points, v) = PlusInf
           /\ \A f \in ValueMaps : ~ OutIn(points, f, v)
  <1>1. v \in Vars /\ active[v] \in Nat /\ ~ (active[v] > 0)
    BY KindFacts DEF TableauConsistent, TypeInv
  <1>2. Cardinality(CountIn(points, v)) = 0 /\ active[v] = 0
    BY <1>1, BoundsKnown DEF Counts
  <1> QED
    BY <1>1, <1>2, BoundsKnown, Unbounded

\* The variables out of bounds, once a point is added.
LEMMA OutAppended ==
    ASSUME NEW P, Bounded(P), NEW Q, Bounded(Q), NEW n, NEW l, NEW pushed, NEW counted,
           Extends(Q, P, n, l, pushed, counted), NEW v \in Vars, NEW f \in ValueMaps
    PROVE  OutIn(Q, f, v) <=> OutIn(P, f, v) \/ (pushed /\ l.v = v /\ Violates(f, l))
  <1>4. OutIn(P, f, v) <=> \E k \in DOMAIN P : P[k].pushed /\ P[k].lit.v = v /\ Violates(f, P[k].lit)
    BY OutMeans
  <1>5. OutIn(Q, f, v) <=> \E k \in DOMAIN Q : Q[k].pushed /\ Q[k].lit.v = v /\ Violates(f, Q[k].lit)
    BY OutMeans
  <1>6. /\ DOMAIN Q = DOMAIN P \cup {n} /\ \A k \in DOMAIN P : Q[k] = P[k]
        /\ Q[n].lit = l /\ Q[n].pushed = pushed
    BY DEF Extends
  <1> HIDE DEF OutIn
  <1>7. (\E k \in DOMAIN Q : Q[k].pushed /\ Q[k].lit.v = v /\ Violates(f, Q[k].lit))
          <=> (\E k \in DOMAIN P : P[k].pushed /\ P[k].lit.v = v /\ Violates(f, P[k].lit))
                \/ (pushed /\ l.v = v /\ Violates(f, l))
    BY <1>6
  <1> QED
    BY <1>4, <1>5, <1>7

-----------------------------------------------------------------------------
(* A bound refused.                                                        *)

\* What the tableau says does not change with the tableau unchanged.
LEMMA TableauKept ==
    ASSUME TypeInv, kind' = kind, row' = row, col' = col
    PROVE  /\ Basic' = Basic /\ Quasi' = Quasi /\ NonBasic' = NonBasic
           /\ TableauShape => TableauShape'
           /\ AsideInv => AsideInv'
           /\ RowsInv => RowsInv'
  <1>1. Basic' = Basic /\ Quasi' = Quasi /\ NonBasic' = NonBasic
    BY DEF Basic, Quasi, NonBasic, Vars
  <1>2. \A v : Terms(row[v])' = Terms(row[v])
    BY DEF Terms, Vars
  <1>3. TableauShape => TableauShape'
    BY <1>1, <1>2 DEF TableauShape, NoPoly, Vars, Zero
  <1>4. AsideInv => AsideInv'
    BY <1>1, <1>2 DEF AsideInv, Graded, Vars
  <1>5. RowsInv => RowsInv'
    <2>1. \A g : SatisfiesRows(g)' <=> SatisfiesRows(g)
      BY <1>1 DEF SatisfiesRows, Dot, Terms, Vars
    <2>2. \A g : SatisfiesDefs(g)' <=> SatisfiesDefs(g)
      BY DEF SatisfiesDefs, Dot, Terms, Vars
    <2> QED
      BY <2>1, <2>2 DEF RowsInv, Vars
  <1> QED
    BY <1>1, <1>3, <1>4, <1>5

\* The type invariant but for the points.
Typed ==
  /\ kind \in [Vars -> {"basic", "nonbasic", "quasi"}]
  /\ row \in [Vars -> Polys]
  /\ col \in [Vars -> SUBSET Vars]
  /\ val \in [Vars -> Values] /\ backup \in [Vars -> Values]
  /\ changed \in SUBSET Vars /\ candidates \in SUBSET Vars
  /\ pc \in {"idle", "check"}

\* The types, apart from those of the points and of the phase.
LEMMA TypeSplit ==
    /\ TypeInv <=> Typed /\ active \in [Vars -> Nat] /\ points \in Seq(Points) /\ checked \in 0..Len(points)
    /\ TypeInv' <=> Typed' /\ active' \in [Vars -> Nat] /\ points' \in Seq(Points) /\ checked' \in 0..Len(points')
  <1>1. TypeInv <=> Typed /\ active \in [Vars -> Nat] /\ points \in Seq(Points) /\ checked \in 0..Len(points)
    BY DEF TypeInv, Typed
  <1>2. TypeInv' <=> Typed' /\ active' \in [Vars -> Nat] /\ points' \in Seq(Points) /\ checked' \in 0..Len(points')
    BY DEF TypeInv, Typed, Vars
  <1> QED
    BY <1>1, <1>2

\* The bounds, between variables and values.
WithinBounds(P, f, nonbasic) == \A v \in nonbasic : ~ OutIn(P, f, v)
Candidates(P, f, basic) == {v \in basic : OutIn(P, f, v)}

\* Nonbasic variables within bounds, as a function of points and values.
LEMMA WithinSplit ==
    /\ NonBasicWithinBounds <=> /\ WithinBounds(points, val, NonBasic)
                                /\ expl = {} => candidates = Candidates(points, val, Basic)
    /\ NonBasicWithinBounds' <=> /\ WithinBounds(points', val', NonBasic')
                                 /\ expl' = {} => candidates' = Candidates(points', val', Basic')
  <1>1. \A v : OutOfBounds(val, v) <=> OutIn(points, val, v)
    BY BoundsIn
  <1>2. \A v : OutOfBounds(val, v)' <=> OutIn(points', val', v)
    BY BoundsIn DEF OutOfBounds, OutIn, DLess, isInf, RLess
  <1> QED
    BY <1>1, <1>2 DEF NonBasicWithinBounds, WithinBounds, Candidates

\* Values accepted by a check, by the points that were there.
SavedFor(P, n, f) == \A k \in 1..n : ~ Violates(f, P[k].lit)

\* What was saved, as a function of points and values.
LEMMA SavedSplit ==
    /\ SavedInv <=> (\A v \in Vars \ changed : val[v] = backup[v]) /\ SavedFor(points, checked, backup)
    /\ SavedInv' <=> (\A v \in Vars \ changed' : val'[v] = backup'[v]) /\ SavedFor(points', checked', backup')
  BY DEF SavedInv, SavedFor, Violates, DLess, isInf, RLess, Vars

-----------------------------------------------------------------------------
\* What every new point keeps: the checked points are the same.
LEMMA PointKept ==
    ASSUME NEW P \in Seq(Points), NEW Q, NEW n, NEW l, NEW pushed, NEW counted,
           Extends(Q, P, n, l, pushed, counted), NEW c \in 0..Len(P)
    PROVE  /\ c \in 0..Len(Q)
           /\ Accepted(P, c) => Accepted(Q, c)
           /\ \A f : SavedFor(P, c, f) => SavedFor(Q, c, f)
  <1>1. Len(P) \in Nat /\ DOMAIN P = 1..Len(P) /\ DOMAIN P = 1..n - 1 /\ Len(Q) = n /\ n \in Nat /\ n \in 1..n
    BY DEF Extends
  <1>2. \A k \in 1..c : k \in DOMAIN P /\ Q[k] = P[k]
    BY <1>1 DEF Extends
  <1>3. Len(P) = n - 1
    <2>1. \A i \in Int : i >= 0 /\ 1..i = 1..n - 1 => i = n - 1
      <3> SUFFICES ASSUME NEW i \in Int, i >= 0, 1..i = 1..n - 1 PROVE i = n - 1
        OBVIOUS
      <3>1. ~ (i < n - 1)
        <4> SUFFICES ASSUME i < n - 1 PROVE FALSE
          OBVIOUS
        <4>1. n - 1 \in 1..n - 1
          BY <1>1
        <4> QED
          BY <1>1, <4>1
      <3>2. ~ (i > n - 1)
        <4> SUFFICES ASSUME i > n - 1 PROVE FALSE
          OBVIOUS
        <4>1. i \in 1..i
          BY <1>1
        <4> QED
          BY <1>1, <4>1
      <3> QED
        BY <1>1, <3>1, <3>2
    <2> QED
      BY <1>1, <2>1
  <1> QED
    BY <1>1, <1>2, <1>3 DEF Accepted, SavedFor

\* Refusing a bound keeps the invariant.
LEMMA RefusedKeeps ==
    ASSUME SInv, NEW l \in Literals, AssertRefused(l), pc = "idle", expl = {},
           UNCHANGED <<checked, pc, repeats>>
    PROVE  SInv'
  <1>1. /\ points' = Append(points, Point(l, FALSE, FALSE))
        /\ kind' = kind /\ row' = row /\ col' = col /\ val' = val /\ backup' = backup /\ changed' = changed
        /\ active' = active /\ candidates' = candidates /\ checked' = checked /\ pc' = pc
        /\ expl' # {}
    BY DEF AssertRefused, tableau
  <1>2. TypeInv /\ BoundsInv /\ points \in Seq(Points) /\ Bounded(points) /\ checked \in 0..Len(points)
    BY BoundsKnown DEF SInv, TypeInv
  <1>3. PICK n, Q : n = Len(points) + 1 /\ Q = points'
    OBVIOUS
  <1>4. Extends(Q, points, n, l, FALSE, FALSE) /\ Bounded(Q)
    BY <1>1, <1>2, <1>3, Appended, RefusedBounded
  <1>5. TypeInv'
    <2>1. Q \in Seq(Points) /\ checked \in 0..Len(Q)
      BY <1>2, <1>4, PointKept DEF Extends
    <2>2. Typed'
      BY <1>1, <1>2 DEF TypeInv, Typed, Vars, Polys, Rationals, Values
    <2>3. active' \in [Vars -> Nat]
      BY <1>1, <1>2 DEF TypeInv
    <2> QED
      BY <1>1, <1>3, <2>1, <2>2, <2>3, TypeSplit
  <1>6. TableauConsistent' /\ AsideInv' /\ RowsInv'
    <2>1. TableauShape' /\ AsideInv' /\ RowsInv' /\ Quasi' = Quasi
      BY <1>1, <1>2, TableauKept, TableauSplit DEF SInv
    <2>2. ActiveInTableau'
      BY <1>1, <2>1, TableauSplit DEF SInv, ActiveInTableau, Vars
    <2> QED
      BY <2>1, <2>2, TableauSplit
  <1>7. BoundsInv'
    <2>1. Accepted(Q, checked) /\ Counts(Q, active)
      <3>1. Accepted(Q, checked)
        BY <1>2, <1>4, BoundsKnown, PointKept
      <3>2. ASSUME NEW v \in Vars
            PROVE  CountIn(Q, v) = CountIn(points, v)
        <4>1. PICK P, no : P = points /\ no = FALSE
          OBVIOUS
        <4>2. P \in Seq(Points) /\ Extends(Q, P, n, l, no, no)
          BY <1>2, <1>4, <4>1
        <4>3. ~ (no /\ l.v = v) => CountIn(Q, v) = CountIn(P, v)
          BY ONLY <4>2, CountAppended
        <4> QED
          BY <4>1, <4>3
      <3> QED
        BY <1>2, <3>1, <3>2, BoundsKnown DEF Counts
    <2> QED
      BY <1>1, <1>3, <1>4, <2>1, BoundsSplit
  <1>8. SavedInv'
    <2>1. SavedFor(Q, checked, backup) /\ \A v \in Vars \ changed : val[v] = backup[v]
      BY <1>2, <1>4, PointKept, SavedSplit DEF SInv
    <2> QED
      BY <1>1, <1>3, <2>1, SavedSplit
  <1>9. PcInv'
    BY <1>1 DEF PcInv, SInv
  <1>10. ValuesConsistent'
    BY <1>1, <1>2, TableauKept DEF SInv, ValuesConsistent, Eval, Dot, Terms, Vars
  <1>11. NonBasicWithinBounds'
    <2>1. val \in ValueMaps /\ NonBasic \subseteq Vars /\ NonBasic' = NonBasic
      BY <1>1, <1>2, KindFacts, TableauKept DEF TypeInv, ValueMaps
    <2>2. WithinBounds(points, val, NonBasic)
      BY WithinSplit DEF SInv
    <2>3. \A v \in NonBasic : OutIn(Q, val, v) <=> OutIn(points, val, v)
      BY <1>1, <1>2, <1>3, <1>4, <2>1, OutAppended
    <2>4. WithinBounds(Q, val, NonBasic)
      BY <2>2, <2>3 DEF WithinBounds
    <2> QED
      BY <1>1, <1>3, <2>1, <2>4, WithinSplit
  <1> QED
    BY <1>5, <1>6, <1>7, <1>8, <1>9, <1>10, <1>11 DEF SInv

-----------------------------------------------------------------------------
(* A bound taken.                                                          *)

\* A bound is taken: the points it leaves.
Takes(l) ==
  /\ l \in Literals /\ ~ boundUnsatisfied(l)
  /\ points' = Append(points, Point(l, ~ boundSatisfied(l), TRUE))
  /\ active' = [active EXCEPT ![l.v] = @ + 1]
  /\ expl = {} /\ expl' = {} /\ checked' = checked /\ pc' = pc /\ pc = "idle"

NewPoint(Q, n, pushed, l) ==
  /\ Q = points' /\ Q \in Seq(Points) /\ Bounded(Q) /\ pushed \in BOOLEAN
  /\ pushed <=> ~ boundSatisfied(l)
  /\ Extends(Q, points, n, l, pushed, TRUE)

\* What a literal is.
LEMMA LiteralFacts ==
    ASSUME NEW l \in Literals
    PROVE  l.v \in Vars /\ l.lower \in BOOLEAN /\ l.value \in Values /\ l.value \in Extended
  BY LiteralsAssumption DEF Extended

\* Whether a literal is refuted or implied, as a function of the points.
LEMMA UnsatFacts ==
    ASSUME NEW l
    PROVE  (boundUnsatisfied(l) <=> UnsatIn(points, l)) /\ (boundSatisfied(l) <=> SatIn(points, l))
  BY BoundsIn DEF boundUnsatisfied, boundSatisfied, UnsatIn, SatIn

\* A bound taken keeps the bounds right and counts once.
LEMMA TakenPoint ==
    ASSUME TypeInv, BoundsInv, NEW l, Takes(l)
    PROVE  \E n, Q, pushed : NewPoint(Q, n, pushed, l)
  <1>1. points \in Seq(Points) /\ Bounded(points) /\ l \in Literals
    BY BoundsKnown DEF Takes
  <1>2. PICK P, Q : P = points /\ Q = points'
    OBVIOUS
  <1>3. Bounded(P) /\ P \in Seq(Points) /\ ~ UnsatIn(P, l) /\ Q = Append(P, Point(l, ~ SatIn(P, l), TRUE))
    <2>1. ~ UnsatIn(P, l)
      BY <1>2, UnsatFacts DEF Takes
    <2>2. PICK s : s = boundSatisfied(l)
      OBVIOUS
    <2>3. s = SatIn(P, l)
      <3>1. boundSatisfied(l) = SatIn(P, l)
        BY <1>2, UnsatFacts DEF boundSatisfied, SatIn, DLeq
      <3> QED
        BY <2>2, <3>1
    <2>4. Q = Append(P, Point(l, ~ s, TRUE))
      BY <1>2, <2>2 DEF Takes
    <2> QED
      BY <1>1, <1>2, <2>1, <2>3, <2>4
  <1>4. Bounded(Q)
    BY ONLY <1>1, <1>3, TakenBounded
  <1>5. PICK n, pushed : n = Len(P) + 1 /\ pushed = ~ SatIn(P, l)
    OBVIOUS
  <1>6. pushed \in BOOLEAN /\ TRUE \in BOOLEAN /\ Q = Append(P, Point(l, pushed, TRUE))
    BY <1>3, <1>5
  <1>7. Extends(Q, P, n, l, pushed, TRUE)
    BY <1>1, <1>3, <1>5, <1>6, Appended
  <1>8. pushed <=> ~ boundSatisfied(l)
    BY <1>2, <1>5, UnsatFacts
  <1>9. Q \in Seq(Points)
    BY <1>7 DEF Extends
  <1> QED
    BY <1>2, <1>4, <1>6, <1>7, <1>8, <1>9 DEF NewPoint

\* What a new point leaves of the invariant.
LEMMA TakenKeeps ==
    ASSUME TypeInv, BoundsInv, NEW l, Takes(l), NEW Q, NEW n, NEW pushed, NewPoint(Q, n, pushed, l)
    PROVE  /\ BoundsInv' /\ PcInv'
           /\ points' \in Seq(Points) /\ checked' \in 0..Len(points') /\ active' \in [Vars -> Nat]
           /\ \A v \in Vars : active'[v] > 0 => active[v] > 0 \/ v = l.v
           /\ \A f : SavedFor(points, checked, f) => SavedFor(Q, checked', f)
  <1>1. /\ Bounded(points) /\ Accepted(points, checked) /\ AllCounted(points)
        /\ Counts(points, active) /\ points \in Seq(Points)
    BY BoundsKnown DEF Takes
  <1>2. /\ Q = points' /\ Q \in Seq(Points) /\ Bounded(Q) /\ Extends(Q, points, n, l, pushed, TRUE)
    BY DEF NewPoint
  <1>3. checked \in 0..Len(points) /\ active \in [Vars -> Nat]
    BY DEF TypeInv
  <1>4. /\ checked \in 0..Len(Q)
        /\ Accepted(points, checked) => Accepted(Q, checked)
        /\ \A f : SavedFor(points, checked, f) => SavedFor(Q, checked, f)
    BY <1>1, <1>2, <1>3, PointKept
  <1>5. l.v \in Vars /\ checked' = checked /\ expl' = {} /\ pc' = "idle"
    BY LiteralFacts DEF Takes
  <1>6. \A v \in Vars : active'[v] = IF v = l.v THEN active[v] + 1 ELSE active[v]
    BY <1>3, <1>5 DEF Takes
  <1>7. active' \in [Vars -> Nat]
    BY <1>3, <1>5 DEF Takes
  <1>8. AllCounted(Q)
    BY <1>1, <1>2 DEF Extends, AllCounted
  <1>9. Counts(Q, active')
    <2> SUFFICES ASSUME NEW v \in Vars PROVE active'[v] = Cardinality(CountIn(Q, v))
      BY DEF Counts
    <2>1. active[v] = Cardinality(CountIn(points, v))
      BY <1>1 DEF Counts
    <2>2. PICK P, yes : P = points /\ yes = TRUE
      OBVIOUS
    <2>3. P \in Seq(Points) /\ Extends(Q, P, n, l, pushed, yes)
      BY <1>1, <1>2, <2>2
    <2>4. /\ yes /\ l.v = v => Cardinality(CountIn(Q, v)) = Cardinality(CountIn(P, v)) + 1
          /\ ~ (yes /\ l.v = v) => CountIn(Q, v) = CountIn(P, v)
      BY ONLY <2>3, CountAppended
    <2>5. CASE l.v = v
      BY <1>6, <2>1, <2>2, <2>4, <2>5
    <2>6. CASE l.v # v
      BY <1>6, <2>1, <2>2, <2>4, <2>6
    <2> QED
      BY <2>5, <2>6
  <1>10. BoundsInv'
    BY <1>1, <1>2, <1>4, <1>5, <1>8, <1>9, BoundsSplit
  <1>11. PcInv'
    <2>1. Len(Q) = Len(points) + 1
      <3>1. DOMAIN points = 1..Len(points) /\ Len(points) \in Nat
        BY <1>1
      <3>2. Q = Append(points, Point(l, ~ boundSatisfied(l), TRUE))
        BY <1>2 DEF Takes
      <3>3. Point(l, ~ boundSatisfied(l), TRUE) \in Points
        BY LiteralFacts DEF Takes, Point, Points
      <3> QED
        BY <1>1, <3>2, <3>3, AppendProperties
    <2>2. Len(points) \in Nat
      BY <1>1
    <2>3. checked' # Len(points')
      BY <1>2, <1>3, <1>5, <2>1, <2>2
    <2> QED
      BY <1>5, <2>3 DEF PcInv
  <1> QED
    BY <1>2, <1>4, <1>5, <1>6, <1>7, <1>10, <1>11

-----------------------------------------------------------------------------
(* Values after a bound.                                                   *)

\* Whether a variable is out of bounds depends on its own value only.
LEMMA OutSame ==
    ASSUME NEW P, NEW f, NEW g, NEW v, f[v] = g[v]
    PROVE  OutIn(P, f, v) <=> OutIn(P, g, v)
  BY DEF OutIn

\* A nonbasic variable moves: the others of its kind stay within bounds, and
\* the candidates are brought up to date.
LEMMA MovedWithin ==
    ASSUME TypeInv, TableauConsistent, NEW y \in NonBasic, NEW diff \in Values,
           WithinBounds(points, val, NonBasic), candidates = Candidates(points, val, Basic),
           NEW f, f = Moved(y, diff)
    PROVE  /\ WithinBounds(points, f, NonBasic \ {y})
           /\ Recandidates(y, diff) = Candidates(points, f, Basic)
  <1>1. /\ \A u \in Vars : u # y /\ u \notin Affected(y) => f[u] = val[u]
        /\ \A u \in Affected(y) : u \in Basic /\ u # y
    BY MovedFacts
  <1>2. Basic \in SUBSET Vars /\ NonBasic \in SUBSET Vars /\ Basic \cap NonBasic = {}
    BY KindFacts
  <1>3. WithinBounds(points, f, NonBasic \ {y})
    <2> SUFFICES ASSUME NEW u \in NonBasic \ {y} PROVE ~ OutIn(points, f, u)
      BY DEF WithinBounds
    <2>1. f[u] = val[u] /\ ~ OutIn(points, val, u)
      BY <1>1, <1>2 DEF WithinBounds
    <2> QED
      BY <2>1, OutSame
  <1>4. \A w \in Basic : w \in Recandidates(y, diff) <=> OutIn(points, f, w)
    <2> SUFFICES ASSUME NEW w \in Basic
                 PROVE  w \in Recandidates(y, diff) <=> OutIn(points, f, w)
      OBVIOUS
    <2>1. CASE w \in Affected(y)
      <3>1. w \in Recandidates(y, diff) <=> OutOfBounds(Moved(y, diff), w)
        BY <2>1 DEF Recandidates
      <3> QED
        BY <3>1, BoundsIn
    <2>2. CASE w \notin Affected(y)
      <3>1. w \in Recandidates(y, diff) <=> OutIn(points, val, w)
        BY <2>2 DEF Recandidates, Candidates
      <3>2. f[w] = val[w]
        BY <1>1, <1>2, <2>2
      <3> QED
        BY <3>1, <3>2, OutSame
    <2> QED
      BY <2>1, <2>2
  <1>5. Recandidates(y, diff) \subseteq Basic
    BY <1>1 DEF Recandidates, Candidates
  <1> QED
    BY <1>3, <1>4, <1>5 DEF Candidates

\* The bounds once a point is added: those of its variable alone differ.
LEMMA TakenOut ==
    ASSUME NEW l, NEW Q, NEW n, NEW pushed, NewPoint(Q, n, pushed, l), Bounded(points),
           NEW f \in ValueMaps
    PROVE  /\ \A v \in Vars : v # l.v => (OutIn(Q, f, v) <=> OutIn(points, f, v))
           /\ boundSatisfied(l) \/ ~ Violates(f, l) => \A v \in Vars : OutIn(Q, f, v) <=> OutIn(points, f, v)
           /\ l.v \in Vars => (OutIn(Q, f, l.v) <=> OutIn(points, f, l.v) \/ (~ boundSatisfied(l) /\ Violates(f, l)))
  <1>1. Bounded(Q) /\ Extends(Q, points, n, l, pushed, TRUE) /\ (pushed <=> ~ boundSatisfied(l))
    BY DEF NewPoint
  <1>2. PICK P, yes : P = points /\ yes = TRUE
    OBVIOUS
  <1>3. Bounded(P) /\ Extends(Q, P, n, l, pushed, yes)
    BY <1>1, <1>2
  <1>4. \A v \in Vars : OutIn(Q, f, v) <=> OutIn(P, f, v) \/ (pushed /\ l.v = v /\ Violates(f, l))
    BY <1>1, <1>3, OutAppended
  <1> HIDE DEF OutIn, Violates
  <1> QED
    BY <1>1, <1>2, <1>4

-----------------------------------------------------------------------------
\* The value a nonbasic variable is moved to lies within its bounds.
LEMMA AssertedWithin ==
    ASSUME TypeInv, Bounded(points), NEW l \in Literals, ~ boundUnsatisfied(l),
           Violates(val, l), ~ OutIn(points, val, l.v), NEW f, f[l.v] = l.value
    PROVE  ~ OutIn(points, f, l.v) /\ ~ Violates(f, l)
  <1> DEFINE v == l.v
             lo == LbIn(points, v)
             up == UbIn(points, v)
             a == val[v]
             b == l.value
  <1>1. v \in Vars /\ l.lower \in BOOLEAN /\ b \in Extended
    BY LiteralFacts
  <1>2. a \in Extended
    BY <1>1 DEF TypeInv, Extended
  <1>3. lo \in Extended /\ up \in Extended
    BY <1>1, BoundTypes
  <1>4. ~ DLess(a, lo) /\ ~ DLess(up, a)
    BY DEF OutIn
  <1>5. /\ l.lower => DLess(a, b) /\ ~ DLess(up, b)
        /\ ~ l.lower => DLess(b, a) /\ ~ DLess(b, lo)
    BY UnsatFacts DEF Violates, UnsatIn
  <1> HIDE DEF v, lo, up, a, b
  <1>6. ~ DLess(b, lo) /\ ~ DLess(up, b) /\ ~ DLess(b, b)
    <2>1. ~ DLess(b, b)
      BY <1>1, ValueOrder
    <2>2. CASE l.lower
      <3>1. DLess(b, lo) => DLess(a, lo)
        BY <1>1, <1>2, <1>3, <1>5, <2>2, ValueOrder
      <3> QED
        BY <1>4, <1>5, <2>1, <2>2, <3>1
    <2>3. CASE ~ l.lower
      <3>1. DLess(up, b) => DLess(up, a)
        BY <1>1, <1>2, <1>3, <1>5, <2>3, ValueOrder
      <3> QED
        BY <1>4, <1>5, <2>1, <2>3, <3>1
    <2> QED
      BY <1>1, <2>2, <2>3
  <1>7. f[l.v] = b
    BY DEF b
  <1> QED
    BY <1>6, <1>7 DEF OutIn, Violates, v, lo, up, b

\* A row that no checked point names may change its saved value.
LEMMA SavedSame ==
    ASSUME NEW P, NEW c, NEW f, NEW g, SavedFor(P, c, f), \A k \in 1..c : g[P[k].lit.v] = f[P[k].lit.v]
    PROVE  SavedFor(P, c, g)
  BY DEF SavedFor, Violates

-----------------------------------------------------------------------------
(* A bound on a nonbasic variable.                                         *)

\* Taking a bound on a nonbasic variable keeps the invariant.
LEMMA NonBasicKeeps ==
    ASSUME SInv, NEW l, Takes(l), AssertNonBasic(l)
    PROVE  SInv'
  <1>1. /\ TypeInv /\ TableauConsistent /\ AsideInv /\ RowsInv /\ BoundsInv /\ SavedInv
        /\ ValuesConsistent /\ NonBasicWithinBounds
    BY DEF SInv
  <1>2. /\ l \in Literals /\ l.v \in Vars /\ l.v \in NonBasic
        /\ kind' = kind /\ row' = row /\ col' = col /\ backup' = backup
        /\ expl = {} /\ expl' = {} /\ ~ boundUnsatisfied(l)
        /\ pc' = pc /\ checked' = checked
    BY LiteralFacts DEF Takes, AssertNonBasic, tableau, NonBasic
  <1>3. PICK n, Q, pushed : NewPoint(Q, n, pushed, l)
    BY <1>1, TakenPoint
  <1>4. /\ BoundsInv' /\ PcInv'
        /\ points' \in Seq(Points) /\ checked' \in 0..Len(points') /\ active' \in [Vars -> Nat]
        /\ \A v \in Vars : active'[v] > 0 => active[v] > 0 \/ v = l.v
        /\ \A f : SavedFor(points, checked, f) => SavedFor(Q, checked', f)
    BY <1>1, <1>3, TakenKeeps
  <1>5. Q = points' /\ Bounded(points)
    BY <1>1, <1>3, BoundsKnown DEF NewPoint
  <1>6. /\ Basic' = Basic /\ Quasi' = Quasi /\ NonBasic' = NonBasic
        /\ TableauShape' /\ AsideInv' /\ RowsInv'
    BY <1>1, <1>2, TableauKept, TableauSplit
  <1>7. TableauConsistent'
    <2>1. l.v \notin Quasi
      BY <1>1, <1>2, KindFacts
    <2>2. ActiveInTableau'
      BY <1>1, <1>4, <1>6, <2>1, TableauSplit DEF ActiveInTableau, Vars
    <2> QED
      BY <1>6, <2>2, TableauSplit
  <1>8. val \in ValueMaps /\ backup \in ValueMaps /\ Basic \in SUBSET Vars /\ NonBasic \in SUBSET Vars
        /\ Basic \cap NonBasic = {}
    BY <1>1, KindFacts DEF TypeInv, ValueMaps
  <1>9. WithinBounds(points, val, NonBasic) /\ candidates = Candidates(points, val, Basic)
    BY <1>1, <1>2, WithinSplit
  <1>10. (\A v \in Vars \ changed : val[v] = backup[v]) /\ SavedFor(points, checked, backup)
    BY <1>1, SavedSplit
  <1>11. SavedFor(points', checked', backup')
    BY <1>2, <1>4, <1>5, <1>10
  \* What remains to be shown of either case.
  <1>12. ASSUME val' \in ValueMaps, candidates' \in SUBSET Vars, changed' \in SUBSET Vars,
                \A v \in Vars \ changed' : val'[v] = backup[v],
                \A w \in Basic : val'[w] = Eval(row[w], val'),
                WithinBounds(points', val', NonBasic), candidates' = Candidates(points', val', Basic)
         PROVE  SInv'
    <2>1. TypeInv'
      <3>1. Typed'
        BY <1>1, <1>2, <1>12 DEF TypeInv, Typed, ValueMaps, Vars, Polys, Rationals, Values
      <3> QED
        BY <1>4, <3>1, TypeSplit
    <2>2. SavedInv'
      BY <1>2, <1>11, <1>12, SavedSplit
    <2>3. ValuesConsistent'
      <3>1. \A v \in Basic : backup[v] = Eval(row[v], backup)
        BY <1>1 DEF ValuesConsistent
      <3>2. PICK f, b, r : f = val' /\ b = backup' /\ r = row'
        OBVIOUS
      <3>3. \A v \in Basic : f[v] = Eval(r[v], f) /\ b[v] = Eval(r[v], b)
        BY <1>2, <1>12, <3>1, <3>2
      <3>4. \A v : Eval(r[v], f) = Eval(row[v], val)' /\ Eval(r[v], b) = Eval(row[v], backup)'
        BY <3>2 DEF Eval, Dot, Terms, Vars
      <3> QED
        BY <1>6, <3>2, <3>3, <3>4 DEF ValuesConsistent
    <2>4. NonBasicWithinBounds'
      BY <1>2, <1>6, <1>12, WithinSplit
    <2> QED
      BY <1>4, <1>6, <1>7, <2>1, <2>2, <2>3, <2>4 DEF SInv
  <1>13. CASE ~ boundSatisfied(l) /\ Violates(val, l)
    <2> DEFINE y == l.v
    <2>1. PICK diff, f : diff = DSub(l.value, val[y]) /\ f = Moved(y, diff)
      OBVIOUS
    <2>2. val' = f /\ candidates' = Recandidates(y, diff) /\ changed' = changed \cup {y} \cup Affected(y)
      BY <1>13, <2>1 DEF AssertNonBasic
    <2>3. l.value \in Values /\ val[y] \in Values /\ y \in NonBasic /\ y \in Vars
      BY <1>2, <1>8, LiteralFacts DEF ValueMaps
    <2> HIDE DEF y
    <2>4. diff \in Values /\ DAdd(val[y], diff) = l.value
      <3>1. One \in Rationals
        BY ZeroOne
      <3> QED
        BY <2>1, <2>3, <3>1, DeltaClosed
    <2>5. /\ f \in ValueMaps /\ f[y] = DAdd(val[y], diff)
          /\ \A u \in Vars : u # y /\ u \notin Affected(y) => f[u] = val[u]
          /\ \A u \in Affected(y) : u \in Basic /\ u # y
          /\ \A w \in Basic : val[w] = Eval(row[w], val) => f[w] = Eval(row[w], f)
      BY <1>1, <2>1, <2>3, <2>4, MovedFacts
    <2>6. WithinBounds(points, f, NonBasic \ {y}) /\ Recandidates(y, diff) = Candidates(points, f, Basic)
      BY <1>1, <1>9, <2>1, <2>3, <2>4, MovedWithin
    <2>7. ~ OutIn(points, f, y) /\ ~ Violates(f, l)
      <3>1. ~ OutIn(points, val, l.v)
        BY <1>2, <1>9 DEF WithinBounds
      <3>2. f[l.v] = l.value
        BY <2>4, <2>5 DEF y
      <3>3. ~ OutIn(points, f, l.v) /\ ~ Violates(f, l)
        BY <1>1, <1>2, <1>5, <1>13, <3>1, <3>2, AssertedWithin
      <3> QED
        BY <3>3 DEF y
    <2>8. \A v \in Vars : OutIn(Q, f, v) <=> OutIn(points, f, v)
      BY <1>3, <1>5, <2>5, <2>7, TakenOut
    <2>9. WithinBounds(Q, f, NonBasic)
      BY <1>8, <2>6, <2>7, <2>8 DEF WithinBounds
    <2>10. Candidates(Q, f, Basic) = Candidates(points, f, Basic)
      BY <1>8, <2>8 DEF Candidates
    <2>11. candidates' = Candidates(Q, f, Basic) /\ candidates' \in SUBSET Vars
      BY <1>8, <2>2, <2>6, <2>10 DEF Candidates
    <2>12. changed' \in SUBSET Vars /\ \A v \in Vars \ changed' : f[v] = backup[v]
      BY <1>1, <1>8, <1>10, <2>2, <2>3, <2>5 DEF TypeInv
    <2>13. \A w \in Basic : f[w] = Eval(row[w], f)
      BY <1>1, <2>5 DEF ValuesConsistent
    <2> QED
      BY <1>5, <1>12, <2>2, <2>5, <2>9, <2>11, <2>12, <2>13
  <1>14. CASE ~ (~ boundSatisfied(l) /\ Violates(val, l))
    <2>1. val' = val /\ candidates' = candidates /\ changed' = changed
      BY <1>14 DEF AssertNonBasic
    <2>2. \A v \in Vars : OutIn(Q, val, v) <=> OutIn(points, val, v)
      BY <1>3, <1>5, <1>8, <1>14, TakenOut
    <2>3. WithinBounds(Q, val, NonBasic)
      BY <1>8, <1>9, <2>2 DEF WithinBounds
    <2>4. candidates = Candidates(Q, val, Basic) /\ candidates \in SUBSET Vars
      BY <1>8, <1>9, <2>2 DEF Candidates
    <2>5. \A w \in Basic : val[w] = Eval(row[w], val)
      BY <1>1 DEF ValuesConsistent
    <2>6. changed \in SUBSET Vars
      BY <1>1 DEF TypeInv
    <2> QED
      BY <1>5, <1>8, <1>10, <1>12, <2>1, <2>3, <2>4, <2>5, <2>6
  <1> QED
    BY <1>13, <1>14

-----------------------------------------------------------------------------
(* A bound on a basic variable, or on one set aside.                       *)

\* Values after a row came back: only its own are new, and no point names it.
LEMMA TakenBackValues ==
    ASSUME SInv, NEW v \in Quasi, quasiToBasic(v)
    PROVE  /\ Basic' = Basic \cup {v} /\ Quasi' = Quasi \ {v} /\ NonBasic' = NonBasic
           /\ TableauShape' /\ AsideInv' /\ RowsInv' /\ ValuesConsistent'
           /\ val' \in ValueMaps /\ backup' \in ValueMaps
           /\ row' \in [Vars -> Polys] /\ col' \in [Vars -> SUBSET Vars]
           /\ kind' \in [Vars -> {"basic", "nonbasic", "quasi"}]
           /\ \A u \in Vars : u # v => val'[u] = val[u] /\ backup'[u] = backup[u]
           /\ SavedFor(points, checked, backup')
           /\ \A u \in Vars \ (changed \cup {v}) : val'[u] = backup'[u]
  <1>1. /\ TypeInv /\ TableauConsistent /\ AsideInv /\ RowsInv /\ BoundsInv /\ SavedInv
        /\ ValuesConsistent
    BY DEF SInv
  <1>2. PICK U :
          /\ Basic' = Basic \cup {v} /\ Quasi' = Quasi \ {v} /\ NonBasic' = NonBasic
          /\ val' = [val EXCEPT ![v] = Eval(U[v], val)]
          /\ backup' = [backup EXCEPT ![v] = Eval(U[v], backup)]
          /\ row' \in [Vars -> Polys] /\ col' \in [Vars -> SUBSET Vars]
          /\ kind' \in [Vars -> {"basic", "nonbasic", "quasi"}]
          /\ val' \in [Vars -> Values] /\ backup' \in [Vars -> Values]
    BY <1>1, TakenBack
  <1>3. TableauShape' /\ AsideInv' /\ RowsInv' /\ ValuesConsistent'
    BY <1>1, TakenBackKeeps
  <1>4. val \in [Vars -> Values] /\ backup \in [Vars -> Values]
    BY <1>1 DEF TypeInv
  <1>5. \A u \in Vars : u # v => val'[u] = val[u] /\ backup'[u] = backup[u]
    BY <1>2, <1>4
  <1>6. SavedFor(points, checked, backup')
    <2>1. SavedFor(points, checked, backup) /\ Accepted(points, checked)
          /\ points \in Seq(Points) /\ checked \in 0..Len(points)
      BY <1>1, SavedSplit, BoundsKnown DEF TypeInv
    <2>2. CountIn(points, v) = {}
      BY <1>1, QuasiUnbounded
    <2>3. \A k \in 1..checked : k \in DOMAIN points /\ points[k].lit.v # v /\ points[k].lit.v \in Vars
      <3> SUFFICES ASSUME NEW k \in 1..checked
                   PROVE  k \in DOMAIN points /\ points[k].lit.v # v /\ points[k].lit.v \in Vars
        OBVIOUS
      <3>1. Len(points) \in Nat /\ DOMAIN points = 1..Len(points)
        BY <2>1
      <3>2. k \in DOMAIN points
        BY <2>1, <3>1
      <3>3. points[k].lit.v \in Vars
        BY <2>1, <3>2, PointFacts
      <3> QED
        BY <2>1, <2>2, <3>2, <3>3 DEF CountIn, Accepted
    <2>4. \A k \in 1..checked : backup'[points[k].lit.v] = backup[points[k].lit.v]
      BY <1>5, <2>3
    <2>5. PICK f : f = backup'
      OBVIOUS
    <2>6. SavedFor(points, checked, f)
      BY <2>1, <2>4, <2>5, SavedSame
    <2> QED
      BY <2>5, <2>6
  <1>7. \A u \in Vars \ (changed \cup {v}) : val'[u] = backup'[u]
    BY <1>1, <1>5, SavedSplit
  <1> QED
    BY <1>2, <1>3, <1>5, <1>6, <1>7 DEF ValueMaps

\* Taking a bound on a basic variable, its row taken back if needed, keeps the invariant.
LEMMA BasicKeeps ==
    ASSUME SInv, NEW l, Takes(l), AssertBasic(l)
    PROVE  SInv'
  <1>1. /\ TypeInv /\ TableauConsistent /\ AsideInv /\ RowsInv /\ BoundsInv /\ SavedInv
        /\ ValuesConsistent /\ NonBasicWithinBounds
    BY DEF SInv
  <1>2. /\ l \in Literals /\ l.v \in Vars /\ l.v \in Basic \cup Quasi
        /\ expl = {} /\ expl' = {} /\ pc' = pc /\ checked' = checked
        /\ candidates' =
             IF boundSatisfied(l) THEN candidates
             ELSE IF OutIn(points, val', l.v) \/ Violates(val', l)
             THEN candidates \cup {l.v} ELSE candidates \ {l.v}
    <2>1. l.v \in Vars /\ l.v \notin NonBasic
      BY LiteralFacts DEF Takes, AssertBasic, NonBasic
    <2>2. l.v \in Basic \cup Quasi
      BY <1>1, <2>1, KindFacts
    <2>3. OutOfBounds(val', l.v) <=> OutIn(points, val', l.v)
      BY BoundsIn
    <2> QED
      BY <2>1, <2>2, <2>3 DEF Takes, AssertBasic
  <1>3. PICK n, Q, pushed : NewPoint(Q, n, pushed, l)
    BY <1>1, TakenPoint
  <1>4. /\ BoundsInv' /\ PcInv'
        /\ points' \in Seq(Points) /\ checked' \in 0..Len(points') /\ active' \in [Vars -> Nat]
        /\ \A v \in Vars : active'[v] > 0 => active[v] > 0 \/ v = l.v
        /\ \A f : SavedFor(points, checked, f) => SavedFor(Q, checked', f)
    BY <1>1, <1>3, TakenKeeps
  <1>5. Q = points' /\ Bounded(points)
    BY <1>1, <1>3, BoundsKnown DEF NewPoint
  <1>6. val \in ValueMaps /\ backup \in ValueMaps /\ Basic \in SUBSET Vars /\ NonBasic \in SUBSET Vars
        /\ Basic \cap NonBasic = {} /\ Quasi \cap NonBasic = {} /\ Basic \cap Quasi = {}
    BY <1>1, KindFacts DEF TypeInv, ValueMaps
  <1>7. WithinBounds(points, val, NonBasic) /\ candidates = Candidates(points, val, Basic)
    BY <1>1, <1>2, WithinSplit
  <1>8. (\A v \in Vars \ changed : val[v] = backup[v]) /\ SavedFor(points, checked, backup)
    BY <1>1, SavedSplit
  \* The row of the variable is in the tableau.
  <1>9. /\ Basic' = Basic \cup {l.v} /\ Quasi' = Quasi \ {l.v} /\ NonBasic' = NonBasic
        /\ TableauShape' /\ AsideInv' /\ RowsInv' /\ ValuesConsistent'
        /\ val' \in ValueMaps /\ Typed'
        /\ \A u \in Vars : u # l.v => val'[u] = val[u]
        /\ l.v \in Basic => val'[l.v] = val[l.v]
        /\ SavedFor(points, checked, backup')
        /\ \A u \in Vars \ changed' : val'[u] = backup'[u]
    <2>1. candidates' \in SUBSET Vars
      BY <1>1, <1>2 DEF TypeInv
    <2>2. CASE kind[l.v] = "quasi"
      <3>1. l.v \in Quasi /\ quasiToBasic(l.v) /\ changed' = changed \cup {l.v}
        BY <1>2, <2>2 DEF AssertBasic, Quasi
      <3>2. changed' \in SUBSET Vars /\ pc' \in {"idle", "check"}
        BY <1>1, <1>2, <3>1 DEF TypeInv
      <3>3. l.v \notin Basic
        BY <1>6, <3>1
      <3>4. PICK v : v = l.v
        OBVIOUS
      <3>5. /\ Basic' = Basic \cup {v} /\ Quasi' = Quasi \ {v} /\ NonBasic' = NonBasic
            /\ TableauShape' /\ AsideInv' /\ RowsInv' /\ ValuesConsistent'
            /\ val' \in ValueMaps /\ backup' \in ValueMaps
            /\ row' \in [Vars -> Polys] /\ col' \in [Vars -> SUBSET Vars]
            /\ kind' \in [Vars -> {"basic", "nonbasic", "quasi"}]
            /\ \A u \in Vars : u # v => val'[u] = val[u] /\ backup'[u] = backup[u]
            /\ SavedFor(points, checked, backup')
            /\ \A u \in Vars \ (changed \cup {v}) : val'[u] = backup'[u]
        BY <3>1, <3>4, TakenBackValues
      <3>6. Typed'
        BY <2>1, <3>2, <3>5 DEF Typed, ValueMaps, Vars
      <3> QED
        BY <3>1, <3>3, <3>4, <3>5, <3>6
    <2>3. CASE kind[l.v] # "quasi"
      <3>1. /\ kind' = kind /\ row' = row /\ col' = col /\ val' = val /\ backup' = backup
            /\ changed' = changed
        BY <2>3 DEF AssertBasic, tableau
      <3>2. l.v \in Basic /\ l.v \notin Quasi
        BY <1>2, <2>3 DEF Quasi
      <3>3. /\ Basic' = Basic /\ Quasi' = Quasi /\ NonBasic' = NonBasic
            /\ TableauShape' /\ AsideInv' /\ RowsInv'
        BY <1>1, <3>1, TableauKept, TableauSplit
      <3>4. ValuesConsistent'
        BY <1>1, <3>1, <3>3 DEF ValuesConsistent, Eval, Dot, Terms, Vars
      <3>5. Typed'
        BY <1>1, <1>2, <2>1, <3>1 DEF TypeInv, Typed, Vars
      <3> QED
        BY <1>6, <1>8, <3>1, <3>2, <3>3, <3>4, <3>5
    <2> QED
      BY <2>2, <2>3
  <1>10. TypeInv'
    BY <1>4, <1>9, TypeSplit
  <1>11. TableauConsistent'
    <2>1. ActiveInTableau'
      BY <1>1, <1>4, <1>9, TableauSplit DEF ActiveInTableau, Vars
    <2> QED
      BY <1>9, <2>1, TableauSplit
  <1>12. SavedInv'
    BY <1>4, <1>5, <1>9, SavedSplit
  <1>13. NonBasicWithinBounds'
    <2>1. PICK f : f = val'
      OBVIOUS
    <2>2. f \in ValueMaps /\ (\A u \in Vars : u # l.v => f[u] = val[u]) /\ (l.v \in Basic => f[l.v] = val[l.v])
      BY <1>9, <2>1
    <2>3. /\ \A v \in Vars : v # l.v => (OutIn(Q, f, v) <=> OutIn(points, f, v))
          /\ OutIn(Q, f, l.v) <=> OutIn(points, f, l.v) \/ (~ boundSatisfied(l) /\ Violates(f, l))
      BY <1>2, <1>3, <1>5, <2>2, TakenOut
    <2>4. \A v \in Vars : v # l.v => (OutIn(points, f, v) <=> OutIn(points, val, v))
      BY <2>2, OutSame
    <2>5. \A v \in Vars : v # l.v => (OutIn(Q, f, v) <=> OutIn(points, val, v))
      BY <2>3, <2>4
    <2>6. l.v \notin NonBasic
      BY <1>2, <1>6
    <2>7. WithinBounds(Q, f, NonBasic)
      BY <1>6, <1>7, <2>5, <2>6 DEF WithinBounds
    <2>8. boundSatisfied(l) => (l.v \in candidates <=> OutIn(points, f, l.v))
      <3>1. CASE l.v \in Basic
        <4>1. OutIn(points, f, l.v) <=> OutIn(points, val, l.v)
          BY <2>2, <3>1, OutSame
        <4> QED
          BY <1>7, <3>1, <4>1 DEF Candidates
      <3>2. CASE l.v \in Quasi
        <4>1. PICK v : v = l.v
          OBVIOUS
        <4>2. ~ OutIn(points, f, v)
          BY <1>1, <2>2, <3>2, <4>1, QuasiUnbounded
        <4> QED
          BY <1>6, <1>7, <3>2, <4>1, <4>2 DEF Candidates
      <3> QED
        BY <1>2, <3>1, <3>2
    <2>9. l.v \in candidates' <=> OutIn(Q, f, l.v)
      <3>1. CASE boundSatisfied(l)
        BY <1>2, <2>3, <2>8, <3>1
      <3>2. CASE ~ boundSatisfied(l)
        <4>1. l.v \in candidates' <=> OutIn(points, f, l.v) \/ Violates(f, l)
          BY <1>2, <2>1, <3>2
        <4> QED
          BY <2>3, <3>2, <4>1
      <3> QED
        BY <3>1, <3>2
    <2>10. \A v : v # l.v => (v \in candidates' <=> v \in Basic /\ OutIn(points, val, v))
      BY <1>2, <1>7 DEF Candidates
    <2>11. candidates' = Candidates(Q, f, Basic \cup {l.v})
      <3>1. candidates' \subseteq Basic \cup {l.v}
        BY <2>10
      <3>2. \A v \in Basic \cup {l.v} : v \in candidates' <=> OutIn(Q, f, v)
        BY <1>6, <2>5, <2>9, <2>10
      <3> QED
        BY <3>1, <3>2 DEF Candidates
    <2> QED
      BY <1>5, <1>9, <2>1, <2>7, <2>11, WithinSplit
  <1> QED
    BY <1>4, <1>9, <1>10, <1>11, <1>12, <1>13 DEF SInv

\* assertBoundOnVar keeps the invariant.
LEMMA AssertKeeps ==
    ASSUME SInv, AssertBound
    PROVE  SInv'
  <1>1. PICK l \in Literals : AssertRefused(l) \/ AssertTaken(l)
    BY DEF AssertBound
  <1>2. pc = "idle" /\ expl = {} /\ UNCHANGED <<checked, pc, repeats>>
    BY DEF AssertBound
  <1>3. CASE AssertRefused(l)
    BY <1>2, <1>3, RefusedKeeps
  <1>4. CASE AssertTaken(l)
    <2>1. Takes(l)
      BY <1>2, <1>4 DEF AssertTaken, Takes
    <2>2. AssertNonBasic(l) \/ AssertBasic(l)
      BY <1>4 DEF AssertTaken
    <2> QED
      BY <2>1, <2>2, NonBasicKeeps, BasicKeeps
  <1> QED
    BY <1>1, <1>3, <1>4

-----------------------------------------------------------------------------
(* The choices of a turn.                                                  *)

\* The variable chosen is one of those there are to choose from.
LEMMA PickFacts ==
    ASSUME NEW S \in SUBSET Vars
    PROVE  /\ S = {} => PickLeast(S) = NoVar
           /\ S # {} => PickLeast(S) \in S
           /\ NoVar \notin Vars
  <1>1. \A v \in Vars : v \in Nat /\ v # 0
    BY VarsAssumption DEF Vars
  <1>2. ASSUME S # {} PROVE Least(S) \in S
    <2>1. \E v \in S : \A u \in S : v <= u
      BY <1>1, <1>2, MinExists
    <2> QED
      BY <2>1 DEF Least
  <1> QED
    BY <1>1, <1>2 DEF PickLeast, NoVar

\* The choice of least measure is one of the choices.
LEMMA LeastByFacts ==
    ASSUME NEW S \in SUBSET Vars, NEW f \in [Vars -> Nat]
    PROVE  /\ S = {} => LeastBy(f, S) = NoVar
           /\ S # {} => LeastBy(f, S) \in S
  <1> DEFINE T == {v \in S : \A u \in S : f[v] <= f[u]}
  <1>1. T \in SUBSET Vars /\ T \subseteq S
    OBVIOUS
  <1>2. ASSUME S # {} PROVE T # {}
    <2> DEFINE R == {f[v] : v \in S}
    <2>1. R \in SUBSET Nat /\ R # {}
      BY <1>2
    <2> HIDE DEF R
    <2>2. \E i \in R : \A j \in R : i <= j
      BY <2>1, MinExists
    <2> QED
      BY <2>2 DEF R
  <1>3. LeastBy(f, S) = PickLeast(T)
    BY DEF LeastBy
  <1> HIDE DEF T
  <1>4. T # {} => PickLeast(T) \in T
    BY <1>1, PickFacts
  <1>5. T = {} => PickLeast(T) = NoVar
    BY <1>1, PickFacts
  <1> QED
    BY <1>1, <1>2, <1>3, <1>4, <1>5

\* The number of terms of a row is a number.
LEMMA CardinalityNat ==
    ASSUME NEW S \in SUBSET Vars
    PROVE  Cardinality(S) \in Nat
  BY VarsFinite, FS_CardinalityType

\* The variables a turn of the check chooses.
Fixed(bland) == IF bland THEN getBasicVarToFixByBland ELSE getBasicVarToFixByShortestPoly
Entering(bland, x) == IF bland THEN findNonBasicForPivotByBland(x) ELSE findNonBasicForPivotByHeuristic(x)

\* The variable to fix is a candidate.
LEMMA FixedFacts ==
    ASSUME TypeInv, NEW bland \in BOOLEAN
    PROVE  /\ Fixed(bland) = NoVar => candidates = {}
           /\ Fixed(bland) # NoVar => Fixed(bland) \in candidates
  <1>1. candidates \in SUBSET Vars /\ \A v \in Vars : Terms(row[v]) \in SUBSET Vars
    BY DEF TypeInv, Terms
  <1> DEFINE f == [v \in Vars |-> Cardinality(Terms(row[v]))]
  <1>2. f \in [Vars -> Nat]
    BY <1>1, CardinalityNat
  <1>3. Fixed(bland) = PickLeast(candidates) \/ Fixed(bland) = LeastBy(f, candidates)
    BY DEF Fixed, getBasicVarToFixByBland, getBasicVarToFixByShortestPoly
  <1> HIDE DEF f
  <1>4. candidates # {} => LeastBy(f, candidates) \in candidates
    BY <1>1, <1>2, LeastByFacts
  <1>5. candidates = {} => LeastBy(f, candidates) = NoVar
    BY <1>1, <1>2, LeastByFacts
  <1>6. /\ candidates # {} => PickLeast(candidates) \in candidates
        /\ candidates = {} => PickLeast(candidates) = NoVar
        /\ NoVar \notin Vars
    BY <1>1, PickFacts
  <1> QED
    BY <1>1, <1>3, <1>4, <1>5, <1>6

\* The entering variable is a term that helps.
LEMMA EnteringFacts ==
    ASSUME TypeInv, NEW bland \in BOOLEAN, NEW x
    PROVE  /\ Entering(bland, x) = NoVar => Helpers(x) = {}
           /\ Entering(bland, x) # NoVar => Entering(bland, x) \in Helpers(x)
  <1>1. Helpers(x) \in SUBSET Vars /\ \A v \in Vars : col[v] \in SUBSET Vars
    BY DEF TypeInv, Helpers, Terms
  <1> DEFINE f == [u \in Vars |-> Cardinality(col[u])]
  <1>2. f \in [Vars -> Nat]
    BY <1>1, CardinalityNat
  <1>3. PICK S : S = Helpers(x)
    OBVIOUS
  <1>4. Entering(bland, x) = PickLeast(S) \/ Entering(bland, x) = LeastBy(f, S)
    BY <1>3 DEF Entering, findNonBasicForPivotByBland, findNonBasicForPivotByHeuristic
  <1> HIDE DEF f
  <1>5. S \in SUBSET Vars
    BY <1>1, <1>3
  <1>6. S # {} => LeastBy(f, S) \in S
    BY <1>2, <1>5, LeastByFacts
  <1>7. S = {} => LeastBy(f, S) = NoVar
    BY <1>2, <1>5, LeastByFacts
  <1>8. /\ S # {} => PickLeast(S) \in S
        /\ S = {} => PickLeast(S) = NoVar
        /\ NoVar \notin Vars
    BY <1>5, PickFacts
  <1> QED
    BY <1>3, <1>4, <1>5, <1>6, <1>7, <1>8

\* A step, by what it finds.
Answered(x) ==
  /\ x = NoVar
  /\ backup' = Saved /\ changed' = {} /\ checked' = Len(points) /\ pc' = "idle"
  /\ accepted' = {points[k].lit : k \in DOMAIN points}
  /\ UNCHANGED <<tableau, val, candidates, expl, active, points>>
Refuted(x) ==
  /\ x # NoVar /\ expl' = getConflictingBounds(x) /\ pc' = "idle"
  /\ UNCHANGED <<tableau, val, backup, changed, candidates, checked, accepted, active, points>>
PivotedOn(x, y) ==
  /\ Pivot(x, y)
  /\ UNCHANGED <<backup, checked, accepted, pc, expl, active, points>>

\* A turn answers, refutes or pivots.
LEMMA StepCases ==
    ASSUME TypeInv, Step
    PROVE  \/ candidates = {} /\ \E x : Answered(x)
           \/ \E x \in candidates : Helpers(x) = {} /\ Refuted(x)
           \/ \E x \in candidates : \E y \in Helpers(x) : PivotedOn(x, y)
  <1>1. PICK bland \in BOOLEAN : bland <=> repeats + 1 > NumOfCols
    OBVIOUS
  <1>2. PICK x, y : x = Fixed(bland) /\ y = Entering(bland, x)
    OBVIOUS
  <1>3. x = IF repeats + 1 > NumOfCols THEN getBasicVarToFixByBland ELSE getBasicVarToFixByShortestPoly
    BY <1>1, <1>2 DEF Fixed
  <1>4. y = IF repeats + 1 > NumOfCols THEN findNonBasicForPivotByBland(x)
                       ELSE findNonBasicForPivotByHeuristic(x)
    BY <1>1, <1>2 DEF Entering
  <1>5. \/ Answered(x)
        \/ y = NoVar /\ Refuted(x)
        \/ x # NoVar /\ y # NoVar /\ PivotedOn(x, y)
    BY <1>3, <1>4 DEF Step, Answered, Refuted, PivotedOn
  <1>6. (x = NoVar => candidates = {}) /\ (x # NoVar => x \in candidates)
    BY <1>2, FixedFacts
  <1>7. (y = NoVar => Helpers(x) = {}) /\ (y # NoVar => y \in Helpers(x))
    BY <1>2, EnteringFacts
  <1> QED
    BY <1>5, <1>6, <1>7 DEF Answered, Refuted

-----------------------------------------------------------------------------
(* The start and the ends of a check.                                      *)

\* Starting a check keeps the invariant.
LEMMA CheckKeeps ==
    ASSUME SInv, Check
    PROVE  SInv'
  <1>1. /\ kind' = kind /\ row' = row /\ col' = col /\ val' = val /\ backup' = backup
        /\ changed' = changed /\ active' = active /\ candidates' = candidates /\ points' = points
        /\ checked' = checked /\ expl' = expl /\ expl = {} /\ pc' = "check"
    BY DEF Check, tableau
  <1>2. /\ TypeInv /\ TableauConsistent /\ AsideInv /\ RowsInv /\ BoundsInv /\ SavedInv
        /\ ValuesConsistent /\ NonBasicWithinBounds
    BY DEF SInv
  <1>3. Basic' = Basic /\ Quasi' = Quasi /\ NonBasic' = NonBasic /\ TableauShape' /\ AsideInv' /\ RowsInv'
    BY <1>1, <1>2, TableauKept, TableauSplit
  <1>4. TableauConsistent'
    BY <1>1, <1>2, <1>3, TableauSplit DEF ActiveInTableau, Vars
  <1>5. TypeInv'
    <2>1. Typed'
      BY <1>1, <1>2 DEF TypeInv, Typed, Vars, Polys, Rationals, Values
    <2> QED
      BY <1>1, <1>2, <2>1, TypeSplit DEF TypeInv
  <1>6. BoundsInv'
    BY <1>1, <1>2, BoundsKnown, BoundsSplit
  <1>7. SavedInv'
    BY <1>1, <1>2, SavedSplit
  <1>8. PcInv'
    BY <1>1 DEF PcInv
  <1>9. ValuesConsistent'
    BY <1>1, <1>2, <1>3 DEF ValuesConsistent, Eval, Dot, Terms, Vars
  <1>10. NonBasicWithinBounds'
    BY <1>1, <1>2, <1>3, WithinSplit
  <1> QED
    BY <1>3, <1>4, <1>5, <1>6, <1>7, <1>8, <1>9, <1>10 DEF SInv

\* A value within bounds satisfies the literals of the points.
LEMMA WithinAccepts ==
    ASSUME NEW P, Bounded(P), NEW f \in ValueMaps, NEW k \in DOMAIN P, P[k].counted,
           ~ OutIn(P, f, P[k].lit.v)
    PROVE  ~ Violates(f, P[k].lit)
  <1> DEFINE l == P[k].lit
             lo == LbIn(P, l.v)
             up == UbIn(P, l.v)
             a == f[l.v]
  <1>1. P \in Seq(Points)
    BY DEF Bounded
  <1>2. l.v \in Vars /\ l.lower \in BOOLEAN /\ l.value \in Extended
    BY <1>1, PointFacts
  <1>3. a \in Extended
    BY <1>2 DEF ValueMaps, Extended
  <1>4. lo \in Extended /\ up \in Extended
    BY <1>2, BoundTypes
  <1>5. (l.lower => DLeq(l.value, lo)) /\ (~ l.lower => DLeq(up, l.value))
    BY BoundImplied
  <1>6. DLeq(lo, a) /\ DLeq(a, up)
    BY DEF OutIn, DLeq
  <1> HIDE DEF a, lo, up
  <1>7. l.lower => DLeq(l.value, a)
    BY <1>2, <1>3, <1>4, <1>5, <1>6, Between
  <1>8. ~ l.lower => DLeq(a, l.value)
    BY <1>2, <1>3, <1>4, <1>5, <1>6, Between
  <1> QED
    BY <1>7, <1>8 DEF Violates, DLeq, a

\* With no candidate, no value is out of bounds.
LEMMA NoCandidates ==
    ASSUME SInv, expl = {}, candidates = {}
    PROVE  SavedFor(points, Len(points), val)
  <1>1. /\ TypeInv /\ TableauConsistent /\ BoundsInv /\ NonBasicWithinBounds
    BY DEF SInv
  <1>2. Bounded(points) /\ AllCounted(points) /\ points \in Seq(Points) /\ val \in ValueMaps
    BY <1>1, BoundsKnown DEF TypeInv, ValueMaps
  <1>3. WithinBounds(points, val, NonBasic) /\ {} = Candidates(points, val, Basic)
    BY <1>1, WithinSplit
  <1> SUFFICES ASSUME NEW k \in 1..Len(points) PROVE ~ Violates(val, points[k].lit)
    BY DEF SavedFor
  <1>4. k \in DOMAIN points
    BY <1>2
  <1>5. points[k].counted /\ points[k].lit.v \in Vars
    BY <1>2, <1>4, PointFacts DEF AllCounted
  <1>6. ~ OutIn(points, val, points[k].lit.v)
    <2>1. PICK v : v = points[k].lit.v
      OBVIOUS
    <2>2. v \in NonBasic \/ v \in Basic \/ v \in Quasi
      BY <1>1, <1>5, <2>1, KindFacts
    <2>3. CASE v \in NonBasic
      BY <1>3, <2>1, <2>3 DEF WithinBounds
    <2>4. CASE v \in Basic
      BY <1>3, <2>1, <2>4 DEF Candidates
    <2>5. CASE v \in Quasi
      <3>1. ~ OutIn(points, val, v)
        BY <1>1, <1>2, <2>5, QuasiUnbounded
      <3> QED
        BY <2>1, <3>1
    <2> QED
      BY <2>2, <2>3, <2>4, <2>5
  <1> QED
    BY <1>2, <1>4, <1>5, <1>6, WithinAccepts

\* Accepting the bounds and saving the values keeps the invariant.
LEMMA AnsweredKeeps ==
    ASSUME SInv, pc = "check", candidates = {}, NEW x, Answered(x)
    PROVE  SInv'
  <1>1. /\ kind' = kind /\ row' = row /\ col' = col /\ val' = val
        /\ changed' = {} /\ active' = active /\ candidates' = candidates /\ points' = points
        /\ checked' = Len(points) /\ expl' = expl /\ pc' = "idle" /\ backup' = Saved
    BY DEF Answered, tableau
  <1>2. /\ TypeInv /\ TableauConsistent /\ AsideInv /\ RowsInv /\ BoundsInv /\ SavedInv
        /\ ValuesConsistent /\ NonBasicWithinBounds /\ expl = {}
    BY DEF SInv, PcInv
  <1>3. Basic' = Basic /\ Quasi' = Quasi /\ NonBasic' = NonBasic /\ TableauShape' /\ AsideInv' /\ RowsInv'
    BY <1>1, <1>2, TableauKept, TableauSplit
  <1>4. TableauConsistent'
    BY <1>1, <1>2, <1>3, TableauSplit DEF ActiveInTableau, Vars
  <1>5. backup' = val
    <2>1. val \in [Vars -> Values] /\ \A v \in Vars \ changed : val[v] = backup[v]
      BY <1>2, SavedSplit DEF TypeInv
    <2>2. \A v \in Vars : Saved[v] = val[v]
      BY <2>1 DEF Saved
    <2>3. Saved = [v \in Vars |-> Saved[v]]
      BY DEF Saved
    <2> QED
      BY <1>1, <2>1, <2>2, <2>3
  <1>6. TypeInv'
    <2>1. Typed'
      BY <1>1, <1>2, <1>5 DEF TypeInv, Typed, Vars, Polys, Rationals, Values
    <2>2. Len(points) \in 0..Len(points)
      BY <1>2 DEF TypeInv
    <2> QED
      BY <1>1, <1>2, <2>1, <2>2, TypeSplit DEF TypeInv
  <1>7. BoundsInv'
    <2>1. /\ Bounded(points) /\ AllCounted(points) /\ Counts(points, active) /\ points \in Seq(Points)
      BY <1>2, BoundsKnown
    <2>2. Accepted(points, Len(points))
      BY <2>1 DEF AllCounted, Accepted
    <2> QED
      BY <1>1, <1>2, <2>1, <2>2, BoundsSplit
  <1>8. SavedInv'
    <2>1. SavedFor(points, Len(points), val)
      BY <1>2, NoCandidates
    <2> QED
      BY <1>1, <1>5, <2>1, SavedSplit
  <1>9. PcInv'
    BY <1>1 DEF PcInv
  <1>10. ValuesConsistent'
    <2>1. \A v \in Basic : val[v] = Eval(row[v], val)
      BY <1>2 DEF ValuesConsistent
    <2> QED
      BY <1>1, <1>3, <1>5, <2>1 DEF ValuesConsistent, Eval, Dot, Terms, Vars
  <1>11. NonBasicWithinBounds'
    BY <1>1, <1>2, <1>3, WithinSplit
  <1> QED
    BY <1>3, <1>4, <1>6, <1>7, <1>8, <1>9, <1>10, <1>11 DEF SInv

\* Stopping with a conflict keeps the invariant.
LEMMA RefutedKeeps ==
    ASSUME SInv, pc = "check", NEW x, Refuted(x)
    PROVE  SInv'
  <1>1. /\ kind' = kind /\ row' = row /\ col' = col /\ val' = val /\ backup' = backup
        /\ changed' = changed /\ active' = active /\ candidates' = candidates /\ points' = points
        /\ checked' = checked /\ pc' = "idle" /\ expl' = getConflictingBounds(x)
    BY DEF Refuted, tableau
  <1>2. /\ TypeInv /\ TableauConsistent /\ AsideInv /\ RowsInv /\ BoundsInv /\ SavedInv
        /\ ValuesConsistent /\ NonBasicWithinBounds /\ expl = {}
    BY DEF SInv, PcInv
  <1>3. Basic' = Basic /\ Quasi' = Quasi /\ NonBasic' = NonBasic /\ TableauShape' /\ AsideInv' /\ RowsInv'
    BY <1>1, <1>2, TableauKept, TableauSplit
  <1>4. TableauConsistent'
    BY <1>1, <1>2, <1>3, TableauSplit DEF ActiveInTableau, Vars
  <1>5. TypeInv'
    <2>1. Typed'
      BY <1>1, <1>2 DEF TypeInv, Typed, Vars, Polys, Rationals, Values
    <2> QED
      BY <1>1, <1>2, <2>1, TypeSplit DEF TypeInv
  <1>6. BoundsInv'
    BY <1>1, <1>2, BoundsKnown, BoundsSplit
  <1>7. SavedInv'
    BY <1>1, <1>2, SavedSplit
  <1>8. PcInv'
    <2>1. getConflictingBounds(x) # {}
      BY DEF getConflictingBounds
    <2> QED
      BY <1>1, <2>1 DEF PcInv
  <1>9. ValuesConsistent'
    BY <1>1, <1>2, <1>3 DEF ValuesConsistent, Eval, Dot, Terms, Vars
  <1>10. NonBasicWithinBounds'
    BY <1>1, <1>2, <1>3, WithinSplit
  <1> QED
    BY <1>3, <1>4, <1>5, <1>6, <1>7, <1>8, <1>9, <1>10 DEF SInv

-----------------------------------------------------------------------------
(* A turn that pivots.                                                     *)

\* The bound the leaving variable is moved to is one of its bounds.
LEMMA PivotBoundWithin ==
    ASSUME TypeInv, Bounded(points), NEW x \in Vars, NEW f, f[x] = PivotBound(x)
    PROVE  ~ OutIn(points, f, x)
  <1> DEFINE lo == LbIn(points, x)
             up == UbIn(points, x)
  <1>1. lo \in Extended /\ up \in Extended /\ DLeq(lo, up)
    BY BoundTypes, BoundsMeet
  <1>2. f[x] = lo \/ f[x] = up
    BY BoundsIn DEF PivotBound
  <1> HIDE DEF lo, up
  <1>3. ~ DLess(lo, lo) /\ ~ DLess(up, up) /\ ~ DLess(up, lo)
    BY <1>1, ValueOrder DEF DLeq
  <1>4. ~ DLess(f[x], lo) /\ ~ DLess(up, f[x])
    BY <1>2, <1>3
  <1> QED
    BY <1>4 DEF OutIn, lo, up

\* A pivot with its update of values and candidates keeps the invariant.
LEMMA PivotedKeeps ==
    ASSUME SInv, pc = "check", NEW x \in candidates, NEW y \in Helpers(x), PivotedOn(x, y)
    PROVE  SInv'
  <1>1. /\ TypeInv /\ TableauConsistent /\ AsideInv /\ RowsInv /\ BoundsInv /\ SavedInv
        /\ ValuesConsistent /\ NonBasicWithinBounds /\ expl = {}
    BY DEF SInv, PcInv
  <1>2. /\ Pivot(x, y) /\ backup' = backup /\ checked' = checked /\ pc' = pc /\ expl' = expl
        /\ active' = active /\ points' = points
    BY DEF PivotedOn
  <1>3. /\ Bounded(points) /\ Accepted(points, checked) /\ AllCounted(points) /\ Counts(points, active)
        /\ points \in Seq(Points)
    BY <1>1, BoundsKnown
  <1>4. WithinBounds(points, val, NonBasic) /\ candidates = Candidates(points, val, Basic)
    BY <1>1, WithinSplit
  <1>5. x \in Basic /\ OutOfBounds(val, x)
    BY <1>4, BoundsIn DEF Candidates
  <1>6. y \in Terms(row[x])
    BY DEF Helpers
  <1>7. PICK diff, f : diff = PivotDiff(x, y) /\ f = Moved(y, diff)
    OBVIOUS
  <1>8. /\ Pivots(x, y) /\ y \in NonBasic /\ x \in Affected(y)
        /\ PivotBound(x) \in Values /\ diff \in Values
        /\ DAdd(val[x], DMul(row[x][y], diff)) = PivotBound(x)
    BY <1>1, <1>3, <1>5, <1>6, <1>7, PivotPremise
  <1>9. /\ PivotRows(x, y, row') /\ PivotKinds(x, y)
        /\ kind' \in [Vars -> {"basic", "nonbasic", "quasi"}]
        /\ col' = [u \in Vars |->
             IF u = y THEN {}
             ELSE (col[u] \ ({x} \cup Others(x, y)))
                    \cup {r \in IF SetAside(y) THEN Others(x, y) ELSE Others(x, y) \cup {y} :
                            u \in Terms(row'[r])}]
        /\ val' = f
        /\ candidates' = (Recandidates(y, diff) \ {x}) \cup TakenIn(y, val')
        /\ changed' = changed \cup {y} \cup Affected(y)
        /\ Others(x, y) \subseteq Basic
    BY <1>1, <1>2, <1>5, <1>7, <1>8, Pivoted
  <1>10. Basic \in SUBSET Vars /\ NonBasic \in SUBSET Vars /\ Quasi \in SUBSET Vars
         /\ Basic \cap NonBasic = {} /\ val \in ValueMaps /\ x \in Vars /\ y \in Vars /\ x # y
    BY <1>1, <1>5, <1>8, KindFacts DEF TypeInv, ValueMaps
  <1>11. /\ f \in ValueMaps
         /\ \A u \in Vars : u # y /\ u \notin Affected(y) => f[u] = val[u]
         /\ f[x] = PivotBound(x)
    BY <1>1, <1>7, <1>8, MovedFacts
  <1>12. TableauShape' /\ AsideInv'
    BY <1>1, <1>2, <1>3, <1>5, <1>6, PivotKeepsTableau
  <1>13. RowsInv'
    BY <1>1, <1>2, <1>3, <1>5, <1>6, PivotKeepsRows
  <1>14. ValuesConsistent'
    BY <1>1, <1>2, <1>3, <1>5, <1>6, PivotKeepsValues
  <1>15. TableauConsistent'
    <2>1. ActiveInTableau'
      <3> SUFFICES ASSUME NEW v \in Vars, active[v] > 0, v \in Quasi' PROVE FALSE
        BY <1>2 DEF ActiveInTableau, Vars
      <3>1. v \notin Quasi
        BY <1>1, TableauSplit DEF ActiveInTableau
      <3>2. SetAside(y) /\ v = y
        BY <3>1, <1>9 DEF PivotKinds
      <3> QED
        BY <3>2 DEF SetAside
    <2> QED
      BY <1>12, <2>1, TableauSplit
  <1>16. WithinBounds(points, f, NonBasic \ {y}) /\ Recandidates(y, diff) = Candidates(points, f, Basic)
    BY <1>1, <1>4, <1>7, <1>8, MovedWithin
  <1>17. ~ OutIn(points, f, x)
    BY <1>1, <1>3, <1>10, <1>11, PivotBoundWithin
  <1>18. candidates' = Candidates(points, f, Basic')
    <2>1. CASE SetAside(y)
      <3>1. TakenIn(y, val') = {}
        BY <2>1 DEF TakenIn, SetAside
      <3>2. Basic' = Basic \ {x}
        BY <1>9, <2>1 DEF PivotKinds
      <3> QED
        BY <1>9, <1>16, <3>1, <3>2 DEF Candidates
    <2>2. CASE ~ SetAside(y)
      <3>1. Basic' = (Basic \ {x}) \cup {y}
        BY <1>9, <2>2 DEF PivotKinds
      <3>2. active[y] > 0
        <4>1. active[y] \in Nat
          BY <1>1, <1>10 DEF TypeInv
        <4> QED
          BY <2>2, <4>1 DEF SetAside
      <3>3. TakenIn(y, f) = IF OutIn(points, f, y) THEN {y} ELSE {}
        <4>1. OutOfBounds(f, y) <=> OutIn(points, f, y)
          BY BoundsIn
        <4>2. CASE OutIn(points, f, y)
          BY <3>2, <4>1, <4>2 DEF TakenIn
        <4>3. CASE ~ OutIn(points, f, y)
          BY <3>2, <4>1, <4>3 DEF TakenIn
        <4> QED
          BY <4>2, <4>3
      <3>4. candidates' = (Candidates(points, f, Basic) \ {x}) \cup TakenIn(y, f)
        BY <1>9, <1>16
      <3> QED
        BY <1>8, <1>10, <3>1, <3>3, <3>4 DEF Candidates
    <2> QED
      BY <2>1, <2>2
  <1>19. NonBasicWithinBounds'
    <2>1. NonBasic' = (NonBasic \ {y}) \cup {x}
      BY <1>9 DEF PivotKinds
    <2>2. WithinBounds(points, f, NonBasic')
      BY <1>16, <1>17, <2>1 DEF WithinBounds
    <2> QED
      BY <1>2, <1>9, <1>18, <2>2, WithinSplit
  <1>20. TypeInv'
    <2>1. row' \in [Vars -> Polys]
      BY <1>9 DEF PivotRows
    <2>2. col' \in [Vars -> SUBSET Vars]
      <3>1. Others(x, y) \cup {y} \in SUBSET Vars /\ col \in [Vars -> SUBSET Vars]
        BY <1>1, <1>9, <1>10 DEF TypeInv
      <3>2. \A u \in Vars :
              (IF u = y THEN {}
               ELSE (col[u] \ ({x} \cup Others(x, y)))
                      \cup {r \in IF SetAside(y) THEN Others(x, y) ELSE Others(x, y) \cup {y} :
                              u \in Terms(row'[r])}) \in SUBSET Vars
        BY <3>1
      <3> QED
        BY <1>9, <3>2
    <2>3. changed' \in SUBSET Vars
      <3>1. Affected(y) \subseteq Vars
        BY <1>10 DEF Affected
      <3> QED
        BY <1>1, <1>9, <1>10, <3>1 DEF TypeInv
    <2>4. candidates' \in SUBSET Vars
      <3>1. Basic' \subseteq Vars
        BY <1>9, <1>10 DEF PivotKinds
      <3> QED
        BY <1>18, <3>1 DEF Candidates
    <2>5. Typed'
      BY <1>1, <1>2, <1>9, <1>11, <2>1, <2>2, <2>3, <2>4 DEF TypeInv, Typed, ValueMaps, Vars, Polys, Rationals, Values
    <2> QED
      BY <1>1, <1>2, <2>5, TypeSplit DEF TypeInv
  <1>21. BoundsInv'
    BY <1>1, <1>2, <1>3, BoundsSplit
  <1>22. SavedInv'
    <2>1. (\A v \in Vars \ changed : val[v] = backup[v]) /\ SavedFor(points, checked, backup)
      BY <1>1, SavedSplit
    <2>2. \A v \in Vars \ changed' : val'[v] = backup'[v]
      BY <1>2, <1>9, <1>11, <2>1
    <2> QED
      BY <1>2, <2>1, <2>2, SavedSplit
  <1>23. PcInv'
    BY <1>1, <1>2 DEF PcInv
  <1> QED
    BY <1>12, <1>13, <1>14, <1>15, <1>19, <1>20, <1>21, <1>22, <1>23 DEF SInv

\* checkSimplex keeps the invariant.
LEMMA StepKeeps ==
    ASSUME SInv, Step
    PROVE  SInv'
  <1>1. pc = "check" /\ TypeInv
    BY DEF Step, SInv
  <1>2. \/ candidates = {} /\ \E x : Answered(x)
        \/ \E x \in candidates : Helpers(x) = {} /\ Refuted(x)
        \/ \E x \in candidates : \E y \in Helpers(x) : PivotedOn(x, y)
    BY <1>1, StepCases
  <1> QED
    BY <1>1, <1>2, AnsweredKeeps, RefutedKeeps, PivotedKeeps

-----------------------------------------------------------------------------
(* Backtracking.                                                           *)

\* What a backtrack to the first n points does.
BacktracksTo(n, aside) ==
  /\ n \in 0..Len(points) /\ n < Len(points)
  /\ Accepted(points, n) /\ SavedFor(points, n, backup)
  /\ points' = SubSeq(points, 1, n) /\ checked' = n
  /\ active' \in [Vars -> Nat] /\ Counts(points', active')
  /\ aside \in SUBSET Basic /\ \A v \in aside : active'[v] = 0
  /\ kind' = [v \in Vars |-> IF v \in aside THEN "quasi" ELSE kind[v]]
  /\ col' = [v \in Vars |-> col[v] \ aside]
  /\ row' = row /\ val' = backup /\ backup' = backup
  /\ changed' = {} /\ candidates' = {} /\ expl' = {} /\ pc' = pc /\ pc = "idle"

\* In the tableau, values that satisfy the definitions and agree with the saved ones on the
\* nonbasic variables are the saved ones.
LEMMA CoversInTableau ==
    ASSUME SInv, NEW f \in ValueMaps, Covers(f)
    PROVE  \A v \in Vars \ Quasi : f[v] = backup[v]
  <1>1. /\ TypeInv /\ TableauConsistent /\ RowsInv /\ ValuesConsistent
        /\ backup \in ValueMaps
    BY DEF SInv, TypeInv, ValueMaps
  <1>2. /\ SatisfiesDefs(RParts(f)) /\ SatisfiesDefs(DParts(f))
        /\ \A v \in NonBasic : f[v] = backup[v]
    BY DEF Covers
  <1>3. SatisfiesRows(RParts(f)) /\ SatisfiesRows(DParts(f))
    <2>1. RParts(f) \in Numbers /\ DParts(f) \in Numbers
      BY PartsFacts
    <2> QED
      BY <1>1, <1>2, <2>1 DEF RowsInv, Numbers
  <1> SUFFICES ASSUME NEW v \in Basic PROVE f[v] = backup[v]
    BY <1>1, <1>2, KindFacts
  <1>4. v \in Vars \ NonBasic /\ row[v] \in Polys /\ Terms(row[v]) \subseteq NonBasic
    BY <1>1, KindFacts, RowTerms
  <1>5. Holds(row[v], v, RParts(f)) /\ Holds(row[v], v, DParts(f))
    BY <1>3, <1>4 DEF SatisfiesRows, Holds
  <1>6. f[v] = Eval(row[v], f)
    BY <1>4, <1>5, EvalParts
  <1>7. Eval(row[v], f) = Eval(row[v], backup)
    <2>1. \A u \in Terms(row[v]) : f[u] = backup[u]
      BY <1>2, <1>4
    <2> QED
      BY <1>1, <1>4, <2>1, EvalSame DEF ValueMaps
  <1> QED
    BY <1>1, <1>6, <1>7 DEF ValuesConsistent

\* Points whose literals the last check accepted are counted, and the saved values satisfy
\* them, whether they were undone and asserted again since or not.
LEMMA AcceptedAgain ==
    ASSUME SInv, AcceptedInv, NEW n \in 0..Len(points), n < Len(points),
           \A k \in 1..n : points[k].lit \in accepted
    PROVE  Accepted(points, n) /\ SavedFor(points, n, backup)
  <1>1. /\ TypeInv /\ TableauConsistent /\ BoundsInv
        /\ Bounded(points) /\ points \in Seq(Points) /\ Len(points) \in Nat
    BY BoundsKnown DEF SInv, TypeInv
  <1>2. PICK f \in ValueMaps : Covers(f)
    BY DEF AcceptedInv, ValueMaps
  <1>3. \A k \in 1..n : k \in 1..(Len(points) - 1) /\ k \in DOMAIN points
    BY <1>1
  <1>4. Accepted(points, n)
    BY <1>3 DEF Accepted, AcceptedInv
  <1>5. ASSUME NEW k \in 1..n PROVE ~ Violates(backup, points[k].lit)
    <2>1. PICK l : l = points[k].lit
      OBVIOUS
    <2>2. l.v \in Vars /\ k \in CountIn(points, l.v)
      <3>1. l.v \in Vars
        BY <1>1, <1>3, <2>1, PointFacts
      <3> QED
        BY <1>3, <1>4, <2>1, <3>1 DEF Accepted, CountIn
    <2>3. l.v \notin Quasi
      BY <1>1, <2>2, QuasiUnbounded
    <2>4. f[l.v] = backup[l.v]
      BY <1>2, <2>2, <2>3, CoversInTableau
    <2>5. ~ Violates(f, l)
      BY <1>2, <2>1 DEF Covers
    <2> QED
      BY <2>1, <2>4, <2>5 DEF Violates
  <1> QED
    BY <1>4, <1>5 DEF SavedFor

\* A backtrack, variable by variable.
LEMMA BacktrackMeans ==
    ASSUME SInv, AcceptedInv, Backtrack
    PROVE  \E n, aside : BacktracksTo(n, aside)
  <1>0. TypeInv /\ BoundsInv /\ SavedInv
    BY DEF SInv
  <1>1. PICK n \in 0..Len(points) :
       LET gone == {k \in n + 1..Len(points) : points[k].counted}
           act == [v \in Vars |-> active[v] - Cardinality({k \in gone : points[k].lit.v = v})]
           aside == {v \in {points[k].lit.v : k \in gone} : Deactivated(act, v)}
       IN /\ n < Len(points)
          /\ \A k \in 1..n : points[k].lit \in accepted
          /\ points' = SubSeq(points, 1, n)
          /\ active' = act
          /\ kind' = [v \in Vars |-> IF v \in aside THEN "quasi" ELSE kind[v]]
          /\ col' = [v \in Vars |-> col[v] \ aside]
          /\ checked' = n
    BY DEF Backtrack
  <1>2. PICK gone, act : /\ gone = {k \in n + 1..Len(points) : points[k].counted}
                         /\ act = [v \in Vars |-> active[v] - Cardinality({k \in gone : points[k].lit.v = v})]
    OBVIOUS
  <1>3. PICK aside : aside = {v \in {points[k].lit.v : k \in gone} : Deactivated(act, v)}
    OBVIOUS
  <1>4. /\ n < Len(points)
        /\ \A k \in 1..n : points[k].lit \in accepted
        /\ points' = SubSeq(points, 1, n)
        /\ active' = act
        /\ kind' = [v \in Vars |-> IF v \in aside THEN "quasi" ELSE kind[v]]
        /\ col' = [v \in Vars |-> col[v] \ aside]
        /\ checked' = n
    BY <1>1, <1>2, <1>3
  <1>5. /\ val' = Restored /\ changed' = {} /\ candidates' = {} /\ expl' = {}
        /\ row' = row /\ backup' = backup /\ pc' = pc /\ pc = "idle"
    BY DEF Backtrack
  <1>6. val' = backup
    <2>1. backup \in [Vars -> Values] /\ \A v \in Vars \ changed : val[v] = backup[v]
      BY <1>0, SavedSplit DEF TypeInv
    <2>2. \A v \in Vars : Restored[v] = backup[v]
      BY <2>1 DEF Restored
    <2>3. Restored = [v \in Vars |-> Restored[v]]
      BY DEF Restored
    <2> QED
      BY <1>5, <2>1, <2>2, <2>3
  <1>7. /\ Bounded(points) /\ Counts(points, active) /\ points \in Seq(Points)
        /\ checked \in 0..Len(points) /\ Len(points) \in Nat
    BY <1>0, BoundsKnown DEF TypeInv
  <1>8. n \in 0..Len(points)
    BY <1>7
  <1>9. PICK P, Q : P = points /\ Q = points'
    OBVIOUS
  <1>10. Bounded(P) /\ n \in 0..Len(P) /\ Q = SubSeq(P, 1, n)
         /\ gone = {k \in n + 1..Len(P) : P[k].counted}
    BY <1>2, <1>4, <1>7, <1>8, <1>9
  <1>11. \A v \in Vars : act[v] = Cardinality(CountIn(Q, v)) /\ act[v] \in Nat
    <2> SUFFICES ASSUME NEW v \in Vars PROVE act[v] = Cardinality(CountIn(Q, v)) /\ act[v] \in Nat
      OBVIOUS
    <2>1. /\ Cardinality(CountIn(Q, v)) \in Nat
          /\ Cardinality(CountIn(Q, v))
               = Cardinality(CountIn(P, v)) - Cardinality({k \in gone : P[k].lit.v = v})
      <3>1. Bounded(P) /\ Drops(Q, P, n, gone)
        BY <1>10 DEF Drops
      <3> QED
        BY ONLY <3>1, CountPrefix
    <2>2. act[v] = active[v] - Cardinality({k \in gone : P[k].lit.v = v})
      BY <1>2, <1>9
    <2>3. active[v] = Cardinality(CountIn(P, v))
      BY <1>7, <1>9 DEF Counts
    <2> QED
      BY <2>1, <2>2, <2>3
  <1>12. active' \in [Vars -> Nat] /\ Counts(points', active')
    BY <1>2, <1>4, <1>9, <1>11 DEF Counts
  <1>13. aside \in SUBSET Basic /\ \A v \in aside : active'[v] = 0
    <2> SUFFICES ASSUME NEW v \in aside PROVE v \in Basic /\ active'[v] = 0
      OBVIOUS
    <2>1. PICK k \in gone : v = points[k].lit.v
      BY <1>3
    <2>2. act[v] = 0 /\ kind[v] = "basic"
      BY <1>3 DEF Deactivated
    <2>3. k \in DOMAIN points
      BY <1>2, <1>7
    <2>4. v \in Vars
      BY <1>7, <2>1, <2>3, PointFacts
    <2> QED
      BY <1>4, <2>2, <2>4 DEF Basic
  <1>14. Accepted(points, n) /\ SavedFor(points, n, backup)
    BY <1>4, AcceptedAgain
  <1> QED
    BY <1>4, <1>5, <1>6, <1>12, <1>13, <1>14 DEF BacktracksTo

\* Rows set aside leave the others graded.
LEMMA AsideKeeps ==
    ASSUME TypeInv, TableauConsistent, AsideInv, NEW aside \in SUBSET Basic,
           Quasi' = Quasi \cup aside, row' = row
    PROVE  AsideInv'
  <1>1. PICK m \in Nat : \E grade \in [Vars -> 0..m] : Graded(m, grade)
    BY DEF AsideInv
  <1>2. PICK grade \in [Vars -> 0..m] : Graded(m, grade)
    BY <1>1
  <1>3. Basic \in SUBSET Vars /\ Quasi \in SUBSET Vars /\ Basic \cap Quasi = {}
        /\ NonBasic \cap Quasi = {} /\ Basic \cap NonBasic = {}
    BY KindFacts
  <1>4. \A v \in Quasi : \A u \in Terms(row[v]) \cap Quasi : grade[u] < grade[v]
    BY <1>2 DEF Graded
  <1>5. \A v \in aside : Terms(row[v]) \subseteq NonBasic
    BY TableauSplit DEF TableauShape
  <1> DEFINE above == [v \in Vars |-> IF v \in aside THEN 0 ELSE grade[v] + 1]
             q == Quasi \cup aside
  <1>6. above \in [Vars -> 0..m + 1] /\ m + 1 \in Nat
    OBVIOUS
  <1>7. \A v \in q : \A u \in Terms(row[v]) \cap q : above[u] < above[v]
    <2> SUFFICES ASSUME NEW v \in q, NEW u \in Terms(row[v]) \cap q PROVE above[u] < above[v]
      OBVIOUS
    <2>1. v \in Quasi /\ v \notin aside
      <3>1. v \notin aside
        BY <1>3, <1>5
      <3> QED
        BY <3>1
    <2>2. above[v] = grade[v] + 1 /\ grade[v] \in Nat
      BY <1>3, <2>1
    <2>3. CASE u \in aside
      <3>1. above[u] = 0
        BY <1>3, <2>3
      <3> QED
        BY <2>2, <3>1
    <2>4. CASE u \notin aside
      <3>1. above[u] = grade[u] + 1 /\ grade[u] \in Nat /\ u \in Quasi
        BY <1>3, <2>4
      <3>2. grade[u] < grade[v]
        BY <1>4, <2>1, <3>1
      <3> QED
        BY <2>2, <3>1, <3>2
    <2> QED
      BY <2>3, <2>4
  <1> HIDE DEF above
  <1>8. \A v : Terms(row[v])' = Terms(row[v])
    BY DEF Terms, Vars
  <1>9. \A v \in Quasi' : \A u \in Terms(row[v])' \cap Quasi' : above[u] < above[v]
    BY <1>7, <1>8
  <1>10. Vars' = Vars
    BY DEF Vars
  <1> QED
    BY <1>6, <1>9, <1>10 DEF AsideInv, Graded

\* Giving up points, setting rows aside and restoring values keeps the invariant.
LEMMA BacktrackedKeeps ==
    ASSUME SInv, NEW n, NEW aside, BacktracksTo(n, aside)
    PROVE  SInv'
  <1>1. /\ TypeInv /\ TableauConsistent /\ AsideInv /\ RowsInv /\ BoundsInv /\ SavedInv
        /\ ValuesConsistent
    BY DEF SInv
  <1>2. /\ n \in 0..Len(points) /\ points' = SubSeq(points, 1, n) /\ checked' = n
        /\ Accepted(points, n) /\ SavedFor(points, n, backup)
        /\ active' \in [Vars -> Nat] /\ Counts(points', active')
        /\ aside \in SUBSET Basic /\ \A v \in aside : active'[v] = 0
        /\ kind' = [v \in Vars |-> IF v \in aside THEN "quasi" ELSE kind[v]]
        /\ col' = [v \in Vars |-> col[v] \ aside]
        /\ row' = row /\ val' = backup /\ backup' = backup
        /\ changed' = {} /\ candidates' = {} /\ expl' = {} /\ pc' = pc /\ pc = "idle"
    BY DEF BacktracksTo
  <1>3. /\ Bounded(points) /\ Accepted(points, checked) /\ Counts(points, active)
        /\ points \in Seq(Points) /\ checked \in 0..Len(points) /\ Len(points) \in Nat
    BY <1>1, BoundsKnown DEF TypeInv
  <1>4. Basic \in SUBSET Vars /\ NonBasic \in SUBSET Vars /\ Quasi \in SUBSET Vars
        /\ Basic \cap NonBasic = {} /\ Basic \cap Quasi = {} /\ NonBasic \cap Quasi = {}
    BY <1>1, KindFacts
  <1>5. Basic' = Basic \ aside /\ Quasi' = Quasi \cup aside /\ NonBasic' = NonBasic
    BY <1>2, <1>4 DEF Basic, Quasi, NonBasic, Vars
  <1>6. PICK P, Q : P = points /\ Q = points'
    OBVIOUS
  <1>7. Bounded(P) /\ n \in 0..Len(P) /\ Q = SubSeq(P, 1, n)
    BY <1>2, <1>3, <1>6
  <1>8. /\ Bounded(Q) /\ Len(Q) = n /\ DOMAIN Q = 1..n /\ n \in Nat
        /\ \A k \in 1..n : k \in DOMAIN P /\ Q[k] = P[k]
    BY ONLY <1>7, PrefixBounded
  <1>9. SavedFor(P, n, backup) /\ Accepted(P, n)
    BY <1>2, <1>6
  <1>10. Q \in Seq(Points)
    BY <1>8 DEF Bounded
  <1>11. Accepted(Q, n) /\ AllCounted(Q)
    BY <1>8, <1>9 DEF Accepted, AllCounted
  <1>12. SavedFor(Q, n, backup)
    BY <1>8, <1>9 DEF SavedFor
  <1>13. backup \in ValueMaps
    BY <1>1 DEF TypeInv, ValueMaps
  <1>14. \A v \in Vars : ~ OutIn(Q, backup, v)
    <2> SUFFICES ASSUME NEW v \in Vars PROVE ~ OutIn(Q, backup, v)
      OBVIOUS
    <2>1. OutIn(Q, backup, v) <=> \E k \in DOMAIN Q : Q[k].pushed /\ Q[k].lit.v = v /\ Violates(backup, Q[k].lit)
      BY <1>8, <1>13, OutMeans
    <2> QED
      BY <1>8, <1>12, <2>1 DEF SavedFor
  <1>15. TypeInv'
    <2>1. \A v \in Vars : (IF v \in aside THEN "quasi" ELSE kind[v]) \in {"basic", "nonbasic", "quasi"}
      BY <1>1 DEF TypeInv
    <2>2. kind' \in [Vars -> {"basic", "nonbasic", "quasi"}]
      BY <1>2, <2>1
    <2>3. col' \in [Vars -> SUBSET Vars]
      BY <1>1, <1>2 DEF TypeInv
    <2>4. row' \in [Vars -> Polys] /\ val' \in [Vars -> Values] /\ backup' \in [Vars -> Values]
      BY <1>1, <1>2 DEF TypeInv
    <2>5. Typed'
      BY <1>2, <2>2, <2>3, <2>4 DEF Typed, Vars
    <2>6. points' \in Seq(Points) /\ checked' \in 0..Len(points')
      BY <1>2, <1>6, <1>8, <1>10
    <2> QED
      BY <1>2, <2>5, <2>6, TypeSplit
  <1>16. TableauConsistent'
    <2>1. /\ \A v \in Basic : Terms(row[v]) \subseteq NonBasic
          /\ \A u \in NonBasic : row[u] = NoPoly /\ col[u] = {r \in Basic : u \in Terms(row[r])}
          /\ \A v \in Vars \ NonBasic : col[v] = {}
      BY <1>1, TableauSplit DEF TableauShape
    <2>2. \A v : Terms(row[v])' = Terms(row[v])
      BY <1>2 DEF Terms, Vars
    <2>3. \A v \in Vars : col'[v] = col[v] \ aside
      BY <1>2
    <2>4. \A u \in NonBasic : col'[u] = {r \in Basic \ aside : u \in Terms(row[r])}
      BY <1>4, <2>1, <2>3
    <2>5. Vars' = Vars /\ NoPoly' = NoPoly
      BY DEF Vars, NoPoly, Zero
    <2>6. \A v \in Vars \ NonBasic : col'[v] = {}
      BY <2>1, <2>3
    <2>7. \A u \in NonBasic : row'[u] = NoPoly
      BY <1>2, <2>1
    <2>8. TableauShape'
      <3>1. \A v \in Basic' : Terms(row[v])' \subseteq NonBasic'
        BY <1>5, <2>1, <2>2
      <3>2. \A u \in NonBasic' : col'[u] = {r \in Basic' : u \in Terms(row[r])'}
        BY <1>5, <2>2, <2>4
      <3>3. \A v \in (Vars \ NonBasic)' : col'[v] = {}
        BY <1>5, <2>5, <2>6
      <3> QED
        BY <1>5, <2>5, <2>7, <3>1, <3>2, <3>3 DEF TableauShape
    <2>9. ActiveInTableau'
      <3> SUFFICES ASSUME NEW v \in Vars, active'[v] > 0, v \in Quasi' PROVE FALSE
        BY DEF ActiveInTableau, Vars
      <3>1. v \notin aside
        BY <1>2
      <3>2. v \in Quasi
        BY <1>5, <3>1
      <3>3. CountIn(points, v) = {}
        BY <1>1, <3>2, QuasiUnbounded
      <3>4. CountIn(Q, v) = {}
        BY <1>6, <1>8, <3>3 DEF CountIn
      <3>5. active'[v] = Cardinality(CountIn(Q, v))
        BY <1>2, <1>6 DEF Counts
      <3>6. active'[v] = 0
        BY <3>4, <3>5, FS_EmptySet
      <3> QED
        BY <3>6
    <2> QED
      BY <2>8, <2>9, TableauSplit
  <1>17. AsideInv'
    BY <1>1, <1>2, <1>5, AsideKeeps
  <1>18. RowsInv'
    <2>1. \A g : SatisfiesRows(g)' <=> SatisfiesRows(g)
      BY <1>2, <1>5 DEF SatisfiesRows, Dot, Terms, Vars
    <2>2. \A g : SatisfiesDefs(g)' <=> SatisfiesDefs(g)
      BY DEF SatisfiesDefs, Dot, Terms, Vars
    <2> QED
      BY <1>1, <2>1, <2>2 DEF RowsInv, Vars
  <1>19. BoundsInv'
    BY <1>2, <1>6, <1>8, <1>10, <1>11, BoundsSplit
  <1>20. SavedInv'
    BY <1>2, <1>6, <1>12, SavedSplit
  <1>21. PcInv'
    BY <1>2 DEF PcInv
  <1>22. ValuesConsistent'
    <2>1. \A v \in Basic : backup[v] = Eval(row[v], backup)
      BY <1>1 DEF ValuesConsistent
    <2>2. PICK b, r : b = backup /\ r = row
      OBVIOUS
    <2>3. \A v : Eval(r[v], b) = Eval(row[v], val)' /\ Eval(r[v], b) = Eval(row[v], backup)'
      BY <1>2, <2>2 DEF Eval, Dot, Terms, Vars
    <2>4. \A v \in Basic' : b[v] = Eval(r[v], b)
      BY <1>5, <2>1, <2>2
    <2> QED
      BY <1>2, <2>2, <2>3, <2>4 DEF ValuesConsistent
  <1>23. NonBasicWithinBounds'
    <2>1. WithinBounds(Q, backup, NonBasic) /\ {} = Candidates(Q, backup, Basic \ aside)
      BY <1>4, <1>14 DEF WithinBounds, Candidates
    <2> QED
      BY <1>2, <1>5, <1>6, <2>1, WithinSplit
  <1> QED
    BY <1>15, <1>16, <1>17, <1>18, <1>19, <1>20, <1>21, <1>22, <1>23 DEF SInv

\* popBacktrackPoints keeps the invariant.
LEMMA BacktrackKeeps ==
    ASSUME SInv, AcceptedInv, Backtrack
    PROVE  SInv'
  <1>1. PICK n, aside : BacktracksTo(n, aside)
    BY BacktrackMeans
  <1> QED
    BY <1>1, BacktrackedKeeps

-----------------------------------------------------------------------------
(* The invariant.                                                          *)

\* Taking a row back to answer for a value keeps the invariant.
LEMMA AskKeeps ==
    ASSUME SInv, Ask
    PROVE  SInv'
  <1>1. /\ TypeInv /\ TableauConsistent /\ BoundsInv /\ PcInv /\ NonBasicWithinBounds
    BY DEF SInv
  <1>2. PICK v \in Quasi : quasiToBasic(v) /\ changed' = changed \cup {v}
    BY DEF Ask
  <1>3. /\ pc = "idle" /\ expl = {} /\ checked = Len(points)
        /\ active' = active /\ candidates' = candidates /\ points' = points /\ checked' = checked
        /\ pc' = pc /\ expl' = expl
    BY DEF Ask
  <1>4. /\ Basic' = Basic \cup {v} /\ Quasi' = Quasi \ {v} /\ NonBasic' = NonBasic
        /\ TableauShape' /\ AsideInv' /\ RowsInv' /\ ValuesConsistent'
        /\ val' \in ValueMaps /\ backup' \in ValueMaps
        /\ row' \in [Vars -> Polys] /\ col' \in [Vars -> SUBSET Vars]
        /\ kind' \in [Vars -> {"basic", "nonbasic", "quasi"}]
        /\ \A u \in Vars : u # v => val'[u] = val[u] /\ backup'[u] = backup[u]
        /\ SavedFor(points, checked, backup')
        /\ \A u \in Vars \ (changed \cup {v}) : val'[u] = backup'[u]
    BY <1>2, TakenBackValues
  <1>5. candidates = {}
    BY <1>1, <1>3 DEF PcInv
  <1>6. /\ Bounded(points) /\ Accepted(points, checked) /\ AllCounted(points) /\ Counts(points, active)
        /\ points \in Seq(Points)
    BY <1>1, <1>3, BoundsKnown
  <1>7. Basic \in SUBSET Vars /\ NonBasic \in SUBSET Vars /\ v \in Vars /\ v \notin NonBasic
    BY <1>1, KindFacts
  <1>8. TypeInv'
    <2>1. candidates' \in SUBSET Vars /\ changed' \in SUBSET Vars
      BY <1>1, <1>2, <1>3, <1>7 DEF TypeInv
    <2>2. Typed'
      BY <1>3, <1>4, <2>1 DEF Typed, ValueMaps, Vars
    <2> QED
      BY <1>1, <1>3, <2>2, TypeSplit DEF TypeInv
  <1>9. TableauConsistent'
    <2>1. ActiveInTableau'
      BY <1>1, <1>3, <1>4, TableauSplit DEF ActiveInTableau, Vars
    <2> QED
      BY <1>4, <2>1, TableauSplit
  <1>10. BoundsInv'
    BY <1>3, <1>6, BoundsSplit
  <1>11. SavedInv'
    BY <1>2, <1>3, <1>4, SavedSplit
  <1>12. PcInv'
    BY <1>3, <1>5 DEF PcInv
  <1>13. NonBasicWithinBounds'
    <2>1. PICK f : f = val'
      OBVIOUS
    <2>2. f \in ValueMaps /\ \A u \in Vars : u # v => f[u] = val[u]
      BY <1>4, <2>1
    <2>3. \A u \in Vars : u # v => (OutIn(points, f, u) <=> OutIn(points, val, u))
      BY <2>2, OutSame
    <2>4. ~ OutIn(points, f, v)
      BY <1>1, <2>2, QuasiUnbounded
    <2>5. WithinBounds(points, val, NonBasic) /\ {} = Candidates(points, val, Basic)
      BY <1>1, <1>3, <1>5, WithinSplit
    <2>6. WithinBounds(points, f, NonBasic)
      BY <1>7, <2>3, <2>5 DEF WithinBounds
    <2>7. {} = Candidates(points, f, Basic \cup {v})
      BY <1>7, <2>3, <2>4, <2>5 DEF Candidates
    <2> QED
      BY <1>3, <1>4, <1>5, <2>1, <2>6, <2>7, WithinSplit
  <1> QED
    BY <1>4, <1>8, <1>9, <1>10, <1>11, <1>12, <1>13 DEF SInv

\* Every step keeps the invariant.
LEMMA NextKeeps ==
    ASSUME SInv, AcceptedInv, Next
    PROVE  SInv'
  BY AssertKeeps, CheckKeeps, StepKeeps, BacktrackKeeps, AskKeeps DEF Next

\* A step that changes nothing keeps the invariant.
LEMMA StutterKeeps ==
    ASSUME SInv, UNCHANGED vars
    PROVE  SInv'
  <1>1. /\ kind' = kind /\ row' = row /\ col' = col /\ val' = val /\ backup' = backup
        /\ changed' = changed /\ active' = active /\ candidates' = candidates /\ points' = points
        /\ checked' = checked /\ expl' = expl /\ pc' = pc
    BY DEF vars
  <1>2. /\ TypeInv /\ TableauConsistent /\ AsideInv /\ RowsInv /\ BoundsInv /\ SavedInv
        /\ ValuesConsistent /\ NonBasicWithinBounds /\ PcInv
    BY DEF SInv
  <1>3. Basic' = Basic /\ Quasi' = Quasi /\ NonBasic' = NonBasic /\ TableauShape' /\ AsideInv' /\ RowsInv'
    BY <1>1, <1>2, TableauKept, TableauSplit
  <1>4. TableauConsistent'
    BY <1>1, <1>2, <1>3, TableauSplit DEF ActiveInTableau, Vars
  <1>5. TypeInv'
    <2>1. Typed'
      BY <1>1, <1>2 DEF TypeInv, Typed, Vars, Polys, Rationals, Values
    <2> QED
      BY <1>1, <1>2, <2>1, TypeSplit DEF TypeInv
  <1>6. BoundsInv'
    BY <1>1, <1>2, BoundsKnown, BoundsSplit
  <1>7. SavedInv'
    BY <1>1, <1>2, SavedSplit
  <1>8. PcInv'
    BY <1>1, <1>2 DEF PcInv
  <1>9. ValuesConsistent'
    BY <1>1, <1>2, <1>3 DEF ValuesConsistent, Eval, Dot, Terms, Vars
  <1>10. NonBasicWithinBounds'
    BY <1>1, <1>2, <1>3, WithinSplit
  <1> QED
    BY <1>3, <1>4, <1>5, <1>6, <1>7, <1>8, <1>9, <1>10 DEF SInv

\* The invariant holds at the start.
LEMMA InitHolds ==
    ASSUME Init
    PROVE  SInv
  <1>1. /\ kind = [v \in Vars |-> IF v \in Cols THEN "nonbasic" ELSE "quasi"]
        /\ row = [v \in Vars |-> IF v \in Cols THEN NoPoly ELSE Defs[v]]
        /\ col = [v \in Vars |-> {}]
        /\ val = [v \in Vars |-> Delta(Zero, Zero)]
        /\ backup = val
        /\ changed = {} /\ candidates = {}
        /\ active = [v \in Vars |-> 0]
        /\ points = <<>> /\ checked = 0
        /\ pc = "idle" /\ expl = {}
    BY DEF Init
  <1>2. Basic = {} /\ NonBasic = Cols /\ Quasi = Vars \ Cols
    BY <1>1, VarsAssumption DEF Basic, NonBasic, Quasi
  <1>3. Zero \in Rationals /\ NoPoly \in Polys /\ NoPoly \in Numbers
    BY ZeroOne DEF NoPoly, Polys, Numbers
  <1>4. Delta(Zero, Zero) \in Values
    BY <1>3, DeltaFacts
  <1>5. points \in Seq(Points) /\ DOMAIN points = {} /\ Len(points) = 0
    BY <1>1
  <1>6. TypeInv
    <2>1. row \in [Vars -> Polys]
      BY <1>1, <1>3, DefsAssumption
    <2> QED
      BY <1>1, <1>4, <1>5, <2>1 DEF TypeInv
  <1>7. Bounded(points)
    BY <1>5 DEF Bounded, Chained, Implied
  <1>8. TableauConsistent
    <2>1. \A u \in Cols : row[u] = NoPoly /\ col[u] = {}
      BY <1>1, VarsAssumption
    <2>2. \A v \in Vars : col[v] = {} /\ active[v] = 0
      BY <1>1
    <2> QED
      BY <1>2, <2>1, <2>2 DEF TableauConsistent
  <1>9. AsideInv
    <2> DEFINE grade == [v \in Vars |-> 0]
    <2>1. \A v \in Quasi : \A u \in Terms(row[v]) \cap Quasi : FALSE
      <3> SUFFICES ASSUME NEW v \in Quasi, NEW u \in Terms(row[v]) \cap Quasi PROVE FALSE
        OBVIOUS
      <3>1. row[v] = Defs[v] /\ v \in Vars \ Cols /\ u \in Vars \ Cols
        BY <1>1, <1>2
      <3>2. Defs[v][u] = Zero
        BY <3>1, DefsAssumption
      <3> QED
        BY <3>1, <3>2 DEF Terms
    <2>2. grade \in [Vars -> 0..0]
      OBVIOUS
    <2> HIDE DEF grade
    <2>3. Graded(0, grade)
      BY <2>1, <2>2 DEF Graded
    <2> QED
      BY <2>2, <2>3 DEF AsideInv
  <1>10. RowsInv
    <2>1. \A v \in Vars \ Cols : row[v] = Defs[v]
      BY <1>1
    <2>2. \A g : SatisfiesRows(g) <=> SatisfiesDefs(g)
      BY <1>2, <2>1 DEF SatisfiesRows, SatisfiesDefs
    <2> QED
      BY <2>2 DEF RowsInv
  <1>11. BoundsInv
    <2>1. Accepted(points, checked) /\ AllCounted(points)
      BY <1>1, <1>5 DEF Accepted, AllCounted
    <2>2. Counts(points, active)
      <3> SUFFICES ASSUME NEW v \in Vars PROVE active[v] = Cardinality(CountIn(points, v))
        BY DEF Counts
      <3>1. CountIn(points, v) = {}
        BY <1>5 DEF CountIn
      <3> QED
        BY <1>1, <3>1, FS_EmptySet
    <2> QED
      BY <1>5, <1>7, <2>1, <2>2, BoundsSplit
  <1>12. SavedInv
    <2>1. SavedFor(points, checked, backup)
      BY <1>1 DEF SavedFor
    <2> QED
      BY <1>1, <2>1, SavedSplit
  <1>13. PcInv
    BY <1>1 DEF PcInv
  <1>14. ValuesConsistent
    BY <1>2 DEF ValuesConsistent
  <1>15. NonBasicWithinBounds
    <2>1. val \in ValueMaps
      BY <1>6 DEF TypeInv, ValueMaps
    <2>2. \A v \in Vars : ~ OutIn(points, val, v)
      BY <1>5, <1>7, <2>1, OutMeans
    <2>3. WithinBounds(points, val, NonBasic)
      BY <1>2, <2>2, VarsAssumption DEF WithinBounds
    <2>4. candidates = Candidates(points, val, Basic)
      BY <1>1, <1>2 DEF Candidates
    <2> QED
      BY <2>3, <2>4, WithinSplit
  <1> QED
    BY <1>6, <1>8, <1>9, <1>10, <1>11, <1>12, <1>13, <1>14, <1>15 DEF SInv

-----------------------------------------------------------------------------
(* The values the last accepted check found.                               *)

\* The values given out satisfy every row, those set aside included.
Got == [u \in Vars |-> getValuation(u)]

\* So they satisfy the definitions, coordinate by coordinate.
LEMMA GotFacts ==
    ASSUME SInv
    PROVE  /\ Got \in ValueMaps
           /\ SatisfiesDefs(RParts(Got)) /\ SatisfiesDefs(DParts(Got))
           /\ \A u \in Vars \ Quasi : Got[u] = val[u]
  <1>1. TypeInv /\ TableauConsistent /\ AsideInv /\ RowsInv /\ ValuesConsistent /\ val \in ValueMaps
    BY DEF SInv, TypeInv, ValueMaps
  <1>2. PICK U : Normalizes(U)
    BY <1>1, NormalizeDefined
  <1>3. /\ \A x \in Vars : Terms(U[x]) \subseteq NonBasic /\ U[x] \in Polys /\ Unfolded(x) = U[x]
    <2>1. \A x \in Vars : U[x] \in Polys /\ Unfolded(x) = U[x]
      BY <1>2 DEF Normalizes, PolyMaps
    <2> QED
      BY <1>1, <1>2, <2>1, NormalizedTerms
  <1>4. /\ \A u \in Vars \ Quasi : Got[u] = val[u]
        /\ \A u \in Quasi : Got[u] = Eval(U[u], val)
    BY <1>1, <1>3, KindFacts DEF Got, getValuation
  <1>5. Got \in ValueMaps
    <2>1. \A u \in Vars : Got[u] \in Values
      <3> SUFFICES ASSUME NEW u \in Vars PROVE Got[u] \in Values
        OBVIOUS
      <3>1. CASE u \notin Quasi
        BY <1>1, <1>4, <3>1 DEF ValueMaps
      <3>2. CASE u \in Quasi
        <4>1. U[u] \in Polys
          BY <1>3
        <4>2. Eval(U[u], val) \in Values
          BY <1>1, <4>1, EvalSame DEF ValueMaps
        <4> QED
          BY <1>4, <3>2, <4>2
      <3> QED
        BY <3>1, <3>2
    <2>2. Got = [u \in Vars |-> Got[u]]
      BY DEF Got
    <2> QED
      BY <2>1, <2>2 DEF ValueMaps
  <1>6. ASSUME NEW p \in Polys, Terms(p) \subseteq NonBasic
        PROVE  Eval(p, val) = Eval(p, Got)
    <2>1. \A u \in Terms(p) : val[u] = Got[u]
      BY <1>1, <1>4, <1>6, KindFacts
    <2> QED
      BY <1>1, <1>5, <2>1, EvalSame DEF ValueMaps
  <1>7. PICK gr, gd : gr = RParts(Got) /\ gd = DParts(Got)
    OBVIOUS
  <1>8. gr \in Numbers /\ gd \in Numbers
    BY <1>5, <1>7, PartsFacts
  <1>9. ASSUME NEW v \in Basic
        PROVE  Holds(row[v], v, gr) /\ Holds(row[v], v, gd)
    <2>1. v \in Vars /\ v \notin Quasi /\ row[v] \in Polys /\ Terms(row[v]) \subseteq NonBasic
      BY <1>1, KindFacts, RowTerms
    <2>2. Got[v] = Eval(row[v], Got)
      BY <1>1, <1>4, <1>6, <2>1 DEF ValuesConsistent
    <2> QED
      BY <1>5, <1>7, <2>1, <2>2, EvalParts
  <1>10. ASSUME NEW v \in Quasi
         PROVE  Holds(U[v], v, gr) /\ Holds(U[v], v, gd)
    <2>1. v \in Vars /\ U[v] \in Polys /\ Terms(U[v]) \subseteq NonBasic
      BY <1>1, <1>3, KindFacts
    <2>2. Got[v] = Eval(U[v], Got)
      BY <1>4, <1>6, <2>1
    <2> QED
      BY <1>5, <1>7, <2>1, <2>2, EvalParts
  <1>11. ASSUME NEW g \in Numbers,
                \A v \in Basic : Holds(row[v], v, g), \A v \in Quasi : Holds(U[v], v, g)
         PROVE  SatisfiesDefs(g)
    <2>1. ASSUME NEW v \in Vars \ NonBasic
          PROVE  g[v] = Dot(row[v], g)
      <3>1. CASE v \in Basic
        BY <1>11, <3>1 DEF Holds
      <3>2. CASE v \in Quasi
        <4>1. Dot(U[v], g) = Dot(row[v], g)
          BY <1>1, <1>2, <1>11, <3>2, NormalizedDot
        <4> QED
          BY <1>11, <3>2, <4>1 DEF Holds
      <3> QED
        BY <1>1, <3>1, <3>2, KindFacts
    <2> QED
      BY <1>1, <2>1 DEF RowsInv, SatisfiesRows, Numbers
  <1>12. SatisfiesDefs(gr)
    BY <1>8, <1>9, <1>10, <1>11
  <1>13. SatisfiesDefs(gd)
    BY <1>8, <1>9, <1>10, <1>11
  <1> QED
    BY <1>4, <1>5, <1>7, <1>12, <1>13

\* They stay while the saved values of nonbasic variables and what was accepted do.
LEMMA AcceptedSame ==
    ASSUME SInv, AcceptedInv, NonBasic' \subseteq Vars \ Quasi,
           \A v \in NonBasic' : backup'[v] = backup[v],
           accepted' = accepted, \A k \in 1..(Len(points') - 1) : points'[k].counted
    PROVE  AcceptedInv'
  <1>1. PICK f \in ValueMaps : Covers(f)
    BY DEF AcceptedInv, ValueMaps
  <1>2. \A v \in Vars \ Quasi : f[v] = backup[v]
    BY <1>1, CoversInTableau
  <1>3. \A v \in NonBasic' : f[v] = backup'[v]
    BY <1>2
  <1>4. SatisfiesDefs(RParts(f)) /\ SatisfiesDefs(DParts(f)) /\ \A l \in accepted : ~ Violates(f, l)
    BY <1>1 DEF Covers
  <1>5. (SatisfiesDefs(RParts(f)) /\ SatisfiesDefs(DParts(f)))'
    BY <1>4 DEF SatisfiesDefs, RParts, DParts, Dot, Terms, Vars
  <1>6. (\A l \in accepted : ~ Violates(f, l))'
    BY <1>4 DEF Violates, DLess, isInf, RLess
  <1>7. Covers(f)'
    BY <1>3, <1>5, <1>6 DEF Covers
  <1>8. f \in [Vars -> Values]'
    BY DEF ValueMaps, Vars, Values
  <1>9. (accepted \subseteq Literals)'
    BY DEF AcceptedInv
  <1> QED
    BY <1>7, <1>8, <1>9 DEF AcceptedInv

\* A check that answers accepts what it found.
LEMMA AnsweredCovers ==
    ASSUME SInv, AcceptedInv, pc = "check", candidates = {}, NEW x, Answered(x)
    PROVE  AcceptedInv'
  <1>1. /\ kind' = kind /\ points' = points /\ backup' = Saved
        /\ accepted' = {points[k].lit : k \in DOMAIN points}
    BY DEF Answered, tableau
  <1>2. /\ TypeInv /\ TableauConsistent /\ BoundsInv /\ SavedInv /\ expl = {}
    BY DEF SInv, PcInv
  <1>3. /\ Bounded(points) /\ AllCounted(points) /\ points \in Seq(Points)
        /\ SavedFor(points, Len(points), val)
    BY <1>2, BoundsKnown, NoCandidates
  <1>4. /\ Got \in ValueMaps /\ SatisfiesDefs(RParts(Got)) /\ SatisfiesDefs(DParts(Got))
        /\ \A u \in Vars \ Quasi : Got[u] = val[u]
    BY GotFacts
  <1>5. PICK f \in ValueMaps : f = Got
    BY <1>4
  <1>6. NonBasic' = NonBasic /\ NonBasic \subseteq Vars \ Quasi
    BY <1>1, <1>2, KindFacts DEF NonBasic, Vars
  <1>7. \A v \in Vars : Saved[v] = val[v]
    BY <1>2, SavedSplit DEF Saved
  <1>8. \A v \in NonBasic' : f[v] = backup'[v]
    BY <1>1, <1>4, <1>5, <1>6, <1>7
  <1>9. ASSUME NEW k \in DOMAIN points PROVE points[k].lit \in Literals /\ ~ Violates(f, points[k].lit)
    <2>1. PICK l : l = points[k].lit
      OBVIOUS
    <2>2. l \in Literals /\ l.v \in Vars /\ k \in CountIn(points, l.v) /\ k \in 1..Len(points)
      <3>1. l \in Literals /\ l.v \in Vars
        BY <1>3, <2>1, PointFacts DEF Points
      <3> QED
        BY <1>3, <2>1, <3>1 DEF AllCounted, CountIn
    <2>3. l.v \notin Quasi
      BY <1>2, <2>2, QuasiUnbounded
    <2>4. f[l.v] = val[l.v] /\ ~ Violates(val, l)
      BY <1>3, <1>4, <1>5, <2>1, <2>2, <2>3 DEF SavedFor
    <2> QED
      BY <2>1, <2>2, <2>4 DEF Violates
  <1>10. \A l \in accepted' : l \in Literals /\ ~ Violates(f, l)
    BY <1>1, <1>9
  <1>11. (\A l \in accepted : ~ Violates(f, l))'
    BY <1>10 DEF Violates, DLess, isInf, RLess
  <1>12. (SatisfiesDefs(RParts(f)) /\ SatisfiesDefs(DParts(f)))'
    BY <1>4, <1>5 DEF SatisfiesDefs, RParts, DParts, Dot, Terms, Vars
  <1>13. Covers(f)'
    BY <1>8, <1>11, <1>12 DEF Covers
  <1>14. f \in [Vars -> Values]'
    BY DEF ValueMaps, Vars, Values
  <1>15. (\A k \in 1..(Len(points) - 1) : points[k].counted)'
    BY <1>1 DEF AcceptedInv
  <1>16. (accepted \subseteq Literals)'
    BY <1>10
  <1> QED
    BY <1>13, <1>14, <1>15, <1>16 DEF AcceptedInv

\* A pivot moves within the tableau.
LEMMA PivotedCovers ==
    ASSUME SInv, AcceptedInv, pc = "check", NEW x \in candidates, NEW y \in Helpers(x), PivotedOn(x, y)
    PROVE  AcceptedInv'
  <1>1. /\ TypeInv /\ TableauConsistent /\ BoundsInv /\ NonBasicWithinBounds /\ expl = {}
        /\ Bounded(points) /\ points \in Seq(Points)
    BY BoundsKnown DEF SInv, PcInv
  <1>2. Pivot(x, y) /\ backup' = backup /\ accepted' = accepted /\ points' = points
    BY DEF PivotedOn
  <1>3. x \in Basic /\ OutOfBounds(val, x)
    <2>1. candidates = Candidates(points, val, Basic)
      BY <1>1, WithinSplit
    <2> QED
      BY <2>1, BoundsIn DEF Candidates
  <1>4. Pivots(x, y) /\ y \in NonBasic
    <2>1. y \in Terms(row[x])
      BY DEF Helpers
    <2> QED
      BY <1>1, <1>3, <2>1, PivotPremise
  <1>5. NonBasic' = (NonBasic \ {y}) \cup {x}
    BY <1>1, <1>2, <1>3, <1>4, Pivoted DEF PivotKinds
  <1>6. NonBasic' \subseteq Vars \ Quasi
    BY <1>1, <1>3, <1>5, KindFacts
  <1>7. \A k \in 1..(Len(points') - 1) : points'[k].counted
    BY <1>2 DEF AcceptedInv
  <1> QED
    BY <1>2, <1>6, <1>7, AcceptedSame

\* Every step keeps the values the last accepted check found.
LEMMA AcceptedKept ==
    ASSUME SInv, AcceptedInv, [Next]_vars
    PROVE  AcceptedInv'
  <1>1. /\ TypeInv /\ TableauConsistent /\ BoundsInv /\ points \in Seq(Points) /\ Len(points) \in Nat
        /\ (expl = {} => AllCounted(points))
    BY BoundsKnown DEF SInv, TypeInv
  <1>2. NonBasic \in SUBSET Vars /\ NonBasic \cap Quasi = {} /\ NonBasic \subseteq Vars \ Quasi
    BY <1>1, KindFacts
  <1>3. \A k \in 1..(Len(points) - 1) : points[k].counted
    BY DEF AcceptedInv
  <1>4. ASSUME kind' = kind, backup' = backup, accepted' = accepted, points' = points
        PROVE  AcceptedInv'
    <2>1. NonBasic' = NonBasic
      BY <1>4 DEF NonBasic, Vars
    <2> QED
      BY <1>2, <1>3, <1>4, <2>1, AcceptedSame
  <1>5. ASSUME NEW v \in Quasi, quasiToBasic(v)
        PROVE  NonBasic' = NonBasic /\ \A u \in NonBasic : backup'[u] = backup[u]
    BY <1>2, <1>5, TakenBackValues
  <1>6. CASE AssertBound
    <2>1. PICK l \in Literals : AssertRefused(l) \/ AssertTaken(l)
      BY <1>6 DEF AssertBound
    <2>2. expl = {} /\ accepted' = accepted
      BY <1>6 DEF AssertBound
    <2>3. \E pt : points' = Append(points, pt)
      BY <2>1 DEF AssertRefused, AssertTaken
    <2>4. \A k \in 1..(Len(points') - 1) : points'[k].counted
      BY <1>1, <2>2, <2>3 DEF AllCounted
    <2>5. NonBasic' = NonBasic /\ \A u \in NonBasic : backup'[u] = backup[u]
      <3>1. CASE kind' = kind /\ backup' = backup
        BY <3>1 DEF NonBasic, Vars
      <3>2. CASE kind[l.v] = "quasi" /\ quasiToBasic(l.v)
        <4>1. l.v \in Quasi
          BY <3>2, LiteralFacts DEF Quasi
        <4> QED
          BY <1>5, <3>2, <4>1
      <3> QED
        BY <2>1, <3>1, <3>2 DEF AssertRefused, AssertTaken, AssertNonBasic, AssertBasic, tableau
    <2> QED
      BY <1>2, <2>2, <2>4, <2>5, AcceptedSame
  <1>7. CASE Check
    BY <1>4, <1>7 DEF Check, tableau
  <1>8. CASE Step
    <2>1. pc = "check" /\ points' = points
      BY <1>8 DEF Step
    <2>2. \/ candidates = {} /\ \E x : Answered(x)
          \/ \E x \in candidates : Helpers(x) = {} /\ Refuted(x)
          \/ \E x \in candidates : \E y \in Helpers(x) : PivotedOn(x, y)
      BY <1>1, <1>8, StepCases
    <2>3. CASE \E x \in candidates : Helpers(x) = {} /\ Refuted(x)
      BY <1>4, <2>3 DEF Refuted, tableau
    <2> QED
      BY <2>1, <2>2, <2>3, AnsweredCovers, PivotedCovers
  <1>9. CASE Backtrack
    <2>1. PICK n, aside : BacktracksTo(n, aside)
      BY <1>9, BacktrackMeans
    <2>2. /\ n \in 0..Len(points) /\ n < Len(points) /\ points' = SubSeq(points, 1, n)
          /\ aside \in SUBSET Basic /\ backup' = backup
          /\ kind' = [v \in Vars |-> IF v \in aside THEN "quasi" ELSE kind[v]]
      BY <2>1 DEF BacktracksTo
    <2>3. accepted' = accepted
      BY <1>9 DEF Backtrack
    <2>4. NonBasic' = NonBasic
      BY <1>1, <2>2 DEF NonBasic, Basic, Vars
    <2>5. \A k \in 1..(Len(points') - 1) : points'[k].counted
      BY <1>1, <1>3, <2>2
    <2> QED
      BY <1>2, <2>2, <2>3, <2>4, <2>5, AcceptedSame
  <1>10. CASE Ask
    <2>1. PICK v \in Quasi : quasiToBasic(v)
      BY <1>10 DEF Ask
    <2>2. accepted' = accepted /\ points' = points
      BY <1>10 DEF Ask
    <2>3. NonBasic' = NonBasic /\ \A u \in NonBasic : backup'[u] = backup[u]
      BY <1>5, <2>1
    <2> QED
      BY <1>2, <1>3, <2>2, <2>3, AcceptedSame
  <1>11. CASE UNCHANGED vars
    BY <1>4, <1>11 DEF vars
  <1> QED
    BY <1>6, <1>7, <1>8, <1>9, <1>10, <1>11 DEF Next

\* At the start nothing is accepted.
LEMMA InitAccepts ==
    ASSUME Init
    PROVE  AcceptedInv
  <1>1. SInv
    BY InitHolds
  <1>2. accepted = {} /\ points = <<>> /\ backup = val
    BY DEF Init
  <1>3. /\ Got \in ValueMaps /\ SatisfiesDefs(RParts(Got)) /\ SatisfiesDefs(DParts(Got))
        /\ \A u \in Vars \ Quasi : Got[u] = val[u]
    BY <1>1, GotFacts
  <1>4. NonBasic \subseteq Vars \ Quasi
    BY <1>1, KindFacts DEF SInv
  <1>5. Covers(Got)
    BY <1>2, <1>3, <1>4 DEF Covers
  <1> QED
    BY <1>2, <1>3, <1>5 DEF AcceptedInv, ValueMaps

\* SInv holds in every state: tableau, rows set aside, equations, bounds and their
\* counts, values, saved values and candidates fit together after every step.
THEOREM SimplexInvariance == Spec => []SInv
  <1>1. Init => SInv /\ AcceptedInv
    BY InitHolds, InitAccepts
  <1>2. SInv /\ AcceptedInv /\ [Next]_vars => SInv' /\ AcceptedInv'
    BY NextKeeps, StutterKeeps, AcceptedKept
  <1> QED
    BY <1>1, <1>2, PTL DEF Spec

-----------------------------------------------------------------------------
(* What the rows say.                                                      *)

\* Polynomials are numbers for the variables.
LEMMA PolysNumbers == Polys = Numbers
  BY DEF Polys, Numbers

\* Coefficients and numbers can change places.
LEMMA DotSymmetric ==
    ASSUME NEW p \in Polys, NEW g \in Polys
    PROVE  Dot(p, g) = Dot(g, p)
  <1>1. p \in Numbers /\ g \in Numbers
    BY PolysNumbers
  <1>2. Dot(p, g) = RSum([u \in Vars |-> RMul(p[u], g[u])], Vars)
    BY <1>1, DotAll
  <1>3. Dot(g, p) = RSum([u \in Vars |-> RMul(g[u], p[u])], Vars)
    BY <1>1, DotAll
  <1>4. \A u \in Vars : RMul(p[u], g[u]) = RMul(g[u], p[u])
    <2> SUFFICES ASSUME NEW u \in Vars PROVE RMul(p[u], g[u]) = RMul(g[u], p[u])
      OBVIOUS
    <2>1. p[u] \in Rationals /\ g[u] \in Rationals
      BY PolyFacts
    <2> QED
      BY <2>1, AddCommutes
  <1>5. [u \in Vars |-> RMul(p[u], g[u])] = [u \in Vars |-> RMul(g[u], p[u])]
    BY <1>4
  <1> QED
    BY <1>2, <1>3, <1>5

\* The coefficients of one column in the forms of the variables.
Column(w) == [u \in Vars |-> Form(u)[w]]

\* The forms of the variables and their columns.
LEMMA FormFacts ==
    /\ \A u \in Vars : Form(u) \in Polys
    /\ \A w \in Vars : Column(w) \in Numbers
    /\ \A u, w \in Vars : Column(w)[u] = Form(u)[w] /\ Form(u)[w] \in Rationals
  <1>1. \A u \in Vars : Form(u) \in Polys
    <2> SUFFICES ASSUME NEW u \in Vars PROVE Form(u) \in Polys
      OBVIOUS
    <2>1. Unit(u) \in Polys
      <3>1. NoPoly \in Polys /\ Zero \in Rationals
        BY ZeroOne DEF NoPoly, Polys
      <3> QED
        BY <3>1, PolyChanged
    <2> QED
      BY <2>1, DefsAssumption DEF Form
  <1>2. \A u, w \in Vars : Form(u)[w] \in Rationals
    BY <1>1 DEF Polys
  <1>3. \A w \in Vars : Column(w) \in Numbers
    BY <1>2 DEF Column, Numbers
  <1>4. \A u, w \in Vars : Column(w)[u] = Form(u)[w]
    BY DEF Column
  <1> QED
    BY <1>1, <1>2, <1>3, <1>4

\* The forms satisfy the definitions of the sums, column by column.
LEMMA ColumnSatisfies ==
    ASSUME NEW w \in Vars
    PROVE  SatisfiesDefs(Column(w))
  <1> SUFFICES ASSUME NEW v \in Vars \ Cols PROVE Column(w)[v] = Dot(Defs[v], Column(w))
    BY DEF SatisfiesDefs
  <1>1. PICK p, g, e : p = Defs[v] /\ g = Column(w) /\ e = Unit(w)
    OBVIOUS
  <1>2. p \in Polys /\ g \in Numbers
    BY <1>1, DefsAssumption, FormFacts
  <1>3. e \in Polys /\ \A u \in Vars : e[u] = IF u = w THEN One ELSE Zero
    <2>1. NoPoly \in Polys /\ Zero \in Rationals
      BY ZeroOne DEF NoPoly, Polys
    <2> QED
      BY <1>1, <2>1, PolyChanged
  <1>4. \A u \in Terms(p) : g[u] = e[u]
    <2> SUFFICES ASSUME NEW u \in Terms(p) PROVE g[u] = e[u]
      OBVIOUS
    <2>1. u \in Vars /\ p[u] # Zero
      BY <1>2, PolyFacts
    <2>2. u \in Cols
      BY <1>1, <2>1, DefsAssumption
    <2>3. g[u] = Unit(u)[w]
      BY <1>1, <2>1, <2>2, FormFacts DEF Form
    <2>4. Unit(u)[w] = IF w = u THEN One ELSE Zero
      <3>1. NoPoly \in Polys /\ Zero \in Rationals
        BY ZeroOne DEF NoPoly, Polys
      <3> QED
        BY <2>1, <3>1, PolyChanged
    <2> QED
      BY <1>3, <2>1, <2>3, <2>4
  <1>5. e \in Numbers /\ p \in Numbers
    BY <1>2, <1>3, PolysNumbers
  <1>6. Dot(p, g) = Dot(p, e)
    BY <1>2, <1>4, <1>5, DotSame
  <1>7. Dot(p, e) = Dot(e, p)
    BY <1>2, <1>3, DotSymmetric
  <1>8. Dot(e, p) = p[w]
    BY <1>1, <1>5, DotUnit
  <1>9. Column(w)[v] = Defs[v][w]
    BY FormFacts DEF Form
  <1> QED
    BY <1>1, <1>6, <1>7, <1>8, <1>9

\* Every row says of the forms what it says of the variables.
LEMMA RowsSayForms ==
    ASSUME RowsInv, NEW v \in Vars \ NonBasic, NEW w \in Vars
    PROVE  Form(v)[w] = Dot(row[v], Column(w))
  <1>1. Column(w) \in Numbers /\ Column(w)[v] = Form(v)[w]
    BY FormFacts
  <1>2. SatisfiesRows(Column(w))
    BY <1>1, ColumnSatisfies DEF RowsInv, Numbers
  <1> QED
    BY <1>1, <1>2 DEF SatisfiesRows

\* Rows that are equivalent to the definitions say what was defined.
LEMMA RowsEquivalentHolds ==
    ASSUME SInv
    PROVE  RowsEquivalent
  <1>1. TypeInv /\ TableauConsistent /\ RowsInv
    BY DEF SInv
  <1> SUFFICES ASSUME NEW v \in Vars \ NonBasic
               PROVE  Form(v) = Combined(row[v], [u \in Vars |-> Form(u)])
    BY <1>1 DEF RowsEquivalent
  <1>2. PICK F, p : F = [u \in Vars |-> Form(u)] /\ p = row[v]
    OBVIOUS
  <1>3. F \in PolyMaps /\ p \in Polys
    BY <1>1, <1>2, FormFacts DEF PolyMaps, TypeInv
  <1>4. Combined(p, F) \in Polys
    BY <1>3, CombinedFacts
  <1>5. \A w \in Vars : Combined(p, F)[w] = Form(v)[w]
    <2> SUFFICES ASSUME NEW w \in Vars PROVE Combined(p, F)[w] = Form(v)[w]
      OBVIOUS
    <2>1. [u \in Vars |-> F[u][w]] = Column(w)
      BY <1>2 DEF Column
    <2>2. Combined(p, F)[w] = Dot(p, [u \in Vars |-> F[u][w]])
      BY DEF Combined
    <2> QED
      BY <1>1, <1>2, <2>1, <2>2, RowsSayForms
  <1>6. Form(v) \in Polys
    BY FormFacts
  <1>7. Form(v) = Combined(p, F)
    BY <1>4, <1>5, <1>6 DEF Polys
  <1> QED
    BY <1>2, <1>7

\* After any pivots and any rows set aside and taken back, every row still says
\* what its variable was defined to be, over nonbasic variables (checkConsistency).
THEOREM RowsAreEquivalent == Spec => []RowsEquivalent
  <1>1. SInv => RowsEquivalent
    BY RowsEquivalentHolds
  <1> QED
    BY <1>1, SimplexInvariance, PTL

\* The values of rows agree with those of their terms, the current and the saved ones
\* (checkValueConsistency).
THEOREM ValuesAreConsistent == Spec => []ValuesConsistent
  <1>1. SInv => ValuesConsistent
    BY DEF SInv
  <1> QED
    BY <1>1, SimplexInvariance, PTL

\* Only basic variables are out of bounds, and those are the candidates (invariantHolds).
THEOREM NonBasicAreWithinBounds == Spec => []NonBasicWithinBounds
  <1>1. SInv => NonBasicWithinBounds
    BY DEF SInv
  <1> QED
    BY <1>1, SimplexInvariance, PTL

-----------------------------------------------------------------------------
(* Sums over the terms of a row.                                           *)

\* A sum may be taken over other names of the summands.
LEMMA RSumRenamed ==
    ASSUME NEW T, IsFiniteSet(T), NEW e, \A u, v \in T : e[u] = e[v] => u = v,
           NEW f, NEW g, \A u \in T : g[u] \in Rationals /\ f[e[u]] = g[u]
    PROVE  RSum(f, {e[u] : u \in T}) = RSum(g, T)
  <1> DEFINE Img(R) == {e[u] : u \in R}
             C == {R \in SUBSET T : RSum(f, Img(R)) # RSum(g, R)}
  <1> SUFFICES ASSUME C # {} PROVE FALSE
    <2>1. T \notin C => RSum(f, Img(T)) = RSum(g, T)
      OBVIOUS
    <2> QED
      BY <2>1
  <1>1. C \in SUBSET (SUBSET T)
    OBVIOUS
  <1> HIDE DEF C
  <1>2. PICK R \in C : \A x \in R : R \ {x} \notin C
    BY <1>1, LeastSubset
  <1>3. R \in SUBSET T /\ RSum(f, Img(R)) # RSum(g, R)
    BY DEF C
  <1>4. \A Q \in SUBSET R : IsFiniteSet(Q) /\ IsFiniteSet(Img(Q)) /\ \A y \in Img(Q) : f[y] \in Rationals
    <2> SUFFICES ASSUME NEW Q \in SUBSET R
                 PROVE  IsFiniteSet(Q) /\ IsFiniteSet(Img(Q)) /\ \A y \in Img(Q) : f[y] \in Rationals
      OBVIOUS
    <2>1. IsFiniteSet(Q)
      BY <1>3, FS_Subset
    <2>2. IsFiniteSet(Img(Q))
      <3> DEFINE h == [u \in Q |-> e[u]]
      <3>1. h \in Surjection(Q, Img(Q))
        BY DEF Surjection
      <3> HIDE DEF h
      <3> QED
        BY <2>1, <3>1, FS_Surjection
    <2>3. \A y \in Img(Q) : f[y] \in Rationals
      BY <1>3
    <2> QED
      BY <2>1, <2>2, <2>3
  <1>5. CASE R = {}
    <2>1. Img(R) = {} /\ IsFiniteSet({})
      BY <1>5, FS_EmptySet
    <2>2. RSum(f, Img(R)) = Zero
      BY <1>4, <2>1, RSumEquation
    <2>3. RSum(g, R) = Zero
      BY <1>5, <2>1, RSumEquation
    <2> QED
      BY <1>3, <2>2, <2>3
  <1>6. CASE R # {}
    <2>1. PICK x \in R : TRUE
      BY <1>6
    <2>2. RSum(g, R) = RAdd(g[x], RSum(g, R \ {x}))
      BY <1>3, <1>4, RSumAt
    <2>3. e[x] \in Img(R)
      BY <2>1
    <2>4. Img(R) \ {e[x]} = Img(R \ {x})
      BY <1>3, <2>1
    <2>5. PICK I : I = Img(R)
      OBVIOUS
    <2>6. IsFiniteSet(I) /\ (\A y \in I : f[y] \in Rationals) /\ e[x] \in I
      BY <1>4, <2>3, <2>5
    <2>7. RSum(f, I) = RAdd(f[e[x]], RSum(f, I \ {e[x]}))
      BY <2>6, RSumAt
    <2>8. f[e[x]] = g[x]
      BY <1>3, <2>1
    <2>9. RSum(f, Img(R \ {x})) = RSum(g, R \ {x})
      BY <1>2, <1>3, <2>1 DEF C
    <2> QED
      BY <1>3, <2>2, <2>4, <2>5, <2>7, <2>8, <2>9
  <1> QED
    BY <1>5, <1>6

-----------------------------------------------------------------------------
(* The negative and the positive part of a polynomial.                     *)
NegTerms(p) == {u \in Terms(p) : RLess(p[u], Zero)}
PosTerms(p) == {u \in Terms(p) : RLess(Zero, p[u])}
SumOver(p, g, S) == RSum([u \in Vars |-> RMul(Weight(p[u]), g[u])], S)

\* The terms of a row by the sign of their coefficients.
LEMMA TermSigns ==
    ASSUME NEW p \in Polys
    PROVE  /\ NegTerms(p) \in SUBSET Vars /\ PosTerms(p) \in SUBSET Vars
           /\ Terms(p) = NegTerms(p) \cup PosTerms(p)
           /\ NegTerms(p) \cap PosTerms(p) = {}
           /\ \A u \in NegTerms(p) : Weight(p[u]) = RNeg(p[u]) /\ RLess(p[u], Zero) /\ ~ RLess(Zero, p[u])
           /\ \A u \in PosTerms(p) : Weight(p[u]) = p[u] /\ ~ RLess(p[u], Zero) /\ RLess(Zero, p[u])
           /\ \A u \in Vars : Weight(p[u]) \in Rationals
  <1>1. \A u \in Vars : p[u] \in Rationals
    BY PolyFacts
  <1>2. Zero \in Rationals
    BY ZeroOne
  <1>3. \A u \in Vars : /\ ~ (RLess(p[u], Zero) /\ RLess(Zero, p[u]))
                        /\ p[u] # Zero => RLess(p[u], Zero) \/ RLess(Zero, p[u])
    <2> SUFFICES ASSUME NEW u \in Vars
                 PROVE  /\ ~ (RLess(p[u], Zero) /\ RLess(Zero, p[u]))
                        /\ p[u] # Zero => RLess(p[u], Zero) \/ RLess(Zero, p[u])
      OBVIOUS
    <2>1. p[u] \in Rationals
      BY <1>1
    <2>2. /\ RLess(Zero, p[u]) <=> p[u][1] > 0
          /\ RLess(p[u], Zero) <=> p[u][1] < 0
          /\ p[u] = Zero <=> p[u][1] = 0
      BY <2>1, PositiveSign
    <2>3. p[u][1] \in Int
      BY <2>1, RationalParts
    <2> QED
      BY <2>2, <2>3
  <1>4. \A u \in Vars : Weight(p[u]) \in Rationals
    <2> SUFFICES ASSUME NEW u \in Vars PROVE Weight(p[u]) \in Rationals
      OBVIOUS
    <2>1. p[u] \in Rationals /\ RNeg(p[u]) \in Rationals
      BY <1>1, RationalClosed
    <2> QED
      BY <2>1 DEF Weight
  <1>5. Terms(p) \in SUBSET Vars /\ \A u \in Vars : u \in Terms(p) <=> p[u] # Zero
    BY PolyFacts
  <1> HIDE DEF RLess
  <1>6. /\ NegTerms(p) \in SUBSET Vars /\ PosTerms(p) \in SUBSET Vars
        /\ Terms(p) = NegTerms(p) \cup PosTerms(p)
        /\ NegTerms(p) \cap PosTerms(p) = {}
    BY <1>3, <1>5 DEF NegTerms, PosTerms
  <1>7. \A u \in NegTerms(p) : Weight(p[u]) = RNeg(p[u]) /\ RLess(p[u], Zero) /\ ~ RLess(Zero, p[u])
    BY <1>3, <1>5 DEF NegTerms, Weight
  <1>8. \A u \in PosTerms(p) : Weight(p[u]) = p[u] /\ ~ RLess(p[u], Zero) /\ RLess(Zero, p[u])
    BY <1>3, <1>5 DEF PosTerms, Weight
  <1> QED
    BY <1>4, <1>6, <1>7, <1>8

\* A weighted sum over some terms is a number.
LEMMA SumOverFacts ==
    ASSUME NEW p \in Polys, NEW g \in Numbers, NEW S \in SUBSET Vars
    PROVE  /\ IsFiniteSet(S) /\ SumOver(p, g, S) \in Rationals
           /\ \A u \in Vars : RMul(Weight(p[u]), g[u]) \in Rationals
  <1>1. \A u \in Vars : RMul(Weight(p[u]), g[u]) \in Rationals
    <2> SUFFICES ASSUME NEW u \in Vars PROVE RMul(Weight(p[u]), g[u]) \in Rationals
      OBVIOUS
    <2>1. Weight(p[u]) \in Rationals /\ g[u] \in Rationals
      BY TermSigns DEF Numbers
    <2> QED
      BY <2>1, RationalClosed
  <1>2. IsFiniteSet(S)
    BY VarsFinite
  <1> DEFINE f == [u \in Vars |-> RMul(Weight(p[u]), g[u])]
  <1>3. \A u \in S : f[u] \in Rationals
    BY <1>1
  <1> HIDE DEF f
  <1>4. RSum(f, S) \in Rationals
    BY <1>2, <1>3, RSumEquation
  <1> QED
    BY <1>1, <1>2, <1>4 DEF SumOver, f

\* The negative part brought to the other side.
LEMMA SplitSum ==
    ASSUME NEW p \in Polys, NEW g \in Numbers
    PROVE  RAdd(Dot(p, g), SumOver(p, g, NegTerms(p))) = SumOver(p, g, PosTerms(p))
  <1> DEFINE m == NegTerms(p)
             q == PosTerms(p)
             w == [u \in Vars |-> RMul(Weight(p[u]), g[u])]
             a == [u \in Vars |-> RMul(p[u], g[u])]
             b == [u \in Vars |-> IF u \in m THEN w[u] ELSE Zero]
             c == [u \in Vars |-> IF u \in q THEN w[u] ELSE Zero]
  <1>1. m \in SUBSET Vars /\ q \in SUBSET Vars
    BY TermSigns
  <1>2. \A u \in Vars : w[u] \in Rationals
    BY SumOverFacts
  <1>3. Zero \in Rationals /\ IsFiniteSet(Vars)
    BY ZeroOne, VarsFinite
  <1>4. \A u \in Vars : a[u] \in Rationals /\ b[u] \in Rationals /\ c[u] = RAdd(a[u], b[u])
    <2> SUFFICES ASSUME NEW u \in Vars
                 PROVE  a[u] \in Rationals /\ b[u] \in Rationals /\ c[u] = RAdd(a[u], b[u])
      OBVIOUS
    <2>1. p[u] \in Rationals /\ g[u] \in Rationals
      BY PolyFacts DEF Numbers
    <2>2. RMul(p[u], g[u]) \in Rationals
      BY <2>1, RationalClosed
    <2>3. a[u] = RMul(p[u], g[u]) /\ w[u] = RMul(Weight(p[u]), g[u])
      OBVIOUS
    <2>4. b[u] \in Rationals
      BY <1>2, <1>3
    <2>5. CASE u \in m
      <3>1. u \notin q /\ Weight(p[u]) = RNeg(p[u])
        BY <2>5, TermSigns
      <3>2. w[u] = RNeg(a[u])
        BY <2>1, <2>3, <3>1, NegFacts
      <3>3. RAdd(a[u], RNeg(a[u])) = Zero
        BY <2>2, <2>3, Neutral
      <3>4. b[u] = w[u] /\ c[u] = Zero
        BY <2>5, <3>1
      <3> QED
        BY <2>2, <2>3, <2>4, <3>2, <3>3, <3>4
    <2>6. CASE u \in q
      <3>1. u \notin m /\ Weight(p[u]) = p[u]
        BY <2>6, TermSigns
      <3>2. RAdd(a[u], Zero) = a[u]
        BY <2>2, <2>3, Neutral
      <3>3. b[u] = Zero /\ c[u] = w[u]
        BY <2>6, <3>1
      <3> QED
        BY <2>2, <2>3, <2>4, <3>1, <3>2, <3>3
    <2>7. CASE u \notin m /\ u \notin q
      <3>1. p[u] = Zero
        <4>1. u \notin Terms(p)
          BY <2>7, TermSigns
        <4> QED
          BY <4>1, PolyFacts
      <3>2. a[u] = Zero /\ RAdd(Zero, Zero) = Zero
        BY <1>3, <2>1, <2>3, <3>1, Neutral
      <3>3. b[u] = Zero /\ c[u] = Zero
        BY <2>7
      <3> QED
        BY <2>2, <2>3, <2>4, <3>2, <3>3
    <2> QED
      BY <2>5, <2>6, <2>7
  <1>5. \A u \in Vars : c[u] \in Rationals
    BY <1>2, <1>3
  <1>6. (\A u \in Vars \ m : b[u] = Zero) /\ (\A u \in Vars \ q : c[u] = Zero)
    OBVIOUS
  <1>7. (\A u \in m : b[u] \in Rationals /\ b[u] = w[u]) /\ (\A u \in q : c[u] \in Rationals /\ c[u] = w[u])
    BY <1>1, <1>2
  <1>8. IsFiniteSet(m) /\ IsFiniteSet(q)
    BY <1>1, VarsFinite
  <1>9. Dot(p, g) = RSum(a, Vars)
    BY DotAll
  <1>10. SumOver(p, g, m) = RSum(w, m) /\ SumOver(p, g, q) = RSum(w, q)
    BY DEF SumOver
  <1> HIDE DEF a, b, c, w, m, q
  <1>11. RSum(c, Vars) = RAdd(RSum(a, Vars), RSum(b, Vars))
    BY <1>3, <1>4, RSumAdd
  <1>12. RSum(b, Vars) = RSum(b, m)
    BY <1>1, <1>3, <1>4, <1>6, RSumNonZero
  <1>13. RSum(c, Vars) = RSum(c, q)
    BY <1>1, <1>3, <1>5, <1>6, RSumNonZero
  <1>14. RSum(b, m) = RSum(w, m)
    BY <1>7, <1>8, RSumSame
  <1>15. RSum(c, q) = RSum(w, q)
    BY <1>7, <1>8, RSumSame
  <1> QED
    BY <1>9, <1>10, <1>11, <1>12, <1>13, <1>14, <1>15 DEF m, q

-----------------------------------------------------------------------------
(* Explanations of two sides.                                              *)

\* A conflict, by any explanation and points.
PartOf(E, lower) == {e \in E : e[1].lower = lower}
FormOf(S) == [w \in Vars |-> RSum([e \in S |-> RMul(e[2], Form(e[1].v)[w])], S)]
BoundOf(S) == DSum([e \in S |-> DMul(e[2], e[1].value)], S)
Conflict(E, P) ==
  E # {} =>
    /\ \A e \in E : \E k \in DOMAIN P : P[k].lit = e[1]
    /\ FormOf(PartOf(E, TRUE)) = FormOf(PartOf(E, FALSE))
    /\ DLess(BoundOf(PartOf(E, FALSE)), BoundOf(PartOf(E, TRUE)))

\* The property of a conflict, as a function of explanation and points.
LEMMA ConflictSplit ==
    /\ FarkasConflict <=> Conflict(expl, points)
    /\ FarkasConflict' <=> Conflict(expl', points')
  <1>1. FarkasConflict <=> Conflict(expl, points)
    BY DEF FarkasConflict, Conflict, PartOf, FormOf, BoundOf
  <1>2. FarkasConflict' <=> Conflict(expl', points')
    BY DEF FarkasConflict, Conflict, PartOf, FormOf, BoundOf
  <1> QED
    BY <1>1, <1>2

\* One side of a conflict: a bound and a coefficient for each of some variables.
Side(S, T, lit, wt) ==
  /\ T \in SUBSET Vars
  /\ S = {<<lit[u], wt[u]>> : u \in T}
  /\ \A u \in T : lit[u] \in Literals /\ lit[u].v = u /\ wt[u] \in Rationals

Summands(f, g, T, lit, wt) ==
  \A u \in T : g[u] \in Rationals /\ f[<<lit[u], wt[u]>>] = g[u]

\* A sum over the literals of a side is one over its variables.
LEMMA SideSums ==
    ASSUME NEW S, NEW T, NEW lit, NEW wt, Side(S, T, lit, wt), NEW f, NEW g,
           Summands(f, g, T, lit, wt)
    PROVE  RSum(f, S) = RSum(g, T)
  <1> DEFINE e == [u \in T |-> <<lit[u], wt[u]>>]
  <1>1. T \in SUBSET Vars /\ S = {<<lit[u], wt[u]>> : u \in T} /\ \A u \in T : lit[u].v = u
    BY DEF Side
  <1>2. S = {e[u] : u \in T}
    BY <1>1
  <1>3. \A u, v \in T : e[u] = e[v] => u = v
    <2> SUFFICES ASSUME NEW u \in T, NEW v \in T, e[u] = e[v] PROVE u = v
      OBVIOUS
    <2>1. lit[u] = lit[v]
      OBVIOUS
    <2> QED
      BY <1>1, <2>1
  <1>4. \A u \in T : g[u] \in Rationals /\ f[e[u]] = g[u]
    BY DEF Summands
  <1>5. IsFiniteSet(T)
    BY <1>1, VarsFinite
  <1> HIDE DEF e
  <1>6. RSum(f, {e[u] : u \in T}) = RSum(g, T)
    BY <1>3, <1>4, <1>5, RSumRenamed
  <1> QED
    BY <1>2, <1>6

\* The sums of a side, over the variables of its bounds.
FormSum(T, wt, w) == RSum([u \in Vars |-> RMul(wt[u], Form(u)[w])], T)
BoundSum(T, lit, wt) ==
  Delta(RSum([u \in Vars |-> RMul(wt[u], lit[u].value.r)], T),
        RSum([u \in Vars |-> RMul(wt[u], lit[u].value.d)], T))

\* The form of a side.
LEMMA SideForm ==
    ASSUME NEW S, NEW T, NEW lit, NEW wt, Side(S, T, lit, wt), NEW w \in Vars
    PROVE  FormOf(S)[w] = FormSum(T, wt, w)
  <1> DEFINE f == [e \in S |-> RMul(e[2], Form(e[1].v)[w])]
             g == [u \in Vars |-> RMul(wt[u], Form(u)[w])]
  <1>1. /\ T \in SUBSET Vars /\ S = {<<lit[u], wt[u]>> : u \in T}
        /\ \A u \in T : lit[u].v = u /\ wt[u] \in Rationals
    BY DEF Side
  <1>2. \A u \in T : g[u] \in Rationals /\ f[<<lit[u], wt[u]>>] = g[u]
    <2> SUFFICES ASSUME NEW u \in T PROVE g[u] \in Rationals /\ f[<<lit[u], wt[u]>>] = g[u]
      OBVIOUS
    <2>1. u \in Vars /\ wt[u] \in Rationals /\ Form(u)[w] \in Rationals
      BY <1>1, FormFacts
    <2>2. RMul(wt[u], Form(u)[w]) \in Rationals
      BY <2>1, RationalClosed
    <2>3. <<lit[u], wt[u]>> \in S
      BY <1>1
    <2>4. f[<<lit[u], wt[u]>>] = RMul(wt[u], Form(lit[u].v)[w])
      BY <2>3
    <2> QED
      BY <1>1, <2>1, <2>2, <2>4
  <1> HIDE DEF f, g
  <1>3. RSum(f, S) = RSum(g, T)
    <2>1. Summands(f, g, T, lit, wt)
      BY <1>2 DEF Summands
    <2> QED
      BY <2>1, SideSums
  <1> QED
    BY <1>3 DEF FormOf, FormSum, f, g

\* The bound of a side.
LEMMA SideBound ==
    ASSUME NEW S, NEW T, NEW lit, NEW wt, Side(S, T, lit, wt)
    PROVE  BoundOf(S) = BoundSum(T, lit, wt)
  <1> DEFINE h == [e \in S |-> DMul(e[2], e[1].value)]
             fr == [e \in S |-> h[e].r]
             fd == [e \in S |-> h[e].d]
             gr == [u \in Vars |-> RMul(wt[u], lit[u].value.r)]
             gd == [u \in Vars |-> RMul(wt[u], lit[u].value.d)]
  <1>1. /\ T \in SUBSET Vars /\ S = {<<lit[u], wt[u]>> : u \in T}
        /\ \A u \in T : lit[u] \in Literals /\ wt[u] \in Rationals
    BY DEF Side
  <1>2. \A u \in T : /\ gr[u] \in Rationals /\ fr[<<lit[u], wt[u]>>] = gr[u]
                     /\ gd[u] \in Rationals /\ fd[<<lit[u], wt[u]>>] = gd[u]
    <2> SUFFICES ASSUME NEW u \in T
                 PROVE  /\ gr[u] \in Rationals /\ fr[<<lit[u], wt[u]>>] = gr[u]
                        /\ gd[u] \in Rationals /\ fd[<<lit[u], wt[u]>>] = gd[u]
      OBVIOUS
    <2>1. u \in Vars /\ wt[u] \in Rationals /\ lit[u].value \in Values
      BY <1>1, LiteralFacts
    <2>2. lit[u].value.r \in Rationals /\ lit[u].value.d \in Rationals
      BY <2>1 DEF Values
    <2>3. RMul(wt[u], lit[u].value.r) \in Rationals /\ RMul(wt[u], lit[u].value.d) \in Rationals
      BY <2>1, <2>2, RationalClosed
    <2>4. <<lit[u], wt[u]>> \in S
      BY <1>1
    <2>5. h[<<lit[u], wt[u]>>] = Delta(RMul(wt[u], lit[u].value.r), RMul(wt[u], lit[u].value.d))
      BY <2>4 DEF DMul
    <2>6. h[<<lit[u], wt[u]>>].r = RMul(wt[u], lit[u].value.r) /\ h[<<lit[u], wt[u]>>].d = RMul(wt[u], lit[u].value.d)
      BY <2>5 DEF Delta
    <2>7. fr[<<lit[u], wt[u]>>] = h[<<lit[u], wt[u]>>].r /\ fd[<<lit[u], wt[u]>>] = h[<<lit[u], wt[u]>>].d
      BY <2>4
    <2>8. gr[u] = RMul(wt[u], lit[u].value.r) /\ gd[u] = RMul(wt[u], lit[u].value.d)
      BY <2>1
    <2> QED
      BY <2>3, <2>6, <2>7, <2>8
  <1>3. BoundOf(S) = Delta(RSum(fr, S), RSum(fd, S))
    BY DEF BoundOf, DSum
  <1>4. BoundSum(T, lit, wt) = Delta(RSum(gr, T), RSum(gd, T))
    BY DEF BoundSum
  <1> HIDE DEF h, fr, fd, gr, gd
  <1>5. RSum(fr, S) = RSum(gr, T)
    <2>1. Summands(fr, gr, T, lit, wt)
      BY <1>2 DEF Summands
    <2> QED
      BY <2>1, SideSums
  <1>6. RSum(fd, S) = RSum(gd, T)
    <2>1. Summands(fd, gd, T, lit, wt)
      BY <1>2 DEF Summands
    <2> QED
      BY <2>1, SideSums
  <1> QED
    BY <1>3, <1>4, <1>5, <1>6

\* Two sides whose forms agree and whose bounds do not: they are a conflict.
Opposed(E, P, A, a, B, b, wt) ==
  /\ Side(PartOf(E, TRUE), A, a, wt)
  /\ Side(PartOf(E, FALSE), B, b, wt)
  /\ \A e \in E : \E k \in DOMAIN P : P[k].lit = e[1]
  /\ \A w \in Vars : FormSum(A, wt, w) = FormSum(B, wt, w)
  /\ DLess(BoundSum(B, b, wt), BoundSum(A, a, wt))

\* Such an explanation is a conflict.
LEMMA TwoSides ==
    ASSUME NEW E, NEW P, NEW A, NEW a, NEW B, NEW b, NEW wt, Opposed(E, P, A, a, B, b, wt)
    PROVE  Conflict(E, P)
  <1> DEFINE S == PartOf(E, TRUE)
             R == PartOf(E, FALSE)
  <1>0. Side(S, A, a, wt) /\ Side(R, B, b, wt)
    BY DEF Opposed
  <1>5. \A e \in E : \E k \in DOMAIN P : P[k].lit = e[1]
    BY DEF Opposed
  <1>6. \A w \in Vars : FormSum(A, wt, w) = FormSum(B, wt, w)
    BY DEF Opposed
  <1>7. DLess(BoundSum(B, b, wt), BoundSum(A, a, wt))
    BY DEF Opposed
  <1> HIDE DEF S, R
  <1>1. \A w \in Vars : FormOf(S)[w] = FormOf(R)[w]
    <2> SUFFICES ASSUME NEW w \in Vars PROVE FormOf(S)[w] = FormOf(R)[w]
      OBVIOUS
    <2>1. FormOf(S)[w] = FormSum(A, wt, w)
      BY ONLY <1>0, w \in Vars, SideForm
    <2>2. FormOf(R)[w] = FormSum(B, wt, w)
      BY ONLY <1>0, w \in Vars, SideForm
    <2> QED
      BY <1>6, <2>1, <2>2
  <1>2. FormOf(S) = FormOf(R)
    BY <1>1 DEF FormOf
  <1>3. BoundOf(S) = BoundSum(A, a, wt)
    BY <1>0, SideBound
  <1>4. BoundOf(R) = BoundSum(B, b, wt)
    BY <1>0, SideBound
  <1> QED
    BY <1>2, <1>3, <1>4, <1>5, <1>7 DEF Conflict, S, R

-----------------------------------------------------------------------------
(* The conflict of a refused bound.                                        *)

\* The literal of a bound in force.
LEMMA InForceLit ==
    ASSUME Bounded(points), NEW v \in Vars
    PROVE  /\ LbIn(points, v) \in Values =>
                /\ LbLit(v) \in Literals /\ LbLit(v).v = v /\ LbLit(v).lower = TRUE
                /\ LbLit(v).value = LbIn(points, v)
                /\ \E k \in DOMAIN points : points[k].lit = LbLit(v)
           /\ UbIn(points, v) \in Values =>
                /\ UbLit(v) \in Literals /\ UbLit(v).v = v /\ UbLit(v).lower = FALSE
                /\ UbLit(v).value = UbIn(points, v)
                /\ \E k \in DOMAIN points : points[k].lit = UbLit(v)
  <1>1. \A lower : InForce(v, lower) = ForceIn(points, v, lower)
    BY DEF InForce, ForceIn
  <1>2. LbLit(v) = LowIn(points, v) /\ UbLit(v) = UppIn(points, v)
    BY <1>1 DEF LbLit, UbLit, LowIn, UppIn
  <1>3. /\ ForceIn(points, v, TRUE) # {} <=> LbIn(points, v) \in Values
        /\ ForceIn(points, v, FALSE) # {} <=> UbIn(points, v) \in Values
        /\ ForceIn(points, v, TRUE) # {} => LbIn(points, v) = LowIn(points, v).value
        /\ ForceIn(points, v, FALSE) # {} => UbIn(points, v) = UppIn(points, v).value
    BY BoundTypes
  <1>4. ASSUME LbIn(points, v) \in Values
        PROVE  /\ LbLit(v) \in Literals /\ LbLit(v).v = v /\ LbLit(v).lower = TRUE
               /\ LbLit(v).value = LbIn(points, v)
               /\ \E k \in DOMAIN points : points[k].lit = LbLit(v)
    <2>1. PICK n : n = Newest(ForceIn(points, v, TRUE))
      OBVIOUS
    <2>2. /\ n \in DOMAIN points
          /\ points[n].lit \in Literals /\ points[n].lit.v = v /\ points[n].lit.lower = TRUE
      BY <1>3, <1>4, <2>1, Strongest
    <2>3. LbLit(v) = points[n].lit
      BY <1>2, <2>1 DEF LowIn
    <2> QED
      BY <1>2, <1>3, <1>4, <2>2, <2>3
  <1>5. ASSUME UbIn(points, v) \in Values
        PROVE  /\ UbLit(v) \in Literals /\ UbLit(v).v = v /\ UbLit(v).lower = FALSE
               /\ UbLit(v).value = UbIn(points, v)
               /\ \E k \in DOMAIN points : points[k].lit = UbLit(v)
    <2>1. PICK n : n = Newest(ForceIn(points, v, FALSE))
      OBVIOUS
    <2>2. /\ n \in DOMAIN points
          /\ points[n].lit \in Literals /\ points[n].lit.v = v /\ points[n].lit.lower = FALSE
      BY <1>3, <1>5, <2>1, Strongest
    <2>3. UbLit(v) = points[n].lit
      BY <1>2, <2>1 DEF UppIn
    <2> QED
      BY <1>2, <1>3, <1>5, <2>2, <2>3
  <1> QED
    BY <1>4, <1>5

\* A sum with one summand.
LEMMA RSumOne ==
    ASSUME NEW f, NEW v, f[v] \in Rationals
    PROVE  RSum(f, {v}) = f[v]
  <1>1. IsFiniteSet({v}) /\ IsFiniteSet({})
    BY FS_EmptySet, FS_Singleton
  <1>2. RSum(f, {v}) = RAdd(f[v], RSum(f, {v} \ {v}))
    BY <1>1, RSumAt
  <1>3. RSum(f, {}) = Zero
    BY <1>1, RSumEquation
  <1>4. {v} \ {v} = {}
    OBVIOUS
  <1> QED
    BY <1>2, <1>3, <1>4, Neutral

\* The bound of one literal.
LEMMA BoundOne ==
    ASSUME NEW v \in Vars, NEW l \in Literals
    PROVE  BoundSum({v}, [u \in Vars |-> l], [u \in Vars |-> One]) = l.value
  <1> DEFINE lit == [u \in Vars |-> l]
             wt == [u \in Vars |-> One]
             fr == [u \in Vars |-> RMul(wt[u], lit[u].value.r)]
             fd == [u \in Vars |-> RMul(wt[u], lit[u].value.d)]
  <1>1. l.value \in Values /\ l.value.r \in Rationals /\ l.value.d \in Rationals
    BY LiteralFacts DEF Values
  <1>2. l.value = Delta(l.value.r, l.value.d)
    BY <1>1 DEF Values, Delta
  <1>3. RMul(One, l.value.r) = l.value.r /\ RMul(One, l.value.d) = l.value.d
    BY <1>1, Neutral
  <1>4. fr[v] = l.value.r /\ fd[v] = l.value.d
    BY <1>3
  <1>5. BoundSum({v}, lit, wt) = Delta(RSum(fr, {v}), RSum(fd, {v}))
    BY DEF BoundSum
  <1> HIDE DEF lit, wt, fr, fd
  <1>6. RSum(fr, {v}) = l.value.r /\ RSum(fd, {v}) = l.value.d
    BY <1>1, <1>4, RSumOne
  <1> QED
    BY <1>2, <1>5, <1>6 DEF lit, wt

\* Two bounds of a variable that exclude each other.
Excluding(E, P, lo, hi) ==
  /\ lo \in Literals /\ hi \in Literals /\ lo.v = hi.v /\ lo.lower = TRUE /\ hi.lower = FALSE
  /\ DLess(hi.value, lo.value) /\ E = {<<lo, One>>, <<hi, One>>}
  /\ \E k \in DOMAIN P : P[k].lit = lo
  /\ \E k \in DOMAIN P : P[k].lit = hi

\* A lower bound above an upper one is a conflict.
LEMMA TwoBounds ==
    ASSUME NEW E, NEW P, NEW lo, NEW hi, Excluding(E, P, lo, hi)
    PROVE  Conflict(E, P)
  <1> DEFINE v == lo.v
             a == [u \in Vars |-> lo]
             b == [u \in Vars |-> hi]
             wt == [u \in Vars |-> One]
  <1>0. /\ lo \in Literals /\ hi \in Literals /\ lo.v = hi.v /\ lo.lower = TRUE /\ hi.lower = FALSE
        /\ DLess(hi.value, lo.value) /\ E = {<<lo, One>>, <<hi, One>>}
        /\ \E k \in DOMAIN P : P[k].lit = lo
        /\ \E k \in DOMAIN P : P[k].lit = hi
    BY DEF Excluding
  <1>1. v \in Vars /\ One \in Rationals
    BY <1>0, LiteralFacts, ZeroOne
  <1>2. PartOf(E, TRUE) = {<<lo, One>>} /\ PartOf(E, FALSE) = {<<hi, One>>}
    BY <1>0 DEF PartOf
  <1>3. a[v] = lo /\ b[v] = hi /\ wt[v] = One
    BY <1>1
  <1>4. Side(PartOf(E, TRUE), {v}, a, wt)
    <2>1. {<<a[u], wt[u]>> : u \in {v}} = {<<lo, One>>}
      BY <1>3
    <2> QED
      BY <1>0, <1>1, <1>2, <1>3, <2>1 DEF Side
  <1>5. Side(PartOf(E, FALSE), {v}, b, wt)
    <2>1. {<<b[u], wt[u]>> : u \in {v}} = {<<hi, One>>}
      BY <1>3
    <2> QED
      BY <1>0, <1>1, <1>2, <1>3, <2>1 DEF Side
  <1>6. BoundSum({v}, a, wt) = lo.value /\ BoundSum({v}, b, wt) = hi.value
    BY <1>0, <1>1, BoundOne
  <1>7. \A e \in E : \E k \in DOMAIN P : P[k].lit = e[1]
    BY <1>0
  <1> HIDE DEF v, a, b, wt
  <1>8. \A w \in Vars : FormSum({v}, wt, w) = FormSum({v}, wt, w)
    OBVIOUS
  <1>9. DLess(BoundSum({v}, b, wt), BoundSum({v}, a, wt))
    BY <1>0, <1>6
  <1>10. Opposed(E, P, {v}, a, {v}, b, wt)
    BY <1>4, <1>5, <1>7, <1>8, <1>9 DEF Opposed
  <1> QED
    BY ONLY <1>10, TwoSides

\* A bound that is refused is in conflict with the one in force.
LEMMA RefusedConflict ==
    ASSUME TypeInv, BoundsInv, NEW l \in Literals, AssertRefused(l)
    PROVE  Conflict(expl', points')
  <1>1. /\ boundUnsatisfied(l)
        /\ points' = Append(points, Point(l, FALSE, FALSE))
        /\ expl' = {<<IF l.lower THEN UbLit(l.v) ELSE LbLit(l.v), One>>, <<l, One>>}
    BY DEF AssertRefused
  <1>2. Bounded(points) /\ points \in Seq(Points)
    BY BoundsKnown
  <1>3. PICK n, Q : n = Len(points) + 1 /\ Q = points'
    OBVIOUS
  <1>4. Extends(Q, points, n, l, FALSE, FALSE)
    BY <1>1, <1>2, <1>3, Appended
  <1>5. /\ \A m : (\E k \in DOMAIN points : points[k].lit = m) => \E k \in DOMAIN Q : Q[k].lit = m
        /\ \E k \in DOMAIN Q : Q[k].lit = l
    BY <1>4 DEF Extends
  <1>6. /\ l.v \in Vars /\ l.lower \in BOOLEAN /\ l.value \in Values
        /\ LbIn(points, l.v) \in Extended /\ UbIn(points, l.v) \in Extended
        /\ LbIn(points, l.v) # PlusInf /\ UbIn(points, l.v) # MinusInf
    BY <1>2, LiteralFacts, BoundTypes
  <1>7. UnsatIn(points, l)
    BY <1>1, UnsatFacts
  <1>8. CASE l.lower
    <2>1. PICK lo, hi : lo = l /\ hi = UbLit(l.v)
      OBVIOUS
    <2>2. DLess(UbIn(points, l.v), l.value)
      BY <1>7, <1>8 DEF UnsatIn
    <2>3. UbIn(points, l.v) \in Values
      <3>1. ~ DLess(PlusInf, l.value)
        BY <1>6, InfinityOrder
      <3> QED
        BY <1>6, <2>2, <3>1 DEF Extended
    <2>4. /\ hi \in Literals /\ hi.v = l.v /\ hi.lower = FALSE /\ hi.value = UbIn(points, l.v)
          /\ \E k \in DOMAIN points : points[k].lit = hi
      BY <1>2, <1>6, <2>1, <2>3, InForceLit
    <2>5. expl' = {<<lo, One>>, <<hi, One>>} /\ lo.lower = TRUE
      BY <1>1, <1>6, <1>8, <2>1
    <2>6. \E k \in DOMAIN Q : Q[k].lit = hi
      BY <1>5, <2>4
    <2>7. PICK E : E = expl'
      OBVIOUS
    <2>8. Conflict(E, Q)
      <3>1. Excluding(E, Q, lo, hi)
        BY <1>5, <2>1, <2>2, <2>4, <2>5, <2>6, <2>7 DEF Excluding
      <3> QED
        BY <3>1, TwoBounds
    <2> QED
      BY <1>3, <2>7, <2>8
  <1>9. CASE ~ l.lower
    <2>1. PICK lo, hi : hi = l /\ lo = LbLit(l.v)
      OBVIOUS
    <2>2. DLess(l.value, LbIn(points, l.v))
      BY <1>7, <1>9 DEF UnsatIn
    <2>3. LbIn(points, l.v) \in Values
      <3>1. ~ DLess(l.value, MinusInf)
        BY <1>6, InfinityOrder
      <3> QED
        BY <1>6, <2>2, <3>1 DEF Extended
    <2>4. /\ lo \in Literals /\ lo.v = l.v /\ lo.lower = TRUE /\ lo.value = LbIn(points, l.v)
          /\ \E k \in DOMAIN points : points[k].lit = lo
      BY <1>2, <1>6, <2>1, <2>3, InForceLit
    <2>5. expl' = {<<lo, One>>, <<hi, One>>} /\ hi.lower = FALSE
      BY <1>1, <1>6, <1>9, <2>1
    <2>6. \E k \in DOMAIN Q : Q[k].lit = lo
      BY <1>5, <2>4
    <2>7. PICK E : E = expl'
      OBVIOUS
    <2>8. Conflict(E, Q)
      <3>1. Excluding(E, Q, lo, hi)
        BY <1>5, <2>1, <2>2, <2>4, <2>5, <2>6, <2>7 DEF Excluding
      <3> QED
        BY <3>1, TwoBounds
    <2> QED
      BY <1>3, <2>7, <2>8
  <1> QED
    BY <1>6, <1>8, <1>9

-----------------------------------------------------------------------------
(* Terms that do not help.                                                 *)

\* What a variable that does not help is held by: its bound on the side it would leave.
AtLow(x, u) == RLess(row[x][u], Zero) = TooLow(x)

\* A term that does not help stands at one of its bounds.
LEMMA TermBound ==
    ASSUME TypeInv, Bounded(points), WithinBounds(points, val, NonBasic),
           NEW x \in Vars, Helpers(x) = {}, NEW u \in Terms(row[x]), u \in NonBasic
    PROVE  /\ AtLow(x, u) => LbIn(points, u) = val[u]
           /\ ~ AtLow(x, u) => UbIn(points, u) = val[u]
  <1> DEFINE lo == LbIn(points, u)
             up == UbIn(points, u)
             c == row[x][u]
  <1>1. u \in Vars /\ row[x] \in Polys
    BY KindFacts DEF TypeInv
  <1>2. val[u] \in Extended
    BY <1>1 DEF TypeInv, Extended
  <1>3. lo \in Extended /\ up \in Extended
    BY <1>1, BoundTypes
  <1>4. ~ DLess(val[u], lo) /\ ~ DLess(up, val[u])
    BY DEF WithinBounds, OutIn
  <1>5. ~ Helps(x, u)
    BY DEF Helpers
  <1>6. /\ RLess(c, Zero) \in BOOLEAN /\ RLess(Zero, c) \in BOOLEAN /\ TooLow(x) \in BOOLEAN
        /\ RLess(c, Zero) <=> ~ RLess(Zero, c)
    <2>1. u \in NegTerms(row[x]) \/ u \in PosTerms(row[x])
      BY <1>1, TermSigns
    <2>2. RLess(c, Zero) <=> ~ RLess(Zero, c)
      BY <1>1, <2>1, TermSigns
    <2>3. RLess(c, Zero) \in BOOLEAN /\ RLess(Zero, c) \in BOOLEAN
      BY DEF RLess
    <2>4. TooLow(x) \in BOOLEAN
      BY DEF TooLow, DLess
    <2> QED
      BY <2>2, <2>3, <2>4
  <1>7. Lb(u) = lo /\ Ub(u) = up
    BY BoundsIn
  <1>8. /\ RLess(Zero, c) = TooLow(x) => ~ DLess(val[u], up)
        /\ ~ (RLess(Zero, c) = TooLow(x)) => ~ DLess(lo, val[u])
    BY <1>5, <1>7 DEF Helps
  <1>9. PICK neg, pos, low : neg = RLess(c, Zero) /\ pos = RLess(Zero, c) /\ low = TooLow(x)
    OBVIOUS
  <1>10. neg \in BOOLEAN /\ pos \in BOOLEAN /\ low \in BOOLEAN /\ (neg <=> ~ pos)
    BY ONLY <1>6, <1>9, Zenon
  <1>11. (neg = low) <=> ~ (pos = low)
    BY ONLY <1>10
  <1>12. AtLow(x, u) => ~ DLess(lo, val[u])
    BY <1>8, <1>9, <1>11, Zenon DEF AtLow
  <1>13. ~ AtLow(x, u) => ~ DLess(val[u], up)
    BY <1>8, <1>9, <1>11, Zenon DEF AtLow
  <1> HIDE DEF lo, up, c
  <1>14. AtLow(x, u) => lo = val[u]
    BY <1>2, <1>3, <1>4, <1>12, ValueOrder
  <1>15. ~ AtLow(x, u) => up = val[u]
    BY <1>2, <1>3, <1>4, <1>13, ValueOrder
  <1> QED
    BY <1>14, <1>15 DEF lo, up

-----------------------------------------------------------------------------
\* The sums of the weighted terms, with and without one more variable.
Weighted(h, p, g, T, x, b) ==
  /\ p \in Polys /\ g \in Numbers /\ T \in SUBSET Vars /\ x \in Vars /\ x \notin T /\ b \in Rationals
  /\ h[x] = b
  /\ \A u \in T : h[u] = RMul(Weight(p[u]), g[u])

\* The sum of the weighted terms.
LEMMA WeightedRest ==
    ASSUME NEW h, NEW p, NEW g, NEW T, NEW x, NEW b, Weighted(h, p, g, T, x, b)
    PROVE  RSum(h, T) = SumOver(p, g, T)
  <1>1. /\ p \in Polys /\ g \in Numbers /\ T \in SUBSET Vars
        /\ \A u \in T : h[u] = RMul(Weight(p[u]), g[u])
    BY DEF Weighted
  <1> DEFINE f == [u \in Vars |-> RMul(Weight(p[u]), g[u])]
  <1>2. \A u \in T : h[u] \in Rationals /\ h[u] = f[u]
    BY <1>1, SumOverFacts
  <1>3. IsFiniteSet(T)
    BY <1>1, VarsFinite
  <1>4. SumOver(p, g, T) = RSum(f, T)
    BY DEF SumOver
  <1> HIDE DEF f
  <1>5. RSum(h, T) = RSum(f, T)
    BY <1>2, <1>3, RSumSame
  <1> QED
    BY <1>4, <1>5

\* The sum with the further variable.
LEMMA WeightedMore ==
    ASSUME NEW h, NEW p, NEW g, NEW T, NEW x, NEW b, Weighted(h, p, g, T, x, b)
    PROVE  RSum(h, {x} \cup T) = RAdd(b, SumOver(p, g, T))
  <1>1. /\ p \in Polys /\ g \in Numbers /\ T \in SUBSET Vars /\ x \in Vars /\ x \notin T /\ b \in Rationals
        /\ h[x] = b
        /\ \A u \in T : h[u] = RMul(Weight(p[u]), g[u])
    BY DEF Weighted
  <1>2. \A u \in T : h[u] \in Rationals
    BY <1>1, SumOverFacts
  <1>3. PICK S : S = {x} \cup T
    OBVIOUS
  <1>4. IsFiniteSet(S)
    <2>1. S \in SUBSET Vars
      BY <1>1, <1>3
    <2> QED
      BY <2>1, VarsFinite
  <1>5. (\A u \in S : h[u] \in Rationals) /\ x \in S /\ S \ {x} = T
    BY <1>1, <1>2, <1>3
  <1>6. RSum(h, S) = RAdd(h[x], RSum(h, S \ {x}))
    BY <1>4, <1>5, RSumAt
  <1>7. RSum(h, T) = SumOver(p, g, T)
    BY ONLY Weighted(h, p, g, T, x, b), WeightedRest
  <1> QED
    BY <1>1, <1>3, <1>5, <1>6, <1>7

\* The same shift on both sides.
LEMMA DeltaShift ==
    ASSUME NEW a \in Values, NEW b \in Values, NEW m \in Rationals, NEW n \in Rationals
    PROVE  DLess(Delta(RAdd(a.r, m), RAdd(a.d, n)), Delta(RAdd(b.r, m), RAdd(b.d, n))) <=> DLess(a, b)
  <1>1. /\ a.r \in Rationals /\ a.d \in Rationals /\ b.r \in Rationals /\ b.d \in Rationals
        /\ a.inf = 0 /\ b.inf = 0
    BY DEF Values
  <1>2. RLess(RAdd(a.r, m), RAdd(b.r, m)) <=> RLess(a.r, b.r)
    BY <1>1, AddLess
  <1>3. RLess(RAdd(a.d, n), RAdd(b.d, n)) <=> RLess(a.d, b.d)
    BY <1>1, AddLess
  <1>4. RAdd(a.r, m) = RAdd(b.r, m) <=> a.r = b.r
    <2>1. RAdd(a.r, m) = RAdd(m, a.r) /\ RAdd(b.r, m) = RAdd(m, b.r)
      BY <1>1, AddCommutes
    <2>2. RSub(RAdd(a.r, m), m) = a.r
      BY <1>1, SubFacts
    <2>3. RSub(RAdd(b.r, m), m) = b.r
      BY <1>1, SubFacts
    <2> QED
      BY <2>2, <2>3
  <1> HIDE DEF RLess, RAdd
  <1>5. DLess(a, b) <=> RLess(a.r, b.r) \/ (a.r = b.r /\ RLess(a.d, b.d))
    BY <1>1 DEF DLess, isInf
  <1>6. DLess(Delta(RAdd(a.r, m), RAdd(a.d, n)), Delta(RAdd(b.r, m), RAdd(b.d, n)))
          <=> RLess(RAdd(a.r, m), RAdd(b.r, m))
                \/ (RAdd(a.r, m) = RAdd(b.r, m) /\ RLess(RAdd(a.d, n), RAdd(b.d, n)))
    BY DEF DLess, isInf, Delta
  <1> QED
    BY <1>2, <1>3, <1>4, <1>5, <1>6

\* An explanation whose bounds are lower for the variables of A, upper for those of B.
LEMMA SidesOf ==
    ASSUME NEW E, NEW A \in SUBSET Vars, NEW B \in SUBSET Vars, NEW lit, NEW wt,
           E = {<<lit[u], wt[u]>> : u \in A \cup B},
           \A u \in A \cup B : lit[u] \in Literals /\ lit[u].v = u /\ wt[u] \in Rationals,
           \A u \in A : lit[u].lower = TRUE, \A u \in B : lit[u].lower = FALSE
    PROVE  Side(PartOf(E, TRUE), A, lit, wt) /\ Side(PartOf(E, FALSE), B, lit, wt)
  <1>1. PartOf(E, TRUE) = {<<lit[u], wt[u]>> : u \in A}
    BY DEF PartOf
  <1>2. PartOf(E, FALSE) = {<<lit[u], wt[u]>> : u \in B}
    BY DEF PartOf
  <1> QED
    BY <1>1, <1>2 DEF Side

-----------------------------------------------------------------------------
(* The explanation of a check.                                             *)

\* The bounds of a conflict and their coefficients, by variable.
ConflictLit(x) ==
  [u \in Vars |-> IF u = x THEN IF TooLow(x) THEN LbLit(x) ELSE UbLit(x)
                  ELSE IF AtLow(x, u) THEN LbLit(u) ELSE UbLit(u)]
ConflictWt(x) == [u \in Vars |-> IF u = x THEN One ELSE Weight(row[x][u])]

Stuck(x) == x \in Basic /\ OutOfBounds(val, x) /\ Helpers(x) = {}

\* The literals and the weights of getConflictingBounds.
LEMMA ConflictShape ==
    ASSUME SInv, NEW x, Stuck(x)
    PROVE  /\ x \in Vars /\ row[x] \in Polys /\ x \notin Terms(row[x]) /\ Terms(row[x]) \in SUBSET Vars
           /\ getConflictingBounds(x) =
                {<<ConflictLit(x)[u], ConflictWt(x)[u]>> : u \in {x} \cup Terms(row[x])}
           /\ ConflictWt(x)[x] = One
           /\ \A u \in Terms(row[x]) : ConflictWt(x)[u] = Weight(row[x][u])
  <1>1. TypeInv /\ TableauConsistent /\ x \in Basic
    BY DEF SInv, Stuck
  <1>2. x \in Vars /\ x \notin NonBasic /\ x \notin Quasi /\ row[x] \in Polys
    BY <1>1, KindFacts
  <1>3. Terms(row[x]) \in SUBSET Vars /\ x \notin Terms(row[x])
    <2>1. Terms(row[x]) \subseteq NonBasic
      BY <1>1, <1>2, RowTerms
    <2> QED
      BY <1>2, <2>1, PolyFacts
  <1> DEFINE lit == ConflictLit(x)
             wt == ConflictWt(x)
  <1>4. /\ lit[x] = IF TooLow(x) THEN LbLit(x) ELSE UbLit(x)
        /\ wt[x] = One
    BY <1>2 DEF ConflictLit, ConflictWt
  <1>5. \A u \in Terms(row[x]) :
          /\ lit[u] = IF AtLow(x, u) THEN LbLit(u) ELSE UbLit(u)
          /\ wt[u] = Weight(row[x][u])
    BY <1>3 DEF ConflictLit, ConflictWt
  <1>6. getConflictingBounds(x) =
          {<<IF TooLow(x) THEN LbLit(x) ELSE UbLit(x), One>>} \cup
          {<<IF AtLow(x, u) THEN LbLit(u) ELSE UbLit(u), Weight(row[x][u])>> : u \in Terms(row[x])}
    BY DEF getConflictingBounds, AtLow
  <1> HIDE DEF lit, wt
  <1>7. getConflictingBounds(x) = {<<lit[u], wt[u]>> : u \in {x} \cup Terms(row[x])}
    BY <1>4, <1>5, <1>6
  <1> QED
    BY <1>2, <1>3, <1>4, <1>5, <1>7 DEF lit, wt

\* The bound x violates.
LEMMA ViolatedBound ==
    ASSUME SInv, NEW x, Stuck(x)
    PROVE  LET l == ConflictLit(x)[x] IN
             /\ l \in Literals /\ l.v = x /\ (\E k \in DOMAIN points : points[k].lit = l)
             /\ TooLow(x) => l.lower = TRUE /\ DLess(val[x], l.value)
             /\ ~ TooLow(x) => l.lower = FALSE /\ DLess(l.value, val[x])
  <1>1. TypeInv /\ BoundsInv /\ x \in Basic /\ OutOfBounds(val, x)
    BY DEF SInv, Stuck
  <1>2. x \in Vars /\ val[x] \in Values /\ Bounded(points)
    BY <1>1, KindFacts, BoundsKnown DEF TypeInv
  <1>3. /\ LbIn(points, x) \in Extended /\ UbIn(points, x) \in Extended
        /\ LbIn(points, x) # PlusInf /\ UbIn(points, x) # MinusInf
    BY <1>2, BoundTypes
  <1>4. ~ DLess(val[x], MinusInf) /\ ~ DLess(PlusInf, val[x])
    BY <1>2, InfinityOrder
  <1>5. CASE TooLow(x)
    <2>1. DLess(val[x], LbIn(points, x))
      BY <1>5, BoundsIn DEF TooLow
    <2>2. LbIn(points, x) \in Values
      BY <1>3, <1>4, <2>1 DEF Extended
    <2>3. ConflictLit(x)[x] = LbLit(x)
      BY <1>2, <1>5 DEF ConflictLit
    <2>4. /\ LbLit(x) \in Literals /\ LbLit(x).v = x /\ LbLit(x).lower = TRUE
          /\ LbLit(x).value = LbIn(points, x)
          /\ \E k \in DOMAIN points : points[k].lit = LbLit(x)
      BY <1>2, <2>2, InForceLit
    <2> QED
      BY <1>5, <2>1, <2>3, <2>4
  <1>6. CASE ~ TooLow(x)
    <2>1. DLess(UbIn(points, x), val[x])
      BY <1>1, <1>6, BoundsIn DEF TooLow, OutOfBounds
    <2>2. UbIn(points, x) \in Values
      BY <1>3, <1>4, <2>1 DEF Extended
    <2>3. ConflictLit(x)[x] = UbLit(x)
      BY <1>2, <1>6 DEF ConflictLit
    <2>4. /\ UbLit(x) \in Literals /\ UbLit(x).v = x /\ UbLit(x).lower = FALSE
          /\ UbLit(x).value = UbIn(points, x)
          /\ \E k \in DOMAIN points : points[k].lit = UbLit(x)
      BY <1>2, <2>2, InForceLit
    <2> QED
      BY <1>6, <2>1, <2>3, <2>4
  <1> QED
    BY <1>5, <1>6

\* The bounds the terms of its row are held by.
LEMMA HoldingBound ==
    ASSUME SInv, NEW x, Stuck(x), NEW u \in Terms(row[x])
    PROVE  LET l == ConflictLit(x)[u] IN
             /\ l \in Literals /\ l.v = u /\ (\E k \in DOMAIN points : points[k].lit = l)
             /\ l.value = val[u]
             /\ AtLow(x, u) => l.lower = TRUE
             /\ ~ AtLow(x, u) => l.lower = FALSE
  <1>1. TypeInv /\ BoundsInv /\ TableauConsistent /\ NonBasicWithinBounds /\ x \in Basic /\ Helpers(x) = {}
    BY DEF SInv, Stuck
  <1>2. x \in Vars /\ x \notin Quasi /\ Bounded(points) /\ WithinBounds(points, val, NonBasic)
    BY <1>1, KindFacts, BoundsKnown, WithinSplit
  <1>3. u \in NonBasic /\ u \in Vars /\ u # x
    <2>1. Terms(row[x]) \subseteq NonBasic
      BY <1>1, <1>2, RowTerms
    <2> QED
      BY <1>1, <2>1, KindFacts
  <1>4. val[u] \in Values
    BY <1>1, <1>3 DEF TypeInv
  <1>5. /\ AtLow(x, u) => LbIn(points, u) = val[u]
        /\ ~ AtLow(x, u) => UbIn(points, u) = val[u]
    BY <1>1, <1>2, <1>3, TermBound
  <1>6. ConflictLit(x)[u] = IF AtLow(x, u) THEN LbLit(u) ELSE UbLit(u)
    BY <1>3 DEF ConflictLit
  <1>7. CASE AtLow(x, u)
    <2>1. /\ LbLit(u) \in Literals /\ LbLit(u).v = u /\ LbLit(u).lower = TRUE
          /\ LbLit(u).value = LbIn(points, u)
          /\ \E k \in DOMAIN points : points[k].lit = LbLit(u)
      BY <1>2, <1>3, <1>4, <1>5, <1>7, InForceLit
    <2> QED
      BY <1>5, <1>6, <1>7, <2>1
  <1>8. CASE ~ AtLow(x, u)
    <2>1. /\ UbLit(u) \in Literals /\ UbLit(u).v = u /\ UbLit(u).lower = FALSE
          /\ UbLit(u).value = UbIn(points, u)
          /\ \E k \in DOMAIN points : points[k].lit = UbLit(u)
      BY <1>2, <1>3, <1>4, <1>5, <1>8, InForceLit
    <2> QED
      BY <1>5, <1>6, <1>8, <2>1
  <1> QED
    BY <1>7, <1>8

\* The side a term is held on follows from the sign of its coefficient.
LEMMA HoldingSide ==
    ASSUME SInv, NEW x, Stuck(x)
    PROVE  /\ \A u \in NegTerms(row[x]) : AtLow(x, u) <=> TooLow(x)
           /\ \A u \in PosTerms(row[x]) : AtLow(x, u) <=> ~ TooLow(x)
  <1>1. row[x] \in Polys
    BY ConflictShape
  <1>2. PICK low : low = TooLow(x)
    OBVIOUS
  <1>3. low \in BOOLEAN
    BY <1>2 DEF TooLow, DLess
  <1>4. ASSUME NEW u \in NegTerms(row[x])
        PROVE  AtLow(x, u) <=> TooLow(x)
    <2>1. RLess(row[x][u], Zero) = TRUE
      BY <1>1, TermSigns DEF RLess
    <2>2. AtLow(x, u) <=> TRUE = low
      BY <1>2, <2>1, Zenon DEF AtLow
    <2> QED
      BY <1>2, <1>3, <2>2
  <1>5. ASSUME NEW u \in PosTerms(row[x])
        PROVE  AtLow(x, u) <=> ~ TooLow(x)
    <2>1. RLess(row[x][u], Zero) = FALSE
      BY <1>1, TermSigns DEF RLess
    <2>2. AtLow(x, u) <=> FALSE = low
      BY <1>2, <2>1, Zenon DEF AtLow
    <2> QED
      BY <1>2, <1>3, <2>2
  <1> QED
    BY <1>4, <1>5

-----------------------------------------------------------------------------
(* Conflicts.                                                              *)

\* The two sides of the explanation weigh the same.
LEMMA ConflictForms ==
    ASSUME SInv, NEW x, Stuck(x), NEW w \in Vars
    PROVE  FormSum({x} \cup NegTerms(row[x]), ConflictWt(x), w) = FormSum(PosTerms(row[x]), ConflictWt(x), w)
  <1>1. PICK p, m, q, wt, g, b : /\ p = row[x] /\ m = NegTerms(p) /\ q = PosTerms(p) /\ wt = ConflictWt(x)
                                 /\ g = Column(w) /\ b = Form(x)[w]
    OBVIOUS
  <1>2. /\ x \in Vars /\ p \in Polys /\ x \notin Terms(p) /\ wt[x] = One
        /\ \A u \in Terms(p) : wt[u] = Weight(p[u])
    BY <1>1, ConflictShape
  <1>3. /\ m \in SUBSET Vars /\ q \in SUBSET Vars /\ Terms(p) = m \cup q
    BY <1>1, <1>2, TermSigns
  <1>4. g \in Numbers /\ b \in Rationals /\ \A u \in Vars : g[u] = Form(u)[w]
    BY <1>1, <1>2, FormFacts
  <1>5. x \in Vars \ NonBasic /\ RowsInv
    BY KindFacts DEF SInv, Stuck
  <1>6. b = Dot(p, g)
    BY <1>1, <1>5, RowsSayForms
  <1> DEFINE h == [u \in Vars |-> RMul(wt[u], Form(u)[w])]
  <1>7. h[x] = b
    BY <1>1, <1>2, <1>4, Neutral
  <1>8. \A u \in Terms(p) : h[u] = RMul(Weight(p[u]), g[u])
    BY <1>2, <1>3, <1>4
  <1>9. (\A T : FormSum(T, wt, w) = RSum(h, T))
    BY DEF FormSum
  <1> HIDE DEF h
  <1>10. Weighted(h, p, g, m, x, b) /\ Weighted(h, p, g, q, x, b)
    BY <1>2, <1>3, <1>4, <1>7, <1>8 DEF Weighted
  <1>11. RSum(h, {x} \cup m) = RAdd(b, SumOver(p, g, m))
    BY <1>10, WeightedMore
  <1>12. RSum(h, q) = SumOver(p, g, q)
    <2>1. Weighted(h, p, g, q, x, b)
      BY <1>10
    <2> QED
      BY ONLY <2>1, WeightedRest
  <1>13. RAdd(Dot(p, g), SumOver(p, g, m)) = SumOver(p, g, q)
    BY <1>1, <1>2, <1>4, SplitSum
  <1>14. FormSum({x} \cup m, wt, w) = FormSum(q, wt, w)
    BY <1>6, <1>9, <1>11, <1>12, <1>13
  <1> QED
    BY <1>1, <1>14

\* Their bounds differ as the value of x and the bound it violates.
LEMMA ConflictBounds ==
    ASSUME SInv, NEW x, Stuck(x)
    PROVE  \E i \in Rationals : \E j \in Rationals :
             LET b == ConflictLit(x)[x].value IN
             /\ BoundSum({x} \cup NegTerms(row[x]), ConflictLit(x), ConflictWt(x))
                  = Delta(RAdd(b.r, i), RAdd(b.d, j))
             /\ BoundSum(PosTerms(row[x]), ConflictLit(x), ConflictWt(x))
                  = Delta(RAdd(val[x].r, i), RAdd(val[x].d, j))
             /\ b \in Values /\ val[x] \in Values
  <1>1. PICK p, m, q, lit, wt, b : /\ p = row[x] /\ m = NegTerms(p) /\ q = PosTerms(p)
                                   /\ wt = ConflictWt(x) /\ lit = ConflictLit(x) /\ b = lit[x].value
    OBVIOUS
  <1>2. PICK gr, gd : gr = RParts(val) /\ gd = DParts(val)
    OBVIOUS
  <1>3. /\ x \in Vars /\ p \in Polys /\ x \notin Terms(p) /\ wt[x] = One
        /\ \A u \in Terms(p) : wt[u] = Weight(p[u])
    BY <1>1, ConflictShape
  <1>4. /\ m \in SUBSET Vars /\ q \in SUBSET Vars /\ Terms(p) = m \cup q
    BY <1>1, <1>3, TermSigns
  <1>5. val \in ValueMaps /\ x \in Basic /\ ValuesConsistent
    BY DEF SInv, TypeInv, ValueMaps, Stuck
  <1>6. gr \in Numbers /\ gd \in Numbers /\ \A u \in Vars : gr[u] = val[u].r /\ gd[u] = val[u].d
    BY <1>2, <1>5, PartsFacts
  <1>7. val[x] = Eval(p, val)
    BY <1>1, <1>5 DEF ValuesConsistent
  <1>8. Holds(p, x, gr) /\ Holds(p, x, gd)
    BY <1>2, <1>3, <1>5, <1>7, EvalParts
  <1>9. val[x].r = Dot(p, gr) /\ val[x].d = Dot(p, gd)
    BY <1>3, <1>6, <1>8 DEF Holds
  <1>10. b \in Values /\ b.r \in Rationals /\ b.d \in Rationals
    <2>1. lit[x] \in Literals
      BY <1>1, ViolatedBound
    <2> QED
      BY <1>1, <2>1, LiteralFacts DEF Values
  <1>11. \A u \in Terms(p) : lit[u].value = val[u]
    BY <1>1, HoldingBound
  <1> DEFINE hr == [u \in Vars |-> RMul(wt[u], lit[u].value.r)]
             hd == [u \in Vars |-> RMul(wt[u], lit[u].value.d)]
  <1>12. hr[x] = b.r /\ hd[x] = b.d
    BY <1>1, <1>3, <1>10, Neutral
  <1>13. \A u \in Terms(p) : hr[u] = RMul(Weight(p[u]), gr[u]) /\ hd[u] = RMul(Weight(p[u]), gd[u])
    BY <1>3, <1>4, <1>6, <1>11
  <1>14. \A T : BoundSum(T, lit, wt) = Delta(RSum(hr, T), RSum(hd, T))
    BY DEF BoundSum
  <1> HIDE DEF hr, hd
  <1>15. /\ Weighted(hr, p, gr, m, x, b.r) /\ Weighted(hr, p, gr, q, x, b.r)
         /\ Weighted(hd, p, gd, m, x, b.d) /\ Weighted(hd, p, gd, q, x, b.d)
    BY <1>3, <1>4, <1>6, <1>10, <1>12, <1>13 DEF Weighted
  <1>16. PICK i, j : i = SumOver(p, gr, m) /\ j = SumOver(p, gd, m)
    OBVIOUS
  <1>17. i \in Rationals /\ j \in Rationals
    BY <1>3, <1>4, <1>6, <1>16, SumOverFacts
  <1>18. RSum(hr, {x} \cup m) = RAdd(b.r, i) /\ RSum(hd, {x} \cup m) = RAdd(b.d, j)
    BY <1>15, <1>16, WeightedMore
  <1>19. RSum(hr, q) = SumOver(p, gr, q) /\ RSum(hd, q) = SumOver(p, gd, q)
    <2>1. Weighted(hr, p, gr, q, x, b.r)
      BY <1>15
    <2>2. Weighted(hd, p, gd, q, x, b.d)
      BY <1>15
    <2>3. RSum(hr, q) = SumOver(p, gr, q)
      BY ONLY <2>1, WeightedRest
    <2>4. RSum(hd, q) = SumOver(p, gd, q)
      BY ONLY <2>2, WeightedRest
    <2> QED
      BY <2>3, <2>4
  <1>20. /\ RAdd(Dot(p, gr), i) = SumOver(p, gr, q)
         /\ RAdd(Dot(p, gd), j) = SumOver(p, gd, q)
    BY <1>1, <1>3, <1>6, <1>16, SplitSum
  <1>21. BoundSum({x} \cup m, lit, wt) = Delta(RAdd(b.r, i), RAdd(b.d, j))
    BY <1>14, <1>18
  <1>22. BoundSum(q, lit, wt) = Delta(RAdd(val[x].r, i), RAdd(val[x].d, j))
    BY <1>9, <1>14, <1>19, <1>20
  <1>23. val[x] \in Values
    BY <1>3, <1>5 DEF ValueMaps
  <1> QED
    BY <1>1, <1>10, <1>17, <1>21, <1>22, <1>23

\* A variable out of bounds that no term helps gives a conflict.
LEMMA StuckConflict ==
    ASSUME SInv, NEW x, Stuck(x)
    PROVE  Conflict(getConflictingBounds(x), points)
  <1>1. PICK p, m, q, lit, wt, b, E, s :
          /\ p = row[x] /\ m = NegTerms(p) /\ q = PosTerms(p)
          /\ wt = ConflictWt(x) /\ lit = ConflictLit(x) /\ b = lit[x].value
          /\ E = getConflictingBounds(x) /\ s = {x} \cup m
    OBVIOUS
  <1>2. /\ x \in Vars /\ p \in Polys /\ x \notin Terms(p) /\ wt[x] = One
        /\ \A u \in Terms(p) : wt[u] = Weight(p[u])
        /\ E = {<<lit[u], wt[u]>> : u \in {x} \cup Terms(p)}
    BY <1>1, ConflictShape
  <1>3. /\ m \in SUBSET Vars /\ q \in SUBSET Vars /\ Terms(p) = m \cup q
        /\ \A u \in Vars : Weight(p[u]) \in Rationals
    BY <1>1, <1>2, TermSigns
  <1>4. /\ lit[x] \in Literals /\ lit[x].v = x /\ (\E k \in DOMAIN points : points[k].lit = lit[x])
        /\ TooLow(x) => lit[x].lower = TRUE /\ DLess(val[x], b)
        /\ ~ TooLow(x) => lit[x].lower = FALSE /\ DLess(b, val[x])
    BY <1>1, ViolatedBound
  <1>5. \A u \in Terms(p) :
           /\ lit[u] \in Literals /\ lit[u].v = u /\ (\E k \in DOMAIN points : points[k].lit = lit[u])
           /\ AtLow(x, u) => lit[u].lower = TRUE
           /\ ~ AtLow(x, u) => lit[u].lower = FALSE
    BY <1>1, HoldingBound
  <1>6. /\ \A u \in m : AtLow(x, u) <=> TooLow(x)
        /\ \A u \in q : AtLow(x, u) <=> ~ TooLow(x)
    BY <1>1, HoldingSide
  <1>7. /\ s \in SUBSET Vars /\ s \cup q = {x} \cup Terms(p)
        /\ \A u \in s \cup q : lit[u] \in Literals /\ lit[u].v = u /\ wt[u] \in Rationals
    BY <1>1, <1>2, <1>3, <1>4, <1>5, ZeroOne
  <1>8. E = {<<lit[u], wt[u]>> : u \in s \cup q} /\ E = {<<lit[u], wt[u]>> : u \in q \cup s}
    BY <1>2, <1>7
  <1>9. \A e \in E : \E k \in DOMAIN points : points[k].lit = e[1]
    BY <1>2, <1>4, <1>5
  <1>10. \A w \in Vars : FormSum(s, wt, w) = FormSum(q, wt, w)
    BY <1>1, ConflictForms
  <1>11. PICK i \in Rationals, j \in Rationals :
           /\ BoundSum(s, lit, wt) = Delta(RAdd(b.r, i), RAdd(b.d, j))
           /\ BoundSum(q, lit, wt) = Delta(RAdd(val[x].r, i), RAdd(val[x].d, j))
           /\ b \in Values /\ val[x] \in Values
    BY <1>1, ConflictBounds
  <1>12. PICK a : a = val[x]
    OBVIOUS
  <1>13. PICK P : P = points
    OBVIOUS
  <1>14. CASE TooLow(x)
    <2>1. (\A u \in s : lit[u].lower = TRUE) /\ (\A u \in q : lit[u].lower = FALSE)
      BY <1>1, <1>3, <1>4, <1>5, <1>6, <1>14
    <2>2. Side(PartOf(E, TRUE), s, lit, wt) /\ Side(PartOf(E, FALSE), q, lit, wt)
      BY <1>3, <1>7, <1>8, <2>1, SidesOf
    <2>3. DLess(BoundSum(q, lit, wt), BoundSum(s, lit, wt))
      BY <1>4, <1>11, <1>12, <1>14, DeltaShift
    <2>4. Opposed(E, P, s, lit, q, lit, wt)
      BY <1>9, <1>10, <1>13, <2>2, <2>3 DEF Opposed
    <2>5. Conflict(E, P)
      BY ONLY <2>4, TwoSides
    <2> QED
      BY <1>1, <1>13, <2>5
  <1>15. CASE ~ TooLow(x)
    <2>1. (\A u \in q : lit[u].lower = TRUE) /\ (\A u \in s : lit[u].lower = FALSE)
      BY <1>1, <1>3, <1>4, <1>5, <1>6, <1>15
    <2>2. Side(PartOf(E, TRUE), q, lit, wt) /\ Side(PartOf(E, FALSE), s, lit, wt)
      BY <1>3, <1>7, <1>8, <2>1, SidesOf
    <2>3. DLess(BoundSum(s, lit, wt), BoundSum(q, lit, wt))
      BY <1>4, <1>11, <1>12, <1>15, DeltaShift
    <2>4. \A w \in Vars : FormSum(q, wt, w) = FormSum(s, wt, w)
      BY <1>10
    <2>5. Opposed(E, P, q, lit, s, lit, wt)
      BY <1>9, <1>13, <2>2, <2>3, <2>4 DEF Opposed
    <2>6. Conflict(E, P)
      BY ONLY <2>5, TwoSides
    <2> QED
      BY <1>1, <1>13, <2>6
  <1> QED
    BY <1>14, <1>15

-----------------------------------------------------------------------------
\* Every step leaves an explanation that is a conflict, or none.
LEMMA ConflictKept ==
    ASSUME SInv, FarkasConflict, [Next]_vars
    PROVE  FarkasConflict'
  <1>1. TypeInv /\ BoundsInv /\ NonBasicWithinBounds /\ (pc = "check" => expl = {})
    BY DEF SInv, PcInv
  <1>2. Conflict(expl, points)
    BY ConflictSplit
  <1>3. ASSUME expl' = {} PROVE FarkasConflict'
    BY <1>3, ConflictSplit DEF Conflict
  <1>4. ASSUME expl' = expl, points' = points PROVE FarkasConflict'
    BY <1>2, <1>4, ConflictSplit
  <1>5. CASE AssertBound
    <2>1. PICK l \in Literals : AssertRefused(l) \/ AssertTaken(l)
      BY <1>5 DEF AssertBound
    <2>2. CASE AssertRefused(l)
      <3>1. Conflict(expl', points')
        BY <1>1, <2>2, RefusedConflict
      <3> QED
        BY <3>1, ConflictSplit
    <2>3. CASE AssertTaken(l)
      BY <1>3, <2>3 DEF AssertTaken
    <2> QED
      BY <2>1, <2>2, <2>3
  <1>6. CASE Check
    BY <1>4, <1>6 DEF Check
  <1>7. CASE Step
    <2>1. pc = "check" /\ points' = points
      BY <1>7 DEF Step
    <2>2. \/ candidates = {} /\ \E x : Answered(x)
          \/ \E x \in candidates : Helpers(x) = {} /\ Refuted(x)
          \/ \E x \in candidates : \E y \in Helpers(x) : PivotedOn(x, y)
      BY <1>1, <1>7, StepCases
    <2>3. CASE \E x : Answered(x)
      BY <1>4, <2>1, <2>3 DEF Answered
    <2>4. CASE \E x \in candidates : \E y \in Helpers(x) : PivotedOn(x, y)
      BY <1>4, <2>1, <2>4 DEF PivotedOn
    <2>5. CASE \E x \in candidates : Helpers(x) = {} /\ Refuted(x)
      <3>1. PICK x \in candidates : Helpers(x) = {} /\ Refuted(x)
        BY <2>5
      <3>2. Stuck(x)
        <4>1. expl = {} /\ candidates = Candidates(points, val, Basic)
          BY <1>1, <2>1, WithinSplit
        <4>2. x \in Basic /\ OutIn(points, val, x)
          BY <4>1 DEF Candidates
        <4>3. OutOfBounds(val, x)
          BY <4>2, BoundsIn
        <4> QED
          BY <3>1, <4>2, <4>3 DEF Stuck
      <3>3. Conflict(getConflictingBounds(x), points)
        BY <3>2, StuckConflict
      <3>4. expl' = getConflictingBounds(x)
        BY <3>1 DEF Refuted
      <3>5. Conflict(expl', points')
        BY <2>1, <3>3, <3>4
      <3> QED
        BY <3>5, ConflictSplit
    <2> QED
      BY <2>2, <2>3, <2>4, <2>5
  <1>8. CASE Backtrack
    BY <1>3, <1>8 DEF Backtrack
  <1>9. CASE Ask
    BY <1>4, <1>9 DEF Ask
  <1>10. CASE UNCHANGED vars
    BY <1>4, <1>10 DEF vars
  <1> QED
    BY <1>5, <1>6, <1>7, <1>8, <1>9, <1>10 DEF Next

\* A conflict is over bounds in force or just refused, and with the coefficients given
\* its two sides have the same form and contradictory bounds (getConflictingBounds).
THEOREM ConflictsAreFarkas == Spec => []FarkasConflict
  <1>1. Init => FarkasConflict
    BY DEF Init, FarkasConflict
  <1>2. SInv /\ FarkasConflict /\ [Next]_vars => FarkasConflict'
    BY ConflictKept
  <1> QED
    BY <1>1, <1>2, SimplexInvariance, PTL DEF Spec

-----------------------------------------------------------------------------
(* Least numbers, signs and bounds.                                        *)

\* Among finitely many rationals one is least.
LEMMA LeastRational ==
    ASSUME NEW S \in SUBSET Rationals, IsFiniteSet(S), S # {}
    PROVE  \E p \in S : \A q \in S : ~ RLess(q, p)
  <1> DEFINE Below(p) == {q \in S : RLess(q, p)}
             sizes == {Cardinality(Below(p)) : p \in S}
  <1>1. \A p \in S : IsFiniteSet(Below(p)) /\ Cardinality(Below(p)) \in Nat
    <2> SUFFICES ASSUME NEW p \in S PROVE IsFiniteSet(Below(p)) /\ Cardinality(Below(p)) \in Nat
      OBVIOUS
    <2>1. Below(p) \in SUBSET S
      OBVIOUS
    <2>2. IsFiniteSet(Below(p))
      BY <2>1, FS_Subset
    <2> QED
      BY <2>2, FS_CardinalityType
  <1>2. sizes \in SUBSET Nat /\ sizes # {}
    BY <1>1
  <1>3. PICK n \in sizes : \A k \in sizes : n <= k
    BY <1>2, MinExists
  <1>4. PICK p \in S : n = Cardinality(Below(p))
    BY <1>3
  <1>5. ASSUME NEW q \in S, RLess(q, p)
        PROVE  FALSE
    <2>1. Below(q) \subseteq Below(p)
      BY <1>5, RationalOrder
    <2>2. q \in Below(p) /\ q \notin Below(q)
      BY <1>5, RationalOrder
    <2>3. Cardinality(Below(q)) <= Cardinality(Below(p)) /\ Cardinality(Below(q)) # Cardinality(Below(p))
      <3>1. Cardinality(Below(q)) <= Cardinality(Below(p))
               /\ (Cardinality(Below(q)) = Cardinality(Below(p)) => Below(q) = Below(p))
        BY <1>1, <2>1, FS_Subset
      <3> QED
        BY <2>2, <3>1
    <2>4. n <= Cardinality(Below(q))
      BY <1>3
    <2> QED
      BY <1>1, <1>4, <2>3, <2>4
  <1> QED
    BY <1>5

\* What is added decides where a sum lies.
LEMMA AddSign ==
    ASSUME NEW p \in Rationals, NEW q \in Rationals
    PROVE  /\ RLess(p, RAdd(p, q)) <=> RLess(Zero, q)
           /\ RLess(RAdd(p, q), p) <=> RLess(q, Zero)
  <1>1. RAdd(Zero, p) = p /\ RAdd(q, p) = RAdd(p, q) /\ Zero \in Rationals
    BY Neutral, AddCommutes, ZeroOne
  <1>2. RLess(RAdd(Zero, p), RAdd(q, p)) <=> RLess(Zero, q)
    BY <1>1, AddLess
  <1>3. RLess(RAdd(q, p), RAdd(Zero, p)) <=> RLess(q, Zero)
    BY <1>1, AddLess
  <1> QED
    BY <1>1, <1>2, <1>3

\* Multiplying by a positive number keeps the sign.
LEMMA MulSign ==
    ASSUME NEW p \in Rationals, NEW d \in Rationals, RLess(Zero, d)
    PROVE  /\ RLess(Zero, RMul(p, d)) <=> RLess(Zero, p)
           /\ RLess(RMul(p, d), Zero) <=> RLess(p, Zero)
  <1>1. RMul(d, Zero) = Zero /\ RMul(p, d) = RMul(d, p) /\ Zero \in Rationals
    BY Neutral, AddCommutes, ZeroOne
  <1>2. RLess(RMul(d, Zero), RMul(d, p)) <=> RLess(Zero, p)
    BY <1>1, MulLess
  <1>3. RLess(RMul(d, p), RMul(d, Zero)) <=> RLess(p, Zero)
    BY <1>1, MulLess
  <1> QED
    BY <1>1, <1>2, <1>3

\* The sign of a difference.
LEMMA SubSign ==
    ASSUME NEW p \in Rationals, NEW q \in Rationals
    PROVE  RLess(Zero, RSub(q, p)) <=> RLess(p, q)
  <1>1. RSub(q, p) \in Rationals /\ RAdd(p, RSub(q, p)) = q
    BY RationalClosed, SubFacts
  <1> QED
    BY <1>1, AddSign

\* Less than a quotient.
LEMMA BelowQuotient ==
    ASSUME NEW n \in Rationals, NEW m \in Rationals, NEW d \in Rationals,
           RLess(Zero, m), RLess(d, RDiv(n, m))
    PROVE  RLess(RMul(m, d), n)
  <1>1. m # Zero
    BY RationalOrder, ZeroOne
  <1>2. RDiv(n, m) \in Rationals
    BY <1>1, RationalClosed
  <1>3. RMul(m, RDiv(n, m)) = n
    <2>1. RDiv(One, m) \in Rationals
      BY <1>1, RationalClosed, ZeroOne
    <2>2. RDiv(n, m) = RMul(n, RDiv(One, m))
      BY <1>1, DivIsMul
    <2>3. RMul(n, RDiv(One, m)) = RMul(RDiv(One, m), n)
      BY <2>1, AddCommutes
    <2>4. RMul(m, RMul(RDiv(One, m), n)) = RMul(RMul(m, RDiv(One, m)), n)
      BY <2>1, MulAssociates
    <2> QED
      BY <1>1, <2>2, <2>3, <2>4, Neutral
  <1>4. RLess(RMul(m, d), RMul(m, RDiv(n, m)))
    BY <1>2, MulLess
  <1> QED
    BY <1>3, <1>4

\* A quotient of positive numbers is positive.
LEMMA QuotientPositive ==
    ASSUME NEW n \in Rationals, NEW m \in Rationals, RLess(Zero, n), RLess(Zero, m)
    PROVE  RDiv(n, m) \in Rationals /\ RLess(Zero, RDiv(n, m))
  <1>1. m # Zero
    BY RationalOrder, ZeroOne
  <1>2. RDiv(n, m) \in Rationals
    BY <1>1, RationalClosed
  <1>3. Fraction(RDiv(n, m), n[1] * m[2], n[2] * m[1])
    BY <1>1, FractionOf, DivFraction
  <1>4. n[1] \in Nat \ {0} /\ n[2] \in Nat \ {0} /\ m[1] \in Nat \ {0} /\ m[2] \in Nat \ {0}
    BY PositiveSign, RationalParts
  <1>5. Fraction(Zero, 0, 1)
    BY FractionOf, ZeroOne DEF Zero, IntReal
  <1>6. n[1] * m[2] \in Nat \ {0} /\ n[2] * m[1] \in Nat \ {0}
    BY <1>4, NonZeroProduct
  <1>7. PICK a, b : a = n[1] * m[2] /\ b = n[2] * m[1]
    OBVIOUS
  <1>8. RLess(Zero, RDiv(n, m)) <=> 0 * b < a * 1
    BY <1>3, <1>5, <1>6, <1>7, LessFraction
  <1> QED
    BY <1>2, <1>6, <1>7, <1>8

-----------------------------------------------------------------------------
\* A value above a lower bound c, which lb implies, stays above it when a
\* small enough d takes the place of the infinitesimal.
AboveLow(a, lb, d) ==
  /\ a \in Values /\ lb \in Values /\ DLeq(lb, a) /\ ~ RLess(lb.d, Zero)
  /\ d \in Rationals /\ RLess(Zero, d)
  /\ RLess(lb.r, a.r) /\ RLess(a.d, lb.d) /\ a.d # Zero
       => RLess(d, RDiv(RSub(a.r, lb.r), RSub(lb.d, a.d)))

\* The number that results is above the lower bound, strictly if that is strict.
LEMMA LowKept ==
    ASSUME NEW a, NEW lb, NEW d, AboveLow(a, lb, d)
    PROVE  LET x == RAdd(a.r, RMul(a.d, d)) IN
           x \in Rationals /\ (RLess(lb.r, x) \/ (x = lb.r /\ lb.d = Zero))
  <1>1. /\ a.r \in Rationals /\ a.d \in Rationals /\ lb.r \in Rationals /\ lb.d \in Rationals
        /\ a.inf = 0 /\ lb.inf = 0 /\ d \in Rationals /\ RLess(Zero, d) /\ ~ RLess(lb.d, Zero)
        /\ DLeq(lb, a)
        /\ RLess(lb.r, a.r) /\ RLess(a.d, lb.d) /\ a.d # Zero
             => RLess(d, RDiv(RSub(a.r, lb.r), RSub(lb.d, a.d)))
    BY DEF AboveLow, Values
  <1>2. ~ (RLess(a.r, lb.r) \/ (a.r = lb.r /\ RLess(a.d, lb.d)))
    BY <1>1 DEF DLeq, DLess, isInf
  <1>3. PICK p, x : p = RMul(a.d, d) /\ x = RAdd(a.r, p)
    OBVIOUS
  <1>4. p \in Rationals /\ x \in Rationals /\ Zero \in Rationals
    BY <1>1, <1>3, RationalClosed, ZeroOne
  <1>5. /\ RLess(Zero, p) <=> RLess(Zero, a.d)
        /\ RLess(p, Zero) <=> RLess(a.d, Zero)
    BY <1>1, <1>3, MulSign
  <1>6. /\ RLess(a.r, x) <=> RLess(Zero, p)
        /\ RLess(x, a.r) <=> RLess(p, Zero)
    BY <1>1, <1>3, <1>4, AddSign
  <1>7. RLess(lb.r, x) \/ (x = lb.r /\ lb.d = Zero)
    <2>1. CASE RLess(lb.r, a.r) /\ ~ RLess(a.d, Zero)
      <3>1. RLess(a.r, x) \/ x = a.r
        BY <1>1, <1>4, <1>5, <1>6, <2>1, RationalOrder
      <3> QED
        BY <1>1, <1>4, <2>1, <3>1, RationalOrder
    <2>2. CASE RLess(lb.r, a.r) /\ RLess(a.d, Zero)
      <3>1. RLess(a.d, lb.d) /\ a.d # Zero
        <4>1. RLess(Zero, lb.d) \/ lb.d = Zero
          BY <1>1, <1>4, RationalOrder
        <4> QED
          BY <1>1, <1>4, <2>2, <4>1, RationalOrder
      <3>2. PICK n, m : n = RSub(a.r, lb.r) /\ m = RSub(lb.d, a.d)
        OBVIOUS
      <3>3. /\ n \in Rationals /\ m \in Rationals /\ RAdd(lb.r, n) = a.r /\ RAdd(a.d, m) = lb.d
            /\ RLess(Zero, m) /\ RLess(d, RDiv(n, m))
        BY <1>1, <2>2, <3>1, <3>2, RationalClosed, SubFacts, SubSign
      <3>4. PICK k : k = RMul(m, d)
        OBVIOUS
      <3>5. k \in Rationals /\ RLess(k, n)
        BY <1>1, <3>3, <3>4, RationalClosed, BelowQuotient
      <3>6. RAdd(k, p) = RMul(lb.d, d)
        <4>1. RMul(d, RAdd(a.d, m)) = RAdd(RMul(d, a.d), RMul(d, m))
          BY <1>1, <3>3, Distributes
        <4>2. RMul(d, a.d) = p /\ RMul(d, m) = k /\ RMul(d, lb.d) = RMul(lb.d, d)
          BY <1>1, <1>3, <3>3, <3>4, AddCommutes
        <4>3. RAdd(p, k) = RAdd(k, p)
          BY <1>4, <3>5, AddCommutes
        <4> QED
          BY <3>3, <4>1, <4>2, <4>3
      <3>7. RAdd(k, p) \in Rationals /\ RAdd(n, p) \in Rationals /\ RLess(RAdd(k, p), RAdd(n, p))
        BY <1>4, <3>3, <3>5, RationalClosed, AddLess
      <3>8. ~ RLess(RAdd(k, p), Zero)
        BY <1>1, <3>6, MulSign
      <3>9. RLess(Zero, RAdd(n, p))
        BY <1>4, <3>7, <3>8, RationalOrder
      <3>10. RLess(lb.r, RAdd(lb.r, RAdd(n, p)))
        BY <1>1, <3>7, <3>9, AddSign
      <3>11. RAdd(lb.r, RAdd(n, p)) = x
        BY <1>1, <1>3, <1>4, <3>3, AddAssociates
      <3> QED
        BY <3>10, <3>11
    <2>3. CASE lb.r = a.r
      <3>1. ~ RLess(a.d, lb.d)
        BY <1>2, <2>3
      <3>2. CASE RLess(Zero, a.d)
        BY <1>5, <1>6, <2>3, <3>2
      <3>3. CASE ~ RLess(Zero, a.d)
        <4>1. a.d = Zero /\ lb.d = Zero
          BY <1>1, <1>4, <3>1, <3>3, RationalOrder
        <4>2. p = Zero
          BY <1>1, <1>3, <4>1, Neutral
        <4>3. x = a.r
          BY <1>1, <1>3, <4>2, Neutral
        <4> QED
          BY <2>3, <4>1, <4>3
      <3> QED
        BY <3>2, <3>3
    <2> QED
      BY <1>1, <1>2, <2>1, <2>2, <2>3, RationalOrder
  <1> QED
    BY <1>3, <1>4, <1>7

BelowUpp(a, ub, d) ==
  /\ a \in Values /\ ub \in Values /\ DLeq(a, ub) /\ ~ RLess(Zero, ub.d)
  /\ d \in Rationals /\ RLess(Zero, d)
  /\ RLess(a.r, ub.r) /\ RLess(ub.d, a.d) /\ a.d # Zero
       => RLess(d, RDiv(RSub(ub.r, a.r), RSub(a.d, ub.d)))

\* The same below an upper bound.
LEMMA UppKept ==
    ASSUME NEW a, NEW ub, NEW d, BelowUpp(a, ub, d)
    PROVE  LET x == RAdd(a.r, RMul(a.d, d)) IN
           x \in Rationals /\ (RLess(x, ub.r) \/ (x = ub.r /\ ub.d = Zero))
  <1>1. /\ a.r \in Rationals /\ a.d \in Rationals /\ ub.r \in Rationals /\ ub.d \in Rationals
        /\ a.inf = 0 /\ ub.inf = 0 /\ d \in Rationals /\ RLess(Zero, d) /\ ~ RLess(Zero, ub.d)
        /\ DLeq(a, ub)
        /\ RLess(a.r, ub.r) /\ RLess(ub.d, a.d) /\ a.d # Zero
             => RLess(d, RDiv(RSub(ub.r, a.r), RSub(a.d, ub.d)))
    BY DEF BelowUpp, Values
  <1>2. ~ (RLess(ub.r, a.r) \/ (ub.r = a.r /\ RLess(ub.d, a.d)))
    BY <1>1 DEF DLeq, DLess, isInf
  <1>3. PICK p, x : p = RMul(a.d, d) /\ x = RAdd(a.r, p)
    OBVIOUS
  <1>4. p \in Rationals /\ x \in Rationals /\ Zero \in Rationals
    BY <1>1, <1>3, RationalClosed, ZeroOne
  <1>5. /\ RLess(Zero, p) <=> RLess(Zero, a.d)
        /\ RLess(p, Zero) <=> RLess(a.d, Zero)
    BY <1>1, <1>3, MulSign
  <1>6. /\ RLess(a.r, x) <=> RLess(Zero, p)
        /\ RLess(x, a.r) <=> RLess(p, Zero)
    BY <1>1, <1>3, <1>4, AddSign
  <1>7. RLess(x, ub.r) \/ (x = ub.r /\ ub.d = Zero)
    <2>1. CASE RLess(a.r, ub.r) /\ ~ RLess(Zero, a.d)
      <3>1. RLess(x, a.r) \/ x = a.r
        BY <1>1, <1>4, <1>5, <1>6, <2>1, RationalOrder
      <3> QED
        BY <1>1, <1>4, <2>1, <3>1, RationalOrder
    <2>2. CASE RLess(a.r, ub.r) /\ RLess(Zero, a.d)
      <3>1. RLess(ub.d, a.d) /\ a.d # Zero
        <4>1. RLess(ub.d, Zero) \/ ub.d = Zero
          BY <1>1, <1>4, RationalOrder
        <4> QED
          BY <1>1, <1>4, <2>2, <4>1, RationalOrder
      <3>2. PICK n, m : n = RSub(ub.r, a.r) /\ m = RSub(a.d, ub.d)
        OBVIOUS
      <3>3. /\ n \in Rationals /\ m \in Rationals /\ RAdd(a.r, n) = ub.r /\ RAdd(ub.d, m) = a.d
            /\ RLess(Zero, m) /\ RLess(d, RDiv(n, m))
        BY <1>1, <2>2, <3>1, <3>2, RationalClosed, SubFacts, SubSign
      <3>4. PICK k, u : k = RMul(m, d) /\ u = RMul(ub.d, d)
        OBVIOUS
      <3>5. k \in Rationals /\ u \in Rationals /\ RLess(k, n)
        BY <1>1, <3>3, <3>4, RationalClosed, BelowQuotient
      <3>6. RAdd(k, u) = p
        <4>1. RMul(d, RAdd(ub.d, m)) = RAdd(RMul(d, ub.d), RMul(d, m))
          BY <1>1, <3>3, Distributes
        <4>2. RMul(d, ub.d) = u /\ RMul(d, m) = k /\ RMul(d, a.d) = p
          BY <1>1, <1>3, <3>3, <3>4, AddCommutes
        <4>3. RAdd(u, k) = RAdd(k, u)
          BY <3>5, AddCommutes
        <4> QED
          BY <3>3, <4>1, <4>2, <4>3
      <3>7. ~ RLess(Zero, u)
        BY <1>1, <3>4, MulSign
      <3>8. ~ RLess(k, p)
        BY <3>5, <3>6, <3>7, AddSign
      <3>9. RLess(p, n)
        BY <1>4, <3>3, <3>5, <3>8, RationalOrder
      <3>10. RLess(RAdd(p, a.r), RAdd(n, a.r))
        BY <1>1, <1>4, <3>3, <3>9, AddLess
      <3>11. RAdd(p, a.r) = x /\ RAdd(n, a.r) = ub.r
        BY <1>1, <1>3, <1>4, <3>3, AddCommutes
      <3> QED
        BY <3>10, <3>11
    <2>3. CASE ub.r = a.r
      <3>1. ~ RLess(ub.d, a.d)
        BY <1>2, <2>3
      <3>2. CASE RLess(a.d, Zero)
        BY <1>5, <1>6, <2>3, <3>2
      <3>3. CASE ~ RLess(a.d, Zero)
        <4>1. a.d = Zero /\ ub.d = Zero
          BY <1>1, <1>4, <3>1, <3>3, RationalOrder
        <4>2. p = Zero
          BY <1>1, <1>3, <4>1, Neutral
        <4>3. x = a.r
          BY <1>1, <1>3, <4>2, Neutral
        <4> QED
          BY <2>3, <4>1, <4>3
      <3> QED
        BY <3>2, <3>3
    <2> QED
      BY <1>1, <1>2, <2>1, <2>2, <2>3, RationalOrder
  <1> QED
    BY <1>3, <1>4, <1>7

\* A number inside a bound is inside the weaker ones.
LEMMA WeakerKept ==
    ASSUME NEW b \in Values, NEW c \in Values, NEW x \in Rationals
    PROVE  /\ DLeq(c, b) /\ ~ RLess(c.d, Zero) /\ (RLess(b.r, x) \/ (x = b.r /\ b.d = Zero))
                => RLess(c.r, x) \/ (x = c.r /\ c.d = Zero)
           /\ DLeq(b, c) /\ ~ RLess(Zero, c.d) /\ (RLess(x, b.r) \/ (x = b.r /\ b.d = Zero))
                => RLess(x, c.r) \/ (x = c.r /\ c.d = Zero)
  <1>1. /\ b.r \in Rationals /\ b.d \in Rationals /\ c.r \in Rationals /\ c.d \in Rationals
        /\ b.inf = 0 /\ c.inf = 0 /\ Zero \in Rationals
    BY ZeroOne DEF Values
  <1>2. DLeq(c, b) <=> ~ (RLess(b.r, c.r) \/ (b.r = c.r /\ RLess(b.d, c.d)))
    BY <1>1 DEF DLeq, DLess, isInf
  <1>3. DLeq(b, c) <=> ~ (RLess(c.r, b.r) \/ (c.r = b.r /\ RLess(c.d, b.d)))
    BY <1>1 DEF DLeq, DLess, isInf
  <1>4. ASSUME DLeq(c, b), ~ RLess(c.d, Zero), RLess(b.r, x) \/ (x = b.r /\ b.d = Zero)
        PROVE  RLess(c.r, x) \/ (x = c.r /\ c.d = Zero)
    <2>1. RLess(c.r, b.r) \/ (b.r = c.r /\ ~ RLess(b.d, c.d))
      BY <1>1, <1>2, <1>4, RationalOrder
    <2>2. CASE RLess(b.r, x)
      BY <1>1, <2>1, <2>2, RationalOrder
    <2>3. CASE x = b.r /\ b.d = Zero
      BY <1>1, <1>4, <2>1, <2>3, RationalOrder
    <2> QED
      BY <1>4, <2>2, <2>3
  <1>5. ASSUME DLeq(b, c), ~ RLess(Zero, c.d), RLess(x, b.r) \/ (x = b.r /\ b.d = Zero)
        PROVE  RLess(x, c.r) \/ (x = c.r /\ c.d = Zero)
    <2>1. RLess(b.r, c.r) \/ (b.r = c.r /\ ~ RLess(c.d, b.d))
      BY <1>1, <1>3, <1>5, RationalOrder
    <2>2. CASE RLess(x, b.r)
      BY <1>1, <2>1, <2>2, RationalOrder
    <2>3. CASE x = b.r /\ b.d = Zero
      BY <1>1, <1>5, <2>1, <2>3, RationalOrder
    <2> QED
      BY <1>5, <2>2, <2>3
  <1> QED
    BY <1>4, <1>5

-----------------------------------------------------------------------------
(* The number put in the place of the infinitesimal. *)
LowOffer(v) == RDiv(RSub(val[v].r, Lb(v).r), RSub(Lb(v).d, val[v].d))
UppOffer(v) == RDiv(RSub(Ub(v).r, val[v].r), RSub(val[v].d, Ub(v).d))
NeedsLow(v) == ~ isInf(Lb(v)) /\ RLess(Lb(v).r, val[v].r) /\ RLess(val[v].d, Lb(v).d)
NeedsUpp(v) == ~ isInf(Ub(v)) /\ RLess(val[v].r, Ub(v).r) /\ RLess(Ub(v).d, val[v].d)

\* What a variable's bounds offer for delta.
LEMMA DeltasMean ==
    ASSUME NEW v
    PROVE  \A e : e \in DeltasFor(v) <=> \/ NeedsLow(v) /\ e = LowOffer(v)
                                         \/ NeedsUpp(v) /\ e = UppOffer(v)
  <1>1. PICK lo, up : lo = Lb(v) /\ up = Ub(v)
    OBVIOUS
  <1> QED
    BY <1>1 DEF DeltasFor, LowOffer, UppOffer, NeedsLow, NeedsUpp

\* The image of a finite set is finite.
LEMMA ImageFinite ==
    ASSUME NEW S, IsFiniteSet(S), NEW f
    PROVE  IsFiniteSet({f[x] : x \in S})
  <1> DEFINE T == {f[x] : x \in S}
             h == [x \in S |-> f[x]]
  <1>1. h \in Surjection(S, T)
    BY DEF Surjection
  <1> HIDE DEF h, T
  <1>2. IsFiniteSet(T)
    BY <1>1, FS_Surjection
  <1> QED
    BY <1>2 DEF T

\* A finite bound in force is a value, and a strict one lies inside.
LEMMA StrictInside ==
    ASSUME NEW l \in Literals
    PROVE  /\ l.lower = TRUE => ~ RLess(l.value.d, Zero)
           /\ l.lower = FALSE => ~ RLess(Zero, l.value.d)
  <1>1. One \in Rationals /\ Zero \in Rationals /\ RNeg(One) \in Rationals
        /\ One[1] = 1 /\ Zero[1] = 0 /\ RNeg(One)[1] = -1
    <2>1. RNeg(One)[1] = -1
      BY DEF RNeg, One, IntReal
    <2> QED
      BY <2>1, ZeroOne, RationalClosed
  <1>2. ~ RLess(One, Zero) /\ ~ RLess(Zero, RNeg(One)) /\ ~ RLess(Zero, Zero)
    BY <1>1, PositiveSign
  <1>3. l.lower = TRUE => l.value.d = Zero \/ l.value.d = One
    BY StrictAssumption
  <1>4. l.lower = FALSE => l.value.d = Zero \/ l.value.d = RNeg(One)
    BY StrictAssumption
  <1> QED
    BY <1>2, <1>3, <1>4

\* Strict bounds in force lie inside, and finite ones are values.
LEMMA BoundsInForce ==
    ASSUME Bounded(points), NEW v \in Vars
    PROVE  /\ Lb(v) \in Values => ~ RLess(Lb(v).d, Zero)
           /\ Ub(v) \in Values => ~ RLess(Zero, Ub(v).d)
           /\ ~ isInf(Lb(v)) => Lb(v) \in Values
           /\ ~ isInf(Ub(v)) => Ub(v) \in Values
  <1>1. Lb(v) = LbIn(points, v) /\ Ub(v) = UbIn(points, v)
    BY BoundsIn
  <1>2. ASSUME Lb(v) \in Values
        PROVE  ~ RLess(Lb(v).d, Zero)
    <2>1. PICK l : l = LbLit(v)
      OBVIOUS
    <2>2. l \in Literals /\ l.lower = TRUE /\ l.value = Lb(v)
      BY <1>1, <1>2, <2>1, InForceLit
    <2> QED
      BY <2>2, StrictInside
  <1>3. ASSUME Ub(v) \in Values
        PROVE  ~ RLess(Zero, Ub(v).d)
    <2>1. PICK l : l = UbLit(v)
      OBVIOUS
    <2>2. l \in Literals /\ l.lower = FALSE /\ l.value = Ub(v)
      BY <1>1, <1>3, <2>1, InForceLit
    <2> QED
      BY <2>2, StrictInside
  <1>4. Lb(v) \in Extended /\ Ub(v) \in Extended
    BY <1>1, BoundTypes
  <1>5. isInf(MinusInf) /\ isInf(PlusInf)
    BY DEF isInf, MinusInf, PlusInf
  <1>6. ~ isInf(Lb(v)) => Lb(v) \in Values
    BY <1>4, <1>5 DEF Extended
  <1>7. ~ isInf(Ub(v)) => Ub(v) \in Values
    BY <1>4, <1>5 DEF Extended
  <1> QED
    BY <1>2, <1>3, <1>6, <1>7

\* What is offered for delta is positive.
LEMMA OfferPositive ==
    ASSUME Bounded(points), val \in ValueMaps, NEW v \in Vars, NEW e \in DeltasFor(v)
    PROVE  e \in Rationals /\ RLess(Zero, e)
  <1>1. val[v].r \in Rationals /\ val[v].d \in Rationals
    BY DEF ValueMaps, Values
  <1>2. CASE NeedsLow(v) /\ e = LowOffer(v)
    <2>1. Lb(v) \in Values
      BY <1>2, BoundsInForce DEF NeedsLow
    <2>2. Lb(v).r \in Rationals /\ Lb(v).d \in Rationals
      BY <2>1 DEF Values
    <2>3. PICK n, m : n = RSub(val[v].r, Lb(v).r) /\ m = RSub(Lb(v).d, val[v].d)
      OBVIOUS
    <2>4. n \in Rationals /\ m \in Rationals /\ RLess(Zero, n) /\ RLess(Zero, m)
      BY <1>1, <1>2, <2>2, <2>3, RationalClosed, SubSign DEF NeedsLow
    <2>5. RDiv(n, m) \in Rationals /\ RLess(Zero, RDiv(n, m))
      BY <2>4, QuotientPositive
    <2> QED
      BY <1>2, <2>3, <2>5 DEF LowOffer
  <1>3. CASE NeedsUpp(v) /\ e = UppOffer(v)
    <2>1. Ub(v) \in Values
      BY <1>3, BoundsInForce DEF NeedsUpp
    <2>2. Ub(v).r \in Rationals /\ Ub(v).d \in Rationals
      BY <2>1 DEF Values
    <2>3. PICK n, m : n = RSub(Ub(v).r, val[v].r) /\ m = RSub(val[v].d, Ub(v).d)
      OBVIOUS
    <2>4. n \in Rationals /\ m \in Rationals /\ RLess(Zero, n) /\ RLess(Zero, m)
      BY <1>1, <1>3, <2>2, <2>3, RationalClosed, SubSign DEF NeedsUpp
    <2>5. RDiv(n, m) \in Rationals /\ RLess(Zero, RDiv(n, m))
      BY <2>4, QuotientPositive
    <2> QED
      BY <1>3, <2>3, <2>5 DEF UppOffer
  <1> QED
    BY <1>2, <1>3, DeltasMean

Offers == UNION {DeltasFor(v) : v \in {u \in Vars : val[u].d # Zero}}

\* Finitely many numbers are offered.
LEMMA OffersFinite == IsFiniteSet(Offers)
  <1> DEFINE lo == [v \in Vars |-> LowOffer(v)]
             up == [v \in Vars |-> UppOffer(v)]
             S == {lo[v] : v \in Vars}
             T == {up[v] : v \in Vars}
  <1>1. Offers \in SUBSET (S \cup T)
    BY DeltasMean DEF Offers
  <1> HIDE DEF lo, up
  <1>2. IsFiniteSet(S) /\ IsFiniteSet(T)
    BY VarsFinite, ImageFinite
  <1> HIDE DEF S, T
  <1>3. IsFiniteSet(S \cup T)
    BY <1>2, FS_Union
  <1> QED
    BY <1>1, <1>3, FS_Subset

\* Half of a positive number is positive and less.
LEMMA HalfLess ==
    ASSUME NEW d \in Rationals, RLess(Zero, d)
    PROVE  LET h == RDiv(d, IntReal(2)) IN
           h \in Rationals /\ RLess(Zero, h) /\ RLess(h, d)
  <1>1. PICK m : m = IntReal(2)
    OBVIOUS
  <1>2. m \in Rationals /\ m[1] = 2 /\ m[2] = 1 /\ RLess(Zero, m)
    <2>1. m = <<2, 1>>
      BY <1>1 DEF IntReal
    <2>2. m \in Rationals
      BY <2>1 DEF Rationals
    <2> QED
      BY <2>1, <2>2, PositiveSign
  <1>3. RDiv(d, m) \in Rationals /\ RLess(Zero, RDiv(d, m))
    BY <1>2, QuotientPositive
  <1>4. Fraction(RDiv(d, m), d[1] * m[2], d[2] * m[1])
    <2>1. m # Zero
      BY <1>2, ZeroOne
    <2> QED
      BY <1>2, <2>1, FractionOf, DivFraction
  <1>5. d[1] \in Nat \ {0} /\ d[2] \in Nat \ {0}
    BY PositiveSign, RationalParts
  <1>6. PICK a, b : a = d[1] /\ b = d[2]
    OBVIOUS
  <1>7. Fraction(RDiv(d, m), a * 1, b * 2) /\ Fraction(d, a, b)
    BY <1>2, <1>4, <1>6, FractionOf
  <1>8. RLess(RDiv(d, m), d) <=> (a * 1) * b < a * (b * 2)
    BY <1>5, <1>6, <1>7, LessFraction
  <1>9. (a * 1) * b < a * (b * 2)
    <2>1. a * b \in Nat \ {0}
      BY <1>5, <1>6, NonZeroProduct
    <2>2. (a * 1) * b = a * b /\ a * (b * 2) = 2 * (a * b)
      BY <1>5, <1>6
    <2> QED
      BY <2>1, <2>2
  <1> QED
    BY <1>1, <1>3, <1>8, <1>9

\* computeDelta is positive and less than all it is chosen for.
LEMMA DeltaChosen ==
    ASSUME Bounded(points), val \in ValueMaps
    PROVE  /\ computeDelta \in Rationals /\ RLess(Zero, computeDelta)
           /\ \A v \in Vars : val[v].d # Zero => \A e \in DeltasFor(v) : RLess(computeDelta, e)
  <1>1. \A e \in Offers : e \in Rationals /\ RLess(Zero, e)
    BY OfferPositive DEF Offers
  <1>2. PICK d : d = CHOOSE p \in Offers : \A e \in Offers : ~ RLess(e, p)
    OBVIOUS
  <1>3. computeDelta = IF Offers = {} \/ RLess(One, d) THEN One ELSE RDiv(d, IntReal(2))
    BY <1>2 DEF computeDelta, Offers
  <1>4. Offers # {} => d \in Offers /\ \A e \in Offers : ~ RLess(e, d)
    <2> SUFFICES ASSUME Offers # {} PROVE d \in Offers /\ \A e \in Offers : ~ RLess(e, d)
      OBVIOUS
    <2>1. Offers \in SUBSET Rationals
      BY <1>1
    <2>2. \E p \in Offers : \A q \in Offers : ~ RLess(q, p)
      BY <2>1, OffersFinite, LeastRational
    <2> QED
      BY <1>2, <2>2
  <1>5. One \in Rationals /\ RLess(Zero, One)
    BY ZeroOne, PositiveSign
  <1>6. /\ computeDelta \in Rationals /\ RLess(Zero, computeDelta)
        /\ \A e \in Offers : RLess(computeDelta, e)
    <2>1. CASE Offers = {}
      BY <1>3, <1>5, <2>1
    <2>2. CASE Offers # {} /\ RLess(One, d)
      BY <1>1, <1>3, <1>4, <1>5, <2>2, RationalOrder
    <2>3. CASE Offers # {} /\ ~ RLess(One, d)
      <3>1. d \in Rationals /\ RLess(Zero, d)
        BY <1>1, <1>4, <2>3
      <3>2. PICK h : h = RDiv(d, IntReal(2))
        OBVIOUS
      <3>3. h \in Rationals /\ RLess(Zero, h) /\ RLess(h, d)
        BY <3>1, <3>2, HalfLess
      <3>4. computeDelta = h
        BY <1>3, <2>3, <3>2
      <3> QED
        BY <1>1, <1>4, <2>3, <3>1, <3>3, <3>4, RationalOrder
    <2> QED
      BY <2>1, <2>2, <2>3
  <1> QED
    BY <1>6 DEF Offers

-----------------------------------------------------------------------------
\* With no candidate, no variable is out of bounds.
LEMMA NothingOut ==
    ASSUME SInv, expl = {}, candidates = {}, NEW v \in Vars
    PROVE  ~ DLess(val[v], Lb(v)) /\ ~ DLess(Ub(v), val[v])
  <1>1. TypeInv /\ TableauConsistent /\ BoundsInv /\ NonBasicWithinBounds
    BY DEF SInv
  <1>2. ~ OutOfBounds(val, v)
    <2>1. CASE v \in NonBasic
      BY <1>1, <2>1 DEF NonBasicWithinBounds
    <2>2. CASE v \in Basic
      BY <1>1, <2>2 DEF NonBasicWithinBounds
    <2>3. CASE v \in Quasi
      <3>1. ~ OutIn(points, val, v)
        BY <1>1, <2>3, QuasiUnbounded DEF TypeInv, ValueMaps
      <3> QED
        BY <3>1, BoundsIn
    <2>4. v \in NonBasic \/ v \in Basic \/ v \in Quasi
      BY <1>1, KindFacts
    <2> QED
      BY <2>1, <2>2, <2>3, <2>4
  <1> QED
    BY <1>2 DEF OutOfBounds

\* The concrete value of a variable keeps the literals handed over.
Kept(l, x) ==
  IF l.lower THEN RLess(l.value.r, x) \/ (x = l.value.r /\ l.value.d = Zero)
             ELSE RLess(x, l.value.r) \/ (x = l.value.r /\ l.value.d = Zero)

\* The concrete values satisfy the literals handed over.
LEMMA LiteralsKept ==
    ASSUME SInv, expl = {}, candidates = {}, NEW k \in DOMAIN points
    PROVE  Kept(points[k].lit, concrete_model(points[k].lit.v))
  <1>1. PICK l, v, a, e : l = points[k].lit /\ v = l.v /\ a = val[v] /\ e = computeDelta
    OBVIOUS
  <1>2. TypeInv /\ TableauConsistent /\ BoundsInv
    BY DEF SInv
  <1>3. Bounded(points) /\ AllCounted(points) /\ points \in Seq(Points) /\ val \in ValueMaps
    BY <1>2, BoundsKnown DEF TypeInv, ValueMaps
  <1>4. points[k].counted /\ l \in Literals /\ v \in Vars
    <2>1. points[k].counted
      BY <1>3 DEF AllCounted
    <2>2. l \in Literals
      BY <1>1, <1>3, PointFacts
    <2> QED
      BY <1>1, <2>1, <2>2, LiteralFacts
  <1>5. l.value \in Values /\ a \in Values /\ l.lower \in BOOLEAN
    BY <1>1, <1>3, <1>4, LiteralFacts DEF ValueMaps
  <1>6. v \notin Quasi
    <2> SUFFICES ASSUME v \in Quasi PROVE FALSE
      OBVIOUS
    <2>1. CountIn(points, v) = {}
      BY <1>2, QuasiUnbounded
    <2>2. k \in CountIn(points, v)
      BY <1>1, <1>4 DEF CountIn
    <2> QED
      BY <2>1, <2>2
  <1>7. concrete_model(v) = RAdd(a.r, RMul(a.d, e))
    BY <1>1, <1>6 DEF concrete_model, getValuation
  <1>8. /\ e \in Rationals /\ RLess(Zero, e)
        /\ a.d # Zero => \A o \in DeltasFor(v) : RLess(e, o)
    BY <1>1, <1>3, <1>4, DeltaChosen
  <1>9. DLeq(Lb(v), a) /\ DLeq(a, Ub(v))
    BY <1>1, <1>4, NothingOut DEF DLeq
  <1>10. /\ l.lower => DLeq(l.value, Lb(v))
         /\ ~ l.lower => DLeq(Ub(v), l.value)
    BY <1>1, <1>3, <1>4, BoundImplied, BoundsIn
  <1>11. Lb(v) \in Extended /\ Ub(v) \in Extended
    BY <1>3, <1>4, BoundTypes, BoundsIn
  <1>12. PICK x : x = concrete_model(v)
    OBVIOUS
  <1>13. CASE l.lower
    <2>1. PICK b : b = Lb(v)
      OBVIOUS
    <2>2. b # MinusInf /\ b # PlusInf
      <3>1. b # MinusInf
        BY <1>5, <1>10, <1>13, <2>1, InfinityOrder DEF DLeq
      <3>2. b # PlusInf
        BY <1>3, <1>4, <2>1, BoundTypes, BoundsIn
      <3> QED
        BY <3>1, <3>2
    <2>3. b \in Values
      BY <1>11, <2>1, <2>2 DEF Extended
    <2>4. ~ RLess(b.d, Zero)
      BY <1>3, <1>4, <2>1, <2>3, BoundsInForce
    <2>5. ASSUME RLess(b.r, a.r), RLess(a.d, b.d), a.d # Zero
          PROVE  RLess(e, RDiv(RSub(a.r, b.r), RSub(b.d, a.d)))
      <3>1. ~ isInf(b)
        BY <2>3 DEF Values, isInf
      <3>2. NeedsLow(v)
        BY <1>1, <2>1, <2>5, <3>1 DEF NeedsLow
      <3>3. LowOffer(v) \in DeltasFor(v)
        BY <3>2, DeltasMean
      <3>4. LowOffer(v) = RDiv(RSub(a.r, b.r), RSub(b.d, a.d))
        BY <1>1, <2>1 DEF LowOffer
      <3> QED
        BY <1>8, <2>5, <3>3, <3>4
    <2>6. AboveLow(a, b, e)
      BY <1>5, <1>8, <1>9, <2>1, <2>3, <2>4, <2>5 DEF AboveLow
    <2>7. x \in Rationals /\ (RLess(b.r, x) \/ (x = b.r /\ b.d = Zero))
      BY <1>7, <1>12, <2>6, LowKept
    <2>8. ~ RLess(l.value.d, Zero)
      BY <1>4, <1>13, <1>5, StrictInside
    <2>9. RLess(l.value.r, x) \/ (x = l.value.r /\ l.value.d = Zero)
      BY <1>5, <1>10, <1>13, <2>1, <2>3, <2>7, <2>8, WeakerKept
    <2> QED
      BY <1>1, <1>12, <1>13, <2>9 DEF Kept
  <1>14. CASE ~ l.lower
    <2>1. PICK b : b = Ub(v)
      OBVIOUS
    <2>2. b # MinusInf /\ b # PlusInf
      <3>1. b # PlusInf
        BY <1>5, <1>10, <1>14, <2>1, InfinityOrder DEF DLeq
      <3>2. b # MinusInf
        BY <1>3, <1>4, <2>1, BoundTypes, BoundsIn
      <3> QED
        BY <3>1, <3>2
    <2>3. b \in Values
      BY <1>11, <2>1, <2>2 DEF Extended
    <2>4. ~ RLess(Zero, b.d)
      BY <1>3, <1>4, <2>1, <2>3, BoundsInForce
    <2>5. ASSUME RLess(a.r, b.r), RLess(b.d, a.d), a.d # Zero
          PROVE  RLess(e, RDiv(RSub(b.r, a.r), RSub(a.d, b.d)))
      <3>1. ~ isInf(b)
        BY <2>3 DEF Values, isInf
      <3>2. NeedsUpp(v)
        BY <1>1, <2>1, <2>5, <3>1 DEF NeedsUpp
      <3>3. UppOffer(v) \in DeltasFor(v)
        BY <3>2, DeltasMean
      <3>4. UppOffer(v) = RDiv(RSub(b.r, a.r), RSub(a.d, b.d))
        BY <1>1, <2>1 DEF UppOffer
      <3> QED
        BY <1>8, <2>5, <3>3, <3>4
    <2>6. BelowUpp(a, b, e)
      BY <1>5, <1>8, <1>9, <2>1, <2>3, <2>4, <2>5 DEF BelowUpp
    <2>7. x \in Rationals /\ (RLess(x, b.r) \/ (x = b.r /\ b.d = Zero))
      BY <1>7, <1>12, <2>6, UppKept
    <2>8. ~ RLess(Zero, l.value.d)
      BY <1>4, <1>14, <1>5, StrictInside
    <2>9. RLess(x, l.value.r) \/ (x = l.value.r /\ l.value.d = Zero)
      BY <1>5, <1>10, <1>14, <2>1, <2>3, <2>7, <2>8, WeakerKept
    <2> QED
      BY <1>1, <1>12, <1>14, <2>9 DEF Kept
  <1> QED
    BY <1>13, <1>14

-----------------------------------------------------------------------------
\* The concrete values satisfy the definitions of the sums.
LEMMA DefinitionsKept ==
    ASSUME SInv, expl = {}, candidates = {}, NEW v \in Vars \ Cols
    PROVE  concrete_model(v) = RSum([u \in Cols |-> RMul(Defs[v][u], concrete_model(u))], Cols)
  <1>1. PICK gr, gd, e, p : gr = RParts(Got) /\ gd = DParts(Got) /\ e = computeDelta /\ p = Defs[v]
    OBVIOUS
  <1>2. /\ Got \in ValueMaps /\ gr \in Numbers /\ gd \in Numbers
        /\ \A u \in Vars : gr[u] = Got[u].r /\ gd[u] = Got[u].d
        /\ gr[v] = Dot(p, gr) /\ gd[v] = Dot(p, gd)
    <2>1. Got \in ValueMaps /\ SatisfiesDefs(gr) /\ SatisfiesDefs(gd)
      BY <1>1, GotFacts
    <2>2. gr \in Numbers /\ gd \in Numbers /\ \A u \in Vars : gr[u] = Got[u].r /\ gd[u] = Got[u].d
      BY <1>1, <2>1, PartsFacts
    <2> QED
      BY <1>1, <2>1, <2>2 DEF SatisfiesDefs
  <1>3. e \in Rationals
    <2>1. Bounded(points) /\ val \in ValueMaps
      BY BoundsKnown DEF SInv, TypeInv, ValueMaps
    <2> QED
      BY <1>1, <2>1, DeltaChosen
  <1>4. p \in Polys /\ \A u \in Vars \ Cols : p[u] = Zero
    BY <1>1, DefsAssumption
  <1>5. PICK m : m = Plus(gr, Scaled(e, gd))
    OBVIOUS
  <1>6. gr \in Polys /\ gd \in Polys /\ Scaled(e, gd) \in Polys /\ m \in Polys /\ m \in Numbers /\ p \in Numbers
    <2>1. gr \in Polys /\ gd \in Polys /\ p \in Numbers
      BY <1>2, <1>4, PolysNumbers
    <2>2. Scaled(e, gd) \in Polys
      BY <1>3, <2>1, PolyClosed
    <2>3. m \in Polys
      <3>1. PICK s : s = Scaled(e, gd)
        OBVIOUS
      <3>2. Plus(gr, s) \in Polys
        BY <1>3, <2>1, <2>2, <3>1, PolyClosed
      <3> QED
        BY <1>5, <3>1, <3>2
    <2> QED
      BY <2>1, <2>2, <2>3, PolysNumbers
  <1>7. \A u \in Vars : m[u] = concrete_model(u) /\ m[u] \in Rationals
    <2> SUFFICES ASSUME NEW u \in Vars PROVE m[u] = concrete_model(u) /\ m[u] \in Rationals
      OBVIOUS
    <2>1. m[u] = RAdd(gr[u], RMul(e, gd[u]))
      BY <1>5 DEF Plus, Scaled
    <2>2. gd[u] \in Rationals
      BY <1>2 DEF Numbers
    <2>3. RMul(e, gd[u]) = RMul(gd[u], e)
      BY <1>3, <2>2, AddCommutes
    <2>4. Got[u] = getValuation(u)
      BY DEF Got
    <2>5. m[u] \in Rationals
      BY <1>6 DEF Numbers
    <2> QED
      BY <1>1, <1>2, <2>1, <2>3, <2>4, <2>5 DEF concrete_model
  <1>8. m[v] = Dot(p, m)
    <2>1. Dot(m, p) = RAdd(Dot(gr, p), RMul(e, Dot(gd, p)))
      <3>1. Dot(Plus(gr, Scaled(e, gd)), p) = RAdd(Dot(gr, p), Dot(Scaled(e, gd), p))
        BY <1>3, <1>6, DotLinear
      <3>2. Dot(Scaled(e, gd), p) = RMul(e, Dot(gd, p))
        BY <1>3, <1>6, DotLinear
      <3> QED
        BY <1>5, <3>1, <3>2
    <2>2. Dot(m, p) = Dot(p, m) /\ Dot(gr, p) = Dot(p, gr) /\ Dot(gd, p) = Dot(p, gd)
      BY <1>4, <1>6, DotSymmetric
    <2>3. m[v] = RAdd(gr[v], RMul(e, gd[v]))
      BY <1>5 DEF Plus, Scaled
    <2> QED
      BY <1>2, <2>1, <2>2, <2>3
  <1> DEFINE f == [u \in Vars |-> RMul(p[u], m[u])]
             h == [u \in Cols |-> RMul(Defs[v][u], concrete_model(u))]
  <1>9. Dot(p, m) = RSum(f, Terms(p))
    BY DEF Dot
  <1>10. Cols \in SUBSET Vars /\ IsFiniteSet(Cols)
    BY VarsAssumption, VarsFinite
  <1>11. \A u \in Cols : f[u] \in Rationals /\ f[u] = h[u]
    <2> SUFFICES ASSUME NEW u \in Cols PROVE f[u] \in Rationals /\ f[u] = h[u]
      OBVIOUS
    <2>1. u \in Vars /\ p[u] \in Rationals /\ m[u] \in Rationals
      BY <1>4, <1>7, <1>10, PolyFacts
    <2>2. f[u] \in Rationals
      BY <2>1, RationalClosed
    <2>3. f[u] = RMul(p[u], m[u])
      BY <2>1
    <2>4. h[u] = RMul(Defs[v][u], concrete_model(u))
      OBVIOUS
    <2>5. m[u] = concrete_model(u) /\ p[u] = Defs[v][u]
      BY <1>1, <1>7, <2>1
    <2> HIDE DEF f, h
    <2>6. f[u] = h[u]
      BY ONLY <2>3, <2>4, <2>5
    <2> QED
      BY <2>2, <2>6
  <1>12. Terms(p) \in SUBSET Cols
    BY <1>4, PolyFacts
  <1>13. \A u \in Cols \ Terms(p) : f[u] = Zero
    <2> SUFFICES ASSUME NEW u \in Cols \ Terms(p) PROVE f[u] = Zero
      OBVIOUS
    <2>1. u \in Vars /\ p[u] = Zero /\ m[u] \in Rationals
      BY <1>4, <1>7, <1>10, PolyFacts
    <2> QED
      BY <2>1, Neutral
  <1> HIDE DEF f, h
  <1>14. RSum(f, Cols) = RSum(f, Terms(p))
    BY <1>10, <1>11, <1>12, <1>13, RSumNonZero
  <1>15. RSum(f, Cols) = RSum(h, Cols)
    BY <1>10, <1>11, RSumSame
  <1> QED
    BY <1>7, <1>8, <1>9, <1>14, <1>15 DEF h

\* The invariant makes the concrete model right.
LEMMA ConcreteHolds ==
    ASSUME SInv
    PROVE  ConcreteModel
  <1> SUFFICES ASSUME pc = "idle", expl = {}, checked = Len(points)
               PROVE  /\ \A k \in DOMAIN points : Kept(points[k].lit, concrete_model(points[k].lit.v))
                      /\ \A v \in Vars \ Cols : concrete_model(v)
                           = RSum([u \in Cols |-> RMul(Defs[v][u], concrete_model(u))], Cols)
    BY DEF ConcreteModel, Kept
  <1>1. candidates = {}
    BY DEF SInv, PcInv
  <1>2. \A k \in DOMAIN points : Kept(points[k].lit, concrete_model(points[k].lit.v))
    BY <1>1, LiteralsKept
  <1>3. \A v \in Vars \ Cols : concrete_model(v)
                           = RSum([u \in Cols |-> RMul(Defs[v][u], concrete_model(u))], Cols)
    BY <1>1, DefinitionsKept
  <1> QED
    BY <1>2, <1>3

\* After an accepted check the model read off satisfies all literals and all definitions.
THEOREM ModelsAreConcrete == Spec => []ConcreteModel
  <1>1. SInv => ConcreteModel
    BY ConcreteHolds
  <1> QED
    BY <1>1, SimplexInvariance, PTL

-----------------------------------------------------------------------------
(* The end of a check.  First, sums and values grow with their parts.      *)

\* Summands that are not greater give a sum that is not greater.
LEMMA RSumLeq ==
    ASSUME NEW f, NEW g, NEW S, IsFiniteSet(S),
           \A x \in S : f[x] \in Rationals /\ g[x] \in Rationals /\ ~ RLess(g[x], f[x])
    PROVE  ~ RLess(RSum(g, S), RSum(f, S))
  <1> DEFINE C == {T \in SUBSET S : RLess(RSum(g, T), RSum(f, T))}
  <1> SUFFICES ASSUME C # {} PROVE FALSE
    OBVIOUS
  <1>1. PICK T \in C : \A x \in T : T \ {x} \notin C
    BY LeastSubset, C \in SUBSET (SUBSET S)
  <1>2. T \in SUBSET S /\ IsFiniteSet(T) /\ RLess(RSum(g, T), RSum(f, T))
    BY <1>1, FS_Subset
  <1>3. RSum(f, T) \in Rationals /\ RSum(g, T) \in Rationals
    BY <1>2, RSumEquation
  <1>4. T # {}
    <2>1. T = {} => RSum(f, T) = Zero /\ RSum(g, T) = Zero
      BY <1>2, RSumEquation
    <2>2. ~ RLess(Zero, Zero)
      BY ZeroOne, RationalOrder
    <2> QED
      BY <1>2, <2>1, <2>2
  <1>5. PICK x : x \in T
    BY <1>4
  <1>6. T \ {x} \in SUBSET S /\ IsFiniteSet(T \ {x}) /\ ~ RLess(RSum(g, T \ {x}), RSum(f, T \ {x}))
    BY <1>1, <1>2, <1>5, FS_Subset
  <1>7. PICK a, b, c, d : a = f[x] /\ b = g[x] /\ c = RSum(f, T \ {x}) /\ d = RSum(g, T \ {x})
    OBVIOUS
  <1>8. a \in Rationals /\ b \in Rationals /\ ~ RLess(b, a)
    BY <1>2, <1>5, <1>7
  <1>9. c \in Rationals /\ d \in Rationals /\ ~ RLess(d, c)
    BY <1>6, <1>7, RSumEquation
  <1>10. RSum(f, T) = RAdd(a, c)
    BY <1>2, <1>5, <1>7, RSumAt
  <1>11. RSum(g, T) = RAdd(b, d)
    BY <1>2, <1>5, <1>7, RSumAt
  <1>12. ~ RLess(RAdd(b, c), RAdd(a, c))
    BY <1>8, <1>9, AddLess
  <1>13. ~ RLess(RAdd(b, d), RAdd(b, c))
    BY <1>8, <1>9, AddLess, AddCommutes
  <1>14. RAdd(b, d) \in Rationals /\ RAdd(b, c) \in Rationals /\ RAdd(a, c) \in Rationals
    BY <1>8, <1>9, RationalClosed
  <1>15. ~ RLess(RAdd(b, d), RAdd(a, c))
    BY <1>12, <1>13, <1>14, RationalOrder
  <1> QED
    BY <1>2, <1>10, <1>11, <1>15

\* One that is less makes the sum less.
LEMMA RSumLess ==
    ASSUME NEW f, NEW g, NEW S, IsFiniteSet(S),
           \A x \in S : f[x] \in Rationals /\ g[x] \in Rationals /\ ~ RLess(g[x], f[x]),
           NEW y \in S, RLess(f[y], g[y])
    PROVE  RLess(RSum(f, S), RSum(g, S))
  <1>1. IsFiniteSet(S \ {y})
    BY FS_Subset
  <1>2. PICK a, b, c, d : a = f[y] /\ b = g[y] /\ c = RSum(f, S \ {y}) /\ d = RSum(g, S \ {y})
    OBVIOUS
  <1>3. a \in Rationals /\ b \in Rationals /\ RLess(a, b)
    BY <1>2
  <1>4. ~ RLess(d, c)
    BY <1>1, <1>2, RSumLeq
  <1>5. c \in Rationals /\ d \in Rationals
    BY <1>1, <1>2, RSumEquation
  <1>6. RSum(f, S) = RAdd(a, c) /\ RSum(g, S) = RAdd(b, d)
    BY <1>2, RSumAt
  <1>7. RLess(RAdd(a, c), RAdd(b, c))
    BY <1>3, <1>5, AddLess
  <1>8. ~ RLess(RAdd(b, d), RAdd(b, c))
    BY <1>3, <1>4, <1>5, AddLess, AddCommutes
  <1>9. RAdd(b, d) \in Rationals /\ RAdd(b, c) \in Rationals /\ RAdd(a, c) \in Rationals
    BY <1>3, <1>5, RationalClosed
  <1> QED
    BY <1>6, <1>7, <1>8, <1>9, RationalOrder

\* The order of two finite values, coordinate by coordinate.
Less2(r, d, s, e) == RLess(r, s) \/ (r = s /\ RLess(d, e))

LEMMA ValueLess ==
    ASSUME NEW a \in Values, NEW b \in Values
    PROVE  /\ DLess(a, b) <=> Less2(a.r, a.d, b.r, b.d)
           /\ a.r \in Rationals /\ a.d \in Rationals /\ b.r \in Rationals /\ b.d \in Rationals
  BY DEF DLess, isInf, Values, Less2

\* A negative factor turns the order round.
LEMMA MulNegative ==
    ASSUME NEW c \in Rationals, NEW a \in Rationals, NEW b \in Rationals, RLess(c, Zero)
    PROVE  RLess(RMul(c, a), RMul(c, b)) <=> RLess(b, a)
  <1>1. RNeg(c) \in Rationals /\ RLess(Zero, RNeg(c))
    <2>1. RNeg(c) \in Rationals /\ c[1] \in Int /\ RNeg(c)[1] = - c[1]
      BY RationalClosed, RationalParts DEF RNeg
    <2>2. c[1] < 0
      BY PositiveSign
    <2> QED
      BY <2>1, <2>2, PositiveSign
  <1>2. RLess(RMul(RNeg(c), b), RMul(RNeg(c), a)) <=> RLess(b, a)
    BY <1>1, MulLess
  <1>3. RMul(RNeg(c), b) = RNeg(RMul(c, b)) /\ RMul(RNeg(c), a) = RNeg(RMul(c, a))
    BY NegFacts
  <1>4. RMul(c, a) \in Rationals /\ RMul(c, b) \in Rationals
    BY RationalClosed
  <1>5. \A p, q \in Rationals : RLess(RNeg(q), RNeg(p)) <=> RLess(p, q)
    BY RationalParts DEF RLess, RNeg
  <1> QED
    BY <1>2, <1>3, <1>4, <1>5

\* A factor keeps the order of two numbers or turns it round, by its sign.
LEMMA MulOrder ==
    ASSUME NEW c \in Rationals, NEW a \in Rationals, NEW b \in Rationals
    PROVE  /\ RLess(Zero, c) => (RLess(RMul(c, a), RMul(c, b)) <=> RLess(a, b))
           /\ RLess(c, Zero) => (RLess(RMul(c, a), RMul(c, b)) <=> RLess(b, a))
           /\ c # Zero => (RMul(c, a) = RMul(c, b) <=> a = b)
  <1>1. RLess(Zero, c) => (RLess(RMul(c, a), RMul(c, b)) <=> RLess(a, b))
    BY MulLess
  <1>2. RLess(c, Zero) => (RLess(RMul(c, a), RMul(c, b)) <=> RLess(b, a))
    BY MulNegative
  <1>3. ASSUME c # Zero, RMul(c, a) = RMul(c, b)
        PROVE  a = b
    <2>1. RLess(Zero, c) \/ RLess(c, Zero)
      BY <1>3, RationalOrder, ZeroOne
    <2>2. RLess(Zero, c) => (RLess(RMul(c, b), RMul(c, a)) <=> RLess(b, a))
      BY MulLess
    <2>3. RLess(c, Zero) => (RLess(RMul(c, b), RMul(c, a)) <=> RLess(a, b))
      BY MulNegative
    <2>4. ~ RLess(RMul(c, a), RMul(c, b)) /\ ~ RLess(RMul(c, b), RMul(c, a))
      <3>1. RMul(c, a) \in Rationals
        BY RationalClosed
      <3> QED
        BY <1>3, <3>1, RationalOrder
    <2>5. ~ RLess(a, b) /\ ~ RLess(b, a)
      BY <1>1, <1>2, <2>1, <2>2, <2>3, <2>4
    <2> QED
      BY <2>5, RationalOrder
  <1> QED
    BY <1>1, <1>2, <1>3

\* The same of values.
LEMMA DMulOrder ==
    ASSUME NEW c \in Rationals, NEW a \in Values, NEW b \in Values
    PROVE  /\ RLess(Zero, c) => (DLess(DMul(c, a), DMul(c, b)) <=> DLess(a, b))
           /\ RLess(c, Zero) => (DLess(DMul(c, a), DMul(c, b)) <=> DLess(b, a))
  <1>1. /\ DMul(c, a) \in Values /\ DMul(c, b) \in Values
        /\ DMul(c, a).r = RMul(c, a.r) /\ DMul(c, a).d = RMul(c, a.d)
        /\ DMul(c, b).r = RMul(c, b.r) /\ DMul(c, b).d = RMul(c, b.d)
    BY DeltaClosed DEF DMul, Delta
  <1>2. /\ RLess(Zero, c) => c # Zero
        /\ RLess(c, Zero) => c # Zero
    BY ZeroOne, RationalOrder
  <1>3. a.r \in Rationals /\ a.d \in Rationals /\ b.r \in Rationals /\ b.d \in Rationals
    BY ValueLess
  <1>4. /\ DLess(a, b) <=> Less2(a.r, a.d, b.r, b.d)
        /\ DLess(b, a) <=> Less2(b.r, b.d, a.r, a.d)
    BY ValueLess
  <1>5. DLess(DMul(c, a), DMul(c, b)) <=> Less2(RMul(c, a.r), RMul(c, a.d), RMul(c, b.r), RMul(c, b.d))
    BY <1>1, ValueLess
  <1>6. /\ RLess(Zero, c) => (RLess(RMul(c, a.r), RMul(c, b.r)) <=> RLess(a.r, b.r))
        /\ RLess(c, Zero) => (RLess(RMul(c, a.r), RMul(c, b.r)) <=> RLess(b.r, a.r))
        /\ c # Zero => (RMul(c, a.r) = RMul(c, b.r) <=> a.r = b.r)
        /\ RLess(Zero, c) => (RLess(RMul(c, a.d), RMul(c, b.d)) <=> RLess(a.d, b.d))
        /\ RLess(c, Zero) => (RLess(RMul(c, a.d), RMul(c, b.d)) <=> RLess(b.d, a.d))
    BY <1>3, MulOrder
  <1> QED
    BY <1>2, <1>4, <1>5, <1>6 DEF Less2

\* A polynomial whose terms do not shrink and of which one grows has grown.
LEMMA EvalLess ==
    ASSUME NEW p \in Polys, NEW F \in ValueMaps, NEW G \in ValueMaps, NEW y \in Terms(p),
           \A u \in Terms(p) : ~ DLess(DMul(p[u], G[u]), DMul(p[u], F[u])),
           DLess(DMul(p[y], F[y]), DMul(p[y], G[y]))
    PROVE  DLess(Eval(p, F), Eval(p, G))
  <1> DEFINE S == Terms(p)
             f1 == [u \in Vars |-> RMul(p[u], F[u].r)]
             f2 == [u \in Vars |-> RMul(p[u], F[u].d)]
             g1 == [u \in Vars |-> RMul(p[u], G[u].r)]
             g2 == [u \in Vars |-> RMul(p[u], G[u].d)]
  <1>1. S \in SUBSET Vars /\ IsFiniteSet(S) /\ \A u \in Vars : p[u] \in Rationals
    BY PolyFacts, VarsFinite
  <1>2. \A u \in S : /\ f1[u] \in Rationals /\ f2[u] \in Rationals
                     /\ g1[u] \in Rationals /\ g2[u] \in Rationals
                     /\ DLess(DMul(p[u], F[u]), DMul(p[u], G[u])) <=> Less2(f1[u], f2[u], g1[u], g2[u])
                     /\ DLess(DMul(p[u], G[u]), DMul(p[u], F[u])) <=> Less2(g1[u], g2[u], f1[u], f2[u])
    <2> SUFFICES ASSUME NEW u \in S
                 PROVE  /\ f1[u] \in Rationals /\ f2[u] \in Rationals
                        /\ g1[u] \in Rationals /\ g2[u] \in Rationals
                        /\ DLess(DMul(p[u], F[u]), DMul(p[u], G[u])) <=> Less2(f1[u], f2[u], g1[u], g2[u])
                        /\ DLess(DMul(p[u], G[u]), DMul(p[u], F[u])) <=> Less2(g1[u], g2[u], f1[u], f2[u])
      OBVIOUS
    <2>1. u \in Vars /\ p[u] \in Rationals /\ F[u] \in Values /\ G[u] \in Values
      BY <1>1 DEF ValueMaps
    <2>2. DMul(p[u], F[u]) \in Values /\ DMul(p[u], G[u]) \in Values
      BY <2>1, DeltaClosed
    <2>3. /\ DMul(p[u], F[u]).r = f1[u] /\ DMul(p[u], F[u]).d = f2[u]
          /\ DMul(p[u], G[u]).r = g1[u] /\ DMul(p[u], G[u]).d = g2[u]
      BY <2>1 DEF DMul, Delta
    <2> HIDE DEF f1, f2, g1, g2
    <2> QED
      BY <2>2, <2>3, ValueLess
  <1>3. Eval(p, F) = Delta(RSum(f1, S), RSum(f2, S)) /\ Eval(p, G) = Delta(RSum(g1, S), RSum(g2, S))
    <2>1. /\ f1 = [u \in Vars |-> RMul(p[u], RParts(F)[u])] /\ f2 = [u \in Vars |-> RMul(p[u], DParts(F)[u])]
          /\ g1 = [u \in Vars |-> RMul(p[u], RParts(G)[u])] /\ g2 = [u \in Vars |-> RMul(p[u], DParts(G)[u])]
      BY DEF RParts, DParts
    <2> HIDE DEF f1, f2, g1, g2
    <2>2. /\ Dot(p, RParts(F)) = RSum(f1, S) /\ Dot(p, DParts(F)) = RSum(f2, S)
          /\ Dot(p, RParts(G)) = RSum(g1, S) /\ Dot(p, DParts(G)) = RSum(g2, S)
      BY <2>1 DEF Dot
    <2> QED
      BY <2>2, EvalParts DEF Eval, RParts, DParts
  <1> HIDE DEF f1, f2, g1, g2
  <1>4. /\ RSum(f1, S) \in Rationals /\ RSum(f2, S) \in Rationals
        /\ RSum(g1, S) \in Rationals /\ RSum(g2, S) \in Rationals
    BY <1>1, <1>2, RSumEquation
  <1>5. \A u \in S : ~ RLess(g1[u], f1[u])
    BY <1>2 DEF Less2
  <1>6. CASE \E u \in S : RLess(f1[u], g1[u])
    <2>1. RLess(RSum(f1, S), RSum(g1, S))
      BY <1>1, <1>2, <1>5, <1>6, RSumLess
    <2> QED
      BY <1>3, <1>4, <2>1, DeltaFacts, ValueLess DEF Less2
  <1>7. CASE \A u \in S : ~ RLess(f1[u], g1[u])
    <2>1. \A u \in S : f1[u] = g1[u]
      BY <1>2, <1>5, <1>7, RationalOrder
    <2>2. RSum(f1, S) = RSum(g1, S)
      BY <1>1, <1>2, <2>1, RSumSame
    <2>3. \A u \in S : ~ RLess(g2[u], f2[u])
      BY <1>2, <2>1 DEF Less2
    <2>4. RLess(f2[y], g2[y])
      BY <1>2, <1>7 DEF Less2
    <2>5. RLess(RSum(f2, S), RSum(g2, S))
      BY <1>1, <1>2, <2>3, <2>4, RSumLess
    <2> QED
      BY <1>3, <1>4, <2>2, <2>5, DeltaFacts, ValueLess DEF Less2
  <1> QED
    BY <1>6, <1>7

-----------------------------------------------------------------------------
(* The turns of a check, one after the other.  A shot is the tableau at a  *)
(* turn: the nonbasic variables nb and the values f of all variables, rows *)
(* set aside included.  The bounds lo and hi do not change meanwhile.      *)

Shots == [nb : SUBSET Vars, f : ValueMaps]
Beyond(lo, hi, f, v) == DLess(f[v], lo[v]) \/ DLess(hi[v], f[v])

\* The values are those of the definitions, nonbasic variables within their bounds.
Fits(s, lo, hi) ==
  /\ s \in Shots /\ Cardinality(s.nb) = Cardinality(Cols)
  /\ SatisfiesDefs(RParts(s.f)) /\ SatisfiesDefs(DParts(s.f))
  /\ \A v \in s.nb : ~ Beyond(lo, hi, s.f, v)

\* A term that can move to the help of a variable that is too low, or too high.
Assists(p, f, low, u, lo, hi) ==
  IF RLess(Zero, p[u]) = low THEN DLess(f[u], hi[u]) ELSE DLess(lo[u], f[u])

Solves(p, x) == \A g \in Numbers : SatisfiesDefs(g) => Holds(p, x, g)

\* The least variable out of bounds leaves the basis, by the row p.
Leaves(s, x, p, lo, hi) ==
  /\ x \in Vars \ s.nb
  /\ Beyond(lo, hi, s.f, x)
  /\ \A v \in Vars \ s.nb : Beyond(lo, hi, s.f, v) => x <= v
  /\ p \in Polys /\ Terms(p) \subseteq s.nb /\ Solves(p, x)

\* The least term of its row that helps enters it.
Enters(s, y, x, p, lo, hi) ==
  /\ y \in Terms(p)
  /\ Assists(p, s.f, DLess(s.f[x], lo[x]), y, lo, hi)
  /\ \A u \in Terms(p) : Assists(p, s.f, DLess(s.f[x], lo[x]), u, lo, hi) => y <= u

\* What a turn makes of a shot.
Exchanges(s, t, x, y, lo, hi) ==
  /\ t.nb = (s.nb \ {y}) \cup {x}
  /\ \A u \in s.nb \ {y} : t.f[u] = s.f[u]
  /\ t.f[x] = IF DLess(s.f[x], lo[x]) THEN lo[x] ELSE hi[x]

Turn(s, t, lo, hi) ==
  \E x, y, p : Leaves(s, x, p, lo, hi) /\ Enters(s, y, x, p, lo, hi) /\ Exchanges(s, t, x, y, lo, hi)

Chain(h, n, lo, hi) ==
  /\ n \in Nat /\ lo \in [Vars -> Extended] /\ hi \in [Vars -> Extended]
  /\ \A k \in 0..n : Fits(h[k], lo, hi)
  /\ \A k \in 0..n : \A u \in h[k].nb : h[k].f[u] \in {h[0].f[u], lo[u], hi[u]}
  /\ \A k \in 1..n : Turn(h[k - 1], h[k], lo, hi)

\* A turn of a chain takes one variable out of the basis and one into it.
LEMMA TurnFacts ==
    ASSUME NEW h, NEW n, NEW lo, NEW hi, Chain(h, n, lo, hi), NEW k \in 1..n
    PROVE  /\ k - 1 \in 0..n /\ k \in 0..n
           /\ h[k].nb \in SUBSET Vars /\ h[k - 1].nb \in SUBSET Vars
           /\ h[k].f \in ValueMaps /\ h[k - 1].f \in ValueMaps
           /\ \A v \in h[k - 1].nb \cap h[k].nb : h[k].f[v] = h[k - 1].f[v]
           /\ \E x, y, p : /\ Leaves(h[k - 1], x, p, lo, hi) /\ Enters(h[k - 1], y, x, p, lo, hi)
                           /\ Exchanges(h[k - 1], h[k], x, y, lo, hi)
                           /\ x \notin h[k - 1].nb /\ x \in h[k].nb
                           /\ y \in h[k - 1].nb /\ y \notin h[k].nb
                           /\ \A v : v \notin h[k - 1].nb /\ v \in h[k].nb => v = x
                           /\ \A v : v \in h[k - 1].nb /\ v \notin h[k].nb => v = y
  <1>1. n \in Nat /\ k - 1 \in 0..n /\ k \in 0..n
    BY DEF Chain
  <1>2. PICK s, t : s = h[k - 1] /\ t = h[k]
    OBVIOUS
  <1>3. s \in Shots /\ t \in Shots
    BY <1>1, <1>2 DEF Chain, Fits
  <1>4. PICK x, y, p : Leaves(s, x, p, lo, hi) /\ Enters(s, y, x, p, lo, hi) /\ Exchanges(s, t, x, y, lo, hi)
    BY <1>2 DEF Chain, Turn
  <1>5. /\ x \in Vars \ s.nb /\ y \in s.nb /\ t.nb = (s.nb \ {y}) \cup {x}
        /\ \A u \in s.nb \ {y} : t.f[u] = s.f[u]
    BY <1>4 DEF Leaves, Enters, Exchanges
  <1>6. s.nb \in SUBSET Vars /\ t.nb \in SUBSET Vars /\ s.f \in ValueMaps /\ t.f \in ValueMaps
    BY <1>3 DEF Shots
  <1>7. /\ x \notin s.nb /\ x \in t.nb /\ y \in s.nb /\ y \notin t.nb
        /\ \A v : v \notin s.nb /\ v \in t.nb => v = x
        /\ \A v : v \in s.nb /\ v \notin t.nb => v = y
        /\ \A v \in s.nb \cap t.nb : t.f[v] = s.f[v]
    BY <1>5
  <1> QED
    BY <1>1, <1>2, <1>4, <1>6, <1>7

\* A variable that stays nonbasic keeps its value.
LEMMA StaysPut ==
    ASSUME NEW h, NEW n, NEW lo, NEW hi, Chain(h, n, lo, hi), NEW a \in 0..n, NEW b \in 0..n, a <= b,
           NEW v, \A k \in a..b : v \in h[k].nb
    PROVE  h[b].f[v] = h[a].f[v]
  <1> DEFINE D == {k \in a..b : h[k].f[v] # h[a].f[v]}
  <1>1. n \in Nat /\ D \in SUBSET Nat
    BY DEF Chain
  <1>2. ASSUME D # {} PROVE FALSE
    <2>1. PICK k \in D : \A m \in D : k <= m
      BY <1>1, <1>2, MinExists
    <2>2. k \in a..b /\ h[k].f[v] # h[a].f[v] /\ k # a
      BY <2>1
    <2>3. k \in 1..n /\ k - 1 \in a..b
      BY <1>1, <2>2
    <2>4. k - 1 \notin D
      BY <2>1, <2>3
    <2>5. h[k - 1].f[v] = h[a].f[v]
      BY <2>3, <2>4
    <2>6. v \in h[k - 1].nb /\ v \in h[k].nb
      BY <2>2, <2>3
    <2>7. h[k].f[v] = h[k - 1].f[v]
      BY <2>3, <2>6, TurnFacts
    <2> QED
      BY <2>2, <2>5, <2>7
  <1>3. b \in a..b
    BY <1>1
  <1> QED
    BY <1>2, <1>3

\* A variable that has come to be nonbasic lies where it was put when it left the basis.
LEMMA LastLeft ==
    ASSUME NEW h, NEW n, NEW lo, NEW hi, Chain(h, n, lo, hi), NEW a \in 0..n, NEW b \in 0..n, a <= b,
           NEW v, v \notin h[a].nb, v \in h[b].nb
    PROVE  \E p \in a + 1..b : v \notin h[p - 1].nb /\ v \in h[p].nb /\ h[p].f[v] = h[b].f[v]
  <1> DEFINE O == {k \in 0..n : k \in a..b /\ v \notin h[k].nb}
  <1>1. n \in Nat
    BY DEF Chain
  <1>2. a \in O
    BY <1>1
  <1>3. PICK m \in O : \A k \in O : k <= m
    <2>1. O \in SUBSET (0..n) /\ O # {}
      BY <1>2
    <2> HIDE DEF O
    <2> QED
      BY <1>1, <2>1, MaxExists
  <1>4. m \in 0..n /\ m \in a..b /\ v \notin h[m].nb /\ m # b
    BY <1>3
  <1>5. \A k \in m + 1..b : v \in h[k].nb
    <2> SUFFICES ASSUME NEW k \in m + 1..b PROVE v \in h[k].nb
      OBVIOUS
    <2>1. k \in 0..n /\ k \in a..b /\ ~ (k <= m)
      BY <1>1, <1>4
    <2> QED
      BY <1>3, <2>1
  <1>6. m + 1 \in a + 1..b /\ m + 1 \in 0..n /\ m + 1 <= b /\ (m + 1) - 1 = m
    BY <1>1, <1>4
  <1>7. h[b].f[v] = h[m + 1].f[v]
    <2>1. PICK c : c = m + 1
      OBVIOUS
    <2>2. h[b].f[v] = h[c].f[v]
      BY <1>5, <1>6, <2>1, StaysPut
    <2> QED
      BY <2>1, <2>2
  <1>8. v \in h[m + 1].nb
    BY <1>5, <1>6
  <1> QED
    BY <1>4, <1>6, <1>7, <1>8

\* Between two shots with the same nonbasic variables, one that never enters the basis
\* is nonbasic all the time or never.
LEMMA NeverEnters ==
    ASSUME NEW h, NEW n, NEW lo, NEW hi, Chain(h, n, lo, hi), NEW i \in 0..n, NEW j \in 0..n,
           h[i].nb = h[j].nb, NEW v, \A q \in i + 1..j : ~ (v \in h[q - 1].nb /\ v \notin h[q].nb),
           NEW k \in i..j, v \in h[k].nb, NEW l \in i..j
    PROVE  v \in h[l].nb /\ h[l].f[v] = h[i].f[v]
  <1>1. n \in Nat
    BY DEF Chain
  <1>2. ASSUME NEW a \in i..j, v \in h[a].nb, NEW b \in i..j, a <= b
        PROVE  v \in h[b].nb
    <2> DEFINE D == {m \in a..b : v \notin h[m].nb}
    <2>1. D \in SUBSET Nat
      BY <1>1
    <2>2. ASSUME D # {} PROVE FALSE
      <3>1. PICK m \in D : \A e \in D : m <= e
        BY <2>1, <2>2, MinExists
      <3>2. m \in a..b /\ v \notin h[m].nb /\ m # a
        BY <1>2, <3>1
      <3>3. m \in i + 1..j /\ m - 1 \in a..b
        BY <1>1, <1>2, <3>2
      <3>4. v \in h[m - 1].nb
        BY <3>1, <3>3
      <3> QED
        BY <3>2, <3>3, <3>4
    <2>3. b \in a..b
      BY <1>1, <1>2
    <2> QED
      BY <2>2, <2>3
  <1>3. i \in i..j /\ j \in i..j /\ i <= j /\ k <= j
    BY <1>1
  <1>4. v \in h[i].nb
    BY <1>2, <1>3
  <1>5. \A m \in i..j : v \in h[m].nb
    BY <1>1, <1>2, <1>3, <1>4
  <1>6. h[l].f[v] = h[i].f[v]
    <2>1. l \in 0..n /\ i <= l /\ \A m \in i..l : m \in i..j
      BY <1>1
    <2>2. \A m \in i..l : v \in h[m].nb
      BY <1>5, <2>1
    <2> QED
      BY <2>1, <2>2, StaysPut
  <1> QED
    BY <1>5, <1>6

\* Two shots that are alike: the same nonbasic variables, with the same values.
Alike(s, t) == s.nb = t.nb /\ \A v \in s.nb : s.f[v] = t.f[v]

\* Between two shots that are alike, a variable that enters the basis has left it, or
\* leaves it, to lie where it enters from.
LEMMA ComesBack ==
    ASSUME NEW h, NEW n, NEW lo, NEW hi, Chain(h, n, lo, hi), NEW i \in 0..n, NEW j \in 0..n,
           i < j, Alike(h[i], h[j]), NEW q \in i + 1..j, NEW v, v \in h[q - 1].nb, v \notin h[q].nb
    PROVE  \E p \in i + 1..j : v \notin h[p - 1].nb /\ v \in h[p].nb /\ h[p].f[v] = h[q - 1].f[v]
  <1>1. n \in Nat /\ q - 1 \in 0..n /\ q \in 0..n /\ i <= q - 1 /\ q <= j
    BY DEF Chain
  <1>2. PICK c : c = q - 1
    OBVIOUS
  <1>3. CASE v \notin h[i].nb
    <2>1. PICK p \in i + 1..c : v \notin h[p - 1].nb /\ v \in h[p].nb /\ h[p].f[v] = h[c].f[v]
      BY <1>1, <1>2, <1>3, LastLeft
    <2>2. p \in i + 1..j
      BY <1>1, <1>2
    <2> QED
      BY <1>2, <2>1, <2>2
  <1>4. CASE v \in h[i].nb
    <2>1. CASE \A k \in i..c : v \in h[k].nb
      <3>1. h[c].f[v] = h[i].f[v]
        BY <1>1, <1>2, <2>1, StaysPut
      <3>2. v \in h[j].nb /\ h[j].f[v] = h[i].f[v]
        BY <1>4 DEF Alike
      <3>3. PICK p \in q + 1..j : v \notin h[p - 1].nb /\ v \in h[p].nb /\ h[p].f[v] = h[j].f[v]
        BY <1>1, <3>2, LastLeft
      <3>4. p \in i + 1..j
        BY <1>1
      <3> QED
        BY <1>2, <3>1, <3>2, <3>3, <3>4
    <2>2. CASE \E k \in i..c : v \notin h[k].nb
      <3>1. PICK k \in i..c : v \notin h[k].nb
        BY <2>2
      <3>2. k \in 0..n /\ k <= c
        BY <1>1, <1>2
      <3>3. PICK p \in k + 1..c : v \notin h[p - 1].nb /\ v \in h[p].nb /\ h[p].f[v] = h[c].f[v]
        BY <1>1, <1>2, <3>1, <3>2, LastLeft
      <3>4. p \in i + 1..j
        BY <1>1, <1>2, <3>2
      <3> QED
        BY <1>2, <3>3, <3>4
    <2> QED
      BY <2>1, <2>2
  <1> QED
    BY <1>3, <1>4

\* A term that cannot help does not help at any value within its bounds.
LEMMA TermLeq ==
    ASSUME NEW c \in Rationals, c # Zero, NEW a \in Values, NEW b \in Values,
           NEW l \in Extended, NEW g \in Extended, NEW low \in BOOLEAN,
           ~ DLess(a, l), ~ DLess(g, a),
           ~ (IF RLess(Zero, c) = low THEN DLess(b, g) ELSE DLess(l, b))
    PROVE  /\ low => ~ DLess(DMul(c, b), DMul(c, a))
           /\ ~ low => ~ DLess(DMul(c, a), DMul(c, b))
  <1>1. a \in Extended /\ b \in Extended
    BY DEF Extended
  <1>2. RLess(Zero, c) \in BOOLEAN /\ (RLess(Zero, c) \/ RLess(c, Zero)) /\ ~ (RLess(Zero, c) /\ RLess(c, Zero))
    BY ZeroOne, RationalOrder DEF RLess
  <1>3. /\ RLess(Zero, c) => (DLess(DMul(c, a), DMul(c, b)) <=> DLess(a, b))
        /\ RLess(c, Zero) => (DLess(DMul(c, a), DMul(c, b)) <=> DLess(b, a))
        /\ RLess(Zero, c) => (DLess(DMul(c, b), DMul(c, a)) <=> DLess(b, a))
        /\ RLess(c, Zero) => (DLess(DMul(c, b), DMul(c, a)) <=> DLess(a, b))
    BY DMulOrder
  <1>4. ASSUME RLess(Zero, c) = low
        PROVE  ~ DLess(b, a)
    <2>1. ~ DLess(b, g)
      BY <1>4
    <2> QED
      BY <1>1, <2>1, ValueOrder
  <1>5. ASSUME RLess(Zero, c) # low
        PROVE  ~ DLess(a, b)
    <2>1. ~ DLess(l, b)
      BY <1>5
    <2> QED
      BY <1>1, <2>1, ValueOrder
  <1> QED
    BY <1>2, <1>3, <1>4, <1>5

\* A term that can help, from the bound it was put at, did not help from where it was before.
LEMMA TermLess ==
    ASSUME NEW c \in Rationals, c # Zero, NEW a \in Values, NEW b \in Values,
           NEW l \in Extended, NEW g \in Extended, NEW low \in BOOLEAN,
           DLess(a, l) \/ DLess(g, a), b = IF DLess(a, l) THEN l ELSE g,
           IF RLess(Zero, c) = low THEN DLess(b, g) ELSE DLess(l, b)
    PROVE  /\ low => DLess(DMul(c, a), DMul(c, b))
           /\ ~ low => DLess(DMul(c, b), DMul(c, a))
  <1>1. a \in Extended /\ b \in Extended /\ ~ DLess(b, b)
    BY ValueOrder DEF Extended
  <1>2. RLess(Zero, c) \in BOOLEAN /\ (RLess(Zero, c) \/ RLess(c, Zero)) /\ ~ (RLess(Zero, c) /\ RLess(c, Zero))
    BY ZeroOne, RationalOrder DEF RLess
  <1>3. /\ RLess(Zero, c) => (DLess(DMul(c, a), DMul(c, b)) <=> DLess(a, b))
        /\ RLess(c, Zero) => (DLess(DMul(c, a), DMul(c, b)) <=> DLess(b, a))
        /\ RLess(Zero, c) => (DLess(DMul(c, b), DMul(c, a)) <=> DLess(b, a))
        /\ RLess(c, Zero) => (DLess(DMul(c, b), DMul(c, a)) <=> DLess(a, b))
    BY DMulOrder
  <1>4. ASSUME RLess(Zero, c) = low
        PROVE  DLess(a, b)
    <2>1. DLess(b, g)
      BY <1>4
    <2>2. b # g
      BY <1>1, <2>1
    <2> QED
      BY <2>2
  <1>5. ASSUME RLess(Zero, c) # low
        PROVE  DLess(b, a)
    <2>1. DLess(l, b)
      BY <1>5
    <2>2. b # l
      BY <1>1, <2>1
    <2> QED
      BY <2>2
  <1> QED
    BY <1>2, <1>3, <1>4, <1>5

\* The value of a variable is that of a row that it solves.
LEMMA SolvedValue ==
    ASSUME NEW s, NEW lo, NEW hi, Fits(s, lo, hi), NEW p \in Polys, NEW x \in Vars, Solves(p, x)
    PROVE  s.f \in ValueMaps /\ s.f[x] = Eval(p, s.f)
  <1>1. s.f \in ValueMaps /\ SatisfiesDefs(RParts(s.f)) /\ SatisfiesDefs(DParts(s.f))
    BY DEF Fits, Shots
  <1>2. RParts(s.f) \in Numbers /\ DParts(s.f) \in Numbers
    BY <1>1, PartsFacts
  <1>3. Holds(p, x, RParts(s.f)) /\ Holds(p, x, DParts(s.f))
    BY <1>1, <1>2 DEF Solves
  <1> QED
    BY <1>1, <1>3, EvalParts

\* The variables that enter the basis between two shots.
EntersBetween(h, i, j) == {v \in Vars : \E q \in i + 1..j : v \in h[q - 1].nb /\ v \notin h[q].nb}

\* A row p of s that wants r to move, in the values F: r was out of bounds there and was put
\* where it now is, smaller terms were within bounds and cannot help, greater ones are the same.
Compared(p, F, G, r, low, lo, hi) ==
  /\ r \in Terms(p) /\ Assists(p, G, low, r, lo, hi)
  /\ Beyond(lo, hi, F, r) /\ G[r] = IF DLess(F[r], lo[r]) THEN lo[r] ELSE hi[r]
  /\ \A u \in Terms(p) : u < r => ~ Beyond(lo, hi, F, u) /\ ~ Assists(p, G, low, u, lo, hi)
  /\ \A u \in Terms(p) : u > r => F[u] = G[u]

\* Then the row is even further off there.
LEMMA FurtherOff ==
    ASSUME NEW lo \in [Vars -> Extended], NEW hi \in [Vars -> Extended], NEW p \in Polys,
           NEW F \in ValueMaps, NEW G \in ValueMaps, NEW r, NEW low \in BOOLEAN,
           Compared(p, F, G, r, low, lo, hi)
    PROVE  /\ low => DLess(Eval(p, F), Eval(p, G))
           /\ ~ low => DLess(Eval(p, G), Eval(p, F))
  <1>1. /\ r \in Terms(p) /\ r \in Vars
        /\ \A u \in Terms(p) : /\ u \in Vars /\ u \in Int /\ p[u] \in Rationals /\ p[u] # Zero
                               /\ F[u] \in Values /\ G[u] \in Values /\ lo[u] \in Extended /\ hi[u] \in Extended
    BY PolyFacts, VarsAssumption DEF Compared, ValueMaps, Vars
  <1>2. /\ low => DLess(DMul(p[r], F[r]), DMul(p[r], G[r]))
        /\ ~ low => DLess(DMul(p[r], G[r]), DMul(p[r], F[r]))
    <2>1. /\ DLess(F[r], lo[r]) \/ DLess(hi[r], F[r])
          /\ G[r] = IF DLess(F[r], lo[r]) THEN lo[r] ELSE hi[r]
          /\ IF RLess(Zero, p[r]) = low THEN DLess(G[r], hi[r]) ELSE DLess(lo[r], G[r])
      BY DEF Compared, Beyond, Assists
    <2>2. PICK c, a, b, l, g : c = p[r] /\ a = F[r] /\ b = G[r] /\ l = lo[r] /\ g = hi[r]
      OBVIOUS
    <2>3. /\ low => DLess(DMul(c, a), DMul(c, b))
          /\ ~ low => DLess(DMul(c, b), DMul(c, a))
      BY <1>1, <2>1, <2>2, TermLess
    <2> QED
      BY <2>2, <2>3
  <1>3. ASSUME NEW u \in Terms(p)
        PROVE  /\ low => ~ DLess(DMul(p[u], G[u]), DMul(p[u], F[u]))
               /\ ~ low => ~ DLess(DMul(p[u], F[u]), DMul(p[u], G[u]))
    <2>1. DMul(p[u], F[u]) \in Values /\ DMul(p[u], G[u]) \in Values
      BY <1>1, DeltaClosed
    <2>2. DMul(p[u], F[u]) \in Extended /\ DMul(p[u], G[u]) \in Extended
      BY <2>1 DEF Extended
    <2>3. CASE u > r
      <3>1. F[u] = G[u]
        BY <2>3 DEF Compared
      <3> QED
        BY <2>2, <3>1, ValueOrder
    <2>4. CASE u = r
      BY <1>2, <2>2, <2>4, ValueOrder
    <2>5. CASE u < r
      <3>1. ~ Beyond(lo, hi, F, u) /\ ~ Assists(p, G, low, u, lo, hi)
        BY <2>5 DEF Compared
      <3>2. /\ ~ DLess(F[u], lo[u]) /\ ~ DLess(hi[u], F[u])
            /\ ~ (IF RLess(Zero, p[u]) = low THEN DLess(G[u], hi[u]) ELSE DLess(lo[u], G[u]))
        BY <3>1 DEF Beyond, Assists
      <3>3. PICK c, a, b, l, g : c = p[u] /\ a = F[u] /\ b = G[u] /\ l = lo[u] /\ g = hi[u]
        OBVIOUS
      <3>4. /\ low => ~ DLess(DMul(c, b), DMul(c, a))
            /\ ~ low => ~ DLess(DMul(c, a), DMul(c, b))
        BY <1>1, <3>2, <3>3, TermLeq
      <3> QED
        BY <3>3, <3>4
    <2> QED
      BY <1>1, <2>3, <2>4, <2>5
  <1>4. ASSUME low PROVE DLess(Eval(p, F), Eval(p, G))
    BY <1>1, <1>2, <1>3, <1>4, EvalLess
  <1>5. ASSUME ~ low PROVE DLess(Eval(p, G), Eval(p, F))
    BY <1>1, <1>2, <1>3, <1>5, EvalLess
  <1> QED
    BY <1>4, <1>5

\* No two shots of a chain are alike.
LEMMA NoneAlike ==
    ASSUME NEW h, NEW n, NEW lo, NEW hi, Chain(h, n, lo, hi), NEW i \in 0..n, NEW j \in 0..n,
           i < j, Alike(h[i], h[j])
    PROVE  FALSE
  <1> DEFINE E == EntersBetween(h, i, j)
  <1>1. n \in Nat /\ lo \in [Vars -> Extended] /\ hi \in [Vars -> Extended] /\ i + 1 \in i + 1..j
        /\ h[i].nb = h[j].nb /\ \A q \in i + 1..j : q \in 1..n /\ q - 1 \in i..j /\ q \in i..j
    BY DEF Chain, Alike
  <1>2. E \in SUBSET (0..N) /\ E # {} /\ N \in Nat
    <2>1. PICK y : y \in h[(i + 1) - 1].nb /\ y \notin h[i + 1].nb /\ h[(i + 1) - 1].nb \in SUBSET Vars
      BY <1>1, TurnFacts
    <2> QED
      BY <1>1, <2>1, VarsAssumption DEF EntersBetween, Vars
  <1>3. PICK r \in E : \A v \in E : v <= r
    <2> HIDE DEF E
    <2> QED
      BY <1>2, MaxExists
  <1>4. PICK q \in i + 1..j : r \in h[q - 1].nb /\ r \notin h[q].nb
    BY <1>3 DEF EntersBetween
  <1>5. PICK p \in i + 1..j : r \notin h[p - 1].nb /\ r \in h[p].nb /\ h[p].f[r] = h[q - 1].f[r]
    BY <1>4, ComesBack
  <1>6. PICK b, P : /\ Leaves(h[q - 1], b, P, lo, hi) /\ Enters(h[q - 1], r, b, P, lo, hi)
                    /\ b \notin h[q - 1].nb /\ b \in h[q].nb
    BY <1>1, <1>4, TurnFacts
  <1>7. PICK y2, P2 : Leaves(h[p - 1], r, P2, lo, hi) /\ Exchanges(h[p - 1], h[p], r, y2, lo, hi)
    BY <1>1, <1>5, TurnFacts
  <1>8. PICK s, t, F, G : s = h[p - 1] /\ t = h[q - 1] /\ F = s.f /\ G = t.f
    OBVIOUS
  <1>9. Fits(s, lo, hi) /\ Fits(t, lo, hi)
    BY <1>1, <1>8 DEF Chain
  <1>10. /\ Leaves(t, b, P, lo, hi) /\ Enters(t, r, b, P, lo, hi) /\ b \notin t.nb
         /\ Leaves(s, r, P2, lo, hi) /\ G[r] = IF DLess(F[r], lo[r]) THEN lo[r] ELSE hi[r]
    BY <1>5, <1>6, <1>7, <1>8 DEF Exchanges
  <1>11. /\ P \in Polys /\ Terms(P) \subseteq t.nb /\ Solves(P, b) /\ b \in Vars
         /\ Beyond(lo, hi, G, b)
         /\ r \in Terms(P) /\ r \in Vars /\ Beyond(lo, hi, F, r)
         /\ \A v \in Vars \ s.nb : Beyond(lo, hi, F, v) => r <= v
    BY <1>8, <1>10 DEF Leaves, Enters
  <1>12. PICK low \in BOOLEAN : low <=> DLess(G[b], lo[b])
    OBVIOUS
  <1>13. /\ Assists(P, G, low, r, lo, hi)
         /\ \A u \in Terms(P) : Assists(P, G, low, u, lo, hi) => r <= u
    <2>1. DLess(G[b], lo[b]) \in BOOLEAN
      BY DEF DLess
    <2>2. low = DLess(G[b], lo[b])
      BY <1>12, <2>1
    <2> QED
      BY <1>8, <1>10, <2>2 DEF Enters
  <1>14. \A v \in Vars : v \in Int
    BY VarsAssumption DEF Vars
  <1>15. s.nb \in SUBSET Vars /\ t.nb \in SUBSET Vars /\ F \in ValueMaps /\ G \in ValueMaps
         /\ (\A v \in s.nb : ~ Beyond(lo, hi, F, v)) /\ \A v \in t.nb : ~ Beyond(lo, hi, G, v)
    BY <1>8, <1>9 DEF Fits, Shots
  <1>16. ASSUME NEW u \in Vars, u > r, NEW k \in i..j, u \in h[k].nb
         PROVE  u \in t.nb /\ F[u] = G[u]
    <2>1. u \notin E
      BY <1>3, <1>11, <1>14, <1>16
    <2>2. \A m \in i + 1..j : ~ (u \in h[m - 1].nb /\ u \notin h[m].nb)
      BY <2>1 DEF EntersBetween
    <2>3. p - 1 \in i..j /\ q - 1 \in i..j
      BY <1>1
    <2>4. \A l \in i..j : u \in h[l].nb /\ h[l].f[u] = h[i].f[u]
      BY <1>1, <1>16, <2>2, NeverEnters
    <2> QED
      BY <1>8, <2>3, <2>4
  <1>17. Compared(P, F, G, r, low, lo, hi)
    <2>1. ASSUME NEW u \in Terms(P), u < r
          PROVE  ~ Beyond(lo, hi, F, u) /\ ~ Assists(P, G, low, u, lo, hi)
      <3>1. u \in Vars /\ ~ (r <= u)
        BY <1>11, <1>14, <1>15, <2>1
      <3> QED
        BY <1>11, <1>13, <1>15, <3>1
    <2>2. ASSUME NEW u \in Terms(P), u > r
          PROVE  F[u] = G[u]
      <3>1. u \in Vars /\ u \in h[q - 1].nb /\ q - 1 \in i..j
        BY <1>1, <1>8, <1>11, <1>15
      <3> QED
        BY <1>16, <2>2, <3>1
    <2> QED
      BY <1>10, <1>11, <1>13, <2>1, <2>2 DEF Compared
  <1>18. Beyond(lo, hi, F, b)
    <2>1. F[b] = Eval(P, F) /\ G[b] = Eval(P, G)
      BY <1>8, <1>9, <1>11, SolvedValue
    <2>2. F[b] \in Extended /\ G[b] \in Extended /\ lo[b] \in Extended /\ hi[b] \in Extended
      BY <1>1, <1>11, <1>15 DEF ValueMaps, Extended
    <2>3. /\ low => DLess(F[b], G[b])
          /\ ~ low => DLess(G[b], F[b])
      BY <1>1, <1>11, <1>15, <1>17, <2>1, FurtherOff
    <2>4. low => DLess(F[b], lo[b])
      BY <1>12, <2>2, <2>3, ValueOrder
    <2>5. ~ low => DLess(hi[b], F[b])
      BY <1>11, <1>12, <2>2, <2>3, ValueOrder DEF Beyond
    <2> QED
      BY <2>4, <2>5 DEF Beyond
  <1>19. b > r
    <2>1. b \in Vars \ s.nb
      BY <1>11, <1>15, <1>18
    <2>2. r <= b /\ b # r
      BY <1>4, <1>8, <1>10, <1>11, <1>18, <2>1
    <2> QED
      BY <1>11, <1>14, <2>2
  <1>20. b \in t.nb
    <2>1. q \in i..j /\ b \in h[q].nb
      BY <1>1, <1>6
    <2> QED
      BY <1>11, <1>16, <1>19, <2>1
  <1> QED
    BY <1>10, <1>20

\* What a shot looks like: a configuration.
Look(s, z, lo, hi) ==
  [v \in Vars |-> IF v \notin s.nb THEN "basis"
                  ELSE IF s.f[v] = lo[v] THEN "lower" ELSE IF s.f[v] = hi[v] THEN "upper" ELSE "start"]

\* There are finitely many configurations.
LEMMA ConfigurationsFinite == IsFiniteSet(Configurations) /\ Cardinality(Configurations) \in Nat
  <1> DEFINE K == {"basis", "start", "lower", "upper"}
             G(g) == {<<v, g[v]>> : v \in Vars}
             T == SUBSET (Vars \X K)
             m == [g \in Configurations |-> G(g)]
  <1>1. IsFiniteSet(K)
    <2>1. IsFiniteSet({"basis"}) /\ IsFiniteSet({"start"}) /\ IsFiniteSet({"lower"}) /\ IsFiniteSet({"upper"})
      BY FS_Singleton
    <2>2. IsFiniteSet({"basis"} \cup {"start"}) /\ IsFiniteSet({"lower"} \cup {"upper"})
      BY <2>1, FS_Union
    <2>3. IsFiniteSet(({"basis"} \cup {"start"}) \cup ({"lower"} \cup {"upper"}))
      BY <2>2, FS_Union
    <2>4. K = ({"basis"} \cup {"start"}) \cup ({"lower"} \cup {"upper"})
      OBVIOUS
    <2> QED
      BY <2>3, <2>4
  <1>2. IsFiniteSet(T)
    <2> HIDE DEF K
    <2>1. IsFiniteSet(Vars \X K)
      BY <1>1, VarsFinite, FS_Product
    <2> QED
      BY <2>1, FS_SUBSET
  <1>3. ASSUME NEW g \in Configurations
        PROVE  G(g) \in T
    BY DEF Configurations
  <1>4. ASSUME NEW g \in Configurations, NEW e \in Configurations, G(g) = G(e)
        PROVE  g = e
    <2>1. ASSUME NEW v \in Vars PROVE g[v] = e[v]
      <3>1. <<v, g[v]>> \in G(e)
        BY <1>4
      <3> QED
        BY <3>1
    <2>2. g \in [Vars -> K] /\ e \in [Vars -> K]
      BY DEF Configurations
    <2> QED
      BY <2>1, <2>2
  <1> HIDE DEF K, G, T
  <1>5. m \in Injection(Configurations, T)
    <2>1. m \in [Configurations -> T]
      BY <1>3
    <2>2. \A g, e \in Configurations : m[g] = m[e] => g = e
      BY <1>4
    <2> HIDE DEF m
    <2> QED
      BY <2>1, <2>2 DEF Injection, IsInjective
  <1>6. IsFiniteSet(Configurations)
    <2> HIDE DEF m
    <2> QED
      BY <1>2, <1>5, FS_Injection
  <1> QED
    BY <1>6, FS_CardinalityType

\* So a chain has no more shots than there are configurations.
LEMMA ChainBounded ==
    ASSUME NEW h, NEW n, NEW lo, NEW hi, Chain(h, n, lo, hi)
    PROVE  n < Cardinality(Configurations)
  <1> DEFINE L == [k \in 0..n |-> Look(h[k], h[0], lo, hi)]
  <1>1. n \in Nat /\ \A k \in 0..n : \A u \in h[k].nb : h[k].f[u] \in {h[0].f[u], lo[u], hi[u]}
    BY DEF Chain
  <1>2. \A k \in 0..n : h[k].nb \in SUBSET Vars /\ Cardinality(h[k].nb) = Cardinality(Cols)
    BY DEF Chain, Fits, Shots
  <1>3. L \in [0..n -> Configurations]
    <2>1. ASSUME NEW k \in 0..n PROVE Look(h[k], h[0], lo, hi) \in Configurations
      <3>1. PICK c : c = Look(h[k], h[0], lo, hi)
        OBVIOUS
      <3>2. /\ c \in [Vars -> {"basis", "start", "lower", "upper"}]
            /\ \A v \in Vars : c[v] # "basis" <=> v \in h[k].nb
        BY <3>1 DEF Look
      <3>3. {v \in Vars : c[v] # "basis"} = h[k].nb
        BY <1>2, <3>2
      <3> QED
        BY <1>2, <3>1, <3>2, <3>3 DEF Configurations
    <2> QED
      BY <2>1
  <1>4. ASSUME NEW i \in 0..n, NEW j \in 0..n, L[i] = L[j]
        PROVE  Alike(h[i], h[j])
    <2>1. PICK s, t, z : s = h[i] /\ t = h[j] /\ z = h[0]
      OBVIOUS
    <2>2. Look(s, z, lo, hi) = Look(t, z, lo, hi)
      BY <1>4, <2>1
    <2>3. ASSUME NEW v \in Vars
          PROVE  (v \in s.nb <=> v \in t.nb) /\ (v \in s.nb => s.f[v] = t.f[v])
      <3>1. Look(s, z, lo, hi)[v] = Look(t, z, lo, hi)[v]
        BY <2>2
      <3>2. (IF v \notin s.nb THEN "basis"
                  ELSE IF s.f[v] = lo[v] THEN "lower" ELSE IF s.f[v] = hi[v] THEN "upper" ELSE "start")
            = (IF v \notin t.nb THEN "basis"
                  ELSE IF t.f[v] = lo[v] THEN "lower" ELSE IF t.f[v] = hi[v] THEN "upper" ELSE "start")
        BY <3>1 DEF Look
      <3>3. /\ v \in s.nb => s.f[v] \in {z.f[v], lo[v], hi[v]}
            /\ v \in t.nb => t.f[v] \in {z.f[v], lo[v], hi[v]}
        BY <1>1, <2>1
      <3> QED
        BY <3>2, <3>3
    <2>4. s.nb \in SUBSET Vars /\ t.nb \in SUBSET Vars
      BY <1>2, <2>1
    <2> QED
      BY <2>1, <2>3, <2>4 DEF Alike
  <1>5. ASSUME NEW i \in 0..n, NEW j \in 0..n, Alike(h[i], h[j])
        PROVE  i = j
    <2>1. Alike(h[j], h[i])
      BY <1>5 DEF Alike
    <2>2. ~ (i < j)
      BY <1>5, NoneAlike
    <2>3. ~ (j < i)
      BY <2>1, NoneAlike
    <2> QED
      BY <1>1, <2>2, <2>3
  <1>6. L \in Injection(0..n, Configurations)
    <2>1. \A i, j \in 0..n : L[i] = L[j] => i = j
      BY <1>4, <1>5
    <2> HIDE DEF L
    <2> QED
      BY <1>3, <2>1 DEF Injection, IsInjective
  <1>7. Cardinality(0..n) <= Cardinality(Configurations)
    <2> HIDE DEF L
    <2> QED
      BY <1>6, ConfigurationsFinite, FS_Injection
  <1>8. Cardinality(0..n) = n + 1
    BY <1>1, FS_Interval
  <1> QED
    BY <1>1, <1>7, <1>8, ConfigurationsFinite

-----------------------------------------------------------------------------
(* The turns of the check that is running.                                 *)

Lows == [v \in Vars |-> Lb(v)]
Highs == [v \in Vars |-> Ub(v)]
Turns == IF repeats > NumOfCols THEN repeats - NumOfCols ELSE 0

\* A shot of this state; rows set aside are given the values they would have.
Shows(s) == s.nb = NonBasic /\ \A v \in Vars \ Quasi : s.f[v] = val[v]
Taken == \E s : Fits(s, Lows, Highs) /\ Shows(s)

\* A pivot exchanges a nonbasic variable for a basic one; nothing else changes which they are.
NonBasicCount == Cardinality(NonBasic) = Cardinality(Cols)

(* The shots since the last turn by heuristic are a chain. *)
Underway == \E h : Chain(h, Turns, Lows, Highs) /\ Shows(h[Turns])
TurnsInv ==
  /\ repeats \in Nat /\ NonBasicCount
  /\ pc = "idle" => repeats = 0
  /\ pc = "check" => Underway

\* The bounds in force, as functions.
LEMMA BoundFunctions ==
    /\ \A v \in Vars : Lows[v] = Lb(v) /\ Highs[v] = Ub(v) /\ Lb(v) = LbIn(points, v) /\ Ub(v) = UbIn(points, v)
    /\ points' = points => Lows' = Lows /\ Highs' = Highs
    /\ \A f : \A v \in Vars : Beyond(Lows, Highs, f, v) <=> OutIn(points, f, v)
  <1>1. \A v \in Vars : Lows[v] = Lb(v) /\ Highs[v] = Ub(v) /\ Lb(v) = LbIn(points, v) /\ Ub(v) = UbIn(points, v)
    BY BoundsIn DEF Lows, Highs
  <1>2. ASSUME points' = points PROVE Lows' = Lows /\ Highs' = Highs
    <2>1. \A v \in Vars : Lb(v)' = Lb(v) /\ Ub(v)' = Ub(v)
      BY <1>2, BoundsIn
    <2>2. Lows' = [v \in Vars |-> Lb(v)'] /\ Highs' = [v \in Vars |-> Ub(v)']
      BY DEF Lows, Highs
    <2> QED
      BY <2>1, <2>2 DEF Lows, Highs
  <1> QED
    BY <1>1, <1>2 DEF Beyond, OutIn

\* The bounds are values or infinities.
LEMMA BoundRanges ==
    ASSUME SInv
    PROVE  Lows \in [Vars -> Extended] /\ Highs \in [Vars -> Extended]
  <1>1. Bounded(points)
    BY BoundsKnown DEF SInv, TypeInv
  <1>2. \A v \in Vars : Lb(v) \in Extended /\ Ub(v) \in Extended
    BY <1>1, BoundTypes, BoundsIn
  <1> QED
    BY <1>2 DEF Lows, Highs

\* Every state can be shot.
LEMMA ShotTaken == SInv /\ NonBasicCount => Taken
  <1> SUFFICES ASSUME SInv, NonBasicCount PROVE Taken
    OBVIOUS
  <1>1. TypeInv /\ NonBasicWithinBounds
    BY DEF SInv
  <1>2. Got \in ValueMaps /\ SatisfiesDefs(RParts(Got)) /\ SatisfiesDefs(DParts(Got))
    BY GotFacts
  <1>3. \A v \in Vars \ Quasi : Got[v] = val[v]
    BY DEF Got, getValuation
  <1>4. NonBasic \in SUBSET Vars /\ \A v \in NonBasic : v \in Vars \ Quasi
    BY <1>1, KindFacts
  <1>5. \A v \in NonBasic : ~ Beyond(Lows, Highs, Got, v)
    <2> SUFFICES ASSUME NEW v \in NonBasic PROVE ~ Beyond(Lows, Highs, Got, v)
      OBVIOUS
    <2>1. ~ OutIn(points, val, v) /\ Got[v] = val[v] /\ v \in Vars
      BY <1>1, <1>3, <1>4, WithinSplit DEF WithinBounds
    <2> QED
      BY <2>1, BoundFunctions DEF OutIn
  <1>6. PICK s : s = [nb |-> NonBasic, f |-> Got]
    OBVIOUS
  <1>7. s.nb = NonBasic /\ s.f = Got /\ s \in Shots
    BY <1>2, <1>4, <1>6 DEF Shots
  <1> QED
    BY <1>2, <1>3, <1>5, <1>7 DEF Taken, Fits, Shows, NonBasicCount

\* A chain begins with any shot.
LEMMA ChainBegins ==
    ASSUME NEW lo \in [Vars -> Extended], NEW hi \in [Vars -> Extended], NEW s, Fits(s, lo, hi)
    PROVE  \E h : Chain(h, 0, lo, hi) /\ h[0] = s
  <1>1. PICK h : h = [k \in {0} |-> s]
    OBVIOUS
  <1>2. h[0] = s /\ \A k \in 0..0 : k = 0
    BY <1>1
  <1>3. Chain(h, 0, lo, hi)
    BY <1>2 DEF Chain
  <1> QED
    BY <1>2, <1>3

\* And goes on with every turn.
LEMMA ChainGoesOn ==
    ASSUME NEW h, NEW n, NEW lo, NEW hi, Chain(h, n, lo, hi), NEW s, Fits(s, lo, hi),
           Turn(h[n], s, lo, hi)
    PROVE  \E g : Chain(g, n + 1, lo, hi) /\ g[n + 1] = s
  <1>1. /\ n \in Nat /\ lo \in [Vars -> Extended] /\ hi \in [Vars -> Extended]
        /\ \A k \in 0..n : Fits(h[k], lo, hi)
        /\ \A k \in 0..n : \A u \in h[k].nb : h[k].f[u] \in {h[0].f[u], lo[u], hi[u]}
        /\ \A k \in 1..n : Turn(h[k - 1], h[k], lo, hi)
    BY DEF Chain
  <1>2. PICK g : g = [k \in 0..n + 1 |-> IF k = n + 1 THEN s ELSE h[k]]
    OBVIOUS
  <1>3. g[n + 1] = s /\ (\A k \in 0..n : g[k] = h[k]) /\ \A k \in 0..n + 1 : k \in 0..n \/ k = n + 1
    BY <1>1, <1>2
  <1>4. \A u \in s.nb : s.f[u] \in {h[n].f[u], lo[u], hi[u]} /\ (u \notin h[n].nb => s.f[u] \in {lo[u], hi[u]})
    BY DEF Turn, Exchanges
  <1>5. \A u \in s.nb : s.f[u] \in {h[0].f[u], lo[u], hi[u]}
    <2> SUFFICES ASSUME NEW u \in s.nb PROVE s.f[u] \in {h[0].f[u], lo[u], hi[u]}
      OBVIOUS
    <2>1. u \in h[n].nb => h[n].f[u] \in {h[0].f[u], lo[u], hi[u]}
      BY <1>1
    <2> QED
      BY <1>4, <2>1
  <1>6. \A k \in 0..n + 1 : Fits(g[k], lo, hi)
    BY <1>1, <1>3
  <1>7. g[0] = h[0]
    BY <1>1, <1>3
  <1>8. \A k \in 0..n + 1 : \A u \in g[k].nb : g[k].f[u] \in {g[0].f[u], lo[u], hi[u]}
    BY <1>1, <1>3, <1>5, <1>7
  <1>9. \A k \in 1..n + 1 : Turn(g[k - 1], g[k], lo, hi)
    <2> SUFFICES ASSUME NEW k \in 1..n + 1 PROVE Turn(g[k - 1], g[k], lo, hi)
      OBVIOUS
    <2>1. CASE k = n + 1
      <3>1. k - 1 = n /\ n \in 0..n
        BY <1>1, <2>1
      <3> QED
        BY <1>3, <2>1, <3>1
    <2>2. CASE k # n + 1
      <3>1. k \in 1..n /\ k \in 0..n /\ k - 1 \in 0..n
        BY <1>1, <2>2
      <3> QED
        BY <1>1, <1>3, <3>1
    <2> QED
      BY <2>1, <2>2
  <1>10. Chain(g, n + 1, lo, hi)
    BY <1>1, <1>6, <1>8, <1>9 DEF Chain
  <1> QED
    BY <1>3, <1>10

\* The least of the choices.
LEMMA PickLeastFacts ==
    ASSUME NEW S \in SUBSET Vars, PickLeast(S) # NoVar
    PROVE  PickLeast(S) \in S /\ \A u \in S : PickLeast(S) <= u
  <1>1. S # {} /\ \A v \in Vars : v \in Nat
    BY VarsAssumption DEF PickLeast, Vars
  <1>2. \E v \in S : \A u \in S : v <= u
    BY <1>1, MinExists
  <1> QED
    BY <1>1, <1>2 DEF PickLeast, Least

\* A turn ends the check or pivots, under Bland's rule on the least variables.
LEMMA TurnCases ==
    ASSUME TypeInv, Step, repeats \in Nat
    PROVE  \/ pc' = "idle" /\ repeats' = 0
           \/ /\ pc' = pc /\ repeats' = repeats + 1
              /\ \E x \in candidates : \E y \in Helpers(x) :
                   /\ PivotedOn(x, y)
                   /\ repeats >= NumOfCols => /\ \A v \in candidates : x <= v
                                              /\ \A u \in Helpers(x) : y <= u
  <1>1. PICK bland \in BOOLEAN : bland <=> repeats + 1 > NumOfCols
    OBVIOUS
  <1>2. PICK x, y : x = Fixed(bland) /\ y = Entering(bland, x)
    OBVIOUS
  <1>3. x = IF repeats + 1 > NumOfCols THEN getBasicVarToFixByBland ELSE getBasicVarToFixByShortestPoly
    BY <1>1, <1>2 DEF Fixed
  <1>4. y = IF repeats + 1 > NumOfCols THEN findNonBasicForPivotByBland(x)
                       ELSE findNonBasicForPivotByHeuristic(x)
    BY <1>1, <1>2 DEF Entering
  <1>5. \/ pc' = "idle" /\ repeats' = 0
        \/ x # NoVar /\ y # NoVar /\ PivotedOn(x, y) /\ repeats' = repeats + 1 /\ pc' = pc
    BY <1>3, <1>4 DEF Step, PivotedOn
  <1>6. ASSUME x # NoVar, y # NoVar
        PROVE  x \in candidates /\ y \in Helpers(x)
    BY <1>2, <1>6, FixedFacts, EnteringFacts
  <1>7. candidates \in SUBSET Vars /\ Helpers(x) \in SUBSET Vars
    BY DEF TypeInv, Helpers, Terms
  <1>8. ASSUME x # NoVar, y # NoVar, repeats >= NumOfCols
        PROVE  (\A v \in candidates : x <= v) /\ \A u \in Helpers(x) : y <= u
    <2>1. repeats + 1 > NumOfCols
      BY <1>8, NumOfColsAssumption
    <2>2. x = PickLeast(candidates) /\ y = PickLeast(Helpers(x))
      BY <1>3, <1>4, <2>1 DEF getBasicVarToFixByBland, findNonBasicForPivotByBland
    <2>3. PICK S : S = Helpers(x)
      OBVIOUS
    <2>4. \A v \in candidates : x <= v
      BY <1>7, <1>8, <2>2, PickLeastFacts
    <2>5. \A u \in S : y <= u
      BY <1>7, <1>8, <2>2, <2>3, PickLeastFacts
    <2> QED
      BY <2>3, <2>4, <2>5
  <1> QED
    BY <1>5, <1>6, <1>8

\* A row holds of the numbers that satisfy the definitions.
LEMMA RowSolves ==
    ASSUME RowsInv, NEW x \in Vars \ NonBasic
    PROVE  Solves(row[x], x)
  <1> SUFFICES ASSUME NEW g \in Numbers, SatisfiesDefs(g) PROVE Holds(row[x], x, g)
    BY DEF Solves
  <1>1. SatisfiesRows(g)
    BY DEF RowsInv, Numbers
  <1> QED
    BY <1>1 DEF SatisfiesRows, Holds

\* The least candidate leaves the basis.
LEMMA CandidateLeaves ==
    ASSUME SInv, pc = "check", NEW s, Fits(s, Lows, Highs), Shows(s),
           NEW x \in candidates, \A v \in candidates : x <= v
    PROVE  /\ Leaves(s, x, row[x], Lows, Highs)
           /\ x \in Basic /\ OutOfBounds(val, x) /\ s.f[x] = val[x]
           /\ DLess(s.f[x], Lows[x]) <=> TooLow(x)
  <1>1. /\ TypeInv /\ TableauConsistent /\ RowsInv /\ BoundsInv /\ NonBasicWithinBounds /\ expl = {}
    BY DEF SInv, PcInv
  <1>2. candidates = Candidates(points, val, Basic)
    BY <1>1, WithinSplit
  <1>3. /\ x \in Basic /\ x \in Vars /\ x \notin NonBasic /\ x \notin Quasi
        /\ OutIn(points, val, x) /\ OutOfBounds(val, x)
    BY <1>1, <1>2, KindFacts, BoundsIn DEF Candidates
  <1>4. s.nb = NonBasic /\ (\A v \in Vars \ Quasi : s.f[v] = val[v]) /\ s.f \in ValueMaps
    BY DEF Shows, Fits, Shots
  <1>5. ASSUME NEW v \in Vars \ NonBasic, Beyond(Lows, Highs, s.f, v)
        PROVE  x <= v
    <2>1. OutIn(points, s.f, v)
      BY <1>5, BoundFunctions
    <2>2. v \notin Quasi
      BY <1>1, <1>4, <2>1, QuasiUnbounded
    <2>3. v \in Basic /\ s.f[v] = val[v]
      BY <1>1, <1>4, <2>2, KindFacts
    <2>4. OutIn(points, val, v)
      BY <2>1, <2>3 DEF OutIn
    <2> QED
      BY <1>2, <2>3, <2>4 DEF Candidates
  <1>6. s.f[x] = val[x]
    BY <1>3, <1>4
  <1>7. Beyond(Lows, Highs, s.f, x)
    <2>1. OutIn(points, s.f, x)
      BY <1>3, <1>6 DEF OutIn
    <2> QED
      BY <1>3, <2>1, BoundFunctions
  <1>8. row[x] \in Polys /\ Terms(row[x]) \subseteq NonBasic /\ Solves(row[x], x)
    BY <1>1, <1>3, KindFacts, RowSolves DEF TableauConsistent
  <1>9. Leaves(s, x, row[x], Lows, Highs)
    BY <1>3, <1>4, <1>5, <1>7, <1>8 DEF Leaves
  <1>10. DLess(s.f[x], Lows[x]) <=> TooLow(x)
    BY <1>3, <1>6, BoundFunctions DEF TooLow
  <1> QED
    BY <1>3, <1>6, <1>9, <1>10

\* The least term that helps enters it.
LEMMA HelperEnters ==
    ASSUME SInv, NEW s, Shows(s), NEW x \in Basic, NEW y \in Helpers(x),
           \A u \in Helpers(x) : y <= u, DLess(s.f[x], Lows[x]) <=> TooLow(x)
    PROVE  Enters(s, y, x, row[x], Lows, Highs) /\ y \in NonBasic
  <1>1. TypeInv /\ TableauConsistent
    BY DEF SInv
  <1>2. DLess(s.f[x], Lows[x]) = TooLow(x)
    BY DEF TooLow, DLess
  <1>3. Terms(row[x]) \subseteq NonBasic /\ NonBasic \subseteq Vars \ Quasi
    BY <1>1, KindFacts DEF TableauConsistent
  <1>4. ASSUME NEW u \in Terms(row[x])
        PROVE  Assists(row[x], s.f, TooLow(x), u, Lows, Highs) <=> Helps(x, u)
    <2>1. u \in Vars /\ s.f[u] = val[u]
      BY <1>3 DEF Shows
    <2>2. Lows[u] = Lb(u) /\ Highs[u] = Ub(u)
      BY <2>1, BoundFunctions
    <2> QED
      BY <2>1, <2>2 DEF Assists, Helps
  <1>5. \A u : u \in Helpers(x) <=> u \in Terms(row[x]) /\ Helps(x, u)
    BY DEF Helpers
  <1> QED
    BY <1>2, <1>3, <1>4, <1>5 DEF Enters

\* A pivot exchanges the two.
LEMMA PivotExchanges ==
    ASSUME SInv, pc = "check", NEW s, Shows(s), NEW x \in Basic, OutOfBounds(val, x),
           NEW y \in Helpers(x), PivotedOn(x, y), NEW t, Shows(t)',
           DLess(s.f[x], Lows[x]) <=> TooLow(x)
    PROVE  Exchanges(s, t, x, y, Lows, Highs) /\ points' = points
  <1>1. /\ TypeInv /\ TableauConsistent /\ Bounded(points) /\ Pivot(x, y) /\ y \in Terms(row[x])
        /\ points' = points
    BY BoundsKnown DEF SInv, PivotedOn, Helpers
  <1>2. PICK diff : diff = PivotDiff(x, y)
    OBVIOUS
  <1>3. /\ Pivots(x, y) /\ y \in NonBasic /\ x \in Affected(y) /\ diff \in Values
        /\ DAdd(val[x], DMul(row[x][y], diff)) = PivotBound(x)
    BY <1>1, <1>2, PivotPremise
  <1>4. PivotKinds(x, y) /\ val' = Moved(y, diff)
    BY <1>1, <1>2, <1>3, Pivoted
  <1>5. /\ \A u \in Vars : u # y /\ u \notin Affected(y) => val'[u] = val[u]
        /\ val'[x] = PivotBound(x)
    BY <1>1, <1>3, <1>4, MovedFacts
  <1>6. /\ NonBasic \subseteq Vars /\ Basic \subseteq Vars /\ Basic \cap NonBasic = {}
        /\ Quasi \cap NonBasic = {} /\ Quasi \cap Basic = {} /\ Affected(y) \subseteq Basic
    BY <1>1, KindFacts DEF Affected
  <1>7. NonBasic' = (NonBasic \ {y}) \cup {x} /\ Quasi' \subseteq Quasi \cup {y}
    BY <1>4 DEF PivotKinds
  <1>8. t.nb = NonBasic' /\ \A v \in Vars \ Quasi' : t.f[v] = val'[v]
    BY DEF Shows, Vars
  <1>9. s.nb = NonBasic /\ \A v \in Vars \ Quasi : s.f[v] = val[v]
    BY DEF Shows
  <1>10. \A u \in s.nb \ {y} : t.f[u] = s.f[u]
    BY <1>5, <1>6, <1>7, <1>8, <1>9
  <1>11. t.f[x] = PivotBound(x)
    BY <1>3, <1>5, <1>6, <1>7, <1>8
  <1>12. PivotBound(x) = IF DLess(s.f[x], Lows[x]) THEN Lows[x] ELSE Highs[x]
    BY <1>6, BoundFunctions DEF PivotBound
  <1> QED
    BY <1>1, <1>7, <1>8, <1>9, <1>10, <1>11, <1>12 DEF Exchanges

\* A new chain begins with a check, and again with every turn by heuristic.
LEMMA NewChain == SInv /\ NonBasicCount /\ Turns = 0 => Underway
  <1> SUFFICES ASSUME SInv, NonBasicCount, Turns = 0 PROVE Underway
    OBVIOUS
  <1>1. PICK s : Fits(s, Lows, Highs) /\ Shows(s)
    BY ShotTaken DEF Taken
  <1>2. PICK lo, hi : lo = Lows /\ hi = Highs
    OBVIOUS
  <1>3. lo \in [Vars -> Extended] /\ hi \in [Vars -> Extended]
    BY <1>2, BoundRanges
  <1>4. PICK h : Chain(h, 0, lo, hi) /\ h[0] = s
    BY <1>1, <1>2, <1>3, ChainBegins
  <1> QED
    BY <1>1, <1>2, <1>4 DEF Underway

\* Both facts in the next state.
LEMMA NextShot == SInv' /\ NonBasicCount' => Taken' /\ (Turns' = 0 => Underway')
  <1>1. (SInv /\ NonBasicCount)' => Taken'
    BY ShotTaken, PTL
  <1>2. (SInv /\ NonBasicCount /\ Turns = 0)' => Underway'
    BY NewChain, PTL
  <1> QED
    BY <1>1, <1>2

\* A turn of Bland's rule makes the chain longer.
LEMMA ChainKept ==
    ASSUME SInv, SInv', NonBasicCount', pc = "check", Underway, repeats \in Nat, repeats >= NumOfCols,
           repeats' = repeats + 1,
           NEW x \in candidates, \A v \in candidates : x <= v,
           NEW y \in Helpers(x), \A u \in Helpers(x) : y <= u, PivotedOn(x, y)
    PROVE  Underway'
  <1>1. PICK n, lo, hi, p : n = Turns /\ lo = Lows /\ hi = Highs /\ p = row[x]
    OBVIOUS
  <1>2. PICK h : Chain(h, n, lo, hi) /\ Shows(h[n])
    BY <1>1 DEF Underway
  <1>3. PICK s : s = h[n]
    OBVIOUS
  <1>4. Fits(s, lo, hi) /\ Shows(s) /\ n \in Nat
    BY <1>2, <1>3 DEF Chain
  <1>5. Leaves(s, x, p, lo, hi) /\ x \in Basic /\ OutOfBounds(val, x) /\ (DLess(s.f[x], Lows[x]) <=> TooLow(x))
    BY <1>1, <1>4, CandidateLeaves
  <1>6. Enters(s, y, x, p, lo, hi)
    BY <1>1, <1>4, <1>5, HelperEnters
  <1>7. points' = points
    BY DEF PivotedOn
  <1>8. Lows' = lo /\ Highs' = hi
    BY <1>1, <1>7, BoundFunctions
  <1>9. PICK t : Fits(t, Lows', Highs') /\ Shows(t)'
    BY NextShot DEF Taken
  <1>10. Exchanges(s, t, x, y, lo, hi)
    BY <1>1, <1>4, <1>5, <1>9, PivotExchanges
  <1>11. Turn(s, t, lo, hi)
    BY <1>5, <1>6, <1>10 DEF Turn
  <1>12. PICK g : Chain(g, n + 1, lo, hi) /\ g[n + 1] = t
    BY <1>2, <1>3, <1>8, <1>9, <1>11, ChainGoesOn
  <1>13. Turns' = n + 1
    BY <1>1, NumOfColsAssumption DEF Turns
  <1>14. Shows(g[Turns])'
    BY <1>9, <1>12, <1>13 DEF Shows
  <1> QED
    BY <1>8, <1>12, <1>13, <1>14 DEF Underway

\* An exchange keeps the number of nonbasic variables.
LEMMA ExchangeCounts ==
    ASSUME NEW S \in SUBSET Vars, NEW x \in Vars \ S, NEW y \in S
    PROVE  Cardinality((S \ {y}) \cup {x}) = Cardinality(S)
  <1>1. IsFiniteSet(S) /\ Cardinality(S) \in Nat
    BY VarsFinite, FS_CardinalityType
  <1>2. IsFiniteSet(S \ {y}) /\ Cardinality(S \ {y}) = Cardinality(S) - 1
    BY <1>1, FS_RemoveElement
  <1>3. Cardinality((S \ {y}) \cup {x}) = (Cardinality(S) - 1) + 1
    BY <1>2, FS_AddElement
  <1> QED
    BY <1>1, <1>3

\* Rows set aside or taken back are never those of nonbasic variables.
LEMMA CountKept ==
    ASSUME SInv, NonBasicCount, [Next]_vars
    PROVE  NonBasicCount'
  <1>1. /\ TypeInv /\ TableauConsistent
        /\ Basic \in SUBSET Vars /\ Quasi \in SUBSET Vars /\ NonBasic \in SUBSET Vars
        /\ Basic \cap NonBasic = {} /\ Quasi \cap NonBasic = {}
        /\ kind \in [Vars -> {"basic", "nonbasic", "quasi"}]
    BY KindFacts DEF SInv, TypeInv
  <1>2. ASSUME NonBasic' = NonBasic PROVE NonBasicCount'
    BY <1>2 DEF NonBasicCount
  <1>3. ASSUME kind' = kind PROVE NonBasic' = NonBasic
    BY <1>3 DEF NonBasic
  <1>4. ASSUME NEW v \in Quasi, quasiToBasic(v) PROVE NonBasic' = NonBasic
    BY <1>1, <1>4 DEF quasiToBasic, NonBasic, Quasi
  <1>5. CASE AssertBound
    <2>1. PICK l \in Literals : AssertRefused(l) \/ AssertTaken(l)
      BY <1>5 DEF AssertBound
    <2>2. l.v \in Vars
      BY LiteralsAssumption
    <2>3. kind' = kind \/ (l.v \in Quasi /\ quasiToBasic(l.v))
      BY <2>1, <2>2 DEF AssertRefused, AssertTaken, AssertNonBasic, AssertBasic, tableau, Quasi
    <2> QED
      BY <1>2, <1>3, <1>4, <2>3
  <1>6. CASE Check \/ UNCHANGED vars
    BY <1>2, <1>3, <1>6 DEF Check, vars, tableau
  <1>7. CASE Step
    <2>1. pc = "check" /\ expl = {}
      BY <1>7 DEF Step, SInv, PcInv
    <2>2. CASE kind' = kind
      BY <1>2, <1>3, <2>2
    <2>3. ASSUME NEW x \in candidates, NEW y \in Helpers(x), PivotedOn(x, y)
          PROVE  NonBasicCount'
      <3>1. Bounded(points) /\ NonBasicWithinBounds /\ Pivot(x, y) /\ y \in Terms(row[x])
        BY <1>1, <2>3, BoundsKnown DEF SInv, PivotedOn, Helpers
      <3>2. x \in Basic /\ OutOfBounds(val, x)
        BY <1>1, <2>1, <3>1, WithinSplit, BoundsIn DEF Candidates
      <3>3. PivotKinds(x, y) /\ y \in NonBasic
        BY <1>1, <3>1, <3>2, PivotPremise, Pivoted
      <3>4. NonBasic' = (NonBasic \ {y}) \cup {x} /\ x \in Vars \ NonBasic
        BY <1>1, <3>2, <3>3 DEF PivotKinds
      <3> QED
        BY <1>1, <3>3, <3>4, ExchangeCounts DEF NonBasicCount
    <2> QED
      BY <1>1, <1>7, <2>2, <2>3, StepCases DEF Answered, Refuted, tableau
  <1>8. CASE Backtrack
    <2>1. PICK aside : /\ \A v \in aside : kind[v] = "basic"
                       /\ kind' = [v \in Vars |-> IF v \in aside THEN "quasi" ELSE kind[v]]
      BY <1>8 DEF Backtrack, Deactivated
    <2>2. NonBasic' = NonBasic
      BY <1>1, <2>1 DEF NonBasic
    <2> QED
      BY <1>2, <2>2
  <1>9. CASE Ask
    BY <1>2, <1>4, <1>9 DEF Ask
  <1> QED
    BY <1>5, <1>6, <1>7, <1>8, <1>9 DEF Next

\* Every step keeps the turns a chain.
LEMMA TurnsKept ==
    ASSUME SInv, SInv', TurnsInv, [Next]_vars
    PROVE  TurnsInv'
  <1>1. TypeInv /\ repeats \in Nat /\ (pc = "idle" => repeats = 0) /\ (pc = "check" => Underway)
        /\ pc \in {"idle", "check"} /\ NonBasicCount'
    BY CountKept DEF TurnsInv, SInv, TypeInv
  <1>2. CASE Check
    <2>1. pc' = "check" /\ repeats' = 0
      BY <1>2 DEF Check
    <2>2. Turns' = 0
      BY <2>1, NumOfColsAssumption DEF Turns
    <2> QED
      BY <1>1, <2>1, <2>2, NextShot DEF TurnsInv
  <1>3. CASE Step
    <2>1. pc = "check"
      BY <1>3 DEF Step
    <2>2. CASE pc' = "idle" /\ repeats' = 0
      BY <1>1, <2>2 DEF TurnsInv
    <2>3. ASSUME pc' = pc, repeats' = repeats + 1,
                 NEW x \in candidates, NEW y \in Helpers(x), PivotedOn(x, y),
                 repeats >= NumOfCols => /\ \A v \in candidates : x <= v
                                         /\ \A u \in Helpers(x) : y <= u
          PROVE  TurnsInv'
      <3>1. Underway'
        <4>1. CASE repeats >= NumOfCols
          BY <1>1, <2>1, <2>3, <4>1, ChainKept
        <4>2. CASE ~ (repeats >= NumOfCols)
          <5>1. Turns' = 0
            BY <1>1, <2>3, <4>2, NumOfColsAssumption DEF Turns
          <5> QED
            BY <1>1, <5>1, NextShot
        <4> QED
          BY <4>1, <4>2
      <3> QED
        BY <1>1, <2>1, <2>3, <3>1 DEF TurnsInv
    <2> QED
      BY <1>1, <1>3, <2>2, <2>3, TurnCases
  <1>4. CASE AssertBound \/ Backtrack \/ Ask
    <2>1. pc = "idle" /\ pc' = pc /\ repeats' = repeats
      BY <1>4 DEF AssertBound, Backtrack, Ask
    <2> QED
      BY <1>1, <2>1 DEF TurnsInv
  <1>5. CASE UNCHANGED vars
    <2>1. kind' = kind /\ val' = val /\ points' = points /\ pc' = pc /\ repeats' = repeats
      BY <1>5 DEF vars
    <2>2. ASSUME Underway PROVE Underway'
      <3>1. Lows' = Lows /\ Highs' = Highs /\ Turns' = Turns
        BY <2>1, BoundFunctions DEF Turns
      <3>2. NonBasic' = NonBasic /\ Quasi' = Quasi
        BY <2>1 DEF NonBasic, Quasi
      <3>3. PICK h : Chain(h, Turns, Lows, Highs) /\ Shows(h[Turns])
        BY <2>2 DEF Underway
      <3>4. Shows(h[Turns])'
        BY <2>1, <3>1, <3>2, <3>3 DEF Shows
      <3> QED
        BY <3>1, <3>3, <3>4 DEF Underway
    <2> QED
      BY <1>1, <2>1, <2>2 DEF TurnsInv
  <1> QED
    BY <1>2, <1>3, <1>4, <1>5 DEF Next

\* The turns are bounded by the turns by heuristic and the configurations.
LEMMA ChainsEnd ==
    ASSUME TurnsInv, pc \in {"idle", "check"}
    PROVE  TurnsBounded
  <1>1. Cardinality(Configurations) \in Nat /\ NumOfCols \in Nat /\ repeats \in Nat
    BY ConfigurationsFinite, NumOfColsAssumption DEF TurnsInv
  <1>2. CASE pc = "idle"
    BY <1>1, <1>2 DEF TurnsInv, TurnsBounded
  <1>3. CASE pc = "check"
    <2>1. PICK n, lo, hi : n = Turns /\ lo = Lows /\ hi = Highs
      OBVIOUS
    <2>2. PICK h : Chain(h, n, lo, hi)
      BY <1>3, <2>1 DEF TurnsInv, Underway
    <2>3. n < Cardinality(Configurations)
      BY <2>2, ChainBounded
    <2>4. repeats <= NumOfCols \/ n = repeats - NumOfCols
      BY <1>1, <2>1 DEF Turns
    <2> QED
      BY <1>1, <2>3, <2>4 DEF TurnsBounded
  <1> QED
    BY <1>2, <1>3

\* checkSimplex ends: once Bland's rule chooses, the smallest candidate and the smallest term
\* that helps it, no basis comes twice with its nonbasic variables at the same bounds, so the
\* turns of a check are bounded by the columns and the configurations there are.
THEOREM ChecksEnd == Spec => []TurnsBounded
  <1>1. Init => TurnsInv
    <2>1. Init => NonBasic = Cols
      BY VarsAssumption DEF Init, NonBasic
    <2> QED
      BY <2>1 DEF Init, TurnsInv, NonBasicCount
  <1>2. SInv /\ SInv' /\ TurnsInv /\ [Next]_vars => TurnsInv'
    BY TurnsKept
  <1>3. SInv /\ TurnsInv => TurnsBounded
    BY ChainsEnd DEF SInv, TypeInv
  <1> QED
    BY <1>1, <1>2, <1>3, SimplexInvariance, PTL DEF Spec
=============================================================================
