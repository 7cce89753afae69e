------------------------- MODULE TheoryStack_proofs -------------------------
(***************************************************************************)
(* The theory handler and the arithmetic solver: first what the solver's   *)
(* operators do to its bounds, decisions and deductions, then that every   *)
(* step of TheoryStack keeps the invariant of TheoryInvariant, and the     *)
(* properties that follow.                                                 *)
(***************************************************************************)
EXTENDS TheoryInvariant, DataLemmas

-----------------------------------------------------------------------------
(* Literals and their values.                                              *)

LEMMA ValueFacts ==
    ASSUME NEW l \in LeqLits
    PROVE  /\ l.atom \in LeqAtoms /\ l.sgn \in BOOLEAN /\ l = [atom |-> l.atom, sgn |-> l.sgn]
           /\ Value(l) \in Int /\ IsLower(l) \in BOOLEAN
           /\ LeqVar[l.atom] \in Vars
           /\ Not(l) \in LeqLits /\ Not(l).atom = l.atom /\ Not(l).sgn = ~ l.sgn
           /\ Not(l) # l
  <1>1. l.atom \in LeqAtoms /\ l.sgn \in BOOLEAN /\ l = [atom |-> l.atom, sgn |-> l.sgn]
    BY DEF LeqLits
  <1>2. LeqConst[l.atom] \in Int
    BY <1>1, AtomsAssumption
  <1>3. Value(l) \in Int
    BY <1>1, <1>2 DEF Value
  <1>4. LeqVar[l.atom] \in Vars
    BY <1>1 DEF Vars, Range, LeqAtoms
  <1>5. /\ Not(l) \in LeqLits /\ Not(l).atom = l.atom /\ Not(l).sgn = ~ l.sgn
    BY <1>1 DEF Not, LeqLits
  <1> QED
    BY <1>1, <1>3, <1>4, <1>5 DEF IsLower

\* The negation is a bound on the other side, one step apart.
LEMMA NotFacts ==
    ASSUME NEW l \in LeqLits
    PROVE  /\ IsLower(Not(l)) = ~ IsLower(l)
           /\ IsLower(l) => Value(Not(l)) = Value(l) - 1
           /\ ~ IsLower(l) => Value(Not(l)) = Value(l) + 1
  <1>1. /\ Not(l).atom = l.atom /\ Not(l).sgn = ~ l.sgn /\ l.sgn \in BOOLEAN
        /\ l.atom \in LeqAtoms
    BY ValueFacts
  <1>2. LeqConst[l.atom] \in Int
    BY <1>1, AtomsAssumption
  <1>3. CASE l.atom \in SumNegated /\ l.sgn = TRUE
    BY <1>1, <1>2, <1>3 DEF IsLower, Value
  <1>4. CASE l.atom \in SumNegated /\ l.sgn = FALSE
    <2>1. Not(l).sgn = TRUE /\ Not(l).atom \in SumNegated
      BY <1>1, <1>4
    <2>2. IsLower(l) = TRUE /\ IsLower(Not(l)) = FALSE
      BY <1>4, <2>1 DEF IsLower
    <2>3. Value(l) = -LeqConst[l.atom] + 1 /\ Value(Not(l)) = -LeqConst[l.atom]
      BY <1>1, <1>4, <2>1 DEF Value
    <2>4. IsLower(Not(l)) = (~ IsLower(l))
      BY <2>2, Zenon
    <2>5. IsLower(l) => Value(Not(l)) = Value(l) - 1
      BY <1>2, <2>2, <2>3
    <2>6. ~ IsLower(l) => Value(Not(l)) = Value(l) + 1
      BY <1>2, <2>2, <2>3
    <2> QED
      BY <2>4, <2>5, <2>6
  <1>5. CASE l.atom \notin SumNegated /\ l.sgn = TRUE
    BY <1>1, <1>2, <1>5 DEF IsLower, Value
  <1>6. CASE l.atom \notin SumNegated /\ l.sgn = FALSE
    <2>1. Not(l).sgn = TRUE /\ Not(l).atom \notin SumNegated
      BY <1>1, <1>6
    <2>2. IsLower(l) = FALSE /\ IsLower(Not(l)) = TRUE
      BY <1>6, <2>1 DEF IsLower
    <2>3. Value(l) = LeqConst[l.atom] - 1 /\ Value(Not(l)) = LeqConst[l.atom]
      BY <1>1, <1>6, <2>1 DEF Value
    <2>4. IsLower(Not(l)) = (~ IsLower(l))
      BY <2>2, Zenon
    <2>5. IsLower(l) => Value(Not(l)) = Value(l) - 1
      BY <1>2, <2>2, <2>3
    <2>6. ~ IsLower(l) => Value(Not(l)) = Value(l) + 1
      BY <1>2, <2>2, <2>3
    <2> QED
      BY <2>4, <2>5, <2>6
  <1> QED
    BY <1>1, <1>3, <1>4, <1>5, <1>6

LEMMA WeakerFacts ==
    ASSUME NEW a \in LeqLits, NEW b \in LeqLits, NEW c \in LeqLits
    PROVE  /\ Weaker(a, a)
           /\ Weaker(a, b) /\ Weaker(b, c) => Weaker(a, c)
           /\ Weaker(a, b) => LeqVar[a.atom] = LeqVar[b.atom] /\ IsLower(a) = IsLower(b)
           /\ LeqVar[a.atom] = LeqVar[b.atom] /\ IsLower(a) = IsLower(b) =>
                Weaker(a, b) \/ Weaker(b, a)
           /\ Crossed(a, b) /\ Weaker(c, a) => Crossed(c, b)
           /\ Crossed(a, b) /\ Weaker(c, b) => Crossed(a, c)
           /\ Weaker(a, b) => IF IsLower(a) THEN Crossed(a, Not(b)) ELSE Crossed(Not(b), a)
  <1>1. /\ Value(a) \in Int /\ Value(b) \in Int /\ Value(c) \in Int
        /\ IsLower(a) \in BOOLEAN /\ IsLower(b) \in BOOLEAN /\ IsLower(c) \in BOOLEAN
    BY ValueFacts
  <1>2. Not(b).atom = b.atom
    BY ValueFacts
  <1>3. /\ IsLower(Not(b)) = ~ IsLower(b)
        /\ IsLower(b) => Value(Not(b)) = Value(b) - 1
        /\ ~ IsLower(b) => Value(Not(b)) = Value(b) + 1
    BY NotFacts
  <1>4. Weaker(a, b) => IF IsLower(a) THEN Crossed(a, Not(b)) ELSE Crossed(Not(b), a)
    <2>1. SUFFICES ASSUME Weaker(a, b)
                   PROVE  IF IsLower(a) THEN Crossed(a, Not(b)) ELSE Crossed(Not(b), a)
      OBVIOUS
    <2>2. LeqVar[a.atom] = LeqVar[b.atom] /\ IsLower(a) = IsLower(b)
      BY <2>1 DEF Weaker
    <2>3. CASE IsLower(a)
      <3>1. ~ IsLower(Not(b)) /\ Value(Not(b)) = Value(b) - 1 /\ Value(b) <= Value(a)
        BY <1>3, <2>1, <2>2, <2>3 DEF Weaker
      <3> QED
        BY <1>1, <1>2, <2>2, <2>3, <3>1 DEF Crossed
    <2>4. CASE ~ IsLower(a)
      <3>1. IsLower(Not(b)) /\ Value(Not(b)) = Value(b) + 1 /\ Value(b) >= Value(a)
        BY <1>3, <2>1, <2>2, <2>4 DEF Weaker
      <3> QED
        BY <1>1, <1>2, <2>2, <2>4, <3>1 DEF Crossed
    <2> QED
      BY <2>3, <2>4
  <1> QED
    BY <1>1, <1>4 DEF Weaker, Crossed

\* Two literals of one atom and one side are the same.
LEMMA SameSide ==
    ASSUME NEW a \in LeqLits, NEW b \in LeqLits, a.atom = b.atom
    PROVE  a = b \/ (a = Not(b) /\ IsLower(a) # IsLower(b))
  <1>1. /\ a = [atom |-> a.atom, sgn |-> a.sgn] /\ a.sgn \in BOOLEAN
        /\ b = [atom |-> b.atom, sgn |-> b.sgn] /\ b.sgn \in BOOLEAN
    BY ValueFacts
  <1>2. Not(b) = [atom |-> b.atom, sgn |-> ~ b.sgn]
    BY <1>1 DEF Not
  <1>3. CASE a.sgn = b.sgn
    BY <1>1, <1>3
  <1>4. CASE a.sgn # b.sgn
    BY <1>1, <1>2, <1>4, NotFacts
  <1> QED
    BY <1>3, <1>4

-----------------------------------------------------------------------------
(* Lists cut by limits.                                                    *)

LEMMA LayerFacts ==
    ASSUME NEW list, NEW lim, NEW n \in Nat, Layered(list, lim, n)
    PROVE  /\ Len(list) \in Nat /\ DOMAIN list = 1..Len(list)
           /\ \A j \in 1..Len(list) : list[j] \in LeqLits
           /\ Len(lim) = n /\ DOMAIN lim = 1..n
           /\ \A p \in 0..n : End(list, lim, p) \in 0..Len(list)
           /\ \A p \in 0..n - 1 : lim[p + 1] = End(list, lim, p)
           /\ End(list, lim, 0) = 0 /\ End(list, lim, n) = Len(list)
           /\ \A p, q \in 0..n : p <= q => End(list, lim, p) <= End(list, lim, q)
           /\ \A p \in 1..n : \A j : j \in AddedBy(list, lim, p) <=>
                j \in Nat /\ End(list, lim, p - 1) < j /\ j <= End(list, lim, p)
  <1>1. /\ list \in Seq(LeqLits) /\ lim \in Seq(Nat) /\ Len(lim) = n /\ End(list, lim, 0) = 0
        /\ \A p, q \in 0..n : p <= q => End(list, lim, p) <= End(list, lim, q)
    BY DEF Layered
  <1>2. /\ Len(list) \in Nat /\ DOMAIN list = 1..Len(list)
        /\ \A j \in 1..Len(list) : list[j] \in LeqLits
    BY <1>1, SeqFacts
  <1>3. DOMAIN lim = 1..n /\ \A p \in 1..n : lim[p] \in Nat
    BY <1>1, SeqFacts
  <1>4. End(list, lim, n) = Len(list)
    BY <1>1 DEF End
  <1>5. \A p \in 0..n : End(list, lim, p) \in Nat
    BY <1>1, <1>2, <1>3 DEF End
  <1>6. \A p \in 0..n : End(list, lim, p) \in 0..Len(list)
    <2>1. TAKE p \in 0..n
    <2>2. End(list, lim, p) <= End(list, lim, n)
      BY <1>1
    <2> QED
      BY <1>4, <1>5, <2>2
  <1>7. \A p \in 0..n - 1 : lim[p + 1] = End(list, lim, p)
    BY <1>1 DEF End
  <1>8. \A p \in 1..n : \A j : j \in AddedBy(list, lim, p) <=>
                j \in Nat /\ End(list, lim, p - 1) < j /\ j <= End(list, lim, p)
    <2>1. TAKE p \in 1..n
    <2>2. p - 1 \in 0..n /\ p \in 0..n
      OBVIOUS
    <2>3. End(list, lim, p - 1) \in 0..Len(list) /\ End(list, lim, p) \in 0..Len(list)
      BY <1>6, <2>2
    <2>4. TAKE j
    <2> QED
      BY <1>2, <2>3 DEF AddedBy
  <1> QED
    BY <1>1, <1>2, <1>3, <1>4, <1>6, <1>7, <1>8

\* Two lists agree on what they held with at most n points.
SameLayers(list, lim, list2, lim2, n) ==
    /\ \A p \in 0..n : End(list2, lim2, p) = End(list, lim, p)
    /\ \A j \in 1..End(list, lim, n) : list2[j] = list[j]

\* The solver's three lists are layered, and hold literals.
LEMMA ShapeFacts ==
    ASSUME NEW s, NEW n \in Nat, ShapeInv(s, n)
    PROVE  /\ Layered(s.trace, s.limits, n) /\ Layered(s.decisions, s.decLimit, n)
           /\ Layered(s.dedList, s.dedLim, n)
           /\ Len(s.trace) \in Nat /\ DOMAIN s.trace = 1..Len(s.trace)
           /\ Len(s.decisions) \in Nat /\ DOMAIN s.decisions = 1..Len(s.decisions)
           /\ Len(s.dedList) \in Nat /\ DOMAIN s.dedList = 1..Len(s.dedList)
           /\ \A j \in DOMAIN s.trace : s.trace[j] \in LeqLits
           /\ \A j \in DOMAIN s.decisions : s.decisions[j] \in LeqLits
           /\ \A j \in DOMAIN s.dedList : s.dedList[j] \in LeqLits
  <1>1. /\ Layered(s.trace, s.limits, n) /\ Layered(s.decisions, s.decLimit, n)
        /\ Layered(s.dedList, s.dedLim, n)
    BY DEF ShapeInv
  <1>2. /\ Len(s.trace) \in Nat /\ DOMAIN s.trace = 1..Len(s.trace)
        /\ \A j \in 1..Len(s.trace) : s.trace[j] \in LeqLits
    BY <1>1, LayerFacts
  <1>3. /\ Len(s.decisions) \in Nat /\ DOMAIN s.decisions = 1..Len(s.decisions)
        /\ \A j \in 1..Len(s.decisions) : s.decisions[j] \in LeqLits
    BY <1>1, LayerFacts
  <1>4. /\ Len(s.dedList) \in Nat /\ DOMAIN s.dedList = 1..Len(s.dedList)
        /\ \A j \in 1..Len(s.dedList) : s.dedList[j] \in LeqLits
    BY <1>1, LayerFacts
  <1> QED
    BY <1>1, <1>2, <1>3, <1>4

\* A new point, and elements after it.
LEMMA PushLayer ==
    ASSUME NEW list, NEW lim, NEW n \in Nat, Layered(list, lim, n),
           NEW list2 \in Seq(LeqLits), Len(list2) >= Len(list),
           \A j \in 1..Len(list) : list2[j] = list[j]
    PROVE  /\ Layered(list2, Append(lim, Len(list)), n + 1)
           /\ SameLayers(list, lim, list2, Append(lim, Len(list)), n)
           /\ End(list2, Append(lim, Len(list)), n + 1) = Len(list2)
  <1> DEFINE lim2 == Append(lim, Len(list))
  <1>1. /\ Len(list) \in Nat /\ Len(lim) = n
        /\ \A p \in 0..n : End(list, lim, p) \in 0..Len(list)
        /\ \A p \in 0..n - 1 : lim[p + 1] = End(list, lim, p)
        /\ End(list, lim, 0) = 0 /\ End(list, lim, n) = Len(list)
        /\ \A p, q \in 0..n : p <= q => End(list, lim, p) <= End(list, lim, q)
    BY LayerFacts
  <1>2. /\ lim2 \in Seq(Nat) /\ Len(lim2) = n + 1
        /\ \A p \in 1..n : lim2[p] = lim[p]
        /\ lim2[n + 1] = Len(list)
    <2>1. lim \in Seq(Nat)
      BY DEF Layered
    <2> QED
      BY <1>1, <2>1, AppendFacts
  <1>3. Len(list2) \in Nat
    BY SeqFacts
  <1> HIDE DEF lim2
  <1>4. \A p \in 0..n : End(list2, lim2, p) = End(list, lim, p)
    <2>1. TAKE p \in 0..n
    <2>2. End(list2, lim2, p) = lim2[p + 1]
      BY <1>2 DEF End
    <2>3. CASE p = n
      BY <1>1, <1>2, <2>2, <2>3
    <2>4. CASE p # n
      <3>1. p \in 0..n - 1 /\ p + 1 \in 1..n
        BY <2>4
      <3> QED
        BY <1>1, <1>2, <2>2, <3>1
    <2> QED
      BY <2>3, <2>4
  <1>5. End(list2, lim2, n + 1) = Len(list2)
    BY <1>2 DEF End
  <1>6. \A p, q \in 0..n + 1 : p <= q => End(list2, lim2, p) <= End(list2, lim2, q)
    <2>1. SUFFICES ASSUME NEW p \in 0..n + 1, NEW q \in 0..n + 1, p <= q
                   PROVE  End(list2, lim2, p) <= End(list2, lim2, q)
      OBVIOUS
    <2>2. CASE q \in 0..n
      <3>1. p \in 0..n
        BY <2>1, <2>2
      <3> QED
        BY <1>1, <1>4, <2>1, <2>2, <3>1
    <2>3. CASE q = n + 1
      <3>1. CASE p = n + 1
        BY <1>3, <1>5, <2>3, <3>1
      <3>2. CASE p \in 0..n
        <4>1. End(list2, lim2, p) \in 0..Len(list)
          BY <1>1, <1>4, <3>2
        <4> QED
          BY <1>1, <1>3, <1>5, <2>3, <4>1
      <3> QED
        BY <3>1, <3>2
    <2> QED
      BY <2>2, <2>3
  <1>7. Layered(list2, lim2, n + 1)
    BY <1>1, <1>2, <1>4, <1>6 DEF Layered
  <1>8. SameLayers(list, lim, list2, lim2, n)
    BY <1>1, <1>4 DEF SameLayers
  <1> QED
    BY <1>5, <1>7, <1>8 DEF lim2

\* A cut to k points.
LayerCut(list, lim, k, list2, lim2) ==
    /\ Layered(list2, lim2, k)
    /\ SameLayers(list2, lim2, list, lim, k)
    /\ Len(list2) = End(list, lim, k)
    /\ \A j \in 1..End(list, lim, k) : list2[j] = list[j]
LEMMA CutLayer ==
    ASSUME NEW list, NEW lim, NEW n \in Nat, Layered(list, lim, n), NEW k \in 0..n - 1,
           NEW list2, list2 = Cut(list, lim[k + 1]), NEW lim2, lim2 = Cut(lim, k)
    PROVE  LayerCut(list, lim, k, list2, lim2)
  <1>1. /\ Len(list) \in Nat /\ Len(lim) = n
        /\ \A p \in 0..n : End(list, lim, p) \in 0..Len(list)
        /\ \A p \in 0..n - 1 : lim[p + 1] = End(list, lim, p)
        /\ End(list, lim, 0) = 0
        /\ \A p, q \in 0..n : p <= q => End(list, lim, p) <= End(list, lim, q)
    BY LayerFacts
  <1>2. list \in Seq(LeqLits) /\ lim \in Seq(Nat)
    BY DEF Layered
  <1>3. PICK e : e = lim[k + 1]
    OBVIOUS
  <1>4. e = End(list, lim, k) /\ e \in 0..Len(list)
    <2>1. k \in 0..n
      OBVIOUS
    <2> QED
      BY <1>1, <1>3, <2>1
  <1>5. list2 = Cut(list, e)
    BY <1>3
  <1>6. /\ list2 \in Seq(LeqLits) /\ Len(list2) = e
        /\ \A j \in 1..e : list2[j] = list[j]
    <2>1. CASE e < Len(list)
      <3>1. list2 = SubSeq(list, 1, e)
        BY <1>5, <2>1 DEF Cut
      <3>2. /\ SubSeq(list, 1, e) \in Seq(LeqLits) /\ Len(SubSeq(list, 1, e)) = e
            /\ \A j \in 1..e : SubSeq(list, 1, e)[j] = list[j]
        BY <1>2, <1>4, PrefixFacts
      <3> QED
        BY <3>1, <3>2
    <2>2. CASE ~ (e < Len(list))
      BY <1>1, <1>2, <1>4, <1>5, <2>2 DEF Cut
    <2> QED
      BY <2>1, <2>2
  <1>7. lim2 = Cut(lim, k)
    OBVIOUS
  <1>8. /\ lim2 \in Seq(Nat) /\ Len(lim2) = k
        /\ \A p \in 1..k : lim2[p] = lim[p]
    <2>1. lim2 = SubSeq(lim, 1, k) /\ k \in 0..Len(lim)
      BY <1>1, <1>7 DEF Cut
    <2> QED
      BY <1>2, <2>1, PrefixFacts
  <1>9. \A p \in 0..k : End(list2, lim2, p) = End(list, lim, p)
    <2>1. TAKE p \in 0..k
    <2>2. CASE p = k
      BY <1>4, <1>6, <1>8, <2>2 DEF End
    <2>3. CASE p # k
      <3>1. p \in 0..n - 1 /\ p + 1 \in 1..k /\ p < k
        BY <2>3
      <3>2. End(list2, lim2, p) = lim2[p + 1]
        BY <1>8, <3>1 DEF End
      <3> QED
        BY <1>1, <1>8, <3>1, <3>2
    <2> QED
      BY <2>2, <2>3
  <1>10. 0..k \subseteq 0..n /\ 0 \in 0..k
    OBVIOUS
  <1>11. Layered(list2, lim2, k)
    BY <1>1, <1>6, <1>8, <1>9, <1>10 DEF Layered
  <1>12. SameLayers(list2, lim2, list, lim, k)
    BY <1>4, <1>6, <1>9, <1>10 DEF SameLayers
  <1> QED
    BY <1>4, <1>6, <1>11, <1>12 DEF LayerCut

-----------------------------------------------------------------------------
(* The bounds in force are the strongest of the trace.                     *)

LEMMA MaxFacts ==
    ASSUME NEW n \in Nat, NEW S \in SUBSET (1..n), S # {}
    PROVE  Max(S) \in S /\ \A x \in S : x <= Max(S)
  <1>1. PICK k \in S : \A x \in S : x <= k
    BY MaxExists, S \in SUBSET (0..n)
  <1>2. \E x \in S : \A y \in S : x >= y
    BY <1>1
  <1>3. Max(S) \in S /\ \A y \in S : Max(S) >= y
    BY <1>2 DEF Max
  <1> QED
    BY <1>3

LEMMA InForceFacts ==
    ASSUME NEW s, NEW n \in Nat, ShapeInv(s, n), NEW hand, TraceInv(s, hand),
           NEW v, NEW lower \in BOOLEAN, Bounded(s, v, lower)
    PROVE  \E j \in Bounds(s, v, lower) :
             /\ InForce(s, v, lower) = s.trace[j]
             /\ \A i \in Bounds(s, v, lower) : Weaker(s.trace[j], s.trace[i])
  <1> DEFINE B == Bounds(s, v, lower)
  <1>1. /\ Len(s.trace) \in Nat /\ DOMAIN s.trace = 1..Len(s.trace)
        /\ \A j \in 1..Len(s.trace) : s.trace[j] \in LeqLits
    BY LayerFacts DEF ShapeInv
  <1>2. B \in SUBSET (1..Len(s.trace)) /\ B # {}
    BY <1>1 DEF Bounds, Bounded
  <1>3. Max(B) \in B /\ \A i \in B : i <= Max(B)
    BY <1>1, <1>2, MaxFacts
  <1>4. ASSUME NEW i \in B
        PROVE  Weaker(s.trace[Max(B)], s.trace[i])
    <2>1. /\ s.trace[Max(B)] \in LeqLits /\ s.trace[i] \in LeqLits
          /\ LeqVar[s.trace[Max(B)].atom] = LeqVar[s.trace[i].atom]
          /\ IsLower(s.trace[Max(B)]) = IsLower(s.trace[i])
      BY <1>1, <1>2, <1>3 DEF Bounds
    <2>2. CASE i = Max(B)
      BY <2>1, <2>2, WeakerFacts
    <2>3. CASE i # Max(B)
      <3>1. i < Max(B) /\ i \in DOMAIN s.trace /\ Max(B) \in DOMAIN s.trace
        BY <1>1, <1>2, <1>3, <2>3
      <3>2. ~ Weaker(s.trace[i], s.trace[Max(B)])
        BY <3>1 DEF TraceInv
      <3> QED
        BY <2>1, <3>2, WeakerFacts
    <2> QED
      BY <2>2, <2>3
  <1> QED
    BY <1>3, <1>4 DEF InForce

LEMMA SatisfiedIff ==
    ASSUME NEW s, NEW n \in Nat, ShapeInv(s, n), NEW hand, TraceInv(s, hand),
           NEW l \in LeqLits
    PROVE  boundSatisfied(s, l) <=> \E j \in DOMAIN s.trace : Weaker(s.trace[j], l)
  <1> DEFINE v == LeqVar[l.atom]
             lower == IsLower(l)
             B == Bounds(s, v, lower)
  <1>1. /\ Len(s.trace) \in Nat /\ DOMAIN s.trace = 1..Len(s.trace)
        /\ \A j \in 1..Len(s.trace) : s.trace[j] \in LeqLits
    BY LayerFacts DEF ShapeInv
  <1>2. IsLower(l) \in BOOLEAN
    BY ValueFacts
  <1>3. CASE ~ Bounded(s, v, lower)
    <2>1. ASSUME NEW j \in DOMAIN s.trace, Weaker(s.trace[j], l)
          PROVE  FALSE
      <3>1. LeqVar[s.trace[j].atom] = v /\ IsLower(s.trace[j]) = lower
        BY <1>1, <2>1, WeakerFacts
      <3> QED
        BY <1>3, <3>1 DEF Bounded, Bounds
    <2> QED
      BY <1>3, <2>1 DEF boundSatisfied
  <1>4. CASE Bounded(s, v, lower)
    <2>1. PICK j \in B : /\ InForce(s, v, lower) = s.trace[j]
                         /\ \A i \in B : Weaker(s.trace[j], s.trace[i])
      BY <1>2, <1>4, InForceFacts
    <2>2. /\ j \in DOMAIN s.trace /\ s.trace[j] \in LeqLits
          /\ LeqVar[s.trace[j].atom] = v /\ IsLower(s.trace[j]) = lower
      BY <1>1, <2>1 DEF Bounds
    <2>3. boundSatisfied(s, l) <=> Weaker(s.trace[j], l)
      <3>1. CASE IsLower(l)
        <4>1. Lb(s, v) = Value(s.trace[j])
          <5>1. lower = TRUE
            BY <1>2, <3>1
          <5> QED
            BY <2>1, <5>1 DEF Lb
        <4> QED
          BY <1>4, <2>2, <3>1, <4>1 DEF boundSatisfied, Weaker
      <3>2. CASE ~ IsLower(l)
        <4>1. Ub(s, v) = Value(s.trace[j])
          <5>1. lower = FALSE
            BY <1>2, <3>2
          <5> QED
            BY <2>1, <5>1 DEF Ub
        <4> QED
          BY <1>4, <2>2, <3>2, <4>1 DEF boundSatisfied, Weaker
      <3> QED
        BY <3>1, <3>2
    <2>4. ASSUME NEW i \in DOMAIN s.trace, Weaker(s.trace[i], l)
          PROVE  Weaker(s.trace[j], l)
      <3>1. s.trace[i] \in LeqLits /\ LeqVar[s.trace[i].atom] = v /\ IsLower(s.trace[i]) = lower
        BY <1>1, <2>4, WeakerFacts
      <3>2. i \in B
        BY <3>1 DEF Bounds
      <3> QED
        BY <2>1, <2>2, <2>4, <3>1, <3>2, WeakerFacts
    <2> QED
      BY <2>2, <2>3, <2>4
  <1> QED
    BY <1>3, <1>4

\* A literal is refused exactly if some bound ever pushed excludes it.
LEMMA UnsatisfiedIff ==
    ASSUME NEW s, NEW n \in Nat, ShapeInv(s, n), NEW hand, TraceInv(s, hand),
           NEW l \in LeqLits
    PROVE  boundUnsatisfied(s, l) <=>
             \E j \in DOMAIN s.trace : Crossed(l, s.trace[j]) \/ Crossed(s.trace[j], l)
  <1> DEFINE v == LeqVar[l.atom]
             upper == ~ IsLower(l)
             B == Bounds(s, v, upper)
  <1>1. /\ Len(s.trace) \in Nat /\ DOMAIN s.trace = 1..Len(s.trace)
        /\ \A j \in 1..Len(s.trace) : s.trace[j] \in LeqLits
    BY LayerFacts DEF ShapeInv
  <1>2. IsLower(l) \in BOOLEAN /\ upper \in BOOLEAN
    BY ValueFacts
  <1>3. ASSUME NEW i \in DOMAIN s.trace, Crossed(l, s.trace[i]) \/ Crossed(s.trace[i], l)
        PROVE  i \in B
    <2>1. LeqVar[s.trace[i].atom] = v /\ IsLower(s.trace[i]) # IsLower(l)
      BY <1>3 DEF Crossed
    <2>2. IsLower(s.trace[i]) \in BOOLEAN
      BY <1>1, ValueFacts
    <2>3. IsLower(s.trace[i]) = upper
      BY <1>2, <2>1, <2>2
    <2> QED
      BY <2>1, <2>3 DEF Bounds
  <1>4. CASE ~ Bounded(s, v, upper)
    BY <1>3, <1>4 DEF boundUnsatisfied, Bounded
  <1>5. CASE Bounded(s, v, upper)
    <2>1. PICK j \in B : /\ InForce(s, v, upper) = s.trace[j]
                         /\ \A i \in B : Weaker(s.trace[j], s.trace[i])
      BY <1>2, <1>5, InForceFacts
    <2>2. /\ j \in DOMAIN s.trace /\ s.trace[j] \in LeqLits
          /\ LeqVar[s.trace[j].atom] = v /\ IsLower(s.trace[j]) = upper
      BY <1>1, <2>1 DEF Bounds
    <2>3. boundUnsatisfied(s, l) <=> Crossed(l, s.trace[j]) \/ Crossed(s.trace[j], l)
      <3>1. CASE IsLower(l)
        <4>1. upper = FALSE /\ Ub(s, v) = Value(s.trace[j])
          <5>1. upper = FALSE
            BY <1>2, <3>1
          <5> QED
            BY <2>1, <5>1 DEF Ub
        <4> QED
          BY <1>5, <2>2, <3>1, <4>1 DEF boundUnsatisfied, Crossed
      <3>2. CASE ~ IsLower(l)
        <4>1. upper = TRUE /\ Lb(s, v) = Value(s.trace[j])
          <5>1. upper = TRUE
            BY <1>2, <3>2
          <5> QED
            BY <2>1, <5>1 DEF Lb
        <4>2. Value(l) \in Int /\ Value(s.trace[j]) \in Int
          BY <2>2, ValueFacts
        <4> QED
          BY <1>5, <2>2, <3>2, <4>1, <4>2 DEF boundUnsatisfied, Crossed
      <3> QED
        BY <3>1, <3>2
    <2>4. ASSUME NEW i \in DOMAIN s.trace, Crossed(l, s.trace[i]) \/ Crossed(s.trace[i], l)
          PROVE  Crossed(l, s.trace[j]) \/ Crossed(s.trace[j], l)
      <3>1. Weaker(s.trace[j], s.trace[i])
        BY <1>3, <2>1, <2>4
      <3>2. s.trace[i] \in LeqLits
        BY <1>1
      <3>3. CASE Crossed(l, s.trace[i])
        BY <2>2, <3>1, <3>2, <3>3, WeakerFacts
      <3>4. CASE Crossed(s.trace[i], l)
        BY <2>2, <3>1, <3>2, <3>4, WeakerFacts
      <3> QED
        BY <2>4, <3>3, <3>4
    <2> QED
      BY <2>2, <2>3, <2>4
  <1> QED
    BY <1>4, <1>5

-----------------------------------------------------------------------------
(* Two states of the solver that agree on everything up to point k.        *)

Agree(s, t, k) ==
    /\ SameLayers(s.trace, s.limits, t.trace, t.limits, k)
    /\ SameLayers(s.decisions, s.decLimit, t.decisions, t.decLimit, k)
    /\ SameLayers(s.dedList, s.dedLim, t.dedList, t.dedLim, k)
SameHand(hand, hand2, k) == \A p \in 1..k : hand2[p] = hand[p]

LEMMA SameAdded ==
    ASSUME NEW list, NEW lim, NEW n \in Nat, Layered(list, lim, n),
           NEW list2, NEW lim2, NEW m \in Nat, Layered(list2, lim2, m),
           NEW k \in Nat, k <= n, k <= m, SameLayers(list, lim, list2, lim2, k),
           NEW p \in 1..k
    PROVE  /\ AddedBy(list2, lim2, p) = AddedBy(list, lim, p)
           /\ \A j \in AddedBy(list, lim, p) : list2[j] = list[j]
           /\ \A j \in 1..End(list, lim, p) : list2[j] = list[j]
           /\ \A j \in 1..End(list, lim, p - 1) : list2[j] = list[j]
           /\ End(list2, lim2, p) = End(list, lim, p)
           /\ End(list2, lim2, p - 1) = End(list, lim, p - 1)
  <1>1. p \in 1..n /\ p \in 1..m /\ p \in 0..k /\ p - 1 \in 0..k /\ k \in 0..n
        /\ p \in 0..n /\ p - 1 \in 0..n
    OBVIOUS
  <1>2. /\ End(list2, lim2, p) = End(list, lim, p)
        /\ End(list2, lim2, p - 1) = End(list, lim, p - 1)
        /\ \A j \in 1..End(list, lim, k) : list2[j] = list[j]
    BY <1>1 DEF SameLayers
  <1>3. /\ \A j : j \in AddedBy(list, lim, p) <=>
                j \in Nat /\ End(list, lim, p - 1) < j /\ j <= End(list, lim, p)
        /\ End(list, lim, p - 1) \in Nat /\ End(list, lim, p) \in Nat
        /\ End(list, lim, k) \in Nat
        /\ End(list, lim, p) <= End(list, lim, k)
        /\ End(list, lim, p - 1) <= End(list, lim, k)
    BY <1>1, LayerFacts
  <1>4. \A j : j \in AddedBy(list2, lim2, p) <=>
                j \in Nat /\ End(list2, lim2, p - 1) < j /\ j <= End(list2, lim2, p)
    BY <1>1, LayerFacts
  <1>5. AddedBy(list2, lim2, p) = AddedBy(list, lim, p)
    BY <1>2, <1>3, <1>4
  <1>6. \A j \in AddedBy(list, lim, p) : j \in 1..End(list, lim, k)
    BY <1>3
  <1>7. /\ \A j \in 1..End(list, lim, p) : j \in 1..End(list, lim, k)
        /\ \A j \in 1..End(list, lim, p - 1) : j \in 1..End(list, lim, k)
    BY <1>3
  <1> QED
    BY <1>2, <1>5, <1>6, <1>7

LEMMA AgreeFacts ==
    ASSUME NEW s, NEW n \in Nat, ShapeInv(s, n), NEW t, NEW m \in Nat, ShapeInv(t, m),
           NEW k \in Nat, k <= n, k <= m, Agree(s, t, k),
           NEW hand, NEW hand2, SameHand(hand, hand2, k), NEW p \in 1..k
    PROVE  /\ TakenAt(t, hand2, p) <=> TakenAt(s, hand, p)
           /\ PassedOver(t, hand2, p) <=> PassedOver(s, hand, p)
  <1>0. /\ Layered(s.trace, s.limits, n) /\ Layered(t.trace, t.limits, m)
        /\ Layered(s.decisions, s.decLimit, n) /\ Layered(t.decisions, t.decLimit, m)
        /\ Layered(s.dedList, s.dedLim, n) /\ Layered(t.dedList, t.dedLim, m)
    BY ShapeFacts
  <1>1. /\ AddedBy(t.decisions, t.decLimit, p) = AddedBy(s.decisions, s.decLimit, p)
        /\ \A j \in AddedBy(s.decisions, s.decLimit, p) : t.decisions[j] = s.decisions[j]
    BY <1>0, SameAdded DEF Agree
  <1>2. /\ End(t.dedList, t.dedLim, p - 1) = End(s.dedList, s.dedLim, p - 1)
        /\ \A j \in 1..End(s.dedList, s.dedLim, p - 1) : t.dedList[j] = s.dedList[j]
    BY <1>0, SameAdded DEF Agree
  <1>3. /\ End(t.trace, t.limits, p) = End(s.trace, s.limits, p)
        /\ \A j \in 1..End(s.trace, s.limits, p) : t.trace[j] = s.trace[j]
    BY SameAdded DEF ShapeInv, Agree
  <1>4. hand2[p] = hand[p]
    BY DEF SameHand
  <1> QED
    BY <1>1, <1>2, <1>3, <1>4 DEF TakenAt, PassedOver

-----------------------------------------------------------------------------
(* Points taken back.                                                      *)

\* What a cut list still holds: the layers up to the cut, unchanged.
LEMMA CutList ==
    ASSUME NEW list, NEW lim, NEW n \in Nat, Layered(list, lim, n),
           NEW list2, NEW lim2, NEW k \in 0..n, Layered(list2, lim2, k),
           SameLayers(list, lim, list2, lim2, k)
    PROVE  /\ DOMAIN list2 = 1..End(list, lim, k)
           /\ \A j \in DOMAIN list2 : j \in DOMAIN list /\ list2[j] = list[j]
           /\ \A p \in 1..n : \A j \in AddedBy(list, lim, p) :
                j \in DOMAIN list2 => p \in 1..k /\ j \in AddedBy(list2, lim2, p)
           /\ \A p \in 1..n : \A j \in AddedBy(list, lim, p) :
                j \notin DOMAIN list2 => p \in k + 1..n
  <1>1. /\ DOMAIN list2 = 1..End(list, lim, k)
        /\ \A j \in DOMAIN list2 : j \in DOMAIN list /\ list2[j] = list[j]
    <2>1. /\ DOMAIN list2 = 1..Len(list2) /\ End(list2, lim2, k) = Len(list2)
      BY LayerFacts
    <2>2. /\ End(list2, lim2, k) = End(list, lim, k)
          /\ \A j \in 1..End(list, lim, k) : list2[j] = list[j]
      BY DEF SameLayers
    <2>3. /\ DOMAIN list = 1..Len(list) /\ Len(list) \in Nat
          /\ End(list, lim, k) \in 0..Len(list)
      BY LayerFacts
    <2> QED
      BY <2>1, <2>2, <2>3
  <1>2. ASSUME NEW p \in 1..n, NEW j \in AddedBy(list, lim, p)
        PROVE  /\ j \in DOMAIN list2 => p \in 1..k /\ j \in AddedBy(list2, lim2, p)
               /\ j \notin DOMAIN list2 => p \in k + 1..n
    <2>1. p \in 0..n /\ p - 1 \in 0..n /\ k \in 0..n
      OBVIOUS
    <2>2. /\ End(list, lim, k) \in Nat /\ End(list, lim, p) \in Nat /\ End(list, lim, p - 1) \in Nat
          /\ k <= p - 1 => End(list, lim, k) <= End(list, lim, p - 1)
          /\ p <= k => End(list, lim, p) <= End(list, lim, k)
          /\ j \in Nat /\ End(list, lim, p - 1) < j /\ j <= End(list, lim, p)
      BY <2>1, LayerFacts
    <2>3. j \in DOMAIN list2 <=> p <= k
      BY <1>1, <2>2
    <2>4. p \in 1..k => AddedBy(list2, lim2, p) = AddedBy(list, lim, p)
      BY SameAdded
    <2> QED
      BY <2>3, <2>4
  <1> QED
    BY <1>1, <1>2

\* The situation: t is what s was when only the first k literals of hand had
\* been handed over.
IsCut(s, hand, n, t, hand2, k) ==
    /\ n \in Nat /\ k \in 0..n
    /\ DOMAIN hand = 1..n /\ Len(hand) = n /\ DOMAIN hand2 = 1..k /\ Len(hand2) = k
    /\ ShapeInv(s, n) /\ ShapeInv(t, k) /\ Agree(s, t, k) /\ SameHand(hand, hand2, k)

LEMMA CutTraceInv ==
    ASSUME NEW s, NEW hand, NEW n, NEW t, NEW hand2, NEW k,
           IsCut(s, hand, n, t, hand2, k), TraceInv(s, hand)
    PROVE  TraceInv(t, hand2)
  <1>1. n \in Nat /\ k \in 0..n /\ DOMAIN hand = 1..n /\ DOMAIN hand2 = 1..k
    BY DEF IsCut
  <1>2. /\ \A j \in DOMAIN t.trace : j \in DOMAIN s.trace /\ t.trace[j] = s.trace[j]
        /\ \A p \in 1..n : \A j \in AddedBy(s.trace, s.limits, p) :
                j \in DOMAIN t.trace => p \in 1..k /\ j \in AddedBy(t.trace, t.limits, p)
    BY <1>1, CutList DEF IsCut, ShapeInv, Agree
  <1>3. ASSUME NEW j \in DOMAIN t.trace
        PROVE  \E p \in DOMAIN hand2 :
                 j \in AddedBy(t.trace, t.limits, p) /\ t.trace[j] = hand2[p]
    <2>1. PICK p \in 1..n : j \in AddedBy(s.trace, s.limits, p) /\ s.trace[j] = hand[p]
      BY <1>1, <1>2 DEF TraceInv
    <2>2. p \in 1..k /\ j \in AddedBy(t.trace, t.limits, p)
      BY <1>2, <2>1
    <2> QED
      BY <1>1, <1>2, <2>1, <2>2 DEF IsCut, SameHand
  <1>4. \A i, j \in DOMAIN t.trace : i < j => ~Weaker(t.trace[i], t.trace[j])
    BY <1>2 DEF TraceInv
  <1>5. \A i, j \in DOMAIN t.trace : ~Crossed(t.trace[i], t.trace[j])
    BY <1>2 DEF TraceInv
  <1> QED
    BY <1>3, <1>4, <1>5 DEF TraceInv

LEMMA CutTaken ==
    ASSUME NEW s, NEW hand, NEW n, NEW t, NEW hand2, NEW k,
           IsCut(s, hand, n, t, hand2, k), NEW p \in DOMAIN hand2
    PROVE  /\ p \in DOMAIN hand /\ hand2[p] = hand[p]
           /\ TakenAt(t, hand2, p) <=> TakenAt(s, hand, p)
           /\ PassedOver(t, hand2, p) <=> PassedOver(s, hand, p)
  <1>1. n \in Nat /\ k \in 0..n /\ DOMAIN hand = 1..n /\ DOMAIN hand2 = 1..k
    BY DEF IsCut
  <1>2. ShapeInv(s, n) /\ ShapeInv(t, k) /\ Agree(s, t, k) /\ SameHand(hand, hand2, k)
    BY DEF IsCut
  <1>3. p \in 1..k /\ k \in Nat /\ k <= n /\ k <= k
    BY <1>1
  <1>4. /\ TakenAt(t, hand2, p) <=> TakenAt(s, hand, p)
        /\ PassedOver(t, hand2, p) <=> PassedOver(s, hand, p)
    BY <1>1, <1>2, <1>3, AgreeFacts
  <1> QED
    BY <1>1, <1>2, <1>3, <1>4 DEF SameHand

LEMMA CutHandInv ==
    ASSUME NEW s, NEW hand, NEW n, NEW t, NEW hand2, NEW k,
           IsCut(s, hand, n, t, hand2, k), HandInv(s, hand),
           k < n \/ Settled(s, hand)
    PROVE  Settled(t, hand2) /\ HandInv(t, hand2)
  <1>1. ASSUME NEW p \in DOMAIN hand2
        PROVE  SettledAt(t, hand2, p)
    <2>1. /\ p \in DOMAIN hand /\ hand2[p] = hand[p]
          /\ TakenAt(t, hand2, p) <=> TakenAt(s, hand, p)
          /\ PassedOver(t, hand2, p) <=> PassedOver(s, hand, p)
      BY CutTaken
    <2>2. k < n => p # Len(hand)
      BY DEF IsCut
    <2>3. SettledAt(s, hand, p)
      BY <2>1, <2>2 DEF HandInv, Settled
    <2> QED
      BY <2>1, <2>3 DEF SettledAt
  <1> QED
    BY <1>1 DEF HandInv, Settled

LEMMA CutDeductionsInv ==
    ASSUME NEW s, NEW hand, NEW n, NEW t, NEW hand2, NEW k,
           IsCut(s, hand, n, t, hand2, k), DeductionsInv(s, hand)
    PROVE  DeductionsInv(t, hand2)
  <1>1. n \in Nat /\ k \in 0..n /\ DOMAIN hand = 1..n /\ DOMAIN hand2 = 1..k
    BY DEF IsCut
  <1>2. /\ \A j \in DOMAIN t.dedList : j \in DOMAIN s.dedList /\ t.dedList[j] = s.dedList[j]
        /\ \A p \in 1..n : \A j \in AddedBy(s.dedList, s.dedLim, p) :
                j \in DOMAIN t.dedList => p \in 1..k /\ j \in AddedBy(t.dedList, t.dedLim, p)
    BY <1>1, CutList DEF IsCut, ShapeInv, Agree
  <1>3. ASSUME NEW j \in DOMAIN t.dedList
        PROVE  \E p \in DOMAIN hand2 : /\ j \in AddedBy(t.dedList, t.dedLim, p)
                                       /\ Weaker(hand2[p], t.dedList[j]) /\ TakenAt(t, hand2, p)
    <2>1. PICK p \in 1..n : /\ j \in AddedBy(s.dedList, s.dedLim, p)
                            /\ Weaker(hand[p], s.dedList[j]) /\ TakenAt(s, hand, p)
      BY <1>1, <1>2 DEF DeductionsInv
    <2>2. p \in DOMAIN hand2 /\ j \in AddedBy(t.dedList, t.dedLim, p)
      BY <1>1, <1>2, <2>1
    <2>3. hand2[p] = hand[p] /\ TakenAt(t, hand2, p)
      BY <2>1, <2>2, CutTaken
    <2> QED
      BY <1>2, <2>1, <2>2, <2>3
  <1>4. \A i, j \in DOMAIN t.dedList : t.dedList[i].atom = t.dedList[j].atom => i = j
    BY <1>2 DEF DeductionsInv
  <1> QED
    BY <1>3, <1>4 DEF DeductionsInv

LEMMA CutCompleteInv ==
    ASSUME NEW s, NEW hand, NEW n, NEW t, NEW hand2, NEW k,
           IsCut(s, hand, n, t, hand2, k), CompleteInv(s, hand)
    PROVE  CompleteInv(t, hand2)
  <1>1. n \in Nat /\ k \in 0..n /\ DOMAIN hand = 1..n /\ DOMAIN hand2 = 1..k
    BY DEF IsCut
  <1>2. SUFFICES ASSUME NEW p \in DOMAIN hand2,
                        NEW m \in [atom : LeqAtoms \ UNION Splits, sgn : BOOLEAN],
                        TakenAt(t, hand2, p) \/ PassedOver(t, hand2, p), Weaker(hand2[p], m)
                 PROVE  \/ \E q \in 1..p : hand2[q].atom = m.atom
                        \/ \E j \in 1..End(t.dedList, t.dedLim, p) : t.dedList[j] = m
    BY DEF CompleteInv
  <1>3. /\ p \in DOMAIN hand /\ hand2[p] = hand[p]
        /\ TakenAt(s, hand, p) \/ PassedOver(s, hand, p)
    BY <1>2, CutTaken
  <1>4. \/ \E q \in 1..p : hand[q].atom = m.atom
        \/ \E j \in 1..End(s.dedList, s.dedLim, p) : s.dedList[j] = m
    BY <1>2, <1>3 DEF CompleteInv
  <1>5. \A q \in 1..p : hand2[q] = hand[q]
    BY <1>1 DEF IsCut, SameHand
  <1>6. /\ \A j \in 1..End(s.dedList, s.dedLim, p) : t.dedList[j] = s.dedList[j]
        /\ End(t.dedList, t.dedLim, p) = End(s.dedList, s.dedLim, p)
    <2>1. p \in 1..k /\ k \in Nat /\ k <= n /\ k <= k
      BY <1>1
    <2>2. /\ Layered(s.dedList, s.dedLim, n) /\ Layered(t.dedList, t.dedLim, k)
          /\ SameLayers(s.dedList, s.dedLim, t.dedList, t.dedLim, k)
      BY DEF IsCut, ShapeInv, Agree
    <2> QED
      BY <1>1, <2>1, <2>2, SameAdded
  <1> QED
    BY <1>4, <1>5, <1>6

\* Of the decisions, what is left keeps its polarity and its count.
About(list, v) == {j \in DOMAIN list : LeqVar[list[j].atom] = v}
Given(s, v) == About(s.decisions, v)
CutCounts(s, t) ==
    /\ \A a \in LeqAtoms : t.polarity[a] =
         IF \E j \in DOMAIN s.decisions \ DOMAIN t.decisions : s.decisions[j].atom = a
         THEN "undef" ELSE s.polarity[a]
    /\ \A v \in Vars : t.active[v] =
         s.active[v] - Cardinality(Given(s, v) \ DOMAIN t.decisions)

LEMMA CutDecisionsInv ==
    ASSUME NEW s, NEW hand, NEW n, NEW t, NEW hand2, NEW k,
           IsCut(s, hand, n, t, hand2, k), DecisionsInv(s, hand), CutCounts(s, t)
    PROVE  DecisionsInv(t, hand2)
  <1>1. n \in Nat /\ k \in 0..n /\ DOMAIN hand = 1..n /\ DOMAIN hand2 = 1..k
    BY DEF IsCut
  <1>2. /\ \A j \in DOMAIN t.decisions : j \in DOMAIN s.decisions /\ t.decisions[j] = s.decisions[j]
        /\ \A p \in 1..n : \A j \in AddedBy(s.decisions, s.decLimit, p) :
                j \in DOMAIN t.decisions => p \in 1..k /\ j \in AddedBy(t.decisions, t.decLimit, p)
    BY <1>1, CutList DEF IsCut, ShapeInv, Agree
  <1>3. ASSUME NEW j \in DOMAIN t.decisions
        PROVE  \E p \in DOMAIN hand2 :
                 j \in AddedBy(t.decisions, t.decLimit, p) /\ t.decisions[j] = hand2[p]
    <2>1. PICK p \in 1..n : j \in AddedBy(s.decisions, s.decLimit, p) /\ s.decisions[j] = hand[p]
      BY <1>1, <1>2 DEF DecisionsInv
    <2>2. p \in DOMAIN hand2 /\ j \in AddedBy(t.decisions, t.decLimit, p)
      BY <1>1, <1>2, <2>1
    <2>3. hand2[p] = hand[p]
      BY <2>2, CutTaken
    <2> QED
      BY <1>2, <2>1, <2>2, <2>3
  <1>4. \A i, j \in DOMAIN t.decisions : t.decisions[i].atom = t.decisions[j].atom => i = j
    BY <1>2 DEF DecisionsInv
  <1>5. ASSUME NEW a \in LeqAtoms
        PROVE  t.polarity[a] # "undef" <=> \E j \in DOMAIN t.decisions : t.decisions[j].atom = a
    <2>1. s.polarity[a] # "undef" <=> \E j \in DOMAIN s.decisions : s.decisions[j].atom = a
      BY DEF DecisionsInv
    <2>2. CASE \E j \in DOMAIN s.decisions \ DOMAIN t.decisions : s.decisions[j].atom = a
      <3>1. t.polarity[a] = "undef"
        BY <2>2 DEF CutCounts
      <3>2. PICK i \in DOMAIN s.decisions \ DOMAIN t.decisions : s.decisions[i].atom = a
        BY <2>2
      <3>3. \A j \in DOMAIN t.decisions : t.decisions[j].atom # a
        BY <1>2, <3>2 DEF DecisionsInv
      <3> QED
        BY <3>1, <3>3
    <2>3. CASE ~ \E j \in DOMAIN s.decisions \ DOMAIN t.decisions : s.decisions[j].atom = a
      <3>1. t.polarity[a] = s.polarity[a]
        BY <2>3 DEF CutCounts
      <3> QED
        BY <1>2, <2>1, <2>3, <3>1
    <2> QED
      BY <2>2, <2>3
  <1>6. ASSUME NEW v \in Vars
        PROVE  t.active[v] = Cardinality(Given(t, v))
    <2>1. Given(t, v) = Given(s, v) \cap DOMAIN t.decisions
      BY <1>2 DEF Given, About
    <2>2. IsFiniteSet(Given(s, v))
      <3>1. DOMAIN s.decisions = 1..Len(s.decisions) /\ Len(s.decisions) \in Nat
        BY <1>1, LayerFacts DEF IsCut, ShapeInv
      <3>2. IsFiniteSet(1..Len(s.decisions)) /\ Given(s, v) \in SUBSET (1..Len(s.decisions))
        BY <3>1, FS_Interval DEF Given, About
      <3> QED
        BY <3>2, FS_Subset
    <2>3. Cardinality(Given(s, v) \ DOMAIN t.decisions)
            = Cardinality(Given(s, v)) - Cardinality(Given(s, v) \cap DOMAIN t.decisions)
      BY <2>2, FS_Difference
    <2>4. s.active[v] = Cardinality(Given(s, v))
      BY DEF DecisionsInv, Given, About
    <2>5. t.active[v] = s.active[v] - Cardinality(Given(s, v) \ DOMAIN t.decisions)
      BY DEF CutCounts
    <2>6. /\ Cardinality(Given(s, v)) \in Nat
          /\ Cardinality(Given(s, v) \cap DOMAIN t.decisions) \in Nat
      BY <2>2, FS_CardinalityType, FS_Subset,
         Given(s, v) \cap DOMAIN t.decisions \in SUBSET Given(s, v)
    <2> QED
      BY <2>1, <2>3, <2>4, <2>5, <2>6
  <1> QED
    BY <1>3, <1>4, <1>5, <1>6 DEF DecisionsInv, Given, About

LEMMA CutSolverInv ==
    ASSUME NEW s, NEW hand, NEW n, NEW t, NEW hand2, NEW k,
           IsCut(s, hand, n, t, hand2, k), SolverInv(s, hand),
           CutCounts(s, t), k < n \/ Settled(s, hand)
    PROVE  SolverInv(t, hand2) /\ Settled(t, hand2)
  <1>1. /\ TraceInv(s, hand) /\ DecisionsInv(s, hand) /\ HandInv(s, hand)
        /\ DeductionsInv(s, hand) /\ CompleteInv(s, hand)
    BY DEF SolverInv
  <1>2. ShapeInv(t, Len(hand2))
    BY DEF IsCut
  <1>3. TraceInv(t, hand2) /\ DecisionsInv(t, hand2) /\ DeductionsInv(t, hand2) /\ CompleteInv(t, hand2)
    BY <1>1, CutTraceInv, CutDecisionsInv, CutDeductionsInv, CutCompleteInv
  <1>4. HandInv(t, hand2) /\ Settled(t, hand2)
    BY <1>1, CutHandInv
  <1> QED
    BY <1>2, <1>3, <1>4 DEF SolverInv

\* What a cut throws away, renumbered from 1.
LEMMA AboveFacts ==
    ASSUME NEW S, NEW list \in Seq(S), NEW e \in 0..Len(list)
    PROVE  /\ DOMAIN Above(list, e) = 1..Len(list) - e /\ Above(list, e) \in Seq(S)
           /\ Len(Above(list, e)) = Len(list) - e
           /\ \A j \in 1..Len(list) - e : Above(list, e)[j] = list[e + j]
  <1>1. Len(list) \in Nat /\ e \in Nat /\ \A i \in e + 1 .. Len(list) : list[i] \in S
    BY SeqFacts
  <1>2. /\ SubSeq(list, e + 1, Len(list)) \in Seq(S)
        /\ Len(SubSeq(list, e + 1, Len(list))) =
             IF e + 1 <= Len(list) THEN Len(list) - (e + 1) + 1 ELSE 0
        /\ \A i \in 1..(Len(list) - (e + 1) + 1) :
             SubSeq(list, e + 1, Len(list))[i] = list[e + 1 + i - 1]
    BY <1>1, SubSeqProperties
  <1>3. PICK u : u = Above(list, e)
    OBVIOUS
  <1>4. u \in Seq(S) /\ Len(u) = Len(list) - e /\ \A i \in 1..Len(list) - e : u[i] = list[e + i]
    BY <1>1, <1>2, <1>3 DEF Above
  <1> QED
    BY <1>3, <1>4, SeqFacts

LEMMA ShiftCount ==
    ASSUME NEW A \in SUBSET Int, IsFiniteSet(A), NEW e \in Int
    PROVE  Cardinality({x - e : x \in A}) = Cardinality(A)
  <1> DEFINE B == {x - e : x \in A}
             f == [x \in A |-> x - e]
  <1>1. f \in Bijection(A, B)
    <2>1. f \in [A -> B]
      OBVIOUS
    <2>2. \A x, y \in A : f[x] = f[y] => x = y
      OBVIOUS
    <2>3. \A b \in B : \E x \in A : f[x] = b
      OBVIOUS
    <2>4. f \in Injection(A, B)
      BY <2>1, <2>2, Fun_IsInj
    <2>5. f \in Surjection(A, B)
      BY <2>1, <2>3, Fun_IsSurj
    <2> QED
      BY <2>4, <2>5 DEF Bijection
  <1>2. ExistsBijection(A, B)
    BY <1>1 DEF ExistsBijection
  <1> QED
    BY <1>2, FS_Bijection

\* What is given back: the polarities and the counts of the decisions dropped.
LEMMA AboveCounts ==
    ASSUME NEW dec \in Seq(LeqLits), NEW e \in 0..Len(dec), NEW gone, gone = Above(dec, e)
    PROVE  /\ \A a \in LeqAtoms : (\E j \in DOMAIN gone : gone[j].atom = a)
                       <=> \E j \in DOMAIN dec \ (1..e) : dec[j].atom = a
           /\ \A v \in Vars : /\ Cardinality(About(gone, v)) = Cardinality(About(dec, v) \ (1..e))
                     /\ Cardinality(About(dec, v) \ (1..e)) \in Nat
  <1>1. PICK L \in Nat : L = Len(dec)
    BY SeqFacts
  <1>2. DOMAIN dec = 1..L /\ e \in 0..L /\ e \in Nat
    BY <1>1, SeqFacts
  <1>3. DOMAIN gone = 1..L - e /\ \A j \in 1..L - e : gone[j] = dec[e + j]
    BY <1>1, AboveFacts
  <1>4. \A j \in 1..L - e : e + j \in DOMAIN dec \ (1..e)
    BY <1>2
  <1>5. \A j \in DOMAIN dec \ (1..e) : j - e \in 1..L - e /\ e + (j - e) = j
    BY <1>2
  <1>6. ASSUME NEW a \in LeqAtoms
        PROVE  (\E j \in DOMAIN gone : gone[j].atom = a)
                       <=> \E j \in DOMAIN dec \ (1..e) : dec[j].atom = a
    <2>1. ASSUME NEW j \in DOMAIN gone, gone[j].atom = a
          PROVE  \E i \in DOMAIN dec \ (1..e) : dec[i].atom = a
      <3>1. e + j \in DOMAIN dec \ (1..e) /\ gone[j] = dec[e + j]
        BY <1>3, <1>4
      <3> QED
        BY <2>1, <3>1
    <2>2. ASSUME NEW i \in DOMAIN dec \ (1..e), dec[i].atom = a
          PROVE  \E j \in DOMAIN gone : gone[j].atom = a
      <3>1. i - e \in DOMAIN gone /\ gone[i - e] = dec[i]
        BY <1>3, <1>5
      <3> QED
        BY <2>2, <3>1
    <2> QED
      BY <2>1, <2>2
  <1>7. ASSUME NEW v \in Vars
        PROVE  /\ Cardinality(About(gone, v)) = Cardinality(About(dec, v) \ (1..e))
               /\ Cardinality(About(dec, v) \ (1..e)) \in Nat
    <2>1. PICK A : A = About(dec, v) \ (1..e) /\ A = {j \in DOMAIN dec : LeqVar[dec[j].atom] = v} \ (1..e)
      BY DEF About
    <2>2. A \in SUBSET Int /\ A \in SUBSET (1..L)
      BY <1>2, <2>1
    <2>3. IsFiniteSet(1..L)
      BY FS_Interval
    <2>4. IsFiniteSet(A)
      BY <2>2, <2>3, FS_Subset
    <2>5. About(gone, v) = {x - e : x \in A}
      <3>1. ASSUME NEW j \in DOMAIN gone, LeqVar[gone[j].atom] = v
            PROVE  \E x \in A : j = x - e
        <4>1. e + j \in DOMAIN dec \ (1..e) /\ gone[j] = dec[e + j]
          BY <1>3, <1>4
        <4>2. j = (e + j) - e
          BY <1>2, <1>3
        <4> QED
          BY <2>1, <3>1, <4>1, <4>2
      <3>2. ASSUME NEW x \in A
            PROVE  x - e \in DOMAIN gone /\ LeqVar[gone[x - e].atom] = v
        <4>1. x \in DOMAIN dec \ (1..e) /\ LeqVar[dec[x].atom] = v
          BY <2>1
        <4>2. x - e \in DOMAIN gone /\ gone[x - e] = dec[x]
          BY <1>3, <1>5, <4>1
        <4> QED
          BY <4>1, <4>2
      <3> QED
        BY <3>1, <3>2 DEF About
    <2>6. e \in Int
      BY <1>2
    <2>7. Cardinality({x - e : x \in A}) = Cardinality(A)
      BY <2>2, <2>4, <2>6, ShiftCount
    <2> QED
      BY <2>1, <2>4, <2>5, <2>7, FS_CardinalityType
  <1> QED
    BY <1>6, <1>7

\* The fields of DropPoints, named by how many points are left.
Dropped(s, t, k) ==
    /\ DOMAIN t = DOMAIN EmptyLA
    /\ t.trace = Cut(s.trace, s.limits[k + 1]) /\ t.limits = Cut(s.limits, k)
    /\ t.decisions = Cut(s.decisions, s.decLimit[k + 1]) /\ t.decLimit = Cut(s.decLimit, k)
    /\ t.dedList = Cut(s.dedList, s.dedLim[k + 1]) /\ t.dedLim = Cut(s.dedLim, k)
    /\ t.dedLast = Cut(s.dedLast, k) /\ t.dedNext = s.dedLast[k + 1]
    /\ t.status = "SAT" /\ t.built = s.built /\ t.explanation = s.explanation
    /\ t.polarity = [a \in LeqAtoms |->
         IF \E j \in DOMAIN Above(s.decisions, s.decLimit[k + 1]) :
              Above(s.decisions, s.decLimit[k + 1])[j].atom = a
         THEN "undef" ELSE s.polarity[a]]
    /\ t.active = [v \in Vars |-> s.active[v] -
         Cardinality({j \in DOMAIN Above(s.decisions, s.decLimit[k + 1]) :
              LeqVar[Above(s.decisions, s.decLimit[k + 1])[j].atom] = v})]

LEMMA DropFields ==
    ASSUME NEW s, NEW n \in Nat, ShapeInv(s, n), NEW c \in 1..n, NEW k, k = n - c,
           NEW t, t = popBacktrackPoints(s, c)
    PROVE  Dropped(s, t, k)
  <1>1. Len(s.limits) = n
    BY DEF ShapeInv, Layered
  <1>2. Oldest(s, c) = k + 1 /\ k + 1 - 1 = k /\ c # 0
    BY <1>1 DEF Oldest
  <1>3. t = DropPoints(s, k + 1)
    BY <1>2 DEF popBacktrackPoints
  <1>4. DOMAIN s = DOMAIN EmptyLA
    BY DEF ShapeInv
  <1>5. DOMAIN t = DOMAIN EmptyLA
    BY <1>3, <1>4 DEF DropPoints
  <1>6. PICK p : p = k + 1 /\ p - 1 = k
    BY <1>2
  <1>7. /\ t.trace = Cut(s.trace, s.limits[p]) /\ t.limits = Cut(s.limits, p - 1)
        /\ t.decisions = Cut(s.decisions, s.decLimit[p]) /\ t.decLimit = Cut(s.decLimit, p - 1)
        /\ t.dedList = Cut(s.dedList, s.dedLim[p]) /\ t.dedLim = Cut(s.dedLim, p - 1)
        /\ t.dedLast = Cut(s.dedLast, p - 1) /\ t.dedNext = s.dedLast[p]
    <2>1. t = DropPoints(s, p)
      BY <1>3, <1>6
    <2> QED
      BY <1>4, <2>1 DEF DropPoints, EmptyLA
  <1>8. t.status = "SAT" /\ t.built = s.built /\ t.explanation = s.explanation
    BY <1>3, <1>4 DEF DropPoints, EmptyLA
  <1>9. t.polarity = [a \in LeqAtoms |->
                IF \E j \in DOMAIN Above(s.decisions, s.decLimit[k + 1]) :
                     Above(s.decisions, s.decLimit[k + 1])[j].atom = a
                THEN "undef" ELSE s.polarity[a]]
    BY <1>3, <1>4 DEF DropPoints, EmptyLA
  <1>10. t.active = [v \in Vars |-> s.active[v] -
                Cardinality({j \in DOMAIN Above(s.decisions, s.decLimit[k + 1]) :
                     LeqVar[Above(s.decisions, s.decLimit[k + 1])[j].atom] = v})]
    BY <1>3, <1>4 DEF DropPoints, EmptyLA
  <1> QED
    BY <1>5, <1>6, <1>7, <1>8, <1>9, <1>10 DEF Dropped

\* Two states with the same stacks.
SameStacks(s, t) ==
    /\ DOMAIN t = DOMAIN s
    /\ t.trace = s.trace /\ t.limits = s.limits /\ t.decisions = s.decisions
    /\ t.decLimit = s.decLimit /\ t.dedList = s.dedList /\ t.dedLim = s.dedLim
    /\ t.dedLast = s.dedLast /\ t.dedNext \in Nat
    /\ t.polarity = s.polarity /\ t.active = s.active

LEMMA SameStacksFacts ==
    ASSUME NEW s, NEW t, SameStacks(s, t), NEW n, ShapeInv(s, n)
    PROVE  ShapeInv(t, n) /\ \A k \in 0..n : Agree(s, t, k)
  <1>1. ShapeInv(t, n)
    BY DEF ShapeInv, SameStacks
  <1>2. \A k \in 0..n : Agree(s, t, k)
    BY DEF Agree, SameLayers, SameStacks, End
  <1> QED
    BY <1>1, <1>2

LEMMA PopIsCut ==
    ASSUME NEW n \in Nat, NEW hand, DOMAIN hand = 1..n, Len(hand) = n,
           NEW s, ShapeInv(s, n), NEW c \in 0..n, NEW k, k = n - c,
           NEW t, t = popBacktrackPoints(s, c),
           NEW hand2, DOMAIN hand2 = 1..k, Len(hand2) = k, SameHand(hand, hand2, k)
    PROVE  IsCut(s, hand, n, t, hand2, k) /\ CutCounts(s, t)
  <1>1. k \in 0..n
    OBVIOUS
  <1>2. CASE c = 0
    <2>1. DOMAIN s = DOMAIN EmptyLA /\ s.dedNext \in Nat
      BY DEF ShapeInv
    <2>2. t = [s EXCEPT !.status = "SAT"]
      BY <1>2 DEF popBacktrackPoints
    <2>3. SameStacks(s, t)
      BY <2>1, <2>2 DEF SameStacks, EmptyLA
    <2>4. ShapeInv(t, n) /\ Agree(s, t, k)
      BY <1>1, <2>3, SameStacksFacts
    <2>5. CutCounts(s, t)
      <3>1. DOMAIN t.decisions = DOMAIN s.decisions /\ t.polarity = s.polarity /\ t.active = s.active
        BY <2>3 DEF SameStacks
      <3>2. \A v \in Vars : s.active[v] \in Int
        BY DEF ShapeInv
      <3>3. \A v \in Vars : Given(s, v) \ DOMAIN t.decisions = {}
        BY <3>1 DEF Given, About
      <3>4. ASSUME NEW v \in Vars
            PROVE  t.active[v] = s.active[v] - Cardinality(Given(s, v) \ DOMAIN t.decisions)
        <4>1. Cardinality(Given(s, v) \ DOMAIN t.decisions) = 0
          BY <3>3, FS_EmptySet
        <4> QED
          BY <3>1, <3>2, <4>1
      <3> QED
        BY <3>1, <3>4 DEF CutCounts
    <2>6. k = n
      BY <1>2
    <2> QED
      BY <1>1, <2>4, <2>5, <2>6 DEF IsCut
  <1>3. CASE c # 0
    <2>0. Dropped(s, t, k)
      <3>1. c \in 1..n
        BY <1>3
      <3> QED
        BY <3>1, DropFields
    <2>1. k \in 0..n - 1 /\ k \in Nat
      BY <1>3
    <2>2. /\ DOMAIN t = DOMAIN EmptyLA
          /\ t.trace = Cut(s.trace, s.limits[k + 1]) /\ t.limits = Cut(s.limits, k)
          /\ t.decisions = Cut(s.decisions, s.decLimit[k + 1]) /\ t.decLimit = Cut(s.decLimit, k)
          /\ t.dedList = Cut(s.dedList, s.dedLim[k + 1]) /\ t.dedLim = Cut(s.dedLim, k)
          /\ t.dedLast = Cut(s.dedLast, k) /\ t.dedNext = s.dedLast[k + 1]
      BY <2>0 DEF Dropped
    <2>3. /\ Layered(s.trace, s.limits, n) /\ Layered(s.decisions, s.decLimit, n)
          /\ Layered(s.dedList, s.dedLim, n)
          /\ s.dedLast \in Seq(Nat) /\ Len(s.dedLast) = n
          /\ s.polarity \in [LeqAtoms -> {"undef", "true", "false"}] /\ s.active \in [Vars -> Int]
      BY DEF ShapeInv
    <2>4. /\ Layered(t.trace, t.limits, k)
          /\ SameLayers(t.trace, t.limits, s.trace, s.limits, k)
          /\ Len(t.trace) = End(s.trace, s.limits, k)
          /\ \A j \in 1..End(s.trace, s.limits, k) : t.trace[j] = s.trace[j]
      <3>1. LayerCut(s.trace, s.limits, k, t.trace, t.limits)
        BY <2>1, <2>2, <2>3, CutLayer
      <3> QED
        BY <3>1 DEF LayerCut
    <2>5. /\ Layered(t.decisions, t.decLimit, k)
          /\ SameLayers(t.decisions, t.decLimit, s.decisions, s.decLimit, k)
          /\ Len(t.decisions) = End(s.decisions, s.decLimit, k)
          /\ \A j \in 1..End(s.decisions, s.decLimit, k) : t.decisions[j] = s.decisions[j]
      <3>1. LayerCut(s.decisions, s.decLimit, k, t.decisions, t.decLimit)
        BY <2>1, <2>2, <2>3, CutLayer
      <3> QED
        BY <3>1 DEF LayerCut
    <2>6. /\ Layered(t.dedList, t.dedLim, k)
          /\ SameLayers(t.dedList, t.dedLim, s.dedList, s.dedLim, k)
          /\ Len(t.dedList) = End(s.dedList, s.dedLim, k)
          /\ \A j \in 1..End(s.dedList, s.dedLim, k) : t.dedList[j] = s.dedList[j]
      <3>1. LayerCut(s.dedList, s.dedLim, k, t.dedList, t.dedLim)
        BY <2>1, <2>2, <2>3, CutLayer
      <3> QED
        BY <3>1 DEF LayerCut
    <2>7. Agree(s, t, k)
      BY <2>4, <2>5, <2>6 DEF Agree, SameLayers
    <2>8. t.dedLast \in Seq(Nat) /\ Len(t.dedLast) = k /\ t.dedNext \in Nat
      <3>1. t.dedLast = SubSeq(s.dedLast, 1, k)
        BY <2>1, <2>2, <2>3 DEF Cut
      <3>2. k \in 0..Len(s.dedLast) /\ k + 1 \in 1..Len(s.dedLast)
        BY <2>1, <2>3
      <3>3. t.dedLast \in Seq(Nat) /\ Len(t.dedLast) = k
        BY <2>3, <3>1, <3>2, PrefixFacts
      <3>4. t.dedNext \in Nat
        BY <2>2, <2>3, <3>2, SeqFacts
      <3> QED
        BY <3>3, <3>4
    <2>20. PICK e : e = s.decLimit[k + 1]
      OBVIOUS
    <2>21. PICK gone : gone = Above(s.decisions, e)
      OBVIOUS
    <2>9. /\ e \in 0..Len(s.decisions) /\ e = Len(t.decisions)
          /\ Len(s.decisions) \in Nat /\ DOMAIN s.decisions = 1..Len(s.decisions)
          /\ DOMAIN t.decisions = 1..e
          /\ s.decisions \in Seq(LeqLits)
      <3>1. k \in 0..n
        BY <2>1
      <3>2. /\ e = End(s.decisions, s.decLimit, k)
            /\ End(s.decisions, s.decLimit, k) \in 0..Len(s.decisions)
        <4>1. s.decLimit[k + 1] = End(s.decisions, s.decLimit, k)
          <5>1. Len(s.decLimit) = n /\ k < n
            BY <2>1, <2>3 DEF Layered
          <5> QED
            BY <5>1 DEF End
        <4>2. End(s.decisions, s.decLimit, k) \in 0..Len(s.decisions)
          BY <2>3, <3>1, LayerFacts
        <4> QED
          BY <2>20, <4>1, <4>2
      <3>3. Len(s.decisions) \in Nat /\ DOMAIN s.decisions = 1..Len(s.decisions)
        BY <2>3, LayerFacts
      <3>4. DOMAIN t.decisions = 1..Len(t.decisions)
        BY <2>1, <2>5, LayerFacts
      <3> QED
        BY <2>3, <2>5, <3>2, <3>3, <3>4 DEF Layered
    <2>10. /\ t.polarity = [a \in LeqAtoms |-> IF \E j \in DOMAIN gone : gone[j].atom = a
                                              THEN "undef" ELSE s.polarity[a]]
           /\ t.active = [v \in Vars |-> s.active[v] -
                Cardinality(About(gone, v))]
      BY <2>0, <2>20, <2>21 DEF Dropped, About
    <2>11. /\ \A a \in LeqAtoms : (\E j \in DOMAIN gone : gone[j].atom = a)
                       <=> \E j \in DOMAIN s.decisions \ (1..e) : s.decisions[j].atom = a
           /\ \A v \in Vars : /\ Cardinality(About(gone, v))
                          = Cardinality(About(s.decisions, v) \ (1..e))
                     /\ Cardinality(About(s.decisions, v) \ (1..e)) \in Nat
      <3>1. PICK dec : dec = s.decisions
        OBVIOUS
      <3>2. dec \in Seq(LeqLits) /\ e \in 0..Len(dec) /\ gone = Above(dec, e)
        BY <2>9, <2>21, <3>1
      <3>3. /\ \A a \in LeqAtoms : (\E j \in DOMAIN gone : gone[j].atom = a)
                       <=> \E j \in DOMAIN dec \ (1..e) : dec[j].atom = a
            /\ \A v \in Vars : /\ Cardinality(About(gone, v)) = Cardinality(About(dec, v) \ (1..e))
                      /\ Cardinality(About(dec, v) \ (1..e)) \in Nat
        BY <3>2, AboveCounts
      <3> QED
        BY <3>1, <3>3
    <2>12. \A v \in Vars : Given(s, v) \ DOMAIN t.decisions = About(s.decisions, v) \ (1..e)
      BY <2>9 DEF Given
    <2>13. ASSUME NEW a \in LeqAtoms
           PROVE  t.polarity[a] =
                    IF \E j \in DOMAIN s.decisions \ DOMAIN t.decisions : s.decisions[j].atom = a
                    THEN "undef" ELSE s.polarity[a]
      <3>1. t.polarity[a] = IF \E j \in DOMAIN gone : gone[j].atom = a
                            THEN "undef" ELSE s.polarity[a]
        BY <2>10
      <3>2. (\E j \in DOMAIN gone : gone[j].atom = a)
              <=> \E j \in DOMAIN s.decisions \ DOMAIN t.decisions : s.decisions[j].atom = a
        BY <2>9, <2>11
      <3> QED
        BY <3>1, <3>2, Zenon
    <2>14. ASSUME NEW v \in Vars
           PROVE  t.active[v] = s.active[v] - Cardinality(Given(s, v) \ DOMAIN t.decisions)
      <3>1. t.active[v] = s.active[v] - Cardinality(About(gone, v))
        BY <2>10
      <3>2. Cardinality(About(gone, v)) = Cardinality(Given(s, v) \ DOMAIN t.decisions)
        BY <2>11, <2>12, Zenon
      <3> QED
        BY <3>1, <3>2, Zenon
    <2>15. CutCounts(s, t)
      BY <2>13, <2>14 DEF CutCounts
    <2>16. t.polarity \in [LeqAtoms -> {"undef", "true", "false"}]
      BY <2>3, <2>10
    <2>17. t.active \in [Vars -> Int]
      <3>1. \A v \in Vars : Cardinality(Given(s, v) \ DOMAIN t.decisions) \in Nat
        BY <2>11, <2>12, Zenon
      <3>2. ASSUME NEW v \in Vars
            PROVE  t.active[v] \in Int
        <4>1. s.active[v] \in Int /\ Cardinality(Given(s, v) \ DOMAIN t.decisions) \in Int
          BY <2>3, <3>1
        <4> QED
          BY <2>14, <4>1
      <3> QED
        BY <2>10, <3>2
    <2>18. ShapeInv(t, k)
      BY <2>2, <2>4, <2>5, <2>6, <2>8, <2>16, <2>17 DEF ShapeInv
    <2> QED
      BY <1>1, <2>7, <2>15, <2>18 DEF IsCut
  <1> QED
    BY <1>2, <1>3

LEMMA PopSolverInv ==
    ASSUME NEW n \in Nat, NEW hand, DOMAIN hand = 1..n, Len(hand) = n,
           NEW s, SolverInv(s, hand),
           NEW c \in 0..n, NEW k, k = n - c, c # 0 \/ Settled(s, hand),
           NEW t, t = popBacktrackPoints(s, c),
           NEW hand2, DOMAIN hand2 = 1..k, Len(hand2) = k, SameHand(hand, hand2, k)
    PROVE  SolverInv(t, hand2) /\ Settled(t, hand2) /\ Agree(s, t, k)
  <1>1. ShapeInv(s, n)
    BY DEF SolverInv
  <1>2. IsCut(s, hand, n, t, hand2, k) /\ CutCounts(s, t)
    BY <1>1, PopIsCut
  <1>3. k < n \/ Settled(s, hand)
    OBVIOUS
  <1>4. SolverInv(t, hand2) /\ Settled(t, hand2)
    BY <1>2, <1>3, CutSolverInv
  <1> QED
    BY <1>2, <1>4 DEF IsCut

-----------------------------------------------------------------------------
(* One literal more, at a point of its own.                                *)

IsExtension(s, hand, n, t, hand2) ==
    /\ n \in Nat /\ DOMAIN hand = 1..n /\ Len(hand) = n
    /\ DOMAIN hand2 = 1..n + 1 /\ Len(hand2) = n + 1 /\ SameHand(hand, hand2, n)
    /\ \A p \in 1..n : hand[p].atom # hand2[n + 1].atom
    /\ ShapeInv(s, n) /\ ShapeInv(t, n + 1) /\ Agree(s, t, n)

LEMMA ExtList ==
    ASSUME NEW list, NEW lim, NEW n \in Nat, Layered(list, lim, n),
           NEW list2, NEW lim2, Layered(list2, lim2, n + 1),
           SameLayers(list, lim, list2, lim2, n)
    PROVE  /\ DOMAIN list = 1..Len(list) /\ DOMAIN list2 = 1..Len(list2)
           /\ End(list2, lim2, n) = Len(list) /\ End(list2, lim2, n + 1) = Len(list2)
           /\ \A j \in DOMAIN list : j \in DOMAIN list2 /\ list2[j] = list[j]
           /\ \A p \in 1..n : AddedBy(list2, lim2, p) = AddedBy(list, lim, p)
           /\ AddedBy(list2, lim2, n + 1) = DOMAIN list2 \ DOMAIN list
  <1>1. /\ Len(list) \in Nat /\ DOMAIN list = 1..Len(list) /\ End(list, lim, n) = Len(list)
    BY LayerFacts
  <1>2. n + 1 \in Nat /\ n \in 0..n + 1 /\ n + 1 \in 1..n + 1 /\ n + 1 - 1 = n
    OBVIOUS
  <1>3. /\ Len(list2) \in Nat /\ DOMAIN list2 = 1..Len(list2) /\ End(list2, lim2, n + 1) = Len(list2)
        /\ End(list2, lim2, n) \in 0..Len(list2)
    BY <1>2, LayerFacts
  <1>4. End(list2, lim2, n) = Len(list) /\ \A j \in 1..Len(list) : list2[j] = list[j]
    <2>1. n \in 0..n
      OBVIOUS
    <2> QED
      BY <1>1, <2>1 DEF SameLayers
  <1>5. \A p \in 1..n : AddedBy(list2, lim2, p) = AddedBy(list, lim, p)
    <2>1. n <= n /\ n <= n + 1
      OBVIOUS
    <2> QED
      BY <1>2, <2>1, SameAdded
  <1>6. \A j : j \in AddedBy(list2, lim2, n + 1) <=>
                j \in Nat /\ End(list2, lim2, n) < j /\ j <= End(list2, lim2, n + 1)
    BY <1>2, LayerFacts
  <1>7. AddedBy(list2, lim2, n + 1) = DOMAIN list2 \ DOMAIN list
    BY <1>1, <1>3, <1>4, <1>6
  <1> QED
    BY <1>1, <1>3, <1>4, <1>5, <1>7

LEMMA ExtLists ==
    ASSUME NEW s, NEW hand, NEW n, NEW t, NEW hand2, IsExtension(s, hand, n, t, hand2)
    PROVE  /\ n \in Nat /\ DOMAIN hand = 1..n /\ DOMAIN hand2 = 1..n + 1
           /\ \A j \in DOMAIN s.trace : j \in DOMAIN t.trace /\ t.trace[j] = s.trace[j]
           /\ \A p \in 1..n : AddedBy(t.trace, t.limits, p) = AddedBy(s.trace, s.limits, p)
           /\ AddedBy(t.trace, t.limits, n + 1) = DOMAIN t.trace \ DOMAIN s.trace
           /\ \A j \in DOMAIN s.decisions : j \in DOMAIN t.decisions /\ t.decisions[j] = s.decisions[j]
           /\ \A p \in 1..n : AddedBy(t.decisions, t.decLimit, p) = AddedBy(s.decisions, s.decLimit, p)
           /\ AddedBy(t.decisions, t.decLimit, n + 1) = DOMAIN t.decisions \ DOMAIN s.decisions
           /\ \A j \in DOMAIN s.dedList : j \in DOMAIN t.dedList /\ t.dedList[j] = s.dedList[j]
           /\ \A p \in 1..n : AddedBy(t.dedList, t.dedLim, p) = AddedBy(s.dedList, s.dedLim, p)
           /\ AddedBy(t.dedList, t.dedLim, n + 1) = DOMAIN t.dedList \ DOMAIN s.dedList
  <1>1. n \in Nat /\ DOMAIN hand = 1..n /\ DOMAIN hand2 = 1..n + 1
    BY DEF IsExtension
  <1>2. /\ Layered(s.trace, s.limits, n) /\ Layered(t.trace, t.limits, n + 1)
        /\ SameLayers(s.trace, s.limits, t.trace, t.limits, n)
    BY DEF IsExtension, ShapeInv, Agree
  <1>3. /\ Layered(s.decisions, s.decLimit, n) /\ Layered(t.decisions, t.decLimit, n + 1)
        /\ SameLayers(s.decisions, s.decLimit, t.decisions, t.decLimit, n)
    BY DEF IsExtension, ShapeInv, Agree
  <1>4. /\ Layered(s.dedList, s.dedLim, n) /\ Layered(t.dedList, t.dedLim, n + 1)
        /\ SameLayers(s.dedList, s.dedLim, t.dedList, t.dedLim, n)
    BY DEF IsExtension, ShapeInv, Agree
  <1>5. /\ \A j \in DOMAIN s.trace : j \in DOMAIN t.trace /\ t.trace[j] = s.trace[j]
        /\ \A p \in 1..n : AddedBy(t.trace, t.limits, p) = AddedBy(s.trace, s.limits, p)
        /\ AddedBy(t.trace, t.limits, n + 1) = DOMAIN t.trace \ DOMAIN s.trace
    BY <1>1, <1>2, ExtList
  <1>6. /\ \A j \in DOMAIN s.decisions : j \in DOMAIN t.decisions /\ t.decisions[j] = s.decisions[j]
        /\ \A p \in 1..n : AddedBy(t.decisions, t.decLimit, p) = AddedBy(s.decisions, s.decLimit, p)
        /\ AddedBy(t.decisions, t.decLimit, n + 1) = DOMAIN t.decisions \ DOMAIN s.decisions
    BY <1>1, <1>3, ExtList
  <1>7. /\ \A j \in DOMAIN s.dedList : j \in DOMAIN t.dedList /\ t.dedList[j] = s.dedList[j]
        /\ \A p \in 1..n : AddedBy(t.dedList, t.dedLim, p) = AddedBy(s.dedList, s.dedLim, p)
        /\ AddedBy(t.dedList, t.dedLim, n + 1) = DOMAIN t.dedList \ DOMAIN s.dedList
    BY <1>1, <1>4, ExtList
  <1> QED
    BY <1>1, <1>5, <1>6, <1>7

LEMMA ExtTaken ==
    ASSUME NEW s, NEW hand, NEW n, NEW t, NEW hand2, IsExtension(s, hand, n, t, hand2),
           NEW p \in 1..n
    PROVE  /\ hand2[p] = hand[p]
           /\ TakenAt(t, hand2, p) <=> TakenAt(s, hand, p)
           /\ PassedOver(t, hand2, p) <=> PassedOver(s, hand, p)
  <1>1. n \in Nat /\ n + 1 \in Nat /\ n <= n /\ n <= n + 1
    BY DEF IsExtension
  <1>2. ShapeInv(s, n) /\ ShapeInv(t, n + 1) /\ Agree(s, t, n) /\ SameHand(hand, hand2, n)
    BY DEF IsExtension
  <1>3. /\ TakenAt(t, hand2, p) <=> TakenAt(s, hand, p)
        /\ PassedOver(t, hand2, p) <=> PassedOver(s, hand, p)
    BY <1>1, <1>2, AgreeFacts
  <1> QED
    BY <1>2, <1>3 DEF SameHand

\* A literal settled has a bound at least as strong in the trace.
LEMMA BoundWitness ==
    ASSUME NEW s, NEW n \in Nat, ShapeInv(s, n), NEW hand, DOMAIN hand = 1..n, DeductionsInv(s, hand),
           NEW p \in 1..n, TakenAt(s, hand, p) \/ PassedOver(s, hand, p)
    PROVE  /\ hand[p] \in LeqLits
           /\ \E i \in DOMAIN s.trace : Weaker(s.trace[i], hand[p])
           /\ \E q \in 1..p : TakenAt(s, hand, q) /\ Weaker(hand[q], hand[p])
  <1>1. /\ DOMAIN s.trace = 1..Len(s.trace) /\ \A j \in DOMAIN s.trace : s.trace[j] \in LeqLits
        /\ \A q \in 1..n : End(s.trace, s.limits, q) \in 0..Len(s.trace)
        /\ Len(s.trace) \in Nat
    <2>1. \A q \in 1..n : q \in 0..n
      OBVIOUS
    <2>2. Layered(s.trace, s.limits, n)
      BY ShapeFacts
    <2>3. \A q \in 1..n : End(s.trace, s.limits, q) \in 0..Len(s.trace)
      BY <2>1, <2>2, LayerFacts
    <2> QED
      BY <2>3, ShapeFacts
  <1>2. /\ DOMAIN s.decisions = 1..Len(s.decisions)
        /\ \A j \in DOMAIN s.decisions : s.decisions[j] \in LeqLits
    BY LayerFacts DEF ShapeInv
  <1>3. ASSUME NEW q \in 1..n, TakenAt(s, hand, q)
        PROVE  /\ hand[q] \in LeqLits
               /\ \E i \in DOMAIN s.trace : Weaker(s.trace[i], hand[q])
    <2>1. PICK j \in AddedBy(s.decisions, s.decLimit, q) : s.decisions[j] = hand[q]
      BY <1>3 DEF TakenAt
    <2>2. PICK i \in 1..End(s.trace, s.limits, q) : Weaker(s.trace[i], hand[q])
      BY <1>3 DEF TakenAt
    <2>3. i \in DOMAIN s.trace
      BY <1>1, <2>2
    <2>4. j \in DOMAIN s.decisions
      BY <2>1 DEF AddedBy
    <2> QED
      BY <1>2, <2>1, <2>2, <2>3, <2>4
  <1>4. CASE TakenAt(s, hand, p)
    <2>1. hand[p] \in LeqLits /\ p \in 1..p
      BY <1>3, <1>4
    <2> QED
      BY <1>3, <1>4, <2>1, WeakerFacts
  <1>5. CASE PassedOver(s, hand, p)
    <2>1. PICK j \in 1..End(s.dedList, s.dedLim, p - 1) : s.dedList[j] = hand[p]
      BY <1>5 DEF PassedOver
    <2>2. p - 1 \in 0..n
      OBVIOUS
    <2>3. /\ j \in DOMAIN s.dedList /\ s.dedList[j] \in LeqLits /\ j <= End(s.dedList, s.dedLim, p - 1)
          /\ j \in Nat /\ End(s.dedList, s.dedLim, p - 1) \in Nat
      <3>1. Layered(s.dedList, s.dedLim, n)
        BY ShapeFacts
      <3>2. End(s.dedList, s.dedLim, p - 1) \in 0..Len(s.dedList)
        BY <2>2, <3>1, LayerFacts
      <3>3. j \in DOMAIN s.dedList
        BY <2>1, <3>2, ShapeFacts
      <3> QED
        BY <2>1, <3>2, <3>3, ShapeFacts
    <2>4. PICK q \in 1..n : /\ j \in AddedBy(s.dedList, s.dedLim, q)
                            /\ Weaker(hand[q], s.dedList[j]) /\ TakenAt(s, hand, q)
      BY <2>3 DEF DeductionsInv
    <2>5. q < p
      <3>1. ASSUME p - 1 <= q - 1
            PROVE  FALSE
        <4>1. q - 1 \in 0..n
          OBVIOUS
        <4>2. /\ End(s.dedList, s.dedLim, p - 1) <= End(s.dedList, s.dedLim, q - 1)
              /\ End(s.dedList, s.dedLim, q - 1) \in Nat
          <5>1. Layered(s.dedList, s.dedLim, n)
            BY ShapeFacts
          <5>2. PICK x, y \in 0..n : x = p - 1 /\ y = q - 1
            BY <2>2, <4>1
          <5>3. End(s.dedList, s.dedLim, y) \in 0..Len(s.dedList)
                /\ End(s.dedList, s.dedLim, x) <= End(s.dedList, s.dedLim, y)
            BY <3>1, <5>1, <5>2, LayerFacts
          <5> QED
            BY <5>2, <5>3
        <4>3. End(s.dedList, s.dedLim, q - 1) < j
          BY <2>4, LayerFacts DEF ShapeInv
        <4> QED
          BY <2>3, <4>2, <4>3
      <3> QED
        BY <3>1
    <2>6. PICK i \in DOMAIN s.trace : Weaker(s.trace[i], hand[q])
      BY <1>3, <2>4
    <2>7. Weaker(s.trace[i], hand[p])
      <3>1. PICK x \in LeqLits, y \in LeqLits, z \in LeqLits :
              x = s.trace[i] /\ y = hand[q] /\ z = hand[p]
        BY <1>1, <1>3, <2>1, <2>3, <2>4, <2>6
      <3>2. Weaker(x, y) /\ Weaker(y, z)
        BY <2>1, <2>4, <2>6, <3>1
      <3> QED
        BY <3>1, <3>2, WeakerFacts
    <2>8. q \in 1..p
      BY <2>5
    <2> QED
      BY <2>1, <2>3, <2>4, <2>6, <2>7, <2>8
  <1> QED
    BY <1>4, <1>5

LEMMA SettledNotRefused ==
    ASSUME NEW s, NEW n \in Nat, ShapeInv(s, n), NEW hand, DOMAIN hand = 1..n,
           TraceInv(s, hand), DeductionsInv(s, hand),
           NEW p \in 1..n, TakenAt(s, hand, p) \/ PassedOver(s, hand, p)
    PROVE  ~ boundUnsatisfied(s, hand[p])
  <1>1. /\ hand[p] \in LeqLits
        /\ \E i \in DOMAIN s.trace : Weaker(s.trace[i], hand[p])
    BY BoundWitness
  <1>2. PICK i \in DOMAIN s.trace : Weaker(s.trace[i], hand[p])
    BY <1>1
  <1>3. \A j \in DOMAIN s.trace : s.trace[j] \in LeqLits
    BY LayerFacts DEF ShapeInv
  <1>4. ASSUME NEW j \in DOMAIN s.trace,
               Crossed(hand[p], s.trace[j]) \/ Crossed(s.trace[j], hand[p])
        PROVE  FALSE
    <2>1. Crossed(s.trace[i], s.trace[j]) \/ Crossed(s.trace[j], s.trace[i])
      BY <1>1, <1>2, <1>3, <1>4, WeakerFacts
    <2> QED
      BY <2>1 DEF TraceInv
  <1> QED
    BY <1>1, <1>4, UnsatisfiedIff

LEMMA ExtTraceInv ==
    ASSUME NEW s, NEW hand, NEW n, NEW t, NEW hand2, IsExtension(s, hand, n, t, hand2),
           TraceInv(s, hand), NEW l, l = hand2[n + 1],
           \/ t.trace = s.trace
           \/ /\ t.trace = Append(s.trace, l) /\ l \in LeqLits
              /\ \A i \in DOMAIN s.trace : /\ ~ Weaker(s.trace[i], l)
                                           /\ ~ Crossed(s.trace[i], l) /\ ~ Crossed(l, s.trace[i])
    PROVE  TraceInv(t, hand2)
  <1>1. /\ n \in Nat /\ DOMAIN hand = 1..n /\ DOMAIN hand2 = 1..n + 1
        /\ \A j \in DOMAIN s.trace : j \in DOMAIN t.trace /\ t.trace[j] = s.trace[j]
        /\ \A p \in 1..n : AddedBy(t.trace, t.limits, p) = AddedBy(s.trace, s.limits, p)
        /\ AddedBy(t.trace, t.limits, n + 1) = DOMAIN t.trace \ DOMAIN s.trace
    BY ExtLists
  <1>2. /\ \A j \in DOMAIN s.trace : s.trace[j] \in LeqLits
        /\ DOMAIN s.trace = 1..Len(s.trace) /\ Len(s.trace) \in Nat /\ s.trace \in Seq(LeqLits)
    <2>1. ShapeInv(s, n)
      BY DEF IsExtension
    <2>2. Layered(s.trace, s.limits, n)
      BY <1>1, <2>1, ShapeFacts
    <2>3. s.trace \in Seq(LeqLits)
      BY <2>2 DEF Layered
    <2> QED
      BY <1>1, <2>1, <2>3, ShapeFacts
  <1>3. ASSUME NEW j \in DOMAIN s.trace
        PROVE  \E p \in DOMAIN hand2 :
                 j \in AddedBy(t.trace, t.limits, p) /\ t.trace[j] = hand2[p]
    <2>1. PICK p \in 1..n : j \in AddedBy(s.trace, s.limits, p) /\ s.trace[j] = hand[p]
      BY <1>1, <1>3 DEF TraceInv
    <2>2. hand2[p] = hand[p] /\ p \in 1..n + 1
      BY <1>1, ExtTaken
    <2> QED
      BY <1>1, <2>1, <2>2
  <1>4. CASE t.trace = s.trace
    BY <1>3, <1>4 DEF TraceInv
  <1>5. CASE /\ t.trace = Append(s.trace, l) /\ l \in LeqLits
             /\ \A i \in DOMAIN s.trace : /\ ~ Weaker(s.trace[i], l)
                                          /\ ~ Crossed(s.trace[i], l) /\ ~ Crossed(l, s.trace[i])
    <2>1. PICK m : m = Len(s.trace) + 1
      OBVIOUS
    <2>2. DOMAIN t.trace = DOMAIN s.trace \cup {m} /\ t.trace[m] = l /\ m \notin DOMAIN s.trace
      <3>1. DOMAIN t.trace = 1..m /\ t.trace[m] = l
        BY <1>2, <1>5, <2>1, AppendFacts
      <3> QED
        BY <1>2, <2>1, <3>1
    <2>3. \A j \in DOMAIN t.trace :
            \E p \in DOMAIN hand2 : j \in AddedBy(t.trace, t.limits, p) /\ t.trace[j] = hand2[p]
      <3>1. m \in AddedBy(t.trace, t.limits, n + 1) /\ n + 1 \in DOMAIN hand2
        BY <1>1, <2>2
      <3> QED
        BY <1>3, <2>2, <3>1
    <2>4. \A i, j \in DOMAIN t.trace : i < j => ~Weaker(t.trace[i], t.trace[j])
      <3>1. ASSUME NEW i \in DOMAIN t.trace, NEW j \in DOMAIN t.trace, i < j
            PROVE  ~ Weaker(t.trace[i], t.trace[j])
        <4>1. i \in DOMAIN s.trace
          BY <1>2, <2>1, <2>2, <3>1
        <4>2. CASE j \in DOMAIN s.trace
          BY <1>1, <3>1, <4>1, <4>2 DEF TraceInv
        <4>3. CASE j = m
          BY <1>1, <1>5, <2>2, <4>1, <4>3
        <4> QED
          BY <2>2, <4>2, <4>3
      <3> QED
        BY <3>1
    <2>5. \A i, j \in DOMAIN t.trace : ~Crossed(t.trace[i], t.trace[j])
      <3>1. ~ Crossed(l, l)
        BY DEF Crossed
      <3> QED
        BY <1>1, <1>5, <2>2, <3>1 DEF TraceInv
    <2> QED
      BY <2>3, <2>4, <2>5 DEF TraceInv
  <1> QED
    BY <1>4, <1>5

LEMMA ExtDecisionsInv ==
    ASSUME NEW s, NEW hand, NEW n, NEW t, NEW hand2, IsExtension(s, hand, n, t, hand2),
           DecisionsInv(s, hand), NEW l, l = hand2[n + 1],
           \/ t.decisions = s.decisions /\ t.polarity = s.polarity /\ t.active = s.active
           \/ /\ t.decisions = Append(s.decisions, l) /\ l \in LeqLits
              /\ \A a \in LeqAtoms : IF a = l.atom THEN t.polarity[a] # "undef"
                                     ELSE t.polarity[a] = s.polarity[a]
              /\ \A v \in Vars : t.active[v] =
                   IF v = LeqVar[l.atom] THEN s.active[v] + 1 ELSE s.active[v]
    PROVE  DecisionsInv(t, hand2)
  <1>1. /\ n \in Nat /\ DOMAIN hand = 1..n /\ DOMAIN hand2 = 1..n + 1
        /\ \A j \in DOMAIN s.decisions : j \in DOMAIN t.decisions /\ t.decisions[j] = s.decisions[j]
        /\ \A p \in 1..n : AddedBy(t.decisions, t.decLimit, p) = AddedBy(s.decisions, s.decLimit, p)
        /\ AddedBy(t.decisions, t.decLimit, n + 1) = DOMAIN t.decisions \ DOMAIN s.decisions
    BY ExtLists
  <1>2. /\ \A j \in DOMAIN s.decisions : s.decisions[j] \in LeqLits
        /\ DOMAIN s.decisions = 1..Len(s.decisions) /\ Len(s.decisions) \in Nat
        /\ s.decisions \in Seq(LeqLits)
    <2>1. ShapeInv(s, n)
      BY DEF IsExtension
    <2>2. Layered(s.decisions, s.decLimit, n)
      BY <1>1, <2>1, ShapeFacts
    <2>3. s.decisions \in Seq(LeqLits)
      BY <2>2 DEF Layered
    <2> QED
      BY <1>1, <2>1, <2>3, ShapeFacts
  <1>3. ASSUME NEW j \in DOMAIN s.decisions
        PROVE  /\ \E p \in DOMAIN hand2 :
                 j \in AddedBy(t.decisions, t.decLimit, p) /\ t.decisions[j] = hand2[p]
               /\ s.decisions[j].atom # l.atom
    <2>1. PICK p \in 1..n : j \in AddedBy(s.decisions, s.decLimit, p) /\ s.decisions[j] = hand[p]
      BY <1>1, <1>3 DEF DecisionsInv
    <2>2. hand2[p] = hand[p] /\ p \in 1..n + 1
      BY <1>1, ExtTaken
    <2>3. hand[p].atom # l.atom
      BY DEF IsExtension
    <2> QED
      BY <1>1, <2>1, <2>2, <2>3
  <1>4. CASE t.decisions = s.decisions /\ t.polarity = s.polarity /\ t.active = s.active
    BY <1>3, <1>4 DEF DecisionsInv
  <1>5. CASE /\ t.decisions = Append(s.decisions, l) /\ l \in LeqLits
             /\ \A a \in LeqAtoms : IF a = l.atom THEN t.polarity[a] # "undef"
                                    ELSE t.polarity[a] = s.polarity[a]
             /\ \A v \in Vars : t.active[v] =
                  IF v = LeqVar[l.atom] THEN s.active[v] + 1 ELSE s.active[v]
    <2>1. PICK m : m = Len(s.decisions) + 1
      OBVIOUS
    <2>2. DOMAIN t.decisions = DOMAIN s.decisions \cup {m} /\ t.decisions[m] = l /\ m \notin DOMAIN s.decisions
      <3>1. DOMAIN t.decisions = 1..m /\ t.decisions[m] = l
        BY <1>2, <1>5, <2>1, AppendFacts
      <3> QED
        BY <1>2, <2>1, <3>1
    <2>3. \A j \in DOMAIN t.decisions :
            \E p \in DOMAIN hand2 : j \in AddedBy(t.decisions, t.decLimit, p) /\ t.decisions[j] = hand2[p]
      <3>1. m \in AddedBy(t.decisions, t.decLimit, n + 1) /\ n + 1 \in DOMAIN hand2
        BY <1>1, <2>2
      <3> QED
        BY <1>3, <2>2, <3>1
    <2>4. \A i, j \in DOMAIN t.decisions : t.decisions[i].atom = t.decisions[j].atom => i = j
      BY <1>1, <1>3, <2>2 DEF DecisionsInv
    <2>5. ASSUME NEW a \in LeqAtoms
          PROVE  t.polarity[a] # "undef" <=> \E j \in DOMAIN t.decisions : t.decisions[j].atom = a
      <3>1. s.polarity[a] # "undef" <=> \E j \in DOMAIN s.decisions : s.decisions[j].atom = a
        BY DEF DecisionsInv
      <3>2. CASE a = l.atom
        BY <1>5, <2>2, <3>2
      <3>3. CASE a # l.atom
        BY <1>1, <1>5, <2>2, <3>1, <3>3
      <3> QED
        BY <3>2, <3>3
    <2>6. ASSUME NEW v \in Vars
          PROVE  t.active[v] = Cardinality(About(t.decisions, v))
      <3>1. PICK A : A = About(s.decisions, v)
        OBVIOUS
      <3>2. IsFiniteSet(A) /\ m \notin A /\ Cardinality(A) \in Nat
        <4>1. IsFiniteSet(1..Len(s.decisions)) /\ A \in SUBSET (1..Len(s.decisions))
          BY <1>2, <3>1, FS_Interval DEF About
        <4>2. m \notin A
          BY <1>2, <2>1, <4>1
        <4> QED
          BY <4>1, <4>2, FS_Subset, FS_CardinalityType
      <3>3. s.active[v] = Cardinality(A)
        BY <3>1 DEF DecisionsInv, About
      <3>4. CASE v = LeqVar[l.atom]
        <4>1. About(t.decisions, v) = A \cup {m}
          BY <1>1, <2>2, <3>1, <3>4 DEF About
        <4>2. Cardinality(A \cup {m}) = Cardinality(A) + 1
          BY <3>2, FS_AddElement
        <4>3. t.active[v] = s.active[v] + 1
          BY <1>5, <3>4
        <4> QED
          BY <3>3, <4>1, <4>2, <4>3
      <3>5. CASE v # LeqVar[l.atom]
        <4>1. About(t.decisions, v) = A
          BY <1>1, <2>2, <3>1, <3>5 DEF About
        <4>2. t.active[v] = s.active[v]
          BY <1>5, <3>5
        <4> QED
          BY <3>3, <4>1, <4>2
      <3> QED
        BY <3>4, <3>5
    <2> QED
      BY <2>3, <2>4, <2>5, <2>6 DEF DecisionsInv, About
  <1> QED
    BY <1>4, <1>5

LEMMA ExtDeductionsInv ==
    ASSUME NEW s, NEW hand, NEW n, NEW t, NEW hand2, IsExtension(s, hand, n, t, hand2),
           DeductionsInv(s, hand),
           \A j \in DOMAIN t.dedList \ DOMAIN s.dedList :
             /\ Weaker(hand2[n + 1], t.dedList[j]) /\ TakenAt(t, hand2, n + 1)
             /\ \A i \in DOMAIN t.dedList : t.dedList[i].atom = t.dedList[j].atom => i = j
    PROVE  DeductionsInv(t, hand2)
  <1>1. /\ n \in Nat /\ DOMAIN hand = 1..n /\ DOMAIN hand2 = 1..n + 1 /\ n + 1 \in 1..n + 1
        /\ \A j \in DOMAIN s.dedList : j \in DOMAIN t.dedList /\ t.dedList[j] = s.dedList[j]
        /\ \A p \in 1..n : AddedBy(t.dedList, t.dedLim, p) = AddedBy(s.dedList, s.dedLim, p)
        /\ AddedBy(t.dedList, t.dedLim, n + 1) = DOMAIN t.dedList \ DOMAIN s.dedList
    BY ExtLists
  <1>2. ASSUME NEW j \in DOMAIN t.dedList
        PROVE  \E p \in DOMAIN hand2 : /\ j \in AddedBy(t.dedList, t.dedLim, p)
                              /\ Weaker(hand2[p], t.dedList[j]) /\ TakenAt(t, hand2, p)
    <2>1. CASE j \in DOMAIN s.dedList
      <3>1. PICK p \in 1..n : /\ j \in AddedBy(s.dedList, s.dedLim, p)
                              /\ Weaker(hand[p], s.dedList[j]) /\ TakenAt(s, hand, p)
        BY <1>1, <2>1 DEF DeductionsInv
      <3>2. hand2[p] = hand[p] /\ TakenAt(t, hand2, p) /\ p \in 1..n + 1
        BY <1>1, <3>1, ExtTaken
      <3> QED
        BY <1>1, <2>1, <3>1, <3>2
    <2>2. CASE j \notin DOMAIN s.dedList
      BY <1>1, <2>2
    <2> QED
      BY <2>1, <2>2
  <1>3. ASSUME NEW i \in DOMAIN t.dedList, NEW j \in DOMAIN t.dedList,
               t.dedList[i].atom = t.dedList[j].atom
        PROVE  i = j
    <2>1. CASE i \in DOMAIN s.dedList /\ j \in DOMAIN s.dedList
      BY <1>1, <1>3, <2>1 DEF DeductionsInv
    <2>2. CASE i \notin DOMAIN s.dedList
      <3>1. t.dedList[j].atom = t.dedList[i].atom
        BY <1>3
      <3> QED
        BY <2>2, <3>1
    <2>3. CASE j \notin DOMAIN s.dedList
      BY <1>3, <2>3
    <2> QED
      BY <2>1, <2>2, <2>3
  <1> QED
    BY <1>2, <1>3 DEF DeductionsInv

LEMMA ExtHandInv ==
    ASSUME NEW s, NEW hand, NEW n, NEW t, NEW hand2, IsExtension(s, hand, n, t, hand2),
           Settled(s, hand)
    PROVE  /\ SettledAt(t, hand2, n + 1) => Settled(t, hand2)
           /\ SettledAt(t, hand2, n + 1) \/ boundUnsatisfied(t, hand2[n + 1]) => HandInv(t, hand2)
  <1>1. n \in Nat /\ DOMAIN hand = 1..n /\ DOMAIN hand2 = 1..n + 1 /\ Len(hand2) = n + 1
    BY DEF IsExtension
  <1>2. ASSUME NEW p \in 1..n
        PROVE  SettledAt(t, hand2, p)
    <2>1. SettledAt(s, hand, p)
      BY <1>1 DEF Settled
    <2> QED
      BY <2>1, ExtTaken DEF SettledAt
  <1>3. \A p \in DOMAIN hand2 : p \in 1..n \/ p = n + 1
    BY <1>1
  <1> QED
    BY <1>1, <1>2, <1>3 DEF Settled, HandInv

LEMMA ExtCompleteInv ==
    ASSUME NEW s, NEW hand, NEW n, NEW t, NEW hand2, IsExtension(s, hand, n, t, hand2),
           CompleteInv(s, hand),
           \A m \in [atom : LeqAtoms \ UNION Splits, sgn : BOOLEAN] :
             /\ TakenAt(t, hand2, n + 1) \/ PassedOver(t, hand2, n + 1)
             /\ Weaker(hand2[n + 1], m)
             => \/ \E q \in 1..n + 1 : hand2[q].atom = m.atom
                \/ \E j \in DOMAIN t.dedList : t.dedList[j] = m
    PROVE  CompleteInv(t, hand2)
  <1>1. /\ n \in Nat /\ DOMAIN hand = 1..n /\ DOMAIN hand2 = 1..n + 1
    BY DEF IsExtension
  <1>2. SUFFICES ASSUME NEW p \in DOMAIN hand2,
                        NEW m \in [atom : LeqAtoms \ UNION Splits, sgn : BOOLEAN],
                        TakenAt(t, hand2, p) \/ PassedOver(t, hand2, p), Weaker(hand2[p], m)
                 PROVE  \/ \E q \in 1..p : hand2[q].atom = m.atom
                        \/ \E j \in 1..End(t.dedList, t.dedLim, p) : t.dedList[j] = m
    BY DEF CompleteInv
  <1>3. CASE p \in 1..n
    <2>1. /\ hand2[p] = hand[p]
          /\ TakenAt(s, hand, p) \/ PassedOver(s, hand, p)
      BY <1>2, <1>3, ExtTaken
    <2>2. \/ \E q \in 1..p : hand[q].atom = m.atom
          \/ \E j \in 1..End(s.dedList, s.dedLim, p) : s.dedList[j] = m
      BY <1>1, <1>2, <1>3, <2>1 DEF CompleteInv
    <2>3. \A q \in 1..p : hand2[q] = hand[q]
      BY <1>1, <1>3 DEF IsExtension, SameHand
    <2>4. /\ \A j \in 1..End(s.dedList, s.dedLim, p) : t.dedList[j] = s.dedList[j]
          /\ End(t.dedList, t.dedLim, p) = End(s.dedList, s.dedLim, p)
      <3>1. n + 1 \in Nat /\ n <= n /\ n <= n + 1
        BY <1>1
      <3>2. /\ Layered(s.dedList, s.dedLim, n) /\ Layered(t.dedList, t.dedLim, n + 1)
            /\ SameLayers(s.dedList, s.dedLim, t.dedList, t.dedLim, n)
        BY DEF IsExtension, ShapeInv, Agree
      <3> QED
        BY <1>1, <1>3, <3>1, <3>2, SameAdded
    <2> QED
      BY <2>2, <2>3, <2>4
  <1>4. CASE p = n + 1
    <2>1. DOMAIN t.dedList = 1..End(t.dedList, t.dedLim, n + 1)
      <3>1. n + 1 \in Nat
        BY <1>1
      <3>2. Layered(t.dedList, t.dedLim, n + 1)
        BY DEF IsExtension, ShapeInv
      <3> QED
        BY <3>1, <3>2, LayerFacts
    <2> QED
      BY <1>2, <1>4, <2>1
  <1> QED
    BY <1>1, <1>3, <1>4

\* A literal that leaves no trace: not the solver's, deduced before, or refused.
LEMMA QuietExtension ==
    ASSUME NEW s, NEW hand, NEW n, NEW t, NEW hand2, IsExtension(s, hand, n, t, hand2),
           SolverInv(s, hand), Settled(s, hand),
           t.trace = s.trace, t.decisions = s.decisions, t.dedList = s.dedList,
           t.polarity = s.polarity, t.active = s.active,
           NEW l, l = hand2[n + 1]
    PROVE  /\ l.atom \notin LeqAtoms \/ (\E j \in DOMAIN s.dedList : s.dedList[j] = l)
                => SolverInv(t, hand2) /\ Settled(t, hand2)
           /\ boundUnsatisfied(t, l) => SolverInv(t, hand2)
  <1>1. /\ TraceInv(s, hand) /\ DecisionsInv(s, hand) /\ HandInv(s, hand)
        /\ DeductionsInv(s, hand) /\ CompleteInv(s, hand)
    BY DEF SolverInv
  <1>2. /\ n \in Nat /\ DOMAIN hand = 1..n /\ DOMAIN hand2 = 1..n + 1 /\ ShapeInv(t, Len(hand2))
        /\ ShapeInv(s, n) /\ ShapeInv(t, n + 1)
    BY DEF IsExtension
  <1>3. TraceInv(t, hand2)
    BY <1>1, ExtTraceInv
  <1>4. DecisionsInv(t, hand2)
    BY <1>1, ExtDecisionsInv
  <1>5. DeductionsInv(t, hand2)
    <2>1. DOMAIN t.dedList \ DOMAIN s.dedList = {}
      OBVIOUS
    <2> QED
      BY <1>1, <2>1, ExtDeductionsInv
  <1>6. ~ TakenAt(t, hand2, n + 1)
    <2>1. AddedBy(t.decisions, t.decLimit, n + 1) = DOMAIN t.decisions \ DOMAIN s.decisions
      BY ExtLists
    <2> QED
      BY <2>1 DEF TakenAt
  <1>7. /\ DOMAIN s.dedList = 1..End(t.dedList, t.dedLim, n)
        /\ \A j \in DOMAIN s.dedList : s.dedList[j] \in LeqLits
    <2>1. /\ Layered(s.dedList, s.dedLim, n) /\ Layered(t.dedList, t.dedLim, n + 1)
          /\ SameLayers(s.dedList, s.dedLim, t.dedList, t.dedLim, n)
      BY DEF IsExtension, ShapeInv, Agree
    <2>2. DOMAIN s.dedList = 1..Len(s.dedList) /\ End(t.dedList, t.dedLim, n) = Len(s.dedList)
      BY <1>2, <2>1, ExtList
    <2>3. \A j \in 1..Len(s.dedList) : s.dedList[j] \in LeqLits
      BY <1>2, <2>1, LayerFacts
    <2> QED
      BY <2>2, <2>3
  <1>8. PassedOver(t, hand2, n + 1) <=> \E j \in DOMAIN s.dedList : s.dedList[j] = l
    <2>2. PassedOver(t, hand2, n + 1) <=>
            \E j \in 1..End(t.dedList, t.dedLim, n) : t.dedList[j] = hand2[n + 1]
      <3>1. PICK q : q = n + 1
        OBVIOUS
      <3>2. q - 1 = n
        BY <1>2, <3>1
      <3>3. PassedOver(t, hand2, q) <=>
              \E j \in 1..End(t.dedList, t.dedLim, n) : t.dedList[j] = hand2[q]
        BY <3>2, Zenon DEF PassedOver
      <3> QED
        BY <3>1, <3>3
    <2> QED
      BY <1>7, <2>2
  <1>9. CompleteInv(t, hand2)
    <2>1. ASSUME NEW m \in [atom : LeqAtoms \ UNION Splits, sgn : BOOLEAN],
                 TakenAt(t, hand2, n + 1) \/ PassedOver(t, hand2, n + 1), Weaker(l, m)
          PROVE  \/ \E q \in 1..n + 1 : hand2[q].atom = m.atom
                 \/ \E j \in DOMAIN t.dedList : t.dedList[j] = m
      <3>1. PICK j \in DOMAIN s.dedList : s.dedList[j] = l
        BY <1>6, <1>8, <2>1
      <3>2. PICK p \in 1..n : Weaker(hand[p], l) /\ TakenAt(s, hand, p)
        BY <1>1, <1>2, <3>1 DEF DeductionsInv
      <3>3. hand[p] \in LeqLits
        BY <1>1, <1>2, <3>2, BoundWitness
      <3>4. m \in LeqLits /\ l \in LeqLits
        BY <1>7, <3>1 DEF LeqLits
      <3>5. Weaker(hand[p], m)
        BY <2>1, <3>2, <3>3, <3>4, WeakerFacts
      <3>6. \/ \E q \in 1..p : hand[q].atom = m.atom
            \/ \E i \in 1..End(s.dedList, s.dedLim, p) : s.dedList[i] = m
        BY <1>1, <1>2, <3>2, <3>5 DEF CompleteInv
      <3>7. \A q \in 1..p : hand2[q] = hand[q] /\ q \in 1..n + 1
        BY <1>2 DEF IsExtension, SameHand
      <3>8. 1..End(s.dedList, s.dedLim, p) \subseteq DOMAIN t.dedList
        <4>1. p \in 0..n
          OBVIOUS
        <4>2. /\ End(s.dedList, s.dedLim, p) \in 0..Len(s.dedList) /\ Len(s.dedList) \in Nat
              /\ DOMAIN s.dedList = 1..Len(s.dedList)
          <5>1. Layered(s.dedList, s.dedLim, n)
            BY <1>2 DEF ShapeInv
          <5> QED
            BY <1>2, <4>1, <5>1, LayerFacts
        <4> QED
          BY <4>2
      <3> QED
        BY <3>6, <3>7, <3>8
    <2> QED
      BY <1>1, <2>1, ExtCompleteInv
  <1>10. l.atom \notin LeqAtoms \/ (\E j \in DOMAIN s.dedList : s.dedList[j] = l)
           => SettledAt(t, hand2, n + 1)
    BY <1>8 DEF SettledAt
  <1>11. /\ SettledAt(t, hand2, n + 1) => Settled(t, hand2)
         /\ SettledAt(t, hand2, n + 1) \/ boundUnsatisfied(t, l) => HandInv(t, hand2)
    BY ExtHandInv
  <1> QED
    BY <1>2, <1>3, <1>4, <1>5, <1>9, <1>10, <1>11 DEF SolverInv

-----------------------------------------------------------------------------
(* The deductions of a bound, in their order.                              *)

LEMMA LeqLitsFinite ==
    IsFiniteSet(LeqLits)
  <1>1. IsFiniteSet(LeqAtoms)
    <2>1. LeqAtoms \in SUBSET Atoms /\ IsFiniteSet(Atoms)
      BY AtomsAssumption
    <2> QED
      BY <2>1, FS_Subset
  <1>2. ASSUME NEW b \in BOOLEAN
        PROVE  IsFiniteSet({m \in LeqLits : m.sgn = b})
    <2> DEFINE T == {m \in LeqLits : m.sgn = b}
               f == [a \in LeqAtoms |-> [atom |-> a, sgn |-> b]]
    <2>1. f \in [LeqAtoms -> T]
      BY DEF LeqLits
    <2>2. \A m \in T : \E a \in LeqAtoms : f[a] = m
      BY ValueFacts
    <2>3. f \in Surjection(LeqAtoms, T)
      BY <2>1, <2>2, Fun_IsSurj
    <2> QED
      BY <1>1, <2>3, FS_Surjection
  <1>3. LeqLits = {m \in LeqLits : m.sgn = TRUE} \cup {m \in LeqLits : m.sgn = FALSE}
    BY ValueFacts
  <1>4. IsFiniteSet({m \in LeqLits : m.sgn = TRUE}) /\ IsFiniteSet({m \in LeqLits : m.sgn = FALSE})
    BY <1>2
  <1>5. IsFiniteSet({m \in LeqLits : m.sgn = TRUE} \cup {m \in LeqLits : m.sgn = FALSE})
    BY <1>4, FS_Union
  <1> QED
    BY <1>3, <1>5, Zenon

LEMMA NearestFirstFacts ==
    ASSUME NEW S \in SUBSET LeqLits, NEW lower \in BOOLEAN
    PROVE  \E N \in Nat : /\ NearestFirst(S, lower) \in [1..N -> S]
                          /\ \A m \in S : \E i \in 1..N : NearestFirst(S, lower)[i] = m
                          /\ \A i, j \in 1..N : NearestFirst(S, lower)[i] = NearestFirst(S, lower)[j] => i = j
  <1>1. IsFiniteSet(S)
    BY LeqLitsFinite, FS_Subset
  <1>2. PICK N : N = Cardinality(S)
    OBVIOUS
  <1>3. N \in Nat /\ ExistsBijection(1..N, S)
    BY <1>1, <1>2, FS_CardinalityType
  <1>4. PICK b \in Bijection(1..N, S) : TRUE
    BY <1>3 DEF ExistsBijection
  <1>5. \A m \in S : \E i \in 1..N : b[i] = m
    BY <1>4 DEF Bijection, Surjection
  <1> DEFINE num == [m \in S |-> CHOOSE i \in 1..N : b[i] = m]
             key == [m \in S |-> IF lower THEN -Value(m) ELSE Value(m)]
             R == {q \in S \X S : \/ key[q[1]] < key[q[2]]
                                  \/ key[q[1]] = key[q[2]] /\ num[q[1]] < num[q[2]]}
  <1>6. \A m \in S : num[m] \in 1..N /\ b[num[m]] = m
    BY <1>5
  <1>7. \A m \in S : key[m] \in Int /\ Value(m) \in Int
    BY ValueFacts
  <1>8. \A x, y \in S : <<x, y>> \in R <=> \/ key[x] < key[y]
                                           \/ key[x] = key[y] /\ num[x] < num[y]
    OBVIOUS
  <1>9. \A x \in S : num[x] \in Int
    BY <1>3, <1>6
  <1>10. \A x, y \in S : num[x] = num[y] => x = y
    BY <1>6
  <1>11. \A x \in S : key[x] = IF lower THEN -Value(x) ELSE Value(x)
    OBVIOUS
  <1> HIDE DEF num, key, R
  <1>12. \A x \in S : <<x, x>> \notin R
    BY <1>7, <1>8, <1>9
  <1>13. \A x, y, z \in S : <<x, y>> \in R /\ <<y, z>> \in R => <<x, z>> \in R
    <2>1. TAKE x, y, z \in S
    <2>2. key[x] \in Int /\ key[y] \in Int /\ key[z] \in Int /\ num[x] \in Int /\ num[y] \in Int /\ num[z] \in Int
      BY <1>7, <1>9
    <2> QED
      BY <1>8, <2>2
  <1>14. \A x, y \in S : x = y \/ <<x, y>> \in R \/ <<y, x>> \in R
    <2>1. TAKE x, y \in S
    <2>2. key[x] \in Int /\ key[y] \in Int /\ num[x] \in Int /\ num[y] \in Int
      BY <1>7, <1>9
    <2>3. num[x] = num[y] => x = y
      BY <1>10
    <2> QED
      BY <1>8, <2>2, <2>3
  <1>15. PICK f \in [1..N -> S] : /\ \A x \in S : \E i \in 1..N : f[i] = x
                                  /\ \A i, j \in 1..N : i < j => <<f[i], f[j]>> \in R
    BY <1>1, <1>2, <1>12, <1>13, <1>14, OrderedListing
  <1> DEFINE Listed(ms) ==
        /\ Range(ms) = S
        /\ \A i, j \in DOMAIN ms :
             i < j => IF lower THEN Value(ms[i]) >= Value(ms[j]) ELSE Value(ms[i]) <= Value(ms[j])
  <1>16. Listed(f)
    <2>1. Range(f) = S /\ DOMAIN f = 1..N
      BY <1>15 DEF Range
    <2>2. ASSUME NEW i \in 1..N, NEW j \in 1..N, i < j
          PROVE  IF lower THEN Value(f[i]) >= Value(f[j]) ELSE Value(f[i]) <= Value(f[j])
      <3>1. f[i] \in S /\ f[j] \in S /\ <<f[i], f[j]>> \in R
        BY <1>15, <2>2
      <3>2. key[f[i]] <= key[f[j]]
        <4>1. key[f[i]] \in Int /\ key[f[j]] \in Int
          BY <1>7, <3>1
        <4> QED
          BY <1>8, <3>1, <4>1
      <3>3. Value(f[i]) \in Int /\ Value(f[j]) \in Int
        BY <1>7, <3>1
      <3> QED
        BY <1>11, <3>1, <3>2, <3>3
    <2> QED
      BY <2>1, <2>2
  <1>17. PICK ms : ms = NearestFirst(S, lower)
    OBVIOUS
  <1>18. ms \in [1..N -> S] /\ Listed(ms)
    <2>1. ms = CHOOSE u \in [1..N -> S] : Listed(u)
      BY <1>2, <1>17 DEF NearestFirst
    <2> HIDE DEF Listed
    <2> QED
      BY <1>15, <1>16, <2>1
  <1>19. \A m \in S : \E i \in 1..N : ms[i] = m
    BY <1>18 DEF Range
  <1>20. ms \in Surjection(1..N, S)
    BY <1>18, <1>19, Fun_IsSurj
  <1>21. ms \in Injection(1..N, S)
    <2>1. IsFiniteSet(1..N) /\ Cardinality(1..N) = N
      BY <1>3, FS_Interval
    <2> QED
      BY <1>2, <1>20, <2>1, FS_SurjSameCardinalityImpliesInj
  <1>22. \A i, j \in 1..N : ms[i] = ms[j] => i = j
    BY <1>21, Fun_IsInj DEF Injection, IsInjective
  <1> QED
    BY <1>3, <1>17, <1>18, <1>19, <1>22

-----------------------------------------------------------------------------
(* LASolver::assertLit at a new point.                                     *)

Longer(list, list2) ==
    list2 \in Seq(LeqLits) /\ Len(list2) >= Len(list) /\ \A j \in 1..Len(list) : list2[j] = list[j]

LEMMA LongerLayer ==
    ASSUME NEW list, NEW lim, NEW n \in Nat, Layered(list, lim, n),
           NEW list2, Longer(list, list2), NEW lim2, lim2 = Append(lim, Len(list))
    PROVE  /\ Layered(list2, lim2, n + 1)
           /\ SameLayers(list, lim, list2, lim2, n)
  BY PushLayer DEF Longer

Grown(s, t) ==
    /\ DOMAIN t = DOMAIN EmptyLA
    /\ t.limits = Append(s.limits, Len(s.trace)) /\ Longer(s.trace, t.trace)
    /\ t.decLimit = Append(s.decLimit, Len(s.decisions)) /\ Longer(s.decisions, t.decisions)
    /\ t.dedLim = Append(s.dedLim, Len(s.dedList)) /\ Longer(s.dedList, t.dedList)
    /\ t.dedLast = Append(s.dedLast, s.dedNext) /\ t.dedNext = s.dedNext
    /\ t.polarity \in [LeqAtoms -> {"undef", "true", "false"}] /\ t.active \in [Vars -> Int]

LEMMA GrownFacts ==
    ASSUME NEW s, NEW n \in Nat, ShapeInv(s, n), NEW t, Grown(s, t)
    PROVE  ShapeInv(t, n + 1) /\ Agree(s, t, n)
  <1>1. /\ Layered(s.trace, s.limits, n) /\ Layered(s.decisions, s.decLimit, n)
        /\ Layered(s.dedList, s.dedLim, n)
        /\ s.dedLast \in Seq(Nat) /\ Len(s.dedLast) = n /\ s.dedNext \in Nat
    BY DEF ShapeInv
  <1>2. /\ Layered(t.trace, t.limits, n + 1)
        /\ SameLayers(s.trace, s.limits, t.trace, t.limits, n)
    BY <1>1, LongerLayer DEF Grown
  <1>3. /\ Layered(t.decisions, t.decLimit, n + 1)
        /\ SameLayers(s.decisions, s.decLimit, t.decisions, t.decLimit, n)
    BY <1>1, LongerLayer DEF Grown
  <1>4. /\ Layered(t.dedList, t.dedLim, n + 1)
        /\ SameLayers(s.dedList, s.dedLim, t.dedList, t.dedLim, n)
    BY <1>1, LongerLayer DEF Grown
  <1>5. t.dedLast \in Seq(Nat) /\ Len(t.dedLast) = n + 1 /\ t.dedNext \in Nat
    BY <1>1, AppendFacts DEF Grown
  <1> QED
    BY <1>2, <1>3, <1>4, <1>5 DEF ShapeInv, Agree, Grown

\* The point, and the first bound's making of the solver's arrays.
Opened(s, u) ==
    /\ DOMAIN u = DOMAIN EmptyLA
    /\ u.limits = Append(s.limits, Len(s.trace)) /\ u.trace = s.trace
    /\ u.decLimit = Append(s.decLimit, Len(s.decisions)) /\ u.decisions = s.decisions
    /\ u.dedLim = Append(s.dedLim, Len(s.dedList)) /\ u.dedList = s.dedList
    /\ u.dedLast = Append(s.dedLast, s.dedNext) /\ u.dedNext = s.dedNext
    /\ u.polarity = s.polarity /\ u.active = s.active

LEMMA OpenedFacts ==
    ASSUME NEW s, NEW n \in Nat, ShapeInv(s, n)
    PROVE  /\ Opened(s, pushBacktrackPoint(s))
           /\ pushBacktrackPoint(s).status = s.status /\ pushBacktrackPoint(s).built = s.built
           /\ pushBacktrackPoint(s).explanation = s.explanation
           /\ Opened(s, Initialized(pushBacktrackPoint(s)))
           /\ Initialized(pushBacktrackPoint(s)).status = IF s.status = "INIT" THEN "SAT" ELSE s.status
           /\ Initialized(pushBacktrackPoint(s)).built = IF s.status = "INIT" THEN TRUE ELSE s.built
  <1>1. DOMAIN s = DOMAIN EmptyLA
    BY DEF ShapeInv
  <1>2. PICK u : u = pushBacktrackPoint(s)
    OBVIOUS
  <1>3. DOMAIN u = DOMAIN EmptyLA
    BY <1>1, <1>2 DEF pushBacktrackPoint
  <1>4. /\ u.limits = Append(s.limits, Len(s.trace)) /\ u.trace = s.trace
        /\ u.decLimit = Append(s.decLimit, Len(s.decisions)) /\ u.decisions = s.decisions
        /\ u.dedLim = Append(s.dedLim, Len(s.dedList)) /\ u.dedList = s.dedList
    BY <1>1, <1>2 DEF pushBacktrackPoint, EmptyLA
  <1>5. /\ u.dedLast = Append(s.dedLast, s.dedNext) /\ u.dedNext = s.dedNext
        /\ u.polarity = s.polarity /\ u.active = s.active
        /\ u.status = s.status /\ u.built = s.built /\ u.explanation = s.explanation
    BY <1>1, <1>2 DEF pushBacktrackPoint, EmptyLA
  <1>6. Opened(s, u)
    BY <1>3, <1>4, <1>5 DEF Opened
  <1>7. PICK w : w = Initialized(u)
    OBVIOUS
  <1>8. w = IF u.status = "INIT" THEN [u EXCEPT !.status = "SAT", !.built = TRUE] ELSE u
    BY <1>7 DEF Initialized
  <1>9. /\ DOMAIN w = DOMAIN u
        /\ w.limits = u.limits /\ w.trace = u.trace /\ w.decLimit = u.decLimit
        /\ w.decisions = u.decisions /\ w.dedLim = u.dedLim /\ w.dedList = u.dedList
    BY <1>3, <1>8 DEF EmptyLA
  <1>10. /\ w.dedLast = u.dedLast /\ w.dedNext = u.dedNext
         /\ w.polarity = u.polarity /\ w.active = u.active
    BY <1>3, <1>8 DEF EmptyLA
  <1>11. /\ w.status = IF u.status = "INIT" THEN "SAT" ELSE u.status
         /\ w.built = IF u.status = "INIT" THEN TRUE ELSE u.built
    BY <1>3, <1>8 DEF EmptyLA
  <1>12. Opened(s, w)
    BY <1>3, <1>4, <1>5, <1>9, <1>10 DEF Opened
  <1> QED
    BY <1>2, <1>5, <1>6, <1>7, <1>11, <1>12

LEMMA OpenedGrown ==
    ASSUME NEW s, NEW n \in Nat, ShapeInv(s, n), NEW u, Opened(s, u)
    PROVE  Grown(s, u)
  <1>1. \A list, lim : Layered(list, lim, n) => Longer(list, list)
    BY SeqFacts DEF Layered, Longer
  <1> QED
    BY <1>1 DEF Opened, Grown, ShapeInv

\* The table of deductions tells whether the solver deduced a literal.
LEMMA OwnDeductionIff ==
    ASSUME NEW s, NEW n \in Nat, ShapeInv(s, n), NEW hand, DeductionsInv(s, hand),
           NEW d, TableInv(s.dedList, d), NEW l \in LeqLits
    PROVE  /\ OwnDeduction(d, l) <=> \E j \in DOMAIN s.dedList : s.dedList[j] = l
           /\ d[l.atom] = Undef <=> ~ \E j \in DOMAIN s.dedList : s.dedList[j].atom = l.atom
  <1>1. l.atom \in Atoms /\ l = [atom |-> l.atom, sgn |-> l.sgn]
    BY ValueFacts, AtomsAssumption
  <1>2. \A j \in DOMAIN s.dedList : s.dedList[j] \in LeqLits
    BY ShapeFacts
  <1>3. \A j \in DOMAIN s.dedList : s.dedList[j] = [atom |-> s.dedList[j].atom, sgn |-> s.dedList[j].sgn]
    BY <1>2, ValueFacts
  <1>4. ASSUME NEW x
        PROVE  [by |-> "la", sgn |-> x] # Undef
    BY DEF Undef
  <1>5. CASE ~ \E j \in DOMAIN s.dedList : s.dedList[j].atom = l.atom
    <2>1. d[l.atom] = Undef
      BY <1>1, <1>5 DEF TableInv
    <2>2. ~ OwnDeduction(d, l)
      BY <1>4, <2>1 DEF OwnDeduction
    <2> QED
      BY <1>5, <2>1, <2>2
  <1>6. CASE \E j \in DOMAIN s.dedList : s.dedList[j].atom = l.atom
    <2>1. PICK j \in DOMAIN s.dedList : /\ s.dedList[j].atom = l.atom
                                        /\ d[l.atom] = [by |-> "la", sgn |-> s.dedList[j].sgn]
      BY <1>1, <1>6 DEF TableInv
    <2>2. d[l.atom] # Undef
      BY <1>4, <2>1
    <2>3. \A i \in DOMAIN s.dedList : s.dedList[i].atom = l.atom => i = j
      BY <2>1 DEF DeductionsInv
    <2>4. OwnDeduction(d, l) <=> s.dedList[j].sgn = l.sgn
      BY <2>1 DEF OwnDeduction
    <2>5. s.dedList[j].sgn = l.sgn <=> s.dedList[j] = l
      BY <1>1, <1>3, <2>1
    <2> QED
      BY <1>6, <2>2, <2>3, <2>4, <2>5
  <1> QED
    BY <1>5, <1>6

\* What a step of the handler starts from: l is new to a solver without conflict.
Ready(s, hand, n, d, l, hand2) ==
    /\ n \in Nat /\ DOMAIN hand = 1..n /\ Len(hand) = n
    /\ DOMAIN hand2 = 1..n + 1 /\ Len(hand2) = n + 1 /\ SameHand(hand, hand2, n) /\ hand2[n + 1] = l
    /\ \A p \in 1..n : hand[p].atom # l.atom
    /\ SolverInv(s, hand) /\ Settled(s, hand) /\ TableInv(s.dedList, d)
    /\ known \subseteq LeqAtoms /\ LeqAtoms \ UNION Splits \subseteq known

LEMMA ReadyExtension ==
    ASSUME NEW s, NEW hand, NEW n, NEW d, NEW l, NEW hand2, Ready(s, hand, n, d, l, hand2),
           NEW t, Grown(s, t)
    PROVE  IsExtension(s, hand, n, t, hand2)
  <1>1. ShapeInv(s, n) /\ n \in Nat
    BY DEF Ready, SolverInv
  <1>2. ShapeInv(t, n + 1) /\ Agree(s, t, n)
    BY <1>1, GrownFacts
  <1> QED
    BY <1>1, <1>2 DEF Ready, IsExtension

\* A foreign atom: only the point.
LEMMA PushForeign ==
    ASSUME NEW s, NEW hand, NEW n, NEW d, NEW l, NEW hand2, Ready(s, hand, n, d, l, hand2),
           l.atom \notin LeqAtoms, NEW t, t = pushBacktrackPoint(s)
    PROVE  /\ SolverInv(t, hand2) /\ Settled(t, hand2) /\ Agree(s, t, n)
           /\ t.dedList = s.dedList /\ t.status = s.status /\ t.built = s.built
  <1>1. SolverInv(s, hand) /\ Settled(s, hand) /\ ShapeInv(s, n) /\ n \in Nat /\ l = hand2[n + 1]
    BY DEF Ready, SolverInv
  <1>2. Opened(s, t) /\ t.status = s.status /\ t.built = s.built
    BY <1>1, OpenedFacts
  <1>3. Grown(s, t)
    BY <1>1, <1>2, OpenedGrown
  <1>4. IsExtension(s, hand, n, t, hand2)
    BY <1>3, ReadyExtension
  <1>5. /\ t.trace = s.trace /\ t.decisions = s.decisions /\ t.dedList = s.dedList
        /\ t.polarity = s.polarity /\ t.active = s.active
    BY <1>2 DEF Opened
  <1>6. SolverInv(t, hand2) /\ Settled(t, hand2)
    BY <1>1, <1>4, <1>5, QuietExtension
  <1>7. Agree(s, t, n)
    BY <1>4 DEF IsExtension
  <1> QED
    BY <1>2, <1>5, <1>6, <1>7

\* A literal the solver deduced itself: only the point.
LEMMA AssertPassed ==
    ASSUME NEW s, NEW hand, NEW n, NEW d, NEW l, NEW hand2, Ready(s, hand, n, d, l, hand2),
           l \in LeqLits, OwnDeduction(d, l), NEW t, t = Initialized(pushBacktrackPoint(s))
    PROVE  /\ SolverInv(t, hand2) /\ Settled(t, hand2) /\ Agree(s, t, n)
           /\ t.dedList = s.dedList
  <1>1. /\ SolverInv(s, hand) /\ Settled(s, hand) /\ ShapeInv(s, n) /\ n \in Nat /\ l = hand2[n + 1]
        /\ DeductionsInv(s, hand) /\ TableInv(s.dedList, d)
    BY DEF Ready, SolverInv
  <1>2. Opened(s, t)
    BY <1>1, OpenedFacts
  <1>3. Grown(s, t)
    BY <1>1, <1>2, OpenedGrown
  <1>4. IsExtension(s, hand, n, t, hand2)
    BY <1>3, ReadyExtension
  <1>5. /\ t.trace = s.trace /\ t.decisions = s.decisions /\ t.dedList = s.dedList
        /\ t.polarity = s.polarity /\ t.active = s.active
    BY <1>2 DEF Opened
  <1>6. \E j \in DOMAIN s.dedList : s.dedList[j] = l
    BY <1>1, OwnDeductionIff
  <1>7. SolverInv(t, hand2) /\ Settled(t, hand2)
    BY <1>1, <1>4, <1>5, <1>6, QuietExtension
  <1>8. Agree(s, t, n)
    BY <1>4 DEF IsExtension
  <1> QED
    BY <1>5, <1>7, <1>8

LEMMA CrossedInfeasible ==
    ASSUME NEW S, NEW a \in LeqLits, NEW b \in LeqLits, a \in S, b \in S, Crossed(a, b)
    PROVE  Infeasible(S)
  <1> DEFINE low(v) == {Value(l) : l \in {m \in S : LeqVar[m.atom] = v /\ IsLower(m)}}
             upp(v) == {Value(l) : l \in {m \in S : LeqVar[m.atom] = v /\ ~IsLower(m)}}
             w == LeqVar[a.atom]
  <1>1. w \in Vars
    BY ValueFacts
  <1>2. Value(a) \in low(w) /\ Value(b) \in upp(w) /\ Value(a) > Value(b)
    BY DEF Crossed
  <1>3. \E v \in Vars : \E x \in low(v), y \in upp(v) : x > y
    BY <1>1, <1>2
  <1> QED
    BY <1>3 DEF Infeasible

\* The bound in force that excludes a literal.
LEMMA OppositeFacts ==
    ASSUME NEW s, NEW n \in Nat, ShapeInv(s, n), NEW hand, TraceInv(s, hand),
           NEW l \in LeqLits, boundUnsatisfied(s, l)
    PROVE  \E j \in DOMAIN s.trace :
             /\ Opposite(s, l) = s.trace[j]
             /\ Crossed(l, s.trace[j]) \/ Crossed(s.trace[j], l)
  <1>1. IsLower(l) \in BOOLEAN
    BY ValueFacts
  <1>2. Bounded(s, LeqVar[l.atom], ~ IsLower(l))
    BY DEF boundUnsatisfied
  <1>3. PICK lower : lower = ~ IsLower(l) /\ lower \in BOOLEAN
    BY <1>1
  <1>4. PICK j \in Bounds(s, LeqVar[l.atom], lower) : InForce(s, LeqVar[l.atom], lower) = s.trace[j]
    <2>1. PICK v : v = LeqVar[l.atom]
      OBVIOUS
    <2>2. Bounded(s, v, lower)
      BY <1>2, <1>3, <2>1
    <2>3. \E j \in Bounds(s, v, lower) :
            /\ InForce(s, v, lower) = s.trace[j]
            /\ \A i \in Bounds(s, v, lower) : Weaker(s.trace[j], s.trace[i])
      BY <1>3, <2>2, InForceFacts
    <2> QED
      BY <2>1, <2>3
  <1>5. Opposite(s, l) = s.trace[j]
    BY <1>3, <1>4 DEF Opposite
  <1>6. /\ j \in DOMAIN s.trace /\ LeqVar[s.trace[j].atom] = LeqVar[l.atom]
        /\ IsLower(s.trace[j]) = lower
    BY <1>4 DEF Bounds
  <1>7. Value(l) \in Int /\ Value(s.trace[j]) \in Int
    <2>1. s.trace[j] \in LeqLits
      BY <1>6, LayerFacts DEF ShapeInv
    <2> QED
      BY <2>1, ValueFacts
  <1>8. CASE IsLower(l)
    <2>1. lower = FALSE
      BY <1>1, <1>3, <1>8
    <2>2. Value(l) > Value(s.trace[j])
      BY <1>4, <1>8, <2>1 DEF boundUnsatisfied, Ub
    <2> QED
      BY <1>5, <1>6, <1>8, <2>1, <2>2 DEF Crossed
  <1>9. CASE ~ IsLower(l)
    <2>1. lower = TRUE
      BY <1>1, <1>3, <1>9
    <2>2. Value(l) < Value(s.trace[j])
      BY <1>4, <1>9, <2>1 DEF boundUnsatisfied, Lb
    <2>3. Value(s.trace[j]) > Value(l)
      BY <1>7, <2>2
    <2> QED
      BY <1>5, <1>6, <1>9, <2>1, <2>3 DEF Crossed
  <1> QED
    BY <1>8, <1>9

LEMMA ConflictFields ==
    ASSUME NEW s, NEW u, Opened(s, u), NEW l, NEW t, t = BoundConflict(u, l)
    PROVE  /\ Opened(s, t)
           /\ t.status = "UNSAT" /\ t.built = u.built /\ t.explanation = {Opposite(u, l), l}
  <1>1. DOMAIN u = DOMAIN EmptyLA
    BY DEF Opened
  <1>2. PICK x : x = {Opposite(u, l), l}
    OBVIOUS
  <1>3. t = [u EXCEPT !.explanation = x, !.status = "UNSAT", !.hasExplanation = TRUE]
    BY <1>2 DEF BoundConflict
  <1>4. /\ DOMAIN t = DOMAIN u
        /\ t.limits = u.limits /\ t.trace = u.trace /\ t.decLimit = u.decLimit
        /\ t.decisions = u.decisions /\ t.dedLim = u.dedLim /\ t.dedList = u.dedList
    BY <1>1, <1>3 DEF EmptyLA
  <1>5. /\ t.dedLast = u.dedLast /\ t.dedNext = u.dedNext
        /\ t.polarity = u.polarity /\ t.active = u.active
        /\ t.status = "UNSAT" /\ t.built = u.built /\ t.explanation = x
    BY <1>1, <1>3 DEF EmptyLA
  <1> QED
    BY <1>2, <1>4, <1>5 DEF Opened

\* A literal that contradicts the bound of the other side: a conflict.
LEMMA AssertRefused ==
    ASSUME NEW s, NEW hand, NEW n, NEW d, NEW l, NEW hand2, Ready(s, hand, n, d, l, hand2),
           l \in LeqLits, NEW u, u = Initialized(pushBacktrackPoint(s)),
           boundUnsatisfied(u, l), NEW t, t = BoundConflict(u, l)
    PROVE  /\ SolverInv(t, hand2) /\ boundUnsatisfied(t, l) /\ Agree(s, t, n)
           /\ t.dedList = s.dedList
           /\ t.status = "UNSAT" /\ t.built = u.built
           /\ \E p \in 1..n : t.explanation = {hand[p], l}
           /\ Infeasible(t.explanation)
  <1>1. /\ SolverInv(s, hand) /\ Settled(s, hand) /\ ShapeInv(s, n) /\ n \in Nat /\ l = hand2[n + 1]
        /\ TraceInv(s, hand) /\ DOMAIN hand = 1..n
    BY DEF Ready, SolverInv
  <1>2. Opened(s, u)
    BY <1>1, OpenedFacts
  <1>3. /\ Opened(s, t)
        /\ t.status = "UNSAT" /\ t.built = u.built /\ t.explanation = {Opposite(u, l), l}
    BY <1>2, ConflictFields
  <1>4. Grown(s, t) /\ Grown(s, u)
    BY <1>1, <1>2, <1>3, OpenedGrown
  <1>5. IsExtension(s, hand, n, t, hand2) /\ IsExtension(s, hand, n, u, hand2)
    BY <1>4, ReadyExtension
  <1>6. /\ t.trace = s.trace /\ t.decisions = s.decisions /\ t.dedList = s.dedList
        /\ t.polarity = s.polarity /\ t.active = s.active /\ u.trace = s.trace
    BY <1>2, <1>3 DEF Opened
  <1>7. boundUnsatisfied(t, l)
    <2>1. t.trace = u.trace
      BY <1>6
    <2> QED
      BY <2>1 DEF boundUnsatisfied, Bounded, Bounds, Lb, Ub, InForce
  <1>8. SolverInv(t, hand2)
    BY <1>1, <1>5, <1>6, <1>7, QuietExtension
  <1>9. TraceInv(u, hand2) /\ ShapeInv(u, n + 1) /\ n + 1 \in Nat
    BY <1>1, <1>5, <1>6, ExtTraceInv DEF IsExtension
  <1>10. PICK j \in DOMAIN u.trace : /\ Opposite(u, l) = u.trace[j]
                                     /\ Crossed(l, u.trace[j]) \/ Crossed(u.trace[j], l)
    BY <1>9, OppositeFacts
  <1>11. u.trace[j] \in LeqLits /\ \E p \in 1..n : u.trace[j] = hand[p]
    <2>1. u.trace[j] \in LeqLits
      BY <1>1, <1>6, LayerFacts DEF ShapeInv
    <2>2. \E p \in DOMAIN hand : s.trace[j] = hand[p]
      BY <1>1, <1>6 DEF TraceInv
    <2> QED
      BY <1>1, <1>6, <2>1, <2>2
  <1>12. Infeasible(t.explanation)
    BY <1>3, <1>10, <1>11, CrossedInfeasible
  <1>13. Agree(s, t, n)
    BY <1>5 DEF IsExtension
  <1> QED
    BY <1>3, <1>6, <1>7, <1>8, <1>10, <1>11, <1>12, <1>13

\* A bound taken, its deductions appended.
TakenAs(u, l, ms, t) ==
    /\ t.limits = u.limits /\ t.decLimit = u.decLimit /\ t.dedLim = u.dedLim
    /\ t.dedLast = u.dedLast /\ t.dedNext = u.dedNext
    /\ t.trace = IF boundSatisfied(u, l) THEN u.trace ELSE Append(u.trace, l)
    /\ t.decisions = Append(u.decisions, l) /\ t.dedList = u.dedList \o ms
    /\ t.polarity = [u.polarity EXCEPT ![l.atom] = Sgn(l.sgn)]
    /\ t.active = [u.active EXCEPT ![LeqVar[l.atom]] = @ + 1]
    /\ t.status = u.status /\ t.built = u.built

LEMMA TakenFields ==
    ASSUME NEW u, DOMAIN u = DOMAIN EmptyLA, NEW l, NEW v, v = BoundTaken(u, l),
           NEW ms, NEW t, t = Deduce(v, ms)
    PROVE  /\ DOMAIN t = DOMAIN EmptyLA /\ TakenAs(u, l, ms, t)
           /\ v.polarity = [u.polarity EXCEPT ![l.atom] = Sgn(l.sgn)]
  <1>1. PICK T : T = IF boundSatisfied(u, l) THEN u.trace ELSE Append(u.trace, l)
    OBVIOUS
  <1>2. v = [u EXCEPT !.explanation = {}, !.active[LeqVar[l.atom]] = @ + 1,
                      !.trace = T, !.polarity[l.atom] = Sgn(l.sgn),
                      !.decisions = Append(@, l)]
    BY <1>1 DEF BoundTaken
  <1>3. DOMAIN v = DOMAIN u
    BY <1>2
  <1>4. /\ v.limits = u.limits /\ v.decLimit = u.decLimit /\ v.dedLim = u.dedLim
        /\ v.dedLast = u.dedLast /\ v.dedNext = u.dedNext /\ v.dedList = u.dedList
        /\ v.status = u.status /\ v.built = u.built
    BY <1>2 DEF EmptyLA
  <1>5. v.trace = T /\ v.decisions = Append(u.decisions, l)
    BY <1>2 DEF EmptyLA
  <1>6. v.polarity = [u.polarity EXCEPT ![l.atom] = Sgn(l.sgn)]
    BY <1>2 DEF EmptyLA
  <1>7. v.active = [u.active EXCEPT ![LeqVar[l.atom]] = @ + 1]
    BY <1>2 DEF EmptyLA
  <1>8. t = [v EXCEPT !.dedList = @ \o ms]
    BY DEF Deduce
  <1>9. DOMAIN t = DOMAIN EmptyLA
    BY <1>3, <1>8
  <1>10. /\ t.limits = v.limits /\ t.decLimit = v.decLimit /\ t.dedLim = v.dedLim
         /\ t.dedLast = v.dedLast /\ t.dedNext = v.dedNext
         /\ t.status = v.status /\ t.built = v.built
    BY <1>3, <1>8 DEF EmptyLA
  <1>11. /\ t.dedList = v.dedList \o ms /\ t.trace = v.trace /\ t.decisions = v.decisions
         /\ t.polarity = v.polarity /\ t.active = v.active
    BY <1>3, <1>8 DEF EmptyLA
  <1> QED
    BY <1>1, <1>4, <1>5, <1>6, <1>7, <1>9, <1>10, <1>11 DEF TakenAs

OncePerAtom(list) == \A i, j \in 1..Len(list) : list[i].atom = list[j].atom => i = j

LEMMA SimpleDeductionsFacts ==
    ASSUME known \subseteq LeqAtoms, NEW l \in LeqLits, NEW v, NEW d,
           NEW ms, ms = SimpleDeductions(v, d, l)
    PROVE  /\ ms \in Seq(LeqLits)
           /\ \A i \in 1..Len(ms) : /\ Weaker(l, ms[i]) /\ v.polarity[ms[i].atom] = "undef"
                                    /\ d[ms[i].atom] = Undef
           /\ \A m \in [atom : known, sgn : BOOLEAN] :
                Weaker(l, m) /\ v.polarity[m.atom] = "undef" /\ d[m.atom] = Undef
                => \E i \in 1..Len(ms) : ms[i] = m
           /\ OncePerAtom(ms)
  <1> DEFINE S == {m \in [atom : known, sgn : BOOLEAN] :
                     Weaker(l, m) /\ v.polarity[m.atom] = "undef" /\ d[m.atom] = Undef}
  <1>1. S \in SUBSET LeqLits /\ IsLower(l) \in BOOLEAN
    <2>1. [atom : known, sgn : BOOLEAN] \subseteq LeqLits
      BY DEF LeqLits
    <2> QED
      BY <2>1, ValueFacts
  <1>2. ms = NearestFirst(S, IsLower(l))
    BY DEF SimpleDeductions
  <1>3. \A m \in S : Weaker(l, m) /\ v.polarity[m.atom] = "undef" /\ d[m.atom] = Undef
    OBVIOUS
  <1>4. \A m \in [atom : known, sgn : BOOLEAN] :
                Weaker(l, m) /\ v.polarity[m.atom] = "undef" /\ d[m.atom] = Undef => m \in S
    OBVIOUS
  <1> HIDE DEF S
  <1>5. PICK N \in Nat : /\ ms \in [1..N -> S] /\ \A m \in S : \E i \in 1..N : ms[i] = m
                         /\ \A i, j \in 1..N : ms[i] = ms[j] => i = j
    BY <1>1, <1>2, NearestFirstFacts
  <1>6. ms \in Seq(LeqLits) /\ Len(ms) = N
    <2>1. ms \in [1..N -> LeqLits]
      BY <1>1, <1>5
    <2>2. ms \in Seq(LeqLits)
      BY <2>1, SeqDef
    <2>3. DOMAIN ms = 1..Len(ms) /\ Len(ms) \in Nat /\ DOMAIN ms = 1..N
      BY <2>1, <2>2, SeqFacts
    <2>4. PICK M \in Nat : M = Len(ms)
      BY <2>3
    <2>5. \A i \in Nat : i \in 1..M <=> i \in 1..N
      BY <2>3, <2>4
    <2>6. M = N
      BY <2>5
    <2> QED
      BY <2>2, <2>4, <2>6
  <1>7. \A i \in 1..N : ms[i] \in S /\ ms[i] \in LeqLits
    BY <1>1, <1>5
  <1>8. ASSUME NEW i \in 1..N, NEW j \in 1..N, ms[i].atom = ms[j].atom
        PROVE  i = j
    <2>1. Weaker(l, ms[i]) /\ Weaker(l, ms[j]) /\ ms[i] \in LeqLits /\ ms[j] \in LeqLits
      BY <1>3, <1>7
    <2>2. IsLower(ms[i]) = IsLower(ms[j])
      BY <2>1, WeakerFacts
    <2>3. ms[i] = ms[j]
      BY <1>8, <2>1, <2>2, SameSide
    <2> QED
      BY <1>5, <2>3
  <1>9. OncePerAtom(ms)
    BY <1>6, <1>8 DEF OncePerAtom
  <1> QED
    BY <1>3, <1>4, <1>5, <1>6, <1>7, <1>9

\* The new elements are none the table knew.
Fresh(d, ms) == \A i \in 1..Len(ms) : d[ms[i].atom] = Undef
Joined(list, ms, list2) ==
    /\ Longer(list, list2)
    /\ \A j \in DOMAIN list : j \in DOMAIN list2 /\ list2[j] = list[j]
    /\ \A j \in DOMAIN list2 \ DOMAIN list : \E i \in 1..Len(ms) : list2[j] = ms[i]
    /\ \A i \in 1..Len(ms) : \E j \in DOMAIN list2 : list2[j] = ms[i]

LEMMA MarkFacts ==
    ASSUME NEW list \in Seq(LeqLits), NEW d, TableInv(list, d), OncePerAtom(list),
           NEW ms \in Seq(LeqLits), Fresh(d, ms), OncePerAtom(ms), NEW list2, list2 = list \o ms
    PROVE  Joined(list, ms, list2) /\ OncePerAtom(list2) /\ TableInv(list2, MarkDeduced(d, ms))
  <1>1. PICK L \in Nat, N \in Nat : L = Len(list) /\ N = Len(ms)
    BY SeqFacts
  <1>2. /\ DOMAIN list = 1..L /\ DOMAIN ms = 1..N
        /\ \A j \in 1..L : list[j] \in LeqLits
        /\ \A i \in 1..N : ms[i] \in LeqLits
    BY <1>1, SeqFacts
  <1>13. /\ \A i, j \in DOMAIN list : list[i].atom = list[j].atom => i = j
         /\ \A i, j \in 1..N : ms[i].atom = ms[j].atom => i = j
    BY <1>1, <1>2 DEF OncePerAtom
  <1>3. /\ list2 \in Seq(LeqLits) /\ Len(list2) = L + N /\ DOMAIN list2 = 1..L + N
        /\ \A j \in 1..L : list2[j] = list[j]
        /\ \A i \in 1..N : list2[L + i] = ms[i]
    <2>1. list2 \in Seq(LeqLits) /\ Len(list2) = L + N
      BY <1>1, ConcatProperties
    <2>2. \A j \in 1..L + N : list2[j] = IF j <= L THEN list[j] ELSE ms[j - L]
      BY <1>1, ConcatProperties
    <2>3. ASSUME NEW j \in 1..L
          PROVE  list2[j] = list[j]
      <3>1. j \in 1..L + N /\ j <= L
        OBVIOUS
      <3> QED
        BY <2>2, <3>1
    <2>4. ASSUME NEW i \in 1..N
          PROVE  list2[L + i] = ms[i]
      <3>1. PICK q \in 1..L + N : q = L + i
        OBVIOUS
      <3>2. ~ (q <= L) /\ q - L = i
        BY <3>1
      <3>3. list2[q] = ms[q - L]
        BY <2>2, <3>2
      <3> QED
        BY <3>1, <3>2, <3>3
    <2>5. DOMAIN list2 = 1..L + N
      BY <2>1, SeqFacts
    <2> QED
      BY <2>1, <2>3, <2>4, <2>5
  <1>4. \A j \in DOMAIN list2 : j \notin DOMAIN list => j - L \in 1..N /\ j = L + (j - L)
    BY <1>2, <1>3
  <1>5. \A j \in DOMAIN list : j \in DOMAIN list2 /\ list2[j] = list[j]
    BY <1>2, <1>3
  <1>6. \A i \in 1..N : L + i \in DOMAIN list2
    BY <1>3
  <1>7. ASSUME NEW j \in DOMAIN list2, j \notin DOMAIN list
        PROVE  \E i \in 1..N : j = L + i /\ list2[j] = ms[i]
    BY <1>3, <1>4, <1>7
  <1>8. ASSUME NEW j \in DOMAIN list, NEW i \in 1..N
        PROVE  list[j].atom # ms[i].atom
    <2>1. ms[i].atom \in Atoms /\ d[ms[i].atom] = Undef
      BY <1>1, <1>2, ValueFacts, AtomsAssumption DEF Fresh
    <2>2. ASSUME list[j].atom = ms[i].atom
          PROVE  FALSE
      <3>1. \E k \in DOMAIN list : d[ms[i].atom] = [by |-> "la", sgn |-> list[k].sgn]
        BY <2>1, <2>2 DEF TableInv
      <3> QED
        BY <2>1, <3>1 DEF Undef
    <2> QED
      BY <2>2
  <1>9. ASSUME NEW i \in DOMAIN list2, NEW j \in DOMAIN list2, list2[i].atom = list2[j].atom
        PROVE  i = j
    <2>1. CASE i \in DOMAIN list /\ j \in DOMAIN list
      BY <1>5, <1>9, <1>13, <2>1
    <2>2. CASE i \notin DOMAIN list /\ j \in DOMAIN list
      BY <1>5, <1>7, <1>8, <1>9, <2>2
    <2>3. CASE i \in DOMAIN list /\ j \notin DOMAIN list
      BY <1>5, <1>7, <1>8, <1>9, <2>3
    <2>4. CASE i \notin DOMAIN list /\ j \notin DOMAIN list
      <3>1. PICK a \in 1..N : i = L + a /\ list2[i] = ms[a]
        BY <1>7, <2>4
      <3>2. PICK b \in 1..N : j = L + b /\ list2[j] = ms[b]
        BY <1>7, <2>4
      <3> QED
        BY <1>9, <1>13, <3>1, <3>2
    <2> QED
      BY <2>1, <2>2, <2>3, <2>4
  <1>10. ASSUME NEW a \in Atoms
         PROVE  IF \E j \in DOMAIN list2 : list2[j].atom = a
                THEN \E j \in DOMAIN list2 : /\ list2[j].atom = a
                       /\ MarkDeduced(d, ms)[a] = [by |-> "la", sgn |-> list2[j].sgn]
                ELSE MarkDeduced(d, ms)[a] = Undef
    <2>1. CASE \E k \in 1..N : ms[k].atom = a
      <3>1. PICK k \in 1..N : ms[k].atom = a
        BY <2>1
      <3>2. Range(ms) = {ms[i] : i \in 1..N}
        BY <1>2 DEF Range
      <3>3. \A m \in Range(ms) : m.atom = a => m = ms[k]
        BY <1>13, <3>1, <3>2
      <3>4. (CHOOSE m \in Range(ms) : m.atom = a) = ms[k]
        BY <3>1, <3>2, <3>3
      <3>5. MarkDeduced(d, ms)[a] = [by |-> "la", sgn |-> ms[k].sgn]
        BY <1>2, <2>1, <3>4 DEF MarkDeduced
      <3>6. L + k \in DOMAIN list2 /\ list2[L + k] = ms[k]
        BY <1>3, <1>6
      <3> QED
        BY <3>1, <3>5, <3>6
    <2>2. CASE ~ \E k \in 1..N : ms[k].atom = a
      <3>1. MarkDeduced(d, ms)[a] = d[a]
        BY <1>2, <2>2 DEF MarkDeduced
      <3>2. \A j \in DOMAIN list2 : list2[j].atom = a => j \in DOMAIN list
        BY <1>7, <2>2
      <3>3. CASE \E j \in DOMAIN list : list[j].atom = a
        <4>1. PICK j \in DOMAIN list : list[j].atom = a /\ d[a] = [by |-> "la", sgn |-> list[j].sgn]
          BY <3>3 DEF TableInv
        <4>2. j \in DOMAIN list2 /\ list2[j] = list[j]
          BY <1>5
        <4> QED
          BY <3>1, <4>1, <4>2
      <3>4. CASE ~ \E j \in DOMAIN list : list[j].atom = a
        <4>1. d[a] = Undef
          BY <3>4 DEF TableInv
        <4>2. ~ \E j \in DOMAIN list2 : list2[j].atom = a
          BY <1>5, <3>2, <3>4
        <4> QED
          BY <3>1, <4>1, <4>2
      <3> QED
        BY <3>3, <3>4
    <2> QED
      BY <2>1, <2>2
  <1>11. TableInv(list2, MarkDeduced(d, ms))
    BY <1>10 DEF TableInv
  <1>12. Longer(list, list2)
    BY <1>1, <1>3 DEF Longer
  <1>14. OncePerAtom(list2)
    BY <1>3, <1>9 DEF OncePerAtom
  <1>15. Joined(list, ms, list2)
    BY <1>1, <1>2, <1>3, <1>5, <1>6, <1>7, <1>12 DEF Joined
  <1> QED
    BY <1>11, <1>14, <1>15

\* The situation: l is neither deduced before nor refused.
Taking(s, hand, n, d, l, hand2, u, v, ms, t) ==
    /\ Ready(s, hand, n, d, l, hand2) /\ l \in LeqLits
    /\ u = Initialized(pushBacktrackPoint(s))
    /\ ~ OwnDeduction(d, l) /\ ~ boundUnsatisfied(u, l)
    /\ v = BoundTaken(u, l) /\ ms = SimpleDeductions(v, d, l) /\ t = Deduce(v, ms)

TookFields(s, l, u, v, ms, t) ==
    /\ t.trace = IF boundSatisfied(u, l) THEN s.trace ELSE Append(s.trace, l)
    /\ t.decisions = Append(s.decisions, l) /\ t.dedList = s.dedList \o ms
    /\ t.polarity = [s.polarity EXCEPT ![l.atom] = Sgn(l.sgn)] /\ v.polarity = t.polarity
    /\ t.active = [s.active EXCEPT ![LeqVar[l.atom]] = @ + 1]
    /\ t.status = u.status /\ t.built = u.built

LEMMA TakingFields ==
    ASSUME NEW s, NEW hand, NEW n, NEW d, NEW l, NEW hand2, NEW u, NEW v, NEW ms, NEW t,
           Taking(s, hand, n, d, l, hand2, u, v, ms, t)
    PROVE  /\ Opened(s, u) /\ TookFields(s, l, u, v, ms, t)
           /\ IsExtension(s, hand, n, u, hand2) /\ IsExtension(s, hand, n, t, hand2)
  <1>1. /\ Ready(s, hand, n, d, l, hand2) /\ ShapeInv(s, n) /\ n \in Nat
        /\ l \in LeqLits /\ known \subseteq LeqAtoms
    BY DEF Taking, Ready, SolverInv
  <1>2. u = Initialized(pushBacktrackPoint(s)) /\ v = BoundTaken(u, l) /\ t = Deduce(v, ms)
        /\ ms = SimpleDeductions(v, d, l)
    BY DEF Taking
  <1>3. Opened(s, u)
    BY <1>1, <1>2, OpenedFacts
  <1>4. DOMAIN u = DOMAIN EmptyLA
    BY <1>3 DEF Opened
  <1>5. /\ DOMAIN t = DOMAIN EmptyLA /\ TakenAs(u, l, ms, t)
        /\ v.polarity = [u.polarity EXCEPT ![l.atom] = Sgn(l.sgn)]
    BY <1>2, <1>4, TakenFields
  <1>6. /\ t.trace = IF boundSatisfied(u, l) THEN s.trace ELSE Append(s.trace, l)
        /\ t.decisions = Append(s.decisions, l) /\ t.dedList = s.dedList \o ms
    BY <1>3, <1>5 DEF Opened, TakenAs
  <1>7. /\ t.polarity = [s.polarity EXCEPT ![l.atom] = Sgn(l.sgn)] /\ v.polarity = t.polarity
        /\ t.active = [s.active EXCEPT ![LeqVar[l.atom]] = @ + 1]
    BY <1>3, <1>5 DEF Opened, TakenAs
  <1>8. t.status = u.status /\ t.built = u.built
    BY <1>5 DEF TakenAs
  <1>9. /\ t.limits = Append(s.limits, Len(s.trace)) /\ t.decLimit = Append(s.decLimit, Len(s.decisions))
        /\ t.dedLim = Append(s.dedLim, Len(s.dedList))
        /\ t.dedLast = Append(s.dedLast, s.dedNext) /\ t.dedNext = s.dedNext
    BY <1>3, <1>5 DEF Opened, TakenAs
  <1>10. s.trace \in Seq(LeqLits) /\ s.decisions \in Seq(LeqLits) /\ s.dedList \in Seq(LeqLits)
    BY <1>1 DEF ShapeInv, Layered
  <1>11. ms \in Seq(LeqLits)
    BY <1>1, <1>2, SimpleDeductionsFacts
  <1>12. \A list \in Seq(LeqLits) : Longer(list, Append(list, l)) /\ Longer(list, list)
    BY <1>1, AppendProperties, LenProperties DEF Longer
  <1>13. Longer(s.dedList, s.dedList \o ms)
    <2>1. PICK a \in Nat, b \in Nat : a = Len(s.dedList) /\ b = Len(ms)
      BY <1>10, <1>11, LenProperties
    <2>2. s.dedList \o ms \in Seq(LeqLits) /\ Len(s.dedList \o ms) = a + b
      BY <1>10, <1>11, <2>1, ConcatProperties
    <2>3. \A i \in 1..a + b : (s.dedList \o ms)[i] = IF i <= a THEN s.dedList[i] ELSE ms[i - a]
      BY <1>10, <1>11, <2>1, ConcatProperties
    <2>4. ASSUME NEW i \in 1..a
          PROVE  (s.dedList \o ms)[i] = s.dedList[i]
      <3>1. i \in 1..a + b /\ i <= a
        OBVIOUS
      <3> QED
        BY <2>3, <3>1
    <2> QED
      BY <2>1, <2>2, <2>4 DEF Longer
  <1>14. Longer(s.trace, t.trace) /\ Longer(s.decisions, t.decisions) /\ Longer(s.dedList, t.dedList)
    BY <1>6, <1>10, <1>12, <1>13
  <1>15. t.polarity \in [LeqAtoms -> {"undef", "true", "false"}] /\ t.active \in [Vars -> Int]
    <2>1. /\ s.polarity \in [LeqAtoms -> {"undef", "true", "false"}] /\ s.active \in [Vars -> Int]
      BY <1>1 DEF ShapeInv
    <2>2. Sgn(l.sgn) \in {"undef", "true", "false"}
      BY DEF Sgn
    <2>3. t.polarity \in [LeqAtoms -> {"undef", "true", "false"}]
      BY <1>7, <2>1, <2>2
    <2>4. t.active \in [Vars -> Int]
      <3>1. PICK w : w = LeqVar[l.atom]
        OBVIOUS
      <3>2. w \in Vars
        BY <1>1, <3>1, ValueFacts
      <3>3. t.active = [s.active EXCEPT ![w] = s.active[w] + 1]
        BY <1>7, <3>1
      <3> QED
        BY <2>1, <3>2, <3>3
    <2> QED
      BY <2>3, <2>4
  <1>16. Grown(s, t)
    BY <1>5, <1>9, <1>14, <1>15 DEF Grown
  <1>17. Grown(s, u)
    BY <1>1, <1>3, OpenedGrown
  <1>18. IsExtension(s, hand, n, t, hand2) /\ IsExtension(s, hand, n, u, hand2)
    BY <1>1, <1>16, <1>17, ReadyExtension
  <1>19. TookFields(s, l, u, v, ms, t)
    BY <1>6, <1>7, <1>8 DEF TookFields
  <1> QED
    BY <1>3, <1>18, <1>19

\* The deductions of l, and the table after them.
LEMMA TakingMarks ==
    ASSUME NEW s, NEW hand, NEW n, NEW d, NEW l, NEW hand2, NEW u, NEW v, NEW ms, NEW t,
           Taking(s, hand, n, d, l, hand2, u, v, ms, t)
    PROVE  /\ \A j \in DOMAIN s.dedList : j \in DOMAIN t.dedList /\ t.dedList[j] = s.dedList[j]
           /\ \A j \in DOMAIN t.dedList \ DOMAIN s.dedList : Weaker(l, t.dedList[j])
           /\ OncePerAtom(t.dedList)
           /\ \A m \in [atom : known, sgn : BOOLEAN] :
                Weaker(l, m) /\ t.polarity[m.atom] = "undef" /\ d[m.atom] = Undef
                => \E j \in DOMAIN t.dedList : t.dedList[j] = m
           /\ TableInv(t.dedList, MarkDeduced(d, ms))
  <1>0. TookFields(s, l, u, v, ms, t)
    BY TakingFields
  <1>1. t.dedList = s.dedList \o ms /\ v.polarity = t.polarity
    BY <1>0 DEF TookFields
  <1>2. /\ known \subseteq LeqAtoms /\ l \in LeqLits /\ ms = SimpleDeductions(v, d, l)
        /\ ShapeInv(s, n) /\ DeductionsInv(s, hand) /\ TableInv(s.dedList, d)
    BY DEF Taking, Ready, SolverInv
  <1>3. s.dedList \in Seq(LeqLits)
    BY <1>2 DEF ShapeInv, Layered
  <1>4. OncePerAtom(s.dedList)
    BY <1>2, <1>3, SeqFacts DEF DeductionsInv, OncePerAtom
  <1>5. /\ ms \in Seq(LeqLits)
        /\ \A i \in 1..Len(ms) : Weaker(l, ms[i]) /\ d[ms[i].atom] = Undef
        /\ \A m \in [atom : known, sgn : BOOLEAN] :
             Weaker(l, m) /\ t.polarity[m.atom] = "undef" /\ d[m.atom] = Undef
             => \E i \in 1..Len(ms) : ms[i] = m
        /\ OncePerAtom(ms)
    BY <1>1, <1>2, SimpleDeductionsFacts
  <1>6. PICK list2 : list2 = s.dedList \o ms
    OBVIOUS
  <1>7. /\ \A j \in DOMAIN s.dedList : j \in DOMAIN list2 /\ list2[j] = s.dedList[j]
        /\ \A j \in DOMAIN list2 \ DOMAIN s.dedList : \E i \in 1..Len(ms) : list2[j] = ms[i]
        /\ \A i \in 1..Len(ms) : \E j \in DOMAIN list2 : list2[j] = ms[i]
        /\ OncePerAtom(list2) /\ TableInv(list2, MarkDeduced(d, ms))
    <2>1. PICK list : list = s.dedList
      OBVIOUS
    <2>2. list \in Seq(LeqLits) /\ TableInv(list, d) /\ OncePerAtom(list) /\ list2 = list \o ms
      BY <1>2, <1>3, <1>4, <1>6, <2>1
    <2>3. ms \in Seq(LeqLits) /\ OncePerAtom(ms) /\ Fresh(d, ms)
      BY <1>5 DEF Fresh
    <2>4. Joined(list, ms, list2) /\ OncePerAtom(list2) /\ TableInv(list2, MarkDeduced(d, ms))
      BY <2>2, <2>3, MarkFacts
    <2> QED
      BY <2>1, <2>4 DEF Joined
  <1>8. t.dedList = list2
    BY <1>1, <1>6
  <1>9. \A m \in [atom : known, sgn : BOOLEAN] :
                Weaker(l, m) /\ t.polarity[m.atom] = "undef" /\ d[m.atom] = Undef
                => \E j \in DOMAIN list2 : list2[j] = m
    BY <1>5, <1>7
  <1>10. \A j \in DOMAIN list2 \ DOMAIN s.dedList : Weaker(l, list2[j])
    BY <1>5, <1>7
  <1> QED
    BY <1>7, <1>8, <1>9, <1>10

LEMMA TakingTrace ==
    ASSUME NEW s, NEW hand, NEW n, NEW d, NEW l, NEW hand2, NEW u, NEW v, NEW ms, NEW t,
           Taking(s, hand, n, d, l, hand2, u, v, ms, t)
    PROVE  /\ TraceInv(t, hand2)
           /\ \E i \in DOMAIN t.trace : Weaker(t.trace[i], l)
           /\ \A i \in DOMAIN s.trace : ~ Crossed(s.trace[i], l) /\ ~ Crossed(l, s.trace[i])
  <1>0. /\ Opened(s, u) /\ IsExtension(s, hand, n, u, hand2) /\ IsExtension(s, hand, n, t, hand2)
        /\ TookFields(s, l, u, v, ms, t)
    BY TakingFields
  <1>1. t.trace = IF boundSatisfied(u, l) THEN s.trace ELSE Append(s.trace, l)
    BY <1>0 DEF TookFields
  <1>2. /\ TraceInv(s, hand) /\ l = hand2[n + 1] /\ n \in Nat /\ l \in LeqLits
        /\ ~ boundUnsatisfied(u, l) /\ ShapeInv(s, n)
    BY DEF Taking, Ready, SolverInv
  <1>3. u.trace = s.trace
    BY <1>0 DEF Opened
  <1>4. TraceInv(u, hand2) /\ ShapeInv(u, n + 1) /\ n + 1 \in Nat
    BY <1>0, <1>2, <1>3, ExtTraceInv DEF IsExtension
  <1>5. boundSatisfied(u, l) <=> \E j \in DOMAIN s.trace : Weaker(s.trace[j], l)
    BY <1>2, <1>3, <1>4, SatisfiedIff
  <1>6. \A i \in DOMAIN s.trace : ~ Crossed(s.trace[i], l) /\ ~ Crossed(l, s.trace[i])
    BY <1>2, <1>3, <1>4, UnsatisfiedIff
  <1>7. CASE boundSatisfied(u, l)
    <2>1. t.trace = s.trace
      BY <1>1, <1>7
    <2>2. TraceInv(t, hand2)
      BY <1>0, <1>2, <2>1, ExtTraceInv
    <2> QED
      BY <1>5, <1>6, <1>7, <2>1, <2>2
  <1>8. CASE ~ boundSatisfied(u, l)
    <2>1. t.trace = Append(s.trace, l)
      BY <1>1, <1>8
    <2>2. TraceInv(t, hand2)
      BY <1>0, <1>2, <1>5, <1>6, <1>8, <2>1, ExtTraceInv
    <2>3. s.trace \in Seq(LeqLits)
      BY <1>2 DEF ShapeInv, Layered
    <2>4. Len(s.trace) + 1 \in DOMAIN t.trace /\ t.trace[Len(s.trace) + 1] = l
      BY <1>2, <2>1, <2>3, AppendFacts
    <2>5. Weaker(l, l)
      BY <1>2, WeakerFacts
    <2> QED
      BY <1>6, <2>2, <2>4, <2>5
  <1> QED
    BY <1>7, <1>8

\* The literal is taken at its own point.
LEMMA TakingTaken ==
    ASSUME NEW s, NEW hand, NEW n, NEW d, NEW l, NEW hand2, NEW u, NEW v, NEW ms, NEW t,
           Taking(s, hand, n, d, l, hand2, u, v, ms, t)
    PROVE  TakenAt(t, hand2, n + 1)
  <1>1. TookFields(s, l, u, v, ms, t) /\ IsExtension(s, hand, n, t, hand2)
    BY TakingFields
  <1>2. /\ n \in Nat /\ l \in LeqLits /\ l = hand2[n + 1] /\ ShapeInv(s, n) /\ ~ OwnDeduction(d, l)
        /\ DeductionsInv(s, hand) /\ TableInv(s.dedList, d) /\ ShapeInv(t, n + 1)
    BY <1>1 DEF Taking, Ready, SolverInv, IsExtension
  <1>3. PICK q \in Nat : q = n + 1
    BY <1>2
  <1>4. q - 1 = n
    BY <1>2, <1>3
  <1>5. \E j \in AddedBy(t.decisions, t.decLimit, q) : t.decisions[j] = l
    <2>1. t.decisions = Append(s.decisions, l)
      BY <1>1 DEF TookFields
    <2>2. s.decisions \in Seq(LeqLits)
      BY <1>2 DEF ShapeInv, Layered
    <2>3. PICK j \in Nat : j = Len(s.decisions) + 1
      BY <2>2, SeqFacts
    <2>4. j \in DOMAIN t.decisions /\ t.decisions[j] = l
      BY <1>2, <2>1, <2>2, <2>3, AppendFacts
    <2>5. j \notin DOMAIN s.decisions
      BY <2>2, <2>3, SeqFacts
    <2>6. AddedBy(t.decisions, t.decLimit, q) = DOMAIN t.decisions \ DOMAIN s.decisions
      BY <1>1, <1>3, ExtLists
    <2> QED
      BY <2>4, <2>5, <2>6
  <1>6. \A j \in 1..End(t.dedList, t.dedLim, n) : t.dedList[j] # l
    <2>1. \A j \in DOMAIN s.dedList : s.dedList[j] # l
      BY <1>2, OwnDeductionIff
    <2>2. Layered(s.dedList, s.dedLim, n) /\ Layered(t.dedList, t.dedLim, n + 1)
      BY <1>2 DEF ShapeInv
    <2>3. SameLayers(s.dedList, s.dedLim, t.dedList, t.dedLim, n)
      BY <1>1 DEF IsExtension, Agree
    <2>4. /\ End(t.dedList, t.dedLim, n) = Len(s.dedList) /\ DOMAIN s.dedList = 1..Len(s.dedList)
          /\ \A j \in DOMAIN s.dedList : t.dedList[j] = s.dedList[j]
      BY <1>2, <2>2, <2>3, ExtList
    <2> QED
      BY <2>1, <2>4
  <1>7. \E i \in 1..End(t.trace, t.limits, q) : Weaker(t.trace[i], l)
    <2>1. \E i \in DOMAIN t.trace : Weaker(t.trace[i], l)
      BY TakingTrace
    <2>2. Layered(t.trace, t.limits, q)
      BY <1>2, <1>3 DEF ShapeInv
    <2>3. DOMAIN t.trace = 1..End(t.trace, t.limits, q)
      BY <2>2, LayerFacts
    <2> QED
      BY <2>1, <2>3
  <1>8. TakenAt(t, hand2, q)
    BY <1>2, <1>3, <1>4, <1>5, <1>6, <1>7 DEF TakenAt
  <1> QED
    BY <1>3, <1>8

LEMMA TakingDecisions ==
    ASSUME NEW s, NEW hand, NEW n, NEW d, NEW l, NEW hand2, NEW u, NEW v, NEW ms, NEW t,
           Taking(s, hand, n, d, l, hand2, u, v, ms, t)
    PROVE  DecisionsInv(t, hand2)
  <1>1. TookFields(s, l, u, v, ms, t) /\ IsExtension(s, hand, n, t, hand2)
    BY TakingFields
  <1>2. /\ DecisionsInv(s, hand) /\ l \in LeqLits /\ l = hand2[n + 1] /\ ShapeInv(s, n)
    BY DEF Taking, Ready, SolverInv
  <1>3. t.decisions = Append(s.decisions, l)
    BY <1>1 DEF TookFields
  <1>4. \A a \in LeqAtoms : IF a = l.atom THEN t.polarity[a] # "undef"
                            ELSE t.polarity[a] = s.polarity[a]
    <2>1. t.polarity = [s.polarity EXCEPT ![l.atom] = Sgn(l.sgn)]
      BY <1>1 DEF TookFields
    <2>2. s.polarity \in [LeqAtoms -> {"undef", "true", "false"}]
      BY <1>2 DEF ShapeInv
    <2>3. PICK a0, x : a0 = l.atom /\ x = Sgn(l.sgn)
      OBVIOUS
    <2>4. x # "undef" /\ t.polarity = [s.polarity EXCEPT ![a0] = x]
      BY <2>1, <2>3 DEF Sgn
    <2> QED
      BY <2>2, <2>3, <2>4
  <1>5. \A w \in Vars : t.active[w] = IF w = LeqVar[l.atom] THEN s.active[w] + 1 ELSE s.active[w]
    <2>1. t.active = [s.active EXCEPT ![LeqVar[l.atom]] = @ + 1]
      BY <1>1 DEF TookFields
    <2>2. s.active \in [Vars -> Int]
      BY <1>2 DEF ShapeInv
    <2>3. PICK x : x = LeqVar[l.atom]
      OBVIOUS
    <2>4. t.active = [s.active EXCEPT ![x] = s.active[x] + 1]
      BY <2>1, <2>3
    <2> QED
      BY <2>2, <2>3, <2>4
  <1> QED
    BY <1>1, <1>2, <1>3, <1>4, <1>5, ExtDecisionsInv

LEMMA TakingDeductions ==
    ASSUME NEW s, NEW hand, NEW n, NEW d, NEW l, NEW hand2, NEW u, NEW v, NEW ms, NEW t,
           Taking(s, hand, n, d, l, hand2, u, v, ms, t)
    PROVE  DeductionsInv(t, hand2)
  <1>1. IsExtension(s, hand, n, t, hand2) /\ TakenAt(t, hand2, n + 1)
    BY TakingFields, TakingTaken
  <1>2. DeductionsInv(s, hand) /\ l = hand2[n + 1] /\ n \in Nat
    BY DEF Taking, Ready, SolverInv
  <1>3. \A j \in DOMAIN t.dedList \ DOMAIN s.dedList : Weaker(l, t.dedList[j])
    BY TakingMarks
  <1>4. \A i, j \in DOMAIN t.dedList : t.dedList[i].atom = t.dedList[j].atom => i = j
    <2>1. OncePerAtom(t.dedList)
      BY TakingMarks
    <2>2. t.dedList \in Seq(LeqLits)
      BY <1>1 DEF IsExtension, ShapeInv, Layered
    <2> QED
      BY <2>1, <2>2, SeqFacts DEF OncePerAtom
  <1>5. \A j \in DOMAIN t.dedList \ DOMAIN s.dedList :
          /\ Weaker(hand2[n + 1], t.dedList[j]) /\ TakenAt(t, hand2, n + 1)
          /\ \A i \in DOMAIN t.dedList : t.dedList[i].atom = t.dedList[j].atom => i = j
    BY <1>1, <1>2, <1>3, <1>4
  <1> QED
    BY <1>1, <1>2, <1>5, ExtDeductionsInv

\* All known atoms that are weaker have a value now.
KnownComplete(t, hand, p) ==
    \A m \in [atom : known, sgn : BOOLEAN] : Weaker(hand[p], m) =>
      (\E q \in 1..p : hand[q].atom = m.atom) \/ \E j \in DOMAIN t.dedList : t.dedList[j] = m

LEMMA TakingComplete ==
    ASSUME NEW s, NEW hand, NEW n, NEW d, NEW l, NEW hand2, NEW u, NEW v, NEW ms, NEW t,
           Taking(s, hand, n, d, l, hand2, u, v, ms, t)
    PROVE  KnownComplete(t, hand2, n + 1)
  <1>1. TookFields(s, l, u, v, ms, t) /\ IsExtension(s, hand, n, t, hand2)
    BY TakingFields
  <1>2. /\ n \in Nat /\ l \in LeqLits /\ hand2[n + 1] = l /\ ShapeInv(s, n) /\ DecisionsInv(s, hand)
        /\ DeductionsInv(s, hand) /\ TableInv(s.dedList, d) /\ known \subseteq LeqAtoms
        /\ DOMAIN hand = 1..n /\ SameHand(hand, hand2, n) /\ DOMAIN hand2 = 1..n + 1
    BY DEF Taking, Ready, SolverInv
  <1>3. ASSUME NEW m \in [atom : known, sgn : BOOLEAN], Weaker(l, m)
        PROVE  (\E q \in 1..n + 1 : hand2[q].atom = m.atom) \/ \E j \in DOMAIN t.dedList : t.dedList[j] = m
    <2>1. m \in LeqLits /\ m.atom \in LeqAtoms
      BY <1>2 DEF LeqLits
    <2>2. CASE m.atom = l.atom
      <3>1. n + 1 \in 1..n + 1
        BY <1>2
      <3> QED
        BY <1>2, <2>2, <3>1
    <2>3. CASE m.atom # l.atom /\ t.polarity[m.atom] # "undef"
      <3>1. t.polarity[m.atom] = s.polarity[m.atom]
        <4>1. t.polarity = [s.polarity EXCEPT ![l.atom] = Sgn(l.sgn)]
          BY <1>1 DEF TookFields
        <4>2. s.polarity \in [LeqAtoms -> {"undef", "true", "false"}]
          BY <1>2 DEF ShapeInv
        <4>3. PICK a0, x : a0 = l.atom /\ x = Sgn(l.sgn)
          OBVIOUS
        <4>4. t.polarity = [s.polarity EXCEPT ![a0] = x]
          BY <4>1, <4>3
        <4> QED
          BY <2>1, <2>3, <4>2, <4>3, <4>4
      <3>2. PICK j \in DOMAIN s.decisions : s.decisions[j].atom = m.atom
        BY <1>2, <2>1, <2>3, <3>1 DEF DecisionsInv
      <3>3. PICK p \in DOMAIN hand : s.decisions[j] = hand[p]
        BY <1>2 DEF DecisionsInv
      <3>4. p \in 1..n + 1 /\ hand2[p] = hand[p]
        BY <1>2, <3>3 DEF SameHand
      <3> QED
        BY <3>2, <3>3, <3>4
    <2>4. CASE t.polarity[m.atom] = "undef" /\ d[m.atom] = Undef
      BY <1>3, <2>4, TakingMarks
    <2>5. CASE d[m.atom] # Undef
      <3>1. PICK j \in DOMAIN s.dedList : s.dedList[j].atom = m.atom
        BY <1>2, <2>1, <2>5, OwnDeductionIff
      <3>2. s.dedList[j] \in LeqLits
        BY <1>2, ShapeFacts
      <3>3. CASE s.dedList[j] = m
        BY <3>1, <3>3, TakingMarks
      <3>4. CASE s.dedList[j] # m
        <4>2. s.dedList[j] = Not(m)
          BY <2>1, <3>1, <3>2, <3>4, SameSide
        <4>3. PICK p \in DOMAIN hand : Weaker(hand[p], s.dedList[j]) /\ TakenAt(s, hand, p)
          BY <1>2 DEF DeductionsInv
        <4>4. hand[p] \in LeqLits /\ \E i \in DOMAIN s.trace : Weaker(s.trace[i], hand[p])
          BY <1>2, <4>3, BoundWitness
        <4>5. PICK i \in DOMAIN s.trace : Weaker(s.trace[i], hand[p])
          BY <4>4
        <4>6. s.trace[i] \in LeqLits
          BY <1>2, ShapeFacts
        <4>7. Weaker(s.trace[i], Not(m)) /\ Not(m) \in LeqLits
          <5>1. Weaker(hand[p], Not(m)) /\ Not(m) \in LeqLits
            BY <3>2, <4>2, <4>3
          <5> QED
            BY <4>4, <4>5, <4>6, <5>1, WeakerFacts
        <4>8. ~ Crossed(s.trace[i], l) /\ ~ Crossed(l, s.trace[i])
          BY TakingTrace
        <4>9. IF IsLower(l) THEN Crossed(l, Not(m)) ELSE Crossed(Not(m), l)
          BY <1>2, <1>3, <2>1, WeakerFacts
        <4>10. Crossed(s.trace[i], l) \/ Crossed(l, s.trace[i])
          BY <1>2, <4>6, <4>7, <4>9, WeakerFacts
        <4> QED
          BY <4>8, <4>10
      <3> QED
        BY <3>3, <3>4
    <2> QED
      BY <2>2, <2>3, <2>4, <2>5
  <1> QED
    BY <1>2, <1>3 DEF KnownComplete

\* A bound taken.
LEMMA AssertTaken ==
    ASSUME NEW s, NEW hand, NEW n, NEW d, NEW l, NEW hand2, NEW u, NEW v, NEW ms, NEW t,
           Taking(s, hand, n, d, l, hand2, u, v, ms, t)
    PROVE  /\ SolverInv(t, hand2) /\ Settled(t, hand2) /\ Agree(s, t, n)
           /\ TableInv(t.dedList, MarkDeduced(d, ms)) /\ KnownComplete(t, hand2, n + 1)
           /\ t.status = u.status /\ t.built = u.built
  <1>1. TookFields(s, l, u, v, ms, t) /\ IsExtension(s, hand, n, t, hand2)
    BY TakingFields
  <1>2. /\ n \in Nat /\ SolverInv(s, hand) /\ Settled(s, hand) /\ LeqAtoms \ UNION Splits \subseteq known
        /\ CompleteInv(s, hand)
    BY DEF Taking, Ready, SolverInv
  <1>3. TakenAt(t, hand2, n + 1) /\ TraceInv(t, hand2) /\ DecisionsInv(t, hand2) /\ DeductionsInv(t, hand2)
    BY TakingTaken, TakingTrace, TakingDecisions, TakingDeductions
  <1>4. KnownComplete(t, hand2, n + 1)
    BY TakingComplete
  <1>5. Settled(t, hand2) /\ HandInv(t, hand2)
    BY <1>1, <1>2, <1>3, ExtHandInv DEF SettledAt
  <1>6. CompleteInv(t, hand2)
    <2>1. \A m \in [atom : LeqAtoms \ UNION Splits, sgn : BOOLEAN] : m \in [atom : known, sgn : BOOLEAN]
      BY <1>2
    <2> QED
      BY <1>1, <1>2, <1>4, <2>1, ExtCompleteInv DEF KnownComplete
  <1>7. ShapeInv(t, n + 1) /\ Len(hand2) = n + 1 /\ Agree(s, t, n)
    BY <1>1 DEF IsExtension
  <1>8. SolverInv(t, hand2)
    BY <1>3, <1>5, <1>6, <1>7 DEF SolverInv
  <1>9. TableInv(t.dedList, MarkDeduced(d, ms))
    BY TakingMarks
  <1> QED
    BY <1>1, <1>4, <1>5, <1>7, <1>8, <1>9 DEF TookFields

-----------------------------------------------------------------------------
(* Whatever literal is handed over.                                        *)

Live(s) ==
    s.status \in {"INIT", "SAT"} /\ s.built \in BOOLEAN /\ (s.status # "INIT" => s.built)

AcceptedBy(s, n, l, hand2, t) ==
    /\ Settled(t, hand2) /\ Live(t) /\ (t.status = "INIT" => s.status = "INIT")
    /\ l.atom \in LeqAtoms =>
         KnownComplete(t, hand2, n + 1) \/ \E j \in DOMAIN s.dedList : s.dedList[j] = l
RefusedBy(hand, n, l, t) ==
    /\ boundUnsatisfied(t, l) /\ t.status = "UNSAT" /\ t.built = TRUE
    /\ \E p \in 1..n : t.explanation = {hand[p], l}
    /\ Infeasible(t.explanation)

LEMMA AssertCases ==
    ASSUME NEW s, NEW d, NEW l, NEW u, u = Initialized(pushBacktrackPoint(s)),
           NEW v, v = BoundTaken(u, l), NEW ms, ms = SimpleDeductions(v, d, l),
           NEW R, R = LAAssert(pushBacktrackPoint(s), d, l)
    PROVE  /\ OwnDeduction(d, l) => R.la = u /\ R.deduced = d
           /\ ~ OwnDeduction(d, l) /\ boundUnsatisfied(u, l) => R.la = BoundConflict(u, l) /\ R.deduced = d
           /\ ~ OwnDeduction(d, l) /\ ~ boundUnsatisfied(u, l) =>
                R.la = Deduce(v, ms) /\ R.deduced = MarkDeduced(d, ms)
  <1>1. R = IF OwnDeduction(d, l) THEN [la |-> u, deduced |-> d]
            ELSE IF boundUnsatisfied(u, l)
                 THEN [la |-> BoundConflict(u, l), deduced |-> d]
                 ELSE [la |-> Deduce(v, ms), deduced |-> MarkDeduced(d, ms)]
    BY Zenon DEF LAAssert
  <1> QED
    BY <1>1

LEMMA HandOver ==
    ASSUME NEW s, NEW hand, NEW n, NEW d, NEW l, NEW hand2, Ready(s, hand, n, d, l, hand2), Live(s),
           l \in LeqLits, NEW R, R = LAAssert(pushBacktrackPoint(s), d, l)
    PROVE  /\ SolverInv(R.la, hand2) /\ Agree(s, R.la, n) /\ TableInv(R.la.dedList, R.deduced)
           /\ AcceptedBy(s, n, l, hand2, R.la) \/ RefusedBy(hand, n, l, R.la)
  <1>1. PICK u : u = Initialized(pushBacktrackPoint(s))
    OBVIOUS
  <1>2. PICK v : v = BoundTaken(u, l)
    OBVIOUS
  <1>3. PICK ms : ms = SimpleDeductions(v, d, l)
    OBVIOUS
  <1>4. /\ n \in Nat /\ ShapeInv(s, n) /\ TableInv(s.dedList, d) /\ DeductionsInv(s, hand)
    BY DEF Ready, SolverInv
  <1>5. Live(u) /\ u.status = "SAT" /\ u.built = TRUE
    <2>1. /\ u.status = IF s.status = "INIT" THEN "SAT" ELSE s.status
          /\ u.built = IF s.status = "INIT" THEN TRUE ELSE s.built
      BY <1>1, <1>4, OpenedFacts
    <2>2. s.status \in {"INIT", "SAT"} /\ s.built \in BOOLEAN /\ (s.status # "INIT" => s.built)
      BY DEF Live
    <2>3. u.status = "SAT"
      BY <2>1, <2>2
    <2>4. u.built = TRUE
      <3>1. CASE s.status = "INIT"
        BY <2>1, <3>1
      <3>2. CASE s.status # "INIT"
        <4>1. s.built = TRUE
          BY <2>2, <3>2
        <4> QED
          BY <2>1, <3>2, <4>1
      <3> QED
        BY <3>1, <3>2
    <2> QED
      BY <2>3, <2>4 DEF Live
  <1>6. CASE OwnDeduction(d, l)
    <2>1. R.la = u /\ R.deduced = d
      BY <1>1, <1>2, <1>3, <1>6, AssertCases
    <2>2. SolverInv(u, hand2) /\ Settled(u, hand2) /\ Agree(s, u, n) /\ u.dedList = s.dedList
      BY <1>1, <1>6, AssertPassed
    <2>3. \E j \in DOMAIN s.dedList : s.dedList[j] = l
      BY <1>4, <1>6, OwnDeductionIff
    <2>4. AcceptedBy(s, n, l, hand2, u)
      BY <1>5, <2>2, <2>3 DEF AcceptedBy
    <2> QED
      BY <1>4, <2>1, <2>2, <2>4
  <1>7. CASE ~ OwnDeduction(d, l) /\ boundUnsatisfied(u, l)
    <2>1. PICK t : t = BoundConflict(u, l)
      OBVIOUS
    <2>2. R.la = t /\ R.deduced = d
      BY <1>1, <1>2, <1>3, <1>7, <2>1, AssertCases
    <2>3. /\ SolverInv(t, hand2) /\ boundUnsatisfied(t, l) /\ Agree(s, t, n)
          /\ t.dedList = s.dedList
          /\ t.status = "UNSAT" /\ t.built = u.built
          /\ \E p \in 1..n : t.explanation = {hand[p], l}
          /\ Infeasible(t.explanation)
      BY <1>1, <1>7, <2>1, AssertRefused
    <2>4. RefusedBy(hand, n, l, t)
      BY <1>5, <2>3 DEF RefusedBy
    <2> QED
      BY <1>4, <2>2, <2>3, <2>4
  <1>8. CASE ~ OwnDeduction(d, l) /\ ~ boundUnsatisfied(u, l)
    <2>1. PICK t : t = Deduce(v, ms)
      OBVIOUS
    <2>2. R.la = t /\ R.deduced = MarkDeduced(d, ms)
      BY <1>1, <1>2, <1>3, <1>8, <2>1, AssertCases
    <2>3. Taking(s, hand, n, d, l, hand2, u, v, ms, t)
      BY <1>1, <1>2, <1>3, <1>8, <2>1 DEF Taking
    <2>4. /\ SolverInv(t, hand2) /\ Settled(t, hand2) /\ Agree(s, t, n)
          /\ TableInv(t.dedList, MarkDeduced(d, ms)) /\ KnownComplete(t, hand2, n + 1)
          /\ t.status = u.status /\ t.built = u.built
      BY <2>3, AssertTaken
    <2>5. AcceptedBy(s, n, l, hand2, t)
      BY <1>5, <2>4 DEF AcceptedBy, Live
    <2> QED
      BY <2>2, <2>4, <2>5
  <1> QED
    BY <1>6, <1>7, <1>8

LEMMA HandOverForeign ==
    ASSUME NEW s, NEW hand, NEW n, NEW d, NEW l, NEW hand2, Ready(s, hand, n, d, l, hand2), Live(s),
           l.atom \notin LeqAtoms, NEW t, t = pushBacktrackPoint(s)
    PROVE  /\ SolverInv(t, hand2) /\ Agree(s, t, n) /\ TableInv(t.dedList, d)
           /\ AcceptedBy(s, n, l, hand2, t)
  <1>1. /\ SolverInv(t, hand2) /\ Settled(t, hand2) /\ Agree(s, t, n)
        /\ t.dedList = s.dedList /\ t.status = s.status /\ t.built = s.built
    BY PushForeign
  <1>2. TableInv(s.dedList, d)
    BY DEF Ready
  <1>3. Live(t) /\ t.status = s.status
    BY <1>1 DEF Live
  <1> QED
    BY <1>1, <1>2, <1>3 DEF AcceptedBy

-----------------------------------------------------------------------------
(* Points taken back, with the table of deductions; and the reason for a   *)
(* deduction, on a point of its own.                                       *)

LEMMA UndoTable ==
    ASSUME NEW s, NEW n \in Nat, ShapeInv(s, n), NEW d, TableInv(s.dedList, d),
           \A i, j \in DOMAIN s.dedList : s.dedList[i].atom = s.dedList[j].atom => i = j,
           NEW c \in 0..n, NEW t, t = popBacktrackPoints(s, c)
    PROVE  TableInv(t.dedList, UndoDeduced(d, s, c))
  <1>1. CASE c = 0
    <2>1. t = [s EXCEPT !.status = "SAT"]
      BY <1>1 DEF popBacktrackPoints
    <2>2. t.dedList = s.dedList
      BY <2>1 DEF ShapeInv, EmptyLA
    <2>3. UndoDeduced(d, s, c) = d
      BY <1>1 DEF UndoDeduced
    <2> QED
      BY <2>2, <2>3
  <1>2. CASE c # 0
    <2>1. PICK k \in 0..n - 1 : k = n - c
      BY <1>2
    <2>2. Layered(s.dedList, s.dedLim, n) /\ Layered(s.trace, s.limits, n)
      BY DEF ShapeInv
    <2>3. Dropped(s, t, k)
      BY <1>2, <2>1, DropFields
    <2>4. Oldest(s, c) = k + 1
      BY <2>1, <2>2, LayerFacts DEF Oldest
    <2>5. PICK e, list, list2, gone :
            /\ e = s.dedLim[k + 1] /\ list = s.dedList /\ list2 = t.dedList
            /\ gone = Above(list, e)
      OBVIOUS
    <2>6. /\ list \in Seq(LeqLits) /\ e \in 0..Len(list)
      <3>1. k \in 0..n /\ k \in 0..n - 1
        BY <2>1
      <3>2. s.dedLim[k + 1] \in 0..Len(s.dedList)
        <4>1. s.dedLim[k + 1] = End(s.dedList, s.dedLim, k)
          BY <2>2, <3>1, LayerFacts
        <4>2. End(s.dedList, s.dedLim, k) \in 0..Len(s.dedList)
          BY <2>2, <3>1, LayerFacts
        <4> QED
          BY <4>1, <4>2
      <3>3. s.dedList \in Seq(LeqLits)
        BY <2>2 DEF Layered
      <3> QED
        BY <2>5, <3>2, <3>3
    <2>7. /\ DOMAIN list = 1..Len(list) /\ Len(list) \in Nat
          /\ DOMAIN list2 = 1..e /\ \A j \in 1..e : list2[j] = list[j]
      <3>1. list2 = Cut(s.dedList, s.dedLim[k + 1])
        BY <2>3, <2>5 DEF Dropped
      <3>2. e = End(s.dedList, s.dedLim, k)
        BY <2>1, <2>2, <2>5, LayerFacts
      <3>3. /\ Layered(Cut(s.dedList, s.dedLim[k + 1]), Cut(s.dedLim, k), k)
            /\ Len(Cut(s.dedList, s.dedLim[k + 1])) = End(s.dedList, s.dedLim, k)
            /\ \A j \in 1..End(s.dedList, s.dedLim, k) :
                 Cut(s.dedList, s.dedLim[k + 1])[j] = s.dedList[j]
        <4>1. LayerCut(s.dedList, s.dedLim, k, Cut(s.dedList, s.dedLim[k + 1]), Cut(s.dedLim, k))
          BY <2>1, <2>2, CutLayer
        <4> QED
          BY <4>1 DEF LayerCut
      <3>5. /\ Layered(list2, Cut(s.dedLim, k), k) /\ Len(list2) = e
            /\ \A j \in 1..e : list2[j] = list[j]
        BY <2>5, <3>1, <3>2, <3>3
      <3>4. DOMAIN list2 = 1..Len(list2)
        BY <2>1, <3>5, LayerFacts
      <3> QED
        BY <2>6, <3>4, <3>5, SeqFacts
    <2>8. \A a \in LeqAtoms : (\E j \in DOMAIN gone : gone[j].atom = a)
                        <=> \E j \in DOMAIN list \ (1..e) : list[j].atom = a
      <3>1. gone = Above(list, e)
        BY <2>5
      <3> HIDE <2>5
      <3> QED
        BY <2>6, <3>1, AboveCounts
    <2>9. UndoDeduced(d, s, c) = [a \in Atoms |-> IF \E j \in DOMAIN gone : gone[j].atom = a
                                                 THEN Undef ELSE d[a]]
      BY <1>2, <2>4, <2>5 DEF UndoDeduced
    <2>10. \A j \in DOMAIN list : list[j].atom \in LeqAtoms
      BY <2>6, <2>7, SeqFacts, ValueFacts
    <2>11. \A j \in DOMAIN gone : gone[j].atom \in LeqAtoms
      <3>1. gone \in Seq(LeqLits)
        BY <2>5, <2>6, AboveFacts
      <3> QED
        BY <3>1, SeqFacts, ValueFacts
    <2>12. ASSUME NEW a \in Atoms
           PROVE  IF \E j \in DOMAIN list2 : list2[j].atom = a
                  THEN \E j \in DOMAIN list2 : /\ list2[j].atom = a
                         /\ UndoDeduced(d, s, c)[a] = [by |-> "la", sgn |-> list2[j].sgn]
                  ELSE UndoDeduced(d, s, c)[a] = Undef
      <3>1. (\E j \in DOMAIN gone : gone[j].atom = a) <=> \E j \in DOMAIN list \ (1..e) : list[j].atom = a
        BY <2>8, <2>10, <2>11
      <3>2. UndoDeduced(d, s, c)[a] = IF \E j \in DOMAIN list \ (1..e) : list[j].atom = a THEN Undef ELSE d[a]
        BY <2>9, <3>1
      <3>3. CASE \E j \in DOMAIN list2 : list2[j].atom = a
        <4>1. PICK j \in DOMAIN list2 : list2[j].atom = a
          BY <3>3
        <4>2. j \in DOMAIN list /\ j \in 1..e /\ list[j].atom = a /\ list[j] = list2[j]
          BY <2>6, <2>7, <4>1
        <4>3. ~ \E i \in DOMAIN list \ (1..e) : list[i].atom = a
          BY <2>5, <4>2
        <4>4. d[a] = [by |-> "la", sgn |-> list[j].sgn]
          <5>1. PICK i \in DOMAIN list : list[i].atom = a /\ d[a] = [by |-> "la", sgn |-> list[i].sgn]
            BY <2>5, <4>2 DEF TableInv
          <5>2. i = j
            BY <2>5, <4>2, <5>1
          <5> QED
            BY <5>1, <5>2
        <4> QED
          BY <3>2, <4>1, <4>2, <4>3, <4>4
      <3>4. CASE ~ \E j \in DOMAIN list2 : list2[j].atom = a
        <4>1. CASE \E j \in DOMAIN list \ (1..e) : list[j].atom = a
          BY <3>2, <3>4, <4>1
        <4>2. CASE ~ \E j \in DOMAIN list \ (1..e) : list[j].atom = a
          <5>1. ~ \E j \in DOMAIN list : list[j].atom = a
            BY <2>7, <3>4, <4>2
          <5>2. d[a] = Undef
            BY <2>5, <5>1 DEF TableInv
          <5> QED
            BY <3>2, <3>4, <4>2, <5>2
        <4> QED
          BY <4>1, <4>2
      <3> QED
        BY <3>3, <3>4
    <2> QED
      BY <2>5, <2>12 DEF TableInv
  <1> QED
    BY <1>1, <1>2

LEMMA PopStatus ==
    ASSUME NEW s, NEW n \in Nat, ShapeInv(s, n), NEW c \in 0..n, NEW t, t = popBacktrackPoints(s, c)
    PROVE  t.status = "SAT" /\ t.built = s.built /\ t.explanation = s.explanation
  <1>1. CASE c = 0
    <2>1. t = [s EXCEPT !.status = "SAT"]
      BY <1>1 DEF popBacktrackPoints
    <2> QED
      BY <2>1 DEF ShapeInv, EmptyLA
  <1>2. CASE c # 0
    <2>1. PICK k \in 0..n - 1 : k = n - c
      BY <1>2
    <2>2. Dropped(s, t, k)
      BY <1>2, <2>1, DropFields
    <2> QED
      BY <2>2 DEF Dropped
  <1> QED
    BY <1>1, <1>2

\* The opposite of what the solver deduced is refused.
LEMMA ReasonFound ==
    ASSUME NEW s, NEW hand, NEW n, NEW d, NEW l \in LeqLits, NEW l2, l2 = Not(l), NEW hand2,
           Ready(s, hand, n, d, l2, hand2), Live(s), \E j \in DOMAIN s.dedList : s.dedList[j] = l,
           NEW t, t = LAAssert(pushBacktrackPoint(s), d, l2).la
    PROVE  /\ SolverInv(t, hand2) /\ Agree(s, t, n) /\ t.dedList = s.dedList
           /\ RefusedBy(hand, n, l2, t) /\ d[l.atom] # Undef
  <1>1. /\ n \in Nat /\ ShapeInv(s, n) /\ TableInv(s.dedList, d) /\ DeductionsInv(s, hand)
        /\ TraceInv(s, hand) /\ DOMAIN hand = 1..n /\ hand2[n + 1] = l2
    BY DEF Ready, SolverInv
  <1>2. l2 \in LeqLits /\ l2.atom = l.atom /\ l2 # l
    BY ValueFacts
  <1>3. PICK u : u = Initialized(pushBacktrackPoint(s))
    OBVIOUS
  <1>4. PICK t2 : t2 = BoundConflict(u, l2)
    OBVIOUS
  <1>5. PICK j \in DOMAIN s.dedList : s.dedList[j] = l
    OBVIOUS
  <1>6. ~ OwnDeduction(d, l2)
    <2>1. \A i \in DOMAIN s.dedList : s.dedList[i] # l2
      BY <1>1, <1>2, <1>5 DEF DeductionsInv
    <2> QED
      BY <1>1, <1>2, <2>1, OwnDeductionIff
  <1>7. d[l.atom] # Undef
    BY <1>1, <1>5, OwnDeductionIff
  <1>8. Opened(s, u)
    BY <1>1, <1>3, OpenedFacts
  <1>9. /\ u.built = TRUE
    <2>1. u.built = IF s.status = "INIT" THEN TRUE ELSE s.built
      BY <1>1, <1>3, OpenedFacts
    <2>2. s.status # "INIT" => s.built = TRUE
      BY DEF Live
    <2> QED
      BY <2>1, <2>2
  <1>10. boundUnsatisfied(u, l2)
    <2>1. Grown(s, u) /\ u.trace = s.trace
      BY <1>1, <1>8, OpenedGrown DEF Opened
    <2>2. IsExtension(s, hand, n, u, hand2)
      BY <2>1, ReadyExtension
    <2>3. TraceInv(u, hand2) /\ ShapeInv(u, n + 1) /\ n + 1 \in Nat
      BY <1>1, <2>1, <2>2, ExtTraceInv DEF IsExtension
    <2>4. PICK p \in DOMAIN hand : Weaker(hand[p], l) /\ TakenAt(s, hand, p)
      BY <1>1, <1>5 DEF DeductionsInv
    <2>5. hand[p] \in LeqLits /\ \E i \in DOMAIN s.trace : Weaker(s.trace[i], hand[p])
      BY <1>1, <2>4, BoundWitness
    <2>6. PICK i \in DOMAIN s.trace : Weaker(s.trace[i], hand[p])
      BY <2>5
    <2>7. s.trace[i] \in LeqLits
      BY <1>1, LayerFacts DEF ShapeInv
    <2>8. Weaker(s.trace[i], l)
      BY <2>4, <2>5, <2>6, <2>7, WeakerFacts
    <2>9. IF IsLower(s.trace[i]) THEN Crossed(s.trace[i], l2) ELSE Crossed(l2, s.trace[i])
      BY <2>7, <2>8, WeakerFacts
    <2>10. \E k \in DOMAIN u.trace : Crossed(l2, u.trace[k]) \/ Crossed(u.trace[k], l2)
      BY <2>1, <2>9
    <2> QED
      BY <1>2, <2>3, <2>10, UnsatisfiedIff
  <1>11. t = t2
    BY <1>3, <1>4, <1>6, <1>10, AssertCases
  <1>12. /\ SolverInv(t2, hand2) /\ boundUnsatisfied(t2, l2) /\ Agree(s, t2, n)
         /\ t2.dedList = s.dedList
         /\ t2.status = "UNSAT" /\ t2.built = u.built
         /\ \E p \in 1..n : t2.explanation = {hand[p], l2}
         /\ Infeasible(t2.explanation)
    BY <1>2, <1>3, <1>4, <1>10, AssertRefused
  <1> QED
    BY <1>7, <1>9, <1>11, <1>12 DEF RefusedBy

LEMMA AgreeTransitive ==
    ASSUME NEW s, NEW t, NEW w, NEW n \in Nat, ShapeInv(s, n), Agree(s, t, n), Agree(t, w, n)
    PROVE  Agree(s, w, n)
  <1>1. ASSUME NEW list, NEW lim, NEW list2, NEW lim2, NEW list3, NEW lim3, Layered(list, lim, n),
               SameLayers(list, lim, list2, lim2, n), SameLayers(list2, lim2, list3, lim3, n)
        PROVE  SameLayers(list, lim, list3, lim3, n)
    <2>1. End(list2, lim2, n) = End(list, lim, n)
      BY <1>1 DEF SameLayers
    <2> QED
      BY <1>1, <2>1 DEF SameLayers
  <1> QED
    BY <1>1 DEF Agree, ShapeInv

\* ... and its point taken back leaves the solver as it was.
ReasonPosted(s, hand, n, d, l, hand2, t) ==
    Ready(s, hand, n, d, l, hand2) /\ SolverInv(t, hand2) /\ Agree(s, t, n) /\ t.built = TRUE
ReasonGone(s, hand, n, d, w) ==
    /\ SolverInv(w, hand) /\ Settled(w, hand) /\ Agree(s, w, n)
    /\ w.dedList = s.dedList /\ TableInv(w.dedList, d) /\ w.status = "SAT" /\ w.built = TRUE
LEMMA ReasonUndone ==
    ASSUME NEW s, NEW hand, NEW n, NEW d, NEW l, NEW hand2, NEW t,
           ReasonPosted(s, hand, n, d, l, hand2, t),
           NEW w, w = popBacktrackPoints(t, 1)
    PROVE  ReasonGone(s, hand, n, d, w)
  <1>0. /\ Ready(s, hand, n, d, l, hand2) /\ SolverInv(t, hand2) /\ Agree(s, t, n)
        /\ t.built = TRUE
    BY DEF ReasonPosted
  <1>1. /\ n \in Nat /\ ShapeInv(s, n) /\ TableInv(s.dedList, d) /\ DOMAIN hand = 1..n /\ Len(hand) = n
        /\ DOMAIN hand2 = 1..n + 1 /\ Len(hand2) = n + 1 /\ SameHand(hand, hand2, n)
    BY <1>0 DEF Ready, SolverInv
  <1>2. ShapeInv(t, n + 1)
    BY <1>0, <1>1 DEF SolverInv
  <1>3. PICK q \in Nat : q = n + 1
    BY <1>1
  <1>4. 1 \in 0..q /\ n = q - 1 /\ 1 # 0 /\ ShapeInv(t, q) /\ DOMAIN hand2 = 1..q /\ Len(hand2) = q
    BY <1>1, <1>2, <1>3
  <1>5. SameHand(hand2, hand, n)
    BY <1>1 DEF SameHand
  <1>6. SolverInv(w, hand) /\ Settled(w, hand) /\ Agree(t, w, n)
    BY <1>0, <1>1, <1>4, <1>5, PopSolverInv
  <1>7. Agree(s, w, n)
    BY <1>0, <1>1, <1>6, AgreeTransitive
  <1>8. w.status = "SAT" /\ w.built = TRUE
    BY <1>0, <1>4, PopStatus
  <1>9. w.dedList = s.dedList
    <2>1. Layered(s.dedList, s.dedLim, n) /\ Layered(w.dedList, w.dedLim, n)
      BY <1>1, <1>6 DEF SolverInv, ShapeInv
    <2>2. SameLayers(s.dedList, s.dedLim, w.dedList, w.dedLim, n)
      BY <1>7 DEF Agree
    <2>3. End(s.dedList, s.dedLim, n) = Len(s.dedList) /\ End(w.dedList, w.dedLim, n) = Len(w.dedList)
      BY <1>1, <2>1, LayerFacts
    <2>4. End(w.dedList, w.dedLim, n) = End(s.dedList, s.dedLim, n)
      BY <1>1, <2>2 DEF SameLayers
    <2>5. /\ Len(w.dedList) = Len(s.dedList)
          /\ \A j \in 1..Len(s.dedList) : w.dedList[j] = s.dedList[j]
      BY <2>2, <2>3, <2>4 DEF SameLayers
    <2>6. s.dedList \in Seq(LeqLits) /\ w.dedList \in Seq(LeqLits)
      BY <2>1 DEF Layered
    <2> QED
      BY <2>5, <2>6, SeqEqual
  <1> QED
    BY <1>1, <1>6, <1>7, <1>8, <1>9 DEF ReasonGone


-----------------------------------------------------------------------------
(* The theory atoms of the stack, numbered.                                *)

LEMMA CountFacts ==
    ASSUME NEW st \in Seq(Atoms)
    PROVE  /\ Len(st) \in Nat /\ DOMAIN st = 1..Len(st)
           /\ \A k \in Nat : CountIn(st, k) \in Nat
           /\ CountIn(st, 0) = 0
           /\ \A k \in 1..Len(st) : CountIn(st, k) =
                IF st[k] \in TheoryAtoms THEN CountIn(st, k - 1) + 1 ELSE CountIn(st, k - 1)
           /\ \A j, k \in Nat : j <= k => CountIn(st, j) <= CountIn(st, k)
  <1> DEFINE T(k) == {j \in 1..k : st[j] \in TheoryAtoms}
  <1>1. Len(st) \in Nat /\ DOMAIN st = 1..Len(st)
    BY SeqFacts
  <1>2. ASSUME NEW k \in Nat
        PROVE  IsFiniteSet(T(k)) /\ Cardinality(T(k)) \in Nat
    <2>1. IsFiniteSet(1..k)
      BY FS_Interval
    <2>2. IsFiniteSet(T(k))
      BY <2>1, FS_Subset
    <2> QED
      BY <2>2, FS_CardinalityType
  <1>3. CountIn(st, 0) = 0
    <2>1. T(0) = {}
      OBVIOUS
    <2> QED
      BY <2>1, FS_EmptySet DEF CountIn
  <1>4. ASSUME NEW k \in 1..Len(st)
        PROVE  CountIn(st, k) = IF st[k] \in TheoryAtoms THEN CountIn(st, k - 1) + 1 ELSE CountIn(st, k - 1)
    <2>1. k \in Nat /\ k - 1 \in Nat
      BY <1>1
    <2>2. k \notin T(k - 1) /\ IsFiniteSet(T(k - 1))
      BY <1>2, <2>1
    <2>3. CASE st[k] \in TheoryAtoms
      <3>1. T(k) = T(k - 1) \cup {k}
        BY <2>1, <2>3
      <3> HIDE DEF T
      <3>2. Cardinality(T(k)) = Cardinality(T(k - 1)) + 1
        BY <2>2, <3>1, FS_AddElement
      <3> QED
        BY <2>3, <3>2 DEF CountIn, T
    <2>4. CASE st[k] \notin TheoryAtoms
      <3>1. T(k) = T(k - 1)
        BY <2>1, <2>4
      <3> QED
        BY <2>4, <3>1 DEF CountIn
    <2> QED
      BY <2>3, <2>4
  <1>5. ASSUME NEW j \in Nat, NEW k \in Nat, j <= k
        PROVE  CountIn(st, j) <= CountIn(st, k)
    <2>1. T(j) \in SUBSET T(k)
      BY <1>5
    <2> QED
      BY <1>2, <2>1, FS_Subset DEF CountIn
  <1>6. \A k \in Nat : CountIn(st, k) \in Nat
    BY <1>2 DEF CountIn
  <1> QED
    BY <1>1, <1>3, <1>4, <1>5, <1>6

LEMMA PosFacts ==
    ASSUME NEW st \in Seq(Atoms)
    PROVE  /\ \A p \in 1..CountIn(st, Len(st)) :
                /\ PosIn(st, p) \in 1..Len(st) /\ st[PosIn(st, p)] \in TheoryAtoms
                /\ CountIn(st, PosIn(st, p)) = p
           /\ \A k \in 1..Len(st) : st[k] \in TheoryAtoms =>
                CountIn(st, k) \in 1..CountIn(st, Len(st)) /\ PosIn(st, CountIn(st, k)) = k
           /\ \A j, k \in 1..Len(st) : st[j] \in TheoryAtoms /\ st[k] \in TheoryAtoms /\ j < k =>
                CountIn(st, j) < CountIn(st, k)
  <1> DEFINE S == {j \in 1..Len(st) : st[j] \in TheoryAtoms}
             N == CountIn(st, Len(st))
  <1>1. Len(st) \in Nat /\ DOMAIN st = 1..Len(st)
    BY SeqFacts
  <1>2. S \in SUBSET Int /\ IsFiniteSet(S)
    <2>1. IsFiniteSet(1..Len(st)) /\ S \in SUBSET (1..Len(st))
      BY <1>1, FS_Interval
    <2>2. IsFiniteSet(S)
      BY <2>1, FS_Subset
    <2> QED
      BY <1>1, <2>1, <2>2
  <1>3. N = Cardinality(S)
    BY DEF CountIn
  <1>4. ASSUME NEW k \in S
        PROVE  Rank(S, k) = CountIn(st, k)
    <2>1. {y \in S : y <= k} = {j \in 1..k : st[j] \in TheoryAtoms}
      BY <1>1
    <2> QED
      BY <2>1 DEF Rank, CountIn
  <1>5. \A j \in S : \A k \in S : j < k => CountIn(st, j) < CountIn(st, k)
    <2>1. \A j, k \in S : j < k => Rank(S, j) < Rank(S, k)
      BY <1>2, RankFacts
    <2> QED
      BY <1>4, <2>1
  <1>6. \A k \in S : CountIn(st, k) \in 1..N
    BY <1>2, <1>3, <1>4, RankFacts
  <1>7. \A p \in 1..N : \E k \in S : CountIn(st, k) = p
    BY <1>2, <1>3, <1>4, RankFacts
  <1>8. \A j \in S : \A k \in S : CountIn(st, j) = CountIn(st, k) => j = k
    <2>1. \A k \in S : CountIn(st, k) \in Int
      BY <1>1, CountFacts
    <2>2. \A j \in S : \A k \in S : j < k \/ k < j \/ j = k
      BY <1>1
    <2> QED
      BY <1>5, <2>1, <2>2
  <1>9. \A p \in 1..N : PosIn(st, p) \in S /\ CountIn(st, PosIn(st, p)) = p
    <2> TAKE p \in 1..N
    <2>1. \E i \in DOMAIN st : st[i] \in TheoryAtoms /\ CountIn(st, i) = p
      BY <1>1, <1>7
    <2>2. /\ PosIn(st, p) \in DOMAIN st /\ st[PosIn(st, p)] \in TheoryAtoms
          /\ CountIn(st, PosIn(st, p)) = p
      BY <2>1 DEF PosIn
    <2> QED
      BY <1>1, <2>2
  <1>10. \A k \in S : PosIn(st, CountIn(st, k)) = k
    BY <1>6, <1>8, <1>9
  <1> QED
    BY <1>5, <1>6, <1>9, <1>10

\* The literals of the hand.
LEMMA HandFacts ==
    ASSUME NEW st \in Seq(Atoms), NEW tr, NEW hand, hand = HandIn(st, tr)
    PROVE  /\ CountIn(st, Len(st)) \in Nat /\ DOMAIN hand = 1..CountIn(st, Len(st))
           /\ Len(hand) = CountIn(st, Len(st))
           /\ \A p \in DOMAIN hand : hand[p] = Lit(tr[PosIn(st, p)])
  <1>1. PICK N \in Nat : N = CountIn(st, Len(st))
    BY CountFacts
  <1>2. DOMAIN hand = 1..N /\ \A p \in 1..N : hand[p] = Lit(tr[PosIn(st, p)])
    BY <1>1 DEF HandIn
  <1>3. hand \in [1..N -> {hand[p] : p \in 1..N}]
    BY <1>1 DEF HandIn
  <1>4. hand \in Seq({hand[p] : p \in 1..N})
    BY <1>3, SeqDef
  <1>5. Len(hand) \in Nat /\ DOMAIN hand = 1..Len(hand)
    BY <1>4, LenProperties
  <1>6. PICK M \in Nat : M = Len(hand)
    BY <1>5
  <1>7. \A i \in Nat : i \in 1..M <=> i \in 1..N
    BY <1>2, <1>5, <1>6
  <1>8. M = N
    BY <1>7
  <1> QED
    BY <1>1, <1>2, <1>6, <1>8

LEMMA HandAt ==
    ASSUME NEW st \in Seq(Atoms), NEW tr, NEW k \in 1..Len(st), st[k] \in TheoryAtoms
    PROVE  /\ CountIn(st, k) \in DOMAIN HandIn(st, tr)
           /\ HandIn(st, tr)[CountIn(st, k)] = Lit(tr[k])
  <1>1. PICK p : p = CountIn(st, k)
    OBVIOUS
  <1>2. p \in 1..CountIn(st, Len(st)) /\ PosIn(st, p) = k
    BY <1>1, PosFacts
  <1> QED
    BY <1>1, <1>2, HandFacts

-----------------------------------------------------------------------------
(* A shorter stack, over a trail that is the same as far as it goes.       *)

Shorter(st2, st) ==
    st2 \in Seq(Atoms) /\ st \in Seq(Atoms) /\ Len(st2) <= Len(st)
    /\ \A k \in 1..Len(st2) : st2[k] = st[k]
SameBelow(tr, tr2, n) == \A k \in 1..n : tr2[k] = tr[k]

LEMMA ShorterCount ==
    ASSUME NEW st2, NEW st, Shorter(st2, st)
    PROVE  /\ \A k \in 0..Len(st2) : CountIn(st2, k) = CountIn(st, k)
           /\ CountIn(st2, Len(st2)) <= CountIn(st, Len(st))
           /\ \A p \in 1..CountIn(st2, Len(st2)) :
                PosIn(st2, p) = PosIn(st, p) /\ PosIn(st2, p) \in 1..Len(st2)
  <1>1. /\ st2 \in Seq(Atoms) /\ st \in Seq(Atoms) /\ Len(st2) \in Nat /\ Len(st) \in Nat
        /\ Len(st2) <= Len(st) /\ \A k \in 1..Len(st2) : st2[k] = st[k]
    BY SeqFacts DEF Shorter
  <1>2. ASSUME NEW k \in 0..Len(st2)
        PROVE  CountIn(st2, k) = CountIn(st, k)
    <2>1. \A j \in 1..k : st2[j] = st[j]
      BY <1>1
    <2>2. {j \in 1..k : st2[j] \in TheoryAtoms} = {j \in 1..k : st[j] \in TheoryAtoms}
      BY <2>1
    <2> QED
      BY <2>2 DEF CountIn
  <1>3. PICK m \in Nat, n \in Nat : m = Len(st2) /\ n = Len(st) /\ m <= n
    BY <1>1
  <1>4. CountIn(st2, m) = CountIn(st, m) /\ CountIn(st, m) <= CountIn(st, n)
    BY <1>1, <1>2, <1>3, CountFacts
  <1>5. ASSUME NEW p \in 1..CountIn(st2, m)
        PROVE  PosIn(st2, p) = PosIn(st, p) /\ PosIn(st2, p) \in 1..m
    <2>1. PICK k \in 1..m : k = PosIn(st2, p) /\ st2[k] \in TheoryAtoms /\ CountIn(st2, k) = p
      BY <1>1, <1>3, <1>5, PosFacts
    <2>2. k \in 1..n /\ st[k] \in TheoryAtoms /\ CountIn(st, k) = p
      BY <1>1, <1>2, <1>3, <2>1
    <2>3. PosIn(st, p) = k
      BY <1>1, <1>3, <2>2, PosFacts
    <2> QED
      BY <2>1, <2>3
  <1> QED
    BY <1>2, <1>3, <1>4, <1>5

LEMMA ShorterHand ==
    ASSUME NEW st2, NEW st, Shorter(st2, st), NEW tr, NEW tr2, SameBelow(tr, tr2, Len(st2))
    PROVE  SameHand(HandIn(st, tr), HandIn(st2, tr2), CountIn(st2, Len(st2)))
  <1>1. st2 \in Seq(Atoms) /\ st \in Seq(Atoms)
    BY DEF Shorter
  <1>2. PICK h, h2 : h = HandIn(st, tr) /\ h2 = HandIn(st2, tr2)
    OBVIOUS
  <1>3. PICK N \in Nat, N2 \in Nat : N = CountIn(st, Len(st)) /\ N2 = CountIn(st2, Len(st2)) /\ N2 <= N
    BY <1>1, CountFacts, ShorterCount
  <1>4. ASSUME NEW p \in 1..N2
        PROVE  h2[p] = h[p]
    <2>1. PosIn(st2, p) = PosIn(st, p) /\ PosIn(st2, p) \in 1..Len(st2)
      BY <1>3, <1>4, ShorterCount
    <2>2. h2[p] = Lit(tr2[PosIn(st2, p)])
      BY <1>1, <1>2, <1>3, <1>4, HandFacts
    <2>3. p \in 1..N
      BY <1>3, <1>4
    <2>4. h[p] = Lit(tr[PosIn(st, p)])
      BY <1>1, <1>2, <1>3, <2>3, HandFacts
    <2>5. tr2[PosIn(st2, p)] = tr[PosIn(st, p)]
      BY <2>1 DEF SameBelow
    <2> QED
      BY <2>2, <2>4, <2>5
  <1> QED
    BY <1>2, <1>3, <1>4 DEF SameHand

\* What was deduced by then is the same as long as the solver agrees.
LEMMA SameDeduced ==
    ASSUME NEW st2, NEW st, Shorter(st2, st),
           NEW s, NEW s2, NEW n, NEW n2, n = CountIn(st, Len(st)), n2 = CountIn(st2, Len(st2)),
           ShapeInv(s, n), ShapeInv(s2, n2), Agree(s, s2, n2), NEW m, NEW k \in 0..Len(st2)
    PROVE  DeducedBy(s2, st2, m, k) <=> DeducedBy(s, st, m, k)
  <1>1. st2 \in Seq(Atoms) /\ st \in Seq(Atoms) /\ Len(st2) \in Nat /\ n2 \in Nat /\ n \in Nat /\ n2 <= n
    BY CountFacts, ShorterCount, SeqFacts DEF Shorter
  <1>2. PICK p \in Nat : p = CountIn(st2, k) /\ p = CountIn(st, k) /\ p <= n2
    BY <1>1, CountFacts, ShorterCount
  <1>3. SameLayers(s.dedList, s.dedLim, s2.dedList, s2.dedLim, n2) /\ Layered(s.dedList, s.dedLim, n)
    BY DEF Agree, ShapeInv
  <1>4. End(s2.dedList, s2.dedLim, p) = End(s.dedList, s.dedLim, p)
    BY <1>1, <1>2, <1>3 DEF SameLayers
  <1>5. \A j \in 1..End(s.dedList, s.dedLim, p) : s2.dedList[j] = s.dedList[j]
    <2>1. End(s.dedList, s.dedLim, p) \in Nat /\ End(s.dedList, s.dedLim, n2) \in Nat
          /\ End(s.dedList, s.dedLim, p) <= End(s.dedList, s.dedLim, n2)
      <3>1. p \in 0..n /\ n2 \in 0..n
        BY <1>1, <1>2
      <3>2. Len(s.dedList) \in Nat
        BY <1>1, <1>3, LayerFacts
      <3>3. /\ End(s.dedList, s.dedLim, p) \in 0..Len(s.dedList)
            /\ End(s.dedList, s.dedLim, n2) \in 0..Len(s.dedList)
        BY <1>1, <1>3, <3>1, LayerFacts
      <3>4. End(s.dedList, s.dedLim, p) <= End(s.dedList, s.dedLim, n2)
        BY <1>1, <1>2, <1>3, <3>1, LayerFacts
      <3> QED
        BY <3>2, <3>3, <3>4
    <2>2. \A j \in 1..End(s.dedList, s.dedLim, n2) : s2.dedList[j] = s.dedList[j]
      BY <1>3 DEF SameLayers
    <2> QED
      BY <2>1, <2>2
  <1> QED
    BY <1>2, <1>4, <1>5 DEF DeducedBy

LEMMA DeducedMore ==
    ASSUME NEW st \in Seq(Atoms), NEW s, ShapeInv(s, CountIn(st, Len(st))), NEW m
    PROVE  /\ \A j, k \in 0..Len(st) : j <= k /\ DeducedBy(s, st, m, j) => DeducedBy(s, st, m, k)
           /\ DeducedBy(s, st, m, Len(st)) <=> \E j \in DOMAIN s.dedList : s.dedList[j] = m
  <1>1. PICK N \in Nat : N = CountIn(st, Len(st))
    BY CountFacts
  <1>2. Layered(s.dedList, s.dedLim, N) /\ Len(st) \in Nat
    BY <1>1, SeqFacts DEF ShapeInv
  <1>3. /\ DOMAIN s.dedList = 1..Len(s.dedList) /\ End(s.dedList, s.dedLim, N) = Len(s.dedList)
        /\ Len(s.dedList) \in Nat
    BY <1>2, LayerFacts
  <1>4. ASSUME NEW j \in 0..Len(st), NEW k \in 0..Len(st), j <= k, DeducedBy(s, st, m, j)
        PROVE  DeducedBy(s, st, m, k)
    <2>1. PICK p \in 0..N, q \in 0..N : p = CountIn(st, j) /\ q = CountIn(st, k) /\ p <= q
      BY <1>1, <1>2, <1>4, CountFacts
    <2>2. End(s.dedList, s.dedLim, p) \in 0..Len(s.dedList) /\ End(s.dedList, s.dedLim, q) \in 0..Len(s.dedList)
      BY <1>2, LayerFacts
    <2>3. End(s.dedList, s.dedLim, p) <= End(s.dedList, s.dedLim, q)
      BY <1>2, <2>1, LayerFacts
    <2> QED
      BY <1>3, <1>4, <2>1, <2>2, <2>3 DEF DeducedBy
  <1>5. DeducedBy(s, st, m, Len(st)) <=> \E j \in DOMAIN s.dedList : s.dedList[j] = m
    BY <1>1, <1>3 DEF DeducedBy
  <1> QED
    BY <1>4, <1>5

\* Where a deduction comes from: a literal of the stack, not deduced itself.
LEMMA DeducedFrom ==
    ASSUME NEW st \in Seq(Atoms), NEW tr, NEW s, SolverInv(s, HandIn(st, tr)),
           NEW m, NEW k \in 0..Len(st), DeducedBy(s, st, m, k)
    PROVE  /\ m \in LeqLits
           /\ \E i \in 1..k : /\ st[i] \in TheoryAtoms /\ Lit(tr[i]) \in LeqLits /\ Weaker(Lit(tr[i]), m)
                              /\ DeducedBy(s, st, m, i)
                              /\ \A q \in 0..i - 1 : ~ DeducedBy(s, st, Lit(tr[i]), q)
  <1>1. PICK h : h = HandIn(st, tr)
    OBVIOUS
  <1>2. PICK N \in Nat : N = CountIn(st, Len(st)) /\ DOMAIN h = 1..N /\ Len(h) = N
    BY <1>1, HandFacts
  <1>3. Layered(s.dedList, s.dedLim, N) /\ DeductionsInv(s, h) /\ ShapeInv(s, N)
    BY <1>1, <1>2 DEF SolverInv, ShapeInv
  <1>4. PICK j \in 1..End(s.dedList, s.dedLim, CountIn(st, k)) : s.dedList[j] = m
    BY DEF DeducedBy
  <1>5. PICK n \in 0..N : n = CountIn(st, k)
    BY <1>2, CountFacts, SeqFacts
  <1>6. j \in DOMAIN s.dedList /\ j \in Nat /\ m \in LeqLits
    <2>1. End(s.dedList, s.dedLim, n) \in 0..Len(s.dedList) /\ Len(s.dedList) \in Nat
          /\ DOMAIN s.dedList = 1..Len(s.dedList)
      BY <1>3, LayerFacts
    <2>2. j \in 1..Len(s.dedList)
      BY <1>4, <1>5, <2>1
    <2>3. s.dedList[j] \in LeqLits
      BY <1>3, <2>2, LayerFacts
    <2> QED
      BY <1>4, <2>1, <2>2, <2>3
  <1>7. PICK p \in 1..N : /\ j \in AddedBy(s.dedList, s.dedLim, p) /\ Weaker(h[p], m)
                          /\ TakenAt(s, h, p)
    BY <1>2, <1>3, <1>4, <1>6 DEF DeductionsInv
  <1>8. p \in 1..N /\ p - 1 \in 0..N /\ End(s.dedList, s.dedLim, p - 1) < j /\ j <= End(s.dedList, s.dedLim, p)
    BY <1>3, <1>7, LayerFacts
  <1>9. p <= n
    <2>1. ~ (p <= n) => n <= p - 1
      BY <1>5, <1>8
    <2>2. n <= p - 1 => End(s.dedList, s.dedLim, n) <= End(s.dedList, s.dedLim, p - 1)
      BY <1>3, <1>5, <1>8, LayerFacts
    <2>3. End(s.dedList, s.dedLim, n) \in 0..Len(s.dedList) /\ Len(s.dedList) \in Nat
          /\ End(s.dedList, s.dedLim, p - 1) \in 0..Len(s.dedList)
      BY <1>3, <1>8, LayerFacts
    <2>4. j <= End(s.dedList, s.dedLim, n)
      BY <1>4, <1>5, <2>3
    <2> QED
      BY <1>6, <1>8, <2>1, <2>2, <2>3, <2>4
  <1>10. PICK i \in 1..Len(st) : i = PosIn(st, p) /\ st[i] \in TheoryAtoms /\ CountIn(st, i) = p
    BY <1>2, PosFacts
  <1>11. i \in 1..k
    <2>1. k \in Nat /\ i \in Nat /\ i >= 1
      BY SeqFacts
    <2>2. PICK q \in Nat : q = i - 1
      BY <2>1
    <2>3. CountIn(st, i) = CountIn(st, q) + 1 /\ CountIn(st, q) \in Nat
      BY <1>10, <2>2, CountFacts
    <2>4. k < i => k <= q
      BY <2>1, <2>2
    <2>5. k < i => CountIn(st, k) <= CountIn(st, q)
      BY <2>1, <2>4, CountFacts
    <2> QED
      BY <1>5, <1>9, <1>10, <2>1, <2>3, <2>5
  <1>12. h[p] = Lit(tr[i])
    BY <1>1, <1>2, <1>10, HandFacts
  <1>13. h[p] \in LeqLits
    BY <1>2, <1>3, <1>7, BoundWitness
  <1>14. DeducedBy(s, st, m, i)
    BY <1>4, <1>6, <1>8, <1>10 DEF DeducedBy
  <1>15. ASSUME NEW q \in 0..i - 1, DeducedBy(s, st, Lit(tr[i]), q)
         PROVE  FALSE
    <2>1. PICK a \in 1..End(s.dedList, s.dedLim, CountIn(st, q)) : s.dedList[a] = h[p]
      BY <1>12, <1>15 DEF DeducedBy
    <2>2. PICK b \in 0..N : b = CountIn(st, q) /\ b <= p - 1
      <3>1. q \in Nat /\ i \in Nat /\ i - 1 \in Nat /\ q <= i - 1
        BY SeqFacts
      <3>2. CountIn(st, q) <= CountIn(st, i - 1) /\ CountIn(st, i) = CountIn(st, i - 1) + 1
        BY <1>10, <3>1, CountFacts
      <3>3. CountIn(st, q) \in Nat /\ CountIn(st, i - 1) \in Nat
        BY <3>1, CountFacts
      <3> QED
        BY <1>8, <1>10, <3>2, <3>3
    <2>3. End(s.dedList, s.dedLim, b) <= End(s.dedList, s.dedLim, p - 1)
      BY <1>3, <1>8, <2>2, LayerFacts
    <2>4. End(s.dedList, s.dedLim, b) \in 0..Len(s.dedList) /\ Len(s.dedList) \in Nat
          /\ End(s.dedList, s.dedLim, p - 1) \in 0..Len(s.dedList)
      BY <1>3, <1>8, LayerFacts
    <2>5. a \in 1..End(s.dedList, s.dedLim, p - 1)
      BY <2>1, <2>2, <2>3, <2>4
    <2> QED
      BY <1>7, <2>1, <2>5 DEF TakenAt
  <1> QED
    BY <1>6, <1>7, <1>10, <1>11, <1>12, <1>13, <1>14, <1>15

-----------------------------------------------------------------------------
(* Backtracking to the first n entries of the stack.                       *)

CountAbove(st, n) == Cardinality({k \in n + 1 .. Len(st) : st[k] \in TheoryAtoms})

LEMMA CutStack ==
    ASSUME NEW st \in Seq(Atoms), NEW n \in Nat, NEW st2, st2 = Cut(st, n)
    PROVE  /\ Shorter(st2, st) /\ Len(st2) = Least(n, Len(st))
           /\ CountAbove(st, n) = CountIn(st, Len(st)) - CountIn(st2, Len(st2))
  <1>1. Len(st) \in Nat /\ DOMAIN st = 1..Len(st)
    BY SeqFacts
  <1>0. PICK L \in Nat : L = Len(st)
    BY <1>1
  <1>2. Shorter(st2, st) /\ Len(st2) = Least(n, Len(st))
    <2>1. CASE n < L
      <3>1. n \in 0..L /\ st2 = SubSeq(st, 1, n)
        BY <1>0, <2>1 DEF Cut
      <3>2. st2 \in Seq(Atoms) /\ Len(st2) = n /\ \A i \in 1..n : st2[i] = st[i]
        BY <1>0, <3>1, PrefixFacts
      <3>3. n = Least(n, L) /\ n <= L
        BY <2>1 DEF Least
      <3> QED
        BY <1>0, <3>2, <3>3 DEF Shorter
    <2>2. CASE ~ (n < L)
      <3>1. st2 = st
        BY <1>0, <2>2 DEF Cut
      <3>2. Least(n, L) = L
        BY <2>2 DEF Least
      <3>3. Shorter(st, st)
        BY <1>0 DEF Shorter
      <3> QED
        BY <1>0, <3>1, <3>2, <3>3
    <2> QED
      BY <2>1, <2>2
  <1>3. PICK k \in 0..Len(st) : k = Len(st2) /\ CountIn(st2, Len(st2)) = CountIn(st, k)
    <2>1. Len(st2) \in 0..Len(st) /\ Len(st2) \in 0..Len(st2)
      BY <1>1, <1>2 DEF Least
    <2> QED
      BY <1>2, <2>1, ShorterCount
  <1>4. CountAbove(st, n) = CountIn(st, Len(st)) - CountIn(st, k)
    <2> DEFINE A == {j \in 1..Len(st) : st[j] \in TheoryAtoms}
               B == {j \in 1..k : st[j] \in TheoryAtoms}
    <2>1. {j \in n + 1 .. Len(st) : st[j] \in TheoryAtoms} = A \ B
      <3>1. \A j \in 1..Len(st) : j \in n + 1 .. Len(st) <=> ~ (j \in 1..k)
        <4>1. k = IF n <= L THEN n ELSE L
          BY <1>0, <1>2, <1>3 DEF Least
        <4> QED
          BY <1>0, <4>1
      <3>2. \A j \in n + 1 .. Len(st) : j \in 1..Len(st)
        BY <1>1
      <3> QED
        BY <3>1, <3>2
    <2>2. IsFiniteSet(A) /\ B \subseteq A
      <3>1. IsFiniteSet(1..Len(st)) /\ A \in SUBSET (1..Len(st))
        BY <1>1, FS_Interval
      <3>2. IsFiniteSet(A)
        BY <3>1, FS_Subset
      <3> QED
        BY <1>1, <3>2
    <2>3. A \cap B = B
      BY <2>2
    <2> HIDE DEF A, B
    <2>4. Cardinality(A \ B) = Cardinality(A) - Cardinality(B)
      BY <2>2, <2>3, FS_Difference
    <2>5. Cardinality(A) = CountIn(st, Len(st)) /\ Cardinality(B) = CountIn(st, k)
      BY DEF A, B, CountIn
    <2> QED
      BY <2>1, <2>4, <2>5 DEF CountAbove
  <1> QED
    BY <1>2, <1>3, <1>4

LEMMA BacktrackLinked ==
    ASSUME NEW st \in Seq(Atoms), NEW tr, NEW s, NEW d, Linked(s, d, st, tr),
           NEW n \in Nat, NEW st2, st2 = Cut(st, n), RefusedIn(s, st, tr) => n < Len(st),
           NEW c, c = CountAbove(st, n), NEW s2, s2 = popBacktrackPoints(s, c),
           NEW tr2, SameBelow(tr, tr2, Len(st2))
    PROVE  /\ SolverInv(s2, HandIn(st2, tr2)) /\ Settled(s2, HandIn(st2, tr2))
           /\ TableInv(s2.dedList, UndoDeduced(d, s, c))
           /\ Agree(s, s2, CountIn(st2, Len(st2)))
           /\ s2.status = "SAT" /\ s2.built = s.built /\ s2.explanation = s.explanation
  <1>1. PICK h, h2 : h = HandIn(st, tr) /\ h2 = HandIn(st2, tr2)
    OBVIOUS
  <1>2. Shorter(st2, st) /\ Len(st2) = Least(n, Len(st)) /\ st2 \in Seq(Atoms) /\ Len(st) \in Nat
    BY CutStack, SeqFacts DEF Shorter
  <1>3. PICK N \in Nat, N2 \in Nat : N = CountIn(st, Len(st)) /\ N2 = CountIn(st2, Len(st2)) /\ N2 <= N
    BY <1>2, CountFacts, ShorterCount
  <1>4. c = N - N2 /\ c \in 0..N /\ N2 = N - c
    <2>1. c = N - N2
      BY <1>3, CutStack
    <2> QED
      BY <1>3, <2>1
  <1>5. DOMAIN h = 1..N /\ Len(h) = N /\ DOMAIN h2 = 1..N2 /\ Len(h2) = N2 /\ SameHand(h, h2, N2)
    BY <1>1, <1>2, <1>3, HandFacts, ShorterHand
  <1>6. SolverInv(s, h) /\ TableInv(s.dedList, d) /\ (Settled(s, h) \/ RefusedIn(s, st, tr))
    BY <1>1 DEF Linked
  <1>7. c # 0 \/ Settled(s, h)
    <2>1. CASE RefusedIn(s, st, tr)
      <3>1. n < Len(st) /\ Len(st) \in 1..Len(st) /\ st[Len(st)] \in TheoryAtoms
        <4>1. n < Len(st)
          BY <2>1
        <4>2. st[Len(st)] \in LeqAtoms
          BY <2>1 DEF RefusedIn
        <4> QED
          BY <1>2, <4>1, <4>2, AtomsAssumption
      <3>2. Len(st2) = n
        BY <1>2, <3>1 DEF Least
      <3>3. n \in 0..Len(st2)
        BY <3>2
      <3>4. CountIn(st2, n) = CountIn(st, n)
        BY <1>2, <3>3, ShorterCount
      <3>5. PICK q \in Nat : q = Len(st) - 1 /\ n <= q
        BY <1>2, <3>1
      <3>6. N2 = CountIn(st, n) /\ CountIn(st, n) <= CountIn(st, q)
        BY <1>2, <1>3, <3>1, <3>2, <3>4, <3>5, CountFacts
      <3>7. N = CountIn(st, q) + 1
        BY <1>3, <3>1, <3>5, CountFacts
      <3>8. CountIn(st, q) \in Nat
        BY <3>5, CountFacts
      <3> QED
        BY <1>3, <1>4, <3>6, <3>7, <3>8
    <2> QED
      BY <1>6, <2>1
  <1>8. SolverInv(s2, h2) /\ Settled(s2, h2) /\ Agree(s, s2, N2)
    BY <1>3, <1>4, <1>5, <1>6, <1>7, PopSolverInv
  <1>9. ShapeInv(s, N) /\ \A i, j \in DOMAIN s.dedList : s.dedList[i].atom = s.dedList[j].atom => i = j
    BY <1>5, <1>6 DEF SolverInv, DeductionsInv
  <1>10. TableInv(s2.dedList, UndoDeduced(d, s, c))
    BY <1>4, <1>6, <1>9, UndoTable
  <1>11. s2.status = "SAT" /\ s2.built = s.built /\ s2.explanation = s.explanation
    BY <1>4, <1>9, PopStatus
  <1> QED
    BY <1>1, <1>3, <1>8, <1>10, <1>11

-----------------------------------------------------------------------------
(* The next literal of the trail handed over.                              *)

LEMMA FunctionLength ==
    ASSUME NEW N \in Nat, NEW S, NEW f \in [1..N -> S]
    PROVE  f \in Seq(S) /\ Len(f) = N
  <1>1. f \in Seq(S)
    BY SeqDef
  <1>2. PICK M \in Nat : M = Len(f) /\ DOMAIN f = 1..M
    BY <1>1, LenProperties
  <1>3. \A i \in Nat : i \in 1..M <=> i \in 1..N
    BY <1>2
  <1>4. M = N
    BY <1>3
  <1> QED
    BY <1>1, <1>2, <1>4

LEMMA TrailLits ==
    ASSUME NEW tr, NEW kn, TrailOK(tr, kn), kn \subseteq LeqAtoms, NEW k \in 1..Len(tr)
    PROVE  /\ Len(tr) \in Nat /\ DOMAIN tr = 1..Len(tr) /\ tr[k] \in Entries
           /\ Lit(tr[k]) \in Literals /\ Lit(tr[k]).atom = tr[k].atom /\ tr[k].atom \in Atoms
           /\ tr[k].atom \in LeqAtoms => Lit(tr[k]) \in LeqLits /\ tr[k].atom \in kn
  <1>1. Len(tr) \in Nat /\ DOMAIN tr = 1..Len(tr) /\ tr[k] \in Entries
    BY SeqFacts DEF TrailOK
  <1>2. tr[k].atom \in Atoms /\ tr[k].sgn \in BOOLEAN
    BY <1>1 DEF Entries
  <1>3. tr[k].atom \in LeqAtoms => tr[k].atom \in kn
    BY <1>1 DEF TrailOK
  <1>4. Lit(tr[k]) = [atom |-> tr[k].atom, sgn |-> tr[k].sgn]
    BY DEF Lit
  <1> QED
    BY <1>1, <1>2, <1>3, <1>4 DEF Literals, LeqLits

LEMMA GrowStack ==
    ASSUME NEW st \in Seq(Atoms), NEW a \in Atoms, NEW st2, st2 = Append(st, a)
    PROVE  /\ Shorter(st, st2) /\ Len(st2) = Len(st) + 1 /\ st2[Len(st) + 1] = a
           /\ CountIn(st2, Len(st2)) =
                IF a \in TheoryAtoms THEN CountIn(st, Len(st)) + 1 ELSE CountIn(st, Len(st))
  <1>1. /\ st2 \in Seq(Atoms) /\ Len(st2) = Len(st) + 1 /\ Len(st) \in Nat
        /\ \A i \in 1..Len(st) : st2[i] = st[i] /\ st2[Len(st) + 1] = a
    BY AppendFacts, SeqFacts
  <1>2. st2[Len(st) + 1] = a
    BY AppendFacts
  <1>3. Shorter(st, st2)
    BY <1>1 DEF Shorter
  <1>4. PICK L \in Nat, k \in Nat : L = Len(st) /\ k = L + 1 /\ k = Len(st2) /\ k - 1 = L
    BY <1>1
  <1>5. CountIn(st2, k) = IF a \in TheoryAtoms THEN CountIn(st2, L) + 1 ELSE CountIn(st2, L)
    <2>1. k \in 1..Len(st2) /\ st2[k] = a
      BY <1>2, <1>4
    <2> QED
      BY <1>1, <1>4, <2>1, CountFacts
  <1>6. CountIn(st2, L) = CountIn(st, L)
    BY <1>3, <1>4, ShorterCount
  <1> QED
    BY <1>1, <1>2, <1>3, <1>4, <1>5, <1>6

LEMMA GrowStackOK ==
    ASSUME NEW tr, NEW kn, TrailOK(tr, kn), NEW st, StackOK(st, tr), Len(st) < Len(tr),
           NEW a, a = tr[Len(st) + 1].atom, NEW st2, st2 = Append(st, a)
    PROVE  a \in Atoms /\ StackOK(st2, tr)
  <1>1. st \in Seq(Atoms) /\ tr \in Seq(Entries)
    BY DEF StackOK, TrailOK
  <1>2. PICK L \in Nat, k \in Nat : L = Len(st) /\ k = L + 1 /\ k \in 1..Len(tr)
    BY <1>1, SeqFacts
  <1>3. a \in Atoms
    <2>1. tr[k] \in Entries
      BY <1>1, <1>2, SeqFacts
    <2>2. a = tr[k].atom
      BY <1>2
    <2> QED
      BY <2>1, <2>2 DEF Entries
  <1>4. /\ st2 \in Seq(Atoms) /\ Len(st2) = k /\ DOMAIN st2 = 1..k
        /\ \A i \in 1..L : st2[i] = st[i]
        /\ st2[k] = a
    BY <1>1, <1>2, <1>3, AppendFacts
  <1>5. \A i \in DOMAIN st2 : st2[i] = tr[i].atom
    <2>1. \A i \in 1..L : st[i] = tr[i].atom
      BY <1>1, <1>2, SeqFacts DEF StackOK
    <2>2. \A i \in 1..k : i \in 1..L \/ i = k
      BY <1>2
    <2> QED
      BY <1>2, <1>4, <2>1, <2>2
  <1>6. Len(st2) <= Len(tr)
    BY <1>1, <1>2, <1>4, SeqFacts
  <1> QED
    BY <1>3, <1>4, <1>5, <1>6 DEF StackOK

\* The literal is new to the solver.
LEMMA NewLiteral ==
    ASSUME NEW tr, NEW kn, TrailOK(tr, kn), NEW st, StackOK(st, tr),
           NEW i \in 1..Len(tr), i > Len(st), NEW hand, hand = HandIn(st, tr), NEW p \in DOMAIN hand
    PROVE  hand[p].atom # tr[i].atom
  <1>1. st \in Seq(Atoms) /\ tr \in Seq(Entries)
    BY DEF StackOK, TrailOK
  <1>2. PICK N \in Nat : N = CountIn(st, Len(st)) /\ DOMAIN hand = 1..N
    BY <1>1, HandFacts
  <1>3. PICK k \in 1..Len(st) : k = PosIn(st, p)
    BY <1>1, <1>2, PosFacts
  <1>4. hand[p] = Lit(tr[k])
    BY <1>1, <1>3, HandFacts
  <1>5. hand[p].atom = tr[k].atom
    BY <1>4 DEF Lit
  <1>6. k \in DOMAIN tr /\ i \in DOMAIN tr /\ k # i
    <2>1. Len(st) \in Nat /\ Len(tr) \in Nat /\ Len(st) <= Len(tr) /\ DOMAIN tr = 1..Len(tr)
      BY <1>1, SeqFacts DEF StackOK
    <2> QED
      BY <2>1
  <1> QED
    BY <1>5, <1>6 DEF TrailOK

LEMMA GrowReady ==
    ASSUME KnownInv, NEW tr, TrailOK(tr, known), NEW st, StackOK(st, tr), Len(st) < Len(tr),
           NEW s, NEW d, Linked(s, d, st, tr), ~ RefusedIn(s, st, tr),
           NEW l, l = Lit(tr[Len(st) + 1]), l.atom \in TheoryAtoms, NEW st2, st2 = Append(st, l.atom)
    PROVE  Ready(s, HandIn(st, tr), CountIn(st, Len(st)), d, l, HandIn(st2, tr))
  <1>1. /\ st \in Seq(Atoms) /\ l.atom = tr[Len(st) + 1].atom
    BY DEF StackOK, Lit
  <1>2. l.atom \in Atoms /\ StackOK(st2, tr)
    BY <1>1, GrowStackOK
  <1>3. st2 \in Seq(Atoms)
    BY <1>2 DEF StackOK
  <1>4. PICK h, h2 : h = HandIn(st, tr) /\ h2 = HandIn(st2, tr)
    OBVIOUS
  <1>5. PICK N \in Nat : N = CountIn(st, Len(st))
    BY <1>1, CountFacts
  <1>6. /\ Shorter(st, st2) /\ Len(st2) = Len(st) + 1 /\ st2[Len(st) + 1] = l.atom
        /\ CountIn(st2, Len(st2)) = N + 1
    BY <1>1, <1>2, <1>5, GrowStack
  <1>7. DOMAIN h = 1..N /\ Len(h) = N /\ DOMAIN h2 = 1..N + 1 /\ Len(h2) = N + 1
    BY <1>1, <1>3, <1>4, <1>5, <1>6, HandFacts
  <1>8. SameHand(h, h2, N)
    <2>1. SameBelow(tr, tr, Len(st))
      BY DEF SameBelow
    <2>2. SameHand(h2, h, N)
      BY <1>4, <1>5, <1>6, <2>1, ShorterHand
    <2> QED
      BY <2>2 DEF SameHand
  <1>9. h2[N + 1] = l
    <2>1. PICK k \in 1..Len(st2) : k = Len(st) + 1 /\ k = Len(st2)
      BY <1>1, <1>6, SeqFacts
    <2>2. st2[k] \in TheoryAtoms
      BY <1>6, <2>1
    <2>3. h2[CountIn(st2, k)] = Lit(tr[k])
      <3>1. HandIn(st2, tr)[CountIn(st2, k)] = Lit(tr[k])
        BY <1>3, <2>2, HandAt
      <3> QED
        BY <1>4, <3>1
    <2> QED
      BY <1>6, <2>1, <2>3
  <1>10. \A p \in 1..N : h[p].atom # l.atom
    <2>1. PICK k \in 1..Len(tr) : k = Len(st) + 1 /\ k > Len(st)
      <3>1. Len(st) \in Nat /\ Len(tr) \in Nat
        BY <1>1, SeqFacts DEF TrailOK
      <3> QED
        BY <3>1
    <2>2. l.atom = tr[k].atom
      BY <1>1, <2>1
    <2> QED
      BY <1>4, <1>7, <2>1, <2>2, NewLiteral
  <1>11. SolverInv(s, h) /\ Settled(s, h) /\ TableInv(s.dedList, d)
    BY <1>4 DEF Linked
  <1>12. known \subseteq LeqAtoms /\ LeqAtoms \ UNION Splits \subseteq known
    BY DEF KnownInv
  <1>13. Ready(s, h, N, d, l, h2)
    BY <1>7, <1>8, <1>9, <1>10, <1>11, <1>12 DEF Ready
  <1> QED
    BY <1>4, <1>5, <1>13

\* What the handler does with the literal.
NextSolver(s, d, l) ==
    IF l.atom \notin TheoryAtoms THEN [la |-> s, deduced |-> d]
    ELSE IF l.atom \in known THEN LAAssert(pushBacktrackPoint(s), d, l)
    ELSE [la |-> pushBacktrackPoint(s), deduced |-> d]

Accepts(s, st, s2, st2, tr, l) ==
    /\ Settled(s2, HandIn(st2, tr)) /\ Live(s2) /\ (s2.status = "INIT" => s.status = "INIT")
    /\ l.atom \in LeqAtoms =>
         \/ DeducedBy(s, st, l, Len(st))
         \/ \A m \in [atom : known, sgn : BOOLEAN] : Weaker(l, m) =>
              (\E j \in 1..Len(st2) : st2[j] = m.atom) \/ DeducedBy(s2, st2, m, Len(st2))
Refuses(s2, st2, tr, l) ==
    /\ RefusedIn(s2, st2, tr) /\ s2.status = "UNSAT" /\ s2.built = TRUE
    /\ l \in s2.explanation /\ s2.explanation \subseteq {Lit(tr[k]) : k \in 1..Len(st2)}
    /\ Infeasible(s2.explanation)
HandsOver(s, st, s2, d2, st2, tr, l) ==
    /\ SolverInv(s2, HandIn(st2, tr)) /\ TableInv(s2.dedList, d2)
    /\ Agree(s, s2, CountIn(st, Len(st)))
    /\ Accepts(s, st, s2, st2, tr, l) \/ Refuses(s2, st2, tr, l)

ForeignPushed(st, a, st2) ==
    st \in Seq(Atoms) /\ a \in Atoms /\ a \notin TheoryAtoms /\ st2 = Append(st, a)
LEMMA ForeignHand ==
    ASSUME NEW st, NEW a, NEW st2, ForeignPushed(st, a, st2), NEW tr
    PROVE  HandIn(st2, tr) = HandIn(st, tr)
  <1>0. st \in Seq(Atoms) /\ a \in Atoms /\ a \notin TheoryAtoms /\ st2 = Append(st, a)
    BY DEF ForeignPushed
  <1>1. /\ Shorter(st, st2) /\ CountIn(st2, Len(st2)) = CountIn(st, Len(st))
    BY <1>0, GrowStack
  <1>2. PICK N \in Nat : N = CountIn(st, Len(st)) /\ N = CountIn(st2, Len(st2))
    BY <1>0, <1>1, CountFacts
  <1>3. \A p \in 1..N : PosIn(st2, p) = PosIn(st, p)
    BY <1>1, <1>2, ShorterCount
  <1>4. /\ HandIn(st2, tr) = [p \in 1..N |-> Lit(tr[PosIn(st2, p)])]
        /\ HandIn(st, tr) = [p \in 1..N |-> Lit(tr[PosIn(st, p)])]
    BY <1>2 DEF HandIn
  <1> QED
    BY <1>3, <1>4

LEMMA AgreeSelf ==
    ASSUME NEW s, NEW n
    PROVE  Agree(s, s, n)
  BY DEF Agree, SameLayers

\* A complete answer of the solver, seen from the stack.
CompleteFor(s, st, tr, N, l) ==
    /\ st \in Seq(Atoms) /\ \A k \in 1..Len(st) : st[k] = tr[k].atom
    /\ N = CountIn(st, Len(st)) /\ ShapeInv(s, N) /\ KnownComplete(s, HandIn(st, tr), N)
    /\ l = HandIn(st, tr)[N]
LEMMA KnownOnStack ==
    ASSUME NEW st, NEW tr, NEW s, NEW N, NEW l, CompleteFor(s, st, tr, N, l),
           NEW m \in [atom : known, sgn : BOOLEAN], Weaker(l, m)
    PROVE  (\E j \in 1..Len(st) : st[j] = m.atom) \/ DeducedBy(s, st, m, Len(st))
  <1>0. /\ st \in Seq(Atoms) /\ \A k \in 1..Len(st) : st[k] = tr[k].atom
        /\ N = CountIn(st, Len(st)) /\ ShapeInv(s, N) /\ KnownComplete(s, HandIn(st, tr), N)
        /\ l = HandIn(st, tr)[N]
    BY DEF CompleteFor
  <1>1. PICK h : h = HandIn(st, tr)
    OBVIOUS
  <1>2. /\ N \in Nat /\ DOMAIN h = 1..N
        /\ \A p \in DOMAIN h : h[p] = Lit(tr[PosIn(st, p)])
    BY <1>0, <1>1, HandFacts
  <1>3. (\E q \in 1..N : h[q].atom = m.atom) \/ \E j \in DOMAIN s.dedList : s.dedList[j] = m
    BY <1>0, <1>1 DEF KnownComplete
  <1>4. CASE \E q \in 1..N : h[q].atom = m.atom
    <2>1. PICK q \in 1..N : h[q].atom = m.atom
      BY <1>4
    <2>2. PICK k \in 1..Len(st) : k = PosIn(st, q)
      BY <1>0, <1>2, <2>1, PosFacts
    <2>3. h[q] = Lit(tr[k])
      BY <1>2, <2>2
    <2>4. st[k] = m.atom
      BY <1>0, <2>1, <2>3 DEF Lit
    <2> QED
      BY <2>4
  <1>5. CASE \E j \in DOMAIN s.dedList : s.dedList[j] = m
    <2>1. ShapeInv(s, CountIn(st, Len(st)))
      BY <1>0
    <2> QED
      BY <1>0, <1>5, <2>1, DeducedMore
  <1> QED
    BY <1>3, <1>4, <1>5

LEMMA HandOverStack ==
    ASSUME KnownInv, NEW tr, TrailOK(tr, known), NEW st, StackOK(st, tr), Len(st) < Len(tr),
           NEW s, NEW d, Linked(s, d, st, tr), ~ RefusedIn(s, st, tr), Live(s),
           NEW l, l = Lit(tr[Len(st) + 1]), NEW st2, st2 = Append(st, l.atom),
           NEW R, R = NextSolver(s, d, l)
    PROVE  HandsOver(s, st, R.la, R.deduced, st2, tr, l)
  <1>1. /\ st \in Seq(Atoms) /\ l.atom = tr[Len(st) + 1].atom
    BY DEF StackOK, Lit
  <1>2. l.atom \in Atoms /\ StackOK(st2, tr)
    BY <1>1, GrowStackOK
  <1>3. st2 \in Seq(Atoms) /\ \A k \in 1..Len(st2) : st2[k] = tr[k].atom
    BY <1>2, SeqFacts DEF StackOK
  <1>4. SolverInv(s, HandIn(st, tr)) /\ Settled(s, HandIn(st, tr)) /\ TableInv(s.dedList, d)
    BY DEF Linked
  <1>5. l.atom \in LeqAtoms => l \in LeqLits /\ l.atom \in known
    <2>1. PICK k \in 1..Len(tr) : k = Len(st) + 1
      BY <1>1, SeqFacts DEF TrailOK
    <2> QED
      BY <2>1, TrailLits DEF KnownInv
  <1>6. CASE l.atom \notin TheoryAtoms
    <2>1. R.la = s /\ R.deduced = d
      BY <1>6 DEF NextSolver
    <2>2. HandIn(st2, tr) = HandIn(st, tr)
      <3>1. ForeignPushed(st, l.atom, st2)
        BY <1>1, <1>2, <1>6 DEF ForeignPushed
      <3> QED
        BY <3>1, ForeignHand
    <2>3. l.atom \notin LeqAtoms
      BY <1>6, AtomsAssumption
    <2>4. Accepts(s, st, s, st2, tr, l)
      BY <1>4, <2>2, <2>3 DEF Accepts
    <2> QED
      BY <1>4, <2>1, <2>2, <2>4, AgreeSelf DEF HandsOver
  <1>7. CASE l.atom \in TheoryAtoms
    <2>1. PICK h, h2 : h = HandIn(st, tr) /\ h2 = HandIn(st2, tr)
      OBVIOUS
    <2>2. PICK N \in Nat : N = CountIn(st, Len(st))
      BY <1>1, CountFacts
    <2>3. Ready(s, h, N, d, l, h2)
      BY <1>7, <2>1, <2>2, GrowReady
    <2>4. CountIn(st2, Len(st2)) = N + 1 /\ Len(st2) = Len(st) + 1
      BY <1>1, <1>2, <1>7, <2>2, GrowStack
    <2>5. CASE l.atom \notin LeqAtoms
      <3>1. PICK t : t = pushBacktrackPoint(s)
        OBVIOUS
      <3>2. R.la = t /\ R.deduced = d
        BY <1>7, <2>5, <3>1 DEF NextSolver, KnownInv
      <3>3. /\ SolverInv(t, h2) /\ Agree(s, t, N) /\ TableInv(t.dedList, d)
            /\ AcceptedBy(s, N, l, h2, t)
        BY <2>3, <2>5, <3>1, HandOverForeign
      <3>4. Accepts(s, st, t, st2, tr, l)
        BY <2>1, <2>5, <3>3 DEF Accepts, AcceptedBy
      <3> QED
        BY <2>1, <2>2, <3>2, <3>3, <3>4 DEF HandsOver
    <2>6. CASE l.atom \in LeqAtoms
      <3>1. l \in LeqLits /\ l.atom \in known
        BY <1>5, <2>6
      <3>2. R = LAAssert(pushBacktrackPoint(s), d, l)
        BY <1>7, <3>1 DEF NextSolver
      <3>3. PICK t, d2 : t = R.la /\ d2 = R.deduced
        OBVIOUS
      <3>4. /\ SolverInv(t, h2) /\ Agree(s, t, N) /\ TableInv(t.dedList, d2)
            /\ AcceptedBy(s, N, l, h2, t) \/ RefusedBy(h, N, l, t)
        BY <2>3, <3>1, <3>2, <3>3, HandOver
      <3>5. CASE AcceptedBy(s, N, l, h2, t)
        <4>1. ShapeInv(t, N + 1) /\ h2[N + 1] = l /\ ShapeInv(s, N)
          BY <2>3, <3>4 DEF SolverInv, Ready
        <4>2. CASE \E j \in DOMAIN s.dedList : s.dedList[j] = l
          <5>1. DeducedBy(s, st, l, Len(st))
            BY <1>1, <2>2, <4>1, <4>2, DeducedMore
          <5> QED
            BY <2>1, <3>5, <5>1, <2>2, <3>3, <3>4 DEF Accepts, AcceptedBy, HandsOver
        <4>3. CASE KnownComplete(t, h2, N + 1)
          <5>1. PICK Q : Q = N + 1
            OBVIOUS
          <5>2. Q = CountIn(st2, Len(st2)) /\ ShapeInv(t, Q) /\ KnownComplete(t, HandIn(st2, tr), Q)
                /\ l = HandIn(st2, tr)[Q]
            BY <2>1, <2>4, <4>1, <4>3, <5>1
          <5>3. \A m \in [atom : known, sgn : BOOLEAN] : Weaker(l, m) =>
                  (\E j \in 1..Len(st2) : st2[j] = m.atom) \/ DeducedBy(t, st2, m, Len(st2))
            <6>1. CompleteFor(t, st2, tr, Q, l)
              BY <1>3, <5>2 DEF CompleteFor
            <6> QED
              BY <6>1, KnownOnStack
          <5> QED
            BY <2>1, <3>5, <5>3, <2>2, <3>3, <3>4 DEF Accepts, AcceptedBy, HandsOver
        <4> QED
          BY <2>6, <3>5, <4>2, <4>3 DEF AcceptedBy
      <3>6. CASE RefusedBy(h, N, l, t)
        <4>1. PICK L \in Nat, k \in 1..Len(st2) : L = Len(st) /\ k = Len(st2) /\ k = L + 1
          BY <1>1, <1>3, <2>4, SeqFacts
        <4>2. st2[k] = l.atom /\ l = Lit(tr[k])
          BY <1>1, <1>2, <4>1, GrowStack
        <4>3. RefusedIn(t, st2, tr)
          <5>1. st2 # <<>>
            BY <1>3, <4>1
          <5> QED
            BY <2>6, <3>6, <4>1, <4>2, <5>1 DEF RefusedIn, RefusedBy
        <4>4. l \in t.explanation /\ t.explanation \subseteq {Lit(tr[i]) : i \in 1..Len(st2)}
          <5>1. PICK p \in 1..N : t.explanation = {h[p], l}
            BY <3>6 DEF RefusedBy
          <5>2. PICK i \in 1..Len(st) : i = PosIn(st, p)
            BY <1>1, <2>2, PosFacts
          <5>3. h[p] = Lit(tr[i]) /\ i \in 1..Len(st2)
            <6>1. h[p] = Lit(tr[i])
              BY <1>1, <2>1, <2>2, <5>2, HandFacts
            <6>2. i \in 1..Len(st2)
              BY <4>1
            <6> QED
              BY <6>1, <6>2
          <5> QED
            BY <4>2, <5>1, <5>3
        <4>5. Refuses(t, st2, tr, l)
          BY <3>6, <4>3, <4>4 DEF Refuses, RefusedBy
        <4> QED
          BY <2>1, <2>2, <3>3, <3>4, <4>5 DEF HandsOver
      <3> QED
        BY <3>4, <3>5, <3>6
    <2> QED
      BY <2>5, <2>6
  <1> QED
    BY <1>6, <1>7

-----------------------------------------------------------------------------
(* Where the deductions of the trail come from.                            *)

LEMMA AgreeSymmetric ==
    ASSUME NEW s, NEW t, NEW n \in Nat, Agree(s, t, n)
    PROVE  Agree(t, s, n)
  <1>1. ASSUME NEW list, NEW lim, NEW list2, NEW lim2, SameLayers(list, lim, list2, lim2, n)
        PROVE  SameLayers(list2, lim2, list, lim, n)
    <2>1. n \in 0..n
      OBVIOUS
    <2>2. End(list2, lim2, n) = End(list, lim, n)
      BY <1>1, <2>1 DEF SameLayers
    <2> QED
      BY <1>1, <2>2 DEF SameLayers
  <1> QED
    BY <1>1 DEF Agree

LEMMA GrowDeduced ==
    ASSUME NEW st, NEW st2, Shorter(st, st2), NEW s, NEW s2,
           ShapeInv(s, CountIn(st, Len(st))), ShapeInv(s2, CountIn(st2, Len(st2))),
           Agree(s, s2, CountIn(st, Len(st))), NEW m, NEW k \in 0..Len(st)
    PROVE  DeducedBy(s2, st2, m, k) <=> DeducedBy(s, st, m, k)
  <1>1. PICK n, n2 : n = CountIn(st, Len(st)) /\ n2 = CountIn(st2, Len(st2))
    OBVIOUS
  <1>2. n \in Nat
    BY <1>1, CountFacts, SeqFacts DEF Shorter
  <1>3. Agree(s2, s, n) /\ ShapeInv(s, n) /\ ShapeInv(s2, n2)
    BY <1>1, <1>2, AgreeSymmetric
  <1> QED
    BY <1>1, <1>3, SameDeduced

LEMMA LeastFacts ==
    ASSUME NEW a \in Int, NEW b \in Int
    PROVE  /\ Least(a, b) \in Int /\ Least(a, b) <= a /\ Least(a, b) <= b
           /\ Least(a, b) = a \/ Least(a, b) = b
  BY DEF Least

LEMMA GrowAllDeduced ==
    ASSUME NEW st, NEW st2, Shorter(st, st2), NEW s, NEW s2, NEW tr, tr \in Seq(Entries),
           ShapeInv(s, CountIn(st, Len(st))), ShapeInv(s2, CountIn(st2, Len(st2))),
           Agree(s, s2, CountIn(st, Len(st))), AllDeduced(s, st, tr)
    PROVE  AllDeduced(s2, st2, tr)
  <1>1. PICK L \in Nat, L2 \in Nat : L = Len(st) /\ L2 = Len(st2) /\ L <= L2
    BY SeqFacts DEF Shorter
  <1>2. st2 \in Seq(Atoms)
    BY DEF Shorter
  <1>3. ASSUME NEW i \in DOMAIN tr, tr[i].fake
        PROVE  DeducedBy(s2, st2, Lit(tr[i]), Least(Len(st2), i - 1))
    <2>1. PICK a \in Nat : a = i - 1
      BY SeqFacts
    <2>2. DeducedBy(s, st, Lit(tr[i]), Least(L, a))
      BY <1>1, <1>3, <2>1 DEF AllDeduced
    <2>3. Least(L, a) \in 0..L /\ Least(L2, a) \in 0..L2 /\ Least(L, a) <= Least(L2, a)
      BY <1>1 DEF Least
    <2>4. PICK x, y : x = Least(L, a) /\ y = Least(L2, a)
      OBVIOUS
    <2>5. DeducedBy(s2, st2, Lit(tr[i]), x)
      BY <1>1, <2>2, <2>3, <2>4, GrowDeduced
    <2>6. x \in 0..Len(st2) /\ y \in 0..Len(st2) /\ x <= y
      BY <1>1, <2>3, <2>4
    <2>7. DeducedBy(s2, st2, Lit(tr[i]), y)
      BY <1>2, <2>5, <2>6, DeducedMore
    <2> QED
      BY <1>1, <2>1, <2>4, <2>7
  <1> QED
    BY <1>3 DEF AllDeduced

LEMMA GrowExplained ==
    ASSUME KnownInv, NEW tr, TrailOK(tr, known), NEW st, NEW st2, StackOK(st, tr), StackOK(st2, tr),
           NEW l, l = Lit(tr[Len(st) + 1]), st2 = Append(st, l.atom), l.atom \in Atoms,
           NEW s, NEW d, Linked(s, d, st, tr), ~ RefusedIn(s, st, tr),
           NEW s2, NEW d2, HandsOver(s, st, s2, d2, st2, tr, l),
           Explained(s, st, tr, known)
    PROVE  Explained(s2, st2, tr, known)
  <1>1. /\ st \in Seq(Atoms) /\ st2 \in Seq(Atoms) /\ tr \in Seq(Entries)
        /\ Shorter(st, st2) /\ Len(st2) = Len(st) + 1 /\ st2[Len(st) + 1] = l.atom
    <2>1. st \in Seq(Atoms) /\ st2 \in Seq(Atoms) /\ tr \in Seq(Entries)
      BY DEF StackOK, TrailOK
    <2>2. Shorter(st, st2) /\ Len(st2) = Len(st) + 1 /\ st2[Len(st) + 1] = l.atom
      BY <2>1, GrowStack
    <2> QED
      BY <2>1, <2>2
  <1>2. PICK L \in Nat : L = Len(st) /\ L + 1 = Len(st2) /\ L + 1 <= Len(tr)
    BY <1>1, SeqFacts DEF StackOK
  <1>3. SolverInv(s, HandIn(st, tr)) /\ SolverInv(s2, HandIn(st2, tr))
    BY DEF Linked, HandsOver
  <1>4. ShapeInv(s, CountIn(st, Len(st))) /\ ShapeInv(s2, CountIn(st2, Len(st2)))
    BY <1>1, <1>3, HandFacts DEF SolverInv
  <1>5. Agree(s, s2, CountIn(st, Len(st)))
    BY DEF HandsOver
  <1>6. ASSUME NEW m, NEW k \in 0..L
        PROVE  DeducedBy(s2, st2, m, k) <=> DeducedBy(s, st, m, k)
    BY <1>1, <1>2, <1>4, <1>5, GrowDeduced
  <1>7. PICK b \in 0..L : AgainComplete(s, st, tr, known, b) /\ FakesExplained(s, st, tr, b)
    BY <1>2 DEF Explained
  <1>8. ASSUME NEW k \in b + 1 .. L, NEW m \in [atom : known, sgn : BOOLEAN],
               st[k] \in LeqAtoms, ~ DeducedBy(s, st, Lit(tr[k]), b), Weaker(Lit(tr[k]), m)
        PROVE  (\E j \in 1..k : st[j] = m.atom) \/ DeducedBy(s, st, m, k)
    BY <1>2, <1>7, <1>8 DEF AgainComplete
  <1>9. ASSUME NEW k \in b + 1 .. Len(st2), NEW m \in [atom : known, sgn : BOOLEAN],
               st2[k] \in LeqAtoms, ~ (RefusedIn(s2, st2, tr) /\ k = Len(st2)),
               ~ DeducedBy(s2, st2, Lit(tr[k]), b), Weaker(Lit(tr[k]), m)
        PROVE  (\E j \in 1..k : st2[j] = m.atom) \/ DeducedBy(s2, st2, m, k)
    <2>1. \A j \in 1..L : st2[j] = st[j]
      BY <1>1, <1>2 DEF Shorter
    <2>2. ~ DeducedBy(s, st, Lit(tr[k]), b)
      BY <1>6, <1>9
    <2>3. CASE k <= L
      <3>1. k \in b + 1 .. L /\ k \in 0..L /\ k \in 1..L
        BY <2>3
      <3>2. (\E j \in 1..k : st[j] = m.atom) \/ DeducedBy(s, st, m, k)
        BY <1>8, <1>9, <2>1, <2>2, <3>1
      <3>3. \A j \in 1..k : st2[j] = st[j]
        BY <2>1, <3>1
      <3> QED
        BY <1>6, <3>1, <3>2, <3>3
    <2>4. CASE ~ (k <= L)
      <3>1. k = L + 1 /\ k = Len(st2)
        BY <1>2, <2>4
      <3>2. Lit(tr[k]) = l /\ l.atom \in LeqAtoms
        BY <1>1, <1>2, <1>9, <3>1
      <3>3. Accepts(s, st, s2, st2, tr, l)
        BY <1>9, <3>1 DEF HandsOver, Refuses
      <3>4. CASE DeducedBy(s, st, l, Len(st))
        <4>1. L \in 0..Len(st) /\ DeducedBy(s, st, l, L)
          BY <1>2, <3>4
        <4>2. PICK i \in 1..L :
                /\ st[i] \in TheoryAtoms /\ Lit(tr[i]) \in LeqLits /\ Weaker(Lit(tr[i]), l)
                /\ DeducedBy(s, st, l, i)
                /\ \A q \in 0..i - 1 : ~ DeducedBy(s, st, Lit(tr[i]), q)
          BY <1>1, <1>3, <4>1, DeducedFrom
        <4>3. ~ (i <= b)
          <5>1. ~ DeducedBy(s, st, l, b)
            BY <2>2, <3>2
          <5>2. ASSUME i <= b
                PROVE  DeducedBy(s, st, l, b)
            <6>1. i \in 0..Len(st) /\ b \in 0..Len(st)
              BY <1>2
            <6> QED
              BY <1>1, <1>4, <4>2, <5>2, <6>1, DeducedMore
          <5> QED
            BY <5>1, <5>2
        <4>4. i \in b + 1 .. L /\ b \in 0..i - 1
          BY <4>3
        <4>5. ~ DeducedBy(s, st, Lit(tr[i]), b)
          BY <4>2, <4>4
        <4>6. st[i] \in LeqAtoms /\ i \in 1..L
          <5>1. st[i] = tr[i].atom
            BY <1>1, <1>2, SeqFacts DEF StackOK
          <5>2. Lit(tr[i]).atom \in LeqAtoms
            BY <4>2, ValueFacts
          <5> QED
            BY <5>1, <5>2 DEF Lit
        <4>7. l \in LeqLits /\ m \in LeqLits
          <5>1. l \in LeqLits
            BY <1>1, <1>3, <4>1, DeducedFrom
          <5>2. known \subseteq LeqAtoms
            BY DEF KnownInv
          <5> QED
            BY <5>1, <5>2 DEF LeqLits
        <4>8. Weaker(Lit(tr[i]), m)
          <5>1. Weaker(l, m)
            BY <1>9, <3>2
          <5> QED
            BY <4>2, <4>7, <5>1, WeakerFacts
        <4>9. (\E j \in 1..i : st[j] = m.atom) \/ DeducedBy(s, st, m, i)
          BY <1>8, <4>4, <4>5, <4>6, <4>8
        <4>10. CASE \E j \in 1..i : st[j] = m.atom
          <5>1. PICK j \in 1..i : st[j] = m.atom
            BY <4>10
          <5>2. j \in 1..k /\ st2[j] = m.atom
            BY <2>1, <3>1, <5>1
          <5> QED
            BY <5>2
        <4>11. CASE DeducedBy(s, st, m, i)
          <5>1. DeducedBy(s2, st2, m, i)
            BY <1>6, <4>11
          <5>2. i \in 0..Len(st2) /\ k \in 0..Len(st2) /\ i <= k
            BY <1>2, <3>1
          <5>3. DeducedBy(s2, st2, m, k)
            BY <1>1, <1>4, <5>1, <5>2, DeducedMore
          <5> QED
            BY <5>3
        <4> QED
          BY <4>9, <4>10, <4>11
      <3>5. CASE ~ DeducedBy(s, st, l, Len(st))
        <4>1. Weaker(l, m)
          BY <1>9, <3>2
        <4>2. (\E j \in 1..Len(st2) : st2[j] = m.atom) \/ DeducedBy(s2, st2, m, Len(st2))
          BY <3>2, <3>3, <3>5, <4>1 DEF Accepts
        <4> QED
          BY <3>1, <4>2
      <3> QED
        BY <3>4, <3>5
    <2> QED
      BY <2>3, <2>4
  <1>10. AgainComplete(s2, st2, tr, known, b)
    BY <1>9 DEF AgainComplete
  <1>11. FakesExplained(s2, st2, tr, b)
    <2>1. ASSUME NEW i \in DOMAIN tr, tr[i].fake
          PROVE  \/ DeducedBy(s2, st2, Lit(tr[i]), Least(b, i - 1))
                 \/ \E k \in b + 1 .. i - 1 :
                      /\ tr[k].atom \in LeqAtoms /\ Weaker(Lit(tr[k]), Lit(tr[i]))
                      /\ ~ DeducedBy(s2, st2, Lit(tr[k]), b)
      <3>1. PICK a \in Nat : a = i - 1
        BY <1>1, SeqFacts
      <3>2. PICK x : x = Least(b, a)
        OBVIOUS
      <3>3. x \in 0..L
        BY <3>2 DEF Least
      <3>4. \/ DeducedBy(s, st, Lit(tr[i]), x)
            \/ \E k \in b + 1 .. i - 1 :
                 /\ tr[k].atom \in LeqAtoms /\ Weaker(Lit(tr[k]), Lit(tr[i]))
                 /\ ~ DeducedBy(s, st, Lit(tr[k]), b)
        BY <1>7, <2>1, <3>1, <3>2 DEF FakesExplained
      <3> QED
        BY <1>6, <3>1, <3>2, <3>3, <3>4
    <2> QED
      BY <2>1 DEF FakesExplained
  <1>12. b \in 0..Len(st2)
    BY <1>2
  <1> QED
    BY <1>10, <1>11, <1>12 DEF Explained

LEMMA AllExplained ==
    ASSUME NEW st \in Seq(Atoms), NEW tr, NEW s, AllDeduced(s, st, tr), NEW kn
    PROVE  Explained(s, st, tr, kn)
  <1>1. PICK b \in Nat : b = Len(st)
    BY SeqFacts
  <1>2. AgainComplete(s, st, tr, kn, b)
    <2>1. \A k \in b + 1 .. Len(st) : FALSE
      BY <1>1
    <2> QED
      BY <2>1 DEF AgainComplete
  <1>3. FakesExplained(s, st, tr, b)
    BY <1>1 DEF FakesExplained, AllDeduced
  <1> QED
    BY <1>1, <1>2, <1>3 DEF Explained

\* The fakes left after a cut were there before, within the stack that is left.
FakesKept(tr, tr2, st, st2) ==
    \A i \in DOMAIN tr2 : tr2[i].fake =>
      i \in DOMAIN tr /\ tr2[i] = tr[i] /\ (i - 1 <= Len(st2) \/ Len(st2) = Len(st))

LEMMA CutAllDeduced ==
    ASSUME NEW st, NEW st2, Shorter(st2, st), NEW s, NEW s2, NEW tr, NEW tr2, tr2 \in Seq(Entries),
           ShapeInv(s, CountIn(st, Len(st))), ShapeInv(s2, CountIn(st2, Len(st2))),
           Agree(s, s2, CountIn(st2, Len(st2))), FakesKept(tr, tr2, st, st2), AllDeduced(s, st, tr)
    PROVE  AllDeduced(s2, st2, tr2)
  <1>1. PICK L \in Nat, L2 \in Nat : L = Len(st) /\ L2 = Len(st2) /\ L2 <= L
    BY SeqFacts DEF Shorter
  <1>2. ASSUME NEW i \in DOMAIN tr2, tr2[i].fake
        PROVE  DeducedBy(s2, st2, Lit(tr2[i]), Least(Len(st2), i - 1))
    <2>1. PICK a \in Nat : a = i - 1
      BY SeqFacts
    <2>2. i \in DOMAIN tr /\ tr2[i] = tr[i] /\ (a <= L2 \/ L2 = L)
      BY <1>1, <1>2, <2>1 DEF FakesKept
    <2>3. DeducedBy(s, st, Lit(tr2[i]), Least(L, a))
      BY <1>1, <1>2, <2>1, <2>2 DEF AllDeduced
    <2>4. Least(L, a) = Least(L2, a) /\ Least(L2, a) \in 0..L2
      BY <1>1, <2>2 DEF Least
    <2>5. PICK x \in 0..Len(st2) : x = Least(L2, a)
      BY <1>1, <2>4
    <2>6. DeducedBy(s2, st2, Lit(tr2[i]), x) <=> DeducedBy(s, st, Lit(tr2[i]), x)
      BY SameDeduced
    <2> QED
      BY <1>1, <2>1, <2>3, <2>4, <2>5, <2>6
  <1> QED
    BY <1>2 DEF AllDeduced

\* A deduced literal of the trail is in the list by the time it was
\* enqueued, whatever was undone and handed over again.
LEMMA FakeDeduced ==
    ASSUME KnownInv, NEW tr, TrailOK(tr, known), NEW st, StackOK(st, tr),
           NEW s, NEW d, Linked(s, d, st, tr), Explained(s, st, tr, known),
           NEW i \in DOMAIN tr, tr[i].fake, i - 1 <= Len(st), RefusedIn(s, st, tr) => i - 1 < Len(st)
    PROVE  DeducedBy(s, st, Lit(tr[i]), i - 1)
  <1>1. st \in Seq(Atoms) /\ tr \in Seq(Entries)
    BY DEF StackOK, TrailOK
  <1>2. PICK L \in Nat, a \in Nat : L = Len(st) /\ a = i - 1 /\ a <= L /\ L <= Len(tr) /\ i = a + 1
    BY <1>1, SeqFacts DEF StackOK
  <1>3. ShapeInv(s, CountIn(st, Len(st)))
    BY <1>1, HandFacts DEF SolverInv, Linked
  <1>4. PICK b \in 0..L : AgainComplete(s, st, tr, known, b) /\ FakesExplained(s, st, tr, b)
    BY <1>2 DEF Explained
  <1>5. PICK m : m = Lit(tr[i])
    OBVIOUS
  <1>6. m \in [atom : known, sgn : BOOLEAN] /\ m.atom = tr[i].atom
    <2>1. i \in 1..Len(tr) /\ tr[i].atom \in LeqAtoms
      BY <1>1, SeqFacts DEF TrailOK
    <2>2. m \in LeqLits /\ tr[i].atom \in known /\ m.atom = tr[i].atom
      BY <1>5, <2>1, TrailLits DEF KnownInv
    <2> QED
      BY <2>2 DEF LeqLits
  <1>7. CASE DeducedBy(s, st, m, Least(b, a))
    <2>1. PICK x \in 0..Len(st) : x = Least(b, a) /\ x <= a
      BY <1>2 DEF Least
    <2>2. a \in 0..Len(st)
      BY <1>2
    <2>3. DeducedBy(s, st, m, a)
      BY <1>1, <1>3, <1>7, <2>1, <2>2, DeducedMore
    <2> QED
      BY <1>2, <1>5, <2>3
  <1>8. CASE \E k \in b + 1 .. i - 1 : /\ tr[k].atom \in LeqAtoms /\ Weaker(Lit(tr[k]), m)
                                      /\ ~ DeducedBy(s, st, Lit(tr[k]), b)
    <2>1. PICK k \in b + 1 .. i - 1 : /\ tr[k].atom \in LeqAtoms /\ Weaker(Lit(tr[k]), m)
                                      /\ ~ DeducedBy(s, st, Lit(tr[k]), b)
      BY <1>8
    <2>2. k \in b + 1 .. L /\ k \in 1..Len(st) /\ k <= a /\ k \in 0..Len(st) /\ a \in 0..Len(st)
      BY <1>2, <2>1
    <2>3. st[k] \in LeqAtoms
      BY <1>1, <2>1, <2>2, SeqFacts DEF StackOK
    <2>4. ~ (RefusedIn(s, st, tr) /\ k = Len(st))
      BY <1>2, <2>2
    <2>5. (\E j \in 1..k : st[j] = m.atom) \/ DeducedBy(s, st, m, k)
      BY <1>2, <1>4, <1>6, <2>1, <2>2, <2>3, <2>4 DEF AgainComplete
    <2>6. ~ \E j \in 1..k : st[j] = m.atom
      <3>1. ASSUME NEW j \in 1..k, st[j] = m.atom
            PROVE  FALSE
        <4>1. j \in DOMAIN st /\ j \in DOMAIN tr /\ j # i
          BY <1>1, <1>2, <2>2, SeqFacts
        <4>2. tr[j].atom = tr[i].atom
          BY <1>6, <3>1, <4>1 DEF StackOK
        <4> QED
          BY <4>1, <4>2 DEF TrailOK
      <3> QED
        BY <3>1
    <2>7. DeducedBy(s, st, m, a)
      BY <1>1, <1>3, <2>2, <2>5, <2>6, DeducedMore
    <2> QED
      BY <1>2, <1>5, <2>7
  <1> QED
    BY <1>2, <1>4, <1>5, <1>7, <1>8 DEF FakesExplained

Prefix(tr2, tr) == Len(tr2) <= Len(tr) /\ \A k \in DOMAIN tr2 : k \in DOMAIN tr /\ tr2[k] = tr[k]

LEMMA CutExplained ==
    ASSUME NEW tr, NEW tr2, tr2 \in Seq(Entries), Prefix(tr2, tr), NEW st, StackOK(st, tr),
           NEW st2, Shorter(st2, st), Len(st2) <= Len(tr2),
           NEW s, SolverInv(s, HandIn(st, tr)), RefusedIn(s, st, tr) => Len(st2) < Len(st),
           NEW s2, ShapeInv(s2, CountIn(st2, Len(st2))), Agree(s, s2, CountIn(st2, Len(st2))),
           NEW kn, Explained(s, st, tr, kn)
    PROVE  Explained(s2, st2, tr2, kn)
  <1>1. st \in Seq(Atoms) /\ st2 \in Seq(Atoms)
    BY DEF Shorter
  <1>2. PICK L \in Nat, M \in Nat : L = Len(st) /\ M = Len(st2) /\ M <= L /\ M <= Len(tr2)
    BY SeqFacts DEF Shorter
  <1>3. DOMAIN tr2 = 1..Len(tr2) /\ Len(tr2) \in Nat /\ \A k \in 1..Len(tr2) : tr2[k] = tr[k] /\ k \in DOMAIN tr
    BY SeqFacts DEF Prefix
  <1>4. ShapeInv(s, CountIn(st, Len(st)))
    BY <1>1, HandFacts DEF SolverInv
  <1>5. ASSUME NEW m, NEW k \in 0..M
        PROVE  DeducedBy(s2, st2, m, k) <=> DeducedBy(s, st, m, k)
    BY <1>2, <1>4, SameDeduced
  <1>6. ASSUME NEW m, NEW j \in 0..L, NEW k \in 0..L, j <= k, DeducedBy(s, st, m, j)
        PROVE  DeducedBy(s, st, m, k)
    BY <1>1, <1>2, <1>4, <1>6, DeducedMore
  <1>7. PICK b \in 0..L : AgainComplete(s, st, tr, kn, b) /\ FakesExplained(s, st, tr, b)
    BY <1>2 DEF Explained
  <1>8. PICK c \in 0..M : c = Least(b, M) /\ c <= b
    BY <1>2 DEF Least
  <1>9. AgainComplete(s2, st2, tr2, kn, c)
    <2>1. ASSUME NEW k \in c + 1 .. Len(st2), NEW m \in [atom : kn, sgn : BOOLEAN],
                 st2[k] \in LeqAtoms, ~ DeducedBy(s2, st2, Lit(tr2[k]), c), Weaker(Lit(tr2[k]), m)
          PROVE  (\E j \in 1..k : st2[j] = m.atom) \/ DeducedBy(s2, st2, m, k)
      <3>1. c = b /\ k \in b + 1 .. L /\ k \in 1..M /\ k \in 0..M
        BY <1>2, <1>8, <2>1 DEF Least
      <3>2. \A j \in 1..M : st2[j] = st[j]
        BY <1>2 DEF Shorter
      <3>3. tr2[k] = tr[k]
        BY <1>2, <1>3, <3>1
      <3>4. ~ DeducedBy(s, st, Lit(tr[k]), b)
        BY <1>5, <2>1, <3>1, <3>3
      <3>5. ~ (RefusedIn(s, st, tr) /\ k = Len(st))
        BY <1>2, <3>1
      <3>6. (\E j \in 1..k : st[j] = m.atom) \/ DeducedBy(s, st, m, k)
        BY <1>2, <1>7, <2>1, <3>1, <3>2, <3>3, <3>4, <3>5 DEF AgainComplete
      <3>7. \A j \in 1..k : st2[j] = st[j]
        BY <3>1, <3>2
      <3> QED
        BY <1>5, <3>1, <3>6, <3>7
    <2> QED
      BY <2>1 DEF AgainComplete
  <1>10. ASSUME NEW i \in DOMAIN tr2, tr2[i].fake
         PROVE  \/ DeducedBy(s2, st2, Lit(tr2[i]), Least(c, i - 1))
                \/ \E k \in c + 1 .. i - 1 :
                     /\ tr2[k].atom \in LeqAtoms /\ Weaker(Lit(tr2[k]), Lit(tr2[i]))
                     /\ ~ DeducedBy(s2, st2, Lit(tr2[k]), c)
    <2>1. PICK a \in Nat : a = i - 1 /\ a < Len(tr2) /\ i = a + 1
      BY <1>3
    <2>2. PICK m : m = Lit(tr[i]) /\ m = Lit(tr2[i]) /\ i \in DOMAIN tr /\ tr[i].fake
      BY <1>3, <1>10
    <2>3. \A k \in 1..a : tr2[k] = tr[k]
      BY <1>3, <2>1
    <2>4. PICK x \in 0..L, y \in 0..M : x = Least(b, a) /\ y = Least(c, a)
      BY <1>2, <1>8, <2>1 DEF Least
    <2>5. \/ DeducedBy(s, st, m, x)
          \/ \E k \in b + 1 .. a : /\ tr[k].atom \in LeqAtoms /\ Weaker(Lit(tr[k]), m)
                                   /\ ~ DeducedBy(s, st, Lit(tr[k]), b)
      BY <1>7, <2>1, <2>2, <2>4 DEF FakesExplained
    <2>6. CASE \E k \in b + 1 .. a : /\ tr[k].atom \in LeqAtoms /\ Weaker(Lit(tr[k]), m)
                                     /\ ~ DeducedBy(s, st, Lit(tr[k]), b)
      <3>1. PICK k \in b + 1 .. a : /\ tr[k].atom \in LeqAtoms /\ Weaker(Lit(tr[k]), m)
                                    /\ ~ DeducedBy(s, st, Lit(tr[k]), b)
        BY <2>6
      <3>2. k \in c + 1 .. a /\ k \in 1..a
        BY <1>8
      <3>3. tr2[k] = tr[k]
        BY <2>3, <3>2
      <3>4. ~ DeducedBy(s, st, Lit(tr[k]), c)
        <4>1. c \in 0..L
          BY <1>2
        <4> QED
          BY <1>6, <1>8, <3>1, <4>1
      <3>5. ~ DeducedBy(s2, st2, Lit(tr[k]), c)
        BY <1>5, <3>4
      <3> QED
        BY <2>1, <2>2, <3>1, <3>2, <3>3, <3>5
    <2>7. CASE DeducedBy(s, st, m, x)
      <3>1. CASE x = y
        <4>1. DeducedBy(s2, st2, m, y)
          BY <1>5, <2>7, <3>1
        <4> QED
          BY <2>1, <2>2, <2>4, <4>1
      <3>2. CASE x # y
        <4>1. c = M /\ M < x /\ y = M /\ x <= a
          <5>1. c = IF b <= M THEN b ELSE M
            BY <1>8 DEF Least
          <5>2. (x = IF b <= a THEN b ELSE a) /\ (y = IF c <= a THEN c ELSE a)
            BY <2>4 DEF Least
          <5>3. b \in Nat /\ M \in Nat /\ a \in Nat
            BY <2>1
          <5>4. ~ (b <= M)
            BY <3>2, <5>1, <5>2
          <5>5. c = M /\ M < b
            BY <5>1, <5>3, <5>4
          <5>6. M < a
            BY <3>2, <5>2, <5>3, <5>5
          <5> QED
            BY <5>2, <5>3, <5>5, <5>6
        <4>2. x \in 0..Len(st)
          BY <1>2
        <4>3. PICK j \in 1..x : /\ st[j] \in TheoryAtoms /\ Lit(tr[j]) \in LeqLits /\ Weaker(Lit(tr[j]), m)
                                /\ DeducedBy(s, st, m, j)
                                /\ \A q \in 0..j - 1 : ~ DeducedBy(s, st, Lit(tr[j]), q)
          BY <1>1, <2>7, <4>2, DeducedFrom
        <4>4. CASE j <= M
          <5>1. j \in 0..L /\ y \in 0..L /\ j <= y
            BY <1>2, <4>1, <4>4
          <5>2. DeducedBy(s, st, m, y)
            BY <1>6, <4>3, <5>1
          <5>3. DeducedBy(s2, st2, m, y)
            BY <1>5, <5>2
          <5> QED
            BY <2>1, <2>2, <2>4, <5>3
        <4>5. CASE ~ (j <= M)
          <5>1. j \in c + 1 .. a /\ c \in 0..j - 1 /\ j \in 1..a
            BY <1>2, <4>1, <4>5
          <5>2. tr2[j] = tr[j] /\ ~ DeducedBy(s, st, Lit(tr[j]), c)
            BY <2>3, <4>3, <5>1
          <5>3. ~ DeducedBy(s2, st2, Lit(tr[j]), c)
            BY <1>5, <5>2
          <5>4. tr[j].atom \in LeqAtoms
            <6>1. Lit(tr[j]).atom \in LeqAtoms
              BY <4>3, ValueFacts
            <6> QED
              BY <6>1 DEF Lit
          <5> QED
            BY <2>1, <2>2, <4>3, <5>1, <5>2, <5>3, <5>4
        <4> QED
          BY <4>4, <4>5
      <3> QED
        BY <3>1, <3>2
    <2> QED
      BY <2>5, <2>6, <2>7
  <1>11. FakesExplained(s2, st2, tr2, c)
    BY <1>10 DEF FakesExplained
  <1>12. c \in 0..Len(st2)
    BY <1>2
  <1> QED
    BY <1>9, <1>11, <1>12 DEF Explained

-----------------------------------------------------------------------------
(* The stacks of the solver are the same; the trail is longer.             *)

LEMMA SameStacksSolver ==
    ASSUME NEW s, NEW t, SameStacks(s, t), NEW hand, SolverInv(s, hand)
    PROVE  /\ SolverInv(t, hand) /\ (Settled(s, hand) => Settled(t, hand))
           /\ \A l : boundUnsatisfied(t, l) <=> boundUnsatisfied(s, l)
  <1>1. ShapeInv(t, Len(hand))
    BY SameStacksFacts DEF SolverInv
  <1>2. TraceInv(t, hand)
    BY DEF SolverInv, TraceInv, SameStacks
  <1>3. DecisionsInv(t, hand)
    BY DEF SolverInv, DecisionsInv, SameStacks
  <1>4. \A p : TakenAt(t, hand, p) <=> TakenAt(s, hand, p)
    BY DEF TakenAt, SameStacks
  <1>5. \A p : PassedOver(t, hand, p) <=> PassedOver(s, hand, p)
    BY DEF PassedOver, SameStacks
  <1>6. \A l : boundUnsatisfied(t, l) <=> boundUnsatisfied(s, l)
    BY DEF boundUnsatisfied, Bounded, Bounds, Lb, Ub, InForce, SameStacks
  <1>7. HandInv(t, hand) /\ (Settled(s, hand) => Settled(t, hand))
    BY <1>4, <1>5, <1>6 DEF SolverInv, HandInv, Settled, SettledAt
  <1>8. DeductionsInv(t, hand)
    BY <1>4 DEF SolverInv, DeductionsInv, SameStacks
  <1>9. CompleteInv(t, hand)
    BY <1>4, <1>5 DEF SolverInv, CompleteInv, SameStacks
  <1> QED
    BY <1>1, <1>2, <1>3, <1>6, <1>7, <1>8, <1>9 DEF SolverInv

LEMMA SameStacksLinked ==
    ASSUME NEW s, NEW t, SameStacks(s, t), NEW d, NEW st, NEW tr, Linked(s, d, st, tr)
    PROVE  /\ Linked(t, d, st, tr)
           /\ RefusedIn(t, st, tr) <=> RefusedIn(s, st, tr)
           /\ \A m, k : DeducedBy(t, st, m, k) <=> DeducedBy(s, st, m, k)
           /\ AllDeduced(s, st, tr) => AllDeduced(t, st, tr)
           /\ \A kn : Explained(s, st, tr, kn) => Explained(t, st, tr, kn)
  <1>1. /\ SolverInv(t, HandIn(st, tr)) /\ (Settled(s, HandIn(st, tr)) => Settled(t, HandIn(st, tr)))
        /\ \A l : boundUnsatisfied(t, l) <=> boundUnsatisfied(s, l)
    BY SameStacksSolver DEF Linked
  <1>2. RefusedIn(t, st, tr) <=> RefusedIn(s, st, tr)
    BY <1>1 DEF RefusedIn
  <1>3. t.dedList = s.dedList /\ t.dedLim = s.dedLim
    BY DEF SameStacks
  <1>4. \A m, k : DeducedBy(t, st, m, k) <=> DeducedBy(s, st, m, k)
    BY <1>3 DEF DeducedBy
  <1>5. Linked(t, d, st, tr)
    BY <1>1, <1>2, <1>3 DEF Linked
  <1>6. AllDeduced(s, st, tr) => AllDeduced(t, st, tr)
    BY <1>4 DEF AllDeduced
  <1>7. \A kn, b : AgainComplete(s, st, tr, kn, b) => AgainComplete(t, st, tr, kn, b)
    BY <1>2, <1>4 DEF AgainComplete
  <1>8. \A b : FakesExplained(s, st, tr, b) => FakesExplained(t, st, tr, b)
    BY <1>4 DEF FakesExplained
  <1>9. \A kn : Explained(s, st, tr, kn) => Explained(t, st, tr, kn)
    BY <1>7, <1>8 DEF Explained
  <1> QED
    BY <1>2, <1>4, <1>5, <1>6, <1>9

LEMMA SameHandIn ==
    ASSUME NEW st \in Seq(Atoms), NEW tr, NEW tr2, SameBelow(tr, tr2, Len(st))
    PROVE  HandIn(st, tr2) = HandIn(st, tr)
  <1>1. \A p \in 1..CountIn(st, Len(st)) : tr2[PosIn(st, p)] = tr[PosIn(st, p)]
    BY PosFacts DEF SameBelow
  <1>2. PICK N : N = CountIn(st, Len(st))
    OBVIOUS
  <1>3. \A p \in 1..N : Lit(tr2[PosIn(st, p)]) = Lit(tr[PosIn(st, p)])
    BY <1>1, <1>2 DEF Lit
  <1> QED
    BY <1>2, <1>3 DEF HandIn

\* Entries that are new on the trail: decided, or deduced by now.
NewFakes(s, st, tr, tr2) ==
    \A i \in DOMAIN tr2 : tr2[i].fake =>
      \/ i \in DOMAIN tr /\ tr2[i] = tr[i]
      \/ i - 1 >= Len(st) /\ \E j \in DOMAIN s.dedList : s.dedList[j] = Lit(tr2[i])

LEMMA LongerTrail ==
    ASSUME NEW tr, NEW tr2, tr2 \in Seq(Entries), NEW st \in Seq(Atoms), SameBelow(tr, tr2, Len(st)),
           NEW s, NEW d, Linked(s, d, st, tr)
    PROVE  /\ Linked(s, d, st, tr2) /\ (RefusedIn(s, st, tr2) <=> RefusedIn(s, st, tr))
           /\ AllDeduced(s, st, tr) /\ NewFakes(s, st, tr, tr2) => AllDeduced(s, st, tr2)
  <1>1. PICK L \in Nat : L = Len(st)
    BY SeqFacts
  <1>2. HandIn(st, tr2) = HandIn(st, tr)
    BY SameHandIn
  <1>3. RefusedIn(s, st, tr2) <=> RefusedIn(s, st, tr)
    <2>1. CASE L = 0
      <3>1. st = <<>>
        BY <1>1, <2>1, EmptySeq
      <3> QED
        BY <3>1 DEF RefusedIn
    <2>2. CASE L # 0
      <3>1. tr2[L] = tr[L]
        BY <1>1, <2>2 DEF SameBelow
      <3> QED
        BY <1>1, <3>1 DEF RefusedIn
    <2> QED
      BY <2>1, <2>2
  <1>4. Linked(s, d, st, tr2)
    BY <1>2, <1>3 DEF Linked
  <1>5. ShapeInv(s, CountIn(st, Len(st)))
    BY HandFacts DEF SolverInv, Linked
  <1>6. ASSUME AllDeduced(s, st, tr), NewFakes(s, st, tr, tr2)
        PROVE  AllDeduced(s, st, tr2)
    <2>1. ASSUME NEW i \in DOMAIN tr2, tr2[i].fake
          PROVE  DeducedBy(s, st, Lit(tr2[i]), Least(Len(st), i - 1))
      <3>1. CASE i \in DOMAIN tr /\ tr2[i] = tr[i]
        BY <1>6, <2>1, <3>1 DEF AllDeduced
      <3>2. CASE i - 1 >= Len(st) /\ \E j \in DOMAIN s.dedList : s.dedList[j] = Lit(tr2[i])
        <4>1. DeducedBy(s, st, Lit(tr2[i]), Len(st))
          BY <1>5, <3>2, DeducedMore
        <4>2. PICK a \in Nat : a = i - 1 /\ a >= L
          BY <1>1, <3>2, SeqFacts
        <4>3. Least(L, a) = L
          BY <4>2 DEF Least
        <4> QED
          BY <1>1, <4>1, <4>2, <4>3
      <3> QED
        BY <1>6, <2>1, <3>1, <3>2 DEF NewFakes
    <2> QED
      BY <2>1 DEF AllDeduced
  <1> QED
    BY <1>3, <1>4, <1>6

-----------------------------------------------------------------------------
(* Only known atoms are deduced.                                           *)

LEMMA SimpleDeductionsKnown ==
    ASSUME known \subseteq LeqAtoms, NEW l \in LeqLits, NEW v, NEW d,
           NEW ms, ms = SimpleDeductions(v, d, l)
    PROVE  /\ ms \in Seq(LeqLits)
           /\ \A i \in 1..Len(ms) : ms[i].atom \in known
  <1> DEFINE S == {m \in [atom : known, sgn : BOOLEAN] :
                     Weaker(l, m) /\ v.polarity[m.atom] = "undef" /\ d[m.atom] = Undef}
  <1>1. S \in SUBSET LeqLits /\ IsLower(l) \in BOOLEAN
    <2>1. [atom : known, sgn : BOOLEAN] \subseteq LeqLits
      BY DEF LeqLits
    <2> QED
      BY <2>1, ValueFacts
  <1>2. ms = NearestFirst(S, IsLower(l))
    BY DEF SimpleDeductions
  <1>3. \A m \in S : m.atom \in known
    OBVIOUS
  <1> HIDE DEF S
  <1>4. PICK N \in Nat : ms \in [1..N -> S]
    BY <1>1, <1>2, NearestFirstFacts
  <1>5. ms \in [1..N -> LeqLits]
    BY <1>1, <1>4
  <1>6. ms \in Seq(LeqLits) /\ Len(ms) = N
    BY <1>5, FunctionLength
  <1> QED
    BY <1>3, <1>4, <1>6

LEMMA NextSolverKnown ==
    ASSUME KnownInv, NEW s, NEW N \in Nat, ShapeInv(s, N), OnlyKnown(s), NEW d,
           NEW l, l \in Literals, NEW R, R = NextSolver(s, d, l)
    PROVE  OnlyKnown(R.la)
  <1>1. PICK u : u = Initialized(pushBacktrackPoint(s))
    OBVIOUS
  <1>2. Opened(s, u) /\ Opened(s, pushBacktrackPoint(s))
    BY <1>1, OpenedFacts
  <1>3. u.dedList = s.dedList /\ pushBacktrackPoint(s).dedList = s.dedList /\ DOMAIN u = DOMAIN EmptyLA
    BY <1>2 DEF Opened
  <1>4. s.dedList \in Seq(LeqLits) /\ known \subseteq LeqAtoms
    BY DEF ShapeInv, Layered, KnownInv
  <1>5. CASE l.atom \notin TheoryAtoms
    BY <1>5 DEF NextSolver
  <1>6. CASE l.atom \in TheoryAtoms /\ l.atom \notin known
    <2>1. R.la = pushBacktrackPoint(s)
      BY <1>6 DEF NextSolver
    <2> QED
      BY <1>3, <2>1 DEF OnlyKnown
  <1>7. CASE l.atom \in TheoryAtoms /\ l.atom \in known
    <2>1. l \in LeqLits
      BY <1>4, <1>7 DEF Literals, LeqLits
    <2>2. R = LAAssert(pushBacktrackPoint(s), d, l)
      BY <1>7 DEF NextSolver
    <2>3. PICK v, ms : v = BoundTaken(u, l) /\ ms = SimpleDeductions(v, d, l)
      OBVIOUS
    <2>4. R.la = u \/ R.la = BoundConflict(u, l) \/ R.la = Deduce(v, ms)
      BY <1>1, <2>2, <2>3, AssertCases
    <2>5. CASE R.la = u
      BY <1>3, <2>5 DEF OnlyKnown
    <2>6. CASE R.la = BoundConflict(u, l)
      <3>1. Opened(s, R.la)
        BY <1>2, <2>6, ConflictFields
      <3>2. R.la.dedList = s.dedList
        BY <3>1 DEF Opened
      <3> QED
        BY <3>2 DEF OnlyKnown
    <2>7. CASE R.la = Deduce(v, ms)
      <3>1. TakenAs(u, l, ms, R.la)
        BY <1>3, <2>3, <2>7, TakenFields
      <3>2. R.la.dedList = s.dedList \o ms
        BY <1>3, <3>1 DEF TakenAs
      <3>3. ms \in Seq(LeqLits) /\ \A i \in 1..Len(ms) : ms[i].atom \in known
        BY <1>4, <2>1, <2>3, SimpleDeductionsKnown
      <3>4. PICK list, list2 : list = s.dedList /\ list2 = list \o ms /\ list \in Seq(LeqLits)
        BY <1>4
      <3>5. PICK L \in Nat, M \in Nat : L = Len(list) /\ M = Len(ms) /\ DOMAIN list = 1..L
        BY <3>3, <3>4, SeqFacts
      <3>6. list2 \in Seq(LeqLits) /\ Len(list2) = L + M
            /\ \A j \in 1..L + M : list2[j] = IF j <= L THEN list[j] ELSE ms[j - L]
        BY <3>3, <3>4, <3>5, ConcatProperties
      <3>7. ASSUME NEW j \in DOMAIN list2
            PROVE  list2[j].atom \in known
        <4>1. j \in 1..L + M
          BY <3>6, SeqFacts
        <4>2. CASE j <= L
          BY <3>4, <3>5, <3>6, <4>1, <4>2 DEF OnlyKnown
        <4>3. CASE ~ (j <= L)
          <5>1. PICK q \in 1..M : q = j - L
            BY <4>1, <4>3
          <5> QED
            BY <3>3, <3>5, <3>6, <4>1, <4>3, <5>1
        <4> QED
          BY <4>2, <4>3
      <3> QED
        BY <3>2, <3>4, <3>7 DEF OnlyKnown
    <2> QED
      BY <2>4, <2>5, <2>6, <2>7
  <1> QED
    BY <1>5, <1>6, <1>7

LEMMA CutKnown ==
    ASSUME NEW s, NEW n \in Nat, ShapeInv(s, n), OnlyKnown(s),
           NEW t, NEW k \in 0..n, ShapeInv(t, k), Agree(s, t, k)
    PROVE  OnlyKnown(t)
  <1>1. Layered(s.dedList, s.dedLim, n) /\ Layered(t.dedList, t.dedLim, k)
        /\ SameLayers(s.dedList, s.dedLim, t.dedList, t.dedLim, k)
    BY DEF ShapeInv, Agree
  <1>2. \A j \in DOMAIN t.dedList : j \in DOMAIN s.dedList /\ t.dedList[j] = s.dedList[j]
    BY <1>1, CutList
  <1> QED
    BY <1>2 DEF OnlyKnown

-----------------------------------------------------------------------------
(* The solver and the stack before the first literal.                      *)

LEMMA EmptyHand ==
    ASSUME NEW tr
    PROVE  /\ <<>> \in Seq(Atoms) /\ Len(<<>>) = 0 /\ CountIn(<<>>, Len(<<>>)) = 0
           /\ DOMAIN HandIn(<<>>, tr) = {} /\ Len(HandIn(<<>>, tr)) = 0
  <1>1. <<>> \in Seq(Atoms) /\ Len(<<>>) = 0
    BY EmptySeq
  <1>2. CountIn(<<>>, 0) = 0
    BY <1>1, CountFacts
  <1>3. DOMAIN HandIn(<<>>, tr) = 1..0 /\ Len(HandIn(<<>>, tr)) = 0
    BY <1>1, <1>2, HandFacts
  <1> QED
    BY <1>1, <1>2, <1>3

LEMMA EmptyLayer ==
    Layered(<<>>, <<>>, 0)
  <1>1. <<>> \in Seq(LeqLits) /\ <<>> \in Seq(Nat) /\ Len(<<>>) = 0
    BY EmptySeq
  <1>2. \A p \in 0..0 : End(<<>>, <<>>, p) = 0
    BY <1>1 DEF End
  <1> QED
    BY <1>1, <1>2 DEF Layered

Cleared(s, pol) ==
    /\ DOMAIN s = DOMAIN EmptyLA
    /\ s.trace = <<>> /\ s.limits = <<>> /\ s.decisions = <<>> /\ s.decLimit = <<>>
    /\ s.dedList = <<>> /\ s.dedLim = <<>> /\ s.dedLast = <<>> /\ s.dedNext = 0
    /\ s.polarity = pol /\ s.status = "INIT" /\ s.built = FALSE
    /\ s.active = [v \in Vars |-> 0]

LEMMA ClearedFields ==
    ASSUME NEW pol
    PROVE  /\ Cleared([EmptyLA EXCEPT !.polarity = pol], pol)
           /\ Cleared(EmptyLA, [a \in LeqAtoms |-> "undef"])
  BY DEF Cleared, EmptyLA

LEMMA EmptySolver ==
    ASSUME NEW pol \in [LeqAtoms -> {"undef", "true", "false"}], \A a \in LeqAtoms : pol[a] = "undef",
           NEW s, Cleared(s, pol), NEW tr
    PROVE  /\ SolverInv(s, HandIn(<<>>, tr)) /\ Settled(s, HandIn(<<>>, tr)) /\ OnlyKnown(s)
           /\ s.dedList = <<>> /\ s.status = "INIT" /\ s.built = FALSE
  <1>1. /\ DOMAIN s = DOMAIN EmptyLA
        /\ s.trace = <<>> /\ s.limits = <<>> /\ s.decisions = <<>> /\ s.decLimit = <<>>
        /\ s.dedList = <<>> /\ s.dedLim = <<>> /\ s.dedLast = <<>> /\ s.dedNext = 0
        /\ s.polarity = pol /\ s.status = "INIT" /\ s.built = FALSE
        /\ s.active = [v \in Vars |-> 0]
    BY DEF Cleared
  <1>2. PICK h : h = HandIn(<<>>, tr)
    OBVIOUS
  <1>3. DOMAIN h = {} /\ Len(h) = 0
    BY <1>2, EmptyHand
  <1>4. ShapeInv(s, 0)
    <2>1. s.active \in [Vars -> Int]
      BY <1>1
    <2>2. s.dedLast \in Seq(Nat) /\ Len(s.dedLast) = 0 /\ s.dedNext \in Nat
      <3>1. PICK e : e = <<>> /\ e \in Seq(Nat) /\ Len(e) = 0
        BY EmptySeq
      <3>2. s.dedLast = e /\ s.dedNext = 0
        BY <1>1, <3>1
      <3> QED
        BY <3>1, <3>2
    <2>3. Layered(s.trace, s.limits, 0) /\ Layered(s.decisions, s.decLimit, 0)
          /\ Layered(s.dedList, s.dedLim, 0)
      BY <1>1, EmptyLayer
    <2> QED
      BY <1>1, <2>1, <2>2, <2>3 DEF ShapeInv
  <1>5. DOMAIN s.trace = {} /\ DOMAIN s.decisions = {} /\ DOMAIN s.dedList = {}
    <2>1. DOMAIN <<>> = 1..0
      BY EmptySeq, SeqFacts
    <2> QED
      BY <1>1, <2>1
  <1>6. TraceInv(s, h)
    BY <1>5 DEF TraceInv
  <1>7. DecisionsInv(s, h)
    <2>1. \A v \in Vars : s.active[v] = 0
      BY <1>1
    <2>2. \A v \in Vars : Cardinality({j \in DOMAIN s.decisions : LeqVar[s.decisions[j].atom] = v}) = 0
      <3> TAKE v \in Vars
      <3>1. {j \in DOMAIN s.decisions : LeqVar[s.decisions[j].atom] = v} = {}
        BY <1>5
      <3> QED
        BY <3>1, FS_EmptySet
    <2>3. \A a \in LeqAtoms : s.polarity[a] # "undef" <=> \E j \in DOMAIN s.decisions : s.decisions[j].atom = a
      BY <1>1, <1>5
    <2> QED
      BY <1>5, <2>1, <2>2, <2>3 DEF DecisionsInv
  <1>8. HandInv(s, h) /\ Settled(s, h) /\ CompleteInv(s, h)
    BY <1>3 DEF HandInv, Settled, CompleteInv
  <1>9. DeductionsInv(s, h) /\ OnlyKnown(s)
    BY <1>5 DEF DeductionsInv, OnlyKnown
  <1> QED
    BY <1>1, <1>2, <1>3, <1>4, <1>6, <1>7, <1>8, <1>9 DEF SolverInv

-----------------------------------------------------------------------------
(* Every step keeps the invariant.                                         *)

LEMMA NoFakes ==
    ASSUME NEW st \in Seq(Atoms), NEW tr, \A k \in DOMAIN tr : ~ tr[k].fake, NEW s, NEW kn
    PROVE  AllDeduced(s, st, tr) /\ Explained(s, st, tr, kn)
  <1>1. AllDeduced(s, st, tr)
    BY DEF AllDeduced
  <1> QED
    BY <1>1, AllExplained

LEMMA InitInv ==
    ASSUME Init
    PROVE  TInv
  <1>1. /\ trail = <<>> /\ stack = <<>> /\ deduced = [a \in Atoms |-> Undef]
        /\ known = LeqAtoms \ UNION Splits /\ la = EmptyLA
        /\ pc = "search" /\ expl = NoExpl /\ conflictAt = 0
    BY DEF Init
  <1>2. /\ <<>> \in Seq(Atoms) /\ <<>> \in Seq(Entries) /\ Len(<<>>) = 0 /\ DOMAIN <<>> = 1..0
    BY EmptySeq, SeqFacts
  <1>3. KnownInv
    BY <1>1 DEF KnownInv
  <1>4. TrailOK(trail, known) /\ StackOK(stack, trail)
    BY <1>1, <1>2 DEF TrailOK, StackOK
  <1>5. PICK pol : pol = [a \in LeqAtoms |-> "undef"]
    OBVIOUS
  <1>6. Cleared(la, pol)
    BY <1>1, <1>5, ClearedFields
  <1>7. pol \in [LeqAtoms -> {"undef", "true", "false"}] /\ \A a \in LeqAtoms : pol[a] = "undef"
    BY <1>5
  <1>8. /\ SolverInv(la, HandIn(stack, trail)) /\ Settled(la, HandIn(stack, trail)) /\ OnlyKnown(la)
        /\ la.dedList = <<>> /\ la.status = "INIT" /\ la.built = FALSE
    BY <1>1, <1>6, <1>7, EmptySolver
  <1>9. TableInv(la.dedList, deduced)
    BY <1>1, <1>2, <1>8 DEF TableInv
  <1>10. Linked(la, deduced, stack, trail)
    BY <1>8, <1>9 DEF Linked
  <1>11. ~ RefusedIn(la, stack, trail)
    BY <1>1 DEF RefusedIn
  <1>12. StatusInv
    <2>1. \A k \in DOMAIN trail : FALSE
      BY <1>1, <1>2
    <2> QED
      BY <1>1, <1>8, <1>11, <2>1 DEF StatusInv
  <1>13. ExplanationInv
    BY <1>1 DEF ExplanationInv, NoExpl, ConflictSound, ReasonSound
  <1>14. AllDeduced(la, stack, trail) /\ Explained(la, stack, trail, known)
    <2>1. \A k \in DOMAIN trail : ~ trail[k].fake
      BY <1>1, <1>2
    <2> QED
      BY <1>1, <1>2, <2>1, NoFakes
  <1>15. PcInv
    BY <1>1 DEF PcInv
  <1> QED
    BY <1>1, <1>3, <1>4, <1>8, <1>10, <1>12, <1>13, <1>14, <1>15 DEF TInv, ReasonInv

LEMMA InvFacts ==
    ASSUME TInv
    PROVE  /\ stack \in Seq(Atoms) /\ trail \in Seq(Entries)
           /\ Len(stack) \in Nat /\ Len(trail) \in Nat /\ Len(stack) <= Len(trail)
           /\ DOMAIN stack = 1..Len(stack) /\ DOMAIN trail = 1..Len(trail)
           /\ ShapeInv(la, CountIn(stack, Len(stack))) /\ CountIn(stack, Len(stack)) \in Nat
           /\ SolverInv(la, HandIn(stack, trail))
  <1>1. stack \in Seq(Atoms) /\ trail \in Seq(Entries) /\ Len(stack) <= Len(trail)
    BY DEF TInv, StackOK, TrailOK
  <1>2. SolverInv(la, HandIn(stack, trail))
    BY DEF TInv, Linked
  <1>3. ShapeInv(la, CountIn(stack, Len(stack))) /\ CountIn(stack, Len(stack)) \in Nat
    BY <1>1, <1>2, HandFacts DEF SolverInv
  <1> QED
    BY <1>1, <1>2, <1>3, SeqFacts

LEMMA Unrefused ==
    ASSUME TInv, pc \notin {"conflict", "analyze"}
    PROVE  /\ ~ RefusedIn(la, stack, trail) /\ la.status \in {"INIT", "SAT"}
           /\ pc # "idle" => Live(la)
  BY DEF TInv, StatusInv, Live

\* The search enqueues literals that were not assigned.
LEMMA EnqueueInv ==
    ASSUME TInv, Enqueue
    PROVE  TInv'
  <1>1. /\ pc = "search"
        /\ UNCHANGED <<stack, deduced, known, la, pc, expl, conflictAt, calls>>
    BY DEF Enqueue
  <1>2. PICK l \in Literals : /\ l.atom \notin Assigned /\ (l.atom \in known \/ l.atom \notin LeqAtoms)
                              /\ trail' = Append(trail, Entry(l, FALSE))
    BY DEF Enqueue
  <1>3. PICK e : e = Entry(l, FALSE)
    OBVIOUS
  <1>4. e \in Entries /\ e.atom = l.atom /\ ~ e.fake
    BY <1>3 DEF Entry, Entries, Literals
  <1>5. PICK L \in Nat : L = Len(trail) /\ DOMAIN trail = 1..L /\ trail \in Seq(Entries)
    BY InvFacts
  <1>6. /\ trail' \in Seq(Entries) /\ Len(trail') = L + 1 /\ DOMAIN trail' = 1..L + 1
        /\ \A i \in 1..L : trail'[i] = trail[i]
        /\ trail'[L + 1] = e
    <2>1. trail' = Append(trail, e)
      BY <1>2, <1>3
    <2> QED
      BY <1>4, <1>5, <2>1, AppendFacts
  <1>7. TrailOK(trail', known')
    <2>1. \A i \in 1..L + 1 : i \in 1..L \/ i = L + 1
      OBVIOUS
    <2>2. \A i \in 1..L : trail[i].atom # e.atom
      BY <1>2, <1>4, <1>5 DEF Assigned
    <2>3. \A i, j \in 1..L + 1 : trail'[i].atom = trail'[j].atom => i = j
      BY <1>5, <1>6, <2>1, <2>2 DEF TInv, TrailOK
    <2>4. \A k \in 1..L + 1 : /\ trail'[k].atom \in LeqAtoms => trail'[k].atom \in known
                              /\ trail'[k].fake => trail'[k].atom \in LeqAtoms
      BY <1>2, <1>4, <1>5, <1>6, <2>1 DEF TInv, TrailOK
    <2> QED
      BY <1>1, <1>6, <2>3, <2>4 DEF TrailOK
  <1>8. SameBelow(trail, trail', Len(stack)) /\ Len(stack) <= Len(trail')
    <2>1. Len(stack) \in Nat /\ Len(stack) <= L
      BY <1>5, InvFacts
    <2>2. \A k \in 1..Len(stack) : k \in 1..L
      BY <2>1
    <2> QED
      BY <1>6, <2>1, <2>2 DEF SameBelow
  <1>9. StackOK(stack', trail')
    BY <1>1, <1>8 DEF TInv, StackOK, SameBelow
  <1>10. NewFakes(la, stack, trail, trail')
    <2>1. \A i \in 1..L + 1 : i \in 1..L \/ i = L + 1
      OBVIOUS
    <2> QED
      BY <1>4, <1>5, <1>6, <2>1 DEF NewFakes
  <1>11. /\ Linked(la, deduced, stack, trail') /\ ~ RefusedIn(la, stack, trail')
         /\ AllDeduced(la, stack, trail')
    <2>1. Linked(la, deduced, stack, trail) /\ AllDeduced(la, stack, trail)
      BY <1>1 DEF TInv, ReasonInv
    <2> QED
      BY <1>1, <1>6, <1>8, <1>10, <2>1, InvFacts, Unrefused, LongerTrail
  <1>12. Explained(la, stack, trail', known)
    BY <1>11, InvFacts, AllExplained
  <1>13. StatusInv'
    <2>1. \A k \in 1..L + 1 : trail'[k].fake => k \in DOMAIN trail /\ trail[k].fake
      <3>1. \A i \in 1..L + 1 : i \in 1..L \/ i = L + 1
        OBVIOUS
      <3> QED
        BY <1>4, <1>5, <1>6, <3>1
    <2> QED
      BY <1>1, <1>6, <1>11, <2>1 DEF TInv, StatusInv
  <1>14. ExplanationInv'
    <2>1. expl = NoExpl
      BY <1>1 DEF TInv, ExplanationInv
    <2> QED
      BY <1>1, <2>1 DEF ExplanationInv, NoExpl, ConflictSound, ReasonSound
  <1>15. PcInv'
    BY <1>1 DEF TInv, PcInv
  <1>16. ReasonInv'
    BY <1>1, <1>11, <1>12 DEF ReasonInv
  <1>17. KnownInv' /\ OnlyKnown(la)'
    BY <1>1 DEF TInv, KnownInv, OnlyKnown
  <1> QED
    BY <1>1, <1>7, <1>9, <1>11, <1>13, <1>14, <1>15, <1>16, <1>17 DEF TInv

LEMMA CheckTheoryInv ==
    ASSUME TInv, CheckTheory
    PROVE  TInv'
  <1>1. pc = "search" /\ pc' = "assert" /\ UNCHANGED <<trail, stack, deduced, known, la, expl, conflictAt, calls>>
    BY DEF CheckTheory
  <1>2. PcInv' /\ StatusInv' /\ ReasonInv'
    BY <1>1, Unrefused DEF TInv, PcInv, StatusInv, ReasonInv
  <1>3. ExplanationInv'
    BY <1>1 DEF TInv, ExplanationInv, NoExpl, ConflictSound, ReasonSound
  <1>4. KnownInv' /\ OnlyKnown(la)'
    BY <1>1 DEF TInv, KnownInv, OnlyKnown
  <1> QED
    BY <1>1, <1>2, <1>3, <1>4 DEF TInv

LEMMA AssertDoneInv ==
    ASSUME TInv, AssertDone
    PROVE  TInv'
  <1>1. /\ pc \in {"assert", "restore"} /\ Len(stack) = Len(trail)
        /\ pc' = IF pc = "assert" THEN "check" ELSE "analyze"
        /\ UNCHANGED <<trail, stack, deduced, known, la, expl, conflictAt, calls>>
    BY DEF AssertDone
  <1>2. PcInv'
    BY <1>1 DEF TInv, PcInv
  <1>3. StatusInv'
    BY <1>1, Unrefused DEF TInv, StatusInv
  <1>4. ReasonInv'
    <2>1. Len(stack) >= Least(conflictAt - 1, Len(trail))
      <3>1. conflictAt - 1 \in Int /\ Len(trail) \in Int
        BY InvFacts DEF TInv, StatusInv
      <3> QED
        BY <1>1, <3>1, LeastFacts
    <2>2. Explained(la, stack, trail, known)' /\ (pc = "assert" => AllDeduced(la, stack, trail)')
      BY <1>1 DEF TInv, ReasonInv
    <2> QED
      BY <1>1, <2>1, <2>2 DEF ReasonInv
  <1>5. ExplanationInv'
    BY <1>1 DEF TInv, ExplanationInv, NoExpl, ConflictSound, ReasonSound
  <1>6. KnownInv' /\ OnlyKnown(la)'
    BY <1>1 DEF TInv, KnownInv, OnlyKnown
  <1> QED
    BY <1>1, <1>2, <1>3, <1>4, <1>5, <1>6 DEF TInv

LEMMA PropagationConflictInv ==
    ASSUME TInv, PropagationConflict
    PROVE  TInv'
  <1>1. /\ pc = "search" /\ pc' = "analyze" /\ conflictAt' = Len(trail)
        /\ UNCHANGED <<trail, stack, deduced, known, la, expl, calls>>
    BY DEF PropagationConflict
  <1>2. PcInv' /\ ReasonInv'
    BY <1>1 DEF TInv, PcInv, ReasonInv
  <1>3. StatusInv'
    BY <1>1, InvFacts, Unrefused DEF TInv, StatusInv
  <1>4. ExplanationInv'
    BY <1>1 DEF TInv, ExplanationInv, NoExpl, ConflictSound, ReasonSound
  <1>5. KnownInv' /\ OnlyKnown(la)'
    BY <1>1 DEF TInv, KnownInv, OnlyKnown
  <1> QED
    BY <1>1, <1>2, <1>3, <1>4, <1>5 DEF TInv

\* A settled stack has no refused literal.
LEMMA SettledUnrefused ==
    ASSUME NEW st \in Seq(Atoms), NEW tr, NEW s, SolverInv(s, HandIn(st, tr)), Settled(s, HandIn(st, tr)),
           \A k \in 1..Len(st) : st[k] = tr[k].atom
    PROVE  ~ RefusedIn(s, st, tr)
  <1>1. SUFFICES ASSUME RefusedIn(s, st, tr)
                 PROVE  FALSE
    OBVIOUS
  <1>2. PICK L \in Nat : L = Len(st) /\ L \in 1..L
    <2>1. Len(st) \in Nat /\ Len(st) # 0
      BY <1>1, SeqFacts, EmptySeq DEF RefusedIn
    <2> QED
      BY <2>1
  <1>3. L \in 1..Len(st) /\ st[L] \in TheoryAtoms /\ Lit(tr[L]).atom \in LeqAtoms
    <2>1. st[L] \in LeqAtoms /\ st[L] = tr[L].atom
      BY <1>1, <1>2 DEF RefusedIn
    <2> QED
      BY <1>2, <2>1, AtomsAssumption DEF Lit
  <1>4. PICK h : h = HandIn(st, tr)
    OBVIOUS
  <1>5. PICK N \in Nat : N = CountIn(st, Len(st)) /\ DOMAIN h = 1..N /\ Len(h) = N
    BY <1>4, HandFacts
  <1>6. PICK p \in 1..N : h[p] = Lit(tr[L])
    <2>1. CountIn(st, L) \in DOMAIN HandIn(st, tr) /\ HandIn(st, tr)[CountIn(st, L)] = Lit(tr[L])
      BY <1>3, HandAt
    <2> QED
      BY <1>4, <1>5, <2>1
  <1>7. ShapeInv(s, N) /\ TraceInv(s, h) /\ DeductionsInv(s, h) /\ Settled(s, h)
    BY <1>4, <1>5 DEF SolverInv
  <1>8. TakenAt(s, h, p) \/ PassedOver(s, h, p)
    BY <1>3, <1>5, <1>6, <1>7 DEF Settled, SettledAt
  <1>9. ~ boundUnsatisfied(s, h[p])
    BY <1>5, <1>7, <1>8, SettledNotRefused
  <1> QED
    BY <1>1, <1>2, <1>6, <1>9 DEF RefusedIn

LEMMA AssertNextInv ==
    ASSUME TInv, AssertNext
    PROVE  TInv'
  <1>1. /\ pc \in {"assert", "restore"} /\ Len(stack) < Len(trail)
        /\ pc' = IF la'.status = "UNSAT" THEN "conflict" ELSE pc
        /\ UNCHANGED <<trail, known, expl, conflictAt, calls>>
    BY DEF AssertNext
  <1>2. PICK l : l = Lit(trail[Len(stack) + 1])
    OBVIOUS
  <1>3. stack' = Append(stack, l.atom) /\ la' = NextSolver(la, deduced, l).la
        /\ deduced' = NextSolver(la, deduced, l).deduced
    BY <1>2 DEF AssertNext, NextSolver, HandlerAssert
  <1>4. /\ KnownInv /\ TrailOK(trail, known) /\ StackOK(stack, trail) /\ Linked(la, deduced, stack, trail)
        /\ OnlyKnown(la) /\ Explained(la, stack, trail, known)
        /\ (pc = "assert" => AllDeduced(la, stack, trail))
    BY DEF TInv, ReasonInv
  <1>5. ~ RefusedIn(la, stack, trail) /\ Live(la)
    BY <1>1, Unrefused
  <1>6. HandsOver(la, stack, la', deduced', stack', trail, l)
    BY <1>1, <1>2, <1>3, <1>4, <1>5, HandOverStack
  <1>7. l.atom \in Atoms /\ StackOK(stack', trail) /\ l \in Literals
    <2>1. PICK k \in 1..Len(trail) : k = Len(stack) + 1
      BY <1>1, InvFacts
    <2>2. Lit(trail[k]) \in Literals /\ l.atom = trail[k].atom
      BY <1>2, <1>4, <2>1, TrailLits DEF KnownInv
    <2>3. l.atom \in Atoms /\ StackOK(stack', trail)
      BY <1>1, <1>3, <1>4, <2>1, <2>2, GrowStackOK
    <2> QED
      BY <1>2, <2>1, <2>2, <2>3
  <1>8. /\ SolverInv(la', HandIn(stack', trail)) /\ TableInv(la'.dedList, deduced')
        /\ Agree(la, la', CountIn(stack, Len(stack)))
    BY <1>6 DEF HandsOver
  <1>9. /\ stack \in Seq(Atoms) /\ stack' \in Seq(Atoms) /\ trail \in Seq(Entries)
        /\ Len(stack') = Len(stack) + 1 /\ Shorter(stack, stack')
        /\ \A k \in 1..Len(stack') : stack'[k] = trail[k].atom
    <2>1. stack \in Seq(Atoms) /\ trail \in Seq(Entries) /\ stack' \in Seq(Atoms)
      BY <1>7, InvFacts DEF StackOK
    <2>2. Len(stack') = Len(stack) + 1 /\ Shorter(stack, stack')
      BY <1>3, <1>7, <2>1, GrowStack
    <2>3. \A k \in 1..Len(stack') : stack'[k] = trail[k].atom
      BY <1>7, <2>1, SeqFacts DEF StackOK
    <2> QED
      BY <2>1, <2>2, <2>3
  <1>10. ShapeInv(la', CountIn(stack', Len(stack')))
    BY <1>8, <1>9, HandFacts DEF SolverInv
  <1>11. Explained(la', stack', trail, known)
    <2>1. PICK st2, s2, d2 : st2 = stack' /\ s2 = la' /\ d2 = deduced'
      OBVIOUS
    <2>2. StackOK(st2, trail) /\ st2 = Append(stack, l.atom) /\ l.atom \in Atoms
          /\ HandsOver(la, stack, s2, d2, st2, trail, l)
      BY <1>3, <1>6, <1>7, <2>1
    <2>3. Explained(s2, st2, trail, known)
      BY <1>2, <1>4, <1>5, <2>2, GrowExplained
    <2> QED
      BY <2>1, <2>3
  <1>12. pc = "assert" => AllDeduced(la', stack', trail)
    BY <1>4, <1>8, <1>9, <1>10, InvFacts, GrowAllDeduced
  <1>13. OnlyKnown(la')
    BY <1>3, <1>4, <1>7, InvFacts, NextSolverKnown
  <1>14. OnlyKnown(la)'
    BY <1>1, <1>13 DEF OnlyKnown
  <1>15. PICK k \in 1..Len(stack') : k = Len(stack') /\ stack'[k] = l.atom /\ Lit(trail[k]) = l
    <2>1. PICK k \in 1..Len(stack') : k = Len(stack') /\ k = Len(stack) + 1
      BY <1>9, InvFacts
    <2>2. Lit(trail[k]) = l
      BY <1>2, <2>1
    <2>3. stack'[k] = l.atom
      BY <1>9, <2>1, <2>2 DEF Lit
    <2> QED
      BY <2>1, <2>2, <2>3
  <1>16. CASE Accepts(la, stack, la', stack', trail, l)
    <2>1. /\ Settled(la', HandIn(stack', trail)) /\ Live(la') /\ (la'.status = "INIT" => la.status = "INIT")
      BY <1>16 DEF Accepts
    <2>2. ~ RefusedIn(la', stack', trail)
      BY <1>8, <1>9, <2>1, SettledUnrefused
    <2>3. pc' = pc /\ la'.status \in {"INIT", "SAT"}
      BY <1>1, <2>1 DEF Live
    <2>4. PcInv'
      BY <1>1, <2>3 DEF TInv, PcInv
    <2>5. StatusInv'
      BY <1>1, <2>1, <2>2, <2>3 DEF TInv, StatusInv, Live
    <2>6. ExplanationInv'
      BY <1>1, <2>3 DEF TInv, ExplanationInv, NoExpl, ConflictSound, ReasonSound
    <2>7. ReasonInv'
      BY <1>1, <1>11, <1>12, <2>3 DEF ReasonInv
    <2>8. Linked(la', deduced', stack', trail)
      BY <1>8, <2>1 DEF Linked
    <2> QED
      BY <1>1, <1>4, <1>7, <1>14, <2>4, <2>5, <2>6, <2>7, <2>8 DEF TInv, KnownInv
  <1>17. CASE Refuses(la', stack', trail, l)
    <2>1. /\ RefusedIn(la', stack', trail) /\ la'.status = "UNSAT" /\ la'.built = TRUE
          /\ l \in la'.explanation /\ la'.explanation \subseteq {Lit(trail[i]) : i \in 1..Len(stack')}
          /\ Infeasible(la'.explanation)
      BY <1>17 DEF Refuses
    <2>2. pc' = "conflict"
      BY <1>1, <2>1
    <2>3. PcInv'
      BY <2>2 DEF PcInv
    <2>4. StatusInv'
      <3>1. /\ conflictAt \in Nat
            /\ \A i \in DOMAIN trail : trail[i].fake => la.status # "INIT" /\ pc # "idle"
        BY DEF TInv, StatusInv
      <3>2. Lit(trail[Len(stack')]) \in la'.explanation
        BY <1>15, <2>1
      <3> QED
        BY <1>1, <2>1, <2>2, <3>1, <3>2 DEF StatusInv
    <2>5. ExplanationInv'
      <3>1. la'.explanation \subseteq HandedOver'
        BY <1>1, <1>9, <2>1, SeqFacts DEF HandedOver
      <3>2. Infeasible(la'.explanation)
        BY <2>1
      <3>3. /\ (expl.kind = "conflict" => pc = "analyze")
            /\ (expl.kind = "reason" => expl.upto \in 0..Len(trail))
            /\ ConflictSound /\ ReasonSound
        BY DEF TInv, ExplanationInv
      <3>4. expl.kind # "conflict"
        BY <1>1, <3>3
      <3>5. ConflictSound' /\ ReasonSound'
        BY <1>1, <3>3 DEF ConflictSound, ReasonSound
      <3> QED
        BY <1>1, <2>2, <3>1, <3>2, <3>3, <3>4, <3>5 DEF ExplanationInv
    <2>6. ReasonInv'
      BY <1>1, <1>11, <2>2 DEF ReasonInv
    <2>7. Linked(la', deduced', stack', trail)
      BY <1>8, <2>1 DEF Linked
    <2> QED
      BY <1>1, <1>4, <1>7, <1>14, <2>3, <2>4, <2>5, <2>6, <2>7 DEF TInv, KnownInv
  <1> QED
    BY <1>6, <1>16, <1>17 DEF HandsOver

(* A conflict of the check: the bounds in force on the sides of a row.     *)

LowOf(S, v) == {Value(l) : l \in {m \in S : LeqVar[m.atom] = v /\ IsLower(m)}}
UppOf(S, v) == {Value(l) : l \in {m \in S : LeqVar[m.atom] = v /\ ~IsLower(m)}}

On(S, v, lower) == {l \in S : LeqVar[l.atom] = v /\ IsLower(l) = lower}

LEMMA RowInfeasible ==
    ASSUME NEW S, NEW r \in Rows
    PROVE  /\ (/\ \A v \in r.of : LowOf(S, v) # {}
               /\ \E c \in UppOf(S, r.sum) : SumFunction([v \in r.of |-> Max(LowOf(S, v))]) > c)
              => Infeasible(S)
           /\ (/\ \A v \in r.of : UppOf(S, v) # {}
               /\ \E c \in LowOf(S, r.sum) : SumFunction([v \in r.of |-> Min(UppOf(S, v))]) < c)
              => Infeasible(S)
  BY DEF Infeasible, LowOf, UppOf

LEMMA InForceTop ==
    ASSUME NEW s, NEW n \in Nat, ShapeInv(s, n), NEW hand, TraceInv(s, hand),
           NEW v, NEW lower \in BOOLEAN, Bounded(s, v, lower), NEW l, l = InForce(s, v, lower)
    PROVE  /\ l \in LeqLits /\ LeqVar[l.atom] = v /\ IsLower(l) = lower /\ Value(l) \in Int
           /\ \E p \in DOMAIN hand : l = hand[p]
  <1>1. PICK j \in Bounds(s, v, lower) : l = s.trace[j]
    BY InForceFacts
  <1>2. j \in DOMAIN s.trace /\ LeqVar[l.atom] = v /\ IsLower(l) = lower
    BY <1>1 DEF Bounds
  <1>3. l \in LeqLits
    BY <1>1, <1>2, LayerFacts DEF ShapeInv
  <1>4. \E p \in DOMAIN hand : l = hand[p]
    BY <1>1, <1>2 DEF TraceInv
  <1> QED
    BY <1>2, <1>3, <1>4, ValueFacts

LEMMA OnlyOne ==
    ASSUME NEW x \in Int
    PROVE  Max({x}) = x /\ Min({x}) = x
  BY DEF Max, Min

\* The bounds of the conflict are those of the solver.
Met(s, V, lower, w, other, c) ==
    /\ \A v \in V : Bounded(s, v, lower)
    /\ Bounded(s, w, other)
    /\ c = Tops(s, V, lower) \cup Tops(s, {w}, other)

ConflictOf(s, hand, V, lower, w, other, c) ==
    /\ \A l \in c : \E p \in DOMAIN hand : l = hand[p]
    /\ \A v \in V :
         /\ On(c, v, lower) = {InForce(s, v, lower)}
         /\ Value(InForce(s, v, lower)) \in Int
    /\ InForce(s, w, other) \in On(c, w, other)

LEMMA TopsBounds ==
    ASSUME NEW s, NEW n \in Nat, ShapeInv(s, n), NEW hand, TraceInv(s, hand),
           NEW V, NEW w, NEW lower \in BOOLEAN, NEW other \in BOOLEAN, lower # other,
           NEW c, Met(s, V, lower, w, other, c)
    PROVE  ConflictOf(s, hand, V, lower, w, other, c)
  <1>2. ASSUME NEW v \in V
        PROVE  /\ LeqVar[InForce(s, v, lower).atom] = v /\ IsLower(InForce(s, v, lower)) = lower
               /\ Value(InForce(s, v, lower)) \in Int
               /\ \E p \in DOMAIN hand : InForce(s, v, lower) = hand[p]
    BY <1>2, InForceTop DEF Met
  <1>3. /\ LeqVar[InForce(s, w, other).atom] = w /\ IsLower(InForce(s, w, other)) = other
        /\ \E p \in DOMAIN hand : InForce(s, w, other) = hand[p]
    BY InForceTop DEF Met
  <1>4. \A l \in c : l = InForce(s, w, other) \/ \E v \in V : l = InForce(s, v, lower)
    BY DEF Tops, Met
  <1>5. InForce(s, w, other) \in c /\ \A v \in V : InForce(s, v, lower) \in c
    BY DEF Tops, Met
  <1>6. ASSUME NEW v \in V
        PROVE  On(c, v, lower) = {InForce(s, v, lower)}
    <2>1. InForce(s, v, lower) \in On(c, v, lower)
      BY <1>2, <1>5 DEF On
    <2>2. ASSUME NEW l \in c, LeqVar[l.atom] = v, IsLower(l) = lower
          PROVE  l = InForce(s, v, lower)
      <3>1. l # InForce(s, w, other)
        BY <1>3, <2>2
      <3>2. PICK u \in V : l = InForce(s, u, lower)
        BY <1>4, <3>1
      <3>3. u = v
        BY <1>2, <2>2, <3>2
      <3> QED
        BY <3>2, <3>3
    <2> QED
      BY <2>1, <2>2 DEF On
  <1>7. InForce(s, w, other) \in On(c, w, other)
    BY <1>3, <1>5 DEF On
  <1>8. \A l \in c : \E p \in DOMAIN hand : l = hand[p]
    <2> TAKE l \in c
    <2>1. CASE l = InForce(s, w, other)
      BY <1>3, <2>1
    <2>2. CASE \E v \in V : l = InForce(s, v, lower)
      <3>1. PICK v \in V : l = InForce(s, v, lower)
        BY <2>2
      <3> QED
        BY <1>2, <3>1
    <2> QED
      BY <1>4, <2>1, <2>2
  <1> QED
    BY <1>2, <1>6, <1>7, <1>8 DEF ConflictOf

LEMMA SidesOf ==
    ASSUME NEW c, NEW v
    PROVE  /\ LowOf(c, v) = {Value(l) : l \in On(c, v, TRUE)}
           /\ UppOf(c, v) = {Value(l) : l \in On(c, v, FALSE)}
  <1>1. \A m : IsLower(m) \in BOOLEAN
    BY DEF IsLower
  <1>2. {l \in c : LeqVar[l.atom] = v /\ IsLower(l) = TRUE} = {m \in c : LeqVar[m.atom] = v /\ IsLower(m)}
    BY <1>1
  <1>3. {l \in c : LeqVar[l.atom] = v /\ IsLower(l) = FALSE} = {m \in c : LeqVar[m.atom] = v /\ ~IsLower(m)}
    BY <1>1
  <1> QED
    BY <1>2, <1>3 DEF LowOf, UppOf, On

LEMMA RowConflictSound ==
    ASSUME NEW s, NEW n \in Nat, ShapeInv(s, n), NEW hand, TraceInv(s, hand),
           NEW c \in RowConflicts(s)
    PROVE  Infeasible(c) /\ \A l \in c : \E p \in DOMAIN hand : l = hand[p]
  <1>1. CASE \E r \in Rows : /\ c = Tops(s, r.of, TRUE) \cup Tops(s, {r.sum}, FALSE)
                             /\ Bounded(s, r.sum, FALSE) /\ \A v \in r.of : Bounded(s, v, TRUE)
                             /\ SumFunction([v \in r.of |-> Lb(s, v)]) > Ub(s, r.sum)
    <2>1. PICK r \in Rows : /\ c = Tops(s, r.of, TRUE) \cup Tops(s, {r.sum}, FALSE)
                            /\ Bounded(s, r.sum, FALSE) /\ \A v \in r.of : Bounded(s, v, TRUE)
                            /\ SumFunction([v \in r.of |-> Lb(s, v)]) > Ub(s, r.sum)
      BY <1>1
    <2>2. PICK lower \in BOOLEAN, other \in BOOLEAN : lower = TRUE /\ other = FALSE /\ lower # other
      OBVIOUS
    <2>3. (\A v \in r.of : Bounded(s, v, lower)) /\ Bounded(s, r.sum, other)
          /\ c = Tops(s, r.of, lower) \cup Tops(s, {r.sum}, other)
      BY <2>1, <2>2
    <2>4. PICK V, w : V = r.of /\ w = r.sum /\ Met(s, V, lower, w, other, c)
      BY <2>3 DEF Met
    <2>5. /\ \A l \in c : \E p \in DOMAIN hand : l = hand[p]
          /\ \A v \in V :
               /\ On(c, v, lower) = {InForce(s, v, lower)}
               /\ Value(InForce(s, v, lower)) \in Int
          /\ InForce(s, w, other) \in On(c, w, other)
      <3>1. ConflictOf(s, hand, V, lower, w, other, c)
        BY <2>2, <2>4, TopsBounds
      <3> QED
        BY <3>1 DEF ConflictOf
    <2>6. ASSUME NEW v \in V
          PROVE  LowOf(c, v) = {Lb(s, v)} /\ Lb(s, v) \in Int
      <3>1. On(c, v, TRUE) = {InForce(s, v, TRUE)}
            /\ Value(InForce(s, v, TRUE)) \in Int
        BY <2>2, <2>5
      <3>2. LowOf(c, v) = {Value(l) : l \in {InForce(s, v, TRUE)}}
        BY <3>1, SidesOf
      <3> QED
        BY <3>1, <3>2 DEF Lb
    <2>7. Ub(s, w) \in UppOf(c, w)
      <3>1. InForce(s, w, FALSE) \in On(c, w, FALSE)
        BY <2>2, <2>5
      <3>2. UppOf(c, w) = {Value(l) : l \in On(c, w, FALSE)}
        BY SidesOf
      <3> QED
        BY <3>1, <3>2 DEF Ub
    <2>8. \A v \in V : Max(LowOf(c, v)) = Lb(s, v)
      BY <2>6, OnlyOne
    <2>9. [v \in V |-> Max(LowOf(c, v))] = [v \in V |-> Lb(s, v)]
      BY <2>8
    <2>10. SumFunction([v \in r.of |-> Max(LowOf(c, v))]) > Ub(s, r.sum)
      BY <2>1, <2>4, <2>9
    <2>11. (\A v \in r.of : LowOf(c, v) # {}) /\ Ub(s, r.sum) \in UppOf(c, r.sum)
      BY <2>4, <2>6, <2>7
    <2>12. Infeasible(c)
      BY <2>10, <2>11, RowInfeasible
    <2> QED
      BY <2>5, <2>12
  <1>2. CASE \E r \in Rows : /\ c = Tops(s, r.of, FALSE) \cup Tops(s, {r.sum}, TRUE)
                             /\ Bounded(s, r.sum, TRUE) /\ \A v \in r.of : Bounded(s, v, FALSE)
                             /\ SumFunction([v \in r.of |-> Ub(s, v)]) < Lb(s, r.sum)
    <2>1. PICK r \in Rows : /\ c = Tops(s, r.of, FALSE) \cup Tops(s, {r.sum}, TRUE)
                            /\ Bounded(s, r.sum, TRUE) /\ \A v \in r.of : Bounded(s, v, FALSE)
                            /\ SumFunction([v \in r.of |-> Ub(s, v)]) < Lb(s, r.sum)
      BY <1>2
    <2>2. PICK lower \in BOOLEAN, other \in BOOLEAN : lower = FALSE /\ other = TRUE /\ lower # other
      OBVIOUS
    <2>3. (\A v \in r.of : Bounded(s, v, lower)) /\ Bounded(s, r.sum, other)
          /\ c = Tops(s, r.of, lower) \cup Tops(s, {r.sum}, other)
      BY <2>1, <2>2
    <2>4. PICK V, w : V = r.of /\ w = r.sum /\ Met(s, V, lower, w, other, c)
      BY <2>3 DEF Met
    <2>5. /\ \A l \in c : \E p \in DOMAIN hand : l = hand[p]
          /\ \A v \in V :
               /\ On(c, v, lower) = {InForce(s, v, lower)}
               /\ Value(InForce(s, v, lower)) \in Int
          /\ InForce(s, w, other) \in On(c, w, other)
      <3>1. ConflictOf(s, hand, V, lower, w, other, c)
        BY <2>2, <2>4, TopsBounds
      <3> QED
        BY <3>1 DEF ConflictOf
    <2>6. ASSUME NEW v \in V
          PROVE  UppOf(c, v) = {Ub(s, v)} /\ Ub(s, v) \in Int
      <3>1. On(c, v, FALSE) = {InForce(s, v, FALSE)}
            /\ Value(InForce(s, v, FALSE)) \in Int
        BY <2>2, <2>5
      <3>2. UppOf(c, v) = {Value(l) : l \in {InForce(s, v, FALSE)}}
        BY <3>1, SidesOf
      <3> QED
        BY <3>1, <3>2 DEF Ub
    <2>7. Lb(s, w) \in LowOf(c, w)
      <3>1. InForce(s, w, TRUE) \in On(c, w, TRUE)
        BY <2>2, <2>5
      <3>2. LowOf(c, w) = {Value(l) : l \in On(c, w, TRUE)}
        BY SidesOf
      <3> QED
        BY <3>1, <3>2 DEF Lb
    <2>8. \A v \in V : Min(UppOf(c, v)) = Ub(s, v)
      BY <2>6, OnlyOne
    <2>9. [v \in V |-> Min(UppOf(c, v))] = [v \in V |-> Ub(s, v)]
      BY <2>8
    <2>10. SumFunction([v \in r.of |-> Min(UppOf(c, v))]) < Lb(s, r.sum)
      BY <2>1, <2>4, <2>9
    <2>11. (\A v \in r.of : UppOf(c, v) # {}) /\ Lb(s, r.sum) \in LowOf(c, r.sum)
      BY <2>4, <2>6, <2>7
    <2>12. Infeasible(c)
      BY <2>10, <2>11, RowInfeasible
    <2> QED
      BY <2>5, <2>12
  <1> QED
    BY <1>1, <1>2 DEF RowConflicts

LEMMA InitializedStacks ==
    ASSUME NEW s, NEW n \in Nat, ShapeInv(s, n), NEW u, u = Initialized(s)
    PROVE  /\ DOMAIN s = DOMAIN EmptyLA /\ s.dedNext \in Nat
           /\ DOMAIN u = DOMAIN EmptyLA /\ SameStacks(s, u)
           /\ u.built = (IF s.status = "INIT" THEN TRUE ELSE s.built)
  <1>1. DOMAIN s = DOMAIN EmptyLA /\ s.dedNext \in Nat
    BY DEF ShapeInv
  <1> QED
    BY <1>1 DEF Initialized, SameStacks, EmptyLA

LEMMA FeasibleFields ==
    ASSUME NEW s, NEW n \in Nat, ShapeInv(s, n), NEW u, u = Initialized(s),
           NEW t, t = [u EXCEPT !.explanation = {}, !.status = "SAT"]
    PROVE  /\ SameStacks(s, t) /\ t.status = "SAT"
           /\ t.built = (IF s.status = "INIT" THEN TRUE ELSE s.built)
  <1>1. /\ DOMAIN u = DOMAIN EmptyLA /\ SameStacks(s, u)
        /\ u.built = (IF s.status = "INIT" THEN TRUE ELSE s.built)
    BY InitializedStacks
  <1>2. t.status = "SAT" /\ t.built = u.built
    BY <1>1 DEF EmptyLA
  <1>3. SameStacks(u, t)
    BY <1>1 DEF SameStacks, EmptyLA
  <1>4. SameStacks(s, t)
    BY <1>1, <1>3 DEF SameStacks
  <1> QED
    BY <1>1, <1>2, <1>4

Refutation(u, c) == [u EXCEPT !.explanation = c, !.status = "UNSAT", !.hasExplanation = TRUE]
Refuted(s, t, c) ==
    /\ SameStacks(s, t) /\ t.status = "UNSAT" /\ t.explanation = c
    /\ t.built = (IF s.status = "INIT" THEN TRUE ELSE s.built)

LEMMA RefutedFields ==
    ASSUME NEW s, NEW n \in Nat, ShapeInv(s, n), NEW u, u = Initialized(s), NEW c,
           NEW t, t = Refutation(u, c)
    PROVE  Refuted(s, t, c)
  <1>1. /\ DOMAIN u = DOMAIN EmptyLA /\ SameStacks(s, u)
        /\ u.built = (IF s.status = "INIT" THEN TRUE ELSE s.built)
    BY InitializedStacks
  <1>2. t.status = "UNSAT" /\ t.built = u.built /\ t.explanation = c
    BY <1>1 DEF Refutation, EmptyLA
  <1>3. SameStacks(u, t)
    BY <1>1 DEF Refutation, SameStacks, EmptyLA
  <1>4. SameStacks(s, t)
    BY <1>1, <1>3 DEF SameStacks
  <1> QED
    BY <1>1, <1>2, <1>4 DEF Refuted

LEMMA TakenAllFields ==
    ASSUME NEW s, NEW n \in Nat, ShapeInv(s, n), NEW t, t = [s EXCEPT !.dedNext = Len(s.dedList)]
    PROVE  /\ SameStacks(s, t) /\ t.status = s.status /\ t.built = s.built
           /\ t.explanation = s.explanation
  <1>1. DOMAIN s = DOMAIN EmptyLA
    BY DEF ShapeInv
  <1>2. Len(s.dedList) \in Nat
    BY LayerFacts DEF ShapeInv
  <1> QED
    BY <1>1, <1>2 DEF SameStacks, EmptyLA

\* The hand, seen from the trail.
LEMMA HandInTrail ==
    ASSUME TInv, NEW p \in DOMAIN HandIn(stack, trail)
    PROVE  HandIn(stack, trail)[p] \in HandedOver
  <1>1. stack \in Seq(Atoms) /\ DOMAIN stack = 1..Len(stack)
    BY InvFacts
  <1>2. p \in 1..CountIn(stack, Len(stack)) /\ HandIn(stack, trail)[p] = Lit(trail[PosIn(stack, p)])
    BY <1>1, HandFacts
  <1>3. PosIn(stack, p) \in DOMAIN stack
    BY <1>1, <1>2, PosFacts
  <1> QED
    BY <1>2, <1>3 DEF HandedOver

LEMMA CheckInv ==
    ASSUME TInv, Check
    PROVE  TInv'
  <1>1. pc = "check" /\ UNCHANGED <<trail, stack, deduced, known, expl, conflictAt, calls>>
    BY DEF Check
  <1>2. PICK s, N : s = Initialized(la) /\ N = CountIn(stack, Len(stack)) /\ N \in Nat /\ ShapeInv(la, N)
    BY InvFacts
  <1>3. ~ RefusedIn(la, stack, trail) /\ la.status \in {"INIT", "SAT"} /\ Live(la)
    BY <1>1, Unrefused
  <1>4. /\ Linked(la, deduced, stack, trail) /\ Explained(la, stack, trail, known)
        /\ AllDeduced(la, stack, trail) /\ OnlyKnown(la) /\ KnownInv
        /\ Len(stack) = Len(trail) /\ expl = NoExpl /\ conflictAt \in Nat
        /\ TrailOK(trail, known) /\ StackOK(stack, trail)
        /\ (\A k \in DOMAIN trail : trail[k].fake => la.status # "INIT" /\ pc # "idle")
    BY <1>1 DEF TInv, ReasonInv, PcInv, ExplanationInv, StatusInv
  <1>5. ASSUME SameStacks(la, la'), la'.built = TRUE,
               \/ la'.status = "SAT" /\ pc' = "deduce"
               \/ /\ la'.status = "UNSAT" /\ pc' = "conflict"
                  /\ la'.explanation \subseteq HandedOver /\ Infeasible(la'.explanation)
        PROVE  TInv'
    <2>1. /\ Linked(la', deduced, stack, trail) /\ ~ RefusedIn(la', stack, trail)
          /\ AllDeduced(la', stack, trail) /\ Explained(la', stack, trail, known)
      BY <1>3, <1>4, <1>5, SameStacksLinked
    <2>2. PcInv'
      BY <1>1, <1>4, <1>5 DEF PcInv
    <2>3. StatusInv'
      BY <1>1, <1>4, <1>5, <2>1 DEF StatusInv
    <2>4. ExplanationInv'
      BY <1>1, <1>4, <1>5 DEF ExplanationInv, NoExpl, ConflictSound, ReasonSound, HandedOver
    <2>5. ReasonInv'
      BY <1>1, <1>5, <2>1 DEF ReasonInv
    <2>6. OnlyKnown(la)' /\ KnownInv'
      BY <1>1, <1>4, <1>5 DEF OnlyKnown, KnownInv, SameStacks
    <2> QED
      BY <1>1, <1>4, <2>1, <2>2, <2>3, <2>4, <2>5, <2>6 DEF TInv
  <1>6. CASE RowConflicts(s) = {}
    <2>1. la' = [s EXCEPT !.explanation = {}, !.status = "SAT"] /\ pc' = "deduce"
      BY <1>2, <1>6 DEF Check
    <2>2. SameStacks(la, la') /\ la'.status = "SAT" /\ la'.built = (IF la.status = "INIT" THEN TRUE ELSE la.built)
      BY <1>2, <2>1, FeasibleFields
    <2> QED
      BY <1>3, <1>5, <2>1, <2>2 DEF Live
  <1>7. CASE RowConflicts(s) # {}
    <2>1. PICK c \in RowConflicts(s) :
            la' = [s EXCEPT !.explanation = c, !.status = "UNSAT", !.hasExplanation = TRUE]
      BY <1>2, <1>7 DEF Check
    <2>2. pc' = "conflict"
      BY <1>2, <1>7 DEF Check
    <2>3. /\ SameStacks(la, la') /\ la'.status = "UNSAT" /\ la'.explanation = c
          /\ la'.built = (IF la.status = "INIT" THEN TRUE ELSE la.built) /\ SameStacks(la, s)
      <3>1. SameStacks(la, s)
        BY <1>2, InitializedStacks
      <3>2. la' = Refutation(s, c)
        BY <2>1 DEF Refutation
      <3>3. Refuted(la, la', c)
        BY <1>2, <3>2, RefutedFields
      <3> QED
        BY <3>1, <3>3 DEF Refuted
    <2>4. PICK h : h = HandIn(stack, trail) /\ SolverInv(s, h) /\ Len(h) = N
      <3>1. SolverInv(s, HandIn(stack, trail))
        BY <1>4, <2>3, SameStacksLinked DEF Linked
      <3> QED
        BY <1>2, <3>1, InvFacts, HandFacts
    <2>5. Infeasible(c) /\ \A l \in c : \E p \in DOMAIN h : l = h[p]
      BY <1>2, <2>4, RowConflictSound DEF SolverInv
    <2>6. c \subseteq HandedOver
      BY <2>4, <2>5, HandInTrail
    <2> QED
      BY <1>3, <1>5, <2>2, <2>3, <2>5, <2>6 DEF Live
  <1> QED
    BY <1>6, <1>7

LEMMA GetConflictInv ==
    ASSUME TInv, GetConflict
    PROVE  TInv'
  <1> DEFINE K == {0} \cup {k \in DOMAIN trail : Lit(trail[k]) \in la.explanation}
  <1>1. /\ pc = "conflict" /\ pc' = "analyze" /\ expl' = [kind |-> "conflict", lits |-> la.explanation]
        /\ conflictAt' = Max(K)
        /\ UNCHANGED <<trail, stack, deduced, known, la, calls>>
    BY DEF GetConflict
  <1>2. la.explanation \subseteq HandedOver /\ Infeasible(la.explanation)
    BY <1>1 DEF TInv, ExplanationInv
  <1>3. PICK L \in Nat, M \in Nat : /\ L = Len(stack) /\ M = Len(trail) /\ L <= M
                                    /\ DOMAIN stack = 1..L /\ DOMAIN trail = 1..M
    BY InvFacts
  <1>4. ASSUME NEW k \in K
        PROVE  k \in 0..L
    <2>1. CASE k = 0
      BY <2>1
    <2>2. CASE k # 0
      <3>1. k \in 1..M /\ Lit(trail[k]) \in la.explanation
        BY <1>3, <2>2
      <3>2. PICK j \in 1..L : Lit(trail[k]) = Lit(trail[j])
        BY <1>2, <1>3, <3>1 DEF HandedOver
      <3>3. trail[k].atom = trail[j].atom
        BY <3>2 DEF Lit
      <3>4. j \in DOMAIN trail /\ k \in DOMAIN trail
        BY <1>3, <3>1
      <3>5. k = j
        BY <3>3, <3>4 DEF TInv, TrailOK
      <3> QED
        BY <3>5
    <2> QED
      BY <2>1, <2>2
  <1>5. Max(K) \in K /\ \A k \in K : k <= Max(K)
    <2>1. 0 \in K /\ K \in SUBSET (0..L)
      BY <1>4
    <2> HIDE DEF K
    <2>2. PICK k \in K : \A x \in K : x <= k
      BY <2>1, MaxExists
    <2>3. \A x \in K : x \in Int
      BY <2>1
    <2>4. \E x \in K : \A y \in K : x >= y
      BY <2>2, <2>3
    <2>5. Max(K) \in K /\ \A y \in K : Max(K) >= y
      BY <2>4 DEF Max
    <2> QED
      BY <2>3, <2>5
  <1>6. conflictAt' \in 0..L
    BY <1>1, <1>4, <1>5
  <1>7. RefusedIn(la, stack, trail) => la.status = "UNSAT" /\ conflictAt' = L
    <2> HAVE RefusedIn(la, stack, trail)
    <2>1. la.status = "UNSAT" /\ Lit(trail[Len(stack)]) \in la.explanation
      BY <1>1 DEF TInv, StatusInv
    <2>2. L # 0
      <3>1. stack # <<>> /\ stack \in Seq(Atoms)
        BY InvFacts DEF RefusedIn
      <3> QED
        BY <1>3, <3>1, EmptySeq
    <2>3. L \in 1..M
      BY <1>3, <2>2
    <2>4. L \in K
      BY <1>3, <2>1, <2>3
    <2>5. L <= Max(K)
      BY <1>5, <2>4
    <2> QED
      BY <1>1, <1>6, <2>1, <2>5
  <1> HIDE DEF K
  <1>8. PcInv'
    BY <1>1 DEF PcInv
  <1>9. StatusInv'
    <2>1. /\ la.status \in {"INIT", "SAT", "UNSAT"} /\ la.built \in BOOLEAN
          /\ (la.status # "INIT" => la.built)
          /\ (\A k \in DOMAIN trail : trail[k].fake => la.status # "INIT")
      BY <1>1 DEF TInv, StatusInv
    <2> QED
      BY <1>1, <1>3, <1>6, <1>7, <2>1 DEF StatusInv
  <1>10. ExplanationInv'
    <2>1. la.explanation \subseteq {Lit(trail[k]) : k \in DOMAIN trail}
      <3>1. \A k \in DOMAIN stack : k \in DOMAIN trail
        BY <1>3
      <3> QED
        BY <1>2, <3>1 DEF HandedOver
    <2>2. expl'.kind = "conflict" /\ expl'.lits = la.explanation
      BY <1>1
    <2> QED
      BY <1>1, <1>2, <2>1, <2>2 DEF ExplanationInv, ConflictSound, ReasonSound
  <1>11. ReasonInv'
    <2>1. Explained(la, stack, trail, known)
      BY DEF TInv, ReasonInv
    <2>2. Len(stack) >= Least(conflictAt' - 1, Len(trail))
      <3>1. conflictAt' - 1 \in Int /\ Len(trail) \in Int /\ L >= conflictAt' - 1
        BY <1>3, <1>6
      <3>2. Least(conflictAt' - 1, Len(trail)) \in Int /\ Least(conflictAt' - 1, Len(trail)) <= conflictAt' - 1
        BY <3>1, LeastFacts
      <3> QED
        BY <1>3, <3>1, <3>2
    <2> QED
      BY <1>1, <2>1, <2>2 DEF ReasonInv
  <1>12. KnownInv' /\ OnlyKnown(la)'
    BY <1>1 DEF TInv, KnownInv, OnlyKnown
  <1> QED
    BY <1>1, <1>8, <1>9, <1>10, <1>11, <1>12 DEF TInv

Concatenated(s, t, u, S) ==
    /\ u \in Seq(S) /\ Len(u) = Len(s) + Len(t) /\ DOMAIN u = 1..Len(s) + Len(t)
    /\ \A i \in 1..Len(s) : u[i] = s[i]
    /\ \A i \in 1..Len(t) : u[Len(s) + i] = t[i]
    /\ \A j \in DOMAIN u : j \in 1..Len(s) \/ \E i \in 1..Len(t) : j = Len(s) + i
LEMMA ConcatFacts ==
    ASSUME NEW S, NEW s \in Seq(S), NEW t \in Seq(S), NEW u, u = s \o t
    PROVE  Concatenated(s, t, u, S)
  <1>1. PICK L \in Nat, M \in Nat : L = Len(s) /\ M = Len(t)
    BY SeqFacts
  <1>2. u \in Seq(S) /\ Len(u) = L + M
    BY <1>1, ConcatProperties
  <1>3. \A j \in 1..L + M : u[j] = IF j <= L THEN s[j] ELSE t[j - L]
    BY <1>1, ConcatProperties
  <1>4. ASSUME NEW j \in 1..L
        PROVE  u[j] = s[j]
    <2>1. j \in 1..L + M /\ j <= L
      OBVIOUS
    <2> QED
      BY <1>3, <2>1
  <1>5. ASSUME NEW i \in 1..M
        PROVE  u[L + i] = t[i]
    <2>1. PICK q \in 1..L + M : q = L + i
      OBVIOUS
    <2>2. ~ (q <= L) /\ q - L = i
      BY <2>1
    <2>3. u[q] = t[q - L]
      BY <1>3, <2>2
    <2> QED
      BY <2>1, <2>2, <2>3
  <1>6. DOMAIN u = 1..L + M
    BY <1>2, SeqFacts
  <1>7. ASSUME NEW j \in 1..L + M
        PROVE  j \in 1..L \/ \E i \in 1..M : j = L + i
    <2>1. CASE ~ (j <= L)
      <3>1. PICK i \in 1..M : i = j - L
        BY <2>1
      <3> QED
        BY <3>1
    <2> QED
      BY <2>1
  <1> QED
    BY <1>1, <1>2, <1>4, <1>5, <1>6, <1>7 DEF Concatenated

\* What is still to be taken, also when the mark is beyond the list.
LEMMA PendingFacts ==
    ASSUME NEW S, NEW list \in Seq(S), NEW e \in Nat, NEW rest, rest = Above(list, e)
    PROVE  /\ IsFiniteSet(DOMAIN rest) /\ DOMAIN rest \subseteq Nat
           /\ \A k \in DOMAIN rest : e + k \in DOMAIN list /\ rest[k] = list[e + k]
  <1>1. PICK L \in Nat : L = Len(list) /\ DOMAIN list = 1..L
    BY SeqFacts
  <1>2. CASE e \in 0..L
    <2>1. DOMAIN rest = 1..L - e /\ \A j \in 1..L - e : rest[j] = list[e + j]
      BY <1>1, <1>2, AboveFacts
    <2>2. IsFiniteSet(1..L - e)
      BY <1>1, FS_Interval
    <2>3. \A k \in 1..L - e : e + k \in 1..L /\ k \in Nat
      BY <1>2
    <2> QED
      BY <1>1, <2>1, <2>2, <2>3
  <1>3. CASE ~ (e \in 0..L)
    <2>1. PICK m \in Nat : m = e + 1 /\ L < m
      BY <1>3
    <2>2. rest = SubSeq(list, m, L)
      BY <1>1, <2>1 DEF Above
    <2>3. rest = <<>>
      BY <1>1, <2>1, <2>2, SubSeqProperties
    <2>4. DOMAIN rest = {}
      <3>1. <<>> \in Seq(S) /\ Len(<<>>) = 0
        BY EmptySeq
      <3> QED
        BY <2>3, <3>1, SeqFacts
    <2> QED
      BY <2>4, FS_EmptySet
  <1> QED
    BY <1>2, <1>3

(* The search goes on: what there is to show of a step that ends there.    *)
LEMMA SearchAgain ==
    ASSUME KnownInv', OnlyKnown(la)', TrailOK(trail, known)', StackOK(stack, trail)',
           Linked(la, deduced, stack, trail)', RefusedIn(la, stack, trail)' = FALSE,
           AllDeduced(la, stack, trail)', Live(la)', pc' = "search", expl' = NoExpl, conflictAt' \in Nat,
           \A k \in DOMAIN trail' : trail'[k].fake => la'.status # "INIT"
    PROVE  TInv'
  <1>1. PcInv'
    BY DEF PcInv
  <1>2. StatusInv'
    BY DEF StatusInv, Live
  <1>3. ExplanationInv'
    BY DEF ExplanationInv, NoExpl, ConflictSound, ReasonSound
  <1>4. stack' \in Seq(Atoms)
    BY DEF StackOK
  <1>5. PICK st2, s2, tr2, kn2 : st2 = stack' /\ s2 = la' /\ tr2 = trail' /\ kn2 = known'
    OBVIOUS
  <1>6. Explained(s2, st2, tr2, kn2)
    BY <1>4, <1>5, AllExplained
  <1>7. ReasonInv'
    BY <1>5, <1>6 DEF ReasonInv
  <1> QED
    BY <1>1, <1>2, <1>3, <1>7 DEF TInv

(* What deduceTheory enqueues: deductions of the solver whose atom is not  *)
(* on the trail, each atom once.                                           *)
Offered(s, u) ==
    \A n \in DOMAIN u : u[n].atom \notin Assigned /\ \E j \in DOMAIN s.dedList : u[n] = s.dedList[j]
LEMMA UnassignedFacts ==
    ASSUME TInv
    PROVE  \E N \in Nat : /\ Unassigned \in [1..N -> LeqLits] /\ Offered(la, Unassigned)
                          /\ OncePerAtom(Unassigned) /\ Len(Unassigned) = N
  <1> DEFINE rest == Above(la.dedList, la.dedNext)
             open == {k \in DOMAIN rest : rest[k].atom \notin Assigned}
             nth(n) == CHOOSE k \in open : Rank(open, k) = n
             N == Cardinality(open)
  <1>1. la.dedList \in Seq(LeqLits) /\ la.dedNext \in Nat
    BY InvFacts DEF ShapeInv, Layered
  <1>2. \A i, j \in DOMAIN la.dedList : la.dedList[i].atom = la.dedList[j].atom => i = j
    BY InvFacts DEF SolverInv, DeductionsInv
  <1>3. PICK e \in Nat : e = la.dedNext
    BY <1>1
  <1>4. PICK r : r = rest
    OBVIOUS
  <1>5. /\ IsFiniteSet(DOMAIN r) /\ DOMAIN r \subseteq Nat
        /\ \A k \in DOMAIN r : e + k \in DOMAIN la.dedList /\ r[k] = la.dedList[e + k]
    BY <1>1, <1>3, <1>4, PendingFacts
  <1>6. open \in SUBSET Int /\ IsFiniteSet(open)
    <2>1. open \in SUBSET DOMAIN r
      BY <1>4
    <2> QED
      BY <1>5, <2>1, FS_Subset
  <1>7. Unassigned = [n \in 1..N |-> rest[nth(n)]]
    BY DEF Unassigned, Pending, Rank
  <1>8. \A k \in open : k \in DOMAIN r /\ r[k].atom \notin Assigned
    BY <1>4
  <1> HIDE DEF open
  <1>9. /\ N \in Nat
        /\ \A n \in 1..N : \E x \in open : Rank(open, x) = n
    BY <1>6, RankFacts
  <1>10. \A n \in 1..N : nth(n) \in open /\ Rank(open, nth(n)) = n
    BY <1>9
  <1> HIDE DEF nth
  <1>11. \A m, n \in 1..N : nth(m) = nth(n) => m = n
    BY <1>10
  <1>12. PICK u : u = Unassigned
    OBVIOUS
  <1>13. PICK M \in Nat : M = N
    BY <1>9
  <1>14. DOMAIN u = 1..M /\ \A n \in 1..M : u[n] = r[nth(n)]
    BY <1>4, <1>7, <1>12, <1>13
  <1> HIDE DEF N, rest
  <1>15. \A n \in 1..M : nth(n) \in DOMAIN r /\ r[nth(n)].atom \notin Assigned
    BY <1>8, <1>10, <1>13
  <1>16. \A n \in 1..M : /\ e + nth(n) \in DOMAIN la.dedList /\ u[n] = la.dedList[e + nth(n)]
                         /\ u[n].atom \notin Assigned /\ nth(n) \in Nat
    BY <1>5, <1>14, <1>15
  <1>17. \A j \in DOMAIN la.dedList : la.dedList[j] \in LeqLits
    BY <1>1, SeqFacts
  <1>18. u \in [1..M -> LeqLits]
    <2>1. u = [n \in 1..M |-> r[nth(n)]]
      BY <1>4, <1>7, <1>12, <1>13
    <2>2. \A n \in 1..M : r[nth(n)] \in LeqLits
      BY <1>5, <1>15, <1>17
    <2> QED
      BY <2>1, <2>2
  <1>19. Len(u) = M
    BY <1>18, FunctionLength
  <1>20. Offered(la, u)
    BY <1>14, <1>16 DEF Offered
  <1>21. OncePerAtom(u)
    <2>1. ASSUME NEW m \in 1..M, NEW n \in 1..M, u[m].atom = u[n].atom
          PROVE  m = n
      <3>1. e + nth(m) = e + nth(n)
        BY <1>2, <1>16, <2>1
      <3>2. nth(m) = nth(n)
        BY <1>16, <3>1
      <3> QED
        BY <1>11, <1>13, <3>2
    <2> QED
      BY <1>19, <2>1 DEF OncePerAtom
  <1> QED
    BY <1>12, <1>18, <1>19, <1>20, <1>21

LEMMA EnqueueDeductionsInv ==
    ASSUME TInv, EnqueueDeductions
    PROVE  TInv'
  <1>1. /\ pc = "deduce" /\ pc' = "search"
        /\ trail' = trail \o [k \in DOMAIN Unassigned |-> Entry(Unassigned[k], TRUE)]
        /\ la' = [la EXCEPT !.dedNext = Len(la.dedList)]
        /\ UNCHANGED <<stack, deduced, known, expl, conflictAt, calls>>
    BY DEF EnqueueDeductions, Taken
  <1>2. PICK u : u = Unassigned
    OBVIOUS
  <1>3. PICK N \in Nat : /\ u \in [1..N -> LeqLits] /\ Offered(la, u)
                         /\ OncePerAtom(u) /\ Len(u) = N
    BY <1>2, UnassignedFacts
  <1>4. PICK v : v = [k \in 1..N |-> Entry(u[k], TRUE)]
    OBVIOUS
  <1>5. /\ \A k \in 1..N : /\ v[k] \in Entries /\ v[k].atom = u[k].atom /\ v[k].fake
                           /\ Lit(v[k]) = u[k] /\ u[k] \in LeqLits
        /\ v \in [1..N -> Entries]
    <2>1. \A k \in 1..N : u[k] \in LeqLits
      BY <1>3
    <2>2. \A k \in 1..N : u[k].atom \in Atoms /\ u[k].sgn \in BOOLEAN /\ u[k] = [atom |-> u[k].atom, sgn |-> u[k].sgn]
      BY <2>1, AtomsAssumption DEF LeqLits
    <2>3. \A k \in 1..N : v[k] = [atom |-> u[k].atom, sgn |-> u[k].sgn, fake |-> TRUE]
      BY <1>4 DEF Entry
    <2>4. ASSUME NEW k \in 1..N
          PROVE  v[k] \in Entries /\ v[k].atom = u[k].atom /\ v[k].fake /\ Lit(v[k]) = u[k]
      <3>1. PICK a, b : a = u[k].atom /\ b = u[k].sgn /\ a \in Atoms /\ b \in BOOLEAN
                        /\ u[k] = [atom |-> a, sgn |-> b]
        BY <2>2
      <3>2. v[k] = [atom |-> a, sgn |-> b, fake |-> TRUE]
        BY <2>3, <3>1
      <3>3. v[k] \in Entries
        BY <3>1, <3>2 DEF Entries
      <3>4. Lit(v[k]) = u[k]
        BY <3>1, <3>2 DEF Lit
      <3> QED
        BY <3>1, <3>2, <3>3, <3>4
    <2> QED
      BY <1>4, <2>1, <2>4
  <1>6. v \in Seq(Entries) /\ Len(v) = N
    BY <1>5, FunctionLength
  <1>7. PICK tr2 : tr2 = trail' /\ tr2 = trail \o v
    BY <1>1, <1>2, <1>3, <1>4
  <1>8. PICK L \in Nat : L = Len(trail) /\ L = Len(stack) /\ trail \in Seq(Entries) /\ DOMAIN trail = 1..L
    BY <1>1, InvFacts DEF TInv, PcInv
  <1>9. /\ tr2 \in Seq(Entries) /\ Len(tr2) = L + N /\ DOMAIN tr2 = 1..L + N
        /\ \A i \in 1..L : tr2[i] = trail[i]
        /\ \A i \in 1..N : tr2[L + i] = v[i]
        /\ \A j \in DOMAIN tr2 : j \in 1..L \/ \E i \in 1..N : j = L + i
    <2>1. Concatenated(trail, v, tr2, Entries)
      BY <1>6, <1>7, <1>8, ConcatFacts
    <2> QED
      BY <1>6, <1>8, <2>1 DEF Concatenated
  <1>10. /\ KnownInv /\ OnlyKnown(la) /\ TrailOK(trail, known) /\ StackOK(stack, trail)
         /\ Linked(la, deduced, stack, trail) /\ AllDeduced(la, stack, trail) /\ expl = NoExpl
         /\ la.status = "SAT" /\ conflictAt \in Nat
    BY <1>1 DEF TInv, ReasonInv, ExplanationInv, StatusInv
  <1>11. /\ \A i \in 1..N : /\ v[i].atom \notin Assigned /\ v[i].atom \in known
                            /\ \E j \in DOMAIN la.dedList : la.dedList[j] = Lit(v[i])
         /\ \A i, j \in 1..N : v[i].atom = v[j].atom => i = j
    <2>1. DOMAIN u = 1..N
      BY <1>3
    <2>2. ASSUME NEW i \in 1..N
          PROVE  /\ v[i].atom \notin Assigned /\ v[i].atom \in known
                 /\ \E j \in DOMAIN la.dedList : la.dedList[j] = Lit(v[i])
      <3>1. u[i].atom \notin Assigned /\ \E j \in DOMAIN la.dedList : u[i] = la.dedList[j]
        BY <1>3, <2>1 DEF Offered
      <3>2. v[i].atom = u[i].atom /\ Lit(v[i]) = u[i]
        BY <1>5
      <3> QED
        BY <1>10, <3>1, <3>2 DEF OnlyKnown
    <2>3. \A i, j \in 1..N : v[i].atom = v[j].atom => i = j
      BY <1>3, <1>5 DEF OncePerAtom
    <2> QED
      BY <2>2, <2>3
  <1>12. TrailOK(tr2, known)
    <2>1. \A i \in 1..L : trail[i].atom \in Assigned
      BY <1>8 DEF Assigned
    <2>2. ASSUME NEW i \in DOMAIN tr2, NEW j \in DOMAIN tr2, tr2[i].atom = tr2[j].atom
          PROVE  i = j
      <3>1. CASE i \in 1..L /\ j \in 1..L
        BY <1>8, <1>9, <1>10, <2>2, <3>1 DEF TrailOK
      <3>2. CASE i \in 1..L /\ \E k \in 1..N : j = L + k
        <4>1. PICK k \in 1..N : j = L + k
          BY <3>2
        <4>2. trail[i].atom = v[k].atom
          BY <1>9, <2>2, <3>2, <4>1
        <4> QED
          BY <1>11, <2>1, <3>2, <4>2
      <3>3. CASE j \in 1..L /\ \E k \in 1..N : i = L + k
        <4>1. PICK k \in 1..N : i = L + k
          BY <3>3
        <4>2. trail[j].atom = v[k].atom
          BY <1>9, <2>2, <3>3, <4>1
        <4> QED
          BY <1>11, <2>1, <3>3, <4>2
      <3>4. CASE (\E k \in 1..N : i = L + k) /\ (\E k \in 1..N : j = L + k)
        <4>1. PICK k \in 1..N, q \in 1..N : i = L + k /\ j = L + q
          BY <3>4
        <4>2. v[k].atom = v[q].atom
          BY <1>9, <2>2, <4>1
        <4> QED
          BY <1>11, <4>1, <4>2
      <3> QED
        BY <1>9, <3>1, <3>2, <3>3, <3>4
    <2>3. ASSUME NEW k \in DOMAIN tr2
          PROVE  /\ tr2[k].atom \in LeqAtoms => tr2[k].atom \in known
                 /\ tr2[k].fake => tr2[k].atom \in LeqAtoms
      <3>1. CASE k \in 1..L
        BY <1>8, <1>9, <1>10, <3>1 DEF TrailOK
      <3>2. CASE \E i \in 1..N : k = L + i
        <4>1. PICK i \in 1..N : k = L + i /\ tr2[k] = v[i]
          BY <1>9, <3>2
        <4>2. v[i].atom \in known /\ known \subseteq LeqAtoms
          BY <1>10, <1>11 DEF KnownInv
        <4> QED
          BY <4>1, <4>2
      <3> QED
        BY <1>9, <3>1, <3>2
    <2> QED
      BY <1>9, <2>2, <2>3 DEF TrailOK
  <1>13. SameBelow(trail, tr2, Len(stack)) /\ StackOK(stack, tr2)
    <2>1. SameBelow(trail, tr2, Len(stack))
      BY <1>8, <1>9 DEF SameBelow
    <2>2. stack \in Seq(Atoms) /\ DOMAIN stack = 1..L /\ Len(stack) <= Len(tr2)
      BY <1>8, <1>9, InvFacts
    <2> QED
      BY <1>8, <1>9, <1>10, <2>1, <2>2 DEF StackOK
  <1>14. NewFakes(la, stack, trail, tr2)
    <2>1. ASSUME NEW i \in DOMAIN tr2
          PROVE  \/ i \in DOMAIN trail /\ tr2[i] = trail[i]
                 \/ i - 1 >= Len(stack) /\ \E j \in DOMAIN la.dedList : la.dedList[j] = Lit(tr2[i])
      <3>1. CASE i \in 1..L
        BY <1>8, <1>9, <3>1
      <3>2. CASE \E k \in 1..N : i = L + k
        <4>1. PICK k \in 1..N : i = L + k /\ tr2[i] = v[k]
          BY <1>9, <3>2
        <4> QED
          BY <1>8, <1>11, <4>1
      <3> QED
        BY <1>9, <3>1, <3>2
    <2> QED
      BY <2>1 DEF NewFakes
  <1>15. /\ Linked(la, deduced, stack, tr2) /\ ~ RefusedIn(la, stack, tr2) /\ AllDeduced(la, stack, tr2)
    <2>1. ~ RefusedIn(la, stack, trail)
      BY <1>1, Unrefused
    <2> QED
      BY <1>9, <1>10, <1>13, <1>14, <2>1, InvFacts, LongerTrail
  <1>16. PICK s2 : s2 = la' /\ s2 = [la EXCEPT !.dedNext = Len(la.dedList)]
    BY <1>1
  <1>17. SameStacks(la, s2) /\ s2.status = la.status /\ s2.built = la.built
    BY <1>16, InvFacts, TakenAllFields
  <1>18. /\ Linked(s2, deduced, stack, tr2) /\ ~ RefusedIn(s2, stack, tr2) /\ AllDeduced(s2, stack, tr2)
    BY <1>15, <1>17, SameStacksLinked
  <1>19. Live(la)
    BY <1>1, Unrefused
  <1>20. OnlyKnown(la)' /\ KnownInv' /\ Live(la)'
    <2>1. OnlyKnown(la)' /\ KnownInv'
      BY <1>1, <1>10, <1>16, <1>17 DEF OnlyKnown, KnownInv, SameStacks
    <2>2. Live(la)'
      BY <1>16, <1>17, <1>19 DEF Live
    <2> QED
      BY <2>1, <2>2
  <1>21. /\ TrailOK(trail, known)' /\ StackOK(stack, trail)' /\ Linked(la, deduced, stack, trail)'
         /\ RefusedIn(la, stack, trail)' = FALSE /\ AllDeduced(la, stack, trail)'
    BY <1>1, <1>7, <1>12, <1>13, <1>16, <1>18
  <1>22. la'.status # "INIT" /\ expl' = NoExpl /\ conflictAt' \in Nat /\ pc' = "search"
    BY <1>1, <1>10, <1>16, <1>17
  <1> QED
    BY <1>20, <1>21, <1>22, SearchAgain

(* Backtracking to the first n literals of the trail, as cancelUntil and a *)
(* split do: s is the solver, with its deductions taken or not.            *)
Cancels(s, n, tr2) ==
    /\ SameStacks(la, s) /\ s.built = la.built
    /\ n \in 0..Len(trail) /\ pc \in {"search", "deduce", "analyze"} /\ la.status # "INIT"
    /\ pc = "analyze" => n < conflictAt
    /\ tr2 \in Seq(Entries) /\ n <= Len(tr2) /\ SameBelow(trail, tr2, n)
    /\ \A i \in DOMAIN tr2 : tr2[i].fake => i <= n
Canceled(s2, d2, st2, tr2) ==
    /\ StackOK(st2, tr2) /\ Linked(s2, d2, st2, tr2) /\ ~ RefusedIn(s2, st2, tr2)
    /\ AllDeduced(s2, st2, tr2) /\ s2.status = "SAT" /\ Live(s2) /\ OnlyKnown(s2)

LEMMA CancelStack ==
    ASSUME TInv, NEW s, NEW n, NEW tr2, Cancels(s, n, tr2), NEW st2, st2 = Cut(stack, n)
    PROVE  /\ n \in Nat /\ Shorter(st2, stack) /\ StackOK(st2, tr2) /\ SameBelow(trail, tr2, Len(st2))
           /\ Len(st2) = Least(n, Len(stack)) /\ Len(st2) <= n
           /\ RefusedIn(la, stack, trail) => n < Len(stack)
  <1>1. PICK L \in Nat, M \in Nat : /\ L = Len(stack) /\ M = Len(trail) /\ stack \in Seq(Atoms) /\ L <= M
                                    /\ DOMAIN stack = 1..L
    BY InvFacts
  <1>2. n \in Nat /\ n <= Len(tr2) /\ \A k \in 1..n : tr2[k] = trail[k]
    BY <1>1 DEF Cancels, SameBelow
  <1>3. Shorter(st2, stack) /\ Len(st2) = Least(n, L)
    BY <1>1, <1>2, CutStack
  <1>4. PICK K \in Nat : K = Len(st2) /\ K <= n /\ K <= L /\ st2 \in Seq(Atoms) /\ DOMAIN st2 = 1..K
    <2>1. Len(st2) <= n /\ Len(st2) <= L
      BY <1>1, <1>2, <1>3, LeastFacts
    <2>2. st2 \in Seq(Atoms)
      BY <1>3 DEF Shorter
    <2>3. Len(st2) \in Nat /\ DOMAIN st2 = 1..Len(st2)
      BY <2>2, SeqFacts
    <2> QED
      BY <2>1, <2>2, <2>3
  <1>5. \A k \in 1..K : k \in 1..n /\ k \in 1..L
    BY <1>2, <1>4
  <1>6. SameBelow(trail, tr2, Len(st2))
    BY <1>2, <1>4, <1>5 DEF SameBelow
  <1>7. StackOK(st2, tr2)
    <2>1. \A k \in 1..K : st2[k] = stack[k]
      BY <1>3, <1>4 DEF Shorter
    <2>2. \A k \in 1..L : stack[k] = trail[k].atom
      BY <1>1 DEF TInv, StackOK
    <2>3. \A k \in 1..K : st2[k] = tr2[k].atom
      BY <1>2, <1>5, <2>1, <2>2
    <2>4. tr2 \in Seq(Entries)
      BY DEF Cancels
    <2>5. Len(tr2) \in Nat
      BY <2>4, SeqFacts
    <2> QED
      BY <1>2, <1>4, <2>3, <2>5 DEF StackOK
  <1>8. RefusedIn(la, stack, trail) => n < Len(stack)
    <2> HAVE RefusedIn(la, stack, trail)
    <2>1. pc = "analyze" /\ conflictAt = Len(stack)
      BY DEF TInv, StatusInv, Cancels
    <2> QED
      BY <2>1 DEF Cancels
  <1> QED
    BY <1>1, <1>2, <1>3, <1>4, <1>6, <1>7, <1>8

LEMMA CancelFakes ==
    ASSUME TInv, NEW s, NEW n, NEW tr2, Cancels(s, n, tr2), NEW st2, st2 = Cut(stack, n),
           NEW s2, ShapeInv(s2, CountIn(st2, Len(st2))), Agree(la, s2, CountIn(st2, Len(st2)))
    PROVE  AllDeduced(s2, st2, tr2)
  <1>1. PICK L \in Nat, M \in Nat : /\ L = Len(stack) /\ M = Len(trail) /\ stack \in Seq(Atoms) /\ L <= M
                                    /\ DOMAIN trail = 1..M /\ ShapeInv(la, CountIn(stack, Len(stack)))
    BY InvFacts
  <1>2. /\ n \in Nat /\ Shorter(st2, stack) /\ Len(st2) = Least(n, L)
        /\ RefusedIn(la, stack, trail) => n < L
    BY <1>1, CancelStack
  <1>3. PICK K \in Nat : K = Len(st2) /\ K = Least(n, L)
    <2>1. st2 \in Seq(Atoms)
      BY <1>2 DEF Shorter
    <2> QED
      BY <1>2, <2>1, SeqFacts
  <1>4. tr2 \in Seq(Entries) /\ n \in 0..M
    BY <1>1 DEF Cancels
  <1>5. \A i \in DOMAIN tr2 : tr2[i].fake => i \in 1..n /\ i \in 1..M /\ tr2[i] = trail[i]
    <2>1. \A i \in DOMAIN tr2 : i \in Nat /\ i >= 1
      BY <1>4, SeqFacts
    <2>2. \A i \in DOMAIN tr2 : tr2[i].fake => i <= n
      BY DEF Cancels
    <2>3. \A k \in 1..n : tr2[k] = trail[k] /\ k \in 1..M
      BY <1>4 DEF Cancels, SameBelow
    <2> QED
      BY <1>2, <2>1, <2>2, <2>3
  <1>6. CASE AllDeduced(la, stack, trail)
    <2>1. FakesKept(trail, tr2, stack, st2)
      <3>1. ASSUME NEW i \in 1..n
            PROVE  i - 1 <= K \/ K = L
        BY <1>2, <1>3 DEF Least
      <3> QED
        BY <1>1, <1>3, <1>5, <3>1 DEF FakesKept
    <2> QED
      BY <1>1, <1>2, <1>4, <1>6, <2>1, CutAllDeduced
  <1>7. CASE ~ AllDeduced(la, stack, trail)
    <2>1. pc = "analyze" /\ Len(stack) >= Least(conflictAt - 1, Len(trail)) /\ conflictAt \in Nat
      BY <1>7 DEF TInv, ReasonInv, StatusInv, Cancels
    <2>2. n < conflictAt
      BY <2>1 DEF Cancels
    <2>3. n <= L
      <3>1. PICK e \in Int : e = conflictAt - 1 /\ n <= e
        BY <1>2, <2>1, <2>2
      <3>2. L >= Least(e, M)
        BY <1>1, <2>1, <3>1
      <3> QED
        BY <1>1, <1>4, <3>1, <3>2 DEF Least
    <2>4. K = n
      BY <1>2, <1>3, <2>3 DEF Least
    <2>5. ASSUME NEW i \in DOMAIN tr2, tr2[i].fake
          PROVE  DeducedBy(s2, st2, Lit(tr2[i]), Least(Len(st2), i - 1))
      <3>1. i \in 1..n /\ i \in 1..M /\ tr2[i] = trail[i]
        BY <1>5, <2>5
      <3>2. PICK q \in 0..K : q = i - 1 /\ q < n
        BY <1>2, <2>4, <3>1
      <3>3. q <= L /\ (RefusedIn(la, stack, trail) => q < L)
        BY <1>2, <2>3, <3>2
      <3>4. DeducedBy(la, stack, Lit(trail[i]), q)
        <4>1. /\ KnownInv /\ TrailOK(trail, known) /\ StackOK(stack, trail)
              /\ Linked(la, deduced, stack, trail) /\ Explained(la, stack, trail, known)
          BY DEF TInv, ReasonInv
        <4>2. i \in DOMAIN trail /\ trail[i].fake /\ i - 1 <= Len(stack)
              /\ (RefusedIn(la, stack, trail) => i - 1 < Len(stack))
          BY <1>1, <2>5, <3>1, <3>2, <3>3
        <4>3. DeducedBy(la, stack, Lit(trail[i]), i - 1)
          BY <4>1, <4>2, FakeDeduced
        <4> QED
          BY <3>2, <4>3
      <3>5. DeducedBy(s2, st2, Lit(trail[i]), q)
        BY <1>1, <1>2, <1>3, <3>2, <3>4, SameDeduced
      <3>6. Least(K, q) = q
        BY <1>3, <3>2 DEF Least
      <3> QED
        BY <1>3, <3>1, <3>2, <3>5, <3>6
    <2> QED
      BY <2>5 DEF AllDeduced
  <1> QED
    BY <1>6, <1>7

LEMMA CancelsFacts ==
    ASSUME TInv, NEW s, NEW n, NEW tr2, Cancels(s, n, tr2), NEW st2, st2 = Cut(stack, n),
           NEW c, c = PointsAbove(n), NEW s2, s2 = popBacktrackPoints(s, c),
           NEW d2, d2 = UndoDeduced(deduced, s, c)
    PROVE  Canceled(s2, d2, st2, tr2)
  <1>1. /\ n \in Nat /\ Shorter(st2, stack) /\ StackOK(st2, tr2) /\ SameBelow(trail, tr2, Len(st2))
        /\ RefusedIn(la, stack, trail) => n < Len(stack)
    BY CancelStack
  <1>2. /\ Linked(la, deduced, stack, trail) /\ stack \in Seq(Atoms) /\ OnlyKnown(la)
        /\ ShapeInv(la, CountIn(stack, Len(stack))) /\ CountIn(stack, Len(stack)) \in Nat
    BY InvFacts DEF TInv
  <1>3. SameStacks(la, s) /\ s.built = la.built
    BY DEF Cancels
  <1>4. /\ Linked(s, deduced, stack, trail)
        /\ RefusedIn(s, stack, trail) <=> RefusedIn(la, stack, trail)
    BY <1>2, <1>3, SameStacksLinked
  <1>5. c = CountAbove(stack, n)
    BY DEF PointsAbove, CountAbove
  <1>6. /\ SolverInv(s2, HandIn(st2, tr2)) /\ Settled(s2, HandIn(st2, tr2))
        /\ TableInv(s2.dedList, d2)
        /\ Agree(s, s2, CountIn(st2, Len(st2)))
        /\ s2.status = "SAT" /\ s2.built = s.built
    BY <1>1, <1>2, <1>4, <1>5, BacktrackLinked
  <1>7. st2 \in Seq(Atoms) /\ \A k \in 1..Len(st2) : st2[k] = tr2[k].atom
    <2>1. st2 \in Seq(Atoms) /\ \A k \in DOMAIN st2 : st2[k] = tr2[k].atom
      BY <1>1 DEF StackOK
    <2> QED
      BY <2>1, SeqFacts
  <1>8. ~ RefusedIn(s2, st2, tr2)
    BY <1>6, <1>7, SettledUnrefused
  <1>9. PICK k \in 0..CountIn(stack, Len(stack)) : k = CountIn(st2, Len(st2)) /\ ShapeInv(s2, k)
    <2>1. CountIn(st2, Len(st2)) \in Nat /\ Len(HandIn(st2, tr2)) = CountIn(st2, Len(st2))
      BY <1>7, HandFacts
    <2>2. CountIn(st2, Len(st2)) <= CountIn(stack, Len(stack))
      BY <1>1, ShorterCount
    <2> QED
      BY <1>2, <1>6, <2>1, <2>2 DEF SolverInv
  <1>10. Agree(la, s2, k)
    <2>1. Agree(la, s, k)
      BY <1>2, <1>3, <1>9, SameStacksFacts
    <2>2. Agree(s, s2, k)
      BY <1>6, <1>9
    <2> QED
      BY <1>3, <2>2 DEF Agree, SameStacks
  <1>11. OnlyKnown(s2)
    BY <1>2, <1>9, <1>10, CutKnown
  <1>12. AllDeduced(s2, st2, tr2)
    BY <1>9, <1>10, CancelFakes
  <1>13. Live(s2)
    <2>1. la.built = TRUE
      BY DEF TInv, StatusInv, Cancels
    <2> QED
      BY <1>3, <1>6, <2>1 DEF Live
  <1> QED
    BY <1>1, <1>6, <1>8, <1>11, <1>12, <1>13 DEF Canceled, Linked

\* The first n literals of the trail.
LEMMA CutTrail ==
    ASSUME NEW tr, NEW kn, TrailOK(tr, kn), NEW n \in 0..Len(tr), NEW tr2, tr2 = Cut(tr, n)
    PROVE  /\ TrailOK(tr2, kn) /\ Len(tr2) = n /\ DOMAIN tr2 = 1..n
           /\ \A i \in 1..n : i \in DOMAIN tr /\ tr2[i] = tr[i]
  <1>1. PICK M \in Nat : M = Len(tr) /\ DOMAIN tr = 1..M /\ tr \in Seq(Entries) /\ n \in 0..M
    BY SeqFacts DEF TrailOK
  <1>2. /\ tr2 \in Seq(Entries) /\ Len(tr2) = n /\ DOMAIN tr2 = 1..n
        /\ \A i \in 1..n : tr2[i] = tr[i]
    <2>1. CASE n < M
      <3>1. tr2 = SubSeq(tr, 1, n)
        BY <1>1, <2>1 DEF Cut
      <3> QED
        BY <1>1, <3>1, PrefixFacts
    <2>2. CASE ~ (n < M)
      <3>1. tr2 = tr /\ n = M
        BY <1>1, <2>2 DEF Cut
      <3> QED
        BY <1>1, <3>1
    <2> QED
      BY <2>1, <2>2
  <1>3. \A i \in 1..n : i \in DOMAIN tr
    BY <1>1
  <1>4. TrailOK(tr2, kn)
    BY <1>2, <1>3 DEF TrailOK
  <1> QED
    BY <1>2, <1>3, <1>4

LEMMA CancelUntilInv ==
    ASSUME TInv, CancelUntil
    PROVE  TInv'
  <1>1. /\ pc \in {"search", "analyze"} /\ la.status # "INIT" /\ pc' = "search"
        /\ expl' = NoExpl /\ conflictAt' = 0 /\ UNCHANGED <<known, calls>>
    BY DEF CancelUntil
  <1>2. PICK n \in 0..Len(trail) : /\ pc = "analyze" => n < conflictAt
                                   /\ trail' = Cut(trail, n) /\ Backtrack(la, n)
    BY DEF CancelUntil
  <1>3. PICK tr2 : tr2 = trail' /\ tr2 = Cut(trail, n)
    BY <1>2
  <1>4. /\ TrailOK(tr2, known) /\ Len(tr2) = n /\ DOMAIN tr2 = 1..n /\ tr2 \in Seq(Entries)
        /\ \A i \in 1..n : tr2[i] = trail[i]
    <2>1. TrailOK(trail, known)
      BY DEF TInv
    <2>2. /\ TrailOK(tr2, known) /\ Len(tr2) = n /\ DOMAIN tr2 = 1..n
          /\ \A i \in 1..n : tr2[i] = trail[i]
      BY <1>2, <1>3, <2>1, CutTrail
    <2> QED
      BY <2>2 DEF TrailOK
  <1>5. SameStacks(la, la)
    BY InvFacts DEF ShapeInv, SameStacks
  <1>6. Cancels(la, n, tr2)
    BY <1>1, <1>2, <1>4, <1>5, InvFacts DEF Cancels, SameBelow
  <1>7. PICK st2, c, s2, d2 : /\ st2 = stack' /\ st2 = Cut(stack, n) /\ c = PointsAbove(n)
                              /\ s2 = la' /\ s2 = popBacktrackPoints(la, c)
                              /\ d2 = deduced' /\ d2 = UndoDeduced(deduced, la, c)
    BY <1>2 DEF Backtrack
  <1>8. Canceled(s2, d2, st2, tr2)
    BY <1>6, <1>7, CancelsFacts
  <1>9. KnownInv'
    BY <1>1 DEF TInv, KnownInv
  <1>10. OnlyKnown(la)' /\ Live(la)' /\ la'.status = "SAT"
    BY <1>1, <1>7, <1>8 DEF Canceled, OnlyKnown, Live
  <1>11. /\ TrailOK(trail, known)' /\ StackOK(stack, trail)' /\ Linked(la, deduced, stack, trail)'
         /\ RefusedIn(la, stack, trail)' = FALSE /\ AllDeduced(la, stack, trail)'
    BY <1>1, <1>3, <1>4, <1>7, <1>8 DEF Canceled
  <1> QED
    BY <1>1, <1>9, <1>10, <1>11, SearchAgain

\* A longer trail and more atoms known.
LEMMA TrailKnown ==
    ASSUME NEW tr, NEW kn, TrailOK(tr, kn), NEW kn2, kn \subseteq kn2
    PROVE  TrailOK(tr, kn2)
  BY DEF TrailOK

LongerBy(tr, e, tr2) ==
    /\ Len(tr2) = Len(tr) + 1 /\ DOMAIN tr2 = 1..Len(tr) + 1
    /\ \A i \in 1..Len(tr) : tr2[i] = tr[i]
    /\ tr2[Len(tr) + 1] = e
LEMMA TrailAppended ==
    ASSUME NEW tr, NEW kn, TrailOK(tr, kn), NEW e \in Entries, e.atom \in kn, ~ e.fake,
           \A i \in DOMAIN tr : tr[i].atom # e.atom, NEW tr2, tr2 = Append(tr, e)
    PROVE  TrailOK(tr2, kn) /\ LongerBy(tr, e, tr2)
  <1>1. PICK L \in Nat : L = Len(tr) /\ DOMAIN tr = 1..L /\ tr \in Seq(Entries)
    BY SeqFacts DEF TrailOK
  <1>2. /\ tr2 \in Seq(Entries) /\ Len(tr2) = L + 1 /\ DOMAIN tr2 = 1..L + 1
        /\ \A i \in 1..L : tr2[i] = tr[i]
        /\ tr2[L + 1] = e
    BY <1>1, AppendFacts
  <1>3. \A i \in 1..L + 1 : i \in 1..L \/ i = L + 1
    OBVIOUS
  <1>4. \A i, j \in 1..L : tr[i].atom = tr[j].atom => i = j
    BY <1>1 DEF TrailOK
  <1>5. \A i, j \in 1..L + 1 : tr2[i].atom = tr2[j].atom => i = j
    BY <1>1, <1>2, <1>3, <1>4
  <1>6. \A k \in 1..L + 1 : /\ tr2[k].atom \in LeqAtoms => tr2[k].atom \in kn
                            /\ tr2[k].fake => tr2[k].atom \in LeqAtoms
    BY <1>1, <1>2, <1>3 DEF TrailOK
  <1> QED
    BY <1>1, <1>2, <1>5, <1>6 DEF TrailOK, LongerBy

LEMMA SplitInv ==
    ASSUME TInv, Split
    PROVE  TInv'
  <1>1. pc = "deduce" /\ pc' = "search" /\ UNCHANGED <<expl, conflictAt, calls>>
    BY DEF Split
  <1>2. PICK S \in Splits :
          /\ known' = known \cup S
          /\ \/ la' = Taken /\ UNCHANGED <<trail, stack, deduced>>
             \/ \E n \in 0..Len(trail), l \in S :
                  /\ l \notin Assigned
                  /\ trail' = Append(Cut(trail, n), [atom |-> l, sgn |-> TRUE, fake |-> FALSE])
                  /\ Backtrack(Taken, n)
    BY DEF Split
  <1>3. S \subseteq LeqAtoms /\ LeqAtoms \subseteq Atoms
    BY AtomsAssumption
  <1>4. PICK s : s = Taken
    OBVIOUS
  <1>5. SameStacks(la, s) /\ s.status = la.status /\ s.built = la.built
    BY <1>4, InvFacts, TakenAllFields DEF Taken
  <1>6. /\ KnownInv /\ OnlyKnown(la) /\ TrailOK(trail, known) /\ StackOK(stack, trail)
        /\ Linked(la, deduced, stack, trail) /\ AllDeduced(la, stack, trail) /\ expl = NoExpl
        /\ la.status = "SAT" /\ conflictAt \in Nat
    BY <1>1 DEF TInv, ReasonInv, ExplanationInv, StatusInv
  <1>7. KnownInv'
    BY <1>2, <1>3, <1>6 DEF KnownInv
  <1>8. TrailOK(trail, known')
    BY <1>2, <1>6, TrailKnown
  <1>9. expl' = NoExpl /\ conflictAt' \in Nat
    BY <1>1, <1>6
  <1>10. CASE la' = Taken /\ UNCHANGED <<trail, stack, deduced>>
    <2>1. /\ Linked(s, deduced, stack, trail) /\ ~ RefusedIn(s, stack, trail) /\ AllDeduced(s, stack, trail)
      BY <1>1, <1>5, <1>6, Unrefused, SameStacksLinked
    <2>2. Live(s)
      BY <1>1, <1>5, Unrefused DEF Live
    <2>3. OnlyKnown(la)' /\ Live(la)' /\ la'.status = "SAT"
      BY <1>2, <1>4, <1>5, <1>6, <1>10, <2>2 DEF OnlyKnown, SameStacks, Live
    <2>4. /\ TrailOK(trail, known)' /\ StackOK(stack, trail)' /\ Linked(la, deduced, stack, trail)'
          /\ RefusedIn(la, stack, trail)' = FALSE /\ AllDeduced(la, stack, trail)'
      BY <1>4, <1>6, <1>8, <1>10, <2>1
    <2> QED
      BY <1>1, <1>7, <1>9, <2>3, <2>4, SearchAgain
  <1>11. ASSUME NEW n \in 0..Len(trail), NEW l \in S, l \notin Assigned,
                trail' = Append(Cut(trail, n), [atom |-> l, sgn |-> TRUE, fake |-> FALSE]),
                Backtrack(Taken, n)
         PROVE  TInv'
    <2>1. PICK tr1 : tr1 = Cut(trail, n)
      OBVIOUS
    <2>2. /\ TrailOK(tr1, known') /\ Len(tr1) = n /\ DOMAIN tr1 = 1..n
          /\ \A i \in 1..n : i \in DOMAIN trail /\ tr1[i] = trail[i]
      BY <1>8, <2>1, CutTrail
    <2>3. PICK e : e = [atom |-> l, sgn |-> TRUE, fake |-> FALSE]
      OBVIOUS
    <2>4. e \in Entries /\ e.atom = l /\ ~ e.fake /\ l \in known'
      BY <1>2, <1>3, <2>3 DEF Entries
    <2>5. \A i \in DOMAIN tr1 : tr1[i].atom # e.atom
      BY <1>11, <2>2, <2>4 DEF Assigned
    <2>6. PICK tr2 : tr2 = trail' /\ tr2 = Append(tr1, e)
      BY <1>11, <2>1, <2>3
    <2>7. PICK N \in Nat : N = n
      BY InvFacts
    <2>8. /\ TrailOK(tr2, known') /\ Len(tr2) = N + 1 /\ DOMAIN tr2 = 1..N + 1
          /\ \A i \in 1..N : tr2[i] = tr1[i]
          /\ tr2[N + 1] = e
      <3>1. PICK kn : kn = known'
        OBVIOUS
      <3>2. TrailOK(tr1, kn) /\ e \in Entries /\ e.atom \in kn /\ ~ e.fake
        BY <2>2, <2>4, <3>1
      <3>3. TrailOK(tr2, kn) /\ LongerBy(tr1, e, tr2)
        BY <2>5, <2>6, <3>2, TrailAppended
      <3> QED
        BY <2>2, <2>7, <3>1, <3>3 DEF LongerBy
    <2>9. Cancels(s, n, tr2)
      <3>1. tr2 \in Seq(Entries)
        BY <2>8 DEF TrailOK
      <3>2. SameBelow(trail, tr2, n)
        BY <2>2, <2>7, <2>8 DEF SameBelow
      <3>3. \A i \in DOMAIN tr2 : tr2[i].fake => i <= n
        <4>1. \A i \in 1..N + 1 : i <= N \/ i = N + 1
          OBVIOUS
        <4> QED
          BY <2>4, <2>7, <2>8, <4>1
      <3>4. n <= Len(tr2)
        BY <2>7, <2>8
      <3> QED
        BY <1>1, <1>5, <1>6, <3>1, <3>2, <3>3, <3>4 DEF Cancels
    <2>10. PICK st2, c, s2, d2 : /\ st2 = stack' /\ st2 = Cut(stack, n) /\ c = PointsAbove(n)
                                 /\ s2 = la' /\ s2 = popBacktrackPoints(s, c)
                                 /\ d2 = deduced' /\ d2 = UndoDeduced(deduced, s, c)
      <3>1. /\ stack' = Cut(stack, n) /\ la' = popBacktrackPoints(s, PointsAbove(n))
            /\ deduced' = UndoDeduced(deduced, s, PointsAbove(n))
        BY <1>4, <1>11 DEF Backtrack
      <3> QED
        BY <3>1
    <2>11. Canceled(s2, d2, st2, tr2)
      BY <2>9, <2>10, CancelsFacts
    <2>12. OnlyKnown(la)' /\ Live(la)' /\ la'.status = "SAT"
      BY <1>2, <2>10, <2>11 DEF Canceled, OnlyKnown, Live
    <2>13. /\ TrailOK(trail, known)' /\ StackOK(stack, trail)' /\ Linked(la, deduced, stack, trail)'
           /\ RefusedIn(la, stack, trail)' = FALSE /\ AllDeduced(la, stack, trail)'
      BY <2>6, <2>8, <2>10, <2>11 DEF Canceled
    <2> QED
      BY <1>1, <1>7, <1>9, <2>12, <2>13, SearchAgain
  <1> QED
    BY <1>2, <1>10, <1>11

(* The reason of the literal i of the trail: s and d are the solver and    *)
(* the table once all from i on is undone.                                 *)
Asks(i, n, tr1, st2, s, d) ==
    /\ pc = "analyze" /\ i \in 1..Len(trail) /\ trail[i].fake /\ i <= conflictAt
    /\ n = i - 1 /\ tr1 = Cut(trail, n) /\ st2 = Cut(stack, n)
    /\ s = popBacktrackPoints(la, PointsAbove(n))
    /\ d = UndoDeduced(deduced, la, PointsAbove(n))

LEMMA AsksFacts ==
    ASSUME TInv, NEW i, NEW n, NEW tr1, NEW st2, NEW s, NEW d, Asks(i, n, tr1, st2, s, d)
    PROVE  /\ n \in Nat /\ n < i /\ n \in 0..Len(trail) /\ Cancels(la, n, tr1) /\ Canceled(s, d, st2, tr1)
           /\ TrailOK(tr1, known) /\ Len(tr1) = n
           /\ \A k \in 1..n : tr1[k] = trail[k]
  <1>1. PICK M \in Nat : M = Len(trail) /\ i \in 1..M /\ n = i - 1 /\ n \in Nat /\ n \in 0..M /\ n < i
                         /\ DOMAIN trail = 1..M
    <2>1. Len(trail) \in Nat /\ DOMAIN trail = 1..Len(trail)
      BY InvFacts
    <2>2. i \in 1..Len(trail) /\ n = i - 1
      BY DEF Asks
    <2>3. PICK M \in Nat : M = Len(trail) /\ i \in 1..M
      BY <2>1, <2>2
    <2>4. i - 1 \in Nat /\ i - 1 \in 0..M /\ i - 1 < i
      BY <2>3
    <2> QED
      BY <2>1, <2>2, <2>3, <2>4
  <1>2. TrailOK(trail, known) /\ conflictAt \in Nat
    BY DEF TInv, StatusInv
  <1>3. tr1 = Cut(trail, n) /\ st2 = Cut(stack, n) /\ pc = "analyze" /\ n < conflictAt /\ la.status # "INIT"
    <2>1. i \in DOMAIN trail /\ trail[i].fake
      BY <1>1 DEF Asks
    <2>2. la.status # "INIT"
      BY <2>1 DEF TInv, StatusInv
    <2>3. n < conflictAt
      BY <1>1, <1>2 DEF Asks
    <2> QED
      BY <2>2, <2>3 DEF Asks
  <1>4. /\ TrailOK(tr1, known) /\ Len(tr1) = n /\ DOMAIN tr1 = 1..n
        /\ \A k \in 1..n : tr1[k] = trail[k]
    BY <1>1, <1>2, <1>3, CutTrail
  <1>5. SameStacks(la, la)
    BY InvFacts DEF ShapeInv, SameStacks
  <1>6. tr1 \in Seq(Entries)
    BY <1>4 DEF TrailOK
  <1>7. Cancels(la, n, tr1)
    BY <1>1, <1>3, <1>4, <1>5, <1>6 DEF Cancels, SameBelow
  <1>8. PICK c : c = PointsAbove(n) /\ s = popBacktrackPoints(la, c) /\ d = UndoDeduced(deduced, la, c)
    BY DEF Asks
  <1>9. Canceled(s, d, st2, tr1)
    BY <1>3, <1>7, <1>8, CancelsFacts
  <1> QED
    BY <1>1, <1>4, <1>7, <1>9

LEMMA AsksSolver ==
    ASSUME TInv, NEW i, NEW n, NEW tr1, NEW st2, NEW s, NEW d, Asks(i, n, tr1, st2, s, d)
    PROVE  /\ Shorter(st2, stack) /\ Len(st2) <= n /\ Len(st2) = Least(n, Len(stack)) /\ StackOK(st2, trail)
           /\ SolverInv(s, HandIn(st2, trail)) /\ Settled(s, HandIn(st2, trail))
           /\ TableInv(s.dedList, d) /\ Agree(la, s, CountIn(st2, Len(st2)))
           /\ Explained(s, st2, trail, known)
  <1>1. /\ n \in Nat /\ n < i /\ n \in 0..Len(trail) /\ Cancels(la, n, tr1)
        /\ \A k \in 1..n : tr1[k] = trail[k]
    BY AsksFacts
  <1>2. st2 = Cut(stack, n)
    BY DEF Asks
  <1>3. /\ Shorter(st2, stack) /\ StackOK(st2, tr1)
        /\ Len(st2) = Least(n, Len(stack)) /\ Len(st2) <= n
        /\ RefusedIn(la, stack, trail) => n < Len(stack)
    BY <1>1, <1>2, CancelStack
  <1>4. PICK K \in Nat : K = Len(st2) /\ st2 \in Seq(Atoms) /\ DOMAIN st2 = 1..K
    <2>1. st2 \in Seq(Atoms)
      BY <1>3 DEF Shorter
    <2> QED
      BY <2>1, SeqFacts
  <1>5. StackOK(st2, trail)
    <2>1. \A k \in 1..K : k \in 1..n /\ st2[k] = tr1[k].atom
      BY <1>1, <1>3, <1>4 DEF StackOK
    <2>2. K <= Len(trail)
      BY <1>1, <1>3, <1>4, InvFacts
    <2> QED
      BY <1>1, <1>4, <2>1, <2>2 DEF StackOK
  <1>6. Linked(la, deduced, stack, trail) /\ Explained(la, stack, trail, known) /\ StackOK(stack, trail)
    BY DEF TInv, ReasonInv
  <1>7. PICK c : c = CountAbove(stack, n) /\ s = popBacktrackPoints(la, c) /\ d = UndoDeduced(deduced, la, c)
    <2>1. PointsAbove(n) = CountAbove(stack, n)
      BY DEF PointsAbove, CountAbove
    <2> QED
      BY <2>1 DEF Asks
  <1>8. SameBelow(trail, trail, Len(st2))
    BY DEF SameBelow
  <1>9. /\ SolverInv(s, HandIn(st2, trail)) /\ Settled(s, HandIn(st2, trail))
        /\ TableInv(s.dedList, d) /\ Agree(la, s, CountIn(st2, Len(st2)))
    BY <1>1, <1>2, <1>3, <1>6, <1>7, <1>8, InvFacts, BacktrackLinked
  <1>10. Explained(s, st2, trail, known)
    <2>1. Prefix(trail, trail)
      BY InvFacts DEF Prefix
    <2>2. ShapeInv(s, CountIn(st2, Len(st2)))
      BY <1>4, <1>9, HandFacts DEF SolverInv
    <2>3. RefusedIn(la, stack, trail) => Len(st2) < Len(stack)
      BY <1>1, <1>3, <1>4, InvFacts
    <2>4. trail \in Seq(Entries) /\ Len(st2) <= Len(trail) /\ SolverInv(la, HandIn(stack, trail))
      BY <1>5, InvFacts DEF StackOK
    <2> QED
      BY <1>3, <1>6, <1>9, <2>1, <2>2, <2>3, <2>4, CutExplained
  <1> QED
    BY <1>3, <1>5, <1>9, <1>10

LEMMA AsksDeduced ==
    ASSUME TInv, NEW i, NEW n, NEW tr1, NEW st2, NEW s, NEW d, Asks(i, n, tr1, st2, s, d)
    PROVE  \E j \in DOMAIN s.dedList : s.dedList[j] = Lit(trail[i])
  <1>1. PICK L \in Nat, M \in Nat : /\ L = Len(stack) /\ M = Len(trail) /\ L <= M /\ stack \in Seq(Atoms)
                                    /\ DOMAIN trail = 1..M /\ ShapeInv(la, CountIn(stack, Len(stack)))
    BY InvFacts
  <1>2. /\ n \in Nat /\ n = i - 1 /\ i \in 1..M /\ trail[i].fake /\ i <= conflictAt /\ pc = "analyze"
        /\ Cancels(la, n, tr1) /\ st2 = Cut(stack, n)
    BY <1>1, AsksFacts DEF Asks
  <1>3. /\ Shorter(st2, stack) /\ Len(st2) = Least(n, L) /\ Agree(la, s, CountIn(st2, Len(st2)))
        /\ SolverInv(s, HandIn(st2, trail))
    BY <1>1, AsksSolver
  <1>4. RefusedIn(la, stack, trail) => n < L
    BY <1>1, <1>2, CancelStack
  <1>5. PICK K \in Nat : K = Len(st2) /\ st2 \in Seq(Atoms) /\ ShapeInv(s, CountIn(st2, K))
    <2>1. st2 \in Seq(Atoms)
      BY <1>3 DEF Shorter
    <2>2. ShapeInv(s, CountIn(st2, Len(st2)))
      BY <1>3, <2>1, HandFacts DEF SolverInv
    <2> QED
      BY <2>1, <2>2, SeqFacts
  <1>6. DeducedBy(la, stack, Lit(trail[i]), K)
    <2>1. CASE AllDeduced(la, stack, trail)
      <3>1. DeducedBy(la, stack, Lit(trail[i]), Least(L, n))
        BY <1>1, <1>2, <2>1 DEF AllDeduced
      <3>2. Least(L, n) = K
        BY <1>1, <1>2, <1>3, <1>5 DEF Least
      <3> QED
        BY <3>1, <3>2
    <2>2. CASE ~ AllDeduced(la, stack, trail)
      <3>1. L >= Least(conflictAt - 1, M) /\ conflictAt \in Nat
        BY <1>1, <1>2, <2>2 DEF TInv, ReasonInv, StatusInv
      <3>2. PICK e \in Int : e = conflictAt - 1 /\ n <= e
        BY <1>2, <3>1
      <3>3. n <= L
        BY <1>1, <1>2, <3>1, <3>2 DEF Least
      <3>4. K = n
        BY <1>1, <1>2, <1>3, <1>5, <3>3 DEF Least
      <3>5. /\ KnownInv /\ TrailOK(trail, known) /\ StackOK(stack, trail)
            /\ Linked(la, deduced, stack, trail) /\ Explained(la, stack, trail, known)
        BY DEF TInv, ReasonInv
      <3>6. i \in DOMAIN trail /\ i - 1 <= Len(stack) /\ (RefusedIn(la, stack, trail) => i - 1 < Len(stack))
        BY <1>1, <1>2, <1>4, <3>3
      <3>7. DeducedBy(la, stack, Lit(trail[i]), i - 1)
        BY <1>2, <3>5, <3>6, FakeDeduced
      <3> QED
        BY <1>2, <3>4, <3>7
    <2> QED
      BY <2>1, <2>2
  <1>7. K \in 0..Len(st2)
    BY <1>5
  <1>8. DeducedBy(s, st2, Lit(trail[i]), K)
    BY <1>1, <1>3, <1>5, <1>6, <1>7, SameDeduced
  <1> QED
    BY <1>5, <1>8, DeducedMore

\* The hand with one literal more.
OneMore(hand, n, l) == [p \in 1..n + 1 |-> IF p <= n THEN hand[p] ELSE l]
LEMMA OneMoreFacts ==
    ASSUME NEW n \in Nat, NEW hand, NEW l, NEW hand2, hand2 = OneMore(hand, n, l)
    PROVE  /\ DOMAIN hand2 = 1..n + 1 /\ Len(hand2) = n + 1
           /\ SameHand(hand, hand2, n) /\ hand2[n + 1] = l
  <1>1. PICK q \in Nat : q = n + 1
    OBVIOUS
  <1>2. hand2 = [p \in 1..q |-> IF p <= n THEN hand[p] ELSE l]
    BY <1>1 DEF OneMore
  <1>3. hand2[q] = l
    BY <1>1, <1>2
  <1>4. \A p \in 1..n : hand2[p] = hand[p]
    BY <1>1, <1>2
  <1>5. Len(hand2) = q
    <2>1. PICK S : S = {hand2[p] : p \in 1..q}
      OBVIOUS
    <2>2. hand2 \in [1..q -> S]
      BY <1>2, <2>1
    <2> QED
      BY <1>1, <2>2, FunctionLength
  <1> QED
    BY <1>1, <1>2, <1>3, <1>4, <1>5 DEF SameHand

\* The solver given the opposite of what it deduced, with l and n as in Asks,
\* refuses it with a literal below as the reason.
Answers(s, d, st2, l, n, w, e) ==
    /\ SolverInv(w, HandIn(st2, trail)) /\ Settled(w, HandIn(st2, trail))
    /\ Agree(s, w, CountIn(st2, Len(st2))) /\ w.dedList = s.dedList
    /\ TableInv(w.dedList, d) /\ w.status = "SAT" /\ w.built = TRUE
    /\ e.kind = "reason" /\ e.upto = n /\ e.lit = l
    /\ \A m \in e.lits : \E k \in 1..Len(st2) : m = Lit(trail[k])
    /\ Infeasible(e.lits \cup {Not(e.lit)})
LEMMA AsksAnswers ==
    ASSUME TInv, NEW i, NEW n, NEW tr1, NEW st2, NEW s, NEW d, Asks(i, n, tr1, st2, s, d),
           NEW l, l = Lit(trail[i]), NEW w, w = AfterReason(s, d, l), NEW e, e = Reason(s, d, l, n)
    PROVE  Answers(s, d, st2, l, n, w, e)
  <1>1. /\ Len(st2) <= n /\ StackOK(st2, trail)
        /\ SolverInv(s, HandIn(st2, trail)) /\ Settled(s, HandIn(st2, trail)) /\ TableInv(s.dedList, d)
        /\ n \in Nat /\ n < i /\ i \in 1..Len(trail)
    BY AsksFacts, AsksSolver DEF Asks
  <1>2. KnownInv /\ TrailOK(trail, known)
    BY DEF TInv
  <1>3. l \in LeqLits /\ l.atom = trail[i].atom
    <2>1. trail[i].fake /\ i \in DOMAIN trail
      BY <1>1, InvFacts DEF Asks
    <2>2. trail[i].atom \in LeqAtoms
      BY <1>2, <2>1 DEF TrailOK
    <2> QED
      BY <1>1, <1>2, <2>2, TrailLits DEF KnownInv
  <1>4. PICK l2 : l2 = Not(l) /\ l2 \in LeqLits /\ l2.atom = l.atom
    BY <1>3, ValueFacts
  <1>5. PICK hand : hand = HandIn(st2, trail)
    OBVIOUS
  <1>6. PICK N \in Nat : /\ N = CountIn(st2, Len(st2)) /\ DOMAIN hand = 1..N /\ Len(hand) = N
                         /\ \A p \in 1..N : PosIn(st2, p) \in 1..Len(st2) /\ hand[p] = Lit(trail[PosIn(st2, p)])
    <2>1. st2 \in Seq(Atoms)
      BY <1>1 DEF StackOK
    <2> QED
      BY <1>5, <2>1, HandFacts, PosFacts
  <1>7. PICK hand2 : hand2 = OneMore(hand, N, l2)
    OBVIOUS
  <1>8. Ready(s, hand, N, d, l2, hand2)
    <2>1. /\ DOMAIN hand2 = 1..N + 1 /\ Len(hand2) = N + 1
          /\ SameHand(hand, hand2, N) /\ hand2[N + 1] = l2
      BY <1>7, OneMoreFacts
    <2>2. Len(st2) \in Nat
      BY <1>1, SeqFacts DEF StackOK
    <2>3. i > Len(st2)
      BY <1>1, <2>2
    <2>4. \A p \in 1..N : hand[p].atom # l2.atom
      BY <1>1, <1>2, <1>3, <1>4, <1>5, <1>6, <2>3, NewLiteral
    <2>5. known \subseteq LeqAtoms /\ LeqAtoms \ UNION Splits \subseteq known
      BY <1>2 DEF KnownInv
    <2> QED
      BY <1>1, <1>5, <1>6, <2>1, <2>4, <2>5 DEF Ready
  <1>9. Live(s)
    BY AsksFacts DEF Canceled
  <1>10. PICK t : t = LAAssert(pushBacktrackPoint(s), d, l2).la
    OBVIOUS
  <1>11. \E j \in DOMAIN s.dedList : s.dedList[j] = l
    BY AsksDeduced
  <1>12. /\ SolverInv(t, hand2) /\ Agree(s, t, N) /\ t.dedList = s.dedList
         /\ RefusedBy(hand, N, l2, t) /\ d[l.atom] # Undef
    BY <1>3, <1>4, <1>8, <1>9, <1>10, <1>11, ReasonFound
  <1>13. PICK p \in 1..N : /\ t.explanation = {hand[p], l2} /\ t.status = "UNSAT" /\ t.built = TRUE
                           /\ Infeasible(t.explanation)
    BY <1>12 DEF RefusedBy
  <1>14. w = popBacktrackPoints(t, 1)
    BY <1>4, <1>10 DEF AfterReason
  <1>15. /\ SolverInv(w, hand) /\ Settled(w, hand) /\ Agree(s, w, N)
         /\ w.dedList = s.dedList /\ TableInv(w.dedList, d) /\ w.status = "SAT" /\ w.built = TRUE
    <2>1. ReasonPosted(s, hand, N, d, l2, hand2, t)
      BY <1>8, <1>12, <1>13 DEF ReasonPosted
    <2>2. ReasonGone(s, hand, N, d, w)
      BY <1>14, <2>1, ReasonUndone
    <2> QED
      BY <2>2 DEF ReasonGone
  <1>16. e = [kind |-> "reason", lit |-> l, lits |-> t.explanation \ {l2}, upto |-> n]
    BY <1>4, <1>10, <1>12, <1>13 DEF Reason
  <1>17. \A m \in e.lits : \E k \in 1..Len(st2) : m = Lit(trail[k])
    <2>1. \A m \in e.lits : m = hand[p]
      BY <1>13, <1>16
    <2> QED
      BY <1>6, <2>1
  <1>18. Infeasible(e.lits \cup {Not(e.lit)})
    <2>1. e.lits = t.explanation \ {l2} /\ Not(e.lit) = l2
      BY <1>4, <1>16
    <2>2. e.lits \cup {Not(e.lit)} = t.explanation
      BY <1>13, <2>1
    <2> QED
      BY <1>13, <2>2
  <1>19. e.kind = "reason" /\ e.upto = n /\ e.lit = l
    BY <1>16
  <1> QED
    BY <1>5, <1>6, <1>15, <1>17, <1>18, <1>19 DEF Answers

\* The state after the reason is known, the trail kept or cut.
LEMMA GetReasonInv ==
    ASSUME TInv, NEW temporarily \in BOOLEAN, GetReason(temporarily)
    PROVE  TInv'
  <1>1. pc = "analyze" /\ UNCHANGED <<known, conflictAt, calls>>
    BY DEF GetReason
  <1>2. PICK i, n, st2, s, d, tr1, l, w, e :
          /\ i \in 1..Len(trail)
          /\ Asks(i, n, tr1, st2, s, d)
          /\ l = Lit(trail[i]) /\ w = AfterReason(s, d, l) /\ e = Reason(s, d, l, n)
          /\ stack' = st2 /\ deduced' = d /\ expl' = e /\ la' = w
          /\ \/ trail' = trail /\ pc' = "restore"
             \/ trail' = tr1 /\ pc' = "analyze"
    <2>1. PICK i \in 1..Len(trail) :
            /\ trail[i].fake /\ i <= conflictAt
            /\ stack' = Cut(stack, i - 1)
            /\ deduced' = UndoDeduced(deduced, la, PointsAbove(i - 1))
            /\ expl' = Reason(popBacktrackPoints(la, PointsAbove(i - 1)),
                              UndoDeduced(deduced, la, PointsAbove(i - 1)), Lit(trail[i]), i - 1)
            /\ la' = AfterReason(popBacktrackPoints(la, PointsAbove(i - 1)),
                              UndoDeduced(deduced, la, PointsAbove(i - 1)), Lit(trail[i]))
            /\ IF temporarily THEN trail' = trail /\ pc' = "restore"
                              ELSE trail' = Cut(trail, i - 1) /\ pc' = pc
      BY DEF GetReason
    <2>2. PICK n, s, d, tr1, l :
            /\ n = i - 1 /\ s = popBacktrackPoints(la, PointsAbove(n))
            /\ d = UndoDeduced(deduced, la, PointsAbove(n)) /\ tr1 = Cut(trail, n) /\ l = Lit(trail[i])
      OBVIOUS
    <2>3. Asks(i, n, tr1, stack', s, d)
      BY <1>1, <2>1, <2>2 DEF Asks
    <2>4. deduced' = d /\ expl' = Reason(s, d, l, n) /\ la' = AfterReason(s, d, l)
      BY <2>1, <2>2
    <2>5. (trail' = trail /\ pc' = "restore") \/ (trail' = tr1 /\ pc' = "analyze")
      <3>1. tr1 = Cut(trail, i - 1)
        BY <2>2
      <3>2. CASE temporarily
        <4>1. trail' = trail /\ pc' = "restore"
          BY <2>1, <3>2, Zenon
        <4> QED
          BY <4>1
      <3>3. CASE ~ temporarily
        <4>1. trail' = Cut(trail, i - 1) /\ pc' = pc
          BY <2>1, <3>3, Zenon
        <4> QED
          BY <1>1, <3>1, <4>1
      <3> QED
        BY <3>2, <3>3
    <2> QED
      BY <2>2, <2>3, <2>4, <2>5
  <1>3. Answers(s, d, st2, l, n, w, e)
    BY <1>2, AsksAnswers
  <1>4. /\ n \in Nat /\ n < i /\ n \in 0..Len(trail) /\ Canceled(s, d, st2, tr1)
        /\ TrailOK(tr1, known) /\ Len(tr1) = n /\ \A k \in 1..n : tr1[k] = trail[k]
    BY <1>2, AsksFacts
  <1>5. /\ Len(st2) <= n /\ StackOK(st2, trail)
        /\ SolverInv(s, HandIn(st2, trail)) /\ Explained(s, st2, trail, known)
        /\ Settled(s, HandIn(st2, trail))
    BY <1>2, AsksSolver
  <1>6. PICK K \in Nat : K = Len(st2) /\ st2 \in Seq(Atoms) /\ DOMAIN st2 = 1..K /\ K <= n
    BY <1>5, SeqFacts DEF StackOK
  <1>7. /\ SolverInv(w, HandIn(st2, trail)) /\ Settled(w, HandIn(st2, trail))
        /\ Agree(s, w, CountIn(st2, Len(st2))) /\ w.dedList = s.dedList
        /\ TableInv(w.dedList, d) /\ w.status = "SAT" /\ w.built = TRUE
    BY <1>3 DEF Answers
  <1>8. ShapeInv(w, CountIn(st2, Len(st2))) /\ ShapeInv(s, CountIn(st2, Len(st2)))
    BY <1>5, <1>6, <1>7, HandFacts DEF SolverInv
  <1>9. Shorter(st2, st2)
    BY <1>6 DEF Shorter
  <1>10. PICK tr2 : tr2 = trail' /\ (tr2 = trail \/ tr2 = tr1)
    BY <1>2
  <1>11. /\ TrailOK(tr2, known) /\ n <= Len(tr2) /\ \A k \in 1..n : tr2[k] = trail[k]
    BY <1>4, <1>10 DEF TInv
  <1>12. SameBelow(trail, tr2, Len(st2))
    <2>1. \A k \in 1..K : k \in 1..n
      BY <1>4, <1>6
    <2> QED
      BY <1>6, <1>11, <2>1 DEF SameBelow
  <1>13. StackOK(st2, tr2)
    BY <1>4, <1>5, <1>10 DEF Canceled
  <1>14. HandIn(st2, tr2) = HandIn(st2, trail)
    BY <1>6, <1>12, SameHandIn
  <1>15. Linked(w, d, st2, tr2)
    BY <1>7, <1>14 DEF Linked
  <1>16. ~ RefusedIn(w, st2, tr2)
    <2>1. \A k \in 1..Len(st2) : st2[k] = tr2[k].atom
      BY <1>6, <1>13 DEF StackOK
    <2> QED
      BY <1>6, <1>7, <1>14, <2>1, SettledUnrefused
  <1>17. pc' = "analyze" => AllDeduced(w, st2, tr2)
    <2> HAVE pc' = "analyze"
    <2>1. tr2 = tr1
      BY <1>2, <1>10
    <2>2. AllDeduced(s, st2, tr2)
      BY <1>4, <2>1 DEF Canceled
    <2>3. FakesKept(tr2, tr2, st2, st2)
      BY DEF FakesKept
    <2>4. tr2 \in Seq(Entries)
      BY <1>11 DEF TrailOK
    <2> QED
      BY <1>7, <1>8, <1>9, <2>2, <2>3, <2>4, CutAllDeduced
  <1>18. Explained(w, st2, tr2, known)
    <2>1. CASE pc' = "analyze"
      BY <1>6, <1>17, <2>1, AllExplained
    <2>2. CASE pc' = "restore"
      <3>1. tr2 = trail
        BY <1>2, <1>10, <2>2
      <3>2. Prefix(trail, trail) /\ trail \in Seq(Entries) /\ Len(st2) <= Len(trail)
        BY <1>5, InvFacts DEF Prefix, StackOK
      <3>3. ~ RefusedIn(s, st2, trail)
        <4>1. \A k \in 1..Len(st2) : st2[k] = trail[k].atom
          BY <1>5, <1>6 DEF StackOK
        <4> QED
          BY <1>5, <1>6, <4>1, SettledUnrefused
      <3>4. Explained(w, st2, trail, known)
        BY <1>5, <1>7, <1>8, <1>9, <3>2, <3>3, CutExplained
      <3> QED
        BY <3>1, <3>4
    <2> QED
      BY <1>2, <2>1, <2>2
  <1>19. OnlyKnown(w)
    BY <1>4, <1>7 DEF Canceled, OnlyKnown
  <1>20. KnownInv' /\ OnlyKnown(la)'
    BY <1>1, <1>2, <1>19 DEF TInv, KnownInv, OnlyKnown
  <1>21. PcInv'
    BY <1>2 DEF PcInv
  <1>22. StatusInv'
    <2>1. conflictAt \in Nat /\ pc' # "idle" /\ pc' # "conflict" /\ pc' # "deduce"
      BY <1>2 DEF TInv, StatusInv
    <2>2. RefusedIn(la, stack, trail)' = FALSE
      BY <1>2, <1>10, <1>16
    <2> QED
      BY <1>1, <1>2, <1>7, <2>1, <2>2 DEF StatusInv
  <1>23. ExplanationInv'
    <2>1. /\ e.kind = "reason" /\ e.upto = n /\ e.lit = l
          /\ \A m \in e.lits : \E k \in 1..Len(st2) : m = Lit(trail[k])
          /\ Infeasible(e.lits \cup {Not(e.lit)})
      BY <1>3 DEF Answers
    <2>2. e.lits \subseteq {Lit(tr2[k]) : k \in 1..n}
      <3>1. \A k \in 1..K : k \in 1..n /\ tr2[k] = trail[k]
        BY <1>4, <1>6, <1>11
      <3> QED
        BY <1>6, <2>1, <3>1
    <2>3. n \in 0..Len(tr2)
      BY <1>4, <1>10
    <2>4. ReasonSound'
      BY <1>2, <1>10, <2>1, <2>2 DEF ReasonSound
    <2>5. ConflictSound'
      BY <1>2, <2>1 DEF ConflictSound
    <2> QED
      BY <1>2, <1>10, <2>1, <2>3, <2>4, <2>5 DEF ExplanationInv
  <1>24. ReasonInv'
    BY <1>1, <1>2, <1>10, <1>17, <1>18 DEF ReasonInv
  <1>25. TrailOK(trail, known)' /\ StackOK(stack, trail)' /\ Linked(la, deduced, stack, trail)'
    BY <1>1, <1>2, <1>10, <1>11, <1>13, <1>15
  <1> QED
    BY <1>20, <1>21, <1>22, <1>23, <1>24, <1>25 DEF TInv

(* Between two calls.                                                      *)
LEMMA clearSearchInv ==
    ASSUME TInv, clearSearch
    PROVE  TInv'
  <1>1. /\ pc \in {"search", "analyze"} /\ pc' = "idle" /\ expl' = NoExpl /\ conflictAt' = 0
        /\ UNCHANGED <<known, calls>> /\ Backtrack(la, 0)
    BY DEF clearSearch
  <1>2. PICK n \in 0..Len(trail) : trail' = [k \in 1..n |-> Entry(trail[k], FALSE)]
    BY DEF clearSearch
  <1>3. PICK c, st2, s2, d2 : /\ c = CountAbove(stack, 0) /\ st2 = stack' /\ s2 = la' /\ d2 = deduced'
                              /\ st2 = Cut(stack, 0) /\ s2 = popBacktrackPoints(la, c)
                              /\ d2 = UndoDeduced(deduced, la, c)
    <2>1. PointsAbove(0) = CountAbove(stack, 0)
      BY DEF PointsAbove, CountAbove
    <2> QED
      BY <1>1, <2>1 DEF Backtrack
  <1>4. PICK M \in Nat : M = Len(trail) /\ DOMAIN trail = 1..M /\ trail \in Seq(Entries) /\ n \in 0..M
                         /\ \A i \in 1..M : trail[i] \in Entries
    BY InvFacts, SeqFacts
  <1>5. PICK tr2 : tr2 = trail' /\ tr2 = [k \in 1..n |-> Entry(trail[k], FALSE)]
    BY <1>2
  <1>6. \A k \in 1..n : /\ k \in 1..M /\ tr2[k] = Entry(trail[k], FALSE)
                        /\ tr2[k] \in Entries /\ tr2[k].atom = trail[k].atom /\ ~ tr2[k].fake
    BY <1>4, <1>5 DEF Entry, Entries
  <1>7. tr2 \in Seq(Entries) /\ Len(tr2) = n /\ DOMAIN tr2 = 1..n
    <2>0. \A k \in 1..n : Entry(trail[k], FALSE) \in Entries
      BY <1>6
    <2>1. tr2 \in [1..n -> Entries]
      BY <1>5, <2>0
    <2>2. n \in Nat
      BY <1>4
    <2> QED
      BY <1>5, <2>1, <2>2, FunctionLength
  <1>8. TrailOK(tr2, known)
    <2>1. TrailOK(trail, known)
      BY DEF TInv
    <2> QED
      BY <1>4, <1>6, <1>7, <2>1 DEF TrailOK
  <1>9. st2 = <<>> /\ Len(st2) = 0 /\ st2 \in Seq(Atoms) /\ DOMAIN st2 = {}
    <2>1. Shorter(st2, stack) /\ Len(st2) = Least(0, Len(stack))
      BY <1>3, InvFacts, CutStack
    <2>2. Len(st2) = 0
      BY <2>1, InvFacts DEF Least
    <2>3. st2 \in Seq(Atoms)
      BY <2>1 DEF Shorter
    <2>4. st2 = <<>>
      BY <2>2, <2>3, EmptySeq
    <2>5. DOMAIN st2 = 1..0
      BY <2>2, <2>3, SeqFacts
    <2> QED
      BY <2>2, <2>3, <2>4, <2>5
  <1>10. RefusedIn(la, stack, trail) => 0 < Len(stack)
    BY InvFacts, EmptySeq DEF RefusedIn
  <1>11. SameBelow(trail, tr2, Len(st2))
    BY <1>9 DEF SameBelow
  <1>12. /\ SolverInv(s2, HandIn(st2, tr2)) /\ Settled(s2, HandIn(st2, tr2))
         /\ TableInv(s2.dedList, d2) /\ Agree(la, s2, CountIn(st2, Len(st2)))
         /\ s2.status = "SAT" /\ s2.built = la.built
    <2>1. Linked(la, deduced, stack, trail) /\ stack \in Seq(Atoms)
      BY InvFacts DEF TInv
    <2> QED
      BY <1>3, <1>10, <1>11, <2>1, BacktrackLinked
  <1>13. Linked(s2, d2, st2, tr2)
    BY <1>12 DEF Linked
  <1>14. StackOK(st2, tr2)
    BY <1>4, <1>7, <1>9 DEF StackOK
  <1>15. ~ RefusedIn(s2, st2, tr2)
    BY <1>9 DEF RefusedIn
  <1>16. OnlyKnown(s2)
    <2>1. PICK N \in Nat, k \in Nat : N = CountIn(stack, Len(stack)) /\ k = CountIn(st2, Len(st2)) /\ k \in 0..N
      <3>1. CountIn(st2, Len(st2)) = 0
        BY <1>9, CountFacts
      <3> QED
        BY <3>1, InvFacts
    <2>2. ShapeInv(la, N) /\ OnlyKnown(la)
      BY <2>1, InvFacts DEF TInv
    <2>3. ShapeInv(s2, k)
      BY <1>9, <1>12, <2>1, HandFacts DEF SolverInv
    <2> QED
      BY <1>12, <2>1, <2>2, <2>3, CutKnown
  <1>17. Explained(s2, st2, tr2, known)
    BY <1>6, <1>7, <1>9, NoFakes
  <1>18. PcInv'
    BY <1>1, <1>3, <1>9 DEF PcInv
  <1>19. StatusInv'
    <2>1. la.built \in BOOLEAN
      BY DEF TInv, StatusInv
    <2> QED
      BY <1>1, <1>3, <1>5, <1>6, <1>7, <1>12, <1>15, <2>1 DEF StatusInv
  <1>20. ExplanationInv'
    BY <1>1 DEF ExplanationInv, NoExpl, ConflictSound, ReasonSound
  <1>21. ReasonInv'
    BY <1>1, <1>3, <1>5, <1>17 DEF ReasonInv
  <1>22. KnownInv' /\ OnlyKnown(la)'
    BY <1>1, <1>3, <1>16 DEF TInv, KnownInv, OnlyKnown
  <1>23. TrailOK(trail, known)' /\ StackOK(stack, trail)' /\ Linked(la, deduced, stack, trail)'
    BY <1>1, <1>3, <1>5, <1>8, <1>13, <1>14
  <1> QED
    BY <1>18, <1>19, <1>20, <1>21, <1>22, <1>23 DEF TInv

LEMMA declareVarsInv ==
    ASSUME TInv, declareVarsToTheories
    PROVE  TInv'
  <1>1. /\ pc = "idle" /\ la' = clearSolver(la) /\ pc' = "search"
        /\ UNCHANGED <<trail, stack, deduced, known, expl, conflictAt>>
    BY DEF declareVarsToTheories
  <1>2. stack = <<>> /\ expl = NoExpl /\ conflictAt \in Nat /\ \A k \in DOMAIN trail : ~ trail[k].fake
    BY <1>1 DEF TInv, PcInv, ExplanationInv, StatusInv
  <1>3. PICK e : e = <<>> /\ e = stack
    BY <1>2
  <1>4. Len(e) = 0 /\ CountIn(e, Len(e)) = 0 /\ e \in Seq(Atoms)
    BY <1>3, EmptyHand
  <1>5. ShapeInv(la, 0) /\ DecisionsInv(la, HandIn(stack, trail)) /\ TableInv(la.dedList, deduced)
    BY <1>3, <1>4, InvFacts DEF SolverInv, TInv, Linked
  <1>6. la.decisions = <<>> /\ la.dedList = <<>>
    <2>1. Layered(la.decisions, la.decLimit, 0) /\ Layered(la.dedList, la.dedLim, 0)
      BY <1>5 DEF ShapeInv
    <2>2. la.decisions \in Seq(LeqLits) /\ la.dedList \in Seq(LeqLits)
      BY <2>1 DEF Layered
    <2>3. Len(la.decisions) = 0 /\ Len(la.dedList) = 0
      BY <2>1, LayerFacts
    <2> QED
      BY <2>2, <2>3, EmptySeq
  <1>7. PICK pol : /\ pol = la.polarity /\ pol \in [LeqAtoms -> {"undef", "true", "false"}]
                   /\ \A a \in LeqAtoms : pol[a] = "undef"
    <2>1. DOMAIN la.decisions = {}
      BY <1>3, <1>4, <1>6, SeqFacts
    <2>2. \A a \in LeqAtoms : la.polarity[a] = "undef"
      BY <1>5, <2>1 DEF DecisionsInv
    <2> QED
      BY <1>5, <2>2 DEF ShapeInv
  <1>8. PICK s2 : s2 = la' /\ s2 = [EmptyLA EXCEPT !.polarity = pol]
    BY <1>1, <1>7 DEF clearSolver
  <1>9. Cleared(s2, pol)
    BY <1>8, ClearedFields
  <1>10. /\ SolverInv(s2, HandIn(<<>>, trail)) /\ Settled(s2, HandIn(<<>>, trail)) /\ OnlyKnown(s2)
         /\ s2.dedList = <<>> /\ s2.status = "INIT" /\ s2.built = FALSE
    BY <1>7, <1>9, EmptySolver
  <1>11. Linked(s2, deduced, stack, trail)
    BY <1>2, <1>5, <1>6, <1>10 DEF Linked
  <1>12. ~ RefusedIn(s2, stack, trail)
    BY <1>2 DEF RefusedIn
  <1>13. AllDeduced(s2, stack, trail)
    BY <1>2, <1>3, <1>4, NoFakes
  <1>14. KnownInv' /\ OnlyKnown(la)' /\ Live(la)'
    BY <1>1, <1>8, <1>10 DEF TInv, KnownInv, OnlyKnown, Live
  <1>15. TrailOK(trail, known) /\ StackOK(stack, trail)
    BY DEF TInv
  <1>16. /\ TrailOK(trail, known)' /\ StackOK(stack, trail)' /\ Linked(la, deduced, stack, trail)'
         /\ RefusedIn(la, stack, trail)' = FALSE /\ AllDeduced(la, stack, trail)'
    BY <1>1, <1>8, <1>11, <1>12, <1>13, <1>15
  <1>17. expl' = NoExpl /\ conflictAt' \in Nat /\ \A k \in DOMAIN trail' : trail'[k].fake => la'.status # "INIT"
    BY <1>1, <1>2
  <1> QED
    BY <1>1, <1>14, <1>16, <1>17, SearchAgain

LEMMA NextInv ==
    ASSUME TInv, Next
    PROVE  TInv'
  <1>1. CASE Enqueue
    BY <1>1, EnqueueInv
  <1>2. CASE CheckTheory
    BY <1>2, CheckTheoryInv
  <1>3. CASE AssertNext
    BY <1>3, AssertNextInv
  <1>4. CASE AssertDone
    BY <1>4, AssertDoneInv
  <1>5. CASE Check
    BY <1>5, CheckInv
  <1>6. CASE GetConflict
    BY <1>6, GetConflictInv
  <1>7. CASE PropagationConflict
    BY <1>7, PropagationConflictInv
  <1>8. CASE EnqueueDeductions
    BY <1>8, EnqueueDeductionsInv
  <1>9. CASE Split
    BY <1>9, SplitInv
  <1>10. CASE GetReason(TRUE)
    BY <1>10, GetReasonInv
  <1>11. CASE GetReason(FALSE)
    BY <1>11, GetReasonInv
  <1>12. CASE CancelUntil
    BY <1>12, CancelUntilInv
  <1>13. CASE clearSearch
    BY <1>13, clearSearchInv
  <1>14. CASE declareVarsToTheories
    BY <1>14, declareVarsInv
  <1> QED
    BY <1>1, <1>2, <1>3, <1>4, <1>5, <1>6, <1>7, <1>8, <1>9, <1>10, <1>11, <1>12, <1>13, <1>14 DEF Next

LEMMA StutterInv ==
    ASSUME TInv, UNCHANGED vars
    PROVE  TInv'
  <1>1. UNCHANGED <<trail, stack, deduced, known, la, pc, expl, conflictAt, calls>>
    BY DEF vars
  <1>2. KnownInv' /\ OnlyKnown(la)'
    BY <1>1 DEF TInv, KnownInv, OnlyKnown
  <1>3. PcInv' /\ StatusInv'
    BY <1>1 DEF TInv, PcInv, StatusInv
  <1>4. ExplanationInv'
    BY <1>1 DEF TInv, ExplanationInv, ConflictSound, ReasonSound, HandedOver
  <1>5. ReasonInv'
    BY <1>1 DEF TInv, ReasonInv
  <1>6. TrailOK(trail, known)' /\ StackOK(stack, trail)' /\ Linked(la, deduced, stack, trail)'
    BY <1>1 DEF TInv
  <1> QED
    BY <1>2, <1>3, <1>4, <1>5, <1>6 DEF TInv

\* The invariant: what the parts of TInv say holds in every reachable state.
THEOREM Invariance == Spec => []TInv
  <1>1. Init => TInv
    BY InitInv
  <1>2. TInv /\ [Next]_vars => TInv'
    BY NextInv, StutterInv
  <1> QED
    BY <1>1, <1>2, PTL DEF Spec

-----------------------------------------------------------------------------
(* What follows from it.                                                   *)

\* The parts of it about the solver.
LEMMA SolverFacts ==
    ASSUME TInv
    PROVE  \E N, hand :
             /\ N \in Nat
             /\ N = CountIn(stack, Len(stack)) /\ hand = HandIn(stack, trail) /\ DOMAIN hand = 1..N
             /\ ShapeInv(la, N) /\ TraceInv(la, hand) /\ DecisionsInv(la, hand) /\ HandInv(la, hand)
             /\ DeductionsInv(la, hand) /\ CompleteInv(la, hand) /\ TableInv(la.dedList, deduced)
             /\ Len(hand) = N /\ (Settled(la, hand) \/ RefusedIn(la, stack, trail))
  <1>1. PICK N, hand : N \in Nat /\ N = CountIn(stack, Len(stack)) /\ hand = HandIn(stack, trail)
    BY InvFacts
  <1>2. DOMAIN hand = 1..N /\ Len(hand) = N
    BY <1>1, InvFacts, HandFacts
  <1>3. SolverInv(la, hand) /\ TableInv(la.dedList, deduced) /\ (Settled(la, hand) \/ RefusedIn(la, stack, trail))
    BY <1>1 DEF TInv, Linked
  <1> QED
    BY <1>1, <1>2, <1>3 DEF SolverInv

\* A literal the solver accepted is settled.
LEMMA AcceptedFacts ==
    ASSUME TInv, NEW N, N = CountIn(stack, Len(stack)), NEW hand, hand = HandIn(stack, trail),
           NEW k \in Accepted
    PROVE  \E p \in 1..N : /\ hand[p] = Lit(trail[k]) /\ hand[p] \in LeqLits
                           /\ TakenAt(la, hand, p) \/ PassedOver(la, hand, p)
  <1>1. PICK L \in Nat : /\ L = Len(stack) /\ stack \in Seq(Atoms) /\ DOMAIN stack = 1..L /\ N \in Nat
                         /\ DOMAIN hand = 1..N /\ Len(hand) = N /\ L <= Len(trail)
    BY InvFacts, HandFacts
  <1>2. k \in 1..L /\ trail[k].atom \in known /\ (k < L \/ ~ boundUnsatisfied(la, Lit(trail[k])))
    BY <1>1 DEF Accepted, Handed
  <1>3. /\ stack[k] = trail[k].atom /\ trail[k].atom \in LeqAtoms /\ stack[k] \in TheoryAtoms
        /\ Lit(trail[k]) \in LeqLits
    <2>1. stack[k] = trail[k].atom /\ TrailOK(trail, known) /\ known \subseteq LeqAtoms
      BY <1>1, <1>2 DEF TInv, StackOK, KnownInv
    <2>2. PICK i \in 1..Len(trail) : i = k
      BY <1>1, <1>2, InvFacts
    <2>3. Lit(trail[k]) \in LeqLits
      BY <1>2, <2>1, <2>2, TrailLits
    <2> QED
      BY <1>2, <2>1, <2>3, AtomsAssumption
  <1>4. PICK p \in 1..N : p = CountIn(stack, k) /\ hand[p] = Lit(trail[k])
    BY <1>1, <1>2, <1>3, HandAt
  <1>5. hand[p].atom \in LeqAtoms
    BY <1>3, <1>4 DEF LeqLits
  <1>6. SettledAt(la, hand, p)
    <2>1. CASE Settled(la, hand)
      BY <1>1, <1>4, <2>1 DEF Settled
    <2>2. CASE RefusedIn(la, stack, trail)
      <3>1. SettledAt(la, hand, p) \/ (p = N /\ boundUnsatisfied(la, hand[p]))
        BY <1>1, InvFacts DEF SolverInv, HandInv
      <3>2. ASSUME p = N, boundUnsatisfied(la, hand[p])
            PROVE  FALSE
        <4>1. k < L
          BY <1>2, <1>4, <3>2
        <4>2. stack[L] \in TheoryAtoms /\ L \in 1..L
          BY <1>1, <1>2, <2>2, AtomsAssumption DEF RefusedIn
        <4>3. CountIn(stack, k) < CountIn(stack, L)
          BY <1>1, <1>2, <1>3, <4>1, <4>2, PosFacts
        <4> QED
          BY <1>1, <1>4, <3>2, <4>3
      <3> QED
        BY <3>1, <3>2
    <2> QED
      BY <2>1, <2>2 DEF TInv, Linked
  <1> QED
    BY <1>3, <1>4, <1>5, <1>6 DEF SettledAt

\* A bound of the trace is that of an accepted literal.
LEMMA BoundAccepted ==
    ASSUME TInv, NEW j \in DOMAIN la.trace
    PROVE  \E k \in Accepted : Lit(trail[k]) = la.trace[j]
  <1>1. PICK N, hand :
             /\ N \in Nat
             /\ N = CountIn(stack, Len(stack)) /\ hand = HandIn(stack, trail) /\ DOMAIN hand = 1..N
             /\ ShapeInv(la, N) /\ TraceInv(la, hand)
    BY SolverFacts
  <1>2. PICK p \in 1..N : la.trace[j] = hand[p]
    BY <1>1 DEF TraceInv
  <1>3. la.trace[j] \in LeqLits
    <2>1. la.trace \in Seq(LeqLits)
      BY <1>1 DEF ShapeInv, Layered
    <2> QED
      BY <2>1, SeqFacts
  <1>4. PICK k \in 1..Len(stack) : hand[p] = Lit(trail[k])
    <2>1. stack \in Seq(Atoms)
      BY InvFacts
    <2> QED
      BY <1>1, <2>1, HandFacts, PosFacts
  <1>5. k \in DOMAIN stack /\ k \in DOMAIN trail
    BY InvFacts
  <1>6. trail[k].atom \in known
    <2>1. trail[k].atom = la.trace[j].atom
      BY <1>2, <1>4 DEF Lit
    <2>2. trail[k].atom \in LeqAtoms
      BY <1>3, <2>1 DEF LeqLits
    <2> QED
      BY <1>5, <2>2 DEF TInv, TrailOK
  <1>7. ~ boundUnsatisfied(la, la.trace[j])
    <2>1. \A i \in DOMAIN la.trace : ~ Crossed(la.trace[j], la.trace[i]) /\ ~ Crossed(la.trace[i], la.trace[j])
      BY <1>1 DEF TraceInv
    <2> QED
      BY <1>1, <1>3, <2>1, UnsatisfiedIff
  <1> QED
    BY <1>2, <1>4, <1>5, <1>6, <1>7 DEF Accepted, Handed

\* One point per theory atom of the stack.
LEMMA PointsAlignedInv ==
    ASSUME TInv
    PROVE  PointsAligned
  <1>1. PICK N \in Nat : N = CountIn(stack, Len(stack)) /\ ShapeInv(la, N)
    BY SolverFacts
  <1>2. PointsAbove(0) = N
    BY <1>1 DEF PointsAbove, CountIn
  <1>3. N = Len(la.limits) /\ N = Len(la.decLimit) /\ N = Len(la.dedLim) /\ N = Len(la.dedLast)
    BY <1>1 DEF ShapeInv, Layered
  <1> QED
    BY <1>2, <1>3 DEF PointsAligned

LEMMA BoundsExactInv ==
    ASSUME TInv
    PROVE  BoundsExact
  <1>1. PICK N, hand :
             /\ N \in Nat
             /\ N = CountIn(stack, Len(stack)) /\ hand = HandIn(stack, trail) /\ DOMAIN hand = 1..N
             /\ ShapeInv(la, N) /\ TraceInv(la, hand) /\ DeductionsInv(la, hand)
    BY SolverFacts
  <1>2. \A j \in DOMAIN la.trace : la.trace[j] \in LeqLits
    <2>1. la.trace \in Seq(LeqLits)
      BY <1>1 DEF ShapeInv, Layered
    <2> QED
      BY <2>1, SeqFacts
  <1>3. pc \in {"search", "assert", "check", "deduce", "restore"} => la.status # "UNSAT"
    BY DEF TInv, StatusInv
  <1>4. la.status # "INIT" /\ Handed # {} => la.built
    <2>1. pc = "idle" => Handed = {}
      <3> HAVE pc = "idle"
      <3>1. PICK e : e = <<>> /\ e = stack
        BY DEF TInv, PcInv
      <3>2. DOMAIN e = {}
        BY <3>1, EmptyHand, SeqFacts
      <3> QED
        BY <3>1, <3>2 DEF Handed
    <2> QED
      BY <2>1 DEF TInv, StatusInv
  <1>5. ASSUME NEW v, NEW lower \in BOOLEAN, NEW k \in AcceptedOn(v, lower)
        PROVE  /\ Lit(trail[k]) \in LeqLits /\ LeqVar[Lit(trail[k]).atom] = v /\ IsLower(Lit(trail[k])) = lower
               /\ \E i \in Bounds(la, v, lower) : Weaker(la.trace[i], Lit(trail[k]))
    <2>1. k \in Accepted /\ LeqVar[trail[k].atom] = v /\ IsLower(Lit(trail[k])) = lower
      BY DEF AcceptedOn
    <2>2. PICK p \in 1..N : /\ hand[p] = Lit(trail[k]) /\ hand[p] \in LeqLits
                            /\ TakenAt(la, hand, p) \/ PassedOver(la, hand, p)
      BY <1>1, <2>1, AcceptedFacts
    <2>3. PICK i \in DOMAIN la.trace : Weaker(la.trace[i], hand[p])
      BY <1>1, <2>2, BoundWitness
    <2>4. LeqVar[la.trace[i].atom] = LeqVar[hand[p].atom] /\ IsLower(la.trace[i]) = IsLower(hand[p])
      BY <1>2, <2>2, <2>3, WeakerFacts
    <2>5. LeqVar[Lit(trail[k]).atom] = v
      BY <2>1 DEF Lit
    <2> QED
      BY <2>1, <2>2, <2>3, <2>4, <2>5 DEF Bounds
  <1>6. ASSUME NEW v, NEW lower \in BOOLEAN, Bounded(la, v, lower)
        PROVE  /\ \E k \in AcceptedOn(v, lower) : Value(InForce(la, v, lower)) = Value(Lit(trail[k]))
               /\ \A k \in AcceptedOn(v, lower) : Weaker(InForce(la, v, lower), Lit(trail[k]))
    <2>1. PICK j \in Bounds(la, v, lower) :
             /\ InForce(la, v, lower) = la.trace[j]
             /\ \A i \in Bounds(la, v, lower) : Weaker(la.trace[j], la.trace[i])
      BY <1>1, <1>6, InForceFacts
    <2>2. j \in DOMAIN la.trace /\ LeqVar[la.trace[j].atom] = v /\ IsLower(la.trace[j]) = lower
      BY DEF Bounds
    <2>3. PICK k \in Accepted : Lit(trail[k]) = la.trace[j]
      BY <2>2, BoundAccepted
    <2>4. LeqVar[trail[k].atom] = v
      BY <2>2, <2>3 DEF Lit
    <2>5. k \in AcceptedOn(v, lower)
      BY <2>2, <2>3, <2>4 DEF AcceptedOn
    <2>6. ASSUME NEW q \in AcceptedOn(v, lower)
          PROVE  Weaker(la.trace[j], Lit(trail[q]))
      <3>1. PICK i \in Bounds(la, v, lower) : Weaker(la.trace[i], Lit(trail[q]))
        BY <1>5
      <3>2. i \in DOMAIN la.trace /\ Weaker(la.trace[j], la.trace[i]) /\ Lit(trail[q]) \in LeqLits
        BY <1>5, <2>1 DEF Bounds
      <3> QED
        BY <1>2, <2>2, <3>1, <3>2, WeakerFacts
    <2> QED
      BY <2>1, <2>3, <2>5, <2>6
  <1>7. ASSUME NEW v, NEW lower \in BOOLEAN, ~ Bounded(la, v, lower)
        PROVE  AcceptedOn(v, lower) = {}
    BY <1>5, <1>7 DEF Bounded
  <1> QED
    BY <1>3, <1>4, <1>6, <1>7 DEF BoundsExact

LEMMA DecisionsExactInv ==
    ASSUME TInv
    PROVE  DecisionsExact
  <1>1. PICK N, hand :
             /\ N \in Nat
             /\ N = CountIn(stack, Len(stack)) /\ hand = HandIn(stack, trail) /\ DOMAIN hand = 1..N
             /\ ShapeInv(la, N) /\ DecisionsInv(la, hand) /\ DeductionsInv(la, hand)
             /\ TableInv(la.dedList, deduced)
    BY SolverFacts
  <1>2. ASSUME NEW k \in Accepted
        PROVE  la.polarity[trail[k].atom] # "undef" \/ OwnDeduction(deduced, Lit(trail[k]))
    <2>1. PICK p \in 1..N : /\ hand[p] = Lit(trail[k]) /\ hand[p] \in LeqLits
                            /\ TakenAt(la, hand, p) \/ PassedOver(la, hand, p)
      BY <1>1, AcceptedFacts
    <2>2. hand[p].atom = trail[k].atom /\ hand[p].atom \in LeqAtoms
      BY <2>1 DEF Lit, LeqLits
    <2>3. CASE TakenAt(la, hand, p)
      <3>1. \E j \in DOMAIN la.decisions : la.decisions[j] = hand[p]
        BY <2>3 DEF TakenAt, AddedBy
      <3>2. la.polarity[hand[p].atom] # "undef"
        BY <1>1, <2>2, <3>1 DEF DecisionsInv
      <3> QED
        BY <2>2, <3>2
    <2>4. CASE PassedOver(la, hand, p)
      <3>1. PICK j \in 1..End(la.dedList, la.dedLim, p - 1) : la.dedList[j] = hand[p]
        BY <2>4 DEF PassedOver
      <3>2. j \in DOMAIN la.dedList
        <4>1. Layered(la.dedList, la.dedLim, N)
          BY <1>1 DEF ShapeInv
        <4>2. PICK q \in 0..N : q = p - 1
          BY <1>1
        <4>3. End(la.dedList, la.dedLim, q) \in 0..Len(la.dedList) /\ DOMAIN la.dedList = 1..Len(la.dedList)
              /\ Len(la.dedList) \in Nat
          BY <1>1, <4>1, LayerFacts
        <4> QED
          BY <3>1, <4>2, <4>3
      <3>3. OwnDeduction(deduced, hand[p])
        BY <1>1, <2>1, <3>1, <3>2, OwnDeductionIff
      <3> QED
        BY <2>1, <3>3
    <2> QED
      BY <2>1, <2>3, <2>4
  <1> QED
    BY <1>1, <1>2 DEF DecisionsExact, DecisionsInv

\* The point that added a deduction, as the lists tell.
LEMMA PointOfAdded ==
    ASSUME NEW N \in Nat, Layered(la.dedList, la.dedLim, N),
           NEW p \in 1..N, NEW k \in AddedBy(la.dedList, la.dedLim, p)
    PROVE  PointOf(k) = p
  <1> DEFINE E(q) == End(la.dedList, la.dedLim, q)
             Fits(q) == la.dedLim[q] < k /\ (q < Len(la.dedLim) => k <= la.dedLim[q + 1])
  <1>1. PICK L \in Nat : /\ L = Len(la.dedList) /\ DOMAIN la.dedList = 1..L
                         /\ Len(la.dedLim) = N /\ DOMAIN la.dedLim = 1..N
                         /\ \A q \in 0..N : E(q) \in 0..L
                         /\ \A q \in 0..N - 1 : la.dedLim[q + 1] = E(q)
                         /\ \A i, q \in 0..N : i <= q => E(i) <= E(q)
                         /\ E(N) = L
    <2>1. /\ Len(la.dedList) \in Nat /\ DOMAIN la.dedList = 1..Len(la.dedList)
          /\ Len(la.dedLim) = N /\ DOMAIN la.dedLim = 1..N
          /\ End(la.dedList, la.dedLim, N) = Len(la.dedList)
      BY LayerFacts
    <2>2. /\ \A q \in 0..N : End(la.dedList, la.dedLim, q) \in 0..Len(la.dedList)
          /\ \A q \in 0..N - 1 : la.dedLim[q + 1] = End(la.dedList, la.dedLim, q)
          /\ \A i, q \in 0..N : i <= q => End(la.dedList, la.dedLim, i) <= End(la.dedList, la.dedLim, q)
      BY LayerFacts
    <2> QED
      BY <2>1, <2>2
  <1>2. k \in 1..L /\ E(p - 1) < k /\ k <= E(p)
    BY <1>1 DEF AddedBy
  <1> HIDE DEF E
  <1>3. ASSUME NEW q \in 1..N
        PROVE  /\ la.dedLim[q] = E(q - 1) /\ (q < N => la.dedLim[q + 1] = E(q))
               /\ E(q - 1) \in Int /\ E(q) \in Int /\ (q = N => k <= E(q))
    <2>1. PICK i \in 0..N - 1 : i = q - 1 /\ i + 1 = q /\ i \in 0..N /\ q \in 0..N
      OBVIOUS
    <2>2. q < N => q \in 0..N - 1
      OBVIOUS
    <2>3. la.dedLim[q] = E(i) /\ (q < N => la.dedLim[q + 1] = E(q))
      BY <1>1, <2>1, <2>2
    <2>4. E(i) \in 0..L /\ E(q) \in 0..L
      BY <1>1, <2>1
    <2>5. q = N => k <= E(q)
      BY <1>1, <1>2
    <2> QED
      BY <2>1, <2>3, <2>4, <2>5
  <1>4. \A q \in 1..N : Fits(q) <=> E(q - 1) < k /\ k <= E(q)
    <2> TAKE q \in 1..N
    <2>1. CASE q < N
      BY <1>1, <1>3, <2>1
    <2>2. CASE q = N
      BY <1>1, <1>3, <2>2
    <2> QED
      BY <2>1, <2>2
  <1>5. ASSUME NEW q \in 1..N, Fits(q)
        PROVE  q = p
    <2>1. E(q - 1) < k /\ k <= E(q)
      BY <1>4, <1>5
    <2>2. q <= p - 1 => E(q) <= E(p - 1)
      <3>1. q \in 0..N /\ p - 1 \in 0..N
        OBVIOUS
      <3> QED
        BY <1>1, <3>1
    <2>3. p <= q - 1 => E(p) <= E(q - 1)
      <3>1. p \in 0..N /\ q - 1 \in 0..N
        OBVIOUS
      <3> QED
        BY <1>1, <3>1
    <2>4. E(p) \in Int /\ E(q) \in Int /\ E(p - 1) \in Int /\ E(q - 1) \in Int
      BY <1>3
    <2>5. ~ (q <= p - 1) /\ ~ (p <= q - 1)
      BY <1>2, <2>1, <2>2, <2>3, <2>4
    <2> QED
      BY <2>5
  <1>6. Fits(p)
    BY <1>2, <1>4
  <1>7. PointOf(k) = CHOOSE q \in 1..N : Fits(q)
    BY <1>1 DEF PointOf
  <1> HIDE DEF Fits
  <1> QED
    BY <1>5, <1>6, <1>7

LEMMA DeductionsExactInv ==
    ASSUME TInv
    PROVE  DeductionsExact
  <1>1. PICK N, hand :
             /\ N \in Nat
             /\ N = CountIn(stack, Len(stack)) /\ hand = HandIn(stack, trail) /\ DOMAIN hand = 1..N
             /\ ShapeInv(la, N) /\ DeductionsInv(la, hand) /\ TableInv(la.dedList, deduced)
    BY SolverFacts
  <1>2. Layered(la.dedList, la.dedLim, N) /\ \A j \in DOMAIN la.dedList : la.dedList[j] \in LeqLits
    <2>1. Layered(la.dedList, la.dedLim, N)
      BY <1>1 DEF ShapeInv
    <2>2. la.dedList \in Seq(LeqLits)
      BY <2>1 DEF Layered
    <2> QED
      BY <2>1, <2>2, SeqFacts
  <1>3. ASSUME NEW a \in Atoms
        PROVE  deduced[a] # Undef <=> \E k \in DOMAIN la.dedList : la.dedList[k].atom = a
    <2>1. CASE \E k \in DOMAIN la.dedList : la.dedList[k].atom = a
      <3>1. PICK k \in DOMAIN la.dedList : deduced[a] = [by |-> "la", sgn |-> la.dedList[k].sgn]
        BY <1>1, <2>1 DEF TableInv
      <3>2. deduced[a].by # Undef.by
        BY <3>1 DEF Undef
      <3> QED
        BY <2>1, <3>2
    <2>2. CASE ~ \E k \in DOMAIN la.dedList : la.dedList[k].atom = a
      BY <1>1, <2>2 DEF TableInv
    <2> QED
      BY <2>1, <2>2
  <1>4. ASSUME NEW k \in DOMAIN la.dedList
        PROVE  /\ OwnDeduction(deduced, la.dedList[k])
               /\ \A j \in DOMAIN la.dedList : la.dedList[j].atom = la.dedList[k].atom => j = k
               /\ Weaker(Lit(trail[TheoryPos(PointOf(k))]), la.dedList[k])
    <2>1. OwnDeduction(deduced, la.dedList[k])
      BY <1>1, <1>2, OwnDeductionIff
    <2>2. \A j \in DOMAIN la.dedList : la.dedList[j].atom = la.dedList[k].atom => j = k
      BY <1>1 DEF DeductionsInv
    <2>3. PICK p \in 1..N : k \in AddedBy(la.dedList, la.dedLim, p) /\ Weaker(hand[p], la.dedList[k])
      BY <1>1 DEF DeductionsInv
    <2>a. N \in Nat
      BY <1>1
    <2>4. PointOf(k) = p
      BY <1>2, <2>a, <2>3, PointOfAdded
    <2>5. hand[p] = Lit(trail[PosIn(stack, p)])
      BY <1>1, InvFacts, HandFacts
    <2>6. TheoryPos(p) = PosIn(stack, p)
      BY DEF TheoryPos, PosIn, CountIn
    <2> QED
      BY <2>1, <2>2, <2>3, <2>4, <2>5, <2>6
  <1> QED
    BY <1>3, <1>4 DEF DeductionsExact

LEMMA DeductionsCompleteInv ==
    ASSUME TInv
    PROVE  DeductionsComplete
  <1>1. PICK N, hand :
             /\ N \in Nat
             /\ N = CountIn(stack, Len(stack)) /\ hand = HandIn(stack, trail) /\ DOMAIN hand = 1..N
             /\ ShapeInv(la, N) /\ DeductionsInv(la, hand) /\ CompleteInv(la, hand)
             /\ TableInv(la.dedList, deduced)
    BY SolverFacts
  <1>2. ASSUME NEW k \in Accepted, NEW m \in [atom : known \ UNION Splits, sgn : BOOLEAN],
               Weaker(Lit(trail[k]), m)
        PROVE  m.atom \in Range(stack) \/ OwnDeduction(deduced, m)
    <2>1. PICK p \in 1..N : /\ hand[p] = Lit(trail[k]) /\ hand[p] \in LeqLits
                            /\ TakenAt(la, hand, p) \/ PassedOver(la, hand, p)
      BY <1>1, AcceptedFacts
    <2>2. m \in [atom : LeqAtoms \ UNION Splits, sgn : BOOLEAN] /\ m \in LeqLits
      BY DEF TInv, KnownInv, LeqLits
    <2>3. (\E q \in 1..p : hand[q].atom = m.atom)
          \/ \E j \in 1..End(la.dedList, la.dedLim, p) : la.dedList[j] = m
      BY <1>1, <1>2, <2>1, <2>2 DEF CompleteInv
    <2>4. CASE \E q \in 1..p : hand[q].atom = m.atom
      <3>1. PICK q \in 1..N : hand[q].atom = m.atom
        BY <1>1, <2>4
      <3>2. PICK i \in 1..Len(stack) : hand[q] = Lit(trail[i])
        <4>1. stack \in Seq(Atoms) /\ q \in 1..CountIn(stack, Len(stack)) /\ q \in DOMAIN hand
          BY <1>1, <3>1, InvFacts
        <4>2. PosIn(stack, q) \in 1..Len(stack)
          BY <4>1, PosFacts
        <4>3. hand[q] = Lit(trail[PosIn(stack, q)])
          BY <1>1, <4>1, HandFacts
        <4> QED
          BY <4>2, <4>3
      <3>3. i \in DOMAIN stack /\ stack[i] = m.atom
        BY <3>1, <3>2, InvFacts DEF TInv, StackOK, Lit
      <3> QED
        BY <3>3 DEF Range
    <2>5. CASE \E j \in 1..End(la.dedList, la.dedLim, p) : la.dedList[j] = m
      <3>1. PICK j \in 1..End(la.dedList, la.dedLim, p) : la.dedList[j] = m
        BY <2>5
      <3>2. j \in DOMAIN la.dedList
        <4>1. Layered(la.dedList, la.dedLim, N)
          BY <1>1 DEF ShapeInv
        <4>2. p \in 0..N
          BY <1>1
        <4>3. End(la.dedList, la.dedLim, p) \in 0..Len(la.dedList) /\ DOMAIN la.dedList = 1..Len(la.dedList)
              /\ Len(la.dedList) \in Nat
          BY <1>1, <4>1, <4>2, LayerFacts
        <4> QED
          BY <3>1, <4>3
      <3>3. OwnDeduction(deduced, m)
        BY <1>1, <2>2, <3>1, <3>2, OwnDeductionIff
      <3> QED
        BY <3>3
    <2> QED
      BY <2>3, <2>4, <2>5
  <1> QED
    BY <1>2 DEF DeductionsComplete

\* The solver holds one backtrack point per theory atom on the handler's stack,
\* in each of its stacks: backtracking by count undoes what it should.
THEOREM PointsAlignment == Spec => []PointsAligned
  BY Invariance, PointsAlignedInv, PTL

\* The bounds in force are the strongest among the literals accepted, and no
\* literal meets a solver in conflict or without its bounds.
THEOREM BoundsAreExact == Spec => []BoundsExact
  BY Invariance, BoundsExactInv, PTL

\* polarityMap, the decision trace and the counts of active bounds agree with
\* the literals taken and not given back.
THEOREM DecisionsAreExact == Spec => []DecisionsExact
  BY Invariance, DecisionsExactInv, PTL

\* The solver's list of deductions and the shared table name the same literals,
\* each once, each implied by the literal of its backtrack point.
THEOREM DeductionsAreExact == Spec => []DeductionsExact
  BY Invariance, DeductionsExactInv, PTL

\* What a bound in force implies about an atom known from the start is on the
\* stack or deduced, whatever was undone and handed over again.
THEOREM DeductionsAreComplete == Spec => []DeductionsComplete
  BY Invariance, DeductionsCompleteInv, PTL

\* No atom is enqueued twice, by the search or as a deduction.
THEOREM EnqueuedOnce == Spec => []NoDoubleEnqueue
  <1>1. TInv => NoDoubleEnqueue
    BY DEF TInv, TrailOK, NoDoubleEnqueue
  <1> QED
    BY <1>1, Invariance, PTL

\* A conflict is made of literals of the trail that cannot hold together.
THEOREM ConflictsSound == Spec => []ConflictSound
  <1>1. TInv => ConflictSound
    BY DEF TInv, ExplanationInv
  <1> QED
    BY <1>1, Invariance, PTL

\* The theory can always give the reason of what it deduced, with literals that
\* were on the trail before it.
THEOREM ReasonsSound == Spec => []ReasonSound
  <1>1. TInv => ReasonSound
    BY DEF TInv, ExplanationInv
  <1> QED
    BY <1>1, Invariance, PTL
=============================================================================
