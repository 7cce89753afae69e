-------------------------- MODULE LIASolver_proofs --------------------------
(***************************************************************************)
(* What the integer solver answers is right, for all bounds and all values *)
(* the simplex may come up with: its conflicts exclude every integer, its  *)
(* splits exclude none, and no split is asked for twice.                   *)
(***************************************************************************)
EXTENDS LIASolver, DataLemmas

-----------------------------------------------------------------------------
(* Integers among the values.                                              *)

\* An integer among the values.
At(n) == Delta(IntReal(n), Zero)

LEMMA IntegerFacts ==
    ASSUME NEW n \in Int
    PROVE  IntReal(n) \in Rationals /\ Zero \in Rationals /\ At(n) \in Values
  <1>1. \A k \in Int : IntReal(k) \in Rationals
    BY DEF IntReal, Rationals
  <1> QED
    BY <1>1 DEF Zero, At, Delta, Values

LEMMA IntegerOrder ==
    ASSUME NEW m \in Int, NEW n \in Int
    PROVE  DLess(At(m), At(n)) <=> m < n
  <1>1. RLess(IntReal(m), IntReal(n)) <=> m < n
    BY DEF RLess, IntReal
  <1>2. IntReal(m) = IntReal(n) <=> m = n
    BY DEF IntReal
  <1>3. ~ RLess(Zero, Zero)
    BY DEF RLess, Zero, IntReal
  <1> QED
    BY <1>1, <1>2, <1>3 DEF DLess, At, Delta, isInf

\* The numbers next to a value that is no integer.
LEMMA SplitPointFacts ==
    ASSUME NEW x \in Values, ~ (x.d = Zero /\ isInteger(x.r)), NEW c, c = SplitPoint(x)
    PROVE  c \in Int /\ DLess(At(c), x) /\ DLess(x, At(c + 1))
  <1>1. /\ x.inf = 0 /\ x.r \in Rationals /\ x.d \in Rationals
        /\ x.r[1] \in Int /\ x.r[2] \in Nat \ {0} /\ x.r = <<x.r[1], x.r[2]>>
        /\ x.d[1] \in Int /\ x.d[2] \in Nat \ {0}
    BY RationalParts DEF Values
  <1>2. \A n \in Int : /\ RLess(IntReal(n), x.r) <=> n * x.r[2] < x.r[1]
                       /\ RLess(x.r, IntReal(n)) <=> x.r[1] < n * x.r[2]
    BY <1>1 DEF RLess, IntReal
  <1>3. PICK f : f = floor(x.r)
    OBVIOUS
  <1>4. f \in Int /\ f * x.r[2] <= x.r[1] /\ x.r[1] < (f + 1) * x.r[2]
    BY <1>1, <1>3, DivFacts DEF floor
  <1>5. /\ \A n \in Int : RLess(IntReal(n), x.r) => DLess(At(n), x)
        /\ \A n \in Int : RLess(x.r, IntReal(n)) => DLess(x, At(n))
        /\ \A n \in Int : IntReal(n) = x.r /\ RLess(Zero, x.d) => DLess(At(n), x)
        /\ \A n \in Int : IntReal(n) = x.r /\ RLess(x.d, Zero) => DLess(x, At(n))
    BY <1>1 DEF DLess, At, Delta, isInf
  <1>6. CASE ~ isInteger(x.r)
    <2>1. x.r[2] # 1 /\ c = f
      BY <1>3, <1>6 DEF isInteger, SplitPoint
    <2>2. f * x.r[2] # x.r[1]
      <3> SUFFICES ASSUME f * x.r[2] = x.r[1] PROVE FALSE
        OBVIOUS
      <3>1. 1 \in 1..x.r[2] - 1
        BY <1>1, <2>1
      <3>2. (x.r[1] * 1) % x.r[2] # 0
        BY <1>1, <3>1, RationalParts
      <3>3. (f * x.r[2]) % x.r[2] = 0
        BY <1>1, <1>4, ModFacts
      <3>4. x.r[1] * 1 = x.r[1]
        BY <1>1
      <3> QED
        BY <3>2, <3>3, <3>4
    <2>3. f * x.r[2] < x.r[1]
      <3>1. f * x.r[2] \in Int
        BY <1>1, <1>4
      <3> QED
        BY <1>1, <1>4, <2>2, <3>1
    <2> QED
      BY <1>2, <1>4, <1>5, <2>1, <2>3
  <1>7. CASE isInteger(x.r)
    <2>1. /\ x.r[2] = 1 /\ x.d # Zero
      BY <1>7 DEF isInteger
    <2>2. f = x.r[1] /\ IntReal(f) = x.r
      BY <1>1, <1>4, <2>1 DEF IntReal
    <2>3. RLess(x.d, Zero) \/ RLess(Zero, x.d)
      BY <1>1, <2>1, RationalOrder, IntegerFacts
    <2>4. CASE RLess(x.d, Zero)
      <3>1. c = f - 1
        BY <1>3, <1>7, <2>4 DEF SplitPoint
      <3>2. RLess(IntReal(c), x.r) /\ c \in Int /\ c + 1 = f
        BY <1>1, <1>2, <1>4, <2>1, <2>2, <3>1
      <3> QED
        BY <1>4, <1>5, <2>2, <2>4, <3>2
    <2>5. CASE ~ RLess(x.d, Zero)
      <3>1. c = f
        BY <1>3, <2>5 DEF SplitPoint
      <3>2. RLess(x.r, IntReal(c + 1)) /\ c \in Int /\ c + 1 \in Int
        BY <1>1, <1>2, <1>4, <2>1, <2>2, <3>1
      <3> QED
        BY <1>4, <1>5, <2>2, <2>3, <2>5, <3>1, <3>2
    <2> QED
      BY <2>4, <2>5
  <1> QED
    BY <1>6, <1>7

\* Of finitely many bounds one has the greatest value, and one the least.
LEMMA ExtremeBound ==
    ASSUME NEW S, IsFiniteSet(S), S # {}, \A b \in S : b.value \in Extended
    PROVE  /\ \E b \in S : \A e \in S : DLeq(e.value, b.value)
           /\ \E b \in S : \A e \in S : DLeq(b.value, e.value)
  <1> DEFINE below(b) == {e \in S : DLess(e.value, b.value)}
             count(b) == Cardinality(below(b))
             n == Cardinality(S)
             C == {count(b) : b \in S}
  <1>1. n \in Nat
    BY FS_CardinalityType
  <1>2. \A b \in S : IsFiniteSet(below(b)) /\ count(b) \in Nat /\ count(b) <= n
    <2> TAKE b \in S
    <2>1. below(b) \in SUBSET S
      OBVIOUS
    <2> QED
      BY <2>1, FS_Subset, FS_CardinalityType
  <1>3. \A b \in S, e \in S : DLess(b.value, e.value) => count(b) < count(e)
    <2> TAKE b \in S, e \in S
    <2> HAVE DLess(b.value, e.value)
    <2>1. below(b) \cup {b} \in SUBSET below(e) /\ b \notin below(b)
      BY ValueOrder
    <2>2. IsFiniteSet(below(b)) /\ IsFiniteSet(below(e)) /\ count(b) \in Nat /\ count(e) \in Nat
      BY <1>2
    <2> HIDE DEF below
    <2>3. Cardinality(below(b) \cup {b}) = count(b) + 1
      BY <2>1, <2>2, FS_AddElement
    <2>4. Cardinality(below(b) \cup {b}) <= count(e)
      BY <2>1, <2>2, FS_Subset
    <2> QED
      BY <2>2, <2>3, <2>4
  <1> HIDE DEF count, below
  <1>4. C \in SUBSET (0..n) /\ C \in SUBSET Nat /\ C # {}
    BY <1>1, <1>2
  <1>5. PICK b \in S : \A e \in S : count(e) <= count(b)
    <2>1. \E k \in C : \A l \in C : l <= k
      BY <1>1, <1>4, MaxExists
    <2> QED
      BY <2>1
  <1>6. PICK a \in S : \A e \in S : count(a) <= count(e)
    <2>1. \E k \in C : \A l \in C : k <= l
      BY <1>4, MinExists
    <2> QED
      BY <2>1
  <1>7. \A e \in S : ~ DLess(b.value, e.value)
    BY <1>2, <1>3, <1>5
  <1>8. \A e \in S : ~ DLess(e.value, a.value)
    BY <1>2, <1>3, <1>6
  <1> QED
    BY <1>7, <1>8 DEF DLeq

-----------------------------------------------------------------------------
(* The invariant.  A bound is x >= q or x <= q, or the negation of one.    *)

IsBound(b) ==
  /\ b.v \in IntVars /\ b.lower \in BOOLEAN /\ b.value.r \in Rationals
  /\ b.value.d \in {Zero, IntReal(IF b.lower THEN 1 ELSE -1)}
  /\ b = [v |-> b.v, lower |-> b.lower, value |-> Delta(b.value.r, b.value.d)]

SplitAt(v, c) == {Bound(v, FALSE, IntReal(c), 0), Bound(v, TRUE, IntReal(c + 1), 0)}

TypeInv ==
  /\ \A b \in atoms : IsBound(b) /\ b.value.d = Zero
  /\ \A b \in asserted : IsBound(b)
  /\ IsFiniteSet(asserted)
  /\ model \in [IntVars -> Values]
  /\ cuts \in [IntVars -> SUBSET Int]

(* What a check has answered still holds of the bounds that are asserted.  *)
RefutedInv ==
  explanation # {} =>
    /\ splitondemand = {}
    /\ \E v \in IntVars : \E c \in cuts[v] :
         NoIntegerLeft(v, c) /\ explanation = {LbLit(v), UbLit(v)}

IsSplit(v, c) ==
  /\ splitondemand = SplitAt(v, c)
  /\ DLess(At(c), model[v]) /\ DLess(model[v], At(c + 1))
  /\ DLeq(Lb(v), model[v]) /\ DLeq(model[v], Ub(v))
  /\ ~ NoIntegerLeft(v, c)
SplitInv ==
  splitondemand # {} =>
    explanation = {} /\ \E v \in IntVars : \E c \in cuts[v] : IsSplit(v, c)

LInv == TypeInv /\ RefutedInv /\ SplitInv

(* A split the search has a clause of was tried.                           *)
NewInv ==
  /\ {} \notin clauses /\ splitondemand \notin clauses
  /\ \A v \in IntVars, c \in Int : SplitAt(v, c) \in clauses => c \in cuts[v]

-----------------------------------------------------------------------------
(* Bounds.                                                                 *)

LEMMA BoundValue ==
    ASSUME NEW b, IsBound(b)
    PROVE  b.value \in Values /\ b.value \in Extended
  <1>1. IntReal(1) \in Rationals /\ IntReal(-1) \in Rationals /\ Zero \in Rationals
    BY IntegerFacts
  <1> QED
    BY <1>1 DEF IsBound, Values, Extended, Delta

LEMMA NewBound ==
    ASSUME NEW v \in IntVars, NEW lower \in BOOLEAN, NEW c \in Rationals,
           NEW d \in {0, IF lower THEN 1 ELSE -1}
    PROVE  IsBound(Bound(v, lower, c, d))
  BY DEF IsBound, Bound, Delta, Zero

LEMMA NotBound ==
    ASSUME NEW b, IsBound(b)
    PROVE  IsBound(Not(b)) /\ Not(b).v = b.v /\ Not(b).lower = ~ b.lower
  <1>1. PICK d : d = IF b.value.d # Zero THEN 0 ELSE IF b.lower THEN -1 ELSE 1
    OBVIOUS
  <1>2. Not(b) = Bound(b.v, ~ b.lower, b.value.r, d)
    BY <1>1 DEF Not
  <1>3. /\ b.v \in IntVars /\ (~ b.lower) \in BOOLEAN /\ b.value.r \in Rationals
        /\ d \in {0, IF ~ b.lower THEN 1 ELSE -1}
    <2>1. b.v \in IntVars /\ b.lower \in BOOLEAN /\ b.value.r \in Rationals
      BY DEF IsBound
    <2>2. CASE b.lower
      BY <1>1, <2>1, <2>2
    <2>3. CASE ~ b.lower
      BY <1>1, <2>1, <2>3
    <2> QED
      BY <2>2, <2>3
  <1>4. IsBound(Not(b))
    BY <1>2, <1>3, NewBound
  <1> QED
    BY <1>2, <1>4 DEF Bound

\* The bounds in force are the strongest of those asserted.
LEMMA InForce ==
    ASSUME TypeInv, NEW v
    PROVE  /\ Lb(v) \in Extended /\ Ub(v) \in Extended
           /\ \A b \in asserted : b.v = v /\ b.lower => DLeq(b.value, Lb(v))
           /\ \A b \in asserted : b.v = v /\ ~ b.lower => DLeq(Ub(v), b.value)
           /\ Lb(v) # MinusInf => /\ LbLit(v) \in asserted /\ LbLit(v).value = Lb(v)
                                 /\ LbLit(v).v = v /\ LbLit(v).lower
           /\ Ub(v) # PlusInf => /\ UbLit(v) \in asserted /\ UbLit(v).value = Ub(v)
                                /\ UbLit(v).v = v /\ ~ UbLit(v).lower
  <1>1. \A b \in asserted : b.lower \in BOOLEAN /\ b.value \in Extended
    BY BoundValue DEF TypeInv, IsBound
  <1>2. \A lower : /\ IsFiniteSet(BoundsOf(v, lower))
                   /\ \A b \in BoundsOf(v, lower) : b.value \in Extended
    <2> TAKE lower
    <2>1. BoundsOf(v, lower) \in SUBSET asserted
      BY DEF BoundsOf
    <2> QED
      BY <1>1, <2>1, FS_Subset DEF TypeInv
  <1>3. MinusInf \in Extended /\ PlusInf \in Extended
    BY DEF Extended
  <1>4. /\ Lb(v) \in Extended
        /\ \A b \in asserted : b.v = v /\ b.lower => DLeq(b.value, Lb(v))
        /\ Lb(v) # MinusInf => /\ LbLit(v) \in asserted /\ LbLit(v).value = Lb(v)
                              /\ LbLit(v).v = v /\ LbLit(v).lower
    <2>1. CASE BoundsOf(v, TRUE) # {}
      <3>1. \E b \in BoundsOf(v, TRUE) : \A e \in BoundsOf(v, TRUE) : DLeq(e.value, b.value)
        BY <1>2, <2>1, ExtremeBound
      <3>2. /\ LbLit(v) \in BoundsOf(v, TRUE)
            /\ \A e \in BoundsOf(v, TRUE) : DLeq(e.value, LbLit(v).value)
        BY <3>1 DEF LbLit
      <3>3. Lb(v) = LbLit(v).value
        BY <2>1 DEF Lb
      <3>4. LbLit(v) \in asserted /\ LbLit(v).v = v /\ LbLit(v).lower = TRUE
        BY <3>2 DEF BoundsOf
      <3>5. \A b \in asserted : b.v = v /\ b.lower => b \in BoundsOf(v, TRUE)
        BY <1>1 DEF BoundsOf
      <3> QED
        BY <1>1, <3>2, <3>3, <3>4, <3>5
    <2>2. CASE BoundsOf(v, TRUE) = {}
      <3>1. Lb(v) = MinusInf
        BY <2>2 DEF Lb
      <3>2. \A b \in asserted : ~ (b.v = v /\ b.lower)
        BY <1>1, <2>2 DEF BoundsOf
      <3> QED
        BY <1>3, <3>1, <3>2
    <2> QED
      BY <2>1, <2>2
  <1>5. /\ Ub(v) \in Extended
        /\ \A b \in asserted : b.v = v /\ ~ b.lower => DLeq(Ub(v), b.value)
        /\ Ub(v) # PlusInf => /\ UbLit(v) \in asserted /\ UbLit(v).value = Ub(v)
                             /\ UbLit(v).v = v /\ ~ UbLit(v).lower
    <2>1. CASE BoundsOf(v, FALSE) # {}
      <3>1. \E b \in BoundsOf(v, FALSE) : \A e \in BoundsOf(v, FALSE) : DLeq(b.value, e.value)
        BY <1>2, <2>1, ExtremeBound
      <3>2. /\ UbLit(v) \in BoundsOf(v, FALSE)
            /\ \A e \in BoundsOf(v, FALSE) : DLeq(UbLit(v).value, e.value)
        BY <3>1 DEF UbLit
      <3>3. Ub(v) = UbLit(v).value
        BY <2>1 DEF Ub
      <3>4. UbLit(v) \in asserted /\ UbLit(v).v = v /\ UbLit(v).lower = FALSE
        BY <3>2 DEF BoundsOf
      <3>5. \A b \in asserted : b.v = v /\ ~ b.lower => b \in BoundsOf(v, FALSE)
        BY <1>1 DEF BoundsOf
      <3> QED
        BY <1>1, <3>2, <3>3, <3>4, <3>5
    <2>2. CASE BoundsOf(v, FALSE) = {}
      <3>1. Ub(v) = PlusInf
        BY <2>2 DEF Ub
      <3>2. \A b \in asserted : ~ (b.v = v /\ ~ b.lower)
        BY <1>1, <2>2 DEF BoundsOf
      <3> QED
        BY <1>3, <3>1, <3>2
    <2> QED
      BY <2>1, <2>2
  <1> QED
    BY <1>4, <1>5

\* A conflict is over two bounds in force with no integer between them.
LEMMA NoIntegerFacts ==
    ASSUME TypeInv, NEW v, NEW c \in Int, NoIntegerLeft(v, c)
    PROVE  /\ LbLit(v) \in asserted /\ LbLit(v).v = v /\ LbLit(v).lower
           /\ UbLit(v) \in asserted /\ UbLit(v).v = v /\ ~ UbLit(v).lower
           /\ DLess(At(c), LbLit(v).value) /\ DLess(UbLit(v).value, At(c + 1))
  <1>1. DLess(At(c), Lb(v)) /\ DLess(Ub(v), At(c + 1))
    BY DEF NoIntegerLeft, At
  <1>2. Lb(v) # MinusInf /\ Ub(v) # PlusInf
    BY <1>1 DEF DLess, At, Delta, MinusInf, PlusInf, isInf
  <1> QED
    BY <1>1, <1>2, InForce

-----------------------------------------------------------------------------
(* The steps.                                                              *)

LEMMA InitInv == Init => LInv
  <1> SUFFICES ASSUME Init PROVE LInv
    OBVIOUS
  <1>1. \A b \in atoms : IsBound(b) /\ b.value.d = Zero
    BY AtomsAssumption DEF Init, IsBound, Delta
  <1>2. IsFiniteSet(asserted)
    BY FS_EmptySet DEF Init
  <1>3. Delta(Zero, Zero) \in Values
    BY IntegerFacts DEF Values, Delta
  <1> QED
    BY <1>1, <1>2, <1>3 DEF Init, LInv, TypeInv, RefutedInv, SplitInv

\* Literals of the search are bounds.
LEMMA LiteralFacts ==
    ASSUME TypeInv, NEW b \in Literals
    PROVE  IsBound(b)
  BY NotBound DEF TypeInv, Literals

LEMMA AssertInv ==
    ASSUME LInv, Assert
    PROVE  LInv'
  <1>1. /\ explanation = {} /\ splitondemand = {}
        /\ UNCHANGED <<atoms, clauses, cuts, model, explanation, splitondemand>>
    BY DEF Assert
  <1>2. PICK b \in Literals : asserted' = asserted \cup {b}
    BY DEF Assert
  <1>3. IsBound(b)
    BY <1>2, LiteralFacts DEF LInv
  <1>4. IsFiniteSet(asserted')
    BY <1>2, FS_AddElement DEF LInv, TypeInv
  <1> QED
    BY <1>1, <1>2, <1>3, <1>4 DEF LInv, TypeInv, RefutedInv, SplitInv, IsBound

LEMMA BacktrackInv ==
    ASSUME LInv, Backtrack
    PROVE  LInv'
  <1>1. /\ splitondemand = {} /\ explanation' = {}
        /\ UNCHANGED <<atoms, cuts, model, splitondemand>>
    BY DEF Backtrack
  <1>2. PICK S \in SUBSET asserted : asserted' = S
    BY DEF Backtrack
  <1>3. IsFiniteSet(asserted')
    BY <1>2, FS_Subset DEF LInv, TypeInv
  <1> QED
    BY <1>1, <1>2, <1>3 DEF LInv, TypeInv, RefutedInv, SplitInv, IsBound

\* The variable that a check stops at, and the number it tries there.
LEMMA BlockedFacts ==
    ASSUME LInv, NEW m \in [IntVars -> Grid], Untried(m) # {},
           NEW v, v = First(Untried(m)), NEW c, c = SplitPoint(m[v])
    PROVE  /\ v \in IntVars /\ c \in Int /\ c \notin cuts[v] /\ m[v] \in Values
           /\ DLess(At(c), m[v]) /\ DLess(m[v], At(c + 1))
           /\ Recorded(v, c) \in [IntVars -> SUBSET Int]
           /\ Recorded(v, c)[v] = cuts[v] \cup {c}
           /\ \A u \in IntVars : cuts[u] \subseteq Recorded(v, c)[u]
  <1>1. Untried(m) \in SUBSET IntVars /\ IntVars \in SUBSET Nat
    BY NVarsAssumption DEF Untried, Fractional, IntVars
  <1>2. \E u \in Untried(m) : \A w \in Untried(m) : u <= w
    BY <1>1, MinExists
  <1>3. v \in Untried(m)
    BY <1>2 DEF First
  <1>4. v \in IntVars /\ c \notin cuts[v] /\ ~ isModelInteger(m, v)
    BY <1>3 DEF Untried, Fractional
  <1>5. m[v] \in Values
    BY <1>4, GridAssumption
  <1>6. ~ (m[v].d = Zero /\ isInteger(m[v].r))
    BY <1>4 DEF isModelInteger
  <1>7. c \in Int /\ DLess(At(c), m[v]) /\ DLess(m[v], At(c + 1))
    BY <1>5, <1>6, SplitPointFacts
  <1>8. cuts \in [IntVars -> SUBSET Int]
    BY DEF LInv, TypeInv
  <1> QED
    BY <1>4, <1>5, <1>7, <1>8 DEF Recorded

LEMMA SameBounds ==
    ASSUME UNCHANGED asserted
    PROVE  \A v, c : /\ LbLit(v)' = LbLit(v) /\ UbLit(v)' = UbLit(v)
                    /\ Lb(v)' = Lb(v) /\ Ub(v)' = Ub(v)
                    /\ NoIntegerLeft(v, c)' <=> NoIntegerLeft(v, c)
  BY DEF LbLit, UbLit, Lb, Ub, BoundsOf, NoIntegerLeft

LEMMA CheckInv ==
    ASSUME LInv, Check
    PROVE  LInv'
  <1>1. explanation = {} /\ splitondemand = {} /\ UNCHANGED <<atoms, clauses, asserted>>
    BY DEF Check
  <1>2. PICK m \in [IntVars -> Grid] :
          /\ \A v \in IntVars : DLeq(Lb(v), m[v]) /\ DLeq(m[v], Ub(v))
          /\ model' = m
          /\ Passed(m) \/ Blocked(m)
    BY DEF Check
  <1>3. model' \in [IntVars -> Values]
    BY <1>2, GridAssumption
  <1>4. CASE Passed(m)
    <2>1. UNCHANGED <<cuts, explanation, splitondemand>>
      BY <1>4 DEF Passed
    <2> QED
      BY <1>1, <1>3, <2>1 DEF LInv, TypeInv, RefutedInv, SplitInv, IsBound
  <1>5. CASE Blocked(m)
    <2>1. PICK v : v = First(Untried(m))
      OBVIOUS
    <2>2. PICK c : c = SplitPoint(m[v])
      OBVIOUS
    <2>3. /\ Untried(m) # {} /\ cuts' = Recorded(v, c)
          /\ Refuted(v, c) \/ SplitAsked(v, c)
      BY <1>5, <2>1, <2>2 DEF Blocked
    <2>4. /\ v \in IntVars /\ c \in Int /\ DLess(At(c), m[v]) /\ DLess(m[v], At(c + 1))
          /\ cuts' \in [IntVars -> SUBSET Int] /\ c \in cuts'[v]
      BY <2>1, <2>2, <2>3, BlockedFacts
    <2>5. TypeInv'
      BY <1>1, <1>3, <2>4 DEF LInv, TypeInv, IsBound
    <2>6. CASE Refuted(v, c)
      <3>1. /\ NoIntegerLeft(v, c) /\ explanation' = {LbLit(v), UbLit(v)} /\ splitondemand' = {}
        BY <1>1, <2>6 DEF Refuted
      <3>2. NoIntegerLeft(v, c)' /\ explanation' = {LbLit(v), UbLit(v)}'
        BY <1>1, <3>1, SameBounds
      <3> QED
        BY <2>4, <2>5, <3>1, <3>2 DEF LInv, RefutedInv, SplitInv
    <2>7. CASE SplitAsked(v, c)
      <3>1. ~ NoIntegerLeft(v, c) /\ splitondemand' = SplitAt(v, c) /\ explanation' = {}
        BY <1>1, <2>7 DEF SplitAsked, SplitAt
      <3>2. /\ ~ NoIntegerLeft(v, c)' /\ DLeq(Lb(v)', model'[v]) /\ DLeq(model'[v], Ub(v)')
            /\ DLess(At(c), model'[v]) /\ DLess(model'[v], At(c + 1))
        <4>1. model' = m /\ DLeq(Lb(v), m[v]) /\ DLeq(m[v], Ub(v))
          BY <1>2, <2>4
        <4>2. Lb(v)' = Lb(v) /\ Ub(v)' = Ub(v) /\ (NoIntegerLeft(v, c)' <=> NoIntegerLeft(v, c))
          BY <1>1 DEF Lb, Ub, LbLit, UbLit, BoundsOf, NoIntegerLeft
        <4> QED
          BY <2>4, <3>1, <4>1, <4>2
      <3>3. IsSplit(v, c)'
        BY <3>1, <3>2 DEF IsSplit, SplitAt, At
      <3> QED
        BY <2>4, <2>5, <3>1, <3>3 DEF LInv, RefutedInv, SplitInv
    <2> QED
      BY <2>3, <2>6, <2>7
  <1> QED
    BY <1>2, <1>4, <1>5

LEMMA TakeSplitInv ==
    ASSUME LInv, TakeSplit
    PROVE  LInv'
  <1>1. /\ splitondemand # {} /\ splitondemand' = {} /\ explanation' = explanation
        /\ atoms' \subseteq atoms \cup splitondemand
        /\ UNCHANGED <<asserted, cuts, model>>
    BY DEF TakeSplit
  <1>2. PICK v \in IntVars, c \in Int : splitondemand = SplitAt(v, c)
    BY <1>1 DEF LInv, SplitInv, TypeInv, IsSplit
  <1>3. IntReal(c) \in Rationals /\ IntReal(c + 1) \in Rationals
    BY IntegerFacts
  <1>4. \A b \in SplitAt(v, c) : IsBound(b) /\ b.value.d = Zero
    <2>1. IsBound(Bound(v, FALSE, IntReal(c), 0)) /\ IsBound(Bound(v, TRUE, IntReal(c + 1), 0))
      BY <1>3, NewBound
    <2>2. Bound(v, FALSE, IntReal(c), 0).value.d = Zero
      BY DEF Bound, Delta, Zero
    <2>3. Bound(v, TRUE, IntReal(c + 1), 0).value.d = Zero
      BY DEF Bound, Delta, Zero
    <2> QED
      BY <2>1, <2>2, <2>3 DEF SplitAt
  <1>5. explanation' = {}
    BY <1>1 DEF LInv, SplitInv
  <1> QED
    BY <1>1, <1>2, <1>4, <1>5 DEF LInv, TypeInv, RefutedInv, SplitInv, IsBound

LEMMA NextInv ==
    ASSUME LInv, [Next]_vars
    PROVE  LInv'
  <1>1. CASE UNCHANGED vars
    <2>1. TypeInv' /\ RefutedInv' /\ SplitInv'
      <3>1. /\ UNCHANGED asserted /\ UNCHANGED <<atoms, cuts, model>>
            /\ UNCHANGED <<explanation, splitondemand>>
        BY <1>1 DEF vars
      <3>2. TypeInv'
        BY <3>1 DEF LInv, TypeInv, IsBound
      <3>3. RefutedInv'
        BY <3>1, SameBounds DEF LInv, RefutedInv
      <3>4. SplitInv'
        <4> SUFFICES ASSUME splitondemand' # {}
                     PROVE  explanation' = {} /\ \E v \in IntVars : \E c \in cuts'[v] : IsSplit(v, c)'
          BY DEF SplitInv
        <4>1. PICK v \in IntVars, c \in Int : c \in cuts[v] /\ IsSplit(v, c)
          BY <3>1 DEF LInv, SplitInv, TypeInv
        <4>2. Lb(v)' = Lb(v) /\ Ub(v)' = Ub(v) /\ (NoIntegerLeft(v, c)' <=> NoIntegerLeft(v, c))
          BY <3>1 DEF Lb, Ub, LbLit, UbLit, BoundsOf, NoIntegerLeft
        <4>3. IsSplit(v, c)'
          BY <3>1, <4>1, <4>2 DEF IsSplit, SplitAt, At
        <4> QED
          BY <3>1, <4>1, <4>3 DEF LInv, SplitInv
      <3> QED
        BY <3>2, <3>3, <3>4
    <2> QED
      BY <2>1 DEF LInv
  <1> QED
    BY <1>1, AssertInv, BacktrackInv, CheckInv, TakeSplitInv DEF Next

\* The inductive invariant of the integer solver: the bounds, and what the last
\* check has answered about them.
THEOREM LInvariance == Spec => []LInv
  <1>1. LInv /\ [Next]_vars => LInv'
    BY NextInv
  <1> QED
    BY InitInv, <1>1, PTL DEF Spec

-----------------------------------------------------------------------------
(* What follows from it.                                                   *)

LEMMA Nearby == NearbyIntegers \subseteq Int
  <1>1. \A g \in Grid : floor(g.r) \in Int
    BY GridAssumption, RationalParts, DivFacts DEF Values, floor
  <1> QED
    BY <1>1 DEF NearbyIntegers

LEMMA IntConflictHolds ==
    ASSUME LInv
    PROVE  IntConflictSound
  <1> SUFFICES ASSUME explanation # {}
               PROVE  /\ explanation \subseteq asserted
                      /\ \A n \in Int : \E b \in explanation : ~ Holds(b, n)
    BY Nearby DEF IntConflictSound
  <1>1. PICK v \in IntVars, c \in Int :
          NoIntegerLeft(v, c) /\ explanation = {LbLit(v), UbLit(v)}
    BY DEF LInv, RefutedInv, TypeInv
  <1>2. /\ LbLit(v) \in asserted /\ LbLit(v).lower
        /\ UbLit(v) \in asserted /\ ~ UbLit(v).lower
        /\ DLess(At(c), LbLit(v).value) /\ DLess(UbLit(v).value, At(c + 1))
    BY <1>1, NoIntegerFacts DEF LInv
  <1>3. LbLit(v).value \in Extended /\ UbLit(v).value \in Extended
    BY <1>2, BoundValue DEF LInv, TypeInv
  <1>4. \A k \in Int : At(k) \in Extended
    BY IntegerFacts DEF Extended
  <1>5. ASSUME NEW n \in Int
        PROVE  ~ Holds(LbLit(v), n) \/ ~ Holds(UbLit(v), n)
    <2>1. n <= c \/ c + 1 <= n
      OBVIOUS
    <2>2. CASE n <= c
      <3>1. DLeq(At(n), At(c))
        BY <2>2, IntegerOrder DEF DLeq
      <3>2. DLess(At(n), LbLit(v).value)
        BY <1>2, <1>3, <1>4, <3>1, Between
      <3> QED
        BY <1>2, <3>2 DEF Holds, DLeq, At
    <2>3. CASE c + 1 <= n
      <3>1. DLeq(At(c + 1), At(n))
        BY <2>3, IntegerOrder DEF DLeq
      <3>2. DLess(UbLit(v).value, At(n))
        BY <1>2, <1>3, <1>4, <3>1, Between
      <3> QED
        BY <1>2, <3>2 DEF Holds, DLeq, At
    <2> QED
      BY <2>1, <2>2, <2>3
  <1> QED
    BY <1>1, <1>2, <1>5

\* The two sides of a split.
LEMMA SideFacts ==
    ASSUME NEW v, NEW c
    PROVE  \A b : b \in SplitAt(v, c) <=>
              \/ b = [v |-> v, lower |-> FALSE, value |-> At(c)]
              \/ b = [v |-> v, lower |-> TRUE, value |-> At(c + 1)]
  BY DEF SplitAt, Bound, At, Zero

LEMMA SplitCutsHolds ==
    ASSUME LInv
    PROVE  SplitCutsOff
  <1> SUFFICES ASSUME splitondemand # {}
               PROVE  /\ \A n \in Int : \E b \in splitondemand : Holds(b, n)
                      /\ \A b \in splitondemand : IF b.lower THEN DLess(model[b.v], b.value)
                                                            ELSE DLess(b.value, model[b.v])
    BY Nearby DEF SplitCutsOff
  <1>1. PICK v \in IntVars, c \in Int : IsSplit(v, c)
    BY DEF LInv, SplitInv, TypeInv
  <1>2. PICK low, upp : /\ low = [v |-> v, lower |-> TRUE, value |-> At(c + 1)]
                        /\ upp = [v |-> v, lower |-> FALSE, value |-> At(c)]
    OBVIOUS
  <1>3. \A b : b \in splitondemand <=> b = low \/ b = upp
    BY <1>1, <1>2, SideFacts DEF IsSplit
  <1>4. ASSUME NEW n \in Int
        PROVE  Holds(low, n) \/ Holds(upp, n)
    <2>1. n <= c \/ c + 1 <= n
      OBVIOUS
    <2>2. CASE n <= c
      <3>1. DLeq(At(n), At(c))
        BY <2>2, IntegerOrder DEF DLeq
      <3> QED
        BY <1>2, <3>1 DEF Holds, At
    <2>3. CASE c + 1 <= n
      <3>1. DLeq(At(c + 1), At(n))
        BY <2>3, IntegerOrder DEF DLeq
      <3> QED
        BY <1>2, <3>1 DEF Holds, At
    <2> QED
      BY <2>1, <2>2, <2>3
  <1>5. DLess(model[v], At(c + 1)) /\ DLess(At(c), model[v])
    BY <1>1 DEF IsSplit
  <1> QED
    BY <1>2, <1>3, <1>4, <1>5

LEMMA SplitOpenHolds ==
    ASSUME LInv
    PROVE  SplitOpen
  <1> SUFFICES ASSUME splitondemand # {}
               PROVE  /\ splitondemand \cap asserted = {}
                      /\ \E b \in splitondemand : Not(b) \notin asserted
    BY DEF SplitOpen
  <1>1. PICK v \in IntVars, c \in Int : IsSplit(v, c)
    BY DEF LInv, SplitInv, TypeInv
  <1>2. PICK low, upp : /\ low = [v |-> v, lower |-> TRUE, value |-> At(c + 1)]
                        /\ upp = [v |-> v, lower |-> FALSE, value |-> At(c)]
    OBVIOUS
  <1>3. \A b : b \in splitondemand <=> b = low \/ b = upp
    BY <1>1, <1>2, SideFacts DEF IsSplit
  <1>4. /\ DLess(model[v], At(c + 1)) /\ DLess(At(c), model[v])
        /\ DLeq(Lb(v), model[v]) /\ DLeq(model[v], Ub(v)) /\ ~ NoIntegerLeft(v, c)
    BY <1>1 DEF IsSplit
  <1>5. /\ Lb(v) \in Extended /\ Ub(v) \in Extended /\ model[v] \in Extended
        /\ At(c) \in Extended /\ At(c + 1) \in Extended
    BY InForce, IntegerFacts DEF LInv, TypeInv, Extended
  <1>6. low \notin asserted
    <2> SUFFICES ASSUME low \in asserted PROVE FALSE
      OBVIOUS
    <2>1. DLeq(At(c + 1), Lb(v))
      BY <1>2, InForce DEF LInv
    <2> QED
      BY <1>4, <1>5, <2>1, Between DEF DLeq
  <1>7. upp \notin asserted
    <2> SUFFICES ASSUME upp \in asserted PROVE FALSE
      OBVIOUS
    <2>1. DLeq(Ub(v), At(c))
      BY <1>2, InForce DEF LInv
    <2> QED
      BY <1>4, <1>5, <2>1, Between DEF DLeq
  <1>8. ~ (Not(low) \in asserted /\ Not(upp) \in asserted)
    <2> SUFFICES ASSUME Not(low) \in asserted, Not(upp) \in asserted PROVE FALSE
      OBVIOUS
    <2>1. /\ Not(low) = Bound(v, FALSE, IntReal(c + 1), -1)
          /\ Not(upp) = Bound(v, TRUE, IntReal(c), 1)
      BY <1>2 DEF Not, At, Delta
    <2>2. /\ Not(low).v = v /\ ~ Not(low).lower
          /\ Not(low).value = Delta(IntReal(c + 1), IntReal(-1))
          /\ Not(upp).v = v /\ Not(upp).lower
          /\ Not(upp).value = Delta(IntReal(c), IntReal(1))
      BY <2>1 DEF Bound
    <2>3. DLess(Not(low).value, At(c + 1)) /\ DLess(At(c), Not(upp).value)
      <3>1. RLess(IntReal(-1), Zero) /\ RLess(Zero, IntReal(1))
        BY DEF RLess, IntReal, Zero
      <3> QED
        BY <2>2, <3>1 DEF DLess, At, Delta, isInf
    <2>4. DLeq(Ub(v), Not(low).value) /\ DLeq(Not(upp).value, Lb(v))
      BY <2>2, InForce DEF LInv
    <2>5. Not(low).value \in Extended /\ Not(upp).value \in Extended
      BY BoundValue DEF LInv, TypeInv
    <2>6. DLess(Ub(v), At(c + 1)) /\ DLess(At(c), Lb(v))
      BY <1>5, <2>3, <2>4, <2>5, Between
    <2> QED
      BY <1>4, <2>6 DEF NoIntegerLeft, At
  <1> QED
    BY <1>3, <1>6, <1>7, <1>8

\* A conflict of the integer solver is two asserted bounds that no integer meets
\* together (LIASolver::checkIntegersAndSplit).
THEOREM IntConflictsSound == Spec => []IntConflictSound
  BY LInvariance, IntConflictHolds, PTL

\* A split excludes the value it was made for and no integer.
THEOREM SplitsCutOff == Spec => []SplitCutsOff
  BY LInvariance, SplitCutsHolds, PTL

\* When a split arrives neither side is true and one of them is not false: the
\* asserted bounds leave room for an integer on some side.
THEOREM SplitsOpen == Spec => []SplitOpen
  BY LInvariance, SplitOpenHolds, PTL

-----------------------------------------------------------------------------
(* Splits are new.  The input is not to hold the clause of a split itself: *)
(* the solver would add it once more.                                      *)

NoSplitGiven == {} \notin Clauses /\ \A v \in IntVars, c \in Int : SplitAt(v, c) \notin Clauses

\* Only the conflict over c < x and x < c + 1 is learnt as the clause of a split.
LEMMA LearntSplit ==
    ASSUME TypeInv, NEW v, NEW c \in Int, NoIntegerLeft(v, c), NEW u, NEW k \in Int,
           SplitAt(u, k) = {Not(LbLit(v)), Not(UbLit(v))}
    PROVE  u = v /\ k = c
  <1>1. PICK l, h : l = LbLit(v) /\ h = UbLit(v)
    OBVIOUS
  <1>2. /\ l \in asserted /\ l.v = v /\ l.lower
        /\ h \in asserted /\ h.v = v /\ ~ h.lower
        /\ DLess(At(c), l.value) /\ DLess(h.value, At(c + 1))
    BY <1>1, NoIntegerFacts
  <1>3. /\ l.value.d \in {Zero, IntReal(1)} /\ l.value = Delta(l.value.r, l.value.d)
        /\ h.value.d \in {Zero, IntReal(-1)} /\ h.value = Delta(h.value.r, h.value.d)
    BY <1>2 DEF TypeInv, IsBound
  <1>4. PICK low, upp : /\ low = [v |-> u, lower |-> TRUE, value |-> At(k + 1)]
                        /\ upp = [v |-> u, lower |-> FALSE, value |-> At(k)]
    OBVIOUS
  <1>5. low \in {Not(l), Not(h)} /\ upp \in {Not(l), Not(h)}
    BY <1>1, <1>4, SideFacts
  <1>6. /\ Not(l) = Bound(v, FALSE, l.value.r, IF l.value.d # Zero THEN 0 ELSE -1)
        /\ Not(h) = Bound(v, TRUE, h.value.r, IF h.value.d # Zero THEN 0 ELSE 1)
    BY <1>2 DEF Not
  <1>7. upp = Not(l) /\ low = Not(h)
    <2>1. Not(l).lower = FALSE /\ Not(h).lower = TRUE
      BY <1>6 DEF Bound
    <2>2. low.lower = TRUE /\ upp.lower = FALSE
      BY <1>4
    <2> QED
      BY <1>5, <2>1, <2>2
  <1>8. /\ u = v /\ At(k) = Delta(l.value.r, IntReal(IF l.value.d # Zero THEN 0 ELSE -1))
        /\ At(k + 1) = Delta(h.value.r, IntReal(IF h.value.d # Zero THEN 0 ELSE 1))
    BY <1>4, <1>6, <1>7 DEF Bound
  <1>9. /\ l.value.r = IntReal(k) /\ l.value.d # Zero
        /\ h.value.r = IntReal(k + 1) /\ h.value.d # Zero
    <2>1. /\ IntReal(k) = l.value.r /\ Zero = IntReal(IF l.value.d # Zero THEN 0 ELSE -1)
          /\ IntReal(k + 1) = h.value.r /\ Zero = IntReal(IF h.value.d # Zero THEN 0 ELSE 1)
      BY <1>8 DEF At, Delta
    <2>2. Zero # IntReal(-1) /\ Zero # IntReal(1)
      BY DEF Zero, IntReal
    <2> QED
      BY <2>1, <2>2
  <1>10. l.value = Delta(IntReal(k), IntReal(1)) /\ h.value = Delta(IntReal(k + 1), IntReal(-1))
    BY <1>3, <1>9
  <1>11. c <= k
    <2>1. RLess(IntReal(c), IntReal(k)) \/ IntReal(c) = IntReal(k)
      BY <1>2, <1>10 DEF DLess, At, Delta, isInf
    <2> QED
      BY <2>1 DEF RLess, IntReal
  <1>12. k + 1 <= c + 1
    <2>1. RLess(IntReal(k + 1), IntReal(c + 1)) \/ IntReal(k + 1) = IntReal(c + 1)
      BY <1>2, <1>10 DEF DLess, At, Delta, isInf
    <2> QED
      BY <2>1 DEF RLess, IntReal
  <1> QED
    BY <1>8, <1>11, <1>12

LEMMA NewInit ==
    ASSUME NoSplitGiven, Init
    PROVE  NewInv
  BY DEF Init, NewInv, NoSplitGiven

LEMMA NewNext ==
    ASSUME LInv, NewInv, [Next]_vars
    PROVE  NewInv'
  <1>1. /\ {} \notin clauses /\ splitondemand \notin clauses
        /\ \A v \in IntVars, c \in Int : SplitAt(v, c) \in clauses => c \in cuts[v]
    BY DEF NewInv
  <1>2. ASSUME UNCHANGED <<clauses, splitondemand, cuts>>
        PROVE  NewInv'
    BY <1>1, <1>2 DEF NewInv, SplitAt
  <1>3. CASE Assert \/ UNCHANGED vars
    BY <1>2, <1>3 DEF Assert, vars
  <1>4. CASE Backtrack
    <2>1. /\ splitondemand' = {} /\ UNCHANGED cuts
          /\ clauses' = clauses \cup {{Not(b) : b \in e} : e \in {explanation} \ {{}}}
      BY <1>4 DEF Backtrack
    <2>2. CASE explanation = {}
      <3>1. clauses' = clauses
        BY <2>1, <2>2
      <3> QED
        BY <1>1, <2>1, <3>1 DEF NewInv, SplitAt
    <2>3. CASE explanation # {}
      <3>1. PICK v \in IntVars : \E n \in cuts[v] :
              NoIntegerLeft(v, n) /\ explanation = {LbLit(v), UbLit(v)}
        BY <2>3 DEF LInv, RefutedInv
      <3>2. PICK c \in cuts[v] : NoIntegerLeft(v, c) /\ explanation = {LbLit(v), UbLit(v)}
        BY <3>1
      <3>2a. c \in Int
        BY <3>2 DEF LInv, TypeInv
      <3>3. PICK new : new = {Not(LbLit(v)), Not(UbLit(v))}
        OBVIOUS
      <3>4. new = {Not(b) : b \in explanation}
        BY <3>2, <3>3
      <3>5. clauses' = clauses \cup {new}
        BY <2>1, <2>3, <3>4
      <3>6. \A u \in IntVars, k \in Int : SplitAt(u, k) = new => k \in cuts[u]
        BY <3>2, <3>2a, <3>3, LearntSplit DEF LInv
      <3>7. new # {}
        BY <3>3
      <3> QED
        BY <1>1, <2>1, <3>5, <3>6, <3>7 DEF NewInv, SplitAt
    <2> QED
      BY <2>2, <2>3
  <1>5. CASE Check
    <2>1. splitondemand = {} /\ UNCHANGED clauses
      BY <1>5 DEF Check
    <2>2. PICK m \in [IntVars -> Grid] : Passed(m) \/ Blocked(m)
      BY <1>5 DEF Check
    <2>3. CASE Passed(m)
      BY <1>2, <2>1, <2>3 DEF Passed
    <2>4. CASE Blocked(m)
      <3>1. PICK v : v = First(Untried(m))
        OBVIOUS
      <3>2. PICK c : c = SplitPoint(m[v])
        OBVIOUS
      <3>3. /\ Untried(m) # {} /\ cuts' = Recorded(v, c)
            /\ Refuted(v, c) \/ SplitAsked(v, c)
        BY <2>4, <3>1, <3>2 DEF Blocked
      <3>4. /\ v \in IntVars /\ c \in Int /\ c \notin cuts[v]
            /\ \A u \in IntVars : cuts[u] \subseteq cuts'[u]
        BY <3>1, <3>2, <3>3, BlockedFacts
      <3>5. splitondemand' = {} \/ splitondemand' = SplitAt(v, c)
        BY <2>1, <3>3 DEF Refuted, SplitAsked, SplitAt
      <3>6. splitondemand' \notin clauses
        BY <1>1, <3>4, <3>5
      <3>7. \A u \in IntVars, k \in Int : SplitAt(u, k) \in clauses => k \in cuts'[u]
        BY <1>1, <3>4
      <3> QED
        BY <1>1, <2>1, <3>6, <3>7 DEF NewInv, SplitAt
    <2> QED
      BY <2>2, <2>3, <2>4
  <1>6. CASE TakeSplit
    <2>1. /\ splitondemand # {} /\ splitondemand' = {} /\ UNCHANGED cuts
          /\ clauses' = clauses \cup {splitondemand}
      BY <1>6 DEF TakeSplit
    <2>1a. PICK v \in IntVars : \E n \in cuts[v] : splitondemand = SplitAt(v, n)
      BY <2>1 DEF LInv, SplitInv, IsSplit
    <2>2. PICK c \in cuts[v] : splitondemand = SplitAt(v, c)
      BY <2>1a
    <2>3. c \in Int
      BY <2>2 DEF LInv, TypeInv
    <2>4. \A u \in IntVars, k \in Int : SplitAt(u, k) = SplitAt(v, c) => u = v /\ k = c
      <3> SUFFICES ASSUME NEW u \in IntVars, NEW k \in Int, SplitAt(u, k) = SplitAt(v, c)
                   PROVE  u = v /\ k = c
        OBVIOUS
      <3>1. PICK upp : upp = [v |-> u, lower |-> FALSE, value |-> At(k)]
        OBVIOUS
      <3>2. upp = [v |-> v, lower |-> FALSE, value |-> At(c)]
        <4>1. \/ upp = [v |-> v, lower |-> FALSE, value |-> At(c)]
              \/ upp = [v |-> v, lower |-> TRUE, value |-> At(c + 1)]
          BY <3>1, SideFacts
        <4> QED
          BY <3>1, <4>1
      <3>3. u = v /\ At(k) = At(c)
        BY <3>1, <3>2
      <3>4. IntReal(k) = IntReal(c)
        BY <3>3 DEF At, Delta
      <3> QED
        BY <3>3, <3>4 DEF IntReal
    <2> QED
      BY <1>1, <2>1, <2>2, <2>3, <2>4 DEF NewInv, SplitAt
  <1> QED
    BY <1>3, <1>4, <1>5, <1>6 DEF Next

\* A split is asked for once: its number is recorded, and the only conflicts that
\* are learnt as the same clause are found with that number recorded as well.
THEOREM SplitsNew == NoSplitGiven => (Spec => []SplitNew)
  <1> SUFFICES ASSUME NoSplitGiven PROVE Spec => []SplitNew
    OBVIOUS
  <1>1. Init => NewInv
    BY NewInit
  <1>2. LInv /\ NewInv /\ [Next]_vars => NewInv'
    BY NewNext
  <1>3. NewInv => SplitNew
    BY DEF NewInv, SplitNew
  <1> QED
    BY LInvariance, <1>1, <1>2, <1>3, PTL DEF Spec
=============================================================================
