------------------------------- MODULE Deltas -------------------------------
(***************************************************************************)
(* Rational numbers in lowest terms (FastRational) as pairs, and the       *)
(* values of the arithmetic solver (Delta): r + d*delta for an             *)
(* infinitesimal delta, or an infinity.                                    *)
(***************************************************************************)
EXTENDS Integers, Functions

Magnitude(a) == IF a < 0 THEN -a ELSE a

(* n/d over the least denominator that will do. *)
Ratio(n, d) ==
  LET m == Magnitude(d)
      q == CHOOSE q \in 1..m : /\ (n * q) % m = 0
                               /\ \A e \in 1..q - 1 : (n * e) % m # 0
  IN <<((IF d < 0 THEN -n ELSE n) * q) \div m, q>>

(* What FastRational holds: no smaller denominator will do. *)
Rationals == {q \in Int \X (Nat \ {0}) : \A d \in 1..q[2] - 1 : (q[1] * d) % q[2] # 0}

IntReal(n) == <<n, 1>>
Zero == IntReal(0)
One == IntReal(1)
RAdd(p, q) == Ratio(p[1] * q[2] + q[1] * p[2], p[2] * q[2])
RMul(p, q) == Ratio(p[1] * q[1], p[2] * q[2])
RNeg(p) == <<-p[1], p[2]>>
RSub(p, q) == RAdd(p, RNeg(q))
RDiv(p, q) == Ratio(p[1] * q[2], p[2] * q[1])
RLess(p, q) == p[1] * q[2] < q[1] * p[2]
RMin(p, q) == IF RLess(p, q) THEN p ELSE q
isInteger(p) == p[2] = 1
floor(p) == p[1] \div p[2]

----------------------------------------------------------------------------
Values == [inf : {0}, r : Rationals, d : Rationals]
Delta(r, d) == [inf |-> 0, r |-> r, d |-> d]
PlusInf == [inf |-> 1, r |-> Zero, d |-> Zero]
MinusInf == [inf |-> -1, r |-> Zero, d |-> Zero]
isInf(a) == a.inf # 0

DAdd(a, b) == Delta(RAdd(a.r, b.r), RAdd(a.d, b.d))
DSub(a, b) == Delta(RSub(a.r, b.r), RSub(a.d, b.d))
DMul(c, a) == Delta(RMul(c, a.r), RMul(c, a.d))
DDiv(a, c) == Delta(RDiv(a.r, c), RDiv(a.d, c))

DLess(a, b) ==
  \/ a.inf < b.inf
  \/ /\ ~isInf(a) /\ ~isInf(b)
     /\ \/ RLess(a.r, b.r)
        \/ a.r = b.r /\ RLess(a.d, b.d)
DLeq(a, b) == ~DLess(b, a)

(* Sums over a set of indices. *)
RSum(f, S) == FoldFunctionOnSet(RAdd, Zero, f, S)
DSum(f, S) == Delta(RSum([i \in S |-> f[i].r], S), RSum([i \in S |-> f[i].d], S))
=============================================================================
