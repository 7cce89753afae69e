----------------------------- MODULE MC_Theory -----------------------------
(* Three bounds on x, one on y, one on their sum, and a plain atom.        *)
EXTENDS TheoryStack

CONSTANTS x1, x2, x3, y1, s2, p

MCAtoms == {x1, x2, x3, y1, s2, p}
MCTheoryAtoms == MCAtoms \ {p}
MCSplits == {{x1, x2}}

(* x <= 1 and 2 <= x, the atoms of a split, 3 <= x, 1 <= y and             *)
(* x + y <= 3 (stored as -3 <= -(x + y)).                                  *)
MCLeqVar == x1 :> "x" @@ x2 :> "x" @@ x3 :> "x" @@ y1 :> "y" @@ s2 :> "s"
MCLeqConst == x1 :> -10 @@ x2 :> 20 @@ x3 :> 30 @@ y1 :> 10 @@ s2 :> -30
MCSumNegated == {x1, s2}
MCRows == {[sum |-> "s", of |-> {"x", "y"}]}

(* The bounds that meet in the row are enqueued with one sign and in one   *)
(* order, and the plain atom, of which the theory sees nothing, second or  *)
(* not at all; of the six atoms at most five are on the trail together.    *)
Narrowed ==
  /\ Len(trail) <= 5
  /\ \A k \in DOMAIN trail : trail[k].atom \in {p, y1, s2} => trail[k].sgn
  /\ \A k \in DOMAIN trail : trail[k].atom = p => k = 2
  /\ \A k \in DOMAIN trail : trail[k].atom = s2 => \E j \in 1..k : trail[j].atom = y1
=============================================================================
