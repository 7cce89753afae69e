------------------------------- MODULE MC_LIA -------------------------------
(* Problem "one": x < 2, 1 < x, 3/2 <= x, x <= 3/2, one of two pairs.      *)
(* Problem "two": bounds on x and y without constraints between them.      *)
EXTENDS LIASolver

CONSTANT Problem

Half == Ratio(3, 2)
MCAtoms ==
  IF Problem = "one"
  THEN {Bound(1, FALSE, IntReal(1), 0), Bound(1, TRUE, IntReal(2), 0),
        Bound(1, TRUE, Half, 0), Bound(1, FALSE, Half, 0)}
  ELSE {Bound(1, FALSE, IntReal(1), 0), Bound(1, TRUE, IntReal(2), 0), Bound(2, TRUE, IntReal(1), 0)}
MCClauses ==
  IF Problem = "one"
  THEN {{Not(Bound(1, FALSE, IntReal(1), 0)), Bound(1, TRUE, Half, 0)},
        {Not(Bound(1, FALSE, IntReal(1), 0)), Bound(1, FALSE, Half, 0)},
        {Not(Bound(1, TRUE, IntReal(2), 0)), Bound(1, TRUE, Half, 0)},
        {Not(Bound(1, TRUE, IntReal(2), 0)), Bound(1, FALSE, Half, 0)}}
  ELSE {}
MCGrid ==
  IF Problem = "one"
  THEN {Delta(Ratio(n, 2), IntReal(d)) : n \in {2, 3, 4}, d \in {-1, 0, 1}}
  ELSE {Delta(IntReal(1), IntReal(d)) : d \in {-1, 0, 1}} \cup {Delta(Half, Zero)}
=============================================================================
