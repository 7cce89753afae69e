----------------------------- MODULE MC_Simplex -----------------------------
(* Variables x = 1 and y = 2, sums 3 = x + y and 4 = x - y, and an atom on *)
(* each of x and the sums, both ways round.                                *)
EXTENDS Simplex

MCDefs ==
  [v \in {3, 4} |->
    [NoPoly EXCEPT ![1] = One, ![2] = IF v = 3 THEN One ELSE RNeg(One)]]

(* The atom c <= v and its negation. *)
Atom(v, c) ==
  {[atom |-> <<v, c>>, v |-> v, lower |-> TRUE, value |-> Delta(IntReal(c), Zero)],
   [atom |-> <<v, c>>, v |-> v, lower |-> FALSE, value |-> Delta(IntReal(c), IntReal(-1))]}
(* The atom v <= c and its negation. *)
AtomLe(v, c) ==
  {[atom |-> <<v, c, "le">>, v |-> v, lower |-> FALSE, value |-> Delta(IntReal(c), Zero)],
   [atom |-> <<v, c, "le">>, v |-> v, lower |-> TRUE, value |-> Delta(IntReal(c), One)]}

MCLiterals == AtomLe(1, 0) \cup Atom(3, 1) \cup Atom(4, 2)
=============================================================================
