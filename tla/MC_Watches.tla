----------------------------- MODULE MC_Watches -----------------------------
(* Four variables; clauses of two and three literals.  When the theory     *)
(* deduces -3 at level 0, the search refutes the clauses there.            *)
EXTENDS Watches

MCVars == 1..4
MCFormula == {{1, 2, 3}, {-1, 3}, {-2, 3}}
MCSplits == {{3, 4}}
MCDecisions == {1, -4}
MCDeductions == {-3}
MCLearnable == {{-1, 2, 4}, {-1}}
=============================================================================
