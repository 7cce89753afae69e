------------------------------ MODULE MC_Core ------------------------------
EXTENDS Soundness

\* Variables 1 to 3 are Boolean; 4 and 5 are atoms of which the first implies the
\* second, and the theory may split on them.  The formulas: one that later clauses
\* refute at level 0, with a ternary clause that such a refutation may leave
\* behind; one with a clause the theory falsifies; one for long resolutions with
\* a literal to minimise.
MCVars == 1..5
MCTheoryVars == {4, 5}
MCTModels == {{b, c, d} \cup t : b \in {1, -1}, c \in {2, -2}, d \in {3, -3},
                                 t \in {{4, 5}, {-4, 5}, {-4, -5}}}
MCSplits == {<<-4, 5>>}
MCInitialClauses ==
    {{{1, 4}, {-1, 4}, {-4, -1, 3}},
     {{-1, 2}, {1, -2}, {1, 2}, {-1, -2, 4, -5}},
     {{-1, 2}, {-1, -2, -4, 3}, {-2, -4, -3}, {1, 4}}}

\* A contradiction under 5 and a unit, to arrive before, between or after the calls.
MCNewClauses == {{-5, 2}, {-5, -2}, {-2}}

\* Two calls: only the last may refute an assumption above level 0 (CleanCalls).
MCAssumptions == <<{<<>>, <<-4>>}, {<<1, 4>>, <<-5, 1>>, <<1, -2>>}>>
=============================================================================
