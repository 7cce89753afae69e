------------------------------ MODULE MC_Frames ------------------------------
EXTENDS MainSolver

\* Three Boolean variables for the formulas, two for the frames 1 and 2.
MCVars == 1..5
MCTheoryVars == {}
MCTModels == {m \in SUBSET Lit : \A v \in Vars : (v \in m) # (-v \in m)}
MCSplits == {}
MCInitialClauses == {{}}
MCNewClauses == {}
MCAssumptions == [n \in 1..9 |-> {}]
MCFrameVars == <<4, 5>>

Cs(cs) == OfClauses(cs)
Iffs(es) == [clauses |-> {}, iffs |-> es]

A == Cs({{1, 2}, {1, -2}})
B == Cs({{-1, 3}, {-1, -3}})
C == Cs({{1, 2}, {1, -2}, {2, 3}, {2, -3}})
Not2 == Cs({{-2, 1}, {-2, -1}})
Square == Cs({{1, 2}, {1, -2}, {-1, 2}, {-1, -2}})

\* At most one frame above the bottom one.
Flat == {<<insert(A), push, insert(B), check, pop, check, push, insert(Cs({{-2}})), check>>,
         <<push, insert(B), check, insert(A), check, pop, pop, insert(Cs({{1}})), check>>,
         <<push, insert(Together({A, Cs({{}})})), check, pop, push, insert(A), insert(C), check,
           pop, insert(Cs({{-1}})), check>>,
         <<insert(C), insert(Cs({{-2}})), check, push, check, pop, check>>}
        \* Definitions and facts above variables that are in use below.
        \cup
        {<<insert(Cs({{1, 2, 3}})), check, push, insert(Iffs({<<1, -2>>, <<2, 3>>})), check,
           insert(Cs({{1}, {3}})), check, pop, insert(Cs({{2}})), check>>,
         <<insert(Cs({{-1}, {1, 2}})), check, push, insert(Cs({{-1}, {-2, 3}, {-3}})), check,
           pop, push, insert(Cs({{1, 3}, {-2, -3, 1}})), check, pop, check>>,
         <<insert(Iffs({<<1, 3>>})), check, push, insert(Cs({{-1}, {3, 2}})), check, pop,
           push, insert(Cs({{3}, {-1, -2}, {2}})), check, pop, check>>}
        \* Circles of definitions, with nothing below that holds their variables.
        \cup
        {<<insert(Iffs({<<1, 2>>, <<2, 1>>})), check, insert(Cs({{-1, 3}})), check,
           insert(Cs({{2}, {-3}})), check>>,
         <<insert(Cs({{3}})), check, push, insert(Iffs({<<1, 2>>, <<2, -1>>})), check, pop, check>>}

        \* The search refutes the bottom frame, and is asked again.
        \cup
        {<<insert(Square), check, check, push, insert(Cs({{3}})), check, pop, check>>,
         <<push, insert(B), insert(Square), check, pop, check, insert(Cs({{1, 2}, {-1, 2}})), check,
           insert(Cs({{1, -2}, {-1, -2}})), check, insert(Cs({{1, 3}, {-3}})), check>>}

\* The search refutes the bottom frame at level 0, and is asked again.
Refuted == {<<insert(Square), check, check>>}

\* Two frames above the bottom one: unsatisfiable together, then popped.
Nested == {<<push, insert(C), push, insert(B), check, pop, check, pop,
             insert(Not2), check>>}

\* Two definitions in a circle over variables that the bottom frame holds.
Circular == {<<insert(Cs({{1, 2, 3}})), check, push, insert(Iffs({<<1, 2>>, <<2, 1>>})), check>>}
==============================================================================
