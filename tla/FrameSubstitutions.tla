------------------------- MODULE FrameSubstitutions -------------------------
(***************************************************************************)
(* The simplification of one assertion frame (logics/Theory.C, Logic.C,    *)
(* SubstLoopBreaker.cpp): facts at the top level of a formula become       *)
(* substitutions, loops among them are broken, and the formula is          *)
(* rewritten.  A formula is a conjunction of clauses and of Boolean        *)
(* equalities <<a, b>>, which keep the order of their arguments.           *)
(***************************************************************************)
EXTENDS CoreSMTSolver

\* The constant terms are literals of a variable that no formula holds.
term_TRUE == 1 + CHOOSE v \in Vars : \A w \in Vars : w <= v
term_FALSE == -term_TRUE

NoFormula == [clauses |-> {}, iffs |-> {}]
FalseFormula == [clauses |-> {{}}, iffs |-> {}]
OfClauses(cs) == [clauses |-> cs, iffs |-> {}]
isFalse(F) == {} \in F.clauses

Together(Fs) == [clauses |-> UNION {F.clauses : F \in Fs}, iffs |-> UNION {F.iffs : F \in Fs}]

\* A conjunction with a false argument is false.
mkAnd(Fs) == IF isFalse(Together(Fs)) THEN FalseFormula ELSE Together(Fs)

mkOr(c) ==
    IF term_TRUE \in c \/ \E l \in c : -l \in c THEN NoFormula
                                                ELSE OfClauses({c \ {term_FALSE}})

mkEq(a, b) ==
    CASE a = b -> NoFormula
      [] a = -b -> FalseFormula
      [] var(a) = term_TRUE /\ var(b) # term_TRUE -> OfClauses({{IF a > 0 THEN b ELSE -b}})
      [] var(b) = term_TRUE /\ var(a) # term_TRUE -> OfClauses({{IF b > 0 THEN a ELSE -a}})
      [] OTHER -> [clauses |-> {}, iffs |-> {<<a, b>>}]

\* The clause form the Cnfizer gives to the solver, definitions left out.
CnfOf(F) == F.clauses \cup UNION {{{-e[1], e[2]}, {e[1], -e[2]}} : e \in F.iffs}

VarsOf(F) == UNION {{var(l) : l \in c} : c \in F.clauses}
                \cup {var(e[1]) : e \in F.iffs} \cup {var(e[2]) : e \in F.iffs}

-----------------------------------------------------------------------------
(* Facts.  They are themselves a formula: unit clauses and equalities.     *)

Units(F) == {c \in F.clauses : Cardinality(c) = 1}
UnitLits(F) == UNION Units(F)

\* The walk over the conjuncts stops early at a negative fact that is known,
\* and at a positive one whose negation is: the facts behind it are left for
\* another round.  The order of the walk is the order of the terms.
WalkStops(F, known) ==
    \E l \in UnitLits(F) :
        \/ l < 0 /\ l \in UnitLits(known)
        \/ l > 0 /\ (-l \in UnitLits(known) \/ -l \in UnitLits(F))

NoClash(facts) == \A l \in UnitLits(facts) : -l \notin UnitLits(facts)

NewFacts(F, known) ==
    LET lits == {l \in UnitLits(F) : {l, -l} \cap UnitLits(known) = {}}
        fresh == [clauses |-> {{l} : l \in lits}, iffs |-> F.iffs \ known.iffs]
        some == [clauses : SUBSET fresh.clauses, iffs : SUBSET fresh.iffs]
    IN IF WalkStops(F, known) THEN {facts \in some : NoClash(facts)} ELSE {fresh}

-----------------------------------------------------------------------------
(* Substitutions: a function from variables to literals or constants.      *)

\* The variable an equality defines: the first argument that is one.
Defines(e) == IF e[1] > 0 THEN e[1] ELSE e[2]
Definition(e) == IF e[1] > 0 THEN e[2] ELSE e[1]

Targets(facts, v) ==
    {term_TRUE : l \in UnitLits(facts) \cap {v}}
        \cup {term_FALSE : l \in UnitLits(facts) \cap {-v}}
        \cup {Definition(e) : e \in {d \in facts.iffs : Defines(d) = v}}

\* The first fact about a variable counts; the others stay in the formula.
retrieveSubstitutions(facts) ==
    LET keys == {v \in Vars : Targets(facts, v) # {}}
        all == UNION {Targets(facts, v) : v \in keys}
    IN {s \in [keys -> all] : \A v \in keys : s[v] \in Targets(facts, v)}

Image(s, l) == IF var(l) \notin DOMAIN s THEN l ELSE IF l > 0 THEN s[l] ELSE -s[-l]

Reached(s, v) ==
    LET walk[n \in Nat] == IF n = 0 THEN v ELSE var(Image(s, walk[n - 1]))
    IN {walk[n] : n \in 1..Cardinality(Vars)}
OnLoop(s) == {v \in DOMAIN s : v \in Reached(s, v)}

\* SubstLoopBreaker: one variable of every loop loses its definition.  Which
\* one depends on the order of the walk.
Broken(s) == {B \in SUBSET OnLoop(s) : \A v \in OnLoop(s) : Cardinality(B \cap Reached(s, v)) = 1}

Enabled(s, B) == [v \in DOMAIN s \ B |-> s[v]]

substitutionsTransitiveClosure(s) ==
    LET image[n \in Nat] ==
            IF n = 0 THEN s ELSE [v \in DOMAIN s |-> Image(s, image[n - 1][v])]
    IN image[Cardinality(Vars)]

varsubstitute(F, s) ==
    mkAnd({mkOr({Image(s, l) : l \in c}) : c \in F.clauses}
             \cup {mkEq(Image(s, e[1]), Image(s, e[2])) : e \in F.iffs})

\* What is remembered of a round: sgn FALSE marks a definition that was dropped.
Remembered(s, B) ==
    [v \in DOMAIN s |->
        IF v \in B THEN [tr |-> s[v], sgn |-> FALSE]
                   ELSE [tr |-> substitutionsTransitiveClosure(Enabled(s, B))[v], sgn |-> TRUE]]

\* The conjunct for a substituted variable that a lower frame holds.
SubstConjunct(v, p) ==
    CnfOf(mkEq(v, IF p.sgn THEN p.tr ELSE -p.tr))
=============================================================================
