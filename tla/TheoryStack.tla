---------------------------- MODULE TheoryStack ----------------------------
(***************************************************************************)
(* The theory side of the search: THandler keeps a copy of the trail it    *)
(* has handed to the theory solvers, TSolverHandler passes every theory    *)
(* literal to the scheduled solvers, and the arithmetic solver (LASolver   *)
(* over the bounds of LRAModel) keeps bounds, decisions and deductions in  *)
(* stacks cut by backtrack points.                                         *)
(*                                                                         *)
(* The tableau is reduced to its answer: Rows are sums of variables, and   *)
(* check finds a row whose bounds cannot be met (module Simplex has the    *)
(* pivoting).  A value c + k*delta is the integer Scale*c + k; where the   *)
(* code has an infinite bound there is none.                               *)
(***************************************************************************)
EXTENDS Integers, Sequences, FiniteSets, SequencesExt

CONSTANTS
  Atoms,        \* variables of the SAT solver
  TheoryAtoms,  \* those whose term is a theory term
  Splits,       \* pairs of atoms a check may ask to split on
  LeqVar,       \* Atom -> arithmetic variable of its sum t
  LeqConst,     \* Atom -> c, scaled
  SumNegated,   \* atoms whose sum is stored with the opposite sign
  Rows,         \* records [sum, of]: variable sum equals the sum of of
  MaxCalls

VARIABLES
  trail,     \* the search's trail: records [atom, sgn, fake]
  stack,     \* atoms handed to the solvers
  deduced,   \* atom -> [by, sgn] or Undef (shared by the solvers)
  known,     \* known_preds of the arithmetic solver
  la,        \* the arithmetic solver
  pc,        \* what the search is doing
  expl,      \* explanation of the last conflict, as the search got it
  conflictAt,  \* position of the literal a conflict ends in
  calls

vars == <<trail, stack, deduced, known, la, pc, expl, conflictAt, calls>>

Undef == [by |-> "none", sgn |-> TRUE]
LeqAtoms == DOMAIN LeqVar
Vars == Range(LeqVar) \cup {r.sum : r \in Rows} \cup UNION {r.of : r \in Rows}
Literals == [atom : Atoms, sgn : BOOLEAN]
Lit(e) == [atom |-> e.atom, sgn |-> e.sgn]
Not(l) == [l EXCEPT !.sgn = ~@]

ASSUME AtomsAssumption ==
  /\ IsFiniteSet(Atoms) /\ LeqAtoms \subseteq TheoryAtoms /\ TheoryAtoms \subseteq Atoms
  /\ LeqConst \in [LeqAtoms -> Int]
  /\ \A S \in Splits : S \subseteq LeqAtoms

(* The bound a literal stands for: c <= t is a lower bound of t, its       *)
(* negation the strict upper bound; for a negated sum the upper bound -c   *)
(* of -t and the strict lower bound.                                       *)
IsLower(l) == l.sgn = (l.atom \notin SumNegated)
Value(l) ==
  IF l.atom \in SumNegated
  THEN IF l.sgn THEN -LeqConst[l.atom] ELSE -LeqConst[l.atom] + 1
  ELSE IF l.sgn THEN LeqConst[l.atom] ELSE LeqConst[l.atom] - 1

(* The stacks of lower and upper bounds of a variable are the parts of the *)
(* bound trace that concern it; the last entry is the bound in force.      *)
Bounds(s, v, lower) ==
  {k \in DOMAIN s.trace : LeqVar[s.trace[k].atom] = v /\ IsLower(s.trace[k]) = lower}
Bounded(s, v, lower) == Bounds(s, v, lower) # {}
InForce(s, v, lower) == s.trace[Max(Bounds(s, v, lower))]
Lb(s, v) == Value(InForce(s, v, TRUE))
Ub(s, v) == Value(InForce(s, v, FALSE))
Opposite(s, l) == InForce(s, LeqVar[l.atom], ~IsLower(l))

boundSatisfied(s, l) ==
  /\ Bounded(s, LeqVar[l.atom], IsLower(l))
  /\ IF IsLower(l) THEN Value(l) <= Lb(s, LeqVar[l.atom])
                   ELSE Value(l) >= Ub(s, LeqVar[l.atom])

boundUnsatisfied(s, l) ==
  /\ Bounded(s, LeqVar[l.atom], ~IsLower(l))
  /\ IF IsLower(l) THEN Value(l) > Ub(s, LeqVar[l.atom])
                   ELSE Value(l) < Lb(s, LeqVar[l.atom])

EmptyLA ==
  [trace |-> <<>>, limits |-> <<>>, decisions |-> <<>>, decLimit |-> <<>>,
   active |-> [v \in Vars |-> 0], polarity |-> [a \in LeqAtoms |-> "undef"],
   dedList |-> <<>>, dedNext |-> 0, dedLim |-> <<>>, dedLast |-> <<>>,
   status |-> "INIT", built |-> FALSE, hasExplanation |-> FALSE,
   explanation |-> {}]

----------------------------------------------------------------------------
(* Backtrack points: one remembers how far every stack had come.           *)
pushBacktrackPoint(s) ==
  [s EXCEPT !.limits = Append(@, Len(s.trace)),
            !.decLimit = Append(@, Len(s.decisions)),
            !.dedLim = Append(@, Len(s.dedList)),
            !.dedLast = Append(@, s.dedNext)]

Cut(seq, n) == IF n < Len(seq) THEN SubSeq(seq, 1, n) ELSE seq
Above(seq, n) == SubSeq(seq, n + 1, Len(seq))
Oldest(s, n) == Len(s.limits) - n + 1

(* Everything above point p goes; each decision dropped gives back its     *)
(* polarity and its count.                                                 *)
DropPoints(s, p) ==
  LET gone == Above(s.decisions, s.decLimit[p])
  IN [s EXCEPT
        !.trace = Cut(@, s.limits[p]), !.limits = Cut(@, p - 1),
        !.decisions = Cut(@, s.decLimit[p]), !.decLimit = Cut(@, p - 1),
        !.active = [v \in Vars |-> s.active[v] -
            Cardinality({k \in DOMAIN gone : LeqVar[gone[k].atom] = v})],
        !.polarity = [a \in LeqAtoms |->
            IF \E k \in DOMAIN gone : gone[k].atom = a
            THEN "undef" ELSE s.polarity[a]],
        !.dedList = Cut(@, s.dedLim[p]), !.dedLim = Cut(@, p - 1),
        !.dedNext = s.dedLast[p], !.dedLast = Cut(@, p - 1),
        !.status = "SAT"]

(* Mutants: one point popped whatever the count; bounds not taken back.    *)
popBacktrackPointsOnce(s, n) ==
  IF n = 0 THEN [s EXCEPT !.status = "SAT"] ELSE DropPoints(s, Len(s.limits))
popBacktrackPointsKeepsBounds(s, n) ==
  IF n = 0 THEN [s EXCEPT !.status = "SAT"]
  ELSE [DropPoints(s, Oldest(s, n)) EXCEPT !.trace = s.trace]

popBacktrackPoints(s, n) ==
  IF n = 0 THEN [s EXCEPT !.status = "SAT"] ELSE DropPoints(s, Oldest(s, n))

UndoDeducedNone(d, s, n) == d  \* mutant

UndoDeduced(d, s, n) ==
  IF n = 0 THEN d ELSE
  LET gone == Above(s.dedList, s.dedLim[Oldest(s, n)])
  IN [a \in Atoms |-> IF \E k \in DOMAIN gone : gone[k].atom = a
                      THEN Undef ELSE d[a]]

----------------------------------------------------------------------------
(* LASolver::assertLit.  A literal the solver deduced itself is passed     *)
(* over; a bound against the opposite one in force is a conflict; any      *)
(* other is counted, pushed if it is stronger, and the weaker bounds of    *)
(* its side are deduced, nearest first.                                    *)
Sgn(b) == IF b THEN "true" ELSE "false"
OwnDeductionAnySign(d, l) == d[l.atom].by = "la"  \* mutant: sign not compared

OwnDeduction(d, l) == d[l.atom] = [by |-> "la", sgn |-> l.sgn]

BoundConflict(s, l) ==
  [s EXCEPT !.explanation = {Opposite(s, l), l},
            !.status = "UNSAT", !.hasExplanation = TRUE]
(* Mutant: a bound already satisfied is not counted as active.             *)
BoundTakenUncounted(s, l) ==
  [s EXCEPT !.explanation = {},
            !.active[LeqVar[l.atom]] = IF boundSatisfied(s, l) THEN @ ELSE @ + 1,
            !.trace = IF boundSatisfied(s, l) THEN @ ELSE Append(@, l),
            !.polarity[l.atom] = Sgn(l.sgn),
            !.decisions = Append(@, l)]

BoundTaken(s, l) ==
  [s EXCEPT !.explanation = {},
            !.active[LeqVar[l.atom]] = @ + 1,
            !.trace = IF boundSatisfied(s, l) THEN @ ELSE Append(@, l),
            !.polarity[l.atom] = Sgn(l.sgn),
            !.decisions = Append(@, l)]

Weaker(l, m) ==
  /\ LeqVar[m.atom] = LeqVar[l.atom] /\ IsLower(m) = IsLower(l)
  /\ IF IsLower(l) THEN Value(m) <= Value(l) ELSE Value(m) >= Value(l)
NearestFirst(S, lower) ==
  CHOOSE ms \in [1..Cardinality(S) -> S] :
    /\ Range(ms) = S
    /\ \A i, j \in DOMAIN ms :
         i < j => IF lower THEN Value(ms[i]) >= Value(ms[j]) ELSE Value(ms[i]) <= Value(ms[j])

(* Mutant: nothing is deduced from upper bounds.                           *)
SimpleDeductionsLower(s, d, l) ==
  NearestFirst(
    {m \in [atom : known, sgn : BOOLEAN] :
       IsLower(l) /\ Weaker(l, m) /\ s.polarity[m.atom] = "undef" /\ d[m.atom] = Undef},
    IsLower(l))

SimpleDeductions(s, d, l) ==
  NearestFirst(
    {m \in [atom : known, sgn : BOOLEAN] :
       Weaker(l, m) /\ s.polarity[m.atom] = "undef" /\ d[m.atom] = Undef},
    IsLower(l))

Deduce(s, ms) == [s EXCEPT !.dedList = @ \o ms]
MarkDeduced(d, ms) ==
  [a \in Atoms |-> IF \E k \in DOMAIN ms : ms[k].atom = a
                   THEN [by |-> "la",
                         sgn |-> (CHOOSE m \in Range(ms) : m.atom = a).sgn]
                   ELSE d[a]]

Initialized(s) == IF s.status = "INIT"
                  THEN [s EXCEPT !.status = "SAT", !.built = TRUE] ELSE s

LAAssert(s0, d, l) ==
  LET s == Initialized(s0)
      t == BoundTaken(s, l)
      ms == SimpleDeductions(t, d, l)
  IN IF OwnDeduction(d, l) THEN [la |-> s, deduced |-> d]
     ELSE IF boundUnsatisfied(s, l)
          THEN [la |-> BoundConflict(s, l), deduced |-> d]
          ELSE [la |-> Deduce(t, ms), deduced |-> MarkDeduced(d, ms)]

(* TSolverHandler::assertLit: the solver gets a point, and the literal if  *)
(* it knows the atom.                                                      *)
HandlerAssert(l) ==
  IF l.atom \in known
  THEN LAAssert(pushBacktrackPoint(la), deduced, l)
  ELSE [la |-> pushBacktrackPoint(la), deduced |-> deduced]

----------------------------------------------------------------------------
(* THandler::backtrack: as many points as theory atoms leave the stack.    *)
PointsAbove(n) ==
  Cardinality({k \in n + 1 .. Len(stack) : stack[k] \in TheoryAtoms})

Backtrack(s, n) ==
  LET c == PointsAbove(n) IN
  /\ stack' = Cut(stack, n)
  /\ deduced' = UndoDeduced(deduced, s, c)
  /\ la' = popBacktrackPoints(s, c)

NoExpl == [kind |-> "none"]

Init ==
  /\ trail = <<>> /\ stack = <<>>
  /\ deduced = [a \in Atoms |-> Undef]
  /\ known = LeqAtoms \ UNION Splits
  /\ la = EmptyLA
  /\ pc = "search" /\ expl = NoExpl /\ calls = 1
  /\ conflictAt = 0

Assigned == {trail[k].atom : k \in DOMAIN trail}
Entry(l, fake) == [atom |-> l.atom, sgn |-> l.sgn, fake |-> fake]

(* The search decides or propagates a literal. *)
Enqueue ==
  /\ pc = "search"
  /\ \E l \in Literals :
       /\ l.atom \notin Assigned
       /\ l.atom \in known \/ l.atom \notin LeqAtoms
       /\ trail' = Append(trail, Entry(l, FALSE))
  /\ UNCHANGED <<stack, deduced, known, la, pc, expl, conflictAt, calls>>

(* checkTheory starts by handing over what is new on the trail. *)
CheckTheory ==
  /\ pc = "search"
  /\ pc' = "assert"
  /\ UNCHANGED <<trail, stack, deduced, known, la, expl, conflictAt, calls>>

(* One round of the loop of assertLits; it ends on a conflict. *)
AssertNext ==
  /\ pc \in {"assert", "restore"}
  /\ Len(stack) < Len(trail)
  /\ LET l == Lit(trail[Len(stack) + 1]) IN
     /\ stack' = Append(stack, l.atom)
     /\ IF l.atom \in TheoryAtoms
        THEN /\ la' = HandlerAssert(l).la
             /\ deduced' = HandlerAssert(l).deduced
        ELSE UNCHANGED <<la, deduced>>
  /\ pc' = IF la'.status = "UNSAT" THEN "conflict" ELSE pc
  /\ UNCHANGED <<trail, known, expl, conflictAt, calls>>

(* All is handed over: on to the check, or back to the analysis that had   *)
(* cut the stack for a moment.                                             *)
AssertDone ==
  /\ pc \in {"assert", "restore"}
  /\ Len(stack) = Len(trail)
  /\ pc' = IF pc = "assert" THEN "check" ELSE "analyze"
  /\ UNCHANGED <<trail, stack, deduced, known, la, expl, conflictAt, calls>>

(* The answer of checkSimplex for one row: the bounds of its sum against   *)
(* the sum of the bounds.                                                  *)
TopsOldest(s, S, lower) == {s.trace[Min(Bounds(s, v, lower))] : v \in S}  \* mutant

Tops(s, S, lower) == {InForce(s, v, lower) : v \in S}
RowConflicts(s) ==
  {Tops(s, r.of, TRUE) \cup Tops(s, {r.sum}, FALSE) :
     r \in {q \in Rows : /\ Bounded(s, q.sum, FALSE) /\ \A v \in q.of : Bounded(s, v, TRUE)
                         /\ SumFunction([v \in q.of |-> Lb(s, v)]) > Ub(s, q.sum)}}
  \cup
  {Tops(s, r.of, FALSE) \cup Tops(s, {r.sum}, TRUE) :
     r \in {q \in Rows : /\ Bounded(s, q.sum, TRUE) /\ \A v \in q.of : Bounded(s, v, FALSE)
                         /\ SumFunction([v \in q.of |-> Ub(s, v)]) < Lb(s, q.sum)}}

Check ==
  /\ pc = "check"
  /\ LET s == Initialized(la) IN
     IF RowConflicts(s) = {}
     THEN /\ la' = [s EXCEPT !.explanation = {}, !.status = "SAT"]
          /\ pc' = "deduce"
     ELSE /\ \E c \in RowConflicts(s) :
               la' = [s EXCEPT !.explanation = c, !.status = "UNSAT",
                               !.hasExplanation = TRUE]
          /\ pc' = "conflict"
  /\ UNCHANGED <<trail, stack, deduced, known, expl, conflictAt, calls>>

(* THandler::getConflict; a conflict met while restoring is only flushed.  *)
GetConflict ==
  /\ pc = "conflict"
  /\ expl' = [kind |-> "conflict", lits |-> la.explanation]
  /\ conflictAt' = Max({0} \cup {k \in DOMAIN trail : Lit(trail[k]) \in la.explanation})
  /\ pc' = "analyze"
  /\ UNCHANGED <<trail, stack, deduced, known, la, calls>>

(* A clause is falsified: analysis without a conflict of the theory. *)
PropagationConflict ==
  /\ pc = "search" /\ trail # <<>>
  /\ pc' = "analyze" /\ conflictAt' = Len(trail)
  /\ UNCHANGED <<trail, stack, deduced, known, la, expl, calls>>

(* deduceTheory takes all that is left of the list and keeps what has no   *)
(* value yet.                                                              *)
Pending == Above(la.dedList, la.dedNext)
Taken == [la EXCEPT !.dedNext = Len(la.dedList)]
UnassignedUnfiltered == Pending  \* mutant: assigned atoms are kept

(* In the order of the list: the n-th is the one with n such up to it.     *)
Unassigned ==
  LET open == {k \in DOMAIN Pending : Pending[k].atom \notin Assigned}
      nth(n) == CHOOSE k \in open : Cardinality({j \in open : j <= k}) = n
  IN [n \in 1..Cardinality(open) |-> Pending[nth(n)]]

EnqueueDeductions ==
  /\ pc = "deduce"
  /\ trail' = trail \o [k \in DOMAIN Unassigned |-> Entry(Unassigned[k], TRUE)]
  /\ la' = Taken
  /\ pc' = "search"
  /\ UNCHANGED <<stack, deduced, known, expl, conflictAt, calls>>

(* A split x <= c or x >= c+1: deductions are dropped, the atoms declared. *)
(* If one of them is false the search falls back to its level and the      *)
(* other follows there.                                                    *)
Split ==
  /\ pc = "deduce"
  /\ \E S \in Splits :
       /\ \A l \in S : [atom |-> l, sgn |-> TRUE] \notin {Lit(trail[k]) : k \in DOMAIN trail}
       /\ S \ Assigned # {}
       /\ known' = known \cup S
       /\ IF S \cap Assigned = {}
          THEN /\ la' = Taken
               /\ UNCHANGED <<trail, stack, deduced>>
          ELSE \E n \in 0..Len(trail), l \in S :
               /\ \E k \in 1..n : trail[k].atom \in S
               /\ l \notin Assigned
               /\ trail' = Append(Cut(trail, n), [atom |-> l, sgn |-> TRUE, fake |-> FALSE])
               /\ Backtrack(Taken, n)
  /\ pc' = "search"
  /\ UNCHANGED <<expl, conflictAt, calls>>

(* THandler::getReason: on a point of its own the solver is given the      *)
(* opposite of what it deduced, and its conflict is the reason.  s and d   *)
(* are the solver and the deductions at that moment.                       *)
Reason(s, d, l, upto) ==
  LET t == LAAssert(pushBacktrackPoint(s), d, Not(l)).la IN
  IF d[l.atom] = Undef \/ t.status # "UNSAT"
  THEN [kind |-> "failed"]
  ELSE [kind |-> "reason", lit |-> l, lits |-> t.explanation \ {Not(l)}, upto |-> upto]

AfterReason(s, d, l) ==
  popBacktrackPoints(LAAssert(pushBacktrackPoint(s), d, Not(l)).la, 1)

(* Analysis meets a deduced literal: cancelUntilVar drops it and what came *)
(* after, for good, or (minimisation) until the reason is known.           *)
GetReason(temporarily) ==
  /\ pc = "analyze"
  /\ \E i \in 1..Len(trail) :
       /\ trail[i].fake /\ i <= conflictAt
       /\ LET c == PointsAbove(i - 1)
              s == popBacktrackPoints(la, c)
              d == UndoDeduced(deduced, la, c)
          IN /\ stack' = Cut(stack, i - 1)
             /\ deduced' = d
             /\ expl' = Reason(s, d, Lit(trail[i]), i - 1)
             /\ la' = AfterReason(s, d, Lit(trail[i]))
       /\ IF temporarily THEN trail' = trail /\ pc' = "restore"
                         ELSE trail' = Cut(trail, i - 1) /\ pc' = pc
  /\ UNCHANGED <<known, conflictAt, calls>>

(* cancelUntil after a learnt clause or a restart.  A learnt clause undoes *)
(* the level the conflict ends in; before the first check of a call there  *)
(* is no decision to cancel.                                               *)
CancelUntil ==
  /\ pc \in {"search", "analyze"} /\ la.status # "INIT"
  /\ \E n \in 0..Len(trail) :
       /\ pc = "analyze" => n < conflictAt
       /\ trail' = Cut(trail, n)
       /\ Backtrack(la, n)
  /\ pc' = "search"
  /\ expl' = NoExpl /\ conflictAt' = 0
  /\ UNCHANGED <<known, calls>>

(* Between two calls clearSearch empties the stack; the next call clears   *)
(* the solver in declareVarsToTheories and keeps what is assigned at level *)
(* 0, whose reasons no analysis asks for.                                  *)
clearSolver(s) == [EmptyLA EXCEPT !.polarity = s.polarity]

clearSearch ==
  /\ pc \in {"search", "analyze"} /\ calls < MaxCalls
  /\ \E n \in 0..Len(trail) :
       trail' = [k \in 1..n |-> Entry(trail[k], FALSE)]
  /\ Backtrack(la, 0)
  /\ pc' = "idle"
  /\ expl' = NoExpl /\ conflictAt' = 0
  /\ UNCHANGED <<known, calls>>

declareVarsToTheories ==
  /\ pc = "idle"
  /\ la' = clearSolver(la)
  /\ calls' = calls + 1
  /\ pc' = "search"
  /\ UNCHANGED <<trail, stack, deduced, known, expl, conflictAt>>

Next ==
  \/ Enqueue \/ CheckTheory \/ AssertNext \/ AssertDone \/ Check
  \/ GetConflict \/ PropagationConflict \/ EnqueueDeductions \/ Split
  \/ GetReason(TRUE) \/ GetReason(FALSE) \/ CancelUntil
  \/ clearSearch \/ declareVarsToTheories

Spec == Init /\ [][Next]_vars

----------------------------------------------------------------------------
Handed == {k \in DOMAIN stack : trail[k].atom \in known}
Accepted ==
  {k \in Handed : k < Len(stack) \/ ~boundUnsatisfied(la, Lit(trail[k]))}
AcceptedOn(v, lower) ==
  {k \in Accepted : LeqVar[trail[k].atom] = v /\ IsLower(Lit(trail[k])) = lower}

(* The solver holds one backtrack point per theory atom of the stack, in   *)
(* every one of its stacks, so that backtracking the handler undoes exactly *)
(* the literals it takes off (THandler::backtrack pops by count).          *)
PointsAligned ==
  LET n == PointsAbove(0) IN
  n = Len(la.limits) /\ n = Len(la.decLimit) /\ n = Len(la.dedLim) /\ n = Len(la.dedLast)

(* Whatever was asserted, deduced, undone and asserted again: the bounds   *)
(* in force are the strongest among the literals on the stack, and no      *)
(* literal meets a solver still in conflict or without its bounds          *)
(* (popBacktrackPoints and clearSolver reset the status, check sets it).   *)
BoundsExact ==
  /\ pc \in {"search", "assert", "check", "deduce", "restore"} => la.status # "UNSAT"
  /\ la.status # "INIT" /\ Handed # {} => la.built
  /\ \A v \in Vars, lower \in BOOLEAN :
       LET S == AcceptedOn(v, lower)  top == InForce(la, v, lower) IN
       IF Bounded(la, v, lower)
       THEN /\ \E k \in S : Value(top) = Value(Lit(trail[k]))
            /\ \A k \in S : Weaker(top, Lit(trail[k]))
       ELSE S = {}

(* polarityMap, the decision trace and the counters of active bounds agree *)
(* with the literals the solver took and has not given back.               *)
DecisionsExact ==
  /\ \A a \in LeqAtoms :
       la.polarity[a] # "undef" <=> \E k \in DOMAIN la.decisions : la.decisions[k].atom = a
  /\ \A v \in Vars : la.active[v] =
       Cardinality({k \in DOMAIN la.decisions : LeqVar[la.decisions[k].atom] = v})
  /\ \A k \in Accepted : la.polarity[trail[k].atom] # "undef"
                         \/ OwnDeduction(deduced, Lit(trail[k]))

(* The list of deductions and the table deduced name the same literals,    *)
(* each once, and each follows from a literal of the stack within the same *)
(* backtrack point.                                                        *)
PointOf(k) == CHOOSE p \in DOMAIN la.dedLim :
  la.dedLim[p] < k /\ (p < Len(la.dedLim) => k <= la.dedLim[p + 1])
TheoryPos(p) == CHOOSE i \in DOMAIN stack :
  stack[i] \in TheoryAtoms
  /\ Cardinality({j \in 1..i : stack[j] \in TheoryAtoms}) = p
DeductionsExact ==
  /\ \A a \in Atoms : deduced[a] # Undef <=>
       \E k \in DOMAIN la.dedList : la.dedList[k].atom = a
  /\ \A k \in DOMAIN la.dedList :
       /\ OwnDeduction(deduced, la.dedList[k])
       /\ \A j \in DOMAIN la.dedList : la.dedList[j].atom = la.dedList[k].atom => j = k
       /\ Weaker(Lit(trail[TheoryPos(PointOf(k))]), la.dedList[k])

(* A known atom whose literal is no stronger than a bound in force is on   *)
(* the stack or deduced, also after backtracking; split atoms, which       *)
(* arrive after the bounds, are excepted.                                  *)
DeductionsComplete ==
  \A k \in Accepted : \A m \in [atom : known \ UNION Splits, sgn : BOOLEAN] :
    Weaker(Lit(trail[k]), m) =>
      m.atom \in Range(stack) \/ OwnDeduction(deduced, m)

(* deduceTheory and the loop after it put no atom on the trail twice.      *)
NoDoubleEnqueue ==
  \A i, j \in DOMAIN trail : trail[i].atom = trail[j].atom => i = j

(* What cannot hold together: a lower bound above an upper bound of one    *)
(* variable, or bounds of a row.                                           *)
Infeasible(S) ==
  LET low(v) == {Value(l) : l \in {m \in S : LeqVar[m.atom] = v /\ IsLower(m)}}
      upp(v) == {Value(l) : l \in {m \in S : LeqVar[m.atom] = v /\ ~IsLower(m)}}
  IN \/ \E v \in Vars : \E b \in low(v), c \in upp(v) : b > c
     \/ \E r \in Rows :
          \/ /\ \A v \in r.of : low(v) # {}
             /\ \E c \in upp(r.sum) : SumFunction([v \in r.of |-> Max(low(v))]) > c
          \/ /\ \A v \in r.of : upp(v) # {}
             /\ \E c \in low(r.sum) : SumFunction([v \in r.of |-> Min(upp(v))]) < c

(* A conflict handed to the search is made of literals of the trail that   *)
(* cannot hold together (getConflict asserts the first under              *)
(* PEDANTIC_DEBUG).                                                        *)
ConflictSound ==
  expl.kind = "conflict" =>
    /\ expl.lits \subseteq {Lit(trail[k]) : k \in DOMAIN trail}
    /\ Infeasible(expl.lits)

(* The theory can always say why it deduced a literal, with literals that  *)
(* were on the trail before it, although they may have been asserted,      *)
(* undone and skipped in between.                                          *)
ReasonSound ==
  /\ expl.kind # "failed"
  /\ expl.kind = "reason" =>
       /\ expl.lits \subseteq {Lit(trail[k]) : k \in 1..expl.upto}
       /\ Infeasible(expl.lits \cup {Not(expl.lit)})

=============================================================================
