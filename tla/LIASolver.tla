----------------------------- MODULE LIASolver -----------------------------
(***************************************************************************)
(* The integer solver: after a successful check of the rational relaxation *)
(* it looks for a variable with a fractional value, and answers with a     *)
(* conflict, a split x <= c or x >= c + 1, or "I don't know".              *)
(*                                                                         *)
(* The simplex is any assignment of Grid values within the bounds (module  *)
(* Simplex has the tableau; rows may put a value anywhere between them).   *)
(* The search is any sequence of assertions that falsifies no clause; it   *)
(* learns the conflicts it is told.                                        *)
(***************************************************************************)
EXTENDS Integers, FiniteSets, Deltas

CONSTANTS
  NVars,     \* number of integer variables, in the order of int_vars
  Atoms,     \* atoms of the input: positive bounds [v, lower, value]
  Clauses,   \* clauses of the input: sets of bounds
  Grid       \* values the simplex may come up with

VARIABLES
  atoms, clauses,  \* known to the search, splits and learnt conflicts included
  asserted,        \* bounds the search has asserted
  cuts,            \* variable -> numbers a split was tried on
  model,           \* the last assignment of the simplex
  explanation, splitondemand,
  answer           \* "none", "decide" (of a check), "sat" (of the search)

vars == <<atoms, clauses, asserted, cuts, model, explanation, splitondemand, answer>>

IntVars == 1..NVars
Bound(v, lower, c, d) == [v |-> v, lower |-> lower, value |-> Delta(c, IntReal(d))]
(* not (c <= v) is v < c, not (v <= c) is c < v; and back. *)
Not(b) ==
  Bound(b.v, ~b.lower, b.value.r,
        IF b.value.d # Zero THEN 0 ELSE IF b.lower THEN -1 ELSE 1)
Literals == atoms \cup {Not(b) : b \in atoms}

ASSUME NVarsAssumption == NVars \in Nat
ASSUME AtomsAssumption ==
  \A b \in Atoms : /\ b.v \in IntVars /\ b.lower \in BOOLEAN /\ b.value.r \in Rationals
                   /\ b = [v |-> b.v, lower |-> b.lower, value |-> Delta(b.value.r, Zero)]
ASSUME GridAssumption == Grid \subseteq Values

BoundsOf(v, lower) == {b \in asserted : b.v = v /\ b.lower = lower}
LbLit(v) ==
  CHOOSE b \in BoundsOf(v, TRUE) : \A e \in BoundsOf(v, TRUE) : DLeq(e.value, b.value)
UbLit(v) ==
  CHOOSE b \in BoundsOf(v, FALSE) : \A e \in BoundsOf(v, FALSE) : DLeq(b.value, e.value)
Lb(v) == IF BoundsOf(v, TRUE) = {} THEN MinusInf ELSE LbLit(v).value
Ub(v) == IF BoundsOf(v, FALSE) = {} THEN PlusInf ELSE UbLit(v).value

Init ==
  /\ atoms = Atoms /\ clauses = Clauses /\ asserted = {}
  /\ cuts = [v \in IntVars |-> {}]
  /\ model = [v \in IntVars |-> Delta(Zero, Zero)]
  /\ explanation = {} /\ splitondemand = {} /\ answer = "none"

Falsified(c, S) == \A b \in c : Not(b) \in S

(* The search assigns a literal; a bound against one in force would be a   *)
(* conflict of its own, undone at once (module TheoryStack).               *)
Assert ==
  /\ answer # "sat" /\ explanation = {} /\ splitondemand = {}
  /\ \E b \in Literals :
       /\ b \notin asserted /\ Not(b) \notin asserted
       /\ IF b.lower THEN DLeq(b.value, Ub(b.v)) ELSE DLeq(Lb(b.v), b.value)
       /\ \A c \in clauses : ~Falsified(c, asserted \cup {b})
       /\ asserted' = asserted \cup {b}
  /\ answer' = "none"
  /\ UNCHANGED <<atoms, clauses, cuts, model, explanation, splitondemand>>

(* It backtracks when it likes; of a conflict it learns the clause. *)
Backtrack ==
  /\ answer # "sat" /\ splitondemand = {}
  /\ \E S \in SUBSET asserted :
       /\ S # asserted /\ (explanation # {} => ~(explanation \subseteq S))
       /\ asserted' = S
  /\ clauses' = clauses \cup {{Not(b) : b \in e} : e \in {explanation} \ {{}}}
  /\ explanation' = {} /\ answer' = "none"
  /\ UNCHANGED <<atoms, cuts, model, splitondemand>>

----------------------------------------------------------------------------
isModelInteger(m, v) == m[v].d = Zero /\ isInteger(m[v].r)

(* The largest integer below a value that is no integer. *)
SplitPointRounded(x) == floor(x.r)  \* mutant: n - delta is taken for n

SplitPoint(x) ==
  IF isInteger(x.r) /\ RLess(x.d, Zero) THEN floor(x.r) - 1 ELSE floor(x.r)

(* c < Lb and c + 1 > Ub: no integer is left between the bounds. *)
NoIntegerLeftSwapped(v, c) ==  \* mutant: the sides are exchanged
  /\ DLess(Delta(IntReal(c + 1), Zero), Lb(v))
  /\ DLess(Ub(v), Delta(IntReal(c), Zero))

NoIntegerLeftOr(v, c) ==  \* mutant: one side is enough
  \/ DLess(Delta(IntReal(c), Zero), Lb(v)) /\ BoundsOf(v, FALSE) # {}
  \/ DLess(Ub(v), Delta(IntReal(c + 1), Zero)) /\ BoundsOf(v, TRUE) # {}

NoIntegerLeft(v, c) ==
  /\ DLess(Delta(IntReal(c), Zero), Lb(v))
  /\ DLess(Ub(v), Delta(IntReal(c + 1), Zero))

Complete == \A b \in atoms : b \in asserted \/ Not(b) \in asserted

(* LIASolver::check with checkIntegersAndSplit: the first fractional       *)
(* variable whose split point was not tried yet decides.                   *)
Fractional(m) == {v \in IntVars : ~isModelInteger(m, v)}
Untried(m) == {v \in Fractional(m) : SplitPoint(m[v]) \notin cuts[v]}
First(S) == CHOOSE v \in S : \A u \in S : v <= u

Passed(m) ==
  /\ Untried(m) = {}
  /\ answer' = IF Complete THEN "sat" ELSE "decide"
  /\ UNCHANGED <<cuts, explanation, splitondemand>>

Refuted(v, c) ==
  /\ NoIntegerLeft(v, c)
  /\ explanation' = {LbLit(v), UbLit(v)}
  /\ UNCHANGED <<splitondemand, answer>>

SplitAsked(v, c) ==
  /\ ~NoIntegerLeft(v, c)
  /\ splitondemand' = {Bound(v, FALSE, IntReal(c), 0), Bound(v, TRUE, IntReal(c + 1), 0)}
  /\ UNCHANGED <<explanation, answer>>

RecordedNever(v, c) == cuts  \* mutant: a number tried is not recorded

Recorded(v, c) == [cuts EXCEPT ![v] = @ \cup {c}]

Blocked(m) ==
  /\ Untried(m) # {}
  /\ LET v == First(Untried(m))  c == SplitPoint(m[v]) IN
     /\ cuts' = Recorded(v, c)
     /\ Refuted(v, c) \/ SplitAsked(v, c)

Check ==
  /\ answer = "none" /\ explanation = {} /\ splitondemand = {}
  /\ \E m \in [IntVars -> Grid] :
       /\ \A v \in IntVars : DLeq(Lb(v), m[v]) /\ DLeq(m[v], Ub(v))
       /\ model' = m
       /\ Passed(m) \/ Blocked(m)
  /\ UNCHANGED <<atoms, clauses, asserted>>

(* getNewSplits, and handleSat adding the clause and its atoms. *)
TakeSplit ==
  /\ splitondemand # {}
  /\ atoms' = atoms \cup {b \in splitondemand : Not(b) \notin Literals}
  /\ clauses' = clauses \cup {splitondemand}
  /\ splitondemand' = {} /\ answer' = "none"
  /\ UNCHANGED <<asserted, cuts, model, explanation>>

Next == Assert \/ Backtrack \/ Check \/ TakeSplit

Spec == Init /\ [][Next]_vars

----------------------------------------------------------------------------
Holds(b, n) ==
  IF b.lower THEN DLeq(b.value, Delta(IntReal(n), Zero)) ELSE DLeq(Delta(IntReal(n), Zero), b.value)
NearbyIntegers == {floor(g.r) : g \in Grid} \cup {floor(g.r) + 1 : g \in Grid}

(* A conflict of the integer solver is over asserted bounds that no        *)
(* integer satisfies together.                                             *)
IntConflictSound ==
  explanation # {} =>
    /\ explanation \subseteq asserted
    /\ \A n \in NearbyIntegers : \E b \in explanation : ~Holds(b, n)

(* A split cuts off the value it was made for and no integer.              *)
SplitCutsOff ==
  splitondemand # {} =>
    /\ \A n \in NearbyIntegers : \E b \in splitondemand : Holds(b, n)
    /\ \A b \in splitondemand :
         IF b.lower THEN DLess(model[b.v], b.value) ELSE DLess(b.value, model[b.v])

(* handleSat's assertions: neither side of a split is true when it         *)
(* arrives, and one has no value.                                          *)
SplitOpen ==
  splitondemand # {} =>
    /\ splitondemand \cap asserted = {}
    /\ \E b \in splitondemand : Not(b) \notin asserted

(* The same split is never asked for again once its clause is there.       *)
SplitNew == splitondemand \notin clauses

(* A number is passed over only because "we might have this blocked        *)
(* already": some clause of the search then excludes the value.            *)
TriedIsBlocked ==
  answer = "sat" => \A v \in IntVars : isModelInteger(model, v)
=============================================================================
