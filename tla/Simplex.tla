------------------------------ MODULE Simplex ------------------------------
(***************************************************************************)
(* The simplex of the arithmetic solver: Simplex and Tableau over the      *)
(* values and bounds of LRAModel, driven by LASolver.  Rows of variables   *)
(* without bounds are set aside as quasi-basic: pivots skip them, and they *)
(* are brought up to date when a bound (or a question for a value) returns.*)
(*                                                                         *)
(* Every literal has a backtrack point of its own; a literal is a bound    *)
(* (LASolver::assertLit passes over those it deduced itself).              *)
(* The search backtracks to literals the last successful check accepted,   *)
(* undone and asserted again since or not (litRedundant does both): the    *)
(* others belong to the level it gives up.                                 *)
(***************************************************************************)
EXTENDS Integers, Sequences, FiniteSets, Deltas

CONSTANTS
  N,        \* number of variables, the LVRefs
  Cols,     \* those that are no sums
  Defs,     \* sum -> its coefficients
  Literals, \* bounds, records [atom, v, lower, value]
  NumOfCols, \* turns before Bland's rule (the code's: the number of variables)
  MaxPoints

Vars == 1..N
Polys == [Vars -> Rationals]
ASSUME VarsAssumption == N \in Nat /\ Cols \subseteq Vars
ASSUME DefsAssumption ==
  \A v \in Vars \ Cols : Defs[v] \in Polys /\ \A u \in Vars \ Cols : Defs[v][u] = Zero
ASSUME NumOfColsAssumption == NumOfCols \in Nat
ASSUME LiteralsAssumption ==
  \A l \in Literals : /\ l.v \in Vars /\ l.lower \in BOOLEAN
                     /\ l.value \in Values
(* A strict bound lies an infinitesimal inside (LABoundStore::allocBoundPair). *)
ASSUME StrictAssumption ==
  \A l \in Literals : l.value.d \in {Zero, IF l.lower THEN One ELSE RNeg(One)}

VARIABLES
  kind,        \* varTypes
  row,         \* polynomials of the basic and quasi-basic variables
  col,         \* rows a nonbasic variable occurs in
  val,         \* current_assignment
  backup,      \* last_consistent_assignment
  changed,     \* changed_vars_set
  active,      \* boundsActivated
  candidates,
  points,      \* the backtrack points, oldest first: [lit, pushed, counted]
  checked,     \* points known to be within bounds, from a check or a backtrack
  accepted,    \* history: the literals the last successful check covered
  pc, repeats, expl

tableau == <<kind, row, col>>
vars == <<kind, row, col, val, backup, changed, active, candidates, points, checked,
          accepted, pc, repeats, expl>>

NoPoly == [u \in Vars |-> Zero]
Unit(v) == [NoPoly EXCEPT ![v] = One]
Terms(p) == {u \in Vars : p[u] # Zero}
Basic == {v \in Vars : kind[v] = "basic"}
Quasi == {v \in Vars : kind[v] = "quasi"}
NonBasic == {v \in Vars : kind[v] = "nonbasic"}

Scaled(c, p) == [u \in Vars |-> RMul(c, p[u])]
Plus(p, q) == [u \in Vars |-> RAdd(p[u], q[u])]

(* The value of a polynomial, and what becomes of it when every variable   *)
(* is replaced by a polynomial.                                            *)
Dot(p, g) == RSum([u \in Vars |-> RMul(p[u], g[u])], Terms(p))
Eval(p, f) == Delta(Dot(p, [u \in Vars |-> f[u].r]), Dot(p, [u \in Vars |-> f[u].d]))
Combined(p, F) == [w \in Vars |-> Dot(p, [u \in Vars |-> F[u][w]])]

(* The bounds in force. *)
InForce(v, lower) ==
  {k \in DOMAIN points : points[k].pushed /\ points[k].lit.v = v
                         /\ points[k].lit.lower = lower}
Newest(S) == CHOOSE k \in S : \A j \in S : j <= k
LbLit(v) == points[Newest(InForce(v, TRUE))].lit
UbLit(v) == points[Newest(InForce(v, FALSE))].lit
Lb(v) == IF InForce(v, TRUE) = {} THEN MinusInf ELSE LbLit(v).value
Ub(v) == IF InForce(v, FALSE) = {} THEN PlusInf ELSE UbLit(v).value
OutOfBounds(f, v) == DLess(f[v], Lb(v)) \/ DLess(Ub(v), f[v])

Init ==
  /\ kind = [v \in Vars |-> IF v \in Cols THEN "nonbasic" ELSE "quasi"]
  /\ row = [v \in Vars |-> IF v \in Cols THEN NoPoly ELSE Defs[v]]
  /\ col = [v \in Vars |-> {}]
  /\ val = [v \in Vars |-> Delta(Zero, Zero)]
  /\ backup = val
  /\ changed = {} /\ candidates = {}
  /\ active = [v \in Vars |-> 0]
  /\ points = <<>> /\ checked = 0 /\ accepted = {}
  /\ pc = "idle" /\ repeats = 0 /\ expl = {}

----------------------------------------------------------------------------
(* Tableau::normalizeRow: the row in terms of nonbasic variables; quasi-   *)
(* basic rows met on the way are normalized too.                           *)
Unfolded(v) ==
  LET unfold[x \in Vars] ==
        Combined(row[x], [u \in Vars |-> IF kind[u] = "nonbasic" THEN Unit(u)
                                           ELSE IF kind[u] = "basic" THEN row[u] ELSE unfold[u]])
  IN unfold[v]

QuasiBelow(v) ==
  LET below[x \in Vars] == {x} \cup UNION {below[u] : u \in Terms(row[x]) \cap Quasi}
  IN below[v]

NormalizedRow(v) == Unfolded(v)

(* The row returns to the tableau and its values are computed again.       *)
BackupOfKept(p, v) == backup[v]  \* mutant: only the current value is

BackupOf(p, v) == Eval(p, backup)

quasiToBasic(v) ==
  LET p == NormalizedRow(v) IN
  /\ row' = [u \in Vars |-> IF u \in QuasiBelow(v) THEN NormalizedRow(u) ELSE row[u]]
  /\ col' = [u \in Vars |-> IF u \in Terms(p) THEN col[u] \cup {v} ELSE col[u]]
  /\ kind' = [kind EXCEPT ![v] = "basic"]
  /\ val' = [val EXCEPT ![v] = Eval(p, val)]
  /\ backup' = [backup EXCEPT ![v] = BackupOf(p, v)]

(* A nonbasic variable moves, and with it the basic ones of its column.    *)
Affected(v) == col[v] \cap Basic
Moved(v, diff) ==
  [u \in Vars |-> IF u = v THEN DAdd(val[u], diff)
                  ELSE IF u \in Affected(v) THEN DAdd(val[u], DMul(row[u][v], diff))
                  ELSE val[u]]
Recandidates(v, diff) ==
  (candidates \ Affected(v)) \cup {r \in Affected(v) : OutOfBounds(Moved(v, diff), r)}

----------------------------------------------------------------------------
(* Simplex::assertBoundOnVar, between LASolver's pushBacktrackPoint and    *)
(* pushDecision.                                                           *)
Violates(f, l) == IF l.lower THEN DLess(f[l.v], l.value) ELSE DLess(l.value, f[l.v])
boundUnsatisfied(l) ==
  IF l.lower THEN DLess(Ub(l.v), l.value) ELSE DLess(l.value, Lb(l.v))
boundSatisfied(l) ==
  IF l.lower THEN DLeq(l.value, Lb(l.v)) ELSE DLeq(Ub(l.v), l.value)
Point(l, pushed, counted) == [lit |-> l, pushed |-> pushed, counted |-> counted]

AssertRefused(l) ==
  /\ boundUnsatisfied(l)
  /\ points' = Append(points, Point(l, FALSE, FALSE))
  /\ expl' = {<<IF l.lower THEN UbLit(l.v) ELSE LbLit(l.v), One>>, <<l, One>>}
  /\ UNCHANGED <<tableau, val, backup, changed, active, candidates>>

AssertNonBasic(l) ==
  /\ kind[l.v] = "nonbasic"
  /\ IF ~boundSatisfied(l) /\ Violates(val, l)
     THEN LET diff == DSub(l.value, val[l.v]) IN
          /\ val' = Moved(l.v, diff)
          /\ candidates' = Recandidates(l.v, diff)
          /\ changed' = changed \cup {l.v} \cup Affected(l.v)
     ELSE UNCHANGED <<val, candidates, changed>>
  /\ UNCHANGED <<tableau, backup>>

AssertBasic(l) ==
  /\ kind[l.v] # "nonbasic"
  /\ IF kind[l.v] = "quasi"
     THEN quasiToBasic(l.v) /\ changed' = changed \cup {l.v}
     ELSE UNCHANGED <<tableau, val, backup, changed>>
  /\ candidates' =
       IF boundSatisfied(l) THEN candidates
       ELSE IF OutOfBounds(val', l.v) \/ Violates(val', l)
       THEN candidates \cup {l.v} ELSE candidates \ {l.v}

AssertTaken(l) ==
  /\ ~boundUnsatisfied(l)
  /\ points' = Append(points, Point(l, ~boundSatisfied(l), TRUE))
  /\ active' = [active EXCEPT ![l.v] = @ + 1]
  /\ AssertNonBasic(l) \/ AssertBasic(l)
  /\ expl' = {}

AssertBound ==
  /\ pc = "idle" /\ expl = {} /\ Len(points) < MaxPoints
  /\ \E l \in Literals :
       /\ \A k \in DOMAIN points : points[k].lit.atom # l.atom
       /\ AssertRefused(l) \/ AssertTaken(l)
  /\ UNCHANGED <<checked, accepted, pc, repeats>>

----------------------------------------------------------------------------
(* Simplex::checkSimplex, one turn of its loop at a time.                  *)
Check ==
  /\ pc = "idle" /\ expl = {}
  /\ pc' = "check" /\ repeats' = 0
  /\ UNCHANGED <<tableau, val, backup, changed, active, candidates, points, checked,
                 accepted, expl>>

NoVar == 0
Least(S) == CHOOSE v \in S : \A u \in S : v <= u
PickLeast(S) == IF S = {} THEN NoVar ELSE Least(S)
LeastBy(f, S) == PickLeast({v \in S : \A u \in S : f[v] <= f[u]})

getBasicVarToFixByShortestPoly ==
  LeastBy([v \in Vars |-> Cardinality(Terms(row[v]))], candidates)
getBasicVarToFixByBland == PickLeast(candidates)

(* The nonbasic variables of the row of x that can still move to its help. *)
TooLow(x) == DLess(val[x], Lb(x))
HelpsAlways(x, u) == TRUE  \* mutant: terms at their bound are moved too

Helps(x, u) ==
  IF RLess(Zero, row[x][u]) = TooLow(x)
  THEN DLess(val[u], Ub(u)) ELSE DLess(Lb(u), val[u])
Helpers(x) == {u \in Terms(row[x]) : Helps(x, u)}
findNonBasicForPivotByHeuristic(x) ==
  LeastBy([u \in Vars |-> Cardinality(col[u])], Helpers(x))
findNonBasicForPivotByBland(x) == PickLeast(Helpers(x))

(* Farkas coefficients: the bound x violates and those that hold its row.  *)
WeightOne(c) == One  \* mutant

Weight(c) == IF RLess(c, Zero) THEN RNeg(c) ELSE c
getConflictingBounds(x) ==
  {<<IF TooLow(x) THEN LbLit(x) ELSE UbLit(x), One>>} \cup
  {<<IF RLess(row[x][u], Zero) = TooLow(x) THEN LbLit(u) ELSE UbLit(u),
     Weight(row[x][u])>> : u \in Terms(row[x])}

(* Tableau::pivot: x leaves the basis, y enters it.                        *)
PivotRow(x, y) ==
  LET rest == Scaled(RNeg(RDiv(One, row[x][y])), [row[x] EXCEPT ![y] = Zero])
  IN [rest EXCEPT ![x] = RDiv(One, row[x][y])]
RewrittenKept(r, x, y) == [row[r] EXCEPT ![y] = Zero]  \* mutant: y is not substituted

Rewritten(r, x, y) ==
  Plus([row[r] EXCEPT ![y] = Zero], Scaled(row[r][y], PivotRow(x, y)))

(* pivot, updateValues, and what becomes of x and y as candidates. *)
TakenIn(y, f) == IF active[y] > 0 /\ OutOfBounds(f, y) THEN {y} ELSE {}
SetAside(y) == active[y] = 0

Pivot(x, y) ==
  LET bound == IF TooLow(x) THEN Lb(x) ELSE Ub(x)
      diff == DDiv(DSub(bound, val[x]), row[x][y])
      others == Affected(y) \ {x}
      newRow == [v \in Vars |->
        CASE v = x -> NoPoly
          [] v = y -> PivotRow(x, y)
          [] v \in others -> Rewritten(v, x, y)
          [] OTHER -> row[v]]
      rows == IF SetAside(y) THEN others ELSE others \cup {y}
  IN /\ val' = Moved(y, diff)
     /\ changed' = changed \cup {y} \cup Affected(y)
     /\ row' = newRow
     /\ kind' = [kind EXCEPT ![x] = "nonbasic",
                             ![y] = IF SetAside(y) THEN "quasi" ELSE "basic"]
     /\ col' = [u \in Vars |->
          IF u = y THEN {}
          ELSE (col[u] \ ({x} \cup others)) \cup {r \in rows : u \in Terms(newRow[r])}]
     /\ candidates' = (Recandidates(y, diff) \ {x}) \cup TakenIn(y, val')

SavedNever == backup  \* mutant: the accepted values are not saved

Saved == [v \in Vars |-> IF v \in changed THEN val[v] ELSE backup[v]]

Step ==
  /\ pc = "check"
  /\ LET bland == repeats + 1 > NumOfCols
         x == IF bland THEN getBasicVarToFixByBland ELSE getBasicVarToFixByShortestPoly
         y == IF bland THEN findNonBasicForPivotByBland(x)
                       ELSE findNonBasicForPivotByHeuristic(x)
     IN \/ /\ x = NoVar
           /\ backup' = Saved
           /\ changed' = {} /\ checked' = Len(points)
           /\ accepted' = {points[k].lit : k \in DOMAIN points}
           /\ pc' = "idle" /\ repeats' = 0
           /\ UNCHANGED <<tableau, val, candidates, expl>>
        \/ /\ x # NoVar /\ y = NoVar
           /\ expl' = getConflictingBounds(x)
           /\ pc' = "idle" /\ repeats' = 0
           /\ UNCHANGED <<tableau, val, backup, changed, candidates, checked, accepted>>
        \/ /\ x # NoVar /\ y # NoVar
           /\ Pivot(x, y)
           /\ repeats' = repeats + 1
           /\ UNCHANGED <<backup, checked, accepted, pc, expl>>
  /\ UNCHANGED <<active, points>>

----------------------------------------------------------------------------
(* LASolver::popBacktrackPoints: bounds and counts go point by point, rows *)
(* left without a bound are set aside, values return to the last check.    *)
Deactivated(act, v) == act[v] = 0 /\ kind[v] = "basic"

Restored == [v \in Vars |-> IF v \in changed THEN backup[v] ELSE val[v]]

Backtrack ==
  /\ pc = "idle"
  /\ \E n \in 0..Len(points) :
       LET gone == {k \in n + 1..Len(points) : points[k].counted}
           act == [v \in Vars |-> active[v] - Cardinality({k \in gone : points[k].lit.v = v})]
           aside == {v \in {points[k].lit.v : k \in gone} : Deactivated(act, v)}
       IN /\ n < Len(points)
          /\ \A k \in 1..n : points[k].lit \in accepted
          /\ points' = SubSeq(points, 1, n)
          /\ active' = act
          /\ kind' = [v \in Vars |-> IF v \in aside THEN "quasi" ELSE kind[v]]
          /\ col' = [v \in Vars |-> col[v] \ aside]
          /\ checked' = n
  /\ val' = Restored
  /\ changed' = {} /\ candidates' = {} /\ expl' = {}
  /\ UNCHANGED <<row, backup, accepted, pc, repeats>>

(* A value is asked for after a check (getValuation, getPolaritySuggestion);*)
(* a row without bounds returns to the tableau for it.                     *)
Ask ==
  /\ pc = "idle" /\ expl = {} /\ checked = Len(points)
  /\ \E v \in Quasi : quasiToBasic(v) /\ changed' = changed \cup {v}
  /\ UNCHANGED <<active, candidates, points, checked, accepted, pc, repeats, expl>>

Next == AssertBound \/ Check \/ Step \/ Backtrack \/ Ask

Spec == Init /\ [][Next]_vars

----------------------------------------------------------------------------
(* What a variable stands for, in terms of the columns of the input.       *)
Form(v) == IF v \in Cols THEN Unit(v) ELSE Defs[v]

TableauConsistent ==
  /\ \A v \in Basic : Terms(row[v]) \subseteq NonBasic
  /\ \A u \in NonBasic : row[u] = NoPoly /\ col[u] = {r \in Basic : u \in Terms(row[r])}
  /\ \A v \in Vars \ NonBasic : col[v] = {}
  /\ \A v \in Vars : active[v] > 0 => v \notin Quasi

(* After any number of pivots, rows set aside and taken back, rows are     *)
(* written over nonbasic variables, columns list the rows, and every row   *)
(* still says what its variable was defined to be (checkConsistency).      *)
RowsEquivalent ==
  /\ TableauConsistent
  /\ \A v \in Vars \ NonBasic :
       Form(v) = Combined(row[v], [u \in Vars |-> Form(u)])

(* The values of a row agree with those of its terms, the current ones and *)
(* those a backtrack returns to (checkValueConsistency).                   *)
ValuesConsistent ==
  \A v \in Basic : val[v] = Eval(row[v], val) /\ backup[v] = Eval(row[v], backup)

(* Whatever was asserted, undone and pivoted, a variable out of bounds is  *)
(* basic and a candidate (invariantHolds): the check would otherwise       *)
(* answer sat too early, or look for a bound that is not violated.         *)
NonBasicWithinBounds ==
  /\ \A v \in NonBasic : ~OutOfBounds(val, v)
  /\ expl = {} => candidates = {v \in Basic : OutOfBounds(val, v)}

(* The bounds of a conflict are in force (the refused one aside), and      *)
(* their sum with the coefficients given is a contradiction.               *)
FarkasConflict ==
  LET part(lower) == {e \in expl : e[1].lower = lower}
      form(S) == [w \in Vars |-> RSum([e \in S |-> RMul(e[2], Form(e[1].v)[w])], S)]
      bound(S) == DSum([e \in S |-> DMul(e[2], e[1].value)], S)
  IN expl # {} =>
       /\ \A e \in expl : \E k \in DOMAIN points : points[k].lit = e[1]
       /\ form(part(TRUE)) = form(part(FALSE))
       /\ DLess(bound(part(FALSE)), bound(part(TRUE)))

(* Simplex::computeDelta and LASolver::computeConcreteModel. *)
DeltasForLower(v) ==  \* mutant: upper bounds are forgotten
  {RDiv(RSub(val[v].r, b.r), RSub(b.d, val[v].d)) :
      b \in {b \in {Lb(v)} : ~isInf(b) /\ RLess(b.r, val[v].r) /\ RLess(val[v].d, b.d)}}

DeltasFor(v) ==
  {RDiv(RSub(val[v].r, b.r), RSub(b.d, val[v].d)) :
      b \in {b \in {Lb(v)} : ~isInf(b) /\ RLess(b.r, val[v].r) /\ RLess(val[v].d, b.d)}}
  \cup
  {RDiv(RSub(b.r, val[v].r), RSub(val[v].d, b.d)) :
      b \in {b \in {Ub(v)} : ~isInf(b) /\ RLess(val[v].r, b.r) /\ RLess(b.d, val[v].d)}}
computeDelta ==
  LET ds == UNION {DeltasFor(v) : v \in {u \in Vars : val[u].d # Zero}}
      d == CHOOSE d \in ds : \A e \in ds : ~RLess(e, d)
  IN IF ds = {} \/ RLess(One, d) THEN One ELSE RDiv(d, IntReal(2))
getValuation(v) == IF v \in Quasi THEN Eval(Unfolded(v), val) ELSE val[v]
concrete_model(v) == RAdd(getValuation(v).r, RMul(getValuation(v).d, computeDelta))

(* When a check has accepted all bounds, the rational model read off with  *)
(* the computed delta satisfies every literal, strict ones strictly, and   *)
(* the definitions of the sums.                                            *)
ConcreteModel ==
  pc = "idle" /\ expl = {} /\ checked = Len(points) =>
    /\ \A k \in DOMAIN points :
         LET l == points[k].lit  b == l.value  x == concrete_model(l.v) IN
         IF l.lower THEN RLess(b.r, x) \/ (x = b.r /\ b.d = Zero)
                    ELSE RLess(x, b.r) \/ (x = b.r /\ b.d = Zero)
    /\ \A v \in Vars \ Cols :
         concrete_model(v) = RSum([u \in Cols |-> RMul(Defs[v][u], concrete_model(u))], Cols)

(* A check ends.  Under Bland's rule a nonbasic variable lies where the    *)
(* turns by heuristic left it, or at the bound it violated when it left    *)
(* the basis; a basis may come back, but never with all of these alike.    *)
(* As many variables are nonbasic at any time as there are columns.        *)
Configurations ==
  {c \in [Vars -> {"basis", "start", "lower", "upper"}] :
     Cardinality({v \in Vars : c[v] # "basis"}) = Cardinality(Cols)}
TurnsBounded == repeats <= NumOfCols + Cardinality(Configurations)
=============================================================================
