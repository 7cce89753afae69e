-------------------------- MODULE SimplexInvariant --------------------------
(***************************************************************************)
(* The inductive invariant of the simplex: what keeps rows, columns,       *)
(* values, bounds and candidates right through pivots, rows set aside and  *)
(* taken back, and backtracking.                                           *)
(***************************************************************************)
EXTENDS Simplex

Points == [lit : Literals, pushed : BOOLEAN, counted : BOOLEAN]

TypeInv ==
  /\ kind \in [Vars -> {"basic", "nonbasic", "quasi"}]
  /\ row \in [Vars -> Polys]
  /\ col \in [Vars -> SUBSET Vars]
  /\ val \in [Vars -> Values] /\ backup \in [Vars -> Values]
  /\ changed \in SUBSET Vars /\ candidates \in SUBSET Vars
  /\ active \in [Vars -> Nat]
  /\ points \in Seq(Points) /\ checked \in 0..Len(points)
  /\ pc \in {"idle", "check"}

(* Rows set aside name rows set aside later only: normalizing them ends. *)
Graded(m, grade) ==
  /\ m \in Nat /\ grade \in [Vars -> 0..m]
  /\ \A v \in Quasi : \A u \in Terms(row[v]) \cap Quasi : grade[u] < grade[v]

AsideInv == \E m \in Nat : \E grade \in [Vars -> 0..m] : Graded(m, grade)

(* A row as an equation: the numbers that satisfy all rows are the numbers *)
(* that satisfy the definitions of the sums.                               *)
SatisfiesRows(g) == \A v \in Vars \ NonBasic : g[v] = Dot(row[v], g)
SatisfiesDefs(g) == \A v \in Vars \ Cols : g[v] = Dot(Defs[v], g)

RowsInv == \A g \in [Vars -> Rationals] : SatisfiesRows(g) <=> SatisfiesDefs(g)

(* The bounds of a variable: each one pushed is stronger than those before *)
(* it and compatible with those of the other side, one not pushed is       *)
(* implied, and the count is that of the points.                           *)
Stronger(k, l) ==  \* k than l
  IF k.lower THEN DLess(l.value, k.value) ELSE DLess(k.value, l.value)
SameSide(k, l) == k.v = l.v /\ k.lower = l.lower
Opposite(k, l) == k.v = l.v /\ k.lower /\ ~ l.lower

CountedAt(v) == {k \in DOMAIN points : points[k].counted /\ points[k].lit.v = v}

BoundsInv ==
  /\ \A k \in DOMAIN points : points[k].pushed => points[k].counted
  /\ \A k \in 1..checked : points[k].counted
  /\ expl = {} => \A k \in DOMAIN points : points[k].counted
  /\ \A v \in Vars : active[v] = Cardinality(CountedAt(v))
  /\ \A j, k \in DOMAIN points :
       /\ points[j].pushed /\ points[k].pushed /\ j < k /\ SameSide(points[j].lit, points[k].lit)
            => Stronger(points[k].lit, points[j].lit)
       /\ points[j].pushed /\ points[k].pushed /\ Opposite(points[j].lit, points[k].lit)
            => DLeq(points[j].lit.value, points[k].lit.value)
  /\ \A k \in DOMAIN points :
       points[k].counted =>
         \E j \in 1..k : /\ points[j].pushed /\ SameSide(points[j].lit, points[k].lit)
                         /\ ~ Stronger(points[k].lit, points[j].lit)

(* The values a backtrack returns to satisfy what a check has accepted. *)
SavedInv ==
  /\ \A v \in Vars \ changed : val[v] = backup[v]
  /\ \A k \in 1..checked : ~ Violates(backup, points[k].lit)

PcInv ==
  /\ pc = "check" => expl = {}
  /\ pc = "idle" /\ expl = {} /\ checked = Len(points) => candidates = {}

SInv ==
  /\ TypeInv
  /\ TableauConsistent /\ AsideInv /\ RowsInv
  /\ BoundsInv /\ SavedInv /\ PcInv
  /\ ValuesConsistent /\ NonBasicWithinBounds

(* The values of the last accepted check, rows set aside included: the     *)
(* saved ones, whatever the basis, satisfy what that check accepted.       *)
RParts(f) == [u \in Vars |-> f[u].r]
DParts(f) == [u \in Vars |-> f[u].d]

Covers(f) ==
  /\ SatisfiesDefs(RParts(f)) /\ SatisfiesDefs(DParts(f))
  /\ \A v \in NonBasic : f[v] = backup[v]
  /\ \A l \in accepted : ~ Violates(f, l)

AcceptedInv ==
  /\ accepted \subseteq Literals
  /\ \A k \in 1..(Len(points) - 1) : points[k].counted  \* a bound refused is the last
  /\ \E f \in [Vars -> Values] : Covers(f)
=============================================================================
