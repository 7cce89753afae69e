------------------------------- MODULE Egraph -------------------------------
(***************************************************************************)
(* The congruence closure of tsolvers/egraph.  A term is a cons cell of    *)
(* its symbol and the list of its arguments, a list one of an argument and *)
(* the rest; cells of one shape are one node.  assertLit turns a literal   *)
(* into equalities and disequalities, an equality is merged pair by pair   *)
(* from pending, and every merge, disequality and polarity is undone from  *)
(* undo_stack_main.  Explanations come from a forest of the merges.        *)
(*                                                                         *)
(* Abstracted: the cycle through the members of a class (a merge's entry   *)
(* on the undo stack holds the class that joined), the delivery of         *)
(* deductions (module TheoryStack), and the shortcuts of one explanation,  *)
(* which only avoid walking an edge twice.  All terms are declared before  *)
(* the search, and predicates take terms, not formulas.                    *)
(***************************************************************************)
EXTENDS Integers, Sequences, FiniteSets, SequencesExt

CONSTANTS
  Declared,             \* the sequence of terms, the smaller ones first
  UPs,                  \* the predicate atoms among them
  Literals              \* the literals the search may assert

\* A node is a symbol and its arguments, the symbol of lists being "list".
Node(f, args) == [sym |-> f, args |-> args]
List(args) == Node("list", args)
ERef_Nil == List(<<>>)
ERef_Undef == Node("undef", <<>>)
ERef_True == Node("true", <<>>)
Not(t) == Node("not", <<t>>)
ERef_False == Not(ERef_True)

isList(n) == n.sym = "list"
Car(n) == IF isList(n) THEN Head(n.args) ELSE ERef_Nil   \* of a list
Cdr(n) == List(IF isList(n) THEN Tail(n.args) ELSE n.args)

EqAtoms == {t \in ToSet(Declared) : t.sym = "="}
DistAtoms == {t \in ToSet(Declared) : t.sym = "distinct"}
Atoms == EqAtoms \cup UPs \cup DistAtoms

\* A term and its lists from the longest on, and the same for the negation of an atom.
WithLists(t) == <<t>> \o [i \in DOMAIN t.args |-> List(SubSeq(t.args, i, Len(t.args)))]
constructTerm(t) ==
  WithLists(t) \o (IF t \in EqAtoms \cup UPs \cup {ERef_True} THEN WithLists(Not(t)) ELSE <<>>)
Enodes ==  \* as they are asked for; cells of lists more than once
  LET made[i \in 0..Len(Declared)] ==
        IF i = 0 THEN constructTerm(ERef_True) ELSE made[i - 1] \o constructTerm(Declared[i])
  IN made[Len(Declared)]
Nodes == ToSet(Enodes)
Terms == {n \in Nodes : ~ isList(n)}

(* Terms are made of terms declared before them, an equality has two       *)
(* sides, and a distinction is asserted true only.                         *)
Reserved == {"list", "undef", "true", "not"}
ASSUME DeclaredAssumption ==
  /\ Declared \in Seq(ToSet(Declared))
  /\ \A i \in DOMAIN Declared :
       /\ Declared[i] = Node(Declared[i].sym, Declared[i].args)
       /\ Declared[i].sym \notin Reserved
       /\ Declared[i].args \in Seq({Declared[j] : j \in 1..i - 1})
  /\ \A t \in EqAtoms : Len(t.args) = 2
ASSUME UPsAssumption == UPs \subseteq ToSet(Declared) \ (EqAtoms \cup DistAtoms)
ASSUME LiteralsAssumption == Literals \subseteq [atom : Atoms, sgn : {"true", "false"}]
ASSUME DistinctionsAssumption == \A l \in Literals : l.atom \in DistAtoms => l.sgn = "true"

Undef == "undef"
l_True == "true"
l_False == "false"
Sides == {"car", "cdr"}

VARIABLES
  root, dist, forbid, cells,      \* of classes; forbid is 0 or a cell
  parents, index, sig_tab,        \* use vectors, positions in them, signatures
  expParent, expReason, exp_undo_stack,
  undo_stack_main, backtrack_points,
  polarity, deduced, th_deductions, deductions_lim,
  todo, pending, congruence_pending, explanation, pc

classVars == <<root, dist, forbid, cells, parents, index, sig_tab>>
expVars == <<expParent, expReason, exp_undo_stack>>
dedVars == <<deduced, th_deductions>>
pointVars == <<backtrack_points, deductions_lim>>
vars == <<classVars, expVars, undo_stack_main, polarity, dedVars, pointVars,
          todo, pending, congruence_pending, explanation, pc>>

NoLit == [atom |-> ERef_Undef, sgn |-> Undef]
Lit(a, s) == [atom |-> a, sgn |-> s]
Asserted == {Lit(a, polarity[a]) : a \in {b \in Atoms : polarity[b] # Undef}}

\* Symbols and the empty list have no class and no parents.
Child(side, n) == IF side = "car" THEN Car(n) ELSE Cdr(n)
Has(side, n) == Child(side, n) # ERef_Nil
RootIn(r, n) == IF n = ERef_Nil THEN n ELSE r[n]
Sig(r, n) == [sym |-> n.sym, car |-> RootIn(r, Car(n)), cdr |-> RootIn(r, Cdr(n))]
Class(n) == {m \in Nodes : root[m] = root[n]}
isConstant(n) == n \in {ERef_True, ERef_False}

----------------------------------------------------------------------------
(* Use vectors: entries with a tag, and the free slots, last freed first.  *)
Entered(tab, k, v) == [j \in DOMAIN tab \cup {k} |-> IF j = k THEN v ELSE tab[j]]
Other(side) == IF side = "car" THEN "cdr" ELSE "car"
Empty == [data |-> <<>>, free |-> <<>>]
Size(uv) == Len(uv.data) - Len(uv.free)

\* g is a record of root, parents, index, sig_tab and pending.
addParent(g, side, n) ==
  LET c == g.root[Child(side, n)]
      uv == g.parents[c]
      i == IF uv.free = <<>> THEN Len(uv.data) + 1 ELSE Head(uv.free)
      entry == [tag |-> "Valid", e |-> n]
  IN IF ~ Has(side, n) THEN g
     ELSE [g EXCEPT
            !.parents[c] = IF uv.free = <<>> THEN [uv EXCEPT !.data = Append(@, entry)]
                           ELSE [data |-> [uv.data EXCEPT ![i] = entry], free |-> Tail(uv.free)],
            !.index[side][n] = i]

clearEntryAt(g, side, n) ==
  LET c == g.root[Child(side, n)]
      i == g.index[side][n]
  IN IF ~ Has(side, n) THEN g
     ELSE [g EXCEPT !.parents[c].data[i].tag = "Free",
                    !.parents[c].free = <<i>> \o @]

\* The parents of y after its class has joined another.  The signature of a parent
\* either is new or makes it congruent with a node that has it already.
ParentAfterMerge(g, y, side, i) ==
  LET entry == g.parents[y].data[i]
      n == entry.e
      s == Sig(g.root, n)
      marked == clearEntryAt([g EXCEPT !.parents[y].data[i].tag = "Marked"], Other(side), n)
  IN CASE entry.tag # "Valid" -> g
       [] entry.tag = "Valid" /\ s \in DOMAIN g.sig_tab ->
            [marked EXCEPT !.pending = @ \o <<n, g.sig_tab[s]>>, !.index[Other(side)][n] = 0]
       [] OTHER ->
            addParent([g EXCEPT !.sig_tab = Entered(@, s, n)], side, n)

\* Mutant: the signatures the merge made stay in the table.
SignaturesKept(g, y, side, i) ==
  LET entry == g.parents[y].data[i]
  IN CASE entry.tag = "Valid" -> [clearEntryAt(g, side, entry.e) EXCEPT !.index[side][entry.e] = i]
       [] entry.tag = "Marked" ->
            addParent([g EXCEPT !.parents[y].data[i].tag = "Valid"], Other(side), entry.e)
       [] OTHER -> g
ParentBeforeUnMerge(g, y, side, i) ==
  LET entry == g.parents[y].data[i]
      n == entry.e
      s == Sig(g.root, n)
      out == clearEntryAt([g EXCEPT !.sig_tab = Restrict(@, DOMAIN @ \ {s})], side, n)
  IN CASE entry.tag = "Valid" -> [out EXCEPT !.index[side][n] = i]
       [] entry.tag = "Marked" ->
            addParent([g EXCEPT !.parents[y].data[i].tag = "Valid"], Other(side), n)
       [] OTHER -> g

UseSide(y) == IF isList(y) THEN "cdr" ELSE "car"

processParentsAfterMerge(g, y) ==
  LET n == Len(g.parents[y].data)
      done[i \in 0..n] == IF i = 0 THEN g ELSE ParentAfterMerge(done[i - 1], y, UseSide(y), i)
  IN done[n]

processParentsBeforeUnMerge(g, y) ==
  LET n == Len(g.parents[y].data)
      done[i \in 0..n] == IF i = 0 THEN g ELSE ParentBeforeUnMerge(done[i - 1], y, UseSide(y), i)
  IN done[n]

----------------------------------------------------------------------------
(* Forbid lists: circular lists of cells, shared or spliced by merges.     *)
Linked(F, c, d) ==  \* the links of c and d exchanged
  [F EXCEPT ![c].link = F[d].link, ![d].link = F[c].link]

Following(c) ==  \* once around
  LET walk[i \in 1..Cardinality(DOMAIN cells)] == IF i = 1 THEN c ELSE cells[walk[i - 1]].link
      back == {i \in DOMAIN walk : cells[walk[i]].link = c}
  IN SubSeq(walk, 1, CHOOSE i \in back : \A j \in back : i <= j)
ForbidList(n) == IF forbid[n] = 0 THEN <<>> ELSE Following(forbid[n])

FreshCell(F) == CHOOSE c \in 1..Cardinality(DOMAIN F) + 1 : c \notin DOMAIN F
\* s.forbid and s.cells with the cell (e, r) behind the first of n's list.
Inserted(s, n, e, r) ==
  LET c == FreshCell(s.cells)
      first == s.forbid[n]
      link == IF first = 0 THEN c ELSE s.cells[first].link
      grown == Entered(s.cells, c, [e |-> e, reason |-> r, link |-> link])
  IN IF first = 0 THEN [forbid |-> [s.forbid EXCEPT ![n] = c], cells |-> grown]
     ELSE [forbid |-> s.forbid, cells |-> [grown EXCEPT ![first].link = c]]

\* Both lists are cut, one cell each: the one behind the first, or the only one.
Removed(s, n) ==
  LET first == s.forbid[n]
      c == s.cells[first].link
      rest == Restrict(s.cells, DOMAIN s.cells \ {c})
  IN IF s.cells[c].link = c
     THEN [forbid |-> [s.forbid EXCEPT ![n] = 0], cells |-> rest]
     ELSE [forbid |-> s.forbid, cells |-> [rest EXCEPT ![first].link = s.cells[c].link]]

Undo(op, arg, class) == [op |-> op, arg |-> arg, class |-> class]
ForbidState == [forbid |-> forbid, cells |-> cells]
assertNEq(s, p, q, r) == Inserted(Inserted(s, q, p, r), p, q, r)
undoDisequality(q) ==
  LET y == cells[cells[forbid[q]].link].e
  IN Removed(Removed(ForbidState, q), y)

(* The two lists are walked side by side until the shorter one ends.       *)
unmergeableLit(p, q) ==
  LET P == ForbidList(p)
      Q == ForbidList(q)
      n == IF Len(P) < Len(Q) THEN Len(P) ELSE Len(Q)
      hits == {k \in 1..n : root[cells[P[k]].e] = q \/ root[cells[Q[k]].e] = p}
      k == CHOOSE i \in hits : \A j \in hits : i <= j
  IN IF hits = {} THEN NoLit
     ELSE IF root[cells[P[k]].e] = q THEN cells[P[k]].reason ELSE cells[Q[k]].reason

\* The kinds of reasons that keep the classes of p and q apart.
unmergeable(p, q) ==
  CASE isConstant(p) /\ isConstant(q) -> [kind |-> "constants", lit |-> NoLit]
    [] ~ (isConstant(p) /\ isConstant(q)) /\ dist[p] \cap dist[q] # {} ->
         [kind |-> "distinct", lit |-> Lit(CHOOSE d \in dist[p] \cap dist[q] : TRUE, l_True)]
    [] OTHER -> LET r == IF isList(p) THEN NoLit ELSE unmergeableLit(p, q)
                IN [kind |-> IF r = NoLit THEN "none" ELSE "equality", lit |-> r]

----------------------------------------------------------------------------
(* Explanations.  f is the forest of merges: parents, the reasons of the   *)
(* edges to them, and the undo stack.                                      *)
Forest == [parent |-> expParent, reason |-> expReason, undo |-> exp_undo_stack]

Up(f, t) ==
  LET up[u \in Terms] == {u} \cup (IF f.parent[u] = ERef_Undef THEN {} ELSE up[f.parent[u]])
  IN up[t]
\* The nodes whose edges lead from s and t to their nearest common ancestor.
Path(f, s, t) == (Up(f, s) \ Up(f, t)) \cup (Up(f, t) \ Up(f, s))

ArgPairs(s, t) == {<<s.args[i], t.args[i]>> : i \in DOMAIN s.args}
\* The edges needed for the pairs P: a congruence edge asks for its arguments.
Along(f, P) == UNION {Path(f, q[1], q[2]) : q \in P}
Enqueued(f, P) ==
  P \cup UNION {ArgPairs(v, f.parent[v]) : v \in {w \in Along(f, P) : f.reason[w] = NoLit}}
Edges(f, P) ==
  LET asked[i \in Nat] == IF i = 0 THEN P ELSE Enqueued(f, asked[i - 1])
      n == CHOOSE i \in 0..Cardinality(Terms) * Cardinality(Terms) : asked[i + 1] = asked[i]
  IN Along(f, asked[n])
expExplain(f, P) == {f.reason[v] : v \in Edges(f, P)} \ {NoLit}

doExplain(f, x, y, r) == {r} \cup expExplain(f, {<<x, y>>})
\* Mutant: only why the two merged terms are constants.
explainTwo(f, p, q) == expExplain(f, {<<p, root[p]>>, <<q, root[q]>>})
explainConstants(f, p, q) ==
  expExplain(f, {<<p, root[p]>>, <<q, root[q]>>, <<q, p>>})

\* The members of a violated distinction that lie in the classes of p and q.
explainDistinct(f, p, q, r) ==
  LET In(n) == {a \in ToSet(r.atom.args) : root[a] = root[n]}
  IN {r} \cup UNION {expExplain(f, {<<c[1], c[2]>>}) : c \in In(p) \X In(q)}

explainUnmergeable(f, p, q, u) ==
  CASE u.kind = "constants" -> explainConstants(f, p, q)
    [] u.kind = "distinct" -> explainDistinct(f, p, q, u.lit)
    [] u.kind = "equality" -> doExplain(f, u.lit.atom.args[1], u.lit.atom.args[2], u.lit)

\* The edges from y up to the old root are reversed; Below is the end y comes from.
Below(f, y, w) == CHOOSE v \in Up(f, y) : f.parent[v] = w
Reversed(f, y) ==
  LET turned == Up(f, y) \ {y}
  IN [f EXCEPT !.parent = [w \in Terms |-> IF w \in turned THEN Below(f, y, w) ELSE f.parent[w]],
               !.reason = [w \in Terms |-> IF w \in turned THEN f.reason[Below(f, y, w)] ELSE f.reason[w]]]
expStoreExplanation(p, q, r) ==
  LET larger == Cardinality(Class(p)) >= Cardinality(Class(q))
      x == IF larger THEN p ELSE q
      y == IF larger THEN q ELSE p
  IN [Reversed(Forest, y) EXCEPT
       !.parent[y] = x, !.reason[y] = r, !.undo = @ \o <<x, y>>]

\* Mutant: the edge is cut where it was made.
CutAsMade(f) ==
  LET n == Len(f.undo)
  IN [parent |-> [f.parent EXCEPT ![f.undo[n]] = ERef_Undef],
      reason |-> [f.reason EXCEPT ![f.undo[n]] = NoLit], undo |-> SubSeq(f.undo, 1, n - 2)]

\* Whichever way the edge between the last two nodes points now, it is cut.
expRemoveExplanation(f) ==
  LET n == Len(f.undo)
      v == IF f.parent[f.undo[n]] = f.undo[n - 1] THEN f.undo[n] ELSE f.undo[n - 1]
  IN [parent |-> [f.parent EXCEPT ![v] = ERef_Undef], reason |-> [f.reason EXCEPT ![v] = NoLit],
      undo |-> SubSeq(f.undo, 1, n - 2)]

SetForest(f) == expParent' = f.parent /\ expReason' = f.reason /\ exp_undo_stack' = f.undo

----------------------------------------------------------------------------
(* Merging.                                                                *)
Closure == [root |-> root, parents |-> parents, index |-> index,
            sig_tab |-> sig_tab, pending |-> <<>>]
SetClosure(g) ==
  root' = g.root /\ parents' = g.parents /\ index' = g.index /\ sig_tab' = g.sig_tab
SetForbid(s) == forbid' = s.forbid /\ cells' = s.cells

\* Mutant: the members of y's class are not looked at.
deduceRoot(x, y) ==
  IF ~ isConstant(x) THEN {}
  ELSE {a \in (EqAtoms \cup UPs) \cap {y} : polarity[a] = Undef /\ deduced[a] = Undef}
\* The atoms of y's class that a merge with a constant decides.
deduce(x, y) ==
  IF ~ isConstant(x) THEN {}
  ELSE {a \in (EqAtoms \cup UPs) \cap Class(y) : polarity[a] = Undef /\ deduced[a] = Undef}

mergeForbidLists(x, y) ==
  CASE forbid[y] = 0 -> ForbidState
    [] forbid[y] # 0 /\ forbid[x] = 0 ->
         [forbid |-> [forbid EXCEPT ![x] = forbid[y]], cells |-> cells]
    [] OTHER -> [forbid |-> forbid, cells |-> Linked(cells, forbid[x], forbid[y])]
unmergeForbidLists(x, y) ==
  CASE forbid[y] = 0 -> ForbidState
    [] forbid[y] # 0 /\ forbid[x] = forbid[y] ->
         [forbid |-> [forbid EXCEPT ![x] = 0], cells |-> cells]
    [] OTHER -> [forbid |-> forbid, cells |-> Linked(cells, forbid[x], forbid[y])]

\* A constant stays the root, and otherwise the class with more parents.
Swaps(p, q) == isConstant(q) \/ (~ isConstant(p) /\ Size(parents[p]) < Size(parents[q]))

merge(p, q, rest) ==
  LET x == IF Swaps(p, q) THEN q ELSE p
      y == IF Swaps(p, q) THEN p ELSE q
      out == deduce(x, y)
      joined == [Closure EXCEPT !.root = [n \in Nodes |-> IF root[n] = y THEN x ELSE root[n]],
                                !.pending = rest]
      g == processParentsAfterMerge(joined, y)
  IN /\ deduced' = [a \in Atoms |-> IF a \notin out THEN deduced[a]
                                     ELSE IF x = ERef_True THEN l_True ELSE l_False]
     /\ th_deductions' = th_deductions \o SetToSeq(out)
     /\ SetForbid(mergeForbidLists(x, y))
     /\ dist' = [dist EXCEPT ![x] = @ \cup dist[y]]
     /\ SetClosure(g)
     /\ pending' = g.pending
     /\ undo_stack_main' = Append(undo_stack_main, Undo("MERGE", y, Class(y)))

\* One turn of mergeLoop takes the last pair p, q of pending.
left == Last(pending)
right == pending[Len(pending) - 1]
Rest == SubSeq(pending, 1, Len(pending) - 2)
MergeReason == IF congruence_pending THEN NoLit ELSE Head(todo).reason
Turn == pc = "merge" /\ pending # <<>>

MergeSame ==
  /\ Turn /\ root[left] = root[right]
  /\ pending' = Rest
  /\ UNCHANGED <<classVars, expVars, undo_stack_main, polarity, dedVars, pointVars,
                 todo, congruence_pending, explanation, pc>>

\* Only terms have explanations.
MergeClasses ==
  /\ Turn /\ root[left] # root[right] /\ unmergeable(root[left], root[right]).kind = "none"
  /\ IF isList(left) THEN UNCHANGED expVars
     ELSE SetForest(expStoreExplanation(left, right, MergeReason))
  /\ merge(root[left], root[right], Rest)
  /\ congruence_pending' = TRUE
  /\ UNCHANGED <<polarity, pointVars, todo, explanation, pc>>

MergeRefused ==
  LET u == unmergeable(root[left], root[right])
      f == expStoreExplanation(left, right, MergeReason)
  IN /\ Turn /\ root[left] # root[right] /\ u.kind # "none"
     /\ explanation' = explainUnmergeable(f, left, right, u)
     /\ SetForest(expRemoveExplanation(f))
     /\ pending' = <<>> /\ todo' = <<>> /\ congruence_pending' = FALSE
     /\ pc' = "conflict"
     /\ UNCHANGED <<classVars, undo_stack_main, polarity, dedVars, pointVars>>

MergeDone ==
  /\ pc = "merge" /\ pending = <<>>
  /\ todo' = Tail(todo) /\ pc' = "assert" /\ congruence_pending' = FALSE
  /\ UNCHANGED <<classVars, expVars, undo_stack_main, polarity, dedVars, pointVars,
                 pending, explanation>>

----------------------------------------------------------------------------
(* Asserting a literal: the equalities, disequality or distinction it puts *)
(* on the classes, one after the other.                                    *)
Eq(x, y, l) == [kind |-> "eq", x |-> x, y |-> y, reason |-> l]
NEq(x, y, l) == [kind |-> "neq", x |-> x, y |-> y, reason |-> l]
Dist(d, l) == [kind |-> "dist", x |-> d, y |-> d, reason |-> l]
Value(s) == IF s = l_True THEN ERef_True ELSE ERef_False
Opposite(s) == IF s = l_True THEN ERef_False ELSE ERef_True

Facts(l) ==
  LET a == l.atom
      same == IF deduced[a] = l.sgn THEN <<>> ELSE <<Eq(a, Value(l.sgn), l)>>
  IN CASE a \in EqAtoms /\ deduced[a] = l.sgn -> <<>>
       [] a \in EqAtoms /\ deduced[a] # l.sgn ->
            <<IF l.sgn = l_True THEN Eq(a.args[1], a.args[2], l)
                                ELSE NEq(a.args[1], a.args[2], l)>> \o same
       [] a \in UPs -> same \o <<Eq(Not(a), Opposite(l.sgn), l)>>
       [] a \in DistAtoms -> <<Dist(a, l)>>

assertLit(l) ==
  /\ pc = "idle" /\ polarity[l.atom] = Undef
  /\ backtrack_points' = Append(backtrack_points, Len(undo_stack_main))
  /\ deductions_lim' = Append(deductions_lim, Len(th_deductions))
  /\ undo_stack_main' = Append(undo_stack_main, Undo("SET_POLARITY", l.atom, {}))
  /\ polarity' = [polarity EXCEPT ![l.atom] = l.sgn]
  /\ todo' = Facts(l)
  /\ pc' = "assert"
  /\ UNCHANGED <<classVars, expVars, dedVars, pending, congruence_pending, explanation>>

Next1(kind) == pc = "assert" /\ todo # <<>> /\ Head(todo).kind = kind
X == Head(todo).x
Y == Head(todo).y
R == Head(todo).reason

assertEq ==
  /\ Next1("eq")
  /\ pending' = <<X, Y>> /\ pc' = "merge"
  /\ UNCHANGED <<classVars, expVars, undo_stack_main, polarity, dedVars, pointVars,
                 todo, congruence_pending, explanation>>

Conflict(reasons) ==
  /\ explanation' = reasons
  /\ todo' = <<>> /\ pc' = "conflict"
  /\ UNCHANGED <<undo_stack_main, dist>>

assertDisequality ==
  /\ Next1("neq")
  /\ \/ /\ root[X] = root[Y]
        /\ Conflict(doExplain(Forest, X, Y, R))
        /\ UNCHANGED <<forbid, cells>>
     \/ /\ root[X] # root[Y]
        /\ SetForbid(assertNEq(ForbidState, root[X], root[Y], R))
        /\ undo_stack_main' = Append(undo_stack_main, Undo("DISEQ", root[Y], {}))
        /\ todo' = Tail(todo)
        /\ UNCHANGED <<dist, explanation, pc>>
  /\ UNCHANGED <<root, parents, index, sig_tab, expVars, polarity, dedVars, pointVars,
                 pending, congruence_pending>>

\* The first member that shares its root with an earlier one is the conflict; the
\* bits set up to there are taken back.
MemberOf(i) == X.args[i]
Clash(i, j) == i < j /\ root[MemberOf(i)] = root[MemberOf(j)]
Marked(n) == {root[MemberOf(i)] : i \in 1..n}
assertDist ==
  /\ Next1("dist")
  /\ LET D == DOMAIN X.args
         clashes == {c \in D \X D : Clash(c[1], c[2])}
     IN \/ /\ clashes # {}
           /\ LET c == CHOOSE e \in clashes : \A o \in clashes : e[2] <= o[2]
              IN /\ explanation' = doExplain(Forest, MemberOf(c[2]), MemberOf(c[1]), R)
                 /\ dist' = [n \in Nodes |-> dist[n] \ {d \in {X} : n \in Marked(c[2] - 1)}]
           /\ todo' = <<>> /\ pc' = "conflict"
           /\ UNCHANGED undo_stack_main
        \/ /\ clashes = {}
           /\ dist' = [n \in Nodes |-> dist[n] \cup {d \in {X} : n \in Marked(Len(X.args))}]
           /\ undo_stack_main' = Append(undo_stack_main, Undo("DIST", X, {}))
           /\ todo' = Tail(todo)
           /\ UNCHANGED <<explanation, pc>>
  /\ UNCHANGED <<root, forbid, cells, parents, index, sig_tab, expVars, polarity, dedVars,
                 pointVars, pending, congruence_pending>>

Asserts ==
  /\ pc = "assert" /\ todo = <<>> /\ pc' = "idle"
  /\ UNCHANGED <<classVars, expVars, undo_stack_main, polarity, dedVars, pointVars, todo,
                 pending, congruence_pending, explanation>>

----------------------------------------------------------------------------
(* Backtracking: backtrackToStackSize undoes one entry after the other.    *)
popBacktrackPoint ==
  /\ pc \in {"idle", "conflict"} /\ backtrack_points # <<>>
  /\ explanation' = {} /\ pc' = "undo"
  /\ UNCHANGED <<classVars, expVars, undo_stack_main, polarity, dedVars, pointVars, todo,
                 pending, congruence_pending>>

Undoing(op) ==
  /\ pc = "undo" /\ Len(undo_stack_main) > Last(backtrack_points)
  /\ Last(undo_stack_main).op = op
  /\ undo_stack_main' = Front(undo_stack_main)
  /\ UNCHANGED <<dedVars, pointVars, todo, pending, congruence_pending, explanation, pc>>
Undone == Last(undo_stack_main).arg

undoMerge ==
  /\ Undoing("MERGE")
  /\ LET y == Undone
         x == root[y]
         class == Last(undo_stack_main).class
         g == processParentsBeforeUnMerge(Closure, y)
     IN /\ SetClosure([g EXCEPT !.root = [n \in Nodes |-> IF n \in class THEN y ELSE root[n]]])
        /\ dist' = [dist EXCEPT ![x] = @ \ dist[y]]
        /\ SetForbid(unmergeForbidLists(x, y))
        /\ IF isList(y) THEN UNCHANGED expVars ELSE SetForest(expRemoveExplanation(Forest))
  /\ UNCHANGED polarity

UndoDisequality ==
  /\ Undoing("DISEQ") /\ SetForbid(undoDisequality(Undone))
  /\ UNCHANGED <<root, dist, parents, index, sig_tab, expVars, polarity>>

\* The members lose the bit, whatever their roots are.
undoDistinction(d) == [n \in Nodes |-> dist[n] \ {e \in {d} : n \in ToSet(e.args)}]
UndoDist ==
  /\ Undoing("DIST") /\ dist' = undoDistinction(Undone)
  /\ UNCHANGED <<root, forbid, cells, parents, index, sig_tab, expVars, polarity>>

clearPolarity ==
  /\ Undoing("SET_POLARITY") /\ polarity' = [polarity EXCEPT ![Undone] = Undef]
  /\ UNCHANGED <<classVars, expVars>>

\* The deductions made since the point was set are taken back.
UndoDone ==
  /\ pc = "undo" /\ Len(undo_stack_main) = Last(backtrack_points)
  /\ LET kept == SubSeq(th_deductions, 1, Last(deductions_lim))
         gone == ToSet(th_deductions) \ ToSet(kept)
     IN /\ th_deductions' = kept
        /\ deduced' = [a \in Atoms |-> IF a \in gone THEN Undef ELSE deduced[a]]
  /\ backtrack_points' = Front(backtrack_points)
  /\ deductions_lim' = Front(deductions_lim)
  /\ pc' = "idle"
  /\ UNCHANGED <<classVars, expVars, undo_stack_main, polarity, todo, pending,
                 congruence_pending, explanation>>

----------------------------------------------------------------------------
(* All terms are made first: their parents and signatures are entered, and *)
(* the two constants are forbidden to each other, twice.                   *)
addNode(g, n) ==
  LET s == Sig(g.root, n)
      h == addParent(addParent(g, "car", n), "cdr", n)
  IN IF s \in DOMAIN g.sig_tab THEN g ELSE [h EXCEPT !.sig_tab = Entered(@, s, n)]
None == [root |-> [n \in Nodes |-> n], parents |-> [n \in Nodes |-> Empty],
         index |-> [d \in Sides |-> [n \in Nodes |-> 0]],
         sig_tab |-> <<>>, pending |-> <<>>]
Made ==
  LET made[i \in 0..Len(Enodes)] == IF i = 0 THEN None ELSE addNode(made[i - 1], Enodes[i])
  IN made[Len(Enodes)]
Apart ==
  LET none == [forbid |-> [n \in Nodes |-> 0], cells |-> <<>>]
      once == assertNEq(none, ERef_True, ERef_False, NoLit)
  IN assertNEq(once, ERef_True, ERef_False, NoLit)

Init ==
  /\ root = Made.root /\ parents = Made.parents /\ index = Made.index
  /\ sig_tab = Made.sig_tab
  /\ forbid = Apart.forbid /\ cells = Apart.cells
  /\ dist = [n \in Nodes |-> {}]
  /\ expParent = [t \in Terms |-> ERef_Undef] /\ expReason = [t \in Terms |-> NoLit]
  /\ exp_undo_stack = <<>> /\ undo_stack_main = <<>> /\ backtrack_points = <<>>
  /\ polarity = [a \in Atoms |-> Undef] /\ deduced = [a \in Atoms |-> Undef]
  /\ th_deductions = <<>> /\ deductions_lim = <<>>
  /\ todo = <<>> /\ pending = <<>> /\ congruence_pending = FALSE
  /\ explanation = {} /\ pc = "idle"

Next ==
  \/ \E l \in Literals : assertLit(l)
  \/ assertEq \/ assertDisequality \/ assertDist \/ Asserts
  \/ MergeSame \/ MergeClasses \/ MergeRefused \/ MergeDone
  \/ popBacktrackPoint
  \/ undoMerge \/ UndoDisequality \/ UndoDist \/ clearPolarity \/ UndoDone

Spec == Init /\ [][Next]_vars

----------------------------------------------------------------------------
(* What a set of literals says of the terms: the least congruence with     *)
(* their equalities, and the pairs that must not be in it.                 *)
Positive(L) == {<<l.atom.args[1], l.atom.args[2]>> : l \in {k \in L : k.atom \in EqAtoms /\ k.sgn = l_True}}
ValuePairs(L) ==
  {<<l.atom, Value(l.sgn)>> : l \in {k \in L : k.atom \in EqAtoms \cup UPs}}
    \cup {<<Not(l.atom), Opposite(l.sgn)>> : l \in {k \in L : k.atom \in UPs}}
Negative(L) ==
  {<<l.atom.args[1], l.atom.args[2]>> : l \in {k \in L : k.atom \in EqAtoms /\ k.sgn = l_False}}
    \cup UNION {LET D == DOMAIN l.atom.args
                IN {<<l.atom.args[c[1]], l.atom.args[c[2]]>> : c \in {e \in D \X D : e[1] < e[2]}} :
                l \in {k \in L : k.atom \in DistAtoms}}
    \cup {<<ERef_True, ERef_False>>}

Applied == {q \in Terms \X Terms : q[1] # q[2] /\ q[1].sym = q[2].sym /\ Len(q[1].args) = Len(q[2].args)}
Together(C, s, t) == \E k \in C : {s, t} \subseteq k
Joined(C, q) == LET both == {k \in C : {q[1], q[2]} \cap k # {}} IN (C \ both) \cup {UNION both}
Congruent(C) == {q \in Applied : /\ ~ Together(C, q[1], q[2])
                                 /\ \A s \in ArgPairs(q[1], q[2]) : Together(C, s[1], s[2])}
Grown(C) ==
  IF Congruent(C) = {} THEN C ELSE Joined(C, CHOOSE q \in Congruent(C) : TRUE)
Congruence(C) ==  \* each join leaves a class less
  LET joined[i \in Nat] == IF i = 0 THEN C ELSE Grown(joined[i - 1])
  IN joined[Cardinality(Terms)]

\* The classes, for every set of literals that gives no atom both values.
Valuations == {L \in SUBSET Literals : \A k, l \in L : k.atom = l.atom => k = l}
Closed == [L \in Valuations |->
  Congruence(FoldSet(LAMBDA q, C : Joined(C, q), {{t} : t \in Terms},
                     Positive(L) \cup ValuePairs(L)))] @@ <<>>
Satisfiable == {L \in Valuations : \A q \in Negative(L) : ~ Together(Closed[L], q[1], q[2])}

\* Between two assertions the literals are satisfiable and the classes are the
\* congruence they generate, whatever was asserted and undone before (merge, undoMerge,
\* the signature table, the use vectors, the forbid lists and the distinction bits).
ClassesExact ==
  pc = "idle" =>
    /\ Asserted \in Satisfiable
    /\ {Class(t) \cap Terms : t \in Terms} = Closed[Asserted]

\* deduce finds every unassigned atom that a class of a constant decides, with its
\* value, and backtracking takes back exactly those that no longer follow.
ImpliedAtomsDeduced ==
  pc = "idle" =>
    \A a \in EqAtoms \cup UPs : polarity[a] = Undef =>
      \A v \in {l_True, l_False} :
        deduced[a] = v <=> Together(Closed[Asserted], a, Value(v))

\* A conflict is explained by asserted literals that are unsatisfiable together.
ExplanationSound ==
  pc = "conflict" => explanation \subseteq Asserted /\ explanation \notin Satisfiable

\* Two terms are in one class exactly if they are in one explanation tree, and every edge
\* of it is an asserted equality or value of its ends or joins terms with equal arguments.
ForestSpans ==
  pc = "idle" =>
    /\ \A s, t \in Terms : root[s] = root[t] <=> Up(Forest, s) \cap Up(Forest, t) # {}
    /\ \A t \in Terms : expParent[t] # ERef_Undef =>
         LET r == expReason[t]
             ends == {<<t, expParent[t]>>, <<expParent[t], t>>}
         IN IF r = NoLit THEN \A s \in ArgPairs(t, expParent[t]) : root[s[1]] = root[s[2]]
            ELSE r \in Asserted /\ ends \cap (Positive({r}) \cup ValuePairs({r})) # {}

\* As the backtracking that restores the state at the backtrack point has it, a conflict
\* blames only literals that are still asserted.
ExplanationAsserted == pc = "conflict" => explanation \subseteq Asserted
=============================================================================
