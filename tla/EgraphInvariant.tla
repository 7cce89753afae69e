-------------------------- MODULE EgraphInvariant --------------------------
(***************************************************************************)
(* The inductive invariant behind the explanation forest: what the undo    *)
(* stacks, the forest, the signature table and the use vectors have to do  *)
(* with each other, whatever was merged, refused and undone before.        *)
(***************************************************************************)
EXTENDS Egraph

Signs == {l_True, l_False}
Lits == [atom : Atoms, sgn : Signs]
Entries == [tag : {"Valid", "Marked", "Free"}, e : Nodes]
UseVectors == [data : Seq(Entries), free : Seq(Nat)]
Undos == [op : {"MERGE", "DISEQ", "DIST", "SET_POLARITY"}, arg : Nodes, class : SUBSET Nodes]
Todos == [kind : {"eq", "neq", "dist"}, x : Terms, y : Terms, reason : Lits]

TypeInv ==
  /\ root \in [Nodes -> Nodes]
  /\ parents \in [Nodes -> UseVectors]
  /\ index \in [Sides -> [Nodes -> Nat]]
  /\ sig_tab \in [DOMAIN sig_tab -> Nodes]
  /\ expParent \in [Terms -> Terms \cup {ERef_Undef}]
  /\ expReason \in [Terms -> Lits \cup {NoLit}]
  /\ exp_undo_stack \in Seq(Terms)
  /\ undo_stack_main \in Seq(Undos)
  /\ polarity \in [Atoms -> Signs \cup {Undef}]
  /\ todo \in Seq(Todos) /\ pending \in Seq(Nodes) /\ congruence_pending \in BOOLEAN
  /\ pc \in {"idle", "assert", "merge", "conflict", "undo"}

----------------------------------------------------------------------------
(* The past: H[k] are the roots as they were when the undo stack had k     *)
(* entries.                                                                *)
IsMerge(k) == undo_stack_main[k].op = "MERGE"

\* r after the class of y has joined that of x
JoinedRoots(r, x, y) == [n \in Nodes |-> IF r[n] = y THEN x ELSE r[n]]

MergedAt(H, k) ==
  LET y == undo_stack_main[k].arg IN
  /\ H[k - 1][y] = y
  /\ undo_stack_main[k].class = {n \in Nodes : H[k - 1][n] = y}
  /\ \E x \in Nodes : x # y /\ H[k - 1][x] = x /\ H[k] = JoinedRoots(H[k - 1], x, y)
                      /\ (isList(x) <=> isList(y))

History(H) ==
  /\ H \in [0..Len(undo_stack_main) -> [Nodes -> Nodes]]
  /\ H[0] = [n \in Nodes |-> n]
  /\ H[Len(undo_stack_main)] = root
  /\ \A k \in 1..Len(undo_stack_main) :
       IF IsMerge(k) THEN MergedAt(H, k) ELSE H[k] = H[k - 1]

(* Lists in one class are equal member by member, now and at every earlier *)
(* point.                                                                  *)
ListsEqual(r) ==
  \A m, n \in Nodes : isList(m) /\ r[m] = r[n] => Sig(r, m) = Sig(r, n)
PastInv(H) == \A k \in 0..Len(undo_stack_main) : ListsEqual(H[k])

----------------------------------------------------------------------------
(* A signature in the table is that of its node whenever its components    *)
(* are roots, unless it came with a later merge: then it is one of those   *)
(* that the undo of this merge finds in the use vector and removes.        *)
Live(r, s) == \A c \in {s.car, s.cdr} : c = ERef_Nil \/ (c \in Nodes /\ r[c] = c)
HeldBy(y, r, s) ==
  \E i \in DOMAIN parents[y].data :
    /\ parents[y].data[i] = [tag |-> "Valid", e |-> sig_tab[s]]
    /\ Sig(r, sig_tab[s]) = s

TableInv(H) ==
  \A s \in DOMAIN sig_tab : \A k \in 0..Len(undo_stack_main) :
    Live(H[k], s) =>
      \/ Sig(H[k], sig_tab[s]) = s
      \/ \E j \in k + 1..Len(undo_stack_main) :
           IsMerge(j) /\ HeldBy(undo_stack_main[j].arg, H[j], s)

----------------------------------------------------------------------------
(* An atom has a value while its entry is on the stack.                    *)
SetAt(k, a) == undo_stack_main[k].op = "SET_POLARITY" /\ undo_stack_main[k].arg = a
SetBelow(k, l) == polarity[l.atom] = l.sgn /\ \E i \in 1..k : SetAt(i, l.atom)

PolarityInv ==
  /\ \A a \in Atoms : polarity[a] # Undef <=> \E k \in DOMAIN undo_stack_main : SetAt(k, a)
  /\ \A j, k \in DOMAIN undo_stack_main : \A a \in Atoms : SetAt(j, a) /\ SetAt(k, a) => j = k

(* The forest: its edges are the pairs of exp_undo_stack, one way or the   *)
(* other, made by the merges of terms in this order; at[j] is the place of *)
(* the j-th on the undo stack.  Each joined two classes for a reason that  *)
(* was there before.                                                       *)
Ends(l) == Positive({l}) \cup ValuePairs({l})
Reason(H, s, t, r, k) ==
  IF r = NoLit THEN Sig(H[k], s) = Sig(H[k], t)
  ELSE r \in Lits /\ SetBelow(k, r) /\ {<<s, t>>, <<t, s>>} \cap Ends(r) # {}

Made1(j) == exp_undo_stack[2 * j - 1]
Made2(j) == exp_undo_stack[2 * j]

TermMerges == {k \in DOMAIN undo_stack_main : IsMerge(k) /\ ~ isList(undo_stack_main[k].arg)}
Places(at, n) ==
  /\ Len(exp_undo_stack) = 2 * n
  /\ at \in [1..n -> TermMerges]
  /\ \A k \in TermMerges : \E j \in 1..n : at[j] = k
  /\ \A i, j \in 1..n : i < j => at[i] < at[j]

PairsInv(H, at, n) ==
  /\ \A j \in 1..n :
       /\ H[at[j] - 1][Made1(j)] # H[at[j] - 1][Made2(j)]
       /\ H[at[j]][Made1(j)] = H[at[j]][Made2(j)]
       /\ expParent[Made1(j)] = Made2(j) \/ expParent[Made2(j)] = Made1(j)
  /\ \A t \in Terms : expParent[t] # ERef_Undef =>
       \E j \in 1..n : /\ {t, expParent[t]} = {Made1(j), Made2(j)}
                       /\ Reason(H, t, expParent[t], expReason[t], at[j] - 1)

Graded(f, m, grade) ==
  /\ m \in Nat /\ grade \in [Terms -> 0..m]
  /\ \A t \in Terms : f.parent[t] # ERef_Undef => grade[f.parent[t]] < grade[t]
Acyclic(f) == \E m \in Nat : \E grade \in [Terms -> 0..m] : Graded(f, m, grade)
Spans(f, r) == \A s, t \in Terms : r[s] = r[t] <=> Up(f, s) \cap Up(f, t) # {}

ForestInv(H) ==
  /\ Acyclic(Forest) /\ Spans(Forest, root)
  /\ \E n \in Nat : \E at \in [1..n -> TermMerges] : Places(at, n) /\ PairsInv(H, at, n)

----------------------------------------------------------------------------
(* What is left to do.                                                     *)
TodoInv ==
  /\ pc \notin {"assert", "merge"} => todo = <<>>
  /\ \A i \in DOMAIN todo :
       /\ SetBelow(Len(undo_stack_main), todo[i].reason)
       /\ todo[i].kind = "eq" => <<todo[i].x, todo[i].y>> \in Ends(todo[i].reason)

Paired(p, r) ==
  \E n \in Nat : Len(p) = 2 * n /\ \A i \in 1..n : Sig(r, p[2 * i - 1]) = Sig(r, p[2 * i])

PendingInv ==
  /\ pc # "merge" => pending = <<>> /\ ~ congruence_pending
  /\ pc = "merge" =>
       /\ todo # <<>> /\ Head(todo).kind = "eq"
       /\ congruence_pending \/ pending = <<>> \/ pending = <<Head(todo).x, Head(todo).y>>
       /\ congruence_pending => Paired(pending, root)

\* Only terms are members of distinctions.
DistInv ==
  /\ dist \in [Nodes -> SUBSET Terms]
  /\ \A n \in Nodes : isList(n) => dist[n] = {}

PointsInv == backtrack_points \in Seq(Nat) /\ (pc = "undo" => backtrack_points # <<>>)

Past(H) == History(H) /\ PastInv(H) /\ TableInv(H) /\ ForestInv(H)

EInv ==
  /\ TypeInv /\ PolarityInv /\ TodoInv /\ PendingInv
  /\ \E H : Past(H)
=============================================================================
