-------------------------- MODULE TheoryInvariant --------------------------
(***************************************************************************)
(* Why TheoryStack has its properties: an invariant that every step keeps, *)
(* part by part.  The solver's state s is related to hand, the literals    *)
(* handed to it, one per backtrack point; every part speaks of prefixes    *)
(* only, so that it survives backtracking to any point.                    *)
(***************************************************************************)
EXTENDS TheoryStack

LeqLits == [atom : LeqAtoms, sgn : BOOLEAN]

(* A list cut by limits: how far it reaches with p points, and what the    *)
(* p-th point added.                                                       *)
End(list, lim, p) == IF p < Len(lim) THEN lim[p + 1] ELSE Len(list)
AddedBy(list, lim, p) == {j \in DOMAIN list : End(list, lim, p - 1) < j /\ j <= End(list, lim, p)}
Layered(list, lim, n) ==
  /\ list \in Seq(LeqLits) /\ lim \in Seq(Nat) /\ Len(lim) = n
  /\ End(list, lim, 0) = 0
  /\ \A p, q \in 0..n : p <= q => End(list, lim, p) <= End(list, lim, q)

ShapeInv(s, n) ==
  /\ DOMAIN s = DOMAIN EmptyLA
  /\ Layered(s.trace, s.limits, n) /\ Layered(s.decisions, s.decLimit, n)
  /\ Layered(s.dedList, s.dedLim, n)
  /\ s.dedLast \in Seq(Nat) /\ Len(s.dedLast) = n /\ s.dedNext \in Nat
  /\ s.polarity \in [LeqAtoms -> {"undef", "true", "false"}] /\ s.active \in [Vars -> Int]

(* The bound trace: literals handed over, each side growing stronger, and  *)
(* no lower bound above an upper one.                                      *)
Crossed(l, m) ==
  LeqVar[l.atom] = LeqVar[m.atom] /\ IsLower(l) /\ ~IsLower(m) /\ Value(l) > Value(m)
TraceInv(s, hand) ==
  /\ \A j \in DOMAIN s.trace :
       \E p \in DOMAIN hand : j \in AddedBy(s.trace, s.limits, p) /\ s.trace[j] = hand[p]
  /\ \A i, j \in DOMAIN s.trace : i < j => ~Weaker(s.trace[i], s.trace[j])
  /\ \A i, j \in DOMAIN s.trace : ~Crossed(s.trace[i], s.trace[j])

(* Decisions, polarities and the counts of active bounds.                  *)
DecisionsInv(s, hand) ==
  /\ \A j \in DOMAIN s.decisions :
       \E p \in DOMAIN hand : j \in AddedBy(s.decisions, s.decLimit, p) /\ s.decisions[j] = hand[p]
  /\ \A i, j \in DOMAIN s.decisions : s.decisions[i].atom = s.decisions[j].atom => i = j
  /\ \A a \in LeqAtoms :
       s.polarity[a] # "undef" <=> \E j \in DOMAIN s.decisions : s.decisions[j].atom = a
  /\ \A v \in Vars : s.active[v] =
       Cardinality({j \in DOMAIN s.decisions : LeqVar[s.decisions[j].atom] = v})

(* A literal handed over was taken, or passed over as deduced before, or   *)
(* is the last and refused.                                                *)
TakenAt(s, hand, p) ==
  /\ \E j \in AddedBy(s.decisions, s.decLimit, p) : s.decisions[j] = hand[p]
  /\ \A j \in 1..End(s.dedList, s.dedLim, p - 1) : s.dedList[j] # hand[p]
  /\ \E i \in 1..End(s.trace, s.limits, p) : Weaker(s.trace[i], hand[p])
PassedOver(s, hand, p) ==
  \E j \in 1..End(s.dedList, s.dedLim, p - 1) : s.dedList[j] = hand[p]
SettledAt(s, hand, p) ==
  hand[p].atom \notin LeqAtoms \/ TakenAt(s, hand, p) \/ PassedOver(s, hand, p)
HandInv(s, hand) ==
  \A p \in DOMAIN hand :
    SettledAt(s, hand, p) \/ (p = Len(hand) /\ boundUnsatisfied(s, hand[p]))
Settled(s, hand) == \A p \in DOMAIN hand : SettledAt(s, hand, p)

(* Deductions: weaker than a literal taken at the same point; each atom    *)
(* once, as the table of all solvers says.                                 *)
DeductionsInv(s, hand) ==
  /\ \A j \in DOMAIN s.dedList :
       \E p \in DOMAIN hand : /\ j \in AddedBy(s.dedList, s.dedLim, p)
                              /\ Weaker(hand[p], s.dedList[j]) /\ TakenAt(s, hand, p)
  /\ \A i, j \in DOMAIN s.dedList : s.dedList[i].atom = s.dedList[j].atom => i = j
TableInv(list, d) ==
  \A a \in Atoms :
    IF \E j \in DOMAIN list : list[j].atom = a
    THEN \E j \in DOMAIN list : list[j].atom = a /\ d[a] = [by |-> "la", sgn |-> list[j].sgn]
    ELSE d[a] = Undef

(* All that was known from the start and is weaker than a literal taken or *)
(* passed over has been handed over or deduced by then.                    *)
CompleteInv(s, hand) ==
  \A p \in DOMAIN hand : \A m \in [atom : LeqAtoms \ UNION Splits, sgn : BOOLEAN] :
    /\ TakenAt(s, hand, p) \/ PassedOver(s, hand, p)
    /\ Weaker(hand[p], m)
    => \/ \E q \in 1..p : hand[q].atom = m.atom
       \/ \E j \in 1..End(s.dedList, s.dedLim, p) : s.dedList[j] = m

SolverInv(s, hand) ==
  /\ ShapeInv(s, Len(hand)) /\ TraceInv(s, hand) /\ DecisionsInv(s, hand)
  /\ HandInv(s, hand) /\ DeductionsInv(s, hand) /\ CompleteInv(s, hand)

----------------------------------------------------------------------------
(* The handler's stack st is the part of the trail tr that was handed      *)
(* over; its theory atoms, numbered, are the points of the solver.         *)
CountIn(st, k) == Cardinality({j \in 1..k : st[j] \in TheoryAtoms})
PosIn(st, p) == CHOOSE i \in DOMAIN st : st[i] \in TheoryAtoms /\ CountIn(st, i) = p
HandIn(st, tr) == [p \in 1..CountIn(st, Len(st)) |-> Lit(tr[PosIn(st, p)])]

Entries == [atom : Atoms, sgn : BOOLEAN, fake : BOOLEAN]
TrailOK(tr, kn) ==
  /\ tr \in Seq(Entries)
  /\ \A i, j \in DOMAIN tr : tr[i].atom = tr[j].atom => i = j
  /\ \A k \in DOMAIN tr : /\ tr[k].atom \in LeqAtoms => tr[k].atom \in kn
                          /\ tr[k].fake => tr[k].atom \in LeqAtoms
StackOK(st, tr) ==
  /\ st \in Seq(Atoms) /\ Len(st) <= Len(tr)
  /\ \A k \in DOMAIN st : st[k] = tr[k].atom
KnownInv == known \subseteq LeqAtoms /\ LeqAtoms \ UNION Splits \subseteq known
OnlyKnown(s) == \A j \in DOMAIN s.dedList : s.dedList[j].atom \in known

(* The solver and the table against the stack: a literal that was refused  *)
(* is the last there.                                                      *)
RefusedIn(s, st, tr) ==
  /\ st # <<>> /\ st[Len(st)] \in LeqAtoms
  /\ boundUnsatisfied(s, Lit(tr[Len(st)]))
Linked(s, d, st, tr) ==
  /\ SolverInv(s, HandIn(st, tr)) /\ TableInv(s.dedList, d)
  /\ Settled(s, HandIn(st, tr)) \/ RefusedIn(s, st, tr)

(* A conflict is pending, or the solver is ready for the next literal.     *)
PcInv ==
  /\ pc \in {"search", "assert", "restore", "check", "deduce", "conflict", "analyze", "idle"}
  /\ pc \in {"check", "deduce"} => Len(stack) = Len(trail)
  /\ pc = "idle" => stack = <<>>
StatusInv ==
  /\ la.status = "UNSAT" => pc \in {"conflict", "analyze"}
  /\ la.status \in {"INIT", "SAT", "UNSAT"} /\ la.built \in BOOLEAN
  /\ la.status # "INIT" /\ pc # "idle" => la.built
  /\ \A k \in DOMAIN trail : trail[k].fake => la.status # "INIT" /\ pc # "idle"
  /\ pc = "deduce" => la.status = "SAT"
  /\ conflictAt \in Nat
  /\ RefusedIn(la, stack, trail) =>
       /\ la.status = "UNSAT"
       /\ pc = "conflict" => Lit(trail[Len(stack)]) \in la.explanation
       /\ pc = "analyze" => conflictAt = Len(stack)

HandedOver == {Lit(trail[k]) : k \in DOMAIN stack}
ExplanationInv ==
  /\ pc = "conflict" => la.explanation \subseteq HandedOver /\ Infeasible(la.explanation)
  /\ pc \in {"search", "assert", "check", "deduce", "idle"} => expl = NoExpl
  /\ expl.kind = "conflict" => pc = "analyze"
  /\ expl.kind = "reason" => expl.upto \in 0..Len(trail)
  /\ ConflictSound /\ ReasonSound

(* Reasons.  As long as nothing is undone, what was enqueued as deduced is *)
(* in the list.  Up to b nothing has been undone since; above, what is     *)
(* handed over again meets all atoms that are known by now.                *)
Least(a, b) == IF a <= b THEN a ELSE b
DeducedBy(s, st, m, k) == \E j \in 1..End(s.dedList, s.dedLim, CountIn(st, k)) : s.dedList[j] = m
AllDeduced(s, st, tr) ==
  \A i \in DOMAIN tr : tr[i].fake => DeducedBy(s, st, Lit(tr[i]), Least(Len(st), i - 1))
AgainComplete(s, st, tr, kn, b) ==
  \A k \in b + 1 .. Len(st) : \A m \in [atom : kn, sgn : BOOLEAN] :
    /\ st[k] \in LeqAtoms /\ ~(RefusedIn(s, st, tr) /\ k = Len(st))
    /\ ~DeducedBy(s, st, Lit(tr[k]), b) /\ Weaker(Lit(tr[k]), m)
    => (\E j \in 1..k : st[j] = m.atom) \/ DeducedBy(s, st, m, k)
FakesExplained(s, st, tr, b) ==
  \A i \in DOMAIN tr : tr[i].fake =>
    \/ DeducedBy(s, st, Lit(tr[i]), Least(b, i - 1))
    \/ \E k \in b + 1 .. i - 1 :
         /\ tr[k].atom \in LeqAtoms /\ Weaker(Lit(tr[k]), Lit(tr[i]))
         /\ ~DeducedBy(s, st, Lit(tr[k]), b)
Explained(s, st, tr, kn) ==
  \E b \in 0..Len(st) : AgainComplete(s, st, tr, kn, b) /\ FakesExplained(s, st, tr, b)
ReasonInv ==
  /\ Explained(la, stack, trail, known)
  /\ pc \in {"search", "assert", "check", "deduce"} => AllDeduced(la, stack, trail)
  /\ pc = "analyze" => \/ AllDeduced(la, stack, trail)
                       \/ Len(stack) >= Least(conflictAt - 1, Len(trail))

TInv ==
  /\ KnownInv /\ OnlyKnown(la) /\ TrailOK(trail, known) /\ StackOK(stack, trail)
  /\ PcInv /\ StatusInv /\ ExplanationInv /\ ReasonInv
  /\ Linked(la, deduced, stack, trail)
=============================================================================
