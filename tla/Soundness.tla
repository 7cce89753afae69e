------------------------------ MODULE Soundness ------------------------------
(***************************************************************************)
(* The second inductive invariant of CoreSMTSolver: what the search knows  *)
(* follows from the clauses it was given.  With SearchInv, which says that *)
(* trail, reasons and marks fit together, it makes every learnt clause and *)
(* both answers right.  TLC checks it; Soundness_proofs proves it.         *)
(***************************************************************************)
EXTENDS SearchInvariant

\* Only the theory atoms are constrained by the theory.
ASSUME BooleansFree ==
    \A m \in TModels, b \in SUBSET Lit :
       /\ \A v \in Vars : (v \in b) # (-v \in b)
       /\ \A v \in TheoryVars : v \in b <=> v \in m
       => b \in TModels

-----------------------------------------------------------------------------
(* The clause database.                                                    *)

\* The literals decided for good.
AtZero(t) == {t[i].lit : i \in {j \in DOMAIN t : t[j].level = 0}}

\* A clause that was added is still attached, without the literals that were
\* false at level 0, or it needs no attaching.
Kept(d) ==
    \/ \E q \in d : -q \in d
    \/ d \cap AtZero(trail) # {}
    \/ \E c \in clauses : c \subseteq d

DatabaseInv ==
    /\ \A c \in DB : Entails(formula, c)
    /\ \A p \in AtZero(trail) : Entails(formula, {p})
    /\ IF ok THEN \A d \in formula : Kept(d) ELSE Entails(formula, {})
    /\ \A c \in clauses : \A q \in c : var(q) \in decision
    /\ \A c \in missed : \E q \in c : -q \in AtZero(trail)

-----------------------------------------------------------------------------
(* Assumptions.                                                            *)

\* On the trail t the first n assumptions are true, each at its own level or below.
AssumedUpTo(t, as, n) ==
    \A k \in 1..n : k <= Len(as) =>
       \E i \in DOMAIN t : t[i].lit = as[k] /\ t[i].level <= k

\* The decisions at the levels of the assumptions are the assumptions.
AssumptionsFirst(t, as) ==
    \A i \in DOMAIN t :
       t[i].reason = CRef_Undef /\ t[i].level > 0 /\ t[i].level <= Len(as)
       => t[i].lit = as[t[i].level]

\* An analysis may take a literal of the current level back before it leaves
\* that level.
AssumptionInv ==
    /\ AssumptionsFirst(trail, assumptions)
    /\ AssumedUpTo(trail, assumptions,
                   IF pc \in {"analyze", "learn"} THEN decisionLevel - 1 ELSE decisionLevel)
    /\ pc \in {"branch", "branch2", "complete"} => decisionLevel >= Len(assumptions)
    /\ pc = "final" => decisionLevel < Len(assumptions)

-----------------------------------------------------------------------------
(* Analysis: the clause derived so far consists of the literal resolved on *)
(* and the marked literals not yet walked over.                            *)

MarkedLits == {-trail[i].lit : i \in {j \in 1..index : var(trail[j].lit) \in seen}}

ResolventInv ==
    /\ pc = "analyze" =>
          /\ Entails(formula, confl)
          /\ pivot # lit_Undef => Entails(formula, {-pivot} \cup MarkedLits)
    /\ pc = "learn" =>
          /\ -pivot \notin TrueLits
          /\ Entails(formula, {-pivot} \cup out_learnt)
    /\ pc = "final" => Entails(formula, conflict \cup MarkedLits)

-----------------------------------------------------------------------------
(* Answers.                                                                *)

AnswerInv ==
    /\ pc \notin {"idle", "addClause", "final", "done"} => conflict = {}
    /\ pc \notin {"idle", "addClause", "done"} => ok
    /\ pc = "final" => conflict \subseteq {-p : p \in Assumed}
    /\ pc = "branch2" /\ forced_split = lit_Undef => Consistent(TheoryLits(trail))
    /\ AnswersCorrect

\* With SearchInv the conjunction is inductive.
SoundInv == DatabaseInv /\ AssumptionInv /\ ResolventInv /\ AnswerInv
=============================================================================
