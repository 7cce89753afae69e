--------------------------- MODULE SearchInvariant ---------------------------
(***************************************************************************)
(* The inductive invariant of the search: what holds between any two steps *)
(* of CoreSMTSolver and makes its trail, its reasons and its conflict      *)
(* analysis correct.  TLC checks it; SearchInvariant_proofs proves it.     *)
(*                                                                         *)
(* The parts that several actions disturb are stated for an arbitrary      *)
(* trail t, so that lemmas can be about a trail before and after a step.   *)
(***************************************************************************)
EXTENDS CoreSMTSolver

\* The marks analyzeFinal leaves behind (ImplementsStack in MainSolver shows
\* what they break) can meet a later analysis only if there is a later call
\* and an assumption is refuted above level 0.
CleanCalls ==
    \A n \in 1..MaxSolves : n < MaxSolves => \A as \in Assumptions[n] : Len(as) <= 1

-----------------------------------------------------------------------------
(* Trails.                                                                 *)

TrailOK(t, tl) ==
    /\ \A i, j \in DOMAIN t : var(t[i].lit) = var(t[j].lit) => i = j
    /\ \A k, l \in DOMAIN tl :
          /\ tl[k] <= Len(t)
          /\ k <= l => tl[k] <= tl[l]
    /\ \A i \in DOMAIN t :
          /\ t[i].level <= Len(tl)
          /\ \A k \in DOMAIN tl : tl[k] < i <=> k <= t[i].level

ReasonsOK(t, db) ==
    \A i \in DOMAIN t :
       IsClause(t[i].reason) =>
          /\ t[i].lit \in t[i].reason /\ t[i].reason \in db
          /\ \A q \in t[i].reason \ {t[i].lit} : \E j \in 1..(i - 1) : t[j].lit = -q
          /\ t[i].level > 0 =>
                \E j \in 1..(i - 1) : /\ -t[j].lit \in t[i].reason
                                      /\ t[j].level = t[i].level

\* A literal without a reason above level 0 opens its level.
DecisionsFirst(t) ==
    \A i \in DOMAIN t :
       t[i].reason = CRef_Undef /\ t[i].level > 0 =>
          \A j \in 1..(i - 1) : t[j].level < t[i].level

\* At level k the clause c is satisfied, or has two literals that are not false.
Open(t, p, k) == \A i \in DOMAIN t : t[i].lit = -p => t[i].level > k
Settled(t, c, k) ==
    \/ \E i \in DOMAIN t : t[i].lit \in c /\ t[i].level <= k
    \/ \E p, q \in c : p # q /\ Open(t, p, k) /\ Open(t, q, k)

\* Propagation was complete at every level before the next one was opened, and
\* since: nothing added later was unit or false at a level still open.  Of the
\* clauses an earlier search left behind (missed) nothing of the kind is said.
LevelsSettled(t, db, n) == \A c \in db : \A k \in 0..(n - 1) : Settled(t, c, k)

-----------------------------------------------------------------------------
(* Phases.                                                                 *)

\* After propagation and before the next decision the current level is settled.
Calm == pc \in {"check", "assume", "branch", "branch2", "complete"}
Analysing == pc \in {"analyze", "learn", "final"}

Phases ==
    /\ pc # "assert"
    /\ pc \in {"idle", "addClause"} => trail_lim = <<>>
    /\ pc \notin {"idle", "addClause"} => solves >= 1 /\ assumptions \in Assumptions[solves]

\* Between analyses their state is clear, but for marks that no call will meet.
Clean ==
    ~ Analysing =>
       /\ pivot = lit_Undef /\ pathC = 0 /\ out_learnt = {}
       /\ seen # {} => pc \in {"idle", "addClause", "done"} /\ solves >= MaxSolves

Marked == {v \in seen : \E i \in 1..index :
                           var(trail[i].lit) = v /\ trail[i].level = decisionLevel}

AnalyzeInv ==
    pc = "analyze" =>
       /\ decisionLevel > 0
       /\ IsClause(confl) /\ index <= nAssigns
       /\ \A q \in confl \ {pivot} : \E i \in 1..index : trail[i].lit = -q
       /\ \A v \in seen : \E i \in 1..index : var(trail[i].lit) = v /\ trail[i].level > 0
       /\ \A i \in 1..index : var(trail[i].lit) \in seen /\ trail[i].level < decisionLevel
                                => -trail[i].lit \in out_learnt
       /\ \A q \in out_learnt :
             /\ var(q) \in seen
             /\ \E i \in 1..index : /\ trail[i].lit = -q
                                    /\ trail[i].level \in 1..(decisionLevel - 1)
       /\ pathC = Cardinality(Marked)
       /\ \/ Marked # {}
          \/ \E i \in 1..index : /\ -trail[i].lit \in confl \ {pivot}
                                 /\ trail[i].level = decisionLevel

LearnInv ==
    pc = "learn" =>
       /\ decisionLevel > 0
       /\ pivot \in Lit
       /\ \A i \in DOMAIN trail :
             var(trail[i].lit) = var(pivot) => trail[i].level = decisionLevel
       /\ seen = {var(q) : q \in out_learnt}
       /\ \A q \in out_learnt :
             \E i \in DOMAIN trail : /\ trail[i].lit = -q
                                     /\ trail[i].level \in 1..(decisionLevel - 1)

FinalInv ==
    pc = "final" =>
       /\ decisionLevel > 0
       /\ pivot \in Lit /\ index <= nAssigns
       /\ pathC = 0 /\ out_learnt = {}
       /\ solves >= MaxSolves

\* The trail itself: what the actions between analyses preserve together.
TrailInv ==
    /\ TrailOK(trail, trail_lim)
    /\ ReasonsOK(trail, DB)
    /\ DecisionsFirst(trail)
    /\ LevelsSettled(trail, Heard, decisionLevel)

CalmInv == Calm => LevelsSettled(trail, Heard, decisionLevel + 1)

\* The conjunction is inductive: every part is needed to preserve the others.
SearchInv ==
    /\ TypeOK /\ TrailInv /\ CalmInv
    /\ Phases /\ Clean
    /\ AnalyzeInv /\ LearnInv /\ FinalInv
=============================================================================
