--------------------------- MODULE CoreSMTSolver ---------------------------
(***************************************************************************)
(* The CDCL(T) engine of src/src/smtsolvers (CoreSMTSolver.C, Theory.C):   *)
(* adding original clauses, solve_ under assumptions, search with unit     *)
(* propagation, theory calls, first-UIP conflict analysis, restarts,       *)
(* clause deletion, and clearSearch.  One object, many calls.              *)
(*                                                                         *)
(* Literals are non-zero integers, a clause is the set of its literals,    *)
(* and the trail carries what vardata holds for an assigned variable.      *)
(* The theory solvers appear through their contract: TModels is the set of *)
(* T-consistent total assignments, each the set of its true literals.      *)
(***************************************************************************)
EXTENDS Integers, Sequences, FiniteSets

CONSTANTS
    Vars,            \* SAT variables, positive integers
    TheoryVars,      \* the variables that stand for theory atoms
    TModels,         \* the T-consistent total assignments
    Splits,          \* <<l1, l2>>: split-on-demand clauses the theory may ask for
    InitialClauses,  \* alternatives for the clauses attached at the start
    NewClauses,      \* clauses added later through addOriginalClause_
    Assumptions,     \* Assumptions[n]: the sequences the nth call may be made with
    CRef_Undef, CRef_Fake,
    restart_first,   \* conflicts before the first restart ...
    restart_inc,     \* ... and the growth of that limit, in tenths
    learnts_first,   \* reduceDB runs from this many learnt clauses on
    MayInterrupt,    \* whether opensmt::stop may be raised during a search
    MaxSolves        \* bound: number of calls of solve_

lit_Undef == 0
var(p) == IF p < 0 THEN -p ELSE p
Lit == Vars \cup {-v : v \in Vars}
Clause == SUBSET Lit
IsClause(r) == r \notin {CRef_Undef, CRef_Fake}

ASSUME VarsAssumption ==
    /\ Vars \subseteq Nat \ {0}
    /\ IsFiniteSet(Vars)
    /\ TheoryVars \subseteq Vars

ASSUME CRefAssumption ==
    /\ CRef_Undef # CRef_Fake
    /\ \A c \in Clause : c # CRef_Undef /\ c # CRef_Fake

\* A T-model decides every variable, and only the theory atoms are constrained.
ASSUME TModelsAssumption ==
    \A m \in TModels : m \subseteq Lit /\ \A v \in Vars : (v \in m) # (-v \in m)

\* A split is a T-valid disjunction of two literals over different theory atoms.
ASSUME SplitsAssumption ==
    \A s \in Splits :
        /\ s \in Lit \X Lit
        /\ var(s[1]) # var(s[2])
        /\ {var(s[1]), var(s[2])} \subseteq TheoryVars
        /\ \A m \in TModels : s[1] \in m \/ s[2] \in m

ASSUME InputAssumption ==
    /\ InitialClauses \subseteq SUBSET Clause
    /\ NewClauses \subseteq Clause
    /\ Assumptions \in [1..MaxSolves -> SUBSET Seq(Lit)]
    /\ \A cs \in InitialClauses : \A c \in cs :
          Cardinality(c) >= 2 /\ \A q \in c : -q \notin c

ASSUME BoundsAssumption ==
    /\ restart_first \in Nat \ {0}
    /\ restart_inc \in Nat
    /\ learnts_first \in Nat
    /\ MaxSolves \in Nat
    /\ MayInterrupt \in BOOLEAN

VARIABLES
    clauses, learnts,   \* the clause database
    decision,           \* variables usable as decisions (addVar_)
    cuts,               \* splits already issued by the theory
    missed, skipped,    \* what a search that ended on a conflict at level 0 left
                        \* behind: clauses whose false watch propagate passed over,
                        \* and the length of the trail it passed over (qhead)
    trail,              \* assigned literals in order, with level and reason
    trail_lim,          \* trail size at the opening of each decision level
    forced_split,       \* the literal the next decision must take
    seen,               \* the marks of analyze and analyzeFinal
    confl, pivot, pathC, index, out_learnt,  \* locals of analyze / analyzeFinal
    assumptions, conflict, model, status, \* arguments and results of solve_
    restarts, conflictC,  \* restarts of this call, conflicts of this search
    ok, stop,           \* CoreSMTSolver::ok, opensmt::stop
    solves, pc,
    formula             \* history: every clause the owner has added

dbVars      == <<clauses, learnts, decision, cuts, missed, skipped>>
trailVars   == <<trail, trail_lim>>
analyzeVars == <<confl, pivot, pathC, index, out_learnt>>
resultVars  == <<conflict, model, status>>
callVars    == <<assumptions, restarts, solves>>
vars == <<dbVars, trailVars, forced_split, seen, analyzeVars, resultVars,
          callVars, conflictC, ok, stop, pc, formula>>

Entry == [lit : Lit, level : Nat, reason : {CRef_Undef, CRef_Fake} \cup Clause]

-----------------------------------------------------------------------------
(* The assignment.                                                         *)

decisionLevel == Len(trail_lim)
nAssigns == Len(trail)

LitsOf(t) == {t[i].lit : i \in DOMAIN t}
TrueLits == LitsOf(trail)
TheoryLits(t) == {p \in LitsOf(t) : var(p) \in TheoryVars}
Unassigned(p) == p \notin TrueLits /\ -p \notin TrueLits

EntryOf(v) == trail[CHOOSE i \in DOMAIN trail : var(trail[i].lit) = v]
LevelOf(v) == EntryOf(v).level

Enqueued(t, p, lev, r) == Append(t, [lit |-> p, level |-> lev, reason |-> r])

\* Mutants of KeptTrail and KeptLim: a return to level 0 empties the trail, and
\* one level too many stays open.
KeptTrailEmpty(lev) ==
    IF decisionLevel <= lev THEN trail
    ELSE IF lev = 0 THEN <<>> ELSE SubSeq(trail, 1, trail_lim[lev + 1])
KeptLimLong(lev) ==
    IF decisionLevel > lev THEN SubSeq(trail_lim, 1, lev + 1) ELSE trail_lim

\* What cancelUntil(lev) leaves of the trail and of trail_lim.
KeptTrail(lev) ==
    IF decisionLevel > lev THEN SubSeq(trail, 1, trail_lim[lev + 1]) ELSE trail
KeptLim(lev) ==
    IF decisionLevel > lev THEN SubSeq(trail_lim, 1, lev) ELSE trail_lim

Satisfied(c) == c \cap TrueLits # {}
Falsified(c) == \A p \in c : -p \in TrueLits
UnitIn(c, p) == p \in c /\ Unassigned(p) /\ Falsified(c \ {p})
locked(c) == \E i \in DOMAIN trail : trail[i].reason = c

\* Mutant of DB: learnt clauses are stored but never attached to watches.
DBOriginalOnly == clauses

DB == clauses \cup learnts

\* The clauses propagate still watches faithfully.
Heard == DB \ missed
Quiescent == \A c \in Heard : ~ Falsified(c) /\ \A p \in c : ~ UnitIn(c, p)

-----------------------------------------------------------------------------
(* The theory's contract: consistency, explanations and entailment.        *)

Consistent(S) == \E m \in TModels : S \subseteq m
Entails(F, c) == \A m \in TModels : (\A d \in F : d \cap m # {}) => c \cap m # {}

\* What getReason may return for the deduced literal at position i: the
\* negations of earlier theory literals that imply it, and the literal itself.
TheoryReasons(i) ==
    LET p == trail[i].lit
    IN {{p} \cup {-q : q \in S} :
            S \in {X \in SUBSET TheoryLits(SubSeq(trail, 1, i - 1)) :
                        ~ Consistent(X \cup {-p})}}

ReasonsFor(i) ==
    IF trail[i].reason = CRef_Fake THEN TheoryReasons(i) ELSE {trail[i].reason}

-----------------------------------------------------------------------------
(* Building the problem: addOriginalClause_ at decision level 0.           *)

Init ==
    /\ clauses \in InitialClauses
    /\ learnts = {} /\ cuts = {} /\ missed = {} /\ skipped = 0
    /\ decision = {var(p) : p \in UNION clauses}
    /\ trail = <<>> /\ trail_lim = <<>>
    /\ forced_split = lit_Undef
    /\ seen = {}
    /\ confl = CRef_Undef /\ pivot = lit_Undef /\ pathC = 0 /\ index = 0
    /\ out_learnt = {}
    /\ assumptions = <<>> /\ conflict = {} /\ model = {} /\ status = "l_Undef"
    /\ restarts = 0 /\ conflictC = 0
    /\ ok = TRUE /\ stop = FALSE
    /\ solves = 0 /\ pc = "idle"
    /\ formula = clauses

\* Mutant of Declared: the variables of a later clause never become decisions.
DeclaredNone(c) == decision

\* addVar_ for the variables of a clause.
Declared(c) == decision \cup {var(p) : p \in c}

\* False literals are dropped, a satisfied or tautological clause is ignored;
\* what is left is a refutation, a unit to propagate, or a clause to attach.
AddOriginalClause(c) ==
    /\ pc = "idle" /\ ok
    /\ formula' = formula \cup {c}
    /\ decision' = Declared(c)
    /\ LET ps == {p \in c : Unassigned(p)}
           ignored == Satisfied(c) \/ \E p \in c : -p \in c
       IN \/ /\ ignored
             /\ UNCHANGED <<clauses, trail, ok, pc>>
          \/ /\ ~ ignored /\ ps = {}
             /\ ok' = FALSE
             /\ UNCHANGED <<clauses, trail, pc>>
          \/ \E p \in ps :
             /\ ~ ignored /\ ps = {p}
             /\ trail' = Enqueued(trail, p, 0, CRef_Undef)
             /\ pc' = "addClause"
             /\ UNCHANGED <<clauses, ok>>
          \/ /\ ~ ignored /\ Cardinality(ps) > 1
             /\ clauses' = clauses \cup {ps}
             /\ UNCHANGED <<trail, ok, pc>>
    /\ UNCHANGED <<learnts, cuts, missed, skipped, trail_lim, forced_split, seen,
                   analyzeVars, resultVars, callVars, conflictC, stop>>

-----------------------------------------------------------------------------
(* solve_: the loop around search, and clearSearch after it.               *)

Solve(as) ==
    /\ pc = "idle" /\ solves < MaxSolves
    /\ solves' = solves + 1
    /\ assumptions' = as
    /\ conflict' = {} /\ model' = {} /\ restarts' = 0 /\ conflictC' = 0
    /\ status' = IF ok THEN "l_Undef" ELSE "l_False"
    /\ pc' = IF ok /\ ~ stop THEN "start" ELSE "done"
    /\ UNCHANGED <<dbVars, trailVars, forced_split, seen, analyzeVars, ok, stop>>

Finish(answer) == status' = answer /\ pc' = "done"

\* Mutant of Stopped: the flag is only looked at before the first decision.
StoppedAtLevel0 ==
    /\ pc \in {"start", "search"} /\ stop /\ decisionLevel = 0
    /\ Finish("l_Undef")
    /\ UNCHANGED <<dbVars, trailVars, forced_split, seen, analyzeVars, conflict,
                   model, callVars, conflictC, ok, stop>>

\* The loop of solve_ is not entered again, or okContinue gives up the search
\* where it stands.
Stopped ==
    /\ pc \in {"start", "search"} /\ stop
    /\ Finish("l_Undef")
    /\ UNCHANGED <<dbVars, trailVars, forced_split, seen, analyzeVars, conflict,
                   model, callVars, conflictC, ok, stop>>

\* opensmt::stop raised from outside, or by okContinue's resource limit.
Interrupt ==
    /\ MayInterrupt /\ ~ stop /\ pc # "idle"
    /\ stop' = TRUE
    /\ UNCHANGED <<dbVars, trailVars, forced_split, seen, analyzeVars, resultVars,
                   callVars, conflictC, ok, pc>>

\* Mutant of clearSearch: the search tree is left in place.
clearSearchNothing ==
    /\ pc = "done"
    /\ pc' = "idle"
    /\ UNCHANGED <<dbVars, trailVars, forced_split, seen, analyzeVars, resultVars,
                   callVars, conflictC, ok, stop>>

clearSearch ==
    /\ pc = "done"
    /\ trail' = KeptTrail(0) /\ trail_lim' = KeptLim(0)
    /\ pc' = "idle"
    /\ UNCHANGED <<dbVars, forced_split, seen, analyzeVars, resultVars, callVars,
                   conflictC, ok, stop>>

-----------------------------------------------------------------------------
(* propagate, in search and in addOriginalClause_: one implied literal per *)
(* step, in any order, until nothing is left or a clause is falsified.     *)

Propagating == pc = "addClause" \/ (pc = "search" /\ ~ stop)

PropagateUnit ==
    /\ Propagating
    /\ \E c \in Heard : \E p \in c :
          /\ UnitIn(c, p)
          /\ trail' = Enqueued(trail, p, decisionLevel, c)
    /\ UNCHANGED <<dbVars, trail_lim, forced_split, seen, analyzeVars, resultVars,
                   callVars, conflictC, ok, stop, pc>>

\* On a conflict the queue counts as propagated (qhead = trail.size()), and at
\* level 0 no cancelUntil takes that back: the literals still in it are never
\* visited.  That concerns every clause that is false or unit now, and any other
\* with a false literal, unless it is satisfied for good.
LeftBehind ==
    LET touched == {c \in DB : ~ Satisfied(c) /\ \E p \in c : -p \in TrueLits}
        pending == {c \in touched : Falsified(c) \/ \E p \in c : UnitIn(c, p)}
    IN /\ skipped' = nAssigns
       /\ \E M \in SUBSET (touched \ pending) : missed' = missed \cup pending \cup M

\* With a watch on a passed-over literal a clause can never be found to be unit;
\* it is found to be false, if at all, at a later literal of the current level.
FoundFalse(c) ==
    /\ Falsified(c)
    /\ c \in missed => \E i \in (skipped + 1)..nAssigns :
                           -trail[i].lit \in c /\ trail[i].level = decisionLevel

\* The refutation that search returns at level 0 is not recorded in ok.
PropagateConflict ==
    /\ Propagating
    /\ \E c \in DB :
          /\ FoundFalse(c)
          /\ \/ /\ pc = "addClause"
                /\ ok' = FALSE /\ pc' = "idle"
                /\ UNCHANGED <<analyzeVars, status, conflictC, missed, skipped>>
             \/ /\ pc = "search" /\ decisionLevel = 0
                /\ Finish("l_False")
                /\ LeftBehind
                /\ UNCHANGED <<analyzeVars, ok, conflictC>>
             \/ /\ pc = "search" /\ decisionLevel > 0
                /\ conflictC' = conflictC + 1
                /\ confl' = c /\ index' = nAssigns /\ pc' = "analyze"
                /\ UNCHANGED <<pivot, pathC, out_learnt, status, ok, missed, skipped>>
    /\ UNCHANGED <<clauses, learnts, decision, cuts, trailVars, forced_split, seen,
                   conflict, model, callVars, stop>>

ClauseAdded ==
    /\ pc = "addClause" /\ Quiescent
    /\ pc' = "idle"
    /\ UNCHANGED <<dbVars, trailVars, forced_split, seen, analyzeVars, resultVars,
                   callVars, conflictC, ok, stop>>

\* restartNextLimit: each limit is the previous one times restart_inc, truncated.
RestartLimit ==
    LET limit[n \in 0..restarts] ==
            IF n = 0 THEN restart_first ELSE (limit[n - 1] * restart_inc) \div 10
    IN limit[restarts]

\* The limit on conflicts of this search is reached: back to level 0, and
\* solve_ calls search again with the next limit.
Restart ==
    /\ pc = "search" /\ ~ stop /\ Quiescent
    /\ conflictC >= RestartLimit
    /\ trail' = KeptTrail(0) /\ trail_lim' = KeptLim(0)
    /\ restarts' = restarts + 1 /\ conflictC' = 0
    /\ pc' = "start"
    /\ UNCHANGED <<dbVars, forced_split, seen, analyzeVars, resultVars, assumptions,
                   solves, ok, stop>>

\* simplify (at level 0, when its counters allow) removes the satisfied learnt
\* clauses, and reduceDB some that are neither binary nor locked.
TidyDB ==
    /\ pc = "search" /\ ~ stop /\ Quiescent
    /\ conflictC < RestartLimit
    /\ \E sat \in {{}, IF decisionLevel = 0 THEN {c \in learnts : Satisfied(c)}
                                              ELSE {}} :
         LET kept == learnts \ sat
             t == [i \in DOMAIN trail |->
                      IF trail[i].reason \in sat
                        THEN [trail[i] EXCEPT !.reason = CRef_Undef] ELSE trail[i]]
             full == Cardinality(kept) - nAssigns >= learnts_first + restarts
             removable == {c \in kept : Cardinality(c) > 2 /\ ~ locked(c)}
         IN /\ trail' = t
            /\ \E gone \in SUBSET removable :
                  /\ ~ full => gone = {}
                  /\ learnts' = kept \ gone
    /\ pc' = "check"
    /\ UNCHANGED <<clauses, decision, cuts, missed, skipped, trail_lim, forced_split, seen,
                   analyzeVars, resultVars, callVars, conflictC, ok, stop>>

-----------------------------------------------------------------------------
(* checkTheory: at the entry of search, after every propagation, and - the *)
(* complete call - when no decision is left.                               *)

Checking == pc \in {"start", "check", "complete"}

\* Where control goes when checkTheory returns TPropRes::Decide.
AfterDecide ==
    CASE pc = "start" -> "search" [] pc = "check" -> "assume" [] OTHER -> "branch2"

\* handleUnsat: the explanation S is a T-inconsistent part of the trail.
TheoryConflict ==
    /\ Checking
    /\ \E S \in SUBSET TheoryLits(trail) :
         LET lev == CHOOSE k \in 0..decisionLevel :
                       /\ \A q \in S : LevelOf(var(q)) <= k
                       /\ k = 0 \/ \E q \in S : LevelOf(var(q)) = k
             t == KeptTrail(lev)
         IN /\ ~ Consistent(S)
            /\ conflictC' = conflictC + 1
            /\ trail' = t /\ trail_lim' = KeptLim(lev)
            /\ \/ /\ lev = 0
                  /\ Finish("l_False")
                  /\ UNCHANGED analyzeVars
               \/ /\ lev > 0
                  /\ confl' = {-q : q \in S} /\ index' = Len(t) /\ pc' = "analyze"
                  /\ UNCHANGED <<pivot, pathC, out_learnt, status>>
    /\ UNCHANGED <<dbVars, forced_split, seen, conflict, model, callVars, ok, stop>>

\* handleSat, new split with both literals unassigned: a clause is attached, its
\* variables become decision variables and the next decision is forced.
TheorySplit ==
    /\ Checking
    /\ \E s \in Splits \ cuts :
         /\ Unassigned(s[1]) /\ Unassigned(s[2])
         /\ cuts' = cuts \cup {s}
         /\ decision' = decision \cup {var(s[1]), var(s[2])}
         /\ clauses' = clauses \cup {{s[1], s[2]}}
         /\ forced_split' = -s[1]
    /\ pc' = AfterDecide
    /\ UNCHANGED <<learnts, missed, skipped, trailVars, seen, analyzeVars, resultVars,
                   callVars, conflictC, ok, stop>>

\* handleSat, new split with one literal false: back to that literal's level,
\* where the other literal is implied.
TheorySplitImplied ==
    /\ Checking
    /\ \E s \in Splits \ cuts : \E lf \in {s[1], s[2]} : \E li \in {s[1], s[2]} \ {lf} :
         LET lev == LevelOf(var(lf))
         IN /\ -lf \in TrueLits /\ Unassigned(li)
            /\ cuts' = cuts \cup {s}
            /\ decision' = decision \cup {var(lf), var(li)}
            /\ clauses' = IF lev = 0 THEN clauses ELSE clauses \cup {{lf, li}}
            /\ trail' = Enqueued(KeptTrail(lev), li, lev,
                                 IF lev = 0 THEN CRef_Undef ELSE {lf, li})
            /\ trail_lim' = KeptLim(lev)
    /\ pc' = "search"
    /\ UNCHANGED <<learnts, missed, skipped, forced_split, seen, analyzeVars, resultVars,
                   callVars, conflictC, ok, stop>>

\* handleSat, theory propagation: deduced literals are enqueued one after the
\* other with the reason CRef_Fake, then the search propagates them.
TheoryDeduce ==
    /\ Checking \/ pc = "deduce"
    /\ \E p \in {q \in Lit : var(q) \in TheoryVars \cap decision} :
         /\ Unassigned(p)
         /\ ~ Consistent(TheoryLits(trail) \cup {-p})
         /\ trail' = Enqueued(trail, p, decisionLevel, CRef_Fake)
    /\ pc' = "deduce"
    /\ UNCHANGED <<dbVars, trail_lim, forced_split, seen, analyzeVars, resultVars,
                   callVars, conflictC, ok, stop>>

DeducedAll ==
    /\ pc = "deduce"
    /\ pc' = "search"
    /\ UNCHANGED <<dbVars, trailVars, forced_split, seen, analyzeVars, resultVars,
                   callVars, conflictC, ok, stop>>

\* Nothing found: the check was skipped, or incomplete, or the theory is
\* satisfied.  The complete check cannot miss an inconsistency.
TheoryPass ==
    /\ Checking
    /\ pc = "complete" => Consistent(TheoryLits(trail))
    /\ pc' = AfterDecide
    /\ UNCHANGED <<dbVars, trailVars, forced_split, seen, analyzeVars, resultVars,
                   callVars, conflictC, ok, stop>>

-----------------------------------------------------------------------------
(* Conflict analysis: one iteration of the do-while loop of analyze per    *)
(* step, then minimisation, backjump and learning in one.                  *)

\* Mutant of Above0: off by one, the first assumption counts as a fact.
Above1(ps) == {q \in ps : LevelOf(var(q)) > 1}

\* The literals of a reason that have to be marked: level 0 is never undone.
Above0(ps) == {q \in ps : LevelOf(var(q)) > 0}

\* Mutant of IsTopSeen: the walk takes the last literal without looking at seen.
IsTopAny(i, S) == i = index

\* Position i holds the topmost literal of positions 1..index whose mark is in S.
IsTopSeen(i, S) ==
    /\ var(trail[i].lit) \in S
    /\ \A j \in (i + 1)..index : var(trail[j].lit) \notin S

\* cancelUntilVar for the variable at position i: it leaves the trail too.
CancelVarLim(i) ==
    IF decisionLevel > trail[i].level
      THEN SubSeq(trail_lim, 1, trail[i - 1].level) ELSE trail_lim

AnalyzeStep ==
    /\ pc = "analyze"
    /\ LET new == {q \in Above0(confl \ {pivot}) : var(q) \notin seen}
           here == {q \in new : LevelOf(var(q)) >= decisionLevel}
           S == seen \cup {var(q) : q \in new}
           n == pathC + Cardinality(here) - 1
       IN \E i \in 1..index : \E r \in ReasonsFor(i) :
             /\ IsTopSeen(i, S)
             /\ pivot' = trail[i].lit
             /\ out_learnt' = out_learnt \cup (new \ here)
             /\ seen' = S \ {var(trail[i].lit)}
             /\ pathC' = n
             /\ index' = i - 1
             /\ confl' = r
             /\ IF trail[i].reason = CRef_Fake
                  THEN /\ trail' = SubSeq(trail, 1, i - 1)
                       /\ trail_lim' = CancelVarLim(i)
                  ELSE UNCHANGED trailVars
             /\ pc' = IF n <= 0 THEN "learn"
                      ELSE IF r = CRef_Undef THEN "assert" ELSE "analyze"
    /\ UNCHANGED <<dbVars, forced_split, resultVars, callVars, conflictC, ok, stop>>

\* Mutant of Redundant: a literal without a stored reason counts as discharged.
RedundantUnchecked(S) ==
    UNION {R \in SUBSET (DOMAIN trail) :
              \A i \in R : IsClause(trail[i].reason) =>
                 \A q \in trail[i].reason \ {trail[i].lit} :
                    \/ LevelOf(var(q)) = 0
                    \/ var(q) \in S
                    \/ \E j \in R : trail[j].lit = -q}

\* The marked positions litRedundant can discharge: the reason is a stored
\* clause whose other literals are at level 0, marked, or discharged themselves.
Redundant(S) ==
    UNION {R \in SUBSET (DOMAIN trail) :
              \A i \in R :
                 /\ IsClause(trail[i].reason)
                 /\ \A q \in trail[i].reason \ {trail[i].lit} :
                       \/ LevelOf(var(q)) = 0
                       \/ var(q) \in S
                       \/ \E j \in R : trail[j].lit = -q}

Minimized(S) ==
    out_learnt \ {-trail[i].lit : i \in Redundant(S)}

\* Mutant of BacktrackLevel: the lowest of the other literals' levels.
BacktrackLevelLowest(others) ==
    IF others = {} THEN 0
    ELSE CHOOSE k \in {LevelOf(var(q)) : q \in others} :
            \A q \in others : LevelOf(var(q)) >= k

\* The level analyze hands to cancelUntil: the highest of the other literals.
BacktrackLevel(others) ==
    IF others = {} THEN 0
    ELSE CHOOSE k \in {LevelOf(var(q)) : q \in others} :
            \A q \in others : LevelOf(var(q)) <= k

\* Mutant of Toclear: the literals dropped by minimisation keep their marks.
ToclearKept ==
    {var(pivot)} \cup {var(q) : q \in Minimized(seen \cup {var(p) : p \in out_learnt})}

\* analyze_toclear: the variables whose marks analyze takes back at its end.
Toclear == {var(pivot)} \cup {var(q) : q \in out_learnt}

Learn ==
    /\ pc = "learn"
    /\ LET others == Minimized(seen \cup Toclear)
           lev == BacktrackLevel(others)
           learnt == {-pivot} \cup others
           unit == others = {}
       IN /\ seen' = seen \ Toclear
          /\ trail' = Enqueued(KeptTrail(lev), -pivot, lev,
                               IF unit THEN CRef_Undef ELSE learnt)
          /\ trail_lim' = KeptLim(lev)
          /\ learnts' = IF unit THEN learnts ELSE learnts \cup {learnt}
          /\ pc' = IF {pivot, -pivot} \cap LitsOf(KeptTrail(lev)) = {}
                     THEN "search" ELSE "assert"
    /\ confl' = CRef_Undef /\ pivot' = lit_Undef /\ pathC' = 0 /\ index' = 0
    /\ out_learnt' = {}
    /\ UNCHANGED <<clauses, decision, cuts, missed, skipped, forced_split, resultVars,
                   callVars, conflictC, ok, stop>>

-----------------------------------------------------------------------------
(* Assumptions, decisions, and the final conflict.                         *)

\* Mutant of AssumeNext: no dummy level for an assumption that is already true.
AssumeNextNoDummy ==
    /\ pc = "assume" /\ decisionLevel < Len(assumptions)
    /\ LET p == assumptions[decisionLevel + 1]
       IN \/ /\ p \in TrueLits
             /\ UNCHANGED <<trailVars, seen, pivot, index, conflict, status, pc>>
          \/ /\ Unassigned(p)
             /\ trail_lim' = Append(trail_lim, nAssigns)
             /\ trail' = Enqueued(trail, p, decisionLevel + 1, CRef_Undef)
             /\ pc' = "search"
             /\ UNCHANGED <<seen, pivot, index, conflict, status>>
    /\ UNCHANGED <<dbVars, forced_split, confl, pathC, out_learnt, model, callVars,
                   conflictC, ok, stop>>

\* One turn of the assumption loop.
AssumeNext ==
    /\ pc = "assume" /\ decisionLevel < Len(assumptions)
    /\ LET p == assumptions[decisionLevel + 1]
       IN \/ /\ p \in TrueLits
             /\ trail_lim' = Append(trail_lim, nAssigns)
             /\ UNCHANGED <<trail, seen, pivot, index, conflict, status, pc>>
          \/ /\ -p \in TrueLits
             /\ conflict' = {-p}
             /\ IF decisionLevel = 0
                  THEN Finish("l_False") /\ UNCHANGED <<seen, pivot, index>>
                  ELSE /\ seen' = seen \cup {var(p)}
                       /\ pivot' = p /\ index' = nAssigns /\ pc' = "final"
                       /\ UNCHANGED status
             /\ UNCHANGED trailVars
          \/ /\ Unassigned(p)
             /\ trail_lim' = Append(trail_lim, nAssigns)
             /\ trail' = Enqueued(trail, p, decisionLevel + 1, CRef_Undef)
             /\ pc' = "search"
             /\ UNCHANGED <<seen, pivot, index, conflict, status>>
    /\ UNCHANGED <<dbVars, forced_split, confl, pathC, out_learnt, model, callVars,
                   conflictC, ok, stop>>

\* analyzeFinal walks the marked part of the trail downwards.  The mark of an
\* implied variable is taken back, that of a decision is not.
FinalStep ==
    /\ pc = "final"
    /\ \E i \in (trail_lim[1] + 1)..index : \E r \in ReasonsFor(i) :
         LET x == var(trail[i].lit)
         IN /\ IsTopSeen(i, seen)
            /\ index' = i - 1
            /\ IF r = CRef_Undef
                 THEN /\ conflict' = conflict \cup {-trail[i].lit}
                      /\ UNCHANGED seen
                 ELSE /\ seen' = (seen \cup {var(q) : q \in Above0(r \ {trail[i].lit})})
                                 \ {x}
                      /\ UNCHANGED conflict
    /\ UNCHANGED <<dbVars, trailVars, forced_split, confl, pivot, pathC, out_learnt,
                   model, status, callVars, conflictC, ok, stop, pc>>

FinalDone ==
    /\ pc = "final"
    /\ \A i \in (trail_lim[1] + 1)..index : var(trail[i].lit) \notin seen
    /\ seen' = seen \ {var(pivot)}
    /\ pivot' = lit_Undef /\ index' = 0
    /\ Finish("l_False")
    /\ UNCHANGED <<dbVars, trailVars, forced_split, confl, pathC, out_learnt, conflict,
                   model, callVars, conflictC, ok, stop>>

AssumptionsDone ==
    /\ pc = "assume" /\ decisionLevel >= Len(assumptions)
    /\ pc' = "branch"
    /\ UNCHANGED <<dbVars, trailVars, forced_split, seen, analyzeVars, resultVars,
                   callVars, conflictC, ok, stop>>

Branching == pc \in {"branch", "branch2"}

\* pickBranchLit: the forced literal if there is one, else any unassigned
\* decision variable with any sign.
Candidates ==
    IF forced_split # lit_Undef THEN {forced_split}
    ELSE {p \in Lit : var(p) \in decision /\ Unassigned(p)}

Decide ==
    /\ Branching
    /\ \E p \in Candidates :
         IF Unassigned(p)
           THEN /\ trail_lim' = Append(trail_lim, nAssigns)
                /\ trail' = Enqueued(trail, p, decisionLevel + 1, CRef_Undef)
           ELSE UNCHANGED trailVars   \* "This case may happen only during DTC"
    /\ forced_split' = lit_Undef
    /\ pc' = "search"
    /\ UNCHANGED <<dbVars, seen, analyzeVars, resultVars, callVars, conflictC, ok, stop>>

\* Mutant of NoDecision: no complete theory check before the answer.
NoDecisionUnchecked ==
    /\ Branching /\ Candidates = {}
    /\ Finish("l_True") /\ model' = TrueLits
    /\ UNCHANGED <<dbVars, trailVars, forced_split, seen, analyzeVars, conflict,
                   callVars, conflictC, ok, stop>>

NoDecision ==
    /\ Branching /\ Candidates = {}
    /\ IF pc = "branch"
         THEN pc' = "complete" /\ UNCHANGED <<model, status>>
         ELSE Finish("l_True") /\ model' = TrueLits
    /\ UNCHANGED <<dbVars, trailVars, forced_split, seen, analyzeVars, conflict,
                   callVars, conflictC, ok, stop>>

-----------------------------------------------------------------------------

Propagation == PropagateUnit \/ PropagateConflict \/ ClauseAdded
TheoryCheck == \/ TheoryConflict \/ TheorySplit \/ TheorySplitImplied
               \/ TheoryDeduce \/ DeducedAll \/ TheoryPass
Analysis == AnalyzeStep \/ Learn \/ FinalStep \/ FinalDone
Deciding == AssumeNext \/ AssumptionsDone \/ Decide \/ NoDecision

\* The steps the solver takes by itself once it was called.
Step == \/ Propagation \/ TheoryCheck \/ Analysis \/ Deciding
        \/ Stopped \/ Restart \/ TidyDB \/ clearSearch

Run == (Step \/ Interrupt) /\ UNCHANGED formula

\* Calls by the owner of the solver, and the interrupt.
Call == \/ \E c \in NewClauses : AddOriginalClause(c)
        \/ /\ solves < MaxSolves
           /\ \E as \in Assumptions[solves + 1] : Solve(as)
           /\ UNCHANGED formula

Next == Run \/ Call

Spec == Init /\ [][Next]_vars
FairSpec == Spec /\ WF_vars(Step /\ UNCHANGED formula)

-----------------------------------------------------------------------------
(* Properties.                                                             *)

\* Types of the whole state of the solver object.
TypeOK ==
    /\ clauses \subseteq Clause /\ learnts \subseteq Clause
    /\ decision \subseteq Vars /\ cuts \subseteq Splits
    /\ missed \subseteq Clause /\ skipped \in Nat
    /\ trail \in Seq(Entry) /\ trail_lim \in Seq(Nat)
    /\ forced_split \in Lit \cup {lit_Undef}
    /\ seen \subseteq Vars
    /\ confl \in {CRef_Undef, CRef_Fake} \cup Clause
    /\ pivot \in Lit \cup {lit_Undef}
    /\ pathC \in Int /\ index \in Nat /\ out_learnt \subseteq Lit
    /\ assumptions \in Seq(Lit)
    /\ conflict \subseteq Lit /\ model \subseteq Lit
    /\ status \in {"l_True", "l_False", "l_Undef"}
    /\ restarts \in Nat /\ conflictC \in Nat
    /\ ok \in BOOLEAN /\ stop \in BOOLEAN
    /\ solves \in 0..MaxSolves
    /\ pc \in {"idle", "addClause", "start", "search", "check", "deduce", "analyze",
               "learn", "assume", "final", "branch", "branch2", "complete", "done",
               "assert"}
    /\ formula \subseteq Clause

\* The trail assigns a variable once, and an entry's level is the number of
\* decision levels that were open when it was enqueued: cancelUntil,
\* cancelUntilVar and the theory's own backjumps keep trail, trail_lim and
\* vardata in step.
TrailConsistent ==
    /\ \A i, j \in DOMAIN trail : var(trail[i].lit) = var(trail[j].lit) => i = j
    /\ \A k, l \in DOMAIN trail_lim :
          /\ trail_lim[k] <= nAssigns
          /\ k <= l => trail_lim[k] <= trail_lim[l]
    /\ \A i \in DOMAIN trail :
          /\ trail[i].level <= decisionLevel
          /\ \A k \in DOMAIN trail_lim : trail_lim[k] < i <=> k <= trail[i].level

\* A stored reason implies its literal from literals that were assigned before
\* it, one of them at the same level ("You should always backtrack to the
\* appropriate level before doing propagations"), and is still in the database
\* (reduceDB and simplify never free a locked clause).
ReasonsInOrder ==
    \A i \in DOMAIN trail :
       LET e == trail[i]
       IN IsClause(e.reason) =>
            /\ e.lit \in e.reason /\ e.reason \in DB
            /\ \A q \in e.reason \ {e.lit} : \E j \in 1..(i - 1) : trail[j].lit = -q
            /\ e.level > 0 =>
                  \E j \in 1..(i - 1) : -trail[j].lit \in e.reason /\ trail[j].level = e.level

\* analyze reaches a first UIP: there is always a marked literal left to resolve
\* on, pathC counts those of the current level, and the clause it ends with is
\* falsified by one literal of the current level (analyze may have taken its
\* assignment back to ask for a theory reason) and otherwise by the literals
\* still marked, all of lower levels and none of level 0.
UIPReached ==
    /\ pc # "assert"
    /\ pc = "analyze" =>
          /\ \E i \in 1..index :
                \/ var(trail[i].lit) \in seen
                \/ -trail[i].lit \in confl \ {pivot} /\ trail[i].level > 0
          /\ pathC = Cardinality({i \in 1..index : /\ var(trail[i].lit) \in seen
                                                   /\ trail[i].level = decisionLevel})
    /\ pc = "learn" =>
          /\ \A i \in DOMAIN trail :
                var(trail[i].lit) = var(pivot) => trail[i].level = decisionLevel
          /\ seen = {var(q) : q \in out_learnt}
          /\ \A q \in out_learnt :
                -q \in TrueLits /\ LevelOf(var(q)) \in 1..(decisionLevel - 1)

\* No mark survives outside the analyses of one call ("'seen[]' is now cleared").
SeenCleared ==
    pc \notin {"analyze", "learn", "final", "done", "idle", "addClause"} => seen = {}

\* What analyze, the theory and addOriginalClause_ conclude for good - learnt
\* clauses and the literals assigned at level 0 - follows from the clauses given
\* to the solver, modulo the theory, whatever was assumed when it was found.
LearntsEntailed ==
    /\ \A c \in learnts : Entails(formula, c)
    /\ \A i \in DOMAIN trail : trail[i].level = 0 => Entails(formula, {trail[i].lit})

Models(F) == {m \in TModels : \A d \in F : d \cap m # {}}
Assumed == {assumptions[k] : k \in DOMAIN assumptions}

\* search: l_True means the model found extends to a T-model of the formula that
\* meets the assumptions - as long as no earlier search left clauses behind at
\* level 0.  (With clauses left behind l_True can be wrong: ImplementsStack.)
SatCorrect ==
    pc = "done" /\ status = "l_True" /\ missed = {} =>
        \E m \in Models(formula) : model \cup Assumed \subseteq m

\* analyzeFinal: on l_False the final conflict consists of negated assumptions
\* (none, when the clauses alone are unsatisfiable) and follows from the formula.
ConflictCorrect ==
    pc = "done" /\ status = "l_False" =>
        conflict \subseteq {-p : p \in Assumed} /\ Entails(formula, conflict)

\* Either answer of a search is right: unsat always, sat until a search has
\* ended on a conflict at level 0.
AnswersCorrect == SatCorrect /\ ConflictCorrect

\* A literal assigned at level 0 is never taken back.
Level0Kept ==
    [][\A i \in DOMAIN trail : trail[i].level = 0 =>
          \E j \in DOMAIN trail' : trail'[j].lit = trail[i].lit /\ trail'[j].level = 0]_vars

\* Every analysed conflict yields something new: a clause the database did not
\* hold or a unit at level 0.  The search could otherwise repeat itself.
LearnsNew ==
    [][pc = "learn" /\ pc' # pc => learnts' # learnts \/ trail_lim' = <<>>]_vars

\* A raised stop flag ends the search, wherever it was.
StopReturns == stop ~> pc \in {"done", "idle"}

\* Every call of solve_ returns, restarts and clause deletion included.
Termination == pc = "start" ~> pc = "done"

=============================================================================
