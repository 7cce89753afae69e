--------------------------- MODULE Soundness_proofs ---------------------------
(***************************************************************************)
(* SoundInv is preserved by every step of CoreSMTSolver that preserves     *)
(* SearchInv; learnt clauses, literals of level 0 and both answers of a    *)
(* call are right, for any problem, theory and bounds.                     *)
(***************************************************************************)
EXTENDS SearchInvariant_proofs, Soundness

-----------------------------------------------------------------------------
(* Models and entailment.                                                  *)

\* A T-model holds exactly one of two complementary literals.
LEMMA ModelFacts ==
    ASSUME NEW m \in TModels
    PROVE  /\ m \subseteq Lit
           /\ \A p \in Lit : p \in m <=> -p \notin m
  <1>1. m \subseteq Lit /\ \A v \in Vars : v \in m <=> -v \notin m
    BY TModelsAssumption
  <1>2. ASSUME NEW v \in Vars
        PROVE  /\ v \in m <=> -v \notin m
               /\ -v \in m <=> -(-v) \notin m
    BY <1>1, VarsAssumption
  <1> QED
    BY <1>1, <1>2 DEF Lit

\* Entailment in terms of the models of the formula.
LEMMA EntailsModels ==
    ASSUME NEW F, NEW c
    PROVE  Entails(F, c) <=> \A m \in Models(F) : c \cap m # {}
  BY DEF Entails, Models

\* A larger set of clauses entails more, and a larger clause is weaker.
LEMMA EntailsMono ==
    ASSUME NEW F, NEW G, F \subseteq G, NEW c, NEW d, c \subseteq d, Entails(F, c)
    PROVE  Entails(G, d)
  <1>1. \A m \in Models(G) : m \in Models(F)
    BY DEF Models
  <1> QED
    BY <1>1, EntailsModels

\* Literals whose negations follow can be left out of a clause that follows.
LEMMA EntailsDrop ==
    ASSUME NEW F, NEW c \in SUBSET Lit, NEW d, Entails(F, c),
           \A q \in c \ d : Entails(F, {-q})
    PROVE  Entails(F, d)
  <1> SUFFICES ASSUME NEW m \in Models(F), d \cap m = {}
               PROVE  FALSE
    BY EntailsModels
  <1>1. PICK q \in c : q \in m
    BY EntailsModels
  <1>2. -q \in m
    BY <1>1, EntailsModels
  <1>3. m \in TModels /\ q \in Lit
    BY DEF Models
  <1> QED
    BY <1>1, <1>2, <1>3, ModelFacts

\* What an inconsistent set of literals says as a clause holds in the theory.
LEMMA TheoryClause ==
    ASSUME NEW F, NEW S \in SUBSET Lit, ~ Consistent(S)
    PROVE  Entails(F, {-q : q \in S})
  <1> SUFFICES ASSUME NEW m \in Models(F), {-q : q \in S} \cap m = {}
               PROVE  FALSE
    BY EntailsModels
  <1>1. m \in TModels
    BY DEF Models
  <1>2. \A q \in S : q \in m
    BY <1>1, ModelFacts
  <1> QED
    BY <1>1, <1>2 DEF Consistent

-----------------------------------------------------------------------------
(* The literals of level 0.                                                *)

\* Every literal of level 0 is a literal that is true.
LEMMA ZeroFacts ==
    ASSUME NEW t \in Seq(Entry)
    PROVE  /\ AtZero(t) \subseteq Lit
           /\ \A p : p \in AtZero(t) <=> \E i \in 1..Len(t) : t[i].lit = p /\ t[i].level = 0
  BY TrailFacts DEF AtZero

LEMMA ZeroEnqueued ==
    ASSUME NEW t \in Seq(Entry), NEW p \in Lit, NEW lev \in Nat,
           NEW r \in {CRef_Undef, CRef_Fake} \cup Clause
    PROVE  AtZero(Enqueued(t, p, lev, r)) = IF lev = 0 THEN AtZero(t) \cup {p} ELSE AtZero(t)
  <1> DEFINE u == Enqueued(t, p, lev, r)
             n == Len(t) + 1
  <1>1. /\ u \in Seq(Entry) /\ Len(u) = n
        /\ \A i \in 1..Len(t) : u[i] = t[i]
        /\ u[n].lit = p /\ u[n].level = lev
    BY EnqueuedFacts
  <1>2. Len(t) \in Nat
    BY TrailFacts
  <1> HIDE DEF u
  <1>3. \A i \in 1..n : i \in 1..Len(t) \/ i = n
    BY <1>2
  <1>4. n \in 1..n /\ \A i \in 1..Len(t) : i \in 1..n
    BY <1>2
  <1>5. \A q : q \in AtZero(u) <=> \E i \in 1..n : u[i].lit = q /\ u[i].level = 0
    BY <1>1, ZeroFacts
  <1>6. \A q : q \in AtZero(t) <=> \E i \in 1..Len(t) : t[i].lit = q /\ t[i].level = 0
    BY ZeroFacts
  <1>7. ASSUME NEW q PROVE q \in AtZero(u) <=> q \in AtZero(t) \/ (lev = 0 /\ q = p)
    BY <1>1, <1>3, <1>4, <1>5, <1>6
  <1>8. CASE lev = 0
    BY <1>7, <1>8 DEF u
  <1>9. CASE lev # 0
    BY <1>7, <1>9 DEF u
  <1> QED
    BY <1>8, <1>9

\* No backjump takes a literal of level 0 back.
LEMMA ZeroKept ==
    ASSUME trail \in Seq(Entry), trail_lim \in Seq(Nat), TrailOK(trail, trail_lim),
           NEW lev \in 0..decisionLevel
    PROVE  AtZero(KeptTrail(lev)) = AtZero(trail)
  <1> DEFINE u == KeptTrail(lev)
  <1>1. /\ u \in Seq(Entry) /\ Len(u) \in 0..nAssigns
        /\ \A i \in 1..Len(u) : u[i] = trail[i]
        /\ \A i \in 1..nAssigns : trail[i].level <= lev => i \in 1..Len(u)
    BY KeptFacts
  <1>2. nAssigns \in Nat /\ lev \in Nat
    BY SeqFacts DEF nAssigns, decisionLevel
  <1> HIDE DEF u
  <1>3. \A i \in 1..Len(u) : i \in 1..nAssigns
    BY <1>1, <1>2
  <1>4. \A q : q \in AtZero(u) <=> \E i \in 1..Len(u) : u[i].lit = q /\ u[i].level = 0
    BY <1>1, ZeroFacts
  <1>5. \A q : q \in AtZero(trail) <=> \E i \in 1..nAssigns : trail[i].lit = q /\ trail[i].level = 0
    BY ZeroFacts DEF nAssigns
  <1>6. ASSUME NEW q \in AtZero(u) PROVE q \in AtZero(trail)
    <2>1. PICK i \in 1..Len(u) : u[i].lit = q /\ u[i].level = 0
      BY <1>4
    <2>2. i \in 1..nAssigns /\ trail[i] = u[i]
      BY <1>1, <1>3
    <2>3. trail[i].lit = q /\ trail[i].level = 0
      BY <2>1, <2>2
    <2> QED
      BY <1>5, <2>2, <2>3
  <1>7. ASSUME NEW q \in AtZero(trail) PROVE q \in AtZero(u)
    <2>1. PICK i \in 1..nAssigns : trail[i].lit = q /\ trail[i].level = 0
      BY <1>5
    <2>2. i \in 1..Len(u)
      BY <1>1, <1>2, <2>1
    <2> QED
      BY <1>1, <1>4, <2>1, <2>2
  <1> QED
    BY <1>6, <1>7 DEF u

-----------------------------------------------------------------------------
(* What a step has to show of each part.                                   *)

\* The state SearchInv describes, as the steps below use it.
LEMMA StateFacts ==
    ASSUME SearchInv
    PROVE  /\ trail \in Seq(Entry) /\ trail_lim \in Seq(Nat) /\ TrailOK(trail, trail_lim)
           /\ nAssigns \in Nat /\ DOMAIN trail = 1..nAssigns /\ nAssigns = Len(trail)
           /\ decisionLevel \in Nat /\ decisionLevel = Len(trail_lim)
           /\ \A i \in 1..nAssigns : /\ trail[i].lit \in Lit /\ trail[i].level \in Nat
                                     /\ trail[i].level <= decisionLevel
           /\ \A c \in DB : c \subseteq Lit
           /\ assumptions \in Seq(Lit) /\ Len(assumptions) \in Nat
           /\ conflict \subseteq Lit
  <1>1. /\ trail \in Seq(Entry) /\ trail_lim \in Seq(Nat) /\ TrailOK(trail, trail_lim)
        /\ assumptions \in Seq(Lit) /\ conflict \subseteq Lit
    BY DEF SearchInv, TypeOK, TrailInv
  <1>2. /\ DOMAIN trail = 1..Len(trail) /\ Len(trail) \in Nat /\ Len(trail_lim) \in Nat
        /\ Len(assumptions) \in Nat
    BY <1>1, SeqFacts
  <1>3. \A i \in 1..Len(trail) : trail[i].lit \in Lit /\ trail[i].level \in Nat
    BY <1>1, TrailFacts
  <1>4. \A i \in 1..Len(trail) : trail[i].level <= Len(trail_lim)
    BY <1>1, <1>2 DEF TrailOK
  <1>5. \A c \in DB : c \subseteq Lit
    BY DEF SearchInv, TypeOK, DB, Clause
  <1> QED
    BY <1>1, <1>2, <1>3, <1>4, <1>5 DEF nAssigns, decisionLevel

\* The database: nothing decided is lost, what is new follows.
LEMMA DatabaseStep ==
    ASSUME DatabaseInv, UNCHANGED <<formula, ok>>,
           clauses \subseteq clauses', decision \subseteq decision',
           \A c \in DB' : c \in DB \/ Entails(formula, c),
           \A c \in clauses' : c \in clauses \/ \A q \in c : var(q) \in decision',
           AtZero(trail) \subseteq AtZero(trail'),
           \A p \in AtZero(trail') : p \in AtZero(trail) \/ Entails(formula, {p}),
           missed' = missed \/ \A c \in missed' : \E q \in c : -q \in AtZero(trail')
    PROVE  DatabaseInv'
  <1>1. \A c \in DB' : Entails(formula', c)
    BY DEF DatabaseInv
  <1>2. \A p \in AtZero(trail') : Entails(formula', {p})
    BY DEF DatabaseInv
  <1>3. \A d : Kept(d) => Kept(d)'
    BY DEF Kept
  <1>4. IF ok' THEN \A d \in formula' : Kept(d)' ELSE Entails(formula', {})
    BY <1>3 DEF DatabaseInv
  <1>5. \A c \in clauses' : \A q \in c : var(q) \in decision'
    BY DEF DatabaseInv
  <1>6. \A c \in missed' : \E q \in c : -q \in AtZero(trail')
    BY DEF DatabaseInv
  <1> QED
    BY <1>1, <1>2, <1>4, <1>5, <1>6 DEF DatabaseInv

LEMMA DatabaseSame ==
    ASSUME DatabaseInv, UNCHANGED <<clauses, learnts, missed, decision, trail, formula, ok>>
    PROVE  DatabaseInv'
  BY DatabaseStep DEF DB

\* Assumptions hold on after a literal was enqueued ...
LEMMA AssumedEnqueued ==
    ASSUME NEW t \in Seq(Entry), NEW as \in Seq(Lit), NEW n \in Nat, AssumedUpTo(t, as, n),
           NEW p \in Lit, NEW lev \in Nat, NEW r \in {CRef_Undef, CRef_Fake} \cup Clause
    PROVE  AssumedUpTo(Enqueued(t, p, lev, r), as, n)
  <1> DEFINE u == Enqueued(t, p, lev, r)
  <1>1. /\ DOMAIN u = 1..(Len(t) + 1)
        /\ \A i \in 1..Len(t) : u[i] = t[i]
    BY EnqueuedFacts
  <1>2. DOMAIN t = 1..Len(t) /\ Len(t) \in Nat
    BY TrailFacts
  <1> HIDE DEF u
  <1>3. \A i \in DOMAIN t : i \in DOMAIN u /\ u[i] = t[i]
    BY <1>1, <1>2
  <1>4. AssumedUpTo(u, as, n)
    BY <1>3 DEF AssumedUpTo
  <1> QED
    BY <1>4 DEF u

LEMMA FirstEnqueued ==
    ASSUME NEW t \in Seq(Entry), NEW as \in Seq(Lit), AssumptionsFirst(t, as),
           NEW p \in Lit, NEW lev \in Nat, NEW r \in {CRef_Undef, CRef_Fake} \cup Clause,
           r = CRef_Undef /\ lev > 0 /\ lev <= Len(as) => p = as[lev]
    PROVE  AssumptionsFirst(Enqueued(t, p, lev, r), as)
  <1> DEFINE u == Enqueued(t, p, lev, r)
             n == Len(t) + 1
  <1>1. /\ DOMAIN u = 1..n
        /\ \A i \in 1..Len(t) : u[i] = t[i]
        /\ u[n].lit = p /\ u[n].level = lev /\ u[n].reason = r
    BY EnqueuedFacts
  <1>2. DOMAIN t = 1..Len(t) /\ Len(t) \in Nat
    BY TrailFacts
  <1> HIDE DEF u
  <1>3. ASSUME NEW i \in 1..n
        PROVE  u[i].reason = CRef_Undef /\ u[i].level > 0 /\ u[i].level <= Len(as)
               => u[i].lit = as[u[i].level]
    <2>1. CASE i = n
      BY <1>1, <2>1
    <2>2. CASE i \in 1..Len(t)
      BY <1>1, <1>2, <2>2 DEF AssumptionsFirst
    <2>3. i = n \/ i \in 1..Len(t)
      BY <1>2
    <2> QED
      BY <2>1, <2>2, <2>3
  <1>4. AssumptionsFirst(u, as)
    BY <1>1, <1>3 DEF AssumptionsFirst
  <1> QED
    BY <1>4 DEF u

\* ... and after a backjump.
LEMMA AssumedKept ==
    ASSUME trail \in Seq(Entry), trail_lim \in Seq(Nat), TrailOK(trail, trail_lim),
           NEW lev \in 0..decisionLevel, NEW as, AssumptionsFirst(trail, as)
    PROVE  /\ AssumptionsFirst(KeptTrail(lev), as)
           /\ \A n \in Nat : lev <= n /\ AssumedUpTo(trail, as, n)
                 => AssumedUpTo(KeptTrail(lev), as, lev)
  <1> DEFINE u == KeptTrail(lev)
  <1>1. /\ u \in Seq(Entry) /\ Len(u) \in 0..nAssigns
        /\ \A i \in 1..Len(u) : u[i] = trail[i]
        /\ \A i \in 1..nAssigns : trail[i].level <= lev => i \in 1..Len(u)
    BY KeptFacts
  <1>2. /\ nAssigns \in Nat /\ lev \in Nat /\ DOMAIN trail = 1..nAssigns
        /\ DOMAIN u = 1..Len(u)
        /\ \A i \in 1..nAssigns : trail[i].level \in Nat
    BY <1>1, SeqFacts, TrailFacts DEF nAssigns, decisionLevel
  <1> HIDE DEF u
  <1>3. \A i \in DOMAIN u : i \in DOMAIN trail /\ u[i] = trail[i]
    BY <1>1, <1>2
  <1>4. AssumptionsFirst(u, as)
    BY <1>3 DEF AssumptionsFirst
  <1>5. ASSUME NEW n \in Nat, lev <= n, AssumedUpTo(trail, as, n)
        PROVE  AssumedUpTo(u, as, lev)
    <2> SUFFICES ASSUME NEW k \in 1..lev, k <= Len(as)
                 PROVE  \E i \in DOMAIN u : u[i].lit = as[k] /\ u[i].level <= k
      BY DEF AssumedUpTo
    <2>0. k \in 1..n
      BY <1>2, <1>5
    <2>1. PICK i \in DOMAIN trail : trail[i].lit = as[k] /\ trail[i].level <= k
      BY <1>5, <2>0 DEF AssumedUpTo
    <2>2. trail[i].level <= lev
      BY <1>2, <2>1
    <2>3. i \in DOMAIN u
      BY <1>1, <1>2, <2>2
    <2> QED
      BY <1>3, <2>1, <2>3
  <1> QED
    BY <1>4, <1>5 DEF u

\* A step that leaves the trail alone, between states of a search.
LEMMA AssumptionSame ==
    ASSUME AssumptionInv, UNCHANGED <<trail, trail_lim, assumptions>>,
           pc \notin {"analyze", "learn"}, pc' \notin {"analyze", "learn", "final"},
           pc' \in {"branch", "branch2", "complete"} => decisionLevel >= Len(assumptions)
    PROVE  AssumptionInv'
  BY DEF AssumptionInv, decisionLevel

\* Neither an answer nor the search for a final conflict.
LEMMA AnswerRunning ==
    ASSUME AnswerInv, UNCHANGED <<conflict, ok>>,
           pc \notin {"idle", "addClause", "final", "done"},
           pc' \notin {"idle", "addClause", "final", "done", "branch2"}
    PROVE  AnswerInv'
  BY DEF AnswerInv, AnswersCorrect, SatCorrect, ConflictCorrect

LEMMA ResolventQuiet ==
    ASSUME pc' \notin {"analyze", "learn", "final"}
    PROVE  ResolventInv'
  BY DEF ResolventInv

\* A call that ends without an answer.
LEMMA AnswerUnknown ==
    ASSUME pc' = "done", status' = "l_Undef"
    PROVE  AnswerInv'
  BY DEF AnswerInv, AnswersCorrect, SatCorrect, ConflictCorrect

-----------------------------------------------------------------------------
(* The steps that change neither the trail nor the clauses.                *)

LEMMA InterruptSound ==
    ASSUME SoundInv, Interrupt, UNCHANGED formula
    PROVE  SoundInv'
  <1>1. UNCHANGED <<clauses, learnts, missed, decision, trail, trail_lim, seen, confl, pivot, index,
                    out_learnt, assumptions, forced_split, conflict, model, status, ok, pc, formula>>
    BY DEF Interrupt, dbVars, trailVars, analyzeVars, resultVars, callVars
  <1>2. DatabaseInv'
    BY <1>1, DatabaseSame DEF SoundInv
  <1>3. AssumptionInv'
    BY <1>1 DEF SoundInv, AssumptionInv, decisionLevel
  <1>4. ResolventInv'
    BY <1>1 DEF SoundInv, ResolventInv, MarkedLits, TrueLits
  <1>5. AnswerInv'
    BY <1>1 DEF SoundInv, AnswerInv, AnswersCorrect, SatCorrect, ConflictCorrect, Assumed, TheoryLits
  <1> QED
    BY <1>2, <1>3, <1>4, <1>5 DEF SoundInv

LEMMA StoppedSound ==
    ASSUME SoundInv, Stopped, UNCHANGED formula
    PROVE  SoundInv'
  <1>1. /\ UNCHANGED <<clauses, learnts, missed, decision, trail, trail_lim, assumptions, ok, formula>>
        /\ pc \in {"start", "search"} /\ pc' = "done" /\ status' = "l_Undef"
    BY DEF Stopped, Finish, dbVars, trailVars, callVars
  <1>2. DatabaseInv'
    BY <1>1, DatabaseSame DEF SoundInv
  <1>3. AssumptionInv'
    BY <1>1, AssumptionSame DEF SoundInv
  <1> QED
    BY <1>1, <1>2, <1>3, ResolventQuiet, AnswerUnknown DEF SoundInv

LEMMA DeducedAllSound ==
    ASSUME SoundInv, DeducedAll, UNCHANGED formula
    PROVE  SoundInv'
  <1>1. /\ UNCHANGED <<clauses, learnts, missed, decision, trail, trail_lim, assumptions, conflict, ok,
                       formula>>
        /\ pc = "deduce" /\ pc' = "search"
    BY DEF DeducedAll, dbVars, trailVars, callVars, resultVars
  <1>2. DatabaseInv'
    BY <1>1, DatabaseSame DEF SoundInv
  <1>3. AssumptionInv'
    BY <1>1, AssumptionSame DEF SoundInv
  <1> QED
    BY <1>1, <1>2, <1>3, ResolventQuiet, AnswerRunning DEF SoundInv

\* The complete check passes a consistent trail only.
LEMMA TheoryPassSound ==
    ASSUME SoundInv, TheoryPass, UNCHANGED formula
    PROVE  SoundInv'
  <1>1. /\ UNCHANGED <<clauses, learnts, missed, decision, trail, trail_lim, assumptions, conflict, ok,
                       formula>>
        /\ pc \in {"start", "check", "complete"} /\ pc' = AfterDecide
        /\ pc = "complete" => Consistent(TheoryLits(trail))
    BY DEF TheoryPass, Checking, dbVars, trailVars, callVars, resultVars
  <1>2. /\ pc = "complete" => pc' = "branch2"
        /\ pc # "complete" => pc' \in {"search", "assume"}
    BY <1>1 DEF AfterDecide
  <1>3. DatabaseInv'
    BY <1>1, DatabaseSame DEF SoundInv
  <1>4. AssumptionInv'
    BY <1>1, <1>2, AssumptionSame DEF SoundInv, AssumptionInv
  <1>5. AnswerInv'
    <2>1. CASE pc = "complete"
      BY <1>1, <1>2, <2>1
         DEF SoundInv, AnswerInv, AnswersCorrect, SatCorrect, ConflictCorrect, TheoryLits
    <2>2. CASE pc # "complete"
      BY <1>1, <1>2, <2>2, AnswerRunning DEF SoundInv
    <2> QED
      BY <2>1, <2>2
  <1> QED
    BY <1>1, <1>2, <1>3, <1>4, <1>5, ResolventQuiet DEF SoundInv

LEMMA AssumptionsDoneSound ==
    ASSUME SoundInv, AssumptionsDone, UNCHANGED formula
    PROVE  SoundInv'
  <1>1. /\ UNCHANGED <<clauses, learnts, missed, decision, trail, trail_lim, assumptions, conflict, ok,
                       formula>>
        /\ pc = "assume" /\ pc' = "branch" /\ decisionLevel >= Len(assumptions)
    BY DEF AssumptionsDone, dbVars, trailVars, callVars, resultVars
  <1>2. DatabaseInv'
    BY <1>1, DatabaseSame DEF SoundInv
  <1>3. AssumptionInv'
    BY <1>1, AssumptionSame DEF SoundInv
  <1> QED
    BY <1>1, <1>2, <1>3, ResolventQuiet, AnswerRunning DEF SoundInv

LEMMA ClauseAddedSound ==
    ASSUME SoundInv, ClauseAdded, UNCHANGED formula
    PROVE  SoundInv'
  <1>1. /\ UNCHANGED <<clauses, learnts, missed, decision, trail, trail_lim, assumptions, ok, formula>>
        /\ pc = "addClause" /\ pc' = "idle"
    BY DEF ClauseAdded, dbVars, trailVars, callVars
  <1>2. DatabaseInv'
    BY <1>1, DatabaseSame DEF SoundInv
  <1>3. AssumptionInv'
    BY <1>1, AssumptionSame DEF SoundInv
  <1>4. AnswerInv'
    BY <1>1 DEF AnswerInv, AnswersCorrect, SatCorrect, ConflictCorrect
  <1> QED
    BY <1>1, <1>2, <1>3, <1>4, ResolventQuiet DEF SoundInv

\* A new call: no assumption is met yet, and a refuted formula needs none.
LEMMA SolveSound ==
    ASSUME SearchInv, SoundInv, NEW as, Solve(as), UNCHANGED formula
    PROVE  SoundInv'
  <1>1. /\ UNCHANGED <<clauses, learnts, missed, decision, trail, trail_lim, ok, formula>>
        /\ pc = "idle" /\ pc' \in {"start", "done"}
        /\ conflict' = {} /\ (pc' = "start" => ok)
        /\ status' = IF ok THEN "l_Undef" ELSE "l_False"
    BY DEF Solve, dbVars, trailVars
  <1>2. DatabaseInv'
    BY <1>1, DatabaseSame DEF SoundInv
  <1>3. AssumptionInv'
    <2>1. trail_lim = <<>>
      BY <1>1 DEF SearchInv, Phases
    <2>2. decisionLevel = 0
      BY <2>1 DEF decisionLevel
    <2>3. \A i \in DOMAIN trail : ~ (trail[i].level > 0)
      BY <2>2, StateFacts
    <2>4. AssumptionsFirst(trail, assumptions')
      BY <2>3 DEF AssumptionsFirst
    <2>5. AssumedUpTo(trail, assumptions', 0)
      BY DEF AssumedUpTo
    <2> QED
      BY <1>1, <2>2, <2>4, <2>5 DEF AssumptionInv, decisionLevel
  <1>4. AnswerInv'
    <2>1. pc' = "done" /\ ~ ok => Entails(formula', conflict')
      BY <1>1 DEF SoundInv, DatabaseInv
    <2> QED
      BY <1>1, <2>1 DEF AnswerInv, AnswersCorrect, SatCorrect, ConflictCorrect
  <1> QED
    BY <1>1, <1>2, <1>3, <1>4, ResolventQuiet DEF SoundInv

-----------------------------------------------------------------------------
(* Backjumps: level 0 and the assumptions below stay as they are.          *)

LEMMA CancelSound ==
    ASSUME SearchInv, SoundInv, NEW lev \in 0..decisionLevel,
           pc \in {"analyze", "learn"} => lev < decisionLevel,
           trail' = KeptTrail(lev), trail_lim' = KeptLim(lev),
           UNCHANGED <<clauses, learnts, missed, decision, ok, formula, assumptions>>
    PROVE  /\ DatabaseInv'
           /\ AssumptionsFirst(trail, assumptions)'
           /\ AssumedUpTo(trail, assumptions, decisionLevel)'
           /\ decisionLevel' = lev
  <1>1. /\ trail \in Seq(Entry) /\ trail_lim \in Seq(Nat) /\ TrailOK(trail, trail_lim)
        /\ decisionLevel \in Nat
    BY StateFacts
  <1>2. AtZero(trail') = AtZero(trail)
    BY <1>1, ZeroKept
  <1>3. DatabaseInv'
    BY <1>2, DatabaseStep DEF SoundInv, DB
  <1>4. decisionLevel' = lev
    BY <1>1, KeptFacts DEF decisionLevel
  <1>5. AssumptionsFirst(trail', assumptions')
    BY <1>1, AssumedKept DEF SoundInv, AssumptionInv
  <1>6. AssumedUpTo(trail', assumptions', lev)
    <2>1. CASE pc \in {"analyze", "learn"}
      <3>1. AssumedUpTo(trail, assumptions, decisionLevel - 1)
        BY <2>1 DEF SoundInv, AssumptionInv
      <3>2. decisionLevel - 1 \in Nat /\ lev <= decisionLevel - 1
        BY <1>1, <2>1
      <3> QED
        BY <1>1, <3>1, <3>2, AssumedKept DEF SoundInv, AssumptionInv
    <2>2. CASE pc \notin {"analyze", "learn"}
      <3>1. AssumedUpTo(trail, assumptions, decisionLevel)
        BY <2>2 DEF SoundInv, AssumptionInv
      <3>2. lev <= decisionLevel
        BY <1>1
      <3> QED
        BY <1>1, <3>1, <3>2, AssumedKept DEF SoundInv, AssumptionInv
    <2> QED
      BY <2>1, <2>2
  <1> QED
    BY <1>3, <1>4, <1>5, <1>6

LEMMA ClearSearchSound ==
    ASSUME SearchInv, SoundInv, clearSearch, UNCHANGED formula
    PROVE  SoundInv'
  <1>1. /\ trail' = KeptTrail(0) /\ trail_lim' = KeptLim(0)
        /\ UNCHANGED <<clauses, learnts, missed, decision, ok, formula, assumptions>>
        /\ pc = "done" /\ pc' = "idle"
    BY DEF clearSearch, dbVars, callVars
  <1>2. 0 \in 0..decisionLevel
    BY StateFacts
  <1>3. /\ DatabaseInv'
        /\ AssumptionsFirst(trail, assumptions)'
        /\ AssumedUpTo(trail, assumptions, decisionLevel)'
    BY <1>1, <1>2, CancelSound
  <1>4. AssumptionInv'
    BY <1>1, <1>3 DEF AssumptionInv
  <1>5. AnswerInv'
    BY <1>1 DEF AnswerInv, AnswersCorrect, SatCorrect, ConflictCorrect
  <1> QED
    BY <1>1, <1>3, <1>4, <1>5, ResolventQuiet DEF SoundInv

LEMMA RestartSound ==
    ASSUME SearchInv, SoundInv, Restart, UNCHANGED formula
    PROVE  SoundInv'
  <1>1. /\ trail' = KeptTrail(0) /\ trail_lim' = KeptLim(0)
        /\ UNCHANGED <<clauses, learnts, missed, decision, ok, formula, assumptions, conflict>>
        /\ pc = "search" /\ pc' = "start"
    BY DEF Restart, dbVars, resultVars
  <1>2. 0 \in 0..decisionLevel
    BY StateFacts
  <1>3. /\ DatabaseInv'
        /\ AssumptionsFirst(trail, assumptions)'
        /\ AssumedUpTo(trail, assumptions, decisionLevel)'
    BY <1>1, <1>2, CancelSound
  <1>4. AssumptionInv'
    BY <1>1, <1>3 DEF AssumptionInv
  <1> QED
    BY <1>1, <1>3, <1>4, AnswerRunning, ResolventQuiet DEF SoundInv

-----------------------------------------------------------------------------
(* Enqueueing, at the current level or after a backjump.                   *)

\* At level 0 everything that is true was decided for good.
LEMMA AllZero ==
    ASSUME SearchInv, decisionLevel = 0
    PROVE  TrueLits = AtZero(trail)
  BY StateFacts DEF TrueLits, LitsOf, AtZero

\* A literal enqueued at level lev after returning there: at level 0 it has to
\* follow, and a literal without a reason is enqueued only there.
LEMMA JumpSound ==
    ASSUME SearchInv, SoundInv, NEW lev \in 0..decisionLevel, NEW p \in Lit,
           NEW r \in {CRef_Undef, CRef_Fake} \cup Clause,
           pc \in {"analyze", "learn"} => lev < decisionLevel,
           trail' = Enqueued(KeptTrail(lev), p, lev, r), trail_lim' = KeptLim(lev),
           UNCHANGED <<missed, ok, formula, assumptions>>,
           r = CRef_Undef => lev = 0,
           lev = 0 => Entails(formula, {p}),
           clauses \subseteq clauses', decision \subseteq decision',
           \A c \in DB' : c \in DB \/ Entails(formula, c),
           \A c \in clauses' : c \in clauses \/ \A q \in c : var(q) \in decision'
    PROVE  /\ DatabaseInv'
           /\ AssumptionsFirst(trail, assumptions)'
           /\ AssumedUpTo(trail, assumptions, decisionLevel)'
           /\ decisionLevel' = lev
  <1>1. /\ trail \in Seq(Entry) /\ trail_lim \in Seq(Nat) /\ TrailOK(trail, trail_lim)
        /\ decisionLevel \in Nat /\ lev \in Nat /\ lev <= decisionLevel
        /\ assumptions \in Seq(Lit)
    BY StateFacts
  <1>2. KeptTrail(lev) \in Seq(Entry) /\ Len(KeptLim(lev)) = lev
    BY <1>1, KeptFacts
  <1>3. AtZero(trail') = IF lev = 0 THEN AtZero(trail) \cup {p} ELSE AtZero(trail)
    BY <1>1, <1>2, ZeroKept, ZeroEnqueued
  <1>4. DatabaseInv'
    <2>1. AtZero(trail) \subseteq AtZero(trail')
      BY <1>3
    <2>2. \A q \in AtZero(trail') : q \in AtZero(trail) \/ Entails(formula, {q})
      BY <1>3
    <2> QED
      BY <2>1, <2>2, DatabaseStep DEF SoundInv
  <1>5. decisionLevel' = lev
    BY <1>2 DEF decisionLevel
  <1>6. AssumptionsFirst(trail', assumptions')
    <2>1. AssumptionsFirst(KeptTrail(lev), assumptions)
      BY <1>1, AssumedKept DEF SoundInv, AssumptionInv
    <2>2. r = CRef_Undef /\ lev > 0 /\ lev <= Len(assumptions) => p = assumptions[lev]
      BY <1>1
    <2> QED
      BY <1>1, <1>2, <2>1, <2>2, FirstEnqueued
  <1>7. AssumedUpTo(trail', assumptions', lev)
    <2>1. AssumedUpTo(KeptTrail(lev), assumptions, lev)
      <3>1. CASE pc \in {"analyze", "learn"}
        <4>1. AssumedUpTo(trail, assumptions, decisionLevel - 1)
          BY <3>1 DEF SoundInv, AssumptionInv
        <4>2. decisionLevel - 1 \in Nat /\ lev <= decisionLevel - 1
          BY <1>1, <3>1
        <4> QED
          BY <1>1, <4>1, <4>2, AssumedKept DEF SoundInv, AssumptionInv
      <3>2. CASE pc \notin {"analyze", "learn"}
        <4>1. AssumedUpTo(trail, assumptions, decisionLevel)
          BY <3>2 DEF SoundInv, AssumptionInv
        <4> QED
          BY <1>1, <4>1, AssumedKept DEF SoundInv, AssumptionInv
      <3> QED
        BY <3>1, <3>2
    <2> QED
      BY <1>1, <1>2, <2>1, AssumedEnqueued
  <1> QED
    BY <1>4, <1>5, <1>6, <1>7

\* The same without a backjump.
LEMMA EnqueueSound ==
    ASSUME SearchInv, SoundInv, NEW p \in Lit, NEW r \in {CRef_Undef, CRef_Fake} \cup Clause,
           pc \notin {"analyze", "learn"},
           trail' = Enqueued(trail, p, decisionLevel, r),
           UNCHANGED <<trail_lim, clauses, learnts, missed, decision, ok, formula, assumptions>>,
           r = CRef_Undef => decisionLevel = 0,
           decisionLevel = 0 => Entails(formula, {p})
    PROVE  /\ DatabaseInv'
           /\ AssumptionsFirst(trail, assumptions)'
           /\ AssumedUpTo(trail, assumptions, decisionLevel)'
  <1>1. decisionLevel \in Nat /\ decisionLevel \in 0..decisionLevel
    BY StateFacts
  <1>2. KeptTrail(decisionLevel) = trail /\ KeptLim(decisionLevel) = trail_lim
    BY <1>1 DEF KeptTrail, KeptLim
  <1>3. DB' = DB
    BY DEF DB
  <1> QED
    BY <1>1, <1>2, <1>3, JumpSound

\* A clause of the database follows without its literals that are false at level 0.
LEMMA UnitSound ==
    ASSUME SearchInv, SoundInv, NEW c \in DB, NEW d, \A q \in c \ d : -q \in AtZero(trail)
    PROVE  Entails(formula, d)
  <1>1. c \in SUBSET Lit /\ Entails(formula, c)
    BY StateFacts DEF SoundInv, DatabaseInv
  <1>2. \A q \in c \ d : Entails(formula, {-q})
    BY DEF SoundInv, DatabaseInv
  <1> QED
    BY <1>1, <1>2, EntailsDrop

LEMMA AnswerIdle ==
    ASSUME pc' \in {"idle", "addClause"}
    PROVE  AnswerInv'
  BY DEF AnswerInv, AnswersCorrect, SatCorrect, ConflictCorrect

\* A refutation without assumptions.
LEMMA AnswerRefuted ==
    ASSUME pc' = "done", status' = "l_False", conflict' = {}, Entails(formula', {})
    PROVE  AnswerInv'
  BY DEF AnswerInv, AnswersCorrect, SatCorrect, ConflictCorrect

LEMMA PropagateUnitSound ==
    ASSUME SearchInv, SoundInv, PropagateUnit, UNCHANGED formula
    PROVE  SoundInv'
  <1>1. PICK c \in DB : \E p \in c :
             UnitIn(c, p) /\ trail' = Enqueued(trail, p, decisionLevel, c)
    BY DEF PropagateUnit, Heard
  <1>2. PICK p \in c : UnitIn(c, p) /\ trail' = Enqueued(trail, p, decisionLevel, c)
    BY <1>1
  <1>3. /\ UNCHANGED <<trail_lim, clauses, learnts, missed, decision, ok, formula, assumptions, conflict, pc>>
        /\ pc \in {"addClause", "search"}
    BY DEF PropagateUnit, Propagating, dbVars, callVars, resultVars
  <1>4. c \subseteq Lit /\ c \in Clause /\ p \in Lit /\ c # CRef_Undef
    BY StateFacts, ClauseIsClause DEF IsClause
  <1>5. ASSUME decisionLevel = 0 PROVE Entails(formula, {p})
    <2>1. \A q \in c \ {p} : -q \in AtZero(trail)
      BY <1>2, <1>5, AllZero DEF UnitIn, Falsified
    <2> QED
      BY <2>1, UnitSound
  <1>6. /\ DatabaseInv'
        /\ AssumptionsFirst(trail, assumptions)'
        /\ AssumedUpTo(trail, assumptions, decisionLevel)'
    BY <1>2, <1>3, <1>4, <1>5, EnqueueSound
  <1>7. AssumptionInv'
    BY <1>3, <1>6 DEF AssumptionInv
  <1>8. AnswerInv'
    BY <1>3, AnswerIdle, AnswerRunning DEF SoundInv
  <1> QED
    BY <1>3, <1>6, <1>7, <1>8, ResolventQuiet DEF SoundInv

\* What an analysis starts from.
LEMMA AnalysisSound ==
    ASSUME SearchInv, pc \notin {"analyze", "learn", "final"}, UNCHANGED pivot,
           pc' = "analyze", Entails(formula', confl')
    PROVE  ResolventInv'
  <1>1. pivot' = lit_Undef
    BY DEF SearchInv, Clean, Analysing
  <1> QED
    BY <1>1 DEF ResolventInv

\* During an analysis less is known of the assumptions.
LEMMA AssumedLess ==
    ASSUME NEW t, NEW as, NEW n \in Nat, AssumedUpTo(t, as, n)
    PROVE  AssumedUpTo(t, as, n - 1)
  <1>1. \A k \in 1..(n - 1) : k \in 1..n
    OBVIOUS
  <1> QED
    BY <1>1 DEF AssumedUpTo

\* What a refutation at level 0 leaves behind is false there, in part at least.
LEMMA LeftBehindSound ==
    ASSUME SearchInv, DatabaseInv, decisionLevel = 0, LeftBehind
    PROVE  \A c \in missed' : \E q \in c : -q \in AtZero(trail)
  <1>1. TrueLits = AtZero(trail)
    BY AllZero
  <1>2. \A c \in missed' : c \in missed \/ \E q \in c : -q \in TrueLits
    BY DEF LeftBehind
  <1> QED
    BY <1>1, <1>2 DEF DatabaseInv

LEMMA PropagateConflictSound ==
    ASSUME SearchInv, SoundInv, PropagateConflict, UNCHANGED formula
    PROVE  SoundInv'
  <1>1. PICK c \in DB :
          /\ Falsified(c)
          /\ \/ /\ pc = "addClause"
                /\ ok' = FALSE /\ pc' = "idle"
                /\ UNCHANGED <<analyzeVars, status, conflictC, missed, skipped>>
             \/ /\ pc = "search" /\ decisionLevel = 0
                /\ Finish("l_False")
                /\ LeftBehind
                /\ UNCHANGED <<analyzeVars, ok, conflictC>>
             \/ /\ pc = "search" /\ decisionLevel > 0
                /\ conflictC' = conflictC + 1
                /\ confl' = c /\ index' = nAssigns /\ pc' = "analyze"
                /\ UNCHANGED <<pivot, pathC, out_learnt, status, ok, missed, skipped>>
    BY DEF PropagateConflict, FoundFalse
  <1>2. UNCHANGED <<clauses, learnts, decision, trail, trail_lim, formula, conflict, assumptions>>
    BY DEF PropagateConflict, dbVars, trailVars, callVars
  <1>3. ASSUME decisionLevel = 0 PROVE Entails(formula, {})
    <2>1. \A q \in c \ {} : -q \in AtZero(trail)
      BY <1>1, <1>3, AllZero DEF Falsified
    <2> QED
      BY <2>1, UnitSound
  <1>4. CASE pc = "addClause" /\ ok' = FALSE /\ pc' = "idle" /\ UNCHANGED missed
    <2>1. decisionLevel = 0
      BY <1>4 DEF SearchInv, Phases, decisionLevel
    <2>2. DatabaseInv'
      BY <1>2, <1>3, <1>4, <2>1 DEF SoundInv, DatabaseInv, DB, AtZero
    <2>3. AssumptionInv'
      BY <1>2, <1>4, AssumptionSame DEF SoundInv
    <2> QED
      BY <1>4, <2>2, <2>3, AnswerIdle, ResolventQuiet DEF SoundInv
  <1>5. CASE /\ pc = "search" /\ decisionLevel = 0
             /\ Finish("l_False") /\ LeftBehind /\ UNCHANGED ok
    <2>0. \A d \in missed' : \E q \in d : -q \in AtZero(trail)
      BY <1>5, LeftBehindSound DEF SoundInv
    <2>1. DatabaseInv'
      BY <1>2, <1>5, <2>0, DatabaseStep DEF SoundInv, DB
    <2>2. pc' = "done" /\ status' = "l_False"
      BY <1>5 DEF Finish
    <2>3. AssumptionInv'
      BY <1>2, <1>5, <2>2, AssumptionSame DEF SoundInv
    <2>4. conflict' = {}
      BY <1>2, <1>5 DEF SoundInv, AnswerInv
    <2> QED
      BY <1>2, <1>3, <1>5, <2>1, <2>2, <2>3, <2>4, AnswerRefuted, ResolventQuiet DEF SoundInv
  <1>6. CASE /\ pc = "search" /\ confl' = c /\ pc' = "analyze"
             /\ UNCHANGED <<pivot, ok, missed>>
    <2>1. DatabaseInv'
      BY <1>2, <1>6, DatabaseSame DEF SoundInv
    <2>2. AssumptionInv'
      <3>1. AssumedUpTo(trail, assumptions, decisionLevel - 1)
        BY <1>6, StateFacts, AssumedLess DEF SoundInv, AssumptionInv
      <3> QED
        BY <1>2, <1>6, <3>1 DEF SoundInv, AssumptionInv, decisionLevel
    <2>3. ResolventInv'
      BY <1>2, <1>6, AnalysisSound DEF SoundInv, DatabaseInv
    <2>4. AnswerInv'
      BY <1>2, <1>6, AnswerRunning DEF SoundInv
    <2> QED
      BY <2>1, <2>2, <2>3, <2>4 DEF SoundInv
  <1> QED
    BY <1>1, <1>4, <1>5, <1>6

\* simplify and reduceDB drop learnt clauses, and reasons at level 0 only.
LEMMA TidyDBSound ==
    ASSUME SearchInv, SoundInv, TidyDB, UNCHANGED formula
    PROVE  SoundInv'
  <1>1. PICK sat \in {{}, IF decisionLevel = 0 THEN {c \in learnts : Satisfied(c)} ELSE {}} :
          /\ trail' = [i \in DOMAIN trail |->
                          IF trail[i].reason \in sat
                            THEN [trail[i] EXCEPT !.reason = CRef_Undef] ELSE trail[i]]
          /\ learnts' \subseteq learnts
    BY DEF TidyDB
  <1>2. /\ UNCHANGED <<trail_lim, clauses, decision, missed, ok, formula, assumptions, conflict>>
        /\ pc = "search" /\ pc' = "check"
    BY DEF TidyDB, callVars, resultVars
  <1>3. /\ DOMAIN trail' = DOMAIN trail
        /\ \A i \in DOMAIN trail :
              /\ trail'[i].lit = trail[i].lit /\ trail'[i].level = trail[i].level
              /\ decisionLevel > 0 => trail'[i] = trail[i]
    <2>1. trail \in Seq(Entry) /\ decisionLevel \in Nat /\ DOMAIN trail = 1..Len(trail)
      BY StateFacts
    <2>2. \A i \in DOMAIN trail : trail[i] \in Entry
      BY <2>1, TrailFacts
    <2>3. decisionLevel > 0 => sat = {}
      BY <2>1
    <2> QED
      BY <1>1, <2>1, <2>2, <2>3 DEF Entry
  <1>4. DatabaseInv'
    <2>1. AtZero(trail') = AtZero(trail)
      BY <1>3 DEF AtZero
    <2> QED
      BY <1>1, <1>2, <2>1, DatabaseStep DEF SoundInv, DB
  <1>5. AssumptionsFirst(trail', assumptions')
    <2>1. CASE decisionLevel = 0
      <3>1. \A i \in DOMAIN trail' : ~ (trail'[i].level > 0)
        BY <1>3, <2>1, StateFacts
      <3> QED
        BY <3>1 DEF AssumptionsFirst
    <2>2. CASE decisionLevel > 0
      BY <1>2, <1>3, <2>2 DEF SoundInv, AssumptionInv, AssumptionsFirst
    <2> QED
      BY <2>1, <2>2, StateFacts
  <1>6. AssumedUpTo(trail', assumptions', decisionLevel')
    BY <1>2, <1>3 DEF SoundInv, AssumptionInv, AssumedUpTo, decisionLevel
  <1>7. AssumptionInv'
    BY <1>2, <1>5, <1>6 DEF AssumptionInv
  <1> QED
    BY <1>2, <1>4, <1>7, AnswerRunning, ResolventQuiet DEF SoundInv

-----------------------------------------------------------------------------
(* A clause from the owner.                                                *)

\* All that is true between two calls was decided for good.
LEMMA IdleLevel ==
    ASSUME SearchInv, pc \in {"idle", "addClause"}
    PROVE  decisionLevel = 0 /\ TrueLits = AtZero(trail)
  <1>1. decisionLevel = 0
    BY DEF SearchInv, Phases, decisionLevel
  <1> QED
    BY <1>1, AllZero

LEMMA AddOriginalClauseSound ==
    ASSUME SearchInv, SoundInv, NEW c \in NewClauses, AddOriginalClause(c)
    PROVE  SoundInv'
  <1> DEFINE ps == {p \in c : Unassigned(p)}
             ignored == Satisfied(c) \/ \E p \in c : -p \in c
  <1>1. /\ pc = "idle" /\ ok /\ formula' = formula \cup {c}
        /\ decision' = decision \cup {var(p) : p \in c}
        /\ UNCHANGED <<learnts, missed, trail_lim, conflict, assumptions>>
    BY DEF AddOriginalClause, Declared, callVars, resultVars
  <1>2. \/ ignored /\ UNCHANGED <<clauses, trail, ok, pc>>
        \/ ~ ignored /\ ps = {} /\ ok' = FALSE /\ UNCHANGED <<clauses, trail, pc>>
        \/ \E p \in ps : /\ ~ ignored /\ ps = {p}
                         /\ trail' = Enqueued(trail, p, 0, CRef_Undef)
                         /\ pc' = "addClause" /\ UNCHANGED <<clauses, ok>>
        \/ ~ ignored /\ clauses' = clauses \cup {ps} /\ UNCHANGED <<trail, ok, pc>>
    BY DEF AddOriginalClause
  <1>3. /\ decisionLevel = 0 /\ TrueLits = AtZero(trail) /\ c \in SUBSET Lit
        /\ trail \in Seq(Entry) /\ trail_lim = <<>> /\ assumptions \in Seq(Lit)
    BY <1>1, IdleLevel, StateFacts, InputAssumption DEF SearchInv, Phases, Clause
  <1>4. /\ \A d : Entails(formula, d) => Entails(formula', d)
        /\ Entails(formula', c)
    BY <1>1, EntailsMono DEF Entails
  <1>5. ~ ignored => Entails(formula', ps)
    <2> SUFFICES ASSUME ~ ignored, NEW q \in c \ ps PROVE Entails(formula', {-q})
      BY <1>3, <1>4, EntailsDrop
    <2>1. -q \in AtZero(trail)
      BY <1>3 DEF Unassigned, Satisfied
    <2> QED
      BY <1>4, <2>1 DEF SoundInv, DatabaseInv
  <1> HIDE DEF ps
  <1>6. \A d \in formula : Kept(d)
    BY <1>1 DEF SoundInv, DatabaseInv
  <1>7. /\ \A d \in DB : Entails(formula', d)
        /\ \A p \in AtZero(trail) : Entails(formula', {p})
        /\ \A d \in clauses : \A q \in d : var(q) \in decision'
        /\ \A d \in missed : \E q \in d : -q \in AtZero(trail)
    BY <1>1, <1>4 DEF SoundInv, DatabaseInv
  <1>8. CASE ignored /\ UNCHANGED <<clauses, trail, ok, pc>>
    <2>1. Kept(c)
      BY <1>3, <1>8 DEF Kept, Satisfied
    <2>2. \A d \in formula' : Kept(d)'
      BY <1>1, <1>6, <1>8, <2>1 DEF Kept
    <2>3. DatabaseInv'
      BY <1>1, <1>7, <1>8, <2>2 DEF DatabaseInv, DB
    <2>4. AssumptionInv'
      BY <1>1, <1>8, AssumptionSame DEF SoundInv
    <2> QED
      BY <1>1, <1>8, <2>3, <2>4, AnswerIdle, ResolventQuiet DEF SoundInv
  <1>9. CASE ~ ignored /\ ps = {} /\ ok' = FALSE /\ UNCHANGED <<clauses, trail, pc>>
    <2>1. DatabaseInv'
      BY <1>1, <1>5, <1>7, <1>9 DEF DatabaseInv, DB
    <2>2. AssumptionInv'
      BY <1>1, <1>9, AssumptionSame DEF SoundInv
    <2> QED
      BY <1>1, <1>9, <2>1, <2>2, AnswerIdle, ResolventQuiet DEF SoundInv
  <1>10. ASSUME NEW p \in ps, ~ ignored, ps = {p},
                trail' = Enqueued(trail, p, 0, CRef_Undef),
                pc' = "addClause", UNCHANGED <<clauses, ok>>
         PROVE  SoundInv'
    <2>1. p \in c /\ p \in Lit
      BY <1>3 DEF ps
    <2>2. AtZero(trail') = AtZero(trail) \cup {p}
      BY <1>3, <1>10, <2>1, ZeroEnqueued
    <2>3. \A d \in formula' : Kept(d)'
      BY <1>1, <1>6, <1>10, <2>1, <2>2 DEF Kept
    <2>4. DatabaseInv'
      BY <1>1, <1>5, <1>7, <1>10, <2>2, <2>3 DEF DatabaseInv, DB
    <2>5. AssumptionsFirst(trail', assumptions')
      BY <1>1, <1>3, <1>10, <2>1, FirstEnqueued DEF SoundInv, AssumptionInv
    <2>6. AssumedUpTo(trail', assumptions', decisionLevel')
      BY <1>1, <1>3 DEF AssumedUpTo, decisionLevel
    <2>7. AssumptionInv'
      BY <1>10, <2>5, <2>6 DEF AssumptionInv
    <2> QED
      BY <1>10, <2>4, <2>7, AnswerIdle, ResolventQuiet DEF SoundInv
  <1>11. CASE ~ ignored /\ clauses' = clauses \cup {ps} /\ UNCHANGED <<trail, ok, pc>>
    <2>1. \A d \in formula' : Kept(d)'
      <3>1. ps \subseteq c /\ ps \in clauses' /\ clauses \subseteq clauses'
        BY <1>11 DEF ps
      <3>2. Kept(c)'
        BY <3>1 DEF Kept
      <3>3. \A d \in formula : Kept(d)'
        BY <1>6, <1>11, <3>1 DEF Kept
      <3> QED
        BY <1>1, <3>2, <3>3
    <2>2. \A q \in ps : var(q) \in decision'
      BY <1>1 DEF ps
    <2>3. DatabaseInv'
      BY <1>1, <1>5, <1>7, <1>11, <2>1, <2>2 DEF DatabaseInv, DB
    <2>4. AssumptionInv'
      BY <1>1, <1>11, AssumptionSame DEF SoundInv
    <2> QED
      BY <1>1, <1>11, <2>3, <2>4, AnswerIdle, ResolventQuiet DEF SoundInv
  <1> QED
    BY <1>2, <1>8, <1>9, <1>10, <1>11

-----------------------------------------------------------------------------
(* The theory.                                                             *)

LEMMA TheoryDeduceSound ==
    ASSUME SearchInv, SoundInv, TheoryDeduce, UNCHANGED formula
    PROVE  SoundInv'
  <1>1. PICK p \in Lit : /\ ~ Consistent(TheoryLits(trail) \cup {-p})
                         /\ trail' = Enqueued(trail, p, decisionLevel, CRef_Fake)
    BY DEF TheoryDeduce
  <1>2. /\ UNCHANGED <<trail_lim, clauses, learnts, missed, decision, ok, formula, assumptions, conflict>>
        /\ pc \in {"start", "check", "complete", "deduce"} /\ pc' = "deduce"
    BY DEF TheoryDeduce, Checking, dbVars, callVars, resultVars
  <1>3. ASSUME decisionLevel = 0 PROVE Entails(formula, {p})
    <2> DEFINE S == TheoryLits(trail) \cup {-p}
    <2>1. TheoryLits(trail) \subseteq AtZero(trail) /\ AtZero(trail) \subseteq Lit
      BY <1>3, AllZero, StateFacts, ZeroFacts DEF TheoryLits, TrueLits
    <2>2. S \in SUBSET Lit
      BY <2>1, LitFacts
    <2>3. Entails(formula, {-q : q \in S})
      BY <1>1, <2>2, TheoryClause
    <2>4. {-q : q \in S} \in SUBSET Lit
      BY <2>2, LitFacts
    <2>5. ASSUME NEW x \in {-q : q \in S} \ {p} PROVE Entails(formula, {-x})
      <3>1. PICK q \in S : x = -q
        OBVIOUS
      <3>2. q \in AtZero(trail) /\ -x = q
        BY <2>1, <2>2, <3>1, LitFacts
      <3> QED
        BY <3>2 DEF SoundInv, DatabaseInv
    <2> HIDE DEF S
    <2> QED
      BY <2>3, <2>4, <2>5, EntailsDrop
  <1>4. CRef_Fake # CRef_Undef
    BY CRefAssumption
  <1>5. /\ DatabaseInv'
        /\ AssumptionsFirst(trail, assumptions)'
        /\ AssumedUpTo(trail, assumptions, decisionLevel)'
    BY <1>1, <1>2, <1>3, <1>4, EnqueueSound
  <1>6. AssumptionInv'
    BY <1>2, <1>5 DEF AssumptionInv
  <1> QED
    BY <1>2, <1>5, <1>6, AnswerRunning, ResolventQuiet DEF SoundInv

\* A split holds in the theory.
LEMMA SplitSound ==
    ASSUME NEW F, NEW s \in Splits
    PROVE  Entails(F, {s[1], s[2]})
  BY SplitsAssumption DEF Entails

LEMMA TheorySplitSound ==
    ASSUME SearchInv, SoundInv, TheorySplit, UNCHANGED formula
    PROVE  SoundInv'
  <1>1. PICK s \in Splits : /\ decision' = decision \cup {var(s[1]), var(s[2])}
                            /\ clauses' = clauses \cup {{s[1], s[2]}}
                            /\ forced_split' = -s[1]
    BY DEF TheorySplit
  <1>2. /\ UNCHANGED <<trail, trail_lim, learnts, missed, ok, formula, assumptions, conflict>>
        /\ pc \in {"start", "check", "complete"} /\ pc' = AfterDecide
    BY DEF TheorySplit, Checking, trailVars, callVars, resultVars
  <1>3. /\ pc = "complete" => pc' = "branch2"
        /\ pc # "complete" => pc' \in {"search", "assume"}
    BY <1>2 DEF AfterDecide
  <1>4. DatabaseInv'
    <2>1. \A c \in DB' : c \in DB \/ Entails(formula, c)
      BY <1>1, <1>2, SplitSound DEF DB
    <2>2. \A c \in clauses' : c \in clauses \/ \A q \in c : var(q) \in decision'
      BY <1>1
    <2> QED
      BY <1>1, <1>2, <2>1, <2>2, DatabaseStep DEF SoundInv
  <1>5. AssumptionInv'
    BY <1>2, <1>3, AssumptionSame DEF SoundInv, AssumptionInv
  <1>6. AnswerInv'
    <2>1. CASE pc = "complete"
      <3>1. forced_split' # lit_Undef
        BY <1>1, SplitFacts, LitFacts DEF lit_Undef
      <3> QED
        BY <1>2, <1>3, <2>1, <3>1 DEF SoundInv, AnswerInv, AnswersCorrect, SatCorrect, ConflictCorrect
    <2>2. CASE pc # "complete"
      BY <1>2, <1>3, <2>2, AnswerRunning DEF SoundInv
    <2> QED
      BY <2>1, <2>2
  <1> QED
    BY <1>2, <1>3, <1>4, <1>5, <1>6, ResolventQuiet DEF SoundInv

\* The level of a literal that is false.
LEMMA FalseLevel ==
    ASSUME SearchInv, NEW q \in Lit, -q \in TrueLits
    PROVE  /\ LevelOf(var(q)) \in 0..decisionLevel
           /\ LevelOf(var(q)) = 0 <=> -q \in AtZero(trail)
           /\ \E i \in 1..nAssigns : trail[i].lit = -q /\ trail[i].level = LevelOf(var(q))
  <1>1. PICK i \in 1..nAssigns : trail[i].lit = -q
    BY StateFacts DEF TrueLits, LitsOf
  <1>2. LevelOf(var(q)) = trail[i].level
    BY <1>1, StateFacts, LevelOfLit
  <1>3. \A j \in 1..nAssigns : trail[j].lit = -q => j = i
    BY <1>1, StateFacts DEF TrailOK
  <1>4. -q \in AtZero(trail) <=> trail[i].level = 0
    BY <1>1, <1>3, StateFacts DEF AtZero
  <1> QED
    BY <1>1, <1>2, <1>4, StateFacts

LEMMA TheorySplitImpliedSound ==
    ASSUME SearchInv, SoundInv, TheorySplitImplied, UNCHANGED formula
    PROVE  SoundInv'
  <1>1. PICK s \in Splits \ cuts : \E lf \in {s[1], s[2]} : \E li \in {s[1], s[2]} \ {lf} :
          /\ -lf \in TrueLits
          /\ decision' = decision \cup {var(lf), var(li)}
          /\ clauses' = IF LevelOf(var(lf)) = 0 THEN clauses ELSE clauses \cup {{lf, li}}
          /\ trail' = Enqueued(KeptTrail(LevelOf(var(lf))), li, LevelOf(var(lf)),
                               IF LevelOf(var(lf)) = 0 THEN CRef_Undef ELSE {lf, li})
          /\ trail_lim' = KeptLim(LevelOf(var(lf)))
    BY DEF TheorySplitImplied
  <1>2a. PICK lf \in {s[1], s[2]} : \E li \in {s[1], s[2]} \ {lf} :
          /\ -lf \in TrueLits
          /\ decision' = decision \cup {var(lf), var(li)}
          /\ clauses' = IF LevelOf(var(lf)) = 0 THEN clauses ELSE clauses \cup {{lf, li}}
          /\ trail' = Enqueued(KeptTrail(LevelOf(var(lf))), li, LevelOf(var(lf)),
                               IF LevelOf(var(lf)) = 0 THEN CRef_Undef ELSE {lf, li})
          /\ trail_lim' = KeptLim(LevelOf(var(lf)))
    BY <1>1
  <1>2. PICK li \in {s[1], s[2]} \ {lf} :
          /\ -lf \in TrueLits
          /\ decision' = decision \cup {var(lf), var(li)}
          /\ clauses' = IF LevelOf(var(lf)) = 0 THEN clauses ELSE clauses \cup {{lf, li}}
          /\ trail' = Enqueued(KeptTrail(LevelOf(var(lf))), li, LevelOf(var(lf)),
                               IF LevelOf(var(lf)) = 0 THEN CRef_Undef ELSE {lf, li})
          /\ trail_lim' = KeptLim(LevelOf(var(lf)))
    BY <1>2a
  <1> DEFINE lev == LevelOf(var(lf))
             r == IF lev = 0 THEN CRef_Undef ELSE {lf, li}
  <1>3. /\ UNCHANGED <<learnts, missed, ok, formula, assumptions, conflict>>
        /\ pc \in {"start", "check", "complete"} /\ pc' = "search"
    BY DEF TheorySplitImplied, Checking, callVars, resultVars
  <1>4. /\ lf \in Lit /\ li \in Lit /\ lf # li /\ {lf, li} = {s[1], s[2]}
        /\ {lf, li} \in Clause /\ {lf, li} \in SUBSET Lit /\ {lf, li} # CRef_Undef
    <2>1. s \in Splits /\ s[1] \in Lit /\ s[2] \in Lit /\ s[1] # s[2]
      BY SplitFacts
    <2>2. lf \in Lit /\ li \in Lit /\ lf # li /\ {lf, li} = {s[1], s[2]}
      BY <2>1
    <2>3. {lf, li} \in SUBSET Lit
      BY <2>2
    <2>4. {lf, li} \in Clause /\ IsClause({lf, li})
      BY <2>3, ClauseIsClause
    <2>5. {lf, li} # CRef_Undef
      BY <2>4 DEF IsClause
    <2> QED
      BY <2>2, <2>3, <2>4, <2>5
  <1>5. lev \in 0..decisionLevel /\ (lev = 0 <=> -lf \in AtZero(trail))
    BY <1>2, <1>4, FalseLevel
  <1>6. Entails(formula, {lf, li})
    BY <1>4, SplitSound
  <1>7. ASSUME lev = 0 PROVE Entails(formula, {li})
    <2>1. \A q \in {lf, li} \ {li} : Entails(formula, {-q})
      BY <1>5, <1>7 DEF SoundInv, DatabaseInv
    <2> QED
      BY <1>4, <1>6, <2>1, EntailsDrop
  <1>8. /\ trail' = Enqueued(KeptTrail(lev), li, lev, r) /\ trail_lim' = KeptLim(lev)
        /\ r \in {CRef_Undef, CRef_Fake} \cup Clause
        /\ r = CRef_Undef => lev = 0
        /\ clauses \subseteq clauses' /\ decision \subseteq decision'
        /\ \A c \in clauses' : c \in clauses \/ c = {lf, li}
    BY <1>2, <1>4
  <1>9. /\ \A c \in DB' : c \in DB \/ Entails(formula, c)
        /\ \A c \in clauses' : c \in clauses \/ \A q \in c : var(q) \in decision'
    BY <1>2, <1>3, <1>6, <1>8 DEF DB
  <1> HIDE DEF lev, r
  <1>10. /\ DatabaseInv'
         /\ AssumptionsFirst(trail, assumptions)'
         /\ AssumedUpTo(trail, assumptions, decisionLevel)'
    BY <1>3, <1>4, <1>5, <1>7, <1>8, <1>9, JumpSound
  <1>11. AssumptionInv'
    BY <1>3, <1>10 DEF AssumptionInv
  <1> QED
    BY <1>3, <1>10, <1>11, AnswerRunning, ResolventQuiet DEF SoundInv

\* The explanation of a theory conflict, as a clause, holds in the theory; at
\* level 0 it refutes the formula.
LEMMA TheoryConflictSound ==
    ASSUME SearchInv, SoundInv, TheoryConflict, UNCHANGED formula
    PROVE  SoundInv'
  <1> DEFINE Highest(S, k) == /\ \A q \in S : LevelOf(var(q)) <= k
                              /\ k = 0 \/ \E q \in S : LevelOf(var(q)) = k
             Top(S) == CHOOSE k \in 0..decisionLevel : Highest(S, k)
             Outcome(S, lev) ==
                \/ /\ lev = 0
                   /\ Finish("l_False")
                   /\ UNCHANGED analyzeVars
                \/ /\ lev > 0
                   /\ confl' = {-q : q \in S} /\ index' = Len(KeptTrail(lev))
                   /\ pc' = "analyze"
                   /\ UNCHANGED <<pivot, pathC, out_learnt, status>>
  <1>1. /\ UNCHANGED <<clauses, learnts, missed, decision, conflict, ok, assumptions, formula>>
        /\ pc \in {"start", "check", "complete"}
    BY DEF TheoryConflict, Checking, dbVars, callVars
  <1>2. PICK S \in SUBSET TheoryLits(trail) :
            /\ ~ Consistent(S)
            /\ trail' = KeptTrail(Top(S)) /\ trail_lim' = KeptLim(Top(S))
            /\ Outcome(S, Top(S))
    BY Zenon DEF TheoryConflict
  <1>3. S \in SUBSET TrueLits /\ S \in SUBSET Lit
    <2>1. S \in SUBSET TrueLits
      BY DEF TheoryLits, TrueLits, LitsOf
    <2> QED
      BY <2>1, StateFacts DEF TrueLits, LitsOf
  <1>4. PICK lev \in 0..decisionLevel : lev = Top(S) /\ Highest(S, lev)
    <2>1. \E k \in 0..decisionLevel : Highest(S, k)
      BY <1>3, StateFacts, ConflictLevel
    <2> QED
      BY <2>1, Zenon
  <1> HIDE DEF Top
  <1>5. trail' = KeptTrail(lev) /\ trail_lim' = KeptLim(lev) /\ Outcome(S, lev)
    BY <1>2, <1>4, Zenon
  <1>6. Entails(formula, {-q : q \in S})
    BY <1>2, <1>3, TheoryClause
  <1>7. /\ DatabaseInv'
        /\ AssumptionsFirst(trail, assumptions)'
        /\ AssumedUpTo(trail, assumptions, decisionLevel)'
        /\ decisionLevel' = lev
    BY <1>1, <1>5, CancelSound
  <1>8. conflict' = {}
    BY <1>1 DEF SoundInv, AnswerInv
  <1>9. CASE lev = 0 /\ Finish("l_False")
    <2>1. \A q \in S : q \in AtZero(trail)
      <3> TAKE q \in S
      <3>1. q = -(-q) /\ -q \in Lit /\ var(-q) = var(q)
        BY <1>3, LitFacts
      <3>2. LevelOf(var(q)) \in 0..decisionLevel /\ (LevelOf(var(q)) = 0 <=> q \in AtZero(trail))
        BY <1>3, <3>1, FalseLevel
      <3> QED
        BY <1>4, <1>9, <3>2, StateFacts
    <2>2. Entails(formula, {})
      <3> DEFINE C == {-q : q \in S}
      <3>1. C \in SUBSET Lit
        BY <1>3, LitFacts
      <3>2. ASSUME NEW x \in C \ {} PROVE Entails(formula, {-x})
        <4>1. PICK q \in S : x = -q
          OBVIOUS
        <4>2. -x = q
          BY <1>3, <4>1, LitFacts
        <4> QED
          BY <2>1, <4>2 DEF SoundInv, DatabaseInv
      <3>3. Entails(formula, C)
        BY <1>6
      <3> HIDE DEF C
      <3> QED
        BY <3>1, <3>2, <3>3, EntailsDrop
    <2>3. pc' = "done" /\ status' = "l_False"
      BY <1>9 DEF Finish
    <2>4. AssumptionInv'
      BY <1>7, <2>3 DEF AssumptionInv
    <2> QED
      BY <1>1, <1>7, <1>8, <2>2, <2>3, <2>4, AnswerRefuted, ResolventQuiet DEF SoundInv
  <1>10. CASE confl' = {-q : q \in S} /\ pc' = "analyze" /\ UNCHANGED pivot
    <2>1. AssumedUpTo(trail', assumptions', decisionLevel' - 1)
      <3>1. lev \in Nat
        BY StateFacts
      <3> QED
        BY <1>7, <3>1, AssumedLess
    <2>2. AssumptionInv'
      BY <1>7, <1>10, <2>1 DEF AssumptionInv
    <2>3. ResolventInv'
      BY <1>1, <1>6, <1>10, AnalysisSound
    <2> QED
      BY <1>1, <1>7, <1>10, <2>2, <2>3, AnswerRunning DEF SoundInv
  <1> QED
    BY <1>5, <1>9, <1>10

-----------------------------------------------------------------------------
(* Conflict analysis: resolution.                                          *)

\* Two clauses that follow have their resolvent follow.
LEMMA EntailsResolve ==
    ASSUME NEW F, NEW p \in Lit, NEW c, NEW e, NEW d, Entails(F, c), Entails(F, e),
           c \subseteq d \cup {p}, e \subseteq d \cup {-p}
    PROVE  Entails(F, d)
  <1> SUFFICES ASSUME NEW m \in Models(F), d \cap m = {}
               PROVE  FALSE
    BY EntailsModels
  <1>1. m \in TModels
    BY DEF Models
  <1>2. p \in m
    BY EntailsModels
  <1>3. -p \in m
    BY EntailsModels
  <1> QED
    BY <1>1, <1>2, <1>3, ModelFacts

\* What getReason returns follows: a stored clause of the database, or an
\* explanation of the theory.
LEMMA ReasonSound ==
    ASSUME SearchInv, SoundInv, NEW i \in 1..nAssigns, NEW r \in ReasonsFor(i),
           r # CRef_Undef
    PROVE  Entails(formula, r)
  <1> DEFINE p == trail[i].lit
  <1>1. p \in Lit /\ -p \in Lit /\ -(-p) = p
    BY StateFacts, LitFacts
  <1>2. CASE trail[i].reason = CRef_Fake
    <2>1. PICK S \in SUBSET TheoryLits(SubSeq(trail, 1, i - 1)) :
              /\ ~ Consistent(S \cup {-p})
              /\ r = {p} \cup {-q : q \in S}
      BY <1>2 DEF ReasonsFor, TheoryReasons
    <2>2. S \subseteq Lit
      <3>1. i - 1 \in 0..Len(trail) /\ trail \in Seq(Entry)
        BY StateFacts
      <3>2. SubSeq(trail, 1, i - 1) \in Seq(Entry)
        BY <3>1, PrefixFacts
      <3> QED
        BY <3>2, TrailFacts DEF TheoryLits, LitsOf
    <2>3. S \cup {-p} \in SUBSET Lit
      BY <1>1, <2>2
    <2>4. Entails(formula, {-q : q \in S \cup {-p}})
      BY <2>1, <2>3, TheoryClause
    <2>5. {-q : q \in S \cup {-p}} = r
      BY <1>1, <2>1
    <2> QED
      BY <2>4, <2>5
  <1>3. CASE trail[i].reason # CRef_Fake
    <2>1. r = trail[i].reason /\ IsClause(r)
      BY <1>3 DEF ReasonsFor, IsClause
    <2>2. r \in DB
      BY <2>1, StateFacts DEF SearchInv, TrailInv, ReasonsOK
    <2> QED
      BY <2>2 DEF SoundInv, DatabaseInv
  <1> QED
    BY <1>2, <1>3

\* Taking entries of the current level back loses nothing that lasts.
LEMMA CutSound ==
    ASSUME SearchInv, SoundInv, pc = "analyze", NEW i \in 1..nAssigns,
           trail[i].level = decisionLevel, decisionLevel > 0,
           trail' \in Seq(Entry), trail_lim' = trail_lim,
           i - 1 <= Len(trail'), DOMAIN trail' = 1..Len(trail'), Len(trail') \in Nat,
           \A j \in 1..Len(trail') : j \in 1..nAssigns /\ trail'[j] = trail[j],
           UNCHANGED <<clauses, learnts, missed, decision, ok, formula, assumptions>>
    PROVE  /\ DatabaseInv'
           /\ AssumptionsFirst(trail, assumptions)'
           /\ AssumedUpTo(trail, assumptions, decisionLevel - 1)'
  <1>1. /\ trail \in Seq(Entry) /\ TrailOK(trail, trail_lim) /\ decisionLevel \in Nat
        /\ DOMAIN trail = 1..nAssigns /\ nAssigns = Len(trail)
        /\ nAssigns \in Nat /\ trail_lim \in Seq(Nat)
        /\ \A j \in 1..nAssigns : trail[j].level \in Nat
    BY StateFacts
  <1>2. ASSUME NEW j \in 1..nAssigns, trail[j].level < decisionLevel
        PROVE  j \in DOMAIN trail' /\ trail'[j] = trail[j]
    <2>1. ~ (i <= j)
      <3>1. i <= j => trail[i].level <= trail[j].level
        BY <1>1, LevelsMonotone
      <3> QED
        BY <1>1, <1>2, <3>1
    <2>2. j \in 1..Len(trail')
      BY <1>1, <2>1
    <2> QED
      BY <2>2
  <1>3. AtZero(trail') = AtZero(trail)
    <2>1. ASSUME NEW q \in AtZero(trail) PROVE q \in AtZero(trail')
      <3>1. PICK j \in 1..nAssigns : trail[j].lit = q /\ trail[j].level = 0
        BY <1>1 DEF AtZero
      <3>2. j \in DOMAIN trail' /\ trail'[j] = trail[j]
        BY <1>1, <1>2, <3>1
      <3> QED
        BY <3>1, <3>2 DEF AtZero
    <2>2. ASSUME NEW q \in AtZero(trail') PROVE q \in AtZero(trail)
      BY <1>1 DEF AtZero
    <2> QED
      BY <2>1, <2>2
  <1>4. DatabaseInv'
    BY <1>3, DatabaseStep DEF SoundInv, DB
  <1>5. AssumptionsFirst(trail', assumptions')
    BY <1>1 DEF SoundInv, AssumptionInv, AssumptionsFirst
  <1>6. AssumedUpTo(trail', assumptions', decisionLevel - 1)
    <2> SUFFICES ASSUME NEW k \in 1..(decisionLevel - 1), k <= Len(assumptions)
                 PROVE  \E j \in DOMAIN trail' :
                           trail'[j].lit = assumptions[k] /\ trail'[j].level <= k
      BY DEF AssumedUpTo
    <2>1. PICK j \in 1..nAssigns : trail[j].lit = assumptions[k] /\ trail[j].level <= k
      BY <1>1 DEF SoundInv, AssumptionInv, AssumedUpTo
    <2>2. trail[j].level < decisionLevel
      BY <1>1, <2>1
    <2> QED
      BY <1>2, <2>1, <2>2
  <1>7. decisionLevel' = decisionLevel
    BY DEF decisionLevel
  <1> QED
    BY <1>4, <1>5, <1>6, <1>7

\* Before a turn: the literals of the clause that are at level 0 drop out, and
\* what is left is the marked part of the trail.
LEMMA MarkedEntailed ==
    ASSUME SearchInv, SoundInv, pc = "analyze"
    PROVE  Entails(formula, {-trail[j].lit : j \in {k \in 1..index :
                                                       var(trail[k].lit) \in AllMarks}})
  <1> DEFINE M == {-trail[j].lit : j \in {k \in 1..index : var(trail[k].lit) \in AllMarks}}
             Z == {q \in confl \ {pivot} : LevelOf(var(q)) = 0}
  <1>1. M \subseteq Lit /\ Z \subseteq Lit
    BY AnalyzeFacts, LitFacts
  <1>2. confl \subseteq (M \cup Z) \cup {pivot}
    <2> SUFFICES ASSUME NEW q \in confl \ {pivot}, q \notin Z
                 PROVE  q \in M
      OBVIOUS
    <2>1. PICK j \in 1..index : trail[j].lit = -q /\ trail[j].level = LevelOf(var(q))
      BY ConflFacts
    <2>2. q \in Lit /\ var(trail[j].lit) = var(q) /\ -trail[j].lit = q
      BY <2>1, ConflFacts, LitFacts
    <2>3. LevelOf(var(q)) > 0
      BY <2>1, AnalyzeFacts
    <2>4. var(q) \in AllMarks
      BY <2>3 DEF AllMarks, NewMarks, Above0
    <2> QED
      BY <2>2, <2>4
  <1>3. MarkedLits \subseteq M
    BY DEF MarkedLits, AllMarks
  <1>4. Entails(formula, confl) /\ (pivot # lit_Undef => Entails(formula, {-pivot} \cup MarkedLits))
    BY DEF SoundInv, ResolventInv
  <1>5. pivot \in Lit \cup {lit_Undef} /\ lit_Undef \notin Lit
    BY LitFacts DEF SearchInv, TypeOK, lit_Undef
  <1>6. \A q \in Z : Entails(formula, {-q})
    <2> TAKE q \in Z
    <2>1. PICK j \in 1..index : trail[j].lit = -q /\ trail[j].level = 0
      BY ConflFacts
    <2>2. -q \in AtZero(trail)
      BY <2>1, AnalyzeFacts, StateFacts DEF AtZero
    <2> QED
      BY <2>2 DEF SoundInv, DatabaseInv
  <1> HIDE DEF M, Z
  <1>7. Entails(formula, M \cup Z)
    <2>1. CASE pivot = lit_Undef
      <3>1. confl \subseteq M \cup Z
        BY <1>2, <1>5, <2>1, AnalyzeFacts
      <3> QED
        BY <1>4, <3>1, EntailsMono
    <2>2. CASE pivot \in Lit
      <3>1. {-pivot} \cup MarkedLits \subseteq (M \cup Z) \cup {-pivot}
        BY <1>3
      <3>2. Entails(formula, {-pivot} \cup MarkedLits)
        BY <1>4, <1>5, <2>2
      <3> QED
        BY <1>2, <1>4, <2>2, <3>1, <3>2, EntailsResolve
    <2> QED
      BY <1>5, <2>1, <2>2
  <1>8. Entails(formula, M)
    BY <1>1, <1>6, <1>7, EntailsDrop
  <1> QED
    BY <1>8 DEF M

\* One turn: the clause derived so far is resolved with the reason of its last
\* marked literal.
LEMMA AnalyzeStepSound ==
    ASSUME SearchInv, SearchInv', SoundInv, AnalyzeStep, UNCHANGED formula
    PROVE  SoundInv'
  <1> DEFINE n == pathC + Cardinality(HereMarks) - 1
             Turn(i, r) ==
                /\ IsTopSeen(i, AllMarks)
                /\ pivot' = trail[i].lit
                /\ seen' = AllMarks \ {var(trail[i].lit)}
                /\ index' = i - 1
                /\ confl' = r
                /\ IF trail[i].reason = CRef_Fake
                     THEN /\ trail' = SubSeq(trail, 1, i - 1)
                          /\ trail_lim' = CancelVarLim(i)
                     ELSE UNCHANGED trailVars
                /\ pc' = IF n <= 0 THEN "learn"
                         ELSE IF r = CRef_Undef THEN "assert" ELSE "analyze"
  <1>1. /\ pc = "analyze"
        /\ UNCHANGED <<clauses, learnts, missed, decision, ok, formula, assumptions, conflict>>
    BY DEF AnalyzeStep, dbVars, callVars, resultVars
  <1>2a. PICK i \in 1..index : \E r \in ReasonsFor(i) : Turn(i, r)
    BY Zenon DEF AnalyzeStep, NewMarks, HereMarks, AllMarks
  <1>2. PICK r \in ReasonsFor(i) : Turn(i, r)
    BY <1>2a
  <1>3. /\ IsTopSeen(i, AllMarks)
        /\ pivot' = trail[i].lit /\ seen' = AllMarks \ {var(trail[i].lit)}
        /\ index' = i - 1 /\ confl' = r
        /\ \/ trail' = SubSeq(trail, 1, i - 1) /\ trail_lim' = CancelVarLim(i)
           \/ trail' = trail /\ trail_lim' = trail_lim
        /\ pc' = "learn" \/ (pc' = "analyze" /\ r # CRef_Undef)
    <2>1. pc' # "assert"
      BY DEF SearchInv, Phases
    <2> QED
      BY <1>2, <2>1 DEF trailVars
  <1>4. /\ i \in 1..nAssigns /\ trail[i].level = decisionLevel /\ decisionLevel > 0
        /\ trail[i].lit \in Lit /\ index \in Nat
    BY <1>1, <1>3, AnalyzeFacts, TopEntry
  <1>5. /\ trail' \in Seq(Entry) /\ trail_lim' = trail_lim
        /\ Len(trail') \in Nat /\ i - 1 <= Len(trail') /\ DOMAIN trail' = 1..Len(trail')
        /\ \A j \in 1..Len(trail') : j \in 1..nAssigns /\ trail'[j] = trail[j]
    BY <1>1, <1>3, <1>4, TrailCut
  <1>6. /\ DatabaseInv'
        /\ AssumptionsFirst(trail, assumptions)'
        /\ AssumedUpTo(trail, assumptions, decisionLevel - 1)'
    BY <1>1, <1>4, <1>5, CutSound
  <1>7. AssumptionInv'
    BY <1>3, <1>6 DEF AssumptionInv
  <1>8. Entails(formula, {-pivot'} \cup MarkedLits')
    <2> DEFINE M == {-trail[j].lit : j \in {k \in 1..index : var(trail[k].lit) \in AllMarks}}
    <2>1. \A x \in M : x \in {-pivot'} \cup MarkedLits'
      <3> SUFFICES ASSUME NEW j \in 1..index, var(trail[j].lit) \in AllMarks, j # i
                   PROVE  -trail[j].lit \in MarkedLits'
        BY <1>3
      <3>1. var(trail[j].lit) # var(trail[i].lit)
        BY <1>1, AnalyzeFacts
      <3>2. j \in 1..(i - 1)
        BY <1>1, <1>3, <3>1, TopEntry
      <3>3. j \in 1..Len(trail') /\ trail'[j] = trail[j]
        BY <1>4, <1>5, <3>2
      <3>4. j \in 1..index' /\ var(trail'[j].lit) \in seen'
        BY <1>3, <3>1, <3>2, <3>3
      <3> QED
        BY <3>3, <3>4 DEF MarkedLits
    <2>2. Entails(formula, M)
      BY <1>1, MarkedEntailed
    <2> HIDE DEF M
    <2>3. M \subseteq {-pivot'} \cup MarkedLits'
      BY <2>1
    <2> QED
      BY <2>2, <2>3, EntailsMono
  <1>9. ResolventInv'
    <2>1. CASE pc' = "learn"
      <3>1. -pivot' \notin TrueLits'
        <4>1. TrueLits' \subseteq TrueLits
          BY <1>5, StateFacts DEF TrueLits, LitsOf
        <4>2. pivot' \in TrueLits
          BY <1>3, <1>4, StateFacts DEF TrueLits, LitsOf
        <4>3. -pivot' \notin TrueLits
          BY <4>2, StateFacts, TrailConsistentLits
        <4> QED
          BY <4>1, <4>3
      <3>2. MarkedLits' \subseteq out_learnt'
        <4> SUFFICES ASSUME NEW j \in 1..index', var(trail'[j].lit) \in seen'
                     PROVE  -trail'[j].lit \in out_learnt'
          BY DEF MarkedLits
        <4>1. j \in DOMAIN trail'
          BY <1>3, <1>4, <1>5
        <4>2. /\ seen' = {var(q) : q \in out_learnt'} /\ out_learnt' \subseteq Lit
              /\ \A q \in out_learnt' : \E k \in DOMAIN trail' : trail'[k].lit = -q
              /\ TrailOK(trail', trail_lim')
          BY <2>1 DEF SearchInv, LearnInv, TypeOK, TrailInv
        <4>3. PICK q \in out_learnt' : var(trail'[j].lit) = var(q)
          BY <4>2
        <4>4. PICK k \in DOMAIN trail' : trail'[k].lit = -q
          BY <4>2
        <4>5. q \in Lit /\ var(-q) = var(q) /\ -(-q) = q
          BY <4>2, LitFacts
        <4>6. k = j
          BY <4>1, <4>2, <4>3, <4>4, <4>5 DEF TrailOK
        <4> QED
          BY <4>4, <4>5, <4>6
      <3>3. Entails(formula', {-pivot'} \cup out_learnt')
        BY <1>1, <1>8, <3>2, EntailsMono
      <3> QED
        BY <2>1, <3>1, <3>3 DEF ResolventInv
    <2>2. CASE pc' = "analyze" /\ r # CRef_Undef
      <3>1. Entails(formula', confl')
        BY <1>1, <1>3, <1>4, <2>2, ReasonSound
      <3> QED
        BY <1>1, <1>8, <2>2, <3>1 DEF ResolventInv
    <2> QED
      BY <1>3, <2>1, <2>2
  <1> QED
    BY <1>1, <1>3, <1>6, <1>7, <1>9, AnswerRunning DEF SoundInv

-----------------------------------------------------------------------------
(* Learning.                                                               *)

\* Minimisation: a literal is dropped only if the others imply it.  Of the
\* literals a countermodel would have to drop, take the one assigned first: its
\* reason has only literals that were kept, or dropped earlier.
LEMMA MinimizedSound ==
    ASSUME SearchInv, SoundInv, pc = "learn", NEW others,
           others = Minimized(seen \cup Toclear)
    PROVE  Entails(formula, {-pivot} \cup others)
  <1> DEFINE S == seen \cup Toclear
  <1>1. /\ pivot \in Lit /\ -pivot \in Lit /\ -pivot \notin TrueLits
        /\ out_learnt \subseteq Lit
        /\ \A q \in out_learnt : -q \in TrueLits
        /\ \A v \in S : v = var(pivot) \/ \E q \in out_learnt : v = var(q)
        /\ Entails(formula, {-pivot} \cup out_learnt)
    BY LitFacts DEF SearchInv, LearnInv, TypeOK, SoundInv, ResolventInv, Toclear, TrueLits, LitsOf
  <1>2. others = out_learnt \ {-trail[i].lit : i \in Redundant(S)}
    BY DEF Minimized
  <1> HIDE DEF S
  <1>3. Redundant(S) \subseteq 1..nAssigns
    BY StateFacts DEF Redundant
  <1> SUFFICES ASSUME NEW m \in Models(formula), ({-pivot} \cup others) \cap m = {}
               PROVE  FALSE
    BY EntailsModels
  <1>4. /\ m \in TModels
        /\ \A p \in Lit : p \in m <=> -p \notin m
        /\ \A c : Entails(formula, c) => c \cap m # {}
    BY EntailsModels, ModelFacts DEF Models
  <1>5. pivot \in m
    BY <1>1, <1>4
  <1>6. \A i \in 1..nAssigns : trail[i].lit \in Lit /\ -(-trail[i].lit) = trail[i].lit
    BY StateFacts, LitFacts
  <1> DEFINE B == {i \in Redundant(S) : trail[i].lit \notin m}
  <1>7. ASSUME NEW q \in out_learnt, q \in m
        PROVE  \E i \in B : trail[i].lit = -q
    <2>1. PICK i \in Redundant(S) : q = -trail[i].lit
      BY <1>2, <1>7
    <2>2. -q = trail[i].lit /\ -q \notin m
      BY <1>1, <1>3, <1>4, <1>6, <1>7, <2>1
    <2> QED
      BY <2>2
  <1>8. B # {} /\ B \subseteq Nat
    <2>1. PICK q \in {-pivot} \cup out_learnt : q \in m
      BY <1>1, <1>4
    <2>2. q \in out_learnt
      BY <2>1
    <2>3. B # {}
      BY <1>7, <2>1, <2>2
    <2>4. B \subseteq Nat
      BY <1>3, StateFacts
    <2> QED
      BY <2>3, <2>4
  <1>9. PICK i \in B : \A j \in B : ~ (j < i)
    <2> HIDE DEF B
    <2>1. PICK x \in B : \A y \in B : ~ (<<y, x>> \in OpToRel(<, Nat))
      BY <1>8, WFMin, NatLessThanWellFounded
    <2>2. \A y \in B : ~ (y < x)
      BY <1>8, <2>1 DEF OpToRel
    <2> QED
      BY <2>2
  <1>10. i \in 1..nAssigns /\ i \in Redundant(S) /\ trail[i].lit \notin m
    BY <1>3
  <1>11. PICK R \in SUBSET (DOMAIN trail) :
           /\ i \in R
           /\ \A k \in R :
                 /\ IsClause(trail[k].reason)
                 /\ \A q \in trail[k].reason \ {trail[k].lit} :
                       \/ LevelOf(var(q)) = 0
                       \/ var(q) \in S
                       \/ \E j \in R : trail[j].lit = -q
    BY <1>10 DEF Redundant
  <1>12. R \subseteq Redundant(S)
    BY <1>11 DEF Redundant
  <1>13. /\ trail[i].reason \in DB
         /\ \A q \in trail[i].reason \ {trail[i].lit} : \E j \in 1..(i - 1) : trail[j].lit = -q
    BY <1>10, <1>11, StateFacts DEF SearchInv, TrailInv, ReasonsOK
  <1>14. PICK q \in trail[i].reason : q \in m
    BY <1>4, <1>13 DEF SoundInv, DatabaseInv
  <1>15. q \in trail[i].reason \ {trail[i].lit} /\ q \in Lit
    BY <1>10, <1>13, <1>14, StateFacts
  <1>16. PICK j \in 1..(i - 1) : trail[j].lit = -q
    BY <1>13, <1>15
  <1>17. j \in 1..nAssigns /\ j < i /\ -q \in TrueLits
    <2>1. j \in 1..nAssigns /\ j < i
      BY <1>10, <1>16, StateFacts
    <2> QED
      BY <1>16, <2>1, StateFacts DEF TrueLits, LitsOf
  <1>18. \A k \in 1..nAssigns : trail[k].lit = -q => k = j
    BY <1>16, <1>17, StateFacts DEF TrailOK
  <1>19. j \notin B
    BY <1>9, <1>17
  <1>20. -q \notin m /\ -(-q) = q
    BY <1>4, <1>14, <1>15, LitFacts
  <1>21. CASE LevelOf(var(q)) = 0
    <2>1. -q \in AtZero(trail)
      BY <1>15, <1>17, <1>21, FalseLevel
    <2>2. {-q} \cap m # {}
      BY <1>4, <2>1 DEF SoundInv, DatabaseInv
    <2> QED
      BY <1>20, <2>2
  <1>22. CASE var(q) \in S
    <2>1. CASE var(q) = var(pivot)
      <3>1. q = pivot \/ q = -pivot
        BY <1>1, <1>15, <2>1, SameVar
      <3> QED
        BY <1>1, <1>4, <1>5, <1>14, <1>17, <1>20, <3>1
    <2>2. ASSUME NEW o \in out_learnt, var(q) = var(o) PROVE FALSE
      <3>1. o \in Lit /\ -o \in TrueLits
        BY <1>1
      <3>2. q = o \/ q = -o
        BY <1>15, <2>2, <3>1, SameVar
      <3>3. -q \in TrueLits /\ -(-q) \notin TrueLits
        BY <1>17, StateFacts, TrailConsistentLits
      <3>4. q = o
        BY <1>20, <3>1, <3>2, <3>3
      <3>5. PICK k \in B : trail[k].lit = -q
        BY <1>7, <1>14, <3>4
      <3>6. k \in 1..nAssigns
        BY <1>3
      <3> QED
        BY <1>18, <1>19, <3>5, <3>6
    <2> QED
      BY <1>1, <1>22, <2>1, <2>2
  <1>23. ASSUME NEW k \in R, trail[k].lit = -q PROVE FALSE
    <2>1. k \in Redundant(S) /\ k \in 1..nAssigns
      BY <1>3, <1>12
    <2>2. k \in B
      BY <1>20, <1>23, <2>1
    <2> QED
      BY <1>18, <1>19, <1>23, <2>1, <2>2
  <1> QED
    BY <1>11, <1>15, <1>21, <1>22, <1>23

\* The learnt clause, and at level 0 the literal, follow from the formula.
LEMMA LearnSound ==
    ASSUME SearchInv, SearchInv', SoundInv, Learn, UNCHANGED formula
    PROVE  SoundInv'
  <1> DEFINE others == Minimized(seen \cup Toclear)
             lev == BacktrackLevel(others)
             learnt == {-pivot} \cup others
             r == IF others = {} THEN CRef_Undef ELSE learnt
  <1>1. /\ pc = "learn"
        /\ trail' = Enqueued(KeptTrail(lev), -pivot, lev, r)
        /\ trail_lim' = KeptLim(lev)
        /\ learnts' = IF others = {} THEN learnts ELSE learnts \cup {learnt}
        /\ pc' \in {"search", "assert"}
    BY Zenon DEF Learn
  <1>2. UNCHANGED <<clauses, decision, missed, ok, formula, assumptions, conflict>>
    BY DEF Learn, callVars, resultVars
  <1>3. pc' = "search"
    BY <1>1 DEF SearchInv, Phases
  <1>4. Entails(formula, learnt)
    BY <1>1, MinimizedSound
  <1>5. others \subseteq out_learnt
    BY DEF Minimized
  <1> HIDE DEF others
  <1>6. /\ decisionLevel > 0 /\ pivot \in Lit /\ -pivot \in Lit /\ others \in SUBSET Lit
        /\ \A q \in others : \E i \in 1..nAssigns :
              trail[i].lit = -q /\ trail[i].level \in 1..(decisionLevel - 1)
    BY <1>1, <1>5, StateFacts, LitFacts DEF SearchInv, LearnInv, TypeOK
  <1>7. /\ lev \in 0..(decisionLevel - 1)
        /\ others = {} => lev = 0
        /\ others # {} => \E q \in others : LevelOf(var(q)) = lev
    BY <1>6, StateFacts, BacktrackFacts
  <1>8. lev = 0 => others = {}
    <2> SUFFICES ASSUME NEW q \in others
                 PROVE  LevelOf(var(q)) # 0
      BY <1>7
    <2>1. PICK i \in 1..nAssigns : trail[i].lit = -q /\ trail[i].level \in 1..(decisionLevel - 1)
      BY <1>6
    <2>2. q \in Lit
      BY <1>6
    <2>3. LevelOf(var(q)) = trail[i].level
      BY <2>1, <2>2, StateFacts, LevelOfLit
    <2> QED
      BY <2>1, <2>3
  <1> HIDE DEF lev
  <1>9. lev \in 0..decisionLevel /\ lev < decisionLevel
    BY <1>7, StateFacts
  <1>10. learnt \in Clause /\ learnt # CRef_Undef
    BY <1>6, ClauseIsClause DEF IsClause
  <1>11. /\ r \in {CRef_Undef, CRef_Fake} \cup Clause
         /\ r = CRef_Undef => lev = 0
         /\ lev = 0 => Entails(formula, {-pivot})
    BY <1>4, <1>7, <1>8, <1>10
  <1>12. \A c \in DB' : c \in DB \/ Entails(formula, c)
    BY <1>1, <1>2, <1>4 DEF DB
  <1> HIDE DEF r, learnt
  <1>13. /\ DatabaseInv'
         /\ AssumptionsFirst(trail, assumptions)'
         /\ AssumedUpTo(trail, assumptions, decisionLevel)'
    BY <1>1, <1>2, <1>6, <1>9, <1>11, <1>12, JumpSound
  <1>14. AssumptionInv'
    BY <1>3, <1>13 DEF AssumptionInv
  <1> QED
    BY <1>1, <1>2, <1>3, <1>13, <1>14, AnswerRunning, ResolventQuiet DEF SoundInv

-----------------------------------------------------------------------------
(* The final conflict.                                                     *)

\* The trail while analyzeFinal walks it: an entry is above level 0 if and only
\* if it lies above the first limit.
LEMMA FinalFacts ==
    ASSUME SearchInv, pc = "final"
    PROVE  /\ decisionLevel > 0 /\ index \in Nat /\ index <= nAssigns
           /\ trail_lim[1] \in Nat
           /\ \A i \in 1..index : i \in 1..nAssigns
           /\ \A i \in 1..nAssigns : trail_lim[1] < i <=> trail[i].level > 0
           /\ MarkedLits \subseteq Lit
  <1>1. decisionLevel > 0 /\ index \in Nat /\ index <= nAssigns
    BY DEF SearchInv, TypeOK, FinalInv
  <1>2. 1 \in 1..Len(trail_lim) /\ DOMAIN trail_lim = 1..Len(trail_lim) /\ trail_lim[1] \in Nat
    BY <1>1, StateFacts, SeqFacts
  <1>3. \A i \in 1..index : i \in 1..nAssigns
    BY <1>1, StateFacts
  <1>4. \A i \in 1..nAssigns : trail_lim[1] < i <=> trail[i].level > 0
    <2> TAKE i \in 1..nAssigns
    <2>1. trail_lim[1] < i <=> 1 <= trail[i].level
      BY <1>2, StateFacts DEF TrailOK
    <2> QED
      BY <2>1, StateFacts
  <1>5. MarkedLits \subseteq Lit
    BY <1>3, StateFacts, LitFacts DEF MarkedLits
  <1> QED
    BY <1>1, <1>2, <1>3, <1>4, <1>5

\* Marks at level 0 stand for literals that are false for good.
LEMMA ZeroMark ==
    ASSUME SearchInv, SoundInv, NEW q, -q \in AtZero(trail)
    PROVE  Entails(formula, {-q})
  BY DEF SoundInv, DatabaseInv

\* One turn of analyzeFinal: an implied literal is resolved away, a decision is
\* an assumption and joins the conflict.
LEMMA FinalStepSound ==
    ASSUME SearchInv, SoundInv, FinalStep, UNCHANGED formula
    PROVE  SoundInv'
  <1>1. /\ pc = "final" /\ pc' = "final"
        /\ UNCHANGED <<clauses, learnts, missed, decision, trail, trail_lim, ok, formula, assumptions,
                       forced_split, status, model>>
    BY DEF FinalStep, dbVars, trailVars, callVars
  <1>2a. PICK i \in (trail_lim[1] + 1)..index : \E r \in ReasonsFor(i) :
           /\ IsTopSeen(i, seen)
           /\ index' = i - 1
           /\ IF r = CRef_Undef
                THEN conflict' = conflict \cup {-trail[i].lit} /\ UNCHANGED seen
                ELSE /\ seen' = (seen \cup {var(q) : q \in Above0(r \ {trail[i].lit})})
                                \ {var(trail[i].lit)}
                     /\ UNCHANGED conflict
    BY DEF FinalStep
  <1>2. PICK r \in ReasonsFor(i) :
           /\ IsTopSeen(i, seen)
           /\ index' = i - 1
           /\ IF r = CRef_Undef
                THEN conflict' = conflict \cup {-trail[i].lit} /\ UNCHANGED seen
                ELSE /\ seen' = (seen \cup {var(q) : q \in Above0(r \ {trail[i].lit})})
                                \ {var(trail[i].lit)}
                     /\ UNCHANGED conflict
    BY <1>2a
  <1> DEFINE p == trail[i].lit
  <1>3. /\ i \in 1..index /\ i \in 1..nAssigns /\ trail[i].level > 0
        /\ index \in Nat /\ p \in Lit /\ -p \in Lit
    <2>1. i \in 1..index /\ i \in 1..nAssigns /\ trail_lim[1] < i
      BY <1>1, FinalFacts
    <2> QED
      BY <1>1, <2>1, FinalFacts, StateFacts, LitFacts
  <1>4. \A j \in 1..index : var(trail[j].lit) \in seen => j = i \/ j \in 1..(i - 1)
    BY <1>2, <1>3 DEF IsTopSeen
  <1>5. \A j \in 1..(i - 1) : j \in 1..index /\ j \in 1..nAssigns /\ var(trail[j].lit) # var(p)
    <2> TAKE j \in 1..(i - 1)
    <2>1. j \in 1..index /\ j # i
      BY <1>3
    <2>2. j \in 1..nAssigns
      BY <1>1, <2>1, FinalFacts
    <2> QED
      BY <1>3, <2>1, <2>2, StateFacts DEF TrailOK
  <1>6. MarkedLits' = {-trail[j].lit : j \in {k \in 1..(i - 1) : var(trail[k].lit) \in seen'}}
    BY <1>1, <1>2 DEF MarkedLits
  <1>7. Entails(formula, conflict \cup MarkedLits) /\ conflict \subseteq {-a : a \in Assumed}
    BY <1>1 DEF SoundInv, ResolventInv, AnswerInv
  <1>8. DatabaseInv' /\ AssumptionInv'
    BY <1>1, DatabaseSame DEF SoundInv, AssumptionInv, decisionLevel
  <1>9. ASSUME Entails(formula, conflict' \cup MarkedLits'), conflict' \subseteq {-a : a \in Assumed}
        PROVE  SoundInv'
    <2>1. ResolventInv'
      BY <1>1, <1>9 DEF ResolventInv
    <2>2. AnswerInv'
      BY <1>1, <1>9
         DEF SoundInv, AnswerInv, AnswersCorrect, SatCorrect, ConflictCorrect, Assumed
    <2> QED
      BY <1>8, <2>1, <2>2 DEF SoundInv
  <1>10. CASE r = CRef_Undef
    <2>1. trail[i].reason = CRef_Undef
      BY <1>3, <1>10, StateFacts, ReasonTypes, CRefAssumption DEF SearchInv, TrailInv, IsClause
    <2>2. p \in Assumed
      <3>1. trail[i].level \in 1..decisionLevel /\ decisionLevel < Len(assumptions)
        BY <1>1, <1>3, StateFacts DEF SoundInv, AssumptionInv
      <3>2. trail[i].level \in DOMAIN assumptions /\ trail[i].level <= Len(assumptions)
        BY <3>1, StateFacts, SeqFacts
      <3>3. p = assumptions[trail[i].level]
        BY <1>3, <2>1, <3>2, StateFacts DEF SoundInv, AssumptionInv, AssumptionsFirst
      <3> QED
        BY <3>2, <3>3 DEF Assumed
    <2>3. conflict' = conflict \cup {-p} /\ seen' = seen
      BY <1>2, <1>10
    <2>4. MarkedLits \subseteq {-p} \cup MarkedLits'
      BY <1>4, <1>6, <2>3 DEF MarkedLits
    <2>5. Entails(formula, conflict' \cup MarkedLits')
      <3>1. conflict \cup MarkedLits \subseteq conflict' \cup MarkedLits'
        BY <2>3, <2>4
      <3> QED
        BY <1>7, <3>1, EntailsMono
    <2> QED
      BY <1>7, <1>9, <2>2, <2>3, <2>5
  <1>11. CASE r # CRef_Undef
    <2> DEFINE Z == {q \in r \ {p} : -q \in AtZero(trail)}
               d == conflict \cup MarkedLits'
    <2>1. /\ seen' = (seen \cup {var(q) : q \in Above0(r \ {p})}) \ {var(p)}
          /\ conflict' = conflict
      BY <1>2, <1>11
    <2>2. /\ r \subseteq Lit
          /\ \A q \in r \ {p} : \E j \in 1..(i - 1) : trail[j].lit = -q
      BY <1>3, <1>11, StateFacts, ReasonTypes DEF SearchInv, TrailInv
    <2>3. Entails(formula, r)
      BY <1>3, <1>11, ReasonSound
    <2>4. MarkedLits \subseteq MarkedLits' \cup {-p}
      <3> SUFFICES ASSUME NEW j \in 1..(i - 1), var(trail[j].lit) \in seen
                   PROVE  -trail[j].lit \in MarkedLits'
        BY <1>4 DEF MarkedLits
      <3>1. var(trail[j].lit) \in seen'
        BY <1>5, <2>1
      <3> QED
        BY <1>6, <3>1
    <2>5. ASSUME NEW q \in r \ {p}, q \notin Z PROVE q \in MarkedLits'
      <3>1. PICK j \in 1..(i - 1) : trail[j].lit = -q
        BY <2>2
      <3>2. q \in Lit /\ var(trail[j].lit) = var(q) /\ -trail[j].lit = q
        BY <2>2, <3>1, LitFacts
      <3>3. j \in 1..nAssigns /\ var(q) # var(p)
        BY <1>5, <3>2
      <3>4. -q \in TrueLits
        BY <3>1, <3>3, StateFacts DEF TrueLits, LitsOf
      <3>5. LevelOf(var(q)) > 0
        BY <2>5, <3>2, <3>4, FalseLevel, StateFacts
      <3>6. var(q) \in seen'
        BY <2>1, <3>3, <3>5 DEF Above0
      <3> QED
        BY <1>6, <3>2, <3>6
    <2>6. d \in SUBSET Lit
      <3>1. MarkedLits' \subseteq Lit
        BY <1>5, <1>6, StateFacts, LitFacts
      <3> QED
        BY <3>1, StateFacts
    <2>7. \A q \in Z : Entails(formula, {-q})
      BY ZeroMark
    <2>8. r \subseteq (d \cup Z) \cup {p} /\ conflict \cup MarkedLits \subseteq (d \cup Z) \cup {-p}
      BY <2>4, <2>5
    <2>9. Z \subseteq Lit
      BY <2>2
    <2> HIDE DEF d, Z
    <2>10. Entails(formula, d \cup Z)
      BY <1>3, <1>7, <2>3, <2>8, EntailsResolve
    <2>11. Entails(formula, d)
      <3>1. d \cup Z \in SUBSET Lit /\ \A q \in (d \cup Z) \ d : Entails(formula, {-q})
        BY <2>6, <2>7, <2>9
      <3> QED
        BY <2>10, <3>1, EntailsDrop
    <2>12. Entails(formula, conflict' \cup MarkedLits')
      BY <2>1, <2>11 DEF d
    <2> QED
      BY <1>7, <1>9, <2>1, <2>12
  <1> QED
    BY <1>10, <1>11

\* What is still marked when analyzeFinal ends is false for good.
LEMMA FinalDoneSound ==
    ASSUME SearchInv, SoundInv, FinalDone, UNCHANGED formula
    PROVE  SoundInv'
  <1>1. /\ pc = "final" /\ pc' = "done" /\ status' = "l_False"
        /\ \A i \in (trail_lim[1] + 1)..index : var(trail[i].lit) \notin seen
        /\ UNCHANGED <<clauses, learnts, missed, decision, trail, trail_lim, ok, formula, assumptions,
                       conflict>>
    BY DEF FinalDone, Finish, dbVars, trailVars, callVars
  <1>2. Entails(formula, conflict \cup MarkedLits) /\ conflict \subseteq {-a : a \in Assumed}
    BY <1>1 DEF SoundInv, ResolventInv, AnswerInv
  <1>3. \A q \in MarkedLits : Entails(formula, {-q})
    <2> SUFFICES ASSUME NEW j \in 1..index, var(trail[j].lit) \in seen
                 PROVE  Entails(formula, {-(-trail[j].lit)})
      BY DEF MarkedLits
    <2>1. j \in 1..nAssigns /\ ~ (trail_lim[1] < j)
      BY <1>1, FinalFacts
    <2>2. trail[j].level = 0
      BY <1>1, <2>1, FinalFacts, StateFacts
    <2>3. -(-trail[j].lit) = trail[j].lit /\ trail[j].lit \in AtZero(trail)
      BY <2>1, <2>2, StateFacts, LitFacts DEF AtZero
    <2> QED
      BY <2>3 DEF SoundInv, DatabaseInv
  <1>4. Entails(formula, conflict)
    <2>1. conflict \cup MarkedLits \in SUBSET Lit
      BY <1>1, FinalFacts, StateFacts
    <2> QED
      BY <1>2, <1>3, <2>1, EntailsDrop
  <1>5. DatabaseInv' /\ AssumptionInv'
    BY <1>1, DatabaseSame DEF SoundInv, AssumptionInv, decisionLevel
  <1>6. AnswerInv'
    BY <1>1, <1>2, <1>4 DEF AnswerInv, AnswersCorrect, SatCorrect, ConflictCorrect, Assumed
  <1> QED
    BY <1>1, <1>5, <1>6, ResolventQuiet DEF SoundInv

-----------------------------------------------------------------------------
(* Assumptions and decisions.                                              *)

\* A literal that opens a level: at the levels of the assumptions it is the
\* assumption.
LEMMA NewLevelSound ==
    ASSUME SearchInv, SoundInv, NEW p \in Lit, pc \notin {"analyze", "learn"},
           trail' = Enqueued(trail, p, decisionLevel + 1, CRef_Undef),
           trail_lim' = Append(trail_lim, nAssigns),
           UNCHANGED <<clauses, learnts, missed, decision, ok, formula, assumptions>>,
           decisionLevel + 1 <= Len(assumptions) => p = assumptions[decisionLevel + 1]
    PROVE  /\ DatabaseInv'
           /\ AssumptionsFirst(trail, assumptions)'
           /\ AssumedUpTo(trail, assumptions, decisionLevel)'
  <1> DEFINE L == decisionLevel
             u == Enqueued(trail, p, L + 1, CRef_Undef)
             n == Len(trail) + 1
  <1>1. /\ trail \in Seq(Entry) /\ trail_lim \in Seq(Nat) /\ L \in Nat /\ L + 1 \in Nat
        /\ L = Len(trail_lim) /\ nAssigns \in Nat /\ assumptions \in Seq(Lit)
    BY StateFacts
  <1>2. decisionLevel' = L + 1
    <2>1. Len(Append(trail_lim, nAssigns)) = Len(trail_lim) + 1
      BY <1>1, AppendFacts
    <2> QED
      BY <1>1, <2>1 DEF decisionLevel
  <1>3. AtZero(u) = AtZero(trail)
    BY <1>1, ZeroEnqueued
  <1>4. DatabaseInv'
    BY <1>3, DatabaseStep DEF SoundInv, DB
  <1>5. AssumptionsFirst(u, assumptions)
    BY <1>1, FirstEnqueued DEF SoundInv, AssumptionInv
  <1>6. AssumedUpTo(u, assumptions, L + 1)
    <2>1. AssumedUpTo(u, assumptions, L)
      BY <1>1, AssumedEnqueued DEF SoundInv, AssumptionInv
    <2>2. n \in DOMAIN u /\ u[n].lit = p /\ u[n].level = L + 1
      <3>1. DOMAIN u = 1..n /\ u[n].lit = p /\ u[n].level = L + 1
        BY <1>1, EnqueuedFacts
      <3>2. n \in 1..n
        BY StateFacts
      <3> QED
        BY <3>1, <3>2
    <2>3. L + 1 <= Len(assumptions) => p = assumptions[L + 1]
      OBVIOUS
    <2> HIDE DEF u, n, L
    <2>4. ASSUME NEW k \in 1..(L + 1), k <= Len(assumptions)
          PROVE  \E i \in DOMAIN u : u[i].lit = assumptions[k] /\ u[i].level <= k
      <3>1. CASE k = L + 1
        <4>1. assumptions[k] = p
          BY <2>4, <2>3, <3>1
        <4>2. u[n].level = k /\ k <= k
          BY <1>1, <2>2, <3>1
        <4> QED
          BY <2>2, <4>1, <4>2
      <3>2. CASE k \in 1..L
        BY <2>1, <2>4, <3>2 DEF AssumedUpTo
      <3>3. k = L + 1 \/ k \in 1..L
        BY <1>1
      <3> QED
        BY <3>1, <3>2, <3>3
    <2> QED
      BY <2>4 DEF AssumedUpTo
  <1> QED
    BY <1>2, <1>4, <1>5, <1>6

\* One assumption: already true, refuted, or the decision of its level.
LEMMA AssumeNextSound ==
    ASSUME SearchInv, SoundInv, AssumeNext, UNCHANGED formula
    PROVE  SoundInv'
  <1> DEFINE p == assumptions[decisionLevel + 1]
  <1>1. /\ pc = "assume" /\ decisionLevel < Len(assumptions)
        /\ UNCHANGED <<clauses, learnts, missed, decision, ok, formula, assumptions, model>>
    BY DEF AssumeNext, dbVars, callVars
  <1>2. \/ /\ p \in TrueLits
           /\ trail_lim' = Append(trail_lim, nAssigns)
           /\ UNCHANGED <<trail, conflict, pc>>
        \/ /\ -p \in TrueLits
           /\ conflict' = {-p}
           /\ \/ decisionLevel = 0 /\ Finish("l_False")
              \/ /\ decisionLevel # 0
                 /\ seen' = seen \cup {var(p)}
                 /\ index' = nAssigns /\ pc' = "final"
           /\ UNCHANGED trailVars
        \/ /\ trail_lim' = Append(trail_lim, nAssigns)
           /\ trail' = Enqueued(trail, p, decisionLevel + 1, CRef_Undef)
           /\ pc' = "search"
           /\ UNCHANGED conflict
    BY DEF AssumeNext
  <1>3. /\ decisionLevel \in Nat /\ decisionLevel + 1 \in DOMAIN assumptions
        /\ decisionLevel + 1 \in 1..Len(assumptions)
        /\ p \in Lit /\ p \in Assumed
    <2>1. decisionLevel \in Nat /\ decisionLevel + 1 \in 1..Len(assumptions)
      BY <1>1, StateFacts
    <2> QED
      BY <2>1, StateFacts, SeqFacts DEF Assumed
  <1>4. CASE p \in TrueLits /\ trail_lim' = Append(trail_lim, nAssigns)
             /\ UNCHANGED <<trail, conflict, pc>>
    <2>1. decisionLevel' = decisionLevel + 1
      <3>1. Len(Append(trail_lim, nAssigns)) = Len(trail_lim) + 1
        BY StateFacts, AppendFacts
      <3> QED
        BY <1>4, <3>1 DEF decisionLevel
    <2>2. DatabaseInv'
      BY <1>1, <1>4, DatabaseSame DEF SoundInv
    <2>3. AssumptionsFirst(trail', assumptions')
      BY <1>1, <1>4 DEF SoundInv, AssumptionInv
    <2>4. AssumedUpTo(trail, assumptions, decisionLevel + 1)
      <3>1. AssumedUpTo(trail, assumptions, decisionLevel)
        BY <1>1 DEF SoundInv, AssumptionInv
      <3>2. PICK i \in DOMAIN trail : trail[i].lit = p
        BY <1>4 DEF TrueLits, LitsOf
      <3>3. trail[i].level <= decisionLevel + 1
        BY <1>3, StateFacts
      <3>4. ASSUME NEW k \in 1..(decisionLevel + 1), k <= Len(assumptions)
            PROVE  \E j \in DOMAIN trail : trail[j].lit = assumptions[k] /\ trail[j].level <= k
        <4>1. CASE k = decisionLevel + 1
          BY <3>2, <3>3, <4>1
        <4>2. CASE k \in 1..decisionLevel
          BY <3>1, <3>4, <4>2 DEF AssumedUpTo
        <4> QED
          BY <1>3, <4>1, <4>2
      <3> QED
        BY <3>4 DEF AssumedUpTo
    <2>5. AssumptionInv'
      BY <1>1, <1>4, <2>1, <2>3, <2>4 DEF AssumptionInv
    <2> QED
      BY <1>1, <1>4, <2>2, <2>5, AnswerRunning, ResolventQuiet DEF SoundInv
  <1>5. CASE -p \in TrueLits /\ conflict' = {-p} /\ decisionLevel = 0 /\ Finish("l_False")
             /\ UNCHANGED trailVars
    <2>1. UNCHANGED <<trail, trail_lim>> /\ pc' = "done" /\ status' = "l_False"
      BY <1>5 DEF trailVars, Finish
    <2>2. DatabaseInv' /\ AssumptionInv'
      BY <1>1, <2>1, DatabaseSame, AssumptionSame DEF SoundInv
    <2>3. Entails(formula, {-p})
      <3>1. -p \in AtZero(trail)
        BY <1>5, AllZero
      <3> QED
        BY <3>1 DEF SoundInv, DatabaseInv
    <2>4. AnswerInv'
      BY <1>1, <1>3, <1>5, <2>1, <2>3
         DEF AnswerInv, AnswersCorrect, SatCorrect, ConflictCorrect, Assumed
    <2> QED
      BY <2>1, <2>2, <2>4, ResolventQuiet DEF SoundInv
  <1>6. CASE /\ -p \in TrueLits /\ conflict' = {-p} /\ seen' = seen \cup {var(p)}
             /\ index' = nAssigns /\ pc' = "final" /\ UNCHANGED trailVars
    <2>1. UNCHANGED <<trail, trail_lim>>
      BY <1>6 DEF trailVars
    <2>2. DatabaseInv'
      BY <1>1, <2>1, DatabaseSame DEF SoundInv
    <2>3. AssumptionInv'
      BY <1>1, <1>6, <2>1 DEF SoundInv, AssumptionInv, decisionLevel
    <2>4. p \in MarkedLits'
      <3>1. PICK i \in 1..nAssigns : trail[i].lit = -p
        BY <1>6, StateFacts DEF TrueLits, LitsOf
      <3>2. var(trail[i].lit) = var(p) /\ -trail[i].lit = p
        BY <1>3, <3>1, LitFacts
      <3> QED
        BY <1>6, <2>1, <3>1, <3>2 DEF MarkedLits
    <2>5. Entails(formula, {p, -p})
      <3> SUFFICES ASSUME NEW m \in Models(formula)
                   PROVE  {p, -p} \cap m # {}
        BY EntailsModels
      <3>1. m \in TModels
        BY DEF Models
      <3> QED
        BY <1>3, <3>1, ModelFacts
    <2>6. Entails(formula', conflict' \cup MarkedLits')
      <3>1. {p, -p} \subseteq conflict' \cup MarkedLits'
        BY <1>6, <2>4
      <3> QED
        BY <1>1, <2>5, <3>1, EntailsMono
    <2>7. ResolventInv'
      BY <1>6, <2>6 DEF ResolventInv
    <2>8. AnswerInv'
      BY <1>1, <1>3, <1>6
         DEF SoundInv, AnswerInv, AnswersCorrect, SatCorrect, ConflictCorrect, Assumed
    <2> QED
      BY <2>2, <2>3, <2>7, <2>8 DEF SoundInv
  <1>7. CASE /\ trail_lim' = Append(trail_lim, nAssigns)
             /\ trail' = Enqueued(trail, p, decisionLevel + 1, CRef_Undef)
             /\ pc' = "search" /\ UNCHANGED conflict
    <2>1. /\ DatabaseInv'
          /\ AssumptionsFirst(trail, assumptions)'
          /\ AssumedUpTo(trail, assumptions, decisionLevel)'
      BY <1>1, <1>3, <1>7, NewLevelSound
    <2>2. AssumptionInv'
      BY <1>7, <2>1 DEF AssumptionInv
    <2> QED
      BY <1>1, <1>7, <2>1, <2>2, AnswerRunning, ResolventQuiet DEF SoundInv
  <1> QED
    BY <1>2, <1>4, <1>5, <1>6, <1>7

\* Decisions come after the assumptions.
LEMMA DecideSound ==
    ASSUME SearchInv, SoundInv, Decide, UNCHANGED formula
    PROVE  SoundInv'
  <1>1. PICK p \in Candidates :
         IF Unassigned(p)
           THEN /\ trail_lim' = Append(trail_lim, nAssigns)
                /\ trail' = Enqueued(trail, p, decisionLevel + 1, CRef_Undef)
           ELSE UNCHANGED trailVars
    BY DEF Decide
  <1>2. /\ pc \in {"branch", "branch2"} /\ pc' = "search"
        /\ UNCHANGED <<clauses, learnts, missed, decision, ok, formula, assumptions, conflict>>
    BY DEF Decide, Branching, dbVars, callVars, resultVars
  <1>3. /\ p \in Lit /\ decisionLevel \in Nat
        /\ Len(assumptions) \in Nat /\ ~ (decisionLevel + 1 <= Len(assumptions))
    <2>1. decisionLevel >= Len(assumptions)
      BY <1>2 DEF SoundInv, AssumptionInv
    <2>2. p \in Lit
      BY CandidatesFacts DEF SearchInv
    <2> QED
      BY <2>1, <2>2, StateFacts
  <1>4. CASE Unassigned(p)
    <2>1. /\ DatabaseInv'
          /\ AssumptionsFirst(trail, assumptions)'
          /\ AssumedUpTo(trail, assumptions, decisionLevel)'
      BY <1>1, <1>2, <1>3, <1>4, NewLevelSound
    <2>2. AssumptionInv'
      BY <1>2, <2>1 DEF AssumptionInv
    <2> QED
      BY <1>2, <2>1, <2>2, AnswerRunning, ResolventQuiet DEF SoundInv
  <1>5. CASE ~ Unassigned(p)
    <2>1. UNCHANGED <<trail, trail_lim>>
      BY <1>1, <1>5 DEF trailVars
    <2>2. DatabaseInv' /\ AssumptionInv'
      BY <1>2, <2>1, DatabaseSame, AssumptionSame DEF SoundInv
    <2> QED
      BY <1>2, <2>2, AnswerRunning, ResolventQuiet DEF SoundInv
  <1> QED
    BY <1>4, <1>5

\* A T-consistent set of true literals that assigns all theory atoms it can
\* extends to a T-model: the rest is Boolean.
LEMMA ModelOfTrail ==
    ASSUME SearchInv, Consistent(TheoryLits(trail))
    PROVE  \E m \in TModels : TrueLits \subseteq m
  <1>1. PICK m \in TModels : TheoryLits(trail) \subseteq m
    BY DEF Consistent
  <1> DEFINE b == {p \in Lit : p \in TrueLits \/ (Unassigned(p) /\ p \in m)}
  <1>2. \A p \in TrueLits : p \in Lit /\ -p \notin TrueLits
    BY StateFacts, TrailConsistentLits
  <1>3. \A p \in Lit : -p \in Lit /\ -(-p) = p /\ (p \in m <=> -p \notin m)
    BY LitFacts, ModelFacts
  <1>4. \A p \in Lit : p \in b <=> -p \notin b
    <2> TAKE p \in Lit
    <2>1. CASE p \in TrueLits
      BY <1>2, <1>3, <2>1 DEF Unassigned
    <2>2. CASE -p \in TrueLits
      BY <1>2, <1>3, <2>2 DEF Unassigned
    <2>3. CASE p \notin TrueLits /\ -p \notin TrueLits
      BY <1>3, <2>3 DEF Unassigned
    <2> QED
      BY <2>1, <2>2, <2>3
  <1>5. \A v \in Vars : v \in Lit /\ -v \in Lit
    BY DEF Lit
  <1>6. \A v \in Vars : (v \in b) # (-v \in b)
    BY <1>4, <1>5
  <1>7. \A v \in TheoryVars : v \in b <=> v \in m
    <2> TAKE v \in TheoryVars
    <2>1. v \in Lit /\ -v \in Lit /\ var(v) = v /\ var(-v) = v
      <3>1. v \in Vars /\ v \in Nat
        BY VarsAssumption
      <3> QED
        BY <1>5, <3>1, LitFacts DEF var
    <2>2. CASE v \in TrueLits
      BY <1>1, <2>1, <2>2 DEF TheoryLits, TrueLits
    <2>3. CASE -v \in TrueLits
      <3>1. -v \in m
        BY <1>1, <2>1, <2>3 DEF TheoryLits, TrueLits
      <3>2. v \notin m
        BY <1>3, <2>1, <3>1
      <3>3. v \notin b
        BY <1>2, <1>3, <2>1, <2>3 DEF Unassigned
      <3> QED
        BY <3>2, <3>3
    <2>4. CASE v \notin TrueLits /\ -v \notin TrueLits
      BY <2>1, <2>4 DEF Unassigned
    <2> QED
      BY <2>2, <2>3, <2>4
  <1>8. b \in SUBSET Lit /\ TrueLits \subseteq b
    BY <1>2
  <1> HIDE DEF b
  <1>9. b \in TModels
    BY <1>6, <1>7, <1>8, BooleansFree
  <1> QED
    BY <1>8, <1>9

\* With every decision variable assigned and the last level settled, a clause of
\* the database has a true literal, and so has every clause that was added.
LEMMA FormulaSatisfied ==
    ASSUME SearchInv, SoundInv, pc = "branch2", Candidates = {}, missed = {},
           NEW m \in TModels, TrueLits \subseteq m, NEW d \in formula
    PROVE  d \cap m # {}
  <1>1. ok /\ d \subseteq Lit
    BY DEF SoundInv, AnswerInv, SearchInv, TypeOK, Clause
  <1>2. Kept(d)
    BY <1>1 DEF SoundInv, DatabaseInv
  <1>3. ASSUME NEW q \in d, -q \in d PROVE d \cap m # {}
    BY <1>1, <1>3, ModelFacts
  <1>4. CASE d \cap AtZero(trail) # {}
    <2>1. AtZero(trail) \subseteq TrueLits
      BY DEF AtZero, TrueLits, LitsOf
    <2> QED
      BY <1>4, <2>1
  <1>5. ASSUME NEW c \in clauses, c \subseteq d PROVE d \cap m # {}
    <2>1. Settled(trail, c, decisionLevel)
      <3>1. LevelsSettled(trail, Heard, decisionLevel + 1)
        BY DEF SearchInv, CalmInv, Calm
      <3>2. decisionLevel \in 0..((decisionLevel + 1) - 1)
        BY StateFacts
      <3> QED
        BY <3>1, <3>2 DEF LevelsSettled, Heard, DB
    <2>2. CASE \E i \in DOMAIN trail : trail[i].lit \in c
      BY <1>5, <2>2 DEF TrueLits, LitsOf
    <2>3. ASSUME NEW p \in c, Open(trail, p, decisionLevel) PROVE d \cap m # {}
      <3>1. -p \notin TrueLits
        BY <2>3, StateFacts DEF Open, TrueLits, LitsOf
      <3>2. p \in Lit /\ var(p) \in decision
        BY <1>1, <1>5 DEF SoundInv, DatabaseInv
      <3>3. p \in TrueLits
        BY <3>1, <3>2 DEF Candidates, Unassigned
      <3> QED
        BY <1>5, <3>3
    <2> QED
      BY <2>1, <2>2, <2>3 DEF Settled
  <1> QED
    BY <1>2, <1>3, <1>4, <1>5 DEF Kept

\* l_True is answered from a trail that satisfies everything asked for.
LEMMA NoDecisionSound ==
    ASSUME SearchInv, SoundInv, NoDecision, UNCHANGED formula
    PROVE  SoundInv'
  <1>1. /\ pc \in {"branch", "branch2"} /\ Candidates = {}
        /\ \/ pc = "branch" /\ pc' = "complete"
           \/ pc = "branch2" /\ pc' = "done" /\ status' = "l_True" /\ model' = TrueLits
        /\ UNCHANGED <<clauses, learnts, missed, decision, trail, trail_lim, ok, formula, assumptions,
                       conflict>>
    BY DEF NoDecision, Branching, Finish, dbVars, trailVars, callVars
  <1>2. DatabaseInv'
    BY <1>1, DatabaseSame DEF SoundInv
  <1>3. AssumptionInv'
    <2>1. decisionLevel >= Len(assumptions)
      BY <1>1 DEF SoundInv, AssumptionInv
    <2> QED
      BY <1>1, <2>1, AssumptionSame DEF SoundInv
  <1>4. AnswerInv'
    <2>1. CASE pc = "branch" /\ pc' = "complete"
      BY <1>1, <2>1, AnswerRunning DEF SoundInv
    <2>2. CASE pc = "branch2" /\ pc' = "done" /\ status' = "l_True" /\ model' = TrueLits
      <3>1. forced_split = lit_Undef
        BY <1>1 DEF Candidates
      <3>2. Consistent(TheoryLits(trail))
        BY <2>2, <3>1 DEF SoundInv, AnswerInv
      <3>3. PICK m \in TModels : TrueLits \subseteq m
        BY <3>2, ModelOfTrail
      <3>4. missed = {} => m \in Models(formula)
        BY <1>1, <2>2, <3>3, FormulaSatisfied DEF Models
      <3>5. Assumed \subseteq m
        <4> SUFFICES ASSUME NEW k \in DOMAIN assumptions
                     PROVE  assumptions[k] \in TrueLits
          BY <3>3 DEF Assumed
        <4>1. k \in 1..decisionLevel /\ k <= Len(assumptions)
          <5>1. decisionLevel >= Len(assumptions) /\ k \in 1..Len(assumptions)
            BY <2>2, StateFacts, SeqFacts DEF SoundInv, AssumptionInv
          <5> QED
            BY <5>1, StateFacts
        <4>2. \E i \in DOMAIN trail : trail[i].lit = assumptions[k]
          BY <2>2, <4>1 DEF SoundInv, AssumptionInv, AssumedUpTo
        <4> QED
          BY <4>2 DEF TrueLits, LitsOf
      <3>6. missed' = {} => \E x \in Models(formula') : model' \cup Assumed' \subseteq x
        BY <1>1, <2>2, <3>3, <3>4, <3>5 DEF Assumed
      <3> QED
        BY <2>2, <3>6 DEF AnswerInv, AnswersCorrect, SatCorrect, ConflictCorrect
    <2> QED
      BY <1>1, <2>1, <2>2
  <1> QED
    BY <1>1, <1>2, <1>3, <1>4, ResolventQuiet DEF SoundInv

-----------------------------------------------------------------------------
(* The invariant.                                                          *)

\* The clauses the solver starts with are the formula.
LEMMA InitSound == Init => SoundInv
  <1> SUFFICES ASSUME Init
               PROVE  SoundInv
    OBVIOUS
  <1>1. /\ learnts = {} /\ missed = {} /\ formula = clauses /\ decision = {var(p) : p \in UNION clauses}
        /\ trail = <<>> /\ DOMAIN trail = {} /\ trail_lim = <<>> /\ assumptions = <<>>
        /\ ok /\ pc = "idle"
    BY DEF Init
  <1>2. AtZero(trail) = {}
    BY <1>1 DEF AtZero
  <1>3. DatabaseInv
    <2>1. \A c \in DB : Entails(formula, c)
      BY <1>1 DEF DB, Entails
    <2>2. \A d \in formula : Kept(d)
      BY <1>1 DEF Kept
    <2>3. \A c \in clauses : \A q \in c : var(q) \in decision
      BY <1>1
    <2> QED
      BY <1>1, <1>2, <2>1, <2>2, <2>3 DEF DatabaseInv
  <1>4. AssumptionInv
    BY <1>1 DEF AssumptionInv, AssumptionsFirst, AssumedUpTo, decisionLevel
  <1>5. ResolventInv /\ AnswerInv
    BY <1>1 DEF ResolventInv, AnswerInv, AnswersCorrect, SatCorrect, ConflictCorrect
  <1> QED
    BY <1>3, <1>4, <1>5 DEF SoundInv

LEMMA StutterSound ==
    ASSUME SoundInv, UNCHANGED vars
    PROVE  SoundInv'
  <1>1. UNCHANGED <<clauses, learnts, missed, decision, trail, trail_lim, seen, confl, pivot, index,
                    out_learnt, assumptions, forced_split, conflict, model, status, ok, pc,
                    formula>>
    BY DEF vars, dbVars, trailVars, analyzeVars, resultVars, callVars
  <1>2. DatabaseInv'
    BY <1>1, DatabaseSame DEF SoundInv
  <1>3. AssumptionInv' /\ ResolventInv'
    BY <1>1 DEF SoundInv, AssumptionInv, ResolventInv, decisionLevel, MarkedLits, TrueLits
  <1>4. AnswerInv'
    BY <1>1
       DEF SoundInv, AnswerInv, AnswersCorrect, SatCorrect, ConflictCorrect, Assumed, TheoryLits
  <1> QED
    BY <1>2, <1>3, <1>4 DEF SoundInv

\* Every step that keeps trail, reasons and marks in step is sound.
LEMMA NextSound ==
    ASSUME SearchInv, SearchInv', SoundInv, [Next]_vars
    PROVE  SoundInv'
  <1>1. CASE UNCHANGED vars
    BY <1>1, StutterSound
  <1>2. ASSUME NEW c \in NewClauses, AddOriginalClause(c)
        PROVE  SoundInv'
    BY <1>2, AddOriginalClauseSound
  <1>3. ASSUME NEW as, Solve(as), UNCHANGED formula
        PROVE  SoundInv'
    BY <1>3, SolveSound
  <1>4. CASE Propagation /\ UNCHANGED formula
    BY <1>4, PropagateUnitSound, PropagateConflictSound, ClauseAddedSound DEF Propagation
  <1>5. CASE TheoryCheck /\ UNCHANGED formula
    BY <1>5, TheoryConflictSound, TheorySplitSound, TheorySplitImpliedSound, TheoryDeduceSound,
       DeducedAllSound, TheoryPassSound DEF TheoryCheck
  <1>6. CASE Analysis /\ UNCHANGED formula
    BY <1>6, AnalyzeStepSound, LearnSound, FinalStepSound, FinalDoneSound DEF Analysis
  <1>7. CASE Deciding /\ UNCHANGED formula
    BY <1>7, AssumeNextSound, AssumptionsDoneSound, DecideSound, NoDecisionSound DEF Deciding
  <1>8. CASE (Stopped \/ Restart \/ TidyDB \/ clearSearch \/ Interrupt) /\ UNCHANGED formula
    BY <1>8, StoppedSound, RestartSound, TidyDBSound, ClearSearchSound, InterruptSound
  <1> QED
    BY <1>1, <1>2, <1>3, <1>4, <1>5, <1>6, <1>7, <1>8 DEF Next, Run, Step, Call

\* At every step of analyze and analyzeFinal the literals still marked are a
\* clause that follows from the clauses given to the solver, the assumptions
\* reached are true at their levels, and no clause that was added is forgotten.
\* What a search leaves behind when it ends on a conflict at level 0 is false
\* there in part, whatever later calls do.
THEOREM SoundnessInvariance ==
    ASSUME CleanCalls
    PROVE  Spec => []SoundInv
  <1>1. Init => SearchInv /\ SoundInv
    BY InitInv, InitSound
  <1>2. SearchInv /\ SoundInv /\ [Next]_vars => SearchInv' /\ SoundInv'
    BY NextInv, NextSound
  <1> QED
    BY <1>1, <1>2, PTL DEF Spec

\* Whatever analyze learns, and whatever the solver assigns at level 0, follows
\* from the clauses it was given, not from assumptions or decisions.
THEOREM LearntsCorrect ==
    ASSUME CleanCalls
    PROVE  Spec => []LearntsEntailed
  <1>1. SoundInv => LearntsEntailed
    BY DEF SoundInv, DatabaseInv, DB, AtZero, LearntsEntailed
  <1> QED
    BY <1>1, SoundnessInvariance, PTL

\* In every call solve_'s l_False comes with a final conflict of negated
\* assumptions that the formula implies, also after the search has ended on a
\* conflict at level 0 that it does not record in ok.  Its l_True comes with a
\* model of the formula and the theory that meets the assumptions as long as no
\* such conflict was found; after one it may be wrong (ImplementsStack).
THEOREM AnswersRight ==
    ASSUME CleanCalls
    PROVE  Spec => []AnswersCorrect
  <1>1. SoundInv => AnswersCorrect
    BY DEF SoundInv, AnswerInv
  <1> QED
    BY <1>1, SoundnessInvariance, PTL

-----------------------------------------------------------------------------
(* What no step may do.                                                    *)

\* The clause that is learnt: false but for the literal it implies, all below the
\* current level.
LEMMA LearntFacts ==
    ASSUME SearchInv, pc = "learn", NEW others, others = Minimized(seen \cup Toclear)
    PROVE  /\ decisionLevel > 0 /\ pivot \in Lit /\ others \in SUBSET Lit
           /\ BacktrackLevel(others) \in 0..(decisionLevel - 1)
           /\ others = {} => BacktrackLevel(others) = 0
           /\ \A q \in others : \E i \in 1..nAssigns :
                 trail[i].lit = -q /\ trail[i].level \in 1..(decisionLevel - 1)
  <1>1. /\ decisionLevel > 0 /\ pivot \in Lit /\ others \in SUBSET Lit
        /\ \A q \in others : \E i \in 1..nAssigns :
              trail[i].lit = -q /\ trail[i].level \in 1..(decisionLevel - 1)
    BY StateFacts DEF SearchInv, LearnInv, TypeOK, Minimized
  <1> QED
    BY <1>1, StateFacts, BacktrackFacts

\* The level a theory conflict returns to exists.
LEMMA ConflictJump ==
    ASSUME SearchInv, TheoryConflict
    PROVE  \E lev \in 0..decisionLevel : trail' = KeptTrail(lev)
  <1> DEFINE Highest(S, k) == /\ \A q \in S : LevelOf(var(q)) <= k
                              /\ k = 0 \/ \E q \in S : LevelOf(var(q)) = k
             Top(S) == CHOOSE k \in 0..decisionLevel : Highest(S, k)
  <1>1. PICK S \in SUBSET TheoryLits(trail) : trail' = KeptTrail(Top(S))
    BY Zenon DEF TheoryConflict
  <1>2. S \in SUBSET TrueLits
    BY DEF TheoryLits, TrueLits, LitsOf
  <1>3. \E k \in 0..decisionLevel : Highest(S, k)
    BY <1>2, StateFacts, ConflictLevel
  <1>4. Top(S) \in 0..decisionLevel
    BY <1>3, Zenon
  <1> QED
    BY <1>1, <1>4

\* What is decided for good stays on the trail through every step.
LEMMA ZeroStep ==
    ASSUME SearchInv, SearchInv', [Next]_vars
    PROVE  AtZero(trail) \subseteq AtZero(trail')
  <1>1. ASSUME NEW p \in Lit, NEW lev \in 0..decisionLevel,
               NEW r \in {CRef_Undef, CRef_Fake} \cup Clause,
               trail' = Enqueued(KeptTrail(lev), p, lev, r)
        PROVE  AtZero(trail) \subseteq AtZero(trail')
    <2>1. KeptTrail(lev) \in Seq(Entry) /\ lev \in Nat
      BY StateFacts, KeptFacts
    <2>2. AtZero(KeptTrail(lev)) = AtZero(trail)
      BY StateFacts, ZeroKept
    <2> QED
      BY <1>1, <2>1, <2>2, ZeroEnqueued
  <1>2. ASSUME NEW p \in Lit, NEW lev \in Nat, NEW r \in {CRef_Undef, CRef_Fake} \cup Clause,
               trail' = Enqueued(trail, p, lev, r)
        PROVE  AtZero(trail) \subseteq AtZero(trail')
    BY <1>2, StateFacts, ZeroEnqueued
  <1>3. ASSUME NEW lev \in 0..decisionLevel, trail' = KeptTrail(lev)
        PROVE  AtZero(trail) \subseteq AtZero(trail')
    BY <1>3, StateFacts, ZeroKept
  <1>4. 0 \in 0..decisionLevel /\ decisionLevel \in Nat /\ decisionLevel + 1 \in Nat
    BY StateFacts
  <1>5. CASE trail' = trail
    BY <1>5
  <1>6. ASSUME NEW c \in NewClauses, AddOriginalClause(c)
        PROVE  AtZero(trail) \subseteq AtZero(trail')
    <2>1. trail' = trail \/ \E p \in c : trail' = Enqueued(trail, p, 0, CRef_Undef)
      BY <1>6 DEF AddOriginalClause
    <2>2. c \subseteq Lit
      BY InputAssumption DEF Clause
    <2> QED
      BY <1>2, <1>5, <2>1, <2>2
  <1>7. CASE PropagateUnit
    <2>1. PICK c \in DB : \E p \in c : trail' = Enqueued(trail, p, decisionLevel, c)
      BY <1>7 DEF PropagateUnit, Heard
    <2>2. c \subseteq Lit /\ c \in Clause
      BY StateFacts DEF Clause
    <2> QED
      BY <1>2, <1>4, <2>1, <2>2
  <1>8. CASE TheoryConflict
    BY <1>3, <1>8, ConflictJump
  <1>9. CASE TheorySplitImplied
    <2>1. PICK s \in Splits : \E lf \in {s[1], s[2]} : \E li \in {s[1], s[2]} :
            /\ -lf \in TrueLits
            /\ trail' = Enqueued(KeptTrail(LevelOf(var(lf))), li, LevelOf(var(lf)),
                                 IF LevelOf(var(lf)) = 0 THEN CRef_Undef ELSE {lf, li})
      BY <1>9 DEF TheorySplitImplied
    <2>2. s[1] \in Lit /\ s[2] \in Lit
      BY SplitFacts
    <2>3. PICK lf \in {s[1], s[2]} : \E li \in {s[1], s[2]} :
            /\ -lf \in TrueLits
            /\ trail' = Enqueued(KeptTrail(LevelOf(var(lf))), li, LevelOf(var(lf)),
                                 IF LevelOf(var(lf)) = 0 THEN CRef_Undef ELSE {lf, li})
      BY <2>1
    <2>4. PICK li \in {s[1], s[2]} :
            trail' = Enqueued(KeptTrail(LevelOf(var(lf))), li, LevelOf(var(lf)),
                              IF LevelOf(var(lf)) = 0 THEN CRef_Undef ELSE {lf, li})
      BY <2>3
    <2>5. LevelOf(var(lf)) \in 0..decisionLevel /\ lf \in Lit /\ li \in Lit
      BY <2>2, <2>3, FalseLevel
    <2>6. {lf, li} \in Clause
      BY <2>5 DEF Clause
    <2> QED
      BY <1>1, <2>4, <2>5, <2>6
  <1>10. CASE TheoryDeduce
    <2>1. \E p \in Lit : trail' = Enqueued(trail, p, decisionLevel, CRef_Fake)
      BY <1>10 DEF TheoryDeduce
    <2> QED
      BY <1>2, <1>4, <2>1
  <1>11. CASE AnalyzeStep
    <2>0. pc = "analyze" /\ UNCHANGED <<clauses, learnts, missed>>
      BY <1>11 DEF AnalyzeStep, dbVars
    <2>1. PICK i \in 1..index :
            /\ IsTopSeen(i, AllMarks)
            /\ \/ trail' = SubSeq(trail, 1, i - 1) /\ trail_lim' = CancelVarLim(i)
               \/ trail' = trail /\ trail_lim' = trail_lim
      BY <1>11, Zenon DEF AnalyzeStep, NewMarks, AllMarks, trailVars
    <2>2. i \in 1..nAssigns /\ trail[i].level = decisionLevel /\ decisionLevel > 0
      BY <2>0, <2>1, AnalyzeFacts, TopEntry
    <2>3. /\ i - 1 <= Len(trail') /\ DOMAIN trail' = 1..Len(trail') /\ Len(trail') \in Nat
          /\ \A j \in 1..Len(trail') : j \in 1..nAssigns /\ trail'[j] = trail[j]
      BY <2>0, <2>1, <2>2, TrailCut
    <2>4. ASSUME NEW j \in 1..nAssigns, trail[j].level = 0
          PROVE  j \in DOMAIN trail' /\ trail'[j] = trail[j]
      <3>1. i <= j => trail[i].level <= trail[j].level
        BY <2>2, StateFacts, LevelsMonotone
      <3>2. ~ (i <= j)
        BY <2>2, <2>4, <3>1, StateFacts
      <3>3. j \in 1..Len(trail')
        BY <2>2, <2>3, <3>2, StateFacts
      <3> QED
        BY <2>3, <3>3
    <2> QED
      BY <2>4, StateFacts DEF AtZero
  <1>12. CASE Learn
    <2> DEFINE others == Minimized(seen \cup Toclear)
               lev == BacktrackLevel(others)
               r == IF others = {} THEN CRef_Undef ELSE {-pivot} \cup others
    <2>1. pc = "learn" /\ trail' = Enqueued(KeptTrail(lev), -pivot, lev, r)
      BY <1>12, Zenon DEF Learn
    <2>2. /\ decisionLevel > 0 /\ pivot \in Lit /\ others \in SUBSET Lit
          /\ lev \in 0..(decisionLevel - 1)
      BY <2>1, LearntFacts
    <2> HIDE DEF others, lev
    <2>3. lev \in 0..decisionLevel /\ -pivot \in Lit
      BY <1>4, <2>2, LitFacts
    <2>4. r \in {CRef_Undef, CRef_Fake} \cup Clause
      BY <2>2, <2>3 DEF Clause
    <2> HIDE DEF r
    <2> QED
      BY <1>1, <2>1, <2>3, <2>4
  <1>13. CASE AssumeNext
    <2>1. \/ trail' = trail
          \/ /\ decisionLevel < Len(assumptions)
             /\ trail' = Enqueued(trail, assumptions[decisionLevel + 1], decisionLevel + 1, CRef_Undef)
      BY <1>13 DEF AssumeNext, trailVars
    <2>2. decisionLevel < Len(assumptions) => assumptions[decisionLevel + 1] \in Lit
      <3>1. decisionLevel < Len(assumptions) => decisionLevel + 1 \in 1..Len(assumptions)
        BY StateFacts
      <3> QED
        BY <3>1, StateFacts, SeqFacts
    <2> QED
      BY <1>2, <1>4, <1>5, <2>1, <2>2
  <1>14. CASE Decide
    <2>1. trail' = trail \/ \E p \in Candidates :
            trail' = Enqueued(trail, p, decisionLevel + 1, CRef_Undef)
      BY <1>14 DEF Decide, trailVars
    <2> QED
      BY <1>2, <1>4, <1>5, <2>1, CandidatesFacts
  <1>15. CASE Restart \/ clearSearch
    <2>1. trail' = KeptTrail(0)
      BY <1>15 DEF Restart, clearSearch
    <2> QED
      BY <1>3, <1>4, <2>1
  <1>16. CASE TidyDB
    <2>1. PICK sat : trail' = [i \in DOMAIN trail |->
                                  IF trail[i].reason \in sat
                                    THEN [trail[i] EXCEPT !.reason = CRef_Undef] ELSE trail[i]]
      BY <1>16 DEF TidyDB
    <2>2. \A i \in DOMAIN trail : trail[i] \in Entry
      BY StateFacts, TrailFacts
    <2>3. \A i \in DOMAIN trail : trail'[i].lit = trail[i].lit /\ trail'[i].level = trail[i].level
      BY <2>1, <2>2 DEF Entry
    <2> QED
      BY <2>1, <2>3 DEF AtZero
  <1>17. CASE \/ UNCHANGED vars \/ Interrupt \/ Stopped \/ PropagateConflict \/ ClauseAdded
              \/ TheorySplit \/ DeducedAll \/ TheoryPass
              \/ FinalStep \/ FinalDone \/ AssumptionsDone \/ NoDecision
              \/ \E as : Solve(as)
    <2>1. trail' = trail
      BY <1>17 DEF vars, trailVars, Interrupt, Stopped, PropagateConflict, ClauseAdded,
                   TheorySplit, DeducedAll, TheoryPass, FinalStep, FinalDone, AssumptionsDone,
                   NoDecision, Solve
    <2> QED
      BY <2>1
  <1> QED
    BY <1>6, <1>7, <1>8, <1>9, <1>10, <1>11, <1>12, <1>13, <1>14, <1>15, <1>16, <1>17
       DEF Next, Run, Step, Call, Propagation, TheoryCheck, Analysis, Deciding

\* Restarts, backjumps, cancelUntilVar, clearSearch and the deletion of clauses
\* never take back a literal that was assigned at level 0.
THEOREM Level0Permanent ==
    ASSUME CleanCalls
    PROVE  Spec => Level0Kept
  <1> DEFINE Kept0 == \A i \in DOMAIN trail : trail[i].level = 0 =>
                         \E j \in DOMAIN trail' :
                            trail'[j].lit = trail[i].lit /\ trail'[j].level = 0
  <1>1. SearchInv /\ SearchInv' /\ [Next]_vars => [Kept0]_vars
    BY ZeroStep DEF AtZero
  <1> QED
    BY <1>1, SearchInvariance, PTL DEF Spec, Level0Kept

\* A learnt clause is new: at the level below it was unit, and every clause of
\* the database was settled there.
LEMMA LearntNew ==
    ASSUME SearchInv, DatabaseInv, pc = "learn",
           NEW others, others = Minimized(seen \cup Toclear),
           -pivot \notin TrueLits
    PROVE  {-pivot} \cup others \notin DB
  <1> DEFINE c == {-pivot} \cup others
             k == decisionLevel - 1
  <1> SUFFICES ASSUME c \in DB
               PROVE  FALSE
    OBVIOUS
  <1>1. /\ pivot \in Lit /\ others \subseteq Lit /\ k \in 0..(decisionLevel - 1) /\ k \in Nat
        /\ \A q \in others : \E i \in 1..nAssigns :
              trail[i].lit = -q /\ trail[i].level \in 1..k
    <2>1. /\ decisionLevel > 0 /\ pivot \in Lit /\ others \in SUBSET Lit
          /\ \A q \in others : \E i \in 1..nAssigns :
                trail[i].lit = -q /\ trail[i].level \in 1..(decisionLevel - 1)
      BY LearntFacts
    <2>2. k \in 0..(decisionLevel - 1) /\ k \in Nat
      BY <2>1, StateFacts
    <2> QED
      BY <2>1, <2>2
  <1>2. c \notin missed
    <2> SUFFICES ASSUME NEW q \in c, -q \in AtZero(trail)
                 PROVE  FALSE
      BY DEF DatabaseInv
    <2>1. PICK j \in DOMAIN trail : trail[j].lit = -q /\ trail[j].level = 0
      BY DEF AtZero
    <2>2. CASE q \in others
      <3>1. PICK i \in 1..nAssigns : trail[i].lit = -q /\ trail[i].level \in 1..k
        BY <1>1, <2>2
      <3>2. i = j
        BY <2>1, <3>1, StateFacts DEF TrailOK
      <3> QED
        BY <1>1, <2>1, <3>1, <3>2
    <2>3. CASE q = -pivot
      <3>1. trail[j].lit = pivot
        BY <1>1, <2>1, <2>3, LitFacts
      <3>2. trail[j].level = decisionLevel
        BY <3>1 DEF SearchInv, LearnInv
      <3> QED
        BY <1>1, <2>1, <3>2, StateFacts
    <2> QED
      BY <2>2, <2>3
  <1>2a. Settled(trail, c, k)
    BY <1>1, <1>2 DEF SearchInv, TrailInv, LevelsSettled, Heard
  <1>3. \A q \in others : ~ Open(trail, q, k) /\ q \notin TrueLits
    <2> TAKE q \in others
    <2>1. PICK i \in 1..nAssigns : trail[i].lit = -q /\ trail[i].level \in 1..k
      BY <1>1
    <2>2. i \in DOMAIN trail /\ ~ (trail[i].level > k)
      BY <1>1, <2>1, StateFacts
    <2>3. -q \in TrueLits /\ -(-q) = q
      BY <1>1, <2>1, <2>2, LitFacts DEF TrueLits, LitsOf
    <2>4. q \notin TrueLits
      BY <2>3, StateFacts, TrailConsistentLits
    <2> QED
      BY <2>1, <2>2, <2>4 DEF Open
  <1>4. \A i \in DOMAIN trail : trail[i].lit \notin c
    BY <1>3 DEF TrueLits, LitsOf
  <1> HIDE DEF c, k
  <1>5. PICK p \in c, q \in c : p # q /\ Open(trail, p, k) /\ Open(trail, q, k)
    BY <1>2a, <1>4 DEF Settled
  <1> QED
    BY <1>3, <1>5 DEF c

\* No conflict is analysed for nothing: each one ends in a clause the database did
\* not hold, or in a new literal at level 0.
THEOREM LearnsProgress ==
    ASSUME CleanCalls
    PROVE  Spec => LearnsNew
  <1> DEFINE New == pc = "learn" /\ pc' # pc => learnts' # learnts \/ trail_lim' = <<>>
  <1>1. ASSUME SearchInv, SoundInv, Learn
        PROVE  learnts' # learnts \/ trail_lim' = <<>>
    <2> DEFINE others == Minimized(seen \cup Toclear)
               lev == BacktrackLevel(others)
    <2>1. /\ pc = "learn"
          /\ trail_lim' = KeptLim(lev)
          /\ learnts' = IF others = {} THEN learnts ELSE learnts \cup {{-pivot} \cup others}
      BY <1>1, Zenon DEF Learn
    <2>2. -pivot \notin TrueLits
      BY <1>1, <2>1 DEF SoundInv, ResolventInv
    <2>3. {-pivot} \cup others \notin DB
      BY <1>1, <2>1, <2>2, LearntNew DEF SoundInv
    <2>4. decisionLevel > 0 /\ (others = {} => lev = 0)
      BY <1>1, <2>1, LearntFacts
    <2> HIDE DEF others, lev
    <2>5. CASE others # {}
      BY <2>1, <2>3, <2>5 DEF DB
    <2>6. CASE others = {}
      <3>1. trail_lim' = SubSeq(trail_lim, 1, 0)
        BY <2>1, <2>4, <2>6 DEF KeptLim
      <3>2. trail_lim \in Seq(Nat) /\ 0 \in 0..Len(trail_lim)
        BY <1>1, StateFacts
      <3>3. trail_lim' \in Seq(Nat) /\ Len(trail_lim') = 0
        BY <3>1, <3>2, PrefixFacts
      <3> QED
        BY <3>3, EmptySeq
    <2> QED
      BY <2>5, <2>6
  <1>2. ASSUME SearchInv, SoundInv, [Next]_vars
        PROVE  [New]_vars
    <2> SUFFICES ASSUME pc = "learn", pc' # pc
                 PROVE  Learn
      BY <1>1, <1>2
    <2>1. Next
      BY <1>2 DEF vars
    <2> QED
      BY <2>1 DEF Next, Run, Call, Step, Propagation, TheoryCheck, Analysis, Deciding,
           AddOriginalClause, Solve, Interrupt, Stopped, Restart, TidyDB, clearSearch,
           PropagateUnit, PropagateConflict, ClauseAdded, Propagating, TheoryConflict,
           TheorySplit, TheorySplitImplied, TheoryDeduce, DeducedAll, TheoryPass, Checking,
           AnalyzeStep, FinalStep, FinalDone, AssumeNext, AssumptionsDone, Decide, NoDecision,
           Branching
  <1>3. SearchInv /\ SoundInv /\ [Next]_vars => [New]_vars
    BY <1>2
  <1> QED
    BY <1>3, SearchInvariance, SoundnessInvariance, PTL DEF Spec, LearnsNew
=============================================================================
