# A verification development for OpenSMT

TLA+ models of OpenSMT's solving core, TLC runs on small instances, and
machine-checked proofs about the search, its clause database, the theory handler, the
simplex, the integer splits and the forest of the congruence closure. Every definition is translated from the
code under `src/`; `PROJECT.json` names the lines each definition stands for, the
hazards the properties are aimed at, and for every property a mutation of the
code it is known to reject. All paths below are relative to the repository.

## 1. The system

OpenSMT is a CDCL(T) solver: a SAT solver works on the Boolean skeleton of the
asserted formulas, theory solvers watch the assignment it builds, and a stack of
assertion frames on top answers `check-sat` incrementally. Everything runs in one
thread; what makes it hard is state that many functions share and undo (trail,
decision levels, reasons, marks, watch lists, backtrack points), calls that arrive
in orders nobody tested, and a stop flag raised from outside.

| component | state | operations | talks to |
|---|---|---|---|
| CDCL(T) engine: `smtsolvers/CoreSMTSolver.C`, `Theory.C` | clause database, trail, `trail_lim`, `vardata`, `seen`, assumptions, `conflict`, limits, `forced_split`, `ok`, `opensmt::stop` | `addOriginalClause_`, `solve_`, `search`, `propagate`, `checkTheory`, `handleSat`, `handleUnsat`, `analyze`, `litRedundant`, `analyzeFinal`, `cancelUntil`, `cancelUntilVar`, `pickBranchLit`, `simplify`, `reduceDB`, `clearSearch` | theory handler below, SimpSMTSolver and Cnfizer above |
| `SimpSMTSolver` | elimination queues, occurrence lists | `addOriginalSMTClause`, `eliminate` (off in incremental mode) | engine |
| Theory handler: `tsolvers/THandler.C`, `TSolverHandler.C`, `TSolver.C` | stack of asserted atoms, backtrack points, deduction lists with their limits | `assertLits`, `backtrack`, `check`, `getConflict`, `getReason`, `getDeduction`, `getNewSplits` | engine above, theory solvers below |
| Egraph (`tsolvers/egraph`) | congruence classes, use vectors, signature table, forbid lists, distinction bits, undo stack, explanation forest | merge, undo, explain, deduce | theory handler |
| Linear arithmetic (`tsolvers/lasolver`, `lrasolver`) | bounds per variable, decisions, deductions, tableau, values and their last accepted copy, candidates | assert bound, `checkSimplex`, pivot, backtrack, explain, model | theory handler |
| Integer solver (`tsolvers/liasolver`) | cuts already tried | `checkIntegersAndSplit`, `getNewSplits` | linear arithmetic below, theory handler above |
| Cnfizer (`cnfizers`) | frame literals, caches of cnfized terms | `setFrameTerm`, `cnfizeAndGiveToSolver`, `addClause`, `solve` | MainSolver above, SimpSMTSolver below |
| MainSolver (`api/MainSolver.{h,C}`) | frames with ids, formulas, facts and variables seen, `simplified_until` | `push`, `pop`, `insertFormula`, `check`, `simplifyFormulas`, `solve` | interpreter above, Cnfizer below |
| Interpreter and C API (`api`) | script position, options | SMT-LIB commands | MainSolver |
| Simplifiers, logics, terms, symbols, sorts | hash-consed term store, substitutions | term construction, rewriting | all |
| Lookahead, scatter splitting, proofs and interpolation, bit-vectors | | off by default or in other builds | engine |

What makes each correct:

* **Engine.** In a call that no refutation at level 0 preceded (finding `frames_refuted`), `sat` comes with an assignment that a theory model of all clauses and
  assumptions extends; `unsat` comes with a final conflict of negated assumptions
  that follows from the clauses; learnt clauses follow from the clauses added so
  far; trail, levels and reasons agree after any mixture of propagation, theory
  backjumps and `cancelUntilVar`; conflict analysis reaches a first UIP; no clause
  in use as a reason is freed; a search ends; a raised stop flag ends it.
* **MainSolver with Cnfizer.** The answers are those of an assertion stack: right
  for the frames on the stack, whatever was popped before.
* **Theory handler.** Its stack mirrors the trail; deductions are handed out once
  and never for undone atoms; reasons use earlier atoms only.
* **Egraph.** The classes are the congruence closure of what is asserted, whatever
  was merged and undone before; explanations are unsatisfiable and asserted.
* **Arithmetic.** Rows keep their meaning under pivoting and setting aside; a
  variable out of bounds is a candidate; conflicts are Farkas certificates; the model
  read off satisfies strict bounds strictly; a check ends.
* **Integers.** A split cuts off the fractional value and no integer, and is new.
* **Clause database.** The two-watched-literal invariant under lazy detaching and
  relocation, and that nothing unit is left when `propagate` returns, among the clauses
  whose watches it has seen become false.

The hard behaviours are listed one by one, at their lines, under `hazards` in
`PROJECT.json`: state read after it went stale (marks, forced literals, frames seen),
orders of calls and backjumps, partial failures while clauses are added, an interrupt
at any moment, and termination under restarts and clause deletion.

## 2. The modules

| module | models |
|---|---|
| `CoreSMTSolver` | one solver object: adding clauses, calls of `solve_`, the whole search |
| `SearchInvariant` | the inductive invariant of that search, part by part |
| `SearchInvariant_proofs` | proofs: facts about literals and trails; the invariant is inductive; what follows from it |
| `Soundness` | the second inductive invariant: everything known follows from the clauses given |
| `Soundness_proofs` | proofs: it is inductive; learnt clauses, answers and level 0 are right |
| `AssertionStack` | the abstract specification: what MainSolver promises |
| `FrameSubstitutions` | facts, substitutions and rewriting: the simplification of one frame, as operators |
| `MainSolver` | scripts, frames and frame literals on top of `CoreSMTSolver` (composition) |
| `Watches` | the clause database under the search: watch lists, `propagate`, deletion, relocation |
| `WatchesInvariant` | the inductive invariant of the clause database, part by part |
| `DataLemmas` | proofs: facts about counts, sequences, cuts and swaps, rationals and finite sums that several proofs need |
| `Watches_proofs` | proofs: that invariant is inductive; watches, formula and `Settled` follow |
| `TheoryStack` | THandler, TSolverHandler, TSolver and the bounds of the arithmetic solver |
| `TheoryInvariant` | the inductive invariant of handler and solver, part by part |
| `TheoryStack_proofs` | proofs: what the operators of the arithmetic solver do to its part of it; the invariant is inductive; the eight properties of `TheoryStack` follow |
| `Simplex`, `Deltas` | tableau, values, conflicts and models; rationals with an infinitesimal |
| `SimplexInvariant` | the inductive invariant of the simplex, part by part |
| `Simplex_proofs` | proofs: that invariant is inductive; rows, values, candidates, conflicts and models are right, and a check ends |
| `LIASolver` | the integer solver's conflicts and splits |
| `LIASolver_proofs` | proofs: conflicts and splits are right for all values |
| `Egraph` | congruence closure with undo, deduction and explanation |
| `EgraphInvariant` | the inductive invariant behind the explanation forest, part by part |
| `Egraph_proofs` | proofs: that invariant is inductive; the forest spans the classes |
| `MC_...` | the instances that TLC checks |

How they fit together: `CoreSMTSolver` presumes a contract of `propagate` (`Quiescent`),
of the theory (sound conflicts, deductions and reasons; new splits) and gives one to
`MainSolver`. `Watches` checks the first contract on the code of `propagate`;
`TheoryStack` the second for the handler and the bounds, `Simplex`, `LIASolver` and
`Egraph` for the decision procedures behind it. What one module assumes of another is
said in its section.

### CoreSMTSolver

Literals are non-zero integers, a clause is the set of its literals, `lit_Undef` is 0.
A trail entry carries what `vardata` holds for an assigned variable: its level and
its reason (`CRef_Undef`, `CRef_Fake` for a theory deduction, or a clause). The
program counter `pc` names the places in `search` between which other state can be
seen:

    idle -> addClause -> idle                     addOriginalClause_ and its propagation
    idle -> start -> search                       solve_, theory check at the entry of search
    search -> analyze* -> learn -> search         conflict
    search -> check -> assume -> branch           reduceDB/simplify, theory check, assumptions
    branch -> search | complete -> branch2        decision, or the complete theory check
    assume -> final* -> done                      an assumption is refuted: analyzeFinal
    ... -> done -> idle                           clearSearch

One step is one literal propagated, one turn of the loop of `analyze` or
`analyzeFinal`, one assumption, one deduced literal, one theory check. `pc =
"assert"` stands for an assertion of `analyze` or `uncheckedEnqueue` that would fail;
`UIPReached` says it never does.

Abstractions, and why they are sound for the properties:

* *Propagation* takes unit and falsified clauses in any order, so it includes every
  order the watch lists can produce. It ends when nothing is left (`Quiescent`): that
  the watch lists find every unit clause is a property of `propagate` itself, and the
  subject of `Watches`.
* *The propagation queue* (`qhead`) matters in one place. On a conflict `propagate` counts the
  whole trail as visited, and every level above 0 is then cancelled, queue and all; but after a
  conflict at level 0 `search` returns `l_False` without setting `ok`, and the next call goes
  on behind literals that nobody has visited. `LeftBehind` records this: `skipped` is the length
  of the trail passed over, `missed` the clauses with a watch among it - every clause that is false
  or unit then, and any choice of the others that have a false literal and no true one, because
  which literals are watched, and how far the queue was visited, depends on the lists. A clause of
  `missed` is never found to be unit (`Heard`); it is found false, if at all, when a
  literal of the current level behind `skipped` makes its other watch false (`FoundFalse`).
  `missed` is never emptied: a watch on a literal of level 0 stays.
* *The theory* is its contract: `TModels` is the set of consistent total assignments.
  A conflict explanation is any inconsistent subset of the theory literals on the
  trail, a deduction any entailed literal, the reason of a deduction any entailment
  from earlier literals (`THandler::getReason`), a split any clause of `Splits` not
  issued before. An incomplete check may find nothing, be skipped or answer
  UNKNOWN; the complete one finds every inconsistency.
* *Decisions* are any unassigned decision variable with any sign: the order heap and
  the activities choose one of them.
* *Clause deletion* removes any set of unlocked non-binary learnt clauses when the
  limit is reached; activities only choose which.
* *litRedundant* is the greatest set of marked positions closed under its rule; it is
  what the recursive walk with its cache computes, and never less.
* `opensmt::stop` and the solver's own `stop` are one flag.
* The configuration is the default one: no stored theory lemmas
  (`sat_learn_up_to_size` 0), minimisation as configured by default, no scatter
  splitting, no lookahead, no PRODUCE_PROOF, variable elimination off.

`formula` is a history variable: the clauses the owner has added. `Entails(formula, c)`
is entailment over `TModels`.

### MainSolver over AssertionStack

A script is a sequence of `push`, `pop`, `assert`, `check-sat`. A formula is a
conjunction of clauses and of Boolean equalities; a clause of frame *i* is given to the
solver together with the frame's literal, and `check-sat` assumes that literal false for
the frames on the stack and true for those that were popped, in the order of the ids. A
frame whose root is false is given as `false` alone, and `simplifyFormulas` returns at
once.

Before it is given, a frame is simplified, by three actions: `simplifyFrame` conjoins the
formulas of all frames up to it (`getCollateFunction`); each `computeSubstitutions` is one
round of that function's loop - new facts at the top level, substitutions from them,
circles among the definitions broken, the formula rewritten; `frameSimplified` adds the
substitutions of variables that a lower frame holds and the facts themselves, and hands
the clauses over. `FrameSubstitutions` has the operators. Abstracted, always to a choice
that includes the code's: which of two facts about a variable counts, which definition of
a circle is dropped, and how far the walk over the conjuncts comes before a known fact
stops it depend on the order of terms and nodes there. Terms are Boolean literals and
equalities of them; Tseitin definitions are left out; the temporary theory solver that
`computeSubstitutions` consults gives an answer that its caller ignores.

`ImplementsStack` is the refinement: `frames` maps to the abstract stack, `answers` to
the answers, every other variable is hidden, and every step of the composed system -
including those of the solver inside - is a step of `AssertionStack` or a stutter. The code
breaks it in three ways (the findings `frames_nested`, `frames_circular` and
`frames_refuted`). `ImplementsUntilRefuted` is what holds of the scripts that avoid the
first two: a step of `AssertionStack`, a stutter, or `SatAfterRefutation`, a `sat` answered
while clauses are left behind. Every `unsat` is right all along.

### Watches

`propagate` visits one watcher at a time: blocker true, other watch true, new watch
found, unit, conflict. Between calls the search decides, deduces, backjumps, learns,
adds a split, deletes clauses (`removeClause` only smudges the lists), cleans them and
relocates the arena (`garbageCollect`, `relocAll`). Abstracted: a watch list is a set,
visited in any order, and relocation may give the clauses any order; both only add
behaviour. What `analyze` learns is any member of `Learnable` with the shape analysis
guarantees (one literal of the current level, which `UIPReached` shows of the search).
The reason of an unassigned variable is normalised to `CRef_Undef`: nobody reads it.
After a conflict at level 0 `Propagated` has two outcomes: `ok` is set to false
where `addOriginalClause_` propagates; where `search` does, `ok` stays true, the queue stays at the end
of the trail, and `skipped` remembers how long that was.
`Settled` is what `CoreSMTSolver` presumes of propagation, stated after every backjump
as well: a clause in use is neither false nor unit unless one of its two watches is false by a literal
passed over in this way - those are the clauses `missed` of `CoreSMTSolver`. As in the default configuration, no theory lemma is attached
(`sat_learn_up_to_size` 0) and `popBacktrackPoint` is not called.

### TheoryStack

The search (`pc`) enqueues any literals, calls `checkTheory` (`assertLits`, one literal
at a time, then `check`), takes a conflict, deductions, a split, asks for a reason in
the middle of an analysis - `getReason` pushes a backtrack point, backtracks its stack
under it, asserts the negation and restores -, backtracks, and ends a call with
`clearSearch` and `clearSolver`. The arithmetic solver's stacks (`pushBound`/`popBounds`,
`decision_trace`, `th_deductions` with `deductions_lim` and `deductions_last`) are the
record `la`; a bound in force is the last of its variable and side on the trace
(`InForce`), and there is none (`~Bounded`) where the code has an infinite one; bounds are
compared by value where the code compares their places in a list sorted by value. The tableau is reduced to its answer: `check` fails exactly if
the bounds of a row cannot be met. One solver is scheduled, as in the arithmetic logics.

It presumes of the search, and `CoreSMTSolver` provides: an analysis backtracks below
the literal a conflict ended in; nothing is cancelled before the first check of a call;
the literals of level 0 that stay between two calls are not asked for reasons.
Building the bounds a second time adds duplicates that no comparison by value sees.

### Simplex and Deltas

The tableau as `Tableau.cpp` keeps it: every variable is basic (with a polynomial),
nonbasic (with the rows it occurs in), or quasi-basic, set aside while it has no bound.
`Step` is one turn of `checkSimplex`: the leaving variable by shortest polynomial or
Bland's rule, the entering one by shortest column or Bland's rule, the pivot, or the
conflict. `AssertBound`, `Backtrack` and `Ask` are the calls from LASolver. Values are
rationals with an infinitesimal (`Deltas`, modelled from `Delta.h`; rationals are pairs
in lowest terms, so the word boundary of FastRational is not modelled). `Ratio` reduces a
fraction to the least denominator that will do, and the sums over a row are taken for each
of the two coordinates: both are what the code computes, in the form that can be reasoned
about. `StrictAssumption` is what `allocBoundPair` builds: a bound lies on its number or an
infinitesimal inside.
Backtracking goes to any number of points whose literals the last accepted check covered (the history
variable `accepted`): the search checks after every propagation and backjumps below what failed.
That includes what `litRedundant` does in the middle of a minimisation
(`cancelUntilVarTempInit`, `cancelUntilVarTempDone`): it takes literals back, asks for a reason, asserts
the literals again without a check, and a later cut may keep some of them. A literal that the solver
deduced itself gets no point (`assertLit` passes over it), so what is not in `accepted` has been assigned since.

### LIASolver

`Check` is one call of `checkIntegersAndSplit`: it visits the variables in order, takes
the first with a fractional value and an untried floor, and answers with a conflict of
its two bounds, a split, or "don't know". The relaxation below is any assignment within
the bounds. The search asserts any literals that falsify no clause, and learns the
conflicts it is told; a bound against one in force would be refused by
`assertBoundOnVar` (module `TheoryStack`).

### Egraph

A term is a cons cell of its symbol and its argument list, as in `EnodeStore`; a class
is a root; use vectors keep their slots with the tags free, valid and marked, and the
signature table maps pairs of roots to the congruence root. `assertLit` sets up what is
to be merged or kept apart; `MergeSame`, `MergeClasses`, `MergeRefused` and `MergeDone` are
the iterations of `mergeLoop`; `undoMerge`, `UndoDisequality`, `UndoDist` and `clearPolarity`
are those of `backtrackToStackSize`. Forbid lists are circular lists of cells that merges
splice and undo splits again; the explanation forest is re-rooted as in
`expStoreExplanation`. `ClassesExact` compares the outcome with the congruence closure
computed from the asserted literals alone.

Terms are declared in any order that puts the arguments first (`DeclaredAssumption`); all of
them are made before the search begins, with `Made` going through the calls of
`constructTerm`. Loops are recursive functions over the slots of a use vector
(`processParentsAfterMerge`, `processParentsBeforeUnMerge`), over the cells of a forbid list
(`Following`), up a tree (`Up`) and over the rounds of an explanation (`Edges`); re-rooting
(`Reversed`) turns every edge above `y` at once, where `expReRootOn` turns one at a time.
Not in the model: the negation of a distinction of more than two members (the code
asserts that it does not come, `EgraphSolver.C:424`: `DistinctionsAssumption`), terms declared during a search, and
formulas as arguments of predicates.

## 3. The runs

| run | instance | asks | states |
|---|---|---|---|
| `core_search` | `MC_Core`: 5 variables, 2 of them theory atoms that appear with a split; 3 problems, 3 clauses added before, between or after two calls, assumptions, the stop flag raised anywhere, a restart limit of 2 and deletion from 2 learnt clauses on | `SearchInv`, `SoundInv`, `TrailConsistent`, `ReasonsInOrder`, `UIPReached`, `SeenCleared`, `LearntsEntailed`, `AnswersCorrect`, `LearnsNew`, `StopReturns`, `Level0Kept`, `Termination` | 409,000 |
| `frames` | `MC_Frames`: eleven scripts with at most one frame above the bottom one: false roots, pops and re-asserts, facts and definitions above variables in use below, facts that clash with a lower frame, circles of definitions, refutations of the bottom frame by the search, with more commands after them | `ImplementsUntilRefuted`, `ScriptDone` | 14,000 |
| `theory` | `MC_Theory`: three bounds on x, one on y, one on x + y stored under the opposite sign, a plain atom; two of the bounds arrive as a split; two calls | `PointsAligned`, `BoundsExact`, `DecisionsExact`, `DeductionsComplete`, `DeductionsExact`, `NoDoubleEnqueue`, `ConflictSound`, `ReasonSound` | 392,000 |
| `simplex` | `MC_Simplex`: x, y, x + y and x - y, a bound and its strict negation on three of them | `RowsEquivalent`, `ValuesConsistent`, `NonBasicWithinBounds`, `FarkasConflict`, `ConcreteModel`, `TurnsBounded` | 560,000 |
| `lia_splits` | `MC_LIA`, problem "two": two integer variables without constraints between them | `IntConflictSound`, `SplitCutsOff`, `SplitOpen`, `SplitNew` | 86,000 |
| `watches` | `MC_Watches`: 4 variables, clauses of two and three literals that a deduction refutes at level 0, a split, learnt clauses | `TwoWatches`, `FormulaKept`, `Settled` | 691,000 |
| `egraph` | `MC_Egraph`, instance "Congruent": four constants, two applications of f, a predicate, equalities and a distinction of three | `ClassesExact`, `ImpliedAtomsDeduced`, `ExplanationSound`, `ForestSpans` | 410,000 |
| `frames_nested` | one script, two frames above the bottom one | `ImplementsStack`: **violated** | |
| `frames_circular` | one script, two definitions in a circle above a frame that holds their variables | `ImplementsStack`: **violated** | |
| `frames_refuted` | one script: a frame that the search refutes at level 0, checked twice | `ImplementsStack`: **violated** | |
| `lia_cuts` | `MC_LIA`, problem "one": x between two halves | `TriedIsBlocked`: **violated** | |
| `egraph_distinct` | `MC_Egraph`, instance "Joining" | `ExplanationAsserted`: **violated** | |

`AnswersCorrect` is `SatCorrect` and `ConflictCorrect` together.

The bounds, and why the interesting cases happen within them. Each property is violated
on the same instance by the mutation of the code listed for it, which is the evidence
that the bound reaches the case.

* *The search.* `MaxSolves` bounds the calls of `solve_` at two, the only unbounded input;
  conflicts, restarts and clauses are unbounded in the model and finite because the
  clauses over five variables are. The problems of `MC_Core` are chosen so that
  first-UIP analysis takes several turns, minimisation removes literals, theory
  conflicts fall below the current level, a deduced literal has to be explained in the
  middle of an analysis (`cancelUntilVar`), a split is decided, implied, or implied at
  level 0, restarts and `reduceDB` happen, assumptions are true, free and refuted, at
  level 0 and above, and a first search ends on a conflict at level 0, with clauses left behind
  that are false, unit or open, before clauses are added and a second search is made.
  Two calls suffice for what the first can leave to a later one: marks, learnt clauses,
  literals of level 0, and clauses left behind.
* *The theory stack.* `MaxCalls` is 2, so that literals of level 0 survive a call.
  The constraint `Narrowed` keeps at most five of the six atoms on the trail, lets the
  two bounds that meet in the row have one sign and one order, and puts the plain
  atom second; every sign and order of the other bounds remains.
* *Simplex.* `MaxPoints` is 3: three bounds in force, any of them undone and replaced; the
  tableaux that pivoting reaches are all there are, and the values are finite because
  bounds are. `NumOfCols` is 1 where the code has the number of variables, so that
  both pivoting rules are used.
* *Integers.* `Grid` holds the values the relaxation may take: around two integers and the
  half between them, each with an infinitesimal on either side.
* *Watches.* `MaxRefs` is 4 places in the arena before a relocation; `Decisions`,
  `Deductions` and `Learnable` name the literals decided and deduced and the clauses
  learnt, chosen so that clauses become unit and false at several levels, are learnt,
  locked, freed and moved, and that a search ends at level 0 with watchers unvisited and
  another decides above it.
* *Egraph.* In "Congruent" the members of the distinction have more parents than what
  they are merged with, so that either side of a merge moves; b = c, p(f(b)) and the
  distinction are asserted true only. In "Joining" members of the distinction join
  larger classes before it is asserted.

Fairness. `FairSpec` assumes weak fairness of `Step`, the solver's own next step: the
solver is one thread, and its loop runs on. It does not assume that the interrupt
is ever raised, nor that clauses are added or calls made. `FairMSpec` assumes weak
fairness of the whole `MNext`, as the interpreter executes its script in the same
thread. Which step is taken (which clause propagates, which literal is decided, which
clauses are deleted, whether a theory check finds anything) is left without
fairness, so `Termination` holds for every heuristic.

Every other run checks safety, and its specification has no fairness. That a check of the
simplex ends is the invariant `TurnsBounded`: under Bland's rule no basis is met twice with the
nonbasic variables at the same bounds (`ChecksEnd` proves it).

`CHECK_DEADLOCK FALSE` is set where the systems really stop: no call is left (`MaxSolves`,
`MaxCalls`), the script is at its end, the integer solver has accepted a model, the
clauses are found inconsistent. `Termination` and `ScriptDone` show that the search and
the scripts stop only there. The simplex and the congruence closure never stop, and
deadlock is checked for them.

### Findings

* `frames_nested`: `analyzeFinal` leaves `seen[]` set for the decisions it walks over
  (`CoreSMTSolver.C:1346`, the reset is in the else-branch), and `analyze` presumes
  that `seen[]` is clear. After an unsat answer under two frames, a frame's literal
  stays marked, a later learnt clause omits it, and after the pop a satisfiable
  stack is answered `unsat`.
* `frames_refuted`: `search` returns `l_False` on a conflict at level 0 (`CoreSMTSolver.C:1911`) and
  nobody sets `ok` to false, although `propagate` has put `qhead` at the end of the trail
  (`:1507`) and `clearSearch` does nothing at level 0. The next `check-sat` does not visit the
  false clause again: four clauses over two variables are answered `unsat`, then `sat`.
* `frames_circular`: when the simplification ends, the substitution of a variable that a
  lower frame holds is added to the frame, negated if its sign is `l_False`
  (`logics/Theory.C:245`). That sign does not mean a negative fact: it marks a definition
  that the loop breaker dropped. With `(= x y)` and `(= y x)` asserted above a frame that
  holds `x` and `y` the negation of one of them is added, and a satisfiable stack is
  answered `unsat`. With the test removed the same run finds no error.
* `lia_cuts`: `checkIntegersAndSplit` records a number as tried before it knows whether
  a split is asked for (`LIASolver.C:74`). After a conflict instead of a split the next
  fractional value with that floor is passed over, and the search reports a model in
  which an integer variable is fractional.
* `egraph_distinct`: `assertDist` marks the roots of the members, `undoDistinction`
  clears the members themselves (`EgraphSolver.C:937`). A stale mark on a root refuses
  a later merge because of a literal that is no longer asserted.

## 4. The proofs

`SearchInvariance` (module `SearchInvariant_proofs`): for every value of the
constants that satisfies the named assumptions of `CoreSMTSolver` - any finite set of
variables, any theory, any clauses, splits, assumptions and limits -

    CleanCalls  implies  Spec => []SearchInv

and from it `TypeCorrect`, `TrailCorrect`, `ReasonsCorrect`, `UIPCorrect` and
`SeenCorrect`: the invariants `TypeOK`, `TrailConsistent`, `ReasonsInOrder`,
`UIPReached` and `SeenCleared` that the run `core_search` checks on its instance.
TLC checks `SearchInv` itself on the same instance.

`CleanCalls` is the one hypothesis beyond the code's own: every call of `solve_` but the
last is made with at most one assumption. It excludes the situation of the finding `frames_nested`, in which marks of
one call reach another, and without it the theorem is false. Refutations at level 0 are not
excluded: the theorem covers the calls made after them.

The argument. `ReasonsInOrder` and `UIPReached` are not inductive. A reason implies its
literal *at the right level* only if no clause was already unit or false at a lower
level, so the invariant carries `LevelsSettled`: at every level below the current one
each clause of `Heard` - of the database, but for those left behind at level 0 - is satisfied, or has
two literals that are not false there. Three things keep it true, and they are what the proof is about:

* a new level is opened only over a settled one (`CalmInv`: after propagation and
  until the next decision the current level is settled too), which `Quiescent` gives
  (`QuiescentSettled`);
* a literal enqueued at a level changes nothing below it (`EnqueuedSame`,
  `SettledSame`), and a backjump leaves exactly the entries up to its level
  (`CancelOK`, `KeptFacts`);
* a clause added in the middle of a search - learnt, or a split - has two literals
  that are free below the level it implies at (`OpenBelow`, `BackjumpStep`).

From it, `CurrentLevel` gives every conflict clause, and every reason, a literal of the
current level - a clause left behind is never a reason, and as a conflict has such a literal by
`FoundFalse`; `AnalyzeInv` says what the marks, `out_learnt` and `pathC` mean in the
middle of an analysis, in terms of the part of the trail not yet walked; `TopMarksCount`
and `MarksLeft` show that `pathC` counts exactly the marks of the current level, so the
walk stops at the first UIP and not later; and `DecisionsFirst` shows that a literal
without a reason is never reached before. `TrailCut` is the lemma about
`cancelUntilVar`: it shortens the trail but never closes a level. There is one lemma
per action (`...Inv`), put together in `NextInv`.

### Soundness

`SoundnessInvariance` (module `Soundness_proofs`), under the same `CleanCalls`:

    CleanCalls  implies  Spec => []SoundInv

and from it five results about what the search says: `LearntsCorrect`
(`LearntsEntailed`), `AnswersRight` (`AnswersCorrect`, both answers), `Level0Permanent`
(`Level0Kept`, an action property) and `LearnsProgress` (`LearnsNew`, an action
property). `AnswersRight` is the theorem a user of the solver relies on: `l_True` comes
with an assignment that extends to a model of the theory and of every clause given, and
meets the assumptions; `l_False` with negated assumptions, or none, that the clauses
imply. The first half holds of a call as long as no earlier search has left clauses behind
(`missed = {}` in `SatCorrect`; without that it is false, by the finding `frames_refuted`), the second
of every call.

`SoundInv` has four parts. `DatabaseInv`: the clauses of the database and the literals
of level 0 follow from `formula`, and every clause ever given is still attached or
satisfied for good - or, once `ok` is false, they are inconsistent; a clause left behind has a literal
that is false at level 0. `AssumptionInv`: the
assumptions reached so far are true at their levels, and the decisions of those levels are
the assumptions. `ResolventInv`: the clause that an analysis has
derived so far - what is in `out_learnt` together with the marks still to be walked -
follows from `formula`, in `analyze` and in `analyzeFinal`. `AnswerInv`: a final conflict
holds negated assumptions, `branch2` is reached only with an assignment the theory
accepts, and `AnswersCorrect`.

The argument, lemma by lemma. A turn of `analyze` is a resolution with the reason of the
literal at hand (`EntailsResolve`, `MarkedEntailed`), and the reason is entailed because it
is in the database or because the theory gave it; literals of level 0 may be left out
(`EntailsDrop`), because they follow from `formula` alone. A literal that minimisation
removes has a reason over the ones that stay: take the removed literal that was assigned
first (`MinimizedSound`). On `l_True` every clause of the database is satisfied by the trail
(`FormulaSatisfied`), hence every clause given is, and the complete theory check gives
the model that extends it (`ModelOfTrail`). On `l_False` under assumptions the
final analysis resolves down to decisions, and by `AssumptionsFirst` the decisions it can
meet, all made before the assumptions were used up, are assumptions. Learnt clauses are new because
propagation was complete at the level they would have been unit at: `LearntNew` uses
`LevelsSettled` of `SearchInv`, and for a clause left behind that the learnt one has no literal of level 0. One assumption beyond those of the search is needed,
`BooleansFree`: the theory does not constrain variables that are not its atoms. TLC
evaluates it in `core_search`.

### The clause database

`Invariant` (module `Watches_proofs`) is `Spec => []WInv` for any set of variables and any
clauses of at least two different literals each (`VarsAssumption`, `ClausesAssumption`), and from it
`TwoWatchesKept`, `FormulaIsKept` and `AlwaysSettled`: the three properties that the run
`watches` checks. `AlwaysSettled` is the contract `Quiescent` that `CoreSMTSolver` presumes of
`propagate`, so the proofs about the search rest on proved facts about its propagation. It is stated
while `ok` is true, which it stays when a search ends on a conflict at level 0.

None of the three is inductive by itself. `WInv` (module `WatchesInvariant`) says:

* `DbInv`, `TrailInv`: the arena, the lists, the trail and its boundaries fit together; a
  clause has `mark = 0` exactly while it is in use. Lazy detaching needs it: a list is
  cleaned by looking at marks.
* `WatchInv`, `ListsClean`: each clause in use has exactly one watcher on each of its first
  two literals and none elsewhere, blockers are other literals of it, and what is left of
  deleted clauses is on lists that are marked dirty - so that the cleaning at the start of
  `propagate` leaves none, and relocation meets none.
* `ReasonInv`: a clause that is a reason has the literal it implied at its head. A
  clause whose head is true is never swapped by `propagate`, and `locked` looks at the head.
* `StageInv`: `qhead`, the watchers left to visit and a pending conflict, by stage.
* `PropInv`, the heart: a watched literal that is false is *excused* by a true literal
  assigned at the same level or below, or its watcher is about to be visited. "At the same
  level or below" is `NoDecisionBetween`: no level starts after the false literal and at or
  before the true one, hence any backjump that leaves the false one leaves the true one, and
  `PropInv` survives `cancelUntil` to any level. A blocker found true, a watch found true and a new unit
  all create such an excuse, because whatever is being visited belongs to the last level.
  After a conflict the current level is left half visited; the invariant then speaks of the
  levels below, which is all a backjump keeps. At level 0 there are none, and a search that ends
  there passes over its false watches for good: they are excused as well, by `skipped`.
* `FormulaInv`: each added clause is satisfied at level 0, or its literals that are not
  false there are a clause of the database, and the other way round.

`Settled` follows from `PropInv`: were a clause false or unit, the true excuse of its
false watch would be among its literals. TLC checked `WInv` on the instance of the run
before the proof was begun.

### The theory handler and the solver's stacks

`Invariance` (module `TheoryStack_proofs`) is `Spec => []TInv` for any atoms, bounds, rows
and splits that fit together (`AtomsAssumption`), and from it all eight properties of the
run `theory`: `PointsAlignment`, `BoundsAreExact`, `DecisionsAreExact`, `DeductionsAreExact`,
`DeductionsAreComplete`, `EnqueuedOnce`, `ConflictsSound`, `ReasonsSound`. `THandler::backtrack`
pops by *count*, so one push too many or too few undoes the wrong literals for the rest of the
run; bounds, decisions and deductions are cut at limits of their own; and `getReason` does all of it
once more on a shortened stack while the search is analysing a conflict. A property of the
present state does not survive the next backjump unless it is known of every prefix.

Hence `TInv` (module `TheoryInvariant`) relates the solver to its *hand*: the literals handed
over, one per backtrack point (`HandIn`: the theory atoms of the handler's stack with their signs
on the trail).

* `ShapeInv`: each of the lists is cut into one layer per point (`Layered`); `End(list, lim, p)` is
  its length after p points. This contains `PointsAligned`.
* `TraceInv`, `DecisionsInv`: what a layer holds is the literal of its point; a later bound of a side is
  never the weaker, and no lower bound in force lies above an upper one.
* `HandInv`: each literal of the hand was taken in its own layer (`TakenAt`), or passed over because
  it stood in the list of deductions *before* (`PassedOver`), or is the last one and was refused; that
  `popBacktrackPoints` pops a refused literal although nothing was recorded for it rests on this.
* `DeductionsInv`, `TableInv`: a deduction is weaker than the literal taken at the same point, and
  the table shared by all solvers names exactly the deductions on the list.
* `CompleteInv`: what is weaker than a literal of a prefix was handed over or deduced within that
  prefix. `PassedOver` is the case to think about: the literal was deduced from a stronger one further down,
  whose deductions include all that would follow now.
* `ReasonInv`: for a literal enqueued as deduced, what `getReason` relies on. Until something
  is undone it stands in the list within the prefix below it (`AllDeduced`). When `getReason` has cut
  the stack and `assertLits` hands the rest over again, new atoms of splits may be deduced that were not
  known before, in another order: `Explained` says that there is a mark b up to which nothing was
  undone, and that above b every literal handed over again meets all atoms that are known by now, so a stronger literal
  below remains.

The first half of the module proves the parts about the solver alone, operator by operator (`PopSolverInv`,
`HandOver`, `AssertTaken`, `ReasonFound`, `ReasonUndone`); the second numbers the atoms of the stack
(`PosFacts`) and goes through the actions, one lemma each. TLC found no violation of `TInv` on the
instance of the run `theory`.

### The simplex

`SimplexInvariance` (module `Simplex_proofs`) is `Spec => []SInv` for any number of variables, any
sums of columns with rational coefficients, any literals over them and any turn at which
Bland's rule takes over. From it follow the six invariants of the run `simplex`:
`RowsAreEquivalent`, `ValuesAreConsistent`, `NonBasicAreWithinBounds`, `ConflictsAreFarkas`,
`ModelsAreConcrete` and `ChecksEnd`. `ConflictsAreFarkas` and `ModelsAreConcrete` are the two answers
of a check: unsat with a certificate, sat with rational numbers that meet every bound and every
definition. `ChecksEnd` says that it comes to one of them: the number of its turns is bounded.

`SInv` (module `SimplexInvariant`):

* `TableauConsistent`: rows of basic variables are over nonbasic ones, columns list them.
* `AsideInv`: the rows set aside can be graded so that each names rows of lower grade only. A pivot
  does not touch them, so a row set aside comes to name variables that turned basic or were set
  aside themselves later; `normalizeRow` unfolds them, and ends because of the grading.
* `RowsInv`: numbers satisfy the rows exactly if they satisfy the definitions. Stated so, a pivot
  is easy - it rewrites equations - where the polynomial itself, `RowsEquivalent`, would have to be followed
  through unfolding. That basic rows *are* the definitions follows by putting in unit vectors.
* `BoundsInv`: a bound pushed is stronger than those under it and compatible with the other side, one that was not
  pushed is implied by one that was, and the count is that of the points. So taking points away leaves, for
  every literal that remains, a bound at least as strong; and a variable that is set aside has none.
* `SavedInv`: the values of the last accepted check meet every literal up to `checked`, and differ from the
  current ones only where `changed` says so. `Backtrack` restores them and clears the candidates.
* `AcceptedInv`, proved along with `SInv`: there is an assignment of all variables, rows set aside included, that
  satisfies the definitions and every literal of `accepted`, and agrees with the saved values outside the basis
  (`Covers`). The saved value of a row set aside may be stale, but an assignment that satisfies the definitions is
  determined by its values outside the basis, in whatever basis: so a row that returns is computed
  to exactly that value (`CoversInTableau`), pivots do not disturb it (`PivotedCovers`), and a bound that was undone and
  asserted again without a check is met by the values `Backtrack` restores (`AcceptedAgain`).
* `ValuesConsistent` and `NonBasicWithinBounds`, for current and saved values: an incremental update adds the
  coefficient times the step along a column (`RSumEquation` and what follows from it on linearity).

TLC found no violation of `SInv`, its quantifiers over numbers restricted to small sets, on the instance of the run
before the proof was begun.

The conflict: none of the terms of the row helps (`getConflictingBounds`), so each nonbasic variable sits at the bound
that the sign of its coefficient selects; with the row as an equation, the weighted bounds cancel and their
sum is off by exactly the violation. The model: with `delta` half the least ratio that `computeDelta`
collects (or 1), a value below a bound in the order of pairs stays below it as a number - the case to
think about is equal rationals with different infinitesimals, where `StrictAssumption` is needed - and linearity
carries the definitions over from both coordinates.

The end of a check (`TurnsBounded`) is about the whole history of turns. `TurnsInv` says that the tableaux since
the last turn by heuristic form a chain (`Chain`): at each turn the least variable out of bounds leaves the basis,
the least term of its row that helps enters it, and all values outside the basis are where they were at the
start of the chain or at a bound. A row set aside has no bounds (`QuasiUnbounded`), so it cannot be chosen,
and its variable is given the value it would have. A basis alone may come back: a variable can leave it
at its lower bound and, later, at its upper one. Its values outside the basis cannot come back with it
(`NoneAlike`): of the variables that enter between two shots that are alike, take the
greatest, r. Where it enters, by the row of b, smaller terms of that row are stuck at their bounds and greater ones do not
change; where r has left the basis, to lie where it enters from, the smaller ones were within
bounds and r itself was beyond its bound. So that row was further off there (`FurtherOff`), b was out of bounds, and being
smaller it should have been chosen instead of r. A chain is thus an injection into `Configurations`, which are
finitely many (`ChainBounded`); as a pivot exchanges two variables (`CountKept`), only those count that have as many
variables outside the basis as there are columns.

Sums are folds over finite sets. No induction theorem that takes an operator can be used here, so
`DataLemmas` proves that the fold's recursive function exists (`RecursionDefined`) and its equation
(`RSumEquation`) by looking at a least counterexample (`LeastSubset`).

### Integer conflicts and splits

`LIASolver_proofs`, for any number of variables, any atoms and any finite or infinite grid of
rational values with a rational infinitesimal part: `IntConflictsSound`, `SplitsCutOff`,
`SplitsOpen`, `SplitsNew` (the invariants of the run `lia_splits`).
Numbers are ordered: rationals in lowest terms are equal when neither is
smaller (`RationalOrder` in `DataLemmas`, by the minimality of the denominator that `Rationals` states),
and with them the pairs and the infinities (`ValueOrder`), so that the strongest bound exists
(`ExtremeBound`) although the assertions are only a finite set. `SplitPointFacts` is the arithmetic of the split: `floor`, minus one
for `n - k*delta`, is the largest integer strictly below a value that is no integer.

`LInv` says that a pending explanation is the two bounds in force around a recorded number with
no integer between them, and a pending split the two sides of a recorded number around the last
value, with the bounds in force leaving an integer. `SplitsOpen` needs the last part: were one side
asserted, the value would not lie between the bounds. For `SplitsNew`, `NewInv` ties the clauses
to the record: every clause that looks like a split has its number in `cuts`. The step that
needs an argument is the learning of a conflict, whose clause can look like a split as
well; `LearntSplit` shows that it is then the split of the very number the conflict was found with.
`NoSplitGiven`, the hypothesis of `SplitsNew`, excludes inputs that already hold a clause `x <= c or x >= c+1`: the solver does not
look, and would ask for it once more (harmless, but then the clause is not new).

### The explanation forest

`EInvariance` (module `Egraph_proofs`) is `Spec => [](EInv /\ PointsInv /\ DistInv)` for any finite sequence of
terms, each made of earlier ones, any predicates among them and any literals over its
atoms, and from it follows `ForestAlwaysSpans`, the invariant `ForestSpans` of the run `egraph`: two
terms are in one class exactly if they are in one explanation tree, and every edge of a tree is an
asserted literal about its two ends or joins terms whose arguments are equal *now*.

That is not evident from the code. A merge hangs the tree of one class under a term of the other
after turning all edges above it (`expReRootOn`); the undo does not turn them back but
cuts one edge, whichever way it points by then. And a congruence edge was made because the table of
signatures held a node for a pair of roots; entries of the table go stale when a class joins another and
become current again when it is separated.

An undo brings the roots back to what they were, so the invariant has to speak of all earlier roots.
`EInv` (module `EgraphInvariant`) says that there is a history `H` of roots, one for each length of
`undo_stack_main`, such that

* `History`: `H` begins with every node by itself and ends with the present roots; a `MERGE` entry joins
  the recorded class to another, of the same kind (terms or lists), and any other entry changes nothing.
* `PastInv`: at each point, lists in one class agree in their first members and in their rests.
* `TableInv`: at each point at which the parts of a signature are roots, the node in the table has
  that signature - or the entry was made by a later merge, whose undo will find it in the use vector of the class
  that joined and remove it. So no signature outlives the merge that made it true.
* `ForestInv`: the forest has no circle and spans the classes (`Spans`); its edges are, one way or
  the other, the pairs of `exp_undo_stack`, made in this order by the merges of terms (`Places`); each pair was
  in two classes before its merge and in one after, and the reason of its edge was good *before* it: an
  assertion below it on the stack, or equal signatures of the two terms (`PairsInv`).
* `PolarityInv`, `TodoInv`, `PendingInv`: an atom has a value exactly while its entry is on the stack; what is still
  to be merged is an asserted equality, or pairs of nodes with equal signatures.

TLC found no violation of `EInv` on the instance of the run, with `H` computed from the stack, before the proof was
begun.

The argument. A hung edge joins exactly two trees (`HungSpans`). When the last merge is undone, the edge
between its pair is cut (`CutSpans`): all other edges were made by earlier merges, hence join terms of one class
before it (`OtherEdges`), so the two parts are the two classes (`PrunedSpans`). `JoinsWhole` and `CutAgain`
treat the refused merge, which stores its edge, explains and removes it in one step. For congruences,
`AfterStep` and `BeforeStep` describe one turn of the loops over a use vector, `AfterDone` and `BeforeDone` the
whole loop: what a merge queues has equal signatures under the new roots (`AfterMerge`), because an entry that is found in
the table is live there; and the undo takes out what the merge has put in (`UnmergeTable`). `SigCoarser` carries equal
signatures over to every coarser partition, and `ArgsEqual` turns equal signatures of terms into arguments
that are equal one by one, by the lists (`PastInv`). Two more parts, `PointsInv` and `DistInv`, give backtracking a point to go
back to and distinctions members that are terms; they do not need the history.

### Only model-checked

* The refinement `ImplementsUntilRefuted` (`ImplementsStack` is false where the three findings bite; a
  proof for scripts that avoid two of them is the first item of the plan below).
* `StopReturns`, and the liveness properties `Termination` and `ScriptDone`, which are beyond
  the proof system.
* `ClassesExact`, `ImpliedAtomsDeduced` and `ExplanationSound` of `Egraph`: they compare the classes with the
  congruence closure of the asserted literals and with their satisfiability, and the closure
  is the end of an iteration (`Congruence`, joined as often as there are terms). That nothing is left to
  join at its end, and that an explanation is complete when its rounds are (`Edges`), are inductions
  over that iteration. Besides, the first and the last fail where the finding `egraph_distinct` bites, and could be
  theorems only of scripts without distinctions. `EInvariance` is the part of the argument that is about the code's own state.

## 5. Plan

Done: the search, its soundness, the assertion stack with the simplification of its
frames, the clause database under propagation, the theory handler with the bounds, the
simplex, the integer splits and the congruence closure. In the order in which it would be
taken up, what is left:

1. *Refinement* (proof): `ImplementsUntilRefuted` for scripts with one
   frame above the bottom one and no circles, with `AnswersRight` as the lemma about the
   solver inside, and an invariant that says what a frame's clauses and the substitutions
   kept for lower frames mean together.
2. `Splitting`: `updateSplitState` (`CoreSMTSolver.C:2048`), scatter splitting and lookahead.
3. Models: `get-value` under substitutions, a second theory solver behind TSolverHandler.
4. Pure algorithms: `Heap`, `Queue`, `luby`, Tseitin, FastRational at the word boundary,
   and SimpSMTSolver's elimination.

## 6. Not modelled, and why

Parser, options and C API (I/O and glue), generated code, the bit-blaster and the
proof/interpolation code (other builds or pure translations), activities and the
random choices of heuristics (any choice is allowed), memory management apart from
the frees of clauses and the relocation of their arena, statistics and time limits other
than as causes of the stop flag. Rationals are exact in `Deltas`: that FastRational
switches between words and GMP numbers at the word boundary is not visible there. The
clause form of terms (Tseitin) is left out of `MainSolver`, whose formulas are clauses
and equalities. Scatter splitting and lookahead are off by default; the one hazard that
no property covers, `updateSplitState` leaving the assumption loop behind when it
backtracks, belongs to them.

Three places of the code met while modelling that no run states:

* UFLRATHandler's constructor makes and schedules the arithmetic solver that its base
  class has made and scheduled (`UFLRATHandler.C:17`, `LRATHandler.C:9`), so in that logic
  each literal pushes two backtrack points on it and `THandler::backtrack` pops one.
* `frame.substs` holds the positive facts only (`UFTheory.C:24`), so a variable that a
  negative fact has eliminated is unknown to the solver, and its value in a model comes
  from the substitutions of the frame simplified last, which may have been popped since.
* `getNewFacts` returns at a negative fact that is already known (`Logic.C:1584`), where
  its comment says "conflict": facts behind it wait for another round. `frames` shows
  that nothing worse comes of it.
