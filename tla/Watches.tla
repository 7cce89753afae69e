------------------------------ MODULE Watches ------------------------------
(***************************************************************************)
(* The clause database under CoreSMTSolver: clauses in an arena, two       *)
(* watched literals per clause with blockers, propagate one watcher at a   *)
(* time, lazy detaching, and the relocation of the arena.  CoreSMTSolver   *)
(* presumes of it that nothing unit is left when propagate returns.        *)
(*                                                                         *)
(* A clause is the sequence of its literals, at a reference: its place in  *)
(* the arena.  A watch list is the set of its watchers; propagate visits   *)
(* them in any order.  What the search above decides, deduces and learns   *)
(* is any choice with the shape that analyze and handleSat guarantee.      *)
(***************************************************************************)
EXTENDS Integers, Sequences, FiniteSets

CONSTANTS
  Vars,        \* SAT variables, positive integers
  Formula,     \* clauses addOriginalClause_ is called with, sets of literals
  Splits,      \* split clauses of the theory, pairs of literals
  Deductions,  \* bound: literals the theory deduces
  Decisions,   \* bound: literals the search decides
  Learnable,   \* bound: clauses a conflict analysis may come up with
  MaxRefs      \* bound: clauses in the arena, freed ones included

VARIABLES
  ca,                      \* the arena: reference -> [lits, learnt, mark]
  clauses, learnts,        \* references
  watches,                 \* literal -> watchers of the clauses its truth may hurt
  dirties,                 \* literals whose list holds watchers of freed clauses
  trail, trail_lim, reason, qhead,
  todo,                    \* propagate: watchers of trail[qhead] not visited yet
  confl,                   \* the clause propagate returns
  skipped,                 \* the trail a search passed over when it ended at level 0
  ok, added,
  pc                       \* "idle", "enqueued", "propagate", "conflict"

db == <<ca, clauses, learnts, watches, dirties>>
assignment == <<trail, trail_lim, reason, qhead>>
vars == <<db, assignment, todo, confl, skipped, ok, added, pc>>

CRef_Undef == 0
CRef_Fake == -1
var(p) == IF p < 0 THEN -p ELSE p
Lits == Vars \cup {-v : v \in Vars}

ASSUME VarsAssumption == Vars \subseteq Nat \ {0}
ASSUME ClausesAssumption ==
  /\ \A c \in Formula \cup Learnable : c \subseteq Lits /\ IsFiniteSet(c)
  /\ \A s \in Splits : \E l1 \in Lits : \E l2 \in Lits \ {l1} : s = {l1, l2}

Assigned == {trail[n] : n \in DOMAIN trail}
IsTrue(l) == l \in Assigned
IsFalse(l) == -l \in Assigned
Free(l) == ~IsTrue(l) /\ ~IsFalse(l)
decisionLevel == Len(trail_lim)
PositionOf(v) == CHOOSE n \in DOMAIN trail : var(trail[n]) = v
level(v) == Cardinality({k \in DOMAIN trail_lim : trail_lim[k] < PositionOf(v)})
LitsOf(cr) == {ca[cr].lits[n] : n \in DOMAIN ca[cr].lits}
Watcher(cr, blocker) == [cref |-> cr, blocker |-> blocker]

Init ==
  /\ ca = <<>> /\ clauses = {} /\ learnts = {}
  /\ watches = [l \in Lits |-> {}] /\ dirties = {}
  /\ trail = <<>> /\ trail_lim = <<>> /\ reason = [v \in Vars |-> CRef_Undef] /\ qhead = 0
  /\ todo = {} /\ confl = CRef_Undef
  /\ skipped = 0 /\ ok = TRUE /\ added = {} /\ pc = "idle"

----------------------------------------------------------------------------
(* Enqueueing, undoing, attaching. *)

(* The reason of a variable without a value is never read; it is kept at   *)
(* CRef_Undef here.                                                        *)
ReasonsOn(t) ==
  [v \in Vars |-> IF \E n \in DOMAIN t : var(t[n]) = v THEN reason[v] ELSE CRef_Undef]

Enqueue(l, from, t) ==
  /\ trail' = Append(t, l)
  /\ reason' = [ReasonsOn(t) EXCEPT ![var(l)] = from]

KeptTrail(lev) == IF decisionLevel > lev THEN SubSeq(trail, 1, trail_lim[lev + 1]) ELSE trail
KeptLims(lev) == SubSeq(trail_lim, 1, lev)
KeptHead(lev) == IF decisionLevel > lev THEN trail_lim[lev + 1] ELSE qhead

Ordered(S) == CHOOSE s \in [1..Cardinality(S) -> S] : \A m, n \in DOMAIN s : m < n => s[m] < s[n]

Attached(w, cr, c) ==
  [w EXCEPT ![-c[1]] = @ \cup {Watcher(cr, c[2])}, ![-c[2]] = @ \cup {Watcher(cr, c[1])}]

(* ca.alloc and attachClause. *)
Allocate(c, learnt) ==
  /\ Len(ca) < MaxRefs
  /\ ca' = Append(ca, [lits |-> c, learnt |-> learnt, mark |-> 0])
  /\ watches' = Attached(watches, Len(ca) + 1, c)
  /\ IF learnt THEN learnts' = learnts \cup {Len(ca) + 1} /\ UNCHANGED clauses
               ELSE clauses' = clauses \cup {Len(ca) + 1} /\ UNCHANGED learnts
  /\ UNCHANGED dirties

----------------------------------------------------------------------------
(* addOriginalClause_, between two searches.                               *)

AddClause(c) ==
  /\ ok /\ pc \in {"idle", "enqueued"} /\ decisionLevel = 0 /\ c \notin added
  /\ added' = added \cup {c}
  /\ LET ps == {l \in c : ~IsFalse(l)} IN
     \/ /\ \E l \in c : IsTrue(l) \/ -l \in c
        /\ UNCHANGED <<db, assignment, ok, pc>>
     \/ /\ \A l \in c : ~IsTrue(l) /\ -l \notin c
        /\ \/ ps = {} /\ ok' = FALSE /\ UNCHANGED <<db, assignment, pc>>
           \/ /\ Cardinality(ps) = 1
              /\ Enqueue(Ordered(ps)[1], CRef_Undef, trail)
              /\ pc' = "enqueued" /\ UNCHANGED <<db, trail_lim, qhead, ok>>
           \/ /\ Cardinality(ps) > 1 /\ Allocate(Ordered(ps), FALSE)
              /\ UNCHANGED <<assignment, ok, pc>>
  /\ UNCHANGED <<todo, confl, skipped>>

----------------------------------------------------------------------------
(* propagate *)

Cleaned(w) == [l \in Lits |-> IF l \in dirties THEN {x \in w[l] : ca[x.cref].mark = 0} ELSE w[l]]

StartPropagate ==
  /\ pc = "enqueued"
  /\ watches' = Cleaned(watches) /\ dirties' = {}
  /\ confl' = CRef_Undef /\ pc' = "propagate"
  /\ UNCHANGED <<ca, clauses, learnts, assignment, todo, skipped, ok, added>>

TakeLiteral ==
  /\ pc = "propagate" /\ todo = {} /\ qhead < Len(trail)
  /\ qhead' = qhead + 1
  /\ todo' = watches[trail[qhead + 1]]
  /\ UNCHANGED <<db, trail, trail_lim, reason, confl, skipped, ok, added, pc>>

p == trail[qhead]
SwappedNever(c) == c  \* mutant: the false literal stays where it is
Swapped(c) == IF c[1] = -p THEN [c EXCEPT ![1] = c[2], ![2] = c[1]] ELSE c

Visit(w) == pc = "propagate" /\ w \in todo /\ todo' = todo \ {w} /\ UNCHANGED <<skipped, ok, added, clauses, learnts, dirties, trail_lim>>

BlockerTrue(w) ==
  /\ Visit(w) /\ IsTrue(w.blocker)
  /\ UNCHANGED <<ca, watches, trail, reason, qhead, confl, pc>>

(* The watcher is written back with the other watched literal as blocker. *)
WrittenBack(w, first) == [watches EXCEPT ![p] = (@ \ {w}) \cup {Watcher(w.cref, first)}]

FirstTrue(w) ==
  LET c == Swapped(ca[w.cref].lits) IN
  /\ Visit(w) /\ ~IsTrue(w.blocker)
  /\ ca' = [ca EXCEPT ![w.cref].lits = c]
  /\ c[1] # w.blocker /\ IsTrue(c[1])
  /\ watches' = WrittenBack(w, c[1])
  /\ UNCHANGED <<trail, reason, qhead, confl, pc>>

Candidates(c) == {k \in 3..Len(c) : ~IsFalse(c[k])}
NewWatchOf(c) == CHOOSE k \in Candidates(c) : \A n \in Candidates(c) : k <= n
MovedCopied(c, k) == [c EXCEPT ![2] = c[k]]  \* mutant: the false literal is lost

Moved(c, k) == [c EXCEPT ![2] = c[k], ![k] = c[2]]

NewWatch(w) ==
  LET c == Swapped(ca[w.cref].lits)  k == NewWatchOf(c) IN
  /\ Visit(w) /\ ~IsTrue(w.blocker)
  /\ ~(c[1] # w.blocker /\ IsTrue(c[1])) /\ Candidates(c) # {}
  /\ ca' = [ca EXCEPT ![w.cref].lits = Moved(c, k)]
  /\ watches' = [watches EXCEPT ![p] = @ \ {w}, ![-c[k]] = @ \cup {Watcher(w.cref, c[1])}]
  /\ UNCHANGED <<trail, reason, qhead, confl, pc>>

NoNewWatch(w, c) ==
  /\ Visit(w) /\ ~IsTrue(w.blocker)
  /\ ~(c[1] # w.blocker /\ IsTrue(c[1])) /\ Candidates(c) = {}
  /\ ca' = [ca EXCEPT ![w.cref].lits = c]
  /\ watches' = WrittenBack(w, c[1])

Unit(w) ==
  LET c == Swapped(ca[w.cref].lits) IN
  /\ NoNewWatch(w, c) /\ ~IsFalse(c[1])
  /\ Enqueue(c[1], w.cref, trail)
  /\ UNCHANGED <<qhead, confl, pc>>

Falsified(w) ==
  LET c == Swapped(ca[w.cref].lits) IN
  /\ pc = "propagate" /\ w \in todo /\ ~IsTrue(w.blocker)
  /\ Candidates(c) = {} /\ IsFalse(c[1])
  /\ ca' = [ca EXCEPT ![w.cref].lits = c]
  /\ watches' = WrittenBack(w, c[1])
  /\ confl' = w.cref /\ qhead' = Len(trail) /\ todo' = {}
  /\ UNCHANGED <<clauses, learnts, dirties, trail, trail_lim, reason, skipped, ok, added, pc>>

(* At level 0 addOriginalClause_ records a conflict in ok.  The search only *)
(* returns: the queue counts as visited (qhead), but lists of its literals  *)
(* are not, nor will they ever be.                                          *)
Propagated ==
  /\ pc = "propagate" /\ todo = {} /\ qhead = Len(trail)
  /\ \/ confl = CRef_Undef /\ pc' = "idle" /\ UNCHANGED <<skipped, ok>>
     \/ /\ confl # CRef_Undef /\ decisionLevel = 0 /\ pc' = "idle"
        /\ \/ ok' = FALSE /\ UNCHANGED skipped
           \/ skipped' = Len(trail) /\ UNCHANGED ok
     \/ confl # CRef_Undef /\ decisionLevel > 0 /\ pc' = "conflict" /\ UNCHANGED <<skipped, ok>>
  /\ confl' = CRef_Undef /\ UNCHANGED <<db, assignment, todo, added>>

Propagate ==
  \/ StartPropagate \/ TakeLiteral \/ Propagated
  \/ \E w \in todo : BlockerTrue(w) \/ FirstTrue(w) \/ NewWatch(w) \/ Unit(w) \/ Falsified(w)

----------------------------------------------------------------------------
(* The search. *)

Decide(l) ==
  /\ ok /\ pc = "idle" /\ l \in Decisions /\ Free(l)
  /\ trail_lim' = Append(trail_lim, Len(trail))
  /\ Enqueue(l, CRef_Undef, trail) /\ pc' = "enqueued"
  /\ UNCHANGED <<db, qhead, todo, confl, skipped, ok, added>>

(* A theory deduction; handleSat enqueues several before propagate runs. *)
Deduce(l) ==
  /\ ok /\ pc \in {"idle", "enqueued"} /\ l \in Deductions /\ Free(l)
  /\ Enqueue(l, CRef_Fake, trail) /\ pc' = "enqueued"
  /\ UNCHANGED <<db, trail_lim, qhead, todo, confl, skipped, ok, added>>

(* What analyze returns: literals false now, the first of the level at hand *)
(* and alone there, the second of the highest level below, in any order     *)
(* otherwise.                                                               *)
SecondHighest(r) == {q \in r : \A m \in r : level(var(m)) <= level(var(q))}

LearntFrom(S) ==
  /\ \A q \in S : IsFalse(q)
  /\ \E first \in S :
       /\ level(var(first)) = decisionLevel
       /\ LET r == S \ {first} IN
          IF r = {}
          THEN /\ Enqueue(first, CRef_Undef, KeptTrail(0))
               /\ trail_lim' = <<>> /\ qhead' = KeptHead(0) /\ UNCHANGED db
          ELSE \E second \in SecondHighest(r), lev \in {level(var(m)) : m \in r} :
               /\ \A m \in r : level(var(m)) <= lev /\ lev < decisionLevel
               /\ Allocate(<<first, second>> \o Ordered(r \ {second}), TRUE)
               /\ Enqueue(first, Len(ca) + 1, KeptTrail(lev))
               /\ trail_lim' = KeptLims(lev) /\ qhead' = KeptHead(lev)

Learn ==
  /\ pc = "conflict" /\ \E S \in Learnable : LearntFrom(S)
  /\ pc' = "enqueued" /\ UNCHANGED <<todo, confl, skipped, ok, added>>

Backjump(lev) ==
  /\ trail' = KeptTrail(lev) /\ trail_lim' = KeptLims(lev) /\ qhead' = KeptHead(lev)
  /\ reason' = ReasonsOn(KeptTrail(lev))

(* handleUnsat goes to the highest level of the theory's conflict first. *)
TheoryConflict ==
  /\ ok /\ pc = "idle"
  /\ \E lev \in 1..decisionLevel : Backjump(lev)
  /\ pc' = "conflict" /\ UNCHANGED <<db, todo, confl, skipped, ok, added>>

(* handleSat with a split: both sides free, or one is false and its level  *)
(* is where the other one is implied.                                      *)
SplitFree(l1, l2) ==
  /\ Free(l1) /\ Free(l2)
  /\ Allocate(<<l1, l2>>, FALSE) /\ UNCHANGED <<assignment, pc>>

SplitLevelStayed(f) == decisionLevel  \* mutant: no backjump to the false literal's level

SplitLevel(f) == level(var(f))

SplitImplied(i, f) ==
  /\ IsFalse(f) /\ Free(i)
  /\ trail_lim' = KeptLims(SplitLevel(f)) /\ qhead' = KeptHead(SplitLevel(f))
  /\ IF SplitLevel(f) = 0
     THEN Enqueue(i, CRef_Undef, KeptTrail(0)) /\ UNCHANGED db
     ELSE /\ Allocate(<<i, f>>, FALSE)
          /\ Enqueue(i, Len(ca) + 1, KeptTrail(SplitLevel(f)))
  /\ pc' = "enqueued"

Split ==
  /\ ok /\ pc = "idle"
  /\ \E s \in Splits \ added :
       /\ added' = added \cup {s}
       /\ \E l1 \in s : \E l2 \in s \ {l1} : SplitFree(l1, l2) \/ SplitImplied(l1, l2)
  /\ UNCHANGED <<todo, confl, skipped, ok>>

(* Restarts, and a search that ends anywhere between two turns of its loop. *)
CancelUntil(lev) ==
  /\ pc \in {"idle", "enqueued"} /\ lev < decisionLevel
  /\ Backjump(lev)
  /\ pc' = IF qhead' < Len(trail') THEN "enqueued" ELSE "idle"
  /\ UNCHANGED <<db, todo, confl, skipped, ok, added>>

----------------------------------------------------------------------------
(* Deleting clauses. *)

locked(cr) == IsTrue(ca[cr].lits[1]) /\ reason[var(ca[cr].lits[1])] = cr

SmudgedFirst(cr) == {-ca[cr].lits[1]}  \* mutant: the second list is not smudged

Smudged(cr) == {-ca[cr].lits[1], -ca[cr].lits[2]}

(* removeClause for each of them. *)
MarkedAll(R) == [cr \in DOMAIN ca |-> IF cr \in R THEN [ca[cr] EXCEPT !.mark = 1] ELSE ca[cr]]
ReasonsKept(R) == reason  \* mutant: reasons go on pointing to freed clauses

ReasonsWithout(R) ==
  [v \in Vars |-> IF \E cr \in R : locked(cr) /\ var(ca[cr].lits[1]) = v THEN CRef_Undef ELSE reason[v]]

(* relocAll: watchers, reasons of the trail, learnts and clauses, each by  *)
(* its new reference; a reason not relocated keeps the old one.            *)
Collected(a, w, r, cs, ls) ==
  LET inLists == {x.cref : x \in UNION {w[l] : l \in Lits}}
      reasons == {r[var(trail[n])] : n \in DOMAIN trail} \cap {cr \in DOMAIN a : IsTrue(a[cr].lits[1]) /\ r[var(a[cr].lits[1])] = cr}
      live == inLists \cup reasons \cup cs \cup ls
      to(cr) == Cardinality({x \in live : x <= cr})
      from(n) == CHOOSE cr \in live : to(cr) = n
  IN /\ ca' = [n \in 1..Cardinality(live) |-> a[from(n)]]
     /\ watches' = [l \in Lits |-> {Watcher(to(x.cref), x.blocker) : x \in w[l]}]
     /\ reason' = [v \in Vars |-> IF r[v] \in live /\ (IsTrue(v) \/ IsFalse(v)) THEN to(r[v]) ELSE r[v]]
     /\ clauses' = {to(cr) : cr \in cs} /\ learnts' = {to(cr) : cr \in ls}

(* checkGarbage: the arena is relocated when enough of it is wasted. *)
Removed(R) ==
  LET a == MarkedAll(R)
      dirty == dirties \cup UNION {Smudged(cr) : cr \in R}
      w == [l \in Lits |-> IF l \in dirty THEN {x \in watches[l] : a[x.cref].mark = 0} ELSE watches[l]]
  IN \/ /\ Collected(a, w, ReasonsWithout(R), clauses \ R, learnts \ R) /\ dirties' = {}
     \/ /\ ca' = a /\ clauses' = clauses \ R /\ learnts' = learnts \ R
        /\ reason' = ReasonsWithout(R) /\ dirties' = dirty /\ UNCHANGED watches

Deletable(cr) == Len(ca[cr].lits) > 2 /\ ~locked(cr)

reduceDB ==
  /\ ok /\ pc = "idle"
  /\ \E R \in SUBSET {cr \in learnts : Deletable(cr)} : Removed(R)
  /\ UNCHANGED <<trail, trail_lim, qhead, todo, confl, skipped, ok, added, pc>>

simplify ==
  /\ ok /\ pc = "idle" /\ decisionLevel = 0
  /\ Removed({cr \in clauses \cup learnts : \E q \in LitsOf(cr) : IsTrue(q)})
  /\ UNCHANGED <<trail, trail_lim, qhead, todo, confl, skipped, ok, added, pc>>

----------------------------------------------------------------------------
Next ==
  \/ Propagate \/ Learn \/ TheoryConflict \/ Split \/ reduceDB \/ simplify
  \/ \E c \in Formula : AddClause(c)
  \/ \E l \in Lits : Decide(l) \/ Deduce(l)
  \/ \E lev \in 0..Len(trail_lim) : CancelUntil(lev)

Spec == Init /\ [][Next]_vars

----------------------------------------------------------------------------
InUse == clauses \cup learnts
Heads(cr) == {ca[cr].lits[1], ca[cr].lits[2]}

(* Every clause in use is in exactly the two lists of the literals at its  *)
(* head, once in each, with a literal of its own as blocker: attachClause, *)
(* the rewriting of the lists in propagate and relocAll keep this.         *)
TwoWatches ==
  \A cr \in InUse : \A l \in Lits :
    LET mine == {w \in watches[l] : w.cref = cr} IN
    /\ Cardinality(mine) = IF -l \in Heads(cr) THEN 1 ELSE 0
    /\ \A w \in mine : w.blocker \in LitsOf(cr) \ {-l}

(* No reference leads to a freed clause: not those of the database, not a  *)
(* reason of an assigned variable (whose clause has it at its head, as     *)
(* analyze and locked presume), and no watcher outside the smudged lists.  *)
NoDangling ==
  /\ \A cr \in InUse : cr \in DOMAIN ca /\ ca[cr].mark = 0
  /\ \A l \in Lits \ dirties : \A w \in watches[l] : w.cref \in InUse
  /\ \A n \in DOMAIN trail :
       reason[var(trail[n])] > 0 =>
         reason[var(trail[n])] \in InUse /\ ca[reason[var(trail[n])]].lits[1] = trail[n]

AtLevel0 == {trail[n] : n \in 1..(IF trail_lim = <<>> THEN Len(trail) ELSE trail_lim[1])}
False0(c) == {q \in c : -q \in AtLevel0}

(* What was added is still there, up to literals decided at level 0, and   *)
(* nothing else, and no reference leads to a freed clause: propagate swaps *)
(* literals, removeClause detaches lazily and relocAll moves every clause. *)
FormulaKept ==
  /\ NoDangling
  /\ ok =>
       /\ \A c \in added :
            \/ \E q \in c : q \in AtLevel0 \/ -q \in c
            \/ \E cr \in clauses : LitsOf(cr) \cup False0(c) = c
       /\ \A cr \in clauses :
            /\ Cardinality(LitsOf(cr)) = Len(ca[cr].lits)
            /\ \E c \in added : LitsOf(cr) \cup False0(c) = c

(* The postcondition of propagate, on which the search relies: no clause   *)
(* is false or unit when it returns without a conflict, nor after any      *)
(* backjump from there, although a backjump touches no list - but for the  *)
(* clauses with a watch on a literal that an earlier search passed over.   *)
Settled ==
  pc = "idle" /\ ok =>
    \A cr \in InUse :
      \/ \E q \in LitsOf(cr) : IsTrue(q)
      \/ Cardinality({q \in LitsOf(cr) : Free(q)}) > 1
      \/ \E n \in 1..skipped : -trail[n] \in Heads(cr)
=============================================================================
