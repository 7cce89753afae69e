-------------------------- MODULE WatchesInvariant --------------------------
(***************************************************************************)
(* Why Watches has its properties: an invariant that every step keeps,     *)
(* part by part.  It speaks of positions on the trail instead of levels:   *)
(* NoDecisionBetween(tl, n, m) says that no backjump undoes what stands at *)
(* m and leaves what stands at n.                                          *)
(***************************************************************************)
EXTENDS Watches

Clauses == [lits : Seq(Lits), learnt : BOOLEAN, mark : {0, 1}]

(* The arena and the lists. *)
DbInv ==
  /\ ca \in Seq(Clauses)
  /\ clauses \subseteq DOMAIN ca /\ learnts \subseteq DOMAIN ca /\ clauses \cap learnts = {}
  /\ watches \in [Lits -> SUBSET [cref : DOMAIN ca, blocker : Lits]]
  /\ dirties \subseteq Lits
  /\ \A cr \in DOMAIN ca :
       /\ Len(ca[cr].lits) >= 2
       /\ \A m, n \in DOMAIN ca[cr].lits : ca[cr].lits[m] = ca[cr].lits[n] => m = n
       /\ ca[cr].mark = 0 <=> cr \in InUse

(* The trail, and the boundaries between its levels. *)
TrailOK(t, tl) ==
  /\ t \in Seq(Lits) /\ tl \in Seq(Nat)
  /\ \A m, n \in DOMAIN t : var(t[m]) = var(t[n]) => m = n
  /\ \A j, k \in DOMAIN tl : tl[k] <= Len(t) /\ (j <= k => tl[j] <= tl[k])
TrailInv == TrailOK(trail, trail_lim)

(* TwoWatches, clause by clause. *)
Watching(cr, l) == {w \in watches[l] : w.cref = cr}
WatchInv ==
  \A cr \in InUse : \A l \in Lits :
    IF -l \in Heads(cr)
    THEN \E b \in LitsOf(cr) \ {-l} : Watching(cr, l) = {Watcher(cr, b)}
    ELSE Watching(cr, l) = {}

ListsClean == \A l \in Lits \ dirties : \A w \in watches[l] : w.cref \in InUse

(* The clause that is a reason has the literal it implied at its head. *)
First == [cr \in InUse |-> ca[cr].lits[1]]
ReasonsOK(r, t, first) ==
  /\ r \in [Vars -> Int]
  /\ \A n \in DOMAIN t :
       r[var(t[n])] > 0 => r[var(t[n])] \in DOMAIN first /\ first[r[var(t[n])]] = t[n]
ReasonInv == ReasonsOK(reason, trail, First)

(* Where propagate stands. *)
StageInv ==
  /\ qhead \in 0..Len(trail) /\ ok \in BOOLEAN
  /\ pc \in {"idle", "enqueued", "propagate", "conflict"}
  /\ confl # CRef_Undef => pc = "propagate" /\ qhead = Len(trail) /\ todo = {}
  /\ pc # "propagate" => todo = {}
  /\ pc = "propagate" => dirties = {}
  /\ todo # {} => /\ qhead \in DOMAIN trail /\ todo \subseteq watches[trail[qhead]]
                  /\ \A k \in DOMAIN trail_lim : trail_lim[k] < qhead
  /\ pc = "conflict" => trail_lim # <<>>
  /\ pc = "idle" /\ ok => qhead = Len(trail)
  /\ skipped \in 0..qhead
  /\ \A k \in DOMAIN trail_lim : skipped <= trail_lim[k] /\ trail_lim[k] <= qhead

(* The literals whose lists have been visited: after a conflict, what the  *)
(* levels below the last one hold, and never what a search passed over.    *)
Broken == pc = "conflict" \/ confl # CRef_Undef
Visited == IF Broken THEN {n \in DOMAIN trail : skipped < n /\ \E k \in DOMAIN trail_lim : n <= trail_lim[k]}
                     ELSE (skipped + 1)..qhead

NoDecisionBetween(tl, n, m) == \A k \in DOMAIN tl : tl[k] < m => tl[k] < n
ExcusedIn(S, t, tl, n) == \E m \in DOMAIN t : t[m] \in S /\ NoDecisionBetween(tl, n, m)
Excused(cr, n) == ExcusedIn(LitsOf(cr), trail, trail_lim, n)

(* A watched literal that is false is excused by a true one of its level   *)
(* or below, or its watcher is about to be visited.                        *)
PropInv ==
  ok => \A cr \in InUse : \A n \in Visited :
          -trail[n] \in Heads(cr) => \/ n = qhead /\ \E w \in todo : w.cref = cr
                                     \/ Excused(cr, n)

(* FormulaKept, for the state with ok. *)
FormulaInv ==
  ok =>
    /\ \A c \in added :
         \/ \E q \in c : q \in AtLevel0 \/ -q \in c
         \/ \E cr \in clauses : LitsOf(cr) \cup False0(c) = c
    /\ \A cr \in clauses : \E c \in added : LitsOf(cr) \cup False0(c) = c

WInv ==
  /\ DbInv /\ TrailInv /\ WatchInv /\ ListsClean /\ ReasonInv
  /\ StageInv /\ PropInv /\ FormulaInv
=============================================================================
