----------------------------- MODULE MainSolver -----------------------------
(***************************************************************************)
(* Incremental solving: a script of SMT-LIB commands (api/Interpret.C)     *)
(* drives MainSolver (api/MainSolver.C), whose frames reach the SAT solver *)
(* through the Cnfizer (cnfizers/Cnfizer.C).  Each clause of a frame       *)
(* carries the frame's literal; check-sat assumes its negation for the     *)
(* frames on the stack and the literal itself for those that were popped.  *)
(* Before that, every frame is simplified under the facts of the frames    *)
(* below it (module FrameSubstitutions).                                   *)
(***************************************************************************)
EXTENDS FrameSubstitutions, TLC

CONSTANTS
    Scripts,    \* the command sequences to run
    FrameVars   \* FrameVars[id]: the Boolean variable of frame id >= 1

ASSUME FrameVarsAssumption ==
    /\ \A id \in DOMAIN FrameVars : FrameVars[id] \in Vars \ TheoryVars
    /\ \A id1, id2 \in DOMAIN FrameVars : FrameVars[id1] = FrameVars[id2] => id1 = id2

VARIABLES
    script,            \* the commands still to execute
    frames,            \* the stack: [id, formulas, units, seen]
    next_id,           \* the id the next frame gets (PushFrameAllocator)
    simplified_until,  \* frames[1..simplified_until] were given to the solver
    frame_terms,       \* ids that have a frame variable
    subst,             \* computeSubstitutions: [root, facts, allsubsts]
    todo,              \* clauses of the current frame still to be added
    answers,           \* what Interpret::checkSat printed, in order
    mpc

mainVars == <<script, frames, next_id, simplified_until, frame_terms, subst, todo, answers, mpc>>
allVars == <<vars, mainVars>>

-----------------------------------------------------------------------------
(* Commands.                                                               *)

push == [cmd |-> "push"]
pop == [cmd |-> "pop"]
check == [cmd |-> "check-sat"]
insert(F) == [cmd |-> "assert", formula |-> F]

Reads(cmd) ==
    /\ mpc = "ready" /\ script # <<>>
    /\ Head(script).cmd = cmd
    /\ script' = Tail(script)

NewFrame(id) == [id |-> id, formulas |-> NoFormula, units |-> NoFormula, seen |-> {}]
NoSubst == [root |-> NoFormula, facts |-> NoFormula, allsubsts |-> <<>>]

MInit ==
    /\ Init
    /\ script \in Scripts
    /\ frames = <<NewFrame(0)>> /\ next_id = 1
    /\ simplified_until = 0 /\ frame_terms = {} /\ todo = {}
    /\ subst = NoSubst
    /\ answers = <<>> /\ mpc = "ready"

MPush ==
    /\ Reads("push")
    /\ frames' = Append(frames, NewFrame(next_id))
    /\ next_id' = next_id + 1
    /\ UNCHANGED <<vars, simplified_until, frame_terms, subst, todo, answers, mpc>>

Smaller(a, b) == IF a <= b THEN a ELSE b

\* The bottom frame is never popped: the command fails and nothing changes.
MPop ==
    /\ Reads("pop")
    /\ IF Len(frames) > 1
         THEN /\ frames' = SubSeq(frames, 1, Len(frames) - 1)
              /\ simplified_until' = Smaller(simplified_until, Len(frames) - 1)
         ELSE UNCHANGED <<frames, simplified_until>>
    /\ UNCHANGED <<vars, next_id, frame_terms, subst, todo, answers, mpc>>

\* The last frame has to be simplified and given to the solver again.
insertFormula ==
    /\ Reads("assert")
    /\ frames' = [frames EXCEPT ![Len(frames)].formulas = Together({@, Head(script).formula}),
                                ![Len(frames)].units = NoFormula]
    /\ simplified_until' = Smaller(simplified_until, Len(frames) - 1)
    /\ UNCHANGED <<vars, next_id, frame_terms, subst, todo, answers, mpc>>

-----------------------------------------------------------------------------
(* check: simplifyFormulas frame by frame, then solve.                     *)

Check ==
    /\ Reads("check-sat")
    /\ mpc' = "simplify"
    /\ UNCHANGED <<vars, frames, next_id, simplified_until, frame_terms, subst, todo, answers>>

Return(a) == answers' = Append(answers, a) /\ mpc' = "ready"

\* Cnfizer::addClause: the clause with the literal of its frame.
FrameClause(c, id) == IF id = 0 THEN c ELSE c \cup {FrameVars[id]}

Current == simplified_until + 1
Below == {frames[i] : i \in 1..simplified_until}

\* Theory::getCollateFunction: the frames up to the current one.
simplifyFrame ==
    /\ mpc = "simplify" /\ simplified_until < Len(frames)
    /\ subst' = [root |-> mkAnd({frames[i].formulas : i \in 1..Current}),
                 facts |-> Together({f.units : f \in Below}),
                 allsubsts |-> <<>>]
    /\ mpc' = "substitute"
    /\ UNCHANGED <<vars, script, frames, next_id, simplified_until, frame_terms, todo, answers>>

\* Theory::computeSubstitutions: one round of its loop, until a round changes
\* nothing.  The first round substitutes the facts of the lower frames too.
computeSubstitutions ==
    /\ mpc = "substitute"
    /\ \E new \in NewFacts(subst.root, Together({f.units : f \in Below})) :
       LET units == frames[Current].units
           added == [clauses |-> {{l} : l \in {k \in UnitLits(new) : {k, -k} \cap UnitLits(units) = {}}},
                     iffs |-> new.iffs \ units.iffs]
       IN \E s \in retrieveSubstitutions(Together({subst.facts, added})) : \E B \in Broken(s) :
          LET enabled == Enabled(s, B)
          IN /\ frames' = [frames EXCEPT ![Current].units = Together({@, added})]
             /\ subst' = [root |-> varsubstitute(subst.root, substitutionsTransitiveClosure(enabled)),
                          facts |-> NoFormula,
                          allsubsts |-> subst.allsubsts @@ Remembered(s, B)]
             /\ mpc' = IF VarsOf(subst.root) \cap DOMAIN enabled # {} THEN mpc ELSE "simplified"
    /\ UNCHANGED <<vars, script, next_id, simplified_until, frame_terms, todo, answers>>

\* Its end: a substituted variable that a lower frame holds keeps its definition.
SeenBelow(v) == \E f \in Below : v \in f.seen
Kept == UNION {SubstConjunct(v, subst.allsubsts[v]) :
                  v \in {k \in DOMAIN subst.allsubsts : SeenBelow(k)}}

\* UFTheory::simplify: the facts that hold, handed to the solver beside the root.
Substs(units) == CnfOf([clauses |-> {c \in units.clauses : \A l \in c : l > 0},
                        iffs |-> units.iffs])

\* A frame whose root is false is given to the solver as false alone.
frameSimplified ==
    /\ mpc = "simplified"
    /\ LET f == frames[Current]
       IN /\ frame_terms' = frame_terms \cup ({f.id} \ {0})
          /\ IF isFalse(subst.root)
               THEN todo' = {FrameClause({}, f.id)} /\ mpc' = "giveFalse"
               ELSE /\ todo' = {FrameClause(c, f.id) :
                                   c \in CnfOf(subst.root) \cup Kept \cup Substs(f.units)}
                    /\ mpc' = "give"
    /\ frames' = [frames EXCEPT ![Current].seen = @ \cup VarsOf(subst.root)]
    /\ simplified_until' = Current
    /\ subst' = NoSubst
    /\ UNCHANGED <<vars, script, next_id, answers>>

\* Mutant of Giving: a refutation while clauses are added is not handed up.
GivingOk == mpc \in {"give", "giveFalse"} /\ pc = "idle" /\ ok

Giving == mpc \in {"give", "giveFalse"} /\ pc = "idle"

giveClause ==
    /\ Giving /\ ok /\ todo # {}
    /\ LET c == CHOOSE c \in todo : TRUE
       IN AddOriginalClause(c) /\ todo' = todo \ {c}
    /\ UNCHANGED <<script, frames, next_id, simplified_until, frame_terms, subst, answers, mpc>>

frameGiven ==
    /\ Giving /\ (todo = {} \/ ~ ok)
    /\ todo' = {}
    /\ IF ok /\ mpc = "give" THEN mpc' = "simplify" /\ UNCHANGED answers
                             ELSE Return("l_False")
    /\ UNCHANGED <<vars, script, frames, next_id, simplified_until, frame_terms, subst>>

\* Cnfizer::solve: the assumptions, in the order of the frame ids.
OnStack(id) == \E i \in DOMAIN frames : frames[i].id = id

\* Mutant of FrameAssumption: a popped frame stays enabled.
FrameAssumptionEnabled(id) == -FrameVars[id]

FrameAssumption(id) == IF OnStack(id) THEN -FrameVars[id] ELSE FrameVars[id]
FrameAssumptions ==
    LET before(id) == Cardinality({k \in frame_terms : k <= id})
    IN [n \in 1..Cardinality(frame_terms) |->
           FrameAssumption(CHOOSE id \in frame_terms : before(id) = n)]

solve ==
    /\ mpc = "simplify" /\ simplified_until = Len(frames)
    /\ IF ok THEN /\ Solve(FrameAssumptions) /\ UNCHANGED formula
                  /\ mpc' = "solve" /\ UNCHANGED answers
             ELSE UNCHANGED vars /\ Return("l_False")
    /\ UNCHANGED <<script, frames, next_id, simplified_until, frame_terms, subst, todo>>

solved ==
    /\ mpc = "solve" /\ pc = "idle"
    /\ Return(status)
    /\ UNCHANGED <<vars, script, frames, next_id, simplified_until, frame_terms, subst, todo>>

-----------------------------------------------------------------------------

Command == MPush \/ MPop \/ insertFormula \/ Check
Answering == simplifyFrame \/ computeSubstitutions \/ frameSimplified \/ giveClause \/ frameGiven \/ solve \/ solved
MNext == Command \/ Answering \/ (Run /\ UNCHANGED mainVars)
MSpec == MInit /\ [][MNext]_allVars
FairMSpec == MSpec /\ WF_allVars(MNext)

-----------------------------------------------------------------------------
(* Properties.                                                             *)

Stack == [i \in DOMAIN frames |-> CnfOf(frames[i].formulas)]
Assertions == INSTANCE AssertionStack WITH stack <- Stack

\* MainSolver implements the assertion stack: every sat and every unsat it
\* reports is right for the conjunction of the frames on the stack.  The code
\* breaks this in the three ways that the scripts Refuted, Nested and Circular show.
ImplementsStack == Assertions!Spec

\* What is left of it when only the stale marks (Nested) and the circles above
\* variables in use (Circular) are avoided: every unsat is right, and so is every
\* sat, but for one answered after a search left clauses behind at level 0.
SatAfterRefutation ==
    /\ missed # {}
    /\ answers' = Append(answers, "l_True") /\ UNCHANGED Stack
ImplementsUntilRefuted ==
    Assertions!Init /\ [][Assertions!Next \/ SatAfterRefutation]_<<Stack, answers>>

\* Every script runs to its end: no check-sat hangs between the layers.
ScriptDone == <>(script = <<>> /\ mpc = "ready")
=============================================================================
