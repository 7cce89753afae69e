-------------------------- MODULE AssertionStack --------------------------
(***************************************************************************)
(* What MainSolver promises its caller: a stack of assertion sets, and     *)
(* check-sat answers that are right for the conjunction of what is on the  *)
(* stack when the question is asked.  "unknown" is always allowed, as the  *)
(* search may be interrupted.                                              *)
(***************************************************************************)
EXTENDS Sequences, Integers

CONSTANT TModels   \* the T-consistent assignments
VARIABLES stack,    \* one set of clauses per open level, the base level first
          answers   \* the answers given so far

Asserted == UNION {stack[i] : i \in DOMAIN stack}
Satisfiable == \E m \in TModels : \A c \in Asserted : c \cap m # {}

Init == stack = <<{}>> /\ answers = <<>>

Push == stack' = Append(stack, {}) /\ UNCHANGED answers

Pop == /\ Len(stack) > 1
       /\ stack' = SubSeq(stack, 1, Len(stack) - 1)
       /\ UNCHANGED answers

Assert == LET top == Len(stack)
          IN /\ stack' = [stack EXCEPT ![top] = stack'[top]]
             /\ stack[top] \subseteq stack'[top]
             /\ UNCHANGED answers

CheckSat == /\ \E a \in {IF Satisfiable THEN "l_True" ELSE "l_False", "l_Undef"} :
                  answers' = Append(answers, a)
            /\ UNCHANGED stack

Next == Push \/ Pop \/ Assert \/ CheckSat
Spec == Init /\ [][Next]_<<stack, answers>>
=============================================================================
