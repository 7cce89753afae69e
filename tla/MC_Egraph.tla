----------------------------- MODULE MC_Egraph -----------------------------
(* Two sets of terms for module Egraph.                                    *)
EXTENDS Egraph

CONSTANT Instance

a == Node("a", <<>>)
b == Node("b", <<>>)
c == Node("c", <<>>)
d == Node("d", <<>>)
e == Node("e", <<>>)
f(x) == Node("f", <<x>>)
p(x) == Node("p", <<x>>)
Equal(x, y) == Node("=", <<x, y>>)
Distinct(x, y, z) == Node("distinct", <<x, y, z>>)

\* Congruent: the members of the distinction have more parents than what they are merged
\* with. Joining: a and b join the classes of d and e.
MCDeclared ==
  IF Instance = "Joining"
  THEN <<a, b, c, d, e, f(e), Equal(d, b), Equal(d, c), Equal(e, a), Equal(e, d), Distinct(a, b, c)>>
  ELSE <<a, b, c, d, f(b), f(d), Equal(b, c), Equal(d, c), Equal(b, d), Distinct(a, b, d),
         p(f(b)), p(f(d))>>
MCUPs == IF Instance = "Joining" THEN {} ELSE {p(f(b)), p(f(d))}
\* b = c and p(f(b)) are only asserted true.
MCTrueOnly == DistAtoms \cup ({p(f(b)), Equal(b, c)} \cap Atoms)
MCLiterals == [atom : Atoms \ MCTrueOnly, sgn : {l_True, l_False}] \cup [atom : MCTrueOnly, sgn : {l_True}]
=============================================================================
