--------------------------- MODULE Egraph_proofs ---------------------------
(***************************************************************************)
(* The congruence closure: every step of Egraph keeps the invariant of     *)
(* EgraphInvariant, and the explanation forest spans the classes.          *)
(***************************************************************************)
EXTENDS EgraphInvariant, DataLemmas

-----------------------------------------------------------------------------
(* Recursion, and the nodes that terms are made of.                        *)

\* A recursion over 0..n has a solution.
Recursion(f, n, V, b, step) ==
  f \in [0..n -> V] /\ f[0] = b /\ \A i \in 1..n : f[i] = step[<<i, f[i - 1]>>]

\* By recursion over the rank of a number.
LEMMA RecursionSolved ==
    ASSUME NEW n \in Nat, NEW V, NEW b \in V, NEW step \in [(1..n) \X V -> V]
    PROVE  \E f : Recursion(f, n, V, b, step)
  <1> DEFINE D == 0..n
             rank == [i \in D |-> i]
             turn == [p \in D \X [D -> V] |-> IF p[1] = 0 THEN b ELSE step[<<p[1], p[2][p[1] - 1]>>]]
  <1>1. \A i \in D, g \in [D -> V] : turn[<<i, g>>] = IF i = 0 THEN b ELSE step[<<i, g[i - 1]>>]
    OBVIOUS
  <1>2. Recursive(D, V, rank, n + 1, turn)
    <2>1. V # {} /\ rank \in [D -> Nat] /\ n + 1 \in Nat /\ \A x \in D : rank[x] < n + 1
      OBVIOUS
    <2>2. ASSUME NEW x \in D, NEW g \in [D -> V]
          PROVE  turn[<<x, g>>] \in V
      <3>1. CASE x = 0
        BY <1>1, <3>1
      <3>2. CASE x # 0
        <4>1. x \in 1..n /\ x - 1 \in D
          BY <3>2
        <4>2. <<x, g[x - 1]>> \in (1..n) \X V
          BY <4>1
        <4> QED
          BY <1>1, <3>2, <4>2
      <3> QED
        BY <3>1, <3>2
    <2>3. ASSUME NEW x \in D, NEW g \in [D -> V], NEW h \in [D -> V],
                 \A y \in D : rank[y] < rank[x] => g[y] = h[y]
          PROVE  turn[<<x, g>>] = turn[<<x, h>>]
      <3>1. CASE x = 0
        BY <1>1, <3>1
      <3>2. CASE x # 0
        <4>1. x - 1 \in D /\ rank[x - 1] < rank[x]
          BY <3>2
        <4>2. g[x - 1] = h[x - 1]
          BY <2>3, <4>1
        <4> QED
          BY <1>1, <3>2, <4>2
      <3> QED
        BY <3>1, <3>2
    <2> HIDE DEF D, rank, turn
    <2> QED
      BY <2>1, <2>2, <2>3 DEF Recursive
  <1>3. PICK f : Solution(f, D, V, turn)
    <2> HIDE DEF D, rank, turn
    <2> QED
      BY <1>2, RecursionDefined
  <1>4. f \in [D -> V] /\ \A x \in D : f[x] = turn[<<x, f>>]
    BY <1>3 DEF Solution
  <1>5. \A i \in D : f[i] = IF i = 0 THEN b ELSE step[<<i, f[i - 1]>>]
    <2> HIDE DEF turn, D
    <2> QED
      BY <1>1, <1>4
  <1> HIDE DEF turn
  <1>6. f[0] = b /\ \A i \in 1..n : f[i] = step[<<i, f[i - 1]>>]
    <2>1. 0 \in D /\ \A i \in 1..n : i \in D /\ i # 0
      OBVIOUS
    <2> HIDE DEF D
    <2> QED
      BY <1>5, <2>1
  <1> QED
    BY <1>4, <1>6 DEF Recursion

-----------------------------------------------------------------------------
(* Nodes. *)

\* The terms that are made, and their lists.
Made0 == {ERef_True} \cup ToSet(Declared)
Base == Made0 \cup {Not(t) : t \in EqAtoms \cup UPs \cup {ERef_True}}
Suffix(t, i) == List(SubSeq(t.args, i, Len(t.args)))
Lists == UNION {{Suffix(t, i) : i \in DOMAIN t.args} : t \in Base}

\* What the assumptions say of the declared terms.
LEMMA DeclaredFacts ==
    /\ Declared \in Seq(ToSet(Declared))
    /\ \A t \in ToSet(Declared) :
         /\ t = [sym |-> t.sym, args |-> t.args]
         /\ t.sym \notin {"list", "undef", "true", "not"}
         /\ t.args \in Seq(ToSet(Declared))
         /\ t.sym = "=" => Len(t.args) = 2
    /\ UPs \in SUBSET ToSet(Declared) /\ EqAtoms \in SUBSET ToSet(Declared)
    /\ DistAtoms \in SUBSET ToSet(Declared)
    /\ UPs \cap (EqAtoms \cup DistAtoms) = {} /\ EqAtoms \cap DistAtoms = {}
  <1>1. Declared \in Seq(ToSet(Declared)) /\ \A i \in DOMAIN Declared :
           /\ Declared[i] = Node(Declared[i].sym, Declared[i].args)
           /\ Declared[i].sym \notin Reserved
           /\ Declared[i].args \in Seq({Declared[j] : j \in 1..i - 1})
    BY DeclaredAssumption
  <1>2. DOMAIN Declared = 1..Len(Declared) /\ Len(Declared) \in Nat
    BY <1>1, SeqFacts
  <1>3. ASSUME NEW t \in ToSet(Declared)
        PROVE  /\ t = [sym |-> t.sym, args |-> t.args]
               /\ t.sym \notin {"list", "undef", "true", "not"}
               /\ t.args \in Seq(ToSet(Declared))
    <2>1. PICK i \in DOMAIN Declared : t = Declared[i]
      BY DEF ToSet
    <2>2. t.args \in Seq({Declared[j] : j \in 1..i - 1})
      BY <1>1, <2>1
    <2>3. {Declared[j] : j \in 1..i - 1} \subseteq ToSet(Declared)
      BY <1>2, <2>1 DEF ToSet
    <2>4. t.args \in Seq(ToSet(Declared))
      BY <2>2, <2>3
    <2> QED
      BY <1>1, <2>1, <2>4 DEF Node, Reserved
  <1>4. \A t \in ToSet(Declared) : t.sym = "=" => Len(t.args) = 2
    BY DeclaredAssumption DEF EqAtoms
  <1>5. EqAtoms \in SUBSET ToSet(Declared) /\ DistAtoms \in SUBSET ToSet(Declared)
        /\ EqAtoms \cap DistAtoms = {}
    BY DEF EqAtoms, DistAtoms
  <1>6. UPs \in SUBSET ToSet(Declared) /\ UPs \cap (EqAtoms \cup DistAtoms) = {}
    BY UPsAssumption
  <1> QED
    BY <1>1, <1>3, <1>4, <1>5, <1>6

\* Every member of Base is a term over members of Base.
LEMMA BaseFacts ==
    ASSUME NEW t \in Base
    PROVE  /\ t = [sym |-> t.sym, args |-> t.args]
           /\ t.sym # "list" /\ t.sym # "undef"
           /\ t.args \in Seq(Base)
  <1>1. Made0 \in SUBSET Base /\ ToSet(Declared) \in SUBSET Made0
    BY DEF Base, Made0
  <1>2. CASE t = ERef_True
    <2>1. t = [sym |-> "true", args |-> <<>>]
      BY <1>2 DEF ERef_True, Node
    <2> QED
      BY <2>1
  <1>3. CASE t \in ToSet(Declared)
    <2>1. t.args \in Seq(ToSet(Declared))
      BY <1>3, DeclaredFacts
    <2>2. ToSet(Declared) \subseteq Base
      BY <1>1
    <2>3. t.args \in Seq(Base)
      BY <2>1, <2>2
    <2> QED
      BY <1>3, <2>3, DeclaredFacts
  <1>4. CASE t \in {Not(a) : a \in EqAtoms \cup UPs \cup {ERef_True}}
    <2>1. PICK a \in EqAtoms \cup UPs \cup {ERef_True} : t = Not(a)
      BY <1>4
    <2>2. a \in Base
      BY <1>1, DeclaredFacts DEF Made0
    <2>3. t = [sym |-> "not", args |-> <<a>>]
      BY <2>1 DEF Not, Node
    <2>4. <<a>> \in Seq(Base)
      BY <2>2
    <2> QED
      BY <2>3, <2>4
  <1> QED
    BY <1>2, <1>3, <1>4 DEF Base, Made0

\* The nodes of a term and of its negation.
LEMMA WithListsNodes ==
    ASSUME NEW t \in Base
    PROVE  /\ WithLists(t) \in Seq({t} \cup {Suffix(t, i) : i \in DOMAIN t.args})
           /\ ToSet(WithLists(t)) = {t} \cup {Suffix(t, i) : i \in DOMAIN t.args}
  <1> DEFINE A == t.args
             s == [i \in DOMAIN A |-> List(SubSeq(A, i, Len(A)))]
             W == {t} \cup {Suffix(t, i) : i \in DOMAIN t.args}
  <1>1. A \in Seq(Base) /\ Len(A) \in Nat /\ DOMAIN A = 1..Len(A)
    BY BaseFacts, SeqFacts
  <1>2. \A i \in DOMAIN A : s[i] = Suffix(t, i)
    BY DEF Suffix
  <1>3. s \in [1..Len(A) -> W]
    BY <1>1, <1>2
  <1>4. s \in Seq(W) /\ Len(s) = Len(A) /\ DOMAIN s = 1..Len(A)
    BY <1>1, <1>3
  <1>5. <<t>> \in Seq(W) /\ Len(<<t>>) = 1 /\ <<t>>[1] = t
    OBVIOUS
  <1>6. WithLists(t) = <<t>> \o s
    BY DEF WithLists
  <1> HIDE DEF s, W
  <1>7. /\ <<t>> \o s \in Seq(W) /\ Len(<<t>> \o s) = 1 + Len(A)
        /\ (<<t>> \o s)[1] = t
        /\ \A i \in 1..Len(A) : (<<t>> \o s)[1 + i] = s[i]
    BY <1>1, <1>4, <1>5, ConcatProperties
  <1> DEFINE w == <<t>> \o s
  <1>8. DOMAIN w = 1..(1 + Len(A))
    BY <1>1, <1>7, SeqFacts
  <1>9. ToSet(w) = {t} \cup {s[i] : i \in 1..Len(A)}
    <2>1. ASSUME NEW k \in DOMAIN w
          PROVE  w[k] \in {t} \cup {s[i] : i \in 1..Len(A)}
      <3>1. CASE k = 1
        BY <3>1, <1>7
      <3>2. CASE k # 1
        <4>1. k - 1 \in 1..Len(A) /\ 1 + (k - 1) = k
          BY <1>1, <1>8, <3>2
        <4> QED
          BY <1>7, <4>1
      <3> QED
        BY <3>1, <3>2
    <2>2. 1 \in DOMAIN w /\ \A i \in 1..Len(A) : 1 + i \in DOMAIN w
      BY <1>1, <1>8
    <2> HIDE DEF w
    <2>3. \A k \in DOMAIN w : w[k] \in {t} \cup {s[i] : i \in 1..Len(A)}
      BY <2>1
    <2>4. t \in ToSet(w) /\ \A i \in 1..Len(A) : s[i] \in ToSet(w)
      BY <1>7, <2>2 DEF ToSet, w
    <2> QED
      BY <2>3, <2>4 DEF ToSet
  <1>10. {s[i] : i \in 1..Len(A)} = {Suffix(t, i) : i \in DOMAIN t.args}
    BY <1>1, <1>2
  <1> QED
    BY <1>6, <1>7, <1>9, <1>10 DEF W

\* The elements of two sequences in a row.
LEMMA ConcatNodes ==
    ASSUME NEW S, NEW s \in Seq(S), NEW t \in Seq(S)
    PROVE  s \o t \in Seq(S) /\ ToSet(s \o t) = ToSet(s) \cup ToSet(t)
  <1> DEFINE w == s \o t
  <1>1. Len(s) \in Nat /\ DOMAIN s = 1..Len(s) /\ Len(t) \in Nat /\ DOMAIN t = 1..Len(t)
    BY SeqFacts
  <1>2. /\ w \in Seq(S) /\ Len(w) = Len(s) + Len(t)
        /\ \A i \in 1..Len(s) + Len(t) : w[i] = IF i <= Len(s) THEN s[i] ELSE t[i - Len(s)]
    BY ConcatProperties
  <1> HIDE DEF w
  <1>3. DOMAIN w = 1..Len(s) + Len(t)
    BY <1>2, SeqFacts
  <1>4. ASSUME NEW i \in DOMAIN w
        PROVE  w[i] \in ToSet(s) \cup ToSet(t)
    <2>1. CASE i <= Len(s)
      BY <1>1, <1>2, <1>3, <2>1 DEF ToSet
    <2>2. CASE ~ (i <= Len(s))
      <3>1. i - Len(s) \in 1..Len(t) /\ w[i] = t[i - Len(s)]
        BY <1>1, <1>2, <1>3, <2>2
      <3> QED
        BY <1>1, <3>1 DEF ToSet
    <2> QED
      BY <2>1, <2>2
  <1>5. ASSUME NEW i \in DOMAIN s
        PROVE  s[i] \in ToSet(w)
    <2>1. i \in DOMAIN w /\ w[i] = s[i]
      BY <1>1, <1>2, <1>3
    <2> QED
      BY <2>1 DEF ToSet
  <1>6. ASSUME NEW i \in DOMAIN t
        PROVE  t[i] \in ToSet(w)
    <2>1. Len(s) + i \in DOMAIN w /\ w[Len(s) + i] = t[i]
      BY <1>1, <1>2, <1>3
    <2> QED
      BY <2>1 DEF ToSet
  <1>7. ToSet(w) \subseteq ToSet(s) \cup ToSet(t)
    BY <1>4 DEF ToSet
  <1>8. ToSet(s) \subseteq ToSet(w) /\ ToSet(t) \subseteq ToSet(w)
    BY <1>5, <1>6 DEF ToSet
  <1> QED
    BY <1>2, <1>7, <1>8 DEF w

\* The nodes that are made.
LEMMA EnodesFacts ==
    /\ Nodes = Base \cup Lists
    /\ Enodes \in Seq(Nodes)
  <1> DEFINE n == Len(Declared)
             U == Base \cup Lists
             V == Seq(U)
             all(i) == ToSet(constructTerm(ERef_True)) \cup UNION {ToSet(constructTerm(Declared[j])) : j \in 1..i}
             step == [p \in (1..n) \X V |-> p[2] \o constructTerm(Declared[p[1]])]
  <1>1. /\ n \in Nat /\ \A i \in 1..n : Declared[i] \in ToSet(Declared)
        /\ \A t \in ToSet(Declared) : \E i \in 1..n : Declared[i] = t
    BY DeclaredFacts, SeqFacts DEF ToSet
  <1>2. ASSUME NEW t \in Base
        PROVE  WithLists(t) \in V
    <2> DEFINE W == {t} \cup {Suffix(t, i) : i \in DOMAIN t.args}
    <2>1. W \subseteq U
      BY DEF Lists
    <2>2. WithLists(t) \in Seq(W)
      BY WithListsNodes
    <2> HIDE DEF W, U
    <2> QED
      BY <2>1, <2>2
  <1>3. ASSUME NEW t \in Made0
        PROVE  constructTerm(t) \in V
               /\ ToSet(constructTerm(t)) =
                    ToSet(WithLists(t)) \cup
                      (IF t \in EqAtoms \cup UPs \cup {ERef_True} THEN ToSet(WithLists(Not(t))) ELSE {})
    <2>1. t \in Base /\ (t \in EqAtoms \cup UPs \cup {ERef_True} => Not(t) \in Base)
      BY DEF Base
    <2>2. CASE t \in EqAtoms \cup UPs \cup {ERef_True}
      <3>1. WithLists(t) \in V /\ WithLists(Not(t)) \in V
        BY <1>2, <2>1, <2>2
      <3>2. constructTerm(t) = WithLists(t) \o WithLists(Not(t))
        BY <2>2 DEF constructTerm
      <3> QED
        BY <2>2, <3>1, <3>2, ConcatNodes
    <2>3. CASE t \notin EqAtoms \cup UPs \cup {ERef_True}
      <3>1. WithLists(t) \in V
        BY <1>2, <2>1
      <3>2. constructTerm(t) = WithLists(t) \o <<>>
        BY <2>3 DEF constructTerm
      <3>3. WithLists(t) \o <<>> = WithLists(t)
        BY <3>1
      <3> QED
        BY <2>3, <3>1, <3>2, <3>3
    <2> QED
      BY <2>2, <2>3
  <1>4. ERef_True \in Made0 /\ \A i \in 1..n : Declared[i] \in Made0
    BY <1>1 DEF Made0
  <1>5. step \in [(1..n) \X V -> V]
    <2>1. \A p \in (1..n) \X V : p[2] \o constructTerm(Declared[p[1]]) \in V
      <3> SUFFICES ASSUME NEW p \in (1..n) \X V
                   PROVE  p[2] \o constructTerm(Declared[p[1]]) \in V
        OBVIOUS
      <3>1. p[2] \in V /\ constructTerm(Declared[p[1]]) \in V
        BY <1>3, <1>4
      <3> HIDE DEF U
      <3> QED
        BY <3>1, ConcatNodes
    <2> HIDE DEF V
    <2> QED
      BY <2>1
  <1>6. PICK f : Recursion(f, n, V, constructTerm(ERef_True), step)
    <2>1. constructTerm(ERef_True) \in V
      BY <1>3, <1>4
    <2> HIDE DEF step, V, n
    <2> QED
      BY <1>1, <1>5, <2>1, RecursionSolved
  <1>7. /\ f \in [0..n -> V] /\ f[0] = constructTerm(ERef_True)
        /\ \A i \in 1..n : f[i] = f[i - 1] \o constructTerm(Declared[i])
    <2>1. f \in [0..n -> V] /\ f[0] = constructTerm(ERef_True) /\ \A i \in 1..n : f[i] = step[<<i, f[i - 1]>>]
      BY <1>6 DEF Recursion
    <2>2. \A i \in 1..n, g \in V : step[<<i, g>>] = g \o constructTerm(Declared[i])
      BY DEF step
    <2>3. \A i \in 1..n : f[i - 1] \in V
      BY <1>1, <2>1
    <2> HIDE DEF step, V
    <2> QED
      BY <2>1, <2>2, <2>3
  <1> DEFINE G == CHOOSE made : made = [i \in 0..n |->
                    IF i = 0 THEN constructTerm(ERef_True) ELSE made[i - 1] \o constructTerm(Declared[i])]
  <1>8. Enodes = G[n]
    BY DEF Enodes
  <1>9. f = [i \in 0..n |->
                    IF i = 0 THEN constructTerm(ERef_True) ELSE f[i - 1] \o constructTerm(Declared[i])]
    <2>1. f = [i \in 0..n |-> f[i]]
      BY <1>7
    <2>2. \A i \in 0..n : f[i] = IF i = 0 THEN constructTerm(ERef_True) ELSE f[i - 1] \o constructTerm(Declared[i])
      <3> SUFFICES ASSUME NEW i \in 0..n
                   PROVE  f[i] = IF i = 0 THEN constructTerm(ERef_True) ELSE f[i - 1] \o constructTerm(Declared[i])
        OBVIOUS
      <3>0. n \in Nat /\ i \in 0..n
        BY <1>1
      <3>1. i = 0 \/ (i \in 1..n /\ i # 0)
        <4> HIDE DEF n
        <4> QED
          BY ONLY <3>0
      <3>2. CASE i = 0
        BY <1>7, <3>2
      <3>3. CASE i \in 1..n /\ i # 0
        <4>1. f[i] = f[i - 1] \o constructTerm(Declared[i])
          BY <1>7, <3>3
        <4> QED
          BY <3>3, <4>1
      <3> QED
        BY <3>1, <3>2, <3>3
    <2> QED
      BY <2>1, <2>2
  <1>10. G = [i \in 0..n |->
                    IF i = 0 THEN constructTerm(ERef_True) ELSE G[i - 1] \o constructTerm(Declared[i])]
    BY <1>9
  <1> HIDE DEF G, step
  <1>11. G[0] = constructTerm(ERef_True) /\ \A i \in 1..n : G[i] = G[i - 1] \o constructTerm(Declared[i])
    <2>1. \A i \in 0..n : G[i] = IF i = 0 THEN constructTerm(ERef_True) ELSE G[i - 1] \o constructTerm(Declared[i])
      BY <1>10
    <2>2. 0 \in 0..n /\ \A i \in 1..n : i \in 0..n /\ i # 0
      BY <1>1
    <2> QED
      BY <2>1, <2>2
  <1> DEFINE Right(i) == G[i] \in V /\ ToSet(G[i]) = all(i)
             bad == {i \in 0..n : ~ Right(i)}
  <1>12. Right(0)
    BY <1>3, <1>4, <1>11
  <1>13. ASSUME NEW i \in 1..n, Right(i - 1)
         PROVE  Right(i)
    <2>1. G[i] = G[i - 1] \o constructTerm(Declared[i])
      BY <1>11
    <2>2. G[i - 1] \in V /\ constructTerm(Declared[i]) \in V
      BY <1>3, <1>4, <1>13
    <2>3. G[i] \in V /\ ToSet(G[i]) = ToSet(G[i - 1]) \cup ToSet(constructTerm(Declared[i]))
      <3> HIDE DEF U
      <3> QED
        BY <2>1, <2>2, ConcatNodes
    <2>4. 1..i = (1..i - 1) \cup {i}
      OBVIOUS
    <2>5. all(i) = all(i - 1) \cup ToSet(constructTerm(Declared[i]))
      BY <2>4
    <2> QED
      BY <1>13, <2>3, <2>5
  <1>14. Right(n)
    <2> SUFFICES ASSUME n \in bad PROVE FALSE
      BY <1>1
    <2> HIDE DEF Right
    <2>1. bad \in SUBSET Nat
      OBVIOUS
    <2>2. PICK k \in bad : \A l \in bad : k <= l
      <3> HIDE DEF bad
      <3> QED
        BY <2>1, MinExists
    <2>3. k # 0 /\ k \in 1..n
      BY <1>12, <2>2
    <2>4. k - 1 \notin bad /\ k - 1 \in 0..n
      BY <2>2, <2>3
    <2> QED
      BY <1>13, <2>2, <2>3, <2>4
  <1>15. Enodes \in Seq(U) /\ ToSet(Enodes) = all(n)
    BY <1>8, <1>14
  <1>16. all(n) = U
    <2>1. \A t \in Base : ToSet(WithLists(t)) = {t} \cup {Suffix(t, i) : i \in DOMAIN t.args}
      BY WithListsNodes
    <2>2. ASSUME NEW t \in Made0
          PROVE  ToSet(constructTerm(t)) \subseteq all(n)
      BY <1>1 DEF Made0
    <2>3. ASSUME NEW t \in Base
          PROVE  ToSet(WithLists(t)) \subseteq all(n)
      <3>1. CASE t \in Made0
        BY <1>3, <2>2, <3>1
      <3>2. CASE t \in {Not(a) : a \in EqAtoms \cup UPs \cup {ERef_True}}
        <4>1. PICK a \in EqAtoms \cup UPs \cup {ERef_True} : t = Not(a)
          BY <3>2
        <4>2. a \in Made0
          BY DeclaredFacts DEF Made0
        <4> QED
          BY <1>3, <2>2, <4>1, <4>2
      <3> QED
        BY <3>1, <3>2 DEF Base
    <2>4. ASSUME NEW t \in Made0
          PROVE  ToSet(constructTerm(t)) \subseteq U
      <3>1. t \in Base /\ (t \in EqAtoms \cup UPs \cup {ERef_True} => Not(t) \in Base)
        BY DEF Base
      <3>2. \A b \in Base : ToSet(WithLists(b)) \subseteq U
        BY <2>1 DEF Lists
      <3> HIDE DEF U
      <3> QED
        BY <1>3, <3>1, <3>2
    <2>5. all(n) \subseteq U
      BY <1>4, <2>4
    <2>6. U \subseteq all(n)
      BY <2>1, <2>3 DEF Lists
    <2> QED
      BY <2>5, <2>6
  <1> QED
    BY <1>15, <1>16 DEF Nodes

\* The rest of a sequence from a place on.
LEMMA RestOf ==
    ASSUME NEW S, NEW s \in Seq(S), NEW i \in 1..Len(s)
    PROVE  /\ SubSeq(s, i, Len(s)) # <<>>
           /\ Head(SubSeq(s, i, Len(s))) = s[i]
           /\ Tail(SubSeq(s, i, Len(s))) = IF i = Len(s) THEN <<>> ELSE SubSeq(s, i + 1, Len(s))
           /\ SubSeq(s, 1, Len(s)) = s
  <1> DEFINE n == Len(s)
             r == SubSeq(s, i, n)
             q == SubSeq(s, i + 1, n)
  <1>1. n \in Nat /\ DOMAIN s = 1..n /\ \A j \in 1..n : s[j] \in S
    BY SeqFacts
  <1>2. /\ r \in Seq(S) /\ Len(r) = n - i + 1
        /\ \A j \in 1..(n - i + 1) : r[j] = s[i + j - 1]
    BY <1>1, SubSeqProperties
  <1>3. i < n => /\ q \in Seq(S) /\ Len(q) = n - i
                 /\ \A j \in 1..(n - i) : q[j] = s[i + j]
    <2> SUFFICES ASSUME i < n
                 PROVE  /\ q \in Seq(S) /\ Len(q) = n - i
                        /\ \A j \in 1..(n - i) : q[j] = s[i + j]
      OBVIOUS
    <2>1. i + 1 \in 1..n /\ n - (i + 1) + 1 = n - i
      BY <1>1
    <2>2. /\ q \in Seq(S) /\ Len(q) = n - (i + 1) + 1
          /\ \A j \in 1..(n - (i + 1) + 1) : q[j] = s[(i + 1) + j - 1]
      BY <1>1, <2>1, SubSeqProperties
    <2>3. \A j \in 1..(n - i) : (i + 1) + j - 1 = i + j
      BY <1>1
    <2> HIDE DEF q
    <2> QED
      BY <2>1, <2>2, <2>3
  <1>4. SubSeq(s, 1, n) = s
    BY <1>1
  <1> HIDE DEF r, q
  <1>5. r # <<>> /\ Head(r) = s[i]
    <2>1. Len(r) # 0
      BY <1>1, <1>2
    <2>2. r[1] = s[i]
      BY <1>1, <1>2
    <2> QED
      BY <1>2, <2>1, <2>2
  <1>0. i \in 1..n
    OBVIOUS
  <1> DEFINE t == Tail(r)
  <1>6. /\ t \in Seq(S) /\ Len(t) = n - i
        /\ \A j \in 1..(n - i) : t[j] = s[i + j]
    <2>1. /\ t \in Seq(S) /\ Len(t) = Len(r) - 1
          /\ \A j \in 1..Len(t) : t[j] = r[j + 1]
      BY <1>2, <1>5, HeadTailProperties
    <2> HIDE DEF t, n
    <2>2. Len(t) = n - i
      BY <1>1, <1>0, <1>2, <2>1
    <2>3. ASSUME NEW j \in 1..(n - i)
          PROVE  t[j] = s[i + j]
      <3>0. n \in Nat /\ i \in 1..n /\ j \in 1..(n - i)
        BY <1>1, <1>0
      <3>1. j \in 1..Len(t) /\ j + 1 \in 1..(n - i + 1) /\ i + (j + 1) - 1 = i + j
        BY ONLY <3>0, <2>2
      <3>2. t[j] = r[j + 1]
        BY <2>1, <3>1
      <3>3. r[j + 1] = s[i + (j + 1) - 1]
        BY <1>2, <3>1
      <3> QED
        BY <3>1, <3>2, <3>3
    <2> QED
      BY <2>1, <2>2, <2>3
  <1> HIDE DEF t, n
  <1>7. CASE i = n
    <2>1. Len(t) = 0
      BY <1>0, <1>1, <1>6, <1>7
    <2>2. t = <<>>
      BY <1>6, <2>1
    <2> QED
      BY <1>4, <1>5, <1>7, <2>2 DEF r, t, n
  <1>8. CASE i # n
    <2>1. i < n
      BY <1>0, <1>1, <1>8
    <2>2. t = q
      <3>1. /\ q \in Seq(S) /\ Len(q) = Len(t)
            /\ \A j \in 1..Len(q) : q[j] = t[j]
        BY <1>3, <1>6, <2>1
      <3> QED
        BY <1>6, <3>1, SeqEqual
    <2> QED
      BY <1>4, <1>5, <1>8, <2>2 DEF r, q, t, n
  <1> QED
    BY <1>7, <1>8

\* The list of a term from a place on, as a node.
LEMMA SuffixFacts ==
    ASSUME NEW t \in Base, NEW i \in DOMAIN t.args
    PROVE  /\ Suffix(t, i) \in Nodes /\ isList(Suffix(t, i)) /\ Suffix(t, i) # ERef_Nil
           /\ Car(Suffix(t, i)) = t.args[i] /\ t.args[i] \in Base
           /\ Cdr(Suffix(t, i)) = IF i = Len(t.args) THEN ERef_Nil ELSE Suffix(t, i + 1)
  <1> DEFINE A == t.args
             r == SubSeq(A, i, Len(A))
  <1>1. A \in Seq(Base) /\ Len(A) \in Nat /\ DOMAIN A = 1..Len(A) /\ A[i] \in Base
    BY BaseFacts, SeqFacts
  <1>2. /\ r # <<>> /\ Head(r) = A[i]
        /\ Tail(r) = IF i = Len(A) THEN <<>> ELSE SubSeq(A, i + 1, Len(A))
    BY <1>1, RestOf
  <1>3. Suffix(t, i) = [sym |-> "list", args |-> r]
    BY DEF Suffix, List, Node
  <1>4. Suffix(t, i) \in Nodes
    BY EnodesFacts DEF Lists
  <1>5. ERef_Nil = [sym |-> "list", args |-> <<>>]
    BY DEF ERef_Nil, List, Node
  <1>6. isList(Suffix(t, i)) /\ Suffix(t, i).args = r /\ Suffix(t, i) # ERef_Nil
    <2> HIDE DEF r
    <2> QED
      BY <1>2, <1>3, <1>5 DEF isList
  <1>7. Car(Suffix(t, i)) = A[i] /\ Cdr(Suffix(t, i)) = List(Tail(r))
    <2> HIDE DEF r
    <2> QED
      BY <1>2, <1>6 DEF Car, Cdr
  <1>8. List(Tail(r)) = IF i = Len(A) THEN ERef_Nil ELSE Suffix(t, i + 1)
    BY <1>2 DEF ERef_Nil, Suffix
  <1> QED
    BY <1>1, <1>4, <1>6, <1>7, <1>8

\* The terms are the members of Base; the list of a term is a node.
LEMMA TermFacts ==
    /\ Terms = Base /\ Terms \in SUBSET Nodes
    /\ ERef_Nil \notin Nodes /\ ERef_Undef \notin Nodes
    /\ ERef_True \in Terms /\ ERef_False \in Terms /\ ERef_True # ERef_False
    /\ ToSet(Declared) \in SUBSET Terms /\ Atoms \in SUBSET Terms
    /\ \A a \in EqAtoms \cup UPs : Not(a) \in Terms
    /\ \A n \in Nodes : ~ isList(n) <=> n \in Terms
    /\ \A n \in Nodes : n \notin Terms <=> n \in Lists
  <1>1. \A t \in Base : t \in Nodes /\ ~ isList(t)
    BY EnodesFacts, BaseFacts DEF isList
  <1>2. \A n \in Lists : isList(n) /\ n # ERef_Nil /\ n \in Nodes
    BY SuffixFacts DEF Lists
  <1>3. Nodes = Base \cup Lists
    BY EnodesFacts
  <1>4. Terms = Base
    BY <1>1, <1>2, <1>3 DEF Terms
  <1>5. ERef_Nil \notin Nodes
    <2>1. isList(ERef_Nil)
      BY DEF isList, ERef_Nil, List, Node
    <2> QED
      BY <1>1, <1>2, <1>3, <2>1
  <1>6. ERef_Undef \notin Nodes
    <2>1. ERef_Undef.sym = "undef" /\ ~ isList(ERef_Undef)
      BY DEF ERef_Undef, Node, isList
    <2> QED
      BY <1>2, <1>3, <2>1, BaseFacts
  <1>7. ERef_True \in Base /\ ERef_False \in Base /\ ERef_True # ERef_False
    <2>1. ERef_True.sym = "true" /\ ERef_False.sym = "not"
      BY DEF ERef_True, ERef_False, Not, Node
    <2> QED
      BY <2>1 DEF Base, Made0, ERef_False
  <1>8. ToSet(Declared) \in SUBSET Base /\ Atoms \in SUBSET Base
    BY DeclaredFacts DEF Base, Made0, Atoms
  <1>9. \A a \in EqAtoms \cup UPs : Not(a) \in Base
    BY DEF Base
  <1> QED
    BY <1>1, <1>2, <1>3, <1>4, <1>5, <1>6, <1>7, <1>8, <1>9

\* Head and tail of a node.
LEMMA ChildFacts ==
    ASSUME NEW n \in Nodes
    PROVE  /\ isList(n) => Car(n) \in Terms
           /\ ~ isList(n) => Car(n) = ERef_Nil
           /\ Cdr(n) = ERef_Nil \/ (Cdr(n) \in Nodes /\ isList(Cdr(n)))
           /\ \A side \in Sides : Has(side, n) => Child(side, n) \in Nodes
           /\ \A side \in Sides : ~ Has(side, n) => Child(side, n) = ERef_Nil
  <1>1. CASE n \in Lists
    <2>1. PICK t \in Base : n \in {Suffix(t, i) : i \in DOMAIN t.args}
      BY <1>1 DEF Lists
    <2>2. PICK i \in DOMAIN t.args : n = Suffix(t, i)
      BY <2>1
    <2>3. DOMAIN t.args = 1..Len(t.args) /\ Len(t.args) \in Nat
      BY BaseFacts, SeqFacts
    <2>4. Car(n) \in Terms /\ isList(n)
      BY <2>2, SuffixFacts, TermFacts
    <2>5. Cdr(n) = ERef_Nil \/ (Cdr(n) \in Nodes /\ isList(Cdr(n)))
      <3>1. CASE i = Len(t.args)
        BY <2>2, <3>1, SuffixFacts
      <3>2. CASE i # Len(t.args)
        <4>1. i + 1 \in DOMAIN t.args
          BY <2>3, <3>2
        <4>2. Suffix(t, i + 1) \in Nodes /\ isList(Suffix(t, i + 1))
          BY <4>1, SuffixFacts
        <4> QED
          BY <2>2, <3>2, <4>2, SuffixFacts
      <3> QED
        BY <3>1, <3>2
    <2> QED
      BY <2>4, <2>5, TermFacts DEF Sides, Child, Has
  <1>2. CASE n \in Terms
    <2>1. n \in Base /\ ~ isList(n) /\ n.args \in Seq(Base) /\ Len(n.args) \in Nat
          /\ DOMAIN n.args = 1..Len(n.args)
      BY <1>2, TermFacts, BaseFacts, SeqFacts
    <2>2. Car(n) = ERef_Nil /\ Cdr(n) = List(n.args)
      BY <2>1 DEF Car, Cdr
    <2>3. CASE n.args = <<>>
      BY <2>1, <2>2, <2>3, TermFacts DEF ERef_Nil, Sides, Child, Has
    <2>4. CASE n.args # <<>>
      <3>1. 1 \in DOMAIN n.args
        BY <2>1, <2>4
      <3>2. SubSeq(n.args, 1, Len(n.args)) = n.args
        BY <2>1, <3>1, RestOf
      <3>3. Cdr(n) = Suffix(n, 1)
        BY <2>2, <3>2 DEF Suffix
      <3>4. Cdr(n) \in Nodes /\ isList(Cdr(n)) /\ Cdr(n) # ERef_Nil
        BY <2>1, <3>1, <3>3, SuffixFacts
      <3> QED
        BY <2>1, <2>2, <3>4, TermFacts DEF Sides, Child, Has
    <2> QED
      BY <2>3, <2>4
  <1> QED
    BY <1>1, <1>2, TermFacts

\* The list of a term's arguments.
LEMMA ArgumentList ==
    ASSUME NEW t \in Terms
    PROVE  /\ t.args \in Seq(Terms) /\ Len(t.args) \in Nat /\ DOMAIN t.args = 1..Len(t.args)
           /\ Cdr(t) = IF t.args = <<>> THEN ERef_Nil ELSE Suffix(t, 1)
  <1>1. t \in Base /\ ~ isList(t) /\ t.args \in Seq(Base) /\ Len(t.args) \in Nat
        /\ DOMAIN t.args = 1..Len(t.args)
    BY TermFacts, BaseFacts, SeqFacts
  <1>2. Cdr(t) = List(t.args)
    BY <1>1 DEF Cdr
  <1>3. t.args # <<>> => SubSeq(t.args, 1, Len(t.args)) = t.args
    <2> SUFFICES ASSUME t.args # <<>>
                 PROVE  SubSeq(t.args, 1, Len(t.args)) = t.args
      OBVIOUS
    <2>1. 1 \in 1..Len(t.args)
      BY <1>1
    <2> QED
      BY <1>1, <2>1, RestOf
  <1> QED
    BY <1>1, <1>2, <1>3, TermFacts DEF Suffix, ERef_Nil

-----------------------------------------------------------------------------
(* Forests: the ways up, and what an edge cut or hung does to them.        *)

\* A forest on the terms.
IsForest(f) ==
  /\ f.parent \in [Terms -> Terms \cup {ERef_Undef}]
  /\ Acyclic(f)

\* Every set of terms has one whose parent is not in it.
LEMMA TopOf ==
    ASSUME NEW f, Acyclic(f), NEW S \in SUBSET Terms, S # {}
    PROVE  \E t \in S : f.parent[t] \notin S
  <1>1. PICK m \in Nat : \E grade \in [Terms -> 0..m] : Graded(f, m, grade)
    BY DEF Acyclic
  <1>2. PICK grade \in [Terms -> 0..m] : Graded(f, m, grade)
    BY <1>1
  <1>3. \A t \in Terms : grade[t] \in Nat
    BY <1>2
  <1> DEFINE G == {grade[t] : t \in S}
  <1>4. G \in SUBSET Nat /\ G # {}
    BY <1>3
  <1>5. PICK k \in G : \A n \in G : k <= n
    <2> HIDE DEF G
    <2> QED
      BY <1>4, MinExists
  <1>6. PICK t \in S : grade[t] = k
    BY <1>5
  <1>7. ASSUME f.parent[t] \in S
        PROVE  FALSE
    <2>1. f.parent[t] # ERef_Undef
      BY <1>7, TermFacts
    <2>2. grade[f.parent[t]] < grade[t]
      BY <1>2, <2>1 DEF Graded
    <2>3. grade[t] <= grade[f.parent[t]]
      BY <1>5, <1>6, <1>7
    <2> QED
      BY <1>3, <1>7, <2>2, <2>3
  <1> QED
    BY <1>7

\* The nodes above a term are itself and those above its parent.
LEMMA UpEquation ==
    ASSUME NEW f, IsForest(f), NEW t \in Terms
    PROVE  /\ Up(f, t) = {t} \cup (IF f.parent[t] = ERef_Undef THEN {} ELSE Up(f, f.parent[t]))
           /\ Up(f, t) \in SUBSET Terms
  <1> DEFINE V == SUBSET Terms
             step == [p \in Terms \X [Terms -> V] |->
                        {p[1]} \cup (IF f.parent[p[1]] = ERef_Undef THEN {} ELSE p[2][f.parent[p[1]]])]
  <1>0. /\ f.parent \in [Terms -> Terms \cup {ERef_Undef}]
        /\ ERef_Undef \notin Terms
    BY TermFacts DEF IsForest
  <1>1. PICK m \in Nat : \E grade \in [Terms -> 0..m] : Graded(f, m, grade)
    BY DEF IsForest, Acyclic
  <1>2. PICK grade \in [Terms -> 0..m] : Graded(f, m, grade)
    BY <1>1
  <1>3. \A u \in Terms, g \in [Terms -> V] :
          step[<<u, g>>] = {u} \cup (IF f.parent[u] = ERef_Undef THEN {} ELSE g[f.parent[u]])
    OBVIOUS
  <1>4. Recursive(Terms, V, grade, m + 1, step)
    <2>1. V # {} /\ grade \in [Terms -> Nat] /\ m + 1 \in Nat /\ \A x \in Terms : grade[x] < m + 1
      OBVIOUS
    <2>2. ASSUME NEW x \in Terms, NEW g \in [Terms -> V]
          PROVE  step[<<x, g>>] \in V
      <3>1. CASE f.parent[x] = ERef_Undef
        BY <1>3, <3>1
      <3>2. CASE f.parent[x] # ERef_Undef
        <4>1. f.parent[x] \in Terms
          BY <1>0, <3>2
        <4>2. g[f.parent[x]] \in V
          BY <4>1
        <4> QED
          BY <1>3, <3>2, <4>2
      <3> QED
        BY <3>1, <3>2
    <2>3. ASSUME NEW x \in Terms, NEW g \in [Terms -> V], NEW h \in [Terms -> V],
                 \A y \in Terms : grade[y] < grade[x] => g[y] = h[y]
          PROVE  step[<<x, g>>] = step[<<x, h>>]
      <3>1. CASE f.parent[x] = ERef_Undef
        BY <1>3, <3>1
      <3>2. CASE f.parent[x] # ERef_Undef
        <4>1. f.parent[x] \in Terms /\ grade[f.parent[x]] < grade[x]
          BY <1>0, <1>2, <3>2 DEF Graded
        <4>2. g[f.parent[x]] = h[f.parent[x]]
          BY <2>3, <4>1
        <4> QED
          BY <1>3, <3>2, <4>2
      <3> QED
        BY <3>1, <3>2
    <2> HIDE DEF V, step
    <2> QED
      BY <2>1, <2>2, <2>3 DEF Recursive
  <1>5. PICK g : Solution(g, Terms, V, step)
    <2> HIDE DEF V, step
    <2> QED
      BY <1>4, RecursionDefined
  <1>6. g \in [Terms -> V] /\ \A x \in Terms : g[x] = step[<<x, g>>]
    BY <1>5 DEF Solution
  <1>7. \A u \in Terms : g[u] = {u} \cup (IF f.parent[u] = ERef_Undef THEN {} ELSE g[f.parent[u]])
    BY <1>3, <1>6
  <1>8. g = [u \in Terms |-> {u} \cup (IF f.parent[u] = ERef_Undef THEN {} ELSE g[f.parent[u]])]
    BY <1>6, <1>7
  <1> DEFINE h == CHOOSE up : up = [u \in Terms |->
                     {u} \cup (IF f.parent[u] = ERef_Undef THEN {} ELSE up[f.parent[u]])]
  <1>9. h = [u \in Terms |-> {u} \cup (IF f.parent[u] = ERef_Undef THEN {} ELSE h[f.parent[u]])]
    BY <1>8
  <1>10. \A u \in Terms : Up(f, u) = h[u]
    BY DEF Up
  <1> HIDE DEF h, step
  <1>11. \A u \in Terms : h[u] = {u} \cup (IF f.parent[u] = ERef_Undef THEN {} ELSE h[f.parent[u]])
    BY <1>9
  <1>12. \A u \in Terms : h[u] \in SUBSET Terms
    <2> DEFINE Bad == {u \in Terms : h[u] \notin SUBSET Terms}
    <2> SUFFICES ASSUME Bad # {} PROVE FALSE
      OBVIOUS
    <2>1. PICK u \in Bad : f.parent[u] \notin Bad
      <3>1. Bad \in SUBSET Terms
        OBVIOUS
      <3> HIDE DEF Bad
      <3> QED
        BY <3>1, TopOf DEF IsForest
    <2>2. f.parent[u] = ERef_Undef \/ h[f.parent[u]] \in SUBSET Terms
      BY <1>0, <2>1
    <2> QED
      BY <1>11, <2>1, <2>2
  <1>13. f.parent[t] # ERef_Undef => f.parent[t] \in Terms
    BY <1>0
  <1> QED
    BY <1>10, <1>11, <1>12, <1>13

\* What lies above a node lies above those below it, and goes up along the parents.
LEMMA UpFacts ==
    ASSUME NEW f, IsForest(f), NEW t \in Terms
    PROVE  /\ t \in Up(f, t)
           /\ f.parent[t] # ERef_Undef => f.parent[t] \in Terms /\ f.parent[t] \in Up(f, t)
           /\ \A s \in Up(f, t) : Up(f, s) \subseteq Up(f, t)
  <1>0. /\ f.parent \in [Terms -> Terms \cup {ERef_Undef}] /\ ERef_Undef \notin Terms
        /\ Acyclic(f)
    BY TermFacts DEF IsForest
  <1>1. \A u \in Terms : /\ Up(f, u) = {u} \cup (IF f.parent[u] = ERef_Undef THEN {} ELSE Up(f, f.parent[u]))
                         /\ Up(f, u) \in SUBSET Terms
    BY UpEquation
  <1>2. \A u \in Terms : u \in Up(f, u)
    BY <1>1
  <1>3. \A u \in Terms : f.parent[u] # ERef_Undef =>
          f.parent[u] \in Terms /\ f.parent[u] \in Up(f, u) /\ Up(f, f.parent[u]) \subseteq Up(f, u)
    BY <1>0, <1>1, <1>2
  <1>4. \A u \in Terms : \A s \in Up(f, u) : Up(f, s) \subseteq Up(f, u)
    <2> DEFINE Bad == {u \in Terms : ~ (\A s \in Up(f, u) : Up(f, s) \subseteq Up(f, u))}
    <2> SUFFICES ASSUME Bad # {} PROVE FALSE
      OBVIOUS
    <2>1. PICK u \in Bad : f.parent[u] \notin Bad
      <3>1. Bad \in SUBSET Terms
        OBVIOUS
      <3> HIDE DEF Bad
      <3> QED
        BY <1>0, <3>1, TopOf
    <2>2. PICK s \in Up(f, u) : ~ (Up(f, s) \subseteq Up(f, u))
      BY <2>1
    <2>3. s # u
      BY <2>2
    <2>4. f.parent[u] # ERef_Undef /\ s \in Up(f, f.parent[u]) /\ u \in Terms
      BY <1>1, <2>1, <2>2, <2>3
    <2>5. f.parent[u] \in Terms /\ Up(f, f.parent[u]) \subseteq Up(f, u)
      BY <1>3, <2>4
    <2>6. Up(f, s) \subseteq Up(f, f.parent[u])
      BY <2>1, <2>4, <2>5
    <2> QED
      BY <2>2, <2>5, <2>6
  <1> QED
    BY <1>2, <1>3, <1>4

\* The edges of the nodes of S lie in the classes of r.
Within(f, r, S) == \A t \in S : f.parent[t] # ERef_Undef => r[t] = r[f.parent[t]]

\* Classes in which all edges lie hold the ways up as well.
LEMMA UpWithin ==
    ASSUME NEW f, IsForest(f), NEW r, Within(f, r, Terms)
    PROVE  \A t \in Terms : \A s \in Up(f, t) : r[s] = r[t]
  <1> DEFINE Bad == {u \in Terms : ~ (\A s \in Up(f, u) : r[s] = r[u])}
  <1> SUFFICES ASSUME Bad # {} PROVE FALSE
    OBVIOUS
  <1>1. PICK u \in Bad : f.parent[u] \notin Bad
    <2>1. Bad \in SUBSET Terms
      OBVIOUS
    <2> HIDE DEF Bad
    <2> QED
      BY <2>1, TopOf DEF IsForest
  <1>2. PICK s \in Up(f, u) : r[s] # r[u]
    BY <1>1
  <1>3. f.parent[u] # ERef_Undef /\ s \in Up(f, f.parent[u])
    BY <1>1, <1>2, UpEquation
  <1>4. f.parent[u] \in Terms
    BY <1>1, <1>3, UpFacts
  <1>5. r[s] = r[f.parent[u]]
    BY <1>1, <1>3, <1>4
  <1> QED
    BY <1>1, <1>2, <1>3, <1>5 DEF Within

\* The way up is a chain: the higher of two nodes on it is above the other.
LEMMA UpChain ==
    ASSUME NEW f, IsForest(f), NEW t \in Terms, NEW u \in Up(f, t), NEW v \in Up(f, t)
    PROVE  u \in Up(f, v) \/ v \in Up(f, u)
  <1> DEFINE Bad == {w \in Terms : \E a, b \in Up(f, w) : ~ (a \in Up(f, b) \/ b \in Up(f, a))}
  <1> SUFFICES ASSUME Bad # {} PROVE FALSE
    OBVIOUS
  <1>1. PICK w \in Bad : f.parent[w] \notin Bad
    <2>1. Bad \in SUBSET Terms
      OBVIOUS
    <2> HIDE DEF Bad
    <2> QED
      BY <2>1, TopOf DEF IsForest
  <1>2. PICK a \in Up(f, w), b \in Up(f, w) : ~ (a \in Up(f, b) \/ b \in Up(f, a))
    BY <1>1
  <1>3. a # w /\ b # w
    BY <1>2
  <1>4. f.parent[w] # ERef_Undef /\ a \in Up(f, f.parent[w]) /\ b \in Up(f, f.parent[w])
    BY <1>1, <1>2, <1>3, UpEquation
  <1>5. f.parent[w] \in Terms
    BY <1>1, <1>4, UpFacts
  <1> QED
    BY <1>1, <1>2, <1>4, <1>5

\* No node is above its parent.
LEMMA UpStrict ==
    ASSUME NEW f, IsForest(f), NEW t \in Terms, f.parent[t] # ERef_Undef
    PROVE  t \notin Up(f, f.parent[t])
  <1> SUFFICES ASSUME t \in Up(f, f.parent[t]) PROVE FALSE
    OBVIOUS
  <1>0. f.parent[t] \in Terms
    BY UpFacts
  <1>1. PICK m \in Nat : \E grade \in [Terms -> 0..m] : Graded(f, m, grade)
    BY DEF IsForest, Acyclic
  <1>2. PICK grade \in [Terms -> 0..m] : Graded(f, m, grade)
    BY <1>1
  <1>3. \A x \in Terms : grade[x] \in Nat
    BY <1>2
  <1>4. \A x \in Terms : f.parent[x] # ERef_Undef => f.parent[x] \in Terms /\ grade[f.parent[x]] < grade[x]
    BY <1>2, UpFacts DEF Graded
  <1> DEFINE Bad == {w \in Terms : \E s \in Up(f, w) : ~ (grade[s] <= grade[w])}
  <1>5. Bad = {}
    <2> SUFFICES ASSUME Bad # {} PROVE FALSE
      OBVIOUS
    <2>1. PICK w \in Bad : f.parent[w] \notin Bad
      <3>1. Bad \in SUBSET Terms
        OBVIOUS
      <3> HIDE DEF Bad
      <3> QED
        BY <3>1, TopOf DEF IsForest
    <2>2. PICK s \in Up(f, w) : ~ (grade[s] <= grade[w])
      BY <2>1
    <2>3. s # w /\ s \in Terms
      BY <1>3, <2>1, <2>2, UpEquation
    <2>4. f.parent[w] # ERef_Undef /\ s \in Up(f, f.parent[w])
      BY <2>1, <2>2, <2>3, UpEquation
    <2>5. grade[s] <= grade[f.parent[w]] /\ grade[f.parent[w]] < grade[w] /\ f.parent[w] \in Terms
      BY <1>4, <2>1, <2>4
    <2>6. grade[s] \in Nat /\ grade[f.parent[w]] \in Nat /\ grade[w] \in Nat
      BY <1>3, <2>1, <2>3, <2>5
    <2> QED
      BY <2>2, <2>5, <2>6
  <1>6. grade[t] <= grade[f.parent[t]]
    BY <1>0, <1>5
  <1> QED
    BY <1>0, <1>3, <1>4, <1>6

\* A forest without the edge of v spans the classes that were joined there.
LEMMA CutSpans ==
    ASSUME NEW f, IsForest(f), NEW g, NEW v \in Terms, NEW r, NEW q,
           f.parent[v] # ERef_Undef,
           g.parent = [f.parent EXCEPT ![v] = ERef_Undef],
           Spans(f, r), Within(f, q, Terms \ {v}), q[v] # q[f.parent[v]],
           \A s, t \in Terms : q[s] = q[t] => r[s] = r[t]
    PROVE  IsForest(g) /\ Spans(g, q)
  <1> DEFINE w == f.parent[v]
  <1>0. /\ f.parent \in [Terms -> Terms \cup {ERef_Undef}] /\ ERef_Undef \notin Terms
        /\ Acyclic(f) /\ w \in Terms
    BY TermFacts DEF IsForest
  <1>1. /\ g.parent \in [Terms -> Terms \cup {ERef_Undef}] /\ g.parent[v] = ERef_Undef
        /\ \A t \in Terms : t # v => g.parent[t] = f.parent[t]
    BY <1>0
  <1>2. IsForest(g)
    <2>1. PICK m \in Nat : \E grade \in [Terms -> 0..m] : Graded(f, m, grade)
      BY <1>0 DEF Acyclic
    <2>2. PICK grade \in [Terms -> 0..m] : Graded(f, m, grade)
      BY <2>1
    <2>3. Graded(g, m, grade)
      BY <1>1, <2>2 DEF Graded
    <2> QED
      BY <1>1, <2>3 DEF IsForest, Acyclic
  <1>3. \A t \in Terms : /\ v \notin Up(f, t) => Up(g, t) = Up(f, t)
                         /\ v \in Up(f, t) => v \in Up(g, t)
    <2> DEFINE Bad == {t \in Terms : ~ (/\ v \notin Up(f, t) => Up(g, t) = Up(f, t)
                                        /\ v \in Up(f, t) => v \in Up(g, t))}
    <2> SUFFICES ASSUME Bad # {} PROVE FALSE
      OBVIOUS
    <2>1. PICK t \in Bad : f.parent[t] \notin Bad
      <3>1. Bad \in SUBSET Terms
        OBVIOUS
      <3> HIDE DEF Bad
      <3> QED
        BY <1>0, <3>1, TopOf
    <2>2. t \in Terms
      BY <2>1
    <2>3. t # v
      <3> SUFFICES ASSUME t = v PROVE FALSE
        OBVIOUS
      <3>1. v \in Up(f, t) /\ v \in Up(g, t)
        BY <1>2, UpFacts
      <3> QED
        BY <2>1, <3>1
    <2>4. /\ g.parent[t] = f.parent[t]
          /\ Up(f, t) = {t} \cup (IF f.parent[t] = ERef_Undef THEN {} ELSE Up(f, f.parent[t]))
          /\ Up(g, t) = {t} \cup (IF g.parent[t] = ERef_Undef THEN {} ELSE Up(g, g.parent[t]))
      BY <1>1, <1>2, <2>2, <2>3, UpEquation
    <2>5. CASE f.parent[t] = ERef_Undef
      <3>1. Up(f, t) = {t} /\ Up(g, t) = {t}
        BY <2>4, <2>5
      <3>2. v \notin Up(f, t) /\ Up(g, t) = Up(f, t)
        BY <2>3, <3>1
      <3> QED
        BY <2>1, <3>2
    <2>6. CASE f.parent[t] # ERef_Undef
      <3>1. f.parent[t] \in Terms
        BY <1>0, <2>2, <2>6
      <3>2. /\ v \notin Up(f, f.parent[t]) => Up(g, f.parent[t]) = Up(f, f.parent[t])
            /\ v \in Up(f, f.parent[t]) => v \in Up(g, f.parent[t])
        BY <2>1, <3>1
      <3>3. Up(f, t) = {t} \cup Up(f, f.parent[t]) /\ Up(g, t) = {t} \cup Up(g, f.parent[t])
        BY <2>4, <2>6
      <3>4. /\ v \notin Up(f, t) => Up(g, t) = Up(f, t)
            /\ v \in Up(f, t) => v \in Up(g, t)
        BY <2>3, <3>2, <3>3
      <3> QED
        BY <2>1, <3>4
    <2> QED
      BY <2>5, <2>6
  <1>4. \A t \in Terms : \A s \in Up(g, t) : q[s] = q[t]
    <2>1. Within(g, q, Terms)
      BY <1>1 DEF Within
    <2> QED
      BY <1>2, <2>1, UpWithin
  <1>5. ASSUME NEW s \in Terms, NEW t \in Terms, q[s] = q[t], v \in Up(f, s), v \notin Up(f, t)
        PROVE  FALSE
    <2>1. PICK c \in Up(f, s) : c \in Up(f, t)
      BY <1>5 DEF Spans
    <2>2. c \in Terms
      BY <2>1, UpEquation
    <2>3. q[c] = q[t]
      BY <1>3, <1>4, <1>5, <2>1
    <2>4. q[v] = q[s]
      BY <1>3, <1>4, <1>5
    <2>5. c \in Up(f, v)
      <3>1. c \in Up(f, v) \/ v \in Up(f, c)
        BY <1>5, <2>1, UpChain
      <3>2. v \notin Up(f, c)
        BY <1>5, <2>1, UpFacts
      <3> QED
        BY <3>1, <3>2
    <2>6. c # v
      BY <1>5, <2>1
    <2>7. c \in Up(f, w)
      BY <2>5, <2>6, UpEquation
    <2>8. v \notin Up(f, w)
      BY UpStrict
    <2>9. Up(g, w) = Up(f, w)
      BY <1>0, <1>3, <2>8
    <2>10. q[c] = q[w]
      BY <1>0, <1>4, <2>7, <2>9
    <2> QED
      BY <1>5, <2>3, <2>4, <2>10
  <1>6. ASSUME NEW s \in Terms, NEW t \in Terms, q[s] = q[t]
        PROVE  Up(g, s) \cap Up(g, t) # {}
    <2>1. CASE v \in Up(f, s) /\ v \in Up(f, t)
      BY <1>3, <2>1
    <2>2. CASE v \notin Up(f, s) /\ v \notin Up(f, t)
      <3>1. Up(f, s) \cap Up(f, t) # {}
        BY <1>6 DEF Spans
      <3> QED
        BY <1>3, <2>2, <3>1
    <2> QED
      BY <1>5, <1>6, <2>1, <2>2
  <1>7. ASSUME NEW s \in Terms, NEW t \in Terms, Up(g, s) \cap Up(g, t) # {}
        PROVE  q[s] = q[t]
    BY <1>4, <1>7
  <1> QED
    BY <1>2, <1>6, <1>7 DEF Spans

\* The edges of a forest that spans classes lie in them.
LEMMA SpansWithin ==
    ASSUME NEW f, IsForest(f), NEW r, Spans(f, r)
    PROVE  \A t \in Terms : \A s \in Up(f, t) : r[s] = r[t]
  <1> SUFFICES ASSUME NEW t \in Terms, NEW s \in Up(f, t)
               PROVE  r[s] = r[t]
    OBVIOUS
  <1>1. s \in Terms
    BY UpEquation
  <1>2. s \in Up(f, s)
    BY <1>1, UpFacts
  <1> QED
    BY <1>1, <1>2 DEF Spans

\* On the way up from y every node but y comes from one below it.
LEMMA BelowFacts ==
    ASSUME NEW f, IsForest(f), NEW y \in Terms
    PROVE  /\ \A w \in Up(f, y) \ {y} : Below(f, y, w) \in Up(f, y) /\ f.parent[Below(f, y, w)] = w
           /\ \A v \in Up(f, y) : f.parent[v] # ERef_Undef =>
                /\ f.parent[v] \in Up(f, y) \ {y}
                /\ Below(f, y, f.parent[v]) = v
  <1>0. Up(f, y) \in SUBSET Terms
    BY UpEquation
  <1>1. \A t \in Terms : \A w \in Up(f, t) \ {t} : \E v \in Up(f, t) : f.parent[v] = w
    <2> DEFINE Bad == {t \in Terms : ~ (\A w \in Up(f, t) \ {t} : \E v \in Up(f, t) : f.parent[v] = w)}
    <2> SUFFICES ASSUME Bad # {} PROVE FALSE
      OBVIOUS
    <2>1. PICK t \in Bad : f.parent[t] \notin Bad
      <3>1. Bad \in SUBSET Terms
        OBVIOUS
      <3> HIDE DEF Bad
      <3> QED
        BY <3>1, TopOf DEF IsForest
    <2>2. PICK w \in Up(f, t) \ {t} : ~ (\E v \in Up(f, t) : f.parent[v] = w)
      BY <2>1
    <2>3. f.parent[t] # ERef_Undef /\ w \in Up(f, f.parent[t])
      BY <2>1, <2>2, UpEquation
    <2>4. f.parent[t] \in Terms /\ t \in Up(f, t) /\ Up(f, f.parent[t]) \subseteq Up(f, t)
      BY <2>1, <2>3, UpFacts
    <2>5. w # f.parent[t]
      BY <2>2, <2>4
    <2>6. \E v \in Up(f, f.parent[t]) : f.parent[v] = w
      BY <2>1, <2>3, <2>4, <2>5
    <2> QED
      BY <2>2, <2>4, <2>6
  <1>2. \A w \in Up(f, y) \ {y} : Below(f, y, w) \in Up(f, y) /\ f.parent[Below(f, y, w)] = w
    BY <1>1 DEF Below
  <1>3. ASSUME NEW u \in Up(f, y), NEW v \in Up(f, y), f.parent[u] = f.parent[v],
               f.parent[v] # ERef_Undef, u # v, u \in Up(f, v)
        PROVE  FALSE
    <2>1. u \in Terms /\ v \in Terms
      BY <1>0
    <2>2. u \in Up(f, f.parent[v])
      BY <1>3, <2>1, UpEquation
    <2>3. u \notin Up(f, f.parent[u])
      BY <1>3, <2>1, UpStrict
    <2> QED
      BY <1>3, <2>2, <2>3
  <1>4. ASSUME NEW v \in Up(f, y), f.parent[v] # ERef_Undef
        PROVE  /\ f.parent[v] \in Up(f, y) \ {y}
               /\ Below(f, y, f.parent[v]) = v
    <2>1. v \in Terms
      BY <1>0
    <2>2. f.parent[v] \in Terms /\ f.parent[v] \in Up(f, v) /\ f.parent[v] \in Up(f, y)
      BY <1>4, <2>1, UpFacts
    <2>3. f.parent[v] # y
      <3> SUFFICES ASSUME f.parent[v] = y PROVE FALSE
        OBVIOUS
      <3>1. v \notin Up(f, y)
        BY <1>4, <2>1, UpStrict
      <3> QED
        BY <3>1
    <2> DEFINE u == Below(f, y, f.parent[v])
    <2>4. u \in Up(f, y) /\ f.parent[u] = f.parent[v]
      BY <1>2, <2>2, <2>3
    <2> HIDE DEF u
    <2>5. u \in Up(f, v) \/ v \in Up(f, u)
      BY <2>4, UpChain
    <2>6. u = v
      BY <1>3, <1>4, <2>4, <2>5
    <2> QED
      BY <2>2, <2>3, <2>6 DEF u
  <1> QED
    BY <1>2, <1>4

\* g is f with the way up from y reversed and y below x for the reason l.
Hung(g, f, x, y, l) ==
  /\ g.parent = [w \in Terms |-> IF w = y THEN x ELSE
                                 IF w \in Up(f, y) THEN Below(f, y, w) ELSE f.parent[w]]
  /\ g.reason = [w \in Terms |-> IF w = y THEN l ELSE
                                 IF w \in Up(f, y) THEN f.reason[Below(f, y, w)] ELSE f.reason[w]]

\* The classes q are those of r with the classes of x and y joined.
JoinsAt(q, r, x, y) ==
  \A s, t \in Terms : q[s] = q[t] <=> \/ r[s] = r[t]
                                      \/ r[s] = r[x] /\ r[t] = r[y]
                                      \/ r[s] = r[y] /\ r[t] = r[x]

\* The edges of a hung forest are those of the forest, one way or the other, and the new one.
LEMMA HungEdges ==
    ASSUME NEW f, IsForest(f), NEW x \in Terms, NEW y \in Terms, NEW l, NEW g,
           Hung(g, f, x, y, l)
    PROVE  /\ g.parent \in [Terms -> Terms \cup {ERef_Undef}]
           /\ g.parent[y] = x /\ g.reason[y] = l
           /\ \A a \in Up(f, y) \ {y} :
                /\ g.parent[a] \in Up(f, y) /\ f.parent[g.parent[a]] = a
                /\ g.reason[a] = f.reason[g.parent[a]]
           /\ \A a \in Terms \ Up(f, y) : g.parent[a] = f.parent[a] /\ g.reason[a] = f.reason[a]
           /\ \A a \in Terms : f.parent[a] # ERef_Undef =>
                IF a \in Up(f, y) THEN f.parent[a] # y /\ g.parent[f.parent[a]] = a
                ELSE g.parent[a] = f.parent[a]
  <1>0. Up(f, y) \in SUBSET Terms /\ y \in Up(f, y)
        /\ f.parent \in [Terms -> Terms \cup {ERef_Undef}]
    BY UpEquation, UpFacts DEF IsForest
  <1>1. \A w \in Terms :
          /\ g.parent[w] = IF w = y THEN x ELSE
                                 IF w \in Up(f, y) THEN Below(f, y, w) ELSE f.parent[w]
          /\ g.reason[w] = IF w = y THEN l ELSE
                                 IF w \in Up(f, y) THEN f.reason[Below(f, y, w)] ELSE f.reason[w]
    BY DEF Hung
  <1>2. /\ \A w \in Up(f, y) \ {y} : Below(f, y, w) \in Up(f, y) /\ f.parent[Below(f, y, w)] = w
        /\ \A v \in Up(f, y) : f.parent[v] # ERef_Undef =>
             /\ f.parent[v] \in Up(f, y) \ {y}
             /\ Below(f, y, f.parent[v]) = v
    BY BelowFacts
  <1>3. \A a \in Up(f, y) \ {y} :
                /\ g.parent[a] = Below(f, y, a) /\ g.reason[a] = f.reason[Below(f, y, a)]
    BY <1>0, <1>1
  <1>4. g.parent \in [Terms -> Terms \cup {ERef_Undef}]
    <2>1. \A w \in Terms : (IF w = y THEN x ELSE
                              IF w \in Up(f, y) THEN Below(f, y, w) ELSE f.parent[w]) \in Terms \cup {ERef_Undef}
      BY <1>0, <1>2
    <2> QED
      BY <2>1 DEF Hung
  <1>5. \A a \in Terms \ Up(f, y) : g.parent[a] = f.parent[a] /\ g.reason[a] = f.reason[a]
    BY <1>0, <1>1
  <1>6. ASSUME NEW a \in Terms, f.parent[a] # ERef_Undef
        PROVE  IF a \in Up(f, y) THEN f.parent[a] # y /\ g.parent[f.parent[a]] = a
                ELSE g.parent[a] = f.parent[a]
    <2>1. CASE a \in Up(f, y)
      <3>1. f.parent[a] \in Up(f, y) \ {y} /\ Below(f, y, f.parent[a]) = a
        BY <1>2, <1>6, <2>1
      <3> QED
        BY <1>3, <2>1, <3>1
    <2>2. CASE a \notin Up(f, y)
      BY <1>5, <2>2
    <2> QED
      BY <2>1, <2>2
  <1> QED
    BY <1>0, <1>1, <1>2, <1>3, <1>4, <1>5, <1>6

\* Only the root of a tree has no parent.
LEMMA TreeTop ==
    ASSUME NEW f, IsForest(f), NEW t \in Terms, NEW u \in Terms, f.parent[t] = ERef_Undef,
           Up(f, t) \cap Up(f, u) # {}
    PROVE  t \in Up(f, u)
  <1>1. Up(f, t) = {t}
    BY UpEquation
  <1> QED
    BY <1>1

\* Hung below a node of another class the forest stays one.
LEMMA HungForest ==
    ASSUME NEW f, IsForest(f), NEW x \in Terms, NEW y \in Terms, NEW l, NEW g,
           Hung(g, f, x, y, l), NEW r, Spans(f, r), r[x] # r[y]
    PROVE  IsForest(g)
  <1>0. Up(f, y) \in SUBSET Terms /\ y \in Up(f, y) /\ ERef_Undef \notin Terms
        /\ f.parent \in [Terms -> Terms \cup {ERef_Undef}]
    BY UpEquation, UpFacts, TermFacts DEF IsForest
  <1>1. /\ g.parent \in [Terms -> Terms \cup {ERef_Undef}]
        /\ g.parent[y] = x
        /\ \A a \in Up(f, y) \ {y} : g.parent[a] \in Up(f, y) /\ f.parent[g.parent[a]] = a
        /\ \A a \in Terms \ Up(f, y) : g.parent[a] = f.parent[a]
    BY HungEdges
  <1>2. PICK m \in Nat : \E grade \in [Terms -> 0..m] : Graded(f, m, grade)
    BY DEF IsForest, Acyclic
  <1>3. PICK grade \in [Terms -> 0..m] : Graded(f, m, grade)
    BY <1>2
  <1>4. \A t \in Terms : \A s \in Up(f, t) : r[s] = r[t]
    BY SpansWithin
  <1> DEFINE G(t) == IF r[t] # r[y] THEN grade[t] ELSE
                     IF t \in Up(f, y) THEN 2 * m + 1 - grade[t] ELSE 2 * m + 2 + grade[t]
             new == [t \in Terms |-> G(t)]
             M == 3 * m + 2
  <1>5. \A t \in Terms : grade[t] \in 0..m
    BY <1>3
  <1>6. M \in Nat /\ new \in [Terms -> 0..M]
    <2>1. \A t \in Terms : G(t) \in 0..M
      BY <1>2, <1>5
    <2> QED
      BY <1>2, <2>1
  <1>7. \A t \in Terms : new[t] = G(t)
    OBVIOUS
  <1>8. ASSUME NEW t \in Terms, g.parent[t] # ERef_Undef
        PROVE  new[g.parent[t]] < new[t]
    <2> DEFINE p == g.parent[t]
    <2>0. p \in Terms /\ new[p] = G(p) /\ new[t] = G(t) /\ grade[p] \in 0..m /\ grade[t] \in 0..m
      BY <1>1, <1>5, <1>7, <1>8
    <2>1. CASE t = y
      <3>1. p = x
        BY <1>1, <2>1
      <3>2. G(p) = grade[x] /\ G(t) = 2 * m + 1 - grade[y]
        BY <1>0, <2>1, <3>1
      <3> QED
        BY <1>2, <2>0, <2>1, <3>1, <3>2
    <2>2. CASE t \in Up(f, y) \ {y}
      <3>1. p \in Up(f, y) /\ f.parent[p] = t
        BY <1>1, <2>2
      <3>2. grade[t] < grade[p]
        BY <1>0, <1>3, <2>0, <3>1 DEF Graded
      <3>3. r[t] = r[y] /\ r[p] = r[y]
        BY <1>4, <2>2, <3>1
      <3>4. G(p) = 2 * m + 1 - grade[p] /\ G(t) = 2 * m + 1 - grade[t]
        BY <2>2, <3>1, <3>3
      <3> QED
        BY <1>2, <2>0, <3>2, <3>4
    <2>3. CASE t \notin Up(f, y)
      <3>1. p = f.parent[t] /\ f.parent[t] # ERef_Undef
        BY <1>1, <1>8, <2>3
      <3>2. grade[p] < grade[t]
        BY <1>3, <3>1 DEF Graded
      <3>3. r[p] = r[t]
        BY <1>4, <3>1, UpFacts
      <3>4. CASE r[t] # r[y]
        <4>1. G(p) = grade[p] /\ G(t) = grade[t]
          BY <3>3, <3>4
        <4> QED
          BY <2>0, <3>2, <4>1
      <3>5. CASE r[t] = r[y]
        <4>1. G(t) = 2 * m + 2 + grade[t]
          BY <2>3, <3>5
        <4>2. G(p) = 2 * m + 1 - grade[p] \/ G(p) = 2 * m + 2 + grade[p]
          BY <3>3, <3>5
        <4> QED
          BY <1>2, <2>0, <3>2, <4>1, <4>2
      <3> QED
        BY <3>4, <3>5
    <2> QED
      BY <2>1, <2>2, <2>3
  <1>9. Graded(g, M, new)
    <2> HIDE DEF new, M
    <2> QED
      BY <1>6, <1>8 DEF Graded
  <1> HIDE DEF new, M
  <1> QED
    BY <1>1, <1>6, <1>9 DEF IsForest, Acyclic

\* The hung forest spans the joined classes.
LEMMA HungSpans ==
    ASSUME NEW f, IsForest(f), NEW x \in Terms, NEW y \in Terms, NEW l, NEW g,
           Hung(g, f, x, y, l), NEW r, Spans(f, r), r[x] # r[y],
           NEW q, JoinsAt(q, r, x, y)
    PROVE  Spans(g, q)
  <1>0. Up(f, y) \in SUBSET Terms /\ y \in Up(f, y) /\ ERef_Undef \notin Terms
        /\ f.parent \in [Terms -> Terms \cup {ERef_Undef}]
    BY UpEquation, UpFacts, TermFacts DEF IsForest
  <1>1. /\ g.parent \in [Terms -> Terms \cup {ERef_Undef}]
        /\ g.parent[y] = x
        /\ \A a \in Up(f, y) \ {y} : g.parent[a] \in Up(f, y) /\ f.parent[g.parent[a]] = a
        /\ \A a \in Terms \ Up(f, y) : g.parent[a] = f.parent[a]
    BY HungEdges
  <1>2. IsForest(g)
    BY HungForest
  <1>3. \A t \in Terms : \A s \in Up(f, t) : r[s] = r[t]
    BY SpansWithin
  <1>4. ASSUME NEW t \in Terms, t # y, g.parent[t] # ERef_Undef
        PROVE  r[g.parent[t]] = r[t] /\ g.parent[t] \in Terms
    <2>1. CASE t \in Up(f, y)
      BY <1>0, <1>1, <1>3, <1>4, <2>1
    <2>2. CASE t \notin Up(f, y)
      BY <1>1, <1>3, <1>4, <2>2, UpFacts
    <2> QED
      BY <2>1, <2>2
  <1>5. \A s, t \in Terms : r[s] = r[t] => q[s] = q[t]
    BY DEF JoinsAt
  <1>6. \A t \in Terms : \A s \in Up(g, t) : q[s] = q[t]
    <2>1. q[x] = q[y]
      BY DEF JoinsAt
    <2>2. Within(g, q, Terms)
      BY <1>1, <1>4, <1>5, <2>1 DEF Within
    <2> QED
      BY <1>2, <2>2, UpWithin
  <1>7. \A t \in Terms : r[t] = r[y] => y \in Up(g, t)
    <2> DEFINE Bad == {t \in Terms : r[t] = r[y] /\ y \notin Up(g, t)}
    <2> SUFFICES ASSUME Bad # {} PROVE FALSE
      OBVIOUS
    <2>1. PICK t \in Bad : g.parent[t] \notin Bad
      <3>1. Bad \in SUBSET Terms
        OBVIOUS
      <3> HIDE DEF Bad
      <3> QED
        BY <1>2, <3>1, TopOf DEF IsForest
    <2>2. t \in Terms /\ r[t] = r[y] /\ y \notin Up(g, t)
      BY <2>1
    <2>3. t # y
      BY <1>2, <2>2, UpFacts
    <2>4. g.parent[t] # ERef_Undef
      <3>1. CASE t \in Up(f, y)
        BY <1>0, <1>1, <2>3, <3>1
      <3>2. CASE t \notin Up(f, y)
        <4>1. Up(f, t) \cap Up(f, y) # {}
          BY <2>2 DEF Spans
        <4>2. f.parent[t] # ERef_Undef
          BY <2>2, <3>2, <4>1, TreeTop
        <4> QED
          BY <1>1, <2>2, <3>2, <4>2
      <3> QED
        BY <3>1, <3>2
    <2>5. r[g.parent[t]] = r[y] /\ g.parent[t] \in Terms
      BY <1>4, <2>2, <2>3, <2>4
    <2>6. y \in Up(g, g.parent[t])
      BY <2>1, <2>5
    <2>7. Up(g, g.parent[t]) \subseteq Up(g, t)
      BY <1>2, <2>2, <2>4, UpFacts
    <2> QED
      BY <2>2, <2>6, <2>7
  <1>8. \A t \in Terms : r[t] # r[y] => Up(g, t) = Up(f, t)
    <2> DEFINE Bad == {t \in Terms : r[t] # r[y] /\ Up(g, t) # Up(f, t)}
    <2> SUFFICES ASSUME Bad # {} PROVE FALSE
      OBVIOUS
    <2>1. PICK t \in Bad : f.parent[t] \notin Bad
      <3>1. Bad \in SUBSET Terms
        OBVIOUS
      <3> HIDE DEF Bad
      <3> QED
        BY <3>1, TopOf DEF IsForest
    <2>2. t \in Terms /\ r[t] # r[y] /\ Up(g, t) # Up(f, t)
      BY <2>1
    <2>3. t \notin Up(f, y)
      BY <1>3, <2>2
    <2>4. g.parent[t] = f.parent[t]
      BY <1>1, <2>2, <2>3
    <2>5. /\ Up(f, t) = {t} \cup (IF f.parent[t] = ERef_Undef THEN {} ELSE Up(f, f.parent[t]))
          /\ Up(g, t) = {t} \cup (IF g.parent[t] = ERef_Undef THEN {} ELSE Up(g, g.parent[t]))
      BY <1>2, <2>2, UpEquation
    <2>6. f.parent[t] # ERef_Undef
      BY <2>2, <2>4, <2>5
    <2>7. f.parent[t] \in Terms /\ f.parent[t] \in Up(f, t)
      BY <2>2, <2>6, UpFacts
    <2>8. r[f.parent[t]] # r[y]
      BY <1>3, <2>2, <2>7
    <2>9. Up(g, f.parent[t]) = Up(f, f.parent[t])
      BY <2>1, <2>7, <2>8
    <2> QED
      BY <2>2, <2>4, <2>5, <2>9
  <1>9. \A t \in Terms : r[t] = r[y] => Up(f, x) \subseteq Up(g, t)
    <2>1. Up(g, x) = Up(f, x)
      BY <1>8
    <2>2. Up(g, x) \subseteq Up(g, y)
      BY <1>0, <1>1, <1>2, UpFacts
    <2>3. \A t \in Terms : r[t] = r[y] => Up(g, y) \subseteq Up(g, t)
      BY <1>2, <1>7, UpFacts
    <2> QED
      BY <2>1, <2>2, <2>3
  <1>10. \A s, t \in Terms : r[s] = r[t] => Up(f, s) \cap Up(f, t) # {}
    BY DEF Spans
  <1>11. ASSUME NEW s \in Terms, NEW t \in Terms, q[s] = q[t]
         PROVE  Up(g, s) \cap Up(g, t) # {}
    <2>1. CASE r[s] = r[y] /\ r[t] = r[y]
      BY <1>7, <2>1
    <2>2. CASE r[s] = r[y] /\ r[t] # r[y]
      <3>1. r[t] = r[x]
        BY <1>11, <2>2 DEF JoinsAt
      <3>2. Up(f, x) \cap Up(f, t) # {} /\ Up(g, t) = Up(f, t) /\ Up(f, x) \subseteq Up(g, s)
        BY <1>8, <1>9, <1>10, <2>2, <3>1
      <3> QED
        BY <3>2
    <2>3. CASE r[s] # r[y] /\ r[t] = r[y]
      <3>1. r[s] = r[x]
        BY <1>11, <2>3 DEF JoinsAt
      <3>2. Up(f, x) \cap Up(f, s) # {} /\ Up(g, s) = Up(f, s) /\ Up(f, x) \subseteq Up(g, t)
        BY <1>8, <1>9, <1>10, <2>3, <3>1
      <3> QED
        BY <3>2
    <2>4. CASE r[s] # r[y] /\ r[t] # r[y]
      <3>1. r[s] = r[t]
        BY <1>11, <2>4 DEF JoinsAt
      <3>2. Up(f, s) \cap Up(f, t) # {} /\ Up(g, s) = Up(f, s) /\ Up(g, t) = Up(f, t)
        BY <1>8, <1>10, <2>4, <3>1
      <3> QED
        BY <3>2
    <2> QED
      BY <2>1, <2>2, <2>3, <2>4
  <1> QED
    BY <1>6, <1>11 DEF Spans

-----------------------------------------------------------------------------
(* The roots of the classes, and signatures.                               *)

\* Roots of classes: every node has one, lists have lists.
Roots(r) ==
  /\ r \in [Nodes -> Nodes]
  /\ \A n \in Nodes : r[r[n]] = r[n] /\ (isList(r[n]) <=> isList(n))

\* q joins classes of r.
Coarser(q, r) ==
  /\ \A m, n \in Nodes : r[m] = r[n] => q[m] = q[n]
  /\ \A n \in Nodes : q[n] = n => r[n] = n

\* A merge keeps the roots of all classes but one.
LEMMA JoinedFacts ==
    ASSUME NEW r, Roots(r), NEW x \in Nodes, NEW y \in Nodes, r[x] = x, r[y] = y, x # y,
           isList(x) <=> isList(y)
    PROVE  Roots(JoinedRoots(r, x, y)) /\ Coarser(JoinedRoots(r, x, y), r)
  <1> DEFINE q == JoinedRoots(r, x, y)
  <1>1. \A n \in Nodes : q[n] = IF r[n] = y THEN x ELSE r[n]
    BY DEF JoinedRoots
  <1>2. q \in [Nodes -> Nodes]
    BY DEF JoinedRoots, Roots
  <1> HIDE DEF q
  <1>3. ASSUME NEW n \in Nodes
        PROVE  q[q[n]] = q[n] /\ (isList(q[n]) <=> isList(n))
    <2>1. r[n] \in Nodes /\ r[r[n]] = r[n] /\ (isList(r[n]) <=> isList(n))
      BY DEF Roots
    <2>2. CASE r[n] = y
      <3>1. q[n] = x /\ q[x] = x
        BY <1>1, <2>2
      <3> QED
        BY <2>1, <2>2, <3>1
    <2>3. CASE r[n] # y
      <3>1. q[n] = r[n] /\ q[r[n]] = r[n]
        BY <1>1, <2>1, <2>3
      <3> QED
        BY <2>1, <3>1
    <2> QED
      BY <2>2, <2>3
  <1>4. Roots(q)
    BY <1>2, <1>3 DEF Roots
  <1>5. ASSUME NEW n \in Nodes, q[n] = n
        PROVE  r[n] = n
    BY <1>1, <1>5
  <1>6. Coarser(q, r)
    BY <1>1, <1>5 DEF Coarser
  <1> QED
    BY <1>4, <1>6 DEF q

\* All the past roots are roots, and each is coarser than the earlier ones.
LEMMA HistoryFacts ==
    ASSUME NEW H, History(H), undo_stack_main \in Seq(Undos)
    PROVE  \A k \in 0..Len(undo_stack_main) :
             Roots(H[k]) /\ \A i \in 0..k : Coarser(H[k], H[i])
  <1> DEFINE L == Len(undo_stack_main)
             Good(k) == Roots(H[k]) /\ \A i \in 0..k : Coarser(H[k], H[i])
             Bad == {k \in 0..L : ~ Good(k)}
  <1>0. L \in Nat /\ \A k \in 1..L : undo_stack_main[k] \in Undos
    BY SeqFacts
  <1>1. /\ H[0] = [n \in Nodes |-> n]
        /\ \A k \in 1..L : IF IsMerge(k) THEN MergedAt(H, k) ELSE H[k] = H[k - 1]
    BY DEF History
  <1>2. Good(0)
    <2>1. Roots(H[0])
      BY <1>1 DEF Roots
    <2>2. \A i \in 0..0 : i = 0
      OBVIOUS
    <2>3. Coarser(H[0], H[0])
      BY DEF Coarser
    <2> QED
      BY <2>1, <2>2, <2>3
  <1>3. ASSUME NEW k \in 1..L, Good(k - 1)
        PROVE  Good(k)
    <2>1. Roots(H[k]) /\ Coarser(H[k], H[k - 1])
      <3>1. CASE IsMerge(k)
        <4>1. MergedAt(H, k)
          BY <1>1, <3>1
        <4> DEFINE y == undo_stack_main[k].arg
        <4>2. y \in Nodes
          BY <1>0 DEF Undos
        <4>3. H[k - 1][y] = y
          BY <4>1 DEF MergedAt
        <4>4. PICK x \in Nodes : x # y /\ H[k - 1][x] = x /\ H[k] = JoinedRoots(H[k - 1], x, y)
                                 /\ (isList(x) <=> isList(y))
          BY <4>1 DEF MergedAt
        <4> HIDE DEF y
        <4> QED
          BY <1>3, <4>2, <4>3, <4>4, JoinedFacts
      <3>2. CASE ~ IsMerge(k)
        <4>1. H[k] = H[k - 1]
          BY <1>1, <3>2
        <4> QED
          BY <1>3, <4>1 DEF Coarser
      <3> QED
        BY <3>1, <3>2
    <2>2. ASSUME NEW i \in 0..k
          PROVE  Coarser(H[k], H[i])
      <3>1. CASE i = k
        BY <3>1 DEF Coarser
      <3>2. CASE i # k
        <4>1. i \in 0..k - 1
          BY <3>2
        <4>2. Coarser(H[k - 1], H[i])
          BY <1>3, <4>1
        <4> QED
          BY <2>1, <4>2 DEF Coarser
      <3> QED
        BY <3>1, <3>2
    <2> QED
      BY <2>1, <2>2
  <1> SUFFICES ASSUME Bad # {} PROVE FALSE
    OBVIOUS
  <1> HIDE DEF Good
  <1>4. PICK k \in Bad : \A i \in Bad : k <= i
    <2>1. Bad \in SUBSET Nat
      OBVIOUS
    <2> HIDE DEF Bad
    <2> QED
      BY <2>1, MinExists
  <1>5. k \in 1..L
    BY <1>0, <1>2, <1>4
  <1>6. k - 1 \notin Bad /\ k - 1 \in 0..L
    BY <1>0, <1>4, <1>5
  <1> QED
    BY <1>3, <1>4, <1>5, <1>6

\* Signatures that were equal stay so when classes join.
LEMMA SigCoarser ==
    ASSUME NEW r, Roots(r), NEW q, Roots(q), Coarser(q, r),
           NEW m \in Nodes, NEW n \in Nodes, Sig(r, m) = Sig(r, n)
    PROVE  Sig(q, m) = Sig(q, n)
  <1>1. m.sym = n.sym /\ RootIn(r, Car(m)) = RootIn(r, Car(n)) /\ RootIn(r, Cdr(m)) = RootIn(r, Cdr(n))
    BY DEF Sig
  <1>2. ASSUME NEW a, NEW b, a = ERef_Nil \/ a \in Nodes, b = ERef_Nil \/ b \in Nodes,
               RootIn(r, a) = RootIn(r, b)
        PROVE  RootIn(q, a) = RootIn(q, b)
    <2>1. ERef_Nil \notin Nodes
      BY TermFacts
    <2>2. (a \in Nodes => r[a] \in Nodes) /\ (b \in Nodes => r[b] \in Nodes)
      BY DEF Roots
    <2>3. (a = ERef_Nil <=> b = ERef_Nil) /\ (a # ERef_Nil => r[a] = r[b])
      BY <1>2, <2>1, <2>2 DEF RootIn
    <2>4. CASE a = ERef_Nil
      BY <2>3, <2>4
    <2>5. CASE a # ERef_Nil
      <3>1. q[a] = q[b]
        BY <1>2, <2>3, <2>5 DEF Coarser
      <3> QED
        BY <2>3, <2>5, <3>1 DEF RootIn
    <2> QED
      BY <2>4, <2>5
  <1>3. \A k \in {m, n} : (Car(k) = ERef_Nil \/ Car(k) \in Nodes) /\ (Cdr(k) = ERef_Nil \/ Cdr(k) \in Nodes)
    BY ChildFacts, TermFacts
  <1>4. RootIn(q, Car(m)) = RootIn(q, Car(n)) /\ RootIn(q, Cdr(m)) = RootIn(q, Cdr(n))
    BY <1>1, <1>2, <1>3
  <1> QED
    BY <1>1, <1>4 DEF Sig

\* Terms of one signature have equal arguments.
LEMMA ArgsEqual ==
    ASSUME NEW r, Roots(r), ListsEqual(r), NEW s \in Terms, NEW t \in Terms, Sig(r, s) = Sig(r, t)
    PROVE  \A i \in DOMAIN s.args : i \in DOMAIN t.args /\ r[s.args[i]] = r[t.args[i]]
  <1>0. /\ s.args \in Seq(Terms) /\ Len(s.args) \in Nat /\ DOMAIN s.args = 1..Len(s.args)
        /\ t.args \in Seq(Terms) /\ Len(t.args) \in Nat /\ DOMAIN t.args = 1..Len(t.args)
        /\ Cdr(s) = IF s.args = <<>> THEN ERef_Nil ELSE Suffix(s, 1)
        /\ Cdr(t) = IF t.args = <<>> THEN ERef_Nil ELSE Suffix(t, 1)
    BY ArgumentList
  <1>1. ERef_Nil \notin Nodes /\ s \in Base /\ t \in Base /\ Base \in SUBSET Nodes
    BY TermFacts
  <1> DEFINE Same(i) == i \in DOMAIN t.args /\ r[Suffix(s, i)] = r[Suffix(t, i)]
  <1>2. ASSUME NEW i \in DOMAIN s.args
        PROVE  Suffix(s, i) \in Nodes /\ isList(Suffix(s, i))
               /\ Car(Suffix(s, i)) = s.args[i] /\ s.args[i] \in Base
               /\ Cdr(Suffix(s, i)) = IF i = Len(s.args) THEN ERef_Nil ELSE Suffix(s, i + 1)
    BY <1>1, SuffixFacts
  <1>3. ASSUME NEW i \in DOMAIN t.args
        PROVE  Suffix(t, i) \in Nodes /\ isList(Suffix(t, i))
               /\ Car(Suffix(t, i)) = t.args[i] /\ t.args[i] \in Base
               /\ Cdr(Suffix(t, i)) = IF i = Len(t.args) THEN ERef_Nil ELSE Suffix(t, i + 1)
    BY <1>1, SuffixFacts
  <1>4. \A a, b : /\ a = ERef_Nil \/ a \in Nodes
                  /\ b = ERef_Nil \/ b \in Nodes
                  /\ RootIn(r, a) = RootIn(r, b)
          => (a = ERef_Nil <=> b = ERef_Nil) /\ (a # ERef_Nil => r[a] = r[b])
    <2>1. \A n \in Nodes : r[n] \in Nodes
      BY DEF Roots
    <2> QED
      BY <1>1, <2>1 DEF RootIn
  <1>5. 1 \in DOMAIN s.args => Same(1)
    <2> SUFFICES ASSUME 1 \in DOMAIN s.args PROVE Same(1)
      OBVIOUS
    <2>1. s.args # <<>> /\ Cdr(s) = Suffix(s, 1) /\ Suffix(s, 1) \in Nodes
      BY <1>0, <1>2
    <2>2. RootIn(r, Cdr(s)) = RootIn(r, Cdr(t))
      BY DEF Sig
    <2>3. Cdr(t) = ERef_Nil \/ Cdr(t) \in Nodes
      BY <1>1, ChildFacts
    <2>4. Cdr(s) # ERef_Nil
      BY <1>1, <2>1
    <2>5. Cdr(t) # ERef_Nil /\ r[Cdr(s)] = r[Cdr(t)]
      BY <1>4, <2>1, <2>2, <2>3, <2>4
    <2>6. t.args # <<>> /\ Cdr(t) = Suffix(t, 1)
      BY <1>0, <2>5
    <2>7. 1 \in DOMAIN t.args
      BY <1>0, <2>6
    <2> QED
      BY <2>1, <2>5, <2>6, <2>7
  <1>6. ASSUME NEW i \in DOMAIN s.args, Same(i)
        PROVE  /\ r[s.args[i]] = r[t.args[i]]
               /\ i + 1 \in DOMAIN s.args => Same(i + 1)
    <2>1. Sig(r, Suffix(s, i)) = Sig(r, Suffix(t, i))
      BY <1>2, <1>3, <1>6 DEF ListsEqual
    <2>2. RootIn(r, s.args[i]) = RootIn(r, t.args[i])
      BY <1>2, <1>3, <1>6, <2>1 DEF Sig
    <2>3. r[s.args[i]] = r[t.args[i]]
      BY <1>1, <1>2, <1>3, <1>6, <2>2 DEF RootIn
    <2>4. ASSUME i + 1 \in DOMAIN s.args
          PROVE  Same(i + 1)
      <3>1. i # Len(s.args) /\ i + 1 \in DOMAIN s.args
        BY <1>0, <2>4
      <3>2. Cdr(Suffix(s, i)) = Suffix(s, i + 1) /\ Suffix(s, i + 1) \in Nodes
        BY <1>2, <3>1
      <3>3. RootIn(r, Cdr(Suffix(s, i))) = RootIn(r, Cdr(Suffix(t, i)))
        BY <2>1 DEF Sig
      <3>4. Cdr(Suffix(t, i)) = ERef_Nil \/ Cdr(Suffix(t, i)) \in Nodes
        BY <1>3, <1>6, ChildFacts
      <3>5. Cdr(Suffix(t, i)) # ERef_Nil /\ r[Suffix(s, i + 1)] = r[Cdr(Suffix(t, i))]
        BY <1>1, <1>4, <3>2, <3>3, <3>4
      <3>6. i # Len(t.args) /\ Cdr(Suffix(t, i)) = Suffix(t, i + 1)
        BY <1>3, <1>6, <3>5
      <3>7. i + 1 \in DOMAIN t.args
        BY <1>0, <1>6, <3>6
      <3> QED
        BY <3>5, <3>6, <3>7
    <2> QED
      BY <2>3, <2>4
  <1> DEFINE Bad == {i \in DOMAIN s.args : ~ Same(i)}
  <1>7. Bad = {}
    <2> SUFFICES ASSUME Bad # {} PROVE FALSE
      OBVIOUS
    <2> HIDE DEF Same
    <2>1. PICK i \in Bad : \A j \in Bad : i <= j
      <3>1. Bad \in SUBSET Nat
        BY <1>0
      <3> HIDE DEF Bad
      <3> QED
        BY <3>1, MinExists
    <2>2. i # 1 /\ i \in DOMAIN s.args /\ i \in 1..Len(s.args)
      BY <1>0, <1>5, <2>1
    <2>3. i - 1 \in DOMAIN s.args /\ (i - 1) + 1 = i
      BY <1>0, <2>2
    <2>4. Same(i - 1)
      BY <1>0, <2>1, <2>2, <2>3
    <2>5. Same((i - 1) + 1)
      BY <1>6, <2>2, <2>3, <2>4
    <2> QED
      BY <2>1, <2>3, <2>5
  <1> QED
    BY <1>6, <1>7

-----------------------------------------------------------------------------
(* The use vectors and the table, parent by parent.                        *)

Tags == {"Valid", "Marked", "Free"}

\* The classes, the use vectors and the table while the parents of a class are gone through.
IsClosure(g) ==
  /\ g = [root |-> g.root, parents |-> g.parents, index |-> g.index,
          sig_tab |-> g.sig_tab, pending |-> g.pending]
  /\ Roots(g.root) /\ g.parents \in [Nodes -> UseVectors]
  /\ g.index \in [Sides -> [Nodes -> Nat]]
  /\ g.sig_tab \in [DOMAIN g.sig_tab -> Nodes] /\ g.pending \in Seq(Nodes)

\* A sequence with another element somewhere.
LEMMA SeqExcept ==
    ASSUME NEW S, NEW s \in Seq(S), NEW e \in S, NEW i
    PROVE  [s EXCEPT ![i] = e] \in Seq(S)
  <1> DEFINE t == [s EXCEPT ![i] = e]
  <1>1. Len(s) \in Nat /\ DOMAIN s = 1..Len(s) /\ \A j \in 1..Len(s) : s[j] \in S
    BY SeqFacts
  <1>2. t = [j \in 1..Len(s) |-> IF j = i THEN e ELSE s[j]]
    BY <1>1
  <1>3. \A j \in 1..Len(s) : (IF j = i THEN e ELSE s[j]) \in S
    BY <1>1
  <1> HIDE DEF t
  <1>4. t \in [1..Len(s) -> S]
    BY <1>2, <1>3
  <1>5. t \in Seq(S)
    BY <1>1, <1>4
  <1> QED
    BY <1>5 DEF t

\* A use vector is its entries and its free slots.
LEMMA UseVectorFacts ==
    /\ \A d \in Seq(Entries), f \in Seq(Nat) : [data |-> d, free |-> f] \in UseVectors
    /\ \A u \in UseVectors : u = [data |-> u.data, free |-> u.free]
                             /\ u.data \in Seq(Entries) /\ u.free \in Seq(Nat)
  BY DEF UseVectors

\* An entry of a use vector with another tag.
LEMMA TagSet ==
    ASSUME NEW g, IsClosure(g), NEW y \in Nodes, NEW i \in Nat, NEW tag \in Tags,
           NEW h, h = [g EXCEPT !.parents[y].data[i].tag = tag]
    PROVE  /\ IsClosure(h)
           /\ h.root = g.root /\ h.sig_tab = g.sig_tab /\ h.pending = g.pending /\ h.index = g.index
           /\ \A d \in Nodes \ {y} : h.parents[d] = g.parents[d]
           /\ Len(h.parents[y].data) = Len(g.parents[y].data)
           /\ \A j \in 1..Len(g.parents[y].data) :
                h.parents[y].data[j] = IF j = i THEN [tag |-> tag, e |-> g.parents[y].data[j].e]
                                       ELSE g.parents[y].data[j]
  <1> DEFINE uv == g.parents[y]
             dat == uv.data
             ent == [dat[i] EXCEPT !.tag = tag]
             dat2 == [dat EXCEPT ![i] = ent]
             uv2 == [uv EXCEPT !.data = dat2]
             par == [g.parents EXCEPT ![y] = uv2]
  <1>1. /\ g = [root |-> g.root, parents |-> g.parents, index |-> g.index,
                sig_tab |-> g.sig_tab, pending |-> g.pending]
        /\ g.parents \in [Nodes -> UseVectors]
    BY DEF IsClosure
  <1>2. h = [g EXCEPT !.parents = par]
    OBVIOUS
  <1>3. uv \in UseVectors
    BY <1>1
  <1>4. uv = [data |-> dat, free |-> uv.free] /\ dat \in Seq(Entries) /\ uv.free \in Seq(Nat)
    BY <1>3 DEF UseVectors
  <1>5. Len(dat) \in Nat /\ DOMAIN dat = 1..Len(dat) /\ \A j \in 1..Len(dat) : dat[j] \in Entries
    BY <1>4, SeqFacts
  <1>6. \A j \in 1..Len(dat) : dat2[j] = IF j = i THEN [tag |-> tag, e |-> dat[j].e] ELSE dat[j]
    <2>1. ASSUME NEW j \in 1..Len(dat)
          PROVE  dat2[j] = IF j = i THEN [tag |-> tag, e |-> dat[j].e] ELSE dat[j]
      <3>1. dat[j] \in Entries
        BY <1>5
      <3>2. CASE j = i
        <4>1. dat2[j] = ent
          BY <1>5, <3>2
        <4>2. ent = [tag |-> tag, e |-> dat[j].e]
          BY <3>1, <3>2 DEF Entries
        <4> QED
          BY <3>2, <4>1, <4>2
      <3>3. CASE j # i
        BY <1>5, <3>3
      <3> QED
        BY <3>2, <3>3
    <2> QED
      BY <2>1
  <1>7. DOMAIN dat2 = 1..Len(dat)
    BY <1>5
  <1> HIDE DEF dat2
  <1>8. dat2 \in Seq(Entries) /\ Len(dat2) = Len(dat)
    <2>1. \A j \in 1..Len(dat) : dat2[j] \in Entries
      <3>1. \A j \in 1..Len(dat) : dat[j] \in Entries /\ [tag |-> tag, e |-> dat[j].e] \in Entries
        BY <1>5 DEF Entries, Tags
      <3> QED
        BY <1>6, <3>1
    <2>2. dat2 = [j \in 1..Len(dat) |-> dat2[j]]
      BY <1>7 DEF dat2
    <2>3. dat2 \in [1..Len(dat) -> Entries]
      BY ONLY <2>1, <2>2
    <2>4. Len(dat) \in Nat
      BY <1>5
    <2> QED
      BY ONLY <2>3, <2>4
  <1>9. uv2 = [data |-> dat2, free |-> uv.free]
    BY <1>4
  <1>10. uv2 \in UseVectors
    BY <1>4, <1>8, <1>9 DEF UseVectors
  <1> HIDE DEF uv2
  <1>11. /\ par \in [Nodes -> UseVectors] /\ par[y] = uv2
         /\ \A d \in Nodes \ {y} : par[d] = g.parents[d]
    BY <1>1, <1>10
  <1> HIDE DEF par
  <1>12. /\ h = [root |-> g.root, parents |-> par, index |-> g.index,
                 sig_tab |-> g.sig_tab, pending |-> g.pending]
    BY <1>1, <1>2
  <1>13. h.parents = par /\ h.root = g.root /\ h.sig_tab = g.sig_tab /\ h.pending = g.pending /\ h.index = g.index
    BY <1>12
  <1>14. IsClosure(h)
    BY <1>11, <1>12, <1>13 DEF IsClosure
  <1> QED
    BY <1>6, <1>8, <1>9, <1>11, <1>13, <1>14

\* Only use vectors of roots are different.
OnlyRoots(h, g) ==
  /\ IsClosure(h)
  /\ h.root = g.root /\ h.sig_tab = g.sig_tab /\ h.pending = g.pending
  /\ \A d \in Nodes : g.root[d] # d => h.parents[d] = g.parents[d]

\* The root of a child.
LEMMA ChildRoot ==
    ASSUME NEW g, IsClosure(g), NEW side \in Sides, NEW n \in Nodes, Has(side, n)
    PROVE  g.root[Child(side, n)] \in Nodes
           /\ g.root[g.root[Child(side, n)]] = g.root[Child(side, n)]
  BY ChildFacts DEF IsClosure, Roots

\* Clearing an entry leaves the use vectors of all but roots alone.
LEMMA ClearEntry ==
    ASSUME NEW g, IsClosure(g), NEW side \in Sides, NEW n \in Nodes
    PROVE  OnlyRoots(clearEntryAt(g, side, n), g)
  <1> DEFINE c == g.root[Child(side, n)]
             i == g.index[side][n]
             h == [g EXCEPT !.parents[c].data[i].tag = "Free"]
             k == [g EXCEPT !.parents[c].data[i].tag = "Free", !.parents[c].free = <<i>> \o @]
             uv == [h.parents[c] EXCEPT !.free = <<i>> \o @]
             par == [h.parents EXCEPT ![c] = uv]
  <1>1. CASE ~ Has(side, n)
    BY <1>1 DEF clearEntryAt, OnlyRoots
  <1>2. CASE Has(side, n)
    <2>1. c \in Nodes /\ g.root[c] = c
      BY <1>2, ChildRoot
    <2>2. i \in Nat
      BY DEF IsClosure
    <2>3. "Free" \in Tags
      BY DEF Tags
    <2>4. clearEntryAt(g, side, n) = k
      BY <1>2 DEF clearEntryAt
    <2>5. k = [h EXCEPT !.parents = par]
      OBVIOUS
    <2> HIDE DEF c, i, k
    <2>6. /\ IsClosure(h)
          /\ h.root = g.root /\ h.sig_tab = g.sig_tab /\ h.pending = g.pending /\ h.index = g.index
          /\ \A d \in Nodes \ {c} : h.parents[d] = g.parents[d]
      BY <2>1, <2>2, <2>3, TagSet
    <2> HIDE DEF h
    <2>7. h.parents \in [Nodes -> UseVectors] /\ h.parents[c] \in UseVectors
      BY <2>1, <2>6 DEF IsClosure
    <2>8. uv = [data |-> h.parents[c].data, free |-> <<i>> \o h.parents[c].free]
      <3> DEFINE u == h.parents[c]
                 v == <<i>> \o u.free
      <3>1. u = [data |-> u.data, free |-> u.free]
        BY <2>7, UseVectorFacts
      <3> HIDE DEF u, v
      <3>2. [u EXCEPT !.free = v] = [data |-> u.data, free |-> v]
        BY <3>1
      <3> QED
        BY <3>2 DEF u, v
    <2>9. <<i>> \o h.parents[c].free \in Seq(Nat)
      BY <2>2, <2>7 DEF UseVectors
    <2>10. uv \in UseVectors
      BY <2>7, <2>8, <2>9 DEF UseVectors
    <2> HIDE DEF uv
    <2>11. par \in [Nodes -> UseVectors] /\ \A d \in Nodes \ {c} : par[d] = h.parents[d]
      BY <2>1, <2>7, <2>10
    <2> HIDE DEF par
    <2>12. k = [root |-> h.root, parents |-> par, index |-> h.index,
                sig_tab |-> h.sig_tab, pending |-> h.pending]
      BY <2>5, <2>6 DEF IsClosure
    <2>13. IsClosure(k)
      BY <2>6, <2>11, <2>12 DEF IsClosure
    <2>14. \A d \in Nodes : g.root[d] # d => k.parents[d] = g.parents[d]
      BY <2>1, <2>6, <2>11, <2>12
    <2> QED
      BY <2>4, <2>6, <2>12, <2>13, <2>14 DEF OnlyRoots
  <1> QED
    BY <1>1, <1>2

\* So does entering a parent.
LEMMA AddParent ==
    ASSUME NEW g, IsClosure(g), NEW side \in Sides, NEW n \in Nodes
    PROVE  OnlyRoots(addParent(g, side, n), g)
  <1> DEFINE c == g.root[Child(side, n)]
             uv == g.parents[c]
             i == IF uv.free = <<>> THEN Len(uv.data) + 1 ELSE Head(uv.free)
             entry == [tag |-> "Valid", e |-> n]
             uv2 == IF uv.free = <<>> THEN [uv EXCEPT !.data = Append(@, entry)]
                    ELSE [data |-> [uv.data EXCEPT ![i] = entry], free |-> Tail(uv.free)]
             par == [g.parents EXCEPT ![c] = uv2]
             ind == [g.index EXCEPT ![side] = [g.index[side] EXCEPT ![n] = i]]
             k == [g EXCEPT
            !.parents[c] = IF uv.free = <<>> THEN [uv EXCEPT !.data = Append(@, entry)]
                           ELSE [data |-> [uv.data EXCEPT ![i] = entry], free |-> Tail(uv.free)],
            !.index[side][n] = i]
  <1>1. CASE ~ Has(side, n)
    BY <1>1 DEF addParent, OnlyRoots
  <1>2. CASE Has(side, n)
    <2>1. c \in Nodes /\ g.root[c] = c
      BY <1>2, ChildRoot
    <2>2. addParent(g, side, n) = k
      BY <1>2 DEF addParent
    <2>3. k = [g EXCEPT !.parents = par, !.index = ind]
      OBVIOUS
    <2>4. /\ g = [root |-> g.root, parents |-> g.parents, index |-> g.index,
                sig_tab |-> g.sig_tab, pending |-> g.pending]
          /\ g.parents \in [Nodes -> UseVectors] /\ g.index \in [Sides -> [Nodes -> Nat]]
      BY DEF IsClosure
    <2> HIDE DEF c, k
    <2>5. uv \in UseVectors
      BY <2>1, <2>4
    <2> HIDE DEF uv
    <2>6. uv = [data |-> uv.data, free |-> uv.free] /\ uv.data \in Seq(Entries) /\ uv.free \in Seq(Nat)
      BY <2>5 DEF UseVectors
    <2>7. entry \in Entries
      BY DEF Entries
    <2> HIDE DEF entry
    <2>8. i \in Nat /\ uv2 \in UseVectors
      <3>1. CASE uv.free = <<>>
        <4>1. i = Len(uv.data) + 1 /\ uv2 = [uv EXCEPT !.data = Append(@, entry)]
          BY <3>1
        <4>2. Append(uv.data, entry) \in Seq(Entries) /\ Len(uv.data) + 1 \in Nat
          BY <2>6, <2>7
        <4> HIDE DEF i, uv2
        <4> DEFINE d == Append(uv.data, entry)
        <4>3. uv2 = [data |-> d, free |-> uv.free]
          BY <2>6, <4>1
        <4> HIDE DEF d
        <4>4. uv2 \in UseVectors
          BY <2>6, <4>2, <4>3, UseVectorFacts DEF d
        <4> QED
          BY <4>1, <4>2, <4>4
      <3>2. CASE uv.free # <<>>
        <4>1. Head(uv.free) \in Nat /\ Tail(uv.free) \in Seq(Nat)
          BY <2>6, <3>2, HeadTailProperties
        <4> DEFINE a == Head(uv.free)
                   d == [uv.data EXCEPT ![a] = entry]
        <4>2. i = a /\ uv2 = [data |-> d, free |-> Tail(uv.free)]
          BY <3>2
        <4> HIDE DEF a, i, uv2
        <4>3. d \in Seq(Entries)
          BY <2>6, <2>7, SeqExcept
        <4> HIDE DEF d
        <4>4. uv2 \in UseVectors
          BY <4>1, <4>2, <4>3, UseVectorFacts
        <4> QED
          BY <4>1, <4>2, <4>4 DEF a
      <3> QED
        BY <3>1, <3>2
    <2> HIDE DEF i, uv2
    <2>9. par \in [Nodes -> UseVectors] /\ \A d \in Nodes \ {c} : par[d] = g.parents[d]
      BY <2>1, <2>4, <2>8
    <2>10. ind \in [Sides -> [Nodes -> Nat]]
      BY <2>4, <2>8
    <2> HIDE DEF par, ind
    <2>11. k = [root |-> g.root, parents |-> par, index |-> ind,
                sig_tab |-> g.sig_tab, pending |-> g.pending]
      BY <2>3, <2>4
    <2>12. IsClosure(k)
      BY <2>9, <2>10, <2>11 DEF IsClosure
    <2>13. \A d \in Nodes : g.root[d] # d => k.parents[d] = g.parents[d]
      BY <2>1, <2>9, <2>11
    <2> QED
      BY <2>2, <2>11, <2>12, <2>13 DEF OnlyRoots
  <1> QED
    BY <1>1, <1>2

\* A table with one more signature, and with one less.
LEMMA TableAdd ==
    ASSUME NEW tab, tab \in [DOMAIN tab -> Nodes], NEW s, NEW n \in Nodes, s \notin DOMAIN tab,
           NEW t, t = Entered(tab, s, n)
    PROVE  /\ DOMAIN t = {s} \cup DOMAIN tab /\ t[s] = n
           /\ \A q \in DOMAIN tab : t[q] = tab[q]
           /\ t \in [DOMAIN t -> Nodes]
  BY DEF Entered

\* Taking an entry out leaves the others as they are.
LEMMA TableCut ==
    ASSUME NEW tab, tab \in [DOMAIN tab -> Nodes], NEW s,
           NEW t, t = Restrict(tab, DOMAIN tab \ {s})
    PROVE  /\ DOMAIN t = DOMAIN tab \ {s}
           /\ \A q \in DOMAIN t : t[q] = tab[q]
           /\ t \in [DOMAIN t -> Nodes]
  BY DEF Restrict

\* The use vector of y keeps its entries, but for the tag of the i-th.
Passed(h, g, y, i) ==
  /\ IsClosure(h) /\ h.root = g.root
  /\ \A d \in Nodes \ {y} : g.root[d] # d => h.parents[d] = g.parents[d]
  /\ Len(h.parents[y].data) = Len(g.parents[y].data)
  /\ \A j \in 1..Len(g.parents[y].data) : j # i => h.parents[y].data[j] = g.parents[y].data[j]

FieldsSet(h, g, tab, pend, ind) ==
  /\ IsClosure(g) /\ tab \in [DOMAIN tab -> Nodes] /\ pend \in Seq(Nodes)
  /\ ind \in [Sides -> [Nodes -> Nat]]
  /\ h = [root |-> g.root, parents |-> g.parents, index |-> ind, sig_tab |-> tab, pending |-> pend]
FieldsAre(h, g, tab, pend) ==
  /\ IsClosure(h) /\ h.root = g.root /\ h.parents = g.parents
  /\ h.sig_tab = tab /\ h.pending = pend

\* The other fields of a closure may be set.
LEMMA SetFields ==
    ASSUME NEW g, NEW tab, NEW pend, NEW ind, NEW h, FieldsSet(h, g, tab, pend, ind)
    PROVE  FieldsAre(h, g, tab, pend)
  <1>1. h = [root |-> g.root, parents |-> g.parents, index |-> ind, sig_tab |-> tab, pending |-> pend]
    BY DEF FieldsSet
  <1>2. /\ h.root = g.root /\ h.parents = g.parents
        /\ h.sig_tab = tab /\ h.pending = pend /\ h.index = ind
    BY <1>1
  <1>3. IsClosure(g) /\ tab \in [DOMAIN tab -> Nodes] /\ pend \in Seq(Nodes)
        /\ ind \in [Sides -> [Nodes -> Nat]]
    BY DEF FieldsSet
  <1>4. IsClosure(h)
    BY <1>1, <1>2, <1>3 DEF IsClosure
  <1> QED
    BY <1>2, <1>4 DEF FieldsAre

\* One field set.
LEMMA SetTable ==
    ASSUME NEW g, IsClosure(g), NEW tab, tab \in [DOMAIN tab -> Nodes],
           NEW h, h = [g EXCEPT !.sig_tab = tab]
    PROVE  FieldsAre(h, g, tab, g.pending)
  <1>1. g = [root |-> g.root, parents |-> g.parents, index |-> g.index,
             sig_tab |-> g.sig_tab, pending |-> g.pending]
    BY DEF IsClosure
  <1>2. h = [root |-> g.root, parents |-> g.parents, index |-> g.index,
             sig_tab |-> tab, pending |-> g.pending]
    BY <1>1
  <1>3. FieldsSet(h, g, tab, g.pending, g.index)
    BY <1>2 DEF FieldsSet, IsClosure
  <1> QED
    BY <1>3, SetFields

\* Positions and pending pairs set.
LEMMA SetIndex ==
    ASSUME NEW g, IsClosure(g), NEW ind \in [Sides -> [Nodes -> Nat]], NEW pend \in Seq(Nodes),
           NEW h, h = [g EXCEPT !.pending = pend, !.index = ind]
    PROVE  FieldsAre(h, g, g.sig_tab, pend)
  <1>1. g = [root |-> g.root, parents |-> g.parents, index |-> g.index,
             sig_tab |-> g.sig_tab, pending |-> g.pending]
    BY DEF IsClosure
  <1>2. h = [root |-> g.root, parents |-> g.parents, index |-> ind,
             sig_tab |-> g.sig_tab, pending |-> pend]
    BY <1>1
  <1>3. FieldsSet(h, g, g.sig_tab, pend, ind)
    BY <1>2 DEF FieldsSet, IsClosure
  <1> QED
    BY <1>3, SetFields

\* What a step of processParentsAfterMerge does.
AfterEffect(h, g, y, i) ==
  LET ent == g.parents[y].data[i]
      s == Sig(g.root, ent.e)
  IN \/ /\ ent.tag # "Valid" /\ h.sig_tab = g.sig_tab /\ h.pending = g.pending
        /\ h.parents[y].data[i] = ent
     \/ /\ ent.tag = "Valid" /\ s \in DOMAIN g.sig_tab
        /\ h.sig_tab = g.sig_tab /\ h.pending = g.pending \o <<ent.e, g.sig_tab[s]>>
     \/ /\ ent.tag = "Valid" /\ s \notin DOMAIN g.sig_tab
        /\ h.sig_tab = Entered(g.sig_tab, s, ent.e) /\ h.pending = g.pending
        /\ h.parents[y].data[i] = ent

\* Entries are tagged nodes.
LEMMA EntryFacts ==
    ASSUME NEW g, IsClosure(g), NEW y \in Nodes, NEW i \in 1..Len(g.parents[y].data)
    PROVE  /\ g.parents[y].data[i] \in Entries /\ g.parents[y].data[i].e \in Nodes
           /\ Len(g.parents[y].data) \in Nat /\ i \in Nat
           /\ g.parents[y].data[i].tag \in Tags
           /\ g.parents[y].data[i] = [tag |-> g.parents[y].data[i].tag, e |-> g.parents[y].data[i].e]
  <1>1. g.parents[y].data \in Seq(Entries)
    BY UseVectorFacts DEF IsClosure
  <1> DEFINE dat == g.parents[y].data
  <1>2. dat \in Seq(Entries)
    BY <1>1
  <1> HIDE DEF dat
  <1>3. Len(dat) \in Nat /\ \A j \in 1..Len(dat) : dat[j] \in Entries
    BY <1>2, SeqFacts
  <1>4. i \in Nat /\ dat[i] \in Entries
    BY <1>3 DEF dat
  <1>5. dat[i].e \in Nodes /\ dat[i].tag \in Tags /\ dat[i] = [tag |-> dat[i].tag, e |-> dat[i].e]
    BY <1>4 DEF Entries, Tags
  <1> QED
    BY <1>3, <1>4, <1>5 DEF dat

\* One parent gone through after a merge.
LEMMA AfterStep ==
    ASSUME NEW g, IsClosure(g), NEW y \in Nodes, g.root[y] # y, NEW side \in Sides,
           NEW i \in 1..Len(g.parents[y].data),
           NEW h, h = ParentAfterMerge(g, y, side, i)
    PROVE  Passed(h, g, y, i) /\ AfterEffect(h, g, y, i)
  <1> DEFINE ent == g.parents[y].data[i]
             n == ent.e
             s == Sig(g.root, n)
             k == [g EXCEPT !.parents[y].data[i].tag = "Marked"]
             m == clearEntryAt(k, Other(side), n)
             pend == g.pending \o <<n, g.sig_tab[s]>>
             tab == Entered(g.sig_tab, s, n)
  <1>0. /\ ent \in Entries /\ n \in Nodes /\ Len(g.parents[y].data) \in Nat /\ i \in Nat
        /\ Other(side) \in Sides /\ "Marked" \in Tags
    BY EntryFacts DEF Other, Sides, Tags
  <1>1. CASE ent.tag # "Valid"
    <2>1. h = g
      BY <1>1 DEF ParentAfterMerge
    <2> QED
      BY <1>1, <2>1 DEF Passed, AfterEffect
  <1>2. CASE ent.tag = "Valid" /\ s \in DOMAIN g.sig_tab
    <2> DEFINE ind == [m.index EXCEPT ![Other(side)] = [m.index[Other(side)] EXCEPT ![n] = 0]]
    <2>1. h = [m EXCEPT !.pending = m.pending \o <<n, g.sig_tab[s]>>, !.index[Other(side)][n] = 0]
      BY <1>2 DEF ParentAfterMerge
    <2> HIDE DEF k
    <2>2. /\ IsClosure(k)
          /\ k.root = g.root /\ k.sig_tab = g.sig_tab /\ k.pending = g.pending
          /\ \A d \in Nodes \ {y} : k.parents[d] = g.parents[d]
          /\ Len(k.parents[y].data) = Len(g.parents[y].data)
          /\ \A j \in 1..Len(g.parents[y].data) : j # i => k.parents[y].data[j] = g.parents[y].data[j]
      BY <1>0, TagSet DEF k
    <2>3. OnlyRoots(m, k)
      BY <1>0, <2>2, ClearEntry
    <2> HIDE DEF m
    <2>4. /\ IsClosure(m) /\ m.root = g.root /\ m.sig_tab = g.sig_tab /\ m.pending = g.pending
          /\ \A d \in Nodes : g.root[d] # d => m.parents[d] = k.parents[d]
      BY <2>2, <2>3 DEF OnlyRoots
    <2>5. h = [m EXCEPT !.pending = pend, !.index = ind]
      BY <2>1, <2>4
    <2>6. g.sig_tab \in [DOMAIN g.sig_tab -> Nodes] /\ pend \in Seq(Nodes)
      <3>1. g.sig_tab \in [DOMAIN g.sig_tab -> Nodes] /\ g.pending \in Seq(Nodes)
        BY DEF IsClosure
      <3>2. <<n, g.sig_tab[s]>> \in Seq(Nodes)
        BY <1>0, <1>2, <3>1
      <3> QED
        BY <3>1, <3>2
    <2>7. ind \in [Sides -> [Nodes -> Nat]]
      BY <1>0, <2>4 DEF IsClosure
    <2> HIDE DEF ind, pend, s, n, ent
    <2>8. /\ IsClosure(h) /\ h.root = m.root /\ h.parents = m.parents
          /\ h.sig_tab = g.sig_tab /\ h.pending = pend
      <3>1. FieldsAre(h, m, m.sig_tab, pend)
        BY <2>4, <2>5, <2>6, <2>7, SetIndex
      <3> QED
        BY <2>4, <3>1 DEF FieldsAre
    <2>9. Passed(h, g, y, i)
      BY <2>2, <2>4, <2>8 DEF Passed
    <2> QED
      BY <1>2, <2>8, <2>9 DEF AfterEffect, pend, s, n, ent
  <1>3. CASE ent.tag = "Valid" /\ s \notin DOMAIN g.sig_tab
    <2> DEFINE q == [g EXCEPT !.sig_tab = tab]
    <2>1. h = addParent(q, side, n)
      BY <1>3 DEF ParentAfterMerge
    <2>2. g.sig_tab \in [DOMAIN g.sig_tab -> Nodes] /\ g.pending \in Seq(Nodes)
          /\ g.index \in [Sides -> [Nodes -> Nat]]
      BY DEF IsClosure
    <2>3. tab \in [DOMAIN tab -> Nodes]
      <3> HIDE DEF s, n, ent
      <3> QED
        BY <1>0, <1>3, <2>2, TableAdd
    <2> HIDE DEF tab
    <2>4. q = [g EXCEPT !.sig_tab = tab]
      OBVIOUS
    <2> HIDE DEF q
    <2>5. /\ IsClosure(q) /\ q.root = g.root /\ q.parents = g.parents
          /\ q.sig_tab = tab /\ q.pending = g.pending
      <3>1. FieldsAre(q, g, tab, g.pending)
        BY <2>3, <2>4, SetTable
      <3> QED
        BY <3>1 DEF FieldsAre
    <2>6. OnlyRoots(h, q)
      BY <1>0, <2>1, <2>5, AddParent
    <2>7. /\ IsClosure(h) /\ h.root = g.root /\ h.sig_tab = tab /\ h.pending = g.pending
          /\ \A d \in Nodes : g.root[d] # d => h.parents[d] = g.parents[d]
      BY <2>5, <2>6 DEF OnlyRoots
    <2>8. Passed(h, g, y, i)
      BY <2>7 DEF Passed
    <2> QED
      BY <1>3, <2>7, <2>8 DEF AfterEffect, tab
  <1> QED
    BY <1>1, <1>2, <1>3

\* What a step of processParentsBeforeUnMerge does.
BeforeEffect(h, g, y, i) ==
  LET ent == g.parents[y].data[i]
      s == Sig(g.root, ent.e)
  IN /\ h.pending = g.pending
     /\ ent.tag = "Valid" => h.sig_tab = Restrict(g.sig_tab, DOMAIN g.sig_tab \ {s})
     /\ ent.tag # "Valid" => h.sig_tab = g.sig_tab

\* One parent gone through before the merge is undone.
LEMMA BeforeStep ==
    ASSUME NEW g, IsClosure(g), NEW y \in Nodes, g.root[y] # y, NEW side \in Sides,
           NEW i \in 1..Len(g.parents[y].data),
           NEW h, h = ParentBeforeUnMerge(g, y, side, i)
    PROVE  Passed(h, g, y, i) /\ BeforeEffect(h, g, y, i)
  <1> DEFINE ent == g.parents[y].data[i]
             n == ent.e
             s == Sig(g.root, n)
             tab == Restrict(g.sig_tab, DOMAIN g.sig_tab \ {s})
  <1>0. /\ ent \in Entries /\ n \in Nodes /\ Len(g.parents[y].data) \in Nat /\ i \in Nat
        /\ Other(side) \in Sides /\ "Valid" \in Tags
    BY EntryFacts DEF Other, Sides, Tags
  <1>1. CASE ent.tag = "Valid"
    <2> DEFINE q == [g EXCEPT !.sig_tab = tab]
               m == clearEntryAt(q, side, n)
               ind == [m.index EXCEPT ![side] = [m.index[side] EXCEPT ![n] = i]]
    <2>1. h = [m EXCEPT !.index[side][n] = i]
      BY <1>1 DEF ParentBeforeUnMerge
    <2>2. g.sig_tab \in [DOMAIN g.sig_tab -> Nodes] /\ g.pending \in Seq(Nodes)
          /\ g.index \in [Sides -> [Nodes -> Nat]]
      BY DEF IsClosure
    <2>3. tab \in [DOMAIN tab -> Nodes]
      BY <2>2, TableCut
    <2> HIDE DEF tab
    <2>4. q = [g EXCEPT !.sig_tab = tab]
      OBVIOUS
    <2> HIDE DEF q
    <2>5. /\ IsClosure(q) /\ q.root = g.root /\ q.parents = g.parents
          /\ q.sig_tab = tab /\ q.pending = g.pending
      <3>1. FieldsAre(q, g, tab, g.pending)
        BY <2>3, <2>4, SetTable
      <3> QED
        BY <3>1 DEF FieldsAre
    <2>6. OnlyRoots(m, q)
      BY <1>0, <2>5, ClearEntry
    <2> HIDE DEF m
    <2>7. /\ IsClosure(m) /\ m.root = g.root /\ m.sig_tab = tab /\ m.pending = g.pending
          /\ \A d \in Nodes : g.root[d] # d => m.parents[d] = g.parents[d]
      BY <2>5, <2>6 DEF OnlyRoots
    <2>8. ind \in [Sides -> [Nodes -> Nat]]
      BY <1>0, <2>7 DEF IsClosure
    <2>9. m.pending \in Seq(Nodes) /\ h = [m EXCEPT !.pending = m.pending, !.index = ind]
      <3>1. h = [m EXCEPT !.index = ind]
        BY <2>1
      <3>2. m = [root |-> m.root, parents |-> m.parents, index |-> m.index,
                 sig_tab |-> m.sig_tab, pending |-> m.pending] /\ m.pending \in Seq(Nodes)
        BY <2>7 DEF IsClosure
      <3> HIDE DEF ind
      <3> QED
        BY <3>1, <3>2
    <2> HIDE DEF ind
    <2>10. FieldsAre(h, m, m.sig_tab, m.pending)
      BY <2>7, <2>8, <2>9, SetIndex
    <2>11. /\ IsClosure(h) /\ h.root = m.root /\ h.parents = m.parents
           /\ h.sig_tab = m.sig_tab /\ h.pending = m.pending
      BY <2>10 DEF FieldsAre
    <2>12. Passed(h, g, y, i)
      BY <2>7, <2>11 DEF Passed
    <2> QED
      BY <1>1, <2>7, <2>11, <2>12 DEF BeforeEffect, tab
  <1>2. CASE ent.tag = "Marked"
    <2> DEFINE k == [g EXCEPT !.parents[y].data[i].tag = "Valid"]
    <2>1. h = addParent(k, Other(side), n)
      BY <1>2 DEF ParentBeforeUnMerge
    <2> HIDE DEF k
    <2>2. /\ IsClosure(k)
          /\ k.root = g.root /\ k.sig_tab = g.sig_tab /\ k.pending = g.pending
          /\ \A d \in Nodes \ {y} : k.parents[d] = g.parents[d]
          /\ Len(k.parents[y].data) = Len(g.parents[y].data)
          /\ \A j \in 1..Len(g.parents[y].data) : j # i => k.parents[y].data[j] = g.parents[y].data[j]
      BY <1>0, TagSet DEF k
    <2>3. OnlyRoots(h, k)
      BY <1>0, <2>1, <2>2, AddParent
    <2>4. /\ IsClosure(h) /\ h.root = g.root /\ h.sig_tab = g.sig_tab /\ h.pending = g.pending
          /\ \A d \in Nodes : g.root[d] # d => h.parents[d] = k.parents[d]
      BY <2>2, <2>3 DEF OnlyRoots
    <2>5. Passed(h, g, y, i)
      BY <2>2, <2>4 DEF Passed
    <2> QED
      BY <1>2, <2>4, <2>5 DEF BeforeEffect
  <1>3. CASE ent.tag \notin {"Valid", "Marked"}
    <2>1. h = g
      BY <1>3 DEF ParentBeforeUnMerge
    <2> QED
      BY <1>3, <2>1 DEF Passed, BeforeEffect
  <1> QED
    BY <1>1, <1>2, <1>3

\* The turns of processParentsAfterMerge, one after the other.
AfterRun(f, g, y) ==
  /\ f[0] = g
  /\ \A i \in 1..Len(g.parents[y].data) : f[i] = ParentAfterMerge(f[i - 1], y, UseSide(y), i)
  /\ processParentsAfterMerge(g, y) = f[Len(g.parents[y].data)]

\* There are such turns.
LEMMA AfterDone ==
    ASSUME NEW g, NEW y, Len(g.parents[y].data) \in Nat
    PROVE  \E f : AfterRun(f, g, y)
  <1> DEFINE n == Len(g.parents[y].data)
             Done(f, k) == f = [i \in 0..k |-> IF i = 0 THEN g ELSE ParentAfterMerge(f[i - 1], y, UseSide(y), i)]
             Bad == {k \in 0..n : ~ (\E f : Done(f, k))}
  <1>0. n \in Nat
    OBVIOUS
  <1>1. \E f : Done(f, 0)
    <2>1. Done([i \in 0..0 |-> g], 0)
      OBVIOUS
    <2> HIDE DEF Done
    <2> QED
      BY <2>1
  <1>2. ASSUME NEW k \in 1..n, \E f : Done(f, k - 1)
        PROVE  \E f : Done(f, k)
    <2>1. PICK f : Done(f, k - 1)
      BY <1>2
    <2> DEFINE h == [i \in 0..k |-> IF i = k THEN ParentAfterMerge(f[k - 1], y, UseSide(y), k) ELSE f[i]]
    <2>0. k \in Nat /\ k # 0 /\ k - 1 \in 0..k /\ k - 1 # k
      BY <1>0
    <2>2. DOMAIN h = 0..k /\ h[k] = ParentAfterMerge(h[k - 1], y, UseSide(y), k)
      <3>1. h[k] = ParentAfterMerge(f[k - 1], y, UseSide(y), k) /\ h[k - 1] = f[k - 1]
        BY <2>0
      <3> QED
        BY <3>1
    <2>3. \A i \in 0..k - 1 : f[i] = IF i = 0 THEN g ELSE ParentAfterMerge(f[i - 1], y, UseSide(y), i)
      BY <2>1
    <2>4. \A i \in 0..k : i # k => h[i] = f[i]
      OBVIOUS
    <2>5. h = [i \in 0..k |-> h[i]]
      OBVIOUS
    <2> HIDE DEF h
    <2>6. ASSUME NEW i \in 0..k
          PROVE  h[i] = IF i = 0 THEN g ELSE ParentAfterMerge(h[i - 1], y, UseSide(y), i)
      <3>1. CASE i = k
        BY <2>0, <2>2, <3>1
      <3>2. CASE i # k /\ i # 0
        <4>1. i \in 0..k - 1 /\ i - 1 \in 0..k /\ i - 1 # k
          BY <2>0, <3>2
        <4>2. h[i] = f[i] /\ h[i - 1] = f[i - 1]
          BY <2>4, <3>2, <4>1
        <4> QED
          BY <2>3, <3>2, <4>1, <4>2
      <3>3. CASE i = 0
        <4>1. i \in 0..k - 1 /\ i # k
          BY <2>0, <3>3
        <4> QED
          BY <2>3, <2>4, <3>3, <4>1
      <3> QED
        BY <3>1, <3>2, <3>3
    <2>7. Done(h, k)
      BY <2>5, <2>6
    <2> HIDE DEF Done
    <2> QED
      BY <2>7
  <1>3. \E f : Done(f, n)
    <2> SUFFICES ASSUME n \in Bad PROVE FALSE
      BY <1>0
    <2> HIDE DEF Done, n
    <2>1. PICK k \in Bad : \A l \in Bad : k <= l
      <3>1. Bad \in SUBSET Nat
        OBVIOUS
      <3> HIDE DEF Bad
      <3> QED
        BY <3>1, MinExists
    <2>2. k # 0 /\ k \in 0..n /\ ~ (\E f : Done(f, k))
      BY <1>1, <2>1
    <2>3. k \in 1..n /\ k - 1 \in 0..n /\ ~ (k <= k - 1)
      BY <1>0, <2>2
    <2>4. \E f : Done(f, k - 1)
      BY <2>1, <2>3
    <2> QED
      BY <1>2, <2>2, <2>3, <2>4
  <1> DEFINE c == CHOOSE done : done = [i \in 0..n |-> IF i = 0 THEN g ELSE ParentAfterMerge(done[i - 1], y, UseSide(y), i)]
  <1>4. c = [i \in 0..n |-> IF i = 0 THEN g ELSE ParentAfterMerge(c[i - 1], y, UseSide(y), i)]
    BY <1>3
  <1>5. processParentsAfterMerge(g, y) = c[n]
    BY DEF processParentsAfterMerge
  <1> HIDE DEF c
  <1>6. \A i \in 0..n : c[i] = IF i = 0 THEN g ELSE ParentAfterMerge(c[i - 1], y, UseSide(y), i)
    BY <1>4
  <1>7. 0 \in 0..n /\ \A i \in 1..n : i \in 0..n /\ i # 0
    BY <1>0
  <1>8. c[0] = g /\ \A i \in 1..n : c[i] = ParentAfterMerge(c[i - 1], y, UseSide(y), i)
    BY <1>6, <1>7
  <1> QED
    BY <1>5, <1>8 DEF AfterRun

\* The turns of processParentsBeforeUnMerge, one after the other.
BeforeRun(f, g, y) ==
  /\ f[0] = g
  /\ \A i \in 1..Len(g.parents[y].data) : f[i] = ParentBeforeUnMerge(f[i - 1], y, UseSide(y), i)
  /\ processParentsBeforeUnMerge(g, y) = f[Len(g.parents[y].data)]

\* There are such turns, too.
LEMMA BeforeDone ==
    ASSUME NEW g, NEW y, Len(g.parents[y].data) \in Nat
    PROVE  \E f : BeforeRun(f, g, y)
  <1> DEFINE n == Len(g.parents[y].data)
             Done(f, k) == f = [i \in 0..k |-> IF i = 0 THEN g ELSE ParentBeforeUnMerge(f[i - 1], y, UseSide(y), i)]
             Bad == {k \in 0..n : ~ (\E f : Done(f, k))}
  <1>0. n \in Nat
    OBVIOUS
  <1>1. \E f : Done(f, 0)
    <2>1. Done([i \in 0..0 |-> g], 0)
      OBVIOUS
    <2> HIDE DEF Done
    <2> QED
      BY <2>1
  <1>2. ASSUME NEW k \in 1..n, \E f : Done(f, k - 1)
        PROVE  \E f : Done(f, k)
    <2>1. PICK f : Done(f, k - 1)
      BY <1>2
    <2> DEFINE h == [i \in 0..k |-> IF i = k THEN ParentBeforeUnMerge(f[k - 1], y, UseSide(y), k) ELSE f[i]]
    <2>0. k \in Nat /\ k # 0 /\ k - 1 \in 0..k /\ k - 1 # k
      BY <1>0
    <2>2. DOMAIN h = 0..k /\ h[k] = ParentBeforeUnMerge(h[k - 1], y, UseSide(y), k)
      <3>1. h[k] = ParentBeforeUnMerge(f[k - 1], y, UseSide(y), k) /\ h[k - 1] = f[k - 1]
        BY <2>0
      <3> QED
        BY <3>1
    <2>3. \A i \in 0..k - 1 : f[i] = IF i = 0 THEN g ELSE ParentBeforeUnMerge(f[i - 1], y, UseSide(y), i)
      BY <2>1
    <2>4. \A i \in 0..k : i # k => h[i] = f[i]
      OBVIOUS
    <2>5. h = [i \in 0..k |-> h[i]]
      OBVIOUS
    <2> HIDE DEF h
    <2>6. ASSUME NEW i \in 0..k
          PROVE  h[i] = IF i = 0 THEN g ELSE ParentBeforeUnMerge(h[i - 1], y, UseSide(y), i)
      <3>1. CASE i = k
        BY <2>0, <2>2, <3>1
      <3>2. CASE i # k /\ i # 0
        <4>1. i \in 0..k - 1 /\ i - 1 \in 0..k /\ i - 1 # k
          BY <2>0, <3>2
        <4>2. h[i] = f[i] /\ h[i - 1] = f[i - 1]
          BY <2>4, <3>2, <4>1
        <4> QED
          BY <2>3, <3>2, <4>1, <4>2
      <3>3. CASE i = 0
        <4>1. i \in 0..k - 1 /\ i # k
          BY <2>0, <3>3
        <4> QED
          BY <2>3, <2>4, <3>3, <4>1
      <3> QED
        BY <3>1, <3>2, <3>3
    <2>7. Done(h, k)
      BY <2>5, <2>6
    <2> HIDE DEF Done
    <2> QED
      BY <2>7
  <1>3. \E f : Done(f, n)
    <2> SUFFICES ASSUME n \in Bad PROVE FALSE
      BY <1>0
    <2> HIDE DEF Done, n
    <2>1. PICK k \in Bad : \A l \in Bad : k <= l
      <3>1. Bad \in SUBSET Nat
        OBVIOUS
      <3> HIDE DEF Bad
      <3> QED
        BY <3>1, MinExists
    <2>2. k # 0 /\ k \in 0..n /\ ~ (\E f : Done(f, k))
      BY <1>1, <2>1
    <2>3. k \in 1..n /\ k - 1 \in 0..n /\ ~ (k <= k - 1)
      BY <1>0, <2>2
    <2>4. \E f : Done(f, k - 1)
      BY <2>1, <2>3
    <2> QED
      BY <1>2, <2>2, <2>3, <2>4
  <1> DEFINE c == CHOOSE done : done = [i \in 0..n |-> IF i = 0 THEN g ELSE ParentBeforeUnMerge(done[i - 1], y, UseSide(y), i)]
  <1>4. c = [i \in 0..n |-> IF i = 0 THEN g ELSE ParentBeforeUnMerge(c[i - 1], y, UseSide(y), i)]
    BY <1>3
  <1>5. processParentsBeforeUnMerge(g, y) = c[n]
    BY DEF processParentsBeforeUnMerge
  <1> HIDE DEF c
  <1>6. \A i \in 0..n : c[i] = IF i = 0 THEN g ELSE ParentBeforeUnMerge(c[i - 1], y, UseSide(y), i)
    BY <1>4
  <1>7. 0 \in 0..n /\ \A i \in 1..n : i \in 0..n /\ i # 0
    BY <1>0
  <1>8. c[0] = g /\ \A i \in 1..n : c[i] = ParentBeforeUnMerge(c[i - 1], y, UseSide(y), i)
    BY <1>6, <1>7
  <1> QED
    BY <1>5, <1>8 DEF BeforeRun

\* Pending pairs with one more pair of equal signatures.
LEMMA PairedAppend ==
    ASSUME NEW p \in Seq(Nodes), NEW r, Paired(p, r), NEW a \in Nodes, NEW b \in Nodes,
           Sig(r, a) = Sig(r, b)
    PROVE  Paired(p \o <<a, b>>, r)
  <1>1. PICK n \in Nat : Len(p) = 2 * n /\ \A i \in 1..n : Sig(r, p[2 * i - 1]) = Sig(r, p[2 * i])
    BY DEF Paired
  <1> DEFINE t == <<a, b>>
             q == p \o t
  <1>2. t \in Seq(Nodes) /\ Len(t) = 2 /\ t[1] = a /\ t[2] = b
    OBVIOUS
  <1> HIDE DEF t
  <1>3. /\ Len(q) = Len(p) + Len(t)
        /\ \A i \in 1..Len(p) + Len(t) : q[i] = IF i <= Len(p) THEN p[i] ELSE t[i - Len(p)]
    BY <1>2, ConcatProperties
  <1> HIDE DEF q
  <1>4. Len(q) = 2 * (n + 1) /\ n + 1 \in Nat
    BY <1>1, <1>2, <1>3
  <1>5. ASSUME NEW i \in 1..n + 1
        PROVE  Sig(r, q[2 * i - 1]) = Sig(r, q[2 * i])
    <2>1. CASE i \in 1..n
      <3>1. /\ 2 * i - 1 \in 1..2 * n + 2 /\ 2 * i \in 1..2 * n + 2
            /\ 2 * i - 1 <= 2 * n /\ 2 * i <= 2 * n
        BY <2>1
      <3>2. q[2 * i - 1] = p[2 * i - 1] /\ q[2 * i] = p[2 * i]
        BY <1>1, <1>2, <1>3, <3>1
      <3> QED
        BY <1>1, <2>1, <3>2
    <2>2. CASE i = n + 1
      <3>1. /\ 2 * i - 1 \in 1..2 * n + 2 /\ 2 * i \in 1..2 * n + 2
            /\ ~ (2 * i - 1 <= 2 * n) /\ ~ (2 * i <= 2 * n)
            /\ 2 * i - 1 - 2 * n = 1 /\ 2 * i - 2 * n = 2
        BY <2>2
      <3>2. q[2 * i - 1] = t[1] /\ q[2 * i] = t[2]
        BY <1>1, <1>2, <1>3, <3>1
      <3> QED
        BY <1>2, <3>2
    <2>3. i \in 1..n \/ i = n + 1
      OBVIOUS
    <2> QED
      BY <2>1, <2>2, <2>3
  <1>6. Paired(q, r)
    BY <1>4, <1>5 DEF Paired
  <1> QED
    BY <1>6 DEF q, t

\* The components of a signature are roots.
LEMMA SigLive ==
    ASSUME NEW r, Roots(r), NEW n \in Nodes
    PROVE  Live(r, Sig(r, n))
  <1>1. (Car(n) = ERef_Nil \/ Car(n) \in Nodes) /\ (Cdr(n) = ERef_Nil \/ Cdr(n) \in Nodes)
    BY ChildFacts, TermFacts
  <1>2. \A c : c = ERef_Nil \/ c \in Nodes =>
          RootIn(r, c) = ERef_Nil \/ (RootIn(r, c) \in Nodes /\ r[RootIn(r, c)] = RootIn(r, c))
    BY DEF Roots, RootIn
  <1> QED
    BY <1>1, <1>2 DEF Live, Sig

SoundTable(g) == \A s \in DOMAIN g.sig_tab : Live(g.root, s) => Sig(g.root, g.sig_tab[s]) = s
NewKey(f, y, n, s) ==
  /\ \E j \in 1..n : f.parents[y].data[j] = [tag |-> "Valid", e |-> f.sig_tab[s]]
  /\ Sig(f.root, f.sig_tab[s]) = s

\* How far the parents of y have been gone through.
AfterPart(f, g, y, i) ==
  /\ IsClosure(f) /\ f.root = g.root
  /\ \A d \in Nodes \ {y} : g.root[d] # d => f.parents[d] = g.parents[d]
  /\ Len(f.parents[y].data) = Len(g.parents[y].data)
  /\ \A j \in i + 1..Len(g.parents[y].data) : f.parents[y].data[j] = g.parents[y].data[j]
  /\ \A s \in DOMAIN g.sig_tab : s \in DOMAIN f.sig_tab /\ f.sig_tab[s] = g.sig_tab[s]
  /\ \A s \in DOMAIN f.sig_tab \ DOMAIN g.sig_tab : NewKey(f, y, i, s)
  /\ Paired(f.pending, g.root)

\* One more parent, after a merge.
LEMMA AfterPartStep ==
    ASSUME NEW g, IsClosure(g), NEW y \in Nodes, g.root[y] # y, SoundTable(g),
           NEW i \in 1..Len(g.parents[y].data), NEW f, AfterPart(f, g, y, i - 1),
           NEW h, h = ParentAfterMerge(f, y, UseSide(y), i)
    PROVE  AfterPart(h, g, y, i)
  <1> DEFINE n == Len(g.parents[y].data)
             ent == f.parents[y].data[i]
             s0 == Sig(f.root, ent.e)
  <1>0. /\ IsClosure(f) /\ f.root = g.root
        /\ \A d \in Nodes \ {y} : g.root[d] # d => f.parents[d] = g.parents[d]
        /\ Len(f.parents[y].data) = n
        /\ \A j \in (i - 1) + 1..n : f.parents[y].data[j] = g.parents[y].data[j]
        /\ \A s \in DOMAIN g.sig_tab : s \in DOMAIN f.sig_tab /\ f.sig_tab[s] = g.sig_tab[s]
        /\ \A s \in DOMAIN f.sig_tab \ DOMAIN g.sig_tab : NewKey(f, y, i - 1, s)
        /\ Paired(f.pending, g.root)
    BY DEF AfterPart
  <1>1. UseSide(y) \in Sides /\ i \in 1..Len(f.parents[y].data)
    BY <1>0 DEF UseSide, Sides
  <1>2. f.root[y] # y
    BY <1>0
  <1>3. Passed(h, f, y, i) /\ AfterEffect(h, f, y, i)
    BY <1>0, <1>1, <1>2, AfterStep
  <1>4. ent \in Entries /\ ent.e \in Nodes /\ n \in Nat /\ i \in Nat
        /\ ent = [tag |-> ent.tag, e |-> ent.e]
    BY <1>0, <1>1, EntryFacts
  <1>5. /\ IsClosure(h) /\ h.root = g.root
        /\ \A d \in Nodes \ {y} : g.root[d] # d => h.parents[d] = g.parents[d]
        /\ Len(h.parents[y].data) = n
        /\ \A j \in 1..n : j # i => h.parents[y].data[j] = f.parents[y].data[j]
    BY <1>0, <1>3 DEF Passed
  <1>6. \A j \in i + 1..n : h.parents[y].data[j] = g.parents[y].data[j]
    <2>1. \A j \in i + 1..n : j \in 1..n /\ j # i /\ j \in (i - 1) + 1..n
      BY <1>4
    <2> QED
      BY <1>0, <1>5, <2>1
  <1>7. Roots(g.root) /\ Live(g.root, s0)
    BY <1>0, <1>4, SigLive DEF IsClosure
  <1>8. \A j \in 1..i - 1 : j \in 1..n /\ j # i /\ j \in 1..i
    BY <1>4
  \* a key with its holder below i stays as it is
  <1>9. ASSUME NEW s, NewKey(f, y, i - 1, s), h.sig_tab[s] = f.sig_tab[s]
        PROVE  NewKey(h, y, i, s)
    BY <1>0, <1>5, <1>8, <1>9 DEF NewKey
  <1>10. CASE h.sig_tab = f.sig_tab
    <2>1. /\ \A s \in DOMAIN g.sig_tab : s \in DOMAIN h.sig_tab /\ h.sig_tab[s] = g.sig_tab[s]
          /\ \A s \in DOMAIN h.sig_tab \ DOMAIN g.sig_tab : NewKey(h, y, i, s)
      BY <1>0, <1>9, <1>10
    <2>2. Paired(h.pending, g.root)
      <3>1. CASE h.pending = f.pending
        BY <1>0, <3>1
      <3>2. CASE h.pending # f.pending /\ s0 \in DOMAIN f.sig_tab
                 /\ h.pending = f.pending \o <<ent.e, f.sig_tab[s0]>>
        <4>1. f.sig_tab[s0] \in Nodes /\ f.pending \in Seq(Nodes)
          BY <1>0, <3>2 DEF IsClosure
        <4>2. Sig(g.root, f.sig_tab[s0]) = s0
          <5>1. CASE s0 \in DOMAIN g.sig_tab
            BY <1>0, <1>7, <5>1 DEF SoundTable
          <5>2. CASE s0 \notin DOMAIN g.sig_tab
            BY <1>0, <3>2, <5>2 DEF NewKey
          <5> QED
            BY <5>1, <5>2
        <4>3. Sig(g.root, ent.e) = Sig(g.root, f.sig_tab[s0])
          BY <1>0, <4>2
        <4> DEFINE b == f.sig_tab[s0]
                   a == ent.e
        <4>4. a \in Nodes /\ b \in Nodes /\ Sig(g.root, a) = Sig(g.root, b)
              /\ h.pending = f.pending \o <<a, b>>
          BY <1>4, <3>2, <4>1, <4>3
        <4> HIDE DEF a, b
        <4> QED
          BY <1>0, <4>1, <4>4, PairedAppend
      <3> QED
        BY <1>3, <3>1, <3>2 DEF AfterEffect
    <2> QED
      BY <1>5, <1>6, <2>1, <2>2 DEF AfterPart
  <1>11. CASE /\ ent.tag = "Valid" /\ s0 \notin DOMAIN f.sig_tab
              /\ h.sig_tab = Entered(f.sig_tab, s0, ent.e) /\ h.pending = f.pending
              /\ h.parents[y].data[i] = ent
    <2>1. f.sig_tab \in [DOMAIN f.sig_tab -> Nodes]
      BY <1>0 DEF IsClosure
    <2> DEFINE a == ent.e
    <2>2. a \in Nodes /\ h.sig_tab = Entered(f.sig_tab, s0, a)
      BY <1>4, <1>11
    <2> HIDE DEF a, s0
    <2>3. /\ DOMAIN h.sig_tab = {s0} \cup DOMAIN f.sig_tab /\ h.sig_tab[s0] = a
          /\ \A q \in DOMAIN f.sig_tab : h.sig_tab[q] = f.sig_tab[q]
      <3> DEFINE tab == f.sig_tab
                 t == h.sig_tab
      <3>1. tab \in [DOMAIN tab -> Nodes] /\ s0 \notin DOMAIN tab /\ t = Entered(tab, s0, a)
        BY <1>11, <2>1, <2>2 DEF s0
      <3> HIDE DEF tab, t
      <3>2. /\ DOMAIN t = {s0} \cup DOMAIN tab /\ t[s0] = a
            /\ \A q \in DOMAIN tab : t[q] = tab[q]
        BY ONLY <3>1 DEF Entered
      <3> QED
        BY <3>2 DEF tab, t
    <2>4. s0 \notin DOMAIN g.sig_tab
      BY <1>0, <1>11
    <2>5. \A s \in DOMAIN g.sig_tab : s \in DOMAIN h.sig_tab /\ h.sig_tab[s] = g.sig_tab[s]
      BY <1>0, <2>3, <2>4
    <2>6. NewKey(h, y, i, s0)
      <3>1. h.parents[y].data[i] = [tag |-> "Valid", e |-> h.sig_tab[s0]]
        BY <1>4, <1>11, <2>3 DEF a
      <3>2. Sig(h.root, h.sig_tab[s0]) = s0
        BY <1>0, <1>5, <2>3 DEF s0, a
      <3>3. i \in 1..i
        BY <1>4
      <3> QED
        BY <3>1, <3>2, <3>3 DEF NewKey
    <2>7. \A s \in DOMAIN h.sig_tab \ DOMAIN g.sig_tab : NewKey(h, y, i, s)
      BY <1>0, <1>9, <2>3, <2>6
    <2>8. Paired(h.pending, g.root)
      BY <1>0, <1>11
    <2> QED
      BY <1>5, <1>6, <2>5, <2>7, <2>8 DEF AfterPart
  <1> QED
    BY <1>3, <1>10, <1>11 DEF AfterEffect

\* The parents of a class that has joined another.
LEMMA AfterMerge ==
    ASSUME NEW g, IsClosure(g), NEW y \in Nodes, g.root[y] # y, SoundTable(g),
           Paired(g.pending, g.root)
    PROVE  AfterPart(processParentsAfterMerge(g, y), g, y, Len(g.parents[y].data))
  <1> DEFINE n == Len(g.parents[y].data)
  <1>0. n \in Nat
    BY SeqFacts, UseVectorFacts DEF IsClosure
  <1> HIDE DEF n
  <1>1. PICK f : /\ f[0] = g
                 /\ \A i \in 1..n : f[i] = ParentAfterMerge(f[i - 1], y, UseSide(y), i)
                 /\ processParentsAfterMerge(g, y) = f[n]
    <2>1. Len(g.parents[y].data) \in Nat
      BY <1>0 DEF n
    <2>2. \E f : AfterRun(f, g, y)
      BY <2>1, AfterDone
    <2> QED
      BY <2>2 DEF n, AfterRun
  <1>2. AfterPart(f[0], g, y, 0)
    BY <1>1 DEF AfterPart, n
  <1> DEFINE Bad == {i \in 0..n : ~ AfterPart(f[i], g, y, i)}
  <1> SUFFICES ASSUME n \in Bad PROVE FALSE
    BY <1>0, <1>1 DEF n
  <1>3. PICK k \in Bad : \A l \in Bad : k <= l
    <2>1. Bad \in SUBSET Nat
      OBVIOUS
    <2> HIDE DEF Bad
    <2> QED
      BY <2>1, MinExists
  <1>4. k # 0 /\ k \in 0..n /\ ~ AfterPart(f[k], g, y, k)
    BY <1>2, <1>3
  <1>5. k \in 1..n /\ k - 1 \in 0..n /\ ~ (k <= k - 1)
    BY <1>0, <1>4
  <1>6. AfterPart(f[k - 1], g, y, k - 1)
    BY <1>3, <1>5
  <1>7. f[k] = ParentAfterMerge(f[k - 1], y, UseSide(y), k)
    BY <1>1, <1>5
  <1>8. AfterPart(f[k], g, y, k)
    BY <1>5, <1>6, <1>7, AfterPartStep DEF n
  <1> QED
    BY <1>4, <1>8

\* How far the parents of y have been gone through before its class is taken out.
BeforePart(f, g, y, i) ==
  /\ IsClosure(f) /\ f.root = g.root
  /\ \A d \in Nodes \ {y} : g.root[d] # d => f.parents[d] = g.parents[d]
  /\ Len(f.parents[y].data) = Len(g.parents[y].data)
  /\ \A j \in i + 1..Len(g.parents[y].data) : f.parents[y].data[j] = g.parents[y].data[j]
  /\ \A s \in DOMAIN f.sig_tab :
       /\ s \in DOMAIN g.sig_tab /\ f.sig_tab[s] = g.sig_tab[s]
       /\ \A j \in 1..i : g.parents[y].data[j].tag = "Valid" =>
                            s # Sig(g.root, g.parents[y].data[j].e)

\* One more parent, before the merge is undone.
LEMMA BeforePartStep ==
    ASSUME NEW g, IsClosure(g), NEW y \in Nodes, g.root[y] # y,
           NEW i \in 1..Len(g.parents[y].data), NEW f, BeforePart(f, g, y, i - 1),
           NEW h, h = ParentBeforeUnMerge(f, y, UseSide(y), i)
    PROVE  BeforePart(h, g, y, i)
  <1> DEFINE n == Len(g.parents[y].data)
             ent == f.parents[y].data[i]
             s0 == Sig(f.root, ent.e)
  <1>0. /\ IsClosure(f) /\ f.root = g.root
        /\ \A d \in Nodes \ {y} : g.root[d] # d => f.parents[d] = g.parents[d]
        /\ Len(f.parents[y].data) = n
        /\ \A j \in (i - 1) + 1..n : f.parents[y].data[j] = g.parents[y].data[j]
        /\ \A s \in DOMAIN f.sig_tab :
             /\ s \in DOMAIN g.sig_tab /\ f.sig_tab[s] = g.sig_tab[s]
             /\ \A j \in 1..i - 1 : g.parents[y].data[j].tag = "Valid" =>
                            s # Sig(g.root, g.parents[y].data[j].e)
    BY DEF BeforePart
  <1>1. UseSide(y) \in Sides /\ i \in 1..Len(f.parents[y].data)
    BY <1>0 DEF UseSide, Sides
  <1>2. f.root[y] # y
    BY <1>0
  <1>3. Passed(h, f, y, i) /\ BeforeEffect(h, f, y, i)
    BY <1>0, <1>1, <1>2, BeforeStep
  <1>4. n \in Nat /\ i \in Nat
    BY <1>0, <1>1, EntryFacts
  <1>5. /\ IsClosure(h) /\ h.root = g.root
        /\ \A d \in Nodes \ {y} : g.root[d] # d => h.parents[d] = g.parents[d]
        /\ Len(h.parents[y].data) = n
        /\ \A j \in 1..n : j # i => h.parents[y].data[j] = f.parents[y].data[j]
    BY <1>0, <1>3 DEF Passed
  <1>6. \A j \in i + 1..n : h.parents[y].data[j] = g.parents[y].data[j]
    <2>1. \A j \in i + 1..n : j \in 1..n /\ j # i /\ j \in (i - 1) + 1..n
      BY <1>4
    <2> QED
      BY <1>0, <1>5, <2>1
  <1>7. ent = g.parents[y].data[i]
    <2>1. i \in (i - 1) + 1..n
      BY <1>4
    <2> QED
      BY <1>0, <2>1
  <1>8. \A s \in DOMAIN h.sig_tab :
          /\ s \in DOMAIN f.sig_tab /\ h.sig_tab[s] = f.sig_tab[s]
          /\ ent.tag = "Valid" => s # s0
    <2>1. CASE ent.tag = "Valid"
      <3>1. h.sig_tab = Restrict(f.sig_tab, DOMAIN f.sig_tab \ {s0})
        BY <1>3, <2>1 DEF BeforeEffect
      <3> HIDE DEF s0
      <3>2. DOMAIN h.sig_tab = DOMAIN f.sig_tab \ {s0}
            /\ \A s \in DOMAIN f.sig_tab \ {s0} : h.sig_tab[s] = f.sig_tab[s]
        BY <3>1 DEF Restrict
      <3> QED
        BY <3>2
    <2>2. CASE ent.tag # "Valid"
      BY <1>3, <2>2 DEF BeforeEffect
    <2> QED
      BY <2>1, <2>2
  <1>9. ASSUME NEW s \in DOMAIN h.sig_tab
        PROVE  /\ s \in DOMAIN g.sig_tab /\ h.sig_tab[s] = g.sig_tab[s]
               /\ \A j \in 1..i : g.parents[y].data[j].tag = "Valid" =>
                            s # Sig(g.root, g.parents[y].data[j].e)
    <2>1. s \in DOMAIN f.sig_tab /\ h.sig_tab[s] = f.sig_tab[s] /\ (ent.tag = "Valid" => s # s0)
      BY <1>8
    <2>2. \A j \in 1..i : j \in 1..i - 1 \/ j = i
      BY <1>4
    <2>3. g.parents[y].data[i].tag = "Valid" => s # Sig(g.root, g.parents[y].data[i].e)
      BY <1>0, <1>7, <2>1
    <2> QED
      BY <1>0, <2>1, <2>2, <2>3
  <1> QED
    BY <1>5, <1>6, <1>9 DEF BeforePart

\* The parents of a class that is about to be taken out of another.
LEMMA BeforeUnMerge ==
    ASSUME NEW g, IsClosure(g), NEW y \in Nodes, g.root[y] # y
    PROVE  BeforePart(processParentsBeforeUnMerge(g, y), g, y, Len(g.parents[y].data))
  <1> DEFINE n == Len(g.parents[y].data)
  <1>0. n \in Nat
    BY SeqFacts, UseVectorFacts DEF IsClosure
  <1> HIDE DEF n
  <1>1. PICK f : /\ f[0] = g
                 /\ \A i \in 1..n : f[i] = ParentBeforeUnMerge(f[i - 1], y, UseSide(y), i)
                 /\ processParentsBeforeUnMerge(g, y) = f[n]
    <2>1. Len(g.parents[y].data) \in Nat
      BY <1>0 DEF n
    <2>2. \E f : BeforeRun(f, g, y)
      BY <2>1, BeforeDone
    <2> QED
      BY <2>2 DEF n, BeforeRun
  <1>2. BeforePart(f[0], g, y, 0)
    BY <1>1 DEF BeforePart, n
  <1> DEFINE Bad == {i \in 0..n : ~ BeforePart(f[i], g, y, i)}
  <1> SUFFICES ASSUME n \in Bad PROVE FALSE
    BY <1>0, <1>1 DEF n
  <1>3. PICK k \in Bad : \A l \in Bad : k <= l
    <2>1. Bad \in SUBSET Nat
      OBVIOUS
    <2> HIDE DEF Bad
    <2> QED
      BY <2>1, MinExists
  <1>4. k # 0 /\ k \in 0..n /\ ~ BeforePart(f[k], g, y, k)
    BY <1>2, <1>3
  <1>5. k \in 1..n /\ k - 1 \in 0..n /\ ~ (k <= k - 1)
    BY <1>0, <1>4
  <1>6. BeforePart(f[k - 1], g, y, k - 1)
    BY <1>3, <1>5
  <1>7. f[k] = ParentBeforeUnMerge(f[k - 1], y, UseSide(y), k)
    BY <1>1, <1>5
  <1>8. BeforePart(f[k], g, y, k)
    BY <1>5, <1>6, <1>7, BeforePartStep DEF n
  <1> QED
    BY <1>4, <1>8

-----------------------------------------------------------------------------
(* The nodes as they are made, and the invariant at the start.             *)

\* The nodes, entered one after the other.
MadeRun(f) ==
  /\ f[0] = None
  /\ \A i \in 1..Len(Enodes) : f[i] = addNode(f[i - 1], Enodes[i])
  /\ Made = f[Len(Enodes)]

\* The nodes are entered in some such run.
LEMMA MadeDone == \E f : MadeRun(f)
  <1> DEFINE n == Len(Enodes)
             Done(f, k) == f = [i \in 0..k |-> IF i = 0 THEN None ELSE addNode(f[i - 1], Enodes[i])]
             Bad == {k \in 0..n : ~ (\E f : Done(f, k))}
  <1>0. n \in Nat
    BY EnodesFacts, SeqFacts
  <1>1. \E f : Done(f, 0)
    <2>1. Done([i \in 0..0 |-> None], 0)
      OBVIOUS
    <2> HIDE DEF Done
    <2> QED
      BY <2>1
  <1>2. ASSUME NEW k \in 1..n, \E f : Done(f, k - 1)
        PROVE  \E f : Done(f, k)
    <2>1. PICK f : Done(f, k - 1)
      BY <1>2
    <2> DEFINE h == [i \in 0..k |-> IF i = k THEN addNode(f[k - 1], Enodes[k]) ELSE f[i]]
    <2>0. k \in Nat /\ k # 0 /\ k - 1 \in 0..k /\ k - 1 # k
      BY <1>0
    <2>2. DOMAIN h = 0..k /\ h[k] = addNode(h[k - 1], Enodes[k])
      <3>1. h[k] = addNode(f[k - 1], Enodes[k]) /\ h[k - 1] = f[k - 1]
        BY <2>0
      <3> QED
        BY <3>1
    <2>3. \A i \in 0..k - 1 : f[i] = IF i = 0 THEN None ELSE addNode(f[i - 1], Enodes[i])
      BY <2>1
    <2>4. \A i \in 0..k : i # k => h[i] = f[i]
      OBVIOUS
    <2>5. h = [i \in 0..k |-> h[i]]
      OBVIOUS
    <2> HIDE DEF h
    <2>6. ASSUME NEW i \in 0..k
          PROVE  h[i] = IF i = 0 THEN None ELSE addNode(h[i - 1], Enodes[i])
      <3>1. CASE i = k
        BY <2>0, <2>2, <3>1
      <3>2. CASE i # k /\ i # 0
        <4>1. i \in 0..k - 1 /\ i - 1 \in 0..k /\ i - 1 # k
          BY <2>0, <3>2
        <4>2. h[i] = f[i] /\ h[i - 1] = f[i - 1]
          BY <2>4, <3>2, <4>1
        <4> QED
          BY <2>3, <3>2, <4>1, <4>2
      <3>3. CASE i = 0
        <4>1. i \in 0..k - 1 /\ i # k
          BY <2>0, <3>3
        <4> QED
          BY <2>3, <2>4, <3>3, <4>1
      <3> QED
        BY <3>1, <3>2, <3>3
    <2>7. Done(h, k)
      BY <2>5, <2>6
    <2> HIDE DEF Done
    <2> QED
      BY <2>7
  <1>3. \E f : Done(f, n)
    <2> SUFFICES ASSUME n \in Bad PROVE FALSE
      BY <1>0
    <2> HIDE DEF Done, n
    <2>1. PICK k \in Bad : \A l \in Bad : k <= l
      <3>1. Bad \in SUBSET Nat
        OBVIOUS
      <3> HIDE DEF Bad
      <3> QED
        BY <3>1, MinExists
    <2>2. k # 0 /\ k \in 0..n /\ ~ (\E f : Done(f, k))
      BY <1>1, <2>1
    <2>3. k \in 1..n /\ k - 1 \in 0..n /\ ~ (k <= k - 1)
      BY <1>0, <2>2
    <2>4. \E f : Done(f, k - 1)
      BY <2>1, <2>3
    <2> QED
      BY <1>2, <2>2, <2>3, <2>4
  <1> DEFINE c == CHOOSE done : done = [i \in 0..n |-> IF i = 0 THEN None ELSE addNode(done[i - 1], Enodes[i])]
  <1>4. c = [i \in 0..n |-> IF i = 0 THEN None ELSE addNode(c[i - 1], Enodes[i])]
    BY <1>3
  <1>5. Made = c[n]
    BY DEF Made
  <1> HIDE DEF c
  <1>6. \A i \in 0..n : c[i] = IF i = 0 THEN None ELSE addNode(c[i - 1], Enodes[i])
    BY <1>4
  <1>7. 0 \in 0..n /\ \A i \in 1..n : i \in 0..n /\ i # 0
    BY <1>0
  <1>8. c[0] = None /\ \A i \in 1..n : c[i] = addNode(c[i - 1], Enodes[i])
    BY <1>6, <1>7
  <1> QED
    BY <1>5, <1>8 DEF MadeRun


\* A node is under its signature.
Fresh(g) ==
  /\ IsClosure(g) /\ g.root = [n \in Nodes |-> n] /\ g.pending = <<>>
  /\ \A s \in DOMAIN g.sig_tab : Sig(g.root, g.sig_tab[s]) = s

\* The empty table is fresh.
LEMMA NoneFresh == Fresh(None)
  <1> DEFINE id == [n \in Nodes |-> n]
             par == [n \in Nodes |-> Empty]
             ind == [d \in Sides |-> [n \in Nodes |-> 0]]
  <1>1. None = [root |-> id, parents |-> par, index |-> ind, sig_tab |-> <<>>, pending |-> <<>>]
    BY DEF None
  <1>2. Roots(id)
    BY DEF Roots
  <1>3. par \in [Nodes -> UseVectors]
    <2>1. Empty \in UseVectors
      BY DEF Empty, UseVectors
    <2> QED
      BY <2>1
  <1>4. ind \in [Sides -> [Nodes -> Nat]]
    OBVIOUS
  <1>5. <<>> \in [DOMAIN <<>> -> Nodes] /\ <<>> \in Seq(Nodes) /\ DOMAIN <<>> = {}
    OBVIOUS
  <1> DEFINE tab == <<>>
  <1>6. tab \in [DOMAIN tab -> Nodes] /\ tab \in Seq(Nodes) /\ DOMAIN tab = {}
        /\ None = [root |-> id, parents |-> par, index |-> ind, sig_tab |-> tab, pending |-> tab]
    BY <1>1, <1>5
  <1> HIDE DEF id, par, ind, tab
  <1>7. None.root = id /\ None.parents = par /\ None.index = ind /\ None.sig_tab = tab /\ None.pending = tab
    BY <1>6
  <1>8. IsClosure(None)
    BY <1>2, <1>3, <1>4, <1>6, <1>7 DEF IsClosure
  <1>9. \A s \in DOMAIN None.sig_tab : Sig(None.root, None.sig_tab[s]) = s
    BY <1>6, <1>7
  <1> QED
    BY <1>7, <1>8, <1>9 DEF Fresh, id, tab

\* It stays fresh when a node is entered.
LEMMA AddFresh ==
    ASSUME NEW g, Fresh(g), NEW n \in Nodes
    PROVE  Fresh(addNode(g, n))
  <1> DEFINE s == Sig(g.root, n)
             a == addParent(g, "car", n)
             h == addParent(a, "cdr", n)
             tab == Entered(h.sig_tab, s, n)
             k == [h EXCEPT !.sig_tab = tab]
  <1>0. IsClosure(g) /\ "car" \in Sides /\ "cdr" \in Sides
    BY DEF Fresh, Sides
  <1>1. CASE s \in DOMAIN g.sig_tab
    BY <1>1 DEF addNode
  <1>2. CASE s \notin DOMAIN g.sig_tab
    <2>1. addNode(g, n) = k
      BY <1>2 DEF addNode
    <2> HIDE DEF s
    <2>2. OnlyRoots(a, g)
      BY <1>0, AddParent
    <2> HIDE DEF a
    <2>3. IsClosure(a)
      BY <2>2 DEF OnlyRoots
    <2>4. OnlyRoots(h, a)
      BY <1>0, <2>3, AddParent
    <2> HIDE DEF h
    <2>5. IsClosure(h) /\ h.root = g.root /\ h.sig_tab = g.sig_tab /\ h.pending = g.pending
      BY <2>2, <2>4 DEF OnlyRoots
    <2>6. tab = Entered(g.sig_tab, s, n) /\ g.sig_tab \in [DOMAIN g.sig_tab -> Nodes]
      BY <2>5 DEF IsClosure
    <2>7. DOMAIN tab = {s} \cup DOMAIN g.sig_tab /\ tab[s] = n
          /\ \A q \in DOMAIN g.sig_tab : tab[q] = g.sig_tab[q]
      BY <1>2, <2>6 DEF Entered
    <2>13. tab \in [DOMAIN tab -> Nodes]
      <3>1. \A q \in DOMAIN tab : tab[q] \in Nodes
        BY <2>6, <2>7
      <3>2. tab = [q \in DOMAIN tab |-> tab[q]]
        BY <2>6 DEF Entered
      <3> HIDE DEF tab
      <3> QED
        BY <3>1, <3>2
    <2> HIDE DEF tab
    <2>12. k = [h EXCEPT !.sig_tab = tab]
      OBVIOUS
    <2> HIDE DEF k
    <2>8. FieldsAre(k, h, tab, h.pending)
      BY <2>5, <2>12, <2>13, SetTable
    <2>9. IsClosure(k) /\ k.root = g.root /\ k.pending = g.pending /\ k.sig_tab = tab
      BY <2>5, <2>8 DEF FieldsAre
    <2>10. \A q \in DOMAIN tab : Sig(g.root, tab[q]) = q
      BY <2>7 DEF Fresh, s
    <2>11. Fresh(k)
      BY <2>9, <2>10 DEF Fresh
    <2> QED
      BY <2>1, <2>11
  <1> QED
    BY <1>1, <1>2

\* The table the search starts with is fresh.
LEMMA MadeFresh == Fresh(Made)
  <1> DEFINE n == Len(Enodes)
  <1>0. n \in Nat /\ \A i \in 1..n : Enodes[i] \in Nodes
    BY EnodesFacts, SeqFacts
  <1> HIDE DEF n
  <1>1. PICK f : f[0] = None /\ (\A i \in 1..n : f[i] = addNode(f[i - 1], Enodes[i])) /\ Made = f[n]
    BY MadeDone DEF MadeRun, n
  <1> DEFINE Bad == {i \in 0..n : ~ Fresh(f[i])}
  <1> SUFFICES ASSUME n \in Bad PROVE FALSE
    BY <1>0, <1>1
  <1>3. PICK k \in Bad : \A l \in Bad : k <= l
    <2>1. Bad \in SUBSET Nat
      OBVIOUS
    <2> HIDE DEF Bad
    <2> QED
      BY <2>1, MinExists
  <1>4. k # 0 /\ k \in 0..n /\ ~ Fresh(f[k])
    BY <1>1, <1>3, NoneFresh
  <1>5. k \in 1..n /\ k - 1 \in 0..n /\ ~ (k <= k - 1)
    BY <1>0, <1>4
  <1>6. Fresh(f[k - 1])
    BY <1>3, <1>5
  <1>7. Fresh(addNode(f[k - 1], Enodes[k]))
    BY <1>0, <1>5, <1>6, AddFresh
  <1> QED
    BY <1>1, <1>4, <1>5, <1>7

\* A forest of single nodes.
LEMMA NoEdges ==
    ASSUME NEW f, f.parent = [t \in Terms |-> ERef_Undef]
    PROVE  IsForest(f) /\ Spans(f, [n \in Nodes |-> n])
  <1>1. \A t \in Terms : f.parent[t] = ERef_Undef
    OBVIOUS
  <1>2. Acyclic(f)
    <2> DEFINE grade == [t \in Terms |-> 0]
    <2>1. 0 \in Nat /\ grade \in [Terms -> 0..0]
      OBVIOUS
    <2>2. Graded(f, 0, grade)
      BY <1>1, <2>1 DEF Graded
    <2> HIDE DEF grade
    <2> QED
      BY <2>1, <2>2 DEF Acyclic
  <1>3. IsForest(f)
    BY <1>2 DEF IsForest
  <1>4. \A t \in Terms : Up(f, t) = {t}
    BY <1>1, <1>3, UpEquation
  <1>5. \A t \in Terms : [n \in Nodes |-> n][t] = t
    BY TermFacts
  <1> QED
    BY <1>3, <1>4, <1>5 DEF Spans

\* Atoms are terms, and literals have one and a sign.
LEMMA AtomFacts ==
    /\ Atoms \in SUBSET Terms /\ NoLit \notin Lits
    /\ \A l \in Lits : l.atom \in Atoms /\ l.sgn \in Signs /\ l = [atom |-> l.atom, sgn |-> l.sgn]
    /\ Undef \notin Signs
  <1>1. Atoms \in SUBSET Terms /\ ERef_Undef \notin Terms
    BY TermFacts
  <1>2. NoLit \notin Lits
    BY <1>1 DEF NoLit, Lits
  <1>3. Undef \notin Signs
    BY DEF Undef, Signs, l_True, l_False
  <1> QED
    BY <1>1, <1>2, <1>3 DEF Lits

\* What the invariant says of the stack and what is to be done, at the start.
LEMMA InitTyped ==
    ASSUME Init
    PROVE  TypeInv /\ PolarityInv /\ TodoInv /\ PendingInv
  <1>1. Fresh(Made)
    BY MadeFresh
  <1>2. IsClosure(Made) /\ Made.root = [n \in Nodes |-> n]
    BY <1>1 DEF Fresh
  <1>3. root \in [Nodes -> Nodes] /\ parents \in [Nodes -> UseVectors] /\ index \in [Sides -> [Nodes -> Nat]]
        /\ sig_tab \in [DOMAIN sig_tab -> Nodes]
    BY <1>2 DEF Init, IsClosure
  <1>4. /\ expParent \in [Terms -> Terms \cup {ERef_Undef}]
        /\ expReason \in [Terms -> Lits \cup {NoLit}]
        /\ polarity \in [Atoms -> Signs \cup {Undef}]
    BY DEF Init
  <1>5. /\ exp_undo_stack \in Seq(Terms) /\ undo_stack_main \in Seq(Undos)
        /\ todo \in Seq(Todos) /\ pending \in Seq(Nodes) /\ congruence_pending \in BOOLEAN
        /\ pc \in {"idle", "assert", "merge", "conflict", "undo"}
    <2>1. /\ exp_undo_stack = <<>> /\ undo_stack_main = <<>> /\ todo = <<>> /\ pending = <<>>
          /\ congruence_pending = FALSE /\ pc = "idle"
      BY DEF Init
    <2>2. <<>> \in Seq(Terms) /\ <<>> \in Seq(Undos) /\ <<>> \in Seq(Todos) /\ <<>> \in Seq(Nodes)
      OBVIOUS
    <2> QED
      BY <2>1, <2>2
  <1>6. TypeInv
    BY <1>3, <1>4, <1>5 DEF TypeInv
  <1>7. undo_stack_main = <<>> /\ todo = <<>> /\ pending = <<>> /\ ~ congruence_pending /\ pc = "idle"
        /\ DOMAIN <<>> = {}
    BY DEF Init
  <1>8. PolarityInv
    <2>1. DOMAIN undo_stack_main = {}
      BY <1>7
    <2>2. \A a \in Atoms : polarity[a] = Undef
      BY DEF Init
    <2> QED
      BY <2>1, <2>2 DEF PolarityInv
  <1>9. TodoInv
    <2>1. DOMAIN todo = {}
      BY <1>7
    <2> QED
      BY <1>7, <2>1 DEF TodoInv
  <1>10. PendingInv
    BY <1>7 DEF PendingInv
  <1> QED
    BY <1>6, <1>8, <1>9, <1>10

\* The past of the initial state.
LEMMA InitPast ==
    ASSUME Init
    PROVE  \E H : Past(H)
  <1> DEFINE id == [n \in Nodes |-> n]
             H == [k \in 0..0 |-> id]
             at == [j \in 1..0 |-> 0]
  <1>0. undo_stack_main = <<>> /\ Len(undo_stack_main) = 0 /\ root = id /\ exp_undo_stack = <<>>
        /\ sig_tab = Made.sig_tab /\ expParent = [t \in Terms |-> ERef_Undef]
        /\ Len(exp_undo_stack) = 0 /\ DOMAIN undo_stack_main = {}
    <2>1. Made.root = id
      BY MadeFresh DEF Fresh
    <2> QED
      BY <2>1 DEF Init
  <1>1. H \in [0..0 -> [Nodes -> Nodes]] /\ H[0] = id
    OBVIOUS
  <1> HIDE DEF H
  <1>2. \A k \in 0..0 : k = 0
    OBVIOUS
  <1>3. History(H)
    BY <1>0, <1>1 DEF History
  <1>4. PastInv(H)
    <2>1. ListsEqual(id)
      BY DEF ListsEqual
    <2> QED
      BY <1>0, <1>1, <1>2, <2>1 DEF PastInv
  <1>5. TableInv(H)
    <2>1. Fresh(Made)
      BY MadeFresh
    <2>2. \A s \in DOMAIN sig_tab : Sig(id, sig_tab[s]) = s
      BY <1>0, <2>1 DEF Fresh
    <2> HIDE DEF id
    <2> QED
      BY <1>0, <1>1, <1>2, <2>2 DEF TableInv
  <1>6. ForestInv(H)
    <2>1. Forest.parent = [t \in Terms |-> ERef_Undef]
      BY <1>0 DEF Forest
    <2>2. IsForest(Forest) /\ Spans(Forest, root)
      BY <1>0, <2>1, NoEdges
    <2>3. 0 \in Nat /\ at \in [1..0 -> TermMerges]
      OBVIOUS
    <2>4. Places(at, 0)
      BY <1>0, <2>3 DEF Places, TermMerges
    <2>5. PairsInv(H, at, 0)
      BY <1>0 DEF PairsInv
    <2> HIDE DEF at
    <2> QED
      BY <2>2, <2>3, <2>4, <2>5 DEF ForestInv, IsForest
  <1> QED
    BY <1>3, <1>4, <1>5, <1>6 DEF Past

\* The invariant holds at the start.
LEMMA InitInv == Init => EInv
  BY InitTyped, InitPast DEF EInv

-----------------------------------------------------------------------------
(* Entries on the undo stack.                                              *)

\* The stack with an entry more, or less.
LEMMA StackPushed ==
    ASSUME undo_stack_main \in Seq(Undos), NEW e \in Undos,
           undo_stack_main' = Append(undo_stack_main, e)
    PROVE  /\ undo_stack_main' \in Seq(Undos)
           /\ Len(undo_stack_main) \in Nat /\ Len(undo_stack_main') = Len(undo_stack_main) + 1
           /\ DOMAIN undo_stack_main = 1..Len(undo_stack_main)
           /\ DOMAIN undo_stack_main' = 1..Len(undo_stack_main) + 1
           /\ undo_stack_main'[Len(undo_stack_main) + 1] = e
           /\ \A k \in 1..Len(undo_stack_main) :
                undo_stack_main'[k] = undo_stack_main[k] /\ undo_stack_main[k] \in Undos
  <1>1. /\ Len(undo_stack_main) \in Nat /\ DOMAIN undo_stack_main = 1..Len(undo_stack_main)
        /\ \A k \in 1..Len(undo_stack_main) : undo_stack_main[k] \in Undos
    BY SeqFacts
  <1>2. /\ Append(undo_stack_main, e) \in Seq(Undos)
        /\ Len(Append(undo_stack_main, e)) = Len(undo_stack_main) + 1
        /\ \A k \in 1..Len(undo_stack_main) : Append(undo_stack_main, e)[k] = undo_stack_main[k]
        /\ Append(undo_stack_main, e)[Len(undo_stack_main) + 1] = e
    BY AppendProperties
  <1>3. DOMAIN Append(undo_stack_main, e) = 1..Len(undo_stack_main) + 1
    BY <1>2, SeqFacts
  <1> QED
    BY <1>1, <1>2, <1>3

\* What the entries below the last one say stays as it was.
LEMMA StackPopped ==
    ASSUME undo_stack_main \in Seq(Undos), Len(undo_stack_main) > 0,
           undo_stack_main' = Front(undo_stack_main)
    PROVE  /\ undo_stack_main' \in Seq(Undos)
           /\ Len(undo_stack_main) \in Nat /\ Len(undo_stack_main') = Len(undo_stack_main) - 1
           /\ DOMAIN undo_stack_main = 1..Len(undo_stack_main)
           /\ DOMAIN undo_stack_main' = 1..Len(undo_stack_main) - 1
           /\ \A k \in 1..Len(undo_stack_main) - 1 : undo_stack_main'[k] = undo_stack_main[k]
           /\ \A k \in 1..Len(undo_stack_main) : undo_stack_main[k] \in Undos
           /\ Last(undo_stack_main) = undo_stack_main[Len(undo_stack_main)]
  <1> DEFINE L == Len(undo_stack_main)
  <1>1. /\ L \in Nat /\ DOMAIN undo_stack_main = 1..L
        /\ \A k \in 1..L : undo_stack_main[k] \in Undos
    BY SeqFacts
  <1>2. L - 1 \in 0..L
    BY <1>1
  <1>3. /\ SubSeq(undo_stack_main, 1, L - 1) \in Seq(Undos)
        /\ Len(SubSeq(undo_stack_main, 1, L - 1)) = L - 1
        /\ DOMAIN SubSeq(undo_stack_main, 1, L - 1) = 1..L - 1
        /\ \A i \in 1..L - 1 : SubSeq(undo_stack_main, 1, L - 1)[i] = undo_stack_main[i]
    BY <1>2, PrefixFacts
  <1>4. undo_stack_main' = SubSeq(undo_stack_main, 1, L - 1)
    BY DEF Front
  <1> QED
    BY <1>1, <1>3, <1>4 DEF Last

\* The forest while the merges of terms and what happened until then stay the same.
LEMMA ForestKept ==
    ASSUME NEW H, ForestInv(H), NEW G, UNCHANGED expVars, TermMerges' = TermMerges,
           \A k \in TermMerges : G[k] = H[k] /\ G[k - 1] = H[k - 1],
           \A l \in Lits : \A k \in TermMerges : SetBelow(k - 1, l) => SetBelow(k - 1, l)',
           Spans(Forest, root)'
    PROVE  ForestInv(G)'
  <1>1. PICK n \in Nat : \E at \in [1..n -> TermMerges] : Places(at, n) /\ PairsInv(H, at, n)
    BY DEF ForestInv
  <1>2. PICK at \in [1..n -> TermMerges] : Places(at, n) /\ PairsInv(H, at, n)
    BY <1>1
  <1>3. Places(at, n)'
    BY <1>2 DEF Places, expVars
  <1>4. \A j \in 1..n : at[j] \in TermMerges
    BY <1>2
  <1>5. \A k : Made1(k)' = Made1(k) /\ Made2(k)' = Made2(k)
    BY DEF Made1, Made2, expVars
  <1>6. ASSUME NEW j \in 1..n
        PROVE  /\ G[at[j] - 1][Made1(j)'] # G[at[j] - 1][Made2(j)']
               /\ G[at[j]][Made1(j)'] = G[at[j]][Made2(j)']
               /\ expParent'[Made1(j)'] = Made2(j)' \/ expParent'[Made2(j)'] = Made1(j)'
    BY <1>2, <1>4, <1>5 DEF PairsInv, expVars
  <1>7. ASSUME NEW t \in Terms, expParent'[t] # ERef_Undef
        PROVE  \E j \in 1..n : /\ {t, expParent'[t]} = {Made1(j)', Made2(j)'}
                               /\ Reason(G, t, expParent[t], expReason[t], at[j] - 1)'
    <2>1. expParent' = expParent /\ expReason' = expReason
      BY DEF expVars
    <2>2. PICK j \in 1..n : /\ {t, expParent[t]} = {Made1(j), Made2(j)}
                            /\ Reason(H, t, expParent[t], expReason[t], at[j] - 1)
      BY <1>2, <1>7, <2>1 DEF PairsInv
    <2>3. Reason(G, t, expParent[t], expReason[t], at[j] - 1)'
      <3>1. CASE expReason[t] = NoLit
        BY <1>4, <2>1, <2>2, <3>1 DEF Reason
      <3>2. CASE expReason[t] # NoLit
        BY <1>4, <2>1, <2>2, <3>2 DEF Reason
      <3> QED
        BY <3>1, <3>2
    <2> QED
      BY <1>5, <2>1, <2>2, <2>3
  <1>8. PairsInv(G, at, n)'
    BY <1>6, <1>7 DEF PairsInv
  <1>9. (Acyclic(Forest) /\ Spans(Forest, root))'
    <2>1. Forest' = Forest
      BY DEF Forest, expVars
    <2>2. Acyclic(Forest)
      BY DEF ForestInv
    <2> QED
      BY <2>1, <2>2
  <1>10. at \in [1..n -> TermMerges']
    BY <1>2
  <1> QED
    BY <1>3, <1>8, <1>9, <1>10 DEF ForestInv

\* The past when the entries above m come or go without a merge.
LEMMA KeptPast ==
    ASSUME NEW H, Past(H), undo_stack_main \in Seq(Undos), undo_stack_main' \in Seq(Undos),
           NEW m \in 0..Len(undo_stack_main), Len(undo_stack_main') \in m..m + 1, H[m] = root,
           \A k \in 1..m : undo_stack_main'[k] = undo_stack_main[k],
           \A k \in m + 1..Len(undo_stack_main) : ~ IsMerge(k),
           \A k \in m + 1..Len(undo_stack_main') : ~ IsMerge(k)',
           UNCHANGED <<root, parents, sig_tab, expVars>>,
           \A l \in Lits : \A k \in 0..m : SetBelow(k, l) => SetBelow(k, l)'
    PROVE  \E G : Past(G)'
  <1>0. PICK L, M : L = Len(undo_stack_main) /\ M = Len(undo_stack_main')
    OBVIOUS
  <1>1. /\ L \in Nat /\ M \in Nat /\ DOMAIN undo_stack_main = 1..L /\ DOMAIN undo_stack_main' = 1..M
        /\ m \in 0..L /\ m \in Nat /\ (M = m \/ M = m + 1)
    BY <1>0, SeqFacts
  <1>g. PICK G : G = [k \in 0..M |-> IF k <= m THEN H[k] ELSE root]
    OBVIOUS
  <1>2. /\ H \in [0..L -> [Nodes -> Nodes]] /\ H[0] = [n \in Nodes |-> n] /\ H[L] = root
        /\ \A k \in 1..L : IF IsMerge(k) THEN MergedAt(H, k) ELSE H[k] = H[k - 1]
    BY <1>0 DEF Past, History
  <1>3. \A k \in 0..m : k \in 0..M /\ G[k] = H[k] /\ k \in 0..L
    BY <1>1, <1>g
  <1>4. \A k \in 0..M : k \notin 0..m => k = m + 1 /\ k = M /\ G[k] = root /\ k - 1 = m
    BY <1>1, <1>g
  <1>5. root' = root /\ parents' = parents /\ sig_tab' = sig_tab /\ UNCHANGED expVars
    OBVIOUS
  <1>6. \A k \in 1..m : IsMerge(k)' = IsMerge(k)
    BY DEF IsMerge
  <1>7. History(G)'
    <2>1. G \in [0..M -> [Nodes -> Nodes]]
      BY <1>1, <1>2, <1>g
    <2>2. G[0] = [n \in Nodes |-> n]
      BY <1>1, <1>2, <1>3
    <2>3. G[M] = root
      BY <1>1, <1>3, <1>4
    <2>4. ASSUME NEW k \in 1..M
          PROVE  IF IsMerge(k)' THEN MergedAt(G, k)' ELSE G[k] = G[k - 1]
      <3>1. CASE k \in 1..m
        <4>1. k \in 1..L /\ k \in 0..m /\ k - 1 \in 0..m
          BY <1>1, <3>1
        <4>2. G[k] = H[k] /\ G[k - 1] = H[k - 1] /\ undo_stack_main'[k] = undo_stack_main[k]
          BY <1>3, <3>1, <4>1
        <4>3. IF IsMerge(k) THEN MergedAt(H, k) ELSE H[k] = H[k - 1]
          BY <1>2, <4>1
        <4>4. MergedAt(H, k) => MergedAt(G, k)'
          BY <4>2 DEF MergedAt
        <4>5. CASE IsMerge(k)
          BY <1>6, <3>1, <4>3, <4>4, <4>5
        <4>6. CASE ~ IsMerge(k)
          <5>1. G[k] = G[k - 1]
            BY <4>2, <4>3, <4>6
          <5>2. ~ IsMerge(k)'
            BY <1>6, <3>1, <4>6
          <5> QED
            BY <5>1, <5>2
        <4> QED
          BY <4>5, <4>6
      <3>2. CASE k \notin 1..m
        <4>1. k \in 0..M /\ k \notin 0..m /\ k \in m + 1..M
          BY <1>1, <3>2
        <4>2. ~ IsMerge(k)'
          BY <1>0, <4>1
        <4>3. G[k] = root /\ k - 1 = m /\ m \in 0..m
          BY <1>1, <1>4, <4>1
        <4>4. G[k - 1] = root
          BY <1>3, <4>3
        <4> QED
          BY <4>2, <4>3, <4>4
      <3> QED
        BY <3>1, <3>2
    <2> QED
      BY <1>0, <1>5, <2>1, <2>2, <2>3, <2>4 DEF History
  <1>8. PastInv(G)'
    <2>1. \A k \in 0..L : ListsEqual(H[k])
      BY <1>0 DEF Past, PastInv
    <2>2. ListsEqual(root)
      BY <1>1, <1>2, <2>1
    <2>3. ASSUME NEW k \in 0..M
          PROVE  ListsEqual(G[k])
      <3>1. k \in 0..m => G[k] = H[k] /\ k \in 0..L
        BY <1>3
      <3>2. k \notin 0..m => G[k] = root
        BY <1>4
      <3> QED
        BY <2>1, <2>2, <3>1, <3>2
    <2> QED
      BY <1>0, <2>3 DEF PastInv
  <1>9. TableInv(G)'
    <2> SUFFICES ASSUME NEW s \in DOMAIN sig_tab, NEW k \in 0..M, Live(G[k], s)
                 PROVE  \/ Sig(G[k], sig_tab[s]) = s
                        \/ \E j \in k + 1..M : IsMerge(j)' /\ HeldBy(undo_stack_main[j].arg, G[j], s)'
      BY <1>0, <1>5 DEF TableInv
    <2>1. PICK c \in 0..m : G[k] = H[c] /\ (c = k \/ (c = m /\ k = M))
      BY <1>1, <1>2, <1>3, <1>4
    <2>2. TableInv(H) /\ c \in 0..L
      BY <1>3 DEF Past
    <2>3. Live(H[c], s)
      BY <2>1
    <2>4. CASE Sig(H[c], sig_tab[s]) = s
      BY <2>1, <2>4
    <2>5. CASE \E j \in c + 1..L : IsMerge(j) /\ HeldBy(undo_stack_main[j].arg, H[j], s)
      <3>1. PICK j \in c + 1..L : IsMerge(j) /\ HeldBy(undo_stack_main[j].arg, H[j], s)
        BY <2>5
      <3>2. j \in 1..m /\ j \in 0..m /\ j \in c + 1..m
        BY <1>1, <3>1
      <3>3. c = k /\ j \in k + 1..M
        BY <1>1, <2>1, <3>2
      <3>4. IsMerge(j)' /\ G[j] = H[j] /\ undo_stack_main'[j] = undo_stack_main[j]
        BY <1>3, <1>6, <3>1, <3>2
      <3>5. HeldBy(undo_stack_main[j].arg, G[j], s)'
        BY <1>5, <3>1, <3>4 DEF HeldBy
      <3> QED
        BY <3>3, <3>4, <3>5
    <2> QED
      BY <2>2, <2>3, <2>4, <2>5, <1>0 DEF TableInv
  <1>10. ForestInv(G)'
    <2>1. TermMerges' = TermMerges
      <3>1. \A k \in TermMerges : k \in 1..m
        BY <1>0, <1>1 DEF TermMerges
      <3>2. \A k \in TermMerges' : k \in 1..m
        BY <1>0, <1>1 DEF TermMerges
      <3>3. \A k \in 1..m : k \in DOMAIN undo_stack_main /\ k \in DOMAIN undo_stack_main'
        BY <1>1
      <3>4. \A k \in 1..m : k \in TermMerges' <=> k \in TermMerges
        BY <1>6, <3>3 DEF TermMerges
      <3> QED
        BY <3>1, <3>2, <3>4
    <2>2. \A k \in TermMerges : k \in 0..m /\ k - 1 \in 0..m
      BY <1>0, <1>1 DEF TermMerges
    <2>3. \A k \in TermMerges : G[k] = H[k] /\ G[k - 1] = H[k - 1]
      BY <1>3, <2>2
    <2>4. \A l \in Lits : \A k \in TermMerges : SetBelow(k - 1, l) => SetBelow(k - 1, l)'
      BY <2>2
    <2>5. ForestInv(H)
      BY DEF Past
    <2>6. Spans(Forest, root)'
      <3>1. Forest' = Forest
        BY DEF Forest, expVars
      <3>2. Spans(Forest, root)
        BY <2>5 DEF ForestInv
      <3> QED
        BY <1>5, <3>1, <3>2
    <2> QED
      BY <1>5, <2>1, <2>3, <2>4, <2>5, <2>6, ForestKept
  <1>11. Past(G)'
    BY <1>7, <1>8, <1>9, <1>10 DEF Past
  <1> QED
    BY <1>11

Top == Len(undo_stack_main)
StillSet(m) == \A l \in Lits : \A k \in 0..m : SetBelow(k, l) => SetBelow(k, l)'
SetNow(l) == SetBelow(Top, l)

\* An entry that gives no atom a value.
LEMMA PolarityPushed ==
    ASSUME TypeInv, PolarityInv, NEW e \in Undos, undo_stack_main' = Append(undo_stack_main, e),
           e.op # "SET_POLARITY", polarity' = polarity
    PROVE  PolarityInv' /\ StillSet(Top) /\ (\A l \in Lits : SetNow(l) => SetNow(l)')
  <1>1. undo_stack_main \in Seq(Undos)
    BY DEF TypeInv
  <1>2. PICK L, M : L = Len(undo_stack_main) /\ M = Len(undo_stack_main')
    OBVIOUS
  <1>3. /\ undo_stack_main' \in Seq(Undos) /\ L \in Nat /\ M = L + 1
        /\ DOMAIN undo_stack_main = 1..L /\ DOMAIN undo_stack_main' = 1..M
        /\ undo_stack_main'[M] = e
        /\ \A k \in 1..L : undo_stack_main'[k] = undo_stack_main[k]
    BY <1>1, <1>2, StackPushed
  <1>4. \A k \in 1..M : k \in 1..L \/ k = M
    BY <1>3
  <1>5. \A k \in 1..L : k \in 1..M
    BY <1>3
  <1>6. \A k \in 1..L : \A a : SetAt(k, a)' <=> SetAt(k, a)
    BY <1>3 DEF SetAt
  <1>7. \A a : ~ SetAt(M, a)'
    BY <1>3 DEF SetAt
  <1>8. PolarityInv'
    BY <1>3, <1>4, <1>5, <1>6, <1>7 DEF PolarityInv
  <1>9. ASSUME NEW l \in Lits, NEW k \in 0..L, SetBelow(k, l)
        PROVE  SetBelow(k, l)' /\ (k = L => SetBelow(M, l)')
    <2>1. PICK i \in 1..k : SetAt(i, l.atom)
      BY <1>9 DEF SetBelow
    <2>2. i \in 1..L /\ (k = L => i \in 1..M)
      BY <1>3
    <2>3. SetAt(i, l.atom)'
      BY <1>6, <2>1, <2>2
    <2> QED
      BY <1>9, <2>1, <2>2, <2>3 DEF SetBelow
  <1>10. L \in 0..L
    BY <1>3
  <1>11. StillSet(Top)
    BY <1>2, <1>9 DEF StillSet, Top
  <1>12. \A l : SetNow(l) = SetBelow(L, l) /\ SetNow(l)' = SetBelow(M, l)'
    BY <1>2 DEF SetNow, Top, SetBelow
  <1> QED
    BY <1>8, <1>9, <1>10, <1>11, <1>12

\* An entry less, with the value it gave if any.
LEMMA PolarityPopped ==
    ASSUME TypeInv, PolarityInv, Top > 0, undo_stack_main' = Front(undo_stack_main),
           IF Last(undo_stack_main).op = "SET_POLARITY"
           THEN polarity' = [polarity EXCEPT ![Last(undo_stack_main).arg] = Undef]
           ELSE polarity' = polarity
    PROVE  PolarityInv' /\ StillSet(Top - 1)
  <1>1. undo_stack_main \in Seq(Undos) /\ polarity \in [Atoms -> Signs \cup {Undef}]
    BY DEF TypeInv
  <1>2. PICK L, e : L = Len(undo_stack_main) /\ e = Last(undo_stack_main)
    OBVIOUS
  <1>3. /\ undo_stack_main' \in Seq(Undos) /\ L \in Nat \ {0}
        /\ DOMAIN undo_stack_main = 1..L /\ DOMAIN undo_stack_main' = 1..L - 1
        /\ undo_stack_main[L] = e
        /\ \A k \in 1..L - 1 : undo_stack_main'[k] = undo_stack_main[k]
    BY <1>1, <1>2, StackPopped DEF Top
  <1>4. /\ \A k \in 1..L : k \in 1..L - 1 \/ k = L
        /\ \A k \in 1..L - 1 : k \in 1..L /\ k # L
        /\ L \in 1..L
    BY <1>3
  <1>5. \A k \in 1..L - 1 : \A a : SetAt(k, a)' <=> SetAt(k, a)
    BY <1>3 DEF SetAt
  <1>6. \A a : SetAt(L, a) <=> e.op = "SET_POLARITY" /\ e.arg = a
    BY <1>3 DEF SetAt
  <1>7. \A a \in Atoms : SetAt(L, a) => polarity'[a] = Undef /\ \A k \in 1..L - 1 : ~ SetAt(k, a)
    <2> SUFFICES ASSUME NEW a \in Atoms, SetAt(L, a)
                 PROVE  polarity'[a] = Undef /\ \A k \in 1..L - 1 : ~ SetAt(k, a)
      OBVIOUS
    <2>1. e.op = "SET_POLARITY" /\ e.arg = a
      BY <1>6
    <2>2. polarity'[a] = Undef
      BY <1>1, <1>2, <2>1
    <2>3. \A k \in 1..L - 1 : ~ SetAt(k, a)
      BY <1>3, <1>4 DEF PolarityInv
    <2> QED
      BY <2>2, <2>3
  <1>8. \A a \in Atoms : ~ SetAt(L, a) => polarity'[a] = polarity[a]
    BY <1>1, <1>2, <1>6
  <1>9. PolarityInv'
    <2>1. ASSUME NEW a \in Atoms
          PROVE  polarity'[a] # Undef <=> \E k \in 1..L - 1 : SetAt(k, a)'
      <3>1. polarity[a] # Undef <=> \E k \in 1..L : SetAt(k, a)
        BY <1>3 DEF PolarityInv
      <3>2. CASE SetAt(L, a)
        BY <1>5, <1>7, <3>2
      <3>3. CASE ~ SetAt(L, a)
        BY <1>4, <1>5, <1>8, <3>1, <3>3
      <3> QED
        BY <3>2, <3>3
    <2>2. \A j, k \in 1..L - 1 : \A a \in Atoms : SetAt(j, a)' /\ SetAt(k, a)' => j = k
      BY <1>3, <1>4, <1>5 DEF PolarityInv
    <2> QED
      BY <1>3, <2>1, <2>2 DEF PolarityInv
  <1>10. ASSUME NEW l \in Lits, NEW k \in 0..L - 1, SetBelow(k, l)
         PROVE  SetBelow(k, l)'
    <2>1. PICK i \in 1..k : SetAt(i, l.atom)
      BY <1>10 DEF SetBelow
    <2>2. i \in 1..L - 1
      BY <1>3
    <2>3. SetAt(i, l.atom)' /\ l.atom \in Atoms
      BY <1>5, <2>1, <2>2, AtomFacts
    <2>4. ~ SetAt(L, l.atom)
      BY <1>7, <2>1, <2>2, <2>3
    <2>5. polarity'[l.atom] = l.sgn
      BY <1>8, <1>10, <2>3, <2>4 DEF SetBelow
    <2> QED
      BY <2>1, <2>3, <2>5 DEF SetBelow
  <1> QED
    BY <1>2, <1>9, <1>10 DEF StillSet, Top

\* The past and the values after an action that leaves the classes alone.
Kept == undo_stack_main \in Seq(Undos) /\ PolarityInv /\ \E G : Past(G)
pastVars == <<root, parents, index, sig_tab, expVars>>

\* Nothing of it has changed.
LEMMA SamePast ==
    ASSUME EInv, UNCHANGED <<pastVars, undo_stack_main, polarity>>
    PROVE  Kept' /\ \A l : \A k : SetBelow(k, l) => SetBelow(k, l)'
  <1>1. PICK H : Past(H)
    BY DEF EInv
  <1>2. undo_stack_main \in Seq(Undos) /\ PolarityInv /\ H[Top] = root
    BY <1>1 DEF EInv, TypeInv, Past, History, Top
  <1>3. Top \in Nat
    BY <1>2, SeqFacts DEF Top
  <1>4. \A k, a : SetAt(k, a)' <=> SetAt(k, a)
    BY DEF SetAt
  <1>5. \A l : \A k : SetBelow(k, l) => SetBelow(k, l)'
    BY <1>4 DEF SetBelow
  <1>6. PolarityInv'
    BY <1>2, <1>4 DEF PolarityInv
  <1>7. undo_stack_main' \in Seq(Undos) /\ Len(undo_stack_main') = Top
    BY <1>2 DEF Top
  <1>8. UNCHANGED <<root, parents, sig_tab, expVars>>
    BY DEF pastVars
  <1>9. \A k \in Top + 1..Top : FALSE
    BY <1>3
  <1>10. Top \in 0..Top /\ Top \in Top..Top + 1
    BY <1>3
  <1>11. \E G : Past(G)'
    BY <1>1, <1>2, <1>5, <1>7, <1>8, <1>9, <1>10, KeptPast DEF Top
  <1> QED
    BY <1>5, <1>6, <1>7, <1>11 DEF Kept

\* An entry that is no merge was pushed.
LEMMA PushEntry ==
    ASSUME EInv, NEW e \in Undos, undo_stack_main' = Append(undo_stack_main, e),
           e.op # "MERGE", UNCHANGED pastVars, PolarityInv', StillSet(Top)
    PROVE  Kept'
  <1>1. PICK H : Past(H)
    BY DEF EInv
  <1>2. undo_stack_main \in Seq(Undos) /\ H[Top] = root
    BY <1>1 DEF EInv, TypeInv, Past, History, Top
  <1>3. /\ undo_stack_main' \in Seq(Undos) /\ Top \in Nat /\ Len(undo_stack_main') = Top + 1
        /\ undo_stack_main'[Top + 1] = e
        /\ \A k \in 1..Top : undo_stack_main'[k] = undo_stack_main[k]
    BY <1>2, StackPushed DEF Top
  <1>4. UNCHANGED <<root, parents, sig_tab, expVars>>
    BY DEF pastVars
  <1>5. \A k \in Top + 1..Top : FALSE
    BY <1>3
  <1>6. \A k \in Top + 1..Top + 1 : ~ IsMerge(k)'
    <2>1. ASSUME NEW k \in Top + 1..Top + 1
          PROVE  ~ IsMerge(k)'
      <3>1. k = Top + 1
        BY <1>3
      <3> QED
        BY <1>3, <3>1 DEF IsMerge
    <2> QED
      BY <2>1
  <1>7. Top \in 0..Top /\ Top + 1 \in Top..Top + 1
    BY <1>3
  <1>8. \E G : Past(G)'
    BY <1>1, <1>2, <1>3, <1>4, <1>5, <1>6, <1>7, KeptPast DEF Top, StillSet
  <1> QED
    BY <1>3, <1>8 DEF Kept

\* An entry that is no merge was popped.
LEMMA PopEntry ==
    ASSUME EInv, Top > 0, undo_stack_main' = Front(undo_stack_main),
           Last(undo_stack_main).op # "MERGE", UNCHANGED pastVars, PolarityInv', StillSet(Top - 1)
    PROVE  Kept'
  <1>1. PICK H : Past(H)
    BY DEF EInv
  <1>2. undo_stack_main \in Seq(Undos) /\ H[Top] = root
    BY <1>1 DEF EInv, TypeInv, Past, History, Top
  <1>3. /\ undo_stack_main' \in Seq(Undos) /\ Top \in Nat \ {0} /\ Len(undo_stack_main') = Top - 1
        /\ undo_stack_main[Top] = Last(undo_stack_main)
        /\ \A k \in 1..Top - 1 : undo_stack_main'[k] = undo_stack_main[k]
    BY <1>2, StackPopped DEF Top
  <1>4. UNCHANGED <<root, parents, sig_tab, expVars>>
    BY DEF pastVars
  <1>5. \A k \in Top - 1 + 1..Top : ~ IsMerge(k)
    BY <1>3 DEF IsMerge
  <1>6. \A k \in Top - 1 + 1..Top - 1 : FALSE
    BY <1>3
  <1>7. Top - 1 \in 0..Top /\ Top - 1 \in Top - 1..Top - 1 + 1 /\ Top \in 1..Top
    BY <1>3
  <1>8. H[Top - 1] = root
    <2>1. ~ IsMerge(Top)
      BY <1>3 DEF IsMerge
    <2>2. \A k \in 1..Top : IF IsMerge(k) THEN MergedAt(H, k) ELSE H[k] = H[k - 1]
      BY <1>1 DEF Past, History, Top
    <2> QED
      BY <1>2, <1>7, <2>1, <2>2
  <1>9. \E G : Past(G)'
    BY <1>1, <1>2, <1>3, <1>4, <1>5, <1>6, <1>7, <1>8, KeptPast DEF Top, StillSet
  <1> QED
    BY <1>3, <1>9 DEF Kept

-----------------------------------------------------------------------------
(* Assertions.                                                             *)

\* A sequence of other elements.
LEMMA SeqWider ==
    ASSUME NEW S, NEW T, NEW s \in Seq(S), \A i \in DOMAIN s : s[i] \in T
    PROVE  s \in Seq(T)
  <1>1. Len(s) \in Nat /\ DOMAIN s = 1..Len(s) /\ s \in [1..Len(s) -> S]
    BY SeqFacts, LenProperties
  <1>2. s \in [1..Len(s) -> T]
    BY <1>1
  <1> QED
    BY <1>1, <1>2, SeqDef

\* What a literal puts on the classes.
IsFact(q, l) == q \in Todos /\ q.reason = l /\ (q.kind = "eq" => <<q.x, q.y>> \in Ends(l))

\* An equality between the ends of a literal is a fact of it.
LEMMA EqFact ==
    ASSUME NEW l \in Lits, NEW x \in Terms, NEW y \in Terms, <<x, y>> \in Ends(l)
    PROVE  IsFact(Eq(x, y, l), l)
  <1> USE DEF Eq
  <1>1. Eq(x, y, l) \in Todos
    BY DEF Todos
  <1> QED
    BY <1>1 DEF IsFact

\* So is every disequality and distinction.
LEMMA OtherFact ==
    ASSUME NEW l \in Lits, NEW x \in Terms, NEW y \in Terms
    PROVE  IsFact(NEq(x, y, l), l) /\ IsFact(Dist(x, l), l)
  <1>1. NEq(x, y, l) \in Todos /\ NEq(x, y, l).reason = l /\ NEq(x, y, l).kind = "neq"
    BY DEF Todos, NEq
  <1>2. Dist(x, l) \in Todos /\ Dist(x, l).reason = l /\ Dist(x, l).kind = "dist"
    BY DEF Todos, Dist
  <1> QED
    BY <1>1, <1>2 DEF IsFact

\* All facts of a literal are.
LEMMA FactsTyped ==
    ASSUME NEW l \in Lits
    PROVE  Facts(l) \in Seq(Todos) /\ \A i \in DOMAIN Facts(l) : IsFact(Facts(l)[i], l)
  <1> DEFINE a == l.atom
             F == {q \in Todos : IsFact(q, l)}
             same == IF deduced[a] = l.sgn THEN <<>> ELSE <<Eq(a, Value(l.sgn), l)>>
  <1>1. /\ a \in EqAtoms \cup UPs \cup DistAtoms /\ a \in Terms /\ l.sgn \in Signs
        /\ EqAtoms \in SUBSET Terms /\ Value(l.sgn) \in Terms /\ Opposite(l.sgn) \in Terms
        /\ \A t \in EqAtoms \cup UPs : Not(t) \in Terms
    BY AtomFacts, TermFacts DEF Atoms, Value, Opposite
  <1>2. \A q : IsFact(q, l) => q \in F
    BY DEF IsFact
  <1>3. \A s \in Seq(F) : s \in Seq(Todos) /\ \A i \in DOMAIN s : IsFact(s[i], l)
    <2> SUFFICES ASSUME NEW s \in Seq(F)
                 PROVE  s \in Seq(Todos) /\ \A i \in DOMAIN s : IsFact(s[i], l)
      OBVIOUS
    <2>1. \A i \in DOMAIN s : s[i] \in F
      BY SeqFacts
    <2>2. s \in Seq(Todos)
      BY <2>1, SeqWider
    <2> QED
      BY <2>1, <2>2
  <1>4. a \in EqAtoms \cup UPs => same \in Seq(F)
    <2> HAVE a \in EqAtoms \cup UPs
    <2>1. <<a, Value(l.sgn)>> \in Ends(l)
      BY DEF Ends, ValuePairs
    <2>2. Eq(a, Value(l.sgn), l) \in F
      BY <1>1, <1>2, <2>1, EqFact
    <2> DEFINE q == Eq(a, Value(l.sgn), l)
    <2> HIDE DEF F, q
    <2>3. <<q>> \in Seq(F) /\ <<>> \in Seq(F)
      BY <2>2 DEF q
    <2> QED
      BY <2>3 DEF q
  <1>5. a \in EqAtoms => a.args[1] \in Terms /\ a.args[2] \in Terms
    <2> HAVE a \in EqAtoms
    <2>1. Len(a.args) = 2 /\ a.args \in Seq(Terms)
      BY <1>1, ArgumentList, DeclaredFacts DEF EqAtoms
    <2> QED
      BY <2>1
  <1>6. CASE a \in EqAtoms /\ deduced[a] = l.sgn
    <2>1. Facts(l) = <<>>
      BY <1>6, DeclaredFacts DEF Facts
    <2> QED
      BY <1>3, <2>1
  <1>7. CASE a \in EqAtoms /\ deduced[a] # l.sgn
    <2> DEFINE q == IF l.sgn = l_True THEN Eq(a.args[1], a.args[2], l)
                                      ELSE NEq(a.args[1], a.args[2], l)
    <2>1. q \in F
      <3>1. CASE l.sgn = l_True
        <4>1. <<a.args[1], a.args[2]>> \in Ends(l)
          BY <1>7, <3>1 DEF Ends, Positive
        <4> QED
          BY <1>2, <1>5, <1>7, <3>1, <4>1, EqFact
      <3>2. CASE l.sgn # l_True
        BY <1>2, <1>5, <1>7, <3>2, OtherFact
      <3> QED
        BY <3>1, <3>2
    <2>2. Facts(l) = <<q>> \o same
      BY <1>7, DeclaredFacts DEF Facts
    <2>3. same \in Seq(F)
      BY <1>4, <1>7
    <2> HIDE DEF q, same, F
    <2>4. <<q>> \o same \in Seq(F)
      BY <2>1, <2>3, ConcatNodes
    <2> QED
      BY <1>3, <2>2, <2>4
  <1>8. CASE a \in UPs
    <2>1. <<Not(a), Opposite(l.sgn)>> \in Ends(l)
      BY <1>8 DEF Ends, ValuePairs
    <2>2. Eq(Not(a), Opposite(l.sgn), l) \in F
      BY <1>1, <1>2, <1>8, <2>1, EqFact
    <2>3. Facts(l) = same \o <<Eq(Not(a), Opposite(l.sgn), l)>>
      BY <1>8, DeclaredFacts DEF Facts
    <2>4. same \in Seq(F)
      BY <1>4, <1>8
    <2>5. <<Eq(Not(a), Opposite(l.sgn), l)>> \in Seq(F)
      BY <2>2
    <2> HIDE DEF same, F
    <2>6. same \o <<Eq(Not(a), Opposite(l.sgn), l)>> \in Seq(F)
      BY <2>4, <2>5, ConcatNodes
    <2> QED
      BY <1>3, <2>3, <2>6
  <1>9. CASE a \in DistAtoms
    <2>1. Facts(l) = <<Dist(a, l)>>
      BY <1>9, DeclaredFacts DEF Facts
    <2>2. Dist(a, l) \in F
      BY <1>1, <1>2, OtherFact
    <2>3. <<Dist(a, l)>> \in Seq(F)
      BY <2>2
    <2> QED
      BY <1>3, <2>1, <2>3
  <1> QED
    BY <1>1, <1>6, <1>7, <1>8, <1>9

TodoItems ==
  /\ todo \in Seq(Todos)
  /\ \A i \in DOMAIN todo : /\ SetNow(todo[i].reason)
                            /\ todo[i].kind = "eq" => <<todo[i].x, todo[i].y>> \in Ends(todo[i].reason)

\* TodoInv in these terms.
LEMMA TodoInvAs == TodoInv <=> (pc \notin {"assert", "merge"} => todo = <<>>)
                               /\ \A i \in DOMAIN todo :
                                    /\ SetNow(todo[i].reason)
                                    /\ todo[i].kind = "eq" => <<todo[i].x, todo[i].y>> \in Ends(todo[i].reason)
  BY DEF TodoInv, SetNow, Top

\* The invariant gives what is to be done.
LEMMA ItemsNow ==
    ASSUME EInv
    PROVE  TodoItems
  BY TodoInvAs DEF EInv, TodoItems, TypeInv

\* What is left to do, and all but the first of it.
LEMMA ItemsKept ==
    ASSUME TodoItems, \A l \in Lits : SetNow(l) => SetNow(l)',
           todo' = todo \/ (todo # <<>> /\ todo' = Tail(todo)) \/ todo' = <<>>
    PROVE  TodoItems'
  <1>1. todo \in Seq(Todos)
    BY DEF TodoItems
  <1>2. Len(todo) \in Nat /\ DOMAIN todo = 1..Len(todo) /\ \A i \in DOMAIN todo : todo[i] \in Todos
    BY <1>1, SeqFacts
  <1>9. \A i \in DOMAIN todo : todo[i].reason \in Lits
    BY <1>2 DEF Todos
  <1>3. CASE todo' = todo
    <2>1. \A i \in DOMAIN todo : SetNow(todo[i].reason)'
      BY <1>3, <1>9 DEF TodoItems, SetNow, SetBelow
    <2> QED
      BY <1>3, <2>1 DEF TodoItems
  <1>4. CASE todo # <<>> /\ todo' = Tail(todo)
    <2>1. /\ todo' \in Seq(Todos) /\ Len(todo') = Len(todo) - 1
          /\ \A i \in 1..Len(todo) - 1 : todo'[i] = todo[i + 1]
      BY <1>1, <1>4, HeadTailProperties
    <2>2. DOMAIN todo' = 1..Len(todo) - 1
      BY <1>2, <2>1, SeqFacts
    <2>3. \A i \in 1..Len(todo) - 1 : i + 1 \in DOMAIN todo
      BY <1>2
    <2>4. ASSUME NEW i \in DOMAIN todo'
          PROVE  /\ SetNow(todo[i].reason)'
                 /\ todo'[i].kind = "eq" => <<todo'[i].x, todo'[i].y>> \in Ends(todo'[i].reason)
      <3>1. PICK q : q = todo[i + 1]
        OBVIOUS
      <3>2. todo'[i] = q /\ i + 1 \in DOMAIN todo
        BY <2>1, <2>2, <2>3, <3>1
      <3>3. SetNow(q.reason) /\ q.reason \in Lits /\ (q.kind = "eq" => <<q.x, q.y>> \in Ends(q.reason))
        BY <1>9, <3>1, <3>2 DEF TodoItems
      <3>4. SetNow(q.reason)'
        BY <3>3
      <3>5. SetNow(todo[i].reason)'
        BY <3>2, <3>4 DEF SetNow, SetBelow
      <3> QED
        BY <3>2, <3>3, <3>5
    <2> QED
      BY <2>1, <2>4 DEF TodoItems
  <1>5. CASE todo' = <<>>
    BY <1>5 DEF TodoItems
  <1> QED
    BY <1>3, <1>4, <1>5

\* The types, when the classes are left alone.
LEMMA TypesKept ==
    ASSUME TypeInv, UNCHANGED pastVars, undo_stack_main' \in Seq(Undos),
           polarity' \in [Atoms -> Signs \cup {Undef}], todo' \in Seq(Todos),
           pending' \in Seq(Nodes), congruence_pending' \in BOOLEAN,
           pc' \in {"idle", "assert", "merge", "conflict", "undo"}
    PROVE  TypeInv'
  BY DEF TypeInv, pastVars, expVars

\* The invariant from its parts.
LEMMA EInvNext ==
    ASSUME TypeInv', Kept', TodoItems', pc' \notin {"assert", "merge"} => todo' = <<>>, PendingInv'
    PROVE  EInv'
  <1>1. TodoInv'
    BY DEF TodoItems, TodoInv, SetNow, Top
  <1> QED
    BY <1>1 DEF EInv, Kept
-----------------------------------------------------------------------------
\* A literal is asserted: its value comes onto the stack, its facts into todo.
LEMMA AssertLitKeeps ==
    ASSUME EInv, NEW l \in Literals, assertLit(l)
    PROVE  EInv'
  <1>1. l \in Lits /\ l.atom \in Atoms /\ l.sgn \in Signs
    BY LiteralsAssumption DEF Lits, Signs, l_True, l_False
  <1> DEFINE e == Undo("SET_POLARITY", l.atom, {})
  <1>2. e \in Undos /\ e.op = "SET_POLARITY" /\ e.arg = l.atom
    BY <1>1, AtomFacts, TermFacts DEF Undos, Undo
  <1>3. undo_stack_main' = Append(undo_stack_main, e) /\ UNCHANGED pastVars
    BY DEF assertLit, classVars, pastVars
  <1>4. TypeInv /\ PolarityInv /\ undo_stack_main \in Seq(Undos) /\ polarity \in [Atoms -> Signs \cup {Undef}]
    BY DEF EInv, TypeInv
  <1>5. polarity' = [polarity EXCEPT ![l.atom] = l.sgn] /\ polarity[l.atom] = Undef
    BY DEF assertLit
  <1>6. PICK L, M : L = Len(undo_stack_main) /\ M = Len(undo_stack_main')
    OBVIOUS
  <1> HIDE DEF e
  <1>7. /\ undo_stack_main' \in Seq(Undos) /\ L \in Nat /\ M = L + 1
        /\ DOMAIN undo_stack_main = 1..L /\ DOMAIN undo_stack_main' = 1..M
        /\ undo_stack_main'[M] = e
        /\ \A k \in 1..L : undo_stack_main'[k] = undo_stack_main[k]
    BY <1>2, <1>3, <1>4, <1>6, StackPushed
  <1>8. /\ \A k \in 1..M : k \in 1..L \/ k = M
        /\ \A k \in 1..L : k \in 1..M
        /\ M \in 1..M
    BY <1>7
  <1>9. \A k \in 1..L : \A a : SetAt(k, a)' <=> SetAt(k, a)
    BY <1>7 DEF SetAt
  <1>10. \A a : SetAt(M, a)' <=> a = l.atom
    BY <1>2, <1>7 DEF SetAt
  <1>11. \A k \in 1..L : ~ SetAt(k, l.atom)
    BY <1>1, <1>4, <1>5, <1>7 DEF PolarityInv
  <1>12. \A a \in Atoms : a # l.atom => polarity'[a] = polarity[a]
    BY <1>4, <1>5
  <1>13. polarity'[l.atom] = l.sgn /\ l.sgn # Undef
    BY <1>1, <1>4, <1>5, AtomFacts
  <1>14. PolarityInv'
    <2>1. ASSUME NEW a \in Atoms
          PROVE  polarity'[a] # Undef <=> \E k \in 1..M : SetAt(k, a)'
      <3>1. polarity[a] # Undef <=> \E k \in 1..L : SetAt(k, a)
        BY <1>4, <1>7 DEF PolarityInv
      <3>2. CASE a = l.atom
        BY <1>8, <1>10, <1>13, <3>2
      <3>3. CASE a # l.atom
        BY <1>8, <1>9, <1>10, <1>12, <3>1, <3>3
      <3> QED
        BY <3>2, <3>3
    <2>2. \A j, k \in 1..M : \A a \in Atoms : SetAt(j, a)' /\ SetAt(k, a)' => j = k
      <3>1. \A j, k \in 1..L : \A a \in Atoms : SetAt(j, a) /\ SetAt(k, a) => j = k
        BY <1>4, <1>7 DEF PolarityInv
      <3> QED
        BY <1>8, <1>9, <1>10, <1>11, <3>1
    <2> QED
      BY <1>7, <2>1, <2>2 DEF PolarityInv
  <1>15. StillSet(Top)
    <2> SUFFICES ASSUME NEW q \in Lits, NEW k \in 0..L, SetBelow(k, q)
                 PROVE  SetBelow(k, q)'
      BY <1>6 DEF StillSet, Top
    <2>1. PICK i \in 1..k : SetAt(i, q.atom)
      BY DEF SetBelow
    <2>2. i \in 1..L /\ q.atom \in Atoms /\ polarity[q.atom] = q.sgn /\ q.sgn # Undef
      BY <1>7, AtomFacts DEF SetBelow
    <2>3. q.atom # l.atom
      BY <1>11, <2>1, <2>2
    <2> QED
      BY <1>9, <1>12, <2>1, <2>2, <2>3 DEF SetBelow
  <1>16. Kept'
    BY <1>2, <1>3, <1>14, <1>15, PushEntry
  <1>17. SetNow(l)'
    BY <1>6, <1>8, <1>10, <1>13 DEF SetNow, SetBelow, Top
  <1>18. TodoItems'
    <2>1. todo' = Facts(l)
      BY DEF assertLit
    <2> QED
      BY <1>1, <1>17, <2>1, FactsTyped DEF TodoItems, IsFact
  <1>19. PendingInv' /\ pending' \in Seq(Nodes) /\ congruence_pending' \in BOOLEAN /\ pc' = "assert"
    BY DEF assertLit, EInv, PendingInv, TypeInv
  <1>20. polarity' \in [Atoms -> Signs \cup {Undef}]
    BY <1>1, <1>4, <1>5
  <1>21. TypeInv'
    BY <1>3, <1>4, <1>7, <1>18, <1>19, <1>20, TypesKept DEF TodoItems
  <1> QED
    BY <1>16, <1>18, <1>19, <1>21, EInvNext

\* An action that leaves the classes, the stack and the values alone.
LEMMA StillKeeps ==
    ASSUME EInv, UNCHANGED <<pastVars, undo_stack_main, polarity>>,
           todo' = todo \/ (todo # <<>> /\ todo' = Tail(todo)) \/ todo' = <<>>,
           pc' \notin {"assert", "merge"} => todo' = <<>>,
           pending' \in Seq(Nodes), congruence_pending' \in BOOLEAN, PendingInv',
           pc' \in {"idle", "assert", "merge", "conflict", "undo"}
    PROVE  EInv'
  <1>1. Kept' /\ \A l : \A k : SetBelow(k, l) => SetBelow(k, l)'
    BY SamePast
  <1>2. \A l : SetNow(l) => SetNow(l)'
    BY <1>1 DEF SetNow, Top, SetBelow
  <1>3. TodoItems'
    BY <1>2, ItemsNow, ItemsKept
  <1>4. TypeInv /\ UNCHANGED pastVars
    BY DEF EInv
  <1>5. polarity' \in [Atoms -> Signs \cup {Undef}] /\ undo_stack_main' \in Seq(Undos)
    BY <1>4 DEF TypeInv
  <1>6. TypeInv'
    BY <1>3, <1>4, <1>5, TypesKept DEF TodoItems
  <1> QED
    BY <1>1, <1>3, <1>6, EInvNext

\* The first fact, an equality, becomes the pending pair.
LEMMA AssertEqKeeps ==
    ASSUME EInv, assertEq
    PROVE  EInv'
  <1>1. todo \in Seq(Todos) /\ todo # <<>> /\ Head(todo).kind = "eq" /\ pc = "assert"
    BY DEF EInv, TypeInv, assertEq, Next1
  <1>2. Head(todo) \in Todos
    BY <1>1
  <1>3. X \in Nodes /\ Y \in Nodes
    BY <1>2, TermFacts DEF Todos, X, Y
  <1>4. pending' = <<X, Y>> /\ pc' = "merge" /\ todo' = todo /\ congruence_pending' = congruence_pending
    BY DEF assertEq
  <1>5. pending' \in Seq(Nodes)
    BY <1>3, <1>4
  <1>6. congruence_pending = FALSE
    BY <1>1 DEF EInv, PendingInv, TypeInv
  <1>7. PendingInv'
    BY <1>1, <1>4, <1>6 DEF PendingInv, X, Y
  <1>8. UNCHANGED <<pastVars, undo_stack_main, polarity>>
    BY DEF assertEq, classVars, pastVars
  <1> QED
    BY <1>4, <1>5, <1>6, <1>7, <1>8, StillKeeps

\* The last fact is done.
LEMMA AssertsKeeps ==
    ASSUME EInv, Asserts
    PROVE  EInv'
  <1>1. UNCHANGED <<pastVars, undo_stack_main, polarity>>
    BY DEF Asserts, classVars, pastVars
  <1>2. /\ todo' = <<>> /\ todo' = todo /\ pending' = pending /\ pc = "assert" /\ pc' = "idle"
        /\ congruence_pending' = congruence_pending
    BY DEF Asserts
  <1>3. pending = <<>> /\ congruence_pending = FALSE
    BY <1>2 DEF EInv, PendingInv, TypeInv
  <1>4. PendingInv' /\ pending' \in Seq(Nodes)
    BY <1>2, <1>3 DEF PendingInv
  <1> QED
    BY <1>1, <1>2, <1>3, <1>4, StillKeeps

\* The last pending pair is done.
LEMMA MergeDoneKeeps ==
    ASSUME EInv, MergeDone
    PROVE  EInv'
  <1>1. UNCHANGED <<pastVars, undo_stack_main, polarity>>
    BY DEF MergeDone, classVars, pastVars
  <1>2. /\ todo' = Tail(todo) /\ pending' = <<>> /\ pc = "merge" /\ pc' = "assert"
        /\ congruence_pending' = FALSE
    BY DEF MergeDone
  <1>3. todo # <<>>
    BY <1>2 DEF EInv, PendingInv
  <1>4. PendingInv' /\ pending' \in Seq(Nodes)
    BY <1>2 DEF PendingInv
  <1> QED
    BY <1>1, <1>2, <1>3, <1>4, StillKeeps

\* Undoing starts.
LEMMA PopPointKeeps ==
    ASSUME EInv, popBacktrackPoint
    PROVE  EInv'
  <1>1. UNCHANGED <<pastVars, undo_stack_main, polarity>>
    BY DEF popBacktrackPoint, classVars, pastVars
  <1>2. /\ todo' = todo /\ pending' = pending /\ pc \in {"idle", "conflict"} /\ pc' = "undo"
        /\ congruence_pending' = congruence_pending
    BY DEF popBacktrackPoint
  <1>3. pending = <<>> /\ congruence_pending = FALSE /\ todo = <<>>
    BY <1>2 DEF EInv, PendingInv, TypeInv, TodoInv
  <1>4. PendingInv' /\ pending' \in Seq(Nodes)
    BY <1>2, <1>3 DEF PendingInv
  <1> QED
    BY <1>1, <1>2, <1>3, <1>4, StillKeeps

\* Undoing ends.
LEMMA UndoDoneKeeps ==
    ASSUME EInv, UndoDone
    PROVE  EInv'
  <1>1. UNCHANGED <<pastVars, undo_stack_main, polarity>>
    BY DEF UndoDone, classVars, pastVars
  <1>2. /\ todo' = todo /\ pending' = pending /\ pc = "undo" /\ pc' = "idle"
        /\ congruence_pending' = congruence_pending
    BY DEF UndoDone
  <1>3. pending = <<>> /\ congruence_pending = FALSE /\ todo = <<>>
    BY <1>2 DEF EInv, PendingInv, TypeInv, TodoInv
  <1>4. PendingInv' /\ pending' \in Seq(Nodes)
    BY <1>2, <1>3 DEF PendingInv
  <1> QED
    BY <1>1, <1>2, <1>3, <1>4, StillKeeps

\* Without its last pair the rest of pending is still paired.
LEMMA RestPaired ==
    ASSUME pending \in Seq(Nodes), NEW r, Paired(pending, r), pending # <<>>
    PROVE  /\ Rest \in Seq(Nodes) /\ Paired(Rest, r)
           /\ left \in Nodes /\ right \in Nodes /\ Sig(r, left) = Sig(r, right)
  <1>1. PICK n \in Nat : Len(pending) = 2 * n /\ \A i \in 1..n : Sig(r, pending[2 * i - 1]) = Sig(r, pending[2 * i])
    BY DEF Paired
  <1>2. Len(pending) \in Nat \ {0} /\ \A i \in 1..Len(pending) : pending[i] \in Nodes
    BY SeqFacts, EmptySeq
  <1>3. n \in Nat \ {0} /\ n \in 1..n /\ 2 * n \in 1..Len(pending) /\ 2 * n - 1 \in 1..Len(pending)
        /\ Len(pending) - 2 \in 0..Len(pending) /\ Len(pending) - 2 = 2 * (n - 1) /\ n - 1 \in Nat
        /\ Len(pending) - 1 = 2 * n - 1
    BY <1>1, <1>2
  <1>4. left = pending[2 * n] /\ right = pending[2 * n - 1]
    BY <1>1, <1>3 DEF left, right, Last
  <1>5. /\ Rest \in Seq(Nodes) /\ Len(Rest) = Len(pending) - 2
        /\ \A i \in 1..Len(pending) - 2 : Rest[i] = pending[i]
    BY <1>3, PrefixFacts DEF Rest
  <1>6. \A i \in 1..n - 1 : /\ i \in 1..n /\ 2 * i \in 1..Len(pending) - 2
                            /\ 2 * i - 1 \in 1..Len(pending) - 2
    BY <1>3
  <1>7. Paired(Rest, r)
    BY <1>1, <1>3, <1>5, <1>6 DEF Paired
  <1> QED
    BY <1>1, <1>2, <1>3, <1>4, <1>5, <1>7

\* Without congruences there is one pair.
LEMMA OnePair ==
    ASSUME NEW x \in Nodes, NEW y \in Nodes, pending = <<x, y>>
    PROVE  Rest = <<>> /\ left = y /\ right = x /\ pending # <<>>
  <1>1. Len(pending) = 2 /\ pending[1] = x /\ pending[2] = y /\ pending \in Seq(Nodes)
    OBVIOUS
  <1>2. SubSeq(pending, 1, 0) \in Seq(Nodes) /\ Len(SubSeq(pending, 1, 0)) = 0
    BY <1>1, PrefixFacts
  <1> QED
    BY <1>1, <1>2, EmptySeq DEF Rest, left, right, Last

\* A pending pair of one class is dropped.
LEMMA MergeSameKeeps ==
    ASSUME EInv, MergeSame
    PROVE  EInv'
  <1>1. UNCHANGED <<pastVars, undo_stack_main, polarity>> /\ root' = root
    BY DEF MergeSame, classVars, pastVars
  <1>2. /\ todo' = todo /\ pending' = Rest /\ pc = "merge" /\ pc' = "merge" /\ pending # <<>>
        /\ congruence_pending' = congruence_pending
    BY DEF MergeSame, Turn
  <1>3. /\ todo # <<>> /\ Head(todo).kind = "eq"
        /\ congruence_pending \/ pending = <<>> \/ pending = <<Head(todo).x, Head(todo).y>>
        /\ congruence_pending => Paired(pending, root)
        /\ pending \in Seq(Nodes) /\ congruence_pending \in BOOLEAN /\ todo \in Seq(Todos)
    BY <1>2 DEF EInv, PendingInv, TypeInv
  <1>4. CASE congruence_pending
    <2>1. Rest \in Seq(Nodes) /\ Paired(Rest, root)
      BY <1>2, <1>3, <1>4, RestPaired
    <2>2. PendingInv'
      BY <1>1, <1>2, <1>3, <1>4, <2>1 DEF PendingInv
    <2> QED
      BY <1>1, <1>2, <1>3, <2>1, <2>2, StillKeeps
  <1>5. CASE ~ congruence_pending
    <2>1. Head(todo) \in Todos
      BY <1>3
    <2>2. Head(todo).x \in Nodes /\ Head(todo).y \in Nodes
      BY <2>1, TermFacts DEF Todos
    <2>3. Rest = <<>>
      BY <1>2, <1>3, <1>5, <2>2, OnePair
    <2>4. PendingInv' /\ Rest \in Seq(Nodes)
      BY <1>2, <1>3, <1>5, <2>3 DEF PendingInv
    <2> QED
      BY <1>1, <1>2, <1>3, <2>4, StillKeeps
  <1> QED
    BY <1>4, <1>5

\* There is a point to go back to while entries are undone.
LEMMA PointsKept ==
    ASSUME EInv, PointsInv, Next
    PROVE  PointsInv'
  <1>1. Len(undo_stack_main) \in Nat
    BY SeqFacts DEF EInv, TypeInv
  <1>2. ASSUME NEW l \in Literals, assertLit(l)
        PROVE  PointsInv'
    BY <1>1, <1>2 DEF assertLit, PointsInv
  <1>3. CASE UndoDone
    <2>1. backtrack_points \in Seq(Nat) /\ backtrack_points # <<>> /\ pc' = "idle"
      BY <1>3 DEF UndoDone, PointsInv
    <2>2. Len(backtrack_points) - 1 \in 0..Len(backtrack_points)
      BY <2>1
    <2>3. Front(backtrack_points) \in Seq(Nat)
      BY <2>1, <2>2, PrefixFacts DEF Front
    <2> QED
      BY <1>3, <2>1, <2>3 DEF UndoDone, PointsInv
  <1>4. CASE popBacktrackPoint
    BY <1>4 DEF popBacktrackPoint, pointVars, PointsInv
  <1>5. CASE assertEq \/ assertDisequality \/ assertDist \/ Asserts
    BY <1>5 DEF assertEq, assertDisequality, assertDist, Asserts, pointVars, PointsInv, Next1, Conflict
  <1>6. CASE MergeSame \/ MergeClasses \/ MergeRefused \/ MergeDone
    BY <1>6 DEF MergeSame, MergeClasses, MergeRefused, MergeDone, pointVars, PointsInv, Turn
  <1>7. CASE undoMerge \/ UndoDisequality \/ UndoDist \/ clearPolarity
    BY <1>7 DEF undoMerge, UndoDisequality, UndoDist, clearPolarity, Undoing, pointVars, PointsInv
  <1> QED
    BY <1>2, <1>3, <1>4, <1>5, <1>6, <1>7 DEF Next

\* There is something to undo.
LEMMA ToUndo ==
    ASSUME EInv, PointsInv, NEW op, Undoing(op)
    PROVE  Top > 0 /\ Top \in Nat /\ Last(undo_stack_main) \in Undos
  <1>1. backtrack_points \in Seq(Nat) /\ backtrack_points # <<>>
    BY DEF PointsInv, Undoing
  <1>2. Last(backtrack_points) \in Nat
    <2>1. Len(backtrack_points) \in 1..Len(backtrack_points)
      BY <1>1, EmptySeq
    <2> QED
      BY <1>1, <2>1, SeqFacts DEF Last
  <1>3. undo_stack_main \in Seq(Undos)
    BY DEF EInv, TypeInv
  <1>4. Top > 0 /\ Top \in Nat
    BY <1>2, <1>3 DEF Top, Undoing
  <1>5. Top \in 1..Top
    BY <1>4
  <1> QED
    BY <1>3, <1>4, <1>5, SeqFacts DEF Top, Last

\* An entry on the stack that gives no value and joins no classes.
LEMMA PushKeeps ==
    ASSUME EInv, NEW e \in Undos, undo_stack_main' = Append(undo_stack_main, e),
           e.op \notin {"MERGE", "SET_POLARITY"}, UNCHANGED <<pastVars, polarity, pending, congruence_pending, pc>>,
           pc = "assert", todo # <<>>, todo' = Tail(todo)
    PROVE  EInv'
  <1>1. TypeInv /\ PolarityInv /\ UNCHANGED pastVars
    BY DEF EInv
  <1>2. PolarityInv' /\ StillSet(Top) /\ (\A l \in Lits : SetNow(l) => SetNow(l)')
    BY <1>1, PolarityPushed
  <1>3. Kept'
    BY <1>2, PushEntry
  <1>4. TodoItems'
    BY <1>2, ItemsNow, ItemsKept
  <1>5. PendingInv' /\ pending' \in Seq(Nodes) /\ congruence_pending' \in BOOLEAN
    BY DEF EInv, PendingInv, TypeInv
  <1>6. polarity' \in [Atoms -> Signs \cup {Undef}]
    BY <1>1 DEF TypeInv
  <1>7. TypeInv'
    BY <1>1, <1>3, <1>4, <1>5, <1>6, TypesKept DEF TodoItems, Kept
  <1> QED
    BY <1>3, <1>4, <1>5, <1>7, EInvNext

\* Asserting ends in a conflict.
LEMMA ConflictKeeps ==
    ASSUME EInv, NEW e, Conflict(e), UNCHANGED <<pastVars, polarity, pending, congruence_pending>>,
           pc = "assert"
    PROVE  EInv'
  <1>1. todo' = <<>> /\ pc' = "conflict" /\ undo_stack_main' = undo_stack_main
    BY DEF Conflict
  <1>2. pending = <<>> /\ congruence_pending = FALSE
    BY DEF EInv, PendingInv, TypeInv
  <1>4. pending' = <<>> /\ congruence_pending' = FALSE
    BY <1>2
  <1>5. PendingInv'
    BY <1>1, <1>4 DEF PendingInv
  <1>3. PendingInv' /\ pending' \in Seq(Nodes) /\ congruence_pending' \in BOOLEAN
    <2>1. <<>> \in Seq(Nodes) /\ FALSE \in BOOLEAN
      OBVIOUS
    <2> QED
      BY <1>4, <1>5, <2>1
  <1> QED
    BY <1>1, <1>3, StillKeeps

\* A disequality is entered, or is the conflict.
LEMMA DisequalityKeeps ==
    ASSUME EInv, assertDisequality
    PROVE  EInv'
  <1>1. UNCHANGED <<pastVars, polarity, pending, congruence_pending>> /\ pc = "assert" /\ todo # <<>>
    BY DEF assertDisequality, Next1, pastVars
  <1>2. CASE Conflict(doExplain(Forest, X, Y, R))
    BY <1>1, <1>2, ConflictKeeps
  <1>3. CASE /\ undo_stack_main' = Append(undo_stack_main, Undo("DISEQ", root[Y], {}))
             /\ todo' = Tail(todo) /\ UNCHANGED pc
    <2>1. todo \in Seq(Todos) /\ root \in [Nodes -> Nodes]
      BY DEF EInv, TypeInv
    <2>2. Y \in Nodes
      <3>1. Head(todo) \in Todos
        BY <1>1, <2>1
      <3> QED
        BY <3>1, TermFacts DEF Todos, Y
    <2>3. Undo("DISEQ", root[Y], {}) \in Undos /\ Undo("DISEQ", root[Y], {}).op = "DISEQ"
      BY <2>1, <2>2 DEF Undos, Undo
    <2> QED
      BY <1>1, <1>3, <2>3, PushKeeps
  <1> QED
    BY <1>2, <1>3 DEF assertDisequality

\* A distinction is entered, or is the conflict.
LEMMA DistKeeps ==
    ASSUME EInv, assertDist
    PROVE  EInv'
  <1>1. UNCHANGED <<pastVars, polarity, pending, congruence_pending>> /\ pc = "assert" /\ todo # <<>>
    BY DEF assertDist, Next1, pastVars
  <1>2. CASE todo' = <<>> /\ pc' = "conflict" /\ UNCHANGED undo_stack_main
    <2>1. pending = <<>> /\ congruence_pending = FALSE
      BY <1>1 DEF EInv, PendingInv, TypeInv
    <2>3. pending' = <<>> /\ congruence_pending' = FALSE
      BY <1>1, <2>1
    <2>4. PendingInv'
      BY <1>2, <2>3 DEF PendingInv
    <2>2. PendingInv' /\ pending' \in Seq(Nodes) /\ congruence_pending' \in BOOLEAN
      <3>1. <<>> \in Seq(Nodes) /\ FALSE \in BOOLEAN
        OBVIOUS
      <3> QED
        BY <2>3, <2>4, <3>1
    <2> QED
      BY <1>1, <1>2, <2>2, StillKeeps
  <1>3. CASE /\ undo_stack_main' = Append(undo_stack_main, Undo("DIST", X, {}))
             /\ todo' = Tail(todo) /\ UNCHANGED pc
    <2>1. todo \in Seq(Todos)
      BY DEF EInv, TypeInv
    <2>2. X \in Nodes
      <3>1. Head(todo) \in Todos
        BY <1>1, <2>1
      <3> QED
        BY <3>1, TermFacts DEF Todos, X
    <2>3. Undo("DIST", X, {}) \in Undos /\ Undo("DIST", X, {}).op = "DIST"
      BY <2>2 DEF Undos, Undo
    <2> QED
      BY <1>1, <1>3, <2>3, PushKeeps
  <1> QED
    BY <1>2, <1>3 DEF assertDist

\* An entry less that joined no classes.
LEMMA PopKeeps ==
    ASSUME EInv, PointsInv, NEW op, op # "MERGE", Undoing(op), UNCHANGED pastVars,
           IF op = "SET_POLARITY"
           THEN polarity' = [polarity EXCEPT ![Last(undo_stack_main).arg] = Undef]
           ELSE polarity' = polarity
    PROVE  EInv'
  <1>1. TypeInv /\ PolarityInv /\ Top > 0
    BY ToUndo DEF EInv
  <1>2. /\ undo_stack_main' = Front(undo_stack_main) /\ Last(undo_stack_main).op = op
        /\ UNCHANGED <<todo, pending, congruence_pending, pc>> /\ pc = "undo"
    BY DEF Undoing
  <1>3. PolarityInv' /\ StillSet(Top - 1)
    BY <1>1, <1>2, PolarityPopped
  <1>4. Kept'
    BY <1>1, <1>2, <1>3, PopEntry
  <1>5. todo' = <<>> /\ TodoItems'
    BY <1>2 DEF EInv, TodoInv, TodoItems
  <1>6. PendingInv' /\ pending' \in Seq(Nodes) /\ congruence_pending' \in BOOLEAN
    BY <1>2 DEF EInv, PendingInv, TypeInv
  <1>7. polarity' \in [Atoms -> Signs \cup {Undef}]
    BY <1>1 DEF TypeInv
  <1>8. TypeInv'
    BY <1>1, <1>2, <1>4, <1>5, <1>6, <1>7, TypesKept DEF TodoItems, Kept
  <1> QED
    BY <1>2, <1>4, <1>5, <1>6, <1>8, EInvNext

\* Entries other than merges are undone.
LEMMA UndosKeep ==
    ASSUME EInv, PointsInv, UndoDisequality \/ UndoDist \/ clearPolarity
    PROVE  EInv'
  <1>1. CASE UndoDisequality
    <2>1. Undoing("DISEQ") /\ UNCHANGED pastVars /\ polarity' = polarity
      BY <1>1 DEF UndoDisequality, pastVars
    <2> QED
      BY <2>1, PopKeeps
  <1>2. CASE UndoDist
    <2>1. Undoing("DIST") /\ UNCHANGED pastVars /\ polarity' = polarity
      BY <1>2 DEF UndoDist, pastVars
    <2> QED
      BY <2>1, PopKeeps
  <1>3. CASE clearPolarity
    <2>1. /\ Undoing("SET_POLARITY") /\ UNCHANGED pastVars
          /\ polarity' = [polarity EXCEPT ![Last(undo_stack_main).arg] = Undef]
      BY <1>3 DEF clearPolarity, pastVars, classVars, Undone
    <2> QED
      BY <2>1, PopKeeps
  <1> QED
    BY <1>1, <1>2, <1>3

-----------------------------------------------------------------------------
(* A merge: the classes, the use vectors and the table.                    *)

\* What a turn starts with.
TurnOf(H) ==
  /\ left \in Nodes /\ right \in Nodes /\ (isList(left) <=> isList(right))
  /\ Rest \in Seq(Nodes) /\ Paired(Rest, root)
  /\ isList(left) => Sig(root, left) = Sig(root, right)
  /\ ~ isList(left) => /\ left \in Terms /\ right \in Terms
                       /\ Reason(H, left, right, MergeReason, Top)

\* The invariant gives it.
LEMMA TurnFacts ==
    ASSUME EInv, NEW H, Past(H), Turn
    PROVE  TurnOf(H)
  <1>1. /\ todo # <<>> /\ Head(todo).kind = "eq"
        /\ congruence_pending \/ pending = <<>> \/ pending = <<Head(todo).x, Head(todo).y>>
        /\ congruence_pending => Paired(pending, root)
        /\ pending \in Seq(Nodes) /\ pending # <<>> /\ todo \in Seq(Todos)
    BY DEF EInv, PendingInv, TypeInv, Turn
  <1>2. H[Top] = root
    BY DEF Past, History, Top
  <1>3. \A n \in Nodes : ~ isList(n) <=> n \in Terms
    BY TermFacts
  <1>4. CASE congruence_pending
    <2>1. /\ Rest \in Seq(Nodes) /\ Paired(Rest, root)
          /\ left \in Nodes /\ right \in Nodes /\ Sig(root, left) = Sig(root, right)
      BY <1>1, <1>4, RestPaired
    <2>2. left.sym = right.sym
      BY <2>1 DEF Sig
    <2>3. isList(left) <=> isList(right)
      BY <2>2 DEF isList
    <2>4. MergeReason = NoLit
      BY <1>4 DEF MergeReason
    <2>5. Reason(H, left, right, MergeReason, Top)
      BY <1>2, <2>1, <2>4 DEF Reason
    <2> QED
      BY <1>3, <2>1, <2>3, <2>5 DEF TurnOf
  <1>5. CASE ~ congruence_pending
    <2>1. PICK q : q = Head(todo)
      OBVIOUS
    <2>2. q \in Todos /\ 1 \in DOMAIN todo /\ todo[1] = q
      BY <1>1, <2>1
    <2>3. q.x \in Terms /\ q.y \in Terms /\ q.reason \in Lits /\ q.x \in Nodes /\ q.y \in Nodes
      BY <2>2, TermFacts DEF Todos
    <2>4. SetNow(q.reason) /\ <<q.x, q.y>> \in Ends(q.reason)
      BY <1>1, <2>1, <2>2, ItemsNow DEF TodoItems
    <2>5. Rest = <<>> /\ left = q.y /\ right = q.x
      BY <1>1, <1>5, <2>1, <2>3, OnePair
    <2>6. ~ isList(left) /\ ~ isList(right)
      BY <1>3, <2>3, <2>5
    <2>7. MergeReason = q.reason /\ q.reason # NoLit
      BY <1>5, <2>1, <2>3, AtomFacts DEF MergeReason
    <2>8. Reason(H, left, right, MergeReason, Top)
      BY <2>3, <2>4, <2>5, <2>7 DEF Reason, SetNow
    <2>9. Rest \in Seq(Nodes) /\ Paired(Rest, root)
      <3>1. <<>> \in Seq(Nodes) /\ Len(<<>>) = 2 * 0 /\ 0 \in Nat /\ \A i \in 1..0 : FALSE
        OBVIOUS
      <3>2. Paired(<<>>, root)
        BY <3>1 DEF Paired
      <3> QED
        BY <2>5, <3>1, <3>2
    <2> QED
      BY <2>3, <2>5, <2>6, <2>8, <2>9 DEF TurnOf
  <1> QED
    BY <1>4, <1>5

\* Two different roots of classes of the same sort, those of left and right.
SidesOf(x, y) ==
  /\ x \in Nodes /\ y \in Nodes /\ x # y /\ root[x] = x /\ root[y] = y
  /\ isList(x) <=> isList(y)
  /\ isList(x) <=> isList(left)
  /\ {x, y} = {root[left], root[right]}

\* The roots of the pair are its sides.
LEMMA SidesFacts ==
    ASSUME NEW H, TurnOf(H), Roots(root), root[left] # root[right], NEW x, NEW y,
           {x, y} = {root[left], root[right]}
    PROVE  SidesOf(x, y)
  <1>1. /\ root[left] \in Nodes /\ root[right] \in Nodes
        /\ root[root[left]] = root[left] /\ root[root[right]] = root[right]
        /\ (isList(root[left]) <=> isList(left)) /\ (isList(root[right]) <=> isList(right))
        /\ (isList(left) <=> isList(right))
    BY DEF TurnOf, Roots
  <1>2. (x = root[left] /\ y = root[right]) \/ (x = root[right] /\ y = root[left])
    OBVIOUS
  <1> HIDE DEF Roots
  <1> QED
    BY <1>1, <1>2 DEF SidesOf

\* The classes, use vectors and signatures after a merge.
JoinedClosure(x, y) == [root |-> JoinedRoots(root, x, y), parents |-> parents, index |-> index,
                        sig_tab |-> sig_tab, pending |-> Rest]
MergeEffect(x, y) ==
  LET g == processParentsAfterMerge(JoinedClosure(x, y), y)
  IN /\ root' = g.root /\ parents' = g.parents /\ index' = g.index /\ sig_tab' = g.sig_tab
     /\ pending' = g.pending
     /\ undo_stack_main' = Append(undo_stack_main, Undo("MERGE", y, Class(y)))

\* MergeClasses has this effect for the two sides in one order.
LEMMA MergeDoes ==
    ASSUME MergeClasses
    PROVE  \E x, y : {x, y} = {root[left], root[right]} /\ MergeEffect(x, y)
  <1> DEFINE p == root[left]
             q == root[right]
             x == IF Swaps(p, q) THEN q ELSE p
             y == IF Swaps(p, q) THEN p ELSE q
             r == [n \in Nodes |-> IF root[n] = y THEN x ELSE root[n]]
             joined == [Closure EXCEPT !.root = r, !.pending = Rest]
  <1>1. merge(p, q, Rest)
    BY DEF MergeClasses
  <1>2. {x, y} = {p, q}
    OBVIOUS
  <1>3. joined = JoinedClosure(x, y)
    <2> HIDE DEF x, y
    <2>1. r = JoinedRoots(root, x, y)
      BY DEF JoinedRoots
    <2> HIDE DEF r
    <2>2. joined = [root |-> r, parents |-> parents, index |-> index, sig_tab |-> sig_tab, pending |-> Rest]
      <3>1. PICK g : g = Closure
        OBVIOUS
      <3>2. g = [root |-> root, parents |-> parents, index |-> index, sig_tab |-> sig_tab, pending |-> <<>>]
        BY <3>1 DEF Closure
      <3>3. joined = [g EXCEPT !.root = r, !.pending = Rest]
        BY <3>1
      <3> HIDE DEF joined
      <3>4. PICK rest : rest = Rest
        OBVIOUS
      <3>5. joined = [g EXCEPT !.root = r, !.pending = rest]
        BY <3>3, <3>4
      <3>6. joined = [root |-> r, parents |-> parents, index |-> index, sig_tab |-> sig_tab, pending |-> rest]
        BY ONLY <3>2, <3>5
      <3> QED
        BY <3>4, <3>6
    <2> QED
      BY <2>1, <2>2 DEF JoinedClosure
  <1>4. LET g == processParentsAfterMerge(joined, y)
        IN /\ root' = g.root /\ parents' = g.parents /\ index' = g.index /\ sig_tab' = g.sig_tab
           /\ pending' = g.pending
           /\ undo_stack_main' = Append(undo_stack_main, Undo("MERGE", y, Class(y)))
    BY <1>1 DEF merge, SetClosure
  <1> HIDE DEF x, y, joined
  <1>5. MergeEffect(x, y)
    BY <1>3, <1>4 DEF MergeEffect
  <1> QED
    BY <1>2, <1>5

\* A signature whose components are still roots after a merge stays what it is.
LEMMA LiveJoined ==
    ASSUME NEW r, Roots(r), NEW x \in Nodes, NEW y \in Nodes, r[x] = x, r[y] = y, x # y,
           isList(x) <=> isList(y),
           NEW s, Live(JoinedRoots(r, x, y), s)
    PROVE  Live(r, s) /\ \A n \in Nodes : Sig(r, n) = s => Sig(JoinedRoots(r, x, y), n) = s
  <1> DEFINE q == JoinedRoots(r, x, y)
  <1>1. Roots(q) /\ Coarser(q, r)
    BY JoinedFacts
  <1>2. \A c \in {s.car, s.cdr} : c = ERef_Nil \/ (c \in Nodes /\ q[c] = c)
    BY DEF Live
  <1>3. \A c \in Nodes : q[c] = c => r[c] = c
    BY <1>1 DEF Coarser
  <1>4. Live(r, s)
    BY <1>2, <1>3 DEF Live
  <1>5. \A c \in Nodes : q[c] = IF r[c] = y THEN x ELSE r[c]
    BY DEF JoinedRoots
  <1>6. \A c \in {s.car, s.cdr} : c # y
    BY <1>2, <1>5, TermFacts
  <1>7. ASSUME NEW n \in Nodes, Sig(r, n) = s
        PROVE  Sig(q, n) = s
    <2>1. /\ s = [sym |-> n.sym, car |-> RootIn(r, Car(n)), cdr |-> RootIn(r, Cdr(n))]
          /\ s.sym = n.sym /\ s.car = RootIn(r, Car(n)) /\ s.cdr = RootIn(r, Cdr(n))
      BY <1>7 DEF Sig
    <2>2. (Car(n) = ERef_Nil \/ Car(n) \in Nodes) /\ (Cdr(n) = ERef_Nil \/ Cdr(n) \in Nodes)
      BY ChildFacts, TermFacts
    <2>3. RootIn(q, Car(n)) = s.car
      BY <1>5, <1>6, <2>1, <2>2 DEF RootIn
    <2>4. RootIn(q, Cdr(n)) = s.cdr
      BY <1>5, <1>6, <2>1, <2>2 DEF RootIn
    <2> HIDE DEF q
    <2> QED
      BY <2>1, <2>3, <2>4 DEF Sig
  <1> QED
    BY <1>4, <1>7

\* What joins the parents of a class starts from.
LEMMA JoinedStart ==
    ASSUME EInv, NEW H, Past(H), TurnOf(H), NEW x, NEW y, SidesOf(x, y)
    PROVE  LET g == JoinedClosure(x, y) IN
           /\ IsClosure(g) /\ g.root = JoinedRoots(root, x, y) /\ g.root[y] # y
           /\ g.parents = parents /\ g.index = index /\ g.sig_tab = sig_tab
           /\ SoundTable(g) /\ Paired(g.pending, g.root)
  <1> DEFINE g == JoinedClosure(x, y)
             q == JoinedRoots(root, x, y)
  <1>1. /\ g = [root |-> q, parents |-> parents, index |-> index, sig_tab |-> sig_tab, pending |-> Rest]
        /\ g.root = q /\ g.parents = parents /\ g.index = index /\ g.sig_tab = sig_tab /\ g.pending = Rest
    BY DEF JoinedClosure
  <1>2. Top \in Nat /\ undo_stack_main \in Seq(Undos) /\ H[Top] = root
    BY SeqFacts DEF EInv, TypeInv, Past, History, Top
  <1>3. Roots(root)
    BY <1>2, HistoryFacts DEF Past, Top
  <1>4. x \in Nodes /\ y \in Nodes /\ x # y /\ root[x] = x /\ root[y] = y /\ (isList(x) <=> isList(y))
    BY DEF SidesOf
  <1>5. Roots(q) /\ Coarser(q, root)
    BY <1>3, <1>4, JoinedFacts
  <1>6. parents \in [Nodes -> UseVectors] /\ index \in [Sides -> [Nodes -> Nat]]
        /\ sig_tab \in [DOMAIN sig_tab -> Nodes] /\ Rest \in Seq(Nodes)
    BY DEF EInv, TypeInv, TurnOf
  <1> HIDE DEF g
  <1>7. IsClosure(g)
    BY <1>1, <1>5, <1>6 DEF IsClosure
  <1>8. q[y] # y
    BY <1>4 DEF JoinedRoots
  <1>9. SoundTable(g)
    <2> SUFFICES ASSUME NEW s \in DOMAIN sig_tab, Live(q, s)
                 PROVE  Sig(q, sig_tab[s]) = s
      BY <1>1 DEF SoundTable
    <2>1. Live(root, s) /\ \A n \in Nodes : Sig(root, n) = s => Sig(q, n) = s
      BY <1>3, <1>4, LiveJoined
    <2>2. Top \in 0..Top /\ \A j \in Top + 1..Top : FALSE
      BY <1>2
    <2>3. Sig(root, sig_tab[s]) = s
      BY <1>2, <2>1, <2>2 DEF Past, TableInv, Top
    <2>4. sig_tab[s] \in Nodes
      BY <1>6
    <2> QED
      BY <2>1, <2>3, <2>4
  <1>10. Paired(Rest, q)
    <2>1. PICK n \in Nat : Len(Rest) = 2 * n /\ \A i \in 1..n : Sig(root, Rest[2 * i - 1]) = Sig(root, Rest[2 * i])
      BY DEF TurnOf, Paired
    <2>2. ASSUME NEW i \in 1..n
          PROVE  Sig(q, Rest[2 * i - 1]) = Sig(q, Rest[2 * i])
      <3>1. 2 * i - 1 \in 1..Len(Rest) /\ 2 * i \in 1..Len(Rest)
        BY <2>1
      <3>2. Rest[2 * i - 1] \in Nodes /\ Rest[2 * i] \in Nodes
        BY <1>6, <3>1, SeqFacts
      <3>3. Sig(root, Rest[2 * i - 1]) = Sig(root, Rest[2 * i])
        BY <2>1
      <3> QED
        BY <1>3, <1>5, <3>2, <3>3, SigCoarser
    <2> HIDE DEF q
    <2> QED
      BY <2>1, <2>2 DEF Paired
  <1> QED
    BY <1>1, <1>7, <1>8, <1>9, <1>10 DEF g

\* A merge of y's class into x's.
Merging(H, x, y) == Past(H) /\ TurnOf(H) /\ SidesOf(x, y) /\ MergeEffect(x, y)
MergeEntry(y) == Undo("MERGE", y, Class(y))

\* What has become of the use vectors and the table.
MergedTable(x, y) ==
  LET q == JoinedRoots(root, x, y) IN
  /\ root' = q
  /\ parents' \in [Nodes -> UseVectors] /\ index' \in [Sides -> [Nodes -> Nat]]
  /\ sig_tab' \in [DOMAIN sig_tab' -> Nodes] /\ pending' \in Seq(Nodes) /\ Paired(pending', q)
  /\ \A d \in Nodes \ {y} : q[d] # d => parents'[d] = parents[d]
  /\ \A s \in DOMAIN sig_tab : /\ s \in DOMAIN sig_tab' /\ sig_tab'[s] = sig_tab[s]
                               /\ Live(q, s) => Sig(q, sig_tab[s]) = s
  /\ \A s \in DOMAIN sig_tab' \ DOMAIN sig_tab :
       /\ \E j \in DOMAIN parents'[y].data : parents'[y].data[j] = [tag |-> "Valid", e |-> sig_tab'[s]]
       /\ Sig(q, sig_tab'[s]) = s

\* A merge makes such use vectors and such a table.
LEMMA MergedTables ==
    ASSUME EInv, NEW H, NEW x, NEW y, Merging(H, x, y)
    PROVE  MergedTable(x, y)
  <1> DEFINE g == JoinedClosure(x, y)
             h == processParentsAfterMerge(g, y)
             q == JoinedRoots(root, x, y)
  <1>1. /\ IsClosure(g) /\ g.root = q /\ g.root[y] # y
        /\ g.parents = parents /\ g.sig_tab = sig_tab
        /\ SoundTable(g) /\ Paired(g.pending, g.root)
    BY JoinedStart DEF Merging
  <1>2. y \in Nodes
    BY DEF Merging, SidesOf
  <1>3. /\ root' = h.root /\ parents' = h.parents /\ index' = h.index /\ sig_tab' = h.sig_tab
        /\ pending' = h.pending
    BY DEF Merging, MergeEffect
  <1> HIDE DEF g, h
  <1>4. AfterPart(h, g, y, Len(g.parents[y].data))
    BY <1>1, <1>2, AfterMerge DEF h
  <1>5. /\ IsClosure(h) /\ h.root = q
        /\ \A d \in Nodes \ {y} : q[d] # d => h.parents[d] = parents[d]
        /\ Len(h.parents[y].data) = Len(parents[y].data)
        /\ \A s \in DOMAIN sig_tab : s \in DOMAIN h.sig_tab /\ h.sig_tab[s] = sig_tab[s]
        /\ \A s \in DOMAIN h.sig_tab \ DOMAIN sig_tab : NewKey(h, y, Len(parents[y].data), s)
        /\ Paired(h.pending, q)
    BY <1>1, <1>4 DEF AfterPart
  <1>6. /\ h.parents \in [Nodes -> UseVectors] /\ h.index \in [Sides -> [Nodes -> Nat]]
        /\ h.sig_tab \in [DOMAIN h.sig_tab -> Nodes] /\ h.pending \in Seq(Nodes)
    BY <1>5 DEF IsClosure
  <1>7. DOMAIN h.parents[y].data = 1..Len(parents[y].data)
    <2>1. h.parents[y].data \in Seq(Entries)
      BY <1>2, <1>6, UseVectorFacts
    <2> QED
      BY <1>5, <2>1, SeqFacts
  <1>8. \A s \in DOMAIN h.sig_tab \ DOMAIN sig_tab :
          /\ \E j \in DOMAIN h.parents[y].data : h.parents[y].data[j] = [tag |-> "Valid", e |-> h.sig_tab[s]]
          /\ Sig(q, h.sig_tab[s]) = s
    BY <1>5, <1>7 DEF NewKey
  <1>9. \A s \in DOMAIN sig_tab : Live(q, s) => Sig(q, sig_tab[s]) = s
    BY <1>1 DEF SoundTable
  <1> HIDE DEF q
  <1>10. /\ root' = q /\ \A s \in DOMAIN sig_tab' \ DOMAIN sig_tab :
          /\ \E j \in DOMAIN parents'[y].data : parents'[y].data[j] = [tag |-> "Valid", e |-> sig_tab'[s]]
          /\ Sig(q, sig_tab'[s]) = s
    BY <1>3, <1>5, <1>8
  <1>11. /\ parents' \in [Nodes -> UseVectors] /\ index' \in [Sides -> [Nodes -> Nat]]
         /\ pending' \in Seq(Nodes) /\ Paired(pending', q)
         /\ \A d \in Nodes \ {y} : q[d] # d => parents'[d] = parents[d]
    BY <1>3, <1>5, <1>6
  <1>12. sig_tab' \in [DOMAIN sig_tab' -> Nodes]
    BY <1>3, <1>6
  <1>13. \A s \in DOMAIN sig_tab : /\ s \in DOMAIN sig_tab' /\ sig_tab'[s] = sig_tab[s]
                                   /\ Live(q, s) => Sig(q, sig_tab[s]) = s
    BY <1>3, <1>5, <1>9
  <1> QED
    BY <1>10, <1>11, <1>12, <1>13 DEF MergedTable, q

\* The stack with the entry of the merge, and its place in the past.
Continued(G, H, L, q) ==
  /\ L \in Nat /\ L = Len(undo_stack_main)
  /\ G = [k \in 0..L + 1 |-> IF k <= L THEN H[k] ELSE q]

\* The entries and the past until the merge stay what they were.
LEMMA MergedStack ==
    ASSUME EInv, NEW H, NEW x, NEW y, Merging(H, x, y), NEW G, NEW L,
           Continued(G, H, L, JoinedRoots(root, x, y))
    PROVE  /\ undo_stack_main' \in Seq(Undos) /\ Len(undo_stack_main') = L + 1
           /\ DOMAIN undo_stack_main = 1..L /\ DOMAIN undo_stack_main' = 1..L + 1
           /\ undo_stack_main'[L + 1] = MergeEntry(y)
           /\ \A k \in 1..L : undo_stack_main'[k] = undo_stack_main[k]
           /\ \A k \in 0..L : k \in 0..L + 1 /\ G[k] = H[k]
           /\ G[L + 1] = JoinedRoots(root, x, y) /\ H[L] = root /\ G[L] = root
           /\ \A k \in 1..L + 1 : k \in 1..L \/ k = L + 1
           /\ \A k \in 0..L + 1 : k \in 0..L \/ k = L + 1
  <1>1. MergeEntry(y) \in Undos
    BY DEF Merging, SidesOf, MergeEntry, Undo, Undos, Class
  <1>2. /\ undo_stack_main \in Seq(Undos) /\ undo_stack_main' = Append(undo_stack_main, MergeEntry(y))
    BY DEF EInv, TypeInv, Merging, MergeEffect, MergeEntry
  <1>3. /\ undo_stack_main' \in Seq(Undos) /\ L \in Nat /\ Len(undo_stack_main') = L + 1
        /\ DOMAIN undo_stack_main = 1..L /\ DOMAIN undo_stack_main' = 1..L + 1
        /\ undo_stack_main'[L + 1] = MergeEntry(y)
        /\ \A k \in 1..L : undo_stack_main'[k] = undo_stack_main[k]
    BY <1>1, <1>2, StackPushed DEF Continued
  <1>4. /\ \A k \in 0..L : k \in 0..L + 1 /\ G[k] = H[k]
        /\ G[L + 1] = JoinedRoots(root, x, y)
        /\ L \in 0..L
    BY <1>3 DEF Continued
  <1>5. H[L] = root
    BY DEF Continued, Merging, Past, History
  <1>6. /\ \A k \in 1..L + 1 : k \in 1..L \/ k = L + 1
        /\ \A k \in 0..L + 1 : k \in 0..L \/ k = L + 1
    BY <1>3
  <1> QED
    BY <1>3, <1>4, <1>5, <1>6

\* The roots now, and those of any time before.
LEMMA RootsNow ==
    ASSUME EInv, NEW H, Past(H)
    PROVE  Roots(root) /\ ListsEqual(root) /\ H[Top] = root /\ Top \in Nat
           /\ \A k \in 0..Top : Roots(H[k]) /\ Coarser(root, H[k])
  <1>1. Top \in Nat /\ undo_stack_main \in Seq(Undos) /\ H[Top] = root
    BY SeqFacts DEF EInv, TypeInv, Past, History, Top
  <1>2. Top \in 0..Top
    BY <1>1
  <1>3. History(H) /\ PastInv(H)
    BY DEF Past
  <1>4. \A k \in 0..Top : Roots(H[k]) /\ \A i \in 0..k : Coarser(H[k], H[i])
    BY <1>1, <1>3, HistoryFacts DEF Top
  <1>5. ListsEqual(root)
    BY <1>1, <1>2, <1>3 DEF PastInv, Top
  <1> QED
    BY <1>1, <1>2, <1>4, <1>5

\* The past with the merge is a history.
LEMMA MergedHistory ==
    ASSUME EInv, NEW H, NEW x, NEW y, Merging(H, x, y), NEW G, NEW L,
           Continued(G, H, L, JoinedRoots(root, x, y))
    PROVE  History(G)'
  <1> DEFINE q == JoinedRoots(root, x, y)
  <1>1. /\ undo_stack_main' \in Seq(Undos) /\ Len(undo_stack_main') = L + 1
        /\ undo_stack_main'[L + 1] = MergeEntry(y)
        /\ \A k \in 1..L : undo_stack_main'[k] = undo_stack_main[k]
        /\ \A k \in 0..L : k \in 0..L + 1 /\ G[k] = H[k]
        /\ G[L + 1] = q /\ H[L] = root /\ G[L] = root
        /\ \A k \in 1..L + 1 : k \in 1..L \/ k = L + 1
        /\ L \in Nat /\ L = Len(undo_stack_main)
        /\ G = [k \in 0..L + 1 |-> IF k <= L THEN H[k] ELSE q]
    <2>1. /\ undo_stack_main' \in Seq(Undos) /\ Len(undo_stack_main') = L + 1
          /\ undo_stack_main'[L + 1] = MergeEntry(y)
          /\ \A k \in 1..L : undo_stack_main'[k] = undo_stack_main[k]
          /\ \A k \in 0..L : k \in 0..L + 1 /\ G[k] = H[k]
          /\ G[L + 1] = q /\ H[L] = root /\ G[L] = root
          /\ \A k \in 1..L + 1 : k \in 1..L \/ k = L + 1
      BY MergedStack
    <2> QED
      BY <2>1 DEF Continued
  <1>2. /\ H \in [0..L -> [Nodes -> Nodes]] /\ H[0] = [n \in Nodes |-> n]
        /\ \A k \in 1..L : IF IsMerge(k) THEN MergedAt(H, k) ELSE H[k] = H[k - 1]
    BY <1>1 DEF Merging, Past, History
  <1>3. /\ x \in Nodes /\ y \in Nodes /\ x # y /\ root[x] = x /\ root[y] = y
        /\ (isList(x) <=> isList(y))
    BY DEF Merging, SidesOf
  <1>4. root \in [Nodes -> Nodes]
    BY DEF EInv, TypeInv
  <1>5. q \in [Nodes -> Nodes]
    BY <1>3, <1>4 DEF JoinedRoots
  <1>6. G \in [0..L + 1 -> [Nodes -> Nodes]] /\ G[0] = [n \in Nodes |-> n]
    <2> HIDE DEF q
    <2>1. \A k \in 0..L + 1 : ~ k <= L \/ k \in 0..L
      BY <1>1
    <2> QED
      BY <1>1, <1>2, <1>5, <2>1
  <1>7. root' = q
    BY MergedTables DEF MergedTable
  <1>8. ASSUME NEW k \in 1..L
        PROVE  IF IsMerge(k)' THEN MergedAt(G, k)' ELSE G[k] = G[k - 1]
    <2>1. k \in 0..L /\ k - 1 \in 0..L
      BY <1>1
    <2>2. G[k] = H[k] /\ G[k - 1] = H[k - 1] /\ undo_stack_main'[k] = undo_stack_main[k]
      BY <1>1, <2>1
    <2>3. IF IsMerge(k) THEN MergedAt(H, k) ELSE H[k] = H[k - 1]
      BY <1>2
    <2>4. MergedAt(H, k) => MergedAt(G, k)'
      BY <2>2 DEF MergedAt
    <2>5. IsMerge(k)' = IsMerge(k)
      BY <2>2 DEF IsMerge
    <2>6. CASE IsMerge(k)
      BY <2>3, <2>4, <2>5, <2>6
    <2>7. CASE ~ IsMerge(k)
      <3>1. G[k] = G[k - 1]
        BY <2>2, <2>3, <2>7
      <3> QED
        BY <2>5, <2>7, <3>1
    <2> QED
      BY <2>6, <2>7
  <1>9. PICK K : K = L + 1 /\ K - 1 = L
    BY <1>1
  <1>10. IsMerge(K)' /\ MergedAt(G, K)'
    <2>1. undo_stack_main'[K].op = "MERGE" /\ undo_stack_main'[K].arg = y
          /\ undo_stack_main'[K].class = Class(y)
      BY <1>1, <1>9 DEF MergeEntry, Undo
    <2>2. Class(y) = {n \in Nodes : root[n] = y}
      BY <1>3 DEF Class
    <2>3. IsMerge(K)'
      BY <2>1 DEF IsMerge
    <2>4. G[K] = q /\ G[K - 1] = root
      BY <1>1, <1>9
    <2>5. /\ G[K - 1][y] = y
          /\ Class(y) = {n \in Nodes : G[K - 1][n] = y}
          /\ \E z \in Nodes : z # y /\ G[K - 1][z] = z /\ G[K] = JoinedRoots(G[K - 1], z, y)
                              /\ (isList(z) <=> isList(y))
      BY <1>3, <2>2, <2>4
    <2>6. MergedAt(G, K)'
      BY <2>1, <2>5 DEF MergedAt
    <2> QED
      BY <2>3, <2>6
  <1>11. \A k \in 1..L + 1 : IF IsMerge(k)' THEN MergedAt(G, k)' ELSE G[k] = G[k - 1]
    BY <1>1, <1>8, <1>9, <1>10
  <1>12. G[Len(undo_stack_main')] = root'
    BY <1>1, <1>7
  <1> HIDE DEF q
  <1> QED
    BY <1>1, <1>6, <1>11, <1>12 DEF History

\* Lists in one class are equal after the merge too.
LEMMA MergedLists ==
    ASSUME EInv, NEW H, NEW x, NEW y, Merging(H, x, y)
    PROVE  ListsEqual(JoinedRoots(root, x, y))
  <1> DEFINE q == JoinedRoots(root, x, y)
  <1>1. Roots(root) /\ ListsEqual(root)
    BY RootsNow DEF Merging
  <1>2. /\ x \in Nodes /\ y \in Nodes /\ x # y /\ root[x] = x /\ root[y] = y
        /\ (isList(x) <=> isList(y)) /\ (isList(x) <=> isList(left))
        /\ {x, y} = {root[left], root[right]}
    BY DEF Merging, SidesOf
  <1>3. Roots(q) /\ Coarser(q, root)
    BY <1>1, <1>2, JoinedFacts
  <1>4. /\ left \in Nodes /\ right \in Nodes /\ (isList(left) <=> isList(right))
        /\ isList(left) => Sig(root, left) = Sig(root, right)
    BY DEF Merging, TurnOf
  <1>5. \A n \in Nodes : isList(root[n]) <=> isList(n)
    BY <1>1 DEF Roots
  <1>6. ASSUME NEW m \in Nodes, NEW n \in Nodes, isList(m), q[m] = q[n]
        PROVE  Sig(root, m) = Sig(root, n)
    <2>1. CASE root[m] = root[n]
      BY <1>1, <1>6, <2>1 DEF ListsEqual
    <2>2. CASE root[m] # root[n]
      <3>1. (root[m] = x /\ root[n] = y) \/ (root[m] = y /\ root[n] = x)
        BY <1>6, <2>2 DEF JoinedRoots
      <3>2. isList(x) /\ isList(left) /\ isList(right)
        BY <1>2, <1>4, <1>5, <1>6, <3>1
      <3>3. \/ root[m] = root[left] /\ root[n] = root[right]
            \/ root[m] = root[right] /\ root[n] = root[left]
        BY <1>2, <3>1
      <3>4. CASE root[m] = root[left] /\ root[n] = root[right]
        <4>1. Sig(root, left) = Sig(root, m) /\ Sig(root, right) = Sig(root, n)
          BY <1>1, <1>4, <3>2, <3>4 DEF ListsEqual
        <4> QED
          BY <1>4, <3>2, <4>1
      <3>5. CASE root[m] = root[right] /\ root[n] = root[left]
        <4>1. Sig(root, right) = Sig(root, m) /\ Sig(root, left) = Sig(root, n)
          BY <1>1, <1>4, <3>2, <3>5 DEF ListsEqual
        <4> QED
          BY <1>4, <3>2, <4>1
      <3> QED
        BY <3>3, <3>4, <3>5
    <2> QED
      BY <2>1, <2>2
  <1>7. ASSUME NEW m \in Nodes, NEW n \in Nodes, isList(m), q[m] = q[n]
        PROVE  Sig(q, m) = Sig(q, n)
    <2>1. Sig(root, m) = Sig(root, n)
      BY <1>6, <1>7
    <2> HIDE DEF q
    <2> QED
      BY <1>1, <1>3, <2>1, SigCoarser
  <1> QED
    BY <1>7 DEF ListsEqual

\* Lists in one class are equal at every point of it.
LEMMA MergedPast ==
    ASSUME EInv, NEW H, NEW x, NEW y, Merging(H, x, y), NEW G, NEW L,
           Continued(G, H, L, JoinedRoots(root, x, y))
    PROVE  PastInv(G)'
  <1>1. /\ Len(undo_stack_main') = L + 1 /\ \A k \in 0..L : G[k] = H[k]
        /\ G[L + 1] = JoinedRoots(root, x, y)
        /\ \A k \in 0..L + 1 : k \in 0..L \/ k = L + 1
        /\ L = Len(undo_stack_main)
    <2>1. /\ Len(undo_stack_main') = L + 1 /\ \A k \in 0..L : G[k] = H[k]
          /\ G[L + 1] = JoinedRoots(root, x, y)
          /\ \A k \in 0..L + 1 : k \in 0..L \/ k = L + 1
      BY MergedStack
    <2> QED
      BY <2>1 DEF Continued
  <1>2. \A k \in 0..L : ListsEqual(H[k])
    BY <1>1 DEF Merging, Past, PastInv
  <1>3. \A k \in 0..L + 1 : ListsEqual(G[k])
    BY <1>1, <1>2, MergedLists
  <1> QED
    BY <1>1, <1>3 DEF PastInv

\* The table fits every point of it.
LEMMA MergedTableInv ==
    ASSUME EInv, NEW H, NEW x, NEW y, Merging(H, x, y), NEW G, NEW L,
           Continued(G, H, L, JoinedRoots(root, x, y))
    PROVE  TableInv(G)'
  <1> DEFINE q == JoinedRoots(root, x, y)
  <1>1. /\ undo_stack_main' \in Seq(Undos) /\ Len(undo_stack_main') = L + 1
        /\ undo_stack_main'[L + 1] = MergeEntry(y)
        /\ \A k \in 1..L : undo_stack_main'[k] = undo_stack_main[k]
        /\ \A k \in 0..L : k \in 0..L + 1 /\ G[k] = H[k]
        /\ G[L + 1] = q /\ H[L] = root /\ G[L] = root
        /\ \A k \in 0..L + 1 : k \in 0..L \/ k = L + 1
        /\ L \in Nat /\ L = Len(undo_stack_main) /\ L = Top
    <2>1. /\ undo_stack_main' \in Seq(Undos) /\ Len(undo_stack_main') = L + 1
          /\ undo_stack_main'[L + 1] = MergeEntry(y)
          /\ \A k \in 1..L : undo_stack_main'[k] = undo_stack_main[k]
          /\ \A k \in 0..L : k \in 0..L + 1 /\ G[k] = H[k]
          /\ G[L + 1] = q /\ H[L] = root /\ G[L] = root
          /\ \A k \in 0..L + 1 : k \in 0..L \/ k = L + 1
      BY MergedStack
    <2> QED
      BY <2>1 DEF Continued, Top
  <1>2. Past(H)
    BY DEF Merging
  <1>3. Roots(root) /\ \A k \in 0..L : Roots(H[k]) /\ Coarser(root, H[k])
    BY <1>1, <1>2, RootsNow
  <1>4. /\ x \in Nodes /\ y \in Nodes /\ x # y /\ root[x] = x /\ root[y] = y
        /\ (isList(x) <=> isList(y))
    BY DEF Merging, SidesOf
  <1>5. Coarser(q, root)
    BY <1>3, <1>4, JoinedFacts
  <1>6. /\ \A d \in Nodes \ {y} : q[d] # d => parents'[d] = parents[d]
        /\ \A s \in DOMAIN sig_tab : /\ s \in DOMAIN sig_tab' /\ sig_tab'[s] = sig_tab[s]
                                     /\ Live(q, s) => Sig(q, sig_tab[s]) = s
        /\ \A s \in DOMAIN sig_tab' \ DOMAIN sig_tab :
             /\ \E j \in DOMAIN parents'[y].data : parents'[y].data[j] = [tag |-> "Valid", e |-> sig_tab'[s]]
             /\ Sig(q, sig_tab'[s]) = s
    BY MergedTables DEF MergedTable
  <1>7. undo_stack_main'[L + 1].op = "MERGE" /\ undo_stack_main'[L + 1].arg = y
    BY <1>1 DEF MergeEntry, Undo
  <1> HIDE DEF q
  <1> SUFFICES ASSUME NEW s \in DOMAIN sig_tab', NEW k \in 0..L + 1, Live(G[k], s)
               PROVE  \/ Sig(G[k], sig_tab'[s]) = s
                      \/ \E j \in k + 1..L + 1 : IsMerge(j)' /\ HeldBy(undo_stack_main[j].arg, G[j], s)'
    BY <1>1 DEF TableInv
  <1>8. CASE s \in DOMAIN sig_tab /\ k = L + 1
    BY <1>1, <1>6, <1>8
  <1>9. CASE s \in DOMAIN sig_tab /\ k \in 0..L
    <2>1. Live(H[k], s) /\ G[k] = H[k] /\ sig_tab'[s] = sig_tab[s]
      BY <1>1, <1>6, <1>9
    <2>2. TableInv(H)
      BY <1>2 DEF Past
    <2>3. CASE Sig(H[k], sig_tab[s]) = s
      BY <2>1, <2>3
    <2>4. CASE \E j \in k + 1..L : IsMerge(j) /\ HeldBy(undo_stack_main[j].arg, H[j], s)
      <3>1. PICK j \in k + 1..L : IsMerge(j) /\ HeldBy(undo_stack_main[j].arg, H[j], s)
        BY <2>4
      <3>2. j \in 1..L /\ j \in 0..L /\ j \in k + 1..L + 1
        BY <1>1, <1>9
      <3>3. undo_stack_main'[j] = undo_stack_main[j] /\ G[j] = H[j]
        BY <1>1, <3>2
      <3>4. PICK d : d = undo_stack_main[j].arg
        OBVIOUS
      <3>5. MergedAt(H, j)
        BY <1>1, <1>2, <3>1, <3>2 DEF Past, History
      <3>6. d \in Nodes
        <4>1. undo_stack_main \in Seq(Undos) /\ undo_stack_main[j] \in Undos
          BY <1>1, <3>2, SeqFacts DEF EInv, TypeInv
        <4> QED
          BY <3>4, <4>1 DEF Undos
      <3>7. H[j][d] # d
        <4>1. PICK z \in Nodes : z # d /\ H[j] = JoinedRoots(H[j - 1], z, d) /\ H[j - 1][d] = d
          BY <3>4, <3>5 DEF MergedAt
        <4>2. H[j][d] = z
          BY <3>6, <4>1 DEF JoinedRoots
        <4> QED
          BY <4>1, <4>2
      <3>8. root[d] # d
        BY <1>3, <3>2, <3>6, <3>7 DEF Coarser
      <3>9. q[d] # d /\ d # y
        BY <1>4, <1>5, <3>6, <3>8 DEF Coarser
      <3>10. parents'[d] = parents[d]
        BY <1>6, <3>6, <3>9
      <3>11. HeldBy(d, H[j], s)
        BY <3>1, <3>4
      <3>12. undo_stack_main'[j].arg = d
        BY <3>3, <3>4
      <3>13. HeldBy(undo_stack_main[j].arg, G[j], s)'
        BY <2>1, <3>3, <3>10, <3>11, <3>12 DEF HeldBy
      <3>14. IsMerge(j)'
        BY <3>1, <3>3 DEF IsMerge
      <3> QED
        BY <3>2, <3>13, <3>14
    <2>5. k \in 0..Len(undo_stack_main)
      BY <1>1, <1>9
    <2> QED
      BY <1>1, <1>9, <2>1, <2>2, <2>3, <2>4, <2>5 DEF TableInv
  <1>10. CASE s \notin DOMAIN sig_tab
    <2>1. /\ \E j \in DOMAIN parents'[y].data : parents'[y].data[j] = [tag |-> "Valid", e |-> sig_tab'[s]]
          /\ Sig(q, sig_tab'[s]) = s
      BY <1>6, <1>10
    <2>2. CASE k = L + 1
      BY <1>1, <2>1, <2>2
    <2>3. CASE k \in 0..L
      <3>1. PICK K : K = L + 1
        OBVIOUS
      <3>2. K \in k + 1..L + 1
        BY <1>1, <2>3, <3>1
      <3>3. IsMerge(K)'
        BY <1>7, <3>1 DEF IsMerge
      <3>4. HeldBy(undo_stack_main[K].arg, G[K], s)'
        BY <1>1, <1>7, <2>1, <3>1 DEF HeldBy
      <3> QED
        BY <3>2, <3>3, <3>4
    <2> QED
      BY <1>1, <2>2, <2>3
  <1> QED
    BY <1>1, <1>8, <1>9, <1>10

-----------------------------------------------------------------------------
(* A merge: the forest.                                                    *)

\* A reason for an edge stays one, in both directions, while the values below it stay set.
LEMMA ReasonKept ==
    ASSUME NEW m, StillSet(m), NEW k \in 0..m, NEW H, NEW G, G[k] = H[k],
           NEW s, NEW t, NEW r, Reason(H, s, t, r, k)
    PROVE  Reason(G, s, t, r, k)' /\ Reason(G, t, s, r, k)'
  <1>1. CASE r = NoLit
    BY <1>1 DEF Reason
  <1>2. CASE r # NoLit
    <2>1. r \in Lits /\ SetBelow(k, r) /\ {<<s, t>>, <<t, s>>} \cap Ends(r) # {}
      BY <1>2 DEF Reason
    <2>2. SetBelow(k, r)'
      BY <2>1 DEF StillSet
    <2> QED
      BY <1>2, <2>1, <2>2 DEF Reason
  <1> QED
    BY <1>1, <1>2

\* A reason holds in both directions.
LEMMA ReasonTurned ==
    ASSUME NEW H, NEW s, NEW t, NEW r, NEW k, Reason(H, s, t, r, k)
    PROVE  Reason(H, t, s, r, k)
  BY DEF Reason

\* What expStoreExplanation does to the forest.
Stored(g, a, b, r) == Hung(g, Forest, a, b, r) /\ g.undo = exp_undo_stack \o <<a, b>>

\* expStoreExplanation hangs one of the two below the other.
LEMMA StoreHangs ==
    ASSUME NEW p \in Terms, NEW q \in Terms, NEW r
    PROVE  \E a, b : {a, b} = {p, q} /\ Stored(expStoreExplanation(p, q, r), a, b, r)
  <1> DEFINE larger == Cardinality(Class(p)) >= Cardinality(Class(q))
             a == IF larger THEN p ELSE q
             b == IF larger THEN q ELSE p
             g == expStoreExplanation(p, q, r)
             f == Forest
             turned == Up(f, b) \ {b}
             P == [w \in Terms |-> IF w \in turned THEN Below(f, b, w) ELSE f.parent[w]]
             S == [w \in Terms |-> IF w \in turned THEN f.reason[Below(f, b, w)] ELSE f.reason[w]]
  <1>1. {a, b} = {p, q} /\ b \in Terms
    OBVIOUS
  <1>2. g = [Reversed(f, b) EXCEPT !.parent[b] = a, !.reason[b] = r, !.undo = @ \o <<a, b>>]
    BY DEF expStoreExplanation
  <1>3. Reversed(f, b) = [f EXCEPT !.parent = P, !.reason = S]
    BY DEF Reversed
  <1>4. f = [parent |-> expParent, reason |-> expReason, undo |-> exp_undo_stack]
    BY DEF Forest
  <1> HIDE DEF P, S, f, a, b, g
  <1>5. Reversed(f, b) = [parent |-> P, reason |-> S, undo |-> exp_undo_stack]
    BY ONLY <1>3, <1>4
  <1>6. /\ g.parent = [P EXCEPT ![b] = a] /\ g.reason = [S EXCEPT ![b] = r]
        /\ g.undo = exp_undo_stack \o <<a, b>>
    BY ONLY <1>2, <1>5
  <1>7. g.parent = [w \in Terms |-> IF w = b THEN a ELSE
                                    IF w \in Up(f, b) THEN Below(f, b, w) ELSE f.parent[w]]
    BY ONLY <1>1, <1>6 DEF P
  <1>8. g.reason = [w \in Terms |-> IF w = b THEN r ELSE
                                    IF w \in Up(f, b) THEN f.reason[Below(f, b, w)] ELSE f.reason[w]]
    BY ONLY <1>1, <1>6 DEF S
  <1>9. Stored(g, a, b, r)
    BY <1>6, <1>7, <1>8 DEF Stored, Hung, f
  <1> QED
    BY <1>1, <1>9 DEF g

\* The terms' classes as they are after the merge.
LEMMA SidesJoin ==
    ASSUME NEW x, NEW y, SidesOf(x, y), Roots(root), left \in Terms, right \in Terms,
           NEW a, NEW b, {a, b} = {left, right}
    PROVE  /\ a \in Terms /\ b \in Terms /\ root[a] # root[b]
           /\ JoinsAt(JoinedRoots(root, x, y), root, a, b)
           /\ JoinedRoots(root, x, y)[a] = JoinedRoots(root, x, y)[b]
  <1> DEFINE q == JoinedRoots(root, x, y)
  <1>1. x # y /\ root[x] = x /\ root[y] = y /\ {x, y} = {root[left], root[right]}
    BY DEF SidesOf
  <1>2. a \in Terms /\ b \in Terms /\ {root[a], root[b]} = {x, y}
    BY <1>1
  <1>3. \A n \in Terms : q[n] = IF root[n] = y THEN x ELSE root[n]
    BY TermFacts DEF JoinedRoots
  <1>4. (root[a] = x /\ root[b] = y) \/ (root[a] = y /\ root[b] = x)
    BY <1>2
  <1>5. q[a] = q[b]
    BY <1>2, <1>3, <1>4
  <1>6. \A s, t \in Terms : q[s] = q[t] <=> \/ root[s] = root[t]
                                            \/ root[s] = root[a] /\ root[t] = root[b]
                                            \/ root[s] = root[b] /\ root[t] = root[a]
    <2>1. ASSUME NEW s \in Terms, NEW t \in Terms
          PROVE  q[s] = q[t] <=> \/ root[s] = root[t]
                                 \/ root[s] = x /\ root[t] = y
                                 \/ root[s] = y /\ root[t] = x
      BY <1>1, <1>3
    <2> HIDE DEF q
    <2> QED
      BY <1>4, <2>1
  <1> QED
    BY <1>1, <1>2, <1>4, <1>5, <1>6 DEF JoinsAt

\* The last entry is a merge of terms.
NewMerge(L) == DOMAIN undo_stack_main = 1..L + 1 /\ IsMerge(L + 1) /\ ~ isList(undo_stack_main[L + 1].arg)

\* The stack grows by a merge at which the forest hangs b below a.
Hangs(H, G, L, a, b, r) ==
  /\ L \in Nat /\ DOMAIN undo_stack_main = 1..L /\ NewMerge(L)'
  /\ \A k \in 1..L : undo_stack_main'[k] = undo_stack_main[k]
  /\ \A k \in 0..L : G[k] = H[k]
  /\ H[L] = root /\ a \in Terms /\ b \in Terms /\ root[a] # root[b]
  /\ JoinsAt(root', root, a, b) /\ G[L + 1][a] = G[L + 1][b]
  /\ Reason(H, a, b, r, L) /\ StillSet(L)
  /\ exp_undo_stack \in Seq(Terms)
  /\ expParent \in [Terms -> Terms \cup {ERef_Undef}]

\* One merge of terms more.
LEMMA GrownMerges ==
    ASSUME NEW L \in Nat, DOMAIN undo_stack_main = 1..L, NewMerge(L)',
           \A k \in 1..L : undo_stack_main'[k] = undo_stack_main[k]
    PROVE  TermMerges' = TermMerges \cup {L + 1}
  <1>1. DOMAIN undo_stack_main' = 1..L + 1 /\ (L + 1) \in TermMerges'
    BY DEF NewMerge, TermMerges
  <1>2. \A k \in 1..L : k \in 1..L + 1 /\ (k \in TermMerges' <=> k \in TermMerges)
    BY <1>1 DEF TermMerges, IsMerge
  <1>3. \A k \in 1..L + 1 : k \in 1..L \/ k = L + 1
    OBVIOUS
  <1>4. TermMerges \in SUBSET (1..L) /\ TermMerges' \in SUBSET (1..L + 1)
    BY <1>1 DEF TermMerges
  <1> QED
    BY <1>1, <1>2, <1>3, <1>4

\* The pairs of exp_undo_stack with one more.
LEMMA GrownPairs ==
    ASSUME exp_undo_stack \in Seq(Terms), NEW n \in Nat, Len(exp_undo_stack) = 2 * n,
           NEW a \in Terms, NEW b \in Terms, exp_undo_stack' = exp_undo_stack \o <<a, b>>
    PROVE  /\ Len(exp_undo_stack') = 2 * (n + 1) /\ exp_undo_stack' \in Seq(Terms)
           /\ \A j \in 1..n : /\ exp_undo_stack'[2 * j - 1] = exp_undo_stack[2 * j - 1]
                              /\ exp_undo_stack'[2 * j] = exp_undo_stack[2 * j]
                              /\ exp_undo_stack[2 * j - 1] \in Terms /\ exp_undo_stack[2 * j] \in Terms
           /\ exp_undo_stack'[2 * n + 1] = a /\ exp_undo_stack'[2 * n + 2] = b
  <1> DEFINE s == exp_undo_stack
             t == s \o <<a, b>>
  <1>1. <<a, b>> \in Seq(Terms) /\ Len(<<a, b>>) = 2 /\ <<a, b>>[1] = a /\ <<a, b>>[2] = b
    OBVIOUS
  <1>2. /\ t \in Seq(Terms) /\ Len(t) = 2 * n + 2
        /\ \A i \in 1..2 * n + 2 : t[i] = IF i <= 2 * n THEN s[i] ELSE <<a, b>>[i - 2 * n]
    BY <1>1, ConcatProperties
  <1>3. /\ \A j \in 1..n : 2 * j - 1 \in 1..2 * n /\ 2 * j \in 1..2 * n
        /\ \A i \in 1..2 * n : i \in 1..2 * n + 2 /\ i <= 2 * n
        /\ 2 * n + 1 \in 1..2 * n + 2 /\ 2 * n + 2 \in 1..2 * n + 2
        /\ ~ 2 * n + 1 <= 2 * n /\ ~ 2 * n + 2 <= 2 * n
        /\ 2 * n + 1 - 2 * n = 1 /\ 2 * n + 2 - 2 * n = 2 /\ 2 * (n + 1) = 2 * n + 2
    OBVIOUS
  <1>4. \A i \in 1..2 * n : t[i] = s[i] /\ s[i] \in Terms
    BY <1>2, <1>3, SeqFacts
  <1>5. t[2 * n + 1] = a /\ t[2 * n + 2] = b
    <2>1. PICK i, k : i = 2 * n + 1 /\ k = 2 * n + 2
      OBVIOUS
    <2>2. /\ i \in 1..2 * n + 2 /\ ~ i <= 2 * n /\ i - 2 * n = 1
          /\ k \in 1..2 * n + 2 /\ ~ k <= 2 * n /\ k - 2 * n = 2
      BY <1>3, <2>1
    <2> HIDE DEF t
    <2>3. t[i] = a /\ t[k] = b
      BY <1>1, <1>2, <2>2
    <2> QED
      BY <2>1, <2>3
  <1>6. exp_undo_stack' = t
    OBVIOUS
  <1> HIDE DEF t
  <1> QED
    BY <1>2, <1>3, <1>4, <1>5, <1>6

\* Every edge of the hung forest was made by one of the merges.
LEMMA HungPairs ==
    ASSUME NEW H, NEW G, NEW L, NEW a, NEW b, NEW r, Hangs(H, G, L, a, b, r),
           ForestInv(H), Stored(Forest', a, b, r), IsForest(Forest)
    PROVE  \E n \in Nat : \E at \in [1..n -> TermMerges'] : (Places(at, n) /\ PairsInv(G, at, n))'
  <1> DEFINE f == Forest
             g == Forest'
  <1>1. PICK n \in Nat : \E at \in [1..n -> TermMerges] : Places(at, n) /\ PairsInv(H, at, n)
    BY DEF ForestInv
  <1>2. PICK at \in [1..n -> TermMerges] : Places(at, n) /\ PairsInv(H, at, n)
    BY <1>1
  <1>3. PICK m, B : m = n + 1 /\ B = [j \in 1..n + 1 |-> IF j <= n THEN at[j] ELSE L + 1]
    OBVIOUS
  <1>4. /\ m \in Nat /\ m \in 1..m /\ ~ m <= n /\ B[m] = L + 1 /\ B[m] - 1 = L
        /\ \A j \in 1..n : j \in 1..m /\ B[j] = at[j] /\ j < m
        /\ \A j \in 1..m : j \in 1..n \/ j = m
        /\ DOMAIN B = 1..m /\ L \in Nat
    BY <1>3 DEF Hangs
  <1>5. TermMerges' = TermMerges \cup {L + 1}
    BY GrownMerges DEF Hangs
  <1>6. \A j \in 1..n : /\ at[j] \in TermMerges /\ at[j] \in 1..L /\ at[j] \in 0..L
                         /\ at[j] - 1 \in 0..L /\ at[j] < L + 1
    <2>1. TermMerges \in SUBSET (1..L)
      BY DEF Hangs, TermMerges
    <2>2. \A j \in 1..n : at[j] \in TermMerges /\ at[j] \in 1..L
      BY <1>2, <2>1
    <2>3. \A k \in 1..L : k \in 0..L /\ k - 1 \in 0..L /\ k < L + 1
      BY <1>4
    <2> QED
      BY <2>2, <2>3
  <1>7. B \in [1..m -> TermMerges']
    BY <1>3, <1>4, <1>5, <1>6
  <1>8. /\ Len(exp_undo_stack') = 2 * m
        /\ \A j \in 1..n : /\ exp_undo_stack'[2 * j - 1] = exp_undo_stack[2 * j - 1]
                           /\ exp_undo_stack'[2 * j] = exp_undo_stack[2 * j]
                           /\ exp_undo_stack[2 * j - 1] \in Terms /\ exp_undo_stack[2 * j] \in Terms
        /\ exp_undo_stack'[2 * m - 1] = a /\ exp_undo_stack'[2 * m] = b
    <2>1. Len(exp_undo_stack) = 2 * n
      BY <1>2 DEF Places
    <2>2. exp_undo_stack' = exp_undo_stack \o <<a, b>>
      BY DEF Stored, Forest
    <2>3. 2 * m - 1 = 2 * n + 1 /\ 2 * m = 2 * n + 2
      BY <1>3
    <2>4. exp_undo_stack \in Seq(Terms) /\ a \in Terms /\ b \in Terms
      BY DEF Hangs
    <2>5. /\ Len(exp_undo_stack') = 2 * (n + 1)
          /\ \A j \in 1..n : /\ exp_undo_stack'[2 * j - 1] = exp_undo_stack[2 * j - 1]
                             /\ exp_undo_stack'[2 * j] = exp_undo_stack[2 * j]
                             /\ exp_undo_stack[2 * j - 1] \in Terms /\ exp_undo_stack[2 * j] \in Terms
          /\ exp_undo_stack'[2 * n + 1] = a /\ exp_undo_stack'[2 * n + 2] = b
      BY <2>1, <2>2, <2>4, GrownPairs
    <2> QED
      BY <1>3, <2>3, <2>5
  <1>9. Places(B, m)'
    <2>1. \A k \in TermMerges : \E j \in 1..n : at[j] = k
      BY <1>2 DEF Places
    <2>2. \A k \in TermMerges' : \E j \in 1..m : B[j] = k
      BY <1>4, <1>5, <2>1
    <2>3. \A i, j \in 1..n : i < j => at[i] < at[j]
      BY <1>2 DEF Places
    <2>4. ASSUME NEW i \in 1..m, NEW j \in 1..m, i < j
          PROVE  B[i] < B[j]
      <3>1. i \in 1..n
        BY <1>4, <2>4
      <3>2. CASE j \in 1..n
        BY <1>4, <2>3, <2>4, <3>1, <3>2
      <3>3. CASE j = m
        BY <1>4, <1>6, <3>1, <3>3
      <3> QED
        BY <1>4, <3>2, <3>3
    <2> QED
      BY <1>7, <1>8, <2>2, <2>4 DEF Places
  <1>10. \A j \in 1..n : Made1(j)' = Made1(j) /\ Made2(j)' = Made2(j) /\ Made1(j) \in Terms /\ Made2(j) \in Terms
    BY <1>8 DEF Made1, Made2
  <1>11. Made1(m)' = a /\ Made2(m)' = b
    BY <1>8 DEF Made1, Made2
  <1>12. f.parent = expParent /\ f.reason = expReason /\ g.parent = expParent' /\ g.reason = expReason'
    BY DEF Forest
  <1>13. /\ expParent'[b] = a /\ expReason'[b] = r
         /\ \A u \in Up(f, b) \ {b} : /\ expParent'[u] \in Up(f, b) /\ expParent[expParent'[u]] = u
                                      /\ expReason'[u] = expReason[expParent'[u]]
         /\ \A u \in Terms \ Up(f, b) : expParent'[u] = expParent[u] /\ expReason'[u] = expReason[u]
         /\ \A u \in Terms : expParent[u] # ERef_Undef =>
              IF u \in Up(f, b) THEN expParent[u] # b /\ expParent'[expParent[u]] = u
              ELSE expParent'[u] = expParent[u]
    <2>1. a \in Terms /\ b \in Terms /\ IsForest(f) /\ Hung(g, f, a, b, r)
      BY DEF Hangs, Stored
    <2> HIDE DEF f, g
    <2> QED
      BY <1>12, <2>1, HungEdges
  <1>14. /\ \A k \in 0..L : G[k] = H[k]
         /\ H[L] = root /\ a \in Terms /\ b \in Terms /\ root[a] # root[b]
         /\ G[L + 1][a] = G[L + 1][b] /\ Reason(H, a, b, r, L) /\ StillSet(L) /\ L \in 0..L
    BY <1>4 DEF Hangs
  <1>15. ASSUME NEW j \in 1..m
         PROVE  /\ G[B[j] - 1][Made1(j)'] # G[B[j] - 1][Made2(j)']
                /\ G[B[j]][Made1(j)'] = G[B[j]][Made2(j)']
                /\ expParent'[Made1(j)'] = Made2(j)' \/ expParent'[Made2(j)'] = Made1(j)'
    <2>1. CASE j = m
      BY <1>4, <1>11, <1>13, <1>14, <2>1
    <2>2. CASE j \in 1..n
      <3>1. PICK c, d : c = Made1(j) /\ d = Made2(j)
        OBVIOUS
      <3>2. c \in Terms /\ d \in Terms /\ Made1(j)' = c /\ Made2(j)' = d
        BY <1>10, <2>2, <3>1
      <3>3. /\ H[at[j] - 1][c] # H[at[j] - 1][d] /\ H[at[j]][c] = H[at[j]][d]
            /\ expParent[c] = d \/ expParent[d] = c
        BY <1>2, <2>2, <3>1 DEF PairsInv
      <3>4. G[B[j] - 1] = H[at[j] - 1] /\ G[B[j]] = H[at[j]]
        BY <1>4, <1>6, <1>14, <2>2
      <3>5. c # ERef_Undef /\ d # ERef_Undef
        BY <3>2, TermFacts
      <3>6. expParent'[c] = d \/ expParent'[d] = c
        <4>1. CASE expParent[c] = d
          BY <1>13, <3>2, <3>5, <4>1
        <4>2. CASE expParent[d] = c
          BY <1>13, <3>2, <3>5, <4>2
        <4> QED
          BY <3>3, <4>1, <4>2
      <3> QED
        BY <3>2, <3>3, <3>4, <3>6
    <2> QED
      BY <1>4, <2>1, <2>2
  <1>16. ASSUME NEW u \in Terms, NEW v, NEW q, expParent[u] = v, v # ERef_Undef, q = expReason[u]
         PROVE  \E j \in 1..m : /\ {u, v} = {Made1(j)', Made2(j)'}
                                /\ Reason(G, u, v, q, B[j] - 1)'
                                /\ Reason(G, v, u, q, B[j] - 1)'
    <2>1. PICK j \in 1..n : {u, v} = {Made1(j), Made2(j)} /\ Reason(H, u, v, q, at[j] - 1)
      BY <1>2, <1>16 DEF PairsInv
    <2>2. PICK k : k = at[j] - 1
      OBVIOUS
    <2>3. k \in 0..L /\ G[k] = H[k] /\ B[j] - 1 = k /\ j \in 1..m
      BY <1>4, <1>6, <1>14, <2>2
    <2>4. Reason(H, u, v, q, k) /\ StillSet(L)
      BY <1>14, <2>1, <2>2
    <2>5. Reason(G, u, v, q, k)' /\ Reason(G, v, u, q, k)'
      BY <2>3, <2>4, ReasonKept
    <2>6. {u, v} = {Made1(j)', Made2(j)'}
      BY <1>10, <2>1
    <2> QED
      BY <2>3, <2>5, <2>6
  <1>17. ASSUME NEW t \in Terms, expParent'[t] # ERef_Undef
         PROVE  \E j \in 1..m : /\ {t, expParent'[t]} = {Made1(j)', Made2(j)'}
                                /\ Reason(G, t, expParent[t], expReason[t], B[j] - 1)'
    <2>1. PICK p, q : p = expParent'[t] /\ q = expReason'[t]
      OBVIOUS
    <2>2. \A j : Reason(G, t, p, q, B[j] - 1)' => Reason(G, t, expParent[t], expReason[t], B[j] - 1)'
      BY <2>1
    <2>3. CASE t = b
      <3>1. p = a /\ q = r
        BY <1>13, <2>1, <2>3
      <3>2. PICK k : k = L
        OBVIOUS
      <3>3. k \in 0..L /\ G[k] = H[k] /\ B[m] - 1 = k /\ Reason(H, a, b, r, k) /\ StillSet(L)
        BY <1>4, <1>14, <3>2
      <3>4. Reason(G, b, a, r, k)'
        BY <3>3, ReasonKept
      <3>5. {t, p} = {Made1(m)', Made2(m)'}
        BY <1>11, <2>3, <3>1
      <3> QED
        BY <1>4, <2>1, <2>2, <2>3, <3>1, <3>3, <3>4, <3>5
    <2>4. CASE t \in Up(f, b) \ {b}
      <3>1. p \in Up(f, b) /\ expParent[p] = t /\ q = expReason[p]
        BY <1>13, <2>1, <2>4
      <3>2. p \in Terms /\ t # ERef_Undef
        BY <1>14, <3>1, UpEquation, TermFacts
      <3>3. PICK j \in 1..m : /\ {p, t} = {Made1(j)', Made2(j)'} /\ Reason(G, t, p, q, B[j] - 1)'
        BY <1>16, <3>1, <3>2
      <3> QED
        BY <2>1, <2>2, <3>3
    <2>5. CASE t \notin Up(f, b)
      <3>1. expParent[t] = p /\ q = expReason[t] /\ p # ERef_Undef
        BY <1>13, <1>17, <2>1, <2>5
      <3>2. PICK j \in 1..m : /\ {t, p} = {Made1(j)', Made2(j)'} /\ Reason(G, t, p, q, B[j] - 1)'
        BY <1>16, <3>1
      <3> QED
        BY <2>1, <2>2, <3>2
    <2> QED
      BY <2>3, <2>4, <2>5
  <1>18. PairsInv(G, B, m)'
    BY <1>15, <1>17 DEF PairsInv
  <1> QED
    BY <1>4, <1>7, <1>9, <1>18

\* The forest now.
LEMMA ForestNow ==
    ASSUME EInv, NEW H, Past(H)
    PROVE  IsForest(Forest) /\ Spans(Forest, root) /\ ForestInv(H)
  <1>1. ForestInv(H) /\ expParent \in [Terms -> Terms \cup {ERef_Undef}]
    BY DEF Past, EInv, TypeInv
  <1> QED
    BY <1>1 DEF ForestInv, IsForest, Forest

\* The new forest has the fields of a forest.
LEMMA StoreRecord ==
    ASSUME NEW p, NEW q, NEW r, NEW g, g = expStoreExplanation(p, q, r)
    PROVE  g = [parent |-> g.parent, reason |-> g.reason, undo |-> g.undo]
  <1> DEFINE larger == Cardinality(Class(p)) >= Cardinality(Class(q))
             a == IF larger THEN p ELSE q
             b == IF larger THEN q ELSE p
             f == Forest
             turned == Up(f, b) \ {b}
             P == [w \in Terms |-> IF w \in turned THEN Below(f, b, w) ELSE f.parent[w]]
             S == [w \in Terms |-> IF w \in turned THEN f.reason[Below(f, b, w)] ELSE f.reason[w]]
  <1>2. g = [Reversed(f, b) EXCEPT !.parent[b] = a, !.reason[b] = r, !.undo = @ \o <<a, b>>]
    BY DEF expStoreExplanation
  <1>3. Reversed(f, b) = [f EXCEPT !.parent = P, !.reason = S]
    BY DEF Reversed
  <1>4. f = [parent |-> expParent, reason |-> expReason, undo |-> exp_undo_stack]
    BY DEF Forest
  <1> HIDE DEF P, S, f, a, b
  <1>5. Reversed(f, b) = [parent |-> P, reason |-> S, undo |-> exp_undo_stack]
    BY ONLY <1>3, <1>4
  <1> QED
    BY ONLY <1>2, <1>5

\* What a merge does to the forest.
LEMMA ForestDoes ==
    ASSUME MergeClasses
    PROVE  IF isList(left) THEN UNCHANGED expVars
           ELSE Forest' = expStoreExplanation(left, right, MergeReason)
  <1>1. CASE isList(left)
    BY <1>1 DEF MergeClasses
  <1>2. CASE ~ isList(left)
    <2> DEFINE g == expStoreExplanation(left, right, MergeReason)
    <2>1. SetForest(g)
      BY <1>2 DEF MergeClasses
    <2>2. g = [parent |-> g.parent, reason |-> g.reason, undo |-> g.undo]
      BY StoreRecord
    <2> HIDE DEF g
    <2>3. Forest' = [parent |-> g.parent, reason |-> g.reason, undo |-> g.undo]
      BY <2>1 DEF SetForest, Forest
    <2> QED
      BY <1>2, <2>2, <2>3 DEF g
  <1> QED
    BY <1>1, <1>2

\* A merge leaves all values as they are.
LEMMA MergeStillSet ==
    ASSUME EInv, NEW H, NEW x, NEW y, Merging(H, x, y), polarity' = polarity
    PROVE  PolarityInv' /\ StillSet(Top) /\ (\A l \in Lits : SetNow(l) => SetNow(l)')
  <1>1. MergeEntry(y) \in Undos /\ MergeEntry(y).op # "SET_POLARITY"
    BY DEF Merging, SidesOf, MergeEntry, Undo, Undos, Class
  <1>2. undo_stack_main' = Append(undo_stack_main, MergeEntry(y))
    BY DEF Merging, MergeEffect, MergeEntry
  <1> QED
    BY <1>1, <1>2, PolarityPushed DEF EInv

\* The forest after a merge of terms.
LEMMA MergedForestOfTerms ==
    ASSUME EInv, NEW H, NEW x, NEW y, Merging(H, x, y), NEW G, NEW L,
           Continued(G, H, L, JoinedRoots(root, x, y)), polarity' = polarity,
           Forest' = expStoreExplanation(left, right, MergeReason), ~ isList(left)
    PROVE  ForestInv(G)'
  <1> DEFINE q == JoinedRoots(root, x, y)
             r == MergeReason
  <1>1. /\ left \in Terms /\ right \in Terms /\ Reason(H, left, right, r, Top)
    BY DEF Merging, TurnOf
  <1>2. PICK a, b : {a, b} = {left, right} /\ Stored(Forest', a, b, r)
    BY <1>1, StoreHangs
  <1>3. IsForest(Forest) /\ Spans(Forest, root) /\ ForestInv(H)
    BY ForestNow DEF Merging
  <1>4. Roots(root)
    BY RootsNow DEF Merging
  <1>5. SidesOf(x, y)
    BY DEF Merging
  <1>6. /\ a \in Terms /\ b \in Terms /\ root[a] # root[b]
        /\ JoinsAt(q, root, a, b) /\ q[a] = q[b]
    BY <1>1, <1>2, <1>4, <1>5, SidesJoin
  <1>7. root' = q
    BY MergedTables DEF MergedTable
  <1> HIDE DEF q, r
  <1>8. /\ DOMAIN undo_stack_main = 1..L /\ DOMAIN undo_stack_main' = 1..L + 1
        /\ undo_stack_main'[L + 1] = MergeEntry(y)
        /\ \A k \in 1..L : undo_stack_main'[k] = undo_stack_main[k]
        /\ \A k \in 0..L : G[k] = H[k]
        /\ G[L + 1] = q /\ H[L] = root
    BY MergedStack DEF q
  <1>9. L \in Nat /\ L = Top
    BY DEF Continued, Top
  <1>10. NewMerge(L)'
    <2>1. MergeEntry(y).op = "MERGE" /\ MergeEntry(y).arg = y
      BY DEF MergeEntry, Undo
    <2>2. ~ isList(y)
      BY <1>5 DEF SidesOf
    <2> QED
      BY <1>8, <2>1, <2>2 DEF NewMerge, IsMerge
  <1>11. Reason(H, a, b, r, L)
    <2>1. (a = left /\ b = right) \/ (a = right /\ b = left)
      BY <1>2
    <2> QED
      BY <1>1, <1>9, <2>1, ReasonTurned
  <1>12. StillSet(L)
    BY <1>9, MergeStillSet
  <1>13. exp_undo_stack \in Seq(Terms) /\ expParent \in [Terms -> Terms \cup {ERef_Undef}]
    BY DEF EInv, TypeInv
  <1>14. Hangs(H, G, L, a, b, r)
    BY <1>6, <1>7, <1>8, <1>9, <1>10, <1>11, <1>12, <1>13 DEF Hangs
  <1>15. \E n \in Nat : \E at \in [1..n -> TermMerges'] : (Places(at, n) /\ PairsInv(G, at, n))'
    BY <1>2, <1>3, <1>14, HungPairs
  <1>16. PICK g : g = Forest'
    OBVIOUS
  <1>17. Hung(g, Forest, a, b, r)
    BY <1>2, <1>16 DEF Stored
  <1>18. IsForest(g)
    BY <1>3, <1>6, <1>17, HungForest
  <1>19. Spans(g, q)
    BY <1>3, <1>6, <1>17, HungSpans
  <1>20. (Acyclic(Forest) /\ Spans(Forest, root))'
    BY <1>7, <1>16, <1>18, <1>19 DEF IsForest
  <1> QED
    BY <1>15, <1>20 DEF ForestInv

\* The forest after a merge of lists, which have no edges.
LEMMA MergedForestOfLists ==
    ASSUME EInv, NEW H, NEW x, NEW y, Merging(H, x, y), NEW G, NEW L,
           Continued(G, H, L, JoinedRoots(root, x, y)), polarity' = polarity,
           UNCHANGED expVars, isList(left)
    PROVE  ForestInv(G)'
  <1> DEFINE q == JoinedRoots(root, x, y)
  <1>1. /\ DOMAIN undo_stack_main = 1..L /\ DOMAIN undo_stack_main' = 1..L + 1
        /\ undo_stack_main'[L + 1] = MergeEntry(y)
        /\ \A k \in 1..L : undo_stack_main'[k] = undo_stack_main[k]
        /\ \A k \in 0..L : G[k] = H[k]
        /\ \A k \in 1..L + 1 : k \in 1..L \/ k = L + 1
    BY MergedStack
  <1>2. L \in Nat /\ L = Top
    BY DEF Continued, Top
  <1>3. isList(y) /\ isList(x)
    BY DEF Merging, SidesOf
  <1>4. TermMerges' = TermMerges
    <2>1. MergeEntry(y).arg = y
      BY DEF MergeEntry, Undo
    <2>2. \A k \in 1..L : k \in 1..L + 1
      BY <1>2
    <2>3. \A k \in 1..L : k \in TermMerges' <=> k \in TermMerges
      BY <1>1, <2>2 DEF TermMerges, IsMerge
    <2>4. (L + 1) \notin TermMerges'
      BY <1>1, <1>3, <2>1 DEF TermMerges
    <2>5. TermMerges \in SUBSET (1..L) /\ TermMerges' \in SUBSET (1..L + 1)
      BY <1>1 DEF TermMerges
    <2> QED
      BY <1>1, <2>3, <2>4, <2>5
  <1>5. \A k \in TermMerges : k \in 0..L /\ k - 1 \in 0..L
    BY <1>1, <1>2 DEF TermMerges
  <1>6. StillSet(L)
    BY <1>2, MergeStillSet
  <1>7. IsForest(Forest) /\ Spans(Forest, root) /\ ForestInv(H)
    BY ForestNow DEF Merging
  <1>8. root' = q
    BY MergedTables DEF MergedTable
  <1>9. \A t \in Terms : q[t] = root[t]
    <2>1. \A t \in Terms : t \in Nodes /\ ~ isList(t)
      BY TermFacts
    <2>2. Roots(root)
      BY RootsNow DEF Merging
    <2>3. \A t \in Terms : root[t] # y
      BY <1>3, <2>1, <2>2 DEF Roots
    <2> QED
      BY <2>1, <2>3 DEF JoinedRoots
  <1>10. Spans(Forest, root)'
    <2>1. Forest' = Forest
      BY DEF Forest, expVars
    <2> HIDE DEF q
    <2> QED
      BY <1>7, <1>8, <1>9, <2>1 DEF Spans
  <1>11. \A k \in TermMerges : G[k] = H[k] /\ G[k - 1] = H[k - 1]
    BY <1>1, <1>5
  <1>12. \A l \in Lits : \A k \in TermMerges : SetBelow(k - 1, l) => SetBelow(k - 1, l)'
    BY <1>5, <1>6 DEF StillSet
  <1> QED
    BY <1>4, <1>7, <1>10, <1>11, <1>12, ForestKept

TypedForest(p, s, u) ==
  /\ p \in [Terms -> Terms \cup {ERef_Undef}] /\ s \in [Terms -> Lits \cup {NoLit}]
  /\ u \in Seq(Terms)

\* The new forest is typed.
LEMMA StoreTyped ==
    ASSUME EInv, NEW H, Past(H), TurnOf(H), ~ isList(left),
           NEW g, g = expStoreExplanation(left, right, MergeReason)
    PROVE  TypedForest(g.parent, g.reason, g.undo)
  <1> DEFINE r == MergeReason
             f == Forest
  <1>1. left \in Terms /\ right \in Terms /\ r \in Lits \cup {NoLit}
    BY DEF TurnOf, Reason
  <1>2. PICK a, b : {a, b} = {left, right} /\ Stored(g, a, b, r)
    BY <1>1, StoreHangs
  <1>3. IsForest(f) /\ a \in Terms /\ b \in Terms
    BY <1>1, <1>2, ForestNow
  <1>4. /\ exp_undo_stack \in Seq(Terms) /\ f.reason = expReason
        /\ expReason \in [Terms -> Lits \cup {NoLit}]
    BY DEF EInv, TypeInv, Forest
  <1>5. Hung(g, f, a, b, r) /\ g.undo = exp_undo_stack \o <<a, b>>
    BY <1>2 DEF Stored
  <1> HIDE DEF f, r
  <1>6. /\ g.parent \in [Terms -> Terms \cup {ERef_Undef}]
        /\ \A t \in Up(f, b) \ {b} : g.parent[t] \in Up(f, b)
    BY <1>3, <1>5, HungEdges
  <1>7. g.reason \in [Terms -> Lits \cup {NoLit}]
    <2>1. Up(f, b) \in SUBSET Terms
      BY <1>3, UpEquation
    <2>2. \A w \in Up(f, b) \ {b} : Below(f, b, w) \in Terms
      BY <1>3, <2>1, BelowFacts
    <2> QED
      BY <1>1, <1>4, <1>5, <2>2 DEF Hung
  <1>8. g.undo \in Seq(Terms)
    <2>1. <<a, b>> \in Seq(Terms)
      BY <1>3
    <2> QED
      BY <1>4, <1>5, <2>1, ConcatProperties
  <1> QED
    BY <1>6, <1>7, <1>8 DEF TypedForest

\* Two classes are joined.
LEMMA MergeClassesKeeps ==
    ASSUME EInv, MergeClasses
    PROVE  EInv'
  <1>1. PICK H : Past(H)
    BY DEF EInv
  <1>2. Turn /\ root[left] # root[right]
    BY DEF MergeClasses
  <1>3. TurnOf(H)
    BY <1>1, <1>2, TurnFacts
  <1>4. PICK x, y : {x, y} = {root[left], root[right]} /\ MergeEffect(x, y)
    BY MergeDoes
  <1>5. Roots(root) /\ Top \in Nat
    BY <1>1, RootsNow
  <1>6. SidesOf(x, y)
    BY <1>2, <1>3, <1>4, <1>5, SidesFacts
  <1>7. Merging(H, x, y)
    BY <1>1, <1>3, <1>4, <1>6 DEF Merging
  <1>8. PICK G, L : Continued(G, H, L, JoinedRoots(root, x, y))
    <2>1. PICK L : L = Len(undo_stack_main)
      OBVIOUS
    <2>2. PICK G : G = [k \in 0..L + 1 |-> IF k <= L THEN H[k] ELSE JoinedRoots(root, x, y)]
      OBVIOUS
    <2>3. Continued(G, H, L, JoinedRoots(root, x, y))
      BY <1>5, <2>1, <2>2 DEF Continued, Top
    <2> QED
      BY <2>3
  <1>9. /\ polarity' = polarity /\ todo' = todo /\ congruence_pending' = TRUE /\ pc' = pc /\ pc = "merge"
    BY DEF MergeClasses, Turn
  <1>10. History(G)' /\ PastInv(G)'
    BY <1>7, <1>8, MergedHistory, MergedPast
  <1>11. TableInv(G)'
    BY <1>7, <1>8, MergedTableInv
  <1>12. ForestInv(G)'
    BY <1>7, <1>8, <1>9, ForestDoes, MergedForestOfTerms, MergedForestOfLists
  <1>13. \E F : Past(F)'
    <2>1. Past(G)'
      BY <1>10, <1>11, <1>12 DEF Past
    <2> QED
      BY <2>1
  <1>14. PolarityInv' /\ (\A l \in Lits : SetNow(l) => SetNow(l)')
    BY <1>7, <1>9, MergeStillSet
  <1>15. undo_stack_main' \in Seq(Undos)
    BY <1>7, <1>8, MergedStack
  <1>16. Kept'
    BY <1>13, <1>14, <1>15 DEF Kept
  <1>17. TodoItems'
    BY <1>9, <1>14, ItemsNow, ItemsKept
  <1>18. MergedTable(x, y)
    BY <1>7, MergedTables
  <1>19. PendingInv'
    <2>1. todo # <<>> /\ Head(todo).kind = "eq"
      BY <1>9 DEF EInv, PendingInv
    <2>2. Paired(pending', root')
      BY <1>18 DEF MergedTable
    <2> QED
      BY <1>9, <2>1, <2>2 DEF PendingInv, Paired
  <1>20. TypeInv'
    <2>1. /\ expParent' \in [Terms -> Terms \cup {ERef_Undef}]
          /\ expReason' \in [Terms -> Lits \cup {NoLit}]
          /\ exp_undo_stack' \in Seq(Terms)
      <3>1. CASE isList(left)
        <4>1. UNCHANGED expVars
          BY <3>1, ForestDoes
        <4> QED
          BY <4>1 DEF EInv, TypeInv, expVars
      <3>2. CASE ~ isList(left)
        <4>1. PICK g : g = expStoreExplanation(left, right, MergeReason)
          OBVIOUS
        <4>2. Forest' = g
          BY <3>2, <4>1, ForestDoes
        <4>3. g.parent = expParent' /\ g.reason = expReason' /\ g.undo = exp_undo_stack'
          BY <4>2 DEF Forest
        <4>4. TypedForest(g.parent, g.reason, g.undo)
          BY <1>1, <1>3, <3>2, <4>1, StoreTyped
        <4> QED
          BY <4>3, <4>4 DEF TypedForest
      <3> QED
        BY <3>1, <3>2
    <2>2. /\ parents' \in [Nodes -> UseVectors] /\ index' \in [Sides -> [Nodes -> Nat]]
          /\ pending' \in Seq(Nodes) /\ sig_tab' \in [DOMAIN sig_tab' -> Nodes]
          /\ root' = JoinedRoots(root, x, y)
      BY <1>18 DEF MergedTable
    <2>3. root' \in [Nodes -> Nodes]
      BY <1>6, <2>2 DEF SidesOf, JoinedRoots, EInv, TypeInv
    <2>4. polarity' \in [Atoms -> Signs \cup {Undef}] /\ todo' \in Seq(Todos)
      BY <1>9, <1>17 DEF EInv, TypeInv, TodoItems
    <2> QED
      BY <1>9, <1>15, <2>1, <2>2, <2>3, <2>4 DEF TypeInv
  <1> QED
    BY <1>9, <1>16, <1>17, <1>19, <1>20, EInvNext

-----------------------------------------------------------------------------
(* A merge that is refused.                                                *)

\* Marks of distinctions stay on terms.
LEMMA DistKept ==
    ASSUME EInv, DistInv, Next
    PROVE  DistInv'
  <1>1. PICK H : Past(H)
    BY DEF EInv
  <1>2. Roots(root)
    BY <1>1, RootsNow
  <1>3. dist \in [Nodes -> SUBSET Terms] /\ \A n \in Nodes : isList(n) => dist[n] = {}
    BY DEF DistInv
  <1>4. CASE assertDist
    <2>1. todo \in Seq(Todos) /\ todo # <<>>
      BY <1>4 DEF assertDist, Next1, EInv, TypeInv
    <2>2. Head(todo) \in Todos
      BY <2>1
    <2>3. X \in Terms
      BY <2>2 DEF X, Todos
    <2>4. X.args \in Seq(Terms) /\ DOMAIN X.args = 1..Len(X.args) /\ Len(X.args) \in Nat
      BY <2>3, ArgumentList
    <2>5. \A i \in 1..Len(X.args) : ~ isList(root[MemberOf(i)])
      <3>1. \A i \in 1..Len(X.args) : X.args[i] \in Terms
        BY <2>4
      <3>2. \A t \in Terms : t \in Nodes /\ ~ isList(t)
        BY TermFacts
      <3> QED
        BY <1>2, <3>1, <3>2 DEF MemberOf, Roots
    <2>6. PICK x : x = X
      OBVIOUS
    <2>7. CASE \E S : dist' = [n \in Nodes |-> dist[n] \ {d \in {X} : n \in S}]
      <3>1. PICK S : dist' = [n \in Nodes |-> dist[n] \ {d \in {x} : n \in S}]
        BY <2>6, <2>7
      <3> QED
        BY <1>3, <3>1 DEF DistInv
    <2>8. CASE dist' = [n \in Nodes |-> dist[n] \cup {d \in {X} : n \in Marked(Len(X.args))}]
      <3>1. PICK S : S = Marked(Len(X.args))
        OBVIOUS
      <3>2. \A n \in S : ~ isList(n)
        BY <2>5, <3>1 DEF Marked
      <3>3. dist' = [n \in Nodes |-> dist[n] \cup {d \in {x} : n \in S}] /\ x \in Terms
        BY <2>3, <2>6, <2>8, <3>1
      <3> QED
        BY <1>3, <3>2, <3>3 DEF DistInv
    <2> QED
      BY <1>4, <2>7, <2>8 DEF assertDist
  <1>5. CASE MergeClasses
    <2>1. Turn /\ root[left] # root[right] /\ merge(root[left], root[right], Rest)
      BY <1>5 DEF MergeClasses
    <2>2. TurnOf(H)
      BY <1>1, <2>1, TurnFacts
    <2>3. PICK x, y : {x, y} = {root[left], root[right]} /\ dist' = [dist EXCEPT ![x] = @ \cup dist[y]]
      <3> DEFINE p == root[left]
                 q == root[right]
                 x == IF Swaps(p, q) THEN q ELSE p
                 y == IF Swaps(p, q) THEN p ELSE q
      <3>1. dist' = [dist EXCEPT ![x] = @ \cup dist[y]]
        BY <2>1 DEF merge
      <3>2. {x, y} = {p, q}
        OBVIOUS
      <3> QED
        BY <3>1, <3>2
    <2>4. SidesOf(x, y)
      BY <1>2, <2>1, <2>2, <2>3, SidesFacts
    <2>5. x \in Nodes /\ y \in Nodes /\ (isList(x) <=> isList(y))
      BY <2>4 DEF SidesOf
    <2>6. dist[x] \cup dist[y] \in SUBSET Terms /\ (isList(x) => dist[x] \cup dist[y] = {})
      BY <1>3, <2>5
    <2>7. PICK S : S = dist[x] \cup dist[y]
      OBVIOUS
    <2>8. dist' = [dist EXCEPT ![x] = S] /\ S \in SUBSET Terms /\ (isList(x) => S = {})
      BY <2>3, <2>6, <2>7
    <2> QED
      BY <1>3, <2>5, <2>8 DEF DistInv
  <1>6. CASE undoMerge
    <2>1. PICK x, S : dist' = [dist EXCEPT ![x] = @ \ S]
      BY <1>6 DEF undoMerge
    <2> QED
      BY <1>3, <2>1 DEF DistInv
  <1>7. CASE UndoDist
    <2>1. PICK x : dist' = [n \in Nodes |-> dist[n] \ {e \in {x} : n \in ToSet(e.args)}]
      BY <1>7 DEF UndoDist, undoDistinction
    <2> QED
      BY <1>3, <2>1 DEF DistInv
  <1>8. CASE assertDisequality
    <2>1. dist' = dist
      BY <1>8 DEF assertDisequality, Conflict
    <2> QED
      BY <1>3, <2>1 DEF DistInv
  <1>9. ASSUME NEW l \in Literals, assertLit(l)
        PROVE  DistInv'
    BY <1>3, <1>9 DEF assertLit, classVars, DistInv
  <1>10. CASE assertEq \/ Asserts \/ MergeSame \/ MergeRefused \/ MergeDone
    BY <1>3, <1>10 DEF assertEq, Asserts, MergeSame, MergeRefused, MergeDone, classVars, DistInv
  <1>11. CASE popBacktrackPoint \/ UndoDisequality \/ clearPolarity \/ UndoDone
    BY <1>3, <1>11 DEF popBacktrackPoint, UndoDisequality, clearPolarity, UndoDone, classVars, DistInv
  <1> QED
    BY <1>4, <1>5, <1>6, <1>7, <1>8, <1>9, <1>10, <1>11 DEF Next

\* Only terms are kept apart.
LEMMA RefusedTerms ==
    ASSUME EInv, DistInv, MergeRefused
    PROVE  ~ isList(left)
  <1>1. PICK H : Past(H)
    BY DEF EInv
  <1>2. Turn /\ unmergeable(root[left], root[right]).kind # "none"
    BY DEF MergeRefused
  <1>3. Roots(root) /\ TurnOf(H)
    BY <1>1, <1>2, RootsNow, TurnFacts
  <1>4. PICK p, q : p = root[left] /\ q = root[right]
    OBVIOUS
  <1>5. /\ p \in Nodes /\ q \in Nodes /\ (isList(p) <=> isList(left)) /\ (isList(q) <=> isList(left))
    BY <1>3, <1>4 DEF Roots, TurnOf
  <1> SUFFICES ASSUME isList(left)
               PROVE  FALSE
    OBVIOUS
  <1>6. dist[p] = {} /\ isList(p)
    BY <1>5 DEF DistInv
  <1>7. ~ isConstant(p)
    BY <1>6, TermFacts DEF isConstant
  <1>8. unmergeable(p, q) = [kind |-> "none", lit |-> NoLit]
    BY <1>6, <1>7 DEF unmergeable
  <1> QED
    BY <1>2, <1>4, <1>8

\* g without the edge of v.
Cut(g, f, v) ==
  /\ g.parent = [f.parent EXCEPT ![v] = ERef_Undef] /\ g.reason = [f.reason EXCEPT ![v] = NoLit]

\* The last two nodes of the undo stack.
LEMMA RemoveCuts ==
    ASSUME NEW f, NEW s \in Seq(Terms), NEW a \in Terms, NEW b \in Terms,
           f.undo = s \o <<a, b>>, NEW g, g = expRemoveExplanation(f)
    PROVE  /\ f.parent[b] = a => Cut(g, f, b)
           /\ f.parent[b] # a => Cut(g, f, a)
           /\ g.undo = s /\ g = [parent |-> g.parent, reason |-> g.reason, undo |-> g.undo]
  <1> DEFINE u == s \o <<a, b>>
             n == Len(u)
             v == IF f.parent[u[n]] = u[n - 1] THEN u[n] ELSE u[n - 1]
  <1>1. <<a, b>> \in Seq(Terms) /\ Len(<<a, b>>) = 2 /\ <<a, b>>[1] = a /\ <<a, b>>[2] = b
    OBVIOUS
  <1>2. PICK m : m = Len(s)
    OBVIOUS
  <1>3. m \in Nat /\ \A i \in 1..m : s[i] \in Terms
    BY <1>2, SeqFacts
  <1>4. /\ u \in Seq(Terms) /\ n = m + 2
        /\ \A i \in 1..m + 2 : u[i] = IF i <= m THEN s[i] ELSE <<a, b>>[i - m]
    BY <1>1, <1>2, ConcatProperties
  <1>5. u[n] = b /\ u[n - 1] = a
    <2>1. PICK i, k : i = m + 2 /\ k = m + 1
      OBVIOUS
    <2>2. /\ i \in 1..m + 2 /\ ~ i <= m /\ i - m = 2 /\ k \in 1..m + 2 /\ ~ k <= m /\ k - m = 1
          /\ k = i - 1
      BY <1>3, <2>1
    <2> HIDE DEF u
    <2>3. u[i] = b /\ u[k] = a
      BY <1>1, <1>4, <2>2
    <2> QED
      BY <1>4, <2>1, <2>2, <2>3
  <1>6. SubSeq(u, 1, n - 2) = s
    <2>1. n - 2 = m /\ m \in 0..n
      BY <1>3, <1>4
    <2>2. /\ SubSeq(u, 1, m) \in Seq(Terms) /\ Len(SubSeq(u, 1, m)) = m
          /\ \A i \in 1..m : SubSeq(u, 1, m)[i] = u[i]
      BY <1>4, <2>1, PrefixFacts
    <2>3. \A i \in 1..m : u[i] = s[i]
      BY <1>3, <1>4
    <2> HIDE DEF u
    <2>4. SubSeq(u, 1, m) = s
      BY <1>2, <1>3, <2>2, <2>3, SeqEqual
    <2> QED
      BY <2>1, <2>4
  <1>7. g = [parent |-> [f.parent EXCEPT ![v] = ERef_Undef], reason |-> [f.reason EXCEPT ![v] = NoLit],
             undo |-> SubSeq(u, 1, n - 2)]
    BY DEF expRemoveExplanation
  <1> HIDE DEF u
  <1>8. v = IF f.parent[b] = a THEN b ELSE a
    BY <1>5
  <1> HIDE DEF v
  <1>9. /\ g.parent = [f.parent EXCEPT ![v] = ERef_Undef] /\ g.reason = [f.reason EXCEPT ![v] = NoLit]
        /\ g.undo = s /\ g = [parent |-> g.parent, reason |-> g.reason, undo |-> g.undo]
    BY <1>6, <1>7
  <1> QED
    BY <1>8, <1>9 DEF Cut

\* The classes of a and b joined.
LEMMA JoinsWhole ==
    ASSUME NEW r, NEW a \in Terms, NEW b \in Terms, r[a] # r[b]
    PROVE  \E q : JoinsAt(q, r, a, b)
  <1>1. PICK q : q = [t \in Terms |-> IF r[t] = r[b] THEN r[a] ELSE r[t]]
    OBVIOUS
  <1>2. JoinsAt(q, r, a, b)
    BY <1>1 DEF JoinsAt
  <1> QED
    BY <1>2

\* The forest spans the classes again when the new edge is cut.
LEMMA CutAgain ==
    ASSUME NEW f, IsForest(f), NEW r, Spans(f, r), NEW a \in Terms, NEW b \in Terms, r[a] # r[b],
           NEW g, NEW l, Hung(g, f, a, b, l), NEW h, Cut(h, g, b)
    PROVE  IsForest(h) /\ Spans(h, r)
  <1>1. PICK q : JoinsAt(q, r, a, b)
    BY JoinsWhole
  <1>2. IsForest(g) /\ Spans(g, q)
    BY <1>1, HungForest, HungSpans
  <1>3. /\ g.parent[b] = a
        /\ \A u \in Up(f, b) \ {b} : g.parent[u] \in Up(f, b) /\ f.parent[g.parent[u]] = u
        /\ \A u \in Terms \ Up(f, b) : g.parent[u] = f.parent[u]
    BY HungEdges
  <1>4. Within(f, r, Terms)
    <2>1. \A t \in Terms : \A s \in Up(f, t) : r[s] = r[t]
      BY SpansWithin
    <2> QED
      BY <2>1, UpFacts DEF Within
  <1>5. Within(g, r, Terms \ {b})
    <2> SUFFICES ASSUME NEW t \in Terms \ {b}, g.parent[t] # ERef_Undef
                 PROVE  r[t] = r[g.parent[t]]
      BY DEF Within
    <2>1. CASE t \in Up(f, b)
      <3>1. g.parent[t] \in Terms /\ f.parent[g.parent[t]] = t /\ t # ERef_Undef
        BY <1>3, <2>1, UpEquation, TermFacts
      <3> QED
        BY <1>4, <3>1 DEF Within
    <2>2. CASE t \notin Up(f, b)
      BY <1>3, <1>4, <2>2 DEF Within
    <2> QED
      BY <2>1, <2>2
  <1>6. \A s, t \in Terms : r[s] = r[t] => q[s] = q[t]
    BY <1>1 DEF JoinsAt
  <1>7. g.parent[b] # ERef_Undef /\ r[b] # r[g.parent[b]]
    BY <1>3, TermFacts
  <1>8. h.parent = [g.parent EXCEPT ![b] = ERef_Undef]
    BY DEF Cut
  <1> QED
    BY <1>2, <1>5, <1>6, <1>7, <1>8, CutSpans

\* The pairs after the merge was refused.
LEMMA RefusedPairs ==
    ASSUME NEW H, UNCHANGED <<undo_stack_main, polarity, exp_undo_stack>>,
           expParent \in [Terms -> Terms \cup {ERef_Undef}],
           IsForest(Forest), NEW a \in Terms, NEW b \in Terms,
           NEW g, NEW l, Hung(g, Forest, a, b, l), Cut(Forest', g, b),
           NEW n \in Nat, NEW at, \A j \in 1..n : Made1(j) \in Terms /\ Made2(j) \in Terms,
           PairsInv(H, at, n)
    PROVE  PairsInv(H, at, n)'
  <1> DEFINE f == Forest
  <1>1. f.parent = expParent /\ f.reason = expReason /\ Forest'.parent = expParent' /\ Forest'.reason = expReason'
    BY DEF Forest
  <1>2. /\ g.parent \in [Terms -> Terms \cup {ERef_Undef}]
        /\ \A u \in Up(f, b) \ {b} : /\ g.parent[u] \in Up(f, b) /\ expParent[g.parent[u]] = u
                                     /\ g.reason[u] = expReason[g.parent[u]]
        /\ \A u \in Terms \ Up(f, b) : g.parent[u] = expParent[u] /\ g.reason[u] = expReason[u]
        /\ \A u \in Terms : expParent[u] # ERef_Undef =>
             IF u \in Up(f, b) THEN expParent[u] # b /\ g.parent[expParent[u]] = u
             ELSE g.parent[u] = expParent[u]
    BY <1>1, HungEdges
  <1>3. /\ \A t \in Terms \ {b} : expParent'[t] = g.parent[t] /\ expReason'[t] = g.reason[t]
        /\ expParent'[b] = ERef_Undef
    <2>1. g.reason = [w \in Terms |-> IF w = b THEN l ELSE
                                    IF w \in Up(f, b) THEN f.reason[Below(f, b, w)] ELSE f.reason[w]]
      BY DEF Hung
    <2>2. expParent' = [g.parent EXCEPT ![b] = ERef_Undef] /\ expReason' = [g.reason EXCEPT ![b] = NoLit]
      BY <1>1 DEF Cut
    <2>3. \A t \in Terms \ {b} : expReason'[t] = g.reason[t]
      BY <2>1, <2>2
    <2> QED
      BY <1>2, <2>2, <2>3
  <1>4. \A j : Made1(j)' = Made1(j) /\ Made2(j)' = Made2(j)
    BY DEF Made1, Made2
  <1>5. b \in Up(f, b)
    BY UpFacts
  <1>6. \A k, q : SetBelow(k, q) => SetBelow(k, q)'
    BY DEF SetBelow, SetAt
  <1>7. ASSUME NEW s, NEW t, NEW r, NEW k, Reason(H, s, t, r, k)
        PROVE  Reason(H, s, t, r, k)' /\ Reason(H, t, s, r, k)'
    BY <1>6, <1>7 DEF Reason
  <1>8. ASSUME NEW j \in 1..n
        PROVE  /\ H[at[j] - 1][Made1(j)'] # H[at[j] - 1][Made2(j)']
               /\ H[at[j]][Made1(j)'] = H[at[j]][Made2(j)']
               /\ expParent'[Made1(j)'] = Made2(j)' \/ expParent'[Made2(j)'] = Made1(j)'
    <2>1. PICK c, d : c = Made1(j) /\ d = Made2(j)
      OBVIOUS
    <2>2. /\ c \in Terms /\ d \in Terms /\ c # ERef_Undef /\ d # ERef_Undef
          /\ expParent[c] = d \/ expParent[d] = c
          /\ H[at[j] - 1][c] # H[at[j] - 1][d] /\ H[at[j]][c] = H[at[j]][d]
      BY <2>1, TermFacts DEF PairsInv
    <2>3. expParent'[c] = d \/ expParent'[d] = c
      <3>1. CASE expParent[c] = d
        BY <1>2, <1>3, <1>5, <2>2, <3>1
      <3>2. CASE expParent[d] = c
        BY <1>2, <1>3, <1>5, <2>2, <3>2
      <3> QED
        BY <2>2, <3>1, <3>2
    <2> QED
      BY <1>4, <2>1, <2>2, <2>3
  <1>9. ASSUME NEW t \in Terms, expParent'[t] # ERef_Undef
        PROVE  \E j \in 1..n : /\ {t, expParent'[t]} = {Made1(j)', Made2(j)'}
                               /\ Reason(H, t, expParent[t], expReason[t], at[j] - 1)'
    <2>1. PICK p, q : p = expParent'[t] /\ q = expReason'[t]
      OBVIOUS
    <2>2. t # b /\ p = g.parent[t] /\ q = g.reason[t] /\ p # ERef_Undef
      BY <1>3, <1>9, <2>1
    <2>3. \A k : Reason(H, t, p, q, k)' => Reason(H, t, expParent[t], expReason[t], k)'
      BY <2>1
    <2>4. CASE t \in Up(f, b)
      <3>1. p \in Terms /\ expParent[p] = t /\ q = expReason[p] /\ t # ERef_Undef
        BY <1>2, <2>2, <2>4, UpEquation, TermFacts
      <3>2. PICK j \in 1..n : {p, t} = {Made1(j), Made2(j)} /\ Reason(H, p, t, q, at[j] - 1)
        BY <3>1 DEF PairsInv
      <3>3. Reason(H, t, p, q, at[j] - 1)'
        BY <1>7, <3>2
      <3> QED
        BY <1>4, <2>1, <2>3, <3>2, <3>3
    <2>5. CASE t \notin Up(f, b)
      <3>1. expParent[t] = p /\ q = expReason[t]
        BY <1>2, <2>2, <2>5
      <3>2. PICK j \in 1..n : {t, p} = {Made1(j), Made2(j)} /\ Reason(H, t, p, q, at[j] - 1)
        BY <2>2, <3>1 DEF PairsInv
      <3>3. Reason(H, t, p, q, at[j] - 1)'
        BY <1>7, <3>2
      <3> QED
        BY <1>4, <2>1, <2>3, <3>2, <3>3
    <2> QED
      BY <2>4, <2>5
  <1> QED
    BY <1>8, <1>9 DEF PairsInv

\* The pairs of exp_undo_stack are pairs of terms.
LEMMA MadeTerms ==
    ASSUME exp_undo_stack \in Seq(Terms), NEW n \in Nat, Len(exp_undo_stack) = 2 * n
    PROVE  \A j \in 1..n : Made1(j) \in Terms /\ Made2(j) \in Terms
  <1>1. \A j \in 1..n : 2 * j - 1 \in 1..2 * n /\ 2 * j \in 1..2 * n
    OBVIOUS
  <1> QED
    BY <1>1, SeqFacts DEF Made1, Made2

\* A refused merge leaves no trace in the forest's pairs.
LEMMA RefusedForest ==
    ASSUME EInv, NEW H, Past(H), TurnOf(H), ~ isList(left), root[left] # root[right],
           UNCHANGED <<root, undo_stack_main, polarity>>,
           NEW g, g = expStoreExplanation(left, right, MergeReason),
           Forest' = expRemoveExplanation(g)
    PROVE  ForestInv(H)' /\ TypedForest(expParent', expReason', exp_undo_stack')
  <1> DEFINE r == MergeReason
  <1>1. left \in Terms /\ right \in Terms
    BY DEF TurnOf
  <1>2. PICK a, b : {a, b} = {left, right} /\ Stored(g, a, b, r)
    BY <1>1, StoreHangs
  <1>3. a \in Terms /\ b \in Terms /\ root[a] # root[b]
    BY <1>1, <1>2
  <1>4. IsForest(Forest) /\ Spans(Forest, root) /\ ForestInv(H)
    BY ForestNow
  <1>5. Hung(g, Forest, a, b, r) /\ g.undo = exp_undo_stack \o <<a, b>>
    BY <1>2 DEF Stored
  <1>6. g.parent[b] = a
    BY <1>3, <1>4, <1>5, HungEdges
  <1>7. TypeInv /\ exp_undo_stack \in Seq(Terms) /\ expParent \in [Terms -> Terms \cup {ERef_Undef}]
    BY DEF EInv, TypeInv
  <1>8. PICK h : h = expRemoveExplanation(g)
    OBVIOUS
  <1>9. Cut(h, g, b) /\ h.undo = exp_undo_stack /\ Forest' = h
    <2>1. PICK s : s = exp_undo_stack
      OBVIOUS
    <2>2. s \in Seq(Terms) /\ g.undo = s \o <<a, b>>
      BY <1>5, <1>7, <2>1
    <2>3. /\ g.parent[b] = a => Cut(h, g, b)
          /\ h.undo = s
      BY ONLY <1>3, <1>8, <2>2, RemoveCuts
    <2> QED
      BY <1>6, <1>8, <2>1, <2>3
  <1>10. IsForest(h) /\ Spans(h, root)
    BY <1>3, <1>4, <1>5, <1>9, CutAgain
  <1>11. exp_undo_stack' = exp_undo_stack /\ expParent' = h.parent /\ expReason' = h.reason
    BY <1>9 DEF Forest
  <1>12. PICK n \in Nat : \E at \in [1..n -> TermMerges] : Places(at, n) /\ PairsInv(H, at, n)
    BY <1>4 DEF ForestInv
  <1>13. PICK at \in [1..n -> TermMerges] : Places(at, n) /\ PairsInv(H, at, n)
    BY <1>12
  <1>14. TermMerges' = TermMerges
    BY DEF TermMerges, IsMerge
  <1>15. Places(at, n)'
    BY <1>11, <1>13, <1>14 DEF Places
  <1>16. \A j \in 1..n : Made1(j) \in Terms /\ Made2(j) \in Terms
    <2>1. Len(exp_undo_stack) = 2 * n
      BY <1>13 DEF Places
    <2> QED
      BY <1>7, <2>1, MadeTerms
  <1>17. PairsInv(H, at, n)'
    <2>1. Cut(Forest', g, b)
      BY <1>9
    <2> QED
      BY <1>3, <1>4, <1>5, <1>7, <1>11, <1>13, <1>16, <2>1, RefusedPairs
  <1>18. (Acyclic(Forest) /\ Spans(Forest, root))'
    BY <1>9, <1>10 DEF IsForest
  <1>19. ForestInv(H)'
    <2>1. at \in [1..n -> TermMerges']
      BY <1>14
    <2> QED
      BY <1>15, <1>17, <1>18, <2>1 DEF ForestInv
  <1>20. TypedForest(g.parent, g.reason, g.undo)
    BY StoreTyped
  <1>21. TypedForest(expParent', expReason', exp_undo_stack')
    <2>1. h.parent = [g.parent EXCEPT ![b] = ERef_Undef] /\ h.reason = [g.reason EXCEPT ![b] = NoLit]
      BY <1>9 DEF Cut
    <2>2. g.parent \in [Terms -> Terms \cup {ERef_Undef}] /\ g.reason \in [Terms -> Lits \cup {NoLit}]
      BY <1>20 DEF TypedForest
    <2>3. h.parent \in [Terms -> Terms \cup {ERef_Undef}] /\ h.reason \in [Terms -> Lits \cup {NoLit}]
      BY <2>1, <2>2
    <2> QED
      BY <1>7, <1>11, <2>3 DEF TypedForest
  <1> QED
    BY <1>19, <1>21

\* A merge that is refused leaves the past alone.
LEMMA MergeRefusedKeeps ==
    ASSUME EInv, DistInv, MergeRefused
    PROVE  EInv'
  <1>1. PICK H : Past(H)
    BY DEF EInv
  <1>2. Turn /\ root[left] # root[right] /\ ~ isList(left)
    BY RefusedTerms DEF MergeRefused
  <1>3. TurnOf(H)
    BY <1>1, <1>2, TurnFacts
  <1>4. /\ root' = root /\ parents' = parents /\ index' = index /\ sig_tab' = sig_tab
        /\ undo_stack_main' = undo_stack_main /\ polarity' = polarity
        /\ pending' = <<>> /\ todo' = <<>> /\ congruence_pending' = FALSE /\ pc' = "conflict"
    BY DEF MergeRefused, classVars
  <1>5. PICK g : g = expStoreExplanation(left, right, MergeReason)
    OBVIOUS
  <1>6. SetForest(expRemoveExplanation(g))
    BY <1>5 DEF MergeRefused
  <1>7. Forest' = expRemoveExplanation(g)
    <2>1. PICK h : h = expRemoveExplanation(g)
      OBVIOUS
    <2>2. h = [parent |-> h.parent, reason |-> h.reason, undo |-> h.undo]
      BY <2>1 DEF expRemoveExplanation
    <2>3. Forest' = [parent |-> h.parent, reason |-> h.reason, undo |-> h.undo]
      BY <1>6, <2>1 DEF SetForest, Forest
    <2> QED
      BY <2>1, <2>2, <2>3
  <1>8. ForestInv(H)' /\ TypedForest(expParent', expReason', exp_undo_stack')
    BY <1>1, <1>2, <1>3, <1>4, <1>5, <1>7, RefusedForest
  <1>9. History(H)' /\ PastInv(H)' /\ TableInv(H)'
    <2>1. History(H) /\ PastInv(H) /\ TableInv(H)
      BY <1>1 DEF Past
    <2>2. History(H)'
      BY <1>4, <2>1 DEF History, MergedAt, IsMerge
    <2>3. PastInv(H)'
      BY <1>4, <2>1 DEF PastInv
    <2>4. TableInv(H)'
      BY <1>4, <2>1 DEF TableInv, IsMerge, HeldBy
    <2> QED
      BY <2>2, <2>3, <2>4
  <1>10. \E F : Past(F)'
    <2>1. Past(H)'
      BY <1>8, <1>9 DEF Past
    <2> QED
      BY <2>1
  <1>11. PolarityInv'
    BY <1>4 DEF EInv, PolarityInv, SetAt
  <1>12. Kept'
    BY <1>4, <1>10, <1>11 DEF Kept, EInv, TypeInv
  <1>13. TodoItems' /\ PendingInv'
    <2>1. <<>> \in Seq(Todos)
      OBVIOUS
    <2> QED
      BY <1>4, <2>1 DEF TodoItems, PendingInv
  <1>14. TypeInv'
    <2>1. <<>> \in Seq(Todos) /\ <<>> \in Seq(Nodes) /\ FALSE \in BOOLEAN
      OBVIOUS
    <2>2. /\ expParent' \in [Terms -> Terms \cup {ERef_Undef}]
          /\ expReason' \in [Terms -> Lits \cup {NoLit}]
          /\ exp_undo_stack' \in Seq(Terms)
      BY <1>8 DEF TypedForest
    <2> QED
      BY <1>4, <2>1, <2>2 DEF TypeInv, EInv
  <1> QED
    BY <1>4, <1>12, <1>13, <1>14, EInvNext

-----------------------------------------------------------------------------
(* A merge undone: the classes, the use vectors and the table.             *)

\* The last merge, of y's class into x's, is undone.
Unmerging(H, G, L, x, y) ==
  /\ Past(H) /\ L \in Nat \ {0} /\ L = Len(undo_stack_main)
  /\ G = [k \in 0..L - 1 |-> H[k]]
  /\ IsMerge(L) /\ undo_stack_main[L].arg = y
  /\ y \in Nodes /\ x \in Nodes /\ x # y
  /\ H[L - 1][y] = y /\ H[L - 1][x] = x /\ (isList(x) <=> isList(y))
  /\ undo_stack_main[L].class = {n \in Nodes : H[L - 1][n] = y}
  /\ H[L] = root /\ root = JoinedRoots(H[L - 1], x, y)

\* Undoing a merge starts so.
LEMMA UnmergeStart ==
    ASSUME EInv, PointsInv, undoMerge
    PROVE  \E H, G, L, x, y : Unmerging(H, G, L, x, y)
  <1>1. PICK H : Past(H)
    BY DEF EInv
  <1>2. PICK L : L = Len(undo_stack_main)
    OBVIOUS
  <1>3. Undoing("MERGE")
    BY DEF undoMerge
  <1>4. Top > 0 /\ Top \in Nat
    BY <1>3, ToUndo
  <1>5. L \in Nat \ {0} /\ L \in 1..L
    BY <1>2, <1>4 DEF Top
  <1>6. IsMerge(L)
    BY <1>2, <1>3 DEF Undoing, Last, IsMerge
  <1>7. MergedAt(H, L) /\ H[L] = root
    BY <1>1, <1>2, <1>5, <1>6 DEF Past, History
  <1>8. PICK y : y = undo_stack_main[L].arg
    OBVIOUS
  <1>9. y \in Nodes
    <2>1. undo_stack_main \in Seq(Undos)
      BY DEF EInv, TypeInv
    <2>2. undo_stack_main[L] \in Undos
      BY <1>2, <1>5, <2>1, SeqFacts
    <2> QED
      BY <1>8, <2>2 DEF Undos
  <1>10. PICK x \in Nodes : /\ x # y /\ H[L - 1][x] = x /\ root = JoinedRoots(H[L - 1], x, y)
                            /\ (isList(x) <=> isList(y))
    BY <1>7, <1>8 DEF MergedAt
  <1>11. PICK G : G = [k \in 0..L - 1 |-> H[k]]
    OBVIOUS
  <1>12. Unmerging(H, G, L, x, y)
    BY <1>1, <1>2, <1>5, <1>6, <1>7, <1>8, <1>9, <1>10, <1>11 DEF Unmerging, MergedAt
  <1> QED
    BY <1>12

\* The parents of y before its class is taken out.
LEMMA UnmergeParents ==
    ASSUME EInv, NEW H, NEW G, NEW L, NEW x, NEW y, Unmerging(H, G, L, x, y),
           NEW g, g = processParentsBeforeUnMerge(Closure, y)
    PROVE  /\ IsClosure(g) /\ g.root = root
           /\ \A d \in Nodes \ {y} : root[d] # d => g.parents[d] = parents[d]
           /\ \A s \in DOMAIN g.sig_tab :
                /\ s \in DOMAIN sig_tab /\ g.sig_tab[s] = sig_tab[s]
                /\ \A j \in DOMAIN parents[y].data : parents[y].data[j].tag = "Valid" =>
                                                   s # Sig(root, parents[y].data[j].e)
  <1> DEFINE c == Closure
  <1>1. c = [root |-> root, parents |-> parents, index |-> index, sig_tab |-> sig_tab, pending |-> <<>>]
    BY DEF Closure
  <1>2. /\ c.root = root /\ c.parents = parents /\ c.index = index /\ c.sig_tab = sig_tab
        /\ c.pending = <<>>
    BY <1>1
  <1>3. Roots(root)
    BY RootsNow DEF Unmerging
  <1>4. /\ parents \in [Nodes -> UseVectors] /\ index \in [Sides -> [Nodes -> Nat]]
        /\ sig_tab \in [DOMAIN sig_tab -> Nodes]
    BY DEF EInv, TypeInv
  <1> HIDE DEF c
  <1>5. IsClosure(c)
    <2>1. <<>> \in Seq(Nodes)
      OBVIOUS
    <2> QED
      BY <1>1, <1>2, <1>3, <1>4, <2>1 DEF IsClosure
  <1>6. y \in Nodes /\ root[y] # y
    BY DEF Unmerging, JoinedRoots
  <1>7. BeforePart(g, c, y, Len(c.parents[y].data))
    BY <1>2, <1>5, <1>6, BeforeUnMerge DEF c
  <1>8. DOMAIN parents[y].data = 1..Len(parents[y].data)
    <2>1. parents[y].data \in Seq(Entries)
      BY <1>4, <1>6, UseVectorFacts
    <2> QED
      BY <2>1, SeqFacts
  <1> QED
    BY <1>2, <1>7, <1>8 DEF BeforePart

\* What undoMerge does.
LEMMA UnmergeDoes ==
    ASSUME NEW H, NEW G, NEW L, NEW x, NEW y, Unmerging(H, G, L, x, y), undoMerge, EInv
    PROVE  LET g == processParentsBeforeUnMerge(Closure, y) IN
           /\ root' = H[L - 1]
           /\ parents' = g.parents /\ index' = g.index /\ sig_tab' = g.sig_tab
           /\ undo_stack_main' = Front(undo_stack_main) /\ polarity' = polarity
           /\ todo' = todo /\ pending' = pending /\ congruence_pending' = congruence_pending
           /\ pc = "undo" /\ pc' = pc
           /\ IF isList(y) THEN UNCHANGED expVars ELSE SetForest(expRemoveExplanation(Forest))
  <1> DEFINE g == processParentsBeforeUnMerge(Closure, y)
             class == {n \in Nodes : H[L - 1][n] = y}
             r == [n \in Nodes |-> IF n \in class THEN y ELSE g.root[n]]
  <1>1. Last(undo_stack_main) = undo_stack_main[L] /\ undo_stack_main[L].arg = y
        /\ undo_stack_main[L].class = class
    BY DEF Unmerging, Last
  <1>2. Undone = y /\ Last(undo_stack_main).class = class
    BY <1>1 DEF Undone
  <1>3. PICK c, o : c = class /\ o = root
    OBVIOUS
  <1>4. /\ SetClosure([g EXCEPT !.root = [n \in Nodes |-> IF n \in c THEN y ELSE root[n]]])
        /\ IF isList(y) THEN UNCHANGED expVars ELSE SetForest(expRemoveExplanation(Forest))
        /\ polarity' = polarity /\ Undoing("MERGE")
    BY <1>2, <1>3 DEF undoMerge
  <1>5. H[L - 1] \in [Nodes -> Nodes]
    BY DEF Unmerging, Past, History
  <1>6. [n \in Nodes |-> IF n \in c THEN y ELSE root[n]] = H[L - 1]
    <2>1. root = [n \in Nodes |-> IF H[L - 1][n] = y THEN x ELSE H[L - 1][n]]
      BY DEF Unmerging, JoinedRoots
    <2> QED
      BY <1>3, <1>5, <2>1
  <1>7. SetClosure([g EXCEPT !.root = H[L - 1]])
    BY <1>4, <1>6
  <1>8. IsClosure(g) /\ g.root = root
    BY UnmergeParents
  <1>9. root' = H[L - 1] /\ parents' = g.parents /\ index' = g.index /\ sig_tab' = g.sig_tab
    <2>1. PICK h, q : h = g /\ q = H[L - 1]
      OBVIOUS
    <2>2. h = [root |-> h.root, parents |-> h.parents, index |-> h.index,
               sig_tab |-> h.sig_tab, pending |-> h.pending]
      BY <1>8, <2>1 DEF IsClosure
    <2>3. SetClosure([h EXCEPT !.root = q])
      BY <1>7, <2>1
    <2>4. PICK k : k = [h EXCEPT !.root = q]
      OBVIOUS
    <2>5. k = [root |-> q, parents |-> h.parents, index |-> h.index,
               sig_tab |-> h.sig_tab, pending |-> h.pending]
      BY ONLY <2>2, <2>4
    <2>6. root' = k.root /\ parents' = k.parents /\ index' = k.index /\ sig_tab' = k.sig_tab
      BY <2>3, <2>4 DEF SetClosure
    <2> QED
      BY <2>1, <2>5, <2>6
  <1>10. /\ undo_stack_main' = Front(undo_stack_main)
         /\ todo' = todo /\ pending' = pending /\ congruence_pending' = congruence_pending
         /\ pc = "undo" /\ pc' = pc
    BY <1>4 DEF Undoing
  <1> QED
    BY <1>4, <1>9, <1>10

\* The stack without the entry of the merge.
Unmerged(H, G, L, x, y) == Unmerging(H, G, L, x, y) /\ undo_stack_main' = Front(undo_stack_main)
                           /\ root' = H[L - 1]

\* The entries below it stay.
LEMMA UnmergeStack ==
    ASSUME EInv, NEW H, NEW G, NEW L, NEW x, NEW y, Unmerged(H, G, L, x, y)
    PROVE  /\ undo_stack_main' \in Seq(Undos) /\ Len(undo_stack_main') = L - 1
           /\ DOMAIN undo_stack_main = 1..L /\ DOMAIN undo_stack_main' = 1..L - 1
           /\ \A k \in 1..L - 1 : /\ undo_stack_main'[k] = undo_stack_main[k] /\ k \in 1..L
                                 /\ k \in 0..L - 1 /\ k - 1 \in 0..L - 1 /\ k # L
           /\ \A k \in 0..L - 1 : k \in 0..L /\ G[k] = H[k]
           /\ \A k \in 1..L : k \in 1..L - 1 \/ k = L
           /\ L - 1 \in 0..L - 1 /\ L \in 0..L /\ L \in 1..L /\ L - 1 \in Nat
  <1>1. L \in Nat \ {0} /\ L = Len(undo_stack_main) /\ G = [k \in 0..L - 1 |-> H[k]]
        /\ undo_stack_main' = Front(undo_stack_main)
    BY DEF Unmerged, Unmerging
  <1>2. undo_stack_main \in Seq(Undos)
    BY DEF EInv, TypeInv
  <1>3. /\ undo_stack_main' \in Seq(Undos) /\ Len(undo_stack_main') = L - 1
        /\ DOMAIN undo_stack_main = 1..L /\ DOMAIN undo_stack_main' = 1..L - 1
        /\ \A k \in 1..L - 1 : undo_stack_main'[k] = undo_stack_main[k]
    BY <1>1, <1>2, StackPopped
  <1>4. /\ \A k \in 1..L - 1 : k \in 1..L /\ k \in 0..L - 1 /\ k - 1 \in 0..L - 1 /\ k # L
        /\ \A k \in 0..L - 1 : k \in 0..L /\ G[k] = H[k]
        /\ \A k \in 1..L : k \in 1..L - 1 \/ k = L
        /\ L - 1 \in 0..L - 1 /\ L \in 0..L /\ L \in 1..L /\ L - 1 \in Nat
    BY <1>1
  <1> QED
    BY <1>3, <1>4

\* The past without the merge is a history.
LEMMA UnmergeHistory ==
    ASSUME EInv, NEW H, NEW G, NEW L, NEW x, NEW y, Unmerged(H, G, L, x, y)
    PROVE  History(G)' /\ PastInv(G)'
  <1>1. /\ Len(undo_stack_main') = L - 1
        /\ \A k \in 1..L - 1 : /\ undo_stack_main'[k] = undo_stack_main[k] /\ k \in 1..L
                              /\ k \in 0..L - 1 /\ k - 1 \in 0..L - 1
        /\ \A k \in 0..L - 1 : k \in 0..L /\ G[k] = H[k]
        /\ L - 1 \in 0..L - 1 /\ 0 \in 0..L - 1
    BY UnmergeStack
  <1>2. L = Len(undo_stack_main) /\ G = [k \in 0..L - 1 |-> H[k]] /\ root' = H[L - 1] /\ Past(H)
    BY DEF Unmerged, Unmerging
  <1>3. /\ H \in [0..L -> [Nodes -> Nodes]] /\ H[0] = [n \in Nodes |-> n]
        /\ \A k \in 1..L : IF IsMerge(k) THEN MergedAt(H, k) ELSE H[k] = H[k - 1]
        /\ \A k \in 0..L : ListsEqual(H[k])
    BY <1>2 DEF Past, History, PastInv
  <1>4. G \in [0..L - 1 -> [Nodes -> Nodes]] /\ G[0] = [n \in Nodes |-> n] /\ G[L - 1] = root'
    BY <1>1, <1>2, <1>3
  <1>5. ASSUME NEW k \in 1..L - 1
        PROVE  IF IsMerge(k)' THEN MergedAt(G, k)' ELSE G[k] = G[k - 1]
    <2>1. G[k] = H[k] /\ G[k - 1] = H[k - 1] /\ undo_stack_main'[k] = undo_stack_main[k]
      BY <1>1
    <2>2. IF IsMerge(k) THEN MergedAt(H, k) ELSE H[k] = H[k - 1]
      BY <1>1, <1>3
    <2>3. MergedAt(H, k) => MergedAt(G, k)'
      BY <2>1 DEF MergedAt
    <2>4. IsMerge(k)' = IsMerge(k)
      BY <2>1 DEF IsMerge
    <2>5. CASE IsMerge(k)
      BY <2>2, <2>3, <2>4, <2>5
    <2>6. CASE ~ IsMerge(k)
      <3>1. G[k] = G[k - 1]
        BY <2>1, <2>2, <2>6
      <3> QED
        BY <2>4, <2>6, <3>1
    <2> QED
      BY <2>5, <2>6
  <1>6. History(G)'
    BY <1>1, <1>4, <1>5 DEF History
  <1>7. PastInv(G)'
    BY <1>1, <1>3 DEF PastInv
  <1> QED
    BY <1>6, <1>7

\* Without the signatures that the undo removes the table fits it.
LEMMA UnmergeTable ==
    ASSUME EInv, NEW H, NEW G, NEW L, NEW x, NEW y, Unmerged(H, G, L, x, y),
           NEW g, g = processParentsBeforeUnMerge(Closure, y),
           parents' = g.parents, sig_tab' = g.sig_tab
    PROVE  TableInv(G)'
  <1>1. /\ Len(undo_stack_main') = L - 1
        /\ \A k \in 1..L - 1 : undo_stack_main'[k] = undo_stack_main[k] /\ k \in 1..L /\ k \in 0..L - 1
        /\ \A k \in 0..L - 1 : k \in 0..L /\ G[k] = H[k]
        /\ \A k \in 1..L : k \in 1..L - 1 \/ k = L
        /\ L - 1 \in 0..L - 1 /\ L \in Nat \ {0}
    <2>1. /\ Len(undo_stack_main') = L - 1
          /\ \A k \in 1..L - 1 : undo_stack_main'[k] = undo_stack_main[k] /\ k \in 1..L /\ k \in 0..L - 1
          /\ \A k \in 0..L - 1 : k \in 0..L /\ G[k] = H[k]
          /\ \A k \in 1..L : k \in 1..L - 1 \/ k = L
          /\ L - 1 \in 0..L - 1
      BY UnmergeStack
    <2>2. L \in Nat \ {0}
      BY DEF Unmerged, Unmerging
    <2> QED
      BY <2>1, <2>2
  <1>2. Unmerging(H, G, L, x, y)
    BY DEF Unmerged
  <1>3. /\ \A d \in Nodes \ {y} : root[d] # d => parents'[d] = parents[d]
        /\ \A s \in DOMAIN sig_tab' :
             /\ s \in DOMAIN sig_tab /\ sig_tab'[s] = sig_tab[s]
             /\ \A j \in DOMAIN parents[y].data : parents[y].data[j].tag = "Valid" =>
                                                s # Sig(root, parents[y].data[j].e)
    BY <1>2, UnmergeParents
  <1>4. Past(H) /\ L = Len(undo_stack_main) /\ H[L] = root /\ H[L - 1][y] = y /\ undo_stack_main[L].arg = y
    BY <1>2 DEF Unmerging
  <1>5. \A k \in 0..L : Roots(H[k]) /\ \A i \in 0..k : Coarser(H[k], H[i])
    <2>1. undo_stack_main \in Seq(Undos) /\ History(H)
      BY <1>4 DEF EInv, TypeInv, Past
    <2> QED
      BY <1>4, <2>1, HistoryFacts
  <1> SUFFICES ASSUME NEW s \in DOMAIN sig_tab', NEW k \in 0..L - 1, Live(G[k], s)
               PROVE  \/ Sig(G[k], sig_tab'[s]) = s
                      \/ \E j \in k + 1..L - 1 : IsMerge(j)' /\ HeldBy(undo_stack_main[j].arg, G[j], s)'
    BY <1>1 DEF TableInv
  <1>6. Live(H[k], s) /\ G[k] = H[k] /\ k \in 0..L /\ s \in DOMAIN sig_tab /\ sig_tab'[s] = sig_tab[s]
    BY <1>1, <1>3
  <1>7. \/ Sig(H[k], sig_tab[s]) = s
        \/ \E j \in k + 1..L : IsMerge(j) /\ HeldBy(undo_stack_main[j].arg, H[j], s)
    <2>1. TableInv(H)
      BY <1>4 DEF Past
    <2> QED
      BY <1>4, <1>6, <2>1 DEF TableInv
  <1>8. CASE \E j \in k + 1..L : IsMerge(j) /\ HeldBy(undo_stack_main[j].arg, H[j], s)
    <2>1. PICK j \in k + 1..L : IsMerge(j) /\ HeldBy(undo_stack_main[j].arg, H[j], s)
      BY <1>8
    <2>2. j # L
      <3>1. SUFFICES ASSUME j = L
                     PROVE  FALSE
        OBVIOUS
      <3>2. HeldBy(y, root, s)
        BY <1>4, <2>1, <3>1
      <3>3. PICK i \in DOMAIN parents[y].data : /\ parents[y].data[i] = [tag |-> "Valid", e |-> sig_tab[s]]
                                                /\ Sig(root, sig_tab[s]) = s
        BY <3>2 DEF HeldBy
      <3>4. parents[y].data[i].tag = "Valid" /\ parents[y].data[i].e = sig_tab[s]
        BY <3>3
      <3> QED
        BY <1>3, <3>3, <3>4
    <2>3. j \in 1..L - 1 /\ j \in 0..L /\ j \in k + 1..L - 1 /\ j \in 0..L - 1 /\ j \in 1..L
      BY <1>1, <2>2
    <2>4. undo_stack_main'[j] = undo_stack_main[j] /\ G[j] = H[j]
      BY <1>1, <2>3
    <2>5. PICK d : d = undo_stack_main[j].arg
      OBVIOUS
    <2>6. MergedAt(H, j)
      BY <1>4, <2>1, <2>3 DEF Past, History
    <2>7. d \in Nodes
      <3>1. undo_stack_main \in Seq(Undos)
        BY DEF EInv, TypeInv
      <3>2. undo_stack_main[j] \in Undos
        BY <1>4, <2>3, <3>1, SeqFacts
      <3> QED
        BY <2>5, <3>2 DEF Undos
    <2>8. H[j][d] # d
      <3>1. PICK z \in Nodes : z # d /\ H[j] = JoinedRoots(H[j - 1], z, d) /\ H[j - 1][d] = d
        BY <2>5, <2>6 DEF MergedAt
      <3>2. H[j][d] = z
        BY <2>7, <3>1 DEF JoinedRoots
      <3> QED
        BY <3>1, <3>2
    <2>9. H[L - 1][d] # d /\ root[d] # d
      <3>1. L - 1 \in 0..L /\ j \in 0..L - 1 /\ L \in 0..L
        BY <1>1, <2>3
      <3>2. Coarser(H[L - 1], H[j]) /\ Coarser(H[L], H[j])
        BY <1>5, <2>3, <3>1
      <3> QED
        BY <1>4, <2>7, <2>8, <3>2 DEF Coarser
    <2>10. d # y
      BY <1>4, <2>9
    <2>11. parents'[d] = parents[d]
      BY <1>3, <2>7, <2>9, <2>10
    <2>12. HeldBy(d, H[j], s)
      BY <2>1, <2>5
    <2>13. undo_stack_main'[j].arg = d
      BY <2>4, <2>5
    <2>14. HeldBy(undo_stack_main[j].arg, G[j], s)'
      BY <1>6, <2>4, <2>11, <2>12, <2>13 DEF HeldBy
    <2>15. IsMerge(j)'
      BY <2>1, <2>4 DEF IsMerge
    <2> QED
      BY <2>3, <2>14, <2>15
  <1> QED
    BY <1>6, <1>7, <1>8

-----------------------------------------------------------------------------
(* A merge undone: the forest.                                             *)

\* The last pair of exp_undo_stack, behind s.
Behind(s, n, a, b) ==
  /\ s \in Seq(Terms) /\ exp_undo_stack = s \o <<a, b>> /\ Len(s) = 2 * (n - 1)
  /\ \A j \in 1..n - 1 : s[2 * j - 1] = Made1(j) /\ s[2 * j] = Made2(j)

\* There is such an s.
LEMMA LastPair ==
    ASSUME exp_undo_stack \in Seq(Terms), NEW n \in Nat \ {0}, Len(exp_undo_stack) = 2 * n,
           NEW a, a = Made1(n), NEW b, b = Made2(n)
    PROVE  \E s : Behind(s, n, a, b)
  <1> DEFINE m == 2 * n - 2
             s == SubSeq(exp_undo_stack, 1, m)
  <1>1. m \in 0..Len(exp_undo_stack) /\ m \in Nat /\ 2 * n = m + 2 /\ m = 2 * (n - 1)
    OBVIOUS
  <1>2. /\ s \in Seq(Terms) /\ Len(s) = m
        /\ \A i \in 1..m : s[i] = exp_undo_stack[i]
    BY <1>1, PrefixFacts
  <1>3. a \in Terms /\ b \in Terms /\ a = exp_undo_stack[m + 1] /\ b = exp_undo_stack[m + 2]
    <2>1. a = exp_undo_stack[2 * n - 1] /\ b = exp_undo_stack[2 * n]
      BY DEF Made1, Made2
    <2>2. 2 * n - 1 \in 1..Len(exp_undo_stack) /\ 2 * n \in 1..Len(exp_undo_stack)
      OBVIOUS
    <2>3. 2 * n - 1 = m + 1 /\ 2 * n = m + 2
      OBVIOUS
    <2> HIDE DEF m
    <2>4. exp_undo_stack[2 * n - 1] \in Terms /\ exp_undo_stack[2 * n] \in Terms
      BY <2>2, SeqFacts
    <2> QED
      BY <2>1, <2>3, <2>4
  <1>4. \A j \in 1..n - 1 : 2 * j - 1 \in 1..m /\ 2 * j \in 1..m
    OBVIOUS
  <1>5. \A j \in 1..n - 1 : s[2 * j - 1] = Made1(j) /\ s[2 * j] = Made2(j)
    <2> HIDE DEF m, s
    <2> QED
      BY <1>2, <1>4 DEF Made1, Made2
  <1>6. Len(exp_undo_stack) = m + 2
    BY <1>1
  <1> HIDE DEF m, s
  <1>7. <<a, b>> \in Seq(Terms) /\ Len(<<a, b>>) = 2 /\ <<a, b>>[1] = a /\ <<a, b>>[2] = b
    BY <1>3
  <1>8. /\ s \o <<a, b>> \in Seq(Terms) /\ Len(s \o <<a, b>>) = m + 2
        /\ \A i \in 1..m + 2 : (s \o <<a, b>>)[i] = IF i <= m THEN s[i] ELSE <<a, b>>[i - m]
    BY <1>2, <1>7, ConcatProperties
  <1>9. ASSUME NEW i \in 1..m + 2
        PROVE  (s \o <<a, b>>)[i] = exp_undo_stack[i]
    <2>1. CASE i <= m
      BY <1>1, <1>2, <1>8, <2>1
    <2>2. CASE i = m + 1
      <3>1. ~ i <= m /\ i - m = 1
        BY <1>1, <2>2
      <3> QED
        BY <1>3, <1>7, <1>8, <2>2, <3>1
    <2>3. CASE i = m + 2
      <3>1. ~ i <= m /\ i - m = 2
        BY <1>1, <2>3
      <3> QED
        BY <1>3, <1>7, <1>8, <2>3, <3>1
    <2>4. m \in Nat
      BY <1>1
    <2>5. i <= m \/ i = m + 1 \/ i = m + 2
      BY ONLY <2>4, i \in 1..m + 2
    <2> QED
      BY <2>1, <2>2, <2>3, <2>5
  <1>10. exp_undo_stack = s \o <<a, b>>
    BY <1>6, <1>8, <1>9, SeqEqual
  <1>11. Behind(s, n, a, b)
    BY <1>1, <1>2, <1>5, <1>10 DEF Behind
  <1> QED
    BY <1>11

\* The last merge of terms is the last entry, and the last pair is its.
LEMMA LastPlace ==
    ASSUME NEW L \in Nat \ {0}, TermMerges \in SUBSET (1..L), L \in TermMerges,
           NEW n \in Nat, NEW at, Places(at, n)
    PROVE  /\ n \in Nat \ {0} /\ at[n] = L
           /\ \A j \in 1..n - 1 : /\ j \in 1..n /\ at[j] \in TermMerges \ {L}
                                  /\ at[j] \in 1..L - 1 /\ at[j] - 1 \in 0..L - 1
  <1>1. PICK i \in 1..n : at[i] = L
    BY DEF Places
  <1>2. n \in Nat \ {0} /\ n \in 1..n
    BY <1>1
  <1>3. \A j \in 1..n : at[j] \in TermMerges /\ at[j] \in 1..L
    BY DEF Places
  <1>4. \A j \in 1..n - 1 : j \in 1..n /\ j < n
    BY <1>2
  <1>5. at[n] = L
    <2>1. ASSUME i # n
          PROVE  FALSE
      <3>1. i < n
        BY <1>1, <1>2, <2>1
      <3>2. at[i] < at[n] /\ at[n] \in 1..L
        BY <1>1, <1>2, <1>3, <3>1 DEF Places
      <3> QED
        BY <1>1, <3>2
    <2> QED
      BY <1>1, <2>1
  <1>6. \A j \in 1..n - 1 : at[j] < L
    BY <1>2, <1>4, <1>5 DEF Places
  <1> QED
    BY <1>2, <1>3, <1>4, <1>5, <1>6

\* The edge of v, between the nodes of the last pair, is cut.
Pruning(H, G, L, n, at, a, b, v) ==
  /\ n \in Nat \ {0} /\ L \in Nat \ {0}
  /\ a \in Terms /\ b \in Terms /\ v \in Terms
  /\ {v, expParent[v]} = {a, b} /\ expParent[v] # ERef_Undef
  /\ H[L - 1][a] # H[L - 1][b]
  /\ \A j \in 1..n - 1 :
       /\ at[j] \in 1..L - 1 /\ at[j] - 1 \in 0..L - 1
       /\ Coarser(H[L - 1], H[at[j]])
       /\ G[at[j]] = H[at[j]] /\ G[at[j] - 1] = H[at[j] - 1]
       /\ Made1(j) \in Terms /\ Made2(j) \in Terms
       /\ Made1(j)' = Made1(j) /\ Made2(j)' = Made2(j)
  /\ Made1(n) = a /\ Made2(n) = b
  /\ PairsInv(H, at, n)

\* The other edges were made by earlier merges.
LEMMA OtherEdges ==
    ASSUME IsForest(Forest), NEW H, NEW G, NEW L, NEW n, NEW at, NEW a, NEW b, NEW v,
           Pruning(H, G, L, n, at, a, b, v), NEW t \in Terms \ {v}, expParent[t] # ERef_Undef
    PROVE  /\ \E j \in 1..n - 1 : /\ {t, expParent[t]} = {Made1(j), Made2(j)}
                                  /\ Reason(H, t, expParent[t], expReason[t], at[j] - 1)
           /\ H[L - 1][t] = H[L - 1][expParent[t]]
  <1>1. PICK j \in 1..n : /\ {t, expParent[t]} = {Made1(j), Made2(j)}
                          /\ Reason(H, t, expParent[t], expReason[t], at[j] - 1)
    BY DEF Pruning, PairsInv
  <1>2. PICK p, o : p = expParent[t] /\ o = expParent[v]
    OBVIOUS
  <1>3. j # n
    <2> SUFFICES ASSUME j = n
                 PROVE  FALSE
      OBVIOUS
    <2>1. {t, p} = {v, o}
      BY <1>1, <1>2 DEF Pruning
    <2>2. t = o /\ p = v
      BY <2>1
    <2>3. Forest.parent = expParent
      BY DEF Forest
    <2>4. v \notin Up(Forest, t)
      BY <1>2, <2>2, <2>3, UpStrict DEF Pruning
    <2>5. v \in Up(Forest, t)
      BY <1>2, <2>2, <2>3, UpFacts
    <2> QED
      BY <2>4, <2>5
  <1>4. j \in 1..n - 1
    BY <1>3 DEF Pruning
  <1>5. H[L - 1][t] = H[L - 1][p]
    <2>1. PICK c, d : c = Made1(j) /\ d = Made2(j)
      OBVIOUS
    <2>2. H[at[j]][c] = H[at[j]][d] /\ c \in Nodes /\ d \in Nodes /\ Coarser(H[L - 1], H[at[j]])
      BY <1>4, <2>1, TermFacts DEF Pruning, PairsInv
    <2>3. H[L - 1][c] = H[L - 1][d]
      BY <2>2 DEF Coarser
    <2> QED
      BY <1>1, <1>2, <2>1, <2>3
  <1> QED
    BY <1>1, <1>2, <1>4, <1>5

\* Without the edge the forest spans the classes as they were before the merge.
LEMMA PrunedSpans ==
    ASSUME IsForest(Forest), Spans(Forest, root), NEW H, NEW G, NEW L, NEW n, NEW at, NEW a, NEW b, NEW v,
           Pruning(H, G, L, n, at, a, b, v), NEW g, Cut(g, Forest, v), Coarser(root, H[L - 1])
    PROVE  IsForest(g) /\ Spans(g, H[L - 1])
  <1>1. Forest.parent = expParent
    BY DEF Forest
  <1>2. PICK q : q = H[L - 1]
    OBVIOUS
  <1>3. Within(Forest, q, Terms \ {v})
    BY <1>1, <1>2, OtherEdges DEF Within
  <1>4. v \in Terms /\ Forest.parent[v] # ERef_Undef /\ q[v] # q[Forest.parent[v]]
    <2>1. (v = a /\ expParent[v] = b) \/ (v = b /\ expParent[v] = a)
      BY DEF Pruning
    <2> QED
      BY <1>1, <1>2, <2>1 DEF Pruning
  <1>5. \A s, t \in Terms : q[s] = q[t] => root[s] = root[t]
    BY <1>2, TermFacts DEF Coarser
  <1>6. g.parent = [Forest.parent EXCEPT ![v] = ERef_Undef]
    BY DEF Cut
  <1> QED
    BY <1>2, <1>3, <1>4, <1>5, <1>6, CutSpans

\* The remaining edges keep their pairs and their reasons.
LEMMA PrunedPairs ==
    ASSUME IsForest(Forest), NEW H, NEW G, NEW L, NEW n, NEW at, NEW a, NEW b, NEW v,
           Pruning(H, G, L, n, at, a, b, v), Cut(Forest', Forest, v), StillSet(L - 1),
           expParent \in [Terms -> Terms \cup {ERef_Undef}], expReason \in [Terms -> Lits \cup {NoLit}],
           NEW B, \A j \in 1..n - 1 : B[j] = at[j]
    PROVE  PairsInv(G, B, n - 1)'
  <1>1. /\ \A t \in Terms \ {v} : expParent'[t] = expParent[t] /\ expReason'[t] = expReason[t]
        /\ expParent'[v] = ERef_Undef
    <2>1. expParent' = [expParent EXCEPT ![v] = ERef_Undef] /\ expReason' = [expReason EXCEPT ![v] = NoLit]
      BY DEF Cut, Forest
    <2>2. v \in Terms
      BY DEF Pruning
    <2> QED
      BY <2>1, <2>2
  <1>2. /\ {v, expParent[v]} = {a, b} /\ H[L - 1][a] # H[L - 1][b]
        /\ \A j \in 1..n - 1 :
             /\ at[j] - 1 \in 0..L - 1 /\ Coarser(H[L - 1], H[at[j]]) /\ j \in 1..n
             /\ G[at[j]] = H[at[j]] /\ G[at[j] - 1] = H[at[j] - 1]
             /\ Made1(j) \in Terms /\ Made2(j) \in Terms
             /\ Made1(j)' = Made1(j) /\ Made2(j)' = Made2(j)
    BY DEF Pruning
  <1>3. PairsInv(H, at, n)
    BY DEF Pruning
  <1>4. ASSUME NEW j \in 1..n - 1
        PROVE  /\ G[B[j] - 1][Made1(j)'] # G[B[j] - 1][Made2(j)']
               /\ G[B[j]][Made1(j)'] = G[B[j]][Made2(j)']
               /\ expParent'[Made1(j)'] = Made2(j)' \/ expParent'[Made2(j)'] = Made1(j)'
    <2>1. PICK c, d : c = Made1(j) /\ d = Made2(j)
      OBVIOUS
    <2>2. /\ c \in Terms /\ d \in Terms /\ c \in Nodes /\ d \in Nodes
          /\ Made1(j)' = c /\ Made2(j)' = d /\ Coarser(H[L - 1], H[at[j]])
          /\ G[B[j]] = H[at[j]] /\ G[B[j] - 1] = H[at[j] - 1]
      BY <1>2, <2>1, TermFacts
    <2>3. /\ H[at[j] - 1][c] # H[at[j] - 1][d] /\ H[at[j]][c] = H[at[j]][d]
          /\ expParent[c] = d \/ expParent[d] = c
      BY <1>2, <1>3, <2>1 DEF PairsInv
    <2>4. H[L - 1][c] = H[L - 1][d]
      BY <2>2, <2>3 DEF Coarser
    <2>5. {c, d} # {v, expParent[v]}
      BY <1>2, <2>4
    <2>6. expParent'[c] = d \/ expParent'[d] = c
      <3>1. CASE expParent[c] = d
        <4>1. c # v
          BY <2>5, <3>1
        <4> QED
          BY <1>1, <2>2, <3>1, <4>1
      <3>2. CASE expParent[d] = c
        <4>1. d # v
          BY <2>5, <3>2
        <4> QED
          BY <1>1, <2>2, <3>2, <4>1
      <3> QED
        BY <2>3, <3>1, <3>2
    <2> QED
      BY <2>2, <2>3, <2>6
  <1>5. ASSUME NEW t \in Terms, expParent'[t] # ERef_Undef
        PROVE  \E j \in 1..n - 1 : /\ {t, expParent'[t]} = {Made1(j)', Made2(j)'}
                                   /\ Reason(G, t, expParent[t], expReason[t], B[j] - 1)'
    <2>1. PICK p, q : p = expParent[t] /\ q = expReason[t]
      OBVIOUS
    <2>2. t \in Terms \ {v} /\ expParent'[t] = p /\ expReason'[t] = q /\ p # ERef_Undef
      BY <1>1, <1>5, <2>1
    <2>3. PICK j \in 1..n - 1 : {t, p} = {Made1(j), Made2(j)} /\ Reason(H, t, p, q, at[j] - 1)
      BY <2>1, <2>2, OtherEdges
    <2>4. PICK k : k = at[j] - 1
      OBVIOUS
    <2>5. k \in 0..L - 1 /\ G[k] = H[k] /\ B[j] - 1 = k /\ Reason(H, t, p, q, k)
      BY <1>2, <2>3, <2>4
    <2>6. Reason(G, t, p, q, k)'
      BY <2>5, ReasonKept
    <2>7. Reason(G, t, expParent[t], expReason[t], B[j] - 1)'
      BY <2>2, <2>5, <2>6
    <2>8. {t, expParent'[t]} = {Made1(j)', Made2(j)'}
      BY <1>2, <2>2, <2>3
    <2> QED
      BY <2>7, <2>8
  <1> QED
    BY <1>4, <1>5 DEF PairsInv

\* The merges of terms without the last entry.
LEMMA UnmergedMerges ==
    ASSUME EInv, NEW H, NEW G, NEW L, NEW x, NEW y, Unmerged(H, G, L, x, y)
    PROVE  /\ TermMerges' = TermMerges \ {L} /\ TermMerges \in SUBSET (1..L)
           /\ L \in TermMerges <=> ~ isList(y)
  <1>1. /\ DOMAIN undo_stack_main = 1..L /\ DOMAIN undo_stack_main' = 1..L - 1
        /\ \A k \in 1..L - 1 : undo_stack_main'[k] = undo_stack_main[k] /\ k \in 1..L /\ k # L
        /\ \A k \in 1..L : k \in 1..L - 1 \/ k = L
        /\ L \in 1..L
    BY UnmergeStack
  <1>2. \A k \in 1..L - 1 : k \in TermMerges' <=> k \in TermMerges
    BY <1>1 DEF TermMerges, IsMerge
  <1>3. TermMerges \in SUBSET (1..L) /\ TermMerges' \in SUBSET (1..L - 1)
    BY <1>1 DEF TermMerges
  <1>4. L \in TermMerges <=> ~ isList(y)
    BY <1>1 DEF Unmerged, Unmerging, TermMerges
  <1> QED
    BY <1>1, <1>2, <1>3, <1>4

\* The values below the merge stay set.
LEMMA UnmergeStillSet ==
    ASSUME EInv, NEW H, NEW G, NEW L, NEW x, NEW y, Unmerged(H, G, L, x, y), polarity' = polarity
    PROVE  PolarityInv' /\ StillSet(L - 1)
  <1>1. L \in Nat \ {0} /\ L = Top /\ undo_stack_main[L].op = "MERGE"
        /\ undo_stack_main' = Front(undo_stack_main)
    BY DEF Unmerged, Unmerging, Top, IsMerge
  <1>2. Last(undo_stack_main) = undo_stack_main[L] /\ Top > 0
    BY <1>1 DEF Last, Top
  <1> QED
    BY <1>1, <1>2, PolarityPopped DEF EInv

\* What the classes before the merge were.
LEMMA UnmergeCoarser ==
    ASSUME EInv, NEW H, NEW G, NEW L, NEW x, NEW y, Unmerged(H, G, L, x, y)
    PROVE  /\ Coarser(root, H[L - 1]) /\ Roots(H[L - 1])
           /\ \A k \in 0..L - 1 : Coarser(H[L - 1], H[k])
  <1>1. Past(H) /\ L = Len(undo_stack_main) /\ H[L] = root
    BY DEF Unmerged, Unmerging
  <1>2. L - 1 \in 0..L /\ L \in 0..L /\ L - 1 \in 0..L - 1
    BY UnmergeStack
  <1>3. undo_stack_main \in Seq(Undos) /\ History(H)
    BY <1>1 DEF EInv, TypeInv, Past
  <1>4. \A k \in 0..L : Roots(H[k]) /\ \A i \in 0..k : Coarser(H[k], H[i])
    BY <1>1, <1>3, HistoryFacts
  <1>5. L - 1 \in 0..L
    BY <1>2
  <1>6. Coarser(H[L], H[L - 1])
    BY <1>2, <1>4
  <1>7. Roots(H[L - 1]) /\ \A k \in 0..L - 1 : Coarser(H[L - 1], H[k])
    BY <1>2, <1>4
  <1> QED
    BY <1>1, <1>6, <1>7

\* Lists have no edges.
LEMMA UnmergedForestOfLists ==
    ASSUME EInv, NEW H, NEW G, NEW L, NEW x, NEW y, Unmerged(H, G, L, x, y), polarity' = polarity,
           UNCHANGED expVars, isList(y)
    PROVE  ForestInv(G)'
  <1>1. TermMerges' = TermMerges /\ \A k \in TermMerges : k \in 1..L /\ k # L
    <2>1. TermMerges' = TermMerges \ {L} /\ TermMerges \in SUBSET (1..L)
      BY UnmergedMerges
    <2>2. L \notin TermMerges
      BY UnmergedMerges
    <2> QED
      BY <2>1, <2>2
  <1>2. /\ \A k \in 1..L : k \in 1..L - 1 \/ k = L
        /\ \A k \in 1..L - 1 : k \in 0..L - 1 /\ k - 1 \in 0..L - 1
        /\ \A k \in 0..L - 1 : G[k] = H[k]
    BY UnmergeStack
  <1>3. \A k \in TermMerges : k \in 0..L - 1 /\ k - 1 \in 0..L - 1
    BY <1>1, <1>2
  <1>4. StillSet(L - 1)
    BY UnmergeStillSet
  <1>5. IsForest(Forest) /\ Spans(Forest, root) /\ ForestInv(H)
    BY ForestNow DEF Unmerged, Unmerging
  <1>6. PICK q : q = H[L - 1]
    OBVIOUS
  <1>7. \A t \in Terms : q[t] = root[t]
    <2>1. \A t \in Terms : t \in Nodes /\ ~ isList(t)
      BY TermFacts
    <2>2. Roots(q)
      BY <1>6, UnmergeCoarser
    <2>3. \A t \in Terms : q[t] # y
      BY <2>1, <2>2 DEF Roots
    <2>4. root = [m \in Nodes |-> IF q[m] = y THEN x ELSE q[m]]
      BY <1>6 DEF Unmerged, Unmerging, JoinedRoots
    <2> QED
      BY <2>1, <2>3, <2>4
  <1>8. Spans(Forest, root)'
    <2>1. Forest' = Forest /\ root' = q
      BY <1>6 DEF Forest, expVars, Unmerged
    <2> QED
      BY <1>5, <1>7, <2>1 DEF Spans
  <1>9. \A k \in TermMerges : G[k] = H[k] /\ G[k - 1] = H[k - 1]
    BY <1>2, <1>3
  <1>10. \A l \in Lits : \A k \in TermMerges : SetBelow(k - 1, l) => SetBelow(k - 1, l)'
    BY <1>3, <1>4 DEF StillSet
  <1> QED
    BY <1>1, <1>5, <1>8, <1>9, <1>10, ForestKept

\* The last edge of the forest is cut.
LEMMA UnmergedForestOfTerms ==
    ASSUME EInv, NEW H, NEW G, NEW L, NEW x, NEW y, Unmerged(H, G, L, x, y), polarity' = polarity,
           ~ isList(y), Forest' = expRemoveExplanation(Forest)
    PROVE  ForestInv(G)' /\ TypedForest(expParent', expReason', exp_undo_stack')
  <1>1. IsForest(Forest) /\ Spans(Forest, root) /\ ForestInv(H)
    BY ForestNow DEF Unmerged, Unmerging
  <1>2. PICK n \in Nat : \E at \in [1..n -> TermMerges] : Places(at, n) /\ PairsInv(H, at, n)
    BY <1>1 DEF ForestInv
  <1>3. PICK at \in [1..n -> TermMerges] : Places(at, n) /\ PairsInv(H, at, n)
    BY <1>2
  <1>4. L \in Nat \ {0} /\ L \in TermMerges /\ TermMerges' = TermMerges \ {L} /\ TermMerges \in SUBSET (1..L)
    <2>1. L \in Nat \ {0}
      BY DEF Unmerged, Unmerging
    <2>2. TermMerges' = TermMerges \ {L} /\ TermMerges \in SUBSET (1..L)
      BY UnmergedMerges
    <2>3. L \in TermMerges
      BY UnmergedMerges
    <2> QED
      BY <2>1, <2>2, <2>3
  <1>5. /\ n \in Nat \ {0} /\ at[n] = L
        /\ \A j \in 1..n - 1 : /\ j \in 1..n /\ at[j] \in TermMerges \ {L}
                               /\ at[j] \in 1..L - 1 /\ at[j] - 1 \in 0..L - 1
    BY <1>3, <1>4, LastPlace
  <1>6. PICK a, b : a = Made1(n) /\ b = Made2(n)
    OBVIOUS
  <1>7. /\ exp_undo_stack \in Seq(Terms) /\ expParent \in [Terms -> Terms \cup {ERef_Undef}]
        /\ expReason \in [Terms -> Lits \cup {NoLit}] /\ Len(exp_undo_stack) = 2 * n
    BY <1>3 DEF EInv, TypeInv, Places
  <1>8. PICK s \in Seq(Terms) :
          /\ exp_undo_stack = s \o <<a, b>> /\ Len(s) = 2 * (n - 1)
          /\ \A j \in 1..n - 1 : s[2 * j - 1] = Made1(j) /\ s[2 * j] = Made2(j)
    <2>1. n \in Nat \ {0} /\ exp_undo_stack \in Seq(Terms) /\ Len(exp_undo_stack) = 2 * n
      BY <1>5, <1>7
    <2>2. PICK s : Behind(s, n, a, b)
      BY <1>6, <2>1, LastPair
    <2> QED
      BY <2>2 DEF Behind
  <1>9. \A j \in 1..n : Made1(j) \in Terms /\ Made2(j) \in Terms
    BY <1>2, <1>7, MadeTerms
  <1>10. n \in 1..n /\ n - 1 \in Nat
    BY <1>5
  <1>11. /\ a \in Terms /\ b \in Terms /\ H[L - 1][a] # H[L - 1][b]
         /\ expParent[a] = b \/ expParent[b] = a
    BY <1>3, <1>5, <1>6, <1>9, <1>10 DEF PairsInv
  <1>12. PICK h : h = expRemoveExplanation(Forest)
    OBVIOUS
  <1>13. PICK v : v = IF expParent[b] = a THEN b ELSE a
    OBVIOUS
  <1>14. Cut(h, Forest, v) /\ h.undo = s /\ Forest' = h
    <2>1. Forest.undo = s \o <<a, b>> /\ Forest.parent = expParent
      BY <1>8 DEF Forest
    <2>2. PICK f : f = Forest
      OBVIOUS
    <2>3. f.undo = s \o <<a, b>> /\ h = expRemoveExplanation(f) /\ s \in Seq(Terms)
          /\ a \in Terms /\ b \in Terms
      BY <1>8, <1>11, <1>12, <2>1, <2>2
    <2>4. /\ f.parent[b] = a => Cut(h, f, b)
          /\ f.parent[b] # a => Cut(h, f, a)
          /\ h.undo = s
      BY ONLY <2>3, RemoveCuts
    <2> QED
      BY <1>12, <1>13, <2>1, <2>2, <2>4
  <1>15. v \in Terms /\ {v, expParent[v]} = {a, b} /\ expParent[v] # ERef_Undef
    <2>1. (v = b /\ expParent[v] = a) \/ (v = a /\ expParent[v] = b)
      BY <1>11, <1>13
    <2>2. a # ERef_Undef /\ b # ERef_Undef
      BY <1>11, TermFacts
    <2> QED
      BY <1>11, <2>1, <2>2
  <1>16. exp_undo_stack' = s /\ expParent' = h.parent /\ expReason' = h.reason
    BY <1>14 DEF Forest
  <1>17. \A j \in 1..n - 1 : Made1(j)' = Made1(j) /\ Made2(j)' = Made2(j)
    BY <1>8, <1>16 DEF Made1, Made2
  <1>18. \A k \in 0..L - 1 : G[k] = H[k] /\ Coarser(H[L - 1], H[k])
    <2>1. \A k \in 0..L - 1 : G[k] = H[k]
      BY UnmergeStack
    <2> QED
      BY <2>1, UnmergeCoarser
  <1>19. \A k \in 1..L - 1 : k \in 0..L - 1
    BY <1>4
  <1>20. Pruning(H, G, L, n, at, a, b, v)
    BY <1>3, <1>4, <1>5, <1>6, <1>9, <1>11, <1>15, <1>17, <1>18, <1>19 DEF Pruning
  <1>21. PICK m, B : m = n - 1 /\ B = [j \in 1..n - 1 |-> at[j]]
    OBVIOUS
  <1>22. m \in Nat /\ B \in [1..m -> TermMerges'] /\ \A j \in 1..m : B[j] = at[j] /\ j \in 1..n
    BY <1>4, <1>5, <1>10, <1>21
  <1>23. PairsInv(G, B, m)'
    <2>1. StillSet(L - 1)
      BY UnmergeStillSet
    <2>2. Cut(Forest', Forest, v)
      BY <1>14
    <2>3. \A j \in 1..n - 1 : B[j] = at[j]
      BY <1>21, <1>22
    <2>4. PairsInv(G, B, n - 1)'
      BY <1>1, <1>7, <1>20, <2>1, <2>2, <2>3, PrunedPairs
    <2> QED
      BY <1>21, <2>4
  <1>24. Places(B, m)'
    <2>1. Len(exp_undo_stack') = 2 * m
      BY <1>8, <1>16, <1>21
    <2>2. ASSUME NEW k \in TermMerges'
          PROVE  \E j \in 1..m : B[j] = k
      <3>1. PICK j \in 1..n : at[j] = k
        BY <1>3, <1>4 DEF Places
      <3>2. j # n /\ j \in 1..m
        BY <1>4, <1>5, <1>21, <3>1
      <3> QED
        BY <1>22, <3>1, <3>2
    <2>3. \A i, j \in 1..m : i < j => B[i] < B[j]
      BY <1>3, <1>22 DEF Places
    <2> QED
      BY <1>22, <2>1, <2>2, <2>3 DEF Places
  <1>25. IsForest(h) /\ Spans(h, H[L - 1])
    <2>1. Coarser(root, H[L - 1])
      BY UnmergeCoarser
    <2> QED
      BY <1>1, <1>14, <1>20, <2>1, PrunedSpans
  <1>26. (Acyclic(Forest) /\ Spans(Forest, root))'
    BY <1>14, <1>25 DEF IsForest, Unmerged
  <1>27. ForestInv(G)'
    BY <1>22, <1>23, <1>24, <1>26 DEF ForestInv
  <1>28. TypedForest(expParent', expReason', exp_undo_stack')
    <2>1. h.parent = [expParent EXCEPT ![v] = ERef_Undef] /\ h.reason = [expReason EXCEPT ![v] = NoLit]
      BY <1>14 DEF Cut, Forest
    <2> QED
      BY <1>7, <1>8, <1>16, <2>1 DEF TypedForest
  <1> QED
    BY <1>27, <1>28

\* The last merge is undone.
LEMMA UndoMergeKeeps ==
    ASSUME EInv, PointsInv, undoMerge
    PROVE  EInv'
  <1>1. PICK H, G, L, x, y : Unmerging(H, G, L, x, y)
    BY UnmergeStart
  <1>2. PICK g : g = processParentsBeforeUnMerge(Closure, y)
    OBVIOUS
  <1>3. /\ root' = H[L - 1]
        /\ parents' = g.parents /\ index' = g.index /\ sig_tab' = g.sig_tab
        /\ undo_stack_main' = Front(undo_stack_main) /\ polarity' = polarity
        /\ todo' = todo /\ pending' = pending /\ congruence_pending' = congruence_pending
        /\ pc = "undo" /\ pc' = pc
        /\ IF isList(y) THEN UNCHANGED expVars ELSE SetForest(expRemoveExplanation(Forest))
    BY <1>1, <1>2, UnmergeDoes
  <1>4. Unmerged(H, G, L, x, y)
    BY <1>1, <1>3 DEF Unmerged
  <1>5. IsClosure(g)
    BY <1>1, <1>2, UnmergeParents
  <1>6. PolarityInv' /\ StillSet(L - 1)
    BY <1>3, <1>4, UnmergeStillSet
  <1>7. History(G)' /\ PastInv(G)'
    BY <1>4, UnmergeHistory
  <1>8. TableInv(G)'
    BY <1>2, <1>3, <1>4, UnmergeTable
  <1>9. ASSUME isList(y)
        PROVE  ForestInv(G)' /\ TypedForest(expParent', expReason', exp_undo_stack')
    <2>1. UNCHANGED expVars
      BY <1>3, <1>9
    <2>2. ForestInv(G)'
      BY <1>3, <1>4, <1>9, <2>1, UnmergedForestOfLists
    <2>3. TypedForest(expParent', expReason', exp_undo_stack')
      BY <2>1 DEF EInv, TypeInv, TypedForest, expVars
    <2> QED
      BY <2>2, <2>3
  <1>10. ASSUME ~ isList(y)
        PROVE  ForestInv(G)' /\ TypedForest(expParent', expReason', exp_undo_stack')
    <2>1. Forest' = expRemoveExplanation(Forest)
      <3>1. PICK h : h = expRemoveExplanation(Forest)
        OBVIOUS
      <3>2. h = [parent |-> h.parent, reason |-> h.reason, undo |-> h.undo]
        BY <3>1 DEF expRemoveExplanation
      <3>3. Forest' = [parent |-> h.parent, reason |-> h.reason, undo |-> h.undo]
        BY <1>3, <1>10, <3>1 DEF SetForest, Forest
      <3> QED
        BY <3>1, <3>2, <3>3
    <2> QED
      BY <1>3, <1>4, <1>10, <2>1, UnmergedForestOfTerms
  <1>11. ForestInv(G)' /\ TypedForest(expParent', expReason', exp_undo_stack')
    BY <1>9, <1>10
  <1>12. \E F : Past(F)'
    <2>1. Past(G)'
      BY <1>7, <1>8, <1>11 DEF Past
    <2> QED
      BY <2>1
  <1>13. undo_stack_main' \in Seq(Undos)
    BY <1>4, UnmergeStack
  <1>14. Kept'
    BY <1>6, <1>12, <1>13 DEF Kept
  <1>15. todo = <<>> /\ pending = <<>> /\ ~ congruence_pending
    BY <1>3 DEF EInv, TodoInv, PendingInv
  <1>16. TodoItems' /\ PendingInv'
    BY <1>3, <1>15 DEF TodoItems, PendingInv
  <1>17. TypeInv'
    <2>1. /\ expParent' \in [Terms -> Terms \cup {ERef_Undef}]
          /\ expReason' \in [Terms -> Lits \cup {NoLit}]
          /\ exp_undo_stack' \in Seq(Terms)
      BY <1>11 DEF TypedForest
    <2>2. /\ parents' \in [Nodes -> UseVectors] /\ index' \in [Sides -> [Nodes -> Nat]]
          /\ sig_tab' \in [DOMAIN sig_tab' -> Nodes]
      BY <1>3, <1>5 DEF IsClosure
    <2>3. root' \in [Nodes -> Nodes]
      BY <1>3, <1>4, UnmergeCoarser DEF Roots
    <2> QED
      BY <1>3, <1>13, <2>1, <2>2, <2>3 DEF TypeInv, EInv
  <1> QED
    BY <1>3, <1>14, <1>15, <1>16, <1>17, EInvNext

-----------------------------------------------------------------------------
(* The invariant and what follows from it.                                 *)

\* Nothing happens.
LEMMA StutterKeeps ==
    ASSUME EInv, UNCHANGED vars
    PROVE  EInv'
  <1>1. /\ UNCHANGED <<pastVars, undo_stack_main, polarity>> /\ todo' = todo /\ pending' = pending
        /\ congruence_pending' = congruence_pending /\ pc' = pc
    BY DEF vars, classVars, pastVars, expVars
  <1>2. root' = root /\ PendingInv /\ pending \in Seq(Nodes) /\ congruence_pending \in BOOLEAN
        /\ pc \in {"idle", "assert", "merge", "conflict", "undo"}
        /\ (pc \notin {"assert", "merge"} => todo = <<>>)
    BY DEF vars, classVars, EInv, TypeInv, TodoInv
  <1>3. PendingInv'
    BY <1>1, <1>2 DEF PendingInv, Paired
  <1> QED
    BY <1>1, <1>2, <1>3, StillKeeps

\* Every action keeps the invariant.
LEMMA StepKeeps ==
    ASSUME EInv, PointsInv, DistInv, Next
    PROVE  EInv'
  <1>1. CASE \E l \in Literals : assertLit(l)
    BY <1>1, AssertLitKeeps
  <1>2. CASE assertEq \/ assertDisequality \/ assertDist \/ Asserts
    BY <1>2, AssertEqKeeps, DisequalityKeeps, DistKeeps, AssertsKeeps
  <1>3. CASE MergeSame \/ MergeClasses \/ MergeRefused \/ MergeDone
    BY <1>3, MergeSameKeeps, MergeClassesKeeps, MergeRefusedKeeps, MergeDoneKeeps
  <1>4. CASE popBacktrackPoint \/ undoMerge \/ UndoDisequality \/ UndoDist \/ clearPolarity \/ UndoDone
    BY <1>4, PopPointKeeps, UndoMergeKeeps, UndosKeep, UndoDoneKeeps
  <1> QED
    BY <1>1, <1>2, <1>3, <1>4 DEF Next

\* The inductive invariant of the congruence closure: the undo stacks, the forest, the
\* signature table, the use vectors and the pending pairs agree with the classes as they
\* were at every height of undo_stack_main (merge, undoMerge, expStoreExplanation).
THEOREM EInvariance == Spec => [](EInv /\ PointsInv /\ DistInv)
  <1>1. Init => EInv /\ PointsInv /\ DistInv
    <2> SUFFICES ASSUME Init
                 PROVE  EInv /\ PointsInv /\ DistInv
      OBVIOUS
    <2>1. backtrack_points = <<>> /\ pc = "idle" /\ dist = [n \in Nodes |-> {}]
      BY DEF Init
    <2>2. <<>> \in Seq(Nat)
      OBVIOUS
    <2> QED
      BY <2>1, <2>2, InitInv DEF PointsInv, DistInv
  <1>2. EInv /\ PointsInv /\ DistInv /\ [Next]_vars => (EInv /\ PointsInv /\ DistInv)'
    <2> SUFFICES ASSUME EInv, PointsInv, DistInv, [Next]_vars
                 PROVE  (EInv /\ PointsInv /\ DistInv)'
      OBVIOUS
    <2>1. CASE Next
      BY <2>1, StepKeeps, PointsKept, DistKept
    <2>2. CASE UNCHANGED vars
      <3>1. UNCHANGED <<backtrack_points, pc, dist>>
        BY <2>2 DEF vars, classVars, pointVars
      <3> QED
        BY <2>2, <3>1, StutterKeeps DEF PointsInv, DistInv
    <2> QED
      BY <2>1, <2>2
  <1> QED
    BY <1>1, <1>2, PTL DEF Spec

\* An edge holds for its reason.
LEMMA EdgeHolds ==
    ASSUME EInv, NEW H, Past(H), NEW t \in Terms, expParent[t] # ERef_Undef
    PROVE  LET r == expReason[t]
               ends == {<<t, expParent[t]>>, <<expParent[t], t>>}
           IN IF r = NoLit THEN \A s \in ArgPairs(t, expParent[t]) : root[s[1]] = root[s[2]]
              ELSE r \in Asserted /\ ends \cap (Positive({r}) \cup ValuePairs({r})) # {}
  <1>1. PICK p, r : p = expParent[t] /\ r = expReason[t]
    OBVIOUS
  <1>2. p \in Terms
    BY <1>1 DEF EInv, TypeInv
  <1>3. ForestInv(H)
    BY DEF Past
  <1>4. PICK n \in Nat : \E at \in [1..n -> TermMerges] : Places(at, n) /\ PairsInv(H, at, n)
    BY <1>3 DEF ForestInv
  <1>5. PICK at \in [1..n -> TermMerges] : Places(at, n) /\ PairsInv(H, at, n)
    BY <1>4
  <1>6. PICK j \in 1..n : Reason(H, t, p, r, at[j] - 1)
    BY <1>1, <1>5 DEF PairsInv
  <1>7. /\ Roots(root) /\ ListsEqual(root) /\ Top \in Nat
        /\ \A k \in 0..Top : Roots(H[k]) /\ Coarser(root, H[k])
    BY RootsNow
  <1>8. PICK k : k = at[j] - 1
    OBVIOUS
  <1>9. k \in 0..Top
    <2>1. undo_stack_main \in Seq(Undos)
      BY DEF EInv, TypeInv
    <2>2. DOMAIN undo_stack_main = 1..Top
      BY <2>1, SeqFacts DEF Top
    <2>3. at[j] \in 1..Top
      BY <1>5, <2>2 DEF TermMerges
    <2> QED
      BY <1>7, <1>8, <2>3
  <1>10. ASSUME r = NoLit
         PROVE  \A s \in ArgPairs(t, p) : root[s[1]] = root[s[2]]
    <2>1. Sig(H[k], t) = Sig(H[k], p)
      BY <1>6, <1>8, <1>10 DEF Reason
    <2>2. t \in Nodes /\ p \in Nodes
      BY <1>2, TermFacts
    <2>3. Sig(root, t) = Sig(root, p)
      BY <1>7, <1>9, <2>1, <2>2, SigCoarser
    <2>4. \A i \in DOMAIN t.args : root[t.args[i]] = root[p.args[i]]
      BY <1>2, <1>7, <2>3, ArgsEqual
    <2> QED
      BY <2>4 DEF ArgPairs
  <1>11. ASSUME r # NoLit
         PROVE  r \in Asserted /\ {<<t, p>>, <<p, t>>} \cap (Positive({r}) \cup ValuePairs({r})) # {}
    <2>1. r \in Lits /\ SetBelow(k, r) /\ {<<t, p>>, <<p, t>>} \cap Ends(r) # {}
      BY <1>6, <1>8, <1>11 DEF Reason
    <2>2. r.atom \in Atoms /\ r = [atom |-> r.atom, sgn |-> polarity[r.atom]] /\ polarity[r.atom] # Undef
      BY <2>1, AtomFacts DEF SetBelow
    <2>3. r \in Asserted
      BY <2>2 DEF Asserted, Lit
    <2> QED
      BY <2>1, <2>3 DEF Ends
  <1> QED
    BY <1>1, <1>10, <1>11

\* Two terms are in one class exactly if they are in one explanation tree, and every edge is
\* an asserted literal's or joins terms with equal arguments, however often the trees were
\* turned and cut before (expStoreExplanation, expReRootOn, expRemoveExplanation).
THEOREM ForestAlwaysSpans == Spec => []ForestSpans
  <1>1. EInv => ForestSpans
    <2> SUFFICES ASSUME EInv
                 PROVE  ForestSpans
      OBVIOUS
    <2>1. PICK H : Past(H)
      BY DEF EInv
    <2>2. \A s, t \in Terms : root[s] = root[t] <=> Up(Forest, s) \cap Up(Forest, t) # {}
      BY <2>1 DEF Past, ForestInv, Spans
    <2> QED
      BY <2>1, <2>2, EdgeHolds DEF ForestSpans
  <1> QED
    BY <1>1, EInvariance, PTL
=============================================================================
