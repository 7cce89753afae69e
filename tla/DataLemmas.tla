---------------------------- MODULE DataLemmas ----------------------------
(***************************************************************************)
(* Facts about sequences, finite sets of numbers and rationals (Deltas)    *)
(* that the proofs of several components use.                              *)
(***************************************************************************)
EXTENDS Integers, Sequences, FiniteSets, Deltas, TLAPS, FiniteSetTheorems, FunctionTheorems,
        SequenceTheorems, WellFoundedInduction

-----------------------------------------------------------------------------
(* Sequences.                                                              *)

\* What a sequence over a set is, in the form the steps below use.
LEMMA SeqFacts ==
    ASSUME NEW S, NEW s \in Seq(S)
    PROVE  /\ Len(s) \in Nat /\ DOMAIN s = 1..Len(s)
           /\ \A i \in 1..Len(s) : s[i] \in S
  BY LenProperties, ElementOfSeq

\* The first n elements of a sequence.
LEMMA PrefixFacts ==
    ASSUME NEW S, NEW s \in Seq(S), NEW n \in 0..Len(s)
    PROVE  /\ SubSeq(s, 1, n) \in Seq(S)
           /\ Len(SubSeq(s, 1, n)) = n
           /\ DOMAIN SubSeq(s, 1, n) = 1..n
           /\ \A i \in 1..n : SubSeq(s, 1, n)[i] = s[i]
  <1>1. n \in Nat /\ n <= Len(s) /\ \A i \in 1..n : s[i] \in S
    BY SeqFacts
  <1>2. /\ SubSeq(s, 1, n) \in Seq(S)
        /\ Len(SubSeq(s, 1, n)) = IF 1 <= n THEN n - 1 + 1 ELSE 0
        /\ \A i \in 1..(n - 1 + 1) : SubSeq(s, 1, n)[i] = s[1 + i - 1]
    BY <1>1, SubSeqProperties
  <1>3. Len(SubSeq(s, 1, n)) = n /\ \A i \in 1..n : SubSeq(s, 1, n)[i] = s[i]
    BY <1>1, <1>2
  <1> QED
    BY <1>2, <1>3, SeqFacts

\* One element more.
LEMMA AppendFacts ==
    ASSUME NEW S, NEW s \in Seq(S), NEW e \in S
    PROVE  /\ Append(s, e) \in Seq(S)
           /\ Len(Append(s, e)) = Len(s) + 1
           /\ DOMAIN Append(s, e) = 1..(Len(s) + 1)
           /\ \A i \in 1..Len(s) : Append(s, e)[i] = s[i]
           /\ Append(s, e)[Len(s) + 1] = e
  BY SeqFacts

\* The set of them.
Elements(s) == {s[n] : n \in 1..Len(s)}

\* Two elements exchanged: the same elements, still without repetition.
LEMMA SwapFacts ==
    ASSUME NEW S, NEW s \in Seq(S), NEW i \in 1..Len(s), NEW j \in 1..Len(s),
           \A m, n \in 1..Len(s) : s[m] = s[n] => m = n,
           NEW t \in [1..Len(s) -> S], t[i] = s[j], t[j] = s[i],
           \A n \in 1..Len(s) : n # i /\ n # j => t[n] = s[n]
    PROVE  /\ t \in Seq(S) /\ Len(t) = Len(s)
           /\ \A m, n \in 1..Len(t) : t[m] = t[n] => m = n
           /\ Elements(t) = Elements(s)
  <1> DEFINE I == 1..Len(s)
             to(x) == IF x = i THEN j ELSE IF x = j THEN i ELSE x
  <1>1. Len(s) \in Nat
    BY SeqFacts
  <1>2. t \in Seq(S) /\ Len(t) = Len(s)
    <2>1. t \in Seq(S)
      BY <1>1, IsASeq
    <2>2. Len(t) \in Nat /\ DOMAIN t = 1..Len(t)
      BY <2>1, SeqFacts
    <2>3. 1..Len(t) = 1..Len(s)
      BY <2>2
    <2> QED
      BY <1>1, <2>1, <2>2, <2>3
  <1>3. \A n \in I : to(n) \in I /\ t[n] = s[to(n)] /\ s[n] = t[to(n)]
    OBVIOUS
  <1>4. \A m, n \in I : to(m) = to(n) => m = n
    OBVIOUS
  <1>5. \A m, n \in I : s[m] = s[n] => m = n
    OBVIOUS
  <1> HIDE DEF I, to
  <1>6. \A m, n \in I : t[m] = t[n] => m = n
    BY <1>3, <1>4, <1>5
  <1>7. {t[n] : n \in I} = {s[n] : n \in I}
    <2>1. ASSUME NEW n \in I
          PROVE  t[n] \in {s[m] : m \in I} /\ s[n] \in {t[m] : m \in I}
      BY <1>3
    <2> QED
      BY <2>1
  <1> QED
    BY <1>2, <1>6, <1>7 DEF I, Elements

Exchanged(s, i, j) == [s EXCEPT ![i] = s[j], ![j] = s[i]]

\* Exchanging two places of a sequence.
LEMMA ExchangedFacts ==
    ASSUME NEW S, NEW s \in Seq(S), NEW i \in 1..Len(s), NEW j \in 1..Len(s),
           \A m, n \in 1..Len(s) : s[m] = s[n] => m = n
    PROVE  /\ Exchanged(s, i, j) \in Seq(S) /\ Len(Exchanged(s, i, j)) = Len(s)
           /\ Exchanged(s, i, j)[i] = s[j] /\ Exchanged(s, i, j)[j] = s[i]
           /\ \A n \in 1..Len(s) : n # i /\ n # j => Exchanged(s, i, j)[n] = s[n]
           /\ \A m, n \in 1..Len(s) :
                 Exchanged(s, i, j)[m] = Exchanged(s, i, j)[n] => m = n
           /\ Elements(Exchanged(s, i, j)) = Elements(s)
  <1> DEFINE t == Exchanged(s, i, j)
  <1>1. /\ Len(s) \in Nat /\ DOMAIN s = 1..Len(s)
        /\ \A n \in 1..Len(s) : s[n] \in S
    BY SeqFacts
  <1>2. /\ t[i] = s[j] /\ t[j] = s[i]
        /\ \A n \in 1..Len(s) : n # i /\ n # j => t[n] = s[n]
    BY <1>1 DEF Exchanged
  <1>3. t \in [1..Len(s) -> S]
    BY <1>1 DEF Exchanged
  <1> HIDE DEF t
  <1>4. /\ t \in Seq(S) /\ Len(t) = Len(s)
        /\ \A m, n \in 1..Len(t) : t[m] = t[n] => m = n
        /\ Elements(t) = Elements(s)
    <2>1. t \in [1..Len(s) -> S] /\ t[i] = s[j] /\ t[j] = s[i]
      BY <1>2, <1>3
    <2>2. \A n \in 1..Len(s) : n # i /\ n # j => t[n] = s[n]
      BY <1>2
    <2> QED
      BY <2>1, <2>2, SwapFacts
  <1> QED
    BY <1>2, <1>4 DEF t

-----------------------------------------------------------------------------
(* Numbers and finite sets of numbers.                                     *)

\* A non-empty set of natural numbers has a least element.
LEMMA MinExists ==
    ASSUME NEW S \in SUBSET Nat, S # {}
    PROVE  \E k \in S : \A n \in S : k <= n
  <1>1. PICK k \in S : \A n \in S : ~ (<<n, k>> \in OpToRel(<, Nat))
    BY WFMin, NatLessThanWellFounded
  <1>2. \A n \in S : ~ (n < k)
    BY <1>1 DEF OpToRel
  <1> QED
    BY <1>2

\* A bounded one has a greatest.
LEMMA MaxExists ==
    ASSUME NEW n \in Nat, NEW S \in SUBSET (0..n), S # {}
    PROVE  \E k \in S : \A l \in S : l <= k
  <1> DEFINE T == {n - k : k \in S}
  <1>1. T \in SUBSET Nat /\ T # {}
    <2>1. PICK k0 \in S : TRUE
      OBVIOUS
    <2>2. n - k0 \in T
      BY <2>1
    <2>3. \A k \in S : n - k \in Nat
      OBVIOUS
    <2> QED
      BY <2>2, <2>3
  <1>2. PICK x \in T : \A y \in T : x <= y
    BY <1>1, MinExists
  <1>3. PICK k \in S : x = n - k
    BY <1>2
  <1>4. \A l \in S : n - l \in T
    OBVIOUS
  <1>5. \A l \in S : l <= k
    BY <1>2, <1>3, <1>4
  <1> QED
    BY <1>5

\* How many elements of a finite set of numbers are at most x: a numbering of
\* the set in its order.
Rank(S, x) == Cardinality({y \in S : y <= x})

\* The rank of a number grows with it.
LEMMA RankFacts ==
    ASSUME NEW S \in SUBSET Int, IsFiniteSet(S)
    PROVE  /\ Cardinality(S) \in Nat
           /\ \A x \in S : Rank(S, x) \in 1..Cardinality(S)
           /\ \A x, y \in S : x < y => Rank(S, x) < Rank(S, y)
           /\ \A n \in 1..Cardinality(S) : \E x \in S : Rank(S, x) = n
  <1> DEFINE below(x) == {y \in S : y <= x}
             r == [x \in S |-> Rank(S, x)]
             N == Cardinality(S)
  <1>1. N \in Nat
    BY FS_CardinalityType
  <1>2. \A x \in S : IsFiniteSet(below(x)) /\ Cardinality(below(x)) \in Nat /\ Cardinality(below(x)) <= N
    BY FS_Subset, FS_CardinalityType, \A x \in S : below(x) \in SUBSET S
  <1>3. ASSUME NEW x \in S
        PROVE  Rank(S, x) \in 1..N
    <2>1. below(x) # {}
      <3>1. x \in below(x)
        OBVIOUS
      <3> QED
        BY <3>1
    <2>2. Cardinality(below(x)) # 0
      BY <1>2, <2>1, FS_EmptySet
    <2> QED
      BY <1>1, <1>2, <2>2 DEF Rank
  <1>4. ASSUME NEW x \in S, NEW y \in S, x < y
        PROVE  Rank(S, x) < Rank(S, y)
    <2>1. below(x) \in SUBSET below(y)
      <3>1. \A z \in S : z \in Int
        OBVIOUS
      <3>2. \A z \in S : z <= x => z <= y
        BY <1>4, <3>1
      <3> QED
        BY <3>2
    <2>2. y \in below(y) /\ y \notin below(x)
      BY <1>4
    <2>3. below(x) # below(y)
      BY <2>2
    <2> HIDE DEF below
    <2>4. Cardinality(below(x)) <= Cardinality(below(y)) /\ Cardinality(below(x)) # Cardinality(below(y))
      BY <1>2, <2>1, <2>3, FS_Subset
    <2>5. Rank(S, x) = Cardinality(below(x)) /\ Rank(S, y) = Cardinality(below(y))
      BY DEF Rank, below
    <2> QED
      BY <1>2, <2>4, <2>5
  <1>5. r \in Injection(S, 1..N)
    <2>1. r \in [S -> 1..N]
      BY <1>3
    <2>2. \A x, y \in S : r[x] = r[y] => x = y
      <3>1. TAKE x, y \in S
      <3>2. x < y \/ y < x \/ x = y
        OBVIOUS
      <3>3. Rank(S, x) \in Int /\ Rank(S, y) \in Int
        BY <1>3
      <3> QED
        BY <1>4, <3>2, <3>3
    <2> QED
      BY <2>1, <2>2, Fun_IsInj
  <1>6. r \in Surjection(S, 1..N)
    <2>1. IsFiniteSet(1..N) /\ Cardinality(1..N) = N
      BY <1>1, FS_Interval
    <2> QED
      BY <1>5, <2>1, FS_Injection
  <1>7. \A x \in S : r[x] = Rank(S, x)
    OBVIOUS
  <1> HIDE DEF r
  <1>8. \A n \in 1..N : \E x \in S : r[x] = n
    BY <1>6, Fun_SurjectionProperties
  <1> QED
    BY <1>1, <1>3, <1>4, <1>7, <1>8

\* Any strict total order on a finite set lists it in that order.
LEMMA OrderedListing ==
    ASSUME NEW S, IsFiniteSet(S), NEW R,
           \A x \in S : <<x, x>> \notin R,
           \A x, y, z \in S : <<x, y>> \in R /\ <<y, z>> \in R => <<x, z>> \in R,
           \A x, y \in S : x = y \/ <<x, y>> \in R \/ <<y, x>> \in R
    PROVE  \E f \in [1..Cardinality(S) -> S] :
             /\ \A x \in S : \E i \in 1..Cardinality(S) : f[i] = x
             /\ \A i, j \in 1..Cardinality(S) : i < j => <<f[i], f[j]>> \in R
  <1> DEFINE below(x) == {y \in S : y = x \/ <<y, x>> \in R}
             r == [x \in S |-> Cardinality(below(x))]
             N == Cardinality(S)
  <1>1. N \in Nat
    BY FS_CardinalityType
  <1>2. \A x \in S : IsFiniteSet(below(x)) /\ Cardinality(below(x)) \in Nat /\ Cardinality(below(x)) <= N
    BY FS_Subset, FS_CardinalityType, \A x \in S : below(x) \in SUBSET S
  <1>3. ASSUME NEW x \in S
        PROVE  Cardinality(below(x)) \in 1..N
    <2>1. below(x) # {}
      <3>1. x \in below(x)
        OBVIOUS
      <3> QED
        BY <3>1
    <2>2. Cardinality(below(x)) # 0
      BY <1>2, <2>1, FS_EmptySet
    <2> QED
      BY <1>1, <1>2, <2>2
  <1>4. ASSUME NEW x \in S, NEW y \in S, <<x, y>> \in R
        PROVE  Cardinality(below(x)) < Cardinality(below(y))
    <2>1. below(x) \in SUBSET below(y)
      BY <1>4
    <2>2. y \in below(y) /\ y \notin below(x)
      <3>1. y # x /\ <<y, x>> \notin R
        BY <1>4
      <3> QED
        BY <3>1
    <2>3. below(x) # below(y)
      BY <2>2
    <2> HIDE DEF below
    <2>4. Cardinality(below(x)) <= Cardinality(below(y)) /\ Cardinality(below(x)) # Cardinality(below(y))
      BY <1>2, <2>1, <2>3, FS_Subset
    <2> QED
      BY <1>2, <2>4
  <1>5. r \in Injection(S, 1..N)
    <2>1. r \in [S -> 1..N]
      BY <1>3
    <2>2. \A x, y \in S : r[x] = r[y] => x = y
      <3>1. TAKE x, y \in S
      <3>2. <<x, y>> \in R \/ <<y, x>> \in R \/ x = y
        OBVIOUS
      <3>3. /\ r[x] = Cardinality(below(x)) /\ r[x] \in Int
            /\ r[y] = Cardinality(below(y)) /\ r[y] \in Int
        BY <1>3
      <3>4. <<x, y>> \in R => Cardinality(below(x)) < Cardinality(below(y))
        BY <1>4
      <3>5. <<y, x>> \in R => Cardinality(below(y)) < Cardinality(below(x))
        BY <1>4
      <3> HIDE DEF below, r
      <3> QED
        BY <3>2, <3>3, <3>4, <3>5
    <2> QED
      BY <2>1, <2>2, Fun_IsInj
  <1>6. r \in Surjection(S, 1..N)
    <2>1. IsFiniteSet(1..N) /\ Cardinality(1..N) = N
      BY <1>1, FS_Interval
    <2> QED
      BY <1>5, <2>1, FS_Injection
  <1>7. \A x \in S : r[x] = Cardinality(below(x)) /\ r[x] \in 1..N
    BY <1>3
  <1>8. \A x, y \in S : r[x] = r[y] => x = y
    BY <1>5, Fun_IsInj DEF Injection, IsInjective
  <1> HIDE DEF r
  <1>9. \A n \in 1..N : \E x \in S : r[x] = n
    BY <1>6, Fun_SurjectionProperties
  <1> DEFINE f == [n \in 1..N |-> CHOOSE x \in S : r[x] = n]
  <1>10. \A n \in 1..N : f[n] \in S /\ r[f[n]] = n
    BY <1>9
  <1>11. f \in [1..N -> S]
    BY <1>10
  <1> HIDE DEF f
  <1>12. \A x \in S : \E i \in 1..N : f[i] = x
    BY <1>7, <1>8, <1>10
  <1>13. ASSUME NEW i \in 1..N, NEW j \in 1..N, i < j
         PROVE  <<f[i], f[j]>> \in R
    <2>1. /\ f[i] \in S /\ f[j] \in S
          /\ Cardinality(below(f[i])) = i /\ Cardinality(below(f[j])) = j
      BY <1>7, <1>10
    <2>2. f[i] # f[j]
      BY <1>10, <1>13
    <2>3. <<f[j], f[i]>> \notin R
      <3> HIDE DEF below
      <3>1. <<f[j], f[i]>> \in R => j < i
        BY <1>4, <2>1
      <3> QED
        BY <1>13, <3>1
    <2> QED
      BY <2>1, <2>2, <2>3
  <1> QED
    BY <1>11, <1>12, <1>13

-----------------------------------------------------------------------------
(* Integer division and rationals in lowest terms.                         *)

\* Division rounds down.
LEMMA DivFacts ==
    ASSUME NEW a \in Int, NEW b \in Nat \ {0}
    PROVE  /\ a \div b \in Int
           /\ (a \div b) * b <= a /\ a < (a \div b + 1) * b
  OBVIOUS

\* A multiple leaves no remainder.
LEMMA ModFacts ==
    ASSUME NEW k \in Int, NEW b \in Nat \ {0}
    PROVE  (k * b) % b = 0
  OBVIOUS

\* A divisor divides.
LEMMA Divides ==
    ASSUME NEW a \in Int, NEW b \in Nat \ {0}, a % b = 0
    PROVE  a \div b \in Int /\ a = (a \div b) * b
  OBVIOUS

\* Numerator and least denominator.
LEMMA RationalParts ==
    ASSUME NEW q \in Rationals
    PROVE  /\ q[1] \in Int /\ q[2] \in Nat \ {0} /\ q = <<q[1], q[2]>>
           /\ \A d \in 1..q[2] - 1 : (q[1] * d) % q[2] # 0
  BY DEF Rationals

\* Two rationals that are equal as fractions are the same.
LEMMA SameRational ==
    ASSUME NEW p \in Rationals, NEW q \in Rationals, p[1] * q[2] = q[1] * p[2]
    PROVE  p = q
  <1>1. /\ p[1] \in Int /\ p[2] \in Nat \ {0} /\ p = <<p[1], p[2]>>
        /\ q[1] \in Int /\ q[2] \in Nat \ {0} /\ q = <<q[1], q[2]>>
    BY RationalParts
  <1>2. ASSUME NEW a \in Rationals, NEW b \in Rationals, a[2] < b[2], a[1] * b[2] = b[1] * a[2]
        PROVE  FALSE
    <2>1. a[1] \in Int /\ a[2] \in Nat \ {0} /\ b[1] \in Int /\ b[2] \in Nat \ {0}
      BY RationalParts
    <2>2. a[2] \in 1..b[2] - 1
      BY <1>2, <2>1
    <2>3. (b[1] * a[2]) % b[2] # 0
      BY <2>2, RationalParts
    <2>4. (a[1] * b[2]) % b[2] = 0
      BY <2>1, ModFacts
    <2> QED
      BY <1>2, <2>3, <2>4
  <1>3. p[2] = q[2]
    <2>1. ~ (p[2] < q[2]) /\ ~ (q[2] < p[2])
      BY <1>2
    <2> QED
      BY <1>1, <2>1
  <1>4. p[1] = q[1]
    <2>1. p[1] * q[2] = q[1] * q[2] /\ q[2] > 0
      BY <1>1, <1>3
    <2> QED
      BY <1>1, <2>1
  <1> QED
    BY <1>1, <1>3, <1>4

-----------------------------------------------------------------------------
(* The rational p is n/d. *)
Fraction(p, n, d) ==
  p \in Rationals /\ n \in Int /\ d \in Int /\ d # 0 /\ p[1] * d = n * p[2]

\* A common factor is cancelled.
LEMMA Cancel ==
    ASSUME NEW a \in Int, NEW b \in Int, NEW m \in Int, m # 0, a * m = b * m
    PROVE  a = b
  OBVIOUS

\* Ratio with a positive denominator is in lowest terms.
LEMMA RatioPositive ==
    ASSUME NEW n \in Int, NEW m \in Nat \ {0}, NEW q \in 1..m,
           (n * q) % m = 0, \A e \in 1..q - 1 : (n * e) % m # 0
    PROVE  Fraction(<<(n * q) \div m, q>>, n, m)
  <1> DEFINE p == (n * q) \div m
  <1>1. n * q \in Int /\ q \in Nat \ {0}
    OBVIOUS
  <1>2. p \in Int /\ n * q = p * m
    BY <1>1, Divides
  <1> HIDE DEF p
  <1>3. ASSUME NEW e \in 1..q - 1, (p * e) % q = 0
        PROVE  FALSE
    <2>0. e \in Int /\ p * e \in Int
      BY <1>1, <1>2
    <2>1. PICK k \in Int : p * e = k * q
      BY <1>1, <1>3, <2>0, Divides
    <2>2. (n * e) * q = (k * m) * q
      <3>1. (n * e) * q = (n * q) * e
        BY <1>1, <2>0
      <3>2. (n * q) * e = (p * e) * m
        BY <1>1, <1>2, <2>0
      <3>3. (p * e) * m = (k * m) * q
        BY <1>1, <2>0, <2>1
      <3> QED
        BY <3>1, <3>2, <3>3
    <2>3. n * e \in Int /\ k * m \in Int
      BY <2>0
    <2>4. n * e = k * m
      BY <1>1, <2>2, <2>3, Cancel
    <2>5. (k * m) % m = 0
      BY ModFacts
    <2> QED
      BY <1>3, <2>4, <2>5
  <1>4. <<p, q>> \in Rationals
    BY <1>1, <1>2, <1>3 DEF Rationals
  <1>5. <<p, q>>[1] * m = n * <<p, q>>[2]
    BY <1>1, <1>2
  <1> QED
    BY <1>4, <1>5 DEF Fraction, p

\* Ratio is the fraction it is made from.
LEMMA RatioFraction ==
    ASSUME NEW n \in Int, NEW d \in Int, d # 0
    PROVE  Fraction(Ratio(n, d), n, d)
  <1> DEFINE m == Magnitude(d)
             q == CHOOSE q \in 1..m : /\ (n * q) % m = 0
                                      /\ \A e \in 1..q - 1 : (n * e) % m # 0
  <1>1. m \in Nat \ {0} /\ m = IF d < 0 THEN -d ELSE d
    BY DEF Magnitude
  <1> HIDE DEF m
  <1>2. \E x \in 1..m : (n * x) % m = 0 /\ \A e \in 1..x - 1 : (n * e) % m # 0
    <2> DEFINE S == {x \in 1..m : (n * x) % m = 0}
    <2>1. (n * m) % m = 0
      BY <1>1, ModFacts
    <2>2. S \in SUBSET Nat /\ S # {}
      BY <1>1, <2>1
    <2>3. PICK x \in S : \A y \in S : x <= y
      BY <2>2, MinExists
    <2>4. \A e \in 1..x - 1 : e \in 1..m /\ ~ (x <= e)
      BY <1>1, <2>3
    <2> QED
      BY <2>3, <2>4
  <1>3. q \in 1..m /\ (n * q) % m = 0 /\ \A e \in 1..q - 1 : (n * e) % m # 0
    BY <1>2
  <1>4. Ratio(n, d) = <<((IF d < 0 THEN -n ELSE n) * q) \div m, q>>
    BY DEF Ratio, m
  <1> HIDE DEF q
  <1>5. CASE d > 0
    <2>1. m = d /\ Ratio(n, d) = <<(n * q) \div m, q>>
      BY <1>1, <1>4, <1>5
    <2>2. Fraction(Ratio(n, d), n, m)
      BY <1>1, <1>3, <2>1, RatioPositive
    <2> QED
      BY <2>1, <2>2
  <1>6. CASE d < 0
    <2> DEFINE k == -n
    <2>1. k \in Int
      OBVIOUS
    <2>2. \A e \in 1..m : (k * e) % m = 0 <=> (n * e) % m = 0
      <3>1. ASSUME NEW a \in Int, a % m = 0
            PROVE  (-a) % m = 0
        <4>1. PICK b \in Int : a = b * m
          BY <1>1, <3>1, Divides
        <4>2. -a = (-b) * m /\ -b \in Int
          BY <1>1, <4>1
        <4> QED
          BY <1>1, <4>2, ModFacts
      <3>2. ASSUME NEW e \in 1..m
            PROVE  k * e \in Int /\ n * e \in Int /\ k * e = -(n * e) /\ n * e = -(k * e)
        OBVIOUS
      <3> QED
        BY <3>1, <3>2
    <2>3. (k * q) % m = 0 /\ \A e \in 1..q - 1 : (k * e) % m # 0
      <3>1. \A e \in 1..q - 1 : e \in 1..m
        BY <1>1, <1>3
      <3> QED
        BY <1>3, <2>2, <3>1
    <2>4. Ratio(n, d) = <<(k * q) \div m, q>>
      BY <1>4, <1>6
    <2> HIDE DEF k
    <2>5. Fraction(Ratio(n, d), k, m)
      BY <1>1, <1>3, <2>1, <2>3, <2>4, RatioPositive
    <2> USE DEF k
    <2>6. Ratio(n, d) \in Rationals /\ Ratio(n, d)[1] * m = (-n) * Ratio(n, d)[2]
      BY <2>5 DEF Fraction
    <2>7. Ratio(n, d)[1] \in Int /\ Ratio(n, d)[2] \in Int
      BY <2>6, RationalParts
    <2>8. Ratio(n, d)[1] * d = n * Ratio(n, d)[2]
      BY <1>1, <1>6, <2>6, <2>7
    <2> QED
      BY <2>6, <2>8 DEF Fraction
  <1> QED
    BY <1>5, <1>6

\* A rational is the fraction of its parts.
LEMMA FractionOf ==
    ASSUME NEW p \in Rationals
    PROVE  Fraction(p, p[1], p[2])
  BY RationalParts DEF Fraction

\* Fractions of the same parts are the same rational.
LEMMA FractionSame ==
    ASSUME NEW p, NEW q, NEW n, NEW d, Fraction(p, n, d), Fraction(q, n, d)
    PROVE  p = q
  <1>1. /\ p \in Rationals /\ q \in Rationals /\ n \in Int /\ d \in Int /\ d # 0
        /\ p[1] * d = n * p[2] /\ q[1] * d = n * q[2]
    BY DEF Fraction
  <1>2. p[1] \in Int /\ p[2] \in Int /\ q[1] \in Int /\ q[2] \in Int
    BY <1>1, RationalParts
  <1>3. (p[1] * q[2]) * d = (q[1] * p[2]) * d
    <2>1. (p[1] * q[2]) * d = (p[1] * d) * q[2]
      BY <1>1, <1>2
    <2>2. (p[1] * d) * q[2] = (n * p[2]) * q[2]
      BY <1>1
    <2>3. (n * p[2]) * q[2] = (n * q[2]) * p[2]
      BY <1>1, <1>2
    <2>4. (n * q[2]) * p[2] = (q[1] * d) * p[2]
      BY <1>1
    <2>5. (q[1] * d) * p[2] = (q[1] * p[2]) * d
      BY <1>1, <1>2
    <2> QED
      BY <2>1, <2>2, <2>3, <2>4, <2>5
  <1>4. p[1] * q[2] = q[1] * p[2]
    <2>1. p[1] * q[2] \in Int /\ q[1] * p[2] \in Int
      BY <1>2
    <2> QED
      BY <1>1, <1>3, <2>1, Cancel
  <1> QED
    BY <1>1, <1>4, SameRational

\* Another way to write the same fraction.
LEMMA FractionEqual ==
    ASSUME NEW r, NEW n, NEW m, Fraction(r, n, m),
           NEW u \in Int, NEW v \in Int, v # 0, n * v = u * m
    PROVE  Fraction(r, u, v)
  <1>1. /\ r \in Rationals /\ r[1] \in Int /\ r[2] \in Int /\ r[1] * m = n * r[2]
        /\ n \in Int /\ m \in Int /\ m # 0
    BY RationalParts DEF Fraction
  <1>2. (r[1] * v) * m = (u * r[2]) * m
    <2>1. (r[1] * v) * m = (r[1] * m) * v
      BY <1>1
    <2>2. (n * r[2]) * v = (n * v) * r[2]
      BY <1>1
    <2>3. (u * m) * r[2] = (u * r[2]) * m
      BY <1>1
    <2> QED
      BY <1>1, <2>1, <2>2, <2>3
  <1>3. r[1] * v = u * r[2]
    <2>1. r[1] * v \in Int /\ u * r[2] \in Int
      BY <1>1
    <2> QED
      BY <1>1, <1>2, <2>1, Cancel
  <1> QED
    BY <1>1, <1>3 DEF Fraction

\* Crosswise products of a sum.
LEMMA CrossSum ==
    ASSUME NEW a \in Int, NEW b \in Int, NEW c \in Int, NEW d \in Int,
           NEW x \in Int, NEW y \in Int, NEW z \in Int, NEW w \in Int,
           x * b = a * y, z * d = c * w
    PROVE  (x * w + z * y) * (b * d) = (a * d + c * b) * (y * w)
  <1>1. (x * w + z * y) * (b * d) = (x * b) * (w * d) + (z * d) * (y * b)
    OBVIOUS
  <1>2. (a * y) * (w * d) + (c * w) * (y * b) = (a * d + c * b) * (y * w)
    OBVIOUS
  <1> QED
    BY <1>1, <1>2

\* Crosswise products of a product.
LEMMA CrossProduct ==
    ASSUME NEW a \in Int, NEW b \in Int, NEW c \in Int, NEW d \in Int,
           NEW x \in Int, NEW y \in Int, NEW z \in Int, NEW w \in Int,
           x * b = a * y, z * d = c * w
    PROVE  (x * z) * (b * d) = (a * c) * (y * w)
  <1>1. (x * z) * (b * d) = (x * b) * (z * d)
    OBVIOUS
  <1>2. (a * y) * (c * w) = (a * c) * (y * w)
    OBVIOUS
  <1> QED
    BY <1>1, <1>2

\* A product of non-zero numbers is not zero.
LEMMA NonZeroProduct ==
    ASSUME NEW a \in Int, NEW b \in Int, a # 0, b # 0
    PROVE  a * b \in Int /\ a * b # 0
  OBVIOUS

\* A fraction may be extended.
LEMMA Extend ==
    ASSUME NEW p, NEW n, NEW d, NEW e \in Int, e # 0, Fraction(p, n, d)
    PROVE  Fraction(p, n * e, d * e)
  <1>1. n \in Int /\ d \in Int /\ d # 0
    BY DEF Fraction
  <1>2. n * e \in Int /\ d * e \in Int /\ d * e # 0
    BY <1>1, NonZeroProduct
  <1>3. n * (d * e) = (n * e) * d
    BY <1>1
  <1> QED
    BY <1>2, <1>3, FractionEqual

\* The sum of fractions.
LEMMA AddFraction ==
    ASSUME NEW p, NEW a, NEW b, Fraction(p, a, b),
           NEW q, NEW c, NEW d, Fraction(q, c, d)
    PROVE  Fraction(RAdd(p, q), a * d + c * b, b * d)
  <1>1. /\ p \in Rationals /\ a \in Int /\ b \in Int /\ b # 0 /\ p[1] * b = a * p[2]
        /\ q \in Rationals /\ c \in Int /\ d \in Int /\ d # 0 /\ q[1] * d = c * q[2]
    BY DEF Fraction
  <1>2. /\ p[1] \in Int /\ p[2] \in Int /\ p[2] # 0
        /\ q[1] \in Int /\ q[2] \in Int /\ q[2] # 0
    BY <1>1, RationalParts
  <1>3. p[2] * q[2] \in Int /\ p[2] * q[2] # 0 /\ b * d \in Int /\ b * d # 0
    BY <1>1, <1>2, NonZeroProduct
  <1>4. p[1] * q[2] + q[1] * p[2] \in Int /\ a * d + c * b \in Int
    BY <1>1, <1>2
  <1>5. Fraction(RAdd(p, q), p[1] * q[2] + q[1] * p[2], p[2] * q[2])
    BY <1>3, <1>4, RatioFraction DEF RAdd
  <1>6. (p[1] * q[2] + q[1] * p[2]) * (b * d) = (a * d + c * b) * (p[2] * q[2])
    <2>1. PICK x \in Int, y \in Int, z \in Int, w \in Int :
             x = p[1] /\ y = p[2] /\ z = q[1] /\ w = q[2]
      BY <1>1, <1>2
    <2>2. x * b = a * y /\ z * d = c * w
      BY <1>1, <2>1
    <2>3. (x * w + z * y) * (b * d) = (a * d + c * b) * (y * w)
      BY <1>1, <2>2, CrossSum
    <2> QED
      BY <2>1, <2>3
  <1> QED
    BY <1>3, <1>4, <1>5, <1>6, FractionEqual

\* The product of fractions.
LEMMA MulFraction ==
    ASSUME NEW p, NEW a, NEW b, Fraction(p, a, b),
           NEW q, NEW c, NEW d, Fraction(q, c, d)
    PROVE  Fraction(RMul(p, q), a * c, b * d)
  <1>1. /\ p \in Rationals /\ a \in Int /\ b \in Int /\ b # 0 /\ p[1] * b = a * p[2]
        /\ q \in Rationals /\ c \in Int /\ d \in Int /\ d # 0 /\ q[1] * d = c * q[2]
    BY DEF Fraction
  <1>2. /\ p[1] \in Int /\ p[2] \in Int /\ p[2] # 0
        /\ q[1] \in Int /\ q[2] \in Int /\ q[2] # 0
    BY <1>1, RationalParts
  <1>3. p[2] * q[2] \in Int /\ p[2] * q[2] # 0 /\ b * d \in Int /\ b * d # 0
    BY <1>1, <1>2, NonZeroProduct
  <1>4. p[1] * q[1] \in Int /\ a * c \in Int
    BY <1>1, <1>2
  <1>5. Fraction(RMul(p, q), p[1] * q[1], p[2] * q[2])
    BY <1>3, <1>4, RatioFraction DEF RMul
  <1>6. (p[1] * q[1]) * (b * d) = (a * c) * (p[2] * q[2])
    <2>1. PICK x \in Int, y \in Int, z \in Int, w \in Int :
             x = p[1] /\ y = p[2] /\ z = q[1] /\ w = q[2]
      BY <1>1, <1>2
    <2>2. x * b = a * y /\ z * d = c * w
      BY <1>1, <2>1
    <2>3. (x * z) * (b * d) = (a * c) * (y * w)
      BY <1>1, <2>2, CrossProduct
    <2> QED
      BY <2>1, <2>3
  <1> QED
    BY <1>3, <1>4, <1>5, <1>6, FractionEqual

\* The negation of a fraction.
LEMMA NegFraction ==
    ASSUME NEW p, NEW a, NEW b, Fraction(p, a, b)
    PROVE  Fraction(RNeg(p), -a, b)
  <1>1. /\ p \in Rationals /\ a \in Int /\ b \in Int /\ b # 0 /\ p[1] * b = a * p[2]
        /\ p[1] \in Int /\ p[2] \in Nat \ {0}
        /\ \A d \in 1..p[2] - 1 : (p[1] * d) % p[2] # 0
    BY RationalParts DEF Fraction
  <1>2. ASSUME NEW d \in 1..p[2] - 1, ((-p[1]) * d) % p[2] = 0
        PROVE  FALSE
    <2>1. (-p[1]) * d \in Int
      BY <1>1
    <2>2. PICK k \in Int : (-p[1]) * d = k * p[2]
      BY <1>1, <1>2, <2>1, Divides
    <2>3. p[1] * d = (-k) * p[2] /\ -k \in Int
      BY <1>1, <2>2
    <2>4. ((-k) * p[2]) % p[2] = 0
      BY <1>1, <2>3, ModFacts
    <2> QED
      BY <1>1, <2>3, <2>4
  <1>3. RNeg(p) \in Rationals
    BY <1>1, <1>2 DEF Rationals, RNeg
  <1>4. RNeg(p)[1] * b = (-a) * RNeg(p)[2]
    BY <1>1 DEF RNeg
  <1> QED
    BY <1>1, <1>3, <1>4 DEF Fraction

\* Zero and one.
LEMMA ZeroOne ==
    /\ Zero \in Rationals /\ Zero[1] = 0 /\ Zero[2] = 1
    /\ One \in Rationals /\ One[1] = 1 /\ One[2] = 1
    /\ Zero # One
    /\ \A n \in Int \ {0} : Fraction(Zero, 0, n) /\ Fraction(One, n, n)
  <1>1. /\ Zero \in Rationals /\ Zero[1] = 0 /\ Zero[2] = 1
        /\ One \in Rationals /\ One[1] = 1 /\ One[2] = 1
    BY DEF Zero, One, IntReal, Rationals
  <1> QED
    BY <1>1 DEF Fraction

\* The quotient of a fraction.
LEMMA DivFraction ==
    ASSUME NEW p, NEW a, NEW b, Fraction(p, a, b),
           NEW q \in Rationals, q # Zero
    PROVE  q[1] # 0 /\ Fraction(RDiv(p, q), a * q[2], b * q[1])
  <1>1. /\ p \in Rationals /\ a \in Int /\ b \in Int /\ b # 0 /\ p[1] * b = a * p[2]
        /\ p[1] \in Int /\ p[2] \in Int /\ p[2] # 0
        /\ q[1] \in Int /\ q[2] \in Int /\ q[2] # 0
    BY RationalParts DEF Fraction
  <1>2. q[1] # 0
    BY <1>1, ZeroOne, SameRational
  <1>3. p[2] * q[1] \in Int /\ p[2] * q[1] # 0 /\ b * q[1] \in Int /\ b * q[1] # 0
    BY <1>1, <1>2, NonZeroProduct
  <1>4. p[1] * q[2] \in Int /\ a * q[2] \in Int
    BY <1>1
  <1>5. Fraction(RDiv(p, q), p[1] * q[2], p[2] * q[1])
    BY <1>3, <1>4, RatioFraction DEF RDiv
  <1>6. (p[1] * q[2]) * (b * q[1]) = (a * q[2]) * (p[2] * q[1])
    <2>1. PICK x \in Int, y \in Int, z \in Int, w \in Int :
             x = p[1] /\ y = p[2] /\ z = q[1] /\ w = q[2]
      BY <1>1
    <2>2. x * b = a * y /\ w * z = w * z
      BY <1>1, <2>1
    <2>3. (x * w) * (b * z) = (a * w) * (y * z)
      BY <1>1, <2>2, CrossProduct
    <2> QED
      BY <2>1, <2>3
  <1> QED
    BY <1>2, <1>3, <1>4, <1>5, <1>6, FractionEqual

-----------------------------------------------------------------------------
(* The rationals are an ordered field. *)

\* The operations give rationals.
LEMMA RationalClosed ==
    ASSUME NEW p \in Rationals, NEW q \in Rationals
    PROVE  /\ RAdd(p, q) \in Rationals /\ RMul(p, q) \in Rationals
           /\ RNeg(p) \in Rationals /\ RSub(p, q) \in Rationals
           /\ q # Zero => RDiv(p, q) \in Rationals
  <1>1. Fraction(p, p[1], p[2]) /\ Fraction(q, q[1], q[2])
    BY FractionOf
  <1>2. RAdd(p, q) \in Rationals /\ RMul(p, q) \in Rationals /\ RNeg(p) \in Rationals
    <2>1. /\ Fraction(RAdd(p, q), p[1] * q[2] + q[1] * p[2], p[2] * q[2])
          /\ Fraction(RMul(p, q), p[1] * q[1], p[2] * q[2])
          /\ Fraction(RNeg(p), -p[1], p[2])
      BY <1>1, AddFraction, MulFraction, NegFraction
    <2> QED
      BY <2>1 DEF Fraction
  <1>3. RSub(p, q) \in Rationals
    <2>1. Fraction(RNeg(q), -q[1], q[2])
      BY <1>1, NegFraction
    <2>2. Fraction(RAdd(p, RNeg(q)), p[1] * q[2] + (-q[1]) * p[2], p[2] * q[2])
      BY <1>1, <2>1, AddFraction
    <2> QED
      BY <2>2 DEF Fraction, RSub
  <1>4. q # Zero => RDiv(p, q) \in Rationals
    BY <1>1, DivFraction DEF Fraction
  <1> QED
    BY <1>2, <1>3, <1>4

\* Sums and products commute.
LEMMA AddCommutes ==
    ASSUME NEW p \in Rationals, NEW q \in Rationals
    PROVE  RAdd(p, q) = RAdd(q, p) /\ RMul(p, q) = RMul(q, p)
  <1>1. p[1] \in Int /\ p[2] \in Int /\ q[1] \in Int /\ q[2] \in Int
    BY RationalParts
  <1>2. /\ p[1] * q[2] + q[1] * p[2] = q[1] * p[2] + p[1] * q[2]
        /\ p[2] * q[2] = q[2] * p[2] /\ p[1] * q[1] = q[1] * p[1]
    BY <1>1
  <1> QED
    BY <1>2 DEF RAdd, RMul

\* Sums associate.
LEMMA AddAssociates ==
    ASSUME NEW p \in Rationals, NEW q \in Rationals, NEW r \in Rationals
    PROVE  RAdd(RAdd(p, q), r) = RAdd(p, RAdd(q, r))
  <1>1. PICK a \in Int : \E b \in Int : Fraction(p, a, b)
    BY FractionOf, RationalParts
  <1>2. PICK b \in Int : Fraction(p, a, b)
    BY <1>1
  <1>3. PICK c \in Int : \E d \in Int : Fraction(q, c, d)
    BY FractionOf, RationalParts
  <1>4. PICK d \in Int : Fraction(q, c, d)
    BY <1>3
  <1>5. PICK e \in Int : \E f \in Int : Fraction(r, e, f)
    BY FractionOf, RationalParts
  <1>6. PICK f \in Int : Fraction(r, e, f)
    BY <1>5
  <1>7. Fraction(RAdd(RAdd(p, q), r), (a * d + c * b) * f + e * (b * d), (b * d) * f)
    BY <1>2, <1>4, <1>6, AddFraction
  <1>8. Fraction(RAdd(p, RAdd(q, r)), a * (d * f) + (c * f + e * d) * b, b * (d * f))
    BY <1>2, <1>4, <1>6, AddFraction
  <1>9. /\ (a * d + c * b) * f + e * (b * d) = a * (d * f) + (c * f + e * d) * b
        /\ (b * d) * f = b * (d * f)
    OBVIOUS
  <1> QED
    BY <1>7, <1>8, <1>9, FractionSame

\* Products associate.
LEMMA MulAssociates ==
    ASSUME NEW p \in Rationals, NEW q \in Rationals, NEW r \in Rationals
    PROVE  RMul(RMul(p, q), r) = RMul(p, RMul(q, r))
  <1>1. PICK a \in Int : \E b \in Int : Fraction(p, a, b)
    BY FractionOf, RationalParts
  <1>2. PICK b \in Int : Fraction(p, a, b)
    BY <1>1
  <1>3. PICK c \in Int : \E d \in Int : Fraction(q, c, d)
    BY FractionOf, RationalParts
  <1>4. PICK d \in Int : Fraction(q, c, d)
    BY <1>3
  <1>5. PICK e \in Int : \E f \in Int : Fraction(r, e, f)
    BY FractionOf, RationalParts
  <1>6. PICK f \in Int : Fraction(r, e, f)
    BY <1>5
  <1>7. Fraction(RMul(RMul(p, q), r), (a * c) * e, (b * d) * f)
    BY <1>2, <1>4, <1>6, MulFraction
  <1>8. Fraction(RMul(p, RMul(q, r)), a * (c * e), b * (d * f))
    BY <1>2, <1>4, <1>6, MulFraction
  <1>9. (a * c) * e = a * (c * e) /\ (b * d) * f = b * (d * f)
    OBVIOUS
  <1> QED
    BY <1>7, <1>8, <1>9, FractionSame

\* Products distribute over sums.
LEMMA Distributes ==
    ASSUME NEW p \in Rationals, NEW q \in Rationals, NEW r \in Rationals
    PROVE  RMul(p, RAdd(q, r)) = RAdd(RMul(p, q), RMul(p, r))
  <1>1. PICK a \in Int : \E b \in Int : Fraction(p, a, b)
    BY FractionOf, RationalParts
  <1>2. PICK b \in Int : Fraction(p, a, b)
    BY <1>1
  <1>3. PICK c \in Int : \E d \in Int : Fraction(q, c, d)
    BY FractionOf, RationalParts
  <1>4. PICK d \in Int : Fraction(q, c, d)
    BY <1>3
  <1>5. PICK e \in Int : \E f \in Int : Fraction(r, e, f)
    BY FractionOf, RationalParts
  <1>6. PICK f \in Int : Fraction(r, e, f)
    BY <1>5
  <1>7. Fraction(RMul(p, RAdd(q, r)), a * (c * f + e * d), b * (d * f))
    BY <1>2, <1>4, <1>6, AddFraction, MulFraction
  <1>8. Fraction(RMul(p, RAdd(q, r)), (a * (c * f + e * d)) * b, (b * (d * f)) * b)
    <2>1. b # 0
      BY <1>2 DEF Fraction
    <2> QED
      BY <1>7, <2>1, Extend
  <1>9. Fraction(RAdd(RMul(p, q), RMul(p, r)),
                 (a * c) * (b * f) + (a * e) * (b * d), (b * d) * (b * f))
    BY <1>2, <1>4, <1>6, AddFraction, MulFraction
  <1>10. /\ (a * (c * f + e * d)) * b = (a * c) * (b * f) + (a * e) * (b * d)
         /\ (b * (d * f)) * b = (b * d) * (b * f)
    OBVIOUS
  <1> QED
    BY <1>8, <1>9, <1>10, FractionSame

\* Zero and one are neutral, negations and reciprocals inverse.
LEMMA Neutral ==
    ASSUME NEW p \in Rationals
    PROVE  /\ RAdd(p, Zero) = p /\ RAdd(Zero, p) = p /\ RMul(p, One) = p /\ RMul(One, p) = p
           /\ RMul(p, Zero) = Zero /\ RMul(Zero, p) = Zero
           /\ RAdd(p, RNeg(p)) = Zero
           /\ p # Zero => RMul(p, RDiv(One, p)) = One
  <1>1. Fraction(p, p[1], p[2]) /\ p[1] \in Int /\ p[2] \in Int /\ p[2] # 0
    BY FractionOf, RationalParts
  <1>2. Fraction(Zero, 0, 1) /\ Fraction(One, 1, 1)
    BY ZeroOne
  <1>3. RAdd(p, Zero) = p
    <2>1. Fraction(RAdd(p, Zero), p[1] * 1 + 0 * p[2], p[2] * 1)
      BY <1>1, <1>2, AddFraction
    <2>2. p[1] * 1 + 0 * p[2] = p[1] /\ p[2] * 1 = p[2]
      BY <1>1
    <2> QED
      BY <1>1, <2>1, <2>2, FractionSame
  <1>4. RMul(p, One) = p
    <2>1. Fraction(RMul(p, One), p[1] * 1, p[2] * 1)
      BY <1>1, <1>2, MulFraction
    <2>2. p[1] * 1 = p[1] /\ p[2] * 1 = p[2]
      BY <1>1
    <2> QED
      BY <1>1, <2>1, <2>2, FractionSame
  <1>5. RMul(p, Zero) = Zero
    <2>1. Fraction(RMul(p, Zero), p[1] * 0, p[2] * 1)
      BY <1>1, <1>2, MulFraction
    <2>2. p[1] * 0 = 0 /\ p[2] * 1 = p[2]
      BY <1>1
    <2>3. Fraction(Zero, 0, p[2])
      BY <1>1, ZeroOne
    <2> QED
      BY <2>1, <2>2, <2>3, FractionSame
  <1>6. RAdd(p, RNeg(p)) = Zero
    <2>1. Fraction(RNeg(p), -p[1], p[2])
      BY <1>1, NegFraction
    <2>2. Fraction(RAdd(p, RNeg(p)), p[1] * p[2] + (-p[1]) * p[2], p[2] * p[2])
      BY <1>1, <2>1, AddFraction
    <2>3. p[1] * p[2] + (-p[1]) * p[2] = 0 /\ p[2] * p[2] \in Int \ {0}
      BY <1>1, NonZeroProduct
    <2>4. Fraction(Zero, 0, p[2] * p[2])
      BY <2>3, ZeroOne
    <2> QED
      BY <2>2, <2>3, <2>4, FractionSame
  <1>7. ASSUME p # Zero
        PROVE  RMul(p, RDiv(One, p)) = One
    <2>1. p[1] # 0 /\ Fraction(RDiv(One, p), 1 * p[2], 1 * p[1])
      BY <1>2, <1>7, DivFraction
    <2>2. Fraction(RMul(p, RDiv(One, p)), p[1] * (1 * p[2]), p[2] * (1 * p[1]))
      BY <1>1, <2>1, MulFraction
    <2>3. /\ p[1] * (1 * p[2]) = p[1] * p[2] /\ p[2] * (1 * p[1]) = p[1] * p[2]
          /\ p[1] * p[2] \in Int \ {0}
      BY <1>1, <2>1, NonZeroProduct
    <2>4. Fraction(One, p[1] * p[2], p[1] * p[2])
      BY <2>3, ZeroOne
    <2> QED
      BY <2>2, <2>3, <2>4, FractionSame
  <1> QED
    BY <1>3, <1>4, <1>5, <1>6, <1>7, AddCommutes, ZeroOne

\* To divide is to multiply by the reciprocal.
LEMMA DivIsMul ==
    ASSUME NEW p \in Rationals, NEW q \in Rationals, q # Zero
    PROVE  RDiv(p, q) = RMul(p, RDiv(One, q))
  <1>1. Fraction(p, p[1], p[2]) /\ Fraction(One, 1, 1)
    BY FractionOf, ZeroOne
  <1>2. Fraction(RDiv(p, q), p[1] * q[2], p[2] * q[1])
    BY <1>1, DivFraction
  <1>3. Fraction(RMul(p, RDiv(One, q)), p[1] * (1 * q[2]), p[2] * (1 * q[1]))
    BY <1>1, DivFraction, MulFraction
  <1>4. 1 * q[2] = q[2] /\ 1 * q[1] = q[1]
    BY RationalParts
  <1> QED
    BY <1>2, <1>3, <1>4, FractionSame

-----------------------------------------------------------------------------
(* The order of the rationals.                                             *)

\* Fractions with positive denominators are compared crosswise.
LEMMA CrossSign ==
    ASSUME NEW x \in Int, NEW y \in Nat \ {0}, NEW a \in Int, NEW b \in Nat \ {0}, x * b = a * y
    PROVE  (0 < x <=> 0 < a) /\ (x = 0 <=> a = 0)
  OBVIOUS

\* The order of rationals is that of their fractions.
LEMMA LessFraction ==
    ASSUME NEW p, NEW a, NEW b, Fraction(p, a, b), b > 0,
           NEW q, NEW c, NEW d, Fraction(q, c, d), d > 0
    PROVE  RLess(p, q) <=> a * d < c * b
  <1>1. /\ a \in Int /\ b \in Nat \ {0} /\ p[1] * b = a * p[2] /\ p \in Rationals
        /\ c \in Int /\ d \in Nat \ {0} /\ q[1] * d = c * q[2] /\ q \in Rationals
    BY DEF Fraction
  <1>2. PICK x \in Int, y \in Nat \ {0}, z \in Int, w \in Nat \ {0} :
          x = p[1] /\ y = p[2] /\ z = q[1] /\ w = q[2]
    BY <1>1, RationalParts
  <1>3. x * b = a * y /\ z * d = c * w
    BY <1>1, <1>2
  <1>4. (z * y - x * w) * (b * d) = (c * b - a * d) * (y * w)
    <2>1. (z * y - x * w) * (b * d) = (z * d) * (y * b) - (x * b) * (w * d)
      BY <1>1
    <2>2. (c * w) * (y * b) - (a * y) * (w * d) = (c * b - a * d) * (y * w)
      BY <1>1
    <2> QED
      BY <1>3, <2>1, <2>2
  <1>5. 0 < z * y - x * w <=> 0 < c * b - a * d
    <2>1. b * d \in Nat \ {0} /\ y * w \in Nat \ {0}
      BY <1>1, NonZeroProduct
    <2>2. z * y - x * w \in Int /\ c * b - a * d \in Int
      BY <1>1
    <2> QED
      BY <1>4, <2>1, <2>2, CrossSign
  <1>6. x * w \in Int /\ z * y \in Int /\ a * d \in Int /\ c * b \in Int
    BY <1>1
  <1>7. x * w < z * y <=> a * d < c * b
    BY <1>5, <1>6
  <1> QED
    BY <1>2, <1>7 DEF RLess

\* The sign of a rational is that of its numerator.
LEMMA PositiveSign ==
    ASSUME NEW p \in Rationals
    PROVE  /\ RLess(Zero, p) <=> p[1] > 0
           /\ RLess(p, Zero) <=> p[1] < 0
           /\ p = Zero <=> p[1] = 0
  <1>1. p[1] \in Int /\ p[2] \in Nat \ {0}
    BY RationalParts
  <1>2. p[1] = 0 => p = Zero
    BY <1>1, ZeroOne, SameRational
  <1> QED
    BY <1>1, <1>2, ZeroOne DEF RLess

\* The same summand, in integers.
LEMMA AddLessInt ==
    ASSUME NEW a \in Int, NEW b \in Nat \ {0}, NEW c \in Int, NEW d \in Nat \ {0},
           NEW e \in Int, NEW f \in Nat \ {0}
    PROVE  (a * f + e * b) * (d * f) < (c * f + e * d) * (b * f) <=> a * d < c * b
  <1>1. (c * f + e * d) * (b * f) - (a * f + e * b) * (d * f) = (c * b - a * d) * (f * f)
    OBVIOUS
  <1>2. f * f \in Nat \ {0}
    BY NonZeroProduct
  <1> DEFINE g == f * f
             k == c * b - a * d
  <1>3. k \in Int /\ g \in Nat \ {0}
    BY <1>2
  <1>4. \A x \in Int, y \in Nat \ {0} : 0 < x * y <=> 0 < x
    OBVIOUS
  <1> HIDE DEF g, k
  <1>5. 0 < k * g <=> 0 < k
    BY <1>3, <1>4
  <1> USE DEF g, k
  <1>6. /\ (c * f + e * d) * (b * f) \in Int /\ (a * f + e * b) * (d * f) \in Int
        /\ c * b \in Int /\ a * d \in Int
    OBVIOUS
  <1> QED
    BY <1>1, <1>5, <1>6

\* The same summand on both sides keeps the order.
LEMMA AddLess ==
    ASSUME NEW p \in Rationals, NEW q \in Rationals, NEW r \in Rationals
    PROVE  RLess(RAdd(p, r), RAdd(q, r)) <=> RLess(p, q)
  <1>1. PICK a \in Int, b \in Nat \ {0}, c \in Int, d \in Nat \ {0}, e \in Int, f \in Nat \ {0} :
          /\ a = p[1] /\ b = p[2] /\ c = q[1] /\ d = q[2] /\ e = r[1] /\ f = r[2]
    BY RationalParts
  <1>2. Fraction(p, a, b) /\ Fraction(q, c, d) /\ Fraction(r, e, f)
    BY <1>1, FractionOf
  <1>3. Fraction(RAdd(p, r), a * f + e * b, b * f) /\ Fraction(RAdd(q, r), c * f + e * d, d * f)
    BY <1>2, AddFraction
  <1>4. b * f > 0 /\ d * f > 0
    OBVIOUS
  <1>5. RLess(RAdd(p, r), RAdd(q, r)) <=> (a * f + e * b) * (d * f) < (c * f + e * d) * (b * f)
    BY <1>3, <1>4, LessFraction
  <1>6. RLess(p, q) <=> a * d < c * b
    BY <1>2, LessFraction
  <1> QED
    BY <1>5, <1>6, AddLessInt

\* The same factor, in integers.
LEMMA MulLessInt ==
    ASSUME NEW a \in Int, NEW b \in Nat \ {0}, NEW c \in Int, NEW d \in Nat \ {0},
           NEW e \in Nat \ {0}, NEW f \in Nat \ {0}
    PROVE  (e * a) * (f * d) < (e * c) * (f * b) <=> a * d < c * b
  <1>1. (e * c) * (f * b) - (e * a) * (f * d) = (c * b - a * d) * (e * f)
    OBVIOUS
  <1> DEFINE g == e * f
             k == c * b - a * d
  <1>3. k \in Int /\ g \in Nat \ {0}
    BY NonZeroProduct
  <1>4. \A x \in Int, y \in Nat \ {0} : 0 < x * y <=> 0 < x
    OBVIOUS
  <1> HIDE DEF g, k
  <1>5. 0 < k * g <=> 0 < k
    BY <1>3, <1>4
  <1> USE DEF g, k
  <1>6. /\ (e * c) * (f * b) \in Int /\ (e * a) * (f * d) \in Int
        /\ c * b \in Int /\ a * d \in Int
    OBVIOUS
  <1> QED
    BY <1>1, <1>5, <1>6

\* The same positive factor on both sides keeps the order.
LEMMA MulLess ==
    ASSUME NEW p \in Rationals, NEW q \in Rationals, NEW r \in Rationals, RLess(Zero, r)
    PROVE  RLess(RMul(r, p), RMul(r, q)) <=> RLess(p, q)
  <1>0. /\ p[1] \in Int /\ p[2] \in Nat \ {0} /\ q[1] \in Int /\ q[2] \in Nat \ {0}
        /\ r[1] \in Nat \ {0} /\ r[2] \in Nat \ {0}
    BY RationalParts, PositiveSign
  <1>1. PICK a \in Int, b \in Nat \ {0}, c \in Int, d \in Nat \ {0}, e \in Nat \ {0}, f \in Nat \ {0} :
          /\ a = p[1] /\ b = p[2] /\ c = q[1] /\ d = q[2] /\ e = r[1] /\ f = r[2]
    BY <1>0
  <1>2. Fraction(p, a, b) /\ Fraction(q, c, d) /\ Fraction(r, e, f)
    BY <1>1, FractionOf
  <1>3. Fraction(RMul(r, p), e * a, f * b) /\ Fraction(RMul(r, q), e * c, f * d)
    BY <1>2, MulFraction
  <1>4. f * b > 0 /\ f * d > 0
    OBVIOUS
  <1>5. RLess(RMul(r, p), RMul(r, q)) <=> (e * a) * (f * d) < (e * c) * (f * b)
    BY <1>3, <1>4, LessFraction
  <1>6. RLess(p, q) <=> a * d < c * b
    BY <1>2, LessFraction
  <1> QED
    BY <1>5, <1>6, MulLessInt

-----------------------------------------------------------------------------
(* A little algebra. *)

\* Summands change places.
LEMMA AddSwap ==
    ASSUME NEW a \in Rationals, NEW b \in Rationals, NEW c \in Rationals, NEW d \in Rationals
    PROVE  /\ RAdd(RAdd(a, b), RAdd(c, d)) = RAdd(RAdd(a, c), RAdd(b, d))
           /\ RAdd(a, RAdd(b, c)) = RAdd(b, RAdd(a, c))
  <1>1. RAdd(b, RAdd(c, d)) = RAdd(c, RAdd(b, d)) /\ RAdd(a, RAdd(b, c)) = RAdd(b, RAdd(a, c))
    <2>1. RAdd(b, RAdd(c, d)) = RAdd(RAdd(b, c), d) /\ RAdd(c, RAdd(b, d)) = RAdd(RAdd(c, b), d)
      BY AddAssociates
    <2>2. RAdd(a, RAdd(b, c)) = RAdd(RAdd(a, b), c) /\ RAdd(b, RAdd(a, c)) = RAdd(RAdd(b, a), c)
      BY AddAssociates
    <2> QED
      BY <2>1, <2>2, AddCommutes
  <1>0. RAdd(c, d) \in Rationals /\ RAdd(b, d) \in Rationals
    BY RationalClosed
  <1>2. RAdd(RAdd(a, b), RAdd(c, d)) = RAdd(a, RAdd(b, RAdd(c, d)))
    BY <1>0, AddAssociates
  <1>3. RAdd(RAdd(a, c), RAdd(b, d)) = RAdd(a, RAdd(c, RAdd(b, d)))
    BY <1>0, AddAssociates
  <1> QED
    BY <1>1, <1>2, <1>3

\* Differences.
LEMMA SubFacts ==
    ASSUME NEW p \in Rationals, NEW q \in Rationals
    PROVE  /\ RAdd(p, RSub(q, p)) = q
           /\ RSub(p, p) = Zero
           /\ RSub(RAdd(q, p), p) = q
           /\ RNeg(RNeg(p)) = p
  <1>1. RNeg(p) \in Rationals /\ RNeg(q) \in Rationals
    BY RationalClosed
  <1>2. RAdd(p, RSub(q, p)) = q
    <2>1. RAdd(p, RAdd(q, RNeg(p))) = RAdd(q, RAdd(p, RNeg(p)))
      BY <1>1, AddSwap
    <2> QED
      BY <2>1, Neutral DEF RSub
  <1>3. RSub(p, p) = Zero
    BY Neutral DEF RSub
  <1>4. RSub(RAdd(q, p), p) = q
    <2>1. RAdd(RAdd(q, p), RNeg(p)) = RAdd(q, RAdd(p, RNeg(p)))
      BY <1>1, AddAssociates
    <2> QED
      BY <2>1, Neutral DEF RSub
  <1>5. RNeg(RNeg(p)) = p
    BY RationalParts DEF RNeg
  <1> QED
    BY <1>2, <1>3, <1>4, <1>5

\* Negations of sums and products.
LEMMA NegFacts ==
    ASSUME NEW p \in Rationals, NEW q \in Rationals
    PROVE  /\ RMul(RNeg(p), q) = RNeg(RMul(p, q))
           /\ RNeg(RAdd(p, q)) = RAdd(RNeg(p), RNeg(q))
           /\ RNeg(p) = Zero => p = Zero
  <1>1. PICK a \in Int, b \in Int, c \in Int, d \in Int :
          /\ Fraction(p, a, b) /\ Fraction(q, c, d)
    BY FractionOf, RationalParts
  <1>2. RMul(RNeg(p), q) = RNeg(RMul(p, q))
    <2>1. Fraction(RMul(RNeg(p), q), (-a) * c, b * d) /\ Fraction(RNeg(RMul(p, q)), -(a * c), b * d)
      BY <1>1, NegFraction, MulFraction
    <2>2. (-a) * c = -(a * c)
      OBVIOUS
    <2> QED
      BY <2>1, <2>2, FractionSame
  <1>3. RNeg(RAdd(p, q)) = RAdd(RNeg(p), RNeg(q))
    <2>1. /\ Fraction(RNeg(RAdd(p, q)), -(a * d + c * b), b * d)
          /\ Fraction(RAdd(RNeg(p), RNeg(q)), (-a) * d + (-c) * b, b * d)
      BY <1>1, NegFraction, AddFraction
    <2>2. -(a * d + c * b) = (-a) * d + (-c) * b
      OBVIOUS
    <2> QED
      BY <2>1, <2>2, FractionSame
  <1>4. RNeg(p) = Zero => p = Zero
    <2>1. p[1] \in Int /\ RNeg(p)[1] = -p[1]
      BY RationalParts DEF RNeg
    <2> QED
      BY <2>1, PositiveSign, ZeroOne
  <1> QED
    BY <1>2, <1>3, <1>4

\* A quotient times its divisor.
LEMMA DivBack ==
    ASSUME NEW p \in Rationals, NEW c \in Rationals, c # Zero
    PROVE  RMul(c, RDiv(p, c)) = p /\ RDiv(One, c) # Zero
  <1> DEFINE i == RDiv(One, c)
  <1>1. i \in Rationals /\ RMul(c, i) = One
    BY ZeroOne, RationalClosed, Neutral
  <1>2. RDiv(p, c) = RMul(p, i)
    BY DivIsMul
  <1> HIDE DEF i
  <1>3. RMul(c, RMul(p, i)) = p
    <2>1. RMul(c, RMul(p, i)) = RMul(RMul(c, p), i) /\ RMul(p, RMul(c, i)) = RMul(RMul(p, c), i)
      BY <1>1, MulAssociates
    <2> QED
      BY <1>1, <2>1, AddCommutes, Neutral
  <1>4. i # Zero
    BY <1>1, Neutral, ZeroOne
  <1> QED
    BY <1>2, <1>3, <1>4 DEF i

\* a/b < c/d < e/f.
LEMMA CrossLess ==
    ASSUME NEW a \in Int, NEW b \in Nat \ {0}, NEW c \in Int, NEW d \in Nat \ {0},
           NEW e \in Int, NEW f \in Nat \ {0}, a * d < c * b, c * f < e * d
    PROVE  a * f < e * b
  OBVIOUS

\* Rationals in lowest terms are totally ordered.
LEMMA RationalOrder ==
    ASSUME NEW q1 \in Rationals, NEW q2 \in Rationals, NEW q3 \in Rationals
    PROVE  /\ ~ RLess(q1, q1)
           /\ RLess(q1, q2) /\ RLess(q2, q3) => RLess(q1, q3)
           /\ RLess(q1, q2) \/ q1 = q2 \/ RLess(q2, q1)
  <1>1. /\ q1[1] \in Int /\ q1[2] \in Nat \ {0} /\ q1 = <<q1[1], q1[2]>>
        /\ q2[1] \in Int /\ q2[2] \in Nat \ {0} /\ q2 = <<q2[1], q2[2]>>
        /\ q3[1] \in Int /\ q3[2] \in Nat \ {0}
    BY RationalParts
  <1>2. ~ RLess(q1, q1)
    BY <1>1 DEF RLess
  <1>3. RLess(q1, q2) /\ RLess(q2, q3) => RLess(q1, q3)
    <2>1. ASSUME RLess(q1, q2), RLess(q2, q3)
          PROVE  RLess(q1, q3)
      <3>1. q1[1] * q2[2] < q2[1] * q1[2] /\ q2[1] * q3[2] < q3[1] * q2[2]
        BY <2>1 DEF RLess
      <3>2. q1[1] * q3[2] < q3[1] * q1[2]
        BY <1>1, <3>1, CrossLess
      <3> QED
        BY <3>2 DEF RLess
    <2> QED
      BY <2>1
  <1>4. ASSUME q1[1] * q2[2] = q2[1] * q1[2]
        PROVE  q1 = q2
    <2>1. ~ (q1[2] < q2[2])
      <3> SUFFICES ASSUME q1[2] < q2[2] PROVE FALSE
        OBVIOUS
      <3>1. q1[2] \in 1..q2[2] - 1
        BY <1>1
      <3>2. (q2[1] * q1[2]) % q2[2] # 0
        BY <3>1, RationalParts
      <3>3. (q1[1] * q2[2]) % q2[2] = 0
        BY <1>1, ModFacts
      <3> QED
        BY <1>4, <3>2, <3>3
    <2>2. ~ (q2[2] < q1[2])
      <3> SUFFICES ASSUME q2[2] < q1[2] PROVE FALSE
        OBVIOUS
      <3>1. q2[2] \in 1..q1[2] - 1
        BY <1>1
      <3>2. (q1[1] * q2[2]) % q1[2] # 0
        BY <3>1, RationalParts
      <3>3. (q2[1] * q1[2]) % q1[2] = 0
        BY <1>1, ModFacts
      <3> QED
        BY <1>4, <3>2, <3>3
    <2>3. q1[2] = q2[2]
      BY <1>1, <2>1, <2>2
    <2>4. q1[1] = q2[1]
      <3>1. q1[1] * q2[2] = q2[1] * q2[2] /\ q2[2] > 0
        BY <1>1, <1>4, <2>3
      <3> QED
        BY <1>1, <3>1
    <2> QED
      BY <1>1, <2>3, <2>4
  <1>5. RLess(q1, q2) \/ q1 = q2 \/ RLess(q2, q1)
    <2>1. q1[1] * q2[2] \in Int /\ q2[1] * q1[2] \in Int
      BY <1>1
    <2> QED
      BY <1>4, <2>1 DEF RLess
  <1> QED
    BY <1>2, <1>3, <1>5

\* The values of the simplex and the two infinities.
Extended == Values \cup {MinusInf, PlusInf}

\* So are the values, infinities included.
LEMMA ValueOrder ==
    ASSUME NEW a \in Extended, NEW b \in Extended, NEW c \in Extended
    PROVE  /\ ~ DLess(a, a)
           /\ DLess(a, b) /\ DLess(b, c) => DLess(a, c)
           /\ DLess(a, b) \/ a = b \/ DLess(b, a)
  <1>1. \A x \in Extended : \/ x.inf = 0 /\ x.r \in Rationals /\ x.d \in Rationals
                                /\ x = Delta(x.r, x.d)
                            \/ x.inf = 1 /\ x = PlusInf
                            \/ x.inf = -1 /\ x = MinusInf
    BY DEF Extended, Values, PlusInf, MinusInf, Delta
  <1>2. \A x \in Extended : x.inf \in Int /\ (isInf(x) <=> x.inf # 0)
    BY <1>1 DEF isInf
  <1>3. ~ DLess(a, a)
    BY <1>1, <1>2, RationalOrder DEF DLess
  <1>4. DLess(a, b) /\ DLess(b, c) => DLess(a, c)
    <2>1. ASSUME DLess(a, b), DLess(b, c), a.inf < c.inf
          PROVE  DLess(a, c)
      BY <2>1 DEF DLess
    <2>2. ASSUME DLess(a, b), DLess(b, c), ~ (a.inf < c.inf)
          PROVE  DLess(a, c)
      <3>1. a.inf <= b.inf /\ b.inf <= c.inf
        BY <1>2, <2>2 DEF DLess
      <3>2. a.inf = b.inf /\ b.inf = c.inf
        BY <1>2, <2>2, <3>1
      <3>3. /\ ~ isInf(a) /\ ~ isInf(b) /\ ~ isInf(c)
            /\ RLess(a.r, b.r) \/ (a.r = b.r /\ RLess(a.d, b.d))
            /\ RLess(b.r, c.r) \/ (b.r = c.r /\ RLess(b.d, c.d))
        BY <1>2, <2>2, <3>2 DEF DLess
      <3>4. /\ a.r \in Rationals /\ a.d \in Rationals /\ b.r \in Rationals
            /\ b.d \in Rationals /\ c.r \in Rationals /\ c.d \in Rationals
        BY <1>1, <1>2, <3>3
      <3>5. RLess(a.r, c.r) \/ (a.r = c.r /\ RLess(a.d, c.d))
        BY <3>3, <3>4, RationalOrder
      <3> QED
        BY <3>3, <3>5 DEF DLess
    <2> QED
      BY <2>1, <2>2
  <1>6. ASSUME NEW x \in Extended, x.inf = 0
        PROVE  x.r \in Rationals /\ x.d \in Rationals /\ x = Delta(x.r, x.d)
    BY <1>1, <1>6
  <1>5. DLess(a, b) \/ a = b \/ DLess(b, a)
    <2>1. CASE a.inf # b.inf
      BY <1>2, <2>1 DEF DLess
    <2>2. CASE a.inf = b.inf /\ a.inf = 0
      <3>1. /\ a.r \in Rationals /\ a.d \in Rationals /\ a = Delta(a.r, a.d)
            /\ b.r \in Rationals /\ b.d \in Rationals /\ b = Delta(b.r, b.d)
        BY <1>6, <2>2
      <3>2. /\ RLess(a.r, b.r) \/ a.r = b.r \/ RLess(b.r, a.r)
            /\ RLess(a.d, b.d) \/ a.d = b.d \/ RLess(b.d, a.d)
        BY <3>1, RationalOrder
      <3> QED
        BY <1>2, <2>2, <3>1, <3>2 DEF DLess
    <2>3. CASE a.inf = b.inf /\ a.inf # 0
      <3>1. \A x \in Extended : x.inf = 1 => x = PlusInf
        BY <1>1
      <3>2. \A x \in Extended : x.inf = -1 => x = MinusInf
        BY <1>1
      <3>3. a.inf = 1 \/ a.inf = -1
        BY <1>1, <2>3
      <3> QED
        BY <2>3, <3>1, <3>2, <3>3
    <2> QED
      BY <2>1, <2>2, <2>3
  <1> QED
    BY <1>3, <1>4, <1>5

\* What lies below one number and not above another.
LEMMA Between ==
    ASSUME NEW a \in Extended, NEW b \in Extended, NEW c \in Extended
    PROVE  /\ DLeq(a, b) /\ DLess(b, c) => DLess(a, c)
           /\ DLess(a, b) /\ DLeq(b, c) => DLess(a, c)
           /\ DLeq(a, b) /\ DLeq(b, c) => DLeq(a, c)
           /\ DLess(a, b) => DLeq(a, b)
           /\ DLeq(a, b) <=> DLess(a, b) \/ a = b
  BY ValueOrder DEF DLeq

-----------------------------------------------------------------------------
(* Recursive definitions over a finite set: below rank n, the first n rounds *)
(* of the definition have settled the values.                              *)

\* step[<<x, g>>] is the value at x when g holds the values of lower rank.
Recursive(D, V, rank, m, step) ==
  /\ V # {} /\ rank \in [D -> Nat] /\ m \in Nat /\ \A x \in D : rank[x] < m
  /\ \A x \in D, g \in [D -> V] : step[<<x, g>>] \in V
  /\ \A x \in D, g \in [D -> V], h \in [D -> V] :
       (\A y \in D : rank[y] < rank[x] => g[y] = h[y]) => step[<<x, g>>] = step[<<x, h>>]

Solution(g, D, V, step) == g \in [D -> V] /\ \A x \in D : g[x] = step[<<x, g>>]

\* A recursion along a rank has a solution.
LEMMA RecursionDefined ==
    ASSUME NEW D, NEW V, NEW rank, NEW m, NEW step, Recursive(D, V, rank, m, step)
    PROVE  \E g : Solution(g, D, V, step)
  <1> DEFINE Settles(n) == \E g \in [D -> V] : \A x \in D : rank[x] < n => g[x] = step[<<x, g>>]
             Bad == {n \in Nat : ~ Settles(n)}
  <1>0. V # {} /\ rank \in [D -> Nat] /\ m \in Nat /\ \A x \in D : rank[x] < m
    BY DEF Recursive
  <1>1. Settles(0)
    <2>1. PICK v \in V : TRUE
      BY <1>0
    <2>2. [x \in D |-> v] \in [D -> V]
      OBVIOUS
    <2>3. \A x \in D : ~ (rank[x] < 0)
      BY <1>0
    <2> QED
      BY <2>2, <2>3
  <1>2. ASSUME NEW n \in Nat, Settles(n)
        PROVE  Settles(n + 1)
    <2>1. PICK g \in [D -> V] : \A x \in D : rank[x] < n => g[x] = step[<<x, g>>]
      BY <1>2
    <2> DEFINE h == [x \in D |-> IF rank[x] < n THEN g[x] ELSE step[<<x, g>>]]
    <2>2. h \in [D -> V]
      BY DEF Recursive
    <2>3. \A x \in D : h[x] = step[<<x, g>>]
      BY <2>1
    <2>4. \A y \in D : rank[y] < n => h[y] = g[y]
      OBVIOUS
    <2> HIDE DEF h
    <2>5. ASSUME NEW x \in D, rank[x] < n + 1
          PROVE  h[x] = step[<<x, h>>]
      <3>1. \A y \in D : rank[y] < rank[x] => g[y] = h[y]
        BY <1>0, <2>4, <2>5
      <3>2. step[<<x, g>>] = step[<<x, h>>]
        BY <2>2, <3>1 DEF Recursive
      <3> QED
        BY <2>3, <3>2
    <2> QED
      BY <2>2, <2>5
  <1>3. Settles(m)
    <2> SUFFICES ASSUME m \in Bad PROVE FALSE
      BY <1>0
    <2>1. PICK n \in Bad : \A k \in Bad : n <= k
      <3>1. Bad \in SUBSET Nat /\ Bad # {}
        OBVIOUS
      <3> HIDE DEF Bad
      <3> QED
        BY <3>1, MinExists
    <2>2. n # 0
      BY <1>1
    <2>3. n \in Nat /\ n - 1 \in Nat /\ n - 1 + 1 = n /\ n - 1 \notin Bad
      BY <2>1, <2>2
    <2>4. Settles(n - 1)
      BY <2>3
    <2> HIDE DEF Settles
    <2>5. Settles(n - 1 + 1)
      BY <1>2, <2>3, <2>4
    <2>6. Settles(n)
      BY <2>3, <2>5
    <2> QED
      BY <2>1, <2>6
  <1>4. PICK g \in [D -> V] : \A x \in D : rank[x] < m => g[x] = step[<<x, g>>]
    BY <1>3
  <1>5. \A x \in D : g[x] = step[<<x, g>>]
    BY <1>0, <1>4
  <1> QED
    BY <1>4, <1>5 DEF Solution

\* Among the subsets of a finite set that have a property, one is minimal.
LEMMA LeastSubset ==
    ASSUME NEW S, IsFiniteSet(S), NEW C \in SUBSET (SUBSET S), C # {}
    PROVE  \E T \in C : \A x \in T : T \ {x} \notin C
  <1> DEFINE sizes == {Cardinality(T) : T \in C}
  <1>1. \A T \in C : IsFiniteSet(T) /\ Cardinality(T) \in Nat
    BY FS_Subset, FS_CardinalityType
  <1>2. sizes \in SUBSET Nat /\ sizes # {}
    BY <1>1
  <1>3. PICK n \in sizes : \A k \in sizes : n <= k
    BY <1>2, MinExists
  <1>4. PICK T \in C : n = Cardinality(T)
    BY <1>3
  <1>5. ASSUME NEW x \in T, T \ {x} \in C
        PROVE  FALSE
    <2>1. Cardinality(T \ {x}) = Cardinality(T) - 1
      BY <1>1, FS_RemoveElement
    <2>2. Cardinality(T) <= Cardinality(T \ {x})
      BY <1>3, <1>4, <1>5
    <2> QED
      BY <1>1, <2>1, <2>2
  <1> QED
    BY <1>5

-----------------------------------------------------------------------------
(* Sums of rationals. *)

FirstOf(s) == CHOOSE x \in s : TRUE

Summed(it, f, S) ==
  /\ it \in [SUBSET S -> Rationals]
  /\ \A s \in SUBSET S :
       it[s] = IF s = {} THEN Zero ELSE RAdd(f[FirstOf(s)], it[s \ {FirstOf(s)}])

\* A sum over a finite set is defined by recursion.
LEMMA RSumDefined ==
    ASSUME NEW f, NEW S, IsFiniteSet(S), \A x \in S : f[x] \in Rationals
    PROVE  \E it : Summed(it, f, S) /\ RSum(f, S) = it[S]
  <1> DEFINE D == SUBSET S
             V == Rationals
             rank == [s \in D |-> Cardinality(s)]
             step == [p \in D \X [D -> V] |->
                       IF p[1] = {} THEN Zero ELSE RAdd(f[FirstOf(p[1])], p[2][p[1] \ {FirstOf(p[1])}])]
             it == CHOOSE it : it = [s \in SUBSET S |->
                     IF s = {} THEN Zero
                     ELSE LET x == CHOOSE x \in s : TRUE IN RAdd(f[x], it[s \ {x}])]
  <1>1. RSum(f, S) = it[S]
    BY DEF RSum, FoldFunctionOnSet, MapThenFoldSet
  <1>2. \A s \in D : IsFiniteSet(s) /\ Cardinality(s) \in Nat /\ Cardinality(s) <= Cardinality(S)
    BY FS_Subset, FS_CardinalityType
  <1>3. Cardinality(S) \in Nat
    BY FS_CardinalityType
  <1>4. \A s \in D : s # {} => FirstOf(s) \in s /\ s \ {FirstOf(s)} \in D
    BY DEF FirstOf
  <1>5. Recursive(D, V, rank, Cardinality(S) + 1, step)
    <2>1. rank \in [D -> Nat] /\ \A s \in D : rank[s] < Cardinality(S) + 1
      BY <1>2, <1>3
    <2>5. V # {} /\ Cardinality(S) + 1 \in Nat
      BY <1>3, ZeroOne
    <2>2. ASSUME NEW s \in D, NEW g \in [D -> V]
          PROVE  step[<<s, g>>] = IF s = {} THEN Zero ELSE RAdd(f[FirstOf(s)], g[s \ {FirstOf(s)}])
      OBVIOUS
    <2>3. ASSUME NEW s \in D, NEW g \in [D -> V]
          PROVE  step[<<s, g>>] \in V
      <3>1. CASE s = {}
        BY <2>2, <3>1, ZeroOne
      <3>2. CASE s # {}
        <4>1. f[FirstOf(s)] \in Rationals /\ g[s \ {FirstOf(s)}] \in Rationals
          BY <1>4, <3>2
        <4> QED
          BY <2>2, <3>2, <4>1, RationalClosed
      <3> QED
        BY <3>1, <3>2
    <2>4. ASSUME NEW s \in D, NEW g \in [D -> V], NEW h \in [D -> V],
                 \A y \in D : rank[y] < rank[s] => g[y] = h[y]
          PROVE  step[<<s, g>>] = step[<<s, h>>]
      <3>1. CASE s = {}
        BY <2>2, <3>1
      <3>2. CASE s # {}
        <4>1. FirstOf(s) \in s /\ s \ {FirstOf(s)} \in D
          BY <1>4, <3>2
        <4>2. Cardinality(s \ {FirstOf(s)}) = Cardinality(s) - 1
          BY <1>2, <4>1, FS_RemoveElement
        <4>3. rank[s \ {FirstOf(s)}] < rank[s]
          BY <1>2, <4>1, <4>2
        <4>4. g[s \ {FirstOf(s)}] = h[s \ {FirstOf(s)}]
          BY <2>4, <4>1, <4>3
        <4> QED
          BY <2>2, <4>4
      <3> QED
        BY <3>1, <3>2
    <2> HIDE DEF D, V, rank, step
    <2> QED
      BY <2>1, <2>3, <2>4, <2>5 DEF Recursive
  <1>6. PICK g : Solution(g, D, V, step)
    <2> HIDE DEF D, V, rank, step
    <2> QED
      BY <1>5, RecursionDefined
  <1>7. /\ g \in [D -> V]
        /\ \A s \in D : g[s] = IF s = {} THEN Zero ELSE RAdd(f[FirstOf(s)], g[s \ {FirstOf(s)}])
    BY <1>6 DEF Solution
  <1>8. g = [s \in SUBSET S |->
              IF s = {} THEN Zero
              ELSE LET x == CHOOSE x \in s : TRUE IN RAdd(f[x], g[s \ {x}])]
    <2>1. g = [s \in SUBSET S |-> g[s]]
      BY <1>7
    <2> QED
      BY <1>7, <2>1 DEF FirstOf
  <1>9. it = [s \in SUBSET S |->
              IF s = {} THEN Zero
              ELSE LET x == CHOOSE x \in s : TRUE IN RAdd(f[x], it[s \ {x}])]
    BY <1>8
  <1> HIDE DEF it
  <1>10. \A s \in SUBSET S :
           it[s] = IF s = {} THEN Zero ELSE RAdd(f[FirstOf(s)], it[s \ {FirstOf(s)}])
    BY <1>9 DEF FirstOf
  <1>11. \A s \in SUBSET S : it[s] \in Rationals
    <2> DEFINE C == {s \in SUBSET S : it[s] \notin Rationals}
    <2> SUFFICES ASSUME C # {} PROVE FALSE
      OBVIOUS
    <2>1. PICK T \in C : \A x \in T : T \ {x} \notin C
      <3>1. C \in SUBSET (SUBSET S)
        OBVIOUS
      <3> HIDE DEF C
      <3> QED
        BY <3>1, LeastSubset
    <2>2. T # {}
      BY <1>10, <2>1, ZeroOne
    <2>3. FirstOf(T) \in T /\ it[T \ {FirstOf(T)}] \in Rationals /\ f[FirstOf(T)] \in Rationals
      BY <1>4, <2>1, <2>2
    <2>4. it[T] = RAdd(f[FirstOf(T)], it[T \ {FirstOf(T)}])
      BY <1>10, <2>2
    <2>5. RAdd(f[FirstOf(T)], it[T \ {FirstOf(T)}]) \in Rationals
      BY <2>3, RationalClosed
    <2>6. it[T] \notin Rationals
      BY <2>1
    <2> QED
      BY <2>4, <2>5, <2>6
  <1>12. it = [s \in SUBSET S |-> it[s]]
    BY <1>9
  <1>13. it \in [SUBSET S -> Rationals]
    BY <1>11, <1>12
  <1>14. Summed(it, f, S)
    BY <1>10, <1>13 DEF Summed
  <1> QED
    BY <1>1, <1>14

\* The sum itself satisfies the equation of its definition.
LEMMA SummedSame ==
    ASSUME NEW f, NEW S, IsFiniteSet(S), NEW T \in SUBSET S,
           NEW it, Summed(it, f, S), NEW jt, Summed(jt, f, T)
    PROVE  it[T] = jt[T]
  <1> DEFINE C == {s \in SUBSET T : it[s] # jt[s]}
  <1> SUFFICES ASSUME C # {} PROVE FALSE
    OBVIOUS
  <1>0. IsFiniteSet(T)
    BY FS_Subset
  <1>1. PICK s \in C : \A x \in s : s \ {x} \notin C
    <2>1. C \in SUBSET (SUBSET T)
      OBVIOUS
    <2> HIDE DEF C
    <2> QED
      BY <1>0, <2>1, LeastSubset
  <1>2. s \in SUBSET T /\ s \in SUBSET S /\ it[s] # jt[s]
    BY <1>1
  <1>3. s # {}
    BY <1>2 DEF Summed
  <1>4. FirstOf(s) \in s
    BY <1>3 DEF FirstOf
  <1>5. s \ {FirstOf(s)} \in SUBSET T /\ it[s \ {FirstOf(s)}] = jt[s \ {FirstOf(s)}]
    BY <1>1, <1>2, <1>4
  <1>6. it[s] = RAdd(f[FirstOf(s)], it[s \ {FirstOf(s)}])
    BY <1>2, <1>3 DEF Summed
  <1>7. jt[s] = RAdd(f[FirstOf(s)], jt[s \ {FirstOf(s)}])
    BY <1>2, <1>3 DEF Summed
  <1> QED
    BY <1>2, <1>5, <1>6, <1>7

\* The sum of nothing, and of one element more.
LEMMA RSumEquation ==
    ASSUME NEW f, NEW S, IsFiniteSet(S), \A x \in S : f[x] \in Rationals
    PROVE  /\ RSum(f, S) \in Rationals
           /\ S = {} => RSum(f, S) = Zero
           /\ S # {} => /\ FirstOf(S) \in S
                        /\ RSum(f, S) = RAdd(f[FirstOf(S)], RSum(f, S \ {FirstOf(S)}))
  <1>1. PICK it : Summed(it, f, S) /\ RSum(f, S) = it[S]
    BY RSumDefined
  <1>2. RSum(f, S) \in Rationals /\ (S = {} => RSum(f, S) = Zero)
    BY <1>1 DEF Summed
  <1>3. ASSUME S # {}
        PROVE  FirstOf(S) \in S /\ RSum(f, S) = RAdd(f[FirstOf(S)], RSum(f, S \ {FirstOf(S)}))
    <2>1. FirstOf(S) \in S
      BY <1>3 DEF FirstOf
    <2> DEFINE T == S \ {FirstOf(S)}
    <2>2. T \in SUBSET S /\ IsFiniteSet(T) /\ \A x \in T : f[x] \in Rationals
      BY FS_Subset
    <2> HIDE DEF T
    <2>3. PICK jt : Summed(jt, f, T) /\ RSum(f, T) = jt[T]
      BY <2>2, RSumDefined
    <2>4. it[T] = jt[T]
      BY <1>1, <2>2, <2>3, SummedSame
    <2>5. it[S] = RAdd(f[FirstOf(S)], it[T])
      BY <1>1, <1>3 DEF Summed, T
    <2> QED
      BY <1>1, <2>1, <2>3, <2>4, <2>5 DEF T
  <1> QED
    BY <1>2, <1>3

\* The order of the summands does not matter.
LEMMA RSumAt ==
    ASSUME NEW f, NEW S, IsFiniteSet(S), \A x \in S : f[x] \in Rationals, NEW a \in S
    PROVE  RSum(f, S) = RAdd(f[a], RSum(f, S \ {a}))
  <1> DEFINE Takes(T) == \A x \in T : RSum(f, T) = RAdd(f[x], RSum(f, T \ {x}))
             C == {T \in SUBSET S : ~ Takes(T)}
  <1> SUFFICES ASSUME C # {} PROVE FALSE
    OBVIOUS
  <1>1. PICK T \in C : \A x \in T : T \ {x} \notin C
    <2>1. C \in SUBSET (SUBSET S)
      OBVIOUS
    <2> HIDE DEF C
    <2> QED
      BY <2>1, LeastSubset
  <1>2. T \in SUBSET S /\ ~ Takes(T)
    BY <1>1
  <1>3. PICK b \in T : RSum(f, T) # RAdd(f[b], RSum(f, T \ {b}))
    BY <1>2
  <1>4. \A U \in SUBSET S : IsFiniteSet(U) /\ RSum(f, U) \in Rationals
    BY FS_Subset, RSumEquation
  <1> DEFINE c == FirstOf(T)
  <1>5. c \in T /\ RSum(f, T) = RAdd(f[c], RSum(f, T \ {c}))
    BY <1>2, <1>3, <1>4, RSumEquation
  <1>6. b # c
    BY <1>3, <1>5
  <1> HIDE DEF c
  <1>7. Takes(T \ {b}) /\ Takes(T \ {c})
    BY <1>1, <1>2, <1>3, <1>5
  <1>8. RSum(f, T \ {c}) = RAdd(f[b], RSum(f, (T \ {c}) \ {b}))
    BY <1>3, <1>6, <1>7
  <1>9. RSum(f, T \ {b}) = RAdd(f[c], RSum(f, (T \ {c}) \ {b}))
    <2>1. RSum(f, T \ {b}) = RAdd(f[c], RSum(f, (T \ {b}) \ {c}))
      BY <1>5, <1>6, <1>7
    <2>2. (T \ {b}) \ {c} = (T \ {c}) \ {b}
      OBVIOUS
    <2> QED
      BY <2>1, <2>2
  <1>10. /\ f[b] \in Rationals /\ f[c] \in Rationals
         /\ RSum(f, (T \ {c}) \ {b}) \in Rationals
    <2>1. (T \ {c}) \ {b} \in SUBSET S
      BY <1>2
    <2> QED
      BY <1>2, <1>4, <1>5, <2>1
  <1> QED
    BY <1>3, <1>5, <1>8, <1>9, <1>10, AddSwap

\* Sums are linear, and their summands that are zero may be left out.
LEMMA RSumSame ==
    ASSUME NEW f, NEW g, NEW S, IsFiniteSet(S), \A x \in S : f[x] \in Rationals /\ f[x] = g[x]
    PROVE  RSum(f, S) = RSum(g, S)
  <1> DEFINE C == {T \in SUBSET S : RSum(f, T) # RSum(g, T)}
  <1> SUFFICES ASSUME C # {} PROVE FALSE
    OBVIOUS
  <1>1. PICK T \in C : \A x \in T : T \ {x} \notin C
    <2>1. C \in SUBSET (SUBSET S)
      OBVIOUS
    <2> HIDE DEF C
    <2> QED
      BY <2>1, LeastSubset
  <1>2. /\ T \in SUBSET S /\ RSum(f, T) # RSum(g, T) /\ IsFiniteSet(T)
        /\ \A x \in T : f[x] \in Rationals /\ g[x] \in Rationals /\ f[x] = g[x]
    BY <1>1, FS_Subset
  <1>3. T # {}
    BY <1>2, RSumEquation
  <1> DEFINE a == FirstOf(T)
  <1>4. /\ a \in T /\ RSum(f, T) = RAdd(f[a], RSum(f, T \ {a}))
        /\ RSum(g, T) = RAdd(g[a], RSum(g, T \ {a}))
    BY <1>2, <1>3, RSumEquation
  <1> HIDE DEF a
  <1>5. RSum(f, T \ {a}) = RSum(g, T \ {a})
    BY <1>1, <1>2, <1>4
  <1> QED
    BY <1>2, <1>4, <1>5

\* The sum of sums.
LEMMA RSumAdd ==
    ASSUME NEW f, NEW g, NEW h, NEW S, IsFiniteSet(S),
           \A x \in S : f[x] \in Rationals /\ g[x] \in Rationals /\ h[x] = RAdd(f[x], g[x])
    PROVE  RSum(h, S) = RAdd(RSum(f, S), RSum(g, S))
  <1> DEFINE C == {T \in SUBSET S : RSum(h, T) # RAdd(RSum(f, T), RSum(g, T))}
  <1> SUFFICES ASSUME C # {} PROVE FALSE
    OBVIOUS
  <1>1. PICK T \in C : \A x \in T : T \ {x} \notin C
    <2>1. C \in SUBSET (SUBSET S)
      OBVIOUS
    <2> HIDE DEF C
    <2> QED
      BY <2>1, LeastSubset
  <1>2. \A x \in S : h[x] \in Rationals
    BY RationalClosed
  <1>3. \A U \in SUBSET S : /\ IsFiniteSet(U) /\ RSum(f, U) \in Rationals
                            /\ RSum(g, U) \in Rationals
    BY FS_Subset, RSumEquation
  <1>4. T \in SUBSET S /\ IsFiniteSet(T) /\ RSum(h, T) # RAdd(RSum(f, T), RSum(g, T))
    BY <1>1, <1>3
  <1>5. T # {}
    <2>1. ASSUME T = {}
          PROVE  RSum(h, T) = Zero /\ RSum(f, T) = Zero /\ RSum(g, T) = Zero
      BY <1>2, <1>4, <2>1, RSumEquation
    <2> QED
      BY <1>4, <2>1, ZeroOne, Neutral
  <1> DEFINE a == FirstOf(T)
             U == T \ {a}
  <1>6. /\ a \in T /\ RSum(f, T) = RAdd(f[a], RSum(f, U))
        /\ RSum(g, T) = RAdd(g[a], RSum(g, U)) /\ RSum(h, T) = RAdd(h[a], RSum(h, U))
    BY <1>2, <1>4, <1>5, RSumEquation
  <1>7. U \in SUBSET S /\ RSum(h, U) = RAdd(RSum(f, U), RSum(g, U))
    BY <1>1, <1>4, <1>6
  <1> HIDE DEF U, a
  <1>8. /\ f[a] \in Rationals /\ g[a] \in Rationals /\ h[a] = RAdd(f[a], g[a])
        /\ RSum(f, U) \in Rationals /\ RSum(g, U) \in Rationals
    BY <1>3, <1>4, <1>6, <1>7
  <1>9. RAdd(RAdd(f[a], g[a]), RAdd(RSum(f, U), RSum(g, U)))
          = RAdd(RAdd(f[a], RSum(f, U)), RAdd(g[a], RSum(g, U)))
    BY <1>8, AddSwap
  <1> QED
    BY <1>4, <1>6, <1>7, <1>8, <1>9

\* The sum of multiples.
LEMMA RSumMul ==
    ASSUME NEW f, NEW h, NEW c \in Rationals, NEW S, IsFiniteSet(S),
           \A x \in S : f[x] \in Rationals /\ h[x] = RMul(c, f[x])
    PROVE  RSum(h, S) = RMul(c, RSum(f, S))
  <1> DEFINE C == {T \in SUBSET S : RSum(h, T) # RMul(c, RSum(f, T))}
  <1> SUFFICES ASSUME C # {} PROVE FALSE
    OBVIOUS
  <1>1. PICK T \in C : \A x \in T : T \ {x} \notin C
    <2>1. C \in SUBSET (SUBSET S)
      OBVIOUS
    <2> HIDE DEF C
    <2> QED
      BY <2>1, LeastSubset
  <1>2. \A x \in S : h[x] \in Rationals
    BY RationalClosed
  <1>3. \A U \in SUBSET S : IsFiniteSet(U) /\ RSum(f, U) \in Rationals
    BY FS_Subset, RSumEquation
  <1>4. T \in SUBSET S /\ IsFiniteSet(T) /\ RSum(h, T) # RMul(c, RSum(f, T))
    BY <1>1, <1>3
  <1>5. T # {}
    <2>1. ASSUME T = {}
          PROVE  RSum(h, T) = Zero /\ RSum(f, T) = Zero
      BY <1>2, <1>4, <2>1, RSumEquation
    <2> QED
      BY <1>4, <2>1, Neutral
  <1> DEFINE a == FirstOf(T)
             U == T \ {a}
  <1>6. /\ a \in T /\ RSum(f, T) = RAdd(f[a], RSum(f, U))
        /\ RSum(h, T) = RAdd(h[a], RSum(h, U))
    BY <1>2, <1>4, <1>5, RSumEquation
  <1>7. U \in SUBSET S /\ RSum(h, U) = RMul(c, RSum(f, U))
    BY <1>1, <1>4, <1>6
  <1> HIDE DEF U, a
  <1>8. f[a] \in Rationals /\ h[a] = RMul(c, f[a]) /\ RSum(f, U) \in Rationals
    BY <1>3, <1>4, <1>6, <1>7
  <1>9. RMul(c, RAdd(f[a], RSum(f, U))) = RAdd(RMul(c, f[a]), RMul(c, RSum(f, U)))
    BY <1>8, Distributes
  <1> QED
    BY <1>4, <1>6, <1>7, <1>8, <1>9

\* Zeros do not count.
LEMMA RSumNonZero ==
    ASSUME NEW f, NEW S, IsFiniteSet(S), \A x \in S : f[x] \in Rationals,
           NEW R \in SUBSET S, \A x \in S \ R : f[x] = Zero
    PROVE  RSum(f, S) = RSum(f, R)
  <1> DEFINE C == {T \in SUBSET S : R \subseteq T /\ RSum(f, T) # RSum(f, R)}
  <1> SUFFICES ASSUME C # {} PROVE FALSE
    OBVIOUS
  <1>1. PICK T \in C : \A x \in T : T \ {x} \notin C
    <2>1. C \in SUBSET (SUBSET S)
      OBVIOUS
    <2> HIDE DEF C
    <2> QED
      BY <2>1, LeastSubset
  <1>2. T \in SUBSET S /\ R \subseteq T /\ RSum(f, T) # RSum(f, R) /\ IsFiniteSet(T)
    BY <1>1, FS_Subset
  <1>3. PICK a \in T : a \notin R
    BY <1>2
  <1>4. f[a] = Zero /\ RSum(f, T) = RAdd(f[a], RSum(f, T \ {a}))
    BY <1>2, <1>3, RSumAt
  <1>5. T \ {a} \in SUBSET S /\ R \subseteq T \ {a} /\ RSum(f, T \ {a}) = RSum(f, R)
    BY <1>1, <1>2, <1>3
  <1>6. IsFiniteSet(R) /\ RSum(f, R) \in Rationals
    BY FS_Subset, RSumEquation
  <1> QED
    BY <1>2, <1>4, <1>5, <1>6, Neutral
=============================================================================
