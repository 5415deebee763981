---------------------------- MODULE CountingFacts ---------------------------
(***************************************************************************)
(* Facts on numbers, sums, lists and the sizes of finite sets that the     *)
(* proofs share.                                                           *)
(***************************************************************************)
EXTENDS Integers, Sequences, SequencesExt, FiniteSets, FiniteSetsExt, Functions,
        FiniteSetTheorems, SequenceTheorems, WellFoundedInduction, TLAPS

-----------------------------------------------------------------------------
(* Induction, least and largest elements                                   *)

\* A set of natural numbers with an element has a least one.
LEMMA LeastNatural ==
    ASSUME NEW T \in SUBSET Nat, T # {}
    PROVE  \E m \in T : \A n \in T : m <= n
<1>1. PICK m \in T : \A n \in T : ~(<<n, m>> \in OpToRel(<, Nat))
  BY NatLessThanWellFounded, WFMin
<1>2. \A n \in T : ~(n < m)
  BY <1>1 DEF OpToRel
<1> QED
  BY <1>2

\* Induction: a set with 0 that holds the successor of each of its elements
\* holds every natural number.
LEMMA Induction ==
    ASSUME NEW T \in SUBSET Nat, 0 \in T, \A n \in T : n + 1 \in T
    PROVE  \A n \in Nat : n \in T
<1> SUFFICES ASSUME NEW n \in Nat, n \notin T PROVE FALSE
  OBVIOUS
<1> DEFINE B == Nat \ T
<1>1. PICK m \in B : \A k \in B : m <= k
  <2>1. B \in SUBSET Nat /\ B # {}
    OBVIOUS
  <2> HIDE DEF B
  <2> QED
    BY <2>1, LeastNatural
<1>2. m \in Nat /\ m \notin T /\ m # 0
  BY <1>1
<1>3. m - 1 \in Nat /\ ~(m - 1 \in B)
  BY <1>1, <1>2
<1>4. m - 1 + 1 \in T
  BY <1>3
<1> QED
  BY <1>2, <1>4

\* A finite set of natural numbers with an element has a largest one.
LEMMA LargestNatural ==
    ASSUME NEW S \in SUBSET Nat, IsFiniteSet(S), S # {}
    PROVE  \E m \in S : \A n \in S : m >= n
<1> DEFINE Bad(U) == /\ U \in SUBSET Nat /\ IsFiniteSet(U) /\ U # {}
                     /\ ~\E m \in U : \A n \in U : m >= n
           T == {Cardinality(U) : U \in {V \in SUBSET Nat : Bad(V)}}
<1> SUFFICES ASSUME Bad(S) PROVE FALSE
  OBVIOUS
<1>1. T \in SUBSET Nat /\ T # {}
  BY FS_CardinalityType
<1>2. PICK k \in T : \A n \in T : k <= n
  BY <1>1, LeastNatural
<1>3. PICK U \in SUBSET Nat : Bad(U) /\ Cardinality(U) = k
  BY <1>2
<1>4. PICK x \in U : TRUE
  BY <1>3
<1>5. IsFiniteSet(U \ {x}) /\ Cardinality(U \ {x}) = k - 1 /\ k \in Nat
  BY <1>1, <1>2, <1>3, <1>4, FS_RemoveElement
<1>6. ~Bad(U \ {x})
  <2> SUFFICES ASSUME Bad(U \ {x}) PROVE FALSE
    OBVIOUS
  <2>1. Cardinality(U \ {x}) \in T
    OBVIOUS
  <2>2. k - 1 \in T
    BY <1>5, <2>1
  <2> HIDE DEF T, Bad
  <2>3. k <= k - 1
    BY <1>2, <2>2
  <2> QED
    BY <1>5, <2>3
<1>7. CASE U \ {x} = {}
  BY <1>3, <1>4, <1>7
<1>8. CASE U \ {x} # {}
  <2>1. PICK m \in U \ {x} : \A n \in U \ {x} : m >= n
    BY <1>3, <1>5, <1>6, <1>8
  <2>2. m \in Nat /\ x \in Nat
    BY <1>3, <1>4, <2>1
  <2>3. CASE m >= x
    BY <1>3, <2>1, <2>2, <2>3
  <2>4. CASE m < x
    BY <1>3, <1>4, <2>1, <2>2, <2>4
  <2> QED
    BY <2>2, <2>3, <2>4
<1> QED
  BY <1>7, <1>8

\* Max finds it.
LEMMA MaxIsLargest ==
    ASSUME NEW S \in SUBSET Nat, IsFiniteSet(S), S # {}
    PROVE  Max(S) \in S /\ \A n \in S : Max(S) >= n
BY LargestNatural, Zenon DEF Max

\* The lesser and the greater of two numbers.
LEMMA LeastOfTwo ==
    ASSUME NEW a \in Int, NEW b \in Int
    PROVE  /\ Min({a, b}) = IF a <= b THEN a ELSE b
           /\ Max({a, b}) = IF a >= b THEN a ELSE b
<1> DEFINE S == {a, b}
<1>1. \E x \in S : \A y \in S : x <= y
  <2>1. a <= b \/ b <= a
    OBVIOUS
  <2> QED
    BY <2>1
<1>2. \E x \in S : \A y \in S : x >= y
  <2>1. a <= b \/ b <= a
    OBVIOUS
  <2> QED
    BY <2>1
<1> HIDE DEF S
<1>3. Min(S) \in S /\ \A y \in S : Min(S) <= y
  BY <1>1, Zenon DEF Min
<1>4. Max(S) \in S /\ \A y \in S : Max(S) >= y
  BY <1>2, Zenon DEF Max
<1>5. Min(S) = IF a <= b THEN a ELSE b
  BY <1>3 DEF S
<1>6. Max(S) = IF a >= b THEN a ELSE b
  BY <1>4 DEF S
<1> QED
  BY <1>5, <1>6 DEF S

\* A list has as many positions as its length.
LEMMA IntervalCardinality ==
    ASSUME NEW n \in Nat
    PROVE  IsFiniteSet(1 .. n) /\ Cardinality(1 .. n) = n
<1>1. 1 \in Int /\ n \in Int
  OBVIOUS
<1>2. /\ IsFiniteSet(1 .. n)
      /\ Cardinality(1 .. n) = IF 1 > n THEN 0 ELSE n - 1 + 1
  BY <1>1, FS_Interval, Zenon
<1> QED
  BY <1>2

-----------------------------------------------------------------------------
(* Powers of two                                                           *)

\* 2^(n+1) is twice 2^n.  The subsets of 1..n+1 are those of 1..n and as many
\* that hold n+1.
LEMMA PowerDoubles ==
    ASSUME NEW n \in Nat
    PROVE  2^n \in Nat /\ 2^n >= 1 /\ 2^(n + 1) = 2 * 2^n
<1> DEFINE S == 1 .. n
           x == n + 1
           A == SUBSET S
           B == (SUBSET (S \cup {x})) \ A
           f == [T \in A |-> T \cup {x}]
<1>1. IsFiniteSet(S) /\ Cardinality(S) = n /\ x \notin S
  BY FS_Interval
<1> HIDE DEF S, x
<1>2. IsFiniteSet(S \cup {x}) /\ Cardinality(S \cup {x}) = n + 1
  BY <1>1, FS_AddElement
<1>3. /\ IsFiniteSet(A) /\ Cardinality(A) = 2^n
      /\ IsFiniteSet(SUBSET (S \cup {x}))
      /\ Cardinality(SUBSET (S \cup {x})) = 2^(n + 1)
  BY <1>1, <1>2, FS_SUBSET
<1>4. f \in Surjection(A, B) /\ f \in Injection(A, B)
  <2>1. f \in [A -> B]
    BY <1>1
  <2>2. \A T, U \in A : f[T] = f[U] => T = U
    BY <1>1
  <2>3. \A T \in B : T \ {x} \in A /\ f[T \ {x}] = T
    OBVIOUS
  <2>4. \A T \in B : \E U \in A : f[U] = T
    BY <2>3
  <2>5. IsInjective(f)
    BY <2>2 DEF IsInjective
  <2> HIDE DEF f, A, B
  <2> QED
    BY <2>1, <2>4, <2>5 DEF Surjection, Injection
<1>5. IsFiniteSet(B) /\ Cardinality(B) = Cardinality(A)
  <2> HIDE DEF f, A, B
  <2> QED
    BY <1>3, <1>4, FS_Surjection
<1>6. A \cap B = {} /\ A \cup B = SUBSET (S \cup {x})
  OBVIOUS
<1>7. Cardinality(A) \in Nat /\ Cardinality(A) # 0
  <2>1. A # {}
    OBVIOUS
  <2> HIDE DEF A
  <2> QED
    BY <1>3, <2>1, FS_EmptySet, FS_CardinalityType
<1> HIDE DEF A, B, f
<1>8. Cardinality(A \cup B) = Cardinality(A) + Cardinality(A)
  <2>1. Cardinality(A \cup B)
           = Cardinality(A) + Cardinality(B) - Cardinality(A \cap B)
    BY <1>3, <1>5, FS_Union
  <2>2. Cardinality(A \cap B) = 0
    BY <1>6, FS_EmptySet
  <2> QED
    BY <1>5, <1>7, <2>1, <2>2
<1>9. Cardinality(A) >= 1 /\ Cardinality(A \cup B) = 2 * Cardinality(A)
  BY <1>7, <1>8
<1>10. Cardinality(A \cup B) = 2^(n + 1)
  BY <1>3, <1>6, Zenon
<1> QED
  BY <1>3, <1>7, <1>9, <1>10, Zenon

-----------------------------------------------------------------------------
(* Sums: SumFunctionOnSet of the community modules                         *)

\* SumFunctionOnSet takes the elements of a set in the order of CHOOSE; g is
\* the function that its recursion defines.
Sums(f, S, g) ==
    g = [s \in SUBSET S |->
            IF s = {} THEN 0
            ELSE f[CHOOSE x \in s : TRUE] + g[s \ {CHOOSE x \in s : TRUE}]]

LEMMA SumsExist ==
    ASSUME NEW f, NEW S, IsFiniteSet(S)
    PROVE  \E g : Sums(f, S, g)
<1> DEFINE Upto(k) == {s \in SUBSET S : Cardinality(s) <= k}
           Next(g, s) == IF s = {} THEN 0
                         ELSE f[CHOOSE x \in s : TRUE]
                                + g[s \ {CHOOSE x \in s : TRUE}]
           Solves(g, k) == g = [s \in Upto(k) |-> Next(g, s)]
           T == {k \in Nat : \E g : Solves(g, k)}
<1>1. \A s \in SUBSET S : IsFiniteSet(s) /\ Cardinality(s) \in Nat
                          /\ (Cardinality(s) = 0 <=> s = {})
  BY FS_Subset, FS_CardinalityType, FS_EmptySet
<1>2. 0 \in T
  <2> DEFINE g == [s \in Upto(0) |-> 0]
  <2>1. \A s \in Upto(0) : s = {}
    BY <1>1
  <2>2. Solves(g, 0)
    BY <2>1
  <2> QED
    BY <2>2
<1>3. ASSUME NEW k \in T PROVE k + 1 \in T
  <2>1. PICK g : Solves(g, k)
    OBVIOUS
  <2> DEFINE h == [s \in Upto(k + 1) |-> Next(g, s)]
  <2>2. ASSUME NEW s \in Upto(k + 1), s # {}
        PROVE  s \ {CHOOSE x \in s : TRUE} \in Upto(k)
    <3> DEFINE c == CHOOSE x \in s : TRUE
    <3>1. c \in s
      BY <2>2
    <3> HIDE DEF c
    <3>2. Cardinality(s \ {c}) = Cardinality(s) - 1
      BY <1>1, <3>1, FS_RemoveElement
    <3>3. Cardinality(s \ {c}) <= k
      BY <1>1, <3>2
    <3> QED
      BY <3>3 DEF c
  <2>3. \A s \in Upto(k) : s \in Upto(k + 1) /\ g[s] = Next(g, s)
    <3>1. \A s \in Upto(k) : s \in Upto(k + 1)
      BY <1>1
    <3> HIDE DEF Next, Upto
    <3> QED
      BY <2>1, <3>1
  <2>4. \A s \in Upto(k) : h[s] = g[s]
    <3> HIDE DEF Next, Upto
    <3> QED
      BY <2>3
  <2>5. \A s \in Upto(k + 1) : Next(h, s) = Next(g, s)
    <3> SUFFICES ASSUME NEW s \in Upto(k + 1) PROVE Next(h, s) = Next(g, s)
      OBVIOUS
    <3> HIDE DEF h, Upto
    <3>1. CASE s = {}
      BY <3>1
    <3>2. CASE s # {}
      <4>1. h[s \ {CHOOSE x \in s : TRUE}] = g[s \ {CHOOSE x \in s : TRUE}]
        BY <2>2, <2>4, <3>2, Zenon
      <4> QED
        BY <3>2, <4>1, Zenon
    <3> QED
      BY <3>1, <3>2
  <2>6. h = [s \in Upto(k + 1) |-> Next(h, s)]
    <3> HIDE DEF Next, Upto
    <3> QED
      BY <2>5
  <2>7. Solves(h, k + 1)
    BY <2>6, Zenon
  <2>8. k + 1 \in Nat
    OBVIOUS
  <2> HIDE DEF Solves, h
  <2> QED
    BY <2>7, <2>8
<1>4. Cardinality(S) \in T
  <2>1. \A n \in Nat : n \in T
    <3>1. T \in SUBSET Nat
      OBVIOUS
    <3> HIDE DEF T
    <3> QED
      BY <1>2, <1>3, <3>1, Induction
  <2> QED
    BY <1>1, <2>1
<1>5. Upto(Cardinality(S)) = SUBSET S
  BY <1>1, FS_Subset
<1>6. PICK g : Solves(g, Cardinality(S))
  BY <1>4
<1>7. g = [s \in SUBSET S |-> Next(g, s)]
  <2> HIDE DEF Upto, Next
  <2> QED
    BY <1>5, <1>6
<1> QED
  BY <1>7, Zenon DEF Sums

\* The sum over a set is what any of these functions says.
LEMMA SumIsSolution ==
    ASSUME NEW f, NEW S, IsFiniteSet(S)
    PROVE  \E g : Sums(f, S, g) /\ SumFunctionOnSet(f, S) = g[S]
<1>0. \E g : Sums(f, S, g)
  BY SumsExist
<1>1. \E g : g = [s \in SUBSET S |->
            IF s = {} THEN 0
            ELSE f[CHOOSE x \in s : TRUE] + g[s \ {CHOOSE x \in s : TRUE}]]
  BY <1>0, Zenon DEF Sums
<1>2. SumFunctionOnSet(f, S) = (CHOOSE it : it = [s \in SUBSET S |->
        IF s = {} THEN 0
        ELSE f[CHOOSE x \in s : TRUE] + it[s \ {CHOOSE x \in s : TRUE}]])[S]
  BY Zenon DEF SumFunctionOnSet, FoldFunctionOnSet, MapThenFoldSet
<1> QED
  BY <1>1, <1>2, Zenon DEF Sums

LEMMA SumsAgree ==
    ASSUME NEW f, NEW S, IsFiniteSet(S), NEW R \in SUBSET S, NEW g, NEW h,
           Sums(f, S, g), Sums(f, R, h)
    PROVE  \A s \in SUBSET R : g[s] = h[s]
<1> DEFINE T == {k \in Nat : \A s \in SUBSET R : Cardinality(s) = k => g[s] = h[s]}
<1>1. \A s \in SUBSET R : IsFiniteSet(s) /\ Cardinality(s) \in Nat
                          /\ (Cardinality(s) = 0 <=> s = {}) /\ s \in SUBSET S
  BY FS_Subset, FS_CardinalityType, FS_EmptySet
<1>2. 0 \in T
  BY <1>1 DEF Sums
<1>3. ASSUME NEW k \in T PROVE k + 1 \in T
  <2> SUFFICES ASSUME NEW s \in SUBSET R, Cardinality(s) = k + 1
               PROVE  g[s] = h[s]
    OBVIOUS
  <2> DEFINE c == CHOOSE x \in s : TRUE
  <2>1. s # {}
    BY <1>1
  <2>2. c \in s
    BY <2>1
  <2>3. g[s] = f[c] + g[s \ {c}] /\ h[s] = f[c] + h[s \ {c}]
    BY <1>1, <2>1 DEF Sums
  <2> HIDE DEF c
  <2>4. Cardinality(s \ {c}) = k
    BY <1>1, <2>2, FS_RemoveElement
  <2> QED
    BY <2>3, <2>4
<1>4. \A n \in Nat : n \in T
  <2>1. T \in SUBSET Nat
    OBVIOUS
  <2> HIDE DEF T
  <2> QED
    BY <1>2, <1>3, <2>1, Induction
<1> QED
  BY <1>1, <1>4

\* A sum is its first element and the sum of the others.
LEMMA SumStep ==
    ASSUME NEW f, NEW S, IsFiniteSet(S)
    PROVE  SumFunctionOnSet(f, S)
             = IF S = {} THEN 0
               ELSE f[CHOOSE x \in S : TRUE]
                      + SumFunctionOnSet(f, S \ {CHOOSE x \in S : TRUE})
<1> DEFINE c == CHOOSE x \in S : TRUE
           R == S \ {c}
<1>1. PICK g : Sums(f, S, g) /\ SumFunctionOnSet(f, S) = g[S]
  BY SumIsSolution
<1>2. g[S] = IF S = {} THEN 0 ELSE f[c] + g[R]
  BY <1>1 DEF Sums
<1>3. R \in SUBSET S /\ IsFiniteSet(R)
  BY FS_Subset
<1> HIDE DEF R
<1>4. PICK h : Sums(f, R, h) /\ SumFunctionOnSet(f, R) = h[R]
  BY <1>3, SumIsSolution
<1>5. h[R] = g[R]
  BY <1>1, <1>3, <1>4, SumsAgree
<1> QED
  BY <1>1, <1>2, <1>4, <1>5 DEF R

\* A sum of numbers is a number.
LEMMA SumType ==
    ASSUME NEW f, NEW S, IsFiniteSet(S), \A x \in S : f[x] \in Int
    PROVE  \A s \in SUBSET S : SumFunctionOnSet(f, s) \in Int
<1> DEFINE T == {k \in Nat : \A s \in SUBSET S :
                     Cardinality(s) = k => SumFunctionOnSet(f, s) \in Int}
<1>1. \A s \in SUBSET S : IsFiniteSet(s) /\ Cardinality(s) \in Nat
                          /\ (Cardinality(s) = 0 <=> s = {})
  BY FS_Subset, FS_CardinalityType, FS_EmptySet
<1>2. 0 \in T
  <2>1. SumFunctionOnSet(f, {}) = 0
    BY SumStep, FS_EmptySet
  <2> QED
    BY <1>1, <2>1
<1>3. ASSUME NEW k \in T PROVE k + 1 \in T
  <2> SUFFICES ASSUME NEW s \in SUBSET S, Cardinality(s) = k + 1
               PROVE  SumFunctionOnSet(f, s) \in Int
    OBVIOUS
  <2> DEFINE c == CHOOSE x \in s : TRUE
  <2>1. s # {}
    BY <1>1
  <2>2. c \in s
    BY <2>1
  <2>3. SumFunctionOnSet(f, s) = f[c] + SumFunctionOnSet(f, s \ {c})
    BY <1>1, <2>1, SumStep
  <2> HIDE DEF c
  <2>4. Cardinality(s \ {c}) = k
    BY <1>1, <2>2, FS_RemoveElement
  <2>5. SumFunctionOnSet(f, s \ {c}) \in Int
    BY <2>4
  <2> QED
    BY <2>2, <2>3, <2>5
<1>4. \A n \in Nat : n \in T
  <2>1. T \in SUBSET Nat
    OBVIOUS
  <2> HIDE DEF T
  <2> QED
    BY <1>2, <1>3, <2>1, Induction
<1> QED
  BY <1>1, <1>4

\* The elements of a sum may come in any order.
LEMMA SumAnyOrder ==
    ASSUME NEW f, NEW S, IsFiniteSet(S), \A x \in S : f[x] \in Int
    PROVE  \A x \in S : SumFunctionOnSet(f, S)
                          = f[x] + SumFunctionOnSet(f, S \ {x})
<1> DEFINE Good(s) == \A x \in s : SumFunctionOnSet(f, s)
                                     = f[x] + SumFunctionOnSet(f, s \ {x})
           T == {k \in Nat : \A s \in SUBSET S : Cardinality(s) = k => Good(s)}
<1>1. \A s \in SUBSET S : IsFiniteSet(s) /\ Cardinality(s) \in Nat
                          /\ (Cardinality(s) = 0 <=> s = {})
  BY FS_Subset, FS_CardinalityType, FS_EmptySet
<1>2. 0 \in T
  BY <1>1
<1>3. ASSUME NEW k \in T PROVE k + 1 \in T
  <2> SUFFICES ASSUME NEW s \in SUBSET S, Cardinality(s) = k + 1
               PROVE  Good(s)
    OBVIOUS
  <2> DEFINE c == CHOOSE x \in s : TRUE
  <2>1. s # {}
    BY <1>1
  <2>2. c \in s
    BY <2>1
  <2>3. SumFunctionOnSet(f, s) = f[c] + SumFunctionOnSet(f, s \ {c})
    BY <1>1, <2>1, SumStep
  <2> HIDE DEF c
  <2>4. Good(s \ {c})
    <3>1. Cardinality(s \ {c}) = k
      BY <1>1, <2>2, FS_RemoveElement
    <3> HIDE DEF Good
    <3> QED
      BY <3>1
  <2>5. ASSUME NEW x \in s, x # c
        PROVE  SumFunctionOnSet(f, s) = f[x] + SumFunctionOnSet(f, s \ {x})
    <3>1. SumFunctionOnSet(f, s \ {c})
            = f[x] + SumFunctionOnSet(f, (s \ {c}) \ {x})
      BY <2>4, <2>5
    <3>2. Good(s \ {x})
      <4>1. Cardinality(s \ {x}) = k
        <5> HIDE DEF T, Good
        <5>1. k \in Nat
          BY DEF T
        <5> QED
          BY <1>1, <5>1, FS_RemoveElement
      <4> HIDE DEF Good
      <4> QED
        BY <4>1
    <3>3. SumFunctionOnSet(f, s \ {x})
            = f[c] + SumFunctionOnSet(f, (s \ {x}) \ {c})
      BY <2>2, <2>5, <3>2
    <3> DEFINE a == SumFunctionOnSet(f, (s \ {x}) \ {c})
    <3>4. a \in Int /\ f[x] \in Int /\ f[c] \in Int
      BY <2>2, SumType
    <3>5. (s \ {c}) \ {x} = (s \ {x}) \ {c}
      OBVIOUS
    <3>6. SumFunctionOnSet(f, s \ {c}) = f[x] + a
      BY <3>1, <3>5
    <3>7. f[c] + (f[x] + a) = f[x] + (f[c] + a)
      BY <3>4
    <3> HIDE DEF a, T, Good
    <3> QED
      BY <2>3, <3>3, <3>6, <3>7 DEF a
  <2> QED
    BY <2>3, <2>5
<1>4. \A n \in Nat : n \in T
  <2>1. T \in SUBSET Nat
    OBVIOUS
  <2> HIDE DEF T
  <2> QED
    BY <1>2, <1>3, <2>1, Induction
<1>5. Good(S)
  <2> HIDE DEF Good
  <2> QED
    BY <1>1, <1>4
<1> QED
  BY <1>5

\* What a list of numbers adds up to before its n-th place, and behind it.
LEMMA SumUpTo ==
    ASSUME NEW f, NEW n \in Nat, \A i \in 1 .. n : f[i] \in Nat
    PROVE  /\ SumFunctionOnSet(f, 1 .. 0) = 0
           /\ \A i \in 0 .. n : SumFunctionOnSet(f, 1 .. i) \in Nat
           /\ \A i \in 1 .. n : SumFunctionOnSet(f, 1 .. i)
                                  = SumFunctionOnSet(f, 1 .. i - 1) + f[i]
<1>1. SumFunctionOnSet(f, 1 .. 0) = 0
  <2>1. 1 .. 0 = {}
    OBVIOUS
  <2> QED
    BY <2>1, SumStep, FS_EmptySet
<1>2. ASSUME NEW i \in 1 .. n
      PROVE  /\ SumFunctionOnSet(f, 1 .. i) = SumFunctionOnSet(f, 1 .. i - 1) + f[i]
             /\ SumFunctionOnSet(f, 1 .. i - 1) \in Int
  <2> DEFINE S == 1 .. i
             R == 1 .. i - 1
  <2>1. i \in Nat /\ i - 1 \in Nat /\ i \in S /\ S \ {i} = R
    OBVIOUS
  <2>2. IsFiniteSet(S)
    BY <2>1, IntervalCardinality
  <2>3. \A x \in S : f[x] \in Int
    OBVIOUS
  <2>4. R \in SUBSET S /\ f[i] \in Int
    OBVIOUS
  <2> HIDE DEF S, R
  <2>5. SumFunctionOnSet(f, S) = f[i] + SumFunctionOnSet(f, R)
    <3>1. \A x \in S : SumFunctionOnSet(f, S) = f[x] + SumFunctionOnSet(f, S \ {x})
      BY <2>2, <2>3, SumAnyOrder
    <3> QED
      BY <2>1, <3>1
  <2>6. SumFunctionOnSet(f, R) \in Int
    BY <2>2, <2>3, <2>4, SumType
  <2> QED
    BY <2>4, <2>5, <2>6 DEF S, R
<1> DEFINE T == {i \in Nat : i <= n => SumFunctionOnSet(f, 1 .. i) \in Nat}
<1>3. 0 \in T
  BY <1>1
<1>4. ASSUME NEW i \in T PROVE i + 1 \in T
  <2> SUFFICES ASSUME i + 1 <= n PROVE SumFunctionOnSet(f, 1 .. i + 1) \in Nat
    OBVIOUS
  <2>1. i + 1 \in 1 .. n /\ 1 .. (i + 1) - 1 = 1 .. i
        /\ SumFunctionOnSet(f, 1 .. i) \in Nat /\ f[i + 1] \in Nat
    OBVIOUS
  <2> HIDE DEF T
  <2>2. SumFunctionOnSet(f, 1 .. i + 1) = SumFunctionOnSet(f, 1 .. i) + f[i + 1]
    <3>1. SumFunctionOnSet(f, 1 .. i + 1)
            = SumFunctionOnSet(f, 1 .. (i + 1) - 1) + f[i + 1]
      BY <1>2, <2>1, Zenon
    <3> QED
      BY <2>1, <3>1, Zenon
  <2> QED
    BY <2>1, <2>2
<1>5. \A i \in Nat : i \in T
  <2>1. T \in SUBSET Nat
    OBVIOUS
  <2> HIDE DEF T
  <2> QED
    BY <1>3, <1>4, <2>1, Induction
<1> QED
  BY <1>1, <1>2, <1>5

-----------------------------------------------------------------------------
(* Lists of lists: FlattenSeq of the community modules                    *)

Lengths(ss) == [i \in DOMAIN ss |-> Len(ss[i])]

\* The places of the lists before the n-th.
Ahead(ss, n) == SumFunctionOnSet(Lengths(ss), 1 .. n)

Flattens(ss, n, g) ==
    g = [i \in 1 .. n |-> IF i = 1 THEN ss[i] ELSE g[i - 1] \o ss[i]]

LEMMA FlatteningsExist ==
    ASSUME NEW ss, NEW n \in Nat
    PROVE  \E g : Flattens(ss, n, g)
<1> DEFINE T == {k \in Nat : \E g : Flattens(ss, k, g)}
<1>1. 0 \in T
  <2> DEFINE g == [i \in 1 .. 0 |-> <<>>]
  <2>1. Flattens(ss, 0, g)
    BY DEF Flattens
  <2> QED
    BY <2>1
<1>2. ASSUME NEW k \in T PROVE k + 1 \in T
  <2>1. PICK g : Flattens(ss, k, g)
    OBVIOUS
  <2> DEFINE Next(v, i) == IF i = 1 THEN ss[i] ELSE v[i - 1] \o ss[i]
             h == [i \in 1 .. k + 1 |-> Next(g, i)]
  <2>2. \A i \in 1 .. k : h[i] = g[i]
    <3>1. g = [i \in 1 .. k |-> Next(g, i)]
      BY <2>1, Zenon DEF Flattens
    <3>2. k \in Nat
      OBVIOUS
    <3> HIDE DEF Next, T
    <3> QED
      BY <3>1, <3>2
  <2>3. \A i \in 1 .. k + 1 : Next(h, i) = Next(g, i)
    <3> SUFFICES ASSUME NEW i \in 1 .. k + 1 PROVE Next(h, i) = Next(g, i)
      OBVIOUS
    <3> HIDE DEF h
    <3>1. CASE i = 1
      BY <3>1
    <3>2. CASE i # 1
      <4>1. i - 1 \in 1 .. k
        BY <3>2
      <4>2. h[i - 1] = g[i - 1]
        BY <2>2, <4>1
      <4> QED
        BY <3>2, <4>2, Zenon
    <3> QED
      BY <3>1, <3>2
  <2>4. h = [i \in 1 .. k + 1 |-> Next(h, i)]
    <3> HIDE DEF Next
    <3> QED
      BY <2>3
  <2>5. Flattens(ss, k + 1, h)
    BY <2>4, Zenon DEF Flattens
  <2>6. k + 1 \in Nat
    OBVIOUS
  <2> HIDE DEF h
  <2> QED
    BY <2>5, <2>6
<1>3. \A k \in Nat : k \in T
  <2>1. T \in SUBSET Nat
    OBVIOUS
  <2> HIDE DEF T
  <2> QED
    BY <1>1, <1>2, <2>1, Induction
<1> QED
  BY <1>3

\* Every element of every list has a place of its own in the flattened list,
\* behind the elements of the lists before, and nothing else is in it.
LEMMA FlattenFacts ==
    ASSUME NEW U, NEW ss \in Seq(Seq(U))
    PROVE  /\ FlattenSeq(ss) \in Seq(U)
           /\ Len(FlattenSeq(ss)) = Ahead(ss, Len(ss))
           /\ Ahead(ss, 0) = 0
           /\ \A i \in 0 .. Len(ss) : Ahead(ss, i) \in Nat
           /\ \A i \in 1 .. Len(ss) : Ahead(ss, i) = Ahead(ss, i - 1) + Len(ss[i])
           /\ \A i \in 1 .. Len(ss) : \A j \in 1 .. Len(ss[i]) :
                 FlattenSeq(ss)[Ahead(ss, i - 1) + j] = ss[i][j]
           /\ \A k \in 1 .. Len(FlattenSeq(ss)) :
                 \E i \in 1 .. Len(ss) : \E j \in 1 .. Len(ss[i]) :
                     k = Ahead(ss, i - 1) + j
<1> DEFINE n == Len(ss)
<1>1. n \in Nat /\ DOMAIN ss = 1 .. n
  OBVIOUS
<1>2. \A i \in 1 .. n : ss[i] \in Seq(U) /\ Len(ss[i]) \in Nat
  OBVIOUS
<1>3. /\ Ahead(ss, 0) = 0
      /\ \A i \in 0 .. n : Ahead(ss, i) \in Nat
      /\ \A i \in 1 .. n : Ahead(ss, i) = Ahead(ss, i - 1) + Len(ss[i])
  <2>1. \A i \in 1 .. n : Lengths(ss)[i] = Len(ss[i])
    BY <1>1 DEF Lengths
  <2>2. \A i \in 1 .. n : Lengths(ss)[i] \in Nat
    BY <1>2, <2>1
  <2> HIDE DEF n
  <2> QED
    BY <1>1, <2>1, <2>2, SumUpTo DEF Ahead
<1>4. CASE n = 0
  <2>1. ss = <<>> /\ FlattenSeq(ss) = <<>>
    BY <1>4 DEF FlattenSeq
  <2>2. Len(FlattenSeq(ss)) = 0 /\ FlattenSeq(ss) \in Seq(U) /\ Len(ss) = 0
    BY <1>4, <2>1, EmptySeq
  <2>3. 1 .. 0 = {}
    OBVIOUS
  <2> HIDE DEF n
  <2> QED
    BY <1>3, <1>4, <2>2, <2>3 DEF n
<1>5. CASE n # 0
  <2>0. \E g : Flattens(ss, n, g)
    BY <1>1, FlatteningsExist
  <2>1. PICK h : Flattens(ss, n, h) /\ FlattenSeq(ss) = h[n]
    <3>1. \E g : g = [i \in 1 .. n |-> IF i = 1 THEN ss[i] ELSE g[i - 1] \o ss[i]]
      BY <2>0, Zenon DEF Flattens
    <3> QED
      BY <1>5, <3>1, Zenon DEF FlattenSeq, Flattens
  <2> DEFINE Good(m) ==
               /\ h[m] \in Seq(U) /\ Len(h[m]) = Ahead(ss, m)
               /\ \A i \in 1 .. m : \A j \in 1 .. Len(ss[i]) :
                     h[m][Ahead(ss, i - 1) + j] = ss[i][j]
               /\ \A k \in 1 .. Ahead(ss, m) :
                     \E i \in 1 .. m : \E j \in 1 .. Len(ss[i]) :
                         k = Ahead(ss, i - 1) + j
             T == {m \in Nat : m + 1 <= n => Good(m + 1)}
  <2>2. 0 \in T
    <3>1. h[1] = ss[1]
      BY <1>5, <2>1 DEF Flattens
    <3>2. Ahead(ss, 1) = Len(ss[1]) /\ 1 \in 1 .. n
      BY <1>1, <1>2, <1>3, <1>5
    <3>3. Good(1)
      BY <1>2, <1>3, <3>1, <3>2
    <3> HIDE DEF Good
    <3> QED
      BY <3>3
  <2>3. ASSUME NEW m \in T PROVE m + 1 \in T
    <3> SUFFICES ASSUME m + 1 + 1 <= n PROVE Good(m + 1 + 1)
      <4> HIDE DEF Good
      <4> QED
        OBVIOUS
    <3> DEFINE p == m + 1
               q == p + 1
    <3>1. p \in 1 .. n /\ q \in 1 .. n /\ q - 1 = p /\ q # 1
      OBVIOUS
    <3>2. Good(p)
      <4> HIDE DEF Good
      <4> QED
        OBVIOUS
    <3> HIDE DEF p, q, T
    <3>3. h[q] = h[p] \o ss[q]
      BY <2>1, <3>1 DEF Flattens
    <3>4. ss[q] \in Seq(U)
      BY <1>2, <3>1
    <3>5. /\ h[q] \in Seq(U) /\ Len(h[q]) = Len(h[p]) + Len(ss[q])
          /\ \A i \in 1 .. Len(h[p]) + Len(ss[q]) :
                h[q][i] = IF i <= Len(h[p]) THEN h[p][i] ELSE ss[q][i - Len(h[p])]
      <4>1. h[p] \in Seq(U)
        BY <3>2
      <4> HIDE DEF Good
      <4>2. /\ h[p] \o ss[q] \in Seq(U)
            /\ Len(h[p] \o ss[q]) = Len(h[p]) + Len(ss[q])
            /\ \A i \in 1 .. Len(h[p]) + Len(ss[q]) :
                  (h[p] \o ss[q])[i]
                    = IF i <= Len(h[p]) THEN h[p][i] ELSE ss[q][i - Len(h[p])]
        BY <3>4, <4>1, ConcatProperties, Zenon
      <4> QED
        BY <3>3, <4>2, Zenon
    <3>6. Ahead(ss, q) = Ahead(ss, p) + Len(ss[q])
          /\ Ahead(ss, p) \in Nat /\ Len(ss[q]) \in Nat
      BY <1>2, <1>3, <3>1
    <3>7. ASSUME NEW i \in 1 .. q, NEW j \in 1 .. Len(ss[i])
          PROVE  h[q][Ahead(ss, i - 1) + j] = ss[i][j]
      <4>1. CASE i = q
        <5>1. Len(h[p]) = Ahead(ss, p)
          BY <3>2
        <5> HIDE DEF Good
        <5>2. j \in 1 .. Len(ss[q]) /\ i - 1 = p
          BY <3>1, <4>1
        <5>3. h[q][Ahead(ss, p) + j] = ss[q][(Ahead(ss, p) + j) - Ahead(ss, p)]
          <6> DEFINE x == Ahead(ss, p) + j
          <6>1. x \in 1 .. Len(h[p]) + Len(ss[q]) /\ ~(x <= Len(h[p]))
            BY <3>6, <5>1, <5>2
          <6> HIDE DEF x
          <6>2. h[q][x] = ss[q][x - Len(h[p])]
            BY <3>5, <6>1, Zenon
          <6> QED
            BY <5>1, <6>2, Zenon DEF x
        <5>4. (Ahead(ss, p) + j) - Ahead(ss, p) = j
          BY <3>6, <5>2
        <5> QED
          BY <4>1, <5>2, <5>3, <5>4
      <4>2. CASE i # q
        <5>1. i \in 1 .. p /\ i \in 1 .. n
          BY <3>1, <4>2
        <5>2. h[p][Ahead(ss, i - 1) + j] = ss[i][j]
          BY <3>2, <5>1
        <5>3. Ahead(ss, i) <= Ahead(ss, p)
          <6> DEFINE M == {k \in Nat : k \in i .. p => Ahead(ss, i) <= Ahead(ss, k)}
          <6>1. 0 \in M
            BY <5>1
          <6>2. ASSUME NEW k \in M PROVE k + 1 \in M
            <7> SUFFICES ASSUME k + 1 \in i .. p
                         PROVE  Ahead(ss, i) <= Ahead(ss, k + 1)
              OBVIOUS
            <7>1. CASE k + 1 = i
              BY <1>3, <5>1, <7>1
            <7>2. CASE k + 1 # i
              <8>1. k \in i .. p /\ k + 1 \in 1 .. n /\ k \in 0 .. n
                    /\ (k + 1) - 1 = k
                BY <3>1, <5>1, <7>2
              <8>2. Ahead(ss, k + 1) = Ahead(ss, k) + Len(ss[k + 1])
                BY <1>3, <8>1
              <8>3. Ahead(ss, i) <= Ahead(ss, k)
                BY <8>1
              <8>4. Ahead(ss, i) \in Nat /\ Ahead(ss, k) \in Nat
                    /\ Len(ss[k + 1]) \in Nat
                BY <1>2, <1>3, <5>1, <8>1, SMTT(20)
              <8> QED
                BY ONLY <8>2, <8>3, <8>4
            <7> QED
              BY <7>1, <7>2
          <6>3. \A k \in Nat : k \in M
            <7>1. M \in SUBSET Nat
              OBVIOUS
            <7> HIDE DEF M
            <7> QED
              BY <6>1, <6>2, <7>1, Induction
          <6>4. p \in Nat /\ p \in i .. p
            BY <3>1, <5>1
          <6> QED
            BY <6>3, <6>4
        <5>4. Ahead(ss, i) = Ahead(ss, i - 1) + Len(ss[i])
              /\ Ahead(ss, i - 1) \in Nat /\ Len(ss[i]) \in Nat
          BY <1>2, <1>3, <5>1
        <5>6. Len(h[p]) = Ahead(ss, p)
          BY <3>2
        <5>5. Ahead(ss, i - 1) + j \in 1 .. Len(h[p])
          BY <3>6, <5>3, <5>4, <5>6, SMTT(20)
        <5> HIDE DEF Good
        <5>7. h[q][Ahead(ss, i - 1) + j] = h[p][Ahead(ss, i - 1) + j]
          <6> DEFINE x == Ahead(ss, i - 1) + j
          <6>1. x \in 1 .. Len(h[p]) + Len(ss[q]) /\ x <= Len(h[p])
            BY <3>6, <5>5, <5>6
          <6> HIDE DEF x
          <6>2. h[q][x] = h[p][x]
            BY <3>5, <6>1, Zenon
          <6> QED
            BY <6>2, Zenon DEF x
        <5> QED
          BY <5>2, <5>7
      <4> QED
        BY <4>1, <4>2
    <3>8. ASSUME NEW k \in 1 .. Ahead(ss, q)
          PROVE  \E i \in 1 .. q : \E j \in 1 .. Len(ss[i]) : k = Ahead(ss, i - 1) + j
      <4>1. CASE k <= Ahead(ss, p)
        <5>1. PICK i \in 1 .. p : \E j \in 1 .. Len(ss[i]) : k = Ahead(ss, i - 1) + j
          BY <3>2, <3>6, <4>1
        <5>2. i \in 1 .. q
          BY <3>1
        <5> QED
          BY <5>1, <5>2
      <4>2. CASE k > Ahead(ss, p)
        <5> DEFINE j == k - Ahead(ss, p)
        <5>1. j \in 1 .. Len(ss[q]) /\ k = Ahead(ss, q - 1) + j /\ q \in 1 .. q
          BY <3>1, <3>6, <4>2
        <5> QED
          BY <5>1
      <4> QED
        BY <3>6, <4>1, <4>2
    <3>9. Len(h[q]) = Ahead(ss, q)
      BY <3>2, <3>5, <3>6
    <3>10. Good(q)
      BY <3>5, <3>7, <3>8, <3>9
    <3> QED
      BY <3>10 DEF q, p
  <2>4. \A m \in Nat : m \in T
    <3>1. T \in SUBSET Nat
      OBVIOUS
    <3> HIDE DEF T
    <3> QED
      BY <2>2, <2>3, <3>1, Induction
  <2>5. Good(n)
    <3>1. n - 1 \in Nat /\ n - 1 + 1 = n
      BY <1>1, <1>5
    <3> HIDE DEF Good, n, T
    <3>2. n - 1 \in T
      BY <2>4, <3>1
    <3>3. n - 1 + 1 <= n
      BY <1>1
    <3>4. Good(n - 1 + 1)
      BY <3>2, <3>3, Zenon DEF T
    <3> QED
      BY <3>1, <3>4, Zenon
  <2> QED
    BY <1>3, <2>1, <2>5
<1> QED
  BY <1>4, <1>5

\* Lists only add to what is ahead.
LEMMA AheadGrows ==
    ASSUME NEW U, NEW ss \in Seq(Seq(U)), NEW i \in 0 .. Len(ss),
           NEW m \in i .. Len(ss)
    PROVE  Ahead(ss, i) <= Ahead(ss, m)
<1> DEFINE M == {k \in Nat : k \in i .. Len(ss) => Ahead(ss, i) <= Ahead(ss, k)}
<1>1. /\ \A k \in 0 .. Len(ss) : Ahead(ss, k) \in Nat
      /\ \A k \in 1 .. Len(ss) : Ahead(ss, k) = Ahead(ss, k - 1) + Len(ss[k])
  BY FlattenFacts
<1>2. Len(ss) \in Nat /\ \A k \in 1 .. Len(ss) : Len(ss[k]) \in Nat
  OBVIOUS
<1>3. 0 \in M
  BY <1>1
<1>4. ASSUME NEW k \in M PROVE k + 1 \in M
  <2> SUFFICES ASSUME k + 1 \in i .. Len(ss)
               PROVE  Ahead(ss, i) <= Ahead(ss, k + 1)
    OBVIOUS
  <2>1. CASE k + 1 = i
    BY <1>1, <2>1
  <2>2. CASE k + 1 # i
    <3>1. k \in i .. Len(ss) /\ k + 1 \in 1 .. Len(ss) /\ (k + 1) - 1 = k
      BY <1>2, <2>2
    <3>2. Ahead(ss, k + 1) = Ahead(ss, k) + Len(ss[k + 1])
      BY <1>1, <3>1
    <3>3. Ahead(ss, i) <= Ahead(ss, k)
      BY <3>1
    <3>4. Ahead(ss, i) \in Nat /\ Ahead(ss, k) \in Nat /\ Len(ss[k + 1]) \in Nat
      BY <1>1, <1>2, <3>1
    <3> QED
      BY <3>2, <3>3, <3>4
  <2> QED
    BY <2>1, <2>2
<1>5. \A k \in Nat : k \in M
  <2>1. M \in SUBSET Nat
    OBVIOUS
  <2> HIDE DEF M
  <2> QED
    BY <1>3, <1>4, <2>1, Induction
<1>6. m \in Nat
  BY <1>2
<1> QED
  BY <1>5, <1>6

\* Each list can be cut out of the flattened list at its place.
LEMMA FlattenSlice ==
    ASSUME NEW U, NEW ss \in Seq(Seq(U)), NEW i \in 1 .. Len(ss)
    PROVE  SubSeq(FlattenSeq(ss), Ahead(ss, i - 1) + 1,
                  Ahead(ss, i - 1) + Len(ss[i])) = ss[i]
<1> DEFINE a == Ahead(ss, i - 1)
           l == Len(ss[i])
           fs == FlattenSeq(ss)
<1>1. /\ \A j \in 1 .. l : fs[a + j] = ss[i][j]
      /\ Ahead(ss, i) = a + l /\ Len(fs) = Ahead(ss, Len(ss)) /\ fs \in Seq(U)
  BY FlattenFacts
<1>2. a \in Nat /\ Ahead(ss, Len(ss)) \in Nat
  <2>1. i - 1 \in 0 .. Len(ss) /\ Len(ss) \in 0 .. Len(ss)
    OBVIOUS
  <2> QED
    BY <2>1, FlattenFacts
<1>3. ss[i] \in Seq(U) /\ l \in Nat
  OBVIOUS
<1>4. a + l <= Len(fs)
  <2>1. i \in 0 .. Len(ss) /\ Len(ss) \in i .. Len(ss)
    OBVIOUS
  <2>2. Ahead(ss, i) <= Ahead(ss, Len(ss))
    BY <2>1, AheadGrows
  <2> QED
    BY <1>1, <2>2
<1> HIDE DEF a, l, fs
<1>5. \A k \in a + 1 .. a + l : fs[k] \in U
  BY <1>1, <1>2, <1>3, <1>4
<1> DEFINE cut == SubSeq(fs, a + 1, a + l)
<1>6. /\ cut \in Seq(U)
      /\ Len(cut) = IF a + 1 <= a + l THEN (a + l) - (a + 1) + 1 ELSE 0
      /\ \A k \in 1 .. (a + l) - (a + 1) + 1 : cut[k] = fs[((a + 1) + k) - 1]
  <2>1. a + 1 \in Int /\ a + l \in Int
    BY <1>2, <1>3
  <2> DEFINE x == a + 1
             y == a + l
  <2>2. x \in Int /\ y \in Int /\ \A k \in x .. y : fs[k] \in U
    BY <1>5, <2>1
  <2> HIDE DEF x, y
  <2>3. /\ SubSeq(fs, x, y) \in Seq(U)
        /\ Len(SubSeq(fs, x, y)) = IF x <= y THEN y - x + 1 ELSE 0
        /\ \A k \in 1 .. y - x + 1 : SubSeq(fs, x, y)[k] = fs[x + k - 1]
    BY <2>2, SubSeqProperties
  <2>4. \A k \in 1 .. y - x + 1 : x + k - 1 = (x + k) - 1
    BY <2>2
  <2> QED
    BY <2>3, <2>4 DEF x, y
<1>7. Len(cut) = l
  BY <1>2, <1>3, <1>6
<1>8. ASSUME NEW k \in 1 .. l PROVE cut[k] = ss[i][k]
  <2>1. k \in 1 .. (a + l) - (a + 1) + 1 /\ ((a + 1) + k) - 1 = a + k
    BY <1>2, <1>3
  <2> HIDE DEF cut
  <2> QED
    BY <1>1, <1>6, <2>1
<1>9. cut = ss[i]
  <2>1. Len(ss[i]) = l
    BY DEF l
  <2> HIDE DEF cut
  <2> QED
    BY <1>3, <1>6, <1>7, <1>8, <2>1, SeqEqual
<1> QED
  BY <1>9 DEF a, l, fs

\* A sum of zeros and ones counts the ones.
LEMMA SumCounts ==
    ASSUME NEW f, NEW n \in Nat, \A i \in 1 .. n : f[i] \in {0, 1}
    PROVE  /\ IsFiniteSet({i \in 1 .. n : f[i] = 1})
           /\ SumFunctionOnSet(f, 1 .. n) = Cardinality({i \in 1 .. n : f[i] = 1})
<1> DEFINE Ones(k) == {i \in 1 .. k : f[i] = 1}
           T == {k \in Nat : k <= n =>
                    SumFunctionOnSet(f, 1 .. k) = Cardinality(Ones(k))}
<1>1. \A k \in Nat : IsFiniteSet(Ones(k)) /\ Cardinality(Ones(k)) \in Nat
  <2> SUFFICES ASSUME NEW k \in Nat
               PROVE  IsFiniteSet(Ones(k)) /\ Cardinality(Ones(k)) \in Nat
    OBVIOUS
  <2>1. IsFiniteSet(1 .. k)
    BY IntervalCardinality
  <2>2. Ones(k) \in SUBSET (1 .. k)
    OBVIOUS
  <2> HIDE DEF Ones
  <2> QED
    BY <2>1, <2>2, FS_Subset, FS_CardinalityType
<1>2. \A i \in 1 .. n : f[i] \in Nat
  OBVIOUS
<1>3. /\ SumFunctionOnSet(f, 1 .. 0) = 0
      /\ \A i \in 1 .. n : SumFunctionOnSet(f, 1 .. i)
                             = SumFunctionOnSet(f, 1 .. i - 1) + f[i]
  BY <1>2, SumUpTo
<1>4. 0 \in T
  <2>1. Ones(0) = {}
    OBVIOUS
  <2> QED
    BY <1>3, <2>1, FS_EmptySet
<1>5. ASSUME NEW k \in T PROVE k + 1 \in T
  <2> SUFFICES ASSUME k + 1 <= n
               PROVE  SumFunctionOnSet(f, 1 .. k + 1) = Cardinality(Ones(k + 1))
    OBVIOUS
  <2>1. k \in Nat /\ k + 1 \in 1 .. n /\ (k + 1) - 1 = k
        /\ SumFunctionOnSet(f, 1 .. k) = Cardinality(Ones(k))
        /\ f[k + 1] \in {0, 1}
    OBVIOUS
  <2>2. SumFunctionOnSet(f, 1 .. k + 1) = Cardinality(Ones(k)) + f[k + 1]
    <3>1. SumFunctionOnSet(f, 1 .. k + 1)
            = SumFunctionOnSet(f, 1 .. (k + 1) - 1) + f[k + 1]
      BY <1>3, <2>1, Zenon
    <3> QED
      BY <2>1, <3>1, Zenon
  <2>3. CASE f[k + 1] = 0
    <3>1. Ones(k + 1) = Ones(k)
      BY <2>1, <2>3
    <3> HIDE DEF Ones, T
    <3> QED
      BY <1>1, <2>1, <2>2, <2>3, <3>1
  <2>4. CASE f[k + 1] = 1
    <3>1. Ones(k + 1) = Ones(k) \cup {k + 1} /\ k + 1 \notin Ones(k)
      BY <2>1, <2>4
    <3> HIDE DEF Ones, T
    <3>2. Cardinality(Ones(k) \cup {k + 1}) = Cardinality(Ones(k)) + 1
      BY <1>1, <2>1, <3>1, FS_AddElement
    <3> QED
      BY <2>2, <2>4, <3>1, <3>2
  <2> QED
    BY <2>1, <2>3, <2>4
<1>6. n \in T
  <2>1. T \in SUBSET Nat
    OBVIOUS
  <2> HIDE DEF T
  <2> QED
    BY <1>4, <1>5, <2>1, Induction
<1> QED
  BY <1>1, <1>6

\* A sum over two lists, one behind the other, is the sum of the two sums.
LEMMA SumSplits ==
    ASSUME NEW f, NEW g, NEW a \in Nat, NEW l \in Nat,
           \A i \in 1 .. a + l : f[i] \in Nat,
           \A j \in 1 .. l : g[j] = f[a + j]
    PROVE  SumFunctionOnSet(f, 1 .. a + l)
             = SumFunctionOnSet(f, 1 .. a) + SumFunctionOnSet(g, 1 .. l)
<1> DEFINE F(k) == SumFunctionOnSet(f, 1 .. k)
           G(k) == SumFunctionOnSet(g, 1 .. k)
           T == {k \in Nat : k <= l => F(a + k) = F(a) + G(k)}
<1>1. a + l \in Nat /\ \A j \in 1 .. l : g[j] \in Nat
  OBVIOUS
<1>2. /\ \A k \in 0 .. a + l : F(k) \in Nat
      /\ \A k \in 1 .. a + l : F(k) = F(k - 1) + f[k]
  BY <1>1, SumUpTo
<1>3. /\ G(0) = 0 /\ \A k \in 0 .. l : G(k) \in Nat
      /\ \A k \in 1 .. l : G(k) = G(k - 1) + g[k]
  BY <1>1, SumUpTo
<1> HIDE DEF F, G
<1>4. 0 \in T
  BY <1>2, <1>3
<1>5. ASSUME NEW k \in T PROVE k + 1 \in T
  <2> SUFFICES ASSUME k + 1 <= l PROVE F(a + (k + 1)) = F(a) + G(k + 1)
    OBVIOUS
  <2>1. /\ k + 1 \in 1 .. l /\ a + (k + 1) \in 1 .. a + l
        /\ (k + 1) - 1 = k /\ (a + (k + 1)) - 1 = a + k
        /\ F(a + k) = F(a) + G(k) /\ g[k + 1] = f[a + (k + 1)]
        /\ f[a + (k + 1)] \in Nat
    OBVIOUS
  <2>2. F(a + (k + 1)) = F(a + k) + f[a + (k + 1)]
    <3>1. F(a + (k + 1)) = F((a + (k + 1)) - 1) + f[a + (k + 1)]
      BY <1>2, <2>1, Zenon
    <3> QED
      BY <2>1, <3>1, Zenon
  <2>3. G(k + 1) = G(k) + g[k + 1]
    <3>1. G(k + 1) = G((k + 1) - 1) + g[k + 1]
      BY <1>3, <2>1, Zenon
    <3> QED
      BY <2>1, <3>1, Zenon
  <2>4. F(a) \in Nat /\ G(k) \in Nat
    BY <1>2, <1>3, <2>1
  <2> HIDE DEF T
  <2> QED
    BY <2>1, <2>2, <2>3, <2>4
<1>6. l \in T
  <2>1. T \in SUBSET Nat
    OBVIOUS
  <2> HIDE DEF T
  <2> QED
    BY <1>4, <1>5, <2>1, Induction
<1> QED
  BY <1>6 DEF F, G

\* What a cut of a list holds.
LEMMA CutFacts ==
    ASSUME NEW U, NEW s \in Seq(U), NEW a \in Nat, NEW l \in Nat, a + l <= Len(s)
    PROVE  /\ SubSeq(s, a + 1, a + l) \in Seq(U)
           /\ Len(SubSeq(s, a + 1, a + l)) = l
           /\ \A k \in 1 .. l : SubSeq(s, a + 1, a + l)[k] = s[a + k]
<1> DEFINE x == a + 1
           y == a + l
<1>1. x \in Int /\ y \in Int /\ \A k \in x .. y : s[k] \in U
  OBVIOUS
<1>2. (IF x <= y THEN y - x + 1 ELSE 0) = l /\ y - x + 1 = l
  OBVIOUS
<1>3. \A k \in 1 .. l : x + k - 1 = a + k
  OBVIOUS
<1> HIDE DEF x, y
<1>4. /\ SubSeq(s, x, y) \in Seq(U)
      /\ Len(SubSeq(s, x, y)) = IF x <= y THEN y - x + 1 ELSE 0
      /\ \A k \in 1 .. y - x + 1 : SubSeq(s, x, y)[k] = s[x + k - 1]
  BY <1>1, SubSeqProperties, SMTT(20)
<1>5. /\ SubSeq(s, x, y) \in Seq(U) /\ Len(SubSeq(s, x, y)) = l
      /\ \A k \in 1 .. l : SubSeq(s, x, y)[k] = s[a + k]
  BY <1>2, <1>3, <1>4
<1> QED
  BY <1>5 DEF x, y

\* A beginning of a list.
LEMMA BeginningFacts ==
    ASSUME NEW U, NEW s \in Seq(U), NEW m \in Nat, m <= Len(s)
    PROVE  /\ SubSeq(s, 1, m) \in Seq(U) /\ Len(SubSeq(s, 1, m)) = m
           /\ \A k \in 1 .. m : SubSeq(s, 1, m)[k] = s[k]
<1> DEFINE z == 0
<1>1. z \in Nat /\ z + 1 = 1 /\ z + m = m /\ z + m <= Len(s) /\ \A k \in 1 .. m : z + k = k
  OBVIOUS
<1> HIDE DEF z
<1>2. /\ SubSeq(s, z + 1, z + m) \in Seq(U)
      /\ Len(SubSeq(s, z + 1, z + m)) = m
      /\ \A k \in 1 .. m : SubSeq(s, z + 1, z + m)[k] = s[z + k]
  BY <1>1, CutFacts
<1> QED
  BY <1>1, <1>2

\* A cut behind the first of two lists is a cut of the second, and the first
\* can be cut off again.
LEMMA CutBehind ==
    ASSUME NEW U, NEW r \in Seq(U), NEW s \in Seq(U), NEW a \in Nat, NEW l \in Nat,
           a + l <= Len(s)
    PROVE  /\ SubSeq(r \o s, (Len(r) + a) + 1, (Len(r) + a) + l)
                = SubSeq(s, a + 1, a + l)
           /\ SubSeq(r \o s, 1, Len(r)) = r
<1> DEFINE b == Len(r) + a
           rs == r \o s
<1>1. /\ rs \in Seq(U) /\ Len(rs) = Len(r) + Len(s)
      /\ \A i \in 1 .. Len(r) + Len(s) :
             rs[i] = IF i <= Len(r) THEN r[i] ELSE s[i - Len(r)]
  BY ConcatProperties
<1>2. Len(r) \in Nat /\ Len(s) \in Nat
  OBVIOUS
<1>3. b \in Nat /\ b + l <= Len(rs)
  BY <1>1, <1>2
<1>4. ASSUME NEW k \in 1 .. l PROVE rs[b + k] = s[a + k]
  <2> DEFINE i == b + k
  <2>1. i \in 1 .. Len(r) + Len(s) /\ ~(i <= Len(r)) /\ i - Len(r) = a + k
    BY <1>2
  <2> HIDE DEF i, rs
  <2>2. rs[i] = s[i - Len(r)]
    BY <1>1, <2>1, Zenon
  <2> QED
    BY <2>1, <2>2 DEF i
<1>5. \A k \in 1 .. Len(r) : rs[k] = r[k]
  BY <1>1, <1>2
<1> HIDE DEF b, rs
<1> DEFINE c == SubSeq(rs, b + 1, b + l)
           d == SubSeq(s, a + 1, a + l)
           e == SubSeq(rs, 1, Len(r))
<1>6. c \in Seq(U) /\ Len(c) = l /\ \A k \in 1 .. l : c[k] = rs[b + k]
  BY <1>1, <1>3, CutFacts
<1>7. d \in Seq(U) /\ Len(d) = l /\ \A k \in 1 .. l : d[k] = s[a + k]
  BY CutFacts
<1>8. e \in Seq(U) /\ Len(e) = Len(r) /\ \A k \in 1 .. Len(r) : e[k] = rs[k]
  <2>1. 0 + Len(r) <= Len(rs) /\ 0 \in Nat
    BY <1>1, <1>2
  <2>2. /\ SubSeq(rs, 0 + 1, 0 + Len(r)) \in Seq(U)
        /\ Len(SubSeq(rs, 0 + 1, 0 + Len(r))) = Len(r)
        /\ \A k \in 1 .. Len(r) : SubSeq(rs, 0 + 1, 0 + Len(r))[k] = rs[0 + k]
    BY <1>1, <1>2, <2>1, CutFacts
  <2>3. 0 + 1 = 1 /\ 0 + Len(r) = Len(r) /\ \A k \in 1 .. Len(r) : 0 + k = k
    BY <1>2
  <2> QED
    BY <2>2, <2>3
<1> HIDE DEF c, d, e
<1>9. c = d
  BY <1>4, <1>6, <1>7, SeqEqual
<1>10. e = r
  BY <1>5, <1>8, SeqEqual
<1> QED
  BY <1>9, <1>10 DEF b, rs, c, d, e

-----------------------------------------------------------------------------
(* Lists made of the elements of others                                    *)

\* Lists that begin alike have the same places ahead.
LEMMA AheadAgrees ==
    ASSUME NEW U, NEW ss \in Seq(Seq(U)), NEW tt \in Seq(Seq(U)),
           Len(ss) <= Len(tt), \A i \in 1 .. Len(ss) : ss[i] = tt[i]
    PROVE  \A i \in 0 .. Len(ss) : Ahead(ss, i) = Ahead(tt, i)
<1> DEFINE n == Len(ss)
           T == {k \in Nat : k <= n => Ahead(ss, k) = Ahead(tt, k)}
<1>1. /\ Ahead(ss, 0) = 0 /\ Ahead(tt, 0) = 0
      /\ \A i \in 1 .. Len(ss) : Ahead(ss, i) = Ahead(ss, i - 1) + Len(ss[i])
      /\ \A i \in 1 .. Len(tt) : Ahead(tt, i) = Ahead(tt, i - 1) + Len(tt[i])
  BY FlattenFacts
<1>2. n \in Nat /\ 0 \in T /\ T \in SUBSET Nat
  BY <1>1
<1>3. ASSUME NEW k \in T PROVE k + 1 \in T
  <2> SUFFICES ASSUME k + 1 <= n PROVE Ahead(ss, k + 1) = Ahead(tt, k + 1)
    OBVIOUS
  <2> DEFINE m == k + 1
  <2>1. /\ m \in 1 .. Len(ss) /\ m \in 1 .. Len(tt) /\ m - 1 = k
        /\ Ahead(ss, k) = Ahead(tt, k)
    BY <1>2
  <2> HIDE DEF m
  <2>2. /\ Ahead(ss, m) = Ahead(ss, m - 1) + Len(ss[m])
        /\ Ahead(tt, m) = Ahead(tt, m - 1) + Len(tt[m])
        /\ ss[m] = tt[m]
    BY <1>1, <2>1, Zenon
  <2>3. Ahead(ss, m) = Ahead(tt, m)
    BY <2>1, <2>2, Zenon
  <2> QED
    BY <2>3 DEF m
<1> HIDE DEF T
<1>4. \A k \in Nat : k \in T
  BY <1>2, <1>3, Induction
<1> QED
  BY <1>4 DEF T

\* One list after another: a longer list of lists goes on where the shorter ends.
LEMMA FlattenPrefix ==
    ASSUME NEW U, NEW ss \in Seq(Seq(U)), NEW tt \in Seq(Seq(U)),
           Len(ss) <= Len(tt), \A i \in 1 .. Len(ss) : ss[i] = tt[i]
    PROVE  /\ Len(FlattenSeq(ss)) <= Len(FlattenSeq(tt))
           /\ \A k \in 1 .. Len(FlattenSeq(ss)) : FlattenSeq(tt)[k] = FlattenSeq(ss)[k]
<1>1. \A i \in 0 .. Len(ss) : Ahead(ss, i) = Ahead(tt, i)
  BY AheadAgrees
<1>2. /\ Len(FlattenSeq(ss)) = Ahead(ss, Len(ss))
      /\ \A i \in 1 .. Len(ss) : \A j \in 1 .. Len(ss[i]) :
            FlattenSeq(ss)[Ahead(ss, i - 1) + j] = ss[i][j]
      /\ \A k \in 1 .. Len(FlattenSeq(ss)) :
            \E i \in 1 .. Len(ss) : \E j \in 1 .. Len(ss[i]) :
                k = Ahead(ss, i - 1) + j
  BY FlattenFacts
<1>3. /\ Len(FlattenSeq(tt)) = Ahead(tt, Len(tt))
      /\ \A i \in 1 .. Len(tt) : \A j \in 1 .. Len(tt[i]) :
            FlattenSeq(tt)[Ahead(tt, i - 1) + j] = tt[i][j]
  BY FlattenFacts
<1>4. Len(ss) \in 0 .. Len(ss) /\ Len(ss) \in 0 .. Len(tt) /\ Len(tt) \in Len(ss) .. Len(tt)
  OBVIOUS
<1>5. Len(FlattenSeq(ss)) <= Len(FlattenSeq(tt))
  <2>1. Ahead(tt, Len(ss)) <= Ahead(tt, Len(tt))
    BY <1>4, AheadGrows
  <2> QED
    BY <1>1, <1>2, <1>3, <1>4, <2>1
<1>6. ASSUME NEW k \in 1 .. Len(FlattenSeq(ss))
      PROVE  FlattenSeq(tt)[k] = FlattenSeq(ss)[k]
  <2>0. PICK i \in 1 .. Len(ss) : \E j \in 1 .. Len(ss[i]) : k = Ahead(ss, i - 1) + j
    BY <1>2
  <2>1. PICK j \in 1 .. Len(ss[i]) : k = Ahead(ss, i - 1) + j
    BY <2>0
  <2>2. i \in 1 .. Len(tt) /\ i - 1 \in 0 .. Len(ss) /\ tt[i] = ss[i]
    BY <1>4
  <2>3. Ahead(ss, i - 1) = Ahead(tt, i - 1)
    BY <1>1, <2>2
  <2>4. FlattenSeq(ss)[Ahead(ss, i - 1) + j] = ss[i][j]
    BY <1>2
  <2>5. FlattenSeq(tt)[Ahead(tt, i - 1) + j] = tt[i][j]
    BY <1>3, <2>2
  <2> QED
    BY <2>1, <2>2, <2>3, <2>4, <2>5
<1> QED
  BY <1>5, <1>6

\* A list made of some elements of another has those, as many as there are, and
\* in their order.
LEMMA KeptFacts ==
    ASSUME NEW U, NEW ss \in Seq(Seq(U)), \A i \in 1 .. Len(ss) : Len(ss[i]) \in {0, 1}
    PROVE  /\ FlattenSeq(ss) \in Seq(U)
           /\ Len(FlattenSeq(ss)) = Cardinality({i \in 1 .. Len(ss) : Len(ss[i]) = 1})
           /\ \A i \in 1 .. Len(ss) : Len(ss[i]) = 1 =>
                 /\ Ahead(ss, i - 1) + 1 \in 1 .. Len(FlattenSeq(ss))
                 /\ FlattenSeq(ss)[Ahead(ss, i - 1) + 1] = ss[i][1]
           /\ \A k \in 1 .. Len(FlattenSeq(ss)) :
                 \E i \in 1 .. Len(ss) : /\ Len(ss[i]) = 1 /\ k = Ahead(ss, i - 1) + 1
                                         /\ FlattenSeq(ss)[k] = ss[i][1]
<1> DEFINE n == Len(ss)
           f == Lengths(ss)
<1>1. /\ FlattenSeq(ss) \in Seq(U)
      /\ Len(FlattenSeq(ss)) = Ahead(ss, Len(ss))
      /\ \A i \in 0 .. Len(ss) : Ahead(ss, i) \in Nat
      /\ \A i \in 1 .. Len(ss) : Ahead(ss, i) = Ahead(ss, i - 1) + Len(ss[i])
      /\ \A i \in 1 .. Len(ss) : \A j \in 1 .. Len(ss[i]) :
            FlattenSeq(ss)[Ahead(ss, i - 1) + j] = ss[i][j]
      /\ \A k \in 1 .. Len(FlattenSeq(ss)) :
            \E i \in 1 .. Len(ss) : \E j \in 1 .. Len(ss[i]) :
                k = Ahead(ss, i - 1) + j
  BY FlattenFacts
<1>2. n \in Nat /\ DOMAIN ss = 1 .. n
  OBVIOUS
<1>3. \A i \in 1 .. n : f[i] = Len(ss[i])
  BY <1>2 DEF Lengths
<1>4. Len(FlattenSeq(ss)) = Cardinality({i \in 1 .. n : Len(ss[i]) = 1})
  <2>1. \A i \in 1 .. n : f[i] \in {0, 1}
    BY <1>3
  <2>2. {i \in 1 .. n : f[i] = 1} = {i \in 1 .. n : Len(ss[i]) = 1}
    BY <1>3
  <2>3. Len(FlattenSeq(ss)) = SumFunctionOnSet(f, 1 .. n)
    BY <1>1 DEF Ahead
  <2> HIDE DEF f, n
  <2>4. SumFunctionOnSet(f, 1 .. n) = Cardinality({i \in 1 .. n : f[i] = 1})
    BY <1>2, <2>1, SumCounts
  <2> QED
    BY <2>2, <2>3, <2>4
<1>5. ASSUME NEW i \in 1 .. Len(ss), Len(ss[i]) = 1
      PROVE  /\ Ahead(ss, i - 1) + 1 \in 1 .. Len(FlattenSeq(ss))
             /\ FlattenSeq(ss)[Ahead(ss, i - 1) + 1] = ss[i][1]
  <2>1. i - 1 \in 0 .. Len(ss) /\ i \in 0 .. Len(ss) /\ Len(ss) \in i .. Len(ss)
    OBVIOUS
  <2>2. Ahead(ss, i) <= Ahead(ss, Len(ss))
    BY <2>1, AheadGrows
  <2>3. Ahead(ss, i) = Ahead(ss, i - 1) + 1 /\ Ahead(ss, i - 1) \in Nat
    BY <1>1, <1>5, <2>1
  <2>4. 1 \in 1 .. Len(ss[i])
    BY <1>5
  <2>5. FlattenSeq(ss)[Ahead(ss, i - 1) + 1] = ss[i][1]
    BY <1>1, <2>4
  <2>6. Ahead(ss, Len(ss)) \in Nat
    BY <1>1, <2>1
  <2> QED
    BY <1>1, <2>2, <2>3, <2>5, <2>6
<1>6. ASSUME NEW k \in 1 .. Len(FlattenSeq(ss))
      PROVE  \E i \in 1 .. Len(ss) : /\ Len(ss[i]) = 1 /\ k = Ahead(ss, i - 1) + 1
                                     /\ FlattenSeq(ss)[k] = ss[i][1]
  <2>0. PICK i \in 1 .. Len(ss) : \E j \in 1 .. Len(ss[i]) : k = Ahead(ss, i - 1) + j
    BY <1>1
  <2>1. PICK j \in 1 .. Len(ss[i]) : k = Ahead(ss, i - 1) + j
    BY <2>0
  <2>2. Len(ss[i]) = 1 /\ j = 1
    <3>1. Len(ss[i]) = 0 \/ Len(ss[i]) = 1
      OBVIOUS
    <3>2. j \in 1 .. Len(ss[i])
      OBVIOUS
    <3> QED
      <4>1. CASE Len(ss[i]) = 0
        BY ONLY <3>2, <4>1
      <4>2. CASE Len(ss[i]) = 1
        BY ONLY <3>2, <4>2
      <4> QED
        BY ONLY <3>1, <4>1, <4>2
  <2> QED
    BY <1>5, <2>1, <2>2
<1> QED
  BY <1>1, <1>4, <1>5, <1>6

\* Two lists that grow and have the same elements are the same.
LEMMA IncreasingIsUnique ==
    ASSUME NEW s \in Seq(Nat), NEW t \in Seq(Nat), Len(s) = Len(t),
           \A i, j \in 1 .. Len(s) : i < j => s[i] < s[j],
           \A i, j \in 1 .. Len(t) : i < j => t[i] < t[j],
           \A i \in 1 .. Len(s) : \E j \in 1 .. Len(t) : s[i] = t[j],
           \A i \in 1 .. Len(t) : \E j \in 1 .. Len(s) : t[i] = s[j]
    PROVE  \A k \in 1 .. Len(s) : s[k] = t[k]
<1> DEFINE n == Len(s)
           T == {k \in Nat : \A i \in 1 .. n : i <= k => s[i] = t[i]}
<1>1. n \in Nat /\ Len(t) = n
      /\ \A i \in 1 .. n : s[i] \in Nat /\ t[i] \in Nat
  <2>1. n \in Nat /\ Len(t) = n
    OBVIOUS
  <2>2. DOMAIN s = 1 .. n /\ DOMAIN t = 1 .. n
    BY <2>1
  <2>3. s \in Seq(Nat) /\ t \in Seq(Nat)
    OBVIOUS
  <2> QED
    BY ONLY <2>1, <2>2, <2>3
<1>2. 0 \in T /\ T \in SUBSET Nat
  OBVIOUS
<1>3. ASSUME NEW k \in T PROVE k + 1 \in T
  <2>1. k \in Nat /\ \A i \in 1 .. n : i <= k => s[i] = t[i]
    OBVIOUS
  <2>2. CASE k + 1 \notin 1 .. n
    BY <1>1, <2>1, <2>2
  <2>3. CASE k + 1 \in 1 .. n
    <3> DEFINE m == k + 1
    <3>1. m \in 1 .. n /\ \A i \in 1 .. n : i < m => s[i] = t[i]
      BY <2>1, <2>3
    <3>2. m \in Nat /\ \A i \in 1 .. n : i <= m => i < m \/ i = m
      BY <2>1
    <3> HIDE DEF m, n, T
    <3>3. PICK j \in 1 .. n : s[m] = t[j]
      BY <1>1, <3>1 DEF n
    <3>4. PICK l \in 1 .. n : t[m] = s[l]
      BY <1>1, <3>1 DEF n
    <3>5. \A i \in 1 .. n : \A h \in 1 .. n : i < h => s[i] < s[h] /\ t[i] < t[h]
      BY <1>1 DEF n
    <3>6. ~(j < m)
      <4> SUFFICES ASSUME j < m PROVE FALSE
        OBVIOUS
      <4>1. s[j] = t[j] /\ s[j] < s[m]
        BY <3>1, <3>5
      <4> QED
        BY <1>1, <3>1, <3>3, <4>1
    <3>7. ~(l < m)
      <4> SUFFICES ASSUME l < m PROVE FALSE
        OBVIOUS
      <4>1. s[l] = t[l] /\ t[l] < t[m]
        BY <3>1, <3>5
      <4> QED
        BY <1>1, <3>1, <3>4, <4>1
    <3>8. t[m] <= t[j] /\ s[m] <= s[l]
      <4>1. (m < j \/ m = j) /\ (m < l \/ m = l)
        BY <1>1, <3>1, <3>6, <3>7
      <4>2. m \in 1 .. n /\ j \in 1 .. n /\ l \in 1 .. n
        BY <3>1
      <4>3. \A i \in 1 .. n : s[i] \in Nat /\ t[i] \in Nat
        BY <1>1
      <4>4. t[m] <= t[j]
        BY ONLY <3>5, <4>1, <4>2, <4>3
      <4>5. s[m] <= s[l]
        BY ONLY <3>5, <4>1, <4>2, <4>3
      <4> QED
        BY <4>4, <4>5
    <3>9. s[m] = t[m]
      <4>1. s[m] \in Nat /\ t[m] \in Nat
        BY <1>1, <3>1
      <4>2. t[m] <= s[m] /\ s[m] <= t[m]
        BY <3>3, <3>4, <3>8
      <4> QED
        BY <4>1, <4>2
    <3> QED
      BY <2>1, <3>1, <3>2, <3>9 DEF T, m
  <2> QED
    BY <2>2, <2>3
<1>4. n \in T
  <2> HIDE DEF T, n
  <2> QED
    BY <1>1, <1>2, <1>3, Induction
<1> QED
  BY <1>1, <1>4

\* Moved by a number, a set of numbers stays as large.
LEMMA ShiftCardinality ==
    ASSUME NEW a \in Nat, NEW S \in SUBSET Nat, IsFiniteSet(S)
    PROVE  /\ IsFiniteSet({a + j : j \in S})
           /\ Cardinality({a + j : j \in S}) = Cardinality(S)
<1> DEFINE T == {a + j : j \in S}
           f == [j \in S |-> a + j]
<1>1. f \in Bijection(S, T)
  <2>1. f \in [S -> T]
    OBVIOUS
  <2>2. \A i, j \in S : f[i] = f[j] => i = j
    OBVIOUS
  <2>3. \A t \in T : \E j \in S : f[j] = t
    OBVIOUS
  <2> HIDE DEF f, T
  <2> QED
    BY <2>1, <2>2, <2>3 DEF Bijection, Injection, Surjection, IsInjective
<1> HIDE DEF f, T
<1>2. IsFiniteSet(T) /\ Cardinality(T) = Cardinality(S)
  BY <1>1, FS_Bijection DEF ExistsBijection
<1> QED
  BY <1>2 DEF T

\* How many elements of a list are in P.
Among(s, P) == Cardinality({k \in 1 .. Len(s) : s[k] \in P})

\* The elements in P of a flattened list are those of its parts.
LEMMA FlattenCounts ==
    ASSUME NEW U, NEW ss \in Seq(Seq(U)), NEW P
    PROVE  Among(FlattenSeq(ss), P)
             = SumFunctionOnSet([i \in 1 .. Len(ss) |-> Among(ss[i], P)], 1 .. Len(ss))
<1> DEFINE flat == FlattenSeq(ss)
           f == [i \in 1 .. Len(ss) |-> Among(ss[i], P)]
           In(n) == {k \in 1 .. Ahead(ss, n) : flat[k] \in P}
           T == {n \in Nat : n <= Len(ss) =>
                   Cardinality(In(n)) = SumFunctionOnSet(f, 1 .. n)}
<1>1. /\ flat \in Seq(U) /\ Len(flat) = Ahead(ss, Len(ss))
      /\ Ahead(ss, 0) = 0
      /\ \A i \in 0 .. Len(ss) : Ahead(ss, i) \in Nat
      /\ \A i \in 1 .. Len(ss) : Ahead(ss, i) = Ahead(ss, i - 1) + Len(ss[i])
      /\ \A i \in 1 .. Len(ss) : \A j \in 1 .. Len(ss[i]) :
            flat[Ahead(ss, i - 1) + j] = ss[i][j]
  BY FlattenFacts
<1>2. Len(ss) \in Nat /\ \A i \in 1 .. Len(ss) : Len(ss[i]) \in Nat
  OBVIOUS
<1> HIDE DEF flat
<1>3. \A i \in 1 .. Len(ss) : f[i] \in Nat
  <2> SUFFICES ASSUME NEW i \in 1 .. Len(ss) PROVE Among(ss[i], P) \in Nat
    OBVIOUS
  <2> DEFINE S == {k \in 1 .. Len(ss[i]) : ss[i][k] \in P}
  <2>1. S \in SUBSET (1 .. Len(ss[i])) /\ Len(ss[i]) \in Nat
    BY <1>2
  <2> HIDE DEF S
  <2>2. Cardinality(S) \in Nat
    BY <2>1, IntervalCardinality, FS_Subset, FS_CardinalityType
  <2> QED
    BY <2>2 DEF Among, S
<1>4. \A i \in 1 .. Len(ss) : f[i] = Among(ss[i], P)
  OBVIOUS
<1> HIDE DEF f
<1>5. /\ SumFunctionOnSet(f, 1 .. 0) = 0
      /\ \A i \in 1 .. Len(ss) : SumFunctionOnSet(f, 1 .. i)
                                  = SumFunctionOnSet(f, 1 .. i - 1) + f[i]
  BY <1>2, <1>3, SumUpTo
<1>6. 0 \in T
  <2>1. In(0) = {}
    BY <1>1
  <2>2. Cardinality(In(0)) = SumFunctionOnSet(f, 1 .. 0)
    BY <1>5, <2>1, FS_EmptySet
  <2> HIDE DEF In
  <2> QED
    BY <2>2
<1>7. ASSUME NEW n \in T PROVE n + 1 \in T
  <2> SUFFICES ASSUME n + 1 <= Len(ss)
               PROVE  Cardinality(In(n + 1)) = SumFunctionOnSet(f, 1 .. n + 1)
    OBVIOUS
  <2> DEFINE i == n + 1
             a == Ahead(ss, n)
             l == Len(ss[i])
             S == {k \in 1 .. l : ss[i][k] \in P}
             R == {a + j : j \in S}
             Old == In(n)
  <2>1. n \in Nat /\ i \in 1 .. Len(ss) /\ i - 1 = n /\ n \in 0 .. Len(ss) /\ n <= Len(ss)
    BY <1>2
  <2>2. Cardinality(Old) = SumFunctionOnSet(f, 1 .. n)
    BY <2>1
  <2>3. a \in Nat /\ l \in Nat /\ Ahead(ss, i) = a + l
        /\ \A j \in 1 .. l : flat[a + j] = ss[i][j]
    BY <1>1, <1>2, <2>1
  <2>4. SumFunctionOnSet(f, 1 .. i) = SumFunctionOnSet(f, 1 .. n) + f[i]
    BY <1>5, <2>1
  <2>5. f[i] = Cardinality(S)
    BY <1>4, <2>1 DEF Among
  <2>6. In(i) = {k \in 1 .. a + l : flat[k] \in P} /\ Old = {k \in 1 .. a : flat[k] \in P}
    BY <2>3
  <2> HIDE DEF In, i, a, l
  <2>7. In(i) = Old \cup R
    <3>1. ASSUME NEW k \in In(i) PROVE k \in Old \cup R
      <4>1. k \in 1 .. a + l /\ flat[k] \in P
        BY <2>6
      <4>2. CASE k <= a
        BY <2>3, <2>6, <4>1, <4>2
      <4>3. CASE k > a
        <5>1. k - a \in 1 .. l /\ a + (k - a) = k
          BY <2>3, <4>1, <4>3
        <5>2. flat[a + (k - a)] = ss[i][k - a]
          BY <2>3, <5>1
        <5>3. k - a \in S
          BY <4>1, <5>1, <5>2
        <5> HIDE DEF S
        <5> QED
          BY <5>1, <5>3
      <4> QED
        BY <2>3, <4>1, <4>2, <4>3
    <3>2. Old \subseteq In(i)
      BY <2>3, <2>6
    <3>3. R \subseteq In(i)
      BY <2>3, <2>6
    <3> QED
      BY <3>1, <3>2, <3>3
  <2>8. Old \cap R = {}
    BY <2>3, <2>6
  <2>9. IsFiniteSet(Old)
    <3>1. Old \in SUBSET (1 .. a)
      BY <2>6
    <3> HIDE DEF Old
    <3> QED
      BY <2>3, <3>1, IntervalCardinality, FS_Subset
  <2>10. IsFiniteSet(S) /\ S \in SUBSET Nat
    <3>1. S \in SUBSET (1 .. l) /\ S \in SUBSET Nat
      BY <2>3
    <3> HIDE DEF S
    <3> QED
      BY <2>3, <3>1, IntervalCardinality, FS_Subset
  <2> HIDE DEF S
  <2>11. IsFiniteSet(R) /\ Cardinality(R) = Cardinality(S)
    BY <2>3, <2>10, ShiftCardinality
  <2> HIDE DEF R, Old
  <2>12. Cardinality(Old \cap R) = 0
    BY <2>8, FS_EmptySet
  <2>13. Cardinality(Old) \in Nat /\ Cardinality(R) \in Nat
    BY <2>9, <2>11, FS_CardinalityType
  <2>14. Cardinality(Old \cup R) = Cardinality(Old) + Cardinality(R) - Cardinality(Old \cap R)
    BY <2>9, <2>11, FS_Union
  <2>15. Cardinality(Old \cup R) = Cardinality(Old) + Cardinality(R)
    BY <2>12, <2>13, <2>14
  <2> QED
    BY <2>2, <2>4, <2>5, <2>7, <2>11, <2>15 DEF i
<1>8. Len(ss) \in T
  <2>1. T \in SUBSET Nat
    OBVIOUS
  <2> HIDE DEF T
  <2> QED
    BY <1>2, <1>6, <1>7, <2>1, Induction
<1>9. Cardinality(In(Len(ss))) = SumFunctionOnSet(f, 1 .. Len(ss))
  BY <1>2, <1>8
<1>10. Cardinality(In(Len(ss))) = Among(flat, P)
  BY <1>1 DEF Among
<1> QED
  BY <1>9, <1>10 DEF flat, f
=============================================================================
