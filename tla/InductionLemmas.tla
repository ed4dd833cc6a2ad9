---------------------------- MODULE InductionLemmas ----------------------------
(***************************************************************************)
(* Induction over the naturals in a form first-order provers can use: over  *)
(* the set of the numbers a property holds of.  What a function defined by  *)
(* recursion computes is proved with it, and what the library's sum over a  *)
(* finite set is: bounded by its terms, added up part by part in any order. *)
(***************************************************************************)
EXTENDS Integers, FiniteSets, Functions, FiniteSetTheorems, WellFoundedInduction, TLAPS

(* A set of naturals that is not empty has a least element.                  *)
LEMMA LeastNatural ==
  ASSUME NEW T \in SUBSET Nat, T # {}
  PROVE  \E n \in T : \A m \in T : n <= m
<1>1. \E R : IsWellFoundedOn(R, Nat) /\ \A x, y \in Nat : x < y => <<x, y>> \in R
  <2> DEFINE R == OpToRel(<, Nat)
  <2>1. IsWellFoundedOn(R, Nat)
    BY NatLessThanWellFounded
  <2>2. \A x, y \in Nat : x < y => <<x, y>> \in R
    BY DEF OpToRel
  <2> HIDE DEF R
  <2> QED
    BY <2>1, <2>2
<1>2. PICK R : IsWellFoundedOn(R, Nat) /\ \A x, y \in Nat : x < y => <<x, y>> \in R
  BY <1>1
<1>3. IsWellFoundedOn(R, Nat) /\ T \subseteq Nat
  BY <1>2
<1>4. PICK n \in T : \A m \in T : ~(<<m, n>> \in R)
  BY <1>3, WFMin
<1>5. n \in Nat /\ \A m \in T : m \in Nat /\ ~(m < n)
  BY <1>2, <1>4
<1>6. \A m \in T : n <= m
  BY <1>5
<1> QED
  BY <1>6

(* A set that holds 0 and with every number its successor holds them all.    *)
LEMMA NaturalInduction ==
  ASSUME NEW T, 0 \in T, \A n \in Nat : n \in T => n + 1 \in T
  PROVE  \A n \in Nat : n \in T
<1> SUFFICES ASSUME Nat \ T # {} PROVE FALSE
  OBVIOUS
<1>1. PICK n \in Nat \ T : \A m \in Nat \ T : n <= m
  BY LeastNatural
<1>2. n # 0 /\ n - 1 \in Nat
  BY <1>1
<1>3. n - 1 \in T
  BY <1>1, <1>2
<1> QED
  BY <1>1, <1>2, <1>3

(* The same up to a bound.                                                   *)
LEMMA BoundedInduction ==
  ASSUME NEW n \in Nat, NEW T, 0 \in T, \A i \in 1..n : i - 1 \in T => i \in T
  PROVE  \A i \in 0..n : i \in T
<1> DEFINE U == T \cup {i \in Nat : i > n}
<1>1. 0 \in U /\ \A i \in Nat : i \in U => i + 1 \in U
  <2> SUFFICES ASSUME NEW i \in Nat, i \in U PROVE i + 1 \in U
    OBVIOUS
  <2>1. CASE i < n
    <3>1. i \in T /\ i + 1 \in 1..n /\ (i + 1) - 1 = i
      BY <2>1
    <3> QED
      BY <3>1
  <2>2. CASE ~(i < n)
    BY <2>2
  <2> QED
    BY <2>1, <2>2
<1> HIDE DEF U
<1>2. \A i \in Nat : i \in U
  BY <1>1, NaturalInduction
<1> QED
  BY <1>2 DEF U

(* A recursive definition on 0..n: the value at 0 is b, and the value at i   *)
(* is what g makes of i and of the value before it.                          *)
SolvesRecursion(f, n, S, b, g) ==
  f \in [0..n -> S] /\ f[0] = b /\ \A i \in 1..n : f[i] = g[i][f[i - 1]]

(* It has a solution.                                                        *)
LEMMA RecursionSolved ==
  ASSUME NEW n \in Nat, NEW S, NEW b \in S, NEW g \in [1..n -> [S -> S]]
  PROVE  \E f : SolvesRecursion(f, n, S, b, g)
<1> DEFINE Solves(f, k) == f[0] = b /\ \A i \in 1..k : f[i] = g[i][f[i - 1]]
           T == {k \in 0..n : \E f \in [0..k -> S] : Solves(f, k)}
<1>1. 0 \in T
  <2> DEFINE f == [i \in 0..0 |-> b]
  <2>1. f \in [0..0 -> S] /\ f[0] = b /\ 1..0 = {} /\ 0 \in 0..n
    OBVIOUS
  <2> HIDE DEF f
  <2>2. Solves(f, 0)
    BY <2>1
  <2> QED
    BY <2>1, <2>2
<1>2. ASSUME NEW k \in 1..n, k - 1 \in T PROVE k \in T
  <2>1. PICK f \in [0..(k - 1) -> S] : Solves(f, k - 1)
    BY <1>2
  <2> DEFINE h == [i \in 0..k |-> IF i = k THEN g[k][f[k - 1]] ELSE f[i]]
  <2>2. k - 1 \in 0..(k - 1) /\ f[k - 1] \in S /\ g[k][f[k - 1]] \in S
    BY <2>1
  <2>3. h \in [0..k -> S]
    BY <2>1, <2>2
  <2>4. h[0] = b /\ h[k] = g[k][h[k - 1]]
    BY <2>1
  <2>5. ASSUME NEW i \in 1..(k - 1) PROVE h[i] = g[i][h[i - 1]]
    <3>1. h[i] = f[i] /\ h[i - 1] = f[i - 1]
      BY <2>5
    <3> QED
      BY <2>1, <3>1
  <2>6. \A i \in 1..k : i = k \/ i \in 1..(k - 1)
    OBVIOUS
  <2> HIDE DEF h
  <2>7. Solves(h, k)
    BY <2>4, <2>5, <2>6
  <2> HIDE DEF Solves
  <2>8. k \in 0..n
    OBVIOUS
  <2> QED
    BY <2>3, <2>7, <2>8
<1> HIDE DEF T
<1>3. \A k \in 0..n : k \in T
  BY <1>1, <1>2, BoundedInduction
<1>4. n \in 0..n
  OBVIOUS
<1> QED
  BY <1>3, <1>4 DEF T, SolvesRecursion

-----------------------------------------------------------------------------
(* Sums over finite sets *)

(* The sums of the subsets of S, each by taking away one element.            *)
SumsOver(v, S, it) ==
  it = [s \in SUBSET S |->
          IF s = {} THEN 0
          ELSE v[CHOOSE x \in s : TRUE] + it[s \ {CHOOSE x \in s : TRUE}]]

(* The library's sum is one of them.                                        *)
LEMMA SumIs ==
  ASSUME NEW v, NEW S, NEW g, SumsOver(v, S, g)
  PROVE  \E it : SumsOver(v, S, it) /\ SumFunctionOnSet(v, S) = it[S]
<1> DEFINE It == CHOOSE it : SumsOver(v, S, it)
<1>1. SumsOver(v, S, It)
  OBVIOUS
<1>2. SumFunctionOnSet(v, S) = It[S]
  BY DEF SumFunctionOnSet, FoldFunctionOnSet, MapThenFoldSet, SumsOver
<1> HIDE DEF It
<1> QED
  BY <1>1, <1>2

(* Over a finite set of integers there is one.                               *)
LEMMA SumsExist ==
  ASSUME NEW v, NEW S, IsFiniteSet(S), \A x \in S : v[x] \in Int
  PROVE  \E it : SumsOver(v, S, it)
<1> DEFINE Pick(s) == CHOOSE x \in s : TRUE
           Small(k) == {s \in SUBSET S : Cardinality(s) <= k}
           Sums(it, k) == \A s \in Small(k) :
                            it[s] = IF s = {} THEN 0 ELSE v[Pick(s)] + it[s \ {Pick(s)}]
           T == {k \in Nat : \E it \in [Small(k) -> Int] : Sums(it, k)}
<1>1. \A s \in SUBSET S : IsFiniteSet(s) /\ Cardinality(s) \in Nat
  BY FS_Subset, FS_CardinalityType
<1>2. \A s \in SUBSET S : s # {} => /\ Pick(s) \in s /\ s \ {Pick(s)} \in SUBSET S
                                    /\ Cardinality(s \ {Pick(s)}) = Cardinality(s) - 1
  <2> SUFFICES ASSUME NEW s \in SUBSET S, s # {}
               PROVE  /\ Pick(s) \in s /\ s \ {Pick(s)} \in SUBSET S
                      /\ Cardinality(s \ {Pick(s)}) = Cardinality(s) - 1
    OBVIOUS
  <2>1. Pick(s) \in s
    OBVIOUS
  <2> QED
    BY <2>1, <1>1, FS_RemoveElement
<1> HIDE DEF Pick
<1>3. 0 \in T
  <2> DEFINE it == [s \in Small(0) |-> 0]
  <2>1. \A s \in Small(0) : s = {}
    BY <1>1, FS_EmptySet
  <2>2. it \in [Small(0) -> Int] /\ Sums(it, 0)
    BY <2>1
  <2> QED
    BY <2>2
<1>4. ASSUME NEW k \in Nat, k \in T PROVE k + 1 \in T
  <2>1. PICK old \in [Small(k) -> Int] : Sums(old, k)
    BY <1>4
  <2> DEFINE it == [s \in Small(k + 1) |->
                      IF s \in Small(k) THEN old[s] ELSE v[Pick(s)] + old[s \ {Pick(s)}]]
  <2>2. \A s \in Small(k + 1) : s # {} => s \ {Pick(s)} \in Small(k) /\ Pick(s) \in S
    BY <1>1, <1>2
  <2>3. \A s \in Small(k + 1) \ Small(k) : s # {}
    <3>1. {} \in Small(k)
      BY FS_EmptySet
    <3> QED
      BY <3>1
  <2>4. it \in [Small(k + 1) -> Int]
    BY <2>2, <2>3
  <2>5. Small(k) \subseteq Small(k + 1)
    BY <1>1
  <2>6. Sums(it, k + 1)
    <3> SUFFICES ASSUME NEW s \in Small(k + 1)
                 PROVE  it[s] = IF s = {} THEN 0 ELSE v[Pick(s)] + it[s \ {Pick(s)}]
      OBVIOUS
    <3>1. s # {} => it[s \ {Pick(s)}] = old[s \ {Pick(s)}]
      BY <2>2, <2>5
    <3>2. CASE s \in Small(k)
      BY <3>1, <3>2, <2>1
    <3>3. CASE s \notin Small(k)
      BY <3>1, <3>3, <2>3
    <3> QED
      BY <3>2, <3>3
  <2> HIDE DEF it, Sums, Small
  <2> QED
    BY <2>4, <2>6
<1>5. \A k \in Nat : k \in T
  <2> HIDE DEF T
  <2> QED
    BY <1>3, <1>4, NaturalInduction
<1>6. Cardinality(S) \in T /\ Small(Cardinality(S)) = SUBSET S
  BY <1>1, <1>5, FS_Subset
<1>7. PICK it \in [SUBSET S -> Int] : Sums(it, Cardinality(S))
  BY <1>6
<1>8. SumsOver(v, S, it)
  <2>1. it = [s \in SUBSET S |-> it[s]]
    OBVIOUS
  <2>2. \A s \in SUBSET S : it[s] = IF s = {} THEN 0 ELSE v[Pick(s)] + it[s \ {Pick(s)}]
    BY <1>6, <1>7
  <2> QED
    BY <2>1, <2>2 DEF SumsOver, Pick
<1> QED
  BY <1>8

(* A sum of terms that are at least lo is at least as many times lo.         *)
LEMMA SumAtLeast ==
  ASSUME NEW v, NEW S, IsFiniteSet(S), NEW lo \in Int, \A x \in S : v[x] \in Int /\ v[x] >= lo
  PROVE  SumFunctionOnSet(v, S) \in Int /\ SumFunctionOnSet(v, S) >= lo * Cardinality(S)
<1>1. PICK it : SumsOver(v, S, it) /\ SumFunctionOnSet(v, S) = it[S]
  <2>1. \A x \in S : v[x] \in Int
    OBVIOUS
  <2> QED
    BY <2>1, SumsExist, SumIs
<1> DEFINE Bounded(s) == it[s] \in Int /\ it[s] >= lo * Cardinality(s)
           T == {k \in Nat : \A s \in SUBSET S : Cardinality(s) = k => Bounded(s)}
<1>2. \A s \in SUBSET S : IsFiniteSet(s) /\ Cardinality(s) \in Nat
  BY FS_Subset, FS_CardinalityType
<1>3. 0 \in T
  <2> SUFFICES ASSUME NEW s \in SUBSET S, Cardinality(s) = 0 PROVE Bounded(s)
    OBVIOUS
  <2>1. s = {}
    BY <1>2, FS_EmptySet
  <2>2. it[s] = 0
    BY <1>1, <2>1 DEF SumsOver
  <2> QED
    BY <2>2
<1>4. ASSUME NEW k \in Nat, k \in T PROVE k + 1 \in T
  <2> SUFFICES ASSUME NEW s \in SUBSET S, Cardinality(s) = k + 1 PROVE Bounded(s)
    OBVIOUS
  <2>1. s # {}
    BY FS_EmptySet
  <2>2. PICK x \in s : it[s] = v[x] + it[s \ {x}]
    BY <1>1, <2>1 DEF SumsOver
  <2>3. s \ {x} \in SUBSET S /\ Cardinality(s \ {x}) = k
    <3>1. IsFiniteSet(s)
      BY <1>2
    <3>2. Cardinality(s \ {x}) = Cardinality(s) - 1
      BY <3>1, FS_RemoveElement
    <3> QED
      BY <3>2
  <2>4. it[s \ {x}] \in Int /\ it[s \ {x}] >= lo * k
    BY <1>4, <2>3
  <2>5. lo * (k + 1) = lo * k + lo
    OBVIOUS
  <2>6. v[x] \in Int /\ v[x] >= lo
    OBVIOUS
  <2>7. lo * k \in Int
    OBVIOUS
  <2> HIDE DEF T
  <2> QED
    BY <2>2, <2>4, <2>5, <2>6, <2>7
<1>5. \A k \in Nat : k \in T
  <2> HIDE DEF T
  <2> QED
    BY <1>3, <1>4, NaturalInduction
<1> QED
  BY <1>1, <1>2, <1>5

(* A sum is between as many times the least and the greatest of its terms.   *)
LEMMA SumBounds ==
  ASSUME NEW v, NEW S, IsFiniteSet(S), NEW lo \in Int, NEW hi \in Int,
         \A x \in S : v[x] \in lo..hi
  PROVE  SumFunctionOnSet(v, S) \in (lo * Cardinality(S))..(hi * Cardinality(S))
<1>1. PICK it : SumsOver(v, S, it) /\ SumFunctionOnSet(v, S) = it[S]
  <2>1. \A x \in S : v[x] \in Int
    OBVIOUS
  <2> QED
    BY <2>1, SumsExist, SumIs
<1> DEFINE Bounded(s) == it[s] \in (lo * Cardinality(s))..(hi * Cardinality(s))
           T == {k \in Nat : \A s \in SUBSET S : Cardinality(s) = k => Bounded(s)}
<1>2. \A s \in SUBSET S : IsFiniteSet(s) /\ Cardinality(s) \in Nat
  BY FS_Subset, FS_CardinalityType
<1>3. 0 \in T
  <2> SUFFICES ASSUME NEW s \in SUBSET S, Cardinality(s) = 0 PROVE Bounded(s)
    OBVIOUS
  <2>1. s = {}
    BY <1>2, FS_EmptySet
  <2>2. it[s] = 0
    BY <1>1, <2>1 DEF SumsOver
  <2> QED
    BY <2>2
<1>4. ASSUME NEW k \in Nat, k \in T PROVE k + 1 \in T
  <2> SUFFICES ASSUME NEW s \in SUBSET S, Cardinality(s) = k + 1 PROVE Bounded(s)
    OBVIOUS
  <2>1. s # {}
    BY FS_EmptySet
  <2>2. PICK x \in s : it[s] = v[x] + it[s \ {x}]
    BY <1>1, <2>1 DEF SumsOver
  <2>3. s \ {x} \in SUBSET S /\ Cardinality(s \ {x}) = k
    <3>1. IsFiniteSet(s)
      BY <1>2
    <3>2. Cardinality(s \ {x}) = Cardinality(s) - 1
      BY <3>1, FS_RemoveElement
    <3> QED
      BY <3>2
  <2>4. it[s \ {x}] \in (lo * k)..(hi * k)
    BY <1>4, <2>3
  <2>5. lo * (k + 1) = lo * k + lo /\ hi * (k + 1) = hi * k + hi
    OBVIOUS
  <2>6. v[x] \in lo..hi
    OBVIOUS
  <2>7. lo * k \in Int /\ hi * k \in Int
    OBVIOUS
  <2> HIDE DEF T
  <2> QED
    BY <2>2, <2>4, <2>5, <2>6, <2>7
<1>5. \A k \in Nat : k \in T
  <2> HIDE DEF T
  <2> QED
    BY <1>3, <1>4, NaturalInduction
<1> QED
  BY <1>1, <1>2, <1>5

(* A partial sum takes one term after another.                               *)
LEMMA SumStep ==
  ASSUME NEW v, NEW S, NEW it, SumsOver(v, S, it), NEW s \in SUBSET S, s # {}
  PROVE  \E x \in s : it[s] = v[x] + it[s \ {x}]
BY DEF SumsOver

(* The sizes of disjoint parts of a finite set add up to the size of what    *)
(* they cover.                                                               *)
LEMMA SumOfParts ==
  ASSUME NEW C, IsFiniteSet(C), NEW S, IsFiniteSet(S), NEW part \in [S -> SUBSET C],
         \A x, y \in S : x # y => part[x] \cap part[y] = {},
         NEW v, \A x \in S : v[x] = Cardinality(part[x])
  PROVE  SumFunctionOnSet(v, S) = Cardinality({c \in C : \E x \in S : c \in part[x]})
<1> DEFINE Cover(s) == {c \in C : \E x \in s : c \in part[x]}
<1>0. \A A \in SUBSET C : IsFiniteSet(A) /\ Cardinality(A) \in Nat
  BY FS_Subset, FS_CardinalityType
<1>a. \A x \in S : part[x] \in SUBSET C
  OBVIOUS
<1>1. PICK it : SumsOver(v, S, it) /\ SumFunctionOnSet(v, S) = it[S]
  <2>1. \A x \in S : v[x] \in Int
    BY <1>0, <1>a
  <2> QED
    BY <2>1, SumsExist, SumIs
<1> DEFINE T == {k \in Nat : \A s \in SUBSET S : Cardinality(s) = k => it[s] = Cardinality(Cover(s))}
<1>2. \A s \in SUBSET S : IsFiniteSet(s) /\ Cardinality(s) \in Nat
  BY FS_Subset, FS_CardinalityType
<1>3. 0 \in T
  <2> SUFFICES ASSUME NEW s \in SUBSET S, Cardinality(s) = 0 PROVE it[s] = Cardinality(Cover(s))
    OBVIOUS
  <2>1. s = {}
    BY <1>2, FS_EmptySet
  <2>2. it[s] = 0
    BY <1>1, <2>1 DEF SumsOver
  <2>3. Cover(s) = {}
    BY <2>1
  <2>4. Cardinality({}) = 0
    BY FS_EmptySet
  <2> HIDE DEF Cover
  <2> QED
    BY <2>2, <2>3, <2>4
<1>4. ASSUME NEW k \in Nat, k \in T PROVE k + 1 \in T
  <2> SUFFICES ASSUME NEW s \in SUBSET S, Cardinality(s) = k + 1 PROVE it[s] = Cardinality(Cover(s))
    OBVIOUS
  <2>0. Cardinality({}) = 0
    BY FS_EmptySet
  <2> HIDE DEF Cover, T
  <2>1. s # {}
    BY <2>0
  <2>2. PICK x \in s : it[s] = v[x] + it[s \ {x}]
    BY <1>1, <2>1, SumStep
  <2>3. s \ {x} \in SUBSET S /\ Cardinality(s \ {x}) = k
    <3>1. IsFiniteSet(s)
      BY <1>2
    <3>2. Cardinality(s \ {x}) = Cardinality(s) - 1
      BY <3>1, FS_RemoveElement
    <3> QED
      BY <3>2
  <2>4. it[s \ {x}] = Cardinality(Cover(s \ {x}))
    BY <1>4, <2>3 DEF T
  <2> DEFINE A == part[x]
             B == Cover(s \ {x})
  <2>5. Cover(s) = A \cup B
    BY <1>a DEF Cover
  <2>6. A \cap B = {}
    BY DEF Cover
  <2>7. A \in SUBSET C /\ B \in SUBSET C /\ v[x] = Cardinality(A)
    BY <1>a DEF Cover
  <2> HIDE DEF A, B
  <2>8. Cardinality(A \cup B) = Cardinality(A) + Cardinality(B) - Cardinality(A \cap B)
    BY <1>0, <2>7, FS_Union
  <2>9. Cardinality(A \cap B) = 0
    BY <2>6, FS_EmptySet
  <2>10. Cardinality(A) \in Nat /\ Cardinality(B) \in Nat /\ it[s \ {x}] = Cardinality(B)
    BY <1>0, <2>4, <2>7 DEF B
  <2> QED
    BY <2>2, <2>5, <2>7, <2>8, <2>9, <2>10
<1>5. \A k \in Nat : k \in T
  <2> HIDE DEF T
  <2> QED
    BY <1>3, <1>4, NaturalInduction
<1>6. it[S] = Cardinality(Cover(S))
  <2> HIDE DEF Cover
  <2> QED
    BY <1>2, <1>5
<1> QED
  BY <1>1, <1>6

(* Partial sums do not depend on the set they are partial sums of, nor on    *)
(* what the terms outside it are.                                            *)
LEMMA SumsAgree ==
  ASSUME NEW v, NEW S, NEW it, SumsOver(v, S, it),
         NEW u, NEW R, NEW jt, SumsOver(u, R, jt),
         IsFiniteSet(R), R \subseteq S, \A x \in R : v[x] = u[x]
  PROVE  it[R] = jt[R]
<1> DEFINE T == {k \in Nat : \A s \in SUBSET R : Cardinality(s) = k => it[s] = jt[s]}
<1>1. \A s \in SUBSET R : IsFiniteSet(s) /\ Cardinality(s) \in Nat
  BY FS_Subset, FS_CardinalityType
<1>2. 0 \in T
  <2> SUFFICES ASSUME NEW s \in SUBSET R, Cardinality(s) = 0 PROVE it[s] = jt[s]
    OBVIOUS
  <2>1. s = {}
    BY <1>1, FS_EmptySet
  <2>2. it[{}] = 0 /\ jt[{}] = 0
    BY DEF SumsOver
  <2> QED
    BY <2>1, <2>2
<1>3. ASSUME NEW k \in Nat, k \in T PROVE k + 1 \in T
  <2> SUFFICES ASSUME NEW s \in SUBSET R, Cardinality(s) = k + 1 PROVE it[s] = jt[s]
    OBVIOUS
  <2>0. Cardinality({}) = 0
    BY FS_EmptySet
  <2>1. s # {}
    BY <2>0
  <2> DEFINE c == CHOOSE x \in s : TRUE
  <2>2. c \in s
    BY <2>1
  <2>3. it[s] = v[c] + it[s \ {c}] /\ jt[s] = u[c] + jt[s \ {c}]
    BY <2>1 DEF SumsOver
  <2> HIDE DEF c
  <2>4. s \ {c} \in SUBSET R /\ Cardinality(s \ {c}) = k
    <3>1. IsFiniteSet(s)
      BY <1>1
    <3>2. Cardinality(s \ {c}) = Cardinality(s) - 1
      BY <2>2, <3>1, FS_RemoveElement
    <3> QED
      BY <3>2
  <2>5. it[s \ {c}] = jt[s \ {c}] /\ v[c] = u[c]
    BY <1>3, <2>2, <2>4
  <2> QED
    BY <2>3, <2>5
<1>4. \A k \in Nat : k \in T
  <2> HIDE DEF T
  <2> QED
    BY <1>2, <1>3, NaturalInduction
<1> QED
  BY <1>1, <1>4

(* Equal terms have equal sums.                                              *)
LEMMA SumOfEquals ==
  ASSUME NEW v, NEW u, NEW S, IsFiniteSet(S), \A x \in S : v[x] \in Int /\ u[x] = v[x]
  PROVE  SumFunctionOnSet(v, S) = SumFunctionOnSet(u, S)
<1>1. PICK it : SumsOver(v, S, it) /\ SumFunctionOnSet(v, S) = it[S]
  <2>1. \A x \in S : v[x] \in Int
    OBVIOUS
  <2> QED
    BY <2>1, SumsExist, SumIs
<1>2. PICK jt : SumsOver(u, S, jt) /\ SumFunctionOnSet(u, S) = jt[S]
  <2>1. \A x \in S : u[x] \in Int
    OBVIOUS
  <2> QED
    BY <2>1, SumsExist, SumIs
<1>3. it[S] = jt[S]
  <2>1. \A x \in S : v[x] = u[x]
    OBVIOUS
  <2> QED
    BY <1>1, <1>2, <2>1, SumsAgree
<1> QED
  BY <1>1, <1>2, <1>3

(* A sum is the partial sum of its set among those of any larger set.        *)
LEMMA SumIsPartial ==
  ASSUME NEW v, NEW S, IsFiniteSet(S), \A x \in S : v[x] \in Int, NEW it, SumsOver(v, S, it),
         NEW R \in SUBSET S
  PROVE  SumFunctionOnSet(v, R) = it[R]
<1>1. IsFiniteSet(R) /\ (\A x \in R : v[x] \in Int) /\ R \subseteq S /\ (\A x \in R : v[x] = v[x])
  BY FS_Subset
<1>2. PICK jt : SumsOver(v, R, jt) /\ SumFunctionOnSet(v, R) = jt[R]
  BY <1>1, SumsExist, SumIs
<1>3. it[R] = jt[R]
  BY <1>1, <1>2, SumsAgree
<1> QED
  BY <1>2, <1>3

LEMMA SumOfNone ==
  ASSUME NEW v
  PROVE  SumFunctionOnSet(v, {}) = 0
<1>1. IsFiniteSet({}) /\ \A x \in {} : v[x] \in Int
  BY FS_EmptySet
<1>2. PICK it : SumsOver(v, {}, it) /\ SumFunctionOnSet(v, {}) = it[{}]
  BY <1>1, SumsExist, SumIs
<1>3. it[{}] = 0
  BY <1>2 DEF SumsOver
<1> QED
  BY <1>2, <1>3

LEMMA SumIsInteger ==
  ASSUME NEW v, NEW S, IsFiniteSet(S), \A x \in S : v[x] \in Int
  PROVE  SumFunctionOnSet(v, S) \in Int
<1>1. PICK it : SumsOver(v, S, it) /\ SumFunctionOnSet(v, S) = it[S]
  BY SumsExist, SumIs
<1> DEFINE T == {k \in Nat : \A s \in SUBSET S : Cardinality(s) = k => it[s] \in Int}
<1>2. \A s \in SUBSET S : IsFiniteSet(s) /\ Cardinality(s) \in Nat
  BY FS_Subset, FS_CardinalityType
<1>3. 0 \in T
  <2> SUFFICES ASSUME NEW s \in SUBSET S, Cardinality(s) = 0 PROVE it[s] \in Int
    OBVIOUS
  <2>1. s = {}
    BY <1>2, FS_EmptySet
  <2>2. it[{}] = 0
    BY <1>1 DEF SumsOver
  <2> QED
    BY <2>1, <2>2
<1>4. ASSUME NEW k \in Nat, k \in T PROVE k + 1 \in T
  <2> SUFFICES ASSUME NEW s \in SUBSET S, Cardinality(s) = k + 1 PROVE it[s] \in Int
    OBVIOUS
  <2>0. Cardinality({}) = 0
    BY FS_EmptySet
  <2>1. s # {}
    BY <2>0
  <2>2. PICK x \in s : it[s] = v[x] + it[s \ {x}]
    BY <1>1, <2>1, SumStep
  <2>3. s \ {x} \in SUBSET S /\ Cardinality(s \ {x}) = k
    <3>1. IsFiniteSet(s)
      BY <1>2
    <3>2. Cardinality(s \ {x}) = Cardinality(s) - 1
      BY <3>1, FS_RemoveElement
    <3> QED
      BY <3>2
  <2>4. it[s \ {x}] \in Int /\ v[x] \in Int
    BY <1>4, <2>3
  <2> QED
    BY <2>2, <2>4
<1>5. \A k \in Nat : k \in T
  <2> HIDE DEF T
  <2> QED
    BY <1>3, <1>4, NaturalInduction
<1> QED
  BY <1>1, <1>2, <1>5

(* Any term can be taken first.                                              *)
LEMMA SumTakesOut ==
  ASSUME NEW v, NEW S, IsFiniteSet(S), \A x \in S : v[x] \in Int, NEW a \in S
  PROVE  SumFunctionOnSet(v, S) = v[a] + SumFunctionOnSet(v, S \ {a})
<1>1. PICK it : SumsOver(v, S, it)
  BY SumsExist
<1>2. \A R \in SUBSET S : SumFunctionOnSet(v, R) = it[R]
  BY <1>1, SumIsPartial
<1>3. \A s \in SUBSET S : IsFiniteSet(s) /\ Cardinality(s) \in Nat
  BY FS_Subset, FS_CardinalityType
<1>4. \A s \in SUBSET S : it[s] \in Int
  <2> SUFFICES ASSUME NEW s \in SUBSET S PROVE it[s] \in Int
    OBVIOUS
  <2>1. IsFiniteSet(s) /\ \A x \in s : v[x] \in Int
    BY <1>3
  <2> QED
    BY <1>2, <2>1, SumIsInteger
<1> DEFINE Takes(s) == \A x \in s : it[s] = v[x] + it[s \ {x}]
           T == {k \in Nat : \A s \in SUBSET S : Cardinality(s) = k => Takes(s)}
<1>5. 0 \in T
  <2> SUFFICES ASSUME NEW s \in SUBSET S, Cardinality(s) = 0 PROVE Takes(s)
    OBVIOUS
  <2>1. s = {}
    BY <1>3, FS_EmptySet
  <2> QED
    BY <2>1
<1>6. ASSUME NEW k \in Nat, k \in T PROVE k + 1 \in T
  <2> SUFFICES ASSUME NEW s \in SUBSET S, Cardinality(s) = k + 1, NEW x \in s
               PROVE  it[s] = v[x] + it[s \ {x}]
    OBVIOUS
  <2>1. PICK c \in s : it[s] = v[c] + it[s \ {c}]
    BY <1>1, SumStep
  <2>2. ASSUME NEW y \in s PROVE s \ {y} \in SUBSET S /\ Cardinality(s \ {y}) = k /\ Takes(s \ {y})
    <3>1. IsFiniteSet(s)
      BY <1>3
    <3>2. Cardinality(s \ {y}) = Cardinality(s) - 1
      BY <3>1, FS_RemoveElement
    <3>3. s \ {y} \in SUBSET S /\ Cardinality(s \ {y}) = k
      BY <3>2
    <3> HIDE DEF Takes
    <3> QED
      BY <1>6, <3>3
  <2>3. CASE x = c
    BY <2>1, <2>3
  <2>4. CASE x # c
    <3>1. x \in s \ {c} /\ c \in s \ {x} /\ (s \ {c}) \ {x} = (s \ {x}) \ {c}
      BY <2>4
    <3>2. it[s \ {c}] = v[x] + it[(s \ {c}) \ {x}]
      BY <2>2, <3>1
    <3>3. it[s \ {x}] = v[c] + it[(s \ {x}) \ {c}]
      BY <2>2, <3>1
    <3> DEFINE m == it[(s \ {x}) \ {c}]
    <3>4. m \in Int /\ v[x] \in Int /\ v[c] \in Int
      BY <1>4
    <3>5. it[s \ {c}] = v[x] + m /\ it[s \ {x}] = v[c] + m
      BY <3>1, <3>2, <3>3
    <3> HIDE DEF m
    <3> QED
      BY <2>1, <3>4, <3>5
  <2> QED
    BY <2>3, <2>4
<1>7. \A k \in Nat : k \in T
  <2> HIDE DEF T
  <2> QED
    BY <1>5, <1>6, NaturalInduction
<1>8. it[S] = v[a] + it[S \ {a}]
  BY <1>3, <1>7
<1> QED
  BY <1>2, <1>8

(* The sum of two disjoint sets.                                             *)
LEMMA SumOfUnion ==
  ASSUME NEW v, NEW A, IsFiniteSet(A), NEW B, IsFiniteSet(B), A \cap B = {},
         \A x \in A \cup B : v[x] \in Int
  PROVE  SumFunctionOnSet(v, A \cup B) = SumFunctionOnSet(v, A) + SumFunctionOnSet(v, B)
<1> DEFINE Sum(s) == SumFunctionOnSet(v, s)
           T == {k \in Nat : \A s \in SUBSET A : Cardinality(s) = k => Sum(s \cup B) = Sum(s) + Sum(B)}
<1>1. \A s \in SUBSET A : IsFiniteSet(s) /\ Cardinality(s) \in Nat
  BY FS_Subset, FS_CardinalityType
<1>2. IsFiniteSet(A \cup B)
  BY FS_Union
<1>3. \A s \in SUBSET (A \cup B) : IsFiniteSet(s) /\ Sum(s) \in Int
  <2> SUFFICES ASSUME NEW s \in SUBSET (A \cup B) PROVE IsFiniteSet(s) /\ Sum(s) \in Int
    OBVIOUS
  <2>1. IsFiniteSet(s)
    BY <1>2, FS_Subset
  <2>2. \A x \in s : v[x] \in Int
    OBVIOUS
  <2> QED
    BY <2>1, <2>2, SumIsInteger
<1>4. 0 \in T
  <2> SUFFICES ASSUME NEW s \in SUBSET A, Cardinality(s) = 0 PROVE Sum(s \cup B) = Sum(s) + Sum(B)
    OBVIOUS
  <2>1. s = {}
    BY <1>1, FS_EmptySet
  <2>2. s \cup B = B /\ Sum({}) = 0 /\ Sum(B) \in Int
    BY <1>3, <2>1, SumOfNone
  <2> HIDE DEF Sum
  <2> QED
    BY <2>1, <2>2
<1>5. ASSUME NEW k \in Nat, k \in T PROVE k + 1 \in T
  <2> SUFFICES ASSUME NEW s \in SUBSET A, Cardinality(s) = k + 1
               PROVE  Sum(s \cup B) = Sum(s) + Sum(B)
    OBVIOUS
  <2>0. Cardinality({}) = 0
    BY FS_EmptySet
  <2>1. PICK c : c \in s
    BY <2>0
  <2>2. s \ {c} \in SUBSET A /\ Cardinality(s \ {c}) = k
    <3>1. IsFiniteSet(s)
      BY <1>1
    <3>2. Cardinality(s \ {c}) = Cardinality(s) - 1
      BY <2>1, <3>1, FS_RemoveElement
    <3> QED
      BY <3>2
  <2>3. Sum((s \ {c}) \cup B) = Sum(s \ {c}) + Sum(B)
    <3> HIDE DEF Sum
    <3> QED
      BY <1>5, <2>2
  <2>4. Sum(s) = v[c] + Sum(s \ {c})
    <3>1. IsFiniteSet(s) /\ \A x \in s : v[x] \in Int
      BY <1>1
    <3> QED
      BY <2>1, <3>1, SumTakesOut
  <2>5. Sum(s \cup B) = v[c] + Sum((s \cup B) \ {c})
    <3>1. IsFiniteSet(s \cup B) /\ \A x \in s \cup B : v[x] \in Int
      BY <1>3
    <3>2. c \in s \cup B
      BY <2>1
    <3> QED
      BY <3>1, <3>2, SumTakesOut
  <2>6. (s \cup B) \ {c} = (s \ {c}) \cup B
    BY <2>1
  <2>7. v[c] \in Int /\ Sum(s \ {c}) \in Int /\ Sum(B) \in Int
    BY <1>3, <2>1
  <2> DEFINE b == Sum((s \cup B) \ {c})
             d == Sum(s \ {c})
             e == Sum(B)
  <2>8. b = d + e /\ d \in Int /\ e \in Int
    BY <2>3, <2>6, <2>7
  <2> HIDE DEF Sum, b, d, e
  <2>9. Sum(s \cup B) = v[c] + b /\ Sum(s) = v[c] + d
    BY <2>4, <2>5 DEF b, d
  <2>10. v[c] + b = (v[c] + d) + e
    BY <2>7, <2>8
  <2> QED
    BY <2>9, <2>10 DEF e
<1>6. \A k \in Nat : k \in T
  <2> HIDE DEF T
  <2> QED
    BY <1>4, <1>5, NaturalInduction
<1>7. A \in SUBSET A
  OBVIOUS
<1> HIDE DEF Sum
<1>8. Sum(A \cup B) = Sum(A) + Sum(B)
  BY <1>1, <1>6, <1>7
<1> QED
  BY <1>8 DEF Sum

(* More terms that are not negative make a sum no smaller.                   *)
LEMMA SumOfMore ==
  ASSUME NEW v, NEW S, IsFiniteSet(S), NEW R \in SUBSET S, \A x \in S : v[x] \in Int,
         \A x \in S \ R : v[x] >= 0
  PROVE  SumFunctionOnSet(v, R) <= SumFunctionOnSet(v, S)
<1> DEFINE B == S \ R
<1>1. IsFiniteSet(R) /\ IsFiniteSet(B)
  BY FS_Subset
<1>2. R \cup B = S /\ R \cap B = {}
  OBVIOUS
<1>3. SumFunctionOnSet(v, R \cup B) = SumFunctionOnSet(v, R) + SumFunctionOnSet(v, B)
  <2>1. \A x \in R \cup B : v[x] \in Int
    OBVIOUS
  <2> QED
    BY <1>1, <1>2, <2>1, SumOfUnion
<1>4. SumFunctionOnSet(v, B) \in Int /\ SumFunctionOnSet(v, B) >= 0 * Cardinality(B)
  <2>1. 0 \in Int /\ \A x \in B : v[x] \in Int /\ v[x] >= 0
    OBVIOUS
  <2> QED
    BY <1>1, <2>1, SumAtLeast
<1>5. Cardinality(B) \in Nat
  BY <1>1, FS_CardinalityType
<1>6. SumFunctionOnSet(v, R) \in Int
  BY <1>1, SumIsInteger
<1>7. SumFunctionOnSet(v, R \cup B) = SumFunctionOnSet(v, S)
  BY <1>2
<1>8. 0 * Cardinality(B) = 0
  BY <1>5
<1> HIDE DEF B
<1> QED
  BY <1>3, <1>4, <1>6, <1>7, <1>8

(* The sums of disjoint parts add up to the sum of what they cover.          *)
LEMMA SumOfSums ==
  ASSUME NEW w, NEW C, IsFiniteSet(C), \A c \in C : w[c] \in Int,
         NEW S, IsFiniteSet(S), NEW part \in [S -> SUBSET C],
         \A x, y \in S : x # y => part[x] \cap part[y] = {},
         NEW v, \A x \in S : v[x] = SumFunctionOnSet(w, part[x])
  PROVE  SumFunctionOnSet(v, S) = SumFunctionOnSet(w, {c \in C : \E x \in S : c \in part[x]})
<1> DEFINE Cover(s) == {c \in C : \E x \in s : c \in part[x]}
           Sum(s) == SumFunctionOnSet(v, s)
           Covered(s) == SumFunctionOnSet(w, Cover(s))
           T == {k \in Nat : \A s \in SUBSET S : Cardinality(s) = k => Sum(s) = Covered(s)}
<1>1. \A A \in SUBSET C : IsFiniteSet(A) /\ SumFunctionOnSet(w, A) \in Int
  <2> SUFFICES ASSUME NEW A \in SUBSET C PROVE IsFiniteSet(A) /\ SumFunctionOnSet(w, A) \in Int
    OBVIOUS
  <2>1. IsFiniteSet(A) /\ \A x \in A : w[x] \in Int
    BY FS_Subset
  <2> QED
    BY <2>1, SumIsInteger
<1>2. \A x \in S : part[x] \in SUBSET C
  OBVIOUS
<1>3. \A x \in S : v[x] \in Int
  BY <1>1, <1>2
<1>4. \A s \in SUBSET S : IsFiniteSet(s) /\ Cardinality(s) \in Nat
  BY FS_Subset, FS_CardinalityType
<1>5. 0 \in T
  <2> SUFFICES ASSUME NEW s \in SUBSET S, Cardinality(s) = 0 PROVE Sum(s) = Covered(s)
    OBVIOUS
  <2>1. s = {}
    BY <1>4, FS_EmptySet
  <2>2. Cover(s) = {}
    BY <2>1
  <2> QED
    BY <2>1, <2>2, SumOfNone
<1>6. ASSUME NEW k \in Nat, k \in T PROVE k + 1 \in T
  <2> SUFFICES ASSUME NEW s \in SUBSET S, Cardinality(s) = k + 1 PROVE Sum(s) = Covered(s)
    OBVIOUS
  <2>0. Cardinality({}) = 0
    BY FS_EmptySet
  <2>1. PICK x : x \in s
    BY <2>0
  <2>2. s \ {x} \in SUBSET S /\ Cardinality(s \ {x}) = k
    <3>1. IsFiniteSet(s)
      BY <1>4
    <3>2. Cardinality(s \ {x}) = Cardinality(s) - 1
      BY <2>1, <3>1, FS_RemoveElement
    <3> QED
      BY <3>2
  <2>3. Sum(s \ {x}) = Covered(s \ {x})
    <3> HIDE DEF Sum, Covered
    <3> QED
      BY <1>6, <2>2
  <2>4. Sum(s) = v[x] + Sum(s \ {x})
    <3>1. IsFiniteSet(s) /\ \A y \in s : v[y] \in Int
      BY <1>3, <1>4
    <3> QED
      BY <2>1, <3>1, SumTakesOut
  <2> DEFINE A == part[x]
             B == Cover(s \ {x})
  <2>5. Cover(s) = A \cup B
    BY <1>2, <2>1
  <2>6. A \cap B = {}
    BY <2>1
  <2>7. A \in SUBSET C /\ B \in SUBSET C /\ v[x] = SumFunctionOnSet(w, A)
    BY <1>2, <2>1
  <2>8. Covered(s) = SumFunctionOnSet(w, A \cup B) /\ Covered(s \ {x}) = SumFunctionOnSet(w, B)
    BY <2>5
  <2> HIDE DEF A, B, Cover, Covered, Sum
  <2>9. SumFunctionOnSet(w, A \cup B) = SumFunctionOnSet(w, A) + SumFunctionOnSet(w, B)
    <3>1. IsFiniteSet(A) /\ IsFiniteSet(B) /\ \A c \in A \cup B : w[c] \in Int
      BY <1>1, <2>7
    <3> QED
      BY <2>6, <3>1, SumOfUnion
  <2> QED
    BY <2>3, <2>4, <2>7, <2>8, <2>9
<1>7. \A k \in Nat : k \in T
  <2> HIDE DEF T
  <2> QED
    BY <1>5, <1>6, NaturalInduction
<1>8. S \in SUBSET S
  OBVIOUS
<1>9. Sum(S) = Covered(S)
  <2> HIDE DEF Sum, Covered
  <2> QED
    BY <1>4, <1>7, <1>8
<1> QED
  BY <1>9
===============================================================================
