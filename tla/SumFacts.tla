------------------------------ MODULE SumFacts ------------------------------
(***************************************************************************)
(* What the balances and counters of the programs add up to is a           *)
(* MapThenSumSet over the goroutines; this module proves what that         *)
(* operator computes, for every finite set of goroutines:                  *)
(*   SumEmpty              a sum over {} is 0                              *)
(*   SumType, SumNat       one of integers an integer, of naturals natural *)
(*   SumRemove, SumAdd     one element more or less adds its own summand   *)
(*   SumSame, SumChange    only the summands count, and one that changes   *)
(*                         changes the sum by the same amount              *)
(*   SumZero, SumOutside   zeros add nothing                               *)
(*   SumAtMost             a sum of zeros and ones counts at most them all *)
(*   SumConstant           equal summands multiply                         *)
(* MapThenSumSet takes its elements out of the set in the order of a       *)
(* CHOOSE, so the work is to show that the order does not matter. The      *)
(* inductions are arguments by a least counterexample: NatMinimum and      *)
(* SetMinimum say that there is one.                                       *)
(***************************************************************************)
EXTENDS Integers, FiniteSetsExt, FiniteSetTheorems, WellFoundedInduction, TLAPS

Sum(f, S) == MapThenSumSet(LAMBDA x : f[x], S)

-----------------------------------------------------------------------------
(* Least counterexamples *)

LEMMA NatMinimum ==
  ASSUME NEW T, T \subseteq Nat, T # {}
  PROVE  \E n \in T : \A m \in T : n <= m
<1> DEFINE Less == OpToRel(<, Nat)
<1>1. Less = {ss \in Nat \X Nat : ss[1] < ss[2]}
  BY DEF OpToRel
<1>2. IsWellFoundedOn(Less, Nat)
  BY NatLessThanWellFounded
<1> HIDE DEF Less
<1>3. PICK n \in T : \A m \in T : <<m, n>> \notin Less
  BY <1>2, WFMin
<1>4. ASSUME NEW m \in T PROVE n <= m
  <2>1. <<m, n>> \in Nat \X Nat /\ <<m, n>> \notin Less
    BY <1>3
  <2>2. ~(m < n)
    BY <2>1, <1>1
  <2> QED
    BY <2>1, <2>2
<1> QED
  BY <1>4

LEMMA SetMinimum ==
  ASSUME NEW S, IsFiniteSet(S), NEW T, T \subseteq SUBSET S, T # {}
  PROVE  \E s \in T : \A x \in s : s \ {x} \notin T
<1>1. IsWellFoundedOn(StrictSubsetOrdering(S), SUBSET S)
  BY FS_StrictSubsetOrderingWellFounded, FS_FiniteSubsetsOfFinite
<1>2. PICK s \in T : \A u \in T : <<u, s>> \notin StrictSubsetOrdering(S)
  BY <1>1, WFMin
<1>3. ASSUME NEW x \in s PROVE s \ {x} \notin T
  <2>1. s \ {x} \in SUBSET S /\ s \ {x} \subseteq s /\ s \ {x} # s
    OBVIOUS
  <2>2. <<s \ {x}, s>> \in StrictSubsetOrdering(S)
    BY <2>1 DEF StrictSubsetOrdering
  <2> QED
    BY <1>2, <2>2
<1> QED
  BY <1>3

-----------------------------------------------------------------------------
(* The iteration behind MapThenSumSet *)

Chosen(s) == CHOOSE x \in s : TRUE
SumStep(f, it, s) == IF s = {} THEN 0 ELSE f[Chosen(s)] + it[s \ {Chosen(s)}]
IsSum(f, it, D) == it = [s \in D |-> SumStep(f, it, s)]

LEMMA SumIsIterated ==
  ASSUME NEW f, NEW S
  PROVE  Sum(f, S) = (CHOOSE it : IsSum(f, it, SUBSET S))[S]
BY DEF Sum, MapThenSumSet, MapThenFoldSet, IsSum, SumStep, Chosen

LEMMA ChosenIn == \A s : s # {} => Chosen(s) \in s
BY DEF Chosen

\* The iteration is defined on the sets of at most n elements, for every n: at
\* the least n for which it is not, one more step defines it.
LEMMA SumExists ==
  ASSUME NEW f, NEW S, IsFiniteSet(S)
  PROVE  \E it : IsSum(f, it, SUBSET S)
<1> DEFINE D(n) == {s \in SUBSET S : Cardinality(s) <= n}
<1> DEFINE Bad == {n \in Nat : ~ \E it : IsSum(f, it, D(n))}
<1>1. \A s \in SUBSET S : IsFiniteSet(s) /\ Cardinality(s) \in Nat
  BY FS_Subset, FS_CardinalityType
<1>2. Bad = {}
  <2> SUFFICES ASSUME Bad # {} PROVE FALSE
    OBVIOUS
  <2>1. PICK n \in Bad : \A m \in Bad : n <= m
    <3>1. Bad \subseteq Nat
      OBVIOUS
    <3> HIDE DEF Bad
    <3> QED
      BY <3>1, NatMinimum
  <2>2. CASE n = 0
    <3>1. \A s \in D(0) : s = {}
      BY <1>1, FS_EmptySet
    <3>2. IsSum(f, [s \in D(0) |-> 0], D(0))
      BY <3>1 DEF IsSum, SumStep
    <3> QED
      BY <2>2, <3>2
  <2>3. CASE n # 0
    <3>1. n - 1 \in Nat /\ n - 1 \notin Bad
      <4>1. n \in Nat
        OBVIOUS
      <4>2. n - 1 \in Nat /\ ~(n <= n - 1)
        BY <4>1, <2>3
      <4> HIDE DEF Bad
      <4> QED
        BY <4>2, <2>1
    <3>2. PICK it : IsSum(f, it, D(n - 1))
      BY <3>1
    <3> DEFINE more == [s \in D(n) |-> SumStep(f, it, s)]
    <3>3. ASSUME NEW s \in D(n) PROVE SumStep(f, more, s) = SumStep(f, it, s)
      <4>1. CASE s = {}
        BY <4>1 DEF SumStep
      <4>2. CASE s # {}
        <5> DEFINE rest == s \ {Chosen(s)}
        <5>1. Chosen(s) \in s
          BY <4>2, ChosenIn
        <5>2. IsFiniteSet(s) /\ Cardinality(s) \in Nat /\ Cardinality(s) <= n
          BY <1>1
        <5>3. Cardinality(rest) = Cardinality(s) - 1
          BY <5>1, <5>2, FS_RemoveElement
        <5>4. rest \in D(n - 1) /\ rest \in D(n)
          BY <5>2, <5>3, <3>1
        <5>5. more[rest] = SumStep(f, it, rest)
          BY <5>4
        <5>6. it[rest] = SumStep(f, it, rest)
          BY <5>4, <3>2 DEF IsSum
        <5> QED
          BY <4>2, <5>5, <5>6 DEF SumStep
      <4> QED
        BY <4>1, <4>2
    <3>4. IsSum(f, more, D(n))
      BY <3>3 DEF IsSum
    <3> QED
      BY <3>4
  <2> QED
    BY <2>2, <2>3
<1>3. Cardinality(S) \in Nat /\ D(Cardinality(S)) = SUBSET S
  BY <1>1, FS_Subset
<1> QED
  BY <1>2, <1>3

\* Two iterations agree where both are defined, whatever the larger set.
LEMMA SumUnique ==
  ASSUME NEW f, NEW S, IsFiniteSet(S), NEW T \in SUBSET S,
         NEW large, NEW small
  PROVE  IsSum(f, large, SUBSET S) /\ IsSum(f, small, SUBSET T) => large[T] = small[T]
<1> HAVE IsSum(f, large, SUBSET S) /\ IsSum(f, small, SUBSET T)
<1> DEFINE Bad == {s \in SUBSET T : large[s] # small[s]}
<1> SUFFICES Bad = {}
  OBVIOUS
<1> SUFFICES ASSUME Bad # {} PROVE FALSE
  OBVIOUS
<1>1. IsFiniteSet(T)
  BY FS_Subset
<1>2. PICK s \in Bad : \A x \in s : s \ {x} \notin Bad
  <2>1. Bad \subseteq SUBSET T
    OBVIOUS
  <2> HIDE DEF Bad
  <2> QED
    BY <2>1, <1>1, SetMinimum
<1>3. large[s] = SumStep(f, large, s) /\ small[s] = SumStep(f, small, s)
  BY DEF IsSum
<1>4. s # {}
  BY <1>3 DEF SumStep
<1>5. large[s \ {Chosen(s)}] = small[s \ {Chosen(s)}]
  BY <1>2, <1>4, ChosenIn
<1> QED
  BY <1>3, <1>4, <1>5 DEF SumStep

LEMMA SumIteration ==
  ASSUME NEW f, NEW S, IsFiniteSet(S), S # {}
  PROVE  Sum(f, S) = f[Chosen(S)] + Sum(f, S \ {Chosen(S)})
<1> DEFINE rest == S \ {Chosen(S)}
           large == CHOOSE it : IsSum(f, it, SUBSET S)
           small == CHOOSE it : IsSum(f, it, SUBSET rest)
<1>1. IsFiniteSet(rest)
  BY FS_Subset
<1>2. IsSum(f, large, SUBSET S)
  BY SumExists
<1>3. IsSum(f, small, SUBSET rest)
  BY <1>1, SumExists
<1>4. Sum(f, S) = large[S] /\ Sum(f, rest) = small[rest]
  BY SumIsIterated
<1> HIDE DEF large, small
<1>5. large[rest] = small[rest]
  <2>1. rest \in SUBSET S
    OBVIOUS
  <2> HIDE DEF rest
  <2> QED
    BY <2>1, <1>2, <1>3, SumUnique
<1>6. large[S] = f[Chosen(S)] + large[rest]
  BY <1>2 DEF IsSum, SumStep
<1> QED
  BY <1>4, <1>5, <1>6

-----------------------------------------------------------------------------
(* What a sum is *)

LEMMA SumEmpty ==
  ASSUME NEW f
  PROVE  Sum(f, {}) = 0
<1> DEFINE it == CHOOSE i : IsSum(f, i, SUBSET {})
<1>1. IsSum(f, it, SUBSET {})
  BY SumExists, FS_EmptySet
<1>2. Sum(f, {}) = it[{}]
  BY SumIsIterated
<1> HIDE DEF it
<1> QED
  BY <1>1, <1>2 DEF IsSum, SumStep

LEMMA SumType ==
  ASSUME NEW f, NEW S, IsFiniteSet(S), \A x \in S : f[x] \in Int
  PROVE  Sum(f, S) \in Int
<1> DEFINE Bad == {s \in SUBSET S : Sum(f, s) \notin Int}
<1> SUFFICES ASSUME Bad # {} PROVE FALSE
  OBVIOUS
<1>1. PICK s \in Bad : \A x \in s : s \ {x} \notin Bad
  <2>1. Bad \subseteq SUBSET S
    OBVIOUS
  <2> HIDE DEF Bad
  <2> QED
    BY <2>1, SetMinimum
<1>2. s # {}
  BY SumEmpty
<1>3. Chosen(s) \in s /\ IsFiniteSet(s)
  BY <1>2, ChosenIn, FS_Subset
<1>4. Sum(f, s \ {Chosen(s)}) \in Int /\ f[Chosen(s)] \in Int
  BY <1>1, <1>3
<1>5. Sum(f, s) = f[Chosen(s)] + Sum(f, s \ {Chosen(s)})
  BY <1>2, <1>3, SumIteration
<1> QED
  BY <1>4, <1>5

LEMMA SumNat ==
  ASSUME NEW f, NEW S, IsFiniteSet(S), \A x \in S : f[x] \in Nat
  PROVE  Sum(f, S) \in Nat
<1> DEFINE Bad == {s \in SUBSET S : Sum(f, s) \notin Nat}
<1> SUFFICES ASSUME Bad # {} PROVE FALSE
  OBVIOUS
<1>1. PICK s \in Bad : \A x \in s : s \ {x} \notin Bad
  <2>1. Bad \subseteq SUBSET S
    OBVIOUS
  <2> HIDE DEF Bad
  <2> QED
    BY <2>1, SetMinimum
<1>2. s # {}
  BY SumEmpty
<1>3. Chosen(s) \in s /\ IsFiniteSet(s)
  BY <1>2, ChosenIn, FS_Subset
<1>4. Sum(f, s \ {Chosen(s)}) \in Nat /\ f[Chosen(s)] \in Nat
  BY <1>1, <1>3
<1>5. Sum(f, s) = f[Chosen(s)] + Sum(f, s \ {Chosen(s)})
  BY <1>2, <1>3, SumIteration
<1> QED
  BY <1>4, <1>5

\* The order in which the elements are taken does not matter: at a smallest
\* set in which it does, x and the element chosen first can be exchanged.
LEMMA SumRemove ==
  ASSUME NEW f, NEW S, IsFiniteSet(S), \A y \in S : f[y] \in Int, NEW x \in S
  PROVE  Sum(f, S) = f[x] + Sum(f, S \ {x})
<1> DEFINE Bad == {s \in SUBSET S : \E y \in s : Sum(f, s) # f[y] + Sum(f, s \ {y})}
<1> SUFFICES ASSUME Bad # {} PROVE FALSE
  OBVIOUS
<1>1. PICK s \in Bad : \A y \in s : s \ {y} \notin Bad
  <2>1. Bad \subseteq SUBSET S
    OBVIOUS
  <2> HIDE DEF Bad
  <2> QED
    BY <2>1, SetMinimum
<1>2. PICK y \in s : Sum(f, s) # f[y] + Sum(f, s \ {y})
  OBVIOUS
<1> DEFINE c == Chosen(s)
<1>3. c \in s /\ IsFiniteSet(s)
  BY <1>2, ChosenIn, FS_Subset
<1>4. Sum(f, s) = f[c] + Sum(f, s \ {c})
  BY <1>3, SumIteration
<1>5. c # y
  BY <1>2, <1>4
<1>6. Sum(f, s \ {c}) = f[y] + Sum(f, (s \ {c}) \ {y})
  BY <1>1, <1>3, <1>5
<1>7. Sum(f, s \ {y}) = f[c] + Sum(f, (s \ {y}) \ {c})
  BY <1>1, <1>3, <1>5
<1>8. (s \ {c}) \ {y} = (s \ {y}) \ {c}
  OBVIOUS
<1>9. f[c] \in Int /\ f[y] \in Int /\ Sum(f, (s \ {c}) \ {y}) \in Int
  <2>1. IsFiniteSet((s \ {c}) \ {y})
    BY <1>3, FS_Subset
  <2> QED
    BY <2>1, <1>3, SumType
<1>10. \A a, b, d \in Int : a + (b + d) = b + (a + d)
  OBVIOUS
<1> HIDE DEF c
<1> QED
  <2> DEFINE r == Sum(f, (s \ {c}) \ {y})
  <2>1. Sum(f, s) = f[c] + (f[y] + r)
    BY <1>4, <1>6
  <2>2. f[y] + Sum(f, s \ {y}) = f[y] + (f[c] + r)
    BY <1>7, <1>8
  <2>3. f[c] + (f[y] + r) = f[y] + (f[c] + r)
    <3> HIDE DEF r
    <3> QED
      BY <1>9, <1>10 DEF r
  <2> QED
    BY <1>2, <2>1, <2>2, <2>3

LEMMA SumAdd ==
  ASSUME NEW f, NEW S, IsFiniteSet(S), NEW x, x \notin S, \A y \in S \cup {x} : f[y] \in Int
  PROVE  Sum(f, S \cup {x}) = Sum(f, S) + f[x]
<1>1. IsFiniteSet(S \cup {x})
  BY FS_AddElement
<1>2. Sum(f, S \cup {x}) = f[x] + Sum(f, (S \cup {x}) \ {x})
  BY <1>1, SumRemove
<1>3. (S \cup {x}) \ {x} = S
  OBVIOUS
<1>4. Sum(f, S) \in Int /\ f[x] \in Int
  BY SumType
<1>5. \A a, b \in Int : a + b = b + a
  OBVIOUS
<1> QED
  BY <1>2, <1>3, <1>4, <1>5

LEMMA SumSame ==
  ASSUME NEW f, NEW g, NEW S, IsFiniteSet(S), \A x \in S : f[x] = g[x]
  PROVE  Sum(f, S) = Sum(g, S)
<1> DEFINE Bad == {s \in SUBSET S : Sum(f, s) # Sum(g, s)}
<1> SUFFICES ASSUME Bad # {} PROVE FALSE
  OBVIOUS
<1>1. PICK s \in Bad : \A x \in s : s \ {x} \notin Bad
  <2>1. Bad \subseteq SUBSET S
    OBVIOUS
  <2> HIDE DEF Bad
  <2> QED
    BY <2>1, SetMinimum
<1>2. s # {}
  BY SumEmpty
<1>3. Chosen(s) \in s /\ IsFiniteSet(s)
  BY <1>2, ChosenIn, FS_Subset
<1>4. Sum(f, s \ {Chosen(s)}) = Sum(g, s \ {Chosen(s)}) /\ f[Chosen(s)] = g[Chosen(s)]
  BY <1>1, <1>3
<1>5. Sum(f, s) = f[Chosen(s)] + Sum(f, s \ {Chosen(s)})
  BY <1>2, <1>3, SumIteration
<1>6. Sum(g, s) = g[Chosen(s)] + Sum(g, s \ {Chosen(s)})
  BY <1>2, <1>3, SumIteration
<1> QED
  BY <1>4, <1>5, <1>6

LEMMA SumChange ==
  ASSUME NEW f, NEW g, NEW S, IsFiniteSet(S), NEW x \in S,
         \A y \in S : f[y] \in Int /\ g[y] \in Int, \A y \in S \ {x} : g[y] = f[y]
  PROVE  Sum(g, S) = Sum(f, S) + (g[x] - f[x])
<1>1. Sum(f, S) = f[x] + Sum(f, S \ {x}) /\ Sum(g, S) = g[x] + Sum(g, S \ {x})
  BY SumRemove
<1>2. IsFiniteSet(S \ {x})
  BY FS_Subset
<1>3. Sum(f, S \ {x}) = Sum(g, S \ {x})
  BY <1>2, SumSame
<1>4. Sum(f, S \ {x}) \in Int
  BY <1>2, SumType
<1> QED
  BY <1>1, <1>3, <1>4

LEMMA SumZero ==
  ASSUME NEW f, NEW S, IsFiniteSet(S), \A x \in S : f[x] = 0
  PROVE  Sum(f, S) = 0
<1> DEFINE Bad == {s \in SUBSET S : Sum(f, s) # 0}
<1> SUFFICES ASSUME Bad # {} PROVE FALSE
  OBVIOUS
<1>1. PICK s \in Bad : \A x \in s : s \ {x} \notin Bad
  <2>1. Bad \subseteq SUBSET S
    OBVIOUS
  <2> HIDE DEF Bad
  <2> QED
    BY <2>1, SetMinimum
<1>2. s # {}
  BY SumEmpty
<1>3. Chosen(s) \in s /\ IsFiniteSet(s)
  BY <1>2, ChosenIn, FS_Subset
<1>4. Sum(f, s \ {Chosen(s)}) = 0 /\ f[Chosen(s)] = 0
  BY <1>1, <1>3
<1>5. Sum(f, s) = f[Chosen(s)] + Sum(f, s \ {Chosen(s)})
  BY <1>2, <1>3, SumIteration
<1> QED
  BY <1>4, <1>5

LEMMA SumOutside ==
  ASSUME NEW f, NEW T, IsFiniteSet(T), NEW S \in SUBSET T,
         \A x \in T : f[x] \in Int, \A x \in T \ S : f[x] = 0
  PROVE  Sum(f, T) = Sum(f, S)
<1> DEFINE Bad == {u \in SUBSET (T \ S) : Sum(f, S \cup u) # Sum(f, S)}
<1>1. Bad = {}
  <2> SUFFICES ASSUME Bad # {} PROVE FALSE
    OBVIOUS
  <2>1. PICK u \in Bad : \A x \in u : u \ {x} \notin Bad
    <3>1. Bad \subseteq SUBSET (T \ S) /\ IsFiniteSet(T \ S)
      BY FS_Subset
    <3> HIDE DEF Bad
    <3> QED
      BY <3>1, SetMinimum
  <2>2. u # {}
    OBVIOUS
  <2>3. PICK x \in u : TRUE
    BY <2>2
  <2>4. Sum(f, S \cup (u \ {x})) = Sum(f, S)
    BY <2>1
  <2>5. S \cup u \subseteq T /\ IsFiniteSet(S \cup u) /\ x \in S \cup u
    BY FS_Subset
  <2>6. Sum(f, S \cup u) = f[x] + Sum(f, (S \cup u) \ {x})
    BY <2>5, SumRemove
  <2>7. (S \cup u) \ {x} = S \cup (u \ {x}) /\ f[x] = 0
    OBVIOUS
  <2>8. Sum(f, S) \in Int
    BY FS_Subset, SumType
  <2>9. Sum(f, (S \cup u) \ {x}) = Sum(f, S)
    BY <2>4, <2>7
  <2>10. \A n \in Int : 0 + n = n
    OBVIOUS
  <2>11. Sum(f, S \cup u) = Sum(f, S)
    BY <2>6, <2>7, <2>8, <2>9, <2>10
  <2> QED
    BY <2>11
<1>2. T \ S \in SUBSET (T \ S) /\ S \cup (T \ S) = T
  OBVIOUS
<1>3. Sum(f, S \cup (T \ S)) = Sum(f, S)
  BY <1>1, <1>2
<1> QED
  BY <1>2, <1>3

LEMMA SumAtMost ==
  ASSUME NEW f, NEW S, IsFiniteSet(S), \A x \in S : f[x] \in {0, 1}
  PROVE  Sum(f, S) <= Cardinality(S)
<1> DEFINE Bad == {s \in SUBSET S : ~(Sum(f, s) <= Cardinality(s))}
<1> SUFFICES ASSUME Bad # {} PROVE FALSE
  OBVIOUS
<1>1. PICK s \in Bad : \A x \in s : s \ {x} \notin Bad
  <2>1. Bad \subseteq SUBSET S
    OBVIOUS
  <2> HIDE DEF Bad
  <2> QED
    BY <2>1, SetMinimum
<1>2. s # {}
  BY SumEmpty, FS_EmptySet
<1>3. PICK x \in s : TRUE
  BY <1>2
<1>4. IsFiniteSet(s) /\ IsFiniteSet(s \ {x})
  BY FS_Subset
<1>5. Sum(f, s) = f[x] + Sum(f, s \ {x})
  BY <1>4, SumRemove
<1>6. Cardinality(s \ {x}) = Cardinality(s) - 1 /\ Cardinality(s) \in Nat
  BY <1>4, FS_RemoveElement, FS_CardinalityType
<1>7. Sum(f, s \ {x}) <= Cardinality(s \ {x})
  BY <1>1
<1>8. Sum(f, s \ {x}) \in Int /\ f[x] \in {0, 1}
  BY <1>4, SumType
<1> QED
  BY <1>5, <1>6, <1>7, <1>8

LEMMA SumConstant ==
  ASSUME NEW f, NEW S, IsFiniteSet(S), NEW c \in Int, \A x \in S : f[x] = c
  PROVE  Sum(f, S) = Cardinality(S) * c
<1> DEFINE Bad == {s \in SUBSET S : Sum(f, s) # Cardinality(s) * c}
<1> SUFFICES ASSUME Bad # {} PROVE FALSE
  OBVIOUS
<1>1. PICK s \in Bad : \A x \in s : s \ {x} \notin Bad
  <2>1. Bad \subseteq SUBSET S
    OBVIOUS
  <2> HIDE DEF Bad
  <2> QED
    BY <2>1, SetMinimum
<1>2. s # {}
  BY SumEmpty, FS_EmptySet
<1>3. PICK x \in s : TRUE
  BY <1>2
<1>4. IsFiniteSet(s) /\ IsFiniteSet(s \ {x})
  BY FS_Subset
<1>5. Sum(f, s) = f[x] + Sum(f, s \ {x})
  BY <1>4, SumRemove
<1>6. Cardinality(s \ {x}) = Cardinality(s) - 1 /\ Cardinality(s) \in Nat
  BY <1>4, FS_RemoveElement, FS_CardinalityType
<1>7. Sum(f, s \ {x}) = (Cardinality(s) - 1) * c
  BY <1>1, <1>6
<1>8. \A n \in Int : c + (n - 1) * c = n * c
  OBVIOUS
<1> QED
  BY <1>5, <1>6, <1>7, <1>8
=============================================================================
