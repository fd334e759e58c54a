------------------------------ MODULE SumTheorems ------------------------------
(***************************************************************************)
(* Sums over finite sets, as the models write them with SumFunctionOnSet:  *)
(* what the theorems about money need of them, for sets of every size.     *)
(*                                                                         *)
(* The partial sums of a set exist by induction over the size of its       *)
(* subsets, and everything else follows by induction over the subsets.     *)
(* Both inductions are over families of sets, which are sets themselves,   *)
(* so that the provers can use them.                                       *)
(***************************************************************************)
EXTENDS Functions, FiniteSetTheorems, TLAPS

\* Induction over the subsets of a finite set: a family has every subset of S if
\* it has a set whenever it has that set without any one of its elements.
LEMMA SetInduction ==
  ASSUME NEW S, IsFiniteSet(S), NEW B,
         \A T \in SUBSET S : (\A x \in T : T \ {x} \in B) => T \in B
  PROVE  SUBSET S \subseteq B
<1> DEFINE bad == {T \in SUBSET S : T \notin B}
<1> SUFFICES ASSUME bad # {}
             PROVE  FALSE
  OBVIOUS
<1>1. IsWellFoundedOn(StrictSubsetOrdering(S), SUBSET S)
  <2>1. FiniteSubsetsOf(S) = SUBSET S
    BY FS_FiniteSubsetsOfFinite
  <2>2. IsWellFoundedOn(StrictSubsetOrdering(S), FiniteSubsetsOf(S))
    BY FS_StrictSubsetOrderingWellFounded
  <2> QED BY <2>1, <2>2, Zenon
<1>2. PICK T \in bad : \A U \in bad : <<U, T>> \notin StrictSubsetOrdering(S)
  <2>1. bad \subseteq SUBSET S
    OBVIOUS
  <2> HIDE DEF bad
  <2> QED BY <1>1, <2>1, WFMin
<1>3. ASSUME NEW x \in T
      PROVE  T \ {x} \in B
  <2>1. <<T \ {x}, T>> \in StrictSubsetOrdering(S)
    BY <1>3 DEF StrictSubsetOrdering
  <2> QED BY <1>2, <2>1
<1> QED BY <1>2, <1>3

\* Induction over the numbers up to n, as a set of numbers.
LEMMA NumberInduction ==
  ASSUME NEW B, 0 \in B, \A n \in Nat : n \in B => n + 1 \in B
  PROVE  Nat \subseteq B
<1> DEFINE bad == Nat \ B
<1> SUFFICES ASSUME bad # {}
             PROVE  FALSE
  OBVIOUS
<1>1. PICK n \in bad : \A m \in bad : <<m, n>> \notin OpToRel(<, Nat)
  <2>1. bad \subseteq Nat
    OBVIOUS
  <2> HIDE DEF bad
  <2> QED BY <2>1, WFMin, NatLessThanWellFounded
<1>2. \A m \in bad : ~(m < n)
  BY <1>1 DEF OpToRel
<1>3. n \in Nat /\ n # 0
  BY <1>1
<1>4. n - 1 \in Nat /\ n - 1 < n /\ (n - 1) + 1 = n
  BY <1>3
<1>5. n - 1 \in B
  BY <1>2, <1>4
<1> QED BY <1>1, <1>4, <1>5

\* A set of numbers has a least one.
LEMMA LeastNumber ==
  ASSUME NEW N, N \subseteq Nat, N # {}
  PROVE  \E n \in N : \A m \in N : n <= m
<1> SUFFICES ASSUME \A n \in N : \E m \in N : ~(n <= m)
             PROVE  FALSE
  OBVIOUS
<1> DEFINE B == {n \in Nat : \A m \in N : n < m}
<1>1. 0 \in B
  OBVIOUS
<1>2. \A n \in Nat : n \in B => n + 1 \in B
  OBVIOUS
<1> HIDE DEF B
<1>3. Nat \subseteq B
  BY <1>1, <1>2, NumberInduction
<1>4. PICK n \in N : n \in Nat
  OBVIOUS
<1> QED BY <1>3, <1>4 DEF B

Chosen(T) == CHOOSE x \in T : TRUE

\* The terms that MapThenFoldSet adds.
Term(f, g, T) == IF T = {} THEN 0 ELSE f[Chosen(T)] + g[T \ {Chosen(T)}]

PartialSums(f, g, S) == g = [T \in SUBSET S |-> Term(f, g, T)]

IntegerOn(f, S) == \A x \in S : f[x] \in Int

\* A sum is the last of its partial sums.
LEMMA SumUnfolds ==
  ASSUME NEW f, NEW S
  PROVE  SumFunctionOnSet(f, S) = (CHOOSE g : PartialSums(f, g, S))[S]
BY DEF SumFunctionOnSet, FoldFunctionOnSet, MapThenFoldSet, PartialSums, Term, Chosen

\* The element that is chosen is one of the set.
LEMMA ChosenIn ==
  ASSUME NEW T, T # {}
  PROVE  Chosen(T) \in T
BY DEF Chosen

\* g has the result of a fold over S and over every part of S.
PartialFolds(step, base, g, S) ==
  \A T \in SUBSET S :
    g[T] = IF T = {} THEN base ELSE step[<<Chosen(T), g[T \ {Chosen(T)}]>>]

\* There are partial results of every fold whose steps stay in a set: they are
\* defined set by set, from the smaller to the larger.
LEMMA FoldsExist ==
  ASSUME NEW S, IsFiniteSet(S), NEW L, NEW base \in L, NEW step \in [S \X L -> L]
  PROVE  \E g \in [SUBSET S -> L] : PartialFolds(step, base, g, S)
<1> DEFINE Result(g, T) ==
             IF T = {} THEN base ELSE step[<<Chosen(T), g[T \ {Chosen(T)}]>>]
           UpTo(n, g) ==
             \A T \in SUBSET S : Cardinality(T) <= n => g[T] = Result(g, T)
           B == {n \in Nat : \E g \in [SUBSET S -> L] : UpTo(n, g)}
<1>1. \A T \in SUBSET S : IsFiniteSet(T) /\ Cardinality(T) \in Nat
  BY FS_Subset, FS_CardinalityType
<1>2. \A T \in SUBSET S : Cardinality(T) = 0 <=> T = {}
  BY <1>1, FS_EmptySet
<1>3. \A T \in SUBSET S : T # {} =>
        /\ T \ {Chosen(T)} \in SUBSET S /\ Chosen(T) \in S
        /\ Cardinality(T \ {Chosen(T)}) = Cardinality(T) - 1
  BY <1>1, ChosenIn, FS_RemoveElement
<1>4. 0 \in B
  <2> DEFINE g == [T \in SUBSET S |-> base]
  <2>1. g \in [SUBSET S -> L] /\ UpTo(0, g)
    BY <1>1, <1>2
  <2> QED BY <2>1
<1>5. ASSUME NEW n \in Nat, n \in B
      PROVE  n + 1 \in B
  <2>1. PICK g \in [SUBSET S -> L] : UpTo(n, g)
    BY <1>5
  <2> DEFINE h == [T \in SUBSET S |-> Result(g, T)]
  <2>2. h \in [SUBSET S -> L]
    <3>1. ASSUME NEW T \in SUBSET S
          PROVE  Result(g, T) \in L
      <4>1. CASE T = {}
        BY <4>1
      <4>2. CASE T # {}
        <5>1. Chosen(T) \in S /\ g[T \ {Chosen(T)}] \in L
          BY <1>3, <4>2
        <5> QED BY <4>2, <5>1
      <4> QED BY <4>1, <4>2
    <3> HIDE DEF Result
    <3> QED BY <3>1
  <2>3. ASSUME NEW T \in SUBSET S, Cardinality(T) <= n + 1
        PROVE  h[T] = Result(h, T)
    <3>1. CASE T = {}
      BY <3>1
    <3>2. CASE T # {}
      <4> DEFINE U == T \ {Chosen(T)}
      <4>1. U \in SUBSET S /\ Cardinality(U) <= n
        BY <1>1, <1>3, <2>3, <3>2
      <4>2. g[U] = h[U]
        BY <2>1, <4>1
      <4> QED BY <3>2, <4>1, <4>2
    <3> QED BY <3>1, <3>2
  <2>4. UpTo(n + 1, h)
    BY <2>3
  <2> HIDE DEF h, UpTo
  <2> QED BY <2>2, <2>4
<1>6. Nat \subseteq B
  <2> HIDE DEF B
  <2> QED BY <1>4, <1>5, NumberInduction
<1>7. Cardinality(S) \in B
  BY <1>1, <1>6
<1>8. PICK g \in [SUBSET S -> L] : UpTo(Cardinality(S), g)
  BY <1>7
<1>9. \A T \in SUBSET S : Cardinality(T) <= Cardinality(S)
  BY FS_Subset
<1>10. PartialFolds(step, base, g, S)
  BY <1>8, <1>9 DEF PartialFolds
<1> QED BY <1>10

\* What every step of a fold keeps its result has.
LEMMA FoldStays ==
  ASSUME NEW S, IsFiniteSet(S), NEW L, NEW g, g[{}] \in L,
         \A T \in SUBSET S : T # {} /\ g[T \ {Chosen(T)}] \in L => g[T] \in L
  PROVE  g[S] \in L
<1> DEFINE B == {T \in SUBSET S : g[T] \in L}
<1>1. ASSUME NEW T \in SUBSET S, \A x \in T : T \ {x} \in B
      PROVE  T \in B
  <2>1. CASE T = {}
    BY <2>1
  <2>2. CASE T # {}
    BY <1>1, <2>2, ChosenIn
  <2> QED BY <2>1, <2>2
<1>2. SUBSET S \subseteq B
  <2> HIDE DEF B
  <2> QED BY <1>1, SetInduction
<1> QED BY <1>2

\* There are partial sums of every set.
LEMMA PartialSumsExist ==
  ASSUME NEW S, IsFiniteSet(S), NEW f, IntegerOn(f, S)
  PROVE  \E g \in [SUBSET S -> Int] : PartialSums(f, g, S)
<1> DEFINE step == [p \in S \X Int |-> f[p[1]] + p[2]]
<1>1. step \in [S \X Int -> Int]
  <2>1. \A p \in S \X Int : p[1] \in S /\ p[2] \in Int
    OBVIOUS
  <2>2. \A p \in S \X Int : f[p[1]] + p[2] \in Int
    BY <2>1 DEF IntegerOn
  <2> QED BY <2>2
<1>2. \A x \in S, n \in Int : step[<<x, n>>] = f[x] + n
  OBVIOUS
<1> HIDE DEF step
<1>3. PICK g \in [SUBSET S -> Int] : PartialFolds(step, 0, g, S)
  <2>1. 0 \in Int
    OBVIOUS
  <2> QED BY <1>1, <2>1, FoldsExist
<1>4. ASSUME NEW T \in SUBSET S
      PROVE  g[T] = Term(f, g, T)
  <2>1. CASE T = {}
    BY <1>3, <2>1 DEF Term, PartialFolds
  <2>2. CASE T # {}
    <3>1. Chosen(T) \in S /\ g[T \ {Chosen(T)}] \in Int
      BY <2>2, ChosenIn
    <3> QED BY <1>2, <1>3, <2>2, <3>1 DEF Term, PartialFolds
  <2> QED BY <2>1, <2>2
<1>5. g = [T \in SUBSET S |-> Term(f, g, T)]
  BY <1>4
<1> QED BY <1>5 DEF PartialSums

\* They are the same whatever larger set they are partial sums of.
LEMMA PartialSumsAgree ==
  ASSUME NEW S, IsFiniteSet(S), NEW U \in SUBSET S, NEW f, NEW g, NEW h,
         PartialSums(f, g, S), PartialSums(f, h, U)
  PROVE  g[U] = h[U]
<1> DEFINE B == {T \in SUBSET U : g[T] = h[T]}
<1>1. IsFiniteSet(U)
  BY FS_Subset
<1>2. \A T \in SUBSET U : g[T] = Term(f, g, T) /\ h[T] = Term(f, h, T)
  BY DEF PartialSums
<1>3. ASSUME NEW T \in SUBSET U, \A x \in T : T \ {x} \in B
      PROVE  T \in B
  BY <1>2, <1>3, ChosenIn DEF Term
<1>4. SUBSET U \subseteq B
  <2> HIDE DEF B
  <2> QED BY <1>1, <1>3, SetInduction
<1> QED BY <1>4

-----------------------------------------------------------------------------
(* What a sum is, element by element.                                      *)

\* A sum adds the element that is chosen to the sum of the others.
LEMMA SumStep ==
  ASSUME NEW S, IsFiniteSet(S), NEW f, IntegerOn(f, S)
  PROVE  /\ SumFunctionOnSet(f, S) \in Int
         /\ S = {} => SumFunctionOnSet(f, S) = 0
         /\ S # {} => SumFunctionOnSet(f, S) =
              f[Chosen(S)] + SumFunctionOnSet(f, S \ {Chosen(S)})
<1> DEFINE g == CHOOSE g : PartialSums(f, g, S)
<1>1. PICK h \in [SUBSET S -> Int] : PartialSums(f, h, S)
  BY PartialSumsExist
<1>2. PartialSums(f, g, S)
  BY <1>1
<1> HIDE DEF g
<1>3. SumFunctionOnSet(f, S) = g[S]
  BY SumUnfolds DEF g
<1>4. g[S] = h[S]
  BY <1>1, <1>2, PartialSumsAgree
<1>5. g[S] = Term(f, g, S)
  BY <1>2 DEF PartialSums
<1>6. CASE S # {}
  <2> DEFINE U == S \ {Chosen(S)}
             k == CHOOSE k : PartialSums(f, k, U)
  <2>1. U \in SUBSET S /\ IsFiniteSet(U) /\ IntegerOn(f, U)
    BY FS_Subset DEF IntegerOn
  <2> HIDE DEF U
  <2>2. PartialSums(f, k, U)
    BY <2>1, PartialSumsExist
  <2>3. SumFunctionOnSet(f, U) = k[U]
    BY SumUnfolds
  <2> HIDE DEF k
  <2>4. g[U] = k[U]
    BY <1>2, <2>1, <2>2, PartialSumsAgree
  <2> QED BY <1>1, <1>3, <1>4, <1>5, <1>6, <2>3, <2>4 DEF Term, U
<1> QED BY <1>1, <1>3, <1>4, <1>5, <1>6 DEF Term

\* The sum over nothing.
LEMMA SumEmpty ==
  ASSUME NEW f
  PROVE  SumFunctionOnSet(f, {}) = 0
BY SumStep, FS_EmptySet DEF IntegerOn

\* The sum of integers is an integer.
LEMMA SumInt ==
  ASSUME NEW S, IsFiniteSet(S), NEW f, IntegerOn(f, S)
  PROVE  SumFunctionOnSet(f, S) \in Int
BY SumStep

\* Any element may be taken out of a sum, not only the one that is chosen.
LEMMA SumElement ==
  ASSUME NEW S, IsFiniteSet(S), NEW f, IntegerOn(f, S), NEW x \in S
  PROVE  SumFunctionOnSet(f, S) = f[x] + SumFunctionOnSet(f, S \ {x})
<1> DEFINE sum(T) == SumFunctionOnSet(f, T)
           B == {T \in SUBSET S : \A y \in T : sum(T) = f[y] + sum(T \ {y})}
<1>1. \A T \in SUBSET S : IsFiniteSet(T) /\ IntegerOn(f, T)
  BY FS_Subset DEF IntegerOn
<1>2. ASSUME NEW T \in SUBSET S, \A y \in T : T \ {y} \in B, NEW y \in T
      PROVE  sum(T) = f[y] + sum(T \ {y})
  <2> DEFINE c == Chosen(T)
  <2>1. c \in T /\ sum(T) = f[c] + sum(T \ {c})
    BY <1>1, <1>2, SumStep, ChosenIn
  <2>2. CASE y = c
    BY <2>1, <2>2
  <2>3. CASE y # c
    <3>1. y \in T \ {c} /\ c \in T \ {y}
      BY <2>1, <2>3
    <3>2. /\ sum(T \ {c}) = f[y] + sum((T \ {c}) \ {y})
          /\ sum(T \ {y}) = f[c] + sum((T \ {y}) \ {c})
      BY <1>2, <2>1, <3>1
    <3>3. (T \ {c}) \ {y} = (T \ {y}) \ {c}
      OBVIOUS
    <3> DEFINE rest == (T \ {c}) \ {y}
    <3>4. f[y] \in Int /\ f[c] \in Int /\ sum(rest) \in Int
      BY <1>1, <2>1, SumInt DEF IntegerOn
    <3> HIDE DEF c, sum
    <3>5. sum(T \ {y}) = f[c] + sum(rest)
      BY <3>2, <3>3
    <3> HIDE DEF rest
    <3>6. sum(T) = f[c] + (f[y] + sum(rest))
      BY <2>1, <3>2 DEF rest
    <3> QED BY <3>4, <3>5, <3>6
  <2> QED BY <2>2, <2>3
<1>3. SUBSET S \subseteq B
  <2>1. ASSUME NEW T \in SUBSET S, \A y \in T : T \ {y} \in B
        PROVE  T \in B
    BY <1>2, <2>1
  <2> HIDE DEF B
  <2> QED BY <2>1, SetInduction
<1> QED BY <1>3

\* The sum over one element.
LEMMA SumSingleton ==
  ASSUME NEW x, NEW f, f[x] \in Int
  PROVE  SumFunctionOnSet(f, {x}) = f[x]
<1>1. IsFiniteSet({x}) /\ IntegerOn(f, {x})
  BY FS_Singleton DEF IntegerOn
<1>2. SumFunctionOnSet(f, {x} \ {x}) = 0
  <2>1. {x} \ {x} = {}
    OBVIOUS
  <2> QED BY <2>1, SumEmpty
<1> QED BY <1>1, <1>2, SumElement

\* The sum of two.
LEMMA SumPair ==
  ASSUME NEW x, NEW y, x # y, NEW f, f[x] \in Int, f[y] \in Int
  PROVE  SumFunctionOnSet(f, {x, y}) = f[x] + f[y]
<1>1. IsFiniteSet({x, y}) /\ IntegerOn(f, {x, y}) /\ {x, y} \ {x} = {y}
  <2>1. IsFiniteSet({x} \cup {y}) /\ {x} \cup {y} = {x, y}
    BY FS_Singleton, FS_Union
  <2> QED BY <2>1 DEF IntegerOn
<1>2. SumFunctionOnSet(f, {x, y}) = f[x] + SumFunctionOnSet(f, {y})
  BY <1>1, SumElement
<1>3. SumFunctionOnSet(f, {y}) = f[y]
  BY SumSingleton
<1> QED BY <1>2, <1>3

-----------------------------------------------------------------------------
(* Sums of functions that agree, differ in one place, or add up.           *)

\* The sum of what two functions add up to.
LEMMA SumPlus ==
  ASSUME NEW S, IsFiniteSet(S), NEW f, NEW g, NEW h,
         IntegerOn(f, S), IntegerOn(g, S), \A x \in S : h[x] = f[x] + g[x]
  PROVE  SumFunctionOnSet(h, S) = SumFunctionOnSet(f, S) + SumFunctionOnSet(g, S)
<1> DEFINE sum(k, T) == SumFunctionOnSet(k, T)
           B == {T \in SUBSET S : sum(h, T) = sum(f, T) + sum(g, T)}
<1>1. \A T \in SUBSET S :
        IsFiniteSet(T) /\ IntegerOn(f, T) /\ IntegerOn(g, T) /\ IntegerOn(h, T)
  BY FS_Subset DEF IntegerOn
<1>2. ASSUME NEW T \in SUBSET S, \A x \in T : T \ {x} \in B
      PROVE  T \in B
  <2>1. CASE T = {}
    BY <2>1, SumEmpty
  <2>2. CASE T # {}
    <3>1. PICK x \in T : TRUE
      BY <2>2
    <3> DEFINE rest == T \ {x}
    <3>2. /\ sum(f, T) = f[x] + sum(f, rest) /\ sum(g, T) = g[x] + sum(g, rest)
          /\ sum(h, T) = h[x] + sum(h, rest)
      BY <1>1, SumElement
    <3>3. sum(h, rest) = sum(f, rest) + sum(g, rest) /\ h[x] = f[x] + g[x]
      BY <1>2
    <3>4. /\ f[x] \in Int /\ g[x] \in Int
          /\ sum(f, rest) \in Int /\ sum(g, rest) \in Int
      BY <1>1, SumInt DEF IntegerOn
    <3> HIDE DEF sum, rest
    <3>5. sum(h, T) = sum(f, T) + sum(g, T)
      BY <3>2, <3>3, <3>4
    <3> QED BY <3>5
  <2> QED BY <2>1, <2>2
<1>3. SUBSET S \subseteq B
  <2> HIDE DEF B
  <2> QED BY <1>2, SetInduction
<1> QED BY <1>3

\* A sum of nothing but zeros.
LEMMA SumZeros ==
  ASSUME NEW S, IsFiniteSet(S), NEW f, \A x \in S : f[x] = 0
  PROVE  SumFunctionOnSet(f, S) = 0
<1>1. IntegerOn(f, S)
  BY DEF IntegerOn
<1>2. SumFunctionOnSet(f, S) = SumFunctionOnSet(f, S) + SumFunctionOnSet(f, S)
  BY <1>1, SumPlus
<1> QED BY <1>1, <1>2, SumInt

\* A sum of the same number for each.
LEMMA SumSame ==
  ASSUME NEW S, IsFiniteSet(S), NEW c \in Int, NEW f, \A x \in S : f[x] = c
  PROVE  SumFunctionOnSet(f, S) = c * Cardinality(S)
<1> DEFINE sum(T) == SumFunctionOnSet(f, T)
           B == {T \in SUBSET S : sum(T) = c * Cardinality(T)}
<1>1. \A T \in SUBSET S : IsFiniteSet(T) /\ IntegerOn(f, T) /\ Cardinality(T) \in Nat
  BY FS_Subset, FS_CardinalityType DEF IntegerOn
<1>2. ASSUME NEW T \in SUBSET S, \A x \in T : T \ {x} \in B
      PROVE  T \in B
  <2>1. CASE T = {}
    <3>1. sum(T) = 0 /\ Cardinality(T) = 0
      BY <2>1, SumEmpty, FS_EmptySet
    <3> QED BY <3>1
  <2>2. CASE T # {}
    <3>1. PICK x \in T : TRUE
      BY <2>2
    <3> DEFINE rest == T \ {x}
    <3>2. sum(T) = f[x] + sum(rest) /\ f[x] = c
      BY <1>1, SumElement
    <3>3. sum(rest) = c * Cardinality(rest)
      BY <1>2
    <3>4. Cardinality(rest) = Cardinality(T) - 1
      BY <1>1, FS_RemoveElement
    <3> DEFINE n == Cardinality(T)
    <3>5. n \in Nat
      BY <1>1
    <3> HIDE DEF n
    <3>6. c + c * (n - 1) = c * n
      BY <3>5
    <3>7. sum(T) = c * Cardinality(T)
      BY <3>2, <3>3, <3>4, <3>6 DEF n
    <3> QED BY <3>7
  <2> QED BY <2>1, <2>2
<1>3. SUBSET S \subseteq B
  <2> HIDE DEF B
  <2> QED BY <1>2, SetInduction
<1> QED BY <1>3

\* Functions that agree on a set have the same sum over it.
LEMMA SumAgree ==
  ASSUME NEW S, IsFiniteSet(S), NEW f, NEW g, IntegerOn(f, S),
         \A x \in S : f[x] = g[x]
  PROVE  SumFunctionOnSet(f, S) = SumFunctionOnSet(g, S)
<1> DEFINE zero == [x \in S |-> 0]
<1>1. IntegerOn(zero, S) /\ \A x \in S : g[x] = f[x] + zero[x]
  BY DEF IntegerOn
<1>2. SumFunctionOnSet(zero, S) = 0
  BY SumZeros
<1>3. SumFunctionOnSet(f, S) \in Int
  BY SumInt
<1> HIDE DEF zero
<1>4. SumFunctionOnSet(g, S) = SumFunctionOnSet(f, S) + SumFunctionOnSet(zero, S)
  BY <1>1, SumPlus
<1> QED BY <1>2, <1>3, <1>4

\* A function that differs from another in one place.
LEMMA SumUpdate ==
  ASSUME NEW S, IsFiniteSet(S), NEW f, NEW g, IntegerOn(f, S), NEW x \in S,
         g[x] \in Int, \A y \in S \ {x} : g[y] = f[y]
  PROVE  SumFunctionOnSet(g, S) = SumFunctionOnSet(f, S) - f[x] + g[x]
<1> DEFINE rest == S \ {x}
<1>1. IntegerOn(g, S) /\ IsFiniteSet(rest) /\ IntegerOn(f, rest) /\ f[x] \in Int
  BY FS_Subset DEF IntegerOn
<1>2. /\ SumFunctionOnSet(f, S) = f[x] + SumFunctionOnSet(f, rest)
      /\ SumFunctionOnSet(g, S) = g[x] + SumFunctionOnSet(g, rest)
  BY <1>1, SumElement
<1>3. SumFunctionOnSet(f, rest) = SumFunctionOnSet(g, rest)
  BY <1>1, SumAgree
<1>4. SumFunctionOnSet(f, rest) \in Int
  BY <1>1, SumInt
<1> HIDE DEF rest
<1> QED BY <1>1, <1>2, <1>3, <1>4

\* A sum over two parts that have nothing in common.
LEMMA SumUnion ==
  ASSUME NEW S, NEW T, IsFiniteSet(S), IsFiniteSet(T), S \cap T = {},
         NEW f, IntegerOn(f, S \cup T)
  PROVE  SumFunctionOnSet(f, S \cup T) =
           SumFunctionOnSet(f, S) + SumFunctionOnSet(f, T)
<1> DEFINE sum(U) == SumFunctionOnSet(f, U)
           B == {U \in SUBSET T : sum(S \cup U) = sum(S) + sum(U)}
<1>1. \A U \in SUBSET T :
        /\ IsFiniteSet(U) /\ IntegerOn(f, U)
        /\ IsFiniteSet(S \cup U) /\ IntegerOn(f, S \cup U)
  BY FS_Subset, FS_Union DEF IntegerOn
<1>2. sum(S) \in Int /\ \A U \in SUBSET T : sum(U) \in Int
  BY <1>1, SumInt DEF IntegerOn
<1>3. ASSUME NEW U \in SUBSET T, \A x \in U : U \ {x} \in B
      PROVE  U \in B
  <2>1. CASE U = {}
    <3>1. S \cup U = S
      BY <2>1
    <3> QED BY <1>2, <2>1, <3>1, SumEmpty
  <2>2. CASE U # {}
    <3>1. PICK x \in U : TRUE
      BY <2>2
    <3> DEFINE rest == U \ {x}
    <3>2. (S \cup U) \ {x} = S \cup rest
      BY <3>1
    <3>3. sum(U) = f[x] + sum(rest)
      BY <1>1, SumElement
    <3>4. sum(S \cup U) = f[x] + sum(S \cup rest)
      <4>1. x \in S \cup U /\ IsFiniteSet(S \cup U) /\ IntegerOn(f, S \cup U)
        BY <1>1, <3>1
      <4>2. sum(S \cup U) = f[x] + sum((S \cup U) \ {x})
        BY <4>1, SumElement
      <4> HIDE DEF sum
      <4> QED BY <3>2, <4>2
    <3>5. sum(S \cup rest) = sum(S) + sum(rest)
      BY <1>3
    <3>6. f[x] \in Int /\ sum(rest) \in Int
      BY <1>1, <1>2 DEF IntegerOn
    <3> HIDE DEF sum, rest
    <3>7. sum(S \cup U) = sum(S) + sum(U)
      BY <1>2, <3>3, <3>4, <3>5, <3>6
    <3> QED BY <3>7
  <2> QED BY <2>1, <2>2
<1>4. SUBSET T \subseteq B
  <2> HIDE DEF B
  <2> QED BY <1>3, SetInduction
<1> QED BY <1>4

\* A sum over a part, and over the rest.
LEMMA SumSplit ==
  ASSUME NEW S, IsFiniteSet(S), NEW T \in SUBSET S, NEW f, IntegerOn(f, S)
  PROVE  SumFunctionOnSet(f, S) =
           SumFunctionOnSet(f, T) + SumFunctionOnSet(f, S \ T)
<1>1. IsFiniteSet(T) /\ IsFiniteSet(S \ T) /\ T \cup (S \ T) = S
  BY FS_Subset
<1> QED BY <1>1, SumUnion

\* A sum over all, of sums over what belongs to each owner.
LEMMA SumByOwner ==
  ASSUME NEW K, IsFiniteSet(K), NEW U, IsFiniteSet(U),
         NEW f, IntegerOn(f, K), NEW owner, \A k \in K : owner[k] \in U,
         NEW owned, \A u \in U : \A k : k \in owned[u] <=> k \in K /\ owner[k] = u,
         NEW s, \A u \in U : s[u] = SumFunctionOnSet(f, owned[u])
  PROVE  SumFunctionOnSet(s, U) = SumFunctionOnSet(f, K)
<1> DEFINE Of(V) == {k \in K : owner[k] \in V}
           B == {V \in SUBSET U : SumFunctionOnSet(s, V) = SumFunctionOnSet(f, Of(V))}
<1>1. \A L \in SUBSET K : IsFiniteSet(L) /\ IntegerOn(f, L)
  BY FS_Subset DEF IntegerOn
<1>2. \A V \in SUBSET U : IsFiniteSet(V) /\ IntegerOn(s, V)
  <2>1. \A u \in U : s[u] \in Int
    <3>1. \A u \in U : owned[u] \in SUBSET K
      OBVIOUS
    <3> QED BY <1>1, <3>1, SumInt
  <2> QED BY <2>1, FS_Subset DEF IntegerOn
<1>3. ASSUME NEW V \in SUBSET U, \A u \in V : V \ {u} \in B
      PROVE  V \in B
  <2>1. CASE V = {}
    <3>1. Of(V) = {}
      BY <2>1
    <3> QED BY <2>1, <3>1, SumEmpty
  <2>2. CASE V # {}
    <3>1. PICK u \in V : TRUE
      BY <2>2
    <3> DEFINE W == V \ {u}
    <3>2. SumFunctionOnSet(s, V) = s[u] + SumFunctionOnSet(s, W)
      BY <1>2, SumElement
    <3>3. SumFunctionOnSet(s, W) = SumFunctionOnSet(f, Of(W))
      BY <1>3
    <3>4. s[u] = SumFunctionOnSet(f, owned[u])
      OBVIOUS
    <3>5. Of(V) = owned[u] \cup Of(W) /\ owned[u] \cap Of(W) = {}
      BY <3>1
    <3>6. owned[u] \in SUBSET K /\ Of(W) \in SUBSET K /\ Of(V) \in SUBSET K
      OBVIOUS
    <3> HIDE DEF Of, W
    <3>7. SumFunctionOnSet(f, Of(V)) =
            SumFunctionOnSet(f, owned[u]) + SumFunctionOnSet(f, Of(W))
      BY <1>1, <3>5, <3>6, SumUnion
    <3>8. SumFunctionOnSet(s, V) = SumFunctionOnSet(f, Of(V))
      BY <3>2, <3>3, <3>4, <3>7
    <3> QED BY <3>8
  <2> QED BY <2>1, <2>2
<1>4. SUBSET U \subseteq B
  <2> HIDE DEF B
  <2> QED BY <1>3, <1>2, FS_Subset, SetInduction
<1>5. SumFunctionOnSet(s, U) = SumFunctionOnSet(f, Of(U))
  BY <1>4
<1>6. Of(U) = K
  OBVIOUS
<1> QED BY <1>5, <1>6

-----------------------------------------------------------------------------
(* Sums of natural numbers.                                                *)

NaturalOn(f, S) == \A x \in S : f[x] \in Nat

\* Natural numbers are integers.
LEMMA NaturalIsInteger ==
  ASSUME NEW f, NEW S, NaturalOn(f, S)
  PROVE  IntegerOn(f, S)
BY DEF NaturalOn, IntegerOn

\* The sum of natural numbers is a natural number.
LEMMA SumNat ==
  ASSUME NEW S, IsFiniteSet(S), NEW f, NaturalOn(f, S)
  PROVE  SumFunctionOnSet(f, S) \in Nat
<1> DEFINE sum(T) == SumFunctionOnSet(f, T)
           B == {T \in SUBSET S : sum(T) \in Nat}
<1>1. \A T \in SUBSET S : IsFiniteSet(T) /\ IntegerOn(f, T) /\ NaturalOn(f, T)
  BY FS_Subset DEF IntegerOn, NaturalOn
<1>2. ASSUME NEW T \in SUBSET S, \A x \in T : T \ {x} \in B
      PROVE  T \in B
  <2>1. CASE T = {}
    BY <2>1, SumEmpty
  <2>2. CASE T # {}
    <3>1. PICK x \in T : TRUE
      BY <2>2
    <3>2. sum(T) = f[x] + sum(T \ {x})
      BY <1>1, SumElement
    <3>3. f[x] \in Nat /\ sum(T \ {x}) \in Nat
      BY <1>1, <1>2 DEF NaturalOn
    <3> HIDE DEF sum
    <3>4. sum(T) \in Nat
      BY <3>2, <3>3
    <3> QED BY <3>4
  <2> QED BY <2>1, <2>2
<1>3. SUBSET S \subseteq B
  <2> HIDE DEF B
  <2> QED BY <1>2, SetInduction
<1> QED BY <1>3

\* A sum of smaller numbers is smaller.
LEMMA SumMonotone ==
  ASSUME NEW S, IsFiniteSet(S), NEW f, IntegerOn(f, S), NEW g, IntegerOn(g, S),
         \A x \in S : f[x] <= g[x]
  PROVE  SumFunctionOnSet(f, S) <= SumFunctionOnSet(g, S)
<1> DEFINE more == [x \in S |-> g[x] - f[x]]
<1>1. NaturalOn(more, S) /\ \A x \in S : g[x] = f[x] + more[x]
  BY DEF NaturalOn, IntegerOn
<1> HIDE DEF more
<1>2. SumFunctionOnSet(g, S) = SumFunctionOnSet(f, S) + SumFunctionOnSet(more, S)
  BY <1>1, NaturalIsInteger, SumPlus
<1>3. SumFunctionOnSet(more, S) \in Nat /\ SumFunctionOnSet(f, S) \in Int
  BY <1>1, SumNat, SumInt
<1> QED BY <1>2, <1>3

-----------------------------------------------------------------------------
(* Sums over the keys of a storage map.                                    *)

\* A value is stored: under a new key it is added, under an old one it replaces
\* the value that was there.
LEMMA SumStored ==
  ASSUME NEW S, IsFiniteSet(S), NEW f, IntegerOn(f, S), NEW x, NEW g,
         g[x] \in Int, \A y \in S \ {x} : g[y] = f[y]
  PROVE  /\ x \in S => SumFunctionOnSet(g, S \cup {x}) =
                          SumFunctionOnSet(f, S) - f[x] + g[x]
         /\ x \notin S => SumFunctionOnSet(g, S \cup {x}) =
                             SumFunctionOnSet(f, S) + g[x]
<1>1. CASE x \in S
  <2>1. S \cup {x} = S
    BY <1>1
  <2> QED BY <1>1, <2>1, SumUpdate
<1>2. CASE x \notin S
  <2>1. S \cap {x} = {} /\ IsFiniteSet({x}) /\ IntegerOn(g, S \cup {x})
    BY <1>2, FS_Singleton DEF IntegerOn
  <2>2. SumFunctionOnSet(g, S \cup {x}) =
          SumFunctionOnSet(g, S) + SumFunctionOnSet(g, {x})
    BY <2>1, SumUnion
  <2>3. SumFunctionOnSet(g, {x}) = g[x]
    BY SumSingleton
  <2>4. SumFunctionOnSet(f, S) = SumFunctionOnSet(g, S)
    BY <1>2, SumAgree
  <2>5. SumFunctionOnSet(f, S) \in Int
    BY SumInt
  <2> QED BY <1>2, <2>2, <2>3, <2>4, <2>5
<1> QED BY <1>1, <1>2

\* Some values are removed.
LEMMA SumRemoved ==
  ASSUME NEW S, IsFiniteSet(S), NEW f, IntegerOn(f, S), NEW T \in SUBSET S, NEW g,
         \A y \in S \ T : g[y] = f[y]
  PROVE  SumFunctionOnSet(g, S \ T) =
           SumFunctionOnSet(f, S) - SumFunctionOnSet(f, T)
<1> DEFINE rest == S \ T
<1>1. IsFiniteSet(rest) /\ IsFiniteSet(T) /\ IntegerOn(f, rest) /\ IntegerOn(f, T)
  BY FS_Subset DEF IntegerOn
<1>2. SumFunctionOnSet(f, S) = SumFunctionOnSet(f, T) + SumFunctionOnSet(f, rest)
  BY SumSplit
<1>3. SumFunctionOnSet(f, rest) = SumFunctionOnSet(g, rest)
  BY <1>1, SumAgree
<1>4. SumFunctionOnSet(f, rest) \in Int /\ SumFunctionOnSet(f, T) \in Int
  BY <1>1, SumInt
<1> HIDE DEF rest
<1>5. SumFunctionOnSet(g, rest) = SumFunctionOnSet(f, S) - SumFunctionOnSet(f, T)
  BY <1>2, <1>3, <1>4
<1> QED BY <1>5 DEF rest

-----------------------------------------------------------------------------
(* The largest number of a set.                                            *)

\* A finite set of integers has a largest one, if it has any.
LEMMA LargestExists ==
  ASSUME NEW S \in SUBSET Int, IsFiniteSet(S), S # {}
  PROVE  \E m \in S : \A n \in S : n <= m
<1> DEFINE HasLargest(T) == T = {} \/ \E m \in T : \A n \in T : n <= m
           B == {T \in SUBSET S : HasLargest(T)}
<1>1. ASSUME NEW T \in SUBSET S, \A x \in T : T \ {x} \in B
      PROVE  T \in B
  <2>1. CASE T = {}
    BY <2>1
  <2>2. CASE T # {}
    <3>1. PICK x : x \in T
      BY <2>2
    <3>2. T \ {x} \in B /\ x \in Int
      BY <1>1, <3>1
    <3>3. CASE T \ {x} = {}
      <4>1. T = {x}
        BY <3>1, <3>3
      <4> QED BY <3>2, <4>1
    <3>4. CASE \E m \in T \ {x} : \A n \in T \ {x} : n <= m
      <4>1. PICK m \in T \ {x} : \A n \in T \ {x} : n <= m
        BY <3>4
      <4>2. CASE x <= m
        BY <4>1, <4>2
      <4>3. CASE ~(x <= m)
        <5>1. \A n \in T : n <= x
          BY <3>2, <4>1, <4>3
        <5> QED BY <3>1, <5>1
      <4> QED BY <4>2, <4>3
    <3> QED BY <3>2, <3>3, <3>4
  <2> QED BY <2>1, <2>2
<1> HIDE DEF B
<1>2. SUBSET S \subseteq B
  BY <1>1, SetInduction
<1> QED BY <1>2 DEF B
=============================================================================
