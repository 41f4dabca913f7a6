---------------------------- MODULE SetSumTheorems --------------------------
(***************************************************************************)
(* Facts about SumOver: the sum of integers is an integer, any element can *)
(* be taken out of it, and it depends only on the values that are added.   *)
(***************************************************************************)
EXTENDS SetSums, Integers, FiniteSetTheorems, WellFoundedInduction, TLAPS

\* A set of naturals has a least element, so that what fails for no least n
\* holds for every n.
LEMMA LeastNat ==
    ASSUME NEW T \in SUBSET Nat, T # {}
    PROVE  \E x \in T : \A y \in T : x <= y
<1> DEFINE R == {ss \in Nat \X Nat : ss[1] < ss[2]}
<1>1. IsWellFoundedOn(R, Nat)
  BY NatLessThanWellFounded DEF OpToRel
<1>2. PICK x \in T : \A y \in T : ~(<<y, x>> \in R)
  BY <1>1, WFMin
<1>3. ASSUME NEW y \in T
      PROVE  x <= y
  <2>1. <<y, x>> \in Nat \X Nat /\ ~(<<y, x>> \in R)
    BY <1>2
  <2>2. ~(y < x)
    BY <2>1
  <2>3. QED
    BY <2>2
<1>4. QED
  BY <1>3

\* Among some subsets of a finite set one is smallest, so that what fails for
\* no smallest subset holds for every one.
LEMMA SmallestSet ==
    ASSUME NEW S, IsFiniteSet(S), NEW B \in SUBSET (SUBSET S), B # {}
    PROVE  \E T \in B : \A U \in B : Cardinality(T) <= Cardinality(U)
<1> DEFINE C == {Cardinality(T) : T \in B}
<1>1. \A T \in B : Cardinality(T) \in Nat
  BY FS_Subset, FS_CardinalityType
<1>2. C \in SUBSET Nat /\ C # {}
  BY <1>1
<1>3. PICK x \in C : \A y \in C : x <= y
  BY <1>2, LeastNat
<1>4. QED
  BY <1>3

\* Removing the element that is chosen makes a set smaller.
LEMMA ChosenElement ==
    ASSUME NEW T, IsFiniteSet(T), T # {}
    PROVE  \A x \in T : /\ IsFiniteSet(T \ {x}) /\ Cardinality(T \ {x}) = Cardinality(T) - 1
                        /\ Cardinality(T) \in Nat /\ Cardinality(T) > 0
BY FS_RemoveElement, FS_CardinalityType, FS_EmptySet

\* The recursive function in MapThenSumSet, one step of it.
SumStep(f, sum, T) ==
    IF T = {} THEN 0
    ELSE f[CHOOSE x \in T : TRUE] + sum[T \ {CHOOSE x \in T : TRUE}]
IsSum(f, S, sum) == sum = [T \in SUBSET S |-> SumStep(f, sum, T)]

LEMMA SumExists ==
    ASSUME NEW f, NEW S, IsFiniteSet(S)
    PROVE  \E sum : IsSum(f, S, sum)
<1> DEFINE N == Cardinality(S)
           Upto(g, n) == /\ g = [T \in SUBSET S |-> g[T]]
                         /\ \A T \in SUBSET S : Cardinality(T) <= n => g[T] = SumStep(f, g, T)
           Bad == {n \in 0..N : \A g : ~Upto(g, n)}
<1>0. /\ N \in Nat
      /\ \A T \in SUBSET S : IsFiniteSet(T) /\ Cardinality(T) \in Nat /\ Cardinality(T) <= N
  BY FS_Subset, FS_CardinalityType
<1>1. Bad = {}
  <2>1. SUFFICES ASSUME Bad # {} PROVE FALSE
    OBVIOUS
  <2>2. PICK n \in Bad : \A m \in Bad : n <= m
    <3>1. Bad \in SUBSET Nat
      OBVIOUS
    <3>2. QED
      BY <2>1, <3>1, LeastNat
  <2> HIDE DEF N
  <2>3. n # 0
    <3> DEFINE g == [T \in SUBSET S |-> 0]
    <3>1. \A T \in SUBSET S : Cardinality(T) <= 0 => T = {}
      BY <1>0, FS_EmptySet
    <3>2. Upto(g, 0)
      BY <3>1 DEF SumStep
    <3> HIDE DEF g
    <3>3. n = 0 => ~(\A h : ~Upto(h, n))
      BY <3>2
    <3>4. QED
      BY <2>2, <3>3
  <2>4. n - 1 \in 0..N /\ n - 1 \notin Bad /\ n \in 1..N
    <3>1. n - 1 \in 0..N /\ n \in 1..N /\ ~(n <= n - 1)
      BY <1>0, <2>2, <2>3
    <3> HIDE DEF Bad
    <3>2. QED
      BY <2>2, <3>1
  <2>5. PICK g : Upto(g, n - 1)
    BY <2>4
  <2> DEFINE h == [T \in SUBSET S |-> IF Cardinality(T) = n THEN SumStep(f, g, T) ELSE g[T]]
  <2>6. ASSUME NEW T \in SUBSET S, Cardinality(T) <= n
        PROVE  h[T] = SumStep(f, h, T)
    <3>1. SumStep(f, h, T) = SumStep(f, g, T)
      <4>1. CASE T = {}
        BY <4>1 DEF SumStep
      <4>2. CASE T # {}
        <5> DEFINE x == CHOOSE x \in T : TRUE
        <5>1. x \in T
          BY <4>2
        <5> HIDE DEF x
        <5>2. T \ {x} \in SUBSET S /\ Cardinality(T \ {x}) # n
          BY <1>0, <2>4, <2>6, <4>2, <5>1, ChosenElement
        <5>3. h[T \ {x}] = g[T \ {x}]
          BY <5>2
        <5>4. QED
          BY <4>2, <5>3 DEF SumStep, x
      <4>3. QED
        BY <4>1, <4>2
    <3>2. Cardinality(T) # n => g[T] = SumStep(f, g, T)
      <4>1. Cardinality(T) \in Nat /\ n \in Nat
        BY <1>0, <2>4
      <4>2. Cardinality(T) # n => Cardinality(T) <= n - 1
        BY <2>6, <4>1
      <4>3. QED
        BY <2>5, <4>2
    <3>3. QED
      BY <3>1, <3>2
  <2>7. Upto(h, n)
    BY <2>6
  <2>8. QED
    BY <2>2, <2>7
<1>2. N \in 0..N /\ N \notin Bad
  <2> HIDE DEF N
  <2>1. N \in 0..N
    BY <1>0
  <2>2. QED
    BY <1>1, <2>1
<1>3. PICK g : Upto(g, N)
  BY <1>2
<1>4. \A T \in SUBSET S : g[T] = SumStep(f, g, T)
  BY <1>0, <1>3
<1>5. g = [T \in SUBSET S |-> SumStep(f, g, T)]
  BY <1>3, <1>4
<1>6. QED
  BY <1>5 DEF IsSum

\* SumOver is that function at the whole set, and its values at the subsets are
\* the sums over them.
LEMMA SumUnfolds ==
    ASSUME NEW f, NEW S, IsFiniteSet(S), S # {}
    PROVE  \E x \in S : /\ x = CHOOSE y \in S : TRUE
                        /\ SumOver(f, S) = f[x] + SumOver(f, S \ {x})
<1> DEFINE sumOf(T) == CHOOSE g : IsSum(f, T, g)
<1>1. \A T \in SUBSET S : /\ IsSum(f, T, sumOf(T))
                          /\ SumOver(f, T) = sumOf(T)[T]
  <2>1. TAKE T \in SUBSET S
  <2>2. IsSum(f, T, sumOf(T))
    BY SumExists, FS_Subset
  <2>3. SumOver(f, T) = sumOf(T)[T]
    BY DEF SumOver, MapThenSumSet, MapThenFoldSet, IsSum, SumStep
  <2>4. QED
    BY <2>2, <2>3
<1> HIDE DEF sumOf
<1>2. PICK x \in S : x = CHOOSE y \in S : TRUE
  OBVIOUS
<1> DEFINE R == S \ {x}
           B == {T \in SUBSET R : sumOf(S)[T] # sumOf(R)[T]}
<1>3. B = {}
  <2>1. SUFFICES ASSUME B # {} PROVE FALSE
    OBVIOUS
  <2>2. R \in SUBSET S /\ IsFiniteSet(R)
    BY FS_Subset
  <2>3. PICK T \in B : \A U \in B : Cardinality(T) <= Cardinality(U)
    BY <2>1, <2>2, SmallestSet
  <2> HIDE DEF B, R
  <2>4. T \in SUBSET R /\ sumOf(S)[T] # sumOf(R)[T] /\ T \in SUBSET S /\ IsFiniteSet(T)
    <3>1. T \in SUBSET R /\ sumOf(S)[T] # sumOf(R)[T]
      BY DEF B
    <3>2. QED
      BY <2>2, <3>1, FS_Subset
  <2>5. sumOf(S)[T] = SumStep(f, sumOf(S), T) /\ sumOf(R)[T] = SumStep(f, sumOf(R), T)
    <3>1. IsSum(f, S, sumOf(S)) /\ IsSum(f, R, sumOf(R))
      BY <1>1, <2>2
    <3>2. QED
      BY <2>4, <3>1 DEF IsSum
  <2>6. T # {}
    BY <2>4, <2>5 DEF SumStep
  <2>7. PICK y \in T : y = CHOOSE z \in T : TRUE
    BY <2>6
  <2>8. T \ {y} \notin B
    <3>1. Cardinality(T) \in Nat /\ Cardinality(T \ {y}) = Cardinality(T) - 1
      BY <2>4, <2>6, <2>7, ChosenElement
    <3>2. ~(Cardinality(T) <= Cardinality(T \ {y}))
      BY <3>1
    <3>3. QED
      BY <2>3, <3>2
  <2>9. sumOf(S)[T \ {y}] = sumOf(R)[T \ {y}]
    BY <2>4, <2>8 DEF B
  <2>10. QED
    BY <2>4, <2>5, <2>6, <2>7, <2>9 DEF SumStep
<1>4. sumOf(S)[S] = f[x] + sumOf(S)[R]
  <2>1. IsSum(f, S, sumOf(S)) /\ S \in SUBSET S
    BY <1>1
  <2>2. sumOf(S)[S] = SumStep(f, sumOf(S), S)
    BY <2>1 DEF IsSum
  <2>3. QED
    BY <1>2, <2>2 DEF SumStep
<1>5. sumOf(S)[R] = sumOf(R)[R]
  BY <1>3
<1>6. SumOver(f, S) = sumOf(S)[S] /\ SumOver(f, R) = sumOf(R)[R]
  BY <1>1
<1>7. QED
  BY <1>2, <1>4, <1>5, <1>6

LEMMA SumOfNothing ==
    ASSUME NEW f
    PROVE  SumOver(f, {}) = 0
<1> DEFINE sum == CHOOSE g : IsSum(f, {}, g)
<1>1. IsSum(f, {}, sum)
  BY SumExists, FS_EmptySet
<1>2. SumOver(f, {}) = sum[{}]
  BY DEF SumOver, MapThenSumSet, MapThenFoldSet, IsSum, SumStep
<1> HIDE DEF sum
<1>3. QED
  BY <1>1, <1>2 DEF IsSum, SumStep

\* The sum of integers is an integer, and any element may be taken out of it.
LEMMA SumRemoves ==
    ASSUME NEW f, NEW S, IsFiniteSet(S), \A x \in S : f[x] \in Int
    PROVE  /\ SumOver(f, S) \in Int
           /\ \A x \in S : SumOver(f, S) = f[x] + SumOver(f, S \ {x})
<1> DEFINE IsInt(T) == SumOver(f, T) \in Int
           Splits(T) == \A x \in T : SumOver(f, T) = f[x] + SumOver(f, T \ {x})
           B == {T \in SUBSET S : ~(IsInt(T) /\ Splits(T))}
<1>1. B = {}
  <2>1. SUFFICES ASSUME B # {} PROVE FALSE
    OBVIOUS
  <2>2. PICK T \in B : \A U \in B : Cardinality(T) <= Cardinality(U)
    BY <2>1, SmallestSet
  <2>3. T \in SUBSET S /\ IsFiniteSet(T) /\ ~(IsInt(T) /\ Splits(T)) /\ \A x \in T : f[x] \in Int
    <3>1. T \in SUBSET S /\ ~(IsInt(T) /\ Splits(T))
      OBVIOUS
    <3>2. QED
      BY <3>1, FS_Subset
  <2>4. T # {}
    <3>1. SumOver(f, {}) = 0
      BY SumOfNothing
    <3>2. IsInt({}) /\ Splits({})
      BY <3>1
    <3>3. QED
      BY <2>3, <3>2
  <2>5. ASSUME NEW U \in SUBSET T, U # T
        PROVE  IsInt(U) /\ Splits(U)
    <3>1. Cardinality(T) \in Nat /\ Cardinality(U) \in Nat /\ Cardinality(U) < Cardinality(T)
      BY <2>3, <2>5, FS_Subset, FS_CardinalityType
    <3>2. ~(Cardinality(T) <= Cardinality(U)) /\ U \in SUBSET S
      BY <2>3, <3>1
    <3>3. U \notin B
      BY <2>2, <3>2
    <3>4. QED
      BY <3>2, <3>3
  <2>6. PICK c \in T : SumOver(f, T) = f[c] + SumOver(f, T \ {c})
    BY <2>3, <2>4, SumUnfolds
  <2> HIDE DEF B
  <2>7. IsInt(T)
    BY <2>3, <2>5, <2>6
  <2>8. ASSUME NEW x \in T
        PROVE  SumOver(f, T) = f[x] + SumOver(f, T \ {x})
    <3>1. CASE x = c
      BY <2>6, <3>1
    <3>2. CASE x # c
      <4> DEFINE U == T \ {c}
                 V == T \ {x}
                 W == (T \ {c}) \ {x}
      <4>1. /\ U \in SUBSET T /\ U # T /\ V \in SUBSET T /\ V # T
            /\ x \in U /\ c \in V /\ W = U \ {x} /\ W = V \ {c} /\ W \in SUBSET T /\ W # T
        BY <3>2
      <4> HIDE DEF U, V, W
      <4>2. SumOver(f, U) = f[x] + SumOver(f, W) /\ SumOver(f, V) = f[c] + SumOver(f, W)
        BY <2>5, <4>1
      <4>3. SumOver(f, W) \in Int /\ f[x] \in Int /\ f[c] \in Int
        BY <2>3, <2>5, <4>1
      <4>4. SumOver(f, T) = f[c] + SumOver(f, U)
        BY <2>6 DEF U
      <4>5. SumOver(f, T) = f[x] + SumOver(f, V)
        BY <4>2, <4>3, <4>4
      <4>6. QED
        BY <4>5 DEF V
    <3>3. QED
      BY <3>1, <3>2
  <2>9. QED
    BY <2>3, <2>7, <2>8
<1>2. S \in SUBSET S /\ S \notin B
  BY <1>1
<1>3. QED
  BY <1>2

LEMMA SumOfOne ==
    ASSUME NEW f, NEW x, f[x] \in Int
    PROVE  SumOver(f, {x}) = f[x]
<1> DEFINE S == {x}
<1>1. IsFiniteSet(S) /\ (\A y \in S : f[y] \in Int) /\ S \ {x} = {} /\ x \in S
  BY FS_Singleton
<1> HIDE DEF S
<1>2. SumOver(f, S) = f[x] + SumOver(f, S \ {x})
  BY <1>1, SumRemoves
<1>3. QED
  BY <1>1, <1>2, SumOfNothing DEF S

\* Only the values at the elements matter.
LEMMA SumSame ==
    ASSUME NEW f, NEW g, NEW S, IsFiniteSet(S), \A x \in S : f[x] = g[x]
    PROVE  SumOver(f, S) = SumOver(g, S)
<1> DEFINE B == {T \in SUBSET S : SumOver(f, T) # SumOver(g, T)}
<1>1. B = {}
  <2>1. SUFFICES ASSUME B # {} PROVE FALSE
    OBVIOUS
  <2>2. PICK T \in B : \A U \in B : Cardinality(T) <= Cardinality(U)
    BY <2>1, SmallestSet
  <2>3. T \in SUBSET S /\ SumOver(f, T) # SumOver(g, T) /\ IsFiniteSet(T)
    <3>1. T \in SUBSET S /\ SumOver(f, T) # SumOver(g, T)
      OBVIOUS
    <3>2. QED
      BY <3>1, FS_Subset
  <2>4. T # {}
    BY <2>3, SumOfNothing
  <2>5. PICK x \in T : x = (CHOOSE y \in T : TRUE) /\ SumOver(f, T) = f[x] + SumOver(f, T \ {x})
    BY <2>3, <2>4, SumUnfolds
  <2>6. PICK z \in T : z = (CHOOSE y \in T : TRUE) /\ SumOver(g, T) = g[z] + SumOver(g, T \ {z})
    BY <2>3, <2>4, SumUnfolds
  <2>7. T \ {x} \in B
    BY <2>3, <2>5, <2>6
  <2>8. Cardinality(T) \in Nat /\ Cardinality(T \ {x}) = Cardinality(T) - 1
    BY <2>3, <2>4, <2>5, ChosenElement
  <2>9. ~(Cardinality(T) <= Cardinality(T \ {x}))
    BY <2>8
  <2>10. QED
    BY <2>2, <2>7, <2>9
<1>2. S \in SUBSET S /\ S \notin B
  BY <1>1
<1>3. QED
  BY <1>2

\* A sum of naturals is at least what some of them sum up to.
LEMMA SumMonotone ==
    ASSUME NEW f, NEW S, IsFiniteSet(S), \A x \in S : f[x] \in Nat
    PROVE  \A T \in SUBSET S : SumOver(f, T) \in Nat /\ SumOver(f, T) <= SumOver(f, S)
<1>0. ASSUME NEW R \in SUBSET S
      PROVE  SumOver(f, R) \in Nat
  <2> DEFINE B == {T \in SUBSET S : SumOver(f, T) \notin Nat}
  <2>1. SUFFICES ASSUME B # {} PROVE FALSE
    BY <1>0
  <2>2. PICK T \in B : \A U \in B : Cardinality(T) <= Cardinality(U)
    BY <2>1, SmallestSet
  <2>3. T \in SUBSET S /\ SumOver(f, T) \notin Nat /\ IsFiniteSet(T)
    <3>1. T \in SUBSET S /\ SumOver(f, T) \notin Nat
      OBVIOUS
    <3>2. QED
      BY <3>1, FS_Subset
  <2>4. T # {}
    BY <2>3, SumOfNothing
  <2>5. PICK x \in T : SumOver(f, T) = f[x] + SumOver(f, T \ {x})
    BY <2>3, <2>4, SumUnfolds
  <2>6. Cardinality(T) \in Nat /\ Cardinality(T \ {x}) = Cardinality(T) - 1
    BY <2>3, <2>4, ChosenElement
  <2>7. ~(Cardinality(T) <= Cardinality(T \ {x}))
    BY <2>6
  <2>8. T \ {x} \notin B /\ T \ {x} \in SUBSET S
    BY <2>2, <2>3, <2>7
  <2>9. SumOver(f, T \ {x}) \in Nat /\ f[x] \in Nat
    BY <2>3, <2>8
  <2>10. QED
    BY <2>3, <2>5, <2>9
<1> DEFINE B == {T \in SUBSET S : ~(SumOver(f, T) <= SumOver(f, S))}
           C == {S \ T : T \in B}
<1>1. B = {}
  <2>1. SUFFICES ASSUME B # {} PROVE FALSE
    OBVIOUS
  <2>2. C \in SUBSET (SUBSET S) /\ C # {}
    BY <2>1
  <2>3. PICK R \in C : \A U \in C : Cardinality(R) <= Cardinality(U)
    BY <2>2, SmallestSet
  <2>4. PICK T \in B : R = S \ T
    OBVIOUS
  <2>5. T \in SUBSET S /\ ~(SumOver(f, T) <= SumOver(f, S))
    OBVIOUS
  <2>6. IsFiniteSet(R) /\ R # {}
    <3>1. R = {} => T = S
      BY <2>4, <2>5
    <3>2. SumOver(f, S) \in Nat
      BY <1>0
    <3>3. QED
      BY <2>2, <2>5, <3>1, <3>2, FS_Subset
  <2>7. PICK x \in R : TRUE
    BY <2>6
  <2> DEFINE U == T \cup {x}
  <2>8. U \in SUBSET S /\ x \in U /\ U \ {x} = T /\ S \ U = R \ {x} /\ IsFiniteSet(U)
    <3>1. U \in SUBSET S /\ x \in U /\ U \ {x} = T /\ S \ U = R \ {x}
      BY <2>4, <2>5, <2>7
    <3>2. QED
      BY <3>1, FS_Subset
  <2> HIDE DEF U
  <2>9. SumOver(f, U) = f[x] + SumOver(f, T) /\ f[x] \in Nat
    <3>1. \A y \in U : f[y] \in Int
      BY <2>8
    <3>2. QED
      BY <2>8, <3>1, SumRemoves
  <2>10. SumOver(f, U) \in Nat /\ SumOver(f, T) \in Nat /\ SumOver(f, S) \in Nat
    BY <1>0, <2>5, <2>8
  <2>11. U \in B
    BY <2>5, <2>8, <2>9, <2>10
  <2>12. Cardinality(R) \in Nat /\ Cardinality(R \ {x}) = Cardinality(R) - 1
    BY <2>6, <2>7, ChosenElement
  <2>13. S \ U \in C
    BY <2>11
  <2> HIDE DEF B, C
  <2>14. ~(Cardinality(R) <= Cardinality(S \ U))
    BY <2>8, <2>12
  <2>15. QED
    BY <2>3, <2>13, <2>14
<1>2. QED
  BY <1>0, <1>1
=============================================================================
