-------------------------- MODULE Arithmetic_proofs -------------------------
(***************************************************************************)
(* Facts about numbers, remainders, finite sets and sums that the proofs   *)
(* of the schedulers need.  Where a fact is about all numbers or all       *)
(* finite sets, it is proved at a least counterexample.                    *)
(***************************************************************************)
EXTENDS Functions, TLAPS, FiniteSetTheorems, WellFoundedInduction

(* Every non-empty set of natural numbers has a least element: the choice  *)
(* of the policies is never arbitrary.                                     *)
LEMMA LeastNat ==
  ASSUME NEW S \in SUBSET Nat, S # {}
  PROVE  \E x \in S : \A y \in S : x <= y
<1>1. \A x, y \in Nat : y < x => <<y, x>> \in OpToRel(<, Nat)
  BY DEF OpToRel
<1>2. PICK x \in S : \A y \in S : ~ (<<y, x>> \in OpToRel(<, Nat))
  BY NatLessThanWellFounded, WFMin
<1>3. \A y \in S : ~(y < x)
  BY <1>1, <1>2, Zenon
<1> QED BY <1>3

(* A set of natural numbers with an upper bound has a greatest element.    *)
LEMMA GreatestNat ==
  ASSUME NEW S \in SUBSET Nat, S # {}, NEW m \in Nat, \A x \in S : x <= m
  PROVE  \E x \in S : \A y \in S : y <= x
<1> DEFINE T == {t \in Nat : \E x \in S : t = m - x}
<1>1. /\ T \in SUBSET Nat /\ T # {}
      /\ \A y \in S : y \in Nat /\ m - y \in T
  <2>1. \A y \in S : y \in Nat /\ m - y \in Nat
    OBVIOUS
  <2>2. \A y \in S : m - y \in T
    BY <2>1
  <2> QED BY <2>1, <2>2
<1>2. PICK t \in T : \A u \in T : t <= u
  <2> HIDE DEF T
  <2> QED BY <1>1, LeastNat
<1>3. PICK x \in S : t = m - x
  OBVIOUS
<1> HIDE DEF T
<1>4. \A y \in S : y <= x
  BY <1>1, <1>2, <1>3
<1> QED BY <1>4

(* Bounded values on a non-empty set have a greatest one.                  *)
LEMMA GreatestValue ==
  ASSUME NEW S, S # {}, NEW f, NEW b \in Nat,
         \A x \in S : f[x] \in Nat /\ f[x] <= b
  PROVE  \E m \in S : \A x \in S : f[x] <= f[m]
<1> DEFINE values == {f[x] : x \in S}
<1>1. values \in SUBSET Nat /\ values # {} /\ \A y \in values : y <= b
  OBVIOUS
<1>2. PICK y \in values : \A z \in values : z <= y
  <2> HIDE DEF values
  <2> QED BY <1>1, GreatestNat
<1> QED BY <1>2

-----------------------------------------------------------------------------
(* Division with remainder. *)

(* A remainder is below the divisor.                                       *)
LEMMA ModRange == \A n \in Nat \ {0}, a \in Int : a % n \in 0 .. n-1
OBVIOUS

(* Quotient and remainder make up the number.                              *)
LEMMA DivMod ==
  \A n \in Nat \ {0}, a \in Int :
    a \div n \in Int /\ a = (n * (a \div n)) + (a % n)
OBVIOUS

(* Only one remainder does.                                                *)
LEMMA ModUnique ==
  \A n \in Nat \ {0}, q \in Int : \A r \in 0 .. n-1 : ((n * q) + r) % n = r
OBVIOUS

(* A number below the divisor is its own remainder.                        *)
LEMMA ModSmall == \A n \in Nat \ {0} : \A a \in 0 .. n-1 : a % n = a
OBVIOUS

(* The remainder of a negative number, down to minus the divisor.          *)
LEMMA ModNegative ==
  \A n \in Nat \ {0}, a \in Int : -n <= a /\ a < 0 => a % n = a + n
OBVIOUS

(* Multiples of a number add up, and keep the order.                       *)
LEMMA Multiples ==
  \A n, a, b \in Nat : /\ n * a \in Nat
                       /\ n * (a + b) = (n * a) + (n * b)
                       /\ a <= b => n * a <= n * b
OBVIOUS

(* The next number has the next remainder, or 0.                           *)
LEMMA ModSucc ==
  ASSUME NEW n \in Nat \ {0}, NEW a \in Int
  PROVE  (a + 1) % n = IF a % n = n - 1 THEN 0 ELSE (a % n) + 1
<1> DEFINE q == a \div n
           r == a % n
<1>1. q \in Int /\ r \in 0 .. n-1 /\ a = (n * q) + r
  BY DivMod, ModRange
<1> HIDE DEF q, r
<1>2. CASE r = n-1
  <2>1. a + 1 = (n * (q + 1)) + 0
    BY <1>1, <1>2
  <2>2. (a + 1) % n = 0
    BY <1>1, <2>1, ModUnique
  <2> QED BY <1>2, <2>2 DEF r
<1>3. CASE r # n-1
  <2>1. a + 1 = (n * q) + (r + 1) /\ r + 1 \in 0 .. n-1
    BY <1>1, <1>3
  <2>2. (a + 1) % n = r + 1
    BY <1>1, <2>1, ModUnique
  <2> QED BY <1>3, <2>2 DEF r
<1> QED BY <1>2, <1>3

-----------------------------------------------------------------------------
(* Finite sets. *)

(* Among subsets of a finite set there is one with no other below it: this *)
(* is how a claim about all finite sets is proved, at its smallest         *)
(* counterexample.                                                         *)
LEMMA SmallestSet ==
  ASSUME NEW S, IsFiniteSet(S), NEW bad \in SUBSET (SUBSET S), bad # {}
  PROVE  \E T \in bad : \A U \in bad : U \subseteq T => U = T
<1>1. bad \subseteq FiniteSubsetsOf(S)
  BY FS_FiniteSubsetsOfFinite
<1>2. IsWellFoundedOn(StrictSubsetOrdering(S), FiniteSubsetsOf(S))
  BY FS_StrictSubsetOrderingWellFounded
<1>3. PICK T \in bad : \A U \in bad : ~ (<<U, T>> \in StrictSubsetOrdering(S))
  BY <1>1, <1>2, WFMin, Zenon
<1>4. \A U \in bad : U \subseteq T => U = T
  BY <1>3 DEF StrictSubsetOrdering
<1> QED BY <1>4

-----------------------------------------------------------------------------
(* Sums over a finite set: SumFunctionOnSet is a fold, a function defined  *)
(* by recursion on the subsets, that takes one element off at a time.      *)

Some(s) == CHOOSE x \in s : TRUE

SumStep(f, g, s) == IF s = {} THEN 0 ELSE f[Some(s)] + g[s \ {Some(s)}]

IsSum(f, S, g) == g = [s \in SUBSET S |-> SumStep(f, g, s)]

(* The library's sum is the fold that satisfies the recursion, if any does. *)
LEMMA SumIsFold ==
  ASSUME NEW f, NEW S
  PROVE  SumFunctionOnSet(f, S) = (CHOOSE g : IsSum(f, S, g))[S]
BY DEF SumFunctionOnSet, FoldFunctionOnSet, MapThenFoldSet, IsSum, SumStep, Some

(* The element that is taken off.                                          *)
LEMMA SomeIn == \A s : s # {} => Some(s) \in s
BY DEF Some

(* Two folds agree on the sets on which both are defined.                  *)
LEMMA FoldsAgree ==
  ASSUME NEW f, NEW A, NEW B, NEW g, NEW h, IsSum(f, A, g), IsSum(f, B, h),
         NEW S \in SUBSET A, S \in SUBSET B, IsFiniteSet(S)
  PROVE  g[S] = h[S]
<1> DEFINE bad == {s \in SUBSET S : g[s] # h[s]}
<1> SUFFICES ASSUME bad # {} PROVE FALSE
  OBVIOUS
<1>1. PICK s \in bad : \A u \in bad : u \subseteq s => u = s
  <2>1. bad \in SUBSET (SUBSET S)
    OBVIOUS
  <2> HIDE DEF bad
  <2> QED BY <2>1, SmallestSet
<1>2. g[s] = SumStep(f, g, s) /\ h[s] = SumStep(f, h, s)
  BY DEF IsSum
<1>3. s # {} /\ Some(s) \in s
  BY <1>2, SomeIn DEF SumStep
<1>4. g[s \ {Some(s)}] = h[s \ {Some(s)}]
  BY <1>1, <1>3
<1> QED BY <1>2, <1>3, <1>4 DEF SumStep

(* The recursion has a solution on every finite set.                       *)
LEMMA FoldExists ==
  ASSUME NEW f, NEW S, IsFiniteSet(S)
  PROVE  \E g : IsSum(f, S, g)
<1> DEFINE bad == {s \in SUBSET S : ~ \E g : IsSum(f, s, g)}
<1> SUFFICES ASSUME bad # {} PROVE FALSE
  OBVIOUS
<1>1. PICK T \in bad : \A u \in bad : u \subseteq T => u = T
  <2>1. bad \in SUBSET (SUBSET S)
    OBVIOUS
  <2> HIDE DEF bad
  <2> QED BY <2>1, SmallestSet
<1> DEFINE fold(s) == CHOOSE g : IsSum(f, s, g)
           part == [s \in SUBSET T |-> fold(s)[s]]
           whole == [s \in SUBSET T |-> IF s = T THEN SumStep(f, part, T) ELSE fold(s)[s]]
<1>2. \A s \in SUBSET T : s # T => IsSum(f, s, fold(s))
  BY <1>1
<1>3. \A s \in SUBSET T : IsFiniteSet(s)
  BY FS_Subset
<1> HIDE DEF fold
<1>4. \A s \in SUBSET T : whole[s] = SumStep(f, whole, s)
  <2> SUFFICES ASSUME NEW s \in SUBSET T PROVE whole[s] = SumStep(f, whole, s)
    OBVIOUS
  <2>1. CASE s = {}
    <3>1. CASE s = T
      BY <2>1, <3>1 DEF SumStep
    <3>2. CASE s # T
      BY <1>2, <2>1, <3>2 DEF SumStep, IsSum
    <3> QED BY <3>1, <3>2
  <2>2. CASE s # {}
    <3> DEFINE r == s \ {Some(s)}
    <3>1. Some(s) \in s /\ r # T /\ r \in SUBSET T /\ r \in SUBSET s
      BY <2>2, SomeIn
    <3>2. whole[r] = fold(r)[r]
      BY <3>1
    <3>3. CASE s = T
      BY <3>1, <3>2, <3>3, <2>2 DEF SumStep
    <3>4. CASE s # T
      <4>1. fold(s)[s] = f[Some(s)] + fold(s)[r]
        BY <1>2, <3>4, <2>2 DEF IsSum, SumStep
      <4>2. fold(s)[r] = fold(r)[r]
        BY <1>2, <1>3, <3>1, <3>4, FoldsAgree
      <4> QED BY <2>2, <3>1, <3>2, <3>4, <4>1, <4>2 DEF SumStep
    <3> QED BY <3>3, <3>4
  <2> QED BY <2>1, <2>2
<1>5. IsSum(f, T, whole)
  BY <1>4 DEF IsSum
<1> QED BY <1>1, <1>5

(* So the sum satisfies the equation it is defined by.                     *)
LEMMA SumUnfolds ==
  ASSUME NEW f, NEW S, IsFiniteSet(S)
  PROVE  SumFunctionOnSet(f, S) =
           IF S = {} THEN 0
           ELSE f[Some(S)] + SumFunctionOnSet(f, S \ {Some(S)})
<1> DEFINE fold(s) == CHOOSE g : IsSum(f, s, g)
<1>1. IsSum(f, S, fold(S)) /\ SumFunctionOnSet(f, S) = fold(S)[S]
  BY FoldExists, SumIsFold
<1> HIDE DEF fold
<1>2. fold(S)[S] = SumStep(f, fold(S), S)
  BY <1>1 DEF IsSum
<1>3. ASSUME S # {}
      PROVE  fold(S)[S \ {Some(S)}] = SumFunctionOnSet(f, S \ {Some(S)})
  <2> DEFINE r == S \ {Some(S)}
  <2>1. r \in SUBSET S /\ IsFiniteSet(r)
    BY FS_Subset
  <2>2. IsSum(f, r, fold(r)) /\ SumFunctionOnSet(f, r) = fold(r)[r]
    BY <2>1, FoldExists, SumIsFold DEF fold
  <2> QED BY <1>1, <2>1, <2>2, FoldsAgree
<1> QED BY <1>1, <1>2, <1>3 DEF SumStep

(* A sum of integers is an integer.                                        *)
LEMMA SumType ==
  ASSUME NEW f, NEW S, IsFiniteSet(S), \A x \in S : f[x] \in Int
  PROVE  SumFunctionOnSet(f, S) \in Int
<1> DEFINE bad == {s \in SUBSET S : SumFunctionOnSet(f, s) \notin Int}
<1> SUFFICES ASSUME bad # {} PROVE FALSE
  OBVIOUS
<1>1. PICK s \in bad : \A u \in bad : u \subseteq s => u = s
  <2>1. bad \in SUBSET (SUBSET S)
    OBVIOUS
  <2> HIDE DEF bad
  <2> QED BY <2>1, SmallestSet
<1>2. IsFiniteSet(s)
  BY FS_Subset
<1>3. s # {} => Some(s) \in s /\ SumFunctionOnSet(f, s \ {Some(s)}) \in Int
  BY <1>1, SomeIn
<1> QED BY <1>2, <1>3, SumUnfolds

(* A sum of natural numbers is not negative.                               *)
LEMMA SumNat ==
  ASSUME NEW f, NEW S, IsFiniteSet(S), \A x \in S : f[x] \in Nat
  PROVE  SumFunctionOnSet(f, S) \in Nat
<1> DEFINE bad == {s \in SUBSET S : SumFunctionOnSet(f, s) \notin Nat}
<1> SUFFICES ASSUME bad # {} PROVE FALSE
  OBVIOUS
<1>1. PICK s \in bad : \A u \in bad : u \subseteq s => u = s
  <2>1. bad \in SUBSET (SUBSET S)
    OBVIOUS
  <2> HIDE DEF bad
  <2> QED BY <2>1, SmallestSet
<1>2. IsFiniteSet(s)
  BY FS_Subset
<1>3. s # {} => Some(s) \in s /\ SumFunctionOnSet(f, s \ {Some(s)}) \in Nat
  BY <1>1, SomeIn
<1> QED BY <1>2, <1>3, SumUnfolds

(* Any element may be taken off first: the order does not matter.          *)
LEMMA SumWithout ==
  ASSUME NEW f, NEW S, IsFiniteSet(S), \A x \in S : f[x] \in Int, NEW e \in S
  PROVE  SumFunctionOnSet(f, S) = f[e] + SumFunctionOnSet(f, S \ {e})
<1> DEFINE Sum(s) == SumFunctionOnSet(f, s)
           bad == {s \in SUBSET S : \E x \in s : Sum(s) # f[x] + Sum(s \ {x})}
<1> SUFFICES ASSUME bad # {} PROVE FALSE
  OBVIOUS
<1>1. PICK s \in bad : \A u \in bad : u \subseteq s => u = s
  <2>1. bad \in SUBSET (SUBSET S)
    OBVIOUS
  <2> HIDE DEF bad
  <2> QED BY <2>1, SmallestSet
<1>2. PICK x \in s : Sum(s) # f[x] + Sum(s \ {x})
  OBVIOUS
<1> DEFINE y == Some(s)
<1>3. \A u \in SUBSET s : IsFiniteSet(u) /\ Sum(u) \in Int
  BY FS_Subset, SumType
<1>4. y \in s /\ Sum(s) = f[y] + Sum(s \ {y})
  BY <1>2, <1>3, SumUnfolds, SomeIn
<1> HIDE DEF y
<1>5. x # y
  BY <1>2, <1>4
<1>6. s \ {x} \notin bad /\ s \ {y} \notin bad
  BY <1>1, <1>2, <1>4
<1>7. /\ Sum(s \ {y}) = f[x] + Sum((s \ {y}) \ {x})
      /\ Sum(s \ {x}) = f[y] + Sum((s \ {x}) \ {y})
  BY <1>2, <1>4, <1>5, <1>6
<1>8. (s \ {y}) \ {x} = (s \ {x}) \ {y}
  OBVIOUS
<1> HIDE DEF Sum
<1>9. f[x] \in Int /\ f[y] \in Int /\ Sum((s \ {x}) \ {y}) \in Int
  BY <1>2, <1>3, <1>4
<1> QED BY <1>2, <1>4, <1>7, <1>8, <1>9

(* Nothing adds up to 0.                                                   *)
LEMMA SumEmpty == \A f : SumFunctionOnSet(f, {}) = 0
BY SumUnfolds, FS_EmptySet

(* One more element adds its value.                                        *)
LEMMA SumWith ==
  ASSUME NEW f, NEW S, IsFiniteSet(S), NEW e, e \notin S,
         \A x \in S \cup {e} : f[x] \in Int
  PROVE  SumFunctionOnSet(f, S \cup {e}) = f[e] + SumFunctionOnSet(f, S)
<1>1. IsFiniteSet(S \cup {e})
  BY FS_AddElement
<1>2. (S \cup {e}) \ {e} = S
  OBVIOUS
<1> QED BY <1>1, <1>2, SumWithout

(* The sum depends on the values on the set only.                          *)
LEMMA SumCongruent ==
  ASSUME NEW f, NEW g, NEW S, IsFiniteSet(S),
         \A x \in S : f[x] = g[x]
  PROVE  SumFunctionOnSet(f, S) = SumFunctionOnSet(g, S)
<1> DEFINE bad == {s \in SUBSET S : SumFunctionOnSet(f, s) # SumFunctionOnSet(g, s)}
<1> SUFFICES ASSUME bad # {} PROVE FALSE
  OBVIOUS
<1>1. PICK s \in bad : \A u \in bad : u \subseteq s => u = s
  <2>1. bad \in SUBSET (SUBSET S)
    OBVIOUS
  <2> HIDE DEF bad
  <2> QED BY <2>1, SmallestSet
<1>2. IsFiniteSet(s)
  BY FS_Subset
<1>3. s # {} => /\ Some(s) \in s /\ f[Some(s)] = g[Some(s)]
                /\ SumFunctionOnSet(f, s \ {Some(s)}) = SumFunctionOnSet(g, s \ {Some(s)})
  BY <1>1, SomeIn
<1> QED BY <1>2, <1>3, SumUnfolds

(* A change at one element changes the sum by as much.                     *)
LEMMA SumUpdate ==
  ASSUME NEW f, NEW g, NEW S, IsFiniteSet(S), NEW e \in S,
         \A x \in S : f[x] \in Int /\ g[x] \in Int,
         \A x \in S \ {e} : f[x] = g[x]
  PROVE  SumFunctionOnSet(g, S) = (SumFunctionOnSet(f, S) + g[e]) - f[e]
<1>1. IsFiniteSet(S \ {e})
  BY FS_Subset
<1>2. /\ SumFunctionOnSet(f, S) = f[e] + SumFunctionOnSet(f, S \ {e})
      /\ SumFunctionOnSet(g, S) = g[e] + SumFunctionOnSet(g, S \ {e})
  BY SumWithout
<1>3. SumFunctionOnSet(f, S \ {e}) = SumFunctionOnSet(g, S \ {e})
  BY <1>1, SumCongruent
<1>4. SumFunctionOnSet(f, S \ {e}) \in Int
  BY <1>1, SumType
<1> QED BY <1>2, <1>3, <1>4

(* A bound on the values bounds the sum.                                   *)
LEMMA SumBound ==
  ASSUME NEW f, NEW S, IsFiniteSet(S), NEW b \in Int,
         \A x \in S : f[x] \in Int /\ f[x] <= b
  PROVE  SumFunctionOnSet(f, S) <= Cardinality(S) * b
<1> DEFINE Sum(s) == SumFunctionOnSet(f, s)
           bad == {s \in SUBSET S : ~(Sum(s) <= Cardinality(s) * b)}
<1> SUFFICES ASSUME bad # {} PROVE FALSE
  OBVIOUS
<1>1. PICK s \in bad : \A u \in bad : u \subseteq s => u = s
  <2>1. bad \in SUBSET (SUBSET S)
    OBVIOUS
  <2> HIDE DEF bad
  <2> QED BY <2>1, SmallestSet
<1>2. IsFiniteSet(s)
  BY FS_Subset
<1>3. CASE s = {}
  BY <1>1, <1>3, FS_EmptySet, SumEmpty
<1>4. CASE s # {}
  <2>1. PICK x \in s : TRUE
    BY <1>4
  <2> DEFINE r == s \ {x}
  <2>2. /\ IsFiniteSet(r) /\ Cardinality(r) \in Nat
        /\ Cardinality(s) = Cardinality(r) + 1
    <3>1. IsFiniteSet(r) /\ Cardinality(r) = Cardinality(s) - 1
      BY <1>2, <2>1, FS_RemoveElement
    <3>2. Cardinality(s) \in Nat /\ Cardinality(r) \in Nat
      BY <1>2, <3>1, FS_CardinalityType
    <3> QED BY <3>1, <3>2
  <2>3. Sum(r) \in Int /\ Sum(r) <= Cardinality(r) * b
    BY <1>1, <2>1, <2>2, SumType
  <2>4. Sum(s) = f[x] + Sum(r)
    BY <1>2, SumWithout
  <2> HIDE DEF Sum
  <2>5. Sum(s) <= (Cardinality(r) * b) + b
    BY <2>3, <2>4, <2>2
  <2>6. Cardinality(s) * b = (Cardinality(r) * b) + b
    BY <2>2
  <2> QED BY <1>1, <2>5, <2>6 DEF Sum
<1> QED BY <1>3, <1>4

(* Natural numbers add up to 0 only if all of them are 0.                  *)
LEMMA SumZero ==
  ASSUME NEW f, NEW S, IsFiniteSet(S), \A x \in S : f[x] \in Nat
  PROVE  SumFunctionOnSet(f, S) = 0 <=> \A x \in S : f[x] = 0
<1>1. ASSUME SumFunctionOnSet(f, S) = 0, NEW x \in S PROVE f[x] = 0
  <2>1. SumFunctionOnSet(f, S) = f[x] + SumFunctionOnSet(f, S \ {x})
    BY SumWithout
  <2>2. SumFunctionOnSet(f, S \ {x}) \in Nat
    BY SumNat, FS_Subset
  <2> QED BY <1>1, <2>1, <2>2
<1>2. ASSUME SumFunctionOnSet(f, S) # 0 PROVE \E x \in S : f[x] # 0
  <2>1. S # {}
    BY <1>2, SumEmpty
  <2>2. Some(S) \in S
    BY <2>1, SomeIn
  <2> SUFFICES ASSUME \A x \in S : f[x] = 0 PROVE FALSE
    OBVIOUS
  <2>3. SumFunctionOnSet(f, S) \in Nat
    BY SumNat
  <2>4. SumFunctionOnSet(f, S) <= Cardinality(S) * 0
    BY SumBound
  <2>5. Cardinality(S) * 0 = 0
    BY FS_CardinalityType
  <2> QED BY <1>2, <2>3, <2>4, <2>5
<1> QED BY <1>1, <1>2

(* Greater values have the greater sum.                                    *)
LEMMA SumMonotone ==
  ASSUME NEW f, NEW g, NEW S, IsFiniteSet(S),
         \A x \in S : f[x] \in Int /\ g[x] \in Int /\ f[x] <= g[x]
  PROVE  SumFunctionOnSet(f, S) <= SumFunctionOnSet(g, S)
<1> DEFINE F(s) == SumFunctionOnSet(f, s)
           G(s) == SumFunctionOnSet(g, s)
           bad == {s \in SUBSET S : ~(F(s) <= G(s))}
<1> SUFFICES ASSUME bad # {} PROVE FALSE
  OBVIOUS
<1>1. PICK s \in bad : \A u \in bad : u \subseteq s => u = s
  <2>1. bad \in SUBSET (SUBSET S)
    OBVIOUS
  <2> HIDE DEF bad
  <2> QED BY <2>1, SmallestSet
<1>2. IsFiniteSet(s)
  BY FS_Subset
<1>3. CASE s = {}
  BY <1>1, <1>3, SumEmpty
<1>4. CASE s # {}
  <2>1. PICK x \in s : TRUE
    BY <1>4
  <2> DEFINE r == s \ {x}
  <2>2. IsFiniteSet(r)
    BY <1>2, <2>1, FS_RemoveElement
  <2>3. F(r) \in Int /\ G(r) \in Int /\ F(r) <= G(r)
    BY <1>1, <2>1, <2>2, SumType
  <2>4. F(s) = f[x] + F(r) /\ G(s) = g[x] + G(r)
    BY <1>2, SumWithout
  <2>5. ~(F(s) <= G(s))
    BY <1>1
  <2> HIDE DEF F, G
  <2> QED BY <2>1, <2>3, <2>4, <2>5
<1> QED BY <1>3, <1>4
=============================================================================
