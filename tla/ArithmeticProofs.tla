-------------------------- MODULE ArithmeticProofs --------------------------
(***************************************************************************)
(* What all proofs about amounts rest on: division and rounding half up,   *)
(* for every numerator and denominator, and sums over finite sets.         *)
(*                                                                         *)
(* A sum is a fold, which recurs on the set.  That the recursion has a     *)
(* solution, and only one, and every fact about sums, is shown by the      *)
(* least counterexample: of the numbers that violate a claim there is a    *)
(* least one, for the order of the numbers is well-founded.                *)
(***************************************************************************)
EXTENDS Integers, Functions, FiniteSetTheorems, WellFoundedInduction, TLAPS

(* Integer division by a positive divisor rounds down. *)
LEMMA DivParts ==
  ASSUME NEW n \in Nat, NEW d \in Nat \ {0}
  PROVE  n = d * (n \div d) + (n % d) /\ n % d \in 0..(d - 1)
BY Z3

LEMMA DivBelow ==
  ASSUME NEW n \in Nat, NEW d \in Nat \ {0}
  PROVE  n \div d \in Nat /\ (n \div d) * d <= n
<1>1. n = d * (n \div d) + (n % d) /\ n % d \in 0..(d - 1)
  BY Z3
<1>2. n \div d \in Nat
  BY Z3
<1> QED
  BY <1>1, <1>2, Z3

(* A quotient stays below any m whose next multiple exceeds the dividend. *)
LEMMA DivBound ==
  ASSUME NEW n \in Nat, NEW d \in Nat \ {0}, NEW m \in Nat, n < (m + 1) * d
  PROVE  n \div d <= m
<1> DEFINE q == n \div d
<1>1. q \in Nat /\ q * d <= n
  BY DivBelow
<1>2. SUFFICES ASSUME q >= m + 1 PROVE FALSE
  BY <1>1
<1> HIDE DEF q
<1>3. q * d >= (m + 1) * d
  BY <1>1, <1>2, Z3
<1> QED
  BY <1>1, <1>3, Z3

(* Rounding half up is to a natural number, and never passes an integral    *)
(* amount the exact value did not pass.                                     *)
LEMMA HalfUpBound ==
  ASSUME NEW n \in Nat, NEW d \in Nat \ {0}
  PROVE  /\ (2 * n + d) \div (2 * d) \in Nat
         /\ \A m \in Nat : n <= m * d => (2 * n + d) \div (2 * d) <= m
<1>1. 2 * n + d \in Nat /\ 2 * d \in Nat \ {0}
  BY Z3
<1>2. (2 * n + d) \div (2 * d) \in Nat
  BY <1>1, DivBelow
<1>3. ASSUME NEW m \in Nat, n <= m * d
      PROVE  (2 * n + d) \div (2 * d) <= m
  <2>1. 2 * n + d < (m + 1) * (2 * d)
    BY <1>3, Z3
  <2> QED
    BY <1>1, <2>1, DivBound
<1> QED
  BY <1>2, <1>3

(* Rounding half up is off by at most one half.                             *)
LEMMA HalfUpIsNear ==
  ASSUME NEW n \in Nat, NEW d \in Nat \ {0}
  PROVE  LET q == (2 * n + d) \div (2 * d) IN
         (2 * d) * q <= 2 * n + d /\ (2 * d) * q > 2 * n - d
<1> DEFINE m == 2 * n + d
           e == 2 * d
           q == m \div e
<1>1. m \in Nat /\ e \in Nat \ {0} /\ m = 2 * n + d /\ e = 2 * d
  BY Z3
<1> HIDE DEF m, e
<1>2. m = e * q + (m % e) /\ m % e \in 0..(e - 1)
  BY <1>1, Z3
<1>3. q \in Nat
  BY <1>1, DivBelow
<1>4. e * q \in Nat
  BY <1>1, <1>3, Z3
<1> HIDE DEF q
<1>5. e * q <= m /\ e * q > m - e
  BY <1>1, <1>2, <1>4
<1>6. e * q <= 2 * n + d /\ e * q > 2 * n - d
  BY <1>1, <1>5, <1>4
<1> QED
  BY <1>6 DEF q, m, e

(* A whole number of the unit is rounded to itself.                         *)
LEMMA HalfUpOfWhole ==
  ASSUME NEW k \in Nat, NEW d \in Nat \ {0}
  PROVE  (2 * (k * d) + d) \div (2 * d) = k
<1>. DEFINE n == k * d  q == (2 * n + d) \div (2 * d)
<1>1. n \in Nat
  BY Z3
<1>2. q \in Nat /\ q <= k
  <2>. HIDE DEF n
  <2>1. n <= k * d
    BY <1>1 DEF n
  <2>. QED BY <1>1, <2>1, HalfUpBound
<1>3. (2 * d) * q > 2 * n - d
  BY <1>1, HalfUpIsNear
<1>. HIDE DEF q
<1>4. q >= k
  <2>. SUFFICES ASSUME q <= k - 1 PROVE FALSE
    BY <1>2
  <2>1. (2 * d) * q <= (2 * d) * (k - 1) /\ (2 * d) * q \in Int
    BY <1>2, Z3
  <2>2. (2 * d) * (k - 1) = 2 * (k * d) - 2 * d
    BY Z3
  <2>3. 2 * n - 2 * d < 2 * n - d
    BY <1>1
  <2>. HIDE DEF n
  <2>4. (2 * d) * q <= 2 * n - 2 * d
    BY <2>1, <2>2 DEF n
  <2>. QED BY <1>1, <1>3, <2>1, <2>3, <2>4
<1>5. q = k
  BY <1>2, <1>4
<1>. QED BY <1>5 DEF q, n

-----------------------------------------------------------------------------
(* Of the numbers that violate a claim there is a least one.                *)
LEMMA MultipleLeavesNone ==
  ASSUME NEW k \in Nat, NEW g \in Nat \ {0}
  PROVE  (k * g) % g = 0
<1> DEFINE n == k * g
           m == n % g
           j == n \div g
<1>1. n \in Nat
  BY Z3
<1>2. n = g * j + m /\ m \in 0..(g - 1) /\ j \in Int
  BY <1>1, Z3
<1> HIDE DEF j, m
<1>3. (k - j) * g = m
  <2>1. (k - j) * g = k * g - g * j
    BY <1>2, Z3
  <2>2. k * g = g * j + m /\ g * j \in Int /\ k * g \in Int
    BY <1>1, <1>2, Z3
  <2> QED
    BY <1>2, <2>1, <2>2
<1> DEFINE x == k - j
<1>4. x \in Int /\ x * g = m /\ m \in Int /\ m >= 0 /\ m < g
  BY <1>2, <1>3
<1> HIDE DEF x
<1>5. x <= 0
  BY <1>4, Z3
<1>6. x >= 0
  BY <1>4, Z3
<1>7. x = 0
  BY <1>4, <1>5, <1>6
<1> QED
  BY <1>4, <1>7 DEF m, n

LEMMA LeastElement ==
  ASSUME NEW T \in SUBSET Nat, T # {}
  PROVE  \E n \in T : \A m \in T : n <= m
<1> DEFINE Below == {p \in Nat \X Nat : p[1] < p[2]}
<1>1. IsWellFoundedOn(Below, Nat)
  BY NatLessThanWellFounded DEF OpToRel
<1>2. PICK n \in T : \A m \in T : ~(<<m, n>> \in Below)
  <2> HIDE DEF Below
  <2> QED
    BY <1>1, WFMin
<1>3. ASSUME NEW m \in T
      PROVE  ~(m < n)
  <2>1. <<m, n>> \in Nat \X Nat
    OBVIOUS
  <2> QED
    BY <1>2, <2>1
<1> QED
  BY <1>3

Chosen(s) == CHOOSE x \in s : TRUE
Adds(g, f, D) ==
  g = [s \in D |-> IF s = {} THEN 0 ELSE f[Chosen(s)] + g[s \ {Chosen(s)}]]

LEMMA Unfold ==
  ASSUME NEW f, NEW S, \E g : Adds(g, f, SUBSET S)
  PROVE  \E g : Adds(g, f, SUBSET S) /\ SumFunctionOnSet(f, S) = g[S]
<1> DEFINE h == CHOOSE g : Adds(g, f, SUBSET S)
<1>1. Adds(h, f, SUBSET S)
  OBVIOUS
<1>2. SumFunctionOnSet(f, S) = h[S]
  BY DEF SumFunctionOnSet, FoldFunctionOnSet, MapThenFoldSet, Adds, Chosen
<1> QED BY <1>1, <1>2

-----------------------------------------------------------------------------
LEMMA SmallerPart ==
  ASSUME NEW S, IsFiniteSet(S), NEW x \in S
  PROVE  /\ IsFiniteSet(S \ {x}) /\ Cardinality(S) \in Nat \ {0}
         /\ Cardinality(S \ {x}) = Cardinality(S) - 1
BY FS_RemoveElement, FS_CardinalityType, FS_EmptySet

LEMMA ChosenIsIn == \A s : s # {} => Chosen(s) \in s
BY DEF Chosen

LEMMA AddsExists ==
  ASSUME NEW f, NEW S, IsFiniteSet(S)
  PROVE  \E g : Adds(g, f, SUBSET S)
<1> DEFINE D(n) == {s \in SUBSET S : Cardinality(s) <= n}
           T == {n \in Nat : ~ \E g : Adds(g, f, D(n))}
<1>0. \A s \in SUBSET S : IsFiniteSet(s) /\ Cardinality(s) \in Nat
  BY FS_Subset, FS_CardinalityType
<1>1. T = {}
  <2> SUFFICES ASSUME T # {} PROVE FALSE
    OBVIOUS
  <2>1. PICK n \in T : \A m \in T : n <= m
    <3>1. T \in SUBSET Nat
      OBVIOUS
    <3> HIDE DEF T
    <3> QED BY <3>1, LeastElement
  <2>2. CASE n = 0
    <3> DEFINE g == [s \in D(0) |-> 0]
    <3>1. \A s \in D(0) : s = {}
      BY <1>0, FS_EmptySet
    <3>2. Adds(g, f, D(0))
      BY <3>1 DEF Adds
    <3> QED BY <2>1, <2>2, <3>2
  <2>3. CASE n # 0
    <3>1. n \in Nat /\ n - 1 \in Nat /\ n - 1 \notin T
      <4>1. n \in Nat
        OBVIOUS
      <4> HIDE DEF T
      <4> QED BY <2>1, <2>3, <4>1
    <3>2. PICK g : Adds(g, f, D(n - 1))
      BY <3>1
    <3> DEFINE more(s) == IF s = {} THEN 0 ELSE f[Chosen(s)] + g[s \ {Chosen(s)}]
               h == [s \in D(n) |-> more(s)]
    <3>3. \A s \in D(n - 1) : s \in D(n) /\ g[s] = more(s)
      <4>1. \A s \in D(n - 1) : g[s] = more(s)
        BY <3>2, Zenon DEF Adds
      <4>2. \A s \in D(n - 1) : s \in D(n)
        BY <1>0, <2>1, <3>1
      <4> QED BY <4>1, <4>2
    <3>4. ASSUME NEW s \in D(n), s # {}
          PROVE  s \ {Chosen(s)} \in D(n - 1)
      <4>1. Chosen(s) \in s
        BY <3>4, ChosenIsIn
      <4>2. IsFiniteSet(s) /\ Cardinality(s) <= n /\ s \in SUBSET S
        BY <1>0
      <4>3. Cardinality(s \ {Chosen(s)}) = Cardinality(s) - 1 /\ Cardinality(s) \in Nat
        BY <4>1, <4>2, SmallerPart
      <4>4. Cardinality(s \ {Chosen(s)}) <= n - 1
        BY <2>1, <4>2, <4>3
      <4> QED BY <4>2, <4>4
    <3>5. \A s \in D(n) : s # {} => h[s \ {Chosen(s)}] = g[s \ {Chosen(s)}]
      <4> HIDE DEF D, more
      <4> QED BY <3>3, <3>4
    <3>6. Adds(h, f, D(n))
      <4> HIDE DEF D
      <4>1. \A s \in D(n) : more(s) = IF s = {} THEN 0 ELSE f[Chosen(s)] + h[s \ {Chosen(s)}]
        BY <3>5
      <4> QED BY <4>1, Zenon DEF Adds
    <3> QED BY <2>1, <3>6
  <2> QED BY <2>2, <2>3
<1>2. Cardinality(S) \in Nat
  BY FS_CardinalityType
<1>3. D(Cardinality(S)) = SUBSET S
  BY FS_Subset
<1> QED BY <1>1, <1>2, <1>3

(* What holds of every part of a set that has it of the parts one smaller.  *)
LEMMA PartByPart ==
  ASSUME NEW S, IsFiniteSet(S), NEW G,
         \A s \in SUBSET S : (\A x \in s : s \ {x} \in G) => s \in G
  PROVE  \A s \in SUBSET S : s \in G
<1> DEFINE T == {Cardinality(s) : s \in (SUBSET S) \ G}
<1>0. \A s \in SUBSET S : IsFiniteSet(s) /\ Cardinality(s) \in Nat
  BY FS_Subset, FS_CardinalityType
<1>1. T \in SUBSET Nat
  BY <1>0
<1>2. T = {}
  <2> SUFFICES ASSUME T # {} PROVE FALSE
    OBVIOUS
  <2>1. PICK n \in T : \A m \in T : n <= m
    <3> HIDE DEF T
    <3> QED BY <1>1, LeastElement
  <2>2. PICK s \in (SUBSET S) \ G : n = Cardinality(s)
    OBVIOUS
  <2>3. PICK x \in s : s \ {x} \notin G
    OBVIOUS
  <2>4. Cardinality(s \ {x}) \in T
    <3>1. s \ {x} \in (SUBSET S) \ G
      BY <2>3, Zenon
    <3> QED BY <3>1
  <2>5. Cardinality(s \ {x}) = Cardinality(s) - 1 /\ Cardinality(s) \in Nat
    BY <1>0, SmallerPart
  <2> HIDE DEF T
  <2> QED BY <2>1, <2>2, <2>4, <2>5
<1> SUFFICES ASSUME NEW s \in SUBSET S, s \notin G PROVE FALSE
  OBVIOUS
<1>3. Cardinality(s) \in T
  <2>1. s \in (SUBSET S) \ G
    OBVIOUS
  <2> QED BY <2>1
<1> QED BY <1>2, <1>3

LEMMA AddsOnce ==
  ASSUME NEW f, NEW S, IsFiniteSet(S), NEW U \in SUBSET S, NEW g, NEW h,
         Adds(g, f, SUBSET S), Adds(h, f, SUBSET U)
  PROVE  g[U] = h[U]
<1> DEFINE G == {s \in SUBSET U : g[s] = h[s]}
<1>1. IsFiniteSet(U)
  BY FS_Subset
<1>2. ASSUME NEW s \in SUBSET U, \A x \in s : s \ {x} \in G
      PROVE  s \in G
  <2>1. s # {} => g[s \ {Chosen(s)}] = h[s \ {Chosen(s)}]
    BY <1>2, ChosenIsIn
  <2>2. /\ g[s] = IF s = {} THEN 0 ELSE f[Chosen(s)] + g[s \ {Chosen(s)}]
        /\ h[s] = IF s = {} THEN 0 ELSE f[Chosen(s)] + h[s \ {Chosen(s)}]
    BY Zenon DEF Adds
  <2> QED BY <2>1, <2>2
<1> HIDE DEF G
<1>3. \A s \in SUBSET U : s \in G
  BY <1>1, <1>2, PartByPart
<1> QED BY <1>3 DEF G

LEMMA SumOfNone == ASSUME NEW f PROVE SumFunctionOnSet(f, {}) = 0
<1>1. \E g : Adds(g, f, SUBSET {})
  BY AddsExists, FS_EmptySet
<1>2. PICK g : Adds(g, f, SUBSET {}) /\ SumFunctionOnSet(f, {}) = g[{}]
  BY <1>1, Unfold
<1> QED BY <1>2 DEF Adds

LEMMA SumOfChosen ==
  ASSUME NEW f, NEW S, IsFiniteSet(S), S # {}
  PROVE  SumFunctionOnSet(f, S) = f[Chosen(S)] + SumFunctionOnSet(f, S \ {Chosen(S)})
<1> DEFINE U == S \ {Chosen(S)}
<1>1. IsFiniteSet(U) /\ U \in SUBSET S
  BY FS_Subset
<1>2. PICK g : Adds(g, f, SUBSET S) /\ SumFunctionOnSet(f, S) = g[S]
  BY AddsExists, Unfold
<1>3. PICK h : Adds(h, f, SUBSET U) /\ SumFunctionOnSet(f, U) = h[U]
  BY <1>1, AddsExists, Unfold
<1>4. g[U] = h[U]
  BY <1>1, <1>2, <1>3, AddsOnce
<1>5. g[S] = f[Chosen(S)] + g[U]
  BY <1>2 DEF Adds
<1> QED BY <1>2, <1>3, <1>4, <1>5

LEMMA SumIsInt ==
  ASSUME NEW f, NEW S, IsFiniteSet(S), \A x \in S : f[x] \in Int
  PROVE  \A s \in SUBSET S : SumFunctionOnSet(f, s) \in Int
<1> DEFINE G == {s \in SUBSET S : SumFunctionOnSet(f, s) \in Int}
<1>1. ASSUME NEW s \in SUBSET S, \A x \in s : s \ {x} \in G
      PROVE  s \in G
  <2>1. CASE s = {}
    BY <2>1, SumOfNone
  <2>2. CASE s # {}
    <3>1. Chosen(s) \in s /\ IsFiniteSet(s)
      BY <2>2, ChosenIsIn, FS_Subset
    <3>2. SumFunctionOnSet(f, s \ {Chosen(s)}) \in Int
      BY <1>1, <3>1
    <3>3. SumFunctionOnSet(f, s) = f[Chosen(s)] + SumFunctionOnSet(f, s \ {Chosen(s)})
      BY <2>2, <3>1, SumOfChosen
    <3> QED BY <3>1, <3>2, <3>3
  <2> QED BY <2>1, <2>2
<1> HIDE DEF G
<1>2. \A s \in SUBSET S : s \in G
  BY <1>1, PartByPart
<1> QED BY <1>2 DEF G

(* Any summand may be taken out first.                                      *)
LEMMA SumTakesOut ==
  ASSUME NEW f, NEW S, IsFiniteSet(S), \A x \in S : f[x] \in Int
  PROVE  \A s \in SUBSET S : \A y \in s :
           SumFunctionOnSet(f, s) = f[y] + SumFunctionOnSet(f, s \ {y})
<1> DEFINE Out(s) == \A y \in s : SumFunctionOnSet(f, s) = f[y] + SumFunctionOnSet(f, s \ {y})
           G == {s \in SUBSET S : Out(s)}
<1>1. ASSUME NEW s \in SUBSET S, \A x \in s : s \ {x} \in G
      PROVE  s \in G
  <2> SUFFICES ASSUME NEW y \in s
               PROVE  SumFunctionOnSet(f, s) = f[y] + SumFunctionOnSet(f, s \ {y})
    OBVIOUS
  <2> DEFINE x == Chosen(s)
  <2>1. x \in s /\ IsFiniteSet(s)
    BY ChosenIsIn, FS_Subset
  <2>2. SumFunctionOnSet(f, s) = f[x] + SumFunctionOnSet(f, s \ {x})
    BY <2>1, SumOfChosen
  <2>3. CASE x = y
    BY <2>2, <2>3
  <2>4. CASE x # y
    <3> HIDE DEF x
    <3>1. Out(s \ {x}) /\ Out(s \ {y})
      BY <1>1, <2>1
    <3>2. y \in s \ {x} /\ x \in s \ {y}
      BY <2>1, <2>4
    <3>3. SumFunctionOnSet(f, s \ {x}) = f[y] + SumFunctionOnSet(f, (s \ {x}) \ {y})
      BY <3>1, <3>2
    <3>4. SumFunctionOnSet(f, s \ {y}) = f[x] + SumFunctionOnSet(f, (s \ {y}) \ {x})
      BY <3>1, <3>2
    <3>5. (s \ {x}) \ {y} = (s \ {y}) \ {x} /\ (s \ {x}) \ {y} \in SUBSET S
      OBVIOUS
    <3> DEFINE rest == SumFunctionOnSet(f, (s \ {x}) \ {y})
    <3>6. rest \in Int /\ f[x] \in Int /\ f[y] \in Int
      BY <2>1, <3>5, SumIsInt
    <3>7. /\ SumFunctionOnSet(f, s) = f[x] + (f[y] + rest)
          /\ SumFunctionOnSet(f, s \ {y}) = f[x] + rest
      BY <2>2, <3>3, <3>4, <3>5
    <3> HIDE DEF rest
    <3> QED BY <3>6, <3>7
  <2> QED BY <2>3, <2>4
<1> HIDE DEF G
<1>2. \A s \in SUBSET S : s \in G
  BY <1>1, PartByPart
<1> QED BY <1>2 DEF G

-----------------------------------------------------------------------------
(* Sums of the same, scaled and constant summands; sums of natural numbers. *)
LEMMA SumsAgree ==
  ASSUME NEW f, NEW g, NEW S, IsFiniteSet(S), \A x \in S : f[x] = g[x]
  PROVE  SumFunctionOnSet(f, S) = SumFunctionOnSet(g, S)
<1> DEFINE G == {s \in SUBSET S : SumFunctionOnSet(f, s) = SumFunctionOnSet(g, s)}
<1>1. ASSUME NEW s \in SUBSET S, \A x \in s : s \ {x} \in G
      PROVE  s \in G
  <2>1. CASE s = {}
    BY <2>1, SumOfNone
  <2>2. CASE s # {}
    <3> DEFINE x == Chosen(s)
    <3>1. x \in s /\ IsFiniteSet(s)
      BY <2>2, ChosenIsIn, FS_Subset
    <3>2. /\ SumFunctionOnSet(f, s) = f[x] + SumFunctionOnSet(f, s \ {x})
          /\ SumFunctionOnSet(g, s) = g[x] + SumFunctionOnSet(g, s \ {x})
      BY <2>2, <3>1, SumOfChosen
    <3> HIDE DEF x
    <3>3. f[x] = g[x] /\ SumFunctionOnSet(f, s \ {x}) = SumFunctionOnSet(g, s \ {x})
      BY <1>1, <3>1
    <3> QED BY <3>2, <3>3
  <2> QED BY <2>1, <2>2
<1> HIDE DEF G
<1>2. \A s \in SUBSET S : s \in G
  BY <1>1, PartByPart
<1>3. S \in G
  BY <1>2
<1> QED BY <1>3 DEF G

LEMMA SumOfScaled ==
  ASSUME NEW f, NEW g, NEW S, IsFiniteSet(S), NEW k \in Int,
         \A x \in S : f[x] \in Int /\ g[x] = k * f[x]
  PROVE  SumFunctionOnSet(g, S) = k * SumFunctionOnSet(f, S)
<1> DEFINE G == {s \in SUBSET S : SumFunctionOnSet(g, s) = k * SumFunctionOnSet(f, s)}
<1>1. ASSUME NEW s \in SUBSET S, \A x \in s : s \ {x} \in G
      PROVE  s \in G
  <2>1. CASE s = {}
    BY <2>1, SumOfNone
  <2>2. CASE s # {}
    <3> DEFINE x == Chosen(s)
               rest == SumFunctionOnSet(f, s \ {x})
    <3>1. x \in s /\ IsFiniteSet(s)
      BY <2>2, ChosenIsIn, FS_Subset
    <3>2. /\ SumFunctionOnSet(f, s) = f[x] + rest
          /\ SumFunctionOnSet(g, s) = g[x] + SumFunctionOnSet(g, s \ {x})
      BY <2>2, <3>1, SumOfChosen
    <3>3. rest \in Int
      BY SumIsInt
    <3> HIDE DEF x
    <3>4. f[x] \in Int /\ g[x] = k * f[x] /\ SumFunctionOnSet(g, s \ {x}) = k * rest
      BY <1>1, <3>1
    <3>5. SumFunctionOnSet(g, s) = k * f[x] + k * rest
      BY <3>2, <3>4
    <3> HIDE DEF rest
    <3>6. k * f[x] + k * rest = k * (f[x] + rest)
      BY <3>3, <3>4, Z3
    <3> QED BY <3>2, <3>5, <3>6
  <2> QED BY <2>1, <2>2
<1> HIDE DEF G
<1>2. \A s \in SUBSET S : s \in G
  BY <1>1, PartByPart
<1>3. S \in G
  BY <1>2
<1> QED BY <1>3 DEF G

LEMMA SumOfPairs ==
  ASSUME NEW f, NEW g, NEW h, NEW S, IsFiniteSet(S),
         \A x \in S : f[x] \in Int /\ g[x] \in Int /\ h[x] = f[x] + g[x]
  PROVE  SumFunctionOnSet(h, S) = SumFunctionOnSet(f, S) + SumFunctionOnSet(g, S)
<1> DEFINE G == {s \in SUBSET S :
                  SumFunctionOnSet(h, s) = SumFunctionOnSet(f, s) + SumFunctionOnSet(g, s)}
<1>1. ASSUME NEW s \in SUBSET S, \A x \in s : s \ {x} \in G
      PROVE  s \in G
  <2>1. CASE s = {}
    BY <2>1, SumOfNone
  <2>2. CASE s # {}
    <3> DEFINE x == Chosen(s)
               a == SumFunctionOnSet(f, s \ {x})
               b == SumFunctionOnSet(g, s \ {x})
    <3>1. x \in s /\ IsFiniteSet(s)
      BY <2>2, ChosenIsIn, FS_Subset
    <3>2. /\ SumFunctionOnSet(f, s) = f[x] + a
          /\ SumFunctionOnSet(g, s) = g[x] + b
          /\ SumFunctionOnSet(h, s) = h[x] + SumFunctionOnSet(h, s \ {x})
      BY <2>2, <3>1, SumOfChosen
    <3>3. a \in Int /\ b \in Int
      BY SumIsInt
    <3> HIDE DEF x
    <3>4. /\ f[x] \in Int /\ g[x] \in Int /\ h[x] = f[x] + g[x]
          /\ SumFunctionOnSet(h, s \ {x}) = a + b
      BY <1>1, <3>1
    <3> HIDE DEF a, b
    <3>5. SumFunctionOnSet(h, s) = SumFunctionOnSet(f, s) + SumFunctionOnSet(g, s)
      BY <3>2, <3>3, <3>4
    <3> QED BY <3>5
  <2> QED BY <2>1, <2>2
<1> HIDE DEF G
<1>2. \A s \in SUBSET S : s \in G
  BY <1>1, PartByPart
<1>3. S \in G
  BY <1>2
<1> QED BY <1>3 DEF G

LEMMA SumIsMonotone ==
  ASSUME NEW f, NEW g, NEW S, IsFiniteSet(S),
         \A x \in S : f[x] \in Int /\ g[x] \in Int /\ f[x] <= g[x]
  PROVE  SumFunctionOnSet(f, S) <= SumFunctionOnSet(g, S)
<1> DEFINE G == {s \in SUBSET S : SumFunctionOnSet(f, s) <= SumFunctionOnSet(g, s)}
<1>1. ASSUME NEW s \in SUBSET S, \A x \in s : s \ {x} \in G
      PROVE  s \in G
  <2>1. CASE s = {}
    BY <2>1, SumOfNone
  <2>2. CASE s # {}
    <3> DEFINE x == Chosen(s)
               a == SumFunctionOnSet(f, s \ {x})
               b == SumFunctionOnSet(g, s \ {x})
    <3>1. x \in s /\ IsFiniteSet(s)
      BY <2>2, ChosenIsIn, FS_Subset
    <3>2. /\ SumFunctionOnSet(f, s) = f[x] + a
          /\ SumFunctionOnSet(g, s) = g[x] + b
      BY <2>2, <3>1, SumOfChosen
    <3>3. a \in Int /\ b \in Int
      BY SumIsInt
    <3> HIDE DEF x
    <3>4. f[x] \in Int /\ g[x] \in Int /\ f[x] <= g[x] /\ a <= b
      BY <1>1, <3>1
    <3> HIDE DEF a, b
    <3>5. SumFunctionOnSet(f, s) <= SumFunctionOnSet(g, s)
      BY <3>2, <3>3, <3>4
    <3> QED BY <3>5
  <2> QED BY <2>1, <2>2
<1> HIDE DEF G
<1>2. \A s \in SUBSET S : s \in G
  BY <1>1, PartByPart
<1>3. S \in G
  BY <1>2
<1> QED BY <1>3 DEF G

LEMMA SumOfSame ==
  ASSUME NEW f, NEW S, IsFiniteSet(S), NEW k \in Int, \A x \in S : f[x] = k
  PROVE  SumFunctionOnSet(f, S) = k * Cardinality(S)
<1> DEFINE G == {s \in SUBSET S : SumFunctionOnSet(f, s) = k * Cardinality(s)}
<1>1. ASSUME NEW s \in SUBSET S, \A x \in s : s \ {x} \in G
      PROVE  s \in G
  <2>1. CASE s = {}
    BY <2>1, SumOfNone, FS_EmptySet
  <2>2. CASE s # {}
    <3> DEFINE x == Chosen(s)
               n == Cardinality(s)
    <3>1. x \in s /\ IsFiniteSet(s)
      BY <2>2, ChosenIsIn, FS_Subset
    <3>2. SumFunctionOnSet(f, s) = f[x] + SumFunctionOnSet(f, s \ {x})
      BY <2>2, <3>1, SumOfChosen
    <3>3. n \in Nat /\ Cardinality(s \ {x}) = n - 1
      BY <3>1, SmallerPart
    <3> HIDE DEF x
    <3>4. f[x] = k /\ SumFunctionOnSet(f, s \ {x}) = k * (n - 1)
      BY <1>1, <3>1, <3>3
    <3>5. k + k * (n - 1) = k * n
      BY <3>3, Z3
    <3> QED BY <3>2, <3>4, <3>5
  <2> QED BY <2>1, <2>2
<1> HIDE DEF G
<1>2. \A s \in SUBSET S : s \in G
  BY <1>1, PartByPart
<1>3. S \in G
  BY <1>2
<1> QED BY <1>3 DEF G

LEMMA SumIsNat ==
  ASSUME NEW f, NEW S, IsFiniteSet(S), \A x \in S : f[x] \in Nat
  PROVE  /\ SumFunctionOnSet(f, S) \in Nat
         /\ \A y \in S : f[y] <= SumFunctionOnSet(f, S)
<1> DEFINE zero == [x \in S |-> 0]
<1>1. \A s \in SUBSET S : SumFunctionOnSet(f, s) \in Nat
  <2> SUFFICES ASSUME NEW s \in SUBSET S
               PROVE  SumFunctionOnSet(f, s) \in Nat
    OBVIOUS
  <2>0. IsFiniteSet(s)
    BY FS_Subset
  <2>1. SumFunctionOnSet(f, s) \in Int
    BY SumIsInt
  <2>2. SumFunctionOnSet(zero, s) = 0 * Cardinality(s)
    <3>1. \A x \in s : zero[x] = 0
      OBVIOUS
    <3> HIDE DEF zero
    <3> QED BY <2>0, <3>1, SumOfSame
  <2>3. Cardinality(s) \in Nat
    BY FS_Subset, FS_CardinalityType
  <2>4. SumFunctionOnSet(zero, s) <= SumFunctionOnSet(f, s)
    <3>1. \A x \in s : zero[x] \in Int /\ f[x] \in Int /\ zero[x] <= f[x]
      OBVIOUS
    <3> HIDE DEF zero
    <3> QED BY <2>0, <3>1, SumIsMonotone
  <2> HIDE DEF zero
  <2> QED BY <2>1, <2>2, <2>3, <2>4
<1>2. ASSUME NEW y \in S
      PROVE  f[y] <= SumFunctionOnSet(f, S)
  <2>1. SumFunctionOnSet(f, S) = f[y] + SumFunctionOnSet(f, S \ {y})
    BY SumTakesOut
  <2>2. SumFunctionOnSet(f, S \ {y}) \in Nat
    BY <1>1
  <2> QED BY <2>1, <2>2
<1> QED BY <1>1, <1>2

(* What is zero does not count in a sum.                                    *)
LEMMA SumOfPart ==
  ASSUME NEW f, NEW S, IsFiniteSet(S), NEW T \in SUBSET S,
         \A x \in S : f[x] \in Int, \A x \in S \ T : f[x] = 0
  PROVE  SumFunctionOnSet(f, S) = SumFunctionOnSet(f, T)
<1> DEFINE G == {s \in SUBSET S : SumFunctionOnSet(f, s) = SumFunctionOnSet(f, s \cap T)}
<1>1. ASSUME NEW s \in SUBSET S, \A x \in s : s \ {x} \in G
      PROVE  s \in G
  <2>1. CASE s \subseteq T
    <3>1. s \cap T = s
      BY <2>1
    <3> QED BY <3>1
  <2>2. CASE \E x \in s : x \notin T
    <3>1. PICK x \in s : x \notin T
      BY <2>2
    <3>2. SumFunctionOnSet(f, s) = f[x] + SumFunctionOnSet(f, s \ {x})
      BY <3>1, SumTakesOut
    <3>3. SumFunctionOnSet(f, s \ {x}) = SumFunctionOnSet(f, (s \ {x}) \cap T)
      BY <1>1, <3>1
    <3>4. (s \ {x}) \cap T = s \cap T
      BY <3>1
    <3> DEFINE rest == SumFunctionOnSet(f, s \ {x})
    <3>5. rest \in Int /\ f[x] = 0
      BY <3>1, SumIsInt
    <3>6. rest = SumFunctionOnSet(f, s \cap T)
      BY <3>3, <3>4
    <3>7. SumFunctionOnSet(f, s) = f[x] + rest
      BY <3>2
    <3> HIDE DEF rest
    <3> QED BY <3>5, <3>6, <3>7
  <2> QED BY <2>1, <2>2
<1> HIDE DEF G
<1>2. \A s \in SUBSET S : s \in G
  BY <1>1, PartByPart
<1>3. S \in G /\ S \cap T = T
  BY <1>2
<1> QED BY <1>3 DEF G

(* Summands bounded one by one are bounded in all.                          *)
LEMMA SumIsBounded ==
  ASSUME NEW f, NEW g, NEW S, IsFiniteSet(S), NEW a \in Int, NEW b \in Int, NEW c \in Int,
         \A x \in S : f[x] \in Int /\ g[x] \in Int /\ a * f[x] <= b * g[x] + c
  PROVE  a * SumFunctionOnSet(f, S) <= b * SumFunctionOnSet(g, S) + c * Cardinality(S)
<1> DEFINE af == [x \in S |-> a * f[x]]
           bg == [x \in S |-> b * g[x]]
           cs == [x \in S |-> c]
           sum == [x \in S |-> b * g[x] + c]
<1>1. \A x \in S : /\ af[x] \in Int /\ af[x] = a * f[x]
                   /\ bg[x] \in Int /\ bg[x] = b * g[x]
                   /\ cs[x] \in Int /\ cs[x] = c
                   /\ sum[x] \in Int /\ sum[x] = bg[x] + cs[x] /\ af[x] <= sum[x]
  <2> SUFFICES ASSUME NEW x \in S
               PROVE  a * f[x] \in Int /\ b * g[x] \in Int
    OBVIOUS
  <2>1. f[x] \in Int /\ g[x] \in Int
    OBVIOUS
  <2> QED BY <2>1, Z3
<1> HIDE DEF af, bg, cs, sum
<1>2. /\ SumFunctionOnSet(af, S) = a * SumFunctionOnSet(f, S)
      /\ SumFunctionOnSet(bg, S) = b * SumFunctionOnSet(g, S)
  BY <1>1, SumOfScaled
<1>3. SumFunctionOnSet(cs, S) = c * Cardinality(S)
  BY <1>1, SumOfSame
<1>4. SumFunctionOnSet(sum, S) = SumFunctionOnSet(bg, S) + SumFunctionOnSet(cs, S)
  BY <1>1, SumOfPairs
<1>5. SumFunctionOnSet(af, S) <= SumFunctionOnSet(sum, S)
  BY <1>1, SumIsMonotone
<1> QED BY <1>2, <1>3, <1>4, <1>5

(* A common factor does not matter in a comparison. *)
LEMMA Cancelled ==
  ASSUME NEW k \in Nat \ {0}, NEW x \in Int, NEW y \in Int, x * k < y * k
  PROVE  x < y
<1> SUFFICES ASSUME x >= y PROVE FALSE
  OBVIOUS
<1>1. x * k >= y * k /\ x * k \in Int /\ y * k \in Int
  BY Z3
<1> QED
  BY <1>1

(* The quotient rounded down is off by less than one. *)
LEMMA DivIsNear ==
  ASSUME NEW n \in Nat, NEW d \in Nat \ {0}
  PROVE  n < (n \div d + 1) * d
<1>1. n = d * (n \div d) + (n % d) /\ n % d \in 0..(d - 1)
  BY Z3
<1>2. n \div d \in Nat
  BY DivBelow
<1> DEFINE q == n \div d
<1>3. q \in Nat /\ n = d * q + (n % d)
  BY <1>1, <1>2
<1> HIDE DEF q
<1>4. (q + 1) * d = d * q + d /\ d * q \in Nat
  BY <1>3, Z3
<1>5. n < (q + 1) * d
  BY <1>1, <1>3, <1>4
<1> QED
  BY <1>5 DEF q


(* A quantity of too little value, in grains of 1/S of a unit priced p: the  *)
(* amount it was cut from is less than a grain and the minimum.             *)
LEMMA PartIsSmall ==
  ASSUME NEW S \in Nat \ {0}, NEW a \in Nat, NEW p \in Nat \ {0}, NEW m \in Nat,
         NEW q \in Nat, NEW u \in Nat, NEW v \in Nat,
         a * S < (q + 1) * p, p < (u + 1) * S,
         q = 0 \/ v < m, (2 * S) * v > 2 * (q * p) - S
  PROVE  a <= u + m
<1>1. CASE q = 0
  <2>1. a * S < (u + 1) * S
    <3>1. (q + 1) * p = p /\ a * S \in Nat /\ (u + 1) * S \in Nat
      BY <1>1, Z3
    <3> QED
      BY <3>1
  <2>2. a < u + 1
    BY <2>1, Cancelled
  <2> QED
    BY <2>2
<1>2. CASE v < m
  <2> DEFINE qp == q * p
             S2 == 2 * S
  <2>1. /\ qp \in Nat /\ a * S \in Nat /\ (q + 1) * p = qp + p /\ S2 * v \in Nat
        /\ S2 * m \in Nat /\ u * S \in Nat /\ (u + 1) * S = u * S + S
    BY Z3
  <2>2. S2 * v <= S2 * m - S2
    BY <1>2, Z3
  <2>3. S2 \in Nat /\ S2 = 2 * S
    OBVIOUS
  <2>4. S2 * v > 2 * qp - S
    OBVIOUS
  <2> HIDE DEF qp, S2
  <2>5. 2 * (a * S) < S2 * m + S + 2 * (u * S)
    BY <2>1, <2>2, <2>3, <2>4
  <2>6. 2 * (a * S) = (2 * a) * S /\ S2 * m + S + 2 * (u * S) = (2 * m + 1 + 2 * u) * S
    BY <2>3, Z3
  <2>7. (2 * a) * S < (2 * m + 1 + 2 * u) * S
    BY <2>5, <2>6
  <2>8. 2 * a < 2 * m + 1 + 2 * u
    BY <2>7, Cancelled
  <2> QED
    BY <2>8
<1> QED
  BY <1>1, <1>2

(* The same of whole units. *)
LEMMA WholeIsSmall ==
  ASSUME NEW S \in Nat \ {0}, NEW a \in Nat, NEW p \in Nat \ {0}, NEW m \in Nat,
         NEW k \in Nat, NEW v \in Nat,
         a < (k + 1) * p, k * S = 0 \/ v < m, (2 * S) * v > 2 * ((k * S) * p) - S
  PROVE  a <= p + m
<1>1. CASE k * S = 0
  <2>1. k = 0
    BY <1>1, Z3
  <2> QED
    BY <2>1, Z3
<1>2. CASE v < m
  <2> DEFINE kp == k * p
  <2>1. kp \in Nat /\ (k + 1) * p = kp + p
    BY Z3
  <2>2. /\ (2 * S) * v = (2 * v) * S
        /\ 2 * ((k * S) * p) - S = (2 * kp - 1) * S
    BY Z3
  <2> HIDE DEF kp
  <2>3. (2 * kp - 1) * S < (2 * v) * S
    <3>1. (2 * S) * v \in Int /\ 2 * ((k * S) * p) - S \in Int
      BY <2>1, <2>2, Z3
    <3> QED
      BY <2>2, <3>1
  <2>4. 2 * kp - 1 < 2 * v
    BY <2>1, <2>3, Cancelled
  <2> QED
    BY <1>2, <2>1, <2>4
<1> QED
  BY <1>1, <1>2

-----------------------------------------------------------------------------
(* Numbers one by one, and finite sets in order.                            *)

(* What holds at 0 and is passed on from each number to the next.           *)
LEMMA StepByStep ==
  ASSUME NEW n \in Nat, NEW G, 0 \in G, \A i \in 1..n : i - 1 \in G => i \in G
  PROVE  \A i \in 0..n : i \in G
<1> DEFINE T == {i \in 0..n : i \notin G}
<1>1. SUFFICES ASSUME T # {} PROVE FALSE
  OBVIOUS
<1>2. T \in SUBSET Nat
  OBVIOUS
<1>3. PICK k \in T : \A m \in T : k <= m
  BY <1>1, <1>2, LeastElement
<1>4. k \in 1..n /\ k - 1 \in 0..n
  BY <1>3
<1>5. k - 1 \in T \/ k - 1 \in G
  BY <1>4
<1> QED
  BY <1>3, <1>4, <1>5

(* An order without ties. *)
StrictOrder(S, P) ==
  /\ \A s \in S : <<s, s>> \notin P
  /\ \A s, t, u \in S : <<s, t>> \in P /\ <<t, u>> \in P => <<s, u>> \in P
  /\ \A s, t \in S : s # t => <<s, t>> \in P \/ <<t, s>> \in P

(* A list of a finite set, each after as many as are before it. *)
Ranking(S, P) ==
  [i \in 1..Cardinality(S) |->
     CHOOSE s \in S : Cardinality({t \in S : <<t, s>> \in P}) = i - 1]

(* A list of a finite set by how many elements come before: every element   *)
(* is in it once, each before those that follow it in P.                    *)
LEMMA RankedList ==
  ASSUME NEW S, IsFiniteSet(S), NEW P, StrictOrder(S, P)
  PROVE  /\ Cardinality(S) \in Nat
         /\ Ranking(S, P) \in [1..Cardinality(S) -> S]
         /\ \A i, j \in 1..Cardinality(S) : i # j => Ranking(S, P)[i] # Ranking(S, P)[j]
         /\ \A s \in S : \E i \in 1..Cardinality(S) : Ranking(S, P)[i] = s
         /\ \A i, j \in 1..Cardinality(S) : i < j => <<Ranking(S, P)[i], Ranking(S, P)[j]>> \in P
<1> DEFINE n == Cardinality(S)
           Below(s) == {t \in S : <<t, s>> \in P}
           rank == [s \in S |-> Cardinality(Below(s))]
           q == Ranking(S, P)
<1>1. n \in Nat
  BY FS_CardinalityType
<1>2. ASSUME NEW s \in S PROVE rank[s] \in 0..(n - 1)
  <2>1. Below(s) \subseteq S \ {s} /\ IsFiniteSet(S \ {s})
    BY FS_RemoveElement DEF StrictOrder
  <2>2. Cardinality(S \ {s}) = n - 1
    BY FS_RemoveElement
  <2>3. IsFiniteSet(Below(s)) /\ Cardinality(Below(s)) <= Cardinality(S \ {s})
    BY <2>1, FS_Subset
  <2>4. Cardinality(Below(s)) \in Nat
    BY <2>3, FS_CardinalityType
  <2> HIDE DEF Below, n
  <2> QED
    BY <1>1, <2>2, <2>3, <2>4
<1>3. ASSUME NEW s \in S, NEW t \in S, <<s, t>> \in P PROVE rank[s] < rank[t]
  <2>1. Below(s) \subseteq Below(t) /\ s \in Below(t) /\ s \notin Below(s)
    BY <1>3 DEF StrictOrder
  <2>2. IsFiniteSet(Below(t)) /\ Below(s) # Below(t)
    <3>1. Below(t) \subseteq S
      OBVIOUS
    <3> QED
      BY <2>1, <3>1, FS_Subset
  <2> HIDE DEF Below
  <2>3. /\ Cardinality(Below(s)) <= Cardinality(Below(t))
        /\ Cardinality(Below(s)) # Cardinality(Below(t))
    BY <2>1, <2>2, FS_Subset
  <2>4. rank[s] \in 0..(n - 1) /\ rank[t] \in 0..(n - 1)
    BY <1>2
  <2> HIDE DEF n
  <2> QED
    BY <1>1, <2>3, <2>4
<1>4. \A s, t \in S : s # t => rank[s] # rank[t]
  <2> SUFFICES ASSUME NEW s \in S, NEW t \in S, s # t PROVE rank[s] # rank[t]
    OBVIOUS
  <2>1. <<s, t>> \in P \/ <<t, s>> \in P
    BY DEF StrictOrder
  <2>2. rank[s] < rank[t] \/ rank[t] < rank[s]
    BY <1>3, <2>1
  <2>3. rank[s] \in 0..(n - 1) /\ rank[t] \in 0..(n - 1)
    BY <1>2
  <2> HIDE DEF rank, n
  <2> QED
    BY <1>1, <2>2, <2>3
<1>5. \A k \in 0..(n - 1) : \E s \in S : rank[s] = k
  <2>1. rank \in Injection(S, 0..(n - 1))
    <3>1. rank \in [S -> 0..(n - 1)]
      BY <1>2
    <3>2. DOMAIN rank = S
      OBVIOUS
    <3> HIDE DEF rank
    <3>3. IsInjective(rank)
      BY <1>4, <3>2 DEF IsInjective
    <3> QED
      BY <3>1, <3>3 DEF Injection
  <2>2. IsFiniteSet(0..(n - 1)) /\ Cardinality(0..(n - 1)) = n
    <3> HIDE DEF n
    <3> QED
      BY <1>1, FS_Interval
  <2> HIDE DEF rank
  <2>3. rank \in Surjection(S, 0..(n - 1))
    BY <2>1, <2>2, FS_Injection
  <2> QED
    BY <2>3 DEF Surjection
<1>6. ASSUME NEW i \in 1..n PROVE q[i] \in S /\ rank[q[i]] = i - 1
  <2>1. i - 1 \in 0..(n - 1)
    <3> HIDE DEF n
    <3> QED BY <1>1
  <2>2. \E s \in S : Cardinality(Below(s)) = i - 1
    BY <1>5, <2>1
  <2>3. q[i] = CHOOSE s \in S : Cardinality(Below(s)) = i - 1
    BY DEF Ranking
  <2> QED
    BY <2>2, <2>3
<1>7. q \in [1..n -> S]
  BY <1>6 DEF Ranking
<1> HIDE DEF rank, q, n
<1>8. \A i, j \in 1..n : i # j => q[i] # q[j]
  BY <1>1, <1>6
<1>9. \A s \in S : \E i \in 1..n : q[i] = s
  <2> SUFFICES ASSUME NEW s \in S PROVE \E i \in 1..n : q[i] = s
    OBVIOUS
  <2>1. rank[s] + 1 \in 1..n /\ (rank[s] + 1) - 1 = rank[s]
    BY <1>1, <1>2
  <2>2. q[rank[s] + 1] \in S /\ rank[q[rank[s] + 1]] = rank[s]
    BY <1>6, <2>1
  <2>3. q[rank[s] + 1] = s
    BY <1>4, <2>2
  <2> QED
    BY <2>1, <2>3
<1>10. \A i, j \in 1..n : i < j => <<q[i], q[j]>> \in P
  <2> SUFFICES ASSUME NEW i \in 1..n, NEW j \in 1..n, i < j PROVE <<q[i], q[j]>> \in P
    OBVIOUS
  <2>1. q[i] \in S /\ q[j] \in S /\ rank[q[i]] = i - 1 /\ rank[q[j]] = j - 1
    BY <1>6
  <2>2. <<q[i], q[j]>> \in P \/ <<q[j], q[i]>> \in P
    BY <1>1, <1>8, <2>1 DEF StrictOrder
  <2>3. CASE <<q[j], q[i]>> \in P
    <3>1. rank[q[j]] < rank[q[i]]
      BY <1>3, <2>1, <2>3
    <3> QED
      BY <1>1, <2>1, <3>1
  <2> QED
    BY <2>2, <2>3
<1> QED
  BY <1>1, <1>7, <1>8, <1>9, <1>10 DEF q, n

(* There is one such list: whatever lists a finite set, each element before *)
(* those that follow it in P, is its ranking.                               *)
LEMMA OneRanking ==
  ASSUME NEW S, IsFiniteSet(S), NEW P, StrictOrder(S, P),
         NEW m \in Nat, NEW f \in [1..m -> S],
         \A s \in S : \E i \in 1..m : f[i] = s,
         \A i, j \in 1..m : i < j => <<f[i], f[j]>> \in P
  PROVE  m = Cardinality(S) /\ f = Ranking(S, P)
<1> DEFINE n == Cardinality(S)
           g == Ranking(S, P)
<1>1. /\ n \in Nat /\ g \in [1..n -> S]
      /\ \A i, j \in 1..n : i # j => g[i] # g[j]
      /\ \A s \in S : \E i \in 1..n : g[i] = s
      /\ \A i, j \in 1..n : i < j => <<g[i], g[j]>> \in P
  BY RankedList
<1>2. \A i, j \in 1..m : i # j => f[i] # f[j]
  <2> SUFFICES ASSUME NEW i \in 1..m, NEW j \in 1..m, i # j PROVE f[i] # f[j]
    OBVIOUS
  <2>1. <<f[i], f[j]>> \in P \/ <<f[j], f[i]>> \in P
    BY Z3
  <2> QED
    BY <2>1 DEF StrictOrder
<1> HIDE DEF g
<1>3. m = n
  <2>1. f \in Bijection(1..m, S) /\ ExistsBijection(1..m, S)
    BY <1>2 DEF Bijection, Injection, Surjection, IsInjective, ExistsBijection
  <2>2. IsFiniteSet(1..m) /\ Cardinality(1..m) = m
    BY FS_Interval
  <2> QED
    BY <2>1, <2>2, FS_Bijection
<1> HIDE DEF n
<1>4. ASSUME NEW i \in 1..m, \A j \in 1..(i - 1) : f[j] = g[j] PROVE f[i] = g[i]
  <2> SUFFICES ASSUME f[i] # g[i] PROVE FALSE
    OBVIOUS
  <2>1. PICK j \in 1..m : g[j] = f[i]
    BY <1>1, <1>3
  <2>2. PICK k \in 1..m : f[k] = g[i]
    BY <1>1, <1>3
  <2>3. j > i
    <3>1. CASE j < i
      <4>1. j \in 1..(i - 1)
        BY <3>1
      <4> QED
        BY <1>2, <1>4, <2>1, <3>1, <4>1
    <3>2. j # i
      BY <2>1
    <3> QED
      BY <3>1, <3>2
  <2>4. k > i
    <3>1. CASE k < i
      <4>1. k \in 1..(i - 1)
        BY <3>1
      <4> QED
        BY <1>1, <1>3, <1>4, <2>2, <3>1, <4>1
    <3>2. k # i
      BY <2>2
    <3> QED
      BY <3>1, <3>2
  <2>5. <<g[i], f[i]>> \in P
    BY <1>1, <1>3, <2>1, <2>3
  <2>6. <<f[i], g[i]>> \in P
    BY <2>2, <2>4
  <2>7. f[i] \in S /\ g[i] \in S
    BY <1>1, <1>3
  <2> QED
    BY <2>5, <2>6, <2>7 DEF StrictOrder
<1>5. \A i \in 1..m : f[i] = g[i]
  <2> DEFINE G == {i \in 0..m : \A j \in 1..i : f[j] = g[j]}
  <2>1. 0 \in G
    OBVIOUS
  <2>2. ASSUME NEW i \in 1..m, i - 1 \in G PROVE i \in G
    <3>1. f[i] = g[i]
      BY <1>4, <2>2
    <3>2. \A j \in 1..i : j = i \/ j \in 1..(i - 1)
      OBVIOUS
    <3> QED
      BY <2>2, <3>1, <3>2
  <2>3. \A i \in 0..m : i \in G
    <3> HIDE DEF G
    <3> QED BY <2>1, <2>2, StepByStep
  <2>4. m \in G
    BY <2>3
  <2> QED
    BY <2>4
<1> QED
  BY <1>1, <1>3, <1>5 DEF n, g
=============================================================================
