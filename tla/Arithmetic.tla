----------------------------- MODULE Arithmetic -----------------------------
(***************************************************************************)
(* What the proofs need to know of numbers, of finite sets and of the      *)
(* sums of the community modules, none of which is about this system.      *)
(*                                                                         *)
(* The induction theorems of the library take an operator; here they are   *)
(* stated for a set of numbers or of subsets that is closed under the step.*)
(***************************************************************************)
EXTENDS Integers, FiniteSets, Functions, FiniteSetTheorems, WellFoundedInduction, TLAPS

-----------------------------------------------------------------------------
(* Induction                                                               *)

\* A nonempty set of subsets of a finite set has a least one.
LEMMA LeastSubset ==
    ASSUME NEW S, IsFiniteSet(S), NEW B \in SUBSET SUBSET S, B # {}
    PROVE  \E T \in B : \A U \in B : ~(U \subseteq T /\ U # T)
<1>1. IsWellFoundedOn(StrictSubsetOrdering(S), SUBSET S)
  BY FS_StrictSubsetOrderingWellFounded, FS_FiniteSubsetsOfFinite
<1>2. \E T \in B : \A U \in B : ~(<<U, T>> \in StrictSubsetOrdering(S))
  BY <1>1, WFMin
<1> QED BY <1>2 DEF StrictSubsetOrdering

\* So has a nonempty set of numbers.
LEMMA LeastNumber ==
    ASSUME NEW B \in SUBSET Nat, B # {}
    PROVE  \E m \in B : \A k \in B : m <= k
<1>1. PICK b \in B : TRUE
  OBVIOUS
<1> DEFINE C == {0..j : j \in {i \in B : i <= b}}
<1>2. IsFiniteSet(0..b)
  BY FS_Interval
<1>3. PICK T \in C : \A U \in C : ~(U \subseteq T /\ U # T)
  <2>1. 0..b \in C
    BY <1>1
  <2>2. \A T \in C : T \subseteq 0..b
    OBVIOUS
  <2> HIDE DEF C
  <2> DEFINE S == 0..b
  <2>3. IsFiniteSet(S) /\ C \in SUBSET SUBSET S /\ C # {}
    BY <1>2, <2>1, <2>2
  <2> HIDE DEF S
  <2> QED BY <2>3, LeastSubset
<1>4. PICK m \in B : T = 0..m /\ m <= b
  OBVIOUS
<1>5. ASSUME NEW k \in B, k < m PROVE FALSE
  <2>1. 0..k \in C /\ 0..k \subseteq T /\ m \in T /\ m \notin 0..k
    BY <1>4, <1>5
  <2> QED BY <1>3, <2>1
<1> QED BY <1>5

\* Induction over the subsets of a finite set.
LEMMA SubsetInduction ==
    ASSUME NEW S, IsFiniteSet(S), NEW P \in SUBSET SUBSET S, {} \in P,
           \A T \in SUBSET S : T # {} /\ (\A x \in T : T \ {x} \in P) => T \in P
    PROVE  \A T \in SUBSET S : T \in P
<1> DEFINE B == (SUBSET S) \ P
<1> SUFFICES ASSUME B # {} PROVE FALSE
  OBVIOUS
<1>1. B \in SUBSET SUBSET S
  OBVIOUS
<1>2. PICK T \in B : \A U \in B : ~(U \subseteq T /\ U # T)
  <2> HIDE DEF B
  <2> QED BY <1>1, LeastSubset
<1>3. \A x \in T : T \ {x} \notin B
  BY <1>2
<1> QED BY <1>2, <1>3

LEMMA Predecessor == \A n \in Nat : n # 0 => n - 1 \in Nat /\ n = (n - 1) + 1
OBVIOUS

\* Induction over the numbers.
LEMMA NumberInduction ==
    ASSUME NEW P \in SUBSET Nat, 0 \in P, \A n \in P : n + 1 \in P
    PROVE  \A n \in Nat : n \in P
<1> DEFINE B == Nat \ P
<1> SUFFICES ASSUME B # {} PROVE FALSE
  OBVIOUS
<1>1. PICK m \in B : \A k \in B : m <= k
  <2> B \in SUBSET Nat OBVIOUS
  <2> HIDE DEF B
  <2> QED BY LeastNumber
<1>2. m \in Nat /\ m \notin P /\ m # 0
  BY Zenon
<1>3. m - 1 \in Nat /\ m = (m - 1) + 1
  BY <1>2, Predecessor, Zenon
<1>4. m - 1 \notin P
  BY <1>2, <1>3, Zenon
<1>5. m <= m - 1
  BY <1>1, <1>3, <1>4, Zenon
<1>6. \A n \in Nat : ~(n <= n - 1)
  OBVIOUS
<1> QED BY <1>2, <1>5, <1>6, Zenon

\* A set of numbers with a bound has a largest.
LEMMA LargestNumber ==
    ASSUME NEW b \in Nat, NEW B \in SUBSET (0..b), B # {}
    PROVE  \E m \in B : \A k \in B : k <= m
<1> DEFINE C == {b - k : k \in B}
<1>0. B \subseteq Nat /\ \A k \in B : k <= b
  OBVIOUS
<1>1. C \in SUBSET Nat /\ C # {}
  <2>1. \A k \in B : b - k \in Nat
    BY <1>0
  <2> QED BY <2>1
<1>2. PICK c \in C : \A k \in C : c <= k
  <2> HIDE DEF C
  <2> QED BY <1>1, LeastNumber
<1>3. PICK m \in B : c = b - m
  OBVIOUS
<1>4. \A k \in B : b - k \in C /\ k \in Nat
  OBVIOUS
<1>5. \A k \in B : c <= b - k
  BY <1>2, <1>4
<1> QED BY <1>3, <1>4, <1>5

LEMMA AtMostOne ==
    ASSUME NEW S, \A x, y \in S : x = y
    PROVE  Cardinality(S) <= 1
<1>1. CASE S = {}
  BY <1>1, FS_EmptySet
<1>2. CASE S # {}
  <2>1. PICK x \in S : S = {x}
    BY <1>2
  <2> QED BY <2>1, FS_Singleton
<1> QED BY <1>1, <1>2

-----------------------------------------------------------------------------
(* Division                                                                *)

LEMMA Quotient ==
    ASSUME NEW a \in Int, NEW b \in Nat \ {0}
    PROVE  /\ a \div b \in Int
           /\ b * (a \div b) <= a /\ a < b * (a \div b) + b
BY SMTT(20)

LEMMA QuotientUnique ==
    ASSUME NEW b \in Nat \ {0}, NEW q \in Int, NEW r \in 0..(b - 1)
    PROVE  (b * q + r) \div b = q /\ (b * q + r) % b = r
OBVIOUS

LEMMA QuotientRemainder ==
    ASSUME NEW a \in Int, NEW b \in Nat \ {0}
    PROVE  a % b \in 0..(b - 1) /\ a = b * (a \div b) + (a % b)
<1> DEFINE q == a \div b
           r == a - b * q
<1>1. q \in Int /\ r \in 0..(b - 1) /\ a = b * q + r
  BY Quotient
<1> HIDE DEF q, r
<1>2. a % b \in 0..(b - 1) /\ a = b * q + (a % b)
  BY <1>1, QuotientUnique
<1> QED BY <1>2 DEF q

LEMMA QuotientMonotonic ==
    ASSUME NEW b \in Nat \ {0}, NEW x \in Int, NEW y \in Int, x <= y
    PROVE  x \div b <= y \div b
OBVIOUS

LEMMA Multiple ==
    ASSUME NEW a \in Int, NEW b \in Nat \ {0}, a % b = 0
    PROVE  \E i \in Int : a = b * i
<1>1. a \div b \in Int
  BY Quotient
<1>2. a = b * (a \div b)
  <2>1. a = b * (a \div b) + (a % b)
    BY QuotientRemainder
  <2> QED BY <1>1, <2>1
<1> QED BY <1>1, <1>2

LEMMA MultipleOfMultiple ==
    ASSUME NEW a \in Nat, NEW b \in Nat \ {0}, NEW c \in Nat \ {0}, a % b = 0, b % c = 0
    PROVE  a % c = 0
<1>0. a \in Int /\ b \in Int
  OBVIOUS
<1>1. PICK i \in Int : a = b * i
  BY <1>0, Multiple, Zenon
<1>2. PICK j \in Int : b = c * j
  BY <1>0, Multiple, Zenon
<1>3. a = c * (j * i) + 0 /\ j * i \in Int
  BY <1>1, <1>2
<1> QED BY <1>3, QuotientUnique

-----------------------------------------------------------------------------
(* Sums.  The community modules' sum is a recursive function on the        *)
(* subsets of a finite set; that it has values at all, and that it does    *)
(* not depend on the order, is by induction over the subsets.              *)

\* The recursion of the community modules' sum.
Picked(T) == CHOOSE x \in T : TRUE
Summed(f, D, g) == \A T \in D : g[T] = IF T = {} THEN 0 ELSE f[Picked(T)] + g[T \ {Picked(T)}]
UpTo(S, n) == {T \in SUBSET S : Cardinality(T) <= n}

LEMMA PartialSum ==
    ASSUME NEW S, IsFiniteSet(S), NEW f, \A s \in S : f[s] \in Nat,
           NEW n \in Nat, NEW g \in [UpTo(S, n) -> Nat], Summed(f, UpTo(S, n), g)
    PROVE  \E h \in [UpTo(S, n + 1) -> Nat] : Summed(f, UpTo(S, n + 1), h)
<1> DEFINE D == UpTo(S, n + 1)
           h == [T \in D |-> IF T = {} THEN 0 ELSE f[Picked(T)] + g[T \ {Picked(T)}]]
<1>1. ASSUME NEW T \in D, T # {}
      PROVE  Picked(T) \in S /\ T \ {Picked(T)} \in UpTo(S, n)
  <2>1. Picked(T) \in T /\ T \subseteq S /\ IsFiniteSet(T) /\ Cardinality(T) \in Nat
    BY <1>1, FS_Subset, FS_CardinalityType DEF Picked, UpTo
  <2>2. Cardinality(T \ {Picked(T)}) = Cardinality(T) - 1
    BY <2>1, FS_RemoveElement
  <2> QED BY <1>1, <2>1, <2>2 DEF UpTo
<1>2. h \in [D -> Nat]
  BY <1>1
<1>3. ASSUME NEW U \in UpTo(S, n) PROVE U \in D /\ h[U] = g[U]
  <2>1. U \in D
    BY FS_Subset, FS_CardinalityType DEF UpTo
  <2> QED BY <2>1 DEF Summed
<1>4. Summed(f, D, h)
  BY <1>1, <1>3 DEF Summed
<1> QED BY <1>2, <1>4

LEMMA SumExists ==
    ASSUME NEW S, IsFiniteSet(S), NEW f, \A s \in S : f[s] \in Nat
    PROVE  \E g \in [SUBSET S -> Nat] : Summed(f, SUBSET S, g)
<1> DEFINE Good(n) == \E g \in [UpTo(S, n) -> Nat] : Summed(f, UpTo(S, n), g)
           Bad == {n \in Nat : ~Good(n)}
<1>1. Good(0)
  <2> DEFINE z == [T \in UpTo(S, 0) |-> 0]
  <2>1. \A T \in UpTo(S, 0) : T = {}
    BY FS_Subset, FS_CardinalityType, FS_EmptySet DEF UpTo
  <2>2. z \in [UpTo(S, 0) -> Nat] /\ Summed(f, UpTo(S, 0), z)
    BY <2>1 DEF Summed
  <2> QED BY <2>2
<1>2. \A n \in Nat : Good(n) => Good(n + 1)
  BY PartialSum
<1>3. \A n \in Nat : Good(n)
  <2> HIDE DEF Good
  <2> SUFFICES ASSUME Bad # {} PROVE FALSE
    OBVIOUS
  <2>1. PICK m \in Bad : \A k \in Bad : m <= k
    BY LeastNumber
  <2>2. m # 0 /\ m - 1 \in Nat
    BY <1>1
  <2>3. Good(m - 1)
    BY <2>1, <2>2
  <2> QED BY <1>2, <2>2, <2>3
<1>4. UpTo(S, Cardinality(S)) = SUBSET S
  BY FS_Subset, FS_CardinalityType DEF UpTo
<1>5. Good(Cardinality(S))
  <2> HIDE DEF Good
  <2> QED BY <1>3, FS_CardinalityType
<1> QED BY <1>4, <1>5

\* The sum of f over T, and its recursion.
Iter(f, S) ==
    CHOOSE g : g = [T \in SUBSET S |->
                      IF T = {} THEN 0 ELSE f[Picked(T)] + g[T \ {Picked(T)}]]

LEMMA IterSummed ==
    ASSUME NEW S, IsFiniteSet(S), NEW f, \A s \in S : f[s] \in Nat
    PROVE  /\ Iter(f, S) \in [SUBSET S -> Nat] /\ Summed(f, SUBSET S, Iter(f, S))
           /\ SumFunctionOnSet(f, S) = Iter(f, S)[S]
<1>0. SumFunctionOnSet(f, S) = Iter(f, S)[S]
  BY DEF SumFunctionOnSet, FoldFunctionOnSet, MapThenFoldSet, Iter, Picked
<1>1. PICK g \in [SUBSET S -> Nat] : Summed(f, SUBSET S, g)
  BY SumExists
<1>2. g = [T \in SUBSET S |-> IF T = {} THEN 0 ELSE f[Picked(T)] + g[T \ {Picked(T)}]]
  BY <1>1 DEF Summed
<1>3. Iter(f, S) = [T \in SUBSET S |->
          IF T = {} THEN 0 ELSE f[Picked(T)] + Iter(f, S)[T \ {Picked(T)}]]
  BY <1>2 DEF Iter
<1>4. Summed(f, SUBSET S, Iter(f, S)) /\ DOMAIN Iter(f, S) = SUBSET S
  BY <1>3 DEF Summed
<1>5. \A T \in SUBSET S : Iter(f, S)[T] \in Nat
  <2> DEFINE P == {T \in SUBSET S : Iter(f, S)[T] \in Nat}
  <2>0. Iter(f, S)[{}] = 0
    BY <1>4 DEF Summed
  <2>1. P \in SUBSET SUBSET S /\ {} \in P
    BY <2>0
  <2>2. ASSUME NEW T \in SUBSET S, T # {}, \A x \in T : T \ {x} \in P PROVE T \in P
    <3>1. Picked(T) \in T /\ Picked(T) \in S
      BY <2>2 DEF Picked
    <3>2. f[Picked(T)] \in Nat /\ Iter(f, S)[T \ {Picked(T)}] \in Nat
      BY <2>2, <3>1
    <3>3. Iter(f, S)[T] = f[Picked(T)] + Iter(f, S)[T \ {Picked(T)}]
      BY <1>4, <2>2 DEF Summed
    <3> QED BY <3>2, <3>3
  <2>3. \A T \in SUBSET S : T \in P
    <3> HIDE DEF P
    <3> QED BY <2>1, <2>2, SubsetInduction
  <2> QED BY <2>3
<1>6. Iter(f, S) \in [SUBSET S -> Nat]
  BY <1>3, <1>4, <1>5
<1> QED BY <1>0, <1>4, <1>6

\* The members of a finite set in any order: what one of them adds.
LEMMA IterRemove ==
    ASSUME NEW S, IsFiniteSet(S), NEW f, \A s \in S : f[s] \in Nat,
           NEW T \in SUBSET S, NEW x \in T
    PROVE  Iter(f, S)[T] = f[x] + Iter(f, S)[T \ {x}]
<1> DEFINE I == Iter(f, S)
           P == {U \in SUBSET S : \A u \in U : I[U] = f[u] + I[U \ {u}]}
<1>1. I \in [SUBSET S -> Nat] /\ Summed(f, SUBSET S, I)
  BY IterSummed
<1> HIDE DEF I
<1>2. P \in SUBSET SUBSET S /\ {} \in P
  OBVIOUS
<1>3. ASSUME NEW U \in SUBSET S, U # {}, \A u \in U : U \ {u} \in P PROVE U \in P
  <2> DEFINE p == Picked(U)
  <2>1. p \in U /\ p \in S /\ f[p] \in Nat
    BY <1>3 DEF Picked
  <2>2. I[U] = f[p] + I[U \ {p}]
    BY <1>1, <1>3 DEF Summed
  <2> HIDE DEF p
  <2>3. ASSUME NEW u \in U, u # p PROVE I[U] = f[u] + I[U \ {u}]
    <3> DEFINE W == (U \ {p}) \ {u}
    <3>1. I[U \ {p}] = f[u] + I[W]
      BY <1>3, <2>1, <2>3
    <3>2. (U \ {u}) \ {p} = W
      OBVIOUS
    <3>3. I[U \ {u}] = f[p] + I[(U \ {u}) \ {p}]
      BY <1>3, <2>1, <2>3
    <3>4. W \in SUBSET S /\ I[W] \in Nat
      BY <1>1
    <3>5. f[u] \in Nat
      OBVIOUS
    <3> HIDE DEF W
    <3>6. I[U] = f[p] + (f[u] + I[W])
      BY <2>2, <3>1, Zenon
    <3>7. I[U \ {u}] = f[p] + I[W]
      BY <3>2, <3>3, Zenon
    <3>8. \A a, b, c \in Nat : a + (b + c) = b + (a + c)
      OBVIOUS
    <3>9. f[p] + (f[u] + I[W]) = f[u] + (f[p] + I[W])
      BY <2>1, <3>4, <3>5, <3>8, Zenon
    <3> QED BY <3>6, <3>7, <3>9, Zenon
  <2> QED BY <2>2, <2>3
<1>4. \A U \in SUBSET S : U \in P
  <2> HIDE DEF P
  <2> QED BY <1>2, <1>3, SubsetInduction
<1> QED BY <1>4 DEF I

\* The sum over a part.
LEMMA IterRestrict ==
    ASSUME NEW S, IsFiniteSet(S), NEW f, \A s \in S : f[s] \in Nat, NEW T \in SUBSET S
    PROVE  SumFunctionOnSet(f, T) = Iter(f, S)[T]
<1> DEFINE I == Iter(f, S)
           J == Iter(f, T)
           P == {U \in SUBSET T : J[U] = I[U]}
<1>1. I \in [SUBSET S -> Nat] /\ Summed(f, SUBSET S, I)
  BY IterSummed
<1>2. IsFiniteSet(T) /\ \A s \in T : f[s] \in Nat
  BY FS_Subset
<1>3. /\ J \in [SUBSET T -> Nat] /\ Summed(f, SUBSET T, J)
      /\ SumFunctionOnSet(f, T) = J[T]
  BY <1>2, IterSummed
<1> HIDE DEF I, J
<1>4. P \in SUBSET SUBSET T /\ {} \in P
  <2>1. J[{}] = 0 /\ I[{}] = 0
    BY <1>1, <1>3 DEF Summed
  <2> QED BY <2>1
<1>5. ASSUME NEW U \in SUBSET T, U # {}, \A u \in U : U \ {u} \in P PROVE U \in P
  <2> DEFINE p == Picked(U)
  <2>1. p \in U
    BY <1>5 DEF Picked
  <2>2. I[U] = f[p] + I[U \ {p}]
    BY <1>1, <1>5 DEF Summed
  <2>3. J[U] = f[p] + J[U \ {p}]
    BY <1>3, <1>5 DEF Summed
  <2>4. J[U \ {p}] = I[U \ {p}]
    BY <1>5, <2>1
  <2> HIDE DEF p
  <2> QED BY <2>2, <2>3, <2>4
<1>6. \A U \in SUBSET T : U \in P
  <2> HIDE DEF P
  <2> QED BY <1>2, <1>4, <1>5, SubsetInduction
<1> QED BY <1>3, <1>6 DEF I

LEMMA SumType ==
    ASSUME NEW S, IsFiniteSet(S), NEW f, \A s \in S : f[s] \in Nat
    PROVE  SumFunctionOnSet(f, S) \in Nat
<1>1. Iter(f, S) \in [SUBSET S -> Nat] /\ SumFunctionOnSet(f, S) = Iter(f, S)[S]
  BY IterSummed
<1> QED BY <1>1

LEMMA SumEmpty ==
    ASSUME NEW f
    PROVE  SumFunctionOnSet(f, {}) = 0
<1> DEFINE I == Iter(f, {})
<1>1. IsFiniteSet({}) /\ \A s \in {} : f[s] \in Nat
  BY FS_EmptySet
<1>2. Summed(f, SUBSET {}, I) /\ SumFunctionOnSet(f, {}) = I[{}]
  BY <1>1, IterSummed
<1> HIDE DEF I
<1> QED BY <1>2 DEF Summed

\* The sum over a set is the sum over the set without a member, and that member.
LEMMA SumRemove ==
    ASSUME NEW S, IsFiniteSet(S), NEW f, \A s \in S : f[s] \in Nat, NEW x \in S
    PROVE  SumFunctionOnSet(f, S) = f[x] + SumFunctionOnSet(f, S \ {x})
<1>1. SumFunctionOnSet(f, S) = Iter(f, S)[S]
  BY IterSummed
<1>2. SumFunctionOnSet(f, S \ {x}) = Iter(f, S)[S \ {x}]
  BY IterRestrict
<1>3. Iter(f, S)[S] = f[x] + Iter(f, S)[S \ {x}]
  BY IterRemove
<1> QED BY <1>1, <1>2, <1>3, Zenon

LEMMA SumSingleton ==
    ASSUME NEW x, NEW f, f[x] \in Nat
    PROVE  SumFunctionOnSet(f, {x}) = f[x]
<1>1. IsFiniteSet({x}) /\ x \in {x} /\ \A s \in {x} : f[s] \in Nat
  BY FS_Singleton
<1>2. SumFunctionOnSet(f, {x}) = f[x] + SumFunctionOnSet(f, {x} \ {x})
  BY <1>1, SumRemove
<1>3. {x} \ {x} = {}
  OBVIOUS
<1> QED BY <1>2, <1>3, SumEmpty

\* No member is more than the sum.
LEMMA SumAtLeast ==
    ASSUME NEW S, IsFiniteSet(S), NEW f, \A s \in S : f[s] \in Nat, NEW x \in S
    PROVE  f[x] <= SumFunctionOnSet(f, S)
<1>1. SumFunctionOnSet(f, S) = f[x] + SumFunctionOnSet(f, S \ {x})
  BY SumRemove
<1>2. SumFunctionOnSet(f, S \ {x}) \in Nat
  BY SumType, FS_Subset
<1> QED BY <1>1, <1>2

\* Sums over the same members of functions that agree, or of which one is at most
\* a multiple of the other.
LEMMA SumBound ==
    ASSUME NEW S, IsFiniteSet(S), NEW f, \A s \in S : f[s] \in Nat,
           NEW g, \A s \in S : g[s] \in Nat, NEW m \in Nat, \A s \in S : f[s] <= m * g[s]
    PROVE  SumFunctionOnSet(f, S) <= m * SumFunctionOnSet(g, S)
<1> DEFINE F(T) == SumFunctionOnSet(f, T)
           G(T) == SumFunctionOnSet(g, T)
           P == {T \in SUBSET S : F(T) <= m * G(T)}
<1>1. P \in SUBSET SUBSET S /\ {} \in P
  <2>1. F({}) = 0 /\ G({}) = 0
    BY SumEmpty
  <2> HIDE DEF F, G
  <2> QED BY <2>1
<1>2. ASSUME NEW T \in SUBSET S, T # {}, \A x \in T : T \ {x} \in P PROVE T \in P
  <2>1. PICK x \in T : TRUE
    BY <1>2
  <2>2. IsFiniteSet(T) /\ IsFiniteSet(T \ {x})
    BY FS_Subset
  <2>3. F(T) = f[x] + F(T \ {x}) /\ G(T) = g[x] + G(T \ {x})
    BY <2>2, SumRemove
  <2>4. F(T \ {x}) \in Nat /\ G(T \ {x}) \in Nat
    BY <2>2, SumType
  <2>5. F(T \ {x}) <= m * G(T \ {x})
    BY <1>2
  <2> HIDE DEF F, G
  <2>6. f[x] <= m * g[x] /\ f[x] \in Nat /\ g[x] \in Nat
    OBVIOUS
  <2>7. \A a, b, c, d, k \in Nat : a <= k * b /\ c <= k * d => a + c <= k * (b + d)
    OBVIOUS
  <2>8. F(T) <= m * G(T)
    BY <2>3, <2>4, <2>5, <2>6, <2>7
  <2> QED BY <2>8
<1>3. \A T \in SUBSET S : T \in P
  <2> HIDE DEF P
  <2> QED BY <1>1, <1>2, SubsetInduction
<1> QED BY <1>3

LEMMA SumEqual ==
    ASSUME NEW S, IsFiniteSet(S), NEW f, \A s \in S : f[s] \in Nat,
           NEW g, \A s \in S : f[s] = g[s]
    PROVE  SumFunctionOnSet(f, S) = SumFunctionOnSet(g, S)
<1>1. SumFunctionOnSet(f, S) \in Nat /\ SumFunctionOnSet(g, S) \in Nat
  BY SumType
<1>2. (\A s \in S : f[s] <= 1 * g[s]) /\ (\A s \in S : g[s] <= 1 * f[s])
  OBVIOUS
<1>3. \A s \in S : g[s] \in Nat
  OBVIOUS
<1>4. SumFunctionOnSet(f, S) <= 1 * SumFunctionOnSet(g, S)
  BY <1>2, <1>3, SumBound
<1>5. SumFunctionOnSet(g, S) <= 1 * SumFunctionOnSet(f, S)
  BY <1>2, <1>3, SumBound
<1> QED BY <1>1, <1>4, <1>5

LEMMA SumRaised ==
    ASSUME NEW S, IsFiniteSet(S), NEW f, \A x \in S : f[x] \in Nat, NEW s \in S, NEW d \in Nat,
           NEW g, \A x \in S : g[x] = IF x = s THEN f[x] + d ELSE f[x]
    PROVE  SumFunctionOnSet(g, S) = SumFunctionOnSet(f, S) + d
<1> DEFINE T == S \ {s}
<1>1. \A x \in S : g[x] \in Nat
  OBVIOUS
<1>2. SumFunctionOnSet(f, S) = f[s] + SumFunctionOnSet(f, T)
  BY SumRemove
<1>3. SumFunctionOnSet(g, S) = g[s] + SumFunctionOnSet(g, T)
  BY <1>1, SumRemove
<1>4. IsFiniteSet(T) /\ (\A x \in T : f[x] \in Nat) /\ \A x \in T : f[x] = g[x]
  BY FS_Subset
<1>5. SumFunctionOnSet(f, T) = SumFunctionOnSet(g, T) /\ SumFunctionOnSet(f, T) \in Nat
  BY <1>4, SumEqual, SumType
<1>6. g[s] = f[s] + d /\ f[s] \in Nat
  OBVIOUS
<1> HIDE DEF T
<1> QED BY <1>2, <1>3, <1>5, <1>6

\* No part of a sum is more than the whole.
LEMMA SumPart ==
    ASSUME NEW S, IsFiniteSet(S), NEW f, \A s \in S : f[s] \in Nat, NEW T \in SUBSET S
    PROVE  SumFunctionOnSet(f, T) <= SumFunctionOnSet(f, S)
<1> DEFINE F(U) == SumFunctionOnSet(f, U)
           P == {U \in SUBSET S : \A V \in SUBSET U : F(V) <= F(U)}
<1>1. \A U \in SUBSET S : IsFiniteSet(U) /\ F(U) \in Nat
  BY FS_Subset, SumType
<1>2. \A U \in SUBSET S : \A x \in U : F(U) = f[x] + F(U \ {x})
  BY <1>1, SumRemove
<1> HIDE DEF F
<1>3. P \in SUBSET SUBSET S /\ {} \in P
  BY <1>1
<1>4. ASSUME NEW U \in SUBSET S, U # {}, \A x \in U : U \ {x} \in P PROVE U \in P
  <2>1. ASSUME NEW V \in SUBSET U, V # U PROVE F(V) <= F(U)
    <3>1. PICK x \in U : x \notin V
      BY <2>1
    <3>2. V \in SUBSET (U \ {x})
      BY <3>1
    <3>3. F(V) <= F(U \ {x})
      BY <1>4, <3>2
    <3>4. F(U) = f[x] + F(U \ {x}) /\ f[x] \in Nat /\ F(U \ {x}) \in Nat /\ F(V) \in Nat
      BY <1>1, <1>2
    <3> QED BY <3>3, <3>4
  <2>2. F(U) <= F(U)
    BY <1>1
  <2> QED BY <2>1, <2>2
<1>5. \A U \in SUBSET S : U \in P
  <2> HIDE DEF P
  <2> QED BY <1>3, <1>4, SubsetInduction
<1> QED BY <1>5 DEF F

\* What one entry grows by, the sum grows by.
LEMMA SumUpdate ==
    ASSUME NEW S, IsFiniteSet(S), NEW f \in [S -> Nat], NEW s \in S, NEW d \in Nat
    PROVE  SumFunction([f EXCEPT ![s] = @ + d]) = SumFunction(f) + d
<1> DEFINE h == [f EXCEPT ![s] = @ + d]
           F == Iter(f, S)
           H == Iter(h, S)
           P == {T \in SUBSET S : H[T] = F[T] + (IF s \in T THEN d ELSE 0)}
<1>1. h \in [S -> Nat] /\ DOMAIN h = S /\ DOMAIN f = S
  OBVIOUS
<1> HIDE DEF F, H
<1>2. /\ F \in [SUBSET S -> Nat] /\ Summed(f, SUBSET S, F)
      /\ SumFunction(f) = F[S]
  BY <1>1, IterSummed DEF SumFunction, F
<1>3. /\ H \in [SUBSET S -> Nat] /\ Summed(h, SUBSET S, H)
      /\ SumFunction(h) = H[S]
  BY <1>1, IterSummed DEF SumFunction, H
<1>4. P \in SUBSET SUBSET S /\ {} \in P
  <2>1. {} \in SUBSET S /\ F[{}] = 0 /\ H[{}] = 0
    BY <1>2, <1>3 DEF Summed
  <2> QED BY <2>1
<1>5. ASSUME NEW T \in SUBSET S, T # {}, \A x \in T : T \ {x} \in P PROVE T \in P
  <2> DEFINE x == Picked(T)
             U == T \ {x}
  <2>1. x \in T
    BY <1>5 DEF Picked
  <2>2. F[T] = f[x] + F[U] /\ H[T] = h[x] + H[U]
    BY <1>2, <1>3, <1>5 DEF Summed
  <2>3. h[x] = f[x] + (IF x = s THEN d ELSE 0) /\ f[x] \in Nat
    BY <2>1
  <2>4. F[U] \in Nat /\ H[U] = F[U] + (IF s \in U THEN d ELSE 0)
    BY <1>2, <1>5, <2>1
  <2> HIDE DEF h, x
  <2> QED BY <2>1, <2>2, <2>3, <2>4
<1>6. \A T \in SUBSET S : T \in P
  <2> HIDE DEF P
  <2> QED BY <1>4, <1>5, SubsetInduction
<1> QED BY <1>2, <1>3, <1>6 DEF h

\* The sum of two functions, and of nothing.
LEMMA SumAdd ==
    ASSUME NEW S, IsFiniteSet(S), NEW f \in [S -> Nat], NEW g \in [S -> Nat]
    PROVE  SumFunction([s \in S |-> f[s] + g[s]]) = SumFunction(f) + SumFunction(g)
<1> DEFINE h == [s \in S |-> f[s] + g[s]]
           F == Iter(f, S)
           G == Iter(g, S)
           H == Iter(h, S)
           P == {T \in SUBSET S : H[T] = F[T] + G[T]}
<1>1. h \in [S -> Nat] /\ DOMAIN h = S /\ DOMAIN f = S /\ DOMAIN g = S
  OBVIOUS
<1> HIDE DEF F, G, H
<1>2. /\ F \in [SUBSET S -> Nat] /\ Summed(f, SUBSET S, F)
      /\ SumFunction(f) = F[S]
  BY <1>1, IterSummed DEF SumFunction, F
<1>3. /\ G \in [SUBSET S -> Nat] /\ Summed(g, SUBSET S, G)
      /\ SumFunction(g) = G[S]
  BY <1>1, IterSummed DEF SumFunction, G
<1>4. /\ H \in [SUBSET S -> Nat] /\ Summed(h, SUBSET S, H)
      /\ SumFunction(h) = H[S]
  <2> HIDE DEF h
  <2> QED BY <1>1, IterSummed DEF SumFunction, H
<1>5. P \in SUBSET SUBSET S /\ {} \in P
  <2>1. {} \in SUBSET S /\ F[{}] = 0 /\ G[{}] = 0 /\ H[{}] = 0
    BY <1>2, <1>3, <1>4 DEF Summed
  <2> QED BY <2>1
<1>6. ASSUME NEW T \in SUBSET S, T # {}, \A x \in T : T \ {x} \in P PROVE T \in P
  <2> DEFINE x == Picked(T)
             U == T \ {x}
  <2>1. x \in T
    BY <1>6 DEF Picked
  <2>2. F[T] = f[x] + F[U] /\ G[T] = g[x] + G[U] /\ H[T] = h[x] + H[U]
    BY <1>2, <1>3, <1>4, <1>6 DEF Summed
  <2>3. h[x] = f[x] + g[x] /\ f[x] \in Nat /\ g[x] \in Nat
    BY <2>1
  <2>4. F[U] \in Nat /\ G[U] \in Nat /\ H[U] = F[U] + G[U]
    BY <1>2, <1>3, <1>6, <2>1
  <2> HIDE DEF h, x
  <2> QED BY <2>2, <2>3, <2>4
<1>7. \A T \in SUBSET S : T \in P
  <2> HIDE DEF P
  <2> QED BY <1>5, <1>6, SubsetInduction
<1> QED BY <1>2, <1>3, <1>4, <1>7

LEMMA SumZero ==
    ASSUME NEW S, IsFiniteSet(S)
    PROVE  SumFunction([s \in S |-> 0]) = 0
<1> DEFINE z == [s \in S |-> 0]
<1>1. z \in [S -> Nat] /\ DOMAIN z = S
  OBVIOUS
<1>4. SumFunction(z) \in Nat
  <2> HIDE DEF z
  <2>1. SumFunction(z) = Iter(z, S)[S] /\ Iter(z, S) \in [SUBSET S -> Nat]
    BY <1>1, IterSummed DEF SumFunction
  <2> QED BY <2>1
<1>2. [s \in S |-> z[s] + z[s]] = z
  OBVIOUS
<1>3. SumFunction(z) = SumFunction(z) + SumFunction(z)
  <2> HIDE DEF z
  <2> QED BY <1>1, <1>2, SumAdd
<1> HIDE DEF z
<1>5. \A n \in Nat : n = n + n => n = 0
  OBVIOUS
<1>6. SumFunction(z) = 0
  BY <1>3, <1>4, <1>5
<1> QED BY <1>6 DEF z

=============================================================================
