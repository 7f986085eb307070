-------------------------------- MODULE Sums ---------------------------------
(* Induction on the elements of a set, sums over finite sets, and remainders, *)
(* for the proofs of the other modules.  An induction is stated with the set of the   *)
(* values that have the property, so that it needs no operator as parameter.  *)
EXTENDS FiniteSetsExt, FiniteSetTheorems, TLAPS

(* A set of subsets of a finite set has a minimal member.                     *)
LEMMA MinimalMember ==
  ASSUME NEW S, IsFiniteSet(S), NEW F, F \subseteq SUBSET S, F # {}
  PROVE  \E T \in F : \A U \in F : U \subseteq T => U = T
<1> DEFINE R == StrictSubsetOrdering(S)
<1>1. IsWellFoundedOn(R, SUBSET S)
  BY FS_StrictSubsetOrderingWellFounded, FS_FiniteSubsetsOfFinite
<1> HIDE DEF R
<1>2. PICK T \in F : \A U \in F : ~(<<U, T>> \in R)
  BY <1>1, WFMin
<1>3. ASSUME NEW U \in F, U \subseteq T  PROVE U = T
  BY <1>2, <1>3 DEF R, StrictSubsetOrdering
<1> QED
  BY <1>3

(* Subsets of a finite set: from the subsets with an element less.            *)
LEMMA InductionOnSubsets ==
  ASSUME NEW S, IsFiniteSet(S), NEW P,
         \A T \in SUBSET S : (\A x \in T : T \ {x} \in P) => T \in P
  PROVE  SUBSET S \subseteq P
<1> SUFFICES ASSUME NEW B \in SUBSET S, B \notin P  PROVE FALSE
  OBVIOUS
<1> DEFINE F == {T \in SUBSET S : T \notin P}
<1>1. F \subseteq SUBSET S /\ F # {} /\ \A T \in SUBSET S : T \in F <=> T \notin P
  OBVIOUS
<1> HIDE DEF F
<1>2. PICK T \in F : \A U \in F : U \subseteq T => U = T
  BY <1>1, MinimalMember
<1>3. PICK x \in T : T \ {x} \notin P
  BY <1>1
<1> QED
  BY <1>1, <1>2, <1>3

(* Natural numbers.                                                           *)
LEMMA InductionOnNat ==
  ASSUME NEW P, 0 \in P, \A n \in Nat : n \in P => n + 1 \in P
  PROVE  Nat \subseteq P
<1> SUFFICES ASSUME NEW k \in Nat, k \notin P  PROVE FALSE
  OBVIOUS
<1> DEFINE I == 0..k
           F == {0..n : n \in {m \in I : m \notin P}}
<1>1. IsFiniteSet(I)
  BY FS_Interval
<1>2. \A n \in I : n \notin P => 0..n \in F
  OBVIOUS
<1>3. \A T \in F : \E n \in I : n \notin P /\ T = 0..n
  OBVIOUS
<1>4. F \subseteq SUBSET I /\ F # {}
  <2>1. \A n \in I : 0..n \subseteq I
    OBVIOUS
  <2>2. k \in I
    OBVIOUS
  <2> HIDE DEF F, I
  <2> QED
    BY <2>1, <2>2, <1>2, <1>3
<1> HIDE DEF F, I
<1>5. PICK T \in F : \A U \in F : U \subseteq T => U = T
  BY <1>1, <1>4, MinimalMember
<1>6. PICK n \in I : n \notin P /\ T = 0..n
  BY <1>3
<1>7. n \in Nat /\ n # 0 /\ n - 1 \in I /\ n - 1 \notin P
  BY <1>6 DEF I
<1>8. 0..(n - 1) \in F
  BY <1>2, <1>7
<1>9. 0..(n - 1) \subseteq 0..n
  BY <1>7
<1>10. 0..(n - 1) = 0..n
  BY <1>5, <1>6, <1>8, <1>9
<1> QED
  BY <1>7, <1>10

(* A set of natural numbers that is not empty has a least element.            *)
LEMMA LeastMember ==
  ASSUME NEW T, T \subseteq Nat, T # {}
  PROVE  \E n \in T : \A m \in T : n <= m
<1> SUFFICES ASSUME \A n \in T : \E m \in T : m < n  PROVE FALSE
  OBVIOUS
<1> DEFINE P == {n \in Nat : \A m \in T : n <= m}
<1>1. 0 \in P /\ \A n \in Nat : n \in P => n + 1 \in P
  OBVIOUS
<1> HIDE DEF P
<1>2. Nat \subseteq P
  BY <1>1, InductionOnNat
<1>3. PICK k \in T : TRUE
  OBVIOUS
<1>4. k + 1 \in P
  BY <1>2, <1>3
<1> QED
  BY <1>3, <1>4 DEF P

(* ... and a greatest one, when it is bounded.                                *)
LEMMA GreatestMember ==
  ASSUME NEW T, T \subseteq Nat, T # {}, NEW b \in Nat, \A m \in T : m <= b
  PROVE  \E n \in T : \A m \in T : m <= n
<1> DEFINE U == {b - m : m \in T}
<1>2. \A m \in T : b - m \in U
  OBVIOUS
<1>3. \A u \in U : \E m \in T : u = b - m
  OBVIOUS
<1>1. U \subseteq Nat /\ U # {}
  <2>1. \A m \in T : b - m \in Nat
    OBVIOUS
  <2> HIDE DEF U
  <2> QED
    BY <1>2, <1>3, <2>1
<1> HIDE DEF U
<1>4. PICK u \in U : \A v \in U : u <= v
  BY <1>1, LeastMember
<1>5. PICK n \in T : u = b - n
  BY <1>3
<1> QED
  BY <1>2, <1>4, <1>5

-----------------------------------------------------------------------------
(* The sum of f over S, with a function where MapThenSumSet has an operator.  *)
SumOver(f, S) == MapThenSumSet(LAMBDA x : f[x], S)

(* h gives the sums over the subsets of S, in the order CHOOSE picks.         *)
Sums(h, f, S) ==
  h = [s \in SUBSET S |->
         IF s = {} THEN 0
         ELSE f[CHOOSE x \in s : TRUE] + h[s \ {CHOOSE x \in s : TRUE}]]

LEMMA SumsChosen ==
  ASSUME NEW f, NEW S
  PROVE  SumOver(f, S) = (CHOOSE h : Sums(h, f, S))[S]
BY DEF SumOver, MapThenSumSet, MapThenFoldSet, Sums

(* Such an h exists: take the sums over at most n elements, for n = 0, 1, ... *)
LEMMA SumsExist ==
  ASSUME NEW f, NEW S, IsFiniteSet(S)
  PROVE  \E h : Sums(h, f, S)
<1> DEFINE pick(s) == CHOOSE x \in s : TRUE
           body(h, s) == IF s = {} THEN 0 ELSE f[pick(s)] + h[s \ {pick(s)}]
           upTo(h, n) == \A s \in SUBSET S : Cardinality(s) <= n => h[s] = body(h, s)
           P == {n \in Nat : \E h : upTo(h, n)}
<1>1. \A s \in SUBSET S :
        /\ IsFiniteSet(s) /\ Cardinality(s) \in Nat
        /\ Cardinality(s) = 0 => s = {}
        /\ s # {} => /\ pick(s) \in s /\ s \ {pick(s)} \in SUBSET S
                     /\ Cardinality(s \ {pick(s)}) = Cardinality(s) - 1
  <2> SUFFICES ASSUME NEW s \in SUBSET S
               PROVE  /\ IsFiniteSet(s) /\ Cardinality(s) \in Nat
                      /\ Cardinality(s) = 0 => s = {}
                      /\ s # {} => /\ pick(s) \in s /\ s \ {pick(s)} \in SUBSET S
                                   /\ Cardinality(s \ {pick(s)}) = Cardinality(s) - 1
    OBVIOUS
  <2>1. IsFiniteSet(s) /\ Cardinality(s) \in Nat /\ (Cardinality(s) = 0 => s = {})
    BY FS_Subset, FS_CardinalityType, FS_EmptySet
  <2>2. s # {} => pick(s) \in s
    OBVIOUS
  <2>3. s # {} => Cardinality(s \ {pick(s)}) = Cardinality(s) - 1
    BY <2>1, <2>2, FS_RemoveElement
  <2> QED
    BY <2>1, <2>2, <2>3
<1> HIDE DEF pick
<1>2. 0 \in P
  <2> DEFINE h == [s \in SUBSET S |-> 0]
  <2>1. ASSUME NEW s \in SUBSET S, Cardinality(s) <= 0  PROVE h[s] = body(h, s)
    <3>1. s = {}
      <4>1. Cardinality(s) \in Nat /\ (Cardinality(s) = 0 => s = {})
        BY <1>1
      <4>2. Cardinality(s) = 0
        BY <2>1, <4>1
      <4> QED
        BY <4>1, <4>2
    <3> QED
      BY <3>1
  <2> QED
    BY <2>1
<1>3. ASSUME NEW n \in Nat, n \in P  PROVE n + 1 \in P
  <2>1. PICK g : upTo(g, n)
    BY <1>3
  <2> DEFINE h == [s \in SUBSET S |-> body(g, s)]
  <2>2. ASSUME NEW s \in SUBSET S, Cardinality(s) <= n + 1  PROVE h[s] = body(h, s)
    <3>1. CASE s = {}
      BY <3>1
    <3>2. CASE s # {}
      <4> DEFINE t == s \ {pick(s)}
      <4>1. t \in SUBSET S /\ Cardinality(t) <= n
        BY <1>1, <2>2, <3>2
      <4>2. g[t] = body(g, t) /\ h[t] = body(g, t)
        BY <2>1, <4>1
      <4>3. h[s] = f[pick(s)] + g[t]
        BY <3>2
      <4> QED
        BY <3>2, <4>2, <4>3
    <3> QED
      BY <3>1, <3>2
  <2> HIDE DEF h, body
  <2>3. upTo(h, n + 1)
    BY <2>2
  <2> QED
    BY <2>3
<1> HIDE DEF P
<1>4. Cardinality(S) \in P
  BY <1>1, <1>2, <1>3, InductionOnNat
<1>5. PICK g : upTo(g, Cardinality(S))
  BY <1>4 DEF P
<1>6. \A s \in SUBSET S : g[s] = body(g, s)
  BY <1>5, FS_Subset
<1> DEFINE h == [s \in SUBSET S |-> body(g, s)]
<1>7. \A s \in SUBSET S : h[s] = g[s]
  BY <1>6
<1>8. \A s \in SUBSET S : body(h, s) = body(g, s)
  BY <1>1, <1>7
<1>9. h = [s \in SUBSET S |-> body(h, s)]
  BY <1>8
<1> QED
  BY <1>9 DEF Sums, pick

(* Any such h adds the elements one by one, whatever their order.             *)
LEMMA SumsOneByOne ==
  ASSUME NEW f, NEW S, IsFiniteSet(S), \A x \in S : f[x] \in Int, NEW h, Sums(h, f, S)
  PROVE  /\ h[{}] = 0
         /\ \A T \in SUBSET S : h[T] \in Int /\ \A x \in T : h[T] = f[x] + h[T \ {x}]
<1> DEFINE pick(s) == CHOOSE x \in s : TRUE
           P == {T \in SUBSET S : h[T] \in Int}
           Q == {T \in SUBSET S : \A x \in T : h[T] = f[x] + h[T \ {x}]}
<1>1. \A s \in SUBSET S : h[s] = IF s = {} THEN 0 ELSE f[pick(s)] + h[s \ {pick(s)}]
  BY DEF Sums
<1>2. \A s \in SUBSET S : s # {} => pick(s) \in s
  OBVIOUS
<1> HIDE DEF pick
<1>3. h[{}] = 0
  BY <1>1
<1>4. ASSUME NEW T \in SUBSET S, \A x \in T : T \ {x} \in P  PROVE T \in P
  <2>1. CASE T = {}
    BY <1>3, <2>1
  <2>2. CASE T # {}
    <3>1. pick(T) \in T /\ f[pick(T)] \in Int /\ h[T \ {pick(T)}] \in Int
      BY <1>2, <1>4, <2>2
    <3>2. h[T] = f[pick(T)] + h[T \ {pick(T)}]
      BY <1>1, <2>2
    <3> QED
      BY <3>1, <3>2
  <2> QED
    BY <2>1, <2>2
<1>5. \A T \in SUBSET S : h[T] \in Int
  <2> HIDE DEF P
  <2>1. SUBSET S \subseteq P
    BY <1>4, InductionOnSubsets
  <2> QED
    BY <2>1 DEF P
<1>6. ASSUME NEW T \in SUBSET S, \A x \in T : T \ {x} \in Q  PROVE T \in Q
  <2> SUFFICES ASSUME NEW x \in T  PROVE h[T] = f[x] + h[T \ {x}]
    OBVIOUS
  <2> DEFINE c == pick(T)
             U == T \ {c, x}
  <2>1. c \in T /\ h[T] = f[c] + h[T \ {c}]
    BY <1>1, <1>2
  <2>2. CASE x # c
    <3>1. h[T \ {c}] = f[x] + h[U] /\ h[T \ {x}] = f[c] + h[U]
      <4>1. (T \ {c}) \ {x} = U /\ (T \ {x}) \ {c} = U /\ x \in T \ {c} /\ c \in T \ {x}
        BY <2>1, <2>2
      <4>2. T \ {c} \in Q /\ T \ {x} \in Q
        BY <1>6, <2>1
      <4> QED
        BY <4>1, <4>2
    <3>2. f[x] \in Int /\ f[c] \in Int
      BY <2>1
    <3>3. h[U] \in Int
      BY <1>5
    <3> HIDE DEF c, U
    <3> QED
      BY <2>1, <3>1, <3>2, <3>3
  <2> QED
    BY <2>1, <2>2
<1>7. SUBSET S \subseteq Q
  <2> HIDE DEF Q
  <2> QED
    BY <1>6, InductionOnSubsets
<1> QED
  BY <1>3, <1>5, <1>7

(* The sums over the subsets do not depend on the set they are subsets of.    *)
LEMMA SumsOfSubset ==
  ASSUME NEW f, NEW S, IsFiniteSet(S), \A x \in S : f[x] \in Int, NEW h, Sums(h, f, S),
         NEW T \in SUBSET S
  PROVE  h[T] = SumOver(f, T)
<1> DEFINE g == CHOOSE k : Sums(k, f, T)
           P == {U \in SUBSET T : g[U] = h[U]}
<1>1. IsFiniteSet(T) /\ \A x \in T : f[x] \in Int
  BY FS_Subset
<1>2. Sums(g, f, T)
  BY <1>1, SumsExist
<1> HIDE DEF g
<1>3. g[{}] = 0 /\ \A U \in SUBSET T : \A x \in U : g[U] = f[x] + g[U \ {x}]
  BY <1>1, <1>2, SumsOneByOne
<1>4. h[{}] = 0 /\ \A U \in SUBSET T : \A x \in U : h[U] = f[x] + h[U \ {x}]
  BY SumsOneByOne
<1>5. ASSUME NEW U \in SUBSET T, \A x \in U : U \ {x} \in P  PROVE U \in P
  <2>1. CASE U = {}
    BY <1>3, <1>4, <2>1
  <2>2. ASSUME NEW x \in U  PROVE U \in P
    <3>1. g[U] = f[x] + g[U \ {x}]
      BY <1>3
    <3>2. h[U] = f[x] + h[U \ {x}]
      BY <1>4
    <3>3. g[U \ {x}] = h[U \ {x}]
      BY <1>5
    <3> QED
      BY <3>1, <3>2, <3>3
  <2> QED
    BY <2>1, <2>2
<1>6. g[T] = h[T]
  <2> HIDE DEF P
  <2>1. SUBSET T \subseteq P
    BY <1>1, <1>5, InductionOnSubsets
  <2> QED
    BY <2>1 DEF P
<1> QED
  BY <1>6, SumsChosen DEF g

(* A sum is an integer, nothing over nothing, and grows element by element.   *)
LEMMA SumGrows ==
  ASSUME NEW f, NEW S, IsFiniteSet(S), \A x \in S : f[x] \in Int
  PROVE  /\ SumOver(f, {}) = 0 /\ SumOver(f, S) \in Int
         /\ \A x \in S : SumOver(f, S) = f[x] + SumOver(f, S \ {x})
<1>1. PICK h : Sums(h, f, S)
  BY SumsExist
<1>2. \A T \in SUBSET S : h[T] = SumOver(f, T)
  BY <1>1, SumsOfSubset
<1>3. h[{}] = 0 /\ h[S] \in Int
  BY <1>1, SumsOneByOne
<1>4. \A x \in S : h[S] = f[x] + h[S \ {x}]
  BY <1>1, SumsOneByOne
<1> QED
  BY <1>2, <1>3, <1>4

(* Functions that agree on a set have the same sum over it.                   *)
LEMMA SumSame ==
  ASSUME NEW f, NEW g, NEW S, IsFiniteSet(S),
         \A x \in S : f[x] \in Int /\ g[x] = f[x]
  PROVE  SumOver(g, S) = SumOver(f, S)
<1> DEFINE P == {T \in SUBSET S : SumOver(g, T) = SumOver(f, T)}
<1>1. ASSUME NEW T \in SUBSET S, \A x \in T : T \ {x} \in P  PROVE T \in P
  <2>1. IsFiniteSet(T) /\ \A x \in T : f[x] \in Int /\ g[x] \in Int
    BY FS_Subset
  <2>2. CASE T = {}
    BY <2>1, <2>2, SumGrows
  <2>3. CASE T # {}
    <3>1. PICK x \in T : TRUE
      BY <2>3
    <3>2. SumOver(f, T) = f[x] + SumOver(f, T \ {x})
      BY <2>1, SumGrows
    <3>3. SumOver(g, T) = g[x] + SumOver(g, T \ {x})
      BY <2>1, SumGrows
    <3> QED
      BY <1>1, <3>2, <3>3
  <2> QED
    BY <2>2, <2>3
<1> HIDE DEF P
<1>2. SUBSET S \subseteq P
  BY <1>1, InductionOnSubsets
<1> QED
  BY <1>2 DEF P

(* Nothing but zeros adds up to zero.                                         *)
LEMMA SumOfZeros ==
  ASSUME NEW f, NEW S, IsFiniteSet(S), \A x \in S : f[x] = 0
  PROVE  SumOver(f, S) = 0
<1> DEFINE P == {T \in SUBSET S : SumOver(f, T) = 0}
<1>1. ASSUME NEW T \in SUBSET S, \A x \in T : T \ {x} \in P  PROVE T \in P
  <2>1. IsFiniteSet(T) /\ \A x \in T : f[x] \in Int /\ f[x] = 0
    BY FS_Subset
  <2>2. CASE T = {}
    BY <2>1, <2>2, SumGrows
  <2>3. CASE T # {}
    <3>1. PICK x : x \in T
      BY <2>3
    <3>2. SumOver(f, T) = f[x] + SumOver(f, T \ {x})
      BY <2>1, <3>1, SumGrows
    <3> QED
      BY <1>1, <2>1, <3>1, <3>2
  <2> QED
    BY <2>2, <2>3
<1> HIDE DEF P
<1>2. SUBSET S \subseteq P
  BY <1>1, InductionOnSubsets
<1> QED
  BY <1>2 DEF P

(* A sum of natural numbers is one.                                           *)
LEMMA SumOfNats ==
  ASSUME NEW f, NEW S, IsFiniteSet(S), \A x \in S : f[x] \in Nat
  PROVE  SumOver(f, S) \in Nat
<1> DEFINE P == {T \in SUBSET S : SumOver(f, T) \in Nat}
<1>1. ASSUME NEW T \in SUBSET S, \A x \in T : T \ {x} \in P  PROVE T \in P
  <2>1. IsFiniteSet(T) /\ \A x \in T : f[x] \in Int /\ f[x] \in Nat
    BY FS_Subset
  <2>2. CASE T = {}
    BY <2>1, <2>2, SumGrows
  <2>3. CASE T # {}
    <3>1. PICK x : x \in T
      BY <2>3
    <3>2. SumOver(f, T) = f[x] + SumOver(f, T \ {x})
      BY <2>1, <3>1, SumGrows
    <3>3. SumOver(f, T \ {x}) \in Nat /\ f[x] \in Nat
      BY <1>1, <2>1, <3>1
    <3> QED
      BY <3>2, <3>3
  <2> QED
    BY <2>2, <2>3
<1> HIDE DEF P
<1>2. SUBSET S \subseteq P
  BY <1>1, InductionOnSubsets
<1> QED
  BY <1>2 DEF P

(* A sum of numbers within b is within b times as many.                       *)
LEMMA SumBounded ==
  ASSUME NEW f, NEW S, IsFiniteSet(S), NEW b \in Nat, \A x \in S : f[x] \in Nat /\ f[x] <= b
  PROVE  SumOver(f, S) <= b * Cardinality(S)
<1> DEFINE P == {T \in SUBSET S : SumOver(f, T) <= b * Cardinality(T)}
<1>1. ASSUME NEW T \in SUBSET S, \A x \in T : T \ {x} \in P  PROVE T \in P
  <2>1. IsFiniteSet(T) /\ \A x \in T : f[x] \in Int /\ f[x] \in Nat /\ f[x] <= b
    BY FS_Subset
  <2>2. CASE T = {}
    <3>1. SumOver(f, T) = 0 /\ Cardinality(T) = 0
      BY <2>1, <2>2, SumGrows, FS_EmptySet
    <3> QED
      BY <3>1
  <2>3. CASE T # {}
    <3>1. PICK x : x \in T
      BY <2>3
    <3> DEFINE U == T \ {x}
    <3>2. SumOver(f, T) = f[x] + SumOver(f, U) /\ f[x] \in Nat /\ f[x] <= b
      BY <2>1, <3>1, SumGrows
    <3>3. SumOver(f, U) <= b * Cardinality(U)
      BY <1>1, <3>1
    <3>4. Cardinality(U) = Cardinality(T) - 1 /\ Cardinality(T) \in Nat /\ IsFiniteSet(U)
      BY <2>1, <3>1, FS_RemoveElement, FS_CardinalityType
    <3>5. SumOver(f, U) \in Int
      BY <2>1, <3>4, SumGrows
    <3>6. PICK n \in Int : n = Cardinality(U) /\ Cardinality(T) = n + 1
      BY <3>4
    <3>7. b * (n + 1) = b * n + b /\ b * n \in Int
      OBVIOUS
    <3> HIDE DEF U
    <3>8. SumOver(f, T) <= b * Cardinality(T)
      BY <3>2, <3>3, <3>5, <3>6, <3>7
    <3> QED
      BY <3>8
  <2> QED
    BY <2>2, <2>3
<1> HIDE DEF P
<1>2. SUBSET S \subseteq P
  BY <1>1, InductionOnSubsets
<1> QED
  BY <1>2 DEF P

-----------------------------------------------------------------------------
(* A counter that grows by one goes round.                                    *)
LEMMA Remainders ==
  ASSUME NEW t \in Nat, NEW n \in Nat \ {0}
  PROVE  /\ t % n \in 0..(n - 1) /\ (t % n) + 1 \in 1..n /\ 0 % n = 0
         /\ (t + 1) % n = IF (t % n) + 1 = n THEN 0 ELSE (t % n) + 1
<1> DEFINE q == t \div n
           r == t % n
<1>1. t = n * q + r /\ q \in Nat
  OBVIOUS
<1>2. r \in 0..(n - 1) /\ 0 % n = 0
  OBVIOUS
<1>3. ASSUME NEW u \in Nat, NEW k \in Nat, NEW s \in 0..(n - 1), u = n * k + s
      PROVE  s = u % n
  BY <1>3
<1> HIDE DEF q, r
<1>4. CASE r + 1 = n
  <2> DEFINE u == t + 1
             k == q + 1
  <2>1. n * (q + 1) = n * q + n
    BY <1>1
  <2>2. u = n * k + 0
    BY <1>1, <1>2, <1>4, <2>1
  <2>3. u \in Nat /\ k \in Nat /\ 0 \in 0..(n - 1)
    BY <1>1
  <2> HIDE DEF u, k
  <2>4. 0 = u % n
    BY <1>3, <2>2, <2>3
  <2> QED
    BY <1>2, <1>4, <2>4 DEF u, r
<1>5. CASE r + 1 # n
  <2> DEFINE u == t + 1
             k == r + 1
  <2>1. n * q \in Int
    BY <1>1
  <2>2. u = n * q + k
    BY <1>1, <1>2, <2>1
  <2>3. u \in Nat /\ k \in 0..(n - 1)
    BY <1>2, <1>5
  <2> HIDE DEF u, k
  <2>4. k = u % n
    BY <1>1, <1>3, <2>2, <2>3
  <2> QED
    BY <1>2, <1>5, <2>4 DEF u, k, r
<1>6. r + 1 \in 1..n
  BY <1>2
<1> QED
  BY <1>2, <1>4, <1>5, <1>6 DEF r
==============================================================================
