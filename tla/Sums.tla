-------------------------------- MODULE Sums --------------------------------
(***************************************************************************)
(* Lemmas about SumFunctionOnSet, for the counters that several goroutines *)
(* hold parts of.  The library's induction theorems take an operator as a  *)
(* parameter; these proofs argue from a smallest counterexample instead.   *)
(***************************************************************************)
EXTENDS Integers, Functions, FiniteSets, FiniteSetTheorems, WellFoundedInduction, TLAPS

\* A set of naturals that is not empty has a smallest element.
LEMMA Smallest ==
  ASSUME NEW T \in SUBSET Nat, T # {}
  PROVE  \E n \in T : \A m \in T : n <= m
<1> DEFINE Below == {ss \in Nat \X Nat : ss[1] < ss[2]}
<1>1. Below = OpToRel(<, Nat)
  BY DEF OpToRel
<1>2. IsWellFoundedOn(Below, Nat)
  BY <1>1, NatLessThanWellFounded
<1> HIDE DEF Below
<1>3. PICK n \in T : \A m \in T : <<m, n>> \notin Below
  BY <1>2, WFMin
<1>4. \A m \in T : ~(m < n)
  BY <1>3 DEF Below
<1>5. QED BY <1>4

\* A set of subsets of a finite set has one of smallest cardinality.
LEMMA SmallestSubset ==
  ASSUME NEW S, IsFiniteSet(S), NEW T \in SUBSET (SUBSET S), T # {}
  PROVE  \E s \in T : \A t \in T : Cardinality(s) <= Cardinality(t)
<1>1. \A t \in SUBSET S : Cardinality(t) \in Nat
  BY FS_Subset, FS_CardinalityType
<1> DEFINE N == {Cardinality(t) : t \in T}
<1>2. N \in SUBSET Nat /\ N # {}
  BY <1>1
<1> HIDE DEF N
<1>3. PICK n \in N : \A m \in N : n <= m
  BY <1>2, Smallest
<1>4. QED BY <1>3 DEF N

\* One step of the recursion that SumFunctionOnSet unfolds to.
AnyOf(s) == CHOOSE x \in s : TRUE
SumStep(f, g, s) == IF s = {} THEN 0 ELSE f[AnyOf(s)] + g[s \ {AnyOf(s)}]

\* The partial sums of f over the subsets of S.
PartialSums(f, S) == CHOOSE g : g = [s \in SUBSET S |-> SumStep(f, g, s)]

\* A sum is its value at one element and the sum over the others.
LEMMA SumUnfolds ==
  ASSUME NEW S, NEW f
  PROVE  SumFunctionOnSet(f, S) = PartialSums(f, S)[S]
BY DEF SumFunctionOnSet, FoldFunctionOnSet, MapThenFoldSet, PartialSums, SumStep, AnyOf

UpTo(S, n) == {s \in SUBSET S : Cardinality(s) <= n}

\* The recursion has a solution: one on the subsets of n elements extends to
\* those of n + 1.
LEMMA PartialSumsExist ==
  ASSUME NEW S, IsFiniteSet(S), NEW f
  PROVE  \A s \in SUBSET S : PartialSums(f, S)[s] = SumStep(f, PartialSums(f, S), s)
<1>1. \A s \in SUBSET S : IsFiniteSet(s) /\ Cardinality(s) \in Nat
  BY FS_Subset, FS_CardinalityType
<1>2. \A s \in SUBSET S : s # {} =>
         /\ AnyOf(s) \in s
         /\ s \ {AnyOf(s)} \in SUBSET S
         /\ Cardinality(s \ {AnyOf(s)}) = Cardinality(s) - 1
  BY <1>1, FS_RemoveElement DEF AnyOf
<1>3. \A s \in SUBSET S : Cardinality(s) = 0 <=> s = {}
  BY <1>1, FS_EmptySet
<1> DEFINE Solves(g, n) == g = [s \in UpTo(S, n) |-> SumStep(f, g, s)]
           Failing == {n \in Nat : ~ \E g : Solves(g, n)}
<1>4. Failing = {}
  <2>1. SUFFICES ASSUME Failing # {} PROVE FALSE
    OBVIOUS
  <2>2. PICK n \in Failing : \A m \in Failing : n <= m
    BY <2>1, Smallest
  <2>3. CASE n = 0
    <3> DEFINE g == [s \in UpTo(S, 0) |-> 0]
    <3>1. \A s \in UpTo(S, 0) : s = {}
      BY <1>1, <1>3 DEF UpTo
    <3>2. Solves(g, 0)
      BY <3>1 DEF SumStep
    <3>3. QED BY <2>3, <3>2
  <2>4. CASE n # 0
    <3>1. n - 1 \in Nat /\ n - 1 \notin Failing
      BY <2>2, <2>4
    <3>2. PICK h : Solves(h, n - 1)
      BY <3>1
    <3> DEFINE g == [s \in UpTo(S, n) |-> SumStep(f, h, s)]
    <3>3. \A s \in UpTo(S, n - 1) : g[s] = h[s]
      <4>1. \A s \in UpTo(S, n - 1) : s \in UpTo(S, n)
        BY <1>1, <3>1 DEF UpTo
      <4>2. \A s \in UpTo(S, n - 1) : h[s] = SumStep(f, h, s)
        BY <3>2
      <4>3. QED BY <4>1, <4>2
    <3>4. \A s \in UpTo(S, n) : s # {} => s \ {AnyOf(s)} \in UpTo(S, n - 1)
      BY <1>1, <1>2, <3>1 DEF UpTo
    <3>5. \A s \in UpTo(S, n) : SumStep(f, g, s) = SumStep(f, h, s)
      <4> HIDE DEF g
      <4>1. QED BY <3>3, <3>4 DEF SumStep
    <3>6. Solves(g, n)
      BY <3>5
    <3>7. QED BY <3>6, <2>2
  <2>5. QED BY <2>3, <2>4
<1>5. UpTo(S, Cardinality(S)) = SUBSET S
  BY FS_Subset, FS_CardinalityType DEF UpTo
<1>6. \E g : g = [s \in SUBSET S |-> SumStep(f, g, s)]
  <2>1. Cardinality(S) \in Nat
    BY FS_CardinalityType
  <2>2. PICK g : Solves(g, Cardinality(S))
    BY <1>4, <2>1
  <2>3. QED BY <2>2, <1>5
<1>7. PartialSums(f, S) = [s \in SUBSET S |-> SumStep(f, PartialSums(f, S), s)]
  BY <1>6 DEF PartialSums
<1>8. QED BY <1>7

\* Adding to what one of them holds, and taking from it, shows in the sum.
LEMMA SumChanges ==
  ASSUME NEW S, IsFiniteSet(S), NEW f \in [S -> Int], NEW g \in [S -> Int],
         NEW x \in S, \A y \in S \ {x} : g[y] = f[y]
  PROVE  /\ SumFunctionOnSet(f, S) \in Int
         /\ SumFunctionOnSet(g, S) = SumFunctionOnSet(f, S) + g[x] - f[x]
<1> DEFINE F == PartialSums(f, S)
           G == PartialSums(g, S)
           Good(s) == F[s] \in Int /\ G[s] = F[s] + IF x \in s THEN g[x] - f[x] ELSE 0
           Bad == {s \in SUBSET S : ~Good(s)}
<1>1. \A s \in SUBSET S : F[s] = SumStep(f, F, s) /\ G[s] = SumStep(g, G, s)
  BY PartialSumsExist
<1> HIDE DEF F, G
<1>2. Bad = {}
  <2>1. SUFFICES ASSUME Bad # {} PROVE FALSE
    OBVIOUS
  <2>2. PICK s \in Bad : \A t \in Bad : Cardinality(s) <= Cardinality(t)
    BY <2>1, SmallestSubset
  <2>3. s # {}
    <3>1. F[{}] = 0 /\ G[{}] = 0
      BY <1>1 DEF SumStep
    <3>2. Good({})
      BY <3>1
    <3>3. QED BY <3>2
  <2> DEFINE p == AnyOf(s)
             t == s \ {p}
  <2>4. p \in s /\ p \in S
    BY <2>3 DEF AnyOf
  <2>5. t \in SUBSET S /\ Cardinality(s) \in Nat /\ Cardinality(t) = Cardinality(s) - 1
    BY <2>4, FS_Subset, FS_CardinalityType, FS_RemoveElement
  <2>6. Good(t)
    BY <2>2, <2>5
  <2>7. F[s] = f[p] + F[t] /\ G[s] = g[p] + G[t]
    BY <1>1, <2>3 DEF SumStep
  <2> HIDE DEF p
  <2>8. f[p] \in Int /\ g[p] \in Int /\ f[x] \in Int /\ g[x] \in Int
    BY <2>4
  <2>9. Good(s)
    <3>1. CASE p = x
      BY <2>4, <2>6, <2>7, <2>8, <3>1
    <3>2. CASE p # x
      <4>1. g[p] = f[p] /\ (x \in t <=> x \in s)
        BY <2>4, <3>2
      <4>2. QED BY <2>6, <2>7, <2>8, <4>1
    <3>3. QED BY <3>1, <3>2
  <2>10. QED BY <2>9
<1>3. Good(S)
  BY <1>2
<1>4. QED BY <1>3, SumUnfolds DEF F, G

\* Nobody holds anything: the sum is zero.
THEOREM SumOfZeros ==
  ASSUME NEW S, IsFiniteSet(S), NEW f \in [S -> Int], \A x \in S : f[x] = 0
  PROVE  SumFunctionOnSet(f, S) = 0
<1> DEFINE F == PartialSums(f, S)
           Bad == {s \in SUBSET S : F[s] # 0}
<1>1. \A s \in SUBSET S : F[s] = SumStep(f, F, s)
  BY PartialSumsExist
<1> HIDE DEF F
<1>2. Bad = {}
  <2>1. SUFFICES ASSUME Bad # {} PROVE FALSE
    OBVIOUS
  <2>2. PICK s \in Bad : \A t \in Bad : Cardinality(s) <= Cardinality(t)
    BY <2>1, SmallestSubset
  <2>3. s # {}
    <3>1. F[{}] = 0
      BY <1>1 DEF SumStep
    <3>2. QED BY <3>1
  <2>4. AnyOf(s) \in s /\ AnyOf(s) \in S
    BY <2>3 DEF AnyOf
  <2>5. /\ s \ {AnyOf(s)} \in SUBSET S
        /\ Cardinality(s) \in Nat
        /\ Cardinality(s \ {AnyOf(s)}) = Cardinality(s) - 1
    BY <2>4, FS_Subset, FS_CardinalityType, FS_RemoveElement
  <2>6. F[s \ {AnyOf(s)}] = 0
    BY <2>2, <2>5
  <2>7. QED BY <1>1, <2>3, <2>4, <2>6 DEF SumStep
<1>3. QED BY <1>2, SumUnfolds DEF F

\* One of them holds everything.
THEOREM SumOfOne ==
  ASSUME NEW S, IsFiniteSet(S), NEW f \in [S -> Int], NEW x \in S,
         \A y \in S \ {x} : f[y] = 0
  PROVE  SumFunctionOnSet(f, S) = f[x]
<1> DEFINE zeros == [y \in S |-> 0]
<1>1. zeros \in [S -> Int] /\ \A y \in S : zeros[y] = 0
  OBVIOUS
<1> HIDE DEF zeros
<1>2. SumFunctionOnSet(zeros, S) = 0
  BY <1>1, SumOfZeros
<1>3. SumFunctionOnSet(f, S) = SumFunctionOnSet(zeros, S) + f[x] - zeros[x]
  <2>1. \A y \in S \ {x} : f[y] = zeros[y]
    BY <1>1
  <2>2. QED BY <1>1, <2>1, SumChanges
<1>4. f[x] \in Int /\ zeros[x] = 0
  BY <1>1
<1>5. QED BY <1>2, <1>3, <1>4

\* Sums of naturals are naturals.
THEOREM SumOfNaturals ==
  ASSUME NEW S, IsFiniteSet(S), NEW f \in [S -> Nat]
  PROVE  SumFunctionOnSet(f, S) \in Nat
<1> DEFINE F == PartialSums(f, S)
           Bad == {s \in SUBSET S : F[s] \notin Nat}
<1>1. \A s \in SUBSET S : F[s] = SumStep(f, F, s)
  BY PartialSumsExist
<1> HIDE DEF F
<1>2. Bad = {}
  <2>1. SUFFICES ASSUME Bad # {} PROVE FALSE
    OBVIOUS
  <2>2. PICK s \in Bad : \A t \in Bad : Cardinality(s) <= Cardinality(t)
    BY <2>1, SmallestSubset
  <2>3. s # {}
    <3>1. F[{}] = 0
      BY <1>1 DEF SumStep
    <3>2. F[{}] \in Nat
      BY <3>1
    <3>3. QED BY <3>2
  <2> DEFINE p == AnyOf(s)
             t == s \ {p}
  <2>4. p \in s /\ p \in S
    BY <2>3 DEF AnyOf
  <2>5. t \in SUBSET S /\ Cardinality(s) \in Nat /\ Cardinality(t) = Cardinality(s) - 1
    BY <2>4, FS_Subset, FS_CardinalityType, FS_RemoveElement
  <2>6. F[t] \in Nat
    BY <2>2, <2>5
  <2>7. F[s] = f[p] + F[t]
    BY <1>1, <2>3 DEF SumStep
  <2> HIDE DEF p
  <2>8. F[s] \in Nat
    BY <2>4, <2>6, <2>7
  <2>9. QED BY <2>8
<1>3. F[S] \in Nat
  BY <1>2
<1>4. QED BY <1>3, SumUnfolds DEF F
=============================================================================
