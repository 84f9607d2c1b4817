------------------------------ MODULE FoldProof ------------------------------
(***************************************************************************)
(* Lemmas about finite sets and the folds of the community modules, which  *)
(* the proofs about scores, votes and races share.  Induction is stated    *)
(* for sets: to prove a property of every subset of S, or of every number, *)
(* one shows that the set of those that have it is closed.                 *)
(***************************************************************************)
EXTENDS Integers, FiniteSets, SequencesExt, FiniteSetTheorems, WellFoundedInduction, TLAPS

-----------------------------------------------------------------------------
(***************************************************************************)
(* Induction.                                                              *)
(***************************************************************************)
\* A set of subsets that has the empty set, and T with one element more if it has T, has all.
LEMMA SetInduction ==
  ASSUME NEW S, IsFiniteSet(S), NEW G, {} \in G,
         \A T \in SUBSET S : \A x \in S \ T : T \in G => T \cup {x} \in G
  PROVE  \A T \in SUBSET S : T \in G
<1> DEFINE Bad == (SUBSET S) \ G
<1> SUFFICES ASSUME Bad # {} PROVE FALSE
  OBVIOUS
<1>1. IsWellFoundedOn(StrictSubsetOrdering(S), SUBSET S)
  BY FS_StrictSubsetOrderingWellFounded, FS_FiniteSubsetsOfFinite
<1>2. PICK T \in Bad : \A U \in Bad : <<U, T>> \notin StrictSubsetOrdering(S)
  <2> HIDE DEF Bad
  <2>1. Bad \subseteq SUBSET S BY DEF Bad
  <2>2. QED BY <1>1, <2>1, WFMin
<1>3. PICK x \in T : TRUE
  OBVIOUS
<1>4. <<T \ {x}, T>> \in StrictSubsetOrdering(S)
  BY <1>3 DEF StrictSubsetOrdering
<1>5. T \ {x} \in G
  BY <1>2, <1>4
<1>6. (T \ {x}) \cup {x} = T
  BY <1>3
<1>7. QED BY <1>2, <1>5, <1>6

LEMMA LeastNumber ==
  ASSUME NEW T, T \subseteq Nat, T # {}
  PROVE  \E n \in T : \A m \in T : n <= m
<1>1. IsWellFoundedOn(OpToRel(<, Nat), Nat)
  BY NatLessThanWellFounded
<1>2. PICK n \in T : \A m \in T : <<m, n>> \notin OpToRel(<, Nat)
  BY <1>1, WFMin
<1>3. \A m \in T : ~(m < n)
  BY <1>2 DEF OpToRel
<1>4. \A m \in T : m \in Nat
  OBVIOUS
<1>5. QED BY <1>3, <1>4

LEMMA NumberInduction ==
  ASSUME NEW G, 0 \in G, \A n \in Nat : n \in G => n + 1 \in G
  PROVE  \A n \in Nat : n \in G
<1> DEFINE Bad == Nat \ G
<1> SUFFICES ASSUME Bad # {} PROVE FALSE
  OBVIOUS
<1>1. PICK n \in Bad : \A m \in Bad : n <= m
  <2> HIDE DEF Bad
  <2>1. Bad \subseteq Nat BY DEF Bad
  <2>2. QED BY <2>1, LeastNumber
<1>2. n - 1 \in Nat /\ n - 1 \in G
  BY <1>1
<1>3. n - 1 + 1 = n
  BY <1>1
<1>4. QED BY <1>1, <1>2, <1>3

-----------------------------------------------------------------------------
(***************************************************************************)
(* Folds.                                                                  *)
(***************************************************************************)
\* it is a fold with the function F from base over the subsets of S of at most n elements,
\* which takes the element c[s] of s last.
FoldsUpTo(it, S, base, c, F, n) ==
  \A s \in SUBSET S : Cardinality(s) <= n =>
    it[s] = IF s = {} THEN base ELSE F[<<c[s], it[s \ {c[s]}]>>]

IsFold(it, S, base, c, F) ==
  \A s \in SUBSET S : it[s] = IF s = {} THEN base ELSE F[<<c[s], it[s \ {c[s]}]>>]

\* c chooses an element of every set.
Chooses(c, S) == \A s \in SUBSET S : s # {} => c[s] \in s

\* A recursive definition of a fold defines a function.
LEMMA FoldExists ==
  ASSUME NEW S, IsFiniteSet(S), NEW A, NEW base \in A, NEW c,
         Chooses(c, S), NEW F \in [S \X A -> A]
  PROVE  \E it \in [SUBSET S -> A] : IsFold(it, S, base, c, F)
<1> USE DEF Chooses
<1> DEFINE G == {n \in Nat : \E it \in [SUBSET S -> A] : FoldsUpTo(it, S, base, c, F, n)}
<1>1. \A s \in SUBSET S : IsFiniteSet(s) /\ Cardinality(s) \in Nat
  BY FS_Subset, FS_CardinalityType
<1>2. 0 \in G
  <2>1. [s \in SUBSET S |-> base] \in [SUBSET S -> A]
    OBVIOUS
  <2>2. \A s \in SUBSET S : Cardinality(s) <= 0 => s = {}
    BY <1>1, FS_EmptySet
  <2>3. FoldsUpTo([s \in SUBSET S |-> base], S, base, c, F, 0)
    BY <2>2 DEF FoldsUpTo
  <2>4. QED BY <2>1, <2>3
<1>3. ASSUME NEW n \in Nat, n \in G PROVE n + 1 \in G
  <2>1. PICK it \in [SUBSET S -> A] : FoldsUpTo(it, S, base, c, F, n)
    BY <1>3
  <2> DEFINE new == [s \in SUBSET S |-> IF s = {} THEN base ELSE F[<<c[s], it[s \ {c[s]}]>>]]
  <2>2. new \in [SUBSET S -> A]
    <3> SUFFICES ASSUME NEW s \in SUBSET S, s # {} PROVE F[<<c[s], it[s \ {c[s]}]>>] \in A
      OBVIOUS
    <3>1. c[s] \in S /\ it[s \ {c[s]}] \in A
      OBVIOUS
    <3>2. QED BY <3>1
  <2>3. ASSUME NEW s \in SUBSET S, Cardinality(s) <= n + 1, s # {}
        PROVE  new[s \ {c[s]}] = it[s \ {c[s]}]
    <3> DEFINE t == s \ {c[s]}
    <3>1. Cardinality(t) <= n
      BY <1>1, <2>3, FS_RemoveElement
    <3>2. t \in SUBSET S
      OBVIOUS
    <3>3. QED BY <2>1, <3>1, <3>2 DEF FoldsUpTo
  <2>4. FoldsUpTo(new, S, base, c, F, n + 1)
    <3> SUFFICES ASSUME NEW s \in SUBSET S, Cardinality(s) <= n + 1
                 PROVE  new[s] = IF s = {} THEN base ELSE F[<<c[s], new[s \ {c[s]}]>>]
      BY DEF FoldsUpTo
    <3>1. new[s] = IF s = {} THEN base ELSE F[<<c[s], it[s \ {c[s]}]>>]
      OBVIOUS
    <3>2. QED BY <2>3, <3>1
  <2> HIDE DEF new
  <2>5. QED BY <2>2, <2>4
<1> HIDE DEF G
<1>4. Cardinality(S) \in G
  BY <1>1, <1>2, <1>3, NumberInduction
<1>5. PICK it \in [SUBSET S -> A] : FoldsUpTo(it, S, base, c, F, Cardinality(S))
  BY <1>4 DEF G
<1>6. \A s \in SUBSET S : Cardinality(s) <= Cardinality(S)
  BY FS_Subset
<1>7. QED BY <1>5, <1>6 DEF FoldsUpTo, IsFold

-----------------------------------------------------------------------------
(***************************************************************************)
(* Sums.                                                                   *)
(***************************************************************************)
SumOf(f, S) == MapThenSumSet(LAMBDA x : f[x], S)

SumIter(f, S, it) ==
  it = [s \in SUBSET S |->
          IF s = {} THEN 0 ELSE f[CHOOSE x \in s : TRUE] + it[s \ {CHOOSE x \in s : TRUE}]]

LEMMA SumIsIter == \A f, S : SumOf(f, S) = (CHOOSE it : SumIter(f, S, it))[S]
BY DEF SumOf, MapThenSumSet, MapThenFoldSet, SumIter

\* What is added up are integers.
Adds(f, S) == IsFiniteSet(S) /\ \A x \in S : f[x] \in Int

LEMMA AddsSubset ==
  ASSUME NEW f, NEW S, Adds(f, S), NEW T \in SUBSET S
  PROVE  Adds(f, T) /\ Cardinality(T) \in Nat /\ Cardinality(T) <= Cardinality(S)
BY FS_Subset, FS_CardinalityType DEF Adds

LEMMA SumIterExists ==
  ASSUME NEW S, NEW f, Adds(f, S)
  PROVE  \E it \in [SUBSET S -> Int] : SumIter(f, S, it)
<1> DEFINE c == [s \in SUBSET S |-> CHOOSE x \in s : TRUE]
           F == [z \in S \X Int |-> f[z[1]] + z[2]]
<1>1. Chooses(c, S)
  BY DEF Chooses
<1>2. /\ F \in [S \X Int -> Int] /\ 0 \in Int
      /\ \A x \in S, n \in Int : F[<<x, n>>] = f[x] + n
  BY DEF Adds
<1> HIDE DEF F
<1>3. PICK it \in [SUBSET S -> Int] : IsFold(it, S, 0, c, F)
  <2> HIDE DEF c
  <2>1. QED BY <1>1, <1>2, FoldExists DEF Adds
<1>4. ASSUME NEW s \in SUBSET S
      PROVE  it[s] = IF s = {} THEN 0
                     ELSE f[CHOOSE x \in s : TRUE] + it[s \ {CHOOSE x \in s : TRUE}]
  <2>1. CASE s = {}
    BY <1>3, <2>1 DEF IsFold
  <2>2. CASE s # {}
    <3>1. c[s] \in S /\ it[s \ {c[s]}] \in Int
      BY <2>2
    <3>2. F[<<c[s], it[s \ {c[s]}]>>] = f[c[s]] + it[s \ {c[s]}]
      BY <1>2, <3>1
    <3>3. QED BY <1>3, <2>2, <3>2 DEF IsFold
  <2>3. QED BY <2>1, <2>2
<1>5. SumIter(f, S, it)
  BY <1>4 DEF SumIter
<1>6. QED BY <1>5

\* Two such functions agree where both are defined.
LEMMA SumIterAgree ==
  ASSUME NEW S, NEW f, Adds(f, S), NEW a, SumIter(f, S, a),
         NEW T \in SUBSET S, NEW b, SumIter(f, T, b)
  PROVE  \A t \in SUBSET T : a[t] = b[t]
<1> DEFINE G == {n \in Nat : \A t \in SUBSET T : Cardinality(t) <= n => a[t] = b[t]}
<1>1. \A t \in SUBSET T : IsFiniteSet(t) /\ Cardinality(t) \in Nat
  BY FS_Subset, FS_CardinalityType DEF Adds
<1>2. 0 \in G
  <2>1. \A t \in SUBSET T : Cardinality(t) <= 0 => t = {}
    BY <1>1, FS_EmptySet
  <2>2. a[{}] = 0 /\ b[{}] = 0
    BY DEF SumIter
  <2>3. QED BY <2>1, <2>2
<1>3. ASSUME NEW n \in Nat, n \in G PROVE n + 1 \in G
  <2>1. ASSUME NEW t \in SUBSET T, Cardinality(t) <= n + 1 PROVE a[t] = b[t]
    <3> DEFINE x == CHOOSE z \in t : TRUE
               r == t \ {x}
    <3>1. CASE t = {}
      BY <3>1 DEF SumIter
    <3>2. CASE t # {}
      <4>1. x \in t
        BY <3>2
      <4>2. a[t] = f[x] + a[r] /\ b[t] = f[x] + b[r]
        BY <3>2 DEF SumIter
      <4> HIDE DEF x
      <4>3. r \in SUBSET T /\ Cardinality(r) <= n
        BY <1>1, <2>1, <4>1, FS_RemoveElement
      <4>4. QED BY <1>3, <4>2, <4>3
    <3>3. QED BY <3>1, <3>2
  <2>2. QED BY <2>1
<1> HIDE DEF G
<1>4. \A n \in Nat : n \in G
  BY <1>2, <1>3, NumberInduction
<1>5. QED
  <2> TAKE t \in SUBSET T
  <2>1. Cardinality(t) \in G /\ Cardinality(t) <= Cardinality(t)
    BY <1>1, <1>4
  <2>2. QED BY <2>1 DEF G

LEMMA SumOfNothing == \A f : SumOf(f, {}) = 0
<1> TAKE f
<1>1. PICK it : SumIter(f, {}, it)
  BY SumIterExists, FS_EmptySet DEF Adds
<1>2. SumIter(f, {}, CHOOSE i : SumIter(f, {}, i))
  BY <1>1
<1>3. QED BY <1>2, SumIsIter DEF SumIter

LEMMA SumChoose ==
  ASSUME NEW f, NEW S, Adds(f, S)
  PROVE  /\ SumOf(f, S) \in Int
         /\ S # {} => LET x == CHOOSE z \in S : TRUE IN SumOf(f, S) = f[x] + SumOf(f, S \ {x})
<1> DEFINE a == CHOOSE it : SumIter(f, S, it)
           x == CHOOSE z \in S : TRUE
           T == S \ {x}
           b == CHOOSE it : SumIter(f, T, it)
<1>1. PICK it \in [SUBSET S -> Int] : SumIter(f, S, it)
  BY SumIterExists
<1>2. SumIter(f, S, a)
  BY <1>1
<1>3. SumIter(f, T, b)
  BY AddsSubset, SumIterExists
<1>4. SumOf(f, S) = a[S] /\ SumOf(f, T) = b[T]
  BY SumIsIter
<1> HIDE DEF a, b
<1>5. a[S] = it[S]
  BY <1>1, <1>2, SumIterAgree
<1>6. a[T] = b[T]
  BY <1>2, <1>3, SumIterAgree
<1>7. S # {} => a[S] = f[x] + a[T]
  BY <1>2 DEF SumIter
<1>8. QED BY <1>1, <1>4, <1>5, <1>6, <1>7

\* Any element may be taken out first.
LEMMA SumWithout ==
  ASSUME NEW f, NEW S, Adds(f, S), NEW x \in S
  PROVE  SumOf(f, S) = f[x] + SumOf(f, S \ {x})
<1> DEFINE G == {n \in Nat : \A T \in SUBSET S : Cardinality(T) <= n =>
                    \A y \in T : SumOf(f, T) = f[y] + SumOf(f, T \ {y})}
<1>1. \A T \in SUBSET S : Adds(f, T) /\ Cardinality(T) \in Nat /\ IsFiniteSet(T)
  BY AddsSubset, FS_Subset DEF Adds
<1>2. 0 \in G
  <2>1. \A t \in SUBSET S : Cardinality(t) <= 0 => t = {}
    BY <1>1, FS_EmptySet
  <2>2. QED BY <2>1
<1>3. ASSUME NEW n \in Nat, n \in G PROVE n + 1 \in G
  <2> SUFFICES ASSUME NEW T \in SUBSET S, Cardinality(T) <= n + 1, NEW y \in T
               PROVE  SumOf(f, T) = f[y] + SumOf(f, T \ {y})
    OBVIOUS
  <2> DEFINE z == CHOOSE u \in T : TRUE
  <2>1. z \in T /\ SumOf(f, T) = f[z] + SumOf(f, T \ {z})
    BY <1>1, SumChoose
  <2> HIDE DEF z
  <2>2. CASE y = z
    BY <2>1, <2>2
  <2>3. CASE y # z
    <3> DEFINE B == T \ {y}
               C == T \ {z}
               D == T \ {y, z}
    <3>1. /\ B \in SUBSET S /\ C \in SUBSET S /\ D \in SUBSET S
          /\ Cardinality(B) <= n /\ Cardinality(C) <= n
      BY <1>1, <2>1, FS_RemoveElement
    <3>2. z \in B /\ y \in C /\ B \ {z} = D /\ C \ {y} = D
      BY <2>1, <2>3
    <3> HIDE DEF B, C, D
    <3>3. SumOf(f, B) = f[z] + SumOf(f, D) /\ SumOf(f, C) = f[y] + SumOf(f, D)
      BY <1>3, <3>1, <3>2
    <3>4. SumOf(f, D) \in Int /\ f[y] \in Int /\ f[z] \in Int
      BY <1>1, <2>1, <3>1, SumChoose DEF Adds
    <3>5. SumOf(f, T) = f[z] + SumOf(f, C)
      BY <2>1 DEF C
    <3>6. SumOf(f, T) = f[y] + SumOf(f, B)
      BY <3>3, <3>4, <3>5
    <3>7. QED BY <3>6 DEF B
  <2>4. QED BY <2>2, <2>3
<1> HIDE DEF G
<1>4. \A n \in Nat : n \in G
  BY <1>2, <1>3, NumberInduction
<1>5. Cardinality(S) \in G /\ Cardinality(S) <= Cardinality(S) /\ S \in SUBSET S
  BY <1>1, <1>4
<1>6. QED BY <1>5 DEF G

LEMMA SumWith ==
  ASSUME NEW f, NEW S, Adds(f, S), NEW x, x \notin S, f[x] \in Int
  PROVE  Adds(f, S \cup {x}) /\ SumOf(f, S \cup {x}) = f[x] + SumOf(f, S)
<1>1. Adds(f, S \cup {x})
  BY FS_AddElement DEF Adds
<1>2. (S \cup {x}) \ {x} = S
  OBVIOUS
<1>3. x \in S \cup {x}
  OBVIOUS
<1>4. SumOf(f, S \cup {x}) = f[x] + SumOf(f, (S \cup {x}) \ {x})
  BY <1>1, <1>3, SumWithout
<1>5. QED BY <1>1, <1>2, <1>4

LEMMA SumSame ==
  ASSUME NEW f, NEW h, NEW S, Adds(f, S), \A x \in S : h[x] = f[x]
  PROVE  SumOf(h, S) = SumOf(f, S)
<1> DEFINE G == {T \in SUBSET S : SumOf(h, T) = SumOf(f, T)}
<1>1. {} \in G
  BY SumOfNothing
<1>2. ASSUME NEW T \in SUBSET S, NEW x \in S \ T, T \in G
      PROVE  T \cup {x} \in G
  <2>1. Adds(f, T) /\ Adds(h, T) /\ f[x] \in Int /\ h[x] \in Int /\ x \notin T
    BY AddsSubset DEF Adds
  <2>2. SumOf(f, T \cup {x}) = f[x] + SumOf(f, T) /\ SumOf(h, T \cup {x}) = h[x] + SumOf(h, T)
    BY <2>1, SumWith
  <2>3. QED BY <1>2, <2>2
<1> HIDE DEF G
<1>3. S \in G
  BY <1>1, <1>2, SetInduction DEF Adds
<1>4. QED BY <1>3 DEF G

\* The sum of a field of records, which Scores takes of its ghosts.
FieldSum(S) == MapThenSumSet(LAMBDA g : g.frags, S)

FieldIter(S, it) ==
  it = [s \in SUBSET S |->
          IF s = {} THEN 0
          ELSE (CHOOSE x \in s : TRUE).frags + it[s \ {CHOOSE x \in s : TRUE}]]

LEMMA FieldSumIsIter == \A S : FieldSum(S) = (CHOOSE it : FieldIter(S, it))[S]
BY DEF FieldSum, MapThenSumSet, MapThenFoldSet, FieldIter

LEMMA FieldSumIsSum ==
  ASSUME NEW S PROVE FieldSum(S) = SumOf([g \in S |-> g.frags], S)
<1> DEFINE f == [g \in S |-> g.frags]
<1>1. \A it : FieldIter(S, it) <=> SumIter(f, S, it)
  <2> TAKE it
  <2>1. \A s \in SUBSET S : s # {} => (CHOOSE x \in s : TRUE).frags = f[CHOOSE x \in s : TRUE]
    OBVIOUS
  <2> HIDE DEF f
  <2>2. QED BY <2>1 DEF FieldIter, SumIter
<1> HIDE DEF f
<1>2. (CHOOSE it : FieldIter(S, it)) = (CHOOSE it : SumIter(f, S, it))
  BY <1>1
<1>3. QED BY <1>2, FieldSumIsIter, SumIsIter DEF f

LEMMA SumChanged ==
  ASSUME NEW f, NEW h, NEW S, Adds(f, S), NEW x \in S, NEW n \in Int,
         h[x] = f[x] + n, \A y \in S \ {x} : h[y] = f[y]
  PROVE  SumOf(h, S) = SumOf(f, S) + n
<1> DEFINE T == S \ {x}
<1>1. Adds(h, S) /\ Adds(f, T) /\ f[x] \in Int
  <2>1. \A y \in S : h[y] \in Int
    <3> TAKE y \in S
    <3>1. f[x] \in Int /\ f[y] \in Int
      BY DEF Adds
    <3>2. QED BY <3>1
  <2>2. QED BY <2>1, AddsSubset DEF Adds
<1>2. SumOf(f, S) = f[x] + SumOf(f, T) /\ SumOf(h, S) = h[x] + SumOf(h, T)
  BY <1>1, SumWithout
<1>3. SumOf(h, T) = SumOf(f, T) /\ SumOf(f, T) \in Int
  <2>1. \A y \in T : h[y] = f[y]
    OBVIOUS
  <2> HIDE DEF T
  <2>2. SumOf(h, T) = SumOf(f, T)
    BY <1>1, <2>1, SumSame
  <2>3. SumOf(f, T) \in Int
    BY <1>1, SumChoose
  <2>4. QED BY <2>2, <2>3
<1>4. QED BY <1>1, <1>2, <1>3

LEMMA SumZero ==
  ASSUME NEW f, NEW S, Adds(f, S), NEW x, x \in S => f[x] = 0
  PROVE  SumOf(f, S \ {x}) = SumOf(f, S)
<1>1. CASE x \in S
  <2>1. SumOf(f, S) = f[x] + SumOf(f, S \ {x})
    BY <1>1, SumWithout
  <2>2. S \ {x} \in SUBSET S
    OBVIOUS
  <2>3. SumOf(f, S \ {x}) \in Int
    BY <2>2, AddsSubset, SumChoose
  <2>4. QED BY <1>1, <2>1, <2>3
<1>2. CASE x \notin S
  <2>1. S \ {x} = S
    BY <1>2
  <2>2. QED BY <2>1
<1>3. QED BY <1>1, <1>2

LEMMA FieldSumOfNothing == FieldSum({}) = 0
<1>1. FieldSum({}) = SumOf([g \in {} |-> g.frags], {})
  BY FieldSumIsSum
<1>2. QED BY <1>1, SumOfNothing

LEMMA FieldSumType ==
  ASSUME NEW S, IsFiniteSet(S), \A h \in S : h.frags \in Int
  PROVE  FieldSum(S) \in Int
<1> DEFINE f == [h \in S |-> h.frags]
<1>1. FieldSum(S) = SumOf(f, S)
  BY FieldSumIsSum
<1>2. Adds(f, S)
  BY DEF Adds
<1> HIDE DEF f
<1>3. SumOf(f, S) \in Int
  BY <1>2, SumChoose
<1>4. QED BY <1>1, <1>3

LEMMA FieldSumWith ==
  ASSUME NEW S, IsFiniteSet(S), \A h \in S : h.frags \in Int, NEW g, g \notin S, g.frags \in Int
  PROVE  FieldSum(S) \in Int /\ FieldSum(S \cup {g}) = g.frags + FieldSum(S)
<1> DEFINE f == [h \in S |-> h.frags]
           k == [h \in S \cup {g} |-> h.frags]
<1>1. FieldSum(S) = SumOf(f, S) /\ FieldSum(S \cup {g}) = SumOf(k, S \cup {g})
  <2>1. FieldSum(S) = SumOf(f, S)
    BY FieldSumIsSum
  <2> DEFINE V == S \cup {g}
  <2>2. FieldSum(V) = SumOf([h \in V |-> h.frags], V)
    <3> HIDE DEF V
    <3>1. QED BY FieldSumIsSum
  <2>3. QED BY <2>1, <2>2
<1>2. Adds(k, S) /\ Adds(f, S) /\ k[g] = g.frags /\ \A h \in S : k[h] = f[h]
  BY DEF Adds
<1> HIDE DEF f, k
<1>3. SumOf(k, S) = SumOf(f, S) /\ SumOf(f, S) \in Int
  <2>1. SumOf(k, S) = SumOf(f, S)
    BY <1>2, SumSame
  <2>2. SumOf(f, S) \in Int
    BY <1>2, SumChoose
  <2>3. QED BY <2>1, <2>2
<1>4. SumOf(k, S \cup {g}) = k[g] + SumOf(k, S)
  BY <1>2, SumWith
<1>5. QED BY <1>1, <1>2, <1>3, <1>4

-----------------------------------------------------------------------------
(***************************************************************************)
(* Walks: folds over the slots 1 to n in their order, which is what        *)
(* FoldLeft does with the sequence of the slots.                           *)
(***************************************************************************)
LEMMA MaxIsIn ==
  ASSUME NEW n \in Nat, NEW S \in SUBSET (1 .. n), S # {}
  PROVE  Max(S) \in S /\ \A x \in S : x <= Max(S)
<1> DEFINE T == {n - x : x \in S}
<1>0. \A x \in S : x \in Int /\ 1 <= x /\ x <= n /\ n - x \in Nat
  OBVIOUS
<1>1. T \subseteq Nat /\ T # {}
  BY <1>0
<1>2. PICK t \in T : \A u \in T : t <= u
  <2> HIDE DEF T
  <2>1. QED BY <1>1, LeastNumber
<1>3. PICK x \in S : t = n - x
  OBVIOUS
<1>4. \A y \in S : x >= y
  <2> TAKE y \in S
  <2>1. n - x <= n - y
    BY <1>2, <1>3
  <2>2. QED BY <1>0, <2>1
<1>5. Max(S) \in S /\ \A y \in S : Max(S) >= y
  BY <1>4 DEF Max
<1>6. QED BY <1>0, <1>5

LEMMA MaxOfInterval ==
  ASSUME NEW n \in Nat, n # 0
  PROVE  Max(1 .. n) = n /\ (1 .. n) \ {n} = 1 .. n - 1 /\ 1 .. n # {}
<1>1. n \in 1 .. n
  OBVIOUS
<1>2. Max(1 .. n) \in 1 .. n /\ \A x \in 1 .. n : x <= Max(1 .. n)
  <2> DEFINE S == 1 .. n
  <2>1. S \in SUBSET (1 .. n) /\ S # {}
    BY <1>1
  <2> HIDE DEF S
  <2>2. Max(S) \in S /\ \A x \in S : x <= Max(S)
    BY <2>1, MaxIsIn
  <2>3. QED BY <2>2 DEF S
<1>3. Max(1 .. n) = n
  BY <1>1, <1>2
<1>4. QED BY <1>1, <1>3

\* The values of a walk with the function F.
WalkIter(it, n, base, F) ==
  \A S \in SUBSET (1 .. n) : it[S] = IF S = {} THEN base ELSE F[<<Max(S), it[S \ {Max(S)}]>>]

LEMMA WalkExists ==
  ASSUME NEW n \in Nat, NEW A, NEW base \in A, NEW F \in [(1 .. n) \X A -> A]
  PROVE  \E it \in [SUBSET (1 .. n) -> A] : WalkIter(it, n, base, F)
<1> DEFINE D == 1 .. n
           c == [S \in SUBSET D |-> Max(S)]
<1>1. IsFiniteSet(D)
  BY FS_Interval
<1>2. Chooses(c, D)
  <2> SUFFICES ASSUME NEW S \in SUBSET D, S # {} PROVE c[S] \in S
    BY DEF Chooses
  <2>1. Max(S) \in S
    BY MaxIsIn
  <2>2. QED BY <2>1
<1>3. \A S \in SUBSET D : c[S] = Max(S)
  OBVIOUS
<1> HIDE DEF c
<1>4. PICK it \in [SUBSET D -> A] : IsFold(it, D, base, c, F)
  <2> HIDE DEF D
  <2>0. F \in [D \X A -> A]
    BY DEF D
  <2>1. QED BY <1>1, <1>2, <2>0, FoldExists
<1>5. WalkIter(it, n, base, F)
  BY <1>3, <1>4 DEF WalkIter, IsFold
<1>6. QED BY <1>5
=============================================================================
