----------------------------- MODULE SumTheorems ----------------------------
(***************************************************************************)
(* Lemmas about the sum of a function over a finite set, SumFunctionOnSet  *)
(* of the community module Functions: usage is a sum over tenants, VMs and *)
(* volumes.  Induction is by the least number for which a statement fails. *)
(***************************************************************************)
EXTENDS Integers, FiniteSets, Functions, FiniteSetTheorems, WellFoundedInduction, TLAPS

---------------------------------------------------------------------------
(* Induction over numbers, and over the size of a finite set. *)

LEMMA Induction ==
  ASSUME NEW T, 0 \in T, \A n \in Nat : n \in T => n + 1 \in T
  PROVE  Nat \subseteq T
<1>. SUFFICES ASSUME Nat \ T # {} PROVE FALSE
  OBVIOUS
<1>1. PICK n \in Nat \ T : \A m \in Nat \ T : <<m, n>> \notin OpToRel(<, Nat)
  BY NatLessThanWellFounded, WFMin
<1>2. \A m \in Nat \ T : ~(m < n)
  BY <1>1 DEF OpToRel
<1>3. n # 0 /\ n - 1 \in Nat /\ n - 1 < n
  OBVIOUS
<1>4. n - 1 \in T
  BY <1>2, <1>3
<1>5. (n - 1) + 1 \in T
  BY <1>3, <1>4
<1>. QED BY <1>5

\* A set without one of its elements is smaller.
LEMMA SmallerSubset ==
  ASSUME NEW S, IsFiniteSet(S), NEW x \in S
  PROVE  /\ IsFiniteSet(S \ {x}) /\ Cardinality(S) \in Nat /\ Cardinality(S \ {x}) \in Nat
         /\ Cardinality(S) = Cardinality(S \ {x}) + 1
<1>1. IsFiniteSet(S \ {x}) /\ Cardinality(S \ {x}) = Cardinality(S) - 1
  BY FS_RemoveElement
<1>. QED BY <1>1, FS_CardinalityType

LEMMA SubsetFacts ==
  ASSUME NEW S, IsFiniteSet(S), NEW s \in SUBSET S
  PROVE  IsFiniteSet(s) /\ Cardinality(s) \in Nat /\ Cardinality(s) <= Cardinality(S)
  BY FS_Subset, FS_CardinalityType

---------------------------------------------------------------------------
(* The recursive function behind a sum. *)

Picked(s) == CHOOSE x \in s : TRUE

Folded(g, f, s) == IF s = {} THEN 0 ELSE f[Picked(s)] + g[s \ {Picked(s)}]

Folds(g, f, S) == g = [s \in SUBSET S |-> Folded(g, f, s)]

LEMMA SumIsFold ==
  ASSUME NEW f, NEW S
  PROVE  SumFunctionOnSet(f, S) = (CHOOSE g : Folds(g, f, S))[S]
  BY DEF SumFunctionOnSet, FoldFunctionOnSet, MapThenFoldSet, Folds, Folded, Picked

\* g is right about the sets of up to n elements.
RightUpTo(g, f, S, n) == \A s \in SUBSET S : Cardinality(s) <= n => g[s] = Folded(g, f, s)

LEMMA FoldExists ==
  ASSUME NEW f, NEW S, IsFiniteSet(S)
  PROVE  \E g : Folds(g, f, S)
<1>. DEFINE T == {n \in Nat : \E g : RightUpTo(g, f, S, n)}
<1>1. 0 \in T
  <2>. DEFINE g == [s \in SUBSET S |-> 0]
  <2>1. \A s \in SUBSET S : Cardinality(s) <= 0 => s = {}
    BY SubsetFacts, FS_EmptySet
  <2>2. RightUpTo(g, f, S, 0)
    BY <2>1 DEF RightUpTo, Folded
  <2>. QED BY <2>2
<1>2. ASSUME NEW n \in Nat, n \in T PROVE n + 1 \in T
  <2>1. PICK g : RightUpTo(g, f, S, n)
    BY <1>2
  <2>. DEFINE h == [s \in SUBSET S |-> Folded(g, f, s)]
  <2>2. ASSUME NEW s \in SUBSET S, Cardinality(s) <= n + 1 PROVE h[s] = Folded(h, f, s)
    <3>1. CASE s = {}
      BY <3>1 DEF Folded
    <3>2. CASE s # {}
      <4>. DEFINE r == s \ {Picked(s)}
      <4>1. Picked(s) \in s
        BY <3>2 DEF Picked
      <4>2. r \in SUBSET S /\ Cardinality(r) <= n
        BY <2>2, <4>1, SmallerSubset, SubsetFacts
      <4>3. g[r] = h[r]
        BY <2>1, <4>2 DEF RightUpTo
      <4>4. h[s] = f[Picked(s)] + g[r]
        BY <3>2 DEF Folded
      <4>. HIDE DEF h
      <4>. QED BY <3>2, <4>3, <4>4 DEF Folded
    <3>. QED BY <3>1, <3>2
  <2>. HIDE DEF h
  <2>3. RightUpTo(h, f, S, n + 1)
    BY <2>2 DEF RightUpTo
  <2>. QED BY <2>3
<1>3. Cardinality(S) \in T
  <2>. HIDE DEF T
  <2>. QED BY <1>1, <1>2, Induction, FS_CardinalityType
<1>4. PICK g : RightUpTo(g, f, S, Cardinality(S))
  BY <1>3
<1>. DEFINE h == [s \in SUBSET S |-> g[s]]
<1>5. ASSUME NEW s \in SUBSET S PROVE h[s] = Folded(h, f, s)
  <2>1. g[s] = Folded(g, f, s)
    BY <1>4, SubsetFacts DEF RightUpTo
  <2>2. s \ {Picked(s)} \in SUBSET S
    OBVIOUS
  <2>. QED BY <2>1, <2>2 DEF Folded
<1>6. h = [s \in SUBSET S |-> Folded(h, f, s)]
  <2>1. h = [s \in SUBSET S |-> h[s]]
    OBVIOUS
  <2>. HIDE DEF h
  <2>. QED BY <1>5, <2>1
<1>. QED BY <1>6 DEF Folds

\* Two such functions agree where the summands do.
LEMMA FoldsAgree ==
  ASSUME NEW f, NEW e, NEW S, NEW U \in SUBSET S, IsFiniteSet(U), \A x \in U : f[x] = e[x],
         NEW g, NEW h, Folds(g, f, S), Folds(h, e, U)
  PROVE  \A s \in SUBSET U : g[s] = h[s]
<1>. DEFINE T == {n \in Nat : \A s \in SUBSET U : Cardinality(s) <= n => g[s] = h[s]}
<1>0. ASSUME NEW s \in SUBSET U PROVE g[s] = Folded(g, f, s) /\ h[s] = Folded(h, e, s)
  <2>. DEFINE G(z) == Folded(g, f, z)
              H(z) == Folded(h, e, z)
  <2>1. g = [z \in SUBSET S |-> G(z)] /\ h = [z \in SUBSET U |-> H(z)]
    BY DEF Folds
  <2>. HIDE DEF G, H
  <2>2. g[s] = G(s) /\ h[s] = H(s)
    BY <2>1
  <2>. QED BY <2>2 DEF G, H
<1>1. 0 \in T
  <2>1. \A s \in SUBSET U : Cardinality(s) <= 0 => s = {}
    BY SubsetFacts, FS_EmptySet
  <2>2. g[{}] = h[{}]
    BY <1>0 DEF Folded
  <2>. QED BY <2>1, <2>2
<1>2. ASSUME NEW n \in Nat, n \in T PROVE n + 1 \in T
  <2>1. ASSUME NEW s \in SUBSET U, Cardinality(s) <= n + 1 PROVE g[s] = h[s]
    <3>1. CASE s = {}
      BY <1>0, <3>1 DEF Folded
    <3>2. CASE s # {}
      <4>1. Picked(s) \in s
        BY <3>2 DEF Picked
      <4>2. s \ {Picked(s)} \in SUBSET U /\ Cardinality(s \ {Picked(s)}) <= n
        BY <2>1, <4>1, SmallerSubset, SubsetFacts
      <4>3. g[s \ {Picked(s)}] = h[s \ {Picked(s)}]
        BY <1>2, <4>2
      <4>. QED BY <1>0, <3>2, <4>1, <4>3 DEF Folded
    <3>. QED BY <3>1, <3>2
  <2>. QED BY <2>1
<1>3. Cardinality(U) \in T
  <2>. HIDE DEF T
  <2>. QED BY <1>1, <1>2, Induction, FS_CardinalityType
<1>. QED BY <1>3, SubsetFacts

---------------------------------------------------------------------------
(* Sums. *)

LEMMA SumEmpty == ASSUME NEW f PROVE SumFunctionOnSet(f, {}) = 0
<1>. DEFINE g == CHOOSE g : Folds(g, f, {})
<1>1. Folds(g, f, {})
  BY FoldExists, FS_EmptySet
<1>2. g[{}] = 0
  BY <1>1 DEF Folds, Folded
<1>. QED BY <1>2, SumIsFold

\* Only the values on the set matter.
LEMMA SumSame ==
  ASSUME NEW f, NEW e, NEW S, IsFiniteSet(S), \A x \in S : f[x] = e[x]
  PROVE  SumFunctionOnSet(f, S) = SumFunctionOnSet(e, S)
<1>. DEFINE g == CHOOSE g : Folds(g, f, S)
            h == CHOOSE h : Folds(h, e, S)
<1>1. Folds(g, f, S) /\ Folds(h, e, S)
  BY FoldExists
<1>. HIDE DEF g, h
<1>2. \A s \in SUBSET S : g[s] = h[s]
  <2>1. S \in SUBSET S
    OBVIOUS
  <2>. QED BY <1>1, <2>1, FoldsAgree
<1>. QED BY <1>2, SumIsFold DEF g, h

LEMMA SumChosen ==
  ASSUME NEW f, NEW S, IsFiniteSet(S), S # {}
  PROVE  SumFunctionOnSet(f, S) = f[Picked(S)] + SumFunctionOnSet(f, S \ {Picked(S)})
<1>. DEFINE U == S \ {Picked(S)}
            g == CHOOSE g : Folds(g, f, S)
            h == CHOOSE h : Folds(h, f, U)
<1>0. U \in SUBSET S /\ IsFiniteSet(U)
  BY FS_Subset
<1>1. Folds(g, f, S) /\ Folds(h, f, U)
  BY <1>0, FoldExists
<1>2. SumFunctionOnSet(f, S) = g[S] /\ SumFunctionOnSet(f, U) = h[U]
  BY SumIsFold
<1>. HIDE DEF g, h
<1>. HIDE DEF U
<1>3. \A s \in SUBSET U : g[s] = h[s]
  <2>1. ASSUME NEW e, \A x \in U : f[x] = e[x], Folds(h, e, U) PROVE \A s \in SUBSET U : g[s] = h[s]
    BY <1>0, <1>1, <2>1, FoldsAgree
  <2>. QED BY <1>1, <2>1
<1>4. g[S] = Folded(g, f, S)
  BY <1>1 DEF Folds
<1>. QED BY <1>2, <1>3, <1>4 DEF Folded, U

\* A sum of numbers, and what each of them contributes.
LEMMA SumRemove ==
  ASSUME NEW f, NEW S, IsFiniteSet(S), \A x \in S : f[x] \in Int
  PROVE  /\ SumFunctionOnSet(f, S) \in Int
         /\ \A x \in S : SumFunctionOnSet(f, S) = f[x] + SumFunctionOnSet(f, S \ {x})
<1>. DEFINE Sum(s) == SumFunctionOnSet(f, s)
            Good(s) == Sum(s) \in Int /\ \A x \in s : Sum(s) = f[x] + Sum(s \ {x})
            T == {n \in Nat : \A s \in SUBSET S : Cardinality(s) <= n => Good(s)}
<1>0. \A s \in SUBSET S : s # {} => Picked(s) \in s /\ Sum(s) = f[Picked(s)] + Sum(s \ {Picked(s)})
  <2>1. \A s \in SUBSET S : IsFiniteSet(s)
    BY SubsetFacts
  <2>. QED BY <2>1, SumChosen DEF Picked
<1>1. 0 \in T
  <2>1. \A s \in SUBSET S : Cardinality(s) <= 0 => s = {}
    BY SubsetFacts, FS_EmptySet
  <2>2. Good({})
    BY SumEmpty
  <2>. HIDE DEF Good
  <2>. QED BY <2>1, <2>2
<1>. HIDE DEF Sum
<1>2. ASSUME NEW n \in Nat, n \in T PROVE n + 1 \in T
  <2>1. ASSUME NEW s \in SUBSET S, Cardinality(s) <= n + 1 PROVE Good(s)
    <3>1. CASE s = {}
      <4>1. Cardinality(s) <= n
        BY <3>1, FS_EmptySet
      <4>. QED BY <1>2, <4>1
    <3>2. CASE s # {}
      <4>. DEFINE y == Picked(s)
      <4>1. y \in s /\ Sum(s) = f[y] + Sum(s \ {y}) /\ f[y] \in Int
        BY <1>0, <3>2
      <4>. HIDE DEF y
      <4>2. IsFiniteSet(s)
        BY SubsetFacts
      <4>3. \A x \in s : s \ {x} \in SUBSET S /\ Cardinality(s \ {x}) <= n
        BY <2>1, <4>2, SmallerSubset
      <4>4. \A x \in s : Good(s \ {x})
        BY <1>2, <4>3
      <4>5. Sum(s) \in Int
        BY <4>1, <4>4
      <4>6. ASSUME NEW x \in s, x # y PROVE Sum(s) = f[x] + Sum(s \ {x})
        <5>1. Sum(s \ {y}) = f[x] + Sum((s \ {y}) \ {x})
          BY <4>1, <4>4, <4>6
        <5>2. Sum(s \ {x}) = f[y] + Sum((s \ {x}) \ {y})
          BY <4>1, <4>4, <4>6
        <5>3. (s \ {y}) \ {x} = (s \ {x}) \ {y}
          OBVIOUS
        <5>4. (s \ {x}) \ {y} \in SUBSET S /\ Cardinality((s \ {x}) \ {y}) <= n
          <6>1. IsFiniteSet(s \ {x}) /\ y \in s \ {x}
            BY <4>1, <4>2, <4>6, SmallerSubset
          <6>. QED BY <4>3, <6>1, SmallerSubset
        <5>5. Sum((s \ {x}) \ {y}) \in Int /\ f[x] \in Int /\ f[y] \in Int
          BY <1>2, <4>1, <5>4
        <5>. DEFINE w == Sum((s \ {x}) \ {y})
        <5>6. Sum(s) = f[y] + (f[x] + w) /\ Sum(s \ {x}) = f[y] + w
          BY <4>1, <5>1, <5>2, <5>3
        <5>. HIDE DEF w
        <5>. QED BY <5>5, <5>6 DEF w
      <4>. QED BY <4>1, <4>5, <4>6
    <3>. QED BY <3>1, <3>2
  <2>. HIDE DEF Good
  <2>. QED BY <2>1
<1>3. Cardinality(S) \in T
  <2>. HIDE DEF T
  <2>. QED BY <1>1, <1>2, Induction, FS_CardinalityType
<1>4. Good(S)
  <2>. HIDE DEF Good
  <2>. QED BY <1>3, SubsetFacts
<1>. QED BY <1>4 DEF Sum

\* Another value at one place.
LEMMA SumChange ==
  ASSUME NEW f, NEW e, NEW S, IsFiniteSet(S), \A x \in S : f[x] \in Int /\ e[x] \in Int,
         NEW y \in S, \A x \in S \ {y} : e[x] = f[x]
  PROVE  SumFunctionOnSet(e, S) = SumFunctionOnSet(f, S) - f[y] + e[y]
<1>1. SumFunctionOnSet(f, S) = f[y] + SumFunctionOnSet(f, S \ {y})
  BY SumRemove
<1>2. SumFunctionOnSet(e, S) = e[y] + SumFunctionOnSet(e, S \ {y})
  BY SumRemove
<1>3. SumFunctionOnSet(e, S \ {y}) = SumFunctionOnSet(f, S \ {y}) /\ SumFunctionOnSet(f, S \ {y}) \in Int
  <2>1. IsFiniteSet(S \ {y})
    BY FS_Subset
  <2>. QED BY <2>1, SumSame, SumRemove
<1>. QED BY <1>1, <1>2, <1>3

\* A new element.
LEMMA SumAdd ==
  ASSUME NEW f, NEW S, IsFiniteSet(S), NEW y, y \notin S, \A x \in S \cup {y} : f[x] \in Int
  PROVE  SumFunctionOnSet(f, S \cup {y}) = SumFunctionOnSet(f, S) + f[y]
<1>1. IsFiniteSet(S \cup {y}) /\ (S \cup {y}) \ {y} = S
  BY FS_AddElement
<1>2. SumFunctionOnSet(f, S \cup {y}) = f[y] + SumFunctionOnSet(f, S)
  BY <1>1, SumRemove
<1>3. SumFunctionOnSet(f, S) \in Int
  BY SumRemove
<1>. QED BY <1>2, <1>3

\* A sum of natural numbers is one, and at least each of them.
LEMMA SumNat ==
  ASSUME NEW f, NEW S, IsFiniteSet(S), \A x \in S : f[x] \in Nat
  PROVE  /\ SumFunctionOnSet(f, S) \in Nat
         /\ \A x \in S : f[x] <= SumFunctionOnSet(f, S)
<1>. DEFINE Sum(s) == SumFunctionOnSet(f, s)
            T == {n \in Nat : \A s \in SUBSET S : Cardinality(s) <= n => Sum(s) \in Nat}
<1>0. \A s \in SUBSET S : \A x \in s : Sum(s) = f[x] + Sum(s \ {x})
  <2>1. \A s \in SUBSET S : IsFiniteSet(s) /\ \A x \in s : f[x] \in Int
    BY SubsetFacts
  <2>. QED BY <2>1, SumRemove
<1>1. 0 \in T
  <2>1. \A s \in SUBSET S : Cardinality(s) <= 0 => s = {}
    BY SubsetFacts, FS_EmptySet
  <2>2. Sum({}) = 0
    BY SumEmpty
  <2>. HIDE DEF Sum
  <2>. QED BY <2>1, <2>2
<1>. HIDE DEF Sum
<1>2. ASSUME NEW n \in Nat, n \in T PROVE n + 1 \in T
  <2>1. ASSUME NEW s \in SUBSET S, Cardinality(s) <= n + 1 PROVE Sum(s) \in Nat
    <3>1. CASE s = {}
      BY <1>2, <3>1, FS_EmptySet
    <3>2. CASE s # {}
      <4>1. PICK x \in s : TRUE
        BY <3>2
      <4>2. s \ {x} \in SUBSET S /\ Cardinality(s \ {x}) <= n
        BY <2>1, SmallerSubset, SubsetFacts
      <4>. QED BY <1>0, <1>2, <4>2
    <3>. QED BY <3>1, <3>2
  <2>. QED BY <2>1
<1>3. Nat \subseteq T
  <2>. HIDE DEF T
  <2>. QED BY <1>1, <1>2, Induction
<1>4. \A s \in SUBSET S : Sum(s) \in Nat
  BY <1>3, SubsetFacts
<1>5. \A x \in S : Sum(S) = f[x] + Sum(S \ {x}) /\ Sum(S \ {x}) \in Nat
  BY <1>0, <1>4
<1>6. Sum(S) \in Nat
  BY <1>4
<1>7. ASSUME NEW x \in S PROVE f[x] <= Sum(S)
  <2>. DEFINE w == Sum(S \ {x})
  <2>1. Sum(S) = f[x] + w /\ w \in Nat /\ f[x] \in Nat
    BY <1>5
  <2>. HIDE DEF w
  <2>. QED BY <2>1
<1>. QED BY <1>6, <1>7 DEF Sum

\* Zeros do not count.
LEMMA SumZeros ==
  ASSUME NEW f, NEW S, IsFiniteSet(S), NEW U \in SUBSET S, \A x \in S : f[x] \in Int, \A x \in S \ U : f[x] = 0
  PROVE  SumFunctionOnSet(f, S) = SumFunctionOnSet(f, U)
<1>. DEFINE Sum(s) == SumFunctionOnSet(f, s)
            T == {n \in Nat : \A s \in SUBSET S : U \subseteq s /\ Cardinality(s) <= n => Sum(s) = Sum(U)}
<1>0. \A s \in SUBSET S : Sum(s) \in Int /\ \A x \in s : Sum(s) = f[x] + Sum(s \ {x})
  <2>1. \A s \in SUBSET S : IsFiniteSet(s) /\ \A x \in s : f[x] \in Int
    BY SubsetFacts
  <2>. QED BY <2>1, SumRemove
<1>. HIDE DEF Sum
<1>1. 0 \in T
  <2>1. \A s \in SUBSET S : Cardinality(s) <= 0 => s = {}
    BY SubsetFacts, FS_EmptySet
  <2>2. \A s \in SUBSET S : U \subseteq s /\ Cardinality(s) <= 0 => s = U
    BY <2>1
  <2>. QED BY <2>2
<1>2. ASSUME NEW n \in Nat, n \in T PROVE n + 1 \in T
  <2>1. ASSUME NEW s \in SUBSET S, U \subseteq s, Cardinality(s) <= n + 1 PROVE Sum(s) = Sum(U)
    <3>1. CASE s = U
      BY <3>1
    <3>2. CASE s # U
      <4>1. PICK x \in s : x \notin U
        BY <2>1, <3>2
      <4>2. s \ {x} \in SUBSET S /\ U \subseteq s \ {x} /\ Cardinality(s \ {x}) <= n
        BY <2>1, <4>1, SmallerSubset, SubsetFacts
      <4>3. Sum(s \ {x}) = Sum(U) /\ Sum(s) = f[x] + Sum(s \ {x}) /\ f[x] = 0 /\ Sum(U) \in Int
        BY <1>0, <1>2, <4>1, <4>2
      <4>. QED BY <4>3
    <3>. QED BY <3>1, <3>2
  <2>. QED BY <2>1
<1>3. Nat \subseteq T
  <2>. HIDE DEF T
  <2>. QED BY <1>1, <1>2, Induction
<1>4. Sum(S) = Sum(U)
  <2>1. S \in SUBSET S /\ U \subseteq S /\ Cardinality(S) \in Nat /\ Cardinality(S) <= Cardinality(S)
    BY FS_CardinalityType
  <2>2. Cardinality(S) \in T
    BY <1>3, <2>1
  <2>. QED BY <2>1, <2>2
<1>. QED BY <1>4 DEF Sum

=============================================================================
