----------------------------- MODULE FoldLemmas -----------------------------
(***************************************************************************)
(* Facts about the folds of the community modules that the model uses, and *)
(* the induction they rest on.                                             *)
(***************************************************************************)
EXTENDS Naturals, FiniteSets, Sequences, SequencesExt, FiniteSetTheorems,
        WellFoundedInduction, TLAPS

------------------------------------------------------------------------------
(* Induction: a set of counterexamples has a smallest one *)

\* Every set of finite sets has a minimal member.
LEMMA MinimalFiniteSet ==
  ASSUME NEW S, NEW T, T \subseteq FiniteSubsetsOf(S), T # {}
  PROVE  \E x \in T : \A y \in T : ~(y \subseteq x /\ y # x)
<1> DEFINE R == StrictSubsetOrdering(S)
<1>1. IsWellFoundedOn(R, FiniteSubsetsOf(S))
  BY FS_StrictSubsetOrderingWellFounded
<1> HIDE DEF R
<1>2. PICK x \in T : \A y \in T : ~(<<y, x>> \in R)
  BY <1>1, WFMin
<1>3. ASSUME NEW y \in T, y \subseteq x, y # x
      PROVE  <<y, x>> \in R
  <2>1. x \in SUBSET S /\ y \in SUBSET S
    BY DEF FiniteSubsetsOf
  <2> QED
    BY <1>3, <2>1 DEF R, StrictSubsetOrdering
<1>4. \A y \in T : ~(y \subseteq x /\ y # x)
  BY <1>2, <1>3
<1> QED
  BY <1>4

\* Every set of natural numbers has a least member.
LEMMA LeastNatural ==
  ASSUME NEW T \in SUBSET Nat, T # {}
  PROVE  \E x \in T : \A y \in T : x <= y
<1> DEFINE Below == {0..n : n \in T}
<1>1. Below \subseteq FiniteSubsetsOf(Nat)
  <2> SUFFICES ASSUME NEW n \in T PROVE 0..n \in FiniteSubsetsOf(Nat)
    OBVIOUS
  <2>1. n \in Nat
    OBVIOUS
  <2>2. IsFiniteSet(0..n)
    BY <2>1, FS_Interval
  <2>3. 0..n \in SUBSET Nat
    BY <2>1
  <2> QED
    BY <2>2, <2>3 DEF FiniteSubsetsOf
<1>2. Below # {}
  OBVIOUS
<1> HIDE DEF Below
<1>3. PICK b \in Below : \A c \in Below : ~(c \subseteq b /\ c # b)
  BY <1>1, <1>2, MinimalFiniteSet
<1>4. PICK x \in T : b = 0..x
  BY DEF Below
<1>5. ASSUME NEW y \in T, y < x PROVE FALSE
  <2>1. 0..y \subseteq 0..x /\ x \in 0..x /\ x \notin 0..y
    BY <1>5
  <2>2. 0..y \in Below
    BY DEF Below
  <2> QED
    BY <1>3, <1>4, <2>1, <2>2
<1>6. \A y \in T : x <= y
  BY <1>5
<1> QED
  BY <1>6

\* Induction over the naturals, for a set of them.
LEMMA NaturalInduction ==
  ASSUME NEW P \in SUBSET Nat, 0 \in P, \A n \in P : n + 1 \in P
  PROVE  P = Nat
<1> SUFFICES ASSUME Nat \ P # {} PROVE FALSE
  OBVIOUS
<1>1. PICK x \in Nat \ P : \A y \in Nat \ P : x <= y
  BY LeastNatural
<1>2. x # 0 /\ x - 1 \in Nat
  BY <1>1
<1>3. x - 1 \in P
  BY <1>1, <1>2
<1> QED
  BY <1>1, <1>3

\* A nonempty set of the positions of a sequence has a last one.
LEMMA MaxIsMember ==
  ASSUME NEW n \in Nat, NEW s \in SUBSET (1..n), s # {}
  PROVE  Max(s) \in s /\ \A y \in s : Max(s) >= y
<1> DEFINE Bounds == {m \in 0..n : \A y \in s : y <= m}
<1>1. Bounds \in SUBSET Nat /\ n \in Bounds
  OBVIOUS
<1>2. PICK m \in Bounds : \A b \in Bounds : m <= b
  BY <1>1, LeastNatural
<1>3. m \in s
  <2> SUFFICES ASSUME m \notin s PROVE FALSE
    OBVIOUS
  <2>1. m # 0 /\ m - 1 \in 0..n
    <3>1. PICK y \in s : TRUE
      OBVIOUS
    <3>2. y \in 1..n /\ y <= m
      OBVIOUS
    <3> QED
      BY <3>2
  <2>2. \A y \in s : y <= m - 1
    OBVIOUS
  <2> QED
    BY <1>2, <2>1, <2>2
<1> QED
  BY <1>3 DEF Max

\* Induction over the subsets of a finite set: a family of them that has the
\* empty set, and with all s \ {x} also s, has them all.
LEMMA SubsetInduction ==
  ASSUME NEW S, IsFiniteSet(S), NEW Family,
         {} \in Family,
         \A s \in SUBSET S : s # {} /\ (\A x \in s : s \ {x} \in Family) => s \in Family
  PROVE  SUBSET S \subseteq Family
<1> DEFINE T == (SUBSET S) \ Family
<1> SUFFICES ASSUME T # {} PROVE FALSE
  OBVIOUS
<1>1. T \subseteq FiniteSubsetsOf(S)
  BY FS_Subset DEF FiniteSubsetsOf
<1> HIDE DEF T
<1>2. PICK s \in T : \A y \in T : ~(y \subseteq s /\ y # s)
  BY <1>1, MinimalFiniteSet
<1> USE DEF T
<1>3. PICK x \in s : s \ {x} \notin Family
  OBVIOUS
<1>4. s \ {x} \in T
  BY <1>3
<1>5. s \ {x} \subseteq s /\ s \ {x} # s
  OBVIOUS
<1> QED
  BY <1>2, <1>4, <1>5

\* A function takes finitely many values on a finite set.
LEMMA ImageIsFinite ==
  ASSUME NEW S, IsFiniteSet(S), NEW f
  PROVE  IsFiniteSet({f[x] : x \in S})
<1> DEFINE T == {f[x] : x \in S}
           g == [x \in S |-> f[x]]
<1>1. g \in Surjection(S, T)
  BY DEF Surjection
<1> HIDE DEF g, T
<1>2. IsFiniteSet(T)
  BY <1>1, FS_Surjection
<1> QED
  BY <1>2 DEF T

------------------------------------------------------------------------------
(* SumFunction *)

\* A function of sets that is additive is the sum.
LEMMA SumIsAdditive ==
  ASSUME NEW D, IsFiniteSet(D), NEW f \in [D -> Nat], NEW g \in [SUBSET D -> Nat],
         g[{}] = 0,
         \A s \in SUBSET D : \A x \in s : g[s] = f[x] + g[s \ {x}]
  PROVE  SumFunction(f) = g[D]
<1> DEFINE Recursion(h) == h = [s \in SUBSET D |->
             IF s = {} THEN 0 ELSE f[CHOOSE x \in s : TRUE] + h[s \ {CHOOSE x \in s : TRUE}]]
<1>1. SumFunction(f) = (CHOOSE h : Recursion(h))[D]
  BY DEF SumFunction, SumFunctionOnSet, FoldFunctionOnSet, MapThenFoldSet
<1>2. ASSUME NEW s \in SUBSET D, s # {}
      PROVE  (CHOOSE x \in s : TRUE) \in s
  BY <1>2
<1>3. Recursion(g)
  BY <1>2
<1>4. PICK h : Recursion(h) /\ SumFunction(f) = h[D]
  <2> HIDE DEF Recursion
  <2> QED
    BY <1>1, <1>3
<1> DEFINE Same == {s \in SUBSET D : h[s] = g[s]}
<1>5. {} \in Same
  BY <1>4
<1>6. ASSUME NEW s \in SUBSET D, s # {}, \A x \in s : s \ {x} \in Same
      PROVE  s \in Same
  <2>1. PICK x \in s : x = CHOOSE y \in s : TRUE
    BY <1>2, <1>6
  <2>2. h[s] = f[x] + h[s \ {x}]
    BY <1>4, <1>6, <2>1
  <2>3. g[s] = f[x] + g[s \ {x}]
    OBVIOUS
  <2> QED
    BY <1>6, <2>2, <2>3
<1> HIDE DEF Same, Recursion
<1>7. SUBSET D \subseteq Same
  BY <1>5, <1>6, SubsetInduction
<1>8. D \in Same
  BY <1>7
<1> QED
  BY <1>4, <1>8 DEF Same

\* Disjoint sets have as many members together as they have apart.
LEMMA DisjointSizesAdd ==
  ASSUME NEW A, NEW B, IsFiniteSet(A), IsFiniteSet(B), A \cap B = {}
  PROVE  Cardinality(A \cup B) = Cardinality(A) + Cardinality(B)
<1>1. Cardinality(A \cap B) = 0
  BY FS_EmptySet
<1>2. Cardinality(A \cup B) = Cardinality(A) + Cardinality(B) - Cardinality(A \cap B)
  BY FS_Union
<1>3. Cardinality(A) \in Nat /\ Cardinality(B) \in Nat
  BY FS_CardinalityType
<1> QED
  BY <1>1, <1>2, <1>3

\* The sizes of the classes of a set add up to the size of what is in a class.
LEMMA SumOfClasses ==
  ASSUME NEW S, IsFiniteSet(S), NEW Keys, IsFiniteSet(Keys), NEW key, NEW f,
         f = [k \in Keys |-> Cardinality({x \in S : key[x] = k})]
  PROVE  SumFunction(f) = Cardinality({x \in S : key[x] \in Keys})
<1> DEFINE In(s) == {x \in S : key[x] \in s}
           g == [s \in SUBSET Keys |-> Cardinality(In(s))]
<1>1. \A s : IsFiniteSet(In(s)) /\ Cardinality(In(s)) \in Nat
  BY FS_Subset, FS_CardinalityType
<1>2. f \in [Keys -> Nat]
  <2>1. \A k \in Keys : {x \in S : key[x] = k} = In({k})
    OBVIOUS
  <2> QED
    BY <1>1, <2>1
<1>3. g \in [SUBSET Keys -> Nat]
  BY <1>1
<1>4. g[{}] = 0
  <2>1. In({}) = {}
    OBVIOUS
  <2> QED
    BY <2>1, FS_EmptySet
<1>5. ASSUME NEW s \in SUBSET Keys, NEW k \in s
      PROVE  g[s] = f[k] + g[s \ {k}]
  <2>1. In(s) = In({k}) \cup In(s \ {k}) /\ In({k}) \cap In(s \ {k}) = {}
    OBVIOUS
  <2>2. In({k}) = {x \in S : key[x] = k}
    OBVIOUS
  <2>3. Cardinality(In(s)) = Cardinality(In({k})) + Cardinality(In(s \ {k}))
    <3>1. IsFiniteSet(In({k})) /\ IsFiniteSet(In(s \ {k}))
      BY <1>1
    <3> HIDE DEF In
    <3> QED
      BY <2>1, <3>1, DisjointSizesAdd
  <2> QED
    BY <2>2, <2>3
<1> HIDE DEF g
<1>6. SumFunction(f) = g[Keys]
  BY ONLY IsFiniteSet(Keys), <1>2, <1>3, <1>4, <1>5, SumIsAdditive
<1> QED
  BY <1>6 DEF g
==============================================================================
