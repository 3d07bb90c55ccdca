------------------------------ MODULE Positions ------------------------------
(* Positions of sequences: the first and the last of some, how many there   *)
(* are.                                                                    *)
EXTENDS Integers, FiniteSetsExt, FiniteSetTheorems, TLAPS

(* Max, of a set of positions that is not empty, is one of them.            *)
LEMMA MaxIsMember ==
  ASSUME NEW n \in Nat, NEW S \in SUBSET (1..n), S # {}
  PROVE  /\ Max(S) \in S
         /\ \A i \in S : i <= Max(S)
<1> DEFINE gaps == {n - i : i \in S}
<1>1. gaps \subseteq Nat /\ gaps # {}
  <2>1. \A i \in S : n - i \in Nat
    OBVIOUS
  <2> QED
    BY <2>1
<1>2. PICK g \in gaps : \A h \in gaps : ~ <<h, g>> \in OpToRel(<, Nat)
  BY <1>1, NatLessThanWellFounded, WFMin
<1>3. PICK m \in S : g = n - m
  BY <1>2
<1>4. \A i \in S : i <= m
  <2> SUFFICES ASSUME NEW i \in S PROVE i <= m
    OBVIOUS
  <2>1. n - i \in gaps
    OBVIOUS
  <2>2. ~ (n - i < n - m)
    BY <1>1, <1>2, <1>3, <2>1 DEF OpToRel
  <2> QED
    BY <2>2
<1>5. Max(S) \in S /\ \A y \in S : Max(S) >= y
  BY <1>4 DEF Max
<1> QED
  BY <1>5

(* So is Min, of a set of numbers.                                          *)
LEMMA MinIsMember ==
  ASSUME NEW S \in SUBSET Nat, S # {}
  PROVE  Min(S) \in S
<1>1. PICK m \in S : \A i \in S : ~ <<i, m>> \in OpToRel(<, Nat)
  BY NatLessThanWellFounded, WFMin
<1>2. \A i \in S : m <= i
  <2> SUFFICES ASSUME NEW i \in S PROVE m <= i
    OBVIOUS
  <2>1. ~ (i < m)
    BY <1>1 DEF OpToRel
  <2> QED
    BY <2>1
<1> QED
  BY <1>2 DEF Min

(* Two finite sets with nothing in common count together what each counts.  *)
LEMMA DisjointCount ==
  ASSUME NEW S, NEW T, IsFiniteSet(S), IsFiniteSet(T), S \cap T = {}
  PROVE  /\ IsFiniteSet(S \cup T)
         /\ Cardinality(S) \in Nat /\ Cardinality(T) \in Nat
         /\ Cardinality(S \cup T) = Cardinality(S) + Cardinality(T)
<1>1. Cardinality(S) \in Nat /\ Cardinality(T) \in Nat
  BY FS_CardinalityType
<1>2. Cardinality(S \cap T) = 0
  BY FS_EmptySet
<1>3. /\ IsFiniteSet(S \cup T)
      /\ Cardinality(S \cup T) = Cardinality(S) + Cardinality(T) - Cardinality(S \cap T)
  BY FS_Union
<1> QED
  BY <1>1, <1>2, <1>3

(* Where f has the value v.                                                 *)
Fibre(f, v) == {a \in DOMAIN f : f[a] = v}

AsOften(f, g, V) == \A v \in V : Cardinality(Fibre(f, v)) = Cardinality(Fibre(g, v))

(* Two finite sets are as large when each value is taken as often on both.   *)
LEMMA SameFibres ==
  ASSUME NEW A, NEW B, NEW V, IsFiniteSet(A), IsFiniteSet(B),
         NEW f, NEW g, f \in Surjection(A, V), g \in [B -> V], AsOften(f, g, V)
  PROVE  Cardinality(A) = Cardinality(B)
<1> DEFINE InA(T) == {a \in A : f[a] \in T}
           InB(T) == {b \in B : g[b] \in T}
           odd == {T \in SUBSET V : Cardinality(InA(T)) # Cardinality(InB(T))}
<1>1. IsFiniteSet(V)
  BY FS_Surjection
<1>2. \A T : IsFiniteSet(InA(T)) /\ IsFiniteSet(InB(T))
  BY FS_Subset
<1>3. odd = {}
  <2> SUFFICES ASSUME odd # {} PROVE FALSE
    OBVIOUS
  <2>1. odd \subseteq FiniteSubsetsOf(V)
    BY <1>1, FS_FiniteSubsetsOfFinite
  <2>2. IsWellFoundedOn(StrictSubsetOrdering(V), FiniteSubsetsOf(V))
    BY FS_StrictSubsetOrderingWellFounded
  <2>3. PICK T \in odd : \A S \in odd : ~ (<<S, T>> \in StrictSubsetOrdering(V))
    BY <2>1, <2>2, WFMin
  <2>4. T # {}
    BY <2>3, FS_EmptySet
  <2>5. PICK v \in T : TRUE
    BY <2>4
  <2> DEFINE S == T \ {v}
  <2>6. Cardinality(InA(S)) = Cardinality(InB(S))
    <3>1. T \in SUBSET V /\ S \in SUBSET V /\ S \subseteq T /\ S # T
      BY <2>3, <2>5
    <3>2. <<S, T>> \in StrictSubsetOrdering(V)
      BY <3>1 DEF StrictSubsetOrdering
    <3>3. S \notin odd
      BY <2>3, <3>2
    <3> QED
      BY <3>1, <3>3
  <2>7. /\ InA(T) = InA(S) \cup InA({v}) /\ InA(S) \cap InA({v}) = {}
        /\ InB(T) = InB(S) \cup InB({v}) /\ InB(S) \cap InB({v}) = {}
    BY <2>5
  <2>8. Cardinality(InA({v})) = Cardinality(InB({v}))
    <3>1. InA({v}) = Fibre(f, v) /\ InB({v}) = Fibre(g, v)
      BY DEF Fibre, Surjection
    <3> QED
      BY <2>3, <2>5, <3>1 DEF AsOften
  <2> HIDE DEF InA, InB, S
  <2>9. /\ Cardinality(InA(T)) = Cardinality(InA(S)) + Cardinality(InA({v}))
        /\ Cardinality(InB(T)) = Cardinality(InB(S)) + Cardinality(InB({v}))
    BY <1>2, <2>7, DisjointCount
  <2> QED
    BY <2>3, <2>6, <2>8, <2>9
<1>4. InA(V) = A /\ InB(V) = B
  BY DEF Surjection
<1> QED
  BY <1>3, <1>4
=============================================================================
