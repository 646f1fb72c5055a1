----------------------------- MODULE KeysetPages -----------------------------
(***************************************************************************)
(* Lemmas about a keyset scan (ListJobsByIDAfter): the ids of a finite set *)
(* that come after n, in order, as many as the batch holds.                *)
(***************************************************************************)
EXTENDS Naturals, FiniteSets, FiniteSetTheorems, WellFoundedInduction, TLAPS

KeysetPage(S, n, size) ==
  LET rest == {i \in S : i > n}
  IN {i \in rest : Cardinality({k \in rest : k < i}) < size}

-----------------------------------------------------------------------------
(* A set of numbers has a least one, and a finite one has a greatest.      *)

LEMMA LeastOf ==
  ASSUME NEW S \in SUBSET Nat, S # {}
  PROVE  \E x \in S : \A y \in S : x <= y
<1> DEFINE R == {p \in Nat \X Nat : p[1] < p[2]}
<1>1. IsWellFoundedOn(R, Nat)
  BY NatLessThanWellFounded DEF OpToRel
<1>2. \A y, x \in Nat : y < x => <<y, x>> \in R
  OBVIOUS
<1> HIDE DEF R
<1>3. \E x \in S : \A y \in S : ~(<<y, x>> \in R)
  BY <1>1, WFMin
<1>4. \A x \in S : x \in Nat
  OBVIOUS
<1>5. \A x, y \in Nat : ~(y < x) => x <= y
  OBVIOUS
<1> QED BY <1>2, <1>3, <1>4, <1>5

(* The greatest is the one with nothing above it.                          *)
LEMMA GreatestOf ==
  ASSUME NEW S \in SUBSET Nat, S # {}, IsFiniteSet(S)
  PROVE  \E x \in S : \A y \in S : y <= x
<1> DEFINE Above(x) == {y \in S : y > x}
           Sizes == {Cardinality(Above(x)) : x \in S}
<1>1. \A x \in S : IsFiniteSet(Above(x)) /\ Cardinality(Above(x)) \in Nat
  BY FS_Subset, FS_CardinalityType
<1>2. PICK c \in Sizes : \A d \in Sizes : c <= d
  <2>1. Sizes \in SUBSET Nat /\ Sizes # {}
    BY <1>1
  <2> HIDE DEF Sizes
  <2> QED BY <2>1, LeastOf
<1>3. PICK x \in S : c = Cardinality(Above(x))
  OBVIOUS
<1>4. Above(x) = {}
  <2> SUFFICES ASSUME NEW y \in Above(x) PROVE FALSE
    OBVIOUS
  <2>1. Above(y) \subseteq Above(x) /\ y \in Above(x) /\ y \notin Above(y) /\ y \in S
    <3>1. \A z \in S : z \in Nat
      OBVIOUS
    <3>2. y \in S /\ y > x /\ x \in Nat /\ y \in Nat
      BY <3>1
    <3>3. \A z \in Nat : z > y => z > x
      BY <3>2
    <3>4. ~(y > y)
      BY <3>2
    <3> QED BY <3>1, <3>2, <3>3, <3>4
  <2>2. Cardinality(Above(x)) <= Cardinality(Above(y))
    <3>1. Cardinality(Above(y)) \in Sizes
      BY <2>1
    <3> QED BY <1>2, <1>3, <3>1
  <2> HIDE DEF Above
  <2>3. Cardinality(Above(y)) < Cardinality(Above(x))
    BY <1>1, <2>1, FS_Subset
  <2> QED BY <1>1, <2>1, <2>2, <2>3
<1> QED BY <1>4

-----------------------------------------------------------------------------
(* A page holds a row if it holds a later one, is empty only if there are  *)
(* no more rows, and short only if it holds all that are left.             *)
LEMMA PageOfSet ==
  ASSUME NEW S, S \subseteq Nat, IsFiniteSet(S), NEW n \in Nat, NEW size \in Nat \ {0},
         NEW ids, ids = KeysetPage(S, n, size)
  PROVE  LET m == CHOOSE x \in ids : \A i \in ids : i <= x
         IN /\ ids \subseteq S
            /\ \A i \in ids : i > n
            /\ ids = {} => \A i \in S : i <= n
            /\ ids # {} => /\ m \in ids /\ m \in Nat
                           /\ \A i \in ids : i <= m
                           /\ \A i \in S : i > n /\ i <= m => i \in ids
            /\ Cardinality(ids) < size => \A i \in S : i > n => i \in ids
<1> DEFINE rest == {i \in S : i > n}
           Below(i) == {k \in rest : k < i}
           m == CHOOSE x \in ids : \A i \in ids : i <= x
<1>1. S \subseteq Nat /\ IsFiniteSet(rest) /\ rest \subseteq Nat
  BY FS_Subset
<1>2. ids = {i \in rest : Cardinality(Below(i)) < size}
  BY DEF KeysetPage
<1>3. \A i \in rest : IsFiniteSet(Below(i)) /\ Cardinality(Below(i)) \in Nat
  BY <1>1, FS_Subset, FS_CardinalityType
<1>4. \A i, k \in rest : k <= i => Below(k) \subseteq Below(i)
  BY <1>1
<1>5. size \in Nat \ {0}
  OBVIOUS
<1> HIDE DEF Below
<1>6. \A i, k \in rest : k <= i => Cardinality(Below(k)) <= Cardinality(Below(i))
  BY <1>3, <1>4, FS_Subset
<1>7. \A i \in ids, k \in rest : k <= i => k \in ids
  BY <1>2, <1>3, <1>5, <1>6
<1>8. rest # {} => ids # {}
  <2> SUFFICES ASSUME rest # {} PROVE ids # {}
    OBVIOUS
  <2>1. PICK x \in rest : \A y \in rest : x <= y
    <3> HIDE DEF rest
    <3> QED BY <1>1, LeastOf
  <2>2. Below(x) = {}
    BY <1>1, <2>1 DEF Below
  <2>3. Cardinality(Below(x)) = 0
    BY <2>2, FS_EmptySet
  <2> HIDE DEF rest
  <2>4. Cardinality(Below(x)) < size
    BY <1>5, <2>3
  <2>5. x \in ids
    BY ONLY <1>2, <2>1, <2>4
  <2> QED BY <2>5
<1>9. Cardinality(ids) < size => rest \subseteq ids
  <2> SUFFICES ASSUME Cardinality(ids) < size, NEW x \in rest, x \notin ids PROVE FALSE
    OBVIOUS
  <2>1. PICK y \in rest \ ids : \A z \in rest \ ids : y <= z
    <3>1. rest \ ids \in SUBSET Nat /\ rest \ ids # {}
      BY <1>1
    <3> HIDE DEF rest
    <3> QED BY <3>1, LeastOf
  <2>2. Below(y) \subseteq ids
    BY <1>1, <2>1 DEF Below
  <2>3. IsFiniteSet(ids) /\ Cardinality(ids) \in Nat
    <3>1. ids \subseteq rest
      BY <1>2
    <3> QED BY <1>1, <3>1, FS_Subset, FS_CardinalityType
  <2>4. Cardinality(Below(y)) <= Cardinality(ids)
    BY <2>2, <2>3, FS_Subset
  <2> QED BY <1>2, <1>3, <1>5, <2>1, <2>3, <2>4
<1>10. ids # {} => m \in ids /\ \A i \in ids : i <= m
  <2> SUFFICES ASSUME ids # {} PROVE m \in ids /\ \A i \in ids : i <= m
    OBVIOUS
  <2>1. ids \in SUBSET Nat /\ IsFiniteSet(ids)
    BY <1>1, <1>2, FS_Subset
  <2>2. \E x \in ids : \A y \in ids : y <= x
    BY <2>1, GreatestOf
  <2> QED BY <2>2
<1> HIDE DEF m
<1>11. ids \subseteq rest
  BY <1>2
<1>12. \A i \in S : i > n \/ i <= n
  BY <1>1
<1> QED BY <1>1, <1>7, <1>8, <1>9, <1>10, <1>11, <1>12 DEF m
=============================================================================
