-------------------------------- MODULE Sums --------------------------------
(***************************************************************************)
(* Facts about MapThenSumSet, the operator behind the days of a set of     *)
(* leave requests and the amount of a set of loan instalments.             *)
(*                                                                         *)
(* A sum of natural numbers is the number of its units: an element x of    *)
(* the set stands for the pairs <<x, n>> with n in 1..f[x].  Only one      *)
(* function satisfies the recursion of the sum, and the count of units     *)
(* does; the rest follows from the cardinality of finite sets.             *)
(***************************************************************************)
EXTENDS Integers, FiniteSetsExt, FiniteSetTheorems, TLAPS

\* The sum of f over S, as the models write it.
SumOf(f, S) == MapThenSumSet(LAMBDA x : f[x], S)

\* The units that the elements of S stand for.
UnitsOf(f, x) == {x} \X (1..f[x])
Units(f, S) == UNION {UnitsOf(f, x) : x \in S}

AnyOf(S) == CHOOSE x \in S : TRUE

\* The recursion that defines the sum, on a set and its subsets.
SumsTo(g, f, S) ==
    g = [s \in SUBSET S |-> IF s = {} THEN 0 ELSE f[AnyOf(s)] + g[s \ {AnyOf(s)}]]

LEMMA SumIsRecursive ==
    ASSUME NEW f, NEW S
    PROVE  SumOf(f, S) = (CHOOSE g : SumsTo(g, f, S))[S]
BY DEF SumOf, MapThenSumSet, MapThenFoldSet, SumsTo, AnyOf

-----------------------------------------------------------------------------
(* Units are finitely many, and those of different elements are disjoint.  *)

LEMMA UnitsOfOne ==
    ASSUME NEW f, NEW x, f[x] \in Nat
    PROVE  IsFiniteSet(UnitsOf(f, x)) /\ Cardinality(UnitsOf(f, x)) = f[x]
<1>1. IsFiniteSet({x}) /\ Cardinality({x}) = 1
  BY FS_Singleton
<1>2. IsFiniteSet(1..f[x]) /\ Cardinality(1..f[x]) = f[x]
  <2>1. IsFiniteSet(1..f[x]) /\ Cardinality(1..f[x]) = IF 1 > f[x] THEN 0 ELSE f[x] - 1 + 1
    BY FS_Interval
  <2> QED
    BY <2>1
<1>3. IsFiniteSet({x} \X (1..f[x])) /\ Cardinality({x} \X (1..f[x])) = 1 * f[x]
  BY <1>1, <1>2, FS_Product
<1> QED
  BY <1>3 DEF UnitsOf

LEMMA UnitsFinite ==
    ASSUME NEW f, NEW S, IsFiniteSet(S), \A x \in S : f[x] \in Nat
    PROVE  IsFiniteSet(Units(f, S))
<1> DEFINE u == [x \in S |-> UnitsOf(f, x)]
           T == {UnitsOf(f, x) : x \in S}
<1>1. u \in Surjection(S, T)
  BY DEF Surjection
<1>2. IsFiniteSet(T)
  BY <1>1, FS_Surjection
<1>3. \A t \in T : IsFiniteSet(t)
  BY UnitsOfOne
<1> QED
  BY <1>2, <1>3, FS_UNION DEF Units

LEMMA UnitsDisjoint ==
    ASSUME NEW f, NEW S, NEW T, S \cap T = {}
    PROVE  Units(f, S) \cap Units(f, T) = {} /\ Units(f, S \cup T) = Units(f, S) \cup Units(f, T)
BY DEF Units, UnitsOf

\* The count of the units of two sets that share nothing.
LEMMA CountOfUnion ==
    ASSUME NEW f, NEW S, NEW T, IsFiniteSet(S), IsFiniteSet(T), S \cap T = {},
           \A x \in S \cup T : f[x] \in Nat
    PROVE  Cardinality(Units(f, S \cup T)) = Cardinality(Units(f, S)) + Cardinality(Units(f, T))
<1>1. IsFiniteSet(Units(f, S)) /\ IsFiniteSet(Units(f, T))
  BY UnitsFinite
<1>2. Cardinality(Units(f, S) \cup Units(f, T))
      = Cardinality(Units(f, S)) + Cardinality(Units(f, T))
        - Cardinality(Units(f, S) \cap Units(f, T))
  BY <1>1, FS_Union
<1>3. Cardinality(Units(f, S) \cap Units(f, T)) = 0
  BY UnitsDisjoint, FS_EmptySet
<1>4. Cardinality(Units(f, S)) \in Nat /\ Cardinality(Units(f, T)) \in Nat
  BY <1>1, FS_CardinalityType
<1>5. Units(f, S \cup T) = Units(f, S) \cup Units(f, T)
  BY UnitsDisjoint
<1>6. Cardinality(Units(f, S) \cup Units(f, T))
      = Cardinality(Units(f, S)) + Cardinality(Units(f, T))
  BY <1>2, <1>3, <1>4
<1> QED
  BY <1>5, <1>6

LEMMA CountOfSingle ==
    ASSUME NEW f, NEW x, f[x] \in Nat
    PROVE  Cardinality(Units(f, {x})) = f[x]
<1>1. Units(f, {x}) = UnitsOf(f, x)
  BY DEF Units
<1> QED
  BY <1>1, UnitsOfOne

-----------------------------------------------------------------------------
(* The sum is the count.                                                   *)

LEMMA CountSums ==
    ASSUME NEW f, NEW S, IsFiniteSet(S), \A x \in S : f[x] \in Nat
    PROVE  SumsTo([s \in SUBSET S |-> Cardinality(Units(f, s))], f, S)
<1> DEFINE count == [s \in SUBSET S |-> Cardinality(Units(f, s))]
<1>1. ASSUME NEW s \in SUBSET S
      PROVE  count[s] = IF s = {} THEN 0 ELSE f[AnyOf(s)] + count[s \ {AnyOf(s)}]
  <2>1. CASE s = {}
    <3>1. Units(f, {}) = {}
      BY DEF Units
    <3> QED
      BY <2>1, <3>1, FS_EmptySet
  <2>2. CASE s # {}
    <3> DEFINE x == AnyOf(s)
    <3>1. x \in s
      BY <2>2 DEF AnyOf
    <3> HIDE DEF x
    <3>2. IsFiniteSet(s \ {x}) /\ IsFiniteSet({x})
      <4>1. IsFiniteSet(s)
        BY FS_Subset
      <4> QED
        BY <4>1, FS_RemoveElement, FS_Singleton
    <3>3. (s \ {x}) \cup {x} = s /\ (s \ {x}) \cap {x} = {}
      BY <3>1
    <3>4. Cardinality(Units(f, s)) = Cardinality(Units(f, s \ {x})) + Cardinality(Units(f, {x}))
      <4>1. \A y \in (s \ {x}) \cup {x} : f[y] \in Nat
        BY <3>3
      <4>2. Cardinality(Units(f, (s \ {x}) \cup {x}))
            = Cardinality(Units(f, s \ {x})) + Cardinality(Units(f, {x}))
        BY <3>2, <3>3, <4>1, CountOfUnion
      <4> QED
        BY <3>3, <4>2
    <3>5. Cardinality(Units(f, {x})) = f[x]
      BY <3>1, CountOfSingle
    <3>6. Cardinality(Units(f, s \ {x})) \in Nat
      BY <3>2, UnitsFinite, FS_CardinalityType
    <3>7. count[s] = f[x] + count[s \ {x}]
      BY <3>1, <3>4, <3>5, <3>6
    <3> QED
      BY <2>2, <3>7 DEF x
  <2> QED
    BY <2>1, <2>2
<1> QED
  BY <1>1 DEF SumsTo

\* Two functions with the recursion agree: a smallest set on which they differ is not
\* empty, and on what is left of it without one element they agree.
LEMMA SumsToUnique ==
    ASSUME NEW f, NEW S, IsFiniteSet(S), NEW g, NEW h, SumsTo(g, f, S), SumsTo(h, f, S)
    PROVE  g[S] = h[S]
<1> DEFINE Differ == {s \in SUBSET S : g[s] # h[s]}
<1> SUFFICES ASSUME Differ # {}
             PROVE  FALSE
  OBVIOUS
<1>1. Differ \subseteq FiniteSubsetsOf(S)
  BY FS_FiniteSubsetsOfFinite
<1>2. PICK s \in Differ : \A t \in Differ : <<t, s>> \notin StrictSubsetOrdering(S)
  <2>1. IsWellFoundedOn(StrictSubsetOrdering(S), FiniteSubsetsOf(S))
    BY FS_StrictSubsetOrderingWellFounded
  <2> QED
    BY <1>1, <2>1, WFMin
<1>3. g[s] = (IF s = {} THEN 0 ELSE f[AnyOf(s)] + g[s \ {AnyOf(s)}])
  BY <1>2 DEF SumsTo
<1>4. h[s] = (IF s = {} THEN 0 ELSE f[AnyOf(s)] + h[s \ {AnyOf(s)}])
  BY <1>2 DEF SumsTo
<1>5. s # {} /\ AnyOf(s) \in s
  BY <1>2, <1>3, <1>4 DEF AnyOf
<1>6. s \ {AnyOf(s)} \notin Differ
  BY <1>2, <1>5 DEF StrictSubsetOrdering
<1> QED
  BY <1>2, <1>3, <1>4, <1>6

\* The sum over a finite set is the number of units of its elements.
THEOREM SumIsCount ==
    ASSUME NEW f, NEW S, IsFiniteSet(S), \A x \in S : f[x] \in Nat
    PROVE  SumOf(f, S) = Cardinality(Units(f, S))
<1> DEFINE count == [s \in SUBSET S |-> Cardinality(Units(f, s))]
           sum == CHOOSE g : SumsTo(g, f, S)
<1>1. SumsTo(count, f, S)
  BY CountSums
<1> HIDE DEF count
<1>2. SumsTo(sum, f, S)
  BY <1>1
<1> HIDE DEF sum
<1>3. sum[S] = count[S]
  BY <1>1, <1>2, SumsToUnique
<1>4. SumOf(f, S) = sum[S]
  BY SumIsRecursive DEF sum
<1> QED
  BY <1>3, <1>4 DEF count

-----------------------------------------------------------------------------
(* What the proofs cite.                                                   *)

LEMMA SumType ==
    ASSUME NEW f, NEW S, IsFiniteSet(S), \A x \in S : f[x] \in Nat
    PROVE  SumOf(f, S) \in Nat
BY SumIsCount, UnitsFinite, FS_CardinalityType

LEMMA SumEmpty ==
    ASSUME NEW f
    PROVE  SumOf(f, {}) = 0
<1>1. IsFiniteSet({}) /\ Units(f, {}) = {}
  BY FS_EmptySet DEF Units
<1> QED
  BY <1>1, SumIsCount, FS_EmptySet

\* A set in two parts: the sum over it is the sum over both.
LEMMA SumOfUnion ==
    ASSUME NEW f, NEW S, NEW T, IsFiniteSet(S), IsFiniteSet(T), S \cap T = {},
           \A x \in S \cup T : f[x] \in Nat
    PROVE  SumOf(f, S \cup T) = SumOf(f, S) + SumOf(f, T)
<1>1. IsFiniteSet(S \cup T)
  BY FS_Union
<1> QED
  BY <1>1, SumIsCount, CountOfUnion

LEMMA SumOfPart ==
    ASSUME NEW f, NEW S, IsFiniteSet(S), \A x \in S : f[x] \in Nat, NEW T \in SUBSET S
    PROVE  SumOf(f, S \ T) = SumOf(f, S) - SumOf(f, T)
<1>1. IsFiniteSet(T) /\ IsFiniteSet(S \ T)
  BY FS_Subset, FS_Difference
<1>2. (S \ T) \cup T = S /\ (S \ T) \cap T = {}
  OBVIOUS
<1>3. SumOf(f, (S \ T) \cup T) = SumOf(f, S \ T) + SumOf(f, T)
  <2>1. \A x \in (S \ T) \cup T : f[x] \in Nat
    BY <1>2
  <2> QED
    BY <1>1, <1>2, <2>1, SumOfUnion
<1>4. SumOf(f, T) \in Nat /\ SumOf(f, S \ T) \in Nat
  BY <1>1, SumType
<1>5. SumOf(f, S) = SumOf(f, S \ T) + SumOf(f, T)
  BY <1>2, <1>3
<1> QED
  BY <1>4, <1>5

LEMMA SumWith ==
    ASSUME NEW f, NEW S, IsFiniteSet(S), NEW x, x \notin S,
           \A y \in S : f[y] \in Nat, f[x] \in Nat
    PROVE  SumOf(f, S \cup {x}) = SumOf(f, S) + f[x]
<1>1. IsFiniteSet({x}) /\ S \cap {x} = {} /\ \A y \in S \cup {x} : f[y] \in Nat
  BY FS_Singleton
<1>2. SumOf(f, {x}) = f[x]
  BY <1>1, SumIsCount, CountOfSingle
<1>3. SumOf(f, S \cup {x}) = SumOf(f, S) + SumOf(f, {x})
  BY <1>1, SumOfUnion
<1> QED
  BY <1>2, <1>3

LEMMA SumWithout ==
    ASSUME NEW f, NEW S, IsFiniteSet(S), NEW x \in S, \A y \in S : f[y] \in Nat
    PROVE  SumOf(f, S \ {x}) = SumOf(f, S) - f[x]
<1>1. SumOf(f, {x}) = f[x]
  <2>1. IsFiniteSet({x}) /\ \A y \in {x} : f[y] \in Nat
    BY FS_Singleton
  <2> QED
    BY <2>1, SumIsCount, CountOfSingle
<1>2. SumOf(f, S \ {x}) = SumOf(f, S) - SumOf(f, {x})
  BY SumOfPart
<1> QED
  BY <1>1, <1>2

\* A part never comes to more than the whole, and a sum of positive numbers is zero
\* only over the empty set.
LEMMA SumOfPartIsLess ==
    ASSUME NEW f, NEW S, IsFiniteSet(S), \A x \in S : f[x] \in Nat, NEW T \in SUBSET S
    PROVE  SumOf(f, T) <= SumOf(f, S)
<1>1. IsFiniteSet(T) /\ IsFiniteSet(S \ T)
  BY FS_Subset, FS_Difference
<1>2. SumOf(f, S) \in Nat /\ SumOf(f, T) \in Nat /\ SumOf(f, S \ T) \in Nat
  BY <1>1, SumType
<1> QED
  BY <1>2, SumOfPart

LEMMA SumIsPositive ==
    ASSUME NEW f, NEW S, IsFiniteSet(S), \A x \in S : f[x] \in Nat \ {0}
    PROVE  SumOf(f, S) = 0 <=> S = {}
<1>1. ASSUME S # {}
      PROVE  SumOf(f, S) # 0
  <2>1. PICK x \in S : TRUE
    BY <1>1
  <2>2. SumOf(f, S \ {x}) = SumOf(f, S) - f[x]
    BY SumWithout
  <2>3. SumOf(f, S \ {x}) \in Nat /\ SumOf(f, S) \in Nat
    BY SumType, FS_RemoveElement
  <2> QED
    BY <2>2, <2>3
<1> QED
  BY <1>1, SumEmpty
=============================================================================
