---------------------------- MODULE TotalsProofs ----------------------------
(***************************************************************************)
(* Facts about SumOver, proved from the theorems on cardinalities: sums    *)
(* over disjoint sets add up, a sum depends only on the values in its      *)
(* range, and what happens to it when one value changes.                   *)
(***************************************************************************)
EXTENDS Totals, FiniteSetTheorems, TLAPS

NatValued(f, S) == \A x \in S : f[x] \in Nat

(* The units of one index are as many as its value. *)
LEMMA UnitsOfOne ==
  ASSUME NEW x, NEW n \in Nat
  PROVE  /\ IsFiniteSet({x} \X (1 .. n))
         /\ Cardinality({x} \X (1 .. n)) = n
<1>1. IsFiniteSet(1 .. n) /\ Cardinality(1 .. n) = n
  BY FS_Interval
<1>2. IsFiniteSet({x}) /\ Cardinality({x}) = 1
  BY FS_Singleton
<1> QED
  BY <1>1, <1>2, FS_Product

(* A finite set of indices has finitely many units. *)
LEMMA UnitsFinite ==
  ASSUME NEW S, IsFiniteSet(S), NEW f, NatValued(f, S)
  PROVE  IsFiniteSet(Units(f, S)) /\ SumOver(f, S) \in Nat
<1> DEFINE blocks == {{x} \X (1 .. f[x]) : x \in S}
<1>1. IsFiniteSet(blocks)
  <2> DEFINE block == [x \in S |-> {x} \X (1 .. f[x])]
  <2>1. block \in Surjection(S, blocks)
    BY DEF Surjection
  <2> QED
    BY <2>1, FS_Surjection
<1>2. \A b \in blocks : IsFiniteSet(b)
  <2>1. TAKE b \in blocks
  <2>2. PICK x \in S : b = {x} \X (1 .. f[x])
    BY <2>1
  <2>3. f[x] \in Nat
    BY <2>2 DEF NatValued
  <2> QED
    BY <2>2, <2>3, UnitsOfOne
<1>3. IsFiniteSet(UNION blocks)
  BY <1>1, <1>2, FS_UNION
<1> QED
  BY <1>3, FS_CardinalityType DEF Units, SumOver

\* The sum over no index is zero.
LEMMA SumOfNone ==
  ASSUME NEW f
  PROVE  SumOver(f, {}) = 0
<1>1. Units(f, {}) = {}
  BY DEF Units
<1> QED
  BY <1>1, FS_EmptySet DEF SumOver

\* The sum over one index is the value at it.
LEMMA SumOfOne ==
  ASSUME NEW f, NEW x, f[x] \in Nat
  PROVE  SumOver(f, {x}) = f[x]
<1>1. Units(f, {x}) = {x} \X (1 .. f[x])
  BY DEF Units
<1> QED
  BY <1>1, UnitsOfOne DEF SumOver

(* Sums over disjoint sets of indices add up. *)
LEMMA SumOfUnion ==
  ASSUME NEW S, IsFiniteSet(S), NEW T, IsFiniteSet(T), S \cap T = {},
         NEW f, NatValued(f, S), NatValued(f, T)
  PROVE  SumOver(f, S \cup T) = SumOver(f, S) + SumOver(f, T)
<1>1. Units(f, S \cup T) = Units(f, S) \cup Units(f, T)
  BY DEF Units
<1>2. Units(f, S) \cap Units(f, T) = {}
  BY DEF Units
<1>3. IsFiniteSet(Units(f, S)) /\ IsFiniteSet(Units(f, T))
  BY UnitsFinite
<1>4. Cardinality(Units(f, S) \cap Units(f, T)) = 0
  BY <1>2, FS_EmptySet
<1>5. SumOver(f, S) \in Nat /\ SumOver(f, T) \in Nat
  BY UnitsFinite
<1>6. Cardinality(Units(f, S) \cup Units(f, T))
        = Cardinality(Units(f, S)) + Cardinality(Units(f, T)) - 0
  BY <1>3, <1>4, FS_Union
<1>7. SumOver(f, S \cup T) = SumOver(f, S) + SumOver(f, T) - 0
  BY <1>1, <1>6 DEF SumOver
<1> QED
  BY <1>5, <1>7

(* A sum is determined by the values in its range. *)
LEMMA SumCongruence ==
  ASSUME NEW S, NEW f, NEW g, \A x \in S : f[x] = g[x]
  PROVE  SumOver(f, S) = SumOver(g, S)
<1>1. {{x} \X (1 .. f[x]) : x \in S} = {{x} \X (1 .. g[x]) : x \in S}
  OBVIOUS
<1> QED
  BY <1>1 DEF SumOver, Units

\* The sum of zeros is zero.
LEMMA SumOfZeros ==
  ASSUME NEW S, NEW f, \A x \in S : f[x] = 0
  PROVE  SumOver(f, S) = 0
<1>1. \A x \in S : {x} \X (1 .. f[x]) = {}
  OBVIOUS
<1>2. Units(f, S) = {}
  BY <1>1 DEF Units
<1> QED
  BY <1>2, FS_EmptySet DEF SumOver

(* Take some of the indices out of a sum. *)
LEMMA SumSplit ==
  ASSUME NEW S, IsFiniteSet(S), NEW T, T \subseteq S, NEW f, NatValued(f, S)
  PROVE  /\ SumOver(f, S) = SumOver(f, S \ T) + SumOver(f, T)
         /\ SumOver(f, S) \in Nat
         /\ SumOver(f, S \ T) \in Nat
         /\ SumOver(f, T) \in Nat
<1>1. IsFiniteSet(T) /\ IsFiniteSet(S \ T)
  BY FS_Subset
<1>2. (S \ T) \cap T = {} /\ (S \ T) \cup T = S
  OBVIOUS
<1>3. NatValued(f, T) /\ NatValued(f, S \ T)
  BY DEF NatValued
<1>4. SumOver(f, (S \ T) \cup T) = SumOver(f, S \ T) + SumOver(f, T)
  BY <1>1, <1>2, <1>3, SumOfUnion
<1> QED
  BY <1>1, <1>2, <1>3, <1>4, UnitsFinite

(* Change the value of one index. *)
LEMMA SumChangeOne ==
  ASSUME NEW S, IsFiniteSet(S), NEW x \in S, NEW f, NEW g,
         NatValued(f, S), NatValued(g, S), \A y \in S \ {x} : f[y] = g[y]
  PROVE  SumOver(g, S) = SumOver(f, S) - f[x] + g[x]
<1>1. SumOver(f, S \ {x}) = SumOver(g, S \ {x})
  BY SumCongruence
<1>2. /\ SumOver(f, S) = SumOver(f, S \ {x}) + SumOver(f, {x})
      /\ SumOver(f, S \ {x}) \in Nat
  BY SumSplit
<1>3. SumOver(g, S) = SumOver(g, S \ {x}) + SumOver(g, {x})
  BY SumSplit
<1>4. /\ SumOver(f, {x}) = f[x] /\ f[x] \in Nat
      /\ SumOver(g, {x}) = g[x] /\ g[x] \in Nat
  BY SumOfOne DEF NatValued
<1> QED
  BY <1>1, <1>2, <1>3, <1>4

(* A new index. *)
LEMMA SumAddOne ==
  ASSUME NEW S, IsFiniteSet(S), NEW x, x \notin S, NEW f, NEW g,
         NatValued(f, S), g[x] \in Nat, \A y \in S : f[y] = g[y]
  PROVE  SumOver(g, S \cup {x}) = SumOver(f, S) + g[x]
<1>1. SumOver(g, S) = SumOver(f, S)
  BY SumCongruence
<1>2. SumOver(g, S \cup {x}) = SumOver(g, S) + SumOver(g, {x})
  <2>1. IsFiniteSet({x}) /\ S \cap {x} = {}
    BY FS_Singleton
  <2>2. NatValued(g, S) /\ NatValued(g, {x})
    BY DEF NatValued
  <2> QED
    BY <2>1, <2>2, SumOfUnion
<1> QED
  BY <1>1, <1>2, SumOfOne
=============================================================================
