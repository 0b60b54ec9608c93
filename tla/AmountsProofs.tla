---------------------------- MODULE AmountsProofs ----------------------------
(***************************************************************************)
(* What sums do: the total of a function that is split, extended or        *)
(* changed in one place.                                                   *)
(***************************************************************************)
EXTENDS Amounts, FiniteSetTheorems, TLAPS

\* A unit is one of its place.
LEMMA UnitsAre ==
  ASSUME NEW S, NEW w \in [S -> Nat]
  PROVE  \A u : u \in Units(w) <=> \E x \in S : u \in {x} \X (1 .. w[x])
BY DEF Units

\* A total is a number, and the units of a finite domain are a finite set.
LEMMA TotalIsNat ==
  ASSUME NEW S, IsFiniteSet(S), NEW w \in [S -> Nat]
  PROVE  IsFiniteSet(Units(w)) /\ Total(w) \in Nat
<1> DEFINE parts == {{x} \X (1 .. w[x]) : x \in S}
           f == [x \in S |-> {x} \X (1 .. w[x])]
<1>1. f \in Surjection(S, parts)
  BY DEF Surjection
<1>2. IsFiniteSet(parts)
  BY <1>1, FS_Surjection
<1>3. ASSUME NEW T \in parts PROVE IsFiniteSet(T)
  <2>1. PICK x \in S : T = {x} \X (1 .. w[x])
    OBVIOUS
  <2>2. IsFiniteSet({x})
    BY FS_Singleton
  <2>3. w[x] \in Nat
    OBVIOUS
  <2>4. IsFiniteSet(1 .. w[x])
    BY <2>3, FS_Interval
  <2> QED BY <2>1, <2>2, <2>4, FS_Product
<1>4. Units(w) = UNION parts
  BY DEF Units
<1> HIDE DEF parts
<1>5. IsFiniteSet(Units(w))
  BY <1>2, <1>3, <1>4, FS_UNION
<1> QED BY <1>5, FS_CardinalityType DEF Total

\* The total of nothing, and of one place.
LEMMA TotalOfNone ==
  ASSUME NEW w \in [{} -> Nat]
  PROVE  Total(w) = 0
<1>1. Units(w) = {}
  BY DEF Units
<1> QED BY <1>1, FS_EmptySet DEF Total

LEMMA TotalOfOne ==
  ASSUME NEW x, NEW w \in [{x} -> Nat]
  PROVE  Total(w) = w[x]
<1>1. Units(w) = {x} \X (1 .. w[x])
  BY UnitsAre
<1>2. IsFiniteSet({x}) /\ Cardinality({x}) = 1
  BY FS_Singleton
<1>3. IsFiniteSet(1 .. w[x]) /\ Cardinality(1 .. w[x]) = w[x]
  BY FS_Interval
<1>4. Cardinality({x} \X (1 .. w[x])) = Cardinality({x}) * Cardinality(1 .. w[x])
  BY <1>2, <1>3, FS_Product
<1>5. Cardinality(Units(w)) = 1 * w[x]
  BY <1>1, <1>2, <1>3, <1>4
<1>6. w[x] \in Nat
  OBVIOUS
<1> QED BY <1>5, <1>6 DEF Total

\* The total of some places and of the others.
LEMMA TotalSplits ==
  ASSUME NEW S, IsFiniteSet(S), NEW w \in [S -> Nat], NEW T \in SUBSET S
  PROVE  /\ Total(w) = Total([x \in T |-> w[x]]) + Total([x \in S \ T |-> w[x]])
         /\ Total([x \in T |-> w[x]]) \in Nat /\ Total([x \in S \ T |-> w[x]]) \in Nat
<1> DEFINE a == [x \in T |-> w[x]]
           b == [x \in S \ T |-> w[x]]
<1>1. a \in [T -> Nat] /\ b \in [S \ T -> Nat]
  OBVIOUS
<1>2. IsFiniteSet(T) /\ IsFiniteSet(S \ T)
  BY FS_Subset, FS_Difference
<1>3. IsFiniteSet(Units(a)) /\ IsFiniteSet(Units(b)) /\ Total(a) \in Nat /\ Total(b) \in Nat
  BY <1>1, <1>2, TotalIsNat
<1>4. /\ \A u : u \in Units(w) <=> \E x \in S : u \in {x} \X (1 .. w[x])
      /\ \A u : u \in Units(a) <=> \E x \in T : u \in {x} \X (1 .. w[x])
      /\ \A u : u \in Units(b) <=> \E x \in S \ T : u \in {x} \X (1 .. w[x])
  BY DEF Units
<1> HIDE DEF a, b
<1>5. Units(w) = Units(a) \cup Units(b)
  BY <1>4
<1>6. Units(a) \cap Units(b) = {}
  BY <1>4
<1>7. Cardinality(Units(w)) = Cardinality(Units(a)) + Cardinality(Units(b)) - 0
  BY <1>3, <1>5, <1>6, FS_Union, FS_EmptySet
<1>8. Total(w) = Total(a) + Total(b)
  BY <1>3, <1>7 DEF Total
<1> QED BY <1>3, <1>8 DEF a, b

\* One place more.
LEMMA TotalGrows ==
  ASSUME NEW S, IsFiniteSet(S), NEW x, x \notin S, NEW w \in [S \cup {x} -> Nat]
  PROVE  Total(w) = Total([y \in S |-> w[y]]) + w[x]
<1>1. IsFiniteSet(S \cup {x})
  BY FS_AddElement
<1>2. Total(w) = Total([y \in S |-> w[y]]) + Total([y \in (S \cup {x}) \ S |-> w[y]])
  BY <1>1, TotalSplits
<1>3. (S \cup {x}) \ S = {x}
  OBVIOUS
<1> DEFINE one == [y \in {x} |-> w[y]]
<1>4. one \in [{x} -> Nat] /\ one[x] = w[x]
  OBVIOUS
<1> HIDE DEF one
<1>5. Total(one) = w[x]
  BY <1>4, TotalOfOne
<1> QED BY <1>2, <1>3, <1>5 DEF one

\* One place on its own, and the others.
LEMMA TotalAt ==
  ASSUME NEW S, IsFiniteSet(S), NEW w \in [S -> Nat], NEW x \in S
  PROVE  /\ Total(w) = w[x] + Total([y \in S \ {x} |-> w[y]])
         /\ Total([y \in S \ {x} |-> w[y]]) \in Nat
<1>1. IsFiniteSet(S \ {x}) /\ x \notin S \ {x} /\ (S \ {x}) \cup {x} = S
  BY FS_RemoveElement
<1> DEFINE rest == [y \in S \ {x} |-> w[y]]
<1>2. rest \in [S \ {x} -> Nat]
  OBVIOUS
<1>3. Total(w) = Total(rest) + w[x]
  BY <1>1, TotalGrows
<1>4. Total(rest) \in Nat
  BY <1>1, <1>2, TotalIsNat
<1> HIDE DEF rest
<1>5. w[x] \in Nat
  OBVIOUS
<1>6. Total(w) = w[x] + Total(rest)
  BY <1>3, <1>4, <1>5
<1> QED BY <1>4, <1>6 DEF rest

\* One place has another value.
LEMMA TotalChanges ==
  ASSUME NEW S, IsFiniteSet(S), NEW w \in [S -> Nat], NEW v \in [S -> Nat], NEW x \in S,
         \A y \in S \ {x} : v[y] = w[y]
  PROVE  Total(v) + w[x] = Total(w) + v[x]
<1> DEFINE rest == [y \in S \ {x} |-> w[y]]
<1>1. rest = [y \in S \ {x} |-> v[y]]
  OBVIOUS
<1>2. Total(w) = w[x] + Total(rest) /\ Total(rest) \in Nat
  BY TotalAt
<1>3. Total(v) = v[x] + Total([y \in S \ {x} |-> v[y]])
  BY TotalAt
<1> HIDE DEF rest
<1>4. Total(v) = v[x] + Total(rest)
  BY <1>1, <1>3
<1>5. w[x] \in Nat /\ v[x] \in Nat
  OBVIOUS
<1> QED BY <1>2, <1>4, <1>5
=============================================================================
