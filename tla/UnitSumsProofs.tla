--------------------------- MODULE UnitSumsProofs ---------------------------
(***************************************************************************)
(* The facts about Total that the proofs of the other modules use: the sum *)
(* of natural numbers is a natural number and no less than any of them,    *)
(* the sum of zeroes is zero, and raising one summand raises the sum by    *)
(* the same amount.  What is raised is counted: the new coins are disjoint *)
(* from the old ones.                                                      *)
(***************************************************************************)
EXTENDS UnitSums, Integers, FiniteSetTheorems, TLAPS

\* The coins one key contributes: as many as the amount, above a floor.
Stack(k, a, b) == {k} \X (a..b)

\* A stack is finite and has one coin for each number in its range.
LEMMA StackSize ==
  ASSUME NEW k, NEW a \in Nat, NEW b \in Nat, a <= b + 1
  PROVE  /\ IsFiniteSet(Stack(k, a, b))
         /\ Cardinality(Stack(k, a, b)) = b + 1 - a
<1>1. IsFiniteSet({k}) /\ Cardinality({k}) = 1
  BY FS_Singleton
<1>2. IsFiniteSet(a..b) /\ Cardinality(a..b) = b + 1 - a
  BY FS_Interval
<1>3. IsFiniteSet({k} \X (a..b))
  BY <1>1, <1>2, FS_Product
<1>4. Cardinality({k} \X (a..b)) = Cardinality({k}) * Cardinality(a..b)
  BY <1>1, <1>2, FS_Product
<1>5. Cardinality({k} \X (a..b)) = b + 1 - a
  BY <1>1, <1>2, <1>4
<1> QED
  BY <1>3, <1>5 DEF Stack

\* The coins of amounts at finitely many keys are finitely many.
LEMMA CoinsFinite ==
  ASSUME NEW K, IsFiniteSet(K), NEW f, \A k \in K : f[k] \in Nat
  PROVE  IsFiniteSet(Coins(f, K))
<1> DEFINE stacks == { Stack(k, 1, f[k]) : k \in K }
           stackOf == [k \in K |-> Stack(k, 1, f[k])]
<1>1. stackOf \in Surjection(K, stacks)
  BY DEF Surjection
<1>2. IsFiniteSet(stacks)
  BY <1>1, FS_Surjection
<1>3. \A T \in stacks : IsFiniteSet(T)
  BY StackSize
<1>4. IsFiniteSet(UNION stacks)
  BY <1>2, <1>3, FS_UNION
<1> QED
  BY <1>4 DEF Coins, Stack

\* A coin is a pair of a key and a number up to the key's amount.
LEMMA CoinsMember ==
  ASSUME NEW K, NEW f, NEW c
  PROVE  c \in Coins(f, K) <=> \E k \in K : \E n \in 1..f[k] : c = <<k, n>>
BY DEF Coins

\* The total of natural numbers over a finite set is a natural number.
LEMMA TotalType ==
  ASSUME NEW K, IsFiniteSet(K), NEW f, \A k \in K : f[k] \in Nat
  PROVE  Total(f, K) \in Nat
BY CoinsFinite, FS_CardinalityType DEF Total

\* The total of zeroes is zero.
LEMMA TotalZero ==
  ASSUME NEW K, NEW f, \A k \in K : f[k] = 0
  PROVE  Total(f, K) = 0
<1>1. Coins(f, K) = {}
  BY CoinsMember
<1> QED
  BY <1>1, FS_EmptySet DEF Total

\* The total depends only on the amounts at the keys it is taken over.
LEMMA TotalSame ==
  ASSUME NEW K, NEW f, NEW g, \A k \in K : f[k] = g[k]
  PROVE  Total(f, K) = Total(g, K)
BY DEF Total, Coins

\* Raising the amount at one key raises the total by as much.
LEMMA TotalRaise ==
  ASSUME NEW K, IsFiniteSet(K), NEW f, NEW g, NEW j \in K, NEW d \in Nat,
         \A k \in K : f[k] \in Nat /\ g[k] \in Nat,
         \A k \in K : k # j => g[k] = f[k],
         g[j] = f[j] + d
  PROVE  Total(g, K) = Total(f, K) + d
<1> DEFINE added == Stack(j, f[j] + 1, f[j] + d)
<1>1. Coins(g, K) = Coins(f, K) \union added
  <2>1. ASSUME NEW c \in Coins(g, K)
        PROVE  c \in Coins(f, K) \union added
    <3>1. PICK k \in K : \E n \in 1..g[k] : c = <<k, n>>
      BY CoinsMember
    <3>2. PICK n \in 1..g[k] : c = <<k, n>>
      BY <3>1
    <3>3. CASE n \in 1..f[k]
      BY <3>2, <3>3, CoinsMember
    <3>4. CASE n \notin 1..f[k]
      <4>1. k = j /\ n \in f[j] + 1 .. f[j] + d
        BY <3>2, <3>4
      <4> QED
        BY <3>2, <4>1 DEF Stack
    <3> QED
      BY <3>3, <3>4
  <2>2. ASSUME NEW c \in Coins(f, K)
        PROVE  c \in Coins(g, K)
    <3>1. PICK k \in K : \E n \in 1..f[k] : c = <<k, n>>
      BY CoinsMember
    <3>2. 1..f[k] \subseteq 1..g[k]
      BY <3>1
    <3> QED
      BY <3>1, <3>2, CoinsMember
  <2>3. ASSUME NEW c \in added
        PROVE  c \in Coins(g, K)
    <3>1. PICK n \in f[j] + 1 .. f[j] + d : c = <<j, n>>
      BY DEF Stack
    <3>2. n \in 1..g[j]
      BY <3>1
    <3> QED
      BY <3>1, <3>2, CoinsMember
  <2> QED
    BY <2>1, <2>2, <2>3
<1>2. Coins(f, K) \intersect added = {}
  <2> SUFFICES ASSUME NEW c \in Coins(f, K), c \in added
               PROVE  FALSE
    OBVIOUS
  <2>1. PICK k \in K : \E n \in 1..f[k] : c = <<k, n>>
    BY CoinsMember
  <2>2. PICK n \in 1..f[k] : c = <<k, n>>
    BY <2>1
  <2>3. PICK m \in f[j] + 1 .. f[j] + d : c = <<j, m>>
    BY DEF Stack
  <2>4. k = j /\ n = m
    BY <2>2, <2>3
  <2> QED
    BY <2>2, <2>3, <2>4
<1>3. IsFiniteSet(added) /\ Cardinality(added) = d
  BY StackSize
<1>4. IsFiniteSet(Coins(f, K))
  BY CoinsFinite
<1>5. Cardinality(Coins(f, K)) \in Nat
  BY <1>4, FS_CardinalityType
<1>6. Cardinality(Coins(f, K) \union added)
        = Cardinality(Coins(f, K)) + Cardinality(added)
          - Cardinality(Coins(f, K) \intersect added)
  BY <1>3, <1>4, FS_Union
<1>7. Cardinality(Coins(f, K) \intersect added) = 0
  BY <1>2, FS_EmptySet
<1>8. Cardinality(Coins(f, K) \union added) = Cardinality(Coins(f, K)) + d
  <2> HIDE DEF added
  <2> QED
    BY <1>3, <1>5, <1>6, <1>7
<1> QED
  BY <1>1, <1>8 DEF Total

\* A summand and the others make the total.
LEMMA TotalSplit ==
  ASSUME NEW K, IsFiniteSet(K), NEW f, NEW j \in K, \A k \in K : f[k] \in Nat
  PROVE  /\ Total(f, K \ {j}) \in Nat
         /\ Total(f, K) = Total(f, K \ {j}) + f[j]
<1> DEFINE rest == [k \in K |-> IF k = j THEN 0 ELSE f[k]]
<1>1. \A k \in K : rest[k] \in Nat
  OBVIOUS
<1>2. \A k \in K : k # j => f[k] = rest[k]
  OBVIOUS
<1>3. f[j] = rest[j] + f[j] /\ rest[j] = 0
  OBVIOUS
<1> HIDE DEF rest
<1>4. Total(f, K) = Total(rest, K) + f[j]
  BY <1>1, <1>2, <1>3, TotalRaise
<1>5. Coins(rest, K) = Coins(f, K \ {j})
  <2>1. ASSUME NEW c \in Coins(rest, K) PROVE c \in Coins(f, K \ {j})
    <3>1. PICK k \in K : \E n \in 1..rest[k] : c = <<k, n>>
      BY <2>1, CoinsMember
    <3>2. k # j
      BY <1>3, <3>1
    <3>3. k \in K \ {j} /\ \E n \in 1..f[k] : c = <<k, n>>
      BY <1>2, <3>1, <3>2
    <3> QED
      BY <3>3, CoinsMember
  <2>2. ASSUME NEW c \in Coins(f, K \ {j}) PROVE c \in Coins(rest, K)
    <3>1. PICK k \in K \ {j} : \E n \in 1..f[k] : c = <<k, n>>
      BY <2>2, CoinsMember
    <3>2. k \in K /\ \E n \in 1..rest[k] : c = <<k, n>>
      BY <1>2, <3>1
    <3> QED
      BY <3>2, CoinsMember
  <2> QED
    BY <2>1, <2>2
<1>6. Total(rest, K) = Total(f, K \ {j})
  BY <1>5 DEF Total
<1>7. Total(rest, K) \in Nat
  BY <1>1, TotalType
<1> QED
  BY <1>4, <1>6, <1>7
=============================================================================
