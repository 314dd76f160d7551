------------------------------ MODULE UnitSums ------------------------------
(***************************************************************************)
(* Sums of natural numbers held at the keys of a function, as a count: an  *)
(* amount f[k] is f[k] distinct coins <<k, 1>> .. <<k, f[k]>>, and the     *)
(* total is the number of coins.  The definition is not recursive, so that *)
(* a proof can use it (UnitSumsProofs).                                    *)
(***************************************************************************)
EXTENDS Naturals, FiniteSets

\* The coins that stand for the amounts of f at the keys K.
Coins(f, K) == UNION { {k} \X (1..f[k]) : k \in K }

\* The sum of f over K.
Total(f, K) == Cardinality(Coins(f, K))
=============================================================================
