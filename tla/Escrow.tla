------------------------------- MODULE Escrow -------------------------------
(***************************************************************************)
(* What the option market promises about tokens, whatever its instructions *)
(* look like: every holder has a claim, a claim grows only by paying the   *)
(* same amount into the pool and shrinks only by being paid the same       *)
(* amount out of it; the pool is otherwise only released (withdrawals) or  *)
(* funded (tokens somebody sends without buying).                          *)
(***************************************************************************)
EXTENDS Naturals

CONSTANTS
  Holders,     \* who can hold a claim
  MaxUnits     \* the largest amount one operation can move

VARIABLES
  claims,      \* the amount each holder has paid in and may take out
  pool,        \* the tokens held
  released,    \* the tokens withdrawn so far by somebody without a claim
  funded       \* the tokens received so far without a claim

vars == <<claims, pool, released, funded>>

Init ==
  /\ claims = [h \in Holders |-> 0]
  /\ pool = 0
  /\ released = 0
  /\ funded = 0

Take(h, n) ==
  /\ claims' = [claims EXCEPT ![h] = @ + n]
  /\ pool' = pool + n
  /\ UNCHANGED <<released, funded>>

Refund(h, n) ==
  /\ n <= claims[h]
  /\ n <= pool
  /\ claims' = [claims EXCEPT ![h] = @ - n]
  /\ pool' = pool - n
  /\ UNCHANGED <<released, funded>>

Release(n) ==
  /\ n <= pool
  /\ pool' = pool - n
  /\ released' = released + n
  /\ UNCHANGED <<claims, funded>>

Fund(n) ==
  /\ pool' = pool + n
  /\ funded' = funded + n
  /\ UNCHANGED <<claims, released>>

Next ==
  \E n \in 0..MaxUnits :
    \/ \E h \in Holders : Take(h, n) \/ Refund(h, n)
    \/ Release(n)
    \/ Fund(n)

Spec == Init /\ [][Next]_vars
=============================================================================
