------------------------------ MODULE MCArbBot ------------------------------
(***************************************************************************)
(* Small instances of the bot: it starts with 2 USDC for more than 2 SOL   *)
(* and wants a gain of 50 %, so that the promised amounts 2, 4 and 7 give  *)
(* a refused quote and an accepted one on each of the first trades.  A     *)
(* swap delivers 3 or 6: less than the quotes of 4 and 7, or more than the *)
(* one of 4.                                                               *)
(***************************************************************************)
EXTENDS ArbHost

CONSTANTS t1, t2   \* two callbacks in progress

MCOpening ==
  [inputMint |-> "USDC", outputMint |-> "SOL", amount |-> 2, threshold |-> 20000]
=============================================================================
