------------------------------- MODULE Trader -------------------------------
(***************************************************************************)
(* What the arbitrage bot promises: it trades back and forth between two   *)
(* tokens.  Each trade sells what the trade before it was quoted to bring, *)
(* on a quote of more than what that trade had sold plus the target gain,  *)
(* and delivers no less than its quote short of the slippage.              *)
(***************************************************************************)
EXTENDS Integers, Sequences

CONSTANTS
  Opening,      \* the first offer
  Whole,        \* 100 %, in the unit that the next two are counted in
  Gain,         \* the target gain
  Slippage,     \* how far below its quote a trade may deliver
  OutAmounts,   \* the amounts a quote may promise
  Receipts      \* the amounts a trade may deliver

VARIABLES
  history,      \* the quotes of the trades made, in order
  receipts      \* what each of them has delivered

\* The trade to make next.  A threshold is kept times Whole.
Offer(trades) ==
  IF trades = <<>> THEN Opening
  ELSE LET last == trades[Len(trades)]
       IN [inputMint |-> last.outputMint, outputMint |-> last.inputMint,
           amount |-> last.outAmount, threshold |-> last.inAmount * (Whole + Gain)]

Takes(offer, trade) ==
  /\ trade.inputMint = offer.inputMint
  /\ trade.outputMint = offer.outputMint
  /\ trade.inAmount = offer.amount
  /\ trade.outAmount * Whole > offer.threshold

Init == history = <<>> /\ receipts = <<>>

Next ==
  \E out \in OutAmounts, amount \in Receipts :
    LET offer == Offer(history)
        trade == [inputMint |-> offer.inputMint, outputMint |-> offer.outputMint,
                  inAmount |-> offer.amount, outAmount |-> out]
    IN /\ Takes(offer, trade)
       /\ amount * Whole >= out * (Whole - Slippage)
       /\ history' = Append(history, trade)
       /\ receipts' = Append(receipts, amount)

Spec == Init /\ [][Next]_<<history, receipts>>
=============================================================================
