----------------------------- MODULE LimitOrder -----------------------------
(***************************************************************************)
(* What the Raydium script promises its user: one order, to sell at most   *)
(* the limit of one token for at least a floor of another, that is filled  *)
(* once or not at all; it fails or lapses for good.  The user is told of a *)
(* success only when the order is filled, and of an expiry only when       *)
(* nothing can fill it any more.                                           *)
(***************************************************************************)
EXTENDS Integers

CONSTANTS
  Tokens,
  Selling, Buying,   \* the tokens to sell and to buy
  Limit,             \* the most to sell
  Amounts,           \* what can be bought
  Purse              \* what the user has of each token before

VARIABLES
  order,             \* its status and its floor
  holdings,          \* of the user
  told               \* what the user has been told

vars == <<order, holdings, told>>

Init ==
  /\ order = [status |-> "none", floor |-> 0]
  /\ holdings = [token \in Tokens |-> Purse]
  /\ told = {}

\* An order may come too late.
Place ==
  /\ order.status = "none"
  /\ \E floor \in Amounts, status \in {"open", "lapsed"} :
       order' = [status |-> status, floor |-> floor]
  /\ UNCHANGED <<holdings, told>>

Fill ==
  /\ order.status = "open"
  /\ order' = [order EXCEPT !.status = "filled"]
  /\ \E sold \in 0..Limit, bought \in Amounts :
       /\ sold <= holdings[Selling]
       /\ bought >= order.floor
       /\ holdings' = [holdings EXCEPT ![Selling] = @ - sold, ![Buying] = @ + bought]
  /\ UNCHANGED told

Close ==
  /\ order.status = "open"
  /\ \E status \in {"failed", "lapsed"} : order' = [order EXCEPT !.status = status]
  /\ UNCHANGED <<holdings, told>>

Tell ==
  /\ \/ order.status = "filled" /\ told' = told \union {"success"}
     \/ order.status \notin {"none", "open"} /\ told' = told \union {"expired"}
  /\ UNCHANGED <<order, holdings>>

Next == Place \/ Fill \/ Close \/ Tell

Spec == Init /\ [][Next]_vars
=============================================================================
