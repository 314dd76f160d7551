---------------------------- MODULE RaydiumSwap ----------------------------
(***************************************************************************)
(* The script backend/raydium.ts with the class of raydium-swap.ts and the *)
(* settings of raydium-config.ts: find a pool, build one swap of SOL for   *)
(* BONK, and send or simulate it.  (index.ts has the command that calls it *)
(* in a comment.)  The price moves, and blocks are made, at every await.   *)
(***************************************************************************)
EXTENDS Integers

CONSTANTS
  SOL, BONK, USDC,    \* mints: BASE_MINT, QUOTE_MINT and any other
  TOKEN_A_AMOUNT,
  SLIPPAGE,           \* in percent
  Quotes,             \* amounts that TOKEN_A_AMOUNT may be quoted at
  Extremes,           \* `extreme' fees, in microlamports per compute unit
  Lifetime,           \* blocks for which a blockhash is valid
  Finality,           \* blocks by which a final blockhash is behind the latest
  MaxDelay            \* bound: block height at which the script waits no more

ASSUME SwapAssumption ==
  /\ SOL # BONK /\ SOL # USDC /\ BONK # USDC
  /\ TOKEN_A_AMOUNT \in Nat
  /\ SLIPPAGE \in Nat
  /\ Quotes \subseteq Nat
  /\ Extremes \subseteq Nat
  /\ Lifetime \in Nat
  /\ Finality \in 0..Lifetime
  /\ MaxDelay \in Nat

VARIABLES
  world,      \* EXECUTE_SWAP, USE_VERSIONED_TRANSACTION, and the pools there are
  place,      \* the await radiumSwap is at
  keys,       \* allPoolKeysJson
  pool,       \* poolInfo
  tx,         \* swapTx
  until,      \* lastValidBlockHeight of the confirmation strategy
  fate,       \* of the transaction
  printed,    \* what the user is told
  wallet,     \* token balances
  height      \* of the chain

vars == <<world, place, keys, pool, tx, until, fate, printed, wallet, height>>
chainVars == <<fate, wallet, height>>

Mints == {SOL, BONK, USDC}
Pools == {[base |-> SOL, quote |-> BONK], [base |-> BONK, quote |-> SOL],
          [base |-> SOL, quote |-> USDC]}
NoPool == [base |-> USDC, quote |-> USDC]

\* minAmountOut of Liquidity.computeAmountOut
MinOut(quoted) == (quoted * 100) \div (100 + SLIPPAGE)

NoTx == [side |-> "in", in |-> USDC, out |-> USDC, quoted |-> 0,
         microLamports |-> 0, until |-> 0]

Running(somewhere) == place = somewhere
Goto(next) == place' = next
-----------------------------------------------------------------------------
(* The settings.                                                           *)

\* Compute units of a swap, and microlamports in a lamport, both divided by
\* 100 000.
UNITS == 3
MICRO == 10
MinimumFee == 1000

\* fetchPriorityFee, in lamports instead of SOL.
fetchPriorityFee(extreme) ==
  LET fee == (extreme * UNITS) \div MICRO
  IN IF fee < MinimumFee THEN MinimumFee ELSE fee

\* What the runtime charges for a price per compute unit.
Charged(microLamports) == (microLamports * UNITS) \div MICRO
-----------------------------------------------------------------------------
Init ==
  /\ world \in [execute: BOOLEAN, versioned: BOOLEAN,
                file: SUBSET Pools, listed: SUBSET Pools]
  /\ place = "loading"
  /\ keys = {}
  /\ pool = NoPool
  /\ tx = NoTx
  /\ until = 0
  /\ fate = "unsent"
  /\ printed = {}
  /\ wallet = [m \in Mints |-> TOKEN_A_AMOUNT]
  /\ height = 0

\* A file that is missing or cannot be parsed is an empty list.
loadPoolKeys ==
  /\ Running("loading")
  /\ keys' \in {world.file, {}}
  /\ Goto("finding")
  /\ UNCHANGED <<world, pool, tx, until, printed>>

\* In the file a pool is found in either orientation, ...
ForTokens(p) == {p.base, p.quote} = {SOL, BONK}

findPoolInfoForTokens ==
  /\ Running("finding")
  /\ \E p \in keys :
       /\ ForTokens(p)
       /\ pool' = p
  /\ Goto("building")
  /\ UNCHANGED <<world, keys, tx, until, printed>>

\* ... on the chain only with SOL as its base.
findRaydiumPoolInfo ==
  /\ Running("finding")
  /\ \A p \in keys : ~ForTokens(p)
  /\ \E p \in world.listed :
       /\ p.base = SOL
       /\ p.quote = BONK
       /\ pool' = p
  /\ Goto("building")
  /\ UNCHANGED <<world, keys, tx, until, printed>>

\* The mint that is sold, and the side of the pool it is on.
FromToken == IF pool.base = SOL THEN SOL ELSE pool.quote

AlwaysIn(from, to) == "in"
getSwapSide(from, to) ==
  IF pool.base = from /\ pool.quote = to THEN "in"
  ELSE IF pool.base = to /\ pool.quote = from THEN "out"
  ELSE "neither"

getSwapTransaction(quoted, extreme) ==
  LET side == getSwapSide(FromToken, BONK)
  IN /\ Running("building")
     /\ side # "neither"
     /\ tx' = [side |-> side,
               in |-> IF side = "in" THEN pool.base ELSE pool.quote,
               out |-> IF side = "in" THEN pool.quote ELSE pool.base,
               quoted |-> quoted,
               microLamports |-> fetchPriorityFee(extreme),
               until |-> height + Lifetime]
     /\ Goto(IF ~world.execute THEN "simulating"
             ELSE IF world.versioned THEN "fetching hash" ELSE "sending")
     /\ UNCHANGED <<world, keys, pool, until, printed>>

\* The blockhash a transaction is confirmed against: fetched before a
\* versioned transaction is sent, and after a legacy one.
HashOfEarlierBlock == tx.until - 1
LatestHash == height + Lifetime

StraightToConfirming == "confirming"
SendAgain == "sending"
AfterHash == IF world.versioned THEN "sending" ELSE "confirming"

getLatestBlockhash ==
  /\ Running("fetching hash")
  /\ until' = LatestHash
  /\ Goto(AfterHash)
  /\ UNCHANGED <<world, keys, pool, tx, printed>>

\* web3.js gives a legacy transaction a final blockhash when it signs it.
sendTransaction ==
  /\ Running("sending")
  /\ fate' = "sent"
  /\ IF world.versioned
     THEN Goto("confirming") /\ UNCHANGED tx
     ELSE Goto("fetching hash") /\ tx' = [tx EXCEPT !.until = height + Lifetime - Finality]
  /\ UNCHANGED <<world, keys, pool, until, printed, wallet, height>>

\* A transaction that was executed with an error is an error.
GoodConfirmation == fate = "landed"

confirmTransaction ==
  /\ Running("confirming")
  /\ GoodConfirmation
  /\ printed' = printed \union {"success"}
  /\ Goto("reading balances")
  /\ UNCHANGED <<world, keys, pool, tx, until>>

NeverExpired == FALSE
BlockheightExceeded == height > until

\* The news of the execution may lose the race with that of the height.
ConfirmationExpires ==
  /\ Running("confirming")
  /\ BlockheightExceeded
  /\ printed' = printed \union {"expired"}
  /\ Goto("over")
  /\ UNCHANGED <<world, keys, pool, tx, until>>

ExecutionFailed ==
  /\ Running("confirming")
  /\ fate = "failed"
  /\ printed' = printed \union {"error"}
  /\ Goto("over")
  /\ UNCHANGED <<world, keys, pool, tx, until>>

\* The result is printed as a success, an `err' in it or not.
simulateTransaction ==
  /\ Running("simulating")
  /\ printed' = {"simulated"}
  /\ Goto("over")
  /\ UNCHANGED <<world, keys, pool, tx, until>>

ReadBalances ==
  /\ Running("reading balances")
  /\ Goto("over")
  /\ UNCHANGED <<world, keys, pool, tx, until, printed>>

\* No pool, or none that fits: the promise of radiumSwap is rejected.
NotFound ==
  /\ \/ /\ Running("finding")
        /\ \A p \in keys : ~ForTokens(p)
        /\ [base |-> SOL, quote |-> BONK] \notin world.listed
     \/ Running("building") /\ getSwapSide(FromToken, BONK) = "neither"
  /\ Goto("over")
  /\ printed' = {"rejected"}
  /\ UNCHANGED <<world, keys, pool, tx, until>>

\* A request fails: before the try, the promise is rejected; in it, the error
\* is printed and swallowed, whatever has become of the transaction.
RequestFails ==
  /\ ~Running("over")
  /\ ~Running("loading")
  /\ printed' = printed \union
       {IF place \in {"finding", "building"} THEN "rejected" ELSE "error"}
  /\ Goto("over")
  /\ UNCHANGED <<world, keys, pool, tx, until>>

Script ==
  \/ sendTransaction
  \/ /\ \/ loadPoolKeys \/ findPoolInfoForTokens \/ findRaydiumPoolInfo
        \/ \E quoted \in Quotes, extreme \in Extremes :
             getSwapTransaction(quoted, extreme)
        \/ getLatestBlockhash \/ confirmTransaction \/ ConfirmationExpires
        \/ ExecutionFailed \/ simulateTransaction \/ ReadBalances \/ NotFound
     /\ UNCHANGED chainVars
-----------------------------------------------------------------------------
(* The chain.                                                              *)

\* The pool fixes one of the amounts; the other follows from the price there
\* is by then, within the limit, or the swap fails.
Trade(sold, bought) ==
  /\ IF tx.side = "in"
     THEN sold = TOKEN_A_AMOUNT /\ bought >= MinOut(tx.quoted)
     ELSE sold <= TOKEN_A_AMOUNT /\ bought = MinOut(tx.quoted)
  /\ sold <= wallet[tx.in]
  /\ wallet' = [wallet EXCEPT ![tx.in] = @ - sold, ![tx.out] = @ + bought]

InTime == fate = "sent" /\ height <= tx.until

Execute ==
  /\ InTime
  /\ \/ /\ \E sold \in 0..TOKEN_A_AMOUNT, bought \in {MinOut(q) : q \in Quotes} :
             Trade(sold, bought)
        /\ fate' = "landed"
     \/ fate' = "failed" /\ UNCHANGED wallet
  /\ UNCHANGED <<world, place, keys, pool, tx, until, printed, height>>

NewBlock ==
  /\ \/ height < MaxDelay
     \/ place = "confirming" /\ height <= until
  /\ height' = height + 1
  /\ UNCHANGED <<world, place, keys, pool, tx, until, fate, printed, wallet>>

Next ==
  \/ Script
  \/ RequestFails /\ UNCHANGED chainVars
  \/ Execute
  \/ NewBlock

Spec == Init /\ [][Next]_vars

\* Requests are answered, and blocks are made.
FairSpec == Spec /\ WF_vars(Script) /\ WF_vars(NewBlock)
-----------------------------------------------------------------------------
(* Properties.                                                             *)

\* Every variable keeps its type; what is sent has been built, what is being
\* confirmed has been sent, and nothing is sent in a dry run.
TypeOK ==
  /\ place \in {"loading", "finding", "building", "fetching hash", "sending",
                "confirming", "reading balances", "simulating", "over"}
  /\ keys \subseteq Pools
  /\ pool \in Pools \union {NoPool}
  /\ tx \in [side: {"in", "out"}, in: Mints, out: Mints,
             quoted: Quotes \union {0}, microLamports: Nat, until: Nat]
  /\ until \in Nat
  /\ fate \in {"unsent", "sent", "landed", "failed"}
  /\ printed \subseteq {"success", "expired", "error", "simulated", "rejected"}
  /\ wallet \in [Mints -> Nat]
  /\ height \in Nat
  /\ place = "confirming" => fate # "unsent"
  /\ fate # "unsent" => tx # NoTx /\ world.execute

\* raydium.ts:105: whichever way round the pool is, from the file or from the
\* chain, what changes hands is SOL for BONK: at most the amount set, and for
\* at least the quote less the slippage.
SellsSolForBonk ==
  [][wallet' # wallet =>
       /\ wallet[SOL] - wallet'[SOL] \in 0..TOKEN_A_AMOUNT
       /\ wallet'[BONK] - wallet[BONK] >= MinOut(tx.quoted)
       /\ wallet'[USDC] = wallet[USDC]]_vars

\* A user who is told that the transaction has expired can look what has
\* become of it, and try again if nothing has: it is not executed after that,
\* although it is confirmed against another blockhash than it was signed with.
ExpiredIsFinal == [][ "expired" \in printed => fate' = fate ]_vars

\* `Transaction confirmed successfully' is said of a swap that was executed.
SuccessIsReal == "success" \in printed => fate = "landed"

\* The transaction is a limit order: open until the blockhash it was signed
\* with expires, then lapsed if nothing has become of it.
Status ==
  CASE fate = "unsent" -> "none"
    [] fate = "sent" -> IF height <= tx.until THEN "open" ELSE "lapsed"
    [] fate = "landed" -> "filled"
    [] fate = "failed" -> "failed"

OrderView == INSTANCE LimitOrder WITH
  Tokens <- Mints, Selling <- SOL, Buying <- BONK, Limit <- TOKEN_A_AMOUNT,
  Amounts <- {MinOut(q) : q \in Quotes}, Purse <- TOKEN_A_AMOUNT,
  order <- [status |-> Status,
            floor |-> IF fate = "unsent" THEN 0 ELSE MinOut(tx.quoted)],
  holdings <- wallet,
  told <- printed \intersect {"success", "expired"}

\* The script places one such order: it never sends twice, whatever request
\* fails; its floor is the quote of its own transaction; and the user is told
\* of the expiry only when no fill can follow.
ImplementsLimitOrder == OrderView!Spec

\* The script ends: with a result, an error, or the expiry of its blockhash.
Ends == <>(place = "over")

\* raydium-config.ts:85, `Ensure the fee is not less than 0.000001 SOL
\* (minimum fee)': so it is for the transaction that is sent.
MinimumFeePaid == fate # "unsent" => Charged(tx.microLamports) >= MinimumFee
=============================================================================
