------------------------- MODULE RaydiumSwapProofs -------------------------
(***************************************************************************)
(* Theorems of RaydiumSwap, for any amounts, quotes, fees and lifetimes of *)
(* a blockhash.  The script confirms against a blockhash that is at least  *)
(* as young as the one the transaction was signed with.                    *)
(***************************************************************************)
EXTENDS RaydiumSwap, TLAPS

\* The configuration does not change.
World == world \in [execute: BOOLEAN, versioned: BOOLEAN,
                    file: SUBSET Pools, listed: SUBSET Pools]

Sold == tx.in = SOL /\ tx.out = BONK

\* What is so wherever the script is.
Where ==
  /\ place \notin {"over", "reading balances"} => printed = {}
  /\ place = "building" => pool \in Pools
  /\ place \in {"fetching hash", "sending"} => Sold /\ world.execute
  /\ place = "fetching hash" /\ ~world.versioned => fate # "unsent"
  /\ fate # "unsent" => Sold /\ world.execute
  /\ "success" \in printed => fate = "landed"

\* How the blockhashes are related.
Hashes ==
  /\ tx.until <= height + Lifetime
  /\ place = "confirming" => tx.until <= until
  /\ place = "sending" /\ world.versioned => tx.until <= until
  /\ "expired" \in printed => tx.until < height

Inv == TypeOK /\ World /\ Where /\ Hashes
-----------------------------------------------------------------------------
\* A quotient of natural numbers is one.
LEMMA DivNat ==
  ASSUME NEW a \in Nat, NEW b \in Nat \ {0}
  PROVE  a \div b \in Nat
OBVIOUS

LEMMA Numbers ==
  /\ \A q \in Nat : MinOut(q) \in Nat
  /\ \A e \in Nat : fetchPriorityFee(e) \in Nat
<1>1. ASSUME NEW q \in Nat
      PROVE  MinOut(q) \in Nat
  <2>1. q * 100 \in Nat /\ 100 + SLIPPAGE \in Nat \ {0}
    BY SwapAssumption
  <2> QED
    BY <2>1, DivNat DEF MinOut
<1>2. ASSUME NEW e \in Nat
      PROVE  fetchPriorityFee(e) \in Nat
  <2>1. (e * UNITS) \div MICRO \in Nat
    BY DEF UNITS, MICRO
  <2> QED
    BY <2>1 DEF fetchPriorityFee, MinimumFee
<1> QED
  BY <1>1, <1>2

\* The heights, apart from the rest of the types.
LEMMA Heights ==
  ASSUME Inv
  PROVE  /\ height \in Nat /\ until \in Nat /\ tx.until \in Nat
         /\ Lifetime \in Nat /\ Finality \in Nat /\ Finality <= Lifetime
<1>1. height \in Nat /\ until \in Nat /\ tx.until \in Nat
  BY DEF Inv, TypeOK
<1>2. Lifetime \in Nat /\ Finality \in 0..Lifetime
  BY SwapAssumption
<1> QED
  BY <1>1, <1>2

\* Whichever way round the pool is, SOL is sold for BONK.
LEMMA Sides ==
  ASSUME pool \in Pools, getSwapSide(FromToken, BONK) # "neither"
  PROVE  /\ getSwapSide(FromToken, BONK) = "in" => pool.base = SOL /\ pool.quote = BONK
         /\ getSwapSide(FromToken, BONK) = "out" => pool.base = BONK /\ pool.quote = SOL
         /\ getSwapSide(FromToken, BONK) \in {"in", "out"}
BY SwapAssumption DEF Pools, getSwapSide, FromToken
-----------------------------------------------------------------------------
(* The invariant.                                                          *)

LEMMA InitInv == Init => Inv
<1> SUFFICES ASSUME Init
             PROVE  Inv
  OBVIOUS
<1>1. TypeOK
  BY SwapAssumption DEF Init, TypeOK, NoTx, Mints
<1>2. World /\ Where /\ Hashes
  BY SwapAssumption DEF Init, World, Where, Hashes, NoTx
<1> QED
  BY <1>1, <1>2 DEF Inv

\* A step of the script that prints nothing of a confirmation, and builds and
\* sends nothing.
LEMMA MoveInv ==
  ASSUME Inv, UNCHANGED <<world, tx, until, fate, wallet, height>>,
         keys' \subseteq Pools, pool' \in Pools \union {NoPool},
         place' \in {"finding", "building", "over"},
         place' = "building" => pool' \in Pools,
         place' # "over" => printed' = {},
         printed' \subseteq {"success", "expired", "error", "simulated", "rejected"},
         "success" \in printed' => "success" \in printed,
         "expired" \in printed' => "expired" \in printed
  PROVE  Inv'
<1>1. TypeOK'
  BY DEF Inv, TypeOK
<1>2. World' /\ Where' /\ Hashes'
  BY DEF Inv, World, Where, Hashes, Sold
<1> QED
  BY <1>1, <1>2 DEF Inv

LEMMA FindInv ==
  ASSUME Inv, UNCHANGED chainVars,
         loadPoolKeys \/ findPoolInfoForTokens \/ findRaydiumPoolInfo
  PROVE  Inv'
<1>1. CASE loadPoolKeys
  BY <1>1, MoveInv DEF Inv, TypeOK, World, Where, loadPoolKeys, Running, Goto, chainVars
<1>2. CASE findPoolInfoForTokens
  BY <1>2, MoveInv
  DEF Inv, TypeOK, World, Where, findPoolInfoForTokens, Running, Goto, chainVars
<1>3. CASE findRaydiumPoolInfo
  BY <1>3, MoveInv
  DEF Inv, TypeOK, World, Where, findRaydiumPoolInfo, Running, Goto, chainVars
<1> QED
  BY <1>1, <1>2, <1>3

LEMMA OverInv ==
  ASSUME Inv, UNCHANGED chainVars,
         simulateTransaction \/ ReadBalances \/ NotFound \/ RequestFails \/ ExecutionFailed
  PROVE  Inv'
<1>1. /\ UNCHANGED <<world, keys, pool, tx, until, fate, wallet, height>>
      /\ place' = "over"
  BY DEF simulateTransaction, ReadBalances, NotFound, RequestFails, ExecutionFailed,
     Goto, chainVars
<1>2. /\ printed' \subseteq {"success", "expired", "error", "simulated", "rejected"}
      /\ "success" \in printed' => "success" \in printed
      /\ "expired" \in printed' => "expired" \in printed
  BY DEF Inv, TypeOK, simulateTransaction, ReadBalances, NotFound, RequestFails,
     ExecutionFailed
<1>3. keys' \subseteq Pools /\ pool' \in Pools \union {NoPool}
  BY <1>1 DEF Inv, TypeOK
<1> QED
  BY <1>1, <1>2, <1>3, MoveInv

LEMMA BuildInv ==
  ASSUME Inv, UNCHANGED chainVars, NEW quoted \in Quotes, NEW extreme \in Extremes,
         getSwapTransaction(quoted, extreme)
  PROVE  Inv'
<1> DEFINE side == getSwapSide(FromToken, BONK)
<1>1. /\ place = "building" /\ pool \in Pools /\ side # "neither" /\ printed = {}
      /\ UNCHANGED <<world, keys, pool, until, printed, fate, wallet, height>>
      /\ place' = IF ~world.execute THEN "simulating"
                  ELSE IF world.versioned THEN "fetching hash" ELSE "sending"
  BY DEF Inv, Where, getSwapTransaction, Running, Goto, chainVars
<1>2. /\ tx'.side = side
      /\ tx'.in = IF side = "in" THEN pool.base ELSE pool.quote
      /\ tx'.out = IF side = "in" THEN pool.quote ELSE pool.base
      /\ tx'.quoted = quoted
      /\ tx'.microLamports = fetchPriorityFee(extreme)
      /\ tx'.until = height + Lifetime
      /\ tx' = [side |-> tx'.side, in |-> tx'.in, out |-> tx'.out,
                quoted |-> tx'.quoted, microLamports |-> tx'.microLamports,
                until |-> tx'.until]
  BY DEF getSwapTransaction
<1>3. /\ tx'.in = SOL /\ tx'.out = BONK /\ tx'.side \in {"in", "out"}
  BY <1>1, <1>2, Sides, SwapAssumption
<1>4. tx'.microLamports \in Nat /\ tx'.until \in Nat
  <2>1. height \in Nat /\ Lifetime \in Nat /\ extreme \in Nat
    BY SwapAssumption DEF Inv, TypeOK
  <2>2. fetchPriorityFee(extreme) \in Nat
    BY <2>1, Numbers
  <2> QED
    BY <1>2, <2>1, <2>2
<1>5. fate # "unsent" => Sold' /\ world.execute /\ tx' # NoTx
  <2>1. NoTx.in # SOL
    BY SwapAssumption DEF NoTx
  <2> QED
    BY <1>3, <2>1 DEF Inv, Where, Sold
<1>6. tx' \in [side: {"in", "out"}, in: Mints, out: Mints,
               quoted: Quotes \union {0}, microLamports: Nat, until: Nat]
  BY <1>2, <1>3, <1>4 DEF Mints
<1>7. TypeOK'
  BY <1>1, <1>5, <1>6 DEF Inv, TypeOK
<1>8. World' /\ Where'
  BY <1>1, <1>3, <1>5 DEF Inv, World, Where, Sold
<1>9. Hashes'
  <2>1. tx'.until <= height' + Lifetime
    <3>1. tx'.until = height + Lifetime /\ height' = height
      BY <1>1, <1>2
    <3> QED
      BY <3>1, Heights
  <2>2. place' # "confirming" /\ ~(place' = "sending" /\ world'.versioned)
    BY <1>1
  <2> QED
    BY <1>1, <2>1, <2>2 DEF Hashes
<1> QED
  BY <1>7, <1>8, <1>9 DEF Inv

LEMMA SendInv == ASSUME Inv, sendTransaction PROVE Inv'
<1>1. /\ place = "sending" /\ fate' = "sent" /\ printed = {}
      /\ UNCHANGED <<world, keys, pool, until, printed, wallet, height>>
  BY DEF Inv, Where, sendTransaction, Running
<1>2. Sold /\ world.execute /\ NoTx.in # SOL
  BY <1>1, SwapAssumption DEF Inv, Where, NoTx
<1>3. CASE world.versioned
  <2>1. place' = "confirming" /\ tx' = tx
    BY <1>3 DEF sendTransaction, Goto
  <2>2. TypeOK'
    BY <1>1, <1>2, <2>1 DEF Inv, TypeOK, Sold
  <2>3. World' /\ Where' /\ Hashes'
    BY <1>1, <1>2, <1>3, <2>1 DEF Inv, World, Where, Hashes, Sold
  <2> QED
    BY <2>2, <2>3 DEF Inv
<1>4. CASE ~world.versioned
  <2>1. /\ place' = "fetching hash"
        /\ tx' = [tx EXCEPT !.until = height + Lifetime - Finality]
    BY <1>4 DEF sendTransaction, Goto
  <2>2. height + Lifetime - Finality \in Nat
    BY Heights
  <2>3. /\ tx' \in [side: {"in", "out"}, in: Mints, out: Mints,
                    quoted: Quotes \union {0}, microLamports: Nat, until: Nat]
        /\ tx'.until = height + Lifetime - Finality
        /\ tx'.in = SOL /\ tx'.out = BONK
    BY <1>2, <2>1, <2>2 DEF Inv, TypeOK, Sold
  <2>4. TypeOK'
    <3>1. tx' # NoTx
      BY <1>2, <2>3
    <3> QED
      BY <1>1, <1>2, <2>1, <2>3, <3>1 DEF Inv, TypeOK
  <2>5. World' /\ Where'
    BY <1>1, <1>2, <2>1, <2>3 DEF Inv, World, Where, Sold
  <2>6. tx'.until <= height' + Lifetime
    BY <1>1, <2>3, Heights
  <2>7. Hashes'
    BY <1>1, <2>1, <2>6 DEF Hashes
  <2> QED
    BY <2>4, <2>5, <2>7 DEF Inv
<1> QED
  BY <1>3, <1>4

\* The blockhash to confirm against is fetched after the one it was signed with.
LEMMA HashInv ==
  ASSUME Inv, UNCHANGED chainVars, getLatestBlockhash
  PROVE  Inv'
<1>1. /\ place = "fetching hash" /\ printed = {}
      /\ until' = height + Lifetime
      /\ place' = IF world.versioned THEN "sending" ELSE "confirming"
      /\ UNCHANGED <<world, keys, pool, tx, printed, fate, wallet, height>>
  BY DEF Inv, Where, getLatestBlockhash, LatestHash, AfterHash, Running, Goto, chainVars
<1>2. Sold /\ world.execute /\ (~world.versioned => fate # "unsent")
  BY <1>1 DEF Inv, Where
<1>3. until' \in Nat /\ tx.until <= until'
  <2>1. tx.until <= height + Lifetime
    BY DEF Inv, Hashes
  <2>2. until' = height + Lifetime
    BY <1>1
  <2> QED
    BY <2>1, <2>2, Heights
<1>4. TypeOK'
  BY <1>1, <1>2, <1>3 DEF Inv, TypeOK
<1>5. World' /\ Where' /\ Hashes'
  BY <1>1, <1>2, <1>3 DEF Inv, World, Where, Hashes, Sold
<1> QED
  BY <1>4, <1>5 DEF Inv

LEMMA ConfirmInv ==
  ASSUME Inv, UNCHANGED chainVars, confirmTransaction \/ ConfirmationExpires
  PROVE  Inv'
<1>1. /\ place = "confirming" /\ printed = {} /\ tx.until <= until
      /\ UNCHANGED <<world, keys, pool, tx, until, fate, wallet, height>>
  BY DEF Inv, Where, Hashes, confirmTransaction, ConfirmationExpires, Running, chainVars
<1>2. \/ printed' = {"success"} /\ fate = "landed" /\ place' = "reading balances"
      \/ printed' = {"expired"} /\ until < height /\ place' = "over"
  BY <1>1 DEF confirmTransaction, ConfirmationExpires, GoodConfirmation,
     BlockheightExceeded, Goto, Inv, TypeOK
<1>3. TypeOK'
  BY <1>1, <1>2 DEF Inv, TypeOK
<1>4. World' /\ Where'
  BY <1>1, <1>2 DEF Inv, World, Where, Sold
<1>5. Hashes'
  <2>1. printed' = {"expired"} => tx.until < height
    <3>1. tx.until <= until
      BY <1>1
    <3>2. printed' = {"expired"} => until < height
      BY <1>2
    <3> QED
      BY <3>1, <3>2, Heights
  <2>2. tx.until <= height + Lifetime
    BY DEF Inv, Hashes
  <2> QED
    BY <1>1, <1>2, <2>1, <2>2 DEF Hashes
<1> QED
  BY <1>3, <1>4, <1>5 DEF Inv

\* What an execution does to the wallet.
LEMMA ExecuteFacts ==
  ASSUME Inv, Execute
  PROVE  /\ fate = "sent" /\ height <= tx.until /\ Sold
         /\ wallet' \in [Mints -> Nat]
         /\ wallet' # wallet =>
              /\ wallet[SOL] - wallet'[SOL] \in 0..TOKEN_A_AMOUNT
              /\ wallet'[BONK] - wallet[BONK] >= MinOut(tx.quoted)
              /\ wallet'[USDC] = wallet[USDC]
<1>1. fate = "sent" /\ height <= tx.until
  BY DEF Execute, InTime
<1>2. Sold
  BY <1>1 DEF Inv, Where
<1>3. wallet \in [Mints -> Nat] /\ {SOL, BONK, USDC} \subseteq Mints
  BY DEF Inv, TypeOK, Mints
<1>4. MinOut(tx.quoted) \in Nat
  BY Numbers, SwapAssumption DEF Inv, TypeOK
<1>5. CASE UNCHANGED wallet
  BY <1>1, <1>2, <1>3, <1>5
<1>6. CASE \E sold \in 0..TOKEN_A_AMOUNT, bought \in {MinOut(q) : q \in Quotes} :
             Trade(sold, bought)
  <2>1. PICK sold \in 0..TOKEN_A_AMOUNT, bought \in {MinOut(q) : q \in Quotes} :
               Trade(sold, bought)
    BY <1>6
  <2>2. bought \in Nat
    BY Numbers, SwapAssumption
  <2>3. /\ bought >= MinOut(tx.quoted)
        /\ sold <= wallet[SOL]
        /\ wallet' = [wallet EXCEPT ![SOL] = @ - sold, ![BONK] = @ + bought]
    BY <1>2, <1>4, <2>1, <2>2 DEF Trade, Sold
  <2>4. sold \in Nat /\ wallet[SOL] - sold \in Nat /\ wallet[BONK] + bought \in Nat
    BY <1>3, <2>2, <2>3, SwapAssumption
  <2>5. /\ wallet' \in [Mints -> Nat]
        /\ wallet'[SOL] = wallet[SOL] - sold
        /\ wallet'[BONK] = wallet[BONK] + bought
        /\ wallet'[USDC] = wallet[USDC]
    BY <1>3, <2>3, <2>4, SwapAssumption
  <2>6. wallet[SOL] - wallet'[SOL] = sold /\ wallet'[BONK] - wallet[BONK] = bought
    BY <1>3, <2>2, <2>4, <2>5
  <2> QED
    BY <1>1, <1>2, <2>3, <2>5, <2>6
<1> QED
  BY <1>5, <1>6 DEF Execute

LEMMA ExecuteInv == ASSUME Inv, Execute PROVE Inv'
<1>1. /\ fate = "sent" /\ height <= tx.until /\ wallet' \in [Mints -> Nat]
  BY ExecuteFacts
<1>2. /\ fate' \in {"landed", "failed"}
      /\ UNCHANGED <<world, place, keys, pool, tx, until, printed, height>>
  BY DEF Execute
<1>3. TypeOK'
  BY <1>1, <1>2 DEF Inv, TypeOK
<1>4. World' /\ Where' /\ Hashes'
  BY <1>1, <1>2 DEF Inv, World, Where, Hashes, Sold
<1> QED
  BY <1>3, <1>4 DEF Inv

LEMMA BlockInv == ASSUME Inv, NewBlock PROVE Inv'
<1>1. /\ height' = height + 1 /\ height \in Nat /\ tx.until \in Nat
      /\ UNCHANGED <<world, place, keys, pool, tx, until, fate, printed, wallet>>
  BY Heights DEF NewBlock
<1>2. TypeOK'
  <2>1. height' \in Nat
    BY <1>1
  <2> QED
    BY <1>1, <2>1 DEF Inv, TypeOK
<1>3. World' /\ Where'
  BY <1>1 DEF Inv, World, Where, Sold
<1>4. Hashes'
  BY <1>1, SwapAssumption DEF Inv, Hashes
<1> QED
  BY <1>2, <1>3, <1>4 DEF Inv

LEMMA NextInv == Inv /\ [Next]_vars => Inv'
<1> SUFFICES ASSUME Inv, [Next]_vars
             PROVE  Inv'
  OBVIOUS
<1>1. CASE UNCHANGED vars
  <2>1. TypeOK'
    BY <1>1 DEF vars, Inv, TypeOK
  <2>2. World' /\ Where' /\ Hashes'
    BY <1>1 DEF vars, Inv, World, Where, Hashes, Sold
  <2> QED
    BY <2>1, <2>2 DEF Inv
<1>2. CASE sendTransaction
  BY <1>2, SendInv
<1>3. CASE Script /\ UNCHANGED chainVars
  <2>1. CASE loadPoolKeys \/ findPoolInfoForTokens \/ findRaydiumPoolInfo
    BY <1>3, <2>1, FindInv
  <2>2. CASE \E quoted \in Quotes, extreme \in Extremes :
               getSwapTransaction(quoted, extreme)
    BY <1>3, <2>2, BuildInv
  <2>3. CASE getLatestBlockhash
    BY <1>3, <2>3, HashInv
  <2>4. CASE confirmTransaction \/ ConfirmationExpires
    BY <1>3, <2>4, ConfirmInv
  <2>5. CASE ExecutionFailed \/ simulateTransaction \/ ReadBalances \/ NotFound
    BY <1>3, <2>5, OverInv
  <2> QED
    BY <1>2, <1>3, <2>1, <2>2, <2>3, <2>4, <2>5 DEF Script
<1>4. CASE RequestFails /\ UNCHANGED chainVars
  BY <1>4, OverInv
<1>5. CASE Execute
  BY <1>5, ExecuteInv
<1>6. CASE NewBlock
  BY <1>6, BlockInv
<1> QED
  BY <1>1, <1>2, <1>3, <1>4, <1>5, <1>6 DEF Next, Script

LEMMA Invariance == Spec => []Inv
BY InitInv, NextInv, PTL DEF Spec
-----------------------------------------------------------------------------
(* The theorems.                                                           *)

\* Type correctness, and nothing is sent but what was built.
THEOREM TypeCorrect == Spec => []TypeOK
<1>1. Inv => TypeOK
  BY DEF Inv
<1> QED
  BY <1>1, Invariance, PTL

\* Success: it is announced of a swap that has been executed.
THEOREM SuccessAlwaysReal == Spec => []SuccessIsReal
<1>1. Inv => SuccessIsReal
  BY DEF Inv, Where, SuccessIsReal
<1> QED
  BY <1>1, Invariance, PTL

\* Only an execution, or a transaction that is sent, changes anything there.
LEMMA ChainSteps ==
  [Next]_vars =>
    UNCHANGED <<fate, wallet>> \/ (sendTransaction /\ UNCHANGED wallet) \/ Execute
BY DEF Next, Script, vars, chainVars, NewBlock, sendTransaction

\* Expiry: once it is announced, the transaction is never executed.
THEOREM ExpiryAlwaysFinal == Spec => ExpiredIsFinal
<1>1. Inv /\ [Next]_vars => [ "expired" \in printed => fate' = fate ]_vars
  <2> SUFFICES ASSUME Inv, [Next]_vars, "expired" \in printed
               PROVE  fate' = fate
    OBVIOUS
  <2>1. ~Execute
    BY Heights DEF Inv, Hashes, Execute, InTime
  <2>2. ~sendTransaction
    BY DEF Inv, Where, sendTransaction, Running
  <2> QED
    BY <2>1, <2>2, ChainSteps
<1> QED
  BY <1>1, Invariance, PTL DEF Spec, ExpiredIsFinal

\* The swap: SOL for BONK, within the amount and the slippage.
THEOREM AlwaysSellsSolForBonk == Spec => SellsSolForBonk
<1>1. Inv /\ [Next]_vars =>
        [ wallet' # wallet =>
            /\ wallet[SOL] - wallet'[SOL] \in 0..TOKEN_A_AMOUNT
            /\ wallet'[BONK] - wallet[BONK] >= MinOut(tx.quoted)
            /\ wallet'[USDC] = wallet[USDC] ]_vars
  BY ChainSteps, ExecuteFacts
<1> QED
  BY <1>1, Invariance, PTL DEF Spec, SellsSolForBonk
-----------------------------------------------------------------------------
(* The script implements the limit order.                                  *)

\* The transaction is sent from one place, once, and it is the one that was
\* built for a quote.
Once ==
  /\ fate # "unsent" => place \notin {"loading", "finding", "building", "sending",
                                     "simulating"}
  /\ fate # "unsent" /\ place = "fetching hash" => ~world.versioned
  /\ Sold => tx.quoted \in Quotes

LEMMA NextOnce == Inv /\ Once /\ [Next]_vars => Once'
<1> SUFFICES ASSUME Inv, Once, [Next]_vars
             PROVE  Once'
  OBVIOUS
<1>1. ASSUME UNCHANGED <<world, tx, fate>>,
             place' = place \/ place' \in {"over", "reading balances"}
      PROVE  Once'
  BY <1>1 DEF Once, Sold
<1>2. CASE loadPoolKeys /\ UNCHANGED chainVars
  BY <1>2 DEF Once, Sold, loadPoolKeys, Running, Goto, chainVars
<1>3. CASE (findPoolInfoForTokens \/ findRaydiumPoolInfo) /\ UNCHANGED chainVars
  BY <1>3 DEF Once, Sold, findPoolInfoForTokens, findRaydiumPoolInfo, Running, Goto,
     chainVars
<1>4. ASSUME NEW quoted \in Quotes, NEW extreme \in Extremes,
             getSwapTransaction(quoted, extreme), UNCHANGED chainVars
      PROVE  Once'
  <2>1. fate' = "unsent" /\ tx'.quoted \in Quotes
    BY <1>4 DEF Once, getSwapTransaction, Running, chainVars
  <2> QED
    BY <2>1 DEF Once
<1>5. CASE getLatestBlockhash /\ UNCHANGED chainVars
  BY <1>5 DEF Once, Sold, getLatestBlockhash, AfterHash, Running, Goto, chainVars
<1>6. CASE sendTransaction
  <2>1. tx'.quoted = tx.quoted /\ tx'.in = tx.in /\ tx'.out = tx.out /\ world' = world
    BY <1>6 DEF sendTransaction, Inv, TypeOK
  <2>2. place' = IF world.versioned THEN "confirming" ELSE "fetching hash"
    BY <1>6 DEF sendTransaction, Goto
  <2> QED
    BY <2>1, <2>2 DEF Once, Sold
<1>7. CASE (confirmTransaction \/ ConfirmationExpires) /\ UNCHANGED chainVars
  BY <1>1, <1>7 DEF confirmTransaction, ConfirmationExpires, Goto, chainVars
<1>8. CASE /\ ExecutionFailed \/ simulateTransaction \/ ReadBalances \/ NotFound
             \/ RequestFails
           /\ UNCHANGED chainVars
  BY <1>1, <1>8 DEF ExecutionFailed, simulateTransaction, ReadBalances, NotFound,
     RequestFails, Goto, chainVars
<1>9. CASE Execute
  BY <1>9 DEF Once, Sold, Execute, InTime
<1>10. CASE NewBlock \/ UNCHANGED vars
  BY <1>1, <1>10 DEF NewBlock, vars
<1> QED
  BY <1>2, <1>3, <1>4, <1>5, <1>6, <1>7, <1>8, <1>9, <1>10 DEF Next, Script

LEMMA AlwaysOnce == Spec => []Once
<1>1. Init => Once
  BY SwapAssumption DEF Init, Once, Sold, NoTx
<1> QED
  BY <1>1, NextOnce, Invariance, PTL DEF Spec

\* What the order and the news are made of.
Order == [status |-> Status,
          floor |-> IF fate = "unsent" THEN 0 ELSE MinOut(tx.quoted)]
News == printed \intersect {"success", "expired"}
OrderStutter == UNCHANGED <<Order, wallet, News>>
OrderStep == OrderView!Next \/ OrderStutter

LEMMA StatusOf ==
  /\ fate = "unsent" => Status = "none"
  /\ fate = "sent" => Status = IF height <= tx.until THEN "open" ELSE "lapsed"
  /\ fate = "landed" => Status = "filled"
  /\ fate = "failed" => Status = "failed"
BY DEF Status

\* Once sent, the transaction is on the market.
LEMMA SendPlaces ==
  ASSUME Inv, Once, sendTransaction
  PROVE  OrderView!Place
<1>1. /\ fate = "unsent" /\ fate' = "sent" /\ tx'.quoted = tx.quoted
      /\ UNCHANGED <<printed, wallet>>
  BY DEF Once, sendTransaction, Running, Inv, TypeOK
<1>2. tx.quoted \in Quotes
  BY DEF Inv, Where, Once, sendTransaction, Running
<1>3. Order = [status |-> "none", floor |-> 0]
  BY <1>1, StatusOf DEF Order
<1>4. PICK status \in {"open", "lapsed"} : Status' = status
  BY <1>1 DEF Status
<1>5. Order' = [status |-> status, floor |-> MinOut(tx.quoted)]
  BY <1>1, <1>4 DEF Order, MinOut
<1> QED
  BY <1>1, <1>2, <1>3, <1>5 DEF OrderView!Place, Order

\* The chain fills the order or closes it.
LEMMA ExecuteFills ==
  ASSUME Inv, Execute
  PROVE  OrderView!Fill \/ OrderView!Close
<1>1. fate = "sent" /\ height <= tx.until /\ Sold
  BY ExecuteFacts
<1>2. UNCHANGED <<tx, printed>>
  BY DEF Execute
<1>3. Order = [status |-> "open", floor |-> MinOut(tx.quoted)]
  BY <1>1, StatusOf DEF Order
<1>4. CASE fate' = "failed" /\ UNCHANGED wallet
  <2>1. Status' = "failed"
    BY <1>4 DEF Status
  <2>2. Order' = [Order EXCEPT !.status = "failed"]
    BY <1>2, <1>3, <1>4, <2>1 DEF Order, MinOut
  <2> QED
    BY <1>2, <1>3, <1>4, <2>2 DEF OrderView!Close, Order
<1>5. CASE /\ fate' = "landed"
           /\ \E sold \in 0..TOKEN_A_AMOUNT, bought \in {MinOut(q) : q \in Quotes} :
                Trade(sold, bought)
  <2>1. PICK sold \in 0..TOKEN_A_AMOUNT, bought \in {MinOut(q) : q \in Quotes} :
          Trade(sold, bought)
    BY <1>5
  <2>2. MinOut(tx.quoted) \in Nat
    BY Numbers, SwapAssumption DEF Inv, TypeOK
  <2>3. /\ sold <= wallet[SOL]
        /\ bought >= MinOut(tx.quoted)
        /\ wallet' = [wallet EXCEPT ![SOL] = @ - sold, ![BONK] = @ + bought]
    BY <1>1, <2>1, <2>2 DEF Trade, Sold
  <2>4. Status' = "filled"
    BY <1>5 DEF Status
  <2>5. Order' = [Order EXCEPT !.status = "filled"]
    BY <1>2, <1>3, <1>5, <2>4 DEF Order, MinOut
  <2>6. Order.status = "open" /\ bought >= Order.floor
    BY <1>3, <2>3
  <2> QED
    BY <1>2, <2>3, <2>5, <2>6 DEF OrderView!Fill, Order
<1> QED
  BY <1>4, <1>5 DEF Execute

\* A block leaves the order as it is, or lets it lapse.
LEMMA BlockLapses ==
  ASSUME Inv, NewBlock
  PROVE  OrderStep
<1>1. UNCHANGED <<tx, fate, printed, wallet>>
  BY DEF NewBlock
<1>2. CASE Status' = Status
  <2>1. Order' = Order
    BY <1>1, <1>2 DEF Order, MinOut
  <2> QED
    BY <1>1, <2>1 DEF OrderStep, OrderStutter, News
<1>3. CASE Status' # Status
  <2>1. fate = "sent" /\ fate' = "sent"
    BY <1>1, <1>3 DEF Status, Inv, TypeOK
  <2>2. height <= tx.until
    <3>1. ~(height <= tx.until) => ~(height' <= tx'.until)
      BY <1>1, Heights DEF NewBlock
    <3> QED
      BY <1>3, <2>1, <3>1 DEF Status
  <2>3. Status = "open" /\ Status' = "lapsed"
    BY <1>3, <2>1, <2>2 DEF Status
  <2>4. Order = [status |-> "open", floor |-> MinOut(tx.quoted)]
    BY <2>1, <2>3 DEF Order
  <2>5. Order' = [Order EXCEPT !.status = "lapsed"]
    BY <1>1, <2>1, <2>3, <2>4 DEF Order, MinOut
  <2>6. OrderView!Close
    BY <1>1, <2>4, <2>5 DEF OrderView!Close, Order
  <2> QED
    BY <2>6 DEF OrderStep, OrderView!Next
<1> QED
  BY <1>2, <1>3

\* What is printed of a confirmation is news of the order.
LEMMA ConfirmTells ==
  ASSUME Inv, UNCHANGED chainVars, confirmTransaction \/ ConfirmationExpires
  PROVE  OrderView!Tell
<1>1. /\ place = "confirming" /\ tx.until <= until /\ fate # "unsent"
      /\ UNCHANGED <<tx, fate, wallet, height>>
  BY DEF Inv, TypeOK, Hashes, confirmTransaction, ConfirmationExpires, Running,
     chainVars
<1>2. Order' = Order
  BY <1>1 DEF Order, Status, MinOut
<1>3. CASE confirmTransaction
  <2>1. Order.status = "filled"
    BY <1>3 DEF confirmTransaction, GoodConfirmation, Order, Status
  <2>2. News' = News \union {"success"}
    BY <1>3 DEF confirmTransaction, News
  <2> QED
    BY <1>1, <1>2, <2>1, <2>2 DEF OrderView!Tell, Order, News
<1>4. CASE ConfirmationExpires
  <2>1. ~(height <= tx.until)
    BY <1>1, <1>4, Heights DEF ConfirmationExpires, BlockheightExceeded
  <2>2. Order.status \in {"lapsed", "filled", "failed"}
    BY <1>1, <2>1 DEF Order, Status, Inv, TypeOK
  <2>3. News' = News \union {"expired"}
    BY <1>4 DEF ConfirmationExpires, News
  <2> QED
    BY <1>1, <1>2, <2>2, <2>3 DEF OrderView!Tell, Order, News
<1> QED
  BY <1>3, <1>4

\* The other steps are the script's own business.
LEMMA RestStutters ==
  ASSUME Inv, Once, UNCHANGED chainVars,
         \/ loadPoolKeys \/ findPoolInfoForTokens \/ findRaydiumPoolInfo
         \/ \E quoted \in Quotes, extreme \in Extremes :
              getSwapTransaction(quoted, extreme)
         \/ getLatestBlockhash \/ ExecutionFailed \/ simulateTransaction
         \/ ReadBalances \/ NotFound \/ RequestFails
  PROVE  OrderStutter
<1>1. UNCHANGED <<fate, wallet, height>>
  BY DEF chainVars
<1>2. fate = "unsent" \/ tx' = tx
  BY DEF Once, loadPoolKeys, findPoolInfoForTokens, findRaydiumPoolInfo,
     getSwapTransaction, getLatestBlockhash, ExecutionFailed, simulateTransaction,
     ReadBalances, NotFound, RequestFails, Running
<1>3. Order' = Order
  BY <1>1, <1>2 DEF Order, Status, MinOut
<1>4. News' = News
  <2>1. CASE simulateTransaction \/ NotFound
    BY <2>1 DEF simulateTransaction, NotFound, Running, Inv, Where, News
  <2>2. CASE ~simulateTransaction /\ ~NotFound
    BY <2>2 DEF loadPoolKeys, findPoolInfoForTokens, findRaydiumPoolInfo,
       getSwapTransaction, getLatestBlockhash, ExecutionFailed, ReadBalances,
       RequestFails, News
  <2> QED
    BY <2>1, <2>2
<1> QED
  BY <1>1, <1>3, <1>4 DEF OrderStutter

\* Refinement: whatever the pool, the configuration, the blocks and the
\* requests that fail, the script places one limit order, once, and tells
\* its user the truth about it.
THEOREM Refinement == Spec => ImplementsLimitOrder
<1>1. Init => OrderView!Init
  BY DEF Init, OrderView!Init, Status
<1>2. Inv /\ Once /\ [Next]_vars => [OrderView!Next]_(OrderView!vars)
  <2> SUFFICES ASSUME Inv, Once, [Next]_vars
               PROVE  OrderStep
    BY DEF OrderStep, OrderStutter, OrderView!vars, Order, News
  <2>1. CASE sendTransaction
    BY <2>1, SendPlaces DEF OrderStep, OrderView!Next
  <2>2. CASE Execute
    BY <2>2, ExecuteFills DEF OrderStep, OrderView!Next
  <2>3. CASE NewBlock
    BY <2>3, BlockLapses
  <2>4. CASE (confirmTransaction \/ ConfirmationExpires) /\ UNCHANGED chainVars
    BY <2>4, ConfirmTells DEF OrderStep, OrderView!Next
  <2>5. CASE UNCHANGED vars
    BY <2>5 DEF OrderStep, OrderStutter, vars, Order, News, Status, MinOut
  <2>6. CASE Next /\ ~sendTransaction /\ ~Execute /\ ~NewBlock
             /\ ~((confirmTransaction \/ ConfirmationExpires) /\ UNCHANGED chainVars)
    BY <2>6, RestStutters DEF Next, Script, OrderStep
  <2> QED
    BY <2>1, <2>2, <2>3, <2>4, <2>5, <2>6
<1> QED
  BY <1>1, <1>2, Invariance, AlwaysOnce, PTL DEF Spec, ImplementsLimitOrder,
     OrderView!Spec
=============================================================================
