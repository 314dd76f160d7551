------------------------------- MODULE ArbBot -------------------------------
(***************************************************************************)
(* The arbitrage bot of backend/jupiter.ts.  A timer callback asks for a   *)
(* quote and, if the quote is good enough, builds, sends and confirms a    *)
(* swap.  JavaScript runs one callback at a time and changes callback only *)
(* at an await, so one action is what a callback does between two awaits,  *)
(* and several callbacks may be in progress: a task is one of them.        *)
(***************************************************************************)
EXTENDS Integers, Sequences, FiniteSets

CONSTANTS
  Tasks,         \* callbacks that may be in progress at the same time
  Opening,       \* the trade the constructor sets up
  Whole,         \* 100 %, in the unit that the next two are counted in
  Gain,          \* targetGainPercentage
  Slippage,      \* how far below its quote a swap may deliver
  OutAmounts,    \* the amounts a quote may promise
  Receipts,      \* the amounts a swap may deliver
  Faults,        \* which of the faults below may happen
  MaxSwaps       \* bound on the transactions sent

\* A quote that outlasts the check interval; an RPC error, or 30 s of polling,
\* before the fate of a transaction is known; a failed write of trades.json; a
\* process that is killed at any moment, and another one that takes its place.
FaultKinds == {"slow quote", "lost answer", "disk", "restart"}

ASSUME BotAssumption ==
  /\ Faults \subseteq FaultKinds
  /\ Whole \in Nat \ {0}
  /\ Gain \in Nat
  /\ MaxSwaps \in Nat
  /\ OutAmounts \subseteq Nat
  /\ Receipts \subseteq Nat
  /\ Slippage \in 0..Whole
  /\ Opening.inputMint # Opening.outputMint
  /\ Opening = [inputMint |-> Opening.inputMint, outputMint |-> Opening.outputMint,
                amount |-> Opening.amount, threshold |-> Opening.threshold]
  /\ Opening.amount \in Nat
  /\ Opening.threshold \in Nat

VARIABLES
  process,                  \* of the Bun process
  interval,                 \* priceWatchIntervalId is set
  nextTrade,
  waitingForConfirmation,
  pc,                       \* the await each task is at
  route,                    \* the quote each task works with
  txid,                     \* the transaction each task waits for
  seen,                     \* logSwap's `exists', of each task
  swaps,                    \* the transactions sent, with their fate
  ledger,                   \* the quotes of the swaps the chain has executed
  received,                 \* what each of them has delivered
  trades                    \* trades.json

botVars == <<process, interval, nextTrade, waitingForConfirmation, pc, route,
             txid, seen, trades>>
vars == <<process, interval, nextTrade, waitingForConfirmation, pc, route,
          txid, seen, swaps, ledger, received, trades>>

Mints == {Opening.inputMint, Opening.outputMint}
Amounts == OutAmounts \union {Opening.amount}
Thresholds == {a * (Whole + Gain) : a \in Amounts} \union {Opening.threshold}
NextTrades == [inputMint: Mints, outputMint: Mints, amount: Amounts,
               threshold: Thresholds]
Quotes == [inputMint: Mints, outputMint: Mints, inAmount: Amounts,
           outAmount: OutAmounts \union {0}]

\* Where a task that has set waitingForConfirmation can be.
Swapping == {"building", "confirming", "refreshing", "checking log", "logging"}

\* A quote request: what is asked for, and no answer yet.
Request(trade) ==
  [inputMint |-> trade.inputMint, outputMint |-> trade.outputMint,
   inAmount |-> trade.amount, outAmount |-> 0]

NoRoute == Request(Opening)

Run == process # "exited"
Goto(t, place) == pc' = [pc EXCEPT ![t] = place]
-----------------------------------------------------------------------------
\* The constructor.  The log may be there from an earlier session.
Init ==
  /\ process = "starting"
  /\ interval = FALSE
  /\ nextTrade = Opening
  /\ waitingForConfirmation = FALSE
  /\ pc = [t \in Tasks |-> "idle"]
  /\ route = [t \in Tasks |-> NoRoute]
  /\ txid = [t \in Tasks |-> 0]
  /\ seen = [t \in Tasks |-> FALSE]
  /\ swaps = <<>>
  /\ ledger = <<>>
  /\ received = <<>>
  /\ trades \in [exists: BOOLEAN, entries: {<<>>}]

TerminateSession ==
  /\ process' = "exiting"
  /\ interval' = FALSE

RefreshBalances(low) ==
  IF low THEN TerminateSession ELSE UNCHANGED <<process, interval>>

\* init().  terminateSession finds no interval to clear, and the price watch
\* starts after it all the same.
InitBot(low) ==
  /\ process = "starting"
  /\ process' = IF low THEN "exiting" ELSE "up"
  /\ interval' = TRUE
  /\ UNCHANGED <<nextTrade, waitingForConfirmation, pc, route, txid, seen,
                 swaps, ledger, received, trades>>

\* The flag is read before the quote is asked for, and not again after it.
WatchesAlways == TRUE
Watches == ~waitingForConfirmation

\* The timer callback, up to its await of getQuote.
Tick(t) ==
  /\ Run
  /\ interval
  /\ pc[t] = "idle"
  /\ "slow quote" \in Faults \/ \A u \in Tasks : pc[u] # "quoting"
  /\ Watches
  /\ Goto(t, "quoting")
  /\ route' = [route EXCEPT ![t] = Request(nextTrade)]
  /\ UNCHANGED <<process, interval, nextTrade, waitingForConfirmation, txid,
                 seen, swaps, ledger, received, trades>>

\* The quote is not good enough, or there is none.
QuoteRefused(t) ==
  /\ pc[t] = "quoting"
  /\ Goto(t, "idle")
  /\ route' = [route EXCEPT ![t] = NoRoute]
  /\ UNCHANGED <<process, interval, nextTrade, waitingForConfirmation, txid,
                 seen, swaps, ledger, received, trades>>

\* evaluateQuoteAndSwap compares the answer with the threshold of the
\* nextTrade there is now, which need not be the one the quote was asked for.
AnyQuote(t, out) == TRUE
GoodQuote(t, out) == out * Whole > nextTrade.threshold

QuoteAccepted(t, out) ==
  /\ pc[t] = "quoting"
  /\ GoodQuote(t, out)
  /\ Goto(t, "building")
  /\ route' = [route EXCEPT ![t].outAmount = out]
  /\ waitingForConfirmation' = TRUE
  /\ UNCHANGED <<process, interval, nextTrade, txid, seen, swaps, ledger, received,
                 trades>>

\* The `finally' of executeSwap.
FinishHoldingFlag(t) ==
  /\ Goto(t, "idle")
  /\ route' = [route EXCEPT ![t] = NoRoute]
  /\ txid' = [txid EXCEPT ![t] = 0]
  /\ seen' = [seen EXCEPT ![t] = FALSE]
  /\ UNCHANGED waitingForConfirmation
Finish(t) ==
  /\ Goto(t, "idle")
  /\ route' = [route EXCEPT ![t] = NoRoute]
  /\ txid' = [txid EXCEPT ![t] = 0]
  /\ seen' = [seen EXCEPT ![t] = FALSE]
  /\ waitingForConfirmation' = FALSE

\* One of the requests on the way to sendRawTransaction fails.
BuildFails(t) ==
  /\ pc[t] = "building"
  /\ Finish(t)
  /\ UNCHANGED <<process, interval, nextTrade, swaps, ledger, received, trades>>

\* The transaction that was just sent.
PreviousTransaction == Len(swaps)
NewTransaction == Len(swaps')

\* The RPC node takes the transaction.  Its answer may still be lost.
Send(t) ==
  /\ pc[t] = "building"
  /\ Len(swaps) < MaxSwaps
  /\ swaps' = Append(swaps, [quote |-> route[t], fate |-> "pending"])
  /\ \/ /\ Goto(t, "confirming")
        /\ txid' = [txid EXCEPT ![t] = NewTransaction]
        /\ UNCHANGED <<waitingForConfirmation, route, seen>>
     \/ /\ "lost answer" \in Faults
        /\ Finish(t)
  /\ UNCHANGED <<process, interval, nextTrade, ledger, received, trades>>

FlipKeepingAmount(lastTrade) ==
  nextTrade' = [inputMint |-> nextTrade.outputMint,
                outputMint |-> nextTrade.inputMint,
                amount |-> nextTrade.amount,
                threshold |-> lastTrade.inAmount * (Whole + Gain)]
FlipKeepingThreshold(lastTrade) ==
  nextTrade' = [inputMint |-> nextTrade.outputMint,
                outputMint |-> nextTrade.inputMint,
                amount |-> lastTrade.outAmount,
                threshold |-> nextTrade.threshold]
UpdateNextTrade(lastTrade) ==
  nextTrade' = [inputMint |-> nextTrade.outputMint,
                outputMint |-> nextTrade.inputMint,
                amount |-> lastTrade.outAmount,
                threshold |-> lastTrade.inAmount * (Whole + Gain)]

\* The status that confirmTransaction takes for success.
Executed(t) == swaps[txid[t]].fate \in {"landed", "failed"}
Succeeded(t) == swaps[txid[t]].fate = "landed"

Confirm(t) ==
  /\ pc[t] = "confirming"
  /\ Succeeded(t)
  /\ UpdateNextTrade(route[t])
  /\ Goto(t, "refreshing")
  /\ UNCHANGED <<process, interval, waitingForConfirmation, route, txid, seen,
                 swaps, ledger, received, trades>>

\* confirmTransaction throws: an on-chain error, the timeout, an RPC error.
Unresolved(t) == swaps[txid[t]].fate \in {"pending", "landed"}

ConfirmThrows(t) ==
  /\ pc[t] = "confirming"
  /\ Unresolved(t) => "lost answer" \in Faults
  /\ Finish(t)
  /\ UNCHANGED <<process, interval, nextTrade, swaps, ledger, received, trades>>

PostTransactionRefresh(t, low) ==
  /\ pc[t] = "refreshing"
  /\ RefreshBalances(low)
  /\ Goto(t, "checking log")
  /\ UNCHANGED <<nextTrade, waitingForConfirmation, route, txid, seen, swaps,
                 ledger, received, trades>>

CheckLog(t) ==
  /\ pc[t] = "checking log"
  /\ seen' = [seen EXCEPT ![t] = trades.exists]
  /\ Goto(t, "logging")
  /\ UNCHANGED <<process, interval, nextTrade, waitingForConfirmation, route,
                 txid, swaps, ledger, received, trades>>

\* A file that was not there is written, one that was is appended to.
WriteOver(exists, entry) ==
  trades' = [exists |-> TRUE, entries |-> <<entry>>]
WriteLog(exists, entry) ==
  trades' = [exists |-> TRUE,
             entries |-> Append(IF exists THEN trades.entries ELSE <<>>, entry)]

\* A failed write is caught; a failed append is thrown in a callback, where
\* nothing catches it and the process ends.
LogSwap(t) ==
  /\ pc[t] = "logging"
  /\ \/ WriteLog(seen[t], route[t]) /\ UNCHANGED process
     \/ /\ "disk" \in Faults
        /\ process' = IF seen[t] THEN "exiting" ELSE process
        /\ UNCHANGED trades
  /\ Finish(t)
  /\ UNCHANGED <<interval, nextTrade, swaps, ledger, received>>

\* process.exit: what the tasks were doing is lost.
Exit ==
  /\ process' = "exited"
  /\ pc' = [t \in Tasks |-> "idle"]
  /\ route' = [t \in Tasks |-> NoRoute]
  /\ txid' = [t \in Tasks |-> 0]
  /\ seen' = [t \in Tasks |-> FALSE]
  /\ UNCHANGED <<interval, nextTrade, waitingForConfirmation, swaps, ledger, received,
                 trades>>

\* The timeout that terminateSession leaves behind.
Terminated == process = "exiting" /\ Exit

Crash == "restart" \in Faults /\ Run /\ Exit

\* A new process: what the chain and the file have is all that is left.
Restart ==
  /\ "restart" \in Faults
  /\ ~Run
  /\ process' = "starting"
  /\ interval' = FALSE
  /\ nextTrade' = Opening
  /\ waitingForConfirmation' = FALSE
  /\ UNCHANGED <<pc, route, txid, seen, swaps, ledger, received, trades>>
-----------------------------------------------------------------------------
(* The chain: a transaction lands, fails, or its blockhash expires.  It    *)
(* fails, too, if the wallet holds less than what it sells.                *)

\* A swap takes the amount quoted for the sale and delivers what the pools
\* pay by then, unless that is too far below the quote.
Land(i) ==
  /\ swaps[i].fate = "pending"
  /\ swaps' = [swaps EXCEPT ![i].fate = "landed"]
  /\ ledger' = Append(ledger, swaps[i].quote)
  /\ \E amount \in Receipts :
       /\ amount * Whole >= swaps[i].quote.outAmount * (Whole - Slippage)
       /\ received' = Append(received, amount)
  /\ UNCHANGED botVars

Miss(i) ==
  /\ swaps[i].fate = "pending"
  /\ \E fate \in {"failed", "dropped"} : swaps' = [swaps EXCEPT ![i].fate = fate]
  /\ UNCHANGED <<ledger, received>>
  /\ UNCHANGED botVars

Settle(i) == Land(i) \/ Miss(i)

Advance(t) ==
  \/ QuoteRefused(t)
  \/ \E out \in OutAmounts : QuoteAccepted(t, out)
  \/ BuildFails(t) \/ Send(t)
  \/ Confirm(t) \/ ConfirmThrows(t)
  \/ \E low \in BOOLEAN : PostTransactionRefresh(t, low)
  \/ CheckLog(t) \/ LogSwap(t)

Next ==
  \/ \E low \in BOOLEAN : InitBot(low)
  \/ \E t \in Tasks : Tick(t) \/ Advance(t)
  \/ Terminated \/ Crash \/ Restart
  \/ \E i \in DOMAIN swaps : Settle(i)

Spec == Init /\ [][Next]_vars

\* Timers fire, every request is answered or fails, polling ends after 30 s,
\* and a transaction that has not landed when its blockhash expires never will.
Fairness ==
  /\ WF_vars(\E low \in BOOLEAN : InitBot(low))
  /\ WF_vars(\E t \in Tasks : Tick(t))
  /\ \A t \in Tasks : WF_vars(Advance(t))
  /\ WF_vars(Terminated)
  /\ WF_vars(\E i \in DOMAIN swaps : Settle(i))

FairSpec == Spec /\ Fairness
-----------------------------------------------------------------------------
(* Properties.                                                             *)

\* Every variable keeps its type; a task that confirms has a transaction.
TypeOK ==
  /\ process \in {"starting", "up", "exiting", "exited"}
  /\ interval \in BOOLEAN
  /\ nextTrade \in NextTrades
  /\ waitingForConfirmation \in BOOLEAN
  /\ pc \in [Tasks -> {"idle", "quoting"} \union Swapping]
  /\ route \in [Tasks -> Quotes]
  /\ txid \in [Tasks -> 0..Len(swaps)]
  /\ \A t \in Tasks : pc[t] = "confirming" => txid[t] # 0
  /\ seen \in [Tasks -> BOOLEAN]
  /\ \A i \in DOMAIN swaps : swaps[i] \in
       [quote: Quotes, fate: {"pending", "landed", "failed", "dropped"}]
  /\ \A i \in DOMAIN ledger : ledger[i] \in Quotes
  /\ Len(received) = Len(ledger)
  /\ \A i \in DOMAIN received : received[i] \in Receipts
  /\ trades.exists \in BOOLEAN
  /\ \A i \in DOMAIN trades.entries : trades.entries[i] \in Quotes

\* The flag never outlives the swaps: while it is set some task is in
\* executeSwap and will clear it, whatever overlapped or failed before.
FlagTracksSwap ==
  Run /\ waitingForConfirmation => \E t \in Tasks : pc[t] \in Swapping

\* The bot goes on asking for a price for as long as its process lives.
KeepsWatching ==
  []<>(\E t \in Tasks : pc[t] = "quoting") \/ []<>(process = "exited")

\* Whatever overlaps, fails or crashes, trades.json claims no swap that the
\* chain has not executed, and none more often than the chain has.
Count(list, quote) == Cardinality({i \in DOMAIN list : list[i] = quote})

LogIsTruthful ==
  \A i \in DOMAIN trades.entries :
    Count(trades.entries, trades.entries[i]) <= Count(ledger, trades.entries[i])

\* jupiter.ts:194, `Waiting for previous transaction to confirm...': a new
\* transaction is sent only when the fate of the one before is settled.
OneSwapAtATime ==
  Cardinality({i \in DOMAIN swaps : swaps[i].fate = "pending"}) <= 1

\* waitingForConfirmation keeps the callbacks apart: at most one of them is
\* between its tick and the end of its executeSwap.
OneTaskAtATime ==
  \A t, u \in Tasks : pc[t] # "idle" /\ pc[u] # "idle" => t = u

\* When no swap is under way, nextTrade is the trade that follows from the
\* quotes of the swaps the chain has executed, whatever they have delivered:
\* the other direction, the amount quoted, the threshold of that sale.
Promise == INSTANCE Trader WITH history <- ledger, receipts <- received

NextTradeFollows ==
  /\ process = "up"
  /\ \A t \in Tasks : pc[t] \notin {"building", "confirming"}
  => nextTrade = Promise!Offer(ledger)

\* trades.json never runs ahead of the chain, loses or reorders a swap: it is
\* what the chain has executed, short of at most the latest swap.
LogFollowsLedger ==
  /\ Len(trades.entries) \in {Len(ledger), Len(ledger) - 1}
  /\ \A i \in DOMAIN trades.entries : trades.entries[i] = ledger[i]

\* Every executed swap gets into trades.json, or the process exits.
LandedIsLogged ==
  \A i \in 1..MaxSwaps :
    Len(ledger) >= i ~> Len(trades.entries) >= i \/ process = "exited"

\* The swaps the chain executes are the trades of a serial trader: each
\* sells what the one before was quoted to bring, on a quote at the target
\* gain, and delivers no less than that quote short of the slippage.
ImplementsTrader == Promise!Spec

\* jupiter.ts:49, `our next trade will only execute if we have gained this
\* percentage in the previous trade': every swap the chain executes is
\* quoted at the target gain on the one it executed before.
GainEachTrade ==
  \A i \in DOMAIN ledger :
    Promise!Takes(Promise!Offer(SubSeq(ledger, 1, i - 1)), ledger[i])

\* What jupiter.ts:49 is for: whenever a swap brings back a token, it delivers
\* more of it than any swap before it has sold, by the target gain and short of
\* the slippage of that one swap: what the swaps before it lost to slippage
\* does not add up.
ReturnsGrow ==
  \A i, j \in DOMAIN ledger :
    i < j /\ ledger[i].inputMint = ledger[j].outputMint =>
      received[j] * Whole * Whole
        >= ledger[i].inAmount * (Whole + Gain) * (Whole - Slippage)

\* jupiter.ts:50, `checkInterval ... to check price': a bot that was initiated
\* with enough SOL does ask for a price.
PriceChecked ==
  <>(process = "up") => <>(\E t \in Tasks : pc[t] = "quoting")
=============================================================================
