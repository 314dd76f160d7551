-------------------------- MODULE SerialBotProofs --------------------------
(***************************************************************************)
(* What overlap and lost answers take from the bot, and what the other     *)
(* faults leave it, for any number of tasks, any amounts and any gain.     *)
(*                                                                         *)
(* As long as quotes are answered within the check interval, at most one   *)
(* task is past its tick, whatever is lost, fails or crashes (Alone).  If  *)
(* no answer is lost and no process is replaced either, the bot is a       *)
(* serial trader, even when the log cannot be written: the task works with *)
(* the offer that follows from what the chain has executed, and only its   *)
(* transaction can be pending (Serial).  Without any fault the log follows *)
(* the chain too (Logged).                                                 *)
(***************************************************************************)
EXTENDS ArbBotProofs

Timely == "slow quote" \notin Faults
InOrder == Faults \subseteq {"disk"}

Offered == Promise!Offer(ledger)
Latest == swaps[Len(swaps)]
Good(q) == Promise!Takes(Offered, q) /\ q.outAmount \in OutAmounts

\* One task at a time, and it holds the flag.
Alone ==
  /\ OneTaskAtATime
  /\ \A t \in Tasks : pc[t] \in Swapping => waitingForConfirmation
  /\ ~Run => \A t \in Tasks : pc[t] = "idle"

\* What that task works with.
Works ==
  \A t \in Tasks :
    /\ pc[t] = "quoting" => route[t] = Request(nextTrade)
    /\ pc[t] \in {"building", "confirming"} => Promise!Takes(nextTrade, route[t])
    /\ pc[t] = "confirming" =>
         /\ swaps # << >>
         /\ txid[t] = Len(swaps)
         /\ Latest.quote = route[t]

\* A transaction without a fate is the latest one, and in time.
Pending ==
  \A i \in DOMAIN swaps : swaps[i].fate = "pending" =>
    /\ i = Len(swaps)
    /\ Good(swaps[i].quote)
    /\ Run => \E t \in Tasks : pc[t] = "confirming"

\* The swap of a task is executed and not known yet.
Ahead(t) == pc[t] = "confirming" /\ Latest.fate = "landed"

Knows ==
  /\ \A t \in Tasks : Ahead(t) => ledger # << >> /\ ledger[Len(ledger)] = route[t]
  /\ Run /\ (\A t \in Tasks : ~Ahead(t)) => nextTrade = Offered

Serial == Typed /\ Alone /\ Works /\ Pending /\ Knows

\* The log is short of the swap of that task.
Lags(t) == Ahead(t) \/ pc[t] \in {"refreshing", "checking log", "logging"}
Missing(q) == ledger = Append(trades.entries, q)

Logged ==
  /\ ~trades.exists => trades.entries = << >>
  /\ \A t \in Tasks : pc[t] = "logging" => seen[t] = trades.exists
  /\ \A t \in Tasks : Lags(t) => Missing(route[t])
  /\ Run /\ (\A t \in Tasks : ~Lags(t)) => ledger = trades.entries
  /\ ~Run =>
       \/ ledger = trades.entries
       \/ (\A i \in DOMAIN swaps : swaps[i].fate # "pending") /\ \E q \in Quotes : Missing(q)

-----------------------------------------------------------------------------
(* One task at a time.                                                     *)

\* The busy task goes on, with the flag, or gives up.
LEMMA GoesAlone ==
  ASSUME Typed, Alone, NEW t \in Tasks, pc[t] # "idle", Run',
         NEW place \in {"idle"} \union Swapping, Goto(t, place),
         place \in Swapping => waitingForConfirmation'
  PROVE  Alone'
<1>1. \A u \in Tasks : u # t => pc[u] = "idle"
  BY DEF Alone, OneTaskAtATime
<1>2. \A u \in Tasks : pc'[u] = IF u = t THEN place ELSE "idle"
  BY <1>1 DEF Goto, Typed
<1>3. OneTaskAtATime'
  BY <1>2 DEF OneTaskAtATime
<1>4. \A u \in Tasks : pc'[u] \in Swapping => waitingForConfirmation'
  BY <1>2 DEF Swapping
<1> QED
  BY <1>3, <1>4 DEF Alone

LEMMA AdvanceAlone ==
  ASSUME Typed, Alone, NEW t \in Tasks, Advance(t)
  PROVE  Alone'
<1>1. pc[t] # "idle"
  BY DEF Advance, QuoteRefused, QuoteAccepted, BuildFails, Send, Confirm,
     ConfirmThrows, PostTransactionRefresh, CheckLog, LogSwap
<1>2. Run
  BY <1>1 DEF Alone
<1>3. process' \in {process, "exiting"}
  BY DEF Advance, QuoteRefused, QuoteAccepted, BuildFails, Send, Confirm,
     ConfirmThrows, PostTransactionRefresh, RefreshBalances, TerminateSession,
     CheckLog, LogSwap
<1>4. Run'
  BY <1>2, <1>3 DEF Run
<1>5. pc[t] \in Swapping => waitingForConfirmation
  BY DEF Alone
<1>6. \/ Goto(t, "idle")
      \/ \E place \in Swapping : Goto(t, place) /\ waitingForConfirmation'
  <2>1. CASE \E out \in OutAmounts : QuoteAccepted(t, out)
    BY <2>1 DEF QuoteAccepted, Swapping
  <2>2. CASE Send(t)
    <3>1. pc[t] \in Swapping /\ "confirming" \in Swapping
      BY <2>2 DEF Send, Swapping
    <3>2. \/ Goto(t, "idle")
          \/ Goto(t, "confirming") /\ UNCHANGED waitingForConfirmation
      BY <2>2 DEF Send, Finish
    <3> QED
      BY <1>5, <3>1, <3>2
  <2>3. CASE Confirm(t) \/ CheckLog(t)
    BY <1>5, <2>3 DEF Confirm, CheckLog, Swapping
  <2>4. CASE \E low \in BOOLEAN : PostTransactionRefresh(t, low)
    <3>1. pc[t] \in Swapping /\ "checking log" \in Swapping
      BY <2>4 DEF PostTransactionRefresh, Swapping
    <3>2. Goto(t, "checking log") /\ UNCHANGED waitingForConfirmation
      BY <2>4 DEF PostTransactionRefresh
    <3> QED
      BY <1>5, <3>1, <3>2
  <2>5. CASE QuoteRefused(t) \/ BuildFails(t) \/ ConfirmThrows(t) \/ LogSwap(t)
    BY <2>5 DEF QuoteRefused, BuildFails, ConfirmThrows, LogSwap, Finish
  <2> QED
    BY <2>1, <2>2, <2>3, <2>4, <2>5 DEF Advance
<1>7. CASE Goto(t, "idle")
  BY <1>1, <1>4, <1>7, GoesAlone DEF Swapping
<1>8. ASSUME NEW place \in Swapping, Goto(t, place), waitingForConfirmation'
      PROVE  Alone'
  BY <1>1, <1>4, <1>8, GoesAlone
<1> QED
  BY <1>6, <1>7, <1>8

\* A tick finds no task asking for a quote, and none in executeSwap.
LEMMA TickAllIdle ==
  ASSUME Timely, Typed, Alone, NEW t \in Tasks, Tick(t)
  PROVE  \A u \in Tasks : pc[u] = "idle"
<1>1. \A u \in Tasks : pc[u] # "quoting"
  BY DEF Timely, Tick
<1>2. \A u \in Tasks : pc[u] \notin Swapping
  BY DEF Tick, Watches, Alone
<1> QED
  BY <1>1, <1>2 DEF Typed, Places

LEMMA NextAlone ==
  ASSUME Timely, Typed, Alone, [Next]_vars
  PROVE  Alone'
<1>1. ASSUME NEW t \in Tasks, Tick(t) PROVE Alone'
  <2>1. \A u \in Tasks : pc[u] = "idle"
    BY <1>1, TickAllIdle
  <2>2. \A u \in Tasks : pc'[u] = IF u = t THEN "quoting" ELSE "idle"
    BY <1>1, <2>1 DEF Tick, Goto, Typed
  <2>3. Run'
    BY <1>1 DEF Tick, Run
  <2>4. OneTaskAtATime'
    BY <2>2 DEF OneTaskAtATime
  <2> QED
    BY <2>2, <2>3, <2>4 DEF Alone, Swapping
<1>2. ASSUME \A u \in Tasks : pc'[u] = "idle" PROVE Alone'
  BY <1>2 DEF Alone, OneTaskAtATime, Swapping
<1>3. ASSUME UNCHANGED <<pc, waitingForConfirmation>>, ~Run' => ~Run
      PROVE  Alone'
  BY <1>3 DEF Alone, OneTaskAtATime
<1>4. CASE Terminated \/ Crash
  BY <1>2, <1>4 DEF Terminated, Crash, Exit
<1>5. CASE Restart
  BY <1>2, <1>5 DEF Restart, Alone
<1>6. ASSUME NEW low \in BOOLEAN, InitBot(low) PROVE Alone'
  BY <1>3, <1>6 DEF InitBot, Run
<1>7. ASSUME NEW i \in DOMAIN swaps, Settle(i) PROVE Alone'
  BY <1>3, <1>7 DEF Settle, Land, Miss, botVars, Run
<1>8. CASE UNCHANGED vars
  BY <1>3, <1>8 DEF vars, Run
<1> QED
  BY <1>1, <1>4, <1>5, <1>6, <1>7, <1>8, AdvanceAlone DEF Next

\* If quotes are answered within the check interval, the flag keeps the
\* callbacks apart: from its tick on, a task is alone until it is done,
\* whatever answers are lost, writes fail or processes are replaced.
THEOREM TasksExclude == Timely => (Spec => []OneTaskAtATime)
<1> SUFFICES ASSUME Timely PROVE Spec => []OneTaskAtATime
  OBVIOUS
<1>1. Init => Alone
  BY DEF Init, Alone, OneTaskAtATime, Swapping
<1>2. Typed /\ Alone /\ [Next]_vars => Alone'
  BY NextAlone
<1>3. Alone => OneTaskAtATime
  BY DEF Alone
<1> QED
  BY <1>1, <1>2, <1>3, AlwaysTyped, PTL DEF Spec
-----------------------------------------------------------------------------
(* One swap at a time: steps of the busy task.                             *)

LEMMA InitSerial == Init => Serial
<1> SUFFICES ASSUME Init PROVE Serial
  OBVIOUS
<1>1. Typed
  BY InitTyped
<1>2. Alone /\ Works /\ Pending
  BY DEF Init, Alone, OneTaskAtATime, Works, Pending, Swapping
<1>3. nextTrade = Offered
  BY DEF Init, Offered, Promise!Offer
<1>4. Knows
  BY <1>3 DEF Init, Knows, Ahead
<1> QED
  BY <1>1, <1>2, <1>4 DEF Serial

LEMMA Only ==
  ASSUME Serial, NEW t \in Tasks, pc[t] # "idle"
  PROVE  \A u \in Tasks : u # t => pc[u] = "idle"
BY DEF Serial, Alone, OneTaskAtATime

\* No transaction is pending while the only busy task is not confirming one.
LEMMA NonePending ==
  ASSUME Serial, NEW t \in Tasks, pc[t] # "idle",
         pc[t] = "confirming" => Latest.fate # "pending"
  PROVE  /\ Run
         /\ \A i \in DOMAIN swaps : swaps[i].fate # "pending"
<1>1. Run
  BY DEF Serial, Alone
<1>2. ASSUME NEW i \in DOMAIN swaps, swaps[i].fate = "pending" PROVE FALSE
  <2>1. i = Len(swaps) /\ \E u \in Tasks : pc[u] = "confirming"
    BY <1>1, <1>2 DEF Serial, Pending
  <2>2. pc[t] = "confirming"
    BY <2>1, Only
  <2> QED
    BY <1>2, <2>1, <2>2 DEF Latest
<1> QED
  BY <1>1, <1>2

\* What the bot knows if its only busy task has nothing to learn.
LEMMA KnowsOffer ==
  ASSUME Serial, NEW t \in Tasks, pc[t] # "idle", ~Ahead(t)
  PROVE  nextTrade = Offered
<1>1. \A u \in Tasks : ~Ahead(u)
  BY Only DEF Ahead
<1>2. Run
  BY DEF Serial, Alone
<1> QED
  BY <1>1, <1>2 DEF Serial, Knows

\* The one busy task gives up or is done.
LEMMA FinishSerial ==
  ASSUME Serial, Typed', Alone', NEW t \in Tasks, pc[t] # "idle", Goto(t, "idle"),
         UNCHANGED <<nextTrade, swaps, ledger>>,
         pc[t] = "confirming" => Latest.fate # "pending",
         ~Ahead(t)
  PROVE  Serial'
<1>1. pc' = [pc EXCEPT ![t] = "idle"]
  BY DEF Goto
<1>2. \A u \in Tasks : pc'[u] = "idle"
  BY <1>1, Only DEF Serial, Typed
<1>3. \A i \in DOMAIN swaps' : swaps'[i].fate # "pending"
  BY NonePending
<1>4. nextTrade' = Offered'
  BY KnowsOffer DEF Offered
<1>5. Works'
  BY <1>2 DEF Works
<1>6. Pending'
  BY <1>3 DEF Pending
<1>7. \A u \in Tasks : ~Ahead(u)'
  BY <1>2 DEF Ahead
<1>8. Knows'
  BY <1>4, <1>7 DEF Knows
<1> QED
  BY <1>5, <1>6, <1>8 DEF Serial

LEMMA TickSerial ==
  ASSUME InOrder, Serial, Typed', Alone', NEW t \in Tasks, Tick(t)
  PROVE  Serial'
<1>1. /\ pc' = [pc EXCEPT ![t] = "quoting"]
      /\ route' = [route EXCEPT ![t] = Request(nextTrade)]
      /\ UNCHANGED <<process, interval, nextTrade, waitingForConfirmation, txid,
                     seen, swaps, ledger, trades>>
      /\ Run
  BY DEF Tick, Goto
<1>2. \A u \in Tasks : pc[u] = "idle"
  BY TickAllIdle DEF InOrder, Timely, Serial
<1>3. \A u \in Tasks : pc'[u] = IF u = t THEN "quoting" ELSE "idle"
  BY <1>1, <1>2 DEF Serial, Typed
<1>4. Works'
  <2>1. route'[t] = Request(nextTrade')
    BY <1>1 DEF Serial, Typed
  <2> QED
    BY <1>3, <2>1 DEF Works
<1>5. Pending'
  <2>1. \A i \in DOMAIN swaps : swaps[i].fate # "pending"
    BY <1>1, <1>2 DEF Serial, Pending
  <2> QED
    BY <1>1, <2>1 DEF Pending
<1>6. \A u \in Tasks : ~Ahead(u) /\ ~Ahead(u)'
  BY <1>2, <1>3 DEF Ahead
<1>7. Knows'
  BY <1>1, <1>6 DEF Serial, Knows, Offered, Run
<1> QED
  BY <1>4, <1>5, <1>7 DEF Serial

LEMMA QuoteRefusedSerial ==
  ASSUME Serial, Typed', Alone', NEW t \in Tasks, QuoteRefused(t)
  PROVE  Serial'
<1>1. pc[t] = "quoting" /\ Goto(t, "idle") /\ UNCHANGED <<nextTrade, swaps, ledger>>
  BY DEF QuoteRefused
<1>2. ~Ahead(t)
  BY <1>1 DEF Ahead
<1> QED
  BY <1>1, <1>2, FinishSerial

LEMMA QuoteAcceptedSerial ==
  ASSUME Serial, Typed', Alone', NEW t \in Tasks, NEW out \in OutAmounts,
         QuoteAccepted(t, out)
  PROVE  Serial'
<1>1. /\ pc[t] = "quoting"
      /\ pc' = [pc EXCEPT ![t] = "building"]
      /\ route' = [route EXCEPT ![t].outAmount = out]
      /\ waitingForConfirmation' = TRUE
      /\ UNCHANGED <<process, interval, nextTrade, txid, seen, swaps, ledger, trades>>
      /\ out * Whole > nextTrade.threshold
  BY DEF QuoteAccepted, Goto, GoodQuote
<1>2. \A u \in Tasks : pc'[u] = IF u = t THEN "building" ELSE "idle"
  BY <1>1, Only DEF Serial, Typed
<1>3. Run /\ \A i \in DOMAIN swaps : swaps[i].fate # "pending"
  BY <1>1, NonePending
<1>4. Promise!Takes(nextTrade, route'[t])
  <2>1. route[t] = Request(nextTrade)
    BY <1>1 DEF Serial, Works
  <2>2. route'[t] = [route[t] EXCEPT !.outAmount = out]
    BY <1>1 DEF Serial, Typed
  <2>3. /\ route'[t].inputMint = nextTrade.inputMint
        /\ route'[t].outputMint = nextTrade.outputMint
        /\ route'[t].inAmount = nextTrade.amount
        /\ route'[t].outAmount = out
    BY <2>1, <2>2 DEF Request
  <2> QED
    BY <1>1, <2>3 DEF Promise!Takes
<1>5. Works'
  BY <1>1, <1>2, <1>4 DEF Works
<1>6. Pending'
  BY <1>1, <1>3 DEF Pending
<1>7. ~Ahead(t) /\ \A u \in Tasks : ~Ahead(u)'
  BY <1>1, <1>2 DEF Ahead
<1>8. nextTrade = Offered
  BY <1>1, <1>7, KnowsOffer
<1>9. Knows'
  BY <1>1, <1>7, <1>8 DEF Knows, Offered
<1> QED
  BY <1>5, <1>6, <1>9 DEF Serial

LEMMA SendSerial ==
  ASSUME InOrder, Serial, Typed', Alone', NEW t \in Tasks, Send(t)
  PROVE  Serial'
<1> DEFINE tx == [quote |-> route[t], fate |-> "pending"]
<1>1. /\ pc[t] = "building"
      /\ pc' = [pc EXCEPT ![t] = "confirming"]
      /\ txid' = [txid EXCEPT ![t] = NewTransaction]
      /\ swaps' = Append(swaps, tx)
      /\ UNCHANGED <<process, interval, nextTrade, waitingForConfirmation, route,
                     seen, ledger, trades>>
  BY DEF InOrder, Send, Goto
<1>2. \A u \in Tasks : pc'[u] = IF u = t THEN "confirming" ELSE "idle"
  BY <1>1, Only DEF Serial, Typed
<1>3. Run /\ \A i \in DOMAIN swaps : swaps[i].fate # "pending"
  BY <1>1, NonePending
<1>4. /\ swaps \in Seq(Sent) /\ tx \in Sent
      /\ swaps' # << >>
      /\ Len(swaps') = Len(swaps) + 1
      /\ swaps'[Len(swaps')] = tx
      /\ DOMAIN swaps' = DOMAIN swaps \union {Len(swaps')}
      /\ \A i \in DOMAIN swaps : swaps'[i] = swaps[i]
  <2>1. swaps \in Seq(Sent) /\ route[t] \in Quotes
    BY DEF Serial, Typed
  <2>2. tx \in Sent
    BY <2>1 DEF Sent
  <2> HIDE DEF tx
  <2> QED
    BY <1>1, <2>1, <2>2
<1>5. tx.quote = route[t] /\ tx.fate = "pending"
  OBVIOUS
<1> HIDE DEF tx
<1>6. Latest' = tx
  BY <1>4 DEF Latest
<1>7. Promise!Takes(nextTrade, route[t])
  BY <1>1 DEF Serial, Works
<1>8. Works'
  <2>1. txid'[t] = Len(swaps')
    BY <1>1 DEF NewTransaction, Serial, Typed
  <2> QED
    BY <1>1, <1>2, <1>4, <1>5, <1>6, <1>7, <2>1 DEF Works
<1>9. ~Ahead(t) /\ \A u \in Tasks : ~Ahead(u)'
  BY <1>1, <1>5, <1>6 DEF Ahead
<1>10. nextTrade = Offered
  BY <1>1, <1>9, KnowsOffer
<1>11. Pending'
  <2>1. Good(route[t])'
    <3>1. route[t].outAmount \in OutAmounts
      BY <1>1 DEF Serial, Typed, Swapping
    <3> QED
      BY <1>1, <1>7, <1>10, <3>1 DEF Good, Offered
  <2>2. ASSUME NEW i \in DOMAIN swaps', swaps'[i].fate = "pending"
        PROVE  i = Len(swaps)' /\ Good(swaps[i].quote)'
    <3>1. i = Len(swaps')
      BY <1>3, <1>4, <2>2
    <3>2. swaps'[i].quote = route'[t]
      BY <1>1, <1>4, <1>5, <3>1
    <3> QED
      BY <2>1, <3>1, <3>2 DEF Good
  <2> QED
    BY <1>2, <2>2 DEF Pending
<1>12. Knows'
  BY <1>1, <1>9, <1>10 DEF Knows, Offered
<1> QED
  BY <1>8, <1>11, <1>12 DEF Serial

LEMMA BuildFailsSerial ==
  ASSUME Serial, Typed', Alone', NEW t \in Tasks, BuildFails(t)
  PROVE  Serial'
<1>1. pc[t] = "building" /\ Goto(t, "idle") /\ UNCHANGED <<nextTrade, swaps, ledger>>
  BY DEF BuildFails, Finish
<1>2. ~Ahead(t)
  BY <1>1 DEF Ahead
<1> QED
  BY <1>1, <1>2, FinishSerial

\* A confirmation that fails while every answer arrives is about a
\* transaction that the chain has refused.
LEMMA RefusedByChain ==
  ASSUME InOrder, Serial, NEW t \in Tasks, ConfirmThrows(t)
  PROVE  Latest.fate \notin {"pending", "landed"}
<1>1. txid[t] = Len(swaps)
  BY DEF ConfirmThrows, Serial, Works
<1> QED
  BY <1>1 DEF InOrder, ConfirmThrows, Unresolved, Latest

LEMMA ConfirmThrowsSerial ==
  ASSUME InOrder, Serial, Typed', Alone', NEW t \in Tasks, ConfirmThrows(t)
  PROVE  Serial'
<1>1. pc[t] = "confirming" /\ Goto(t, "idle") /\ UNCHANGED <<nextTrade, swaps, ledger>>
  BY DEF ConfirmThrows, Finish
<1>2. Latest.fate # "pending" /\ ~Ahead(t)
  BY RefusedByChain DEF Ahead
<1> QED
  BY <1>1, <1>2, FinishSerial

\* The busy task has a swap executed and knows it, and goes on.
LEMMA StaySerial ==
  ASSUME Serial, Typed', Alone', NEW t \in Tasks,
         NEW place \in {"refreshing", "checking log", "logging"},
         Goto(t, place), pc[t] # "idle",
         pc[t] = "confirming" => Latest.fate # "pending",
         UNCHANGED <<swaps, ledger>>, nextTrade' = Offered
  PROVE  Serial'
<1>1. \A u \in Tasks : pc'[u] = IF u = t THEN place ELSE "idle"
  BY Only DEF Goto, Serial, Typed
<1>2. \A i \in DOMAIN swaps' : swaps'[i].fate # "pending"
  BY NonePending
<1>3. Works'
  BY <1>1 DEF Works
<1>4. Pending'
  BY <1>2 DEF Pending
<1>5. \A u \in Tasks : ~Ahead(u)'
  BY <1>1 DEF Ahead
<1>6. Knows'
  BY <1>5 DEF Knows, Offered
<1> QED
  BY <1>3, <1>4, <1>6 DEF Serial

\* A swap that succeeded is in the ledger.
LEMMA SucceededAhead ==
  ASSUME Serial, NEW t \in Tasks, Confirm(t)
  PROVE  Ahead(t)
<1>1. txid[t] = Len(swaps)
  BY DEF Confirm, Serial, Works
<1> QED
  BY <1>1 DEF Confirm, Succeeded, Ahead, Latest

\* The trade flipped by the bot is the offer that follows from the ledger.
LEMMA ConfirmSerial ==
  ASSUME Serial, Typed', Alone', NEW t \in Tasks, Confirm(t)
  PROVE  Serial'
<1>1. /\ pc[t] = "confirming" /\ Goto(t, "refreshing")
      /\ UNCHANGED <<swaps, ledger>>
      /\ UpdateNextTrade(route[t])
  BY DEF Confirm
<1>2. Promise!Takes(nextTrade, route[t])
  BY <1>1 DEF Serial, Works
<1>3. Ahead(t)
  BY SucceededAhead
<1>4. ledger # << >> /\ ledger[Len(ledger)] = route[t]
  BY <1>3 DEF Serial, Knows
<1>5. nextTrade' = Offered
  BY <1>1, <1>2, <1>4 DEF UpdateNextTrade, Offered, Promise!Offer, Promise!Takes
<1>6. Latest.fate # "pending"
  BY <1>3 DEF Ahead
<1> QED
  BY <1>1, <1>5, <1>6, StaySerial

LEMMA RefreshSerial ==
  ASSUME Serial, Typed', Alone', NEW t \in Tasks,
         CheckLog(t) \/ \E low \in BOOLEAN : PostTransactionRefresh(t, low)
  PROVE  Serial'
<1>1. pc[t] \in {"refreshing", "checking log"}
  BY DEF CheckLog, PostTransactionRefresh
<1>2. \E place \in {"checking log", "logging"} : Goto(t, place)
  BY DEF CheckLog, PostTransactionRefresh
<1>3. UNCHANGED <<nextTrade, swaps, ledger>>
  BY DEF CheckLog, PostTransactionRefresh
<1>4. pc[t] # "idle" /\ pc[t] # "confirming" /\ ~Ahead(t)
  BY <1>1 DEF Ahead
<1>5. nextTrade' = Offered
  BY <1>3, <1>4, KnowsOffer
<1> QED
  BY <1>2, <1>3, <1>4, <1>5, StaySerial

\* Whether the log is written or not, the task is done.
LEMMA LogSwapSerial ==
  ASSUME Serial, Typed', Alone', NEW t \in Tasks, LogSwap(t)
  PROVE  Serial'
<1>1. pc[t] = "logging" /\ Goto(t, "idle") /\ UNCHANGED <<nextTrade, swaps, ledger>>
  BY DEF LogSwap, Finish
<1>2. ~Ahead(t)
  BY <1>1 DEF Ahead
<1> QED
  BY <1>1, <1>2, FinishSerial

LEMMA AdvanceSerial ==
  ASSUME InOrder, Serial, Typed', Alone', NEW t \in Tasks, Advance(t)
  PROVE  Serial'
BY QuoteRefusedSerial, QuoteAcceptedSerial, BuildFailsSerial, SendSerial,
   ConfirmSerial, ConfirmThrowsSerial, RefreshSerial, LogSwapSerial DEF Advance
-----------------------------------------------------------------------------
(* One swap at a time: steps of the process and of the chain.              *)

\* The process goes from one place to another without its tasks.
LEMMA RunsOnSerial ==
  ASSUME Serial, Typed', Alone', Run' => Run,
         UNCHANGED <<nextTrade, pc, route, txid, swaps, ledger>>
  PROVE  Serial'
<1>1. Works'
  BY DEF Serial, Works, Latest
<1>2. Pending'
  BY DEF Serial, Pending, Good, Offered
<1>3. \A t \in Tasks : Ahead(t)' <=> Ahead(t)
  BY DEF Ahead, Latest
<1>4. Knows'
  BY <1>3 DEF Serial, Knows, Offered
<1> QED
  BY <1>1, <1>2, <1>4 DEF Serial

\* The process ends: a transaction may be left pending.
LEMMA ExitSerial ==
  ASSUME Serial, Typed', Alone', Exit
  PROVE  Serial'
<1>1. /\ ~Run'
      /\ \A t \in Tasks : pc'[t] = "idle"
      /\ UNCHANGED <<swaps, ledger>>
  BY DEF Exit, Run
<1>2. Works'
  BY <1>1 DEF Works
<1>3. Pending'
  BY <1>1 DEF Serial, Pending, Good, Offered
<1>4. Knows'
  BY <1>1 DEF Knows, Ahead
<1> QED
  BY <1>2, <1>3, <1>4 DEF Serial

\* What a transaction that settles leaves as it was.
LEMMA SettleKeeps ==
  ASSUME Serial, NEW i \in DOMAIN swaps, Settle(i)
  PROVE  /\ i = Len(swaps)
         /\ Good(swaps[i].quote)
         /\ Len(swaps') = Len(swaps)
         /\ swaps' # << >>
         /\ Latest'.quote = Latest.quote
         /\ \A j \in DOMAIN swaps' : swaps'[j].fate # "pending"
         /\ UNCHANGED botVars
<1>1. swaps[i].fate = "pending" /\ UNCHANGED botVars
  BY DEF Settle, Land, Miss
<1>2. PICK fate \in {"landed", "failed", "dropped"} :
        swaps' = [swaps EXCEPT ![i].fate = fate]
  BY DEF Settle, Land, Miss
<1>3. i = Len(swaps) /\ Good(swaps[i].quote)
  BY <1>1 DEF Serial, Pending
<1>4. swaps \in Seq(Sent) /\ swaps[i] \in Sent
  BY DEF Serial, Typed
<1>5. DOMAIN swaps' = DOMAIN swaps /\ Len(swaps') = Len(swaps) /\ swaps' # << >>
  BY <1>2, <1>4
<1>6. swaps'[i].quote = swaps[i].quote /\ swaps'[i].fate = fate
  BY <1>2, <1>4 DEF Sent
<1>7. \A j \in DOMAIN swaps : j # i => swaps'[j] = swaps[j] /\ swaps[j].fate # "pending"
  <2>1. \A j \in DOMAIN swaps : j # i => swaps'[j] = swaps[j]
    BY <1>2
  <2>2. \A j \in DOMAIN swaps : j # i => swaps[j].fate # "pending"
    BY <1>3 DEF Serial, Pending
  <2> QED
    BY <2>1, <2>2
<1>8. \A j \in DOMAIN swaps' : swaps'[j].fate # "pending"
  BY <1>5, <1>6, <1>7
<1>9. Latest'.quote = Latest.quote
  BY <1>3, <1>5, <1>6 DEF Latest
<1> QED
  BY <1>1, <1>3, <1>5, <1>8, <1>9

\* The fate of the latest transaction, and what it adds to the ledger.
LEMMA LandedLatest ==
  ASSUME Serial, NEW i \in DOMAIN swaps, Land(i)
  PROVE  ledger' = Append(ledger, Latest.quote) /\ Latest'.fate = "landed"
<1>1. i = Len(swaps) /\ Len(swaps') = Len(swaps)
  BY SettleKeeps DEF Settle
<1>2. swaps' = [swaps EXCEPT ![i].fate = "landed"] /\ ledger' = Append(ledger, swaps[i].quote)
  BY DEF Land
<1>3. swaps \in Seq(Sent) /\ swaps[i] \in Sent
  BY DEF Serial, Typed
<1>4. swaps'[i].fate = "landed"
  BY <1>2, <1>3 DEF Sent
<1> QED
  BY <1>1, <1>2, <1>4 DEF Latest

LEMMA MissedLatest ==
  ASSUME Serial, NEW i \in DOMAIN swaps, Miss(i)
  PROVE  ledger' = ledger /\ Latest'.fate # "landed"
<1>1. i = Len(swaps) /\ Len(swaps') = Len(swaps)
  BY SettleKeeps DEF Settle
<1>2. PICK fate \in {"failed", "dropped"} : swaps' = [swaps EXCEPT ![i].fate = fate]
  BY DEF Miss
<1>3. swaps \in Seq(Sent) /\ swaps[i] \in Sent
  BY DEF Serial, Typed
<1>4. swaps'[i].fate = fate
  BY <1>2, <1>3 DEF Sent
<1> QED
  BY <1>1, <1>4 DEF Miss, Latest

\* A transaction that lands is ahead of what its task knows.
LEMMA SettleSerial ==
  ASSUME Serial, Typed', Alone', NEW i \in DOMAIN swaps, Settle(i)
  PROVE  Serial'
<1>1. /\ i = Len(swaps) /\ swaps' # << >> /\ Len(swaps') = Len(swaps)
      /\ Latest'.quote = Latest.quote
      /\ \A j \in DOMAIN swaps' : swaps'[j].fate # "pending"
  BY SettleKeeps
<1>2. UNCHANGED <<process, nextTrade, pc, route, txid>>
  BY SettleKeeps DEF botVars
<1>3. Latest = swaps[i] /\ swaps[i].fate = "pending"
  BY <1>1 DEF Latest, Settle, Land, Miss
<1>4. Works'
  BY <1>1, <1>2 DEF Serial, Works
<1>5. Pending'
  BY <1>1 DEF Pending
<1>6. \A t \in Tasks : ~Ahead(t)
  BY <1>3 DEF Ahead
<1>7. Run => nextTrade = Offered /\ \E t \in Tasks : pc[t] = "confirming"
  BY <1>3, <1>6 DEF Serial, Knows, Pending
<1>8. Knows'
  <2>1. CASE Land(i)
    <3>1. ledger' = Append(ledger, Latest.quote) /\ Latest'.fate = "landed"
      BY <1>1, <1>3, <2>1, LandedLatest
    <3>2. Latest.quote \in Quotes /\ ledger \in Seq(Quotes)
      <4>1. swaps[i] \in Sent /\ ledger \in Seq(Quotes)
        BY DEF Serial, Typed
      <4> QED
        BY <1>3, <4>1 DEF Sent
    <3>3. ledger' # << >> /\ ledger'[Len(ledger')] = Latest.quote
      BY <3>1, <3>2
    <3>4. \A t \in Tasks : pc[t] = "confirming" => Latest.quote = route[t]
      BY DEF Serial, Works
    <3>5. \A t \in Tasks : Ahead(t)' <=> pc[t] = "confirming"
      BY <1>2, <3>1 DEF Ahead
    <3>6. Run' => Run
      BY <1>2 DEF Run
    <3> QED
      BY <1>2, <1>7, <3>3, <3>4, <3>5, <3>6 DEF Knows
  <2>2. CASE Miss(i)
    <3>1. ledger' = ledger /\ Latest'.fate # "landed"
      BY <1>1, <2>2, MissedLatest
    <3>2. \A t \in Tasks : ~Ahead(t)'
      BY <3>1 DEF Ahead
    <3>3. Run' => Run
      BY <1>2 DEF Run
    <3> QED
      BY <1>2, <1>7, <3>1, <3>2, <3>3 DEF Knows, Offered
  <2> QED
    BY <2>1, <2>2 DEF Settle
<1> QED
  BY <1>4, <1>5, <1>8 DEF Serial

LEMMA NextSerial ==
  ASSUME InOrder, Serial, [Next]_vars
  PROVE  Serial'
<1>1. Typed'
  BY NextTyped DEF Serial
<1>2. Alone'
  BY NextAlone DEF InOrder, Timely, Serial
<1>3. ASSUME NEW low \in BOOLEAN, InitBot(low) PROVE Serial'
  BY <1>1, <1>2, <1>3, RunsOnSerial DEF InitBot, Run
<1>4. CASE Terminated
  BY <1>1, <1>2, <1>4, ExitSerial DEF Terminated
<1>5. CASE UNCHANGED vars
  BY <1>1, <1>2, <1>5, RunsOnSerial DEF vars, Run
<1>6. ~Crash /\ ~Restart
  BY DEF InOrder, Crash, Restart
<1> QED
  BY <1>1, <1>2, <1>3, <1>4, <1>5, <1>6, TickSerial, AdvanceSerial, SettleSerial
     DEF Next

LEMMA AlwaysSerial == InOrder => (Spec => []Serial)
<1> SUFFICES ASSUME InOrder PROVE Spec => []Serial
  OBVIOUS
<1>1. Serial /\ [Next]_vars => Serial'
  BY NextSerial
<1> QED
  BY <1>1, InitSerial, PTL DEF Spec
-----------------------------------------------------------------------------
(* The log.                                                                *)

\* No task has a swap the log is short of: the log is the ledger.
LEMMA LogComplete ==
  ASSUME Logged, Run, \A u \in Tasks : ~Lags(u)
  PROVE  ledger = trades.entries
BY DEF Logged

\* A step after which no task has such a swap, and the log is the ledger.
LEMMA CompleteLogged ==
  ASSUME ledger' = trades'.entries, \A u \in Tasks : ~Lags(u)' /\ pc'[u] # "logging",
         ~trades'.exists => trades'.entries = << >>
  PROVE  Logged'
BY DEF Logged

\* The only busy task has no such swap, before the step and after it.
LEMMA QuietLogged ==
  ASSUME Logged, Run, \A u \in Tasks : ~Lags(u) /\ ~Lags(u)' /\ pc'[u] # "logging",
         UNCHANGED <<ledger, trades>>
  PROVE  Logged'
<1>1. ledger' = trades'.entries
  BY LogComplete
<1>2. ~trades'.exists => trades'.entries = << >>
  BY DEF Logged
<1> QED
  BY <1>1, <1>2, CompleteLogged

\* The busy task carries a swap that is not in the log yet.
LEMMA CarriesLogged ==
  ASSUME Serial, Logged, NEW t \in Tasks, pc[t] # "idle", Lags(t), Run',
         NEW place \in {"refreshing", "checking log", "logging"}, Goto(t, place),
         UNCHANGED <<route, ledger, trades>>,
         place = "logging" => seen'[t] = trades.exists
  PROVE  Logged'
<1>1. \A u \in Tasks : pc'[u] = IF u = t THEN place ELSE "idle"
  BY Only DEF Goto, Serial, Typed
<1>2. Lags(t)' /\ \A u \in Tasks : u # t => ~Lags(u)'
  BY <1>1 DEF Lags, Ahead
<1>3. Missing(route[t])'
  BY DEF Logged, Missing
<1>4. ~trades'.exists => trades'.entries = << >>
  BY DEF Logged
<1>5. \A u \in Tasks : pc'[u] = "logging" => seen'[u] = trades'.exists
  BY <1>1
<1>6. \A u \in Tasks : Lags(u)' => Missing(route[u])'
  BY <1>2, <1>3
<1> QED
  BY <1>2, <1>4, <1>5, <1>6 DEF Logged

LEMMA AdvanceLogged ==
  ASSUME Faults = {}, Serial, Logged, NEW t \in Tasks, Advance(t)
  PROVE  Logged'
<1>1. pc[t] # "idle"
  BY DEF Advance, QuoteRefused, QuoteAccepted, BuildFails, Send, Confirm,
     ConfirmThrows, PostTransactionRefresh, CheckLog, LogSwap
<1>2. \A u \in Tasks : u # t => pc[u] = "idle"
  BY <1>1, Only
<1>3. Run
  BY <1>1 DEF Serial, Alone
<1>4. ASSUME NEW place, Goto(t, place)
      PROVE  \A u \in Tasks : pc'[u] = IF u = t THEN place ELSE "idle"
  BY <1>2, <1>4 DEF Goto, Serial, Typed
<1>5. ASSUME Goto(t, "idle"), ~Lags(t), UNCHANGED <<ledger, trades>>
      PROVE  Logged'
  <2>1. \A u \in Tasks : pc'[u] = "idle"
    BY <1>4, <1>5
  <2>2. \A u \in Tasks : ~Lags(u) /\ ~Lags(u)' /\ pc'[u] # "logging"
    BY <1>2, <1>5, <2>1 DEF Lags, Ahead
  <2> QED
    BY <1>3, <1>5, <2>2, QuietLogged
<1>6. CASE QuoteRefused(t) \/ BuildFails(t)
  BY <1>5, <1>6 DEF QuoteRefused, BuildFails, Finish, Lags, Ahead
<1>7. CASE ConfirmThrows(t)
  <2>1. ~Lags(t)
    BY <1>7, RefusedByChain DEF InOrder, ConfirmThrows, Lags, Ahead
  <2> QED
    BY <1>5, <1>7, <2>1 DEF ConfirmThrows, Finish
<1>8. ASSUME NEW out \in OutAmounts, QuoteAccepted(t, out)
      PROVE  Logged'
  <2>1. pc[t] = "quoting" /\ Goto(t, "building") /\ UNCHANGED <<ledger, trades>>
    BY <1>8 DEF QuoteAccepted
  <2>2. \A u \in Tasks : pc'[u] = IF u = t THEN "building" ELSE "idle"
    BY <1>4, <2>1
  <2>3. \A u \in Tasks : ~Lags(u) /\ ~Lags(u)' /\ pc'[u] # "logging"
    BY <1>2, <2>1, <2>2 DEF Lags, Ahead
  <2> QED
    BY <1>3, <2>1, <2>3, QuietLogged
<1>9. CASE Send(t)
  <2>1. /\ pc[t] = "building" /\ Goto(t, "confirming")
        /\ UNCHANGED <<ledger, trades>>
        /\ swaps' = Append(swaps, [quote |-> route[t], fate |-> "pending"])
    BY <1>9 DEF Send
  <2>2. Latest'.fate = "pending"
    <3>1. swaps \in Seq(Sent)
      BY DEF Serial, Typed
    <3> QED
      BY <2>1, <3>1 DEF Latest
  <2>3. \A u \in Tasks : pc'[u] = IF u = t THEN "confirming" ELSE "idle"
    BY <1>4, <2>1
  <2>4. \A u \in Tasks : ~Lags(u) /\ ~Lags(u)' /\ pc'[u] # "logging"
    BY <1>2, <2>1, <2>2, <2>3 DEF Lags, Ahead
  <2> QED
    BY <1>3, <2>1, <2>4, QuietLogged
<1>10. CASE Confirm(t)
  <2>1. Lags(t)
    BY <1>10, SucceededAhead DEF Lags
  <2>2. Goto(t, "refreshing") /\ UNCHANGED <<process, route, ledger, trades>>
    BY <1>10 DEF Confirm
  <2>3. Run'
    BY <1>3, <2>2 DEF Run
  <2> QED
    BY <1>1, <2>1, <2>2, <2>3, CarriesLogged
<1>11. ASSUME NEW low \in BOOLEAN, PostTransactionRefresh(t, low)
       PROVE  Logged'
  <2>1. Lags(t)
    BY <1>11 DEF PostTransactionRefresh, Lags
  <2>2. Goto(t, "checking log") /\ UNCHANGED <<route, ledger, trades>>
    BY <1>11 DEF PostTransactionRefresh
  <2>3. Run'
    BY <1>3, <1>11 DEF PostTransactionRefresh, RefreshBalances, TerminateSession, Run
  <2> QED
    BY <1>1, <2>1, <2>2, <2>3, CarriesLogged
<1>12. CASE CheckLog(t)
  <2>1. Lags(t)
    BY <1>12 DEF CheckLog, Lags
  <2>2. Goto(t, "logging") /\ UNCHANGED <<process, route, ledger, trades>>
    BY <1>12 DEF CheckLog
  <2>3. seen'[t] = trades.exists
    BY <1>12 DEF CheckLog, Serial, Typed
  <2>4. Run'
    BY <1>3, <2>2 DEF Run
  <2> QED
    BY <1>1, <2>1, <2>2, <2>3, <2>4, CarriesLogged
<1>13. CASE LogSwap(t)
  <2>1. /\ pc[t] = "logging" /\ Goto(t, "idle")
        /\ ledger' = ledger /\ WriteLog(seen[t], route[t])
    BY <1>13 DEF LogSwap, Finish
  <2>2. /\ ledger = Append(trades.entries, route[t])
        /\ seen[t] = trades.exists
        /\ ~trades.exists => trades.entries = << >>
    BY <2>1 DEF Lags, Logged, Missing
  <2>3. ledger' = trades'.entries /\ trades'.exists
    BY <2>1, <2>2 DEF WriteLog
  <2>4. \A u \in Tasks : pc'[u] = "idle"
    BY <1>4, <2>1
  <2>5. \A u \in Tasks : ~Lags(u)' /\ pc'[u] # "logging"
    BY <2>4 DEF Lags, Ahead
  <2> QED
    BY <2>3, <2>5, CompleteLogged
<1> QED
  BY <1>6, <1>7, <1>8, <1>9, <1>10, <1>11, <1>12, <1>13 DEF Advance

\* The process ends: a transaction may be left pending, or a swap unlogged,
\* never both.
LEMMA ExitLogged ==
  ASSUME Serial, Logged, Run, Exit
  PROVE  Logged'
<1>1. /\ ~Run'
      /\ \A t \in Tasks : pc'[t] = "idle"
      /\ UNCHANGED <<swaps, ledger, trades>>
  BY DEF Exit, Run
<1>2. \A t \in Tasks : ~Ahead(t)' /\ ~Lags(t)'
  BY <1>1 DEF Ahead, Lags
<1>3. \/ ledger = trades.entries
      \/ (\A i \in DOMAIN swaps : swaps[i].fate # "pending") /\ \E q \in Quotes : Missing(q)
  <2>1. CASE \A t \in Tasks : ~Lags(t)
    BY <2>1, LogComplete
  <2>2. ASSUME NEW t \in Tasks, Lags(t)
        PROVE  /\ \A i \in DOMAIN swaps : swaps[i].fate # "pending"
               /\ \E q \in Quotes : Missing(q)
    <3>1. pc[t] # "idle" /\ (pc[t] = "confirming" => Latest.fate # "pending")
      BY <2>2 DEF Lags, Ahead
    <3>2. route[t] \in Quotes /\ Missing(route[t])
      BY <2>2 DEF Serial, Typed, Logged
    <3> QED
      BY <3>1, <3>2, NonePending
  <2> QED
    BY <2>1, <2>2
<1>4. ~trades.exists => trades.entries = << >>
  BY DEF Logged
<1> QED
  BY <1>1, <1>2, <1>3, <1>4 DEF Logged, Missing

LEMMA SettleLogged ==
  ASSUME Serial, Logged, NEW i \in DOMAIN swaps, Settle(i)
  PROVE  Logged'
<1>1. /\ i = Len(swaps) /\ UNCHANGED <<process, pc, route, seen, trades>>
      /\ \A j \in DOMAIN swaps' : swaps'[j].fate # "pending"
  BY SettleKeeps DEF botVars
<1>2. Latest = swaps[i] /\ swaps[i].fate = "pending"
  BY <1>1 DEF Latest, Settle, Land, Miss
<1>3. Latest.quote \in Quotes
  <2>1. swaps[i] \in Sent
    BY DEF Serial, Typed
  <2> QED
    BY <1>2, <2>1 DEF Sent
<1>4. \/ ledger' = Append(ledger, Latest.quote) /\ Latest'.fate = "landed"
      \/ ledger' = ledger /\ Latest'.fate # "landed"
  BY LandedLatest, MissedLatest DEF Settle
<1>5. ~trades'.exists => trades'.entries = << >>
  BY <1>1 DEF Logged
<1>6. CASE Run
  <2>1. PICK t \in Tasks : pc[t] = "confirming"
    BY <1>2, <1>6 DEF Serial, Pending
  <2>2. \A u \in Tasks : u # t => pc[u] = "idle"
    BY <2>1, Only
  <2>3. ledger = trades.entries
    <3>1. \A u \in Tasks : ~Lags(u)
      BY <1>2, <2>1, <2>2 DEF Lags, Ahead
    <3> QED
      BY <1>6, <3>1, LogComplete
  <2>4. Latest.quote = route[t]
    BY <2>1 DEF Serial, Works
  <2>5. \A u \in Tasks : pc'[u] # "logging"
    BY <1>1, <2>1, <2>2
  <2>6. \A u \in Tasks : u # t => ~Lags(u)'
    BY <1>1, <2>2 DEF Lags, Ahead
  <2>7. Run'
    BY <1>1, <1>6 DEF Run
  <2>8. CASE ledger' = Append(ledger, Latest.quote) /\ Latest'.fate = "landed"
    <3>1. Lags(t)'
      BY <1>1, <2>1, <2>8 DEF Lags, Ahead
    <3>2. Missing(route[t])'
      BY <1>1, <2>3, <2>4, <2>8 DEF Missing
    <3>3. \A u \in Tasks : Lags(u)' => Missing(route[u])'
      BY <2>6, <3>2
    <3> QED
      BY <1>5, <2>5, <2>7, <3>1, <3>3 DEF Logged
  <2>9. CASE ledger' = ledger /\ Latest'.fate # "landed"
    <3>1. \A u \in Tasks : ~Lags(u)'
      BY <1>1, <2>1, <2>6, <2>9 DEF Lags, Ahead
    <3>2. ledger' = trades'.entries
      BY <1>1, <2>3, <2>9
    <3> QED
      BY <1>5, <2>5, <3>1, <3>2, CompleteLogged
  <2> QED
    BY <1>4, <2>8, <2>9
<1>7. CASE ~Run
  <2>1. ~Run' /\ \A t \in Tasks : pc'[t] = "idle"
    BY <1>1, <1>7 DEF Serial, Alone, Run
  <2>2. \A t \in Tasks : ~Lags(t)'
    BY <2>1 DEF Ahead, Lags
  <2>3. ledger = trades.entries
    BY <1>2, <1>7 DEF Logged
  <2>4. ledger' = trades'.entries \/ \E q \in Quotes : Missing(q)'
    BY <1>1, <1>3, <1>4, <2>3 DEF Missing
  <2> QED
    BY <1>1, <1>5, <2>1, <2>2, <2>4 DEF Logged
<1> QED
  BY <1>6, <1>7

LEMMA NextLogged ==
  ASSUME Faults = {}, Serial, Logged, [Next]_vars
  PROVE  Logged'
<1>1. ASSUME NEW t \in Tasks, Tick(t) PROVE Logged'
  <2>1. \A u \in Tasks : pc[u] = "idle"
    BY <1>1, TickAllIdle DEF Timely, Serial
  <2>2. \A u \in Tasks : pc'[u] = IF u = t THEN "quoting" ELSE "idle"
    BY <1>1, <2>1 DEF Tick, Goto, Serial, Typed
  <2>3. \A u \in Tasks : ~Lags(u) /\ ~Lags(u)' /\ pc'[u] # "logging"
    BY <2>1, <2>2 DEF Lags, Ahead
  <2> QED
    BY <1>1, <2>3, QuietLogged DEF Tick
<1>2. ASSUME UNCHANGED <<pc, route, seen, swaps, ledger, trades>>, Run' <=> Run
      PROVE  Logged'
  <2>1. \A t \in Tasks : Lags(t)' <=> Lags(t)
    BY <1>2 DEF Lags, Ahead, Latest
  <2> QED
    BY <1>2, <2>1 DEF Logged, Missing
<1>3. ASSUME NEW low \in BOOLEAN, InitBot(low) PROVE Logged'
  BY <1>2, <1>3 DEF InitBot, Run
<1>4. CASE Terminated
  BY <1>4, ExitLogged DEF Terminated, Run
<1>5. CASE UNCHANGED vars
  BY <1>2, <1>5 DEF vars, Run
<1>6. ~Crash /\ ~Restart
  BY DEF Crash, Restart
<1> QED
  BY <1>1, <1>3, <1>4, <1>5, <1>6, AdvanceLogged, SettleLogged DEF Next

LEMMA AlwaysLogged == Faults = {} => (Spec => [](Serial /\ Logged))
<1> SUFFICES ASSUME Faults = {} PROVE Spec => [](Serial /\ Logged)
  OBVIOUS
<1>1. Init => Logged
  BY DEF Init, Logged, Lags, Ahead
<1>2. Serial /\ [Next]_vars => Serial'
  BY NextSerial DEF InOrder
<1>3. Serial /\ Logged /\ [Next]_vars => Logged'
  BY NextLogged
<1> QED
  BY <1>1, <1>2, <1>3, InitSerial, PTL DEF Spec
-----------------------------------------------------------------------------
(* What follows.                                                           *)

LEMMA SerialOneSwap == Serial => OneSwapAtATime
<1> SUFFICES ASSUME Serial PROVE OneSwapAtATime
  OBVIOUS
<1> DEFINE open == {i \in DOMAIN swaps : swaps[i].fate = "pending"}
<1>1. open \subseteq {Len(swaps)}
  BY DEF Serial, Pending
<1>2. IsFiniteSet({Len(swaps)}) /\ Cardinality({Len(swaps)}) = 1
  BY FS_Singleton
<1>3. Cardinality(open) <= 1
  <2> HIDE DEF open
  <2> QED
    BY <1>1, <1>2, FS_Subset
<1> QED
  BY <1>3 DEF OneSwapAtATime

LEMMA SerialKnows == Serial => NextTradeFollows
<1> SUFFICES ASSUME Serial, process = "up",
                    \A t \in Tasks : pc[t] \notin {"building", "confirming"}
             PROVE  nextTrade = Offered
  BY DEF NextTradeFollows, Offered
<1>1. Run /\ \A t \in Tasks : ~Ahead(t)
  BY DEF Run, Ahead
<1> QED
  BY <1>1 DEF Serial, Knows

LEMMA SerialLog == Serial /\ Logged => LogFollowsLedger
<1> SUFFICES ASSUME Serial, Logged PROVE LogFollowsLedger
  OBVIOUS
<1>1. ledger \in Seq(Quotes) /\ trades.entries \in Seq(Quotes)
  BY DEF Serial, Typed
<1>2. ledger = trades.entries \/ \E q \in Quotes : Missing(q)
  <2>1. CASE \A t \in Tasks : ~Lags(t)
    BY <2>1 DEF Logged
  <2>2. ASSUME NEW t \in Tasks, Lags(t)
        PROVE  \E q \in Quotes : Missing(q)
    BY <2>2 DEF Serial, Typed, Logged
  <2> QED
    BY <2>1, <2>2
<1>3. CASE ledger = trades.entries
  BY <1>1, <1>3 DEF LogFollowsLedger
<1>4. ASSUME NEW q \in Quotes, Missing(q)
      PROVE  LogFollowsLedger
  <2>1. ledger = Append(trades.entries, q)
    BY <1>4 DEF Missing
  <2>2. Len(ledger) = Len(trades.entries) + 1 /\ Len(trades.entries) \in Nat
    BY <1>1, <2>1
  <2>3. \A i \in DOMAIN trades.entries : trades.entries[i] = ledger[i]
    BY <1>1, <2>1
  <2> QED
    BY <2>2, <2>3 DEF LogFollowsLedger
<1> QED
  BY <1>2, <1>3, <1>4

\* A transaction that lands is the trader's next trade, nothing else adds one.
LEMMA SerialStep ==
  ASSUME Serial, [Next]_vars
  PROVE  [Promise!Next]_<<ledger, received>>
<1>1. ASSUME NEW i \in DOMAIN swaps, Land(i)
      PROVE  Promise!Next
  <2> DEFINE q == swaps[i].quote
  <2>1. Good(q)
    BY <1>1, SettleKeeps DEF Settle
  <2>2. q \in Quotes
    <3>1. swaps[i] \in Sent
      BY DEF Serial, Typed
    <3> QED
      BY <3>1 DEF Sent
  <2>3. q = [inputMint |-> Offered.inputMint, outputMint |-> Offered.outputMint,
             inAmount |-> Offered.amount, outAmount |-> q.outAmount]
    BY <2>1, <2>2 DEF Good, Promise!Takes, Quotes
  <2>4. /\ ledger' = Append(ledger, q)
        /\ \E amount \in Receipts :
             /\ amount * Whole >= q.outAmount * (Whole - Slippage)
             /\ received' = Append(received, amount)
    BY <1>1 DEF Land
  <2>5. Promise!Takes(Offered, q) /\ q.outAmount \in OutAmounts
    BY <2>1 DEF Good
  <2> HIDE DEF q
  <2> QED
    BY <2>3, <2>4, <2>5 DEF Promise!Next, Offered
<1>2. ASSUME NEW t \in Tasks, Tick(t) \/ Advance(t)
      PROVE  UNCHANGED <<ledger, received>>
  BY <1>2 DEF Tick, Advance, QuoteRefused, QuoteAccepted, BuildFails, Send, Confirm,
     ConfirmThrows, PostTransactionRefresh, CheckLog, LogSwap
<1>3. ASSUME NEW i \in DOMAIN swaps, Miss(i) PROVE UNCHANGED <<ledger, received>>
  BY <1>3 DEF Miss
<1>4. CASE Terminated \/ Crash \/ Restart
  BY <1>4 DEF Terminated, Crash, Restart, Exit
<1>5. ASSUME NEW low \in BOOLEAN, InitBot(low) PROVE UNCHANGED <<ledger, received>>
  BY <1>5 DEF InitBot
<1>6. CASE UNCHANGED vars
  BY <1>6 DEF vars
<1> QED
  BY <1>1, <1>2, <1>3, <1>4, <1>5, <1>6 DEF Next, Settle

\* Each swap sells back what the one before was quoted to bring, at the gain.
Follows(p, q) ==
  /\ q.inputMint = p.outputMint /\ q.outputMint = p.inputMint
  /\ q.inAmount = p.outAmount
  /\ q.outAmount * Whole > p.inAmount * (Whole + Gain)

Chained ==
  /\ \A i \in DOMAIN ledger : ledger[i].inputMint # ledger[i].outputMint
  /\ \A i \in DOMAIN ledger : i # 1 => Follows(ledger[i - 1], ledger[i])

\* Whenever a swap sells a token again, it sells more than any before it.
QuotesGrow ==
  \A i, j \in DOMAIN ledger :
    i < j /\ ledger[i].inputMint = ledger[j].inputMint =>
      ledger[j].inAmount * Whole > ledger[i].inAmount * (Whole + Gain)

\* What each swap has delivered.
Delivered ==
  /\ Len(received) = Len(ledger)
  /\ \A i \in DOMAIN ledger :
       received[i] * Whole >= ledger[i].outAmount * (Whole - Slippage)

\* The numbers that constants and quotes are made of.
LEMMA GainAndSlippage ==
  /\ Gain \in Nat /\ Whole \in Nat /\ Whole > 0
  /\ Slippage \in 0..Whole
  /\ Receipts \subseteq Nat
BY BotAssumption

\* Quotes promise natural numbers.
LEMMA QuoteAmounts ==
  ASSUME NEW q \in Quotes
  PROVE  q.inAmount \in Nat /\ q.outAmount \in Nat
<1>1. Amounts \subseteq Nat /\ OutAmounts \union {0} \subseteq Nat
  BY BotAssumption DEF Amounts
<1>2. q.inAmount \in Amounts /\ q.outAmount \in OutAmounts \union {0}
  BY DEF Quotes
<1> QED
  BY <1>1, <1>2

\* Products of natural numbers.
LEMMA Product ==
  ASSUME NEW a \in Nat, NEW b \in Nat
  PROVE  a * b \in Nat /\ a * b = b * a
OBVIOUS

\* A product is no smaller for a larger factor.
LEMMA ProductGrows ==
  ASSUME NEW a \in Nat, NEW b \in Nat, NEW c \in Nat, a <= b
  PROVE  a * c <= b * c
<1>1. PICK d \in Nat : b = a + d
  <2>1. b - a \in Nat /\ b = a + (b - a)
    OBVIOUS
  <2> QED
    BY <2>1
<1>2. b * c = a * c + d * c
  BY <1>1
<1>3. a * c \in Nat /\ d * c \in Nat
  BY <1>1
<1> QED
  BY <1>2, <1>3

\* A gain is no loss.
LEMMA GainGrows ==
  ASSUME NEW a \in Nat, NEW b \in Nat, b * Whole > a * (Whole + Gain)
  PROVE  a <= b
<1> DEFINE g == Whole + Gain
<1>1. Whole \in Nat /\ Whole > 0 /\ g \in Nat /\ Whole <= g
  BY GainAndSlippage
<1> HIDE DEF g
<1>2. SUFFICES ASSUME b <= a PROVE b * Whole <= a * g
  <2>1. b * Whole > a * g
    BY DEF g
  <2>2. a * g \in Nat /\ b * Whole \in Nat
    BY <1>1, Product
  <2> QED
    BY <2>1, <2>2
<1>3. b * Whole <= a * Whole
  BY <1>1, <1>2, ProductGrows
<1>4. Whole * a <= g * a
  BY <1>1, ProductGrows
<1>5. Whole * a = a * Whole /\ g * a = a * g
  BY <1>1, Product
<1>6. b * Whole \in Nat /\ a * Whole \in Nat /\ a * g \in Nat
  BY <1>1, Product
<1> QED
  BY <1>3, <1>4, <1>5, <1>6

\* Gains multiply.
LEMMA GainsMultiply ==
  ASSUME NEW a \in Nat, NEW b \in Nat, NEW c \in Nat,
         b * Whole > a * (Whole + Gain), c * Whole > b * (Whole + Gain)
  PROVE  c * Whole > a * (Whole + Gain)
<1> DEFINE g == Whole + Gain
<1>1. Whole \in Nat /\ g \in Nat
  BY GainAndSlippage
<1>2. a <= b
  BY GainGrows
<1>3. c * Whole > b * g
  OBVIOUS
<1> HIDE DEF g
<1>4. a * g <= b * g
  BY <1>1, <1>2, ProductGrows
<1>5. a * g \in Nat /\ b * g \in Nat /\ c * Whole \in Nat
  BY <1>1, Product
<1>6. c * Whole > a * g
  BY <1>3, <1>4, <1>5
<1> QED
  BY <1>6 DEF g

\* A trade that the trader makes continues the chain and its growth.
LEMMA ChainGrows ==
  ASSUME ledger \in Seq(Quotes), ledger' \in Seq(Quotes), Chained, QuotesGrow,
         [Promise!Next]_<<ledger, received>>
  PROVE  Chained' /\ QuotesGrow'
<1>1. CASE UNCHANGED <<ledger, received>>
  BY <1>1 DEF Chained, QuotesGrow, Follows
<1>2. ASSUME NEW out \in OutAmounts, NEW q,
             q = [inputMint |-> Offered.inputMint, outputMint |-> Offered.outputMint,
                  inAmount |-> Offered.amount, outAmount |-> out],
             Promise!Takes(Offered, q), ledger' = Append(ledger, q)
      PROVE  Chained' /\ QuotesGrow'
  <2> DEFINE n == Len(ledger)
  <2>1. /\ n \in Nat /\ DOMAIN ledger = 1..n /\ DOMAIN ledger' = 1..(n + 1)
        /\ ledger'[n + 1] = q
        /\ \A i \in 1..n : ledger'[i] = ledger[i]
    BY <1>2
  <2>2. /\ \A i \in 1..n : ledger[i].inAmount \in Nat /\ ledger[i].outAmount \in Nat
        /\ q.inAmount \in Nat /\ Gain \in Nat
    <3>1. Amounts \subseteq Nat /\ OutAmounts \union {0} \subseteq Nat
      BY BotAssumption DEF Amounts
    <3>2. ledger'[n + 1] \in Quotes /\ \A i \in 1..n : ledger[i] \in Quotes
      BY <2>1
    <3> QED
      BY <2>1, <3>1, <3>2, BotAssumption DEF Quotes
  <2>3. CASE n = 0
    <3>1. Offered = Opening
      BY <2>1, <2>3 DEF Offered, Promise!Offer
    <3>2. q.inputMint # q.outputMint
      BY <1>2, <3>1, BotAssumption
    <3> QED
      BY <2>1, <2>3, <3>2 DEF Chained, QuotesGrow
  <2>4. CASE n # 0
    <3>1. Offered = [inputMint |-> ledger[n].outputMint, outputMint |-> ledger[n].inputMint,
                     amount |-> ledger[n].outAmount,
                     threshold |-> ledger[n].inAmount * (Whole + Gain)]
      BY <2>1, <2>4 DEF Offered, Promise!Offer
    <3>2. Follows(ledger[n], q)
      BY <1>2, <3>1 DEF Follows, Promise!Takes
    <3>3. ledger[n].inputMint # ledger[n].outputMint
      BY <2>1, <2>4 DEF Chained
    <3>4. q.inputMint # q.outputMint
      BY <3>2, <3>3 DEF Follows
    <3>5. Chained'
      <4>1. ASSUME NEW i \in 1..(n + 1)
            PROVE  ledger'[i].inputMint # ledger'[i].outputMint
        BY <2>1, <3>4 DEF Chained
      <4>2. ASSUME NEW i \in 1..(n + 1), i # 1
            PROVE  Follows(ledger'[i - 1], ledger'[i])
        <5>1. CASE i = n + 1
          BY <2>1, <2>4, <3>2, <5>1
        <5>2. CASE i \in 1..n
          <6>1. Follows(ledger[i - 1], ledger[i])
            BY <2>1, <4>2, <5>2 DEF Chained
          <6>2. ledger'[i] = ledger[i] /\ ledger'[i - 1] = ledger[i - 1]
            BY <2>1, <4>2, <5>2
          <6> QED
            BY <6>1, <6>2
        <5> QED
          BY <2>1, <5>1, <5>2
      <4> QED
        BY <2>1, <4>1, <4>2 DEF Chained, Follows
    <3>6. ASSUME NEW i \in 1..n, ledger[i].inputMint = q.inputMint
          PROVE  q.inAmount * Whole > ledger[i].inAmount * (Whole + Gain)
      <4>1. i # n
        BY <3>2, <3>3, <3>6 DEF Follows
      <4>2. n \in DOMAIN ledger /\ n # 1 /\ n - 1 \in 1..n /\ i <= n - 1
        <5>1. n \in Nat /\ i \in 1..n /\ i # n /\ DOMAIN ledger = 1..n
          BY <2>1, <4>1
        <5> HIDE DEF n
        <5> QED
          BY <5>1
      <4>3. Follows(ledger[n - 1], ledger[n])
        BY <4>2 DEF Chained
      <4>4. /\ q.inAmount * Whole > ledger[n - 1].inAmount * (Whole + Gain)
            /\ ledger[n - 1].inputMint = q.inputMint
        BY <3>2, <4>3 DEF Follows
      <4>5. CASE i = n - 1
        BY <4>4, <4>5
      <4>6. CASE i < n - 1
        <5>1. ledger[i].inputMint = ledger[n - 1].inputMint
          BY <3>6, <4>4
        <5>2. n - 1 \in DOMAIN ledger /\ i \in DOMAIN ledger
          BY <2>1, <4>2
        <5>3. ledger[n - 1].inAmount * Whole > ledger[i].inAmount * (Whole + Gain)
          <6> HIDE DEF n
          <6> QED
            BY <4>6, <5>1, <5>2 DEF QuotesGrow
        <5>4. /\ ledger[i].inAmount \in Nat /\ ledger[n - 1].inAmount \in Nat
              /\ q.inAmount \in Nat
          BY <2>2, <4>2
        <5> QED
          BY <4>4, <5>3, <5>4, GainsMultiply
      <4>7. i = n - 1 \/ i < n - 1
        <5>1. n \in Nat /\ i \in 1..n /\ i <= n - 1
          BY <2>1, <4>2
        <5> HIDE DEF n
        <5> QED
          BY <5>1
      <4> QED
        BY <4>5, <4>6, <4>7
    <3>7. QuotesGrow'
      <4> SUFFICES ASSUME NEW i \in 1..(n + 1), NEW j \in 1..(n + 1), i < j,
                          ledger'[i].inputMint = ledger'[j].inputMint
                   PROVE  ledger'[j].inAmount * Whole > ledger'[i].inAmount * (Whole + Gain)
        BY <2>1 DEF QuotesGrow
      <4>1. i \in 1..n /\ ledger'[i] = ledger[i]
        BY <2>1
      <4>2. CASE j = n + 1
        BY <2>1, <3>6, <4>1, <4>2
      <4>3. CASE j \in 1..n
        BY <2>1, <4>1, <4>3 DEF QuotesGrow
      <4> QED
        BY <2>1, <4>2, <4>3
    <3> QED
      BY <3>5, <3>7
  <2> QED
    BY <2>3, <2>4
<1>3. CASE Promise!Next
  <2>1. PICK out \in OutAmounts :
          LET trade == [inputMint |-> Offered.inputMint, outputMint |-> Offered.outputMint,
                        inAmount |-> Offered.amount, outAmount |-> out]
          IN Promise!Takes(Offered, trade) /\ ledger' = Append(ledger, trade)
    BY <1>3 DEF Promise!Next, Offered
  <2> QED
    BY <1>2, <2>1
<1> QED
  BY <1>1, <1>3

\* A trade that the trader makes delivers what its quote and the slippage say.
LEMMA DeliveredKept ==
  ASSUME ledger \in Seq(Quotes), ledger' \in Seq(Quotes),
         received \in Seq(Receipts), received' \in Seq(Receipts), Delivered,
         [Promise!Next]_<<ledger, received>>
  PROVE  Delivered'
<1>1. CASE UNCHANGED <<ledger, received>>
  BY <1>1 DEF Delivered
<1>2. CASE Promise!Next
  <2> DEFINE offer == Promise!Offer(ledger)
             Traded(out) == [inputMint |-> offer.inputMint, outputMint |-> offer.outputMint,
                             inAmount |-> offer.amount, outAmount |-> out]
  <2>0. PICK out \in OutAmounts, amount \in Receipts :
          /\ amount * Whole >= out * (Whole - Slippage)
          /\ ledger' = Append(ledger, Traded(out))
          /\ received' = Append(received, amount)
    BY <1>2 DEF Promise!Next
  <2> DEFINE trade == Traded(out)
             n == Len(ledger)
  <2>1. /\ trade.outAmount = out
        /\ amount * Whole >= out * (Whole - Slippage)
        /\ ledger' = Append(ledger, trade)
        /\ received' = Append(received, amount)
    BY <2>0
  <2> HIDE DEF trade
  <2>2. /\ n \in Nat /\ DOMAIN ledger = 1..n /\ DOMAIN ledger' = 1..(n + 1)
        /\ Len(received) = n /\ Len(received') = n + 1
        /\ ledger'[n + 1] = trade /\ received'[n + 1] = amount
        /\ \A i \in 1..n : ledger'[i] = ledger[i] /\ received'[i] = received[i]
        /\ Len(ledger') = n + 1
    BY <2>1 DEF Delivered
  <2> HIDE DEF n
  <2>3. ASSUME NEW i \in 1..(n + 1)
        PROVE  received'[i] * Whole >= ledger'[i].outAmount * (Whole - Slippage)
    <3>1. CASE i = n + 1
      BY <2>1, <2>2, <3>1
    <3>2. CASE i \in 1..n
      <4>1. received[i] * Whole >= ledger[i].outAmount * (Whole - Slippage)
        BY <2>2, <3>2 DEF Delivered
      <4> QED
        BY <2>2, <3>2, <4>1
    <3> QED
      BY <2>2, <3>1, <3>2
  <2> QED
    BY <2>2, <2>3 DEF Delivered
<1> QED
  BY <1>1, <1>2

\* An amount grown by the gain stays so after the slippage.
LEMMA GainLessSlippage ==
  ASSUME NEW r \in Nat, NEW out \in Nat, NEW a \in Nat, NEW b \in Nat, a <= b,
         r * Whole >= out * (Whole - Slippage),
         out * Whole > b * (Whole + Gain)
  PROVE  r * Whole * Whole >= a * (Whole + Gain) * (Whole - Slippage)
<1> DEFINE k == Whole - Slippage
           g == Whole + Gain
<1>1. k \in Nat /\ g \in Nat /\ Whole \in Nat
  BY GainAndSlippage
<1> HIDE DEF k, g
<1>2. r * Whole >= out * k /\ out * Whole > b * g
  BY DEF k, g
<1>3. a * g <= b * g
  BY <1>1, ProductGrows
<1>4. /\ a * g \in Nat /\ b * g \in Nat /\ out * Whole \in Nat
      /\ out * k \in Nat /\ r * Whole \in Nat
  BY <1>1, Product
<1>5. a * g <= out * Whole
  BY <1>2, <1>3, <1>4
<1>6. (a * g) * k <= (out * Whole) * k
  BY <1>1, <1>4, <1>5, ProductGrows
<1>7. (out * k) * Whole <= (r * Whole) * Whole
  BY <1>1, <1>2, <1>4, ProductGrows
<1>8. (out * Whole) * k = (out * k) * Whole
  BY <1>1
<1>9. /\ (a * g) * k \in Nat /\ (out * k) * Whole \in Nat
      /\ (r * Whole) * Whole \in Nat
  BY <1>1, <1>4, Product
<1>10. r * Whole * Whole >= (a * g) * k
  BY <1>6, <1>7, <1>8, <1>9
<1> QED
  BY <1>10 DEF k, g

\* What comes back has grown over what was sold: the last sale of the token
\* is no smaller than any before, and the way back is at the gain.
LEMMA GrowthDelivered ==
  ASSUME ledger \in Seq(Quotes), received \in Seq(Receipts),
         Chained, QuotesGrow, Delivered
  PROVE  ReturnsGrow
<1> SUFFICES ASSUME NEW i \in DOMAIN ledger, NEW j \in DOMAIN ledger, i < j,
                    ledger[i].inputMint = ledger[j].outputMint
             PROVE  received[j] * Whole * Whole
                      >= ledger[i].inAmount * (Whole + Gain) * (Whole - Slippage)
  BY DEF ReturnsGrow
<1>1. j # 1 /\ j - 1 \in DOMAIN ledger /\ (i = j - 1 \/ i < j - 1)
  OBVIOUS
<1>2. Follows(ledger[j - 1], ledger[j])
  BY <1>1 DEF Chained
<1>3. /\ ledger[i].inAmount \in Nat /\ ledger[j - 1].inAmount \in Nat
      /\ ledger[j].outAmount \in Nat /\ received[j] \in Nat
  <2>1. ledger[i] \in Quotes /\ ledger[j - 1] \in Quotes /\ ledger[j] \in Quotes
    BY <1>1
  <2>2. received[j] \in Receipts
    <3>1. DOMAIN received = DOMAIN ledger
      BY DEF Delivered
    <3> QED
      BY <3>1
  <2>3. received[j] \in Nat
    BY <2>2, GainAndSlippage
  <2> QED
    BY <2>1, <2>3, QuoteAmounts
<1>4. ledger[i].inAmount <= ledger[j - 1].inAmount
  <2>1. CASE i = j - 1
    BY <1>3, <2>1
  <2>2. CASE i < j - 1
    <3>1. ledger[i].inputMint = ledger[j - 1].inputMint
      BY <1>2 DEF Follows
    <3>2. ledger[j - 1].inAmount * Whole > ledger[i].inAmount * (Whole + Gain)
      BY <1>1, <2>2, <3>1 DEF QuotesGrow
    <3> DEFINE a == ledger[i].inAmount
               b == ledger[j - 1].inAmount
    <3>3. a \in Nat /\ b \in Nat /\ b * Whole > a * (Whole + Gain)
      BY <1>3, <3>2
    <3> HIDE DEF a, b
    <3>4. a <= b
      BY <3>3, GainGrows
    <3> QED
      BY <3>4 DEF a, b
  <2> QED
    BY <1>1, <2>1, <2>2
<1>5. ledger[j].outAmount * Whole > ledger[j - 1].inAmount * (Whole + Gain)
  BY <1>2 DEF Follows
<1>6. received[j] * Whole >= ledger[j].outAmount * (Whole - Slippage)
  BY DEF Delivered
<1> DEFINE a == ledger[i].inAmount
           b == ledger[j - 1].inAmount
           out == ledger[j].outAmount
           r == received[j]
<1>7. a \in Nat /\ b \in Nat /\ out \in Nat /\ r \in Nat /\ a <= b
  BY <1>3, <1>4
<1>8. out * Whole > b * (Whole + Gain) /\ r * Whole >= out * (Whole - Slippage)
  BY <1>5, <1>6
<1> HIDE DEF a, b, out, r
<1>9. r * Whole * Whole >= a * (Whole + Gain) * (Whole - Slippage)
  BY <1>7, <1>8, GainLessSlippage
<1> QED
  BY <1>9 DEF a, r

\* As long as quotes are timely, answers arrive and the process is not
\* replaced, the flag does what jupiter.ts:194 announces: a transaction is
\* sent only when the fate of the one before is settled.
THEOREM SerialSwaps == InOrder => (Spec => []OneSwapAtATime)
<1> SUFFICES ASSUME InOrder PROVE Spec => []OneSwapAtATime
  OBVIOUS
<1>1. Spec => []Serial
  BY AlwaysSerial
<1> QED
  BY <1>1, SerialOneSwap, PTL

\* Under the same faults nextTrade is what follows from the quotes of the
\* executed swaps whenever no swap is under way.
THEOREM NextAlwaysFollows == InOrder => (Spec => []NextTradeFollows)
<1> SUFFICES ASSUME InOrder PROVE Spec => []NextTradeFollows
  OBVIOUS
<1>1. Spec => []Serial
  BY AlwaysSerial
<1> QED
  BY <1>1, SerialKnows, PTL

\* Without faults trades.json is what the chain has executed, short of at
\* most the latest swap.
THEOREM LogFollows == Faults = {} => (Spec => []LogFollowsLedger)
<1> SUFFICES ASSUME Faults = {} PROVE Spec => []LogFollowsLedger
  OBVIOUS
<1>1. Spec => [](Serial /\ Logged)
  BY AlwaysLogged
<1> QED
  BY <1>1, SerialLog, PTL

\* When at most log writes fail the bot implements the serial trader: what
\* the chain executes is a chain of trades, each quoted at the target gain
\* over the one before and delivered within the slippage.
THEOREM Refinement == InOrder => (Spec => ImplementsTrader)
<1> SUFFICES ASSUME InOrder PROVE Spec => ImplementsTrader
  OBVIOUS
<1>1. Spec => []Serial
  BY AlwaysSerial
<1>2. Init => Promise!Init
  BY DEF Init, Promise!Init
<1>3. Serial /\ [Next]_vars => [Promise!Next]_<<ledger, received>>
  BY SerialStep
<1> QED
  BY <1>1, <1>2, <1>3, PTL DEF Spec, ImplementsTrader, Promise!Spec

\* A new trade that follows from the whole history leaves the earlier ones
\* following from the histories they had.
LEMMA GainKept ==
  ASSUME NEW S, NEW old \in Seq(S), NEW new \in Seq(S), NEW trade,
         new = Append(old, trade), Promise!Takes(Promise!Offer(old), trade),
         \A i \in DOMAIN old :
           Promise!Takes(Promise!Offer(SubSeq(old, 1, i - 1)), old[i]),
         NEW i \in DOMAIN new
  PROVE  Promise!Takes(Promise!Offer(SubSeq(new, 1, i - 1)), new[i])
<1>1. trade \in S
  <2>1. trade = new[Len(new)] /\ Len(new) \in 1..Len(new)
    OBVIOUS
  <2> QED
    BY <2>1
<1>2. i \in 1..Len(old) + 1 /\ Len(old) \in Nat
  OBVIOUS
<1>3. CASE i \in 1..Len(old)
  <2>1. new[i] = old[i]
    BY <1>3
  <2>2. SubSeq(new, 1, i - 1) = SubSeq(old, 1, i - 1)
    BY <1>1, <1>3
  <2>3. i \in DOMAIN old
    BY <1>3
  <2>4. Promise!Takes(Promise!Offer(SubSeq(old, 1, i - 1)), old[i])
    BY <2>3
  <2> QED
    BY <2>1, <2>2, <2>4
<1>4. CASE i = Len(old) + 1
  <2>1. new[i] = trade
    BY <1>4
  <2>2. SubSeq(new, 1, i - 1) = old
    BY <1>1, <1>4
  <2> QED
    BY <2>1, <2>2
<1> QED
  BY <1>2, <1>3, <1>4

\* Every swap the chain executes was quoted on the one before, at the target
\* gain that jupiter.ts:49 announces, as long as quotes are timely, answers
\* arrive and the process is not replaced.
THEOREM GainAlwaysMade == InOrder => (Spec => []GainEachTrade)
<1> SUFFICES ASSUME InOrder PROVE Spec => []GainEachTrade
  OBVIOUS
<1>1. Spec => []Serial
  BY AlwaysSerial
<1>2. Init => GainEachTrade
  BY DEF Init, GainEachTrade
<1>3. Serial /\ Serial' /\ GainEachTrade /\ [Next]_vars => GainEachTrade'
  <2> SUFFICES ASSUME Serial, Serial', GainEachTrade, [Next]_vars
               PROVE  GainEachTrade'
    OBVIOUS
  <2>1. ledger \in Seq(Quotes) /\ ledger' \in Seq(Quotes)
    BY DEF Serial, Typed, Quotes, Mints, Amounts
  <2>2. [Promise!Next]_<<ledger, received>>
    BY SerialStep
  <2>3. CASE ledger' = ledger
    BY <2>3 DEF GainEachTrade, Promise!Offer, Promise!Takes
  <2>4. CASE Promise!Next
    <3>1. PICK trade : /\ Promise!Takes(Promise!Offer(ledger), trade)
                       /\ ledger' = Append(ledger, trade)
      BY <2>4 DEF Promise!Next
    <3>2. \A i \in DOMAIN ledger :
            Promise!Takes(Promise!Offer(SubSeq(ledger, 1, i - 1)), ledger[i])
      BY DEF GainEachTrade
    <3>3. \A i \in DOMAIN ledger' :
            Promise!Takes(Promise!Offer(SubSeq(ledger', 1, i - 1)), ledger'[i])
      BY <2>1, <3>1, <3>2, GainKept
    <3> QED
      BY <3>3 DEF GainEachTrade, Promise!Offer, Promise!Takes
  <2> QED
    BY <2>2, <2>3, <2>4
<1> QED
  BY <1>1, <1>2, <1>3, PTL DEF Spec

\* Under the same faults a swap that brings back a token delivers more of it
\* than any swap before it has sold, by the gain and short of the slippage of
\* that one swap.
THEOREM ReturnsAlwaysGrow == InOrder => (Spec => []ReturnsGrow)
<1> SUFFICES ASSUME InOrder PROVE Spec => []ReturnsGrow
  OBVIOUS
<1> DEFINE Growth == Chained /\ QuotesGrow /\ Delivered
<1>1. Spec => []Serial
  BY AlwaysSerial
<1>2. Init => Growth
  BY DEF Init, Chained, QuotesGrow, Delivered
<1>3. Serial /\ Serial' /\ Growth /\ [Next]_vars => Growth'
  <2> SUFFICES ASSUME Serial, Serial', Growth, [Next]_vars
               PROVE  Growth'
    OBVIOUS
  <2>1. /\ ledger \in Seq(Quotes) /\ ledger' \in Seq(Quotes)
        /\ received \in Seq(Receipts) /\ received' \in Seq(Receipts)
    BY DEF Serial, Typed, Quotes, Mints, Amounts
  <2>2. [Promise!Next]_<<ledger, received>>
    BY SerialStep
  <2> QED
    BY <2>1, <2>2, ChainGrows, DeliveredKept
<1>4. Serial /\ Growth => ReturnsGrow
  BY GrowthDelivered DEF Serial, Typed
<1> HIDE DEF Growth
<1> QED
  BY <1>1, <1>2, <1>3, <1>4, PTL DEF Spec
=============================================================================
