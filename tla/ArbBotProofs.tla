---------------------------- MODULE ArbBotProofs ----------------------------
(***************************************************************************)
(* Proofs about ArbBot, for any number of tasks and any faults.            *)
(***************************************************************************)
EXTENDS ArbBot, FiniteSetTheorems, TLAPS

Places == {"idle", "quoting"} \union Swapping

\* The inductive invariant: what FlagTracksSwap needs to know besides is that
\* a process that has exited has no task left to restart it.
FlagInv ==
  /\ pc \in [Tasks -> Places]
  /\ ~Run => \A t \in Tasks : pc[t] = "idle"
  /\ FlagTracksSwap

LEMMA InitFlag == Init => FlagInv
BY DEF Init, FlagInv, FlagTracksSwap, Run, Places, Swapping

\* Finish takes the task out of executeSwap and the flag down with it.
LEMMA FinishFlag ==
  ASSUME FlagInv, NEW t \in Tasks, Run', Finish(t)
  PROVE  FlagInv'
BY DEF FlagInv, FlagTracksSwap, Run, Finish, Goto, Places, Swapping

\* A step that keeps the flag and the process and leaves its task inside
\* executeSwap keeps the invariant.
LEMMA StayFlag ==
  ASSUME FlagInv, NEW t \in Tasks, NEW place \in Swapping, Run, Run',
         pc[t] \in Swapping, Goto(t, place), UNCHANGED waitingForConfirmation
  PROVE  FlagInv'
<1>1. pc' \in [Tasks -> Places]
  BY DEF FlagInv, Goto, Places
<1>2. pc'[t] \in Swapping
  BY DEF FlagInv, Goto
<1> QED
  BY <1>1, <1>2 DEF FlagInv, FlagTracksSwap, Run

\* A task that is not idle runs in a process that has not exited.
LEMMA BusyRuns ==
  ASSUME FlagInv, NEW t \in Tasks, pc[t] # "idle"
  PROVE  Run
BY DEF FlagInv

LEMMA AdvanceFlag ==
  ASSUME FlagInv, NEW t \in Tasks, Advance(t)
  PROVE  FlagInv'
<1>0. Run
  <2>1. pc[t] # "idle"
    BY DEF Advance, QuoteRefused, QuoteAccepted, BuildFails, Send, Confirm,
           ConfirmThrows, PostTransactionRefresh, CheckLog, LogSwap
  <2> QED
    BY <2>1, BusyRuns
<1>1. CASE QuoteRefused(t)
  <2>1. \A u \in Tasks : pc[u] \in Swapping => pc'[u] \in Swapping
    BY <1>1 DEF FlagInv, QuoteRefused, Goto, Swapping
  <2>2. pc' \in [Tasks -> Places]
    BY <1>1 DEF FlagInv, QuoteRefused, Goto, Places
  <2>3. UNCHANGED <<process, waitingForConfirmation>>
    BY <1>1 DEF QuoteRefused
  <2> QED
    BY <1>0, <2>1, <2>2, <2>3 DEF FlagInv, FlagTracksSwap, Run
<1>2. ASSUME NEW out \in OutAmounts, QuoteAccepted(t, out)
      PROVE  FlagInv'
  <2>1. pc' \in [Tasks -> Places] /\ pc'[t] \in Swapping
    BY <1>2 DEF FlagInv, QuoteAccepted, Goto, Places, Swapping
  <2>2. UNCHANGED process
    BY <1>2 DEF QuoteAccepted
  <2> QED
    BY <1>0, <2>1, <2>2 DEF FlagInv, FlagTracksSwap, Run
<1>3. CASE BuildFails(t)
  BY <1>0, <1>3, FinishFlag DEF BuildFails, Run
<1>4. CASE Send(t)
  <2>1. CASE Finish(t)
    BY <1>0, <1>4, <2>1, FinishFlag DEF Send, Run
  <2>2. CASE Goto(t, "confirming") /\ UNCHANGED waitingForConfirmation
    BY <1>0, <1>4, <2>2, StayFlag DEF Send, Swapping, Run
  <2> QED
    BY <1>4, <2>1, <2>2 DEF Send
<1>5. CASE Confirm(t)
  BY <1>0, <1>5, StayFlag DEF Confirm, Swapping, Run
<1>6. CASE ConfirmThrows(t)
  BY <1>0, <1>6, FinishFlag DEF ConfirmThrows, Run
<1>7. ASSUME NEW low \in BOOLEAN, PostTransactionRefresh(t, low)
      PROVE  FlagInv'
  <2>1. Run'
    BY <1>0, <1>7 DEF PostTransactionRefresh, RefreshBalances, TerminateSession, Run
  <2> QED
    BY <1>0, <1>7, <2>1, StayFlag DEF PostTransactionRefresh, Swapping
<1>8. CASE CheckLog(t)
  BY <1>0, <1>8, StayFlag DEF CheckLog, Swapping, Run
<1>9. CASE LogSwap(t)
  BY <1>0, <1>9, FinishFlag DEF LogSwap, Run
<1> QED
  BY <1>1, <1>2, <1>3, <1>4, <1>5, <1>6, <1>7, <1>8, <1>9 DEF Advance

LEMMA NextFlag ==
  ASSUME FlagInv, [Next]_vars
  PROVE  FlagInv'
<1>1. ASSUME NEW low \in BOOLEAN, InitBot(low)
      PROVE  FlagInv'
  <2>1. Run /\ Run' /\ UNCHANGED <<pc, waitingForConfirmation>>
    BY <1>1 DEF InitBot, Run
  <2> QED
    BY <2>1 DEF FlagInv, FlagTracksSwap
<1>2. ASSUME NEW t \in Tasks, Tick(t)
      PROVE  FlagInv'
  <2>1. pc' \in [Tasks -> Places]
    BY <1>2 DEF FlagInv, Tick, Goto, Places
  <2>2. Run /\ Run' /\ ~waitingForConfirmation'
    BY <1>2 DEF Tick, Run, Watches
  <2> QED
    BY <2>1, <2>2 DEF FlagInv, FlagTracksSwap
<1>3. CASE Terminated \/ Crash
  <2>1. process' = "exited" /\ pc' = [t \in Tasks |-> "idle"]
    BY <1>3 DEF Terminated, Crash, Exit
  <2> QED
    BY <2>1 DEF FlagInv, FlagTracksSwap, Run, Places
<1>4. ASSUME NEW i \in DOMAIN swaps, Settle(i)
      PROVE  FlagInv'
  BY <1>4 DEF Settle, Land, Miss, botVars, FlagInv, FlagTracksSwap, Run
<1>5. CASE Restart
  BY <1>5 DEF Restart, FlagInv, FlagTracksSwap, Run
<1>6. CASE UNCHANGED vars
  BY <1>6 DEF vars, FlagInv, FlagTracksSwap, Run
<1> QED
  BY <1>1, <1>2, <1>3, <1>4, <1>5, <1>6, AdvanceFlag DEF Next

\* The confirmation flag is set only while some task is in executeSwap: the
\* bot is never deaf to the price because of a swap that is over.
THEOREM FlagAlwaysTracksSwap == Spec => []FlagTracksSwap
<1>1. FlagInv /\ [Next]_vars => FlagInv'
  BY NextFlag
<1>2. FlagInv => FlagTracksSwap
  BY DEF FlagInv
<1> QED
  BY <1>1, <1>2, InitFlag, PTL DEF Spec
-----------------------------------------------------------------------------
(* Types, with sequences that are typed as such.                           *)

Sent == [quote: Quotes, fate: {"pending", "landed", "failed", "dropped"}]

Typed ==
  /\ process \in {"starting", "up", "exiting", "exited"}
  /\ interval \in BOOLEAN
  /\ nextTrade \in NextTrades
  /\ waitingForConfirmation \in BOOLEAN
  /\ pc \in [Tasks -> Places]
  /\ route \in [Tasks -> Quotes]
  /\ \A t \in Tasks : pc[t] \in Swapping => route[t].outAmount \in OutAmounts
  /\ txid \in [Tasks -> Nat]
  /\ \A t \in Tasks : txid[t] <= Len(swaps)
  /\ \A t \in Tasks : pc[t] = "confirming" => txid[t] # 0
  /\ seen \in [Tasks -> BOOLEAN]
  /\ swaps \in Seq(Sent)
  /\ ledger \in Seq(Quotes)
  /\ received \in Seq(Receipts)
  /\ Len(received) = Len(ledger)
  /\ trades \in [exists: BOOLEAN, entries: Seq(Quotes)]

LEMMA TypedTypeOK == Typed => TypeOK
<1> SUFFICES ASSUME Typed PROVE TypeOK
  OBVIOUS
<1>1. \A i \in DOMAIN swaps : swaps[i] \in Sent
  BY DEF Typed
<1>2. \A i \in DOMAIN ledger : ledger[i] \in Quotes
  BY DEF Typed
<1>3. /\ trades.exists \in BOOLEAN /\ trades.entries \in Seq(Quotes)
      /\ \A i \in DOMAIN received : received[i] \in Receipts
  BY DEF Typed
<1>4. \A i \in DOMAIN trades.entries : trades.entries[i] \in Quotes
  BY <1>3
<1>5. txid \in [Tasks -> 0..Len(swaps)]
  <2>1. Len(swaps) \in Nat
    BY DEF Typed
  <2> QED
    BY <2>1 DEF Typed
<1> QED
  BY <1>1, <1>2, <1>3, <1>4, <1>5 DEF Typed, TypeOK, Places, Sent

\* Values that the bot starts with or puts together.
LEMMA OpeningTyped == Opening \in NextTrades
BY BotAssumption DEF NextTrades, Mints, Amounts, Thresholds

LEMMA RequestTyped ==
  ASSUME NEW trade \in NextTrades
  PROVE  Request(trade) \in Quotes
BY DEF NextTrades, Request, Quotes

LEMMA NextTradeTyped ==
  ASSUME nextTrade \in NextTrades, NEW q \in Quotes, q.outAmount \in OutAmounts,
         UpdateNextTrade(q)
  PROVE  nextTrade' \in NextTrades
<1>1. q.outAmount \in Amounts /\ q.inAmount \in Amounts
  BY DEF Quotes, Amounts
<1>2. q.inAmount * (Whole + Gain) \in Thresholds
  BY <1>1 DEF Thresholds
<1>3. nextTrade.inputMint \in Mints /\ nextTrade.outputMint \in Mints
  BY DEF NextTrades
<1> QED
  BY <1>1, <1>2, <1>3 DEF UpdateNextTrade, NextTrades

LEMMA InitTyped == Init => Typed
<1> SUFFICES ASSUME Init PROVE Typed
  OBVIOUS
<1>1. nextTrade \in NextTrades
  BY OpeningTyped DEF Init
<1>2. NoRoute \in Quotes
  BY OpeningTyped, RequestTyped DEF NoRoute
<1>3. route \in [Tasks -> Quotes]
  BY <1>2 DEF Init
<1>4. /\ swaps \in Seq(Sent) /\ ledger \in Seq(Quotes) /\ Len(swaps) = 0
      /\ received \in Seq(Receipts) /\ Len(received) = Len(ledger)
  BY DEF Init
<1>5. trades \in [exists: BOOLEAN, entries: Seq(Quotes)]
  <2>1. << >> \in Seq(Quotes)
    OBVIOUS
  <2>2. trades \in [exists: BOOLEAN, entries: {<< >>}]
    BY DEF Init
  <2> QED
    BY <2>1, <2>2
<1>6. /\ pc \in [Tasks -> Places]
      /\ txid \in [Tasks -> Nat]
      /\ seen \in [Tasks -> BOOLEAN]
  BY DEF Init, Places
<1>7. \A t \in Tasks : txid[t] = 0 /\ pc[t] = "idle" /\ pc[t] \notin Swapping
  BY DEF Init, Swapping
<1>8. /\ process \in {"starting", "up", "exiting", "exited"}
      /\ interval \in BOOLEAN
      /\ waitingForConfirmation \in BOOLEAN
  BY DEF Init
<1> QED
  BY <1>1, <1>3, <1>4, <1>5, <1>6, <1>7, <1>8 DEF Typed
-----------------------------------------------------------------------------
\* A step of one task.
LEMMA FinishTyped ==
  ASSUME Typed, NEW t \in Tasks, Finish(t), UNCHANGED <<interval, nextTrade, ledger, received>>,
         process' \in {"starting", "up", "exiting", "exited"},
         swaps' \in Seq(Sent), Len(swaps') >= Len(swaps),
         trades' \in [exists: BOOLEAN, entries: Seq(Quotes)]
  PROVE  Typed'
<1>1. /\ pc' = [pc EXCEPT ![t] = "idle"]
      /\ route' = [route EXCEPT ![t] = NoRoute]
      /\ txid' = [txid EXCEPT ![t] = 0]
      /\ seen' = [seen EXCEPT ![t] = FALSE]
      /\ waitingForConfirmation' = FALSE
  BY DEF Finish, Goto
<1>2. pc' \in [Tasks -> Places] /\ "idle" \notin Swapping
  BY <1>1 DEF Typed, Places, Swapping
<1>3. route' \in [Tasks -> Quotes]
  BY <1>1, OpeningTyped, RequestTyped DEF NoRoute, Typed
<1>4. \A u \in Tasks : pc'[u] \in Swapping => route'[u].outAmount \in OutAmounts
  BY <1>1, <1>2 DEF Typed
<1>5. txid' \in [Tasks -> Nat] /\ seen' \in [Tasks -> BOOLEAN]
  BY <1>1 DEF Typed
<1>6. \A u \in Tasks : txid'[u] <= Len(swaps')
  <2>1. Len(swaps) \in Nat /\ Len(swaps') \in Nat
    BY DEF Typed
  <2> QED
    BY <1>1, <2>1 DEF Typed
<1>7. \A u \in Tasks : pc'[u] = "confirming" => txid'[u] # 0
  BY <1>1 DEF Typed
<1> QED
  BY <1>1, <1>2, <1>3, <1>4, <1>5, <1>6, <1>7 DEF Typed

\* A step that moves a task to another place and leaves it its route.
LEMMA StayTyped ==
  ASSUME Typed, NEW t \in Tasks, NEW place \in Swapping, Goto(t, place),
         pc[t] \in Swapping,
         UNCHANGED <<waitingForConfirmation, route, swaps, ledger, received, trades>>,
         process' \in {"starting", "up", "exiting", "exited"},
         interval' \in BOOLEAN, nextTrade' \in NextTrades,
         txid' = txid, place # "confirming",
         seen' \in [Tasks -> BOOLEAN]
  PROVE  Typed'
<1>1. pc' = [pc EXCEPT ![t] = place]
  BY DEF Goto
<1>2. pc' \in [Tasks -> Places]
  BY <1>1 DEF Typed, Places
<1>3. \A u \in Tasks : pc'[u] \in Swapping => pc[u] \in Swapping
  BY <1>1 DEF Typed
<1>4. \A u \in Tasks : pc'[u] = "confirming" => pc[u] = "confirming"
  BY <1>1 DEF Typed
<1> QED
  BY <1>2, <1>3, <1>4 DEF Typed
LEMMA TickTyped ==
  ASSUME Typed, NEW t \in Tasks, Tick(t)
  PROVE  Typed'
<1>1. /\ pc' = [pc EXCEPT ![t] = "quoting"]
      /\ route' = [route EXCEPT ![t] = Request(nextTrade)]
      /\ UNCHANGED <<process, interval, nextTrade, waitingForConfirmation, txid,
                     seen, swaps, ledger, received, trades>>
  BY DEF Tick, Goto
<1>2. pc' \in [Tasks -> Places] /\ "quoting" \notin Swapping
  BY <1>1 DEF Typed, Places, Swapping
<1>3. route' \in [Tasks -> Quotes]
  BY <1>1, RequestTyped DEF Typed
<1>4. \A u \in Tasks : pc'[u] \in Swapping => pc[u] \in Swapping /\ route'[u] = route[u]
  BY <1>1, <1>2 DEF Typed
<1>5. \A u \in Tasks : pc'[u] = "confirming" => pc[u] = "confirming"
  BY <1>1 DEF Typed
<1> QED
  BY <1>1, <1>2, <1>3, <1>4, <1>5 DEF Typed

LEMMA QuoteRefusedTyped ==
  ASSUME Typed, NEW t \in Tasks, QuoteRefused(t)
  PROVE  Typed'
<1>1. /\ pc' = [pc EXCEPT ![t] = "idle"]
      /\ route' = [route EXCEPT ![t] = NoRoute]
      /\ UNCHANGED <<process, interval, nextTrade, waitingForConfirmation, txid,
                     seen, swaps, ledger, received, trades>>
  BY DEF QuoteRefused, Goto
<1>2. pc' \in [Tasks -> Places] /\ "idle" \notin Swapping
  BY <1>1 DEF Typed, Places, Swapping
<1>3. route' \in [Tasks -> Quotes]
  BY <1>1, OpeningTyped, RequestTyped DEF Typed, NoRoute
<1>4. \A u \in Tasks : pc'[u] \in Swapping => pc[u] \in Swapping /\ route'[u] = route[u]
  BY <1>1, <1>2 DEF Typed
<1>5. \A u \in Tasks : pc'[u] = "confirming" => pc[u] = "confirming"
  BY <1>1 DEF Typed
<1> QED
  BY <1>1, <1>2, <1>3, <1>4, <1>5 DEF Typed

LEMMA QuoteAcceptedTyped ==
  ASSUME Typed, NEW t \in Tasks, NEW out \in OutAmounts, QuoteAccepted(t, out)
  PROVE  Typed'
<1>1. /\ pc' = [pc EXCEPT ![t] = "building"]
      /\ route' = [route EXCEPT ![t].outAmount = out]
      /\ waitingForConfirmation' = TRUE
      /\ UNCHANGED <<process, interval, nextTrade, txid, seen, swaps, ledger, received, trades>>
  BY DEF QuoteAccepted, Goto
<1>2. pc' \in [Tasks -> Places]
  BY <1>1 DEF Typed, Places, Swapping
<1>3. /\ route'[t] = [route[t] EXCEPT !.outAmount = out]
      /\ route[t] \in Quotes
  BY <1>1 DEF Typed
<1>4. route'[t] \in Quotes /\ route'[t].outAmount = out
  BY <1>3 DEF Quotes
<1>5. route' \in [Tasks -> Quotes]
  BY <1>1, <1>4 DEF Typed
<1>6. \A u \in Tasks : pc'[u] \in Swapping =>
        u = t \/ (pc[u] \in Swapping /\ route'[u] = route[u])
  <2>1. \A u \in Tasks : u # t => pc'[u] = pc[u]
    BY <1>1 DEF Typed
  <2>2. \A u \in Tasks : u # t => route'[u] = route[u]
    BY <1>1 DEF Typed
  <2> QED
    BY <2>1, <2>2
<1>7. \A u \in Tasks : pc'[u] = "confirming" => pc[u] = "confirming"
  BY <1>1 DEF Typed
<1>8. waitingForConfirmation' \in BOOLEAN
  BY <1>1
<1> QED
  BY <1>1, <1>2, <1>4, <1>5, <1>6, <1>7, <1>8 DEF Typed

LEMMA SendTyped ==
  ASSUME Typed, NEW t \in Tasks, Send(t)
  PROVE  Typed'
<1> DEFINE tx == [quote |-> route[t], fate |-> "pending"]
<1>1. /\ pc[t] = "building"
      /\ swaps' = Append(swaps, tx)
      /\ UNCHANGED <<process, interval, nextTrade, ledger, received, trades>>
  BY DEF Send
<1>2. tx \in Sent
  BY DEF Typed, Sent
<1>3. swaps' \in Seq(Sent) /\ Len(swaps') = Len(swaps) + 1 /\ Len(swaps) \in Nat
  BY <1>1, <1>2 DEF Typed
<1> HIDE DEF tx
<1>4. CASE Finish(t)
  BY <1>1, <1>3, <1>4, FinishTyped DEF Typed
<1>5. CASE /\ Goto(t, "confirming")
           /\ txid' = [txid EXCEPT ![t] = NewTransaction]
           /\ UNCHANGED <<waitingForConfirmation, route, seen>>
  <2>1. pc' = [pc EXCEPT ![t] = "confirming"] /\ pc' \in [Tasks -> Places]
    BY <1>5 DEF Goto, Typed, Places, Swapping
  <2>2. NewTransaction = Len(swaps) + 1
    BY <1>3 DEF NewTransaction
  <2>3. txid' \in [Tasks -> Nat] /\ txid'[t] = Len(swaps')
    BY <1>3, <1>5, <2>2 DEF Typed
  <2>4. \A u \in Tasks : txid'[u] <= Len(swaps')
    BY <1>3, <1>5, <2>2 DEF Typed
  <2>5. \A u \in Tasks : pc'[u] = "confirming" => txid'[u] # 0
    BY <1>3, <1>5, <2>1, <2>3 DEF Typed
  <2>6. \A u \in Tasks : pc'[u] \in Swapping => pc[u] \in Swapping
    BY <1>1, <2>1 DEF Typed, Swapping
  <2> QED
    BY <1>1, <1>3, <1>5, <2>1, <2>3, <2>4, <2>5, <2>6 DEF Typed
<1> QED
  BY <1>4, <1>5 DEF Send

LEMMA LogSwapTyped ==
  ASSUME Typed, NEW t \in Tasks, LogSwap(t)
  PROVE  Typed'
<1>1. Finish(t) /\ UNCHANGED <<interval, nextTrade, swaps, ledger, received>>
  BY DEF LogSwap
<1>2. trades' \in [exists: BOOLEAN, entries: Seq(Quotes)]
  <2>1. CASE WriteLog(seen[t], route[t])
    <3> DEFINE old == IF seen[t] THEN trades.entries ELSE << >>
    <3>1. old \in Seq(Quotes) /\ route[t] \in Quotes
      BY DEF Typed
    <3>2. Append(old, route[t]) \in Seq(Quotes)
      BY <3>1
    <3>3. trades' = [exists |-> TRUE, entries |-> Append(old, route[t])]
      BY <2>1 DEF WriteLog
    <3> QED
      BY <3>2, <3>3
  <2>2. CASE UNCHANGED trades
    BY <2>2 DEF Typed
  <2> QED
    BY <2>1, <2>2 DEF LogSwap
<1>3. process' \in {"starting", "up", "exiting", "exited"}
  BY DEF LogSwap, Typed
<1>4. Len(swaps) \in Nat
  BY DEF Typed
<1> QED
  BY <1>1, <1>2, <1>3, <1>4, FinishTyped DEF Typed

LEMMA AdvanceTyped ==
  ASSUME Typed, NEW t \in Tasks, Advance(t)
  PROVE  Typed'
<1>1. Len(swaps) \in Nat /\ Len(swaps) >= Len(swaps)
  BY DEF Typed
<1>2. CASE BuildFails(t)
  BY <1>1, <1>2, FinishTyped DEF BuildFails, Typed
<1>3. CASE ConfirmThrows(t)
  BY <1>1, <1>3, FinishTyped DEF ConfirmThrows, Typed
<1>4. CASE Confirm(t)
  <2>1. pc[t] \in Swapping
    BY <1>4 DEF Confirm, Swapping
  <2>2. nextTrade' \in NextTrades
    BY <1>4, <2>1, NextTradeTyped DEF Confirm, Typed
  <2> QED
    BY <1>4, <2>1, <2>2, StayTyped DEF Confirm, Swapping, Typed
<1>5. ASSUME NEW low \in BOOLEAN, PostTransactionRefresh(t, low)
      PROVE  Typed'
  <2>1. /\ process' \in {"starting", "up", "exiting", "exited"}
        /\ interval' \in BOOLEAN
    BY <1>5 DEF PostTransactionRefresh, RefreshBalances, TerminateSession, Typed
  <2> QED
    BY <1>5, <2>1, StayTyped DEF PostTransactionRefresh, Swapping, Typed
<1>6. CASE CheckLog(t)
  <2>1. seen' \in [Tasks -> BOOLEAN]
    BY <1>6 DEF CheckLog, Typed
  <2> QED
    BY <1>6, <2>1, StayTyped DEF CheckLog, Swapping, Typed
<1> QED
  BY <1>2, <1>3, <1>4, <1>5, <1>6, QuoteRefusedTyped, QuoteAcceptedTyped,
     SendTyped, LogSwapTyped DEF Advance

LEMMA ExitTyped == ASSUME Typed, Exit PROVE Typed'
<1>1. /\ process' = "exited"
      /\ pc' = [t \in Tasks |-> "idle"]
      /\ route' = [t \in Tasks |-> NoRoute]
      /\ txid' = [t \in Tasks |-> 0]
      /\ seen' = [t \in Tasks |-> FALSE]
      /\ UNCHANGED <<interval, nextTrade, waitingForConfirmation, swaps, ledger, received, trades>>
  BY DEF Exit
<1>2. route' \in [Tasks -> Quotes]
  BY <1>1, OpeningTyped, RequestTyped DEF NoRoute
<1>3. Len(swaps) \in Nat
  BY DEF Typed
<1>4. \A t \in Tasks : txid'[t] <= Len(swaps)
  BY <1>1, <1>3
<1>5. pc' \in [Tasks -> Places] /\ \A t \in Tasks : pc'[t] = "idle" /\ pc'[t] \notin Swapping
  BY <1>1 DEF Places, Swapping
<1> QED
  BY <1>1, <1>2, <1>4, <1>5 DEF Typed

LEMMA SettleTyped ==
  ASSUME Typed, NEW i \in DOMAIN swaps, Settle(i)
  PROVE  Typed'
<1>1. PICK fate \in {"landed", "failed", "dropped"} :
        swaps' = [swaps EXCEPT ![i].fate = fate]
  BY DEF Settle, Land, Miss
<1>2. [swaps[i] EXCEPT !.fate = fate] \in Sent /\ swaps[i].quote \in Quotes
  <2>1. swaps[i] \in Sent
    BY DEF Typed
  <2> QED
    BY <2>1 DEF Sent
<1>3. swaps' \in Seq(Sent) /\ Len(swaps') = Len(swaps)
  BY <1>1, <1>2 DEF Typed
<1>4. /\ ledger' \in Seq(Quotes) /\ received' \in Seq(Receipts)
      /\ Len(received') = Len(ledger')
  <2>1. CASE Land(i)
    <3>1. PICK amount \in Receipts : received' = Append(received, amount)
      BY <2>1 DEF Land
    <3>2. ledger' = Append(ledger, swaps[i].quote)
      BY <2>1 DEF Land
    <3>3. ledger \in Seq(Quotes) /\ received \in Seq(Receipts) /\ Len(received) = Len(ledger)
      BY DEF Typed
    <3> QED
      BY <1>2, <3>1, <3>2, <3>3
  <2>2. CASE Miss(i)
    BY <2>2 DEF Miss, Typed
  <2> QED
    BY <2>1, <2>2 DEF Settle
<1>5. UNCHANGED botVars
  BY DEF Settle, Land, Miss
<1> QED
  BY <1>3, <1>4, <1>5 DEF botVars, Typed

LEMMA NextTyped == Typed /\ [Next]_vars => Typed'
<1> SUFFICES ASSUME Typed, [Next]_vars PROVE Typed'
  OBVIOUS
<1>1. ASSUME NEW low \in BOOLEAN, InitBot(low) PROVE Typed'
  <2>1. /\ process' \in {"starting", "up", "exiting", "exited"}
        /\ interval' \in BOOLEAN
        /\ UNCHANGED <<nextTrade, waitingForConfirmation, pc, route, txid, seen,
                       swaps, ledger, received, trades>>
    BY <1>1 DEF InitBot
  <2> QED
    BY <2>1 DEF Typed
<1>2. CASE Terminated \/ Crash
  BY <1>2, ExitTyped DEF Terminated, Crash
<1>3. CASE Restart
  <2>1. /\ process' \in {"starting", "up", "exiting", "exited"}
        /\ interval' \in BOOLEAN /\ waitingForConfirmation' \in BOOLEAN
        /\ nextTrade' \in NextTrades
        /\ UNCHANGED <<pc, route, txid, seen, swaps, ledger, received, trades>>
    BY <1>3, OpeningTyped DEF Restart
  <2> QED
    BY <2>1 DEF Typed
<1>4. CASE UNCHANGED vars
  BY <1>4 DEF vars, Typed
<1> QED
  BY <1>1, <1>2, <1>3, <1>4, TickTyped, AdvanceTyped, SettleTyped DEF Next

LEMMA AlwaysTyped == Spec => []Typed
BY InitTyped, NextTyped, PTL DEF Spec

\* Every variable keeps its type, whatever overlaps, fails or crashes.
THEOREM TypeCorrect == Spec => []TypeOK
BY AlwaysTyped, TypedTypeOK, PTL
-----------------------------------------------------------------------------
(* The log is truthful: each entry belongs to a transaction of its own     *)
(* that has landed, and each landed transaction to a place of its own in   *)
(* the ledger.                                                             *)

\* Where a task that waits for its transaction, or knows its fate, can be.
Holding == {"confirming", "refreshing", "checking log", "logging"}

Landed == {i \in DOMAIN swaps : swaps[i].fate = "landed"}

\* A task holds a transaction of its own, which has landed once it says so.
Holds ==
  /\ \A t \in Tasks : pc[t] \in Holding =>
       /\ txid[t] \in DOMAIN swaps
       /\ swaps[txid[t]].quote = route[t]
       /\ pc[t] # "confirming" => txid[t] \in Landed
  /\ \A t \in Tasks : pc[t] \notin Holding => txid[t] = 0
  /\ \A t, u \in Tasks :
       pc[t] \in Holding /\ pc[u] \in Holding /\ txid[t] = txid[u] => t = u

Placed ==
  \E f \in Injection(Landed, DOMAIN ledger) :
    \A i \in Landed : ledger[f[i]] = swaps[i].quote

\* No task is still to log the transaction of an entry.
Entered ==
  \E f \in Injection(DOMAIN trades.entries, Landed) :
    \A i \in DOMAIN trades.entries :
      /\ swaps[f[i]].quote = trades.entries[i]
      /\ \A t \in Tasks : f[i] # txid[t]

Truthful == Typed /\ Holds /\ Placed /\ Entered

LEMMA InitTruthful == Init => Truthful
<1> SUFFICES ASSUME Init PROVE Truthful
  OBVIOUS
<1>1. Typed
  BY InitTyped
<1>2. Holds
  BY DEF Init, Holds, Holding
<1>3. Landed = {} /\ DOMAIN trades.entries = {} /\ DOMAIN ledger = {}
  BY DEF Init, Landed
<1> DEFINE none == [i \in {} |-> 0]
<1>4. none \in Injection({}, {})
  BY DEF Injection, IsInjective
<1>5. Placed
  BY <1>3, <1>4 DEF Placed
<1>6. Entered
  BY <1>3, <1>4 DEF Entered
<1> QED
  BY <1>1, <1>2, <1>5, <1>6 DEF Truthful

\* Transactions may land and tasks let go of theirs, or take new ones.
LEMMA EnteredKept ==
  ASSUME Entered, UNCHANGED trades, Landed \subseteq Landed',
         \A i \in Landed : swaps'[i].quote = swaps[i].quote,
         \A t \in Tasks : txid'[t] = txid[t] \/ txid'[t] \notin Landed
  PROVE  Entered'
<1>1. PICK f \in Injection(DOMAIN trades.entries, Landed) :
        \A i \in DOMAIN trades.entries :
          /\ swaps[f[i]].quote = trades.entries[i]
          /\ \A t \in Tasks : f[i] # txid[t]
  BY DEF Entered
<1>2. \A i \in DOMAIN trades.entries : f[i] \in Landed
  BY <1>1 DEF Injection
<1>3. f \in Injection(DOMAIN trades.entries, Landed')
  BY <1>1 DEF Injection
<1>4. \A i \in DOMAIN trades.entries :
        /\ swaps'[f[i]].quote = trades.entries[i]
        /\ \A t \in Tasks : f[i] # txid'[t]
  BY <1>1, <1>2
<1> QED
  BY <1>3, <1>4 DEF Entered

LEMMA PlacedKept ==
  ASSUME Placed, UNCHANGED ledger, Landed' = Landed,
         \A i \in Landed : swaps'[i].quote = swaps[i].quote
  PROVE  Placed'
BY DEF Placed

\* A step that leaves the transactions and what tasks hold.
LEMMA NoHoldingTruthful ==
  ASSUME Truthful, Typed', NEW t \in Tasks, pc[t] \notin Holding, pc'[t] \notin Holding,
         UNCHANGED <<txid, swaps, ledger, trades>>,
         \A u \in Tasks : u # t => pc'[u] = pc[u] /\ route'[u] = route[u]
  PROVE  Truthful'
<1>1. Landed' = Landed
  BY DEF Landed
<1>2. Holds'
  BY <1>1 DEF Truthful, Holds
<1>3. Placed' /\ Entered'
  BY <1>1, PlacedKept, EnteredKept DEF Truthful
<1> QED
  BY <1>2, <1>3 DEF Truthful

\* A task lets go of its transaction, whatever else it sends or logs.
LEMMA FinishHolds ==
  ASSUME Truthful, NEW t \in Tasks, Finish(t),
         DOMAIN swaps \subseteq DOMAIN swaps',
         \A i \in DOMAIN swaps : swaps'[i] = swaps[i]
  PROVE  Holds'
<1>1. /\ pc' = [pc EXCEPT ![t] = "idle"]
      /\ route' = [route EXCEPT ![t] = NoRoute]
      /\ txid' = [txid EXCEPT ![t] = 0]
  BY DEF Finish, Goto
<1>2. \A u \in Tasks : u # t => pc'[u] = pc[u] /\ route'[u] = route[u] /\ txid'[u] = txid[u]
  BY <1>1 DEF Truthful, Typed
<1>3. pc'[t] \notin Holding /\ txid'[t] = 0
  BY <1>1 DEF Truthful, Typed, Holding
<1>4. Landed \subseteq Landed'
  BY DEF Landed
<1> QED
  BY <1>2, <1>3, <1>4 DEF Truthful, Holds

LEMMA FinishTruthful ==
  ASSUME Truthful, Typed', NEW t \in Tasks, Finish(t), UNCHANGED <<swaps, ledger, trades>>
  PROVE  Truthful'
<1>1. Landed' = Landed
  BY DEF Landed
<1>2. \A u \in Tasks : txid'[u] = txid[u] \/ txid'[u] \notin Landed
  BY DEF Finish, Truthful, Typed, Landed
<1>3. Placed' /\ Entered'
  BY <1>1, <1>2, PlacedKept, EnteredKept DEF Truthful
<1>4. Holds'
  BY FinishHolds
<1> QED
  BY <1>3, <1>4 DEF Truthful

LEMMA StayTruthful ==
  ASSUME Truthful, Typed', NEW t \in Tasks,
         NEW place \in {"refreshing", "checking log", "logging"},
         Goto(t, place), pc[t] \in Holding, txid[t] \in Landed,
         UNCHANGED <<route, txid, swaps, ledger, trades>>
  PROVE  Truthful'
<1>1. Landed' = Landed
  BY DEF Landed
<1>2. \A u \in Tasks : pc'[u] = IF u = t THEN place ELSE pc[u]
  BY DEF Goto, Truthful, Typed
<1>3. place \in Holding
  BY DEF Holding
<1>4. Holds'
  BY <1>1, <1>2, <1>3 DEF Truthful, Holds
<1>5. Placed' /\ Entered'
  BY <1>1, PlacedKept, EnteredKept DEF Truthful
<1> QED
  BY <1>4, <1>5 DEF Truthful

LEMMA SendTruthful ==
  ASSUME Truthful, NEW t \in Tasks, Send(t)
  PROVE  Truthful'
<1> DEFINE tx == [quote |-> route[t], fate |-> "pending"]
<1>1. /\ pc[t] = "building"
      /\ swaps' = Append(swaps, tx)
      /\ UNCHANGED <<ledger, trades>>
  BY DEF Send
<1>2. Typed'
  BY SendTyped DEF Truthful
<1>3. tx \in Sent /\ tx.fate = "pending" /\ tx.quote = route[t]
  BY DEF Truthful, Typed, Sent
<1> HIDE DEF tx
<1>4. /\ Len(swaps) \in Nat
      /\ DOMAIN swaps' = DOMAIN swaps \union {Len(swaps) + 1}
      /\ swaps'[Len(swaps) + 1] = tx
      /\ \A i \in DOMAIN swaps : swaps'[i] = swaps[i]
      /\ Len(swaps) + 1 \notin DOMAIN swaps
      /\ Len(swaps') = Len(swaps) + 1
  BY <1>1, <1>3 DEF Truthful, Typed
<1>5. Landed' = Landed
  BY <1>3, <1>4 DEF Landed
<1>6. \A i \in Landed : swaps'[i].quote = swaps[i].quote
  BY <1>4 DEF Landed
<1>7. Placed'
  BY <1>1, <1>5, <1>6, PlacedKept DEF Truthful
<1>8. CASE Finish(t)
  <2>1. Holds'
    BY <1>4, <1>8, FinishHolds
  <2>2. \A u \in Tasks : txid'[u] = txid[u] \/ txid'[u] \notin Landed
    BY <1>4, <1>8 DEF Finish, Truthful, Typed, Landed
  <2>3. Entered'
    BY <1>1, <1>5, <1>6, <2>2, EnteredKept DEF Truthful
  <2> QED
    BY <1>2, <1>7, <2>1, <2>3 DEF Truthful
<1>9. CASE /\ Goto(t, "confirming")
           /\ txid' = [txid EXCEPT ![t] = NewTransaction]
           /\ UNCHANGED route
  <2>1. NewTransaction = Len(swaps) + 1
    BY <1>4 DEF NewTransaction
  <2>2. /\ \A u \in Tasks : pc'[u] = IF u = t THEN "confirming" ELSE pc[u]
        /\ \A u \in Tasks : txid'[u] = IF u = t THEN Len(swaps) + 1 ELSE txid[u]
    BY <1>9, <2>1 DEF Goto, Truthful, Typed
  <2>3. \A u \in Tasks : u # t => txid[u] # Len(swaps) + 1
    BY <1>4 DEF Truthful, Typed
  <2>4. Holds'
    <3>1. /\ txid'[t] \in DOMAIN swaps'
          /\ swaps'[txid'[t]].quote = route'[t]
          /\ pc'[t] = "confirming" /\ pc'[t] \in Holding
      BY <1>3, <1>4, <1>9, <2>2 DEF Holding
    <3>2. ASSUME NEW u \in Tasks, u # t, pc'[u] \in Holding
          PROVE  /\ txid'[u] \in DOMAIN swaps'
                 /\ swaps'[txid'[u]].quote = route'[u]
                 /\ pc'[u] # "confirming" => txid'[u] \in Landed'
      <4>1. /\ txid[u] \in DOMAIN swaps
            /\ swaps[txid[u]].quote = route[u]
            /\ pc[u] # "confirming" => txid[u] \in Landed
        BY <2>2, <3>2 DEF Truthful, Holds
      <4> QED
        BY <1>4, <1>5, <1>9, <2>2, <3>2, <4>1
    <3>3. \A u \in Tasks : pc'[u] \notin Holding => txid'[u] = 0
      BY <2>2, <3>1 DEF Truthful, Holds
    <3>4. \A u, v \in Tasks :
            pc'[u] \in Holding /\ pc'[v] \in Holding /\ txid'[u] = txid'[v] => u = v
      BY <2>2, <2>3 DEF Truthful, Holds
    <3> QED
      BY <3>1, <3>2, <3>3, <3>4 DEF Holds
  <2>5. Len(swaps) + 1 \notin Landed
    BY <1>4 DEF Landed
  <2>6. \A u \in Tasks : txid'[u] = txid[u] \/ txid'[u] \notin Landed
    BY <2>2, <2>5
  <2>7. Entered'
    BY <1>1, <1>5, <1>6, <2>6, EnteredKept DEF Truthful
  <2> QED
    BY <1>2, <1>7, <2>4, <2>7 DEF Truthful
<1> QED
  BY <1>8, <1>9 DEF Send

\* What is logged is the task's transaction, which is nobody else's and in no
\* entry; a log that is written over only loses entries.
LEMMA LogSwapTruthful ==
  ASSUME Truthful, NEW t \in Tasks, LogSwap(t)
  PROVE  Truthful'
<1>1. /\ pc[t] = "logging" /\ Finish(t)
      /\ UNCHANGED <<swaps, ledger>>
  BY DEF LogSwap
<1>2. Typed'
  BY LogSwapTyped DEF Truthful
<1>3. CASE UNCHANGED trades
  BY <1>1, <1>2, <1>3, FinishTruthful
<1>4. CASE WriteLog(seen[t], route[t])
  <2> DEFINE old == IF seen[t] THEN trades.entries ELSE << >>
             last == Len(old) + 1
  <2>1. trades' = [exists |-> TRUE, entries |-> Append(old, route[t])]
    BY <1>4 DEF WriteLog
  <2>2. trades.entries \in Seq(Quotes) /\ route[t] \in Quotes
    BY DEF Truthful, Typed
  <2>3. /\ old \in Seq(Quotes)
        /\ \A i \in DOMAIN old : i \in DOMAIN trades.entries /\ old[i] = trades.entries[i]
    BY <2>2
  <2> HIDE DEF old
  <2>4. /\ DOMAIN trades'.entries = DOMAIN old \union {last}
        /\ last \notin DOMAIN old
        /\ trades'.entries[last] = route[t]
        /\ \A i \in DOMAIN old : trades'.entries[i] = old[i]
    BY <2>1, <2>2, <2>3
  <2> HIDE DEF last
  <2>5. PICK f \in Injection(DOMAIN trades.entries, Landed) :
          \A i \in DOMAIN trades.entries :
            /\ swaps[f[i]].quote = trades.entries[i]
            /\ \A u \in Tasks : f[i] # txid[u]
    BY DEF Truthful, Entered
  <2>6. /\ txid[t] \in Landed
        /\ swaps[txid[t]].quote = route[t]
        /\ pc[t] \in Holding
    BY <1>1 DEF Truthful, Holds, Holding
  <2>7. Landed' = Landed
    BY <1>1 DEF Landed
  <2>8. /\ \A u \in Tasks : txid'[u] = IF u = t THEN 0 ELSE txid[u]
        /\ 0 \notin Landed
    BY <1>1 DEF Finish, Truthful, Typed, Landed
  <2>9. \A u \in Tasks : txid'[u] # txid[t]
    BY <2>6, <2>8 DEF Truthful, Holds, Landed
  <2> DEFINE g == [i \in DOMAIN trades'.entries |-> IF i = last THEN txid[t] ELSE f[i]]
  <2>10. \A i \in DOMAIN old : f[i] \in Landed /\ f[i] # txid[t]
    BY <2>3, <2>5 DEF Injection
  <2>11. \A i, j \in DOMAIN old : f[i] = f[j] => i = j
    BY <2>3, <2>5 DEF Injection, IsInjective
  <2>12. g \in Injection(DOMAIN trades'.entries, Landed')
    BY <2>4, <2>6, <2>7, <2>10, <2>11 DEF Injection, IsInjective
  <2>13. ASSUME NEW i \in DOMAIN trades'.entries
         PROVE  /\ swaps'[g[i]].quote = trades'.entries[i]
                /\ \A u \in Tasks : g[i] # txid'[u]
    <3>1. CASE i = last
      BY <1>1, <2>4, <2>6, <2>9, <3>1
    <3>2. CASE i \in DOMAIN old
      <4>1. g[i] = f[i] /\ f[i] \in Landed
        BY <2>4, <2>10, <3>2
      <4>2. swaps'[g[i]].quote = trades'.entries[i]
        BY <1>1, <2>3, <2>4, <2>5, <3>2, <4>1
      <4>3. \A u \in Tasks : g[i] # txid'[u]
        BY <2>3, <2>5, <2>8, <3>2, <4>1
      <4> QED
        BY <4>2, <4>3
    <3> QED
      BY <2>4, <3>1, <3>2
  <2>14. Entered'
    <3> HIDE DEF g
    <3> QED
      BY <2>12, <2>13 DEF Entered
  <2>15. Holds'
    BY <1>1, FinishHolds
  <2>16. Placed'
    BY <1>1, <2>7, PlacedKept DEF Truthful
  <2> QED
    BY <1>2, <2>14, <2>15, <2>16 DEF Truthful
<1> QED
  BY <1>3, <1>4 DEF LogSwap

LEMMA AdvanceTruthful ==
  ASSUME Truthful, NEW t \in Tasks, Advance(t)
  PROVE  Truthful'
<1>0. Typed'
  BY AdvanceTyped DEF Truthful
<1>1. CASE QuoteRefused(t)
  <2>1. pc[t] = "quoting" /\ pc' = [pc EXCEPT ![t] = "idle"]
    BY <1>1 DEF QuoteRefused, Goto
  <2>2. pc[t] \notin Holding /\ pc'[t] \notin Holding
    BY <2>1 DEF Holding, Truthful, Typed
  <2>3. \A u \in Tasks : u # t => pc'[u] = pc[u] /\ route'[u] = route[u]
    BY <1>1, <2>1 DEF QuoteRefused, Truthful, Typed
  <2> QED
    BY <1>0, <1>1, <2>2, <2>3, NoHoldingTruthful DEF QuoteRefused
<1>2. ASSUME NEW out \in OutAmounts, QuoteAccepted(t, out) PROVE Truthful'
  <2>1. pc[t] = "quoting" /\ pc' = [pc EXCEPT ![t] = "building"]
    BY <1>2 DEF QuoteAccepted, Goto
  <2>2. pc[t] \notin Holding /\ pc'[t] \notin Holding
    BY <2>1 DEF Holding, Truthful, Typed
  <2>3. \A u \in Tasks : u # t => pc'[u] = pc[u] /\ route'[u] = route[u]
    BY <1>2, <2>1 DEF QuoteAccepted, Truthful, Typed
  <2> QED
    BY <1>0, <1>2, <2>2, <2>3, NoHoldingTruthful DEF QuoteAccepted
<1>3. CASE BuildFails(t)
  BY <1>0, <1>3, FinishTruthful DEF BuildFails
<1>4. CASE ConfirmThrows(t)
  BY <1>0, <1>4, FinishTruthful DEF ConfirmThrows
<1>5. CASE Confirm(t)
  <2>1. pc[t] \in Holding /\ txid[t] \in Landed
    BY <1>5 DEF Confirm, Succeeded, Truthful, Holds, Holding, Landed
  <2> QED
    BY <1>0, <1>5, <2>1, StayTruthful DEF Confirm
<1>6. ASSUME NEW low \in BOOLEAN, PostTransactionRefresh(t, low) PROVE Truthful'
  <2>1. pc[t] \in Holding /\ txid[t] \in Landed
    BY <1>6 DEF PostTransactionRefresh, Truthful, Holds, Holding
  <2> QED
    BY <1>0, <1>6, <2>1, StayTruthful DEF PostTransactionRefresh
<1>7. CASE CheckLog(t)
  <2>1. pc[t] \in Holding /\ txid[t] \in Landed
    BY <1>7 DEF CheckLog, Truthful, Holds, Holding
  <2> QED
    BY <1>0, <1>7, <2>1, StayTruthful DEF CheckLog
<1> QED
  BY <1>1, <1>2, <1>3, <1>4, <1>5, <1>6, <1>7, SendTruthful, LogSwapTruthful DEF Advance

\* A transaction that lands gets the next place in the ledger.
LEMMA SettleTruthful ==
  ASSUME Truthful, NEW i \in DOMAIN swaps, Settle(i)
  PROVE  Truthful'
<1>1. PICK fate \in {"landed", "failed", "dropped"} :
        swaps' = [swaps EXCEPT ![i].fate = fate]
  BY DEF Settle, Land, Miss
<1>2. swaps \in Seq(Sent) /\ swaps[i] \in Sent /\ ledger \in Seq(Quotes)
  BY DEF Truthful, Typed
<1>3. /\ DOMAIN swaps' = DOMAIN swaps
      /\ \A j \in DOMAIN swaps : swaps'[j].quote = swaps[j].quote
      /\ \A j \in DOMAIN swaps : swaps'[j].fate = IF j = i THEN fate ELSE swaps[j].fate
  BY <1>1, <1>2 DEF Sent
<1>4. swaps[i].fate = "pending" /\ i \notin Landed
  BY DEF Settle, Land, Miss, Landed
<1>5. Landed' = IF fate = "landed" THEN Landed \union {i} ELSE Landed
  BY <1>3, <1>4 DEF Landed
<1>6. UNCHANGED <<pc, route, txid, trades>>
  BY DEF Settle, Land, Miss, botVars
<1>7. Typed'
  BY SettleTyped DEF Truthful
<1>8. \A j \in Landed : j \in DOMAIN swaps /\ swaps'[j].quote = swaps[j].quote
  BY <1>3 DEF Landed
<1>9. Holds'
  <2>1. Landed \subseteq Landed'
    BY <1>5
  <2> QED
    BY <1>3, <1>6, <2>1 DEF Truthful, Holds
<1>10. Entered'
  BY <1>5, <1>6, <1>8, EnteredKept DEF Truthful
<1>11. CASE Miss(i)
  <2>1. fate # "landed"
    <3>1. PICK miss \in {"failed", "dropped"} : swaps' = [swaps EXCEPT ![i].fate = miss]
      BY <1>11 DEF Miss
    <3>2. swaps'[i].fate = miss
      BY <1>2, <3>1 DEF Sent
    <3> QED
      BY <1>3, <3>2
  <2>2. Placed'
    BY <1>5, <1>8, <1>11, <2>1, PlacedKept DEF Miss, Truthful
  <2> QED
    BY <1>7, <1>9, <1>10, <2>2 DEF Truthful
<1>12. CASE Land(i)
  <2>1. Landed' = Landed \union {i}
    <3>1. swaps'[i].fate = "landed"
      BY <1>2, <1>12 DEF Land, Sent
    <3> QED
      BY <1>3, <1>5, <3>1
  <2> DEFINE last == Len(ledger) + 1
  <2>2. /\ DOMAIN ledger' = DOMAIN ledger \union {last}
        /\ last \notin DOMAIN ledger
        /\ ledger'[last] = swaps[i].quote
        /\ \A j \in DOMAIN ledger : ledger'[j] = ledger[j]
    <3>1. ledger' = Append(ledger, swaps[i].quote) /\ swaps[i].quote \in Quotes
      BY <1>2, <1>12 DEF Land, Sent
    <3> QED
      BY <1>2, <3>1
  <2> HIDE DEF last
  <2>3. PICK f \in Injection(Landed, DOMAIN ledger) :
          \A j \in Landed : ledger[f[j]] = swaps[j].quote
    BY DEF Truthful, Placed
  <2> DEFINE g == [j \in Landed' |-> IF j = i THEN last ELSE f[j]]
  <2>4. \A j \in Landed : f[j] \in DOMAIN ledger
    BY <2>3 DEF Injection
  <2>5. \A j, k \in Landed : f[j] = f[k] => j = k
    BY <2>3 DEF Injection, IsInjective
  <2>6. g \in Injection(Landed', DOMAIN ledger')
    BY <1>4, <2>1, <2>2, <2>4, <2>5 DEF Injection, IsInjective
  <2>7. \A j \in Landed' : ledger'[g[j]] = swaps'[j].quote
    BY <1>3, <1>4, <1>8, <2>1, <2>2, <2>3, <2>4
  <2>8. Placed'
    <3> HIDE DEF g
    <3> QED
      BY <2>6, <2>7 DEF Placed
  <2> QED
    BY <1>7, <1>9, <1>10, <2>8 DEF Truthful
<1> QED
  BY <1>11, <1>12 DEF Settle

LEMMA NextTruthful == Truthful /\ [Next]_vars => Truthful'
<1> SUFFICES ASSUME Truthful, [Next]_vars PROVE Truthful'
  OBVIOUS
<1>0. Typed'
  BY NextTyped DEF Truthful
<1>1. ASSUME UNCHANGED <<pc, route, txid, swaps, ledger, trades>>
      PROVE  Truthful'
  <2>1. Landed' = Landed
    BY <1>1 DEF Landed
  <2>2. Holds'
    BY <1>1, <2>1 DEF Truthful, Holds
  <2>3. Placed' /\ Entered'
    BY <1>1, <2>1, PlacedKept, EnteredKept DEF Truthful
  <2> QED
    BY <1>0, <2>2, <2>3 DEF Truthful
<1>2. ASSUME NEW low \in BOOLEAN, InitBot(low) PROVE Truthful'
  BY <1>1, <1>2 DEF InitBot
<1>3. ASSUME NEW t \in Tasks, Tick(t) PROVE Truthful'
  <2>1. pc[t] = "idle" /\ pc' = [pc EXCEPT ![t] = "quoting"]
    BY <1>3 DEF Tick, Goto
  <2>2. pc[t] \notin Holding /\ pc'[t] \notin Holding
    BY <2>1 DEF Holding, Truthful, Typed
  <2>3. \A u \in Tasks : u # t => pc'[u] = pc[u] /\ route'[u] = route[u]
    BY <1>3, <2>1 DEF Tick, Truthful, Typed
  <2> QED
    BY <1>0, <1>3, <2>2, <2>3, NoHoldingTruthful DEF Tick
<1>4. CASE Exit
  <2>1. /\ \A t \in Tasks : pc'[t] \notin Holding /\ txid'[t] = 0
        /\ UNCHANGED <<swaps, ledger, trades>>
    BY <1>4 DEF Exit, Holding
  <2>2. Landed' = Landed /\ 0 \notin Landed
    BY <2>1 DEF Landed, Truthful, Typed
  <2>3. Holds'
    BY <2>1 DEF Holds
  <2>4. Placed' /\ Entered'
    BY <2>1, <2>2, PlacedKept, EnteredKept DEF Truthful
  <2> QED
    BY <1>0, <2>3, <2>4 DEF Truthful
<1>5. CASE Restart
  BY <1>1, <1>5 DEF Restart
<1>6. CASE UNCHANGED vars
  BY <1>1, <1>6 DEF vars
<1> QED
  BY <1>2, <1>3, <1>4, <1>5, <1>6, AdvanceTruthful, SettleTruthful
     DEF Next, Terminated, Crash

LEMMA TruthfulLog == Truthful => LogIsTruthful
<1> SUFFICES ASSUME Truthful, NEW k \in DOMAIN trades.entries
             PROVE  Count(trades.entries, trades.entries[k]) <= Count(ledger, trades.entries[k])
  BY DEF LogIsTruthful
<1> DEFINE q == trades.entries[k]
           listed == {i \in DOMAIN trades.entries : trades.entries[i] = q}
           executed == {i \in DOMAIN ledger : ledger[i] = q}
<1>1. PICK f \in Injection(DOMAIN trades.entries, Landed) :
        \A i \in DOMAIN trades.entries : swaps[f[i]].quote = trades.entries[i]
  BY DEF Truthful, Entered
<1>2. PICK g \in Injection(Landed, DOMAIN ledger) :
        \A i \in Landed : ledger[g[i]] = swaps[i].quote
  BY DEF Truthful, Placed
<1> DEFINE h == [i \in listed |-> g[f[i]]]
<1>3. /\ \A i \in DOMAIN trades.entries : f[i] \in Landed
      /\ \A i, j \in DOMAIN trades.entries : f[i] = f[j] => i = j
  BY <1>1 DEF Injection, IsInjective
<1>4. /\ \A i \in Landed : g[i] \in DOMAIN ledger
      /\ \A i, j \in Landed : g[i] = g[j] => i = j
  BY <1>2 DEF Injection, IsInjective
<1>5. \A i \in listed : g[f[i]] \in executed
  BY <1>1, <1>2, <1>3, <1>4
<1>6. \A i, j \in listed : g[f[i]] = g[f[j]] => i = j
  BY <1>3, <1>4
<1>7. h \in Injection(listed, executed)
  <2> HIDE DEF listed, executed
  <2> QED
    BY <1>5, <1>6 DEF Injection, IsInjective
<1>8. IsFiniteSet(executed)
  <2>1. IsFiniteSet(DOMAIN ledger)
    <3>1. DOMAIN ledger = 1..Len(ledger) /\ Len(ledger) \in Nat
      BY DEF Truthful, Typed
    <3> QED
      BY <3>1, FS_Interval
  <2> QED
    BY <2>1, FS_Subset
<1>9. Cardinality(listed) <= Cardinality(executed)
  <2> HIDE DEF listed, executed, h
  <2> QED
    BY <1>7, <1>8, FS_Injection
<1> QED
  BY <1>9 DEF Count

\* Whatever overlaps, fails or crashes, no entry of trades.json is without an
\* executed swap of its own.
THEOREM LogAlwaysTruthful == Spec => []LogIsTruthful
BY InitTruthful, NextTruthful, TruthfulLog, PTL DEF Spec
=============================================================================
