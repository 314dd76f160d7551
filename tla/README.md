# Solana-Future-Option-Market: TLA+ models and proofs

Line numbers below refer to the repository at the commit under `src/`;
`lib.rs` and `pda.rs` are those of `programs/future-option-market/src`.

## 1. The system

| Part | State it keeps | Operations | What makes it correct |
|---|---|---|---|
| Option market (`lib.rs`, `pda.rs`, `events.rs`) | the accounts Config, OptContract (7 options each), UserPayment, Vault, the vault's token account, SimpleAcct | `init_config`, `time_travel`, `new_option`, `init_user_payment`, `init_vault`, `init_vault_ata`, `buy_option`, `sell_option`, `withdraw_token`, `init_simple_acct` | tokens and recorded payments agree to the unit, a trade is a fair exchange, terms never change under a position, every position can be closed |
| Flash loan (`lib.rs` 298-476) | the lender's token accounts | `flashloan_borrow`, `repay`, which inspect the transaction they are part of | a transaction that starts with a borrow and commits has paid it back with the fee; nothing leaves the lender short of more than was lent |
| Price read (`pyth_oracle`), `transfer_lamports` | none | none that changes state | - |
| Arbitrage bot (`backend/jupiter.ts`) | the next trade, the confirmation flag, the timer, `trades.json` | timer callback, quote, swap, confirmation, bookkeeping, termination | each trade sells what the one before was quoted to bring, at the target gain; what the swaps deliver grows by it, short of the slippage; the bot never stops watching by accident; the log tells the truth |
| NFT script (`backend/nft.ts`) | the mint, its metadata and its holder, on the chain | seven dependent transactions, a polling loop, a catch | what is left behind at any failure is a prefix of the plan; a closed mint has exactly one token |
| Raydium script (`backend/raydium.ts`, `raydium-swap.ts`, `raydium-config.ts`) | none between runs | find a pool, build a swap, send or simulate it, confirm it | SOL is sold for BONK within the limits whichever way round the pool is; what the user is told is true |
| Token commands (`index.ts` g12, g13, g14 and `backend/gill.ts`) | mints and token accounts, on the chain | make a mint, mint tokens, send tokens | no mint is lost; what the terminals say of the commands bounds what there is of every token |
| Command line host (`index.ts`) | none | one command per run, then `process.exit()` | the command gets done |
| Client helpers, decoders, tests, stubs | test fixtures | - | - |

Interactions. All on-chain state is shared: signers submit transactions in any
order, each transaction is atomic, and the token program moves tokens for the
program and, without it, between any accounts whose owners sign. The scripts,
the commands and the bot talk to an RPC node by requests that may be slow, fail,
or fail after they took effect; the chain executes what it was sent in its own
time, or never. The host starts all of them and ends the process.

What is hard. On chain: order (ten instructions by several signers), integer
widths, a recorded payment written before a transfer that may fail, and
transactions that look at their own instructions. Off chain: callbacks that
overlap at awaits, values read before an await and used after it, transactions
whose fate is unknown when the program decides, commands that the user repeats
or starts twice, and a process that may end at any time. `PROJECT.json` lists
each hazard at its line, with the properties that cover it or the reason why
none does.

## 2. Modules

```
UnitSums ──┬── OptionMarket ──┬── MCOptionMarket          (TLC)
           │        │         └── OptionMarketProofs      (TLAPS)
           │     Escrow (abstract)        │
           └── UnitSumsProofs ────────────┘
FlashLoan ──┬── MCFlashLoan                               (TLC)
            └── FlashLoanProofs                           (TLAPS)
Trader (abstract) ── ArbBot ──┬── ArbHost ── MCArbBot      (TLC)
                              └── ArbBotProofs ── SerialBotProofs   (TLAPS)
NftLife (abstract) ── NftMint ── NftMintProofs            (TLC, TLAPS)
LimitOrder (abstract) ── RaydiumSwap ── RaydiumSwapProofs (TLC, TLAPS)
TokenCli ── TokenCliProofs                                (TLC, TLAPS)
```

### OptionMarket

One variable per account kind, plus the clock, the signers' token accounts and
two counters that no account holds (`withdrawn`, the sum of the emitted
`WithdrawTokenEvent`s, and `donated`). One action per instruction *that
succeeds*: an instruction that fails changes nothing on Solana, so every
`require!`, `ok_or_else`, account constraint, array bound and failing token
transfer is a conjunct. `TradeAccounts` and `TokenConstraints` are the
`#[derive(Accounts)]` constraints that several contexts share.

Three details are modelled because they decide what the program does:

- `WriteBack`: Anchor serialises an account back only when its context says
  `mut`. The contexts InitVault and InitVaultAta do not, so the assignments at
  `lib.rs` 127 and 132 have no effect. `new_option` also takes the config as
  not `mut`, but only reads it.
- An account that does not exist reads as zeroes. `init_config` leaves `mint`
  and `token_program` zero (lines 67-69 are commented out), so on a fresh
  deployment every context with a token constraint refuses. `Init` therefore
  has two kinds of start: no config, and (`EarlierConfigs`) a config left by an
  earlier build whose `init_config` did store the mint. The test still passes
  the mint to it (`tests/test-main.ts` 107-123), and the layout of the account
  is the same. Without the second kind no trade could ever happen, and every
  property of trades would hold for want of trades.
- `time` keeps the low 32 bits of the clock.

Not in the model: rent and lamports, Pubkey derivation (an address is its
seeds), the error code an instruction fails with, more than one mint.

`Escrow` is what the market promises about tokens, in four actions: take,
refund, release, fund. `EscrowView` in OptionMarket is the refinement mapping.

`UnitSums` defines a sum as the number of coins it counts. That is not how one
would compute it, but it needs no recursion, so TLAPS can reason about it.

### FlashLoan

A transaction is a sequence of instructions, chosen when it starts and known
to all of them through the instructions sysvar. They run one by one on working
balances; `Commit` keeps these and `Abort` drops them. An instruction is what
the program can read of it: program id, discriminator, accounts 1 and 2, bytes
8..16 of the data. `repay` takes the amount from instruction 0 whatever that
is, as the code does (comment at line 313).

An instruction of another program may call this one while it runs (`Invoke`),
as often as it likes, and the token program with the signature of a user. The
sysvar does not show such calls: `load_current_index_checked` (line 396) is the
index of the transaction's own instruction, so `FirstIndex` holds of a borrow
that instruction 0 *is* and of one that instruction 0 *calls*. `lent` is what
`flashloan_borrow` has lent in the running transaction, by either way; the
property `LoanBounded` is about all of it. `OtherCall` is such an instruction's
end: with a last transfer of its own, to any account, or without. The model has
one mint.

### ArbBot, ArbHost, Trader

A task is one timer callback in progress; an action is what it does between
two awaits. `pc` names the await it is at:

| `pc` | code |
|---|---|
| quoting | await of `getQuote`, line 197 |
| building | the requests of `executeSwap` up to `sendRawTransaction`, 245-295 |
| confirming | the polling loop of `confirmTransaction`, 326-359 |
| refreshing | await of `refreshBalances`, 408 |
| checking log, logging | the awaits of `logSwap`, 443 and 448 |

`swaps` and `ledger` are the chain: what was sent with its fate, and what was
executed, in order. `Faults` says what may go wrong: a quote slower than the
check interval, an RPC error or the 30 s limit before a transaction's fate is
known ("lost answer"), a failed write of the log ("disk"; a failed append is
thrown in a callback where nothing catches it, line 450, and ends the process),
and a process that is killed and followed by another ("restart"). `Restart`
keeps what outlives a process, the chain and `trades.json`, and starts from the
trade of `index.ts` 204-207 whatever the chain has reached. A failed request,
an expired blockhash, an on-chain error and a low balance are always possible.

`ledger` holds the quotes of the executed swaps, which are what the bot
remembers, and `received` what each has delivered, which it never reads: any
amount within the slippage of the quote (`Land`). The gain and the slippage are
counted in parts of `Whole`. The runs have `Whole` at 10000, a gain of 5000 and
a slippage of 2500; the 1.5 % of `index.ts` 205 would be 150. A threshold is
kept times `Whole`, so that it is exact (`GoodQuote` compares in that unit).
`lastCheck` can only make the callback skip a turn and is left out. The append
of `logSwap` is atomic with the step that issues it.

`Trader` is the promise: a history of trades, each selling what the one before
was quoted to bring, on a quote for more than that one had sold by the target
gain, and each delivering no less than its quote short of the slippage.
`ArbHost` is the command `bot1` of `index.ts`.

### NftMint, NftLife

`Plan` is the order of the transactions in `mintNft` (lines 143-311): the
airdrop, the mint with its metadata, the token account, the token, the removal
of the field `WrongData`, the removal of the mint authority, the points. The
script is always in one of two places, before a transaction is sent and at the
await of its confirmation; `ReadPoints` is the read that `incrementPoints` does
before it builds its transaction. `Needs` and `Effect` say what the token
programs insist on and do. One of the needs is about rent:
`createTokenAndMint` pays for the metadata at its first size, so that the
removal of one field has to make room for what the points add (`Size`).

An error does not say what became of the transaction, so `RpcError` and `Kill`
(`index.ts` 215 does not await `mintNft`, and 249 ends the process) may happen
at any time and leave the transaction under way. A block that is processed may
be abandoned, one that is confirmed stays: `chain` is the confirmed state, and
a transaction can only be processed if what it needs is confirmed, which is
where the script stands when it sends it.

`NftLife` is what an observer should see: an NFT that appears whole, loses the
surplus field, is closed, and then gets its points. The refinement mapping
hides a mint without supply, because nobody can hold it yet.

### RaydiumSwap, LimitOrder

One run of `radiumSwap` in each configuration (`world`): sent or simulated, a
versioned or a legacy transaction, any set of pools in the file and on the
chain. `place` is the await it is at. Two details carry the properties:

- The orientation of a pool. The file is searched in both orientations, the
  chain in one; `getSwapSide` and `FromToken` decide which side the amount is
  on, and the pool program fixes the amount of that side and lets the other
  follow from the price there is by then, within the slippage.
- The blockhash. A versioned transaction is signed with the one fetched at
  `raydium-swap.ts` 307, a legacy one with a *final* blockhash that web3.js
  fetches when it is sent, `Finality` blocks behind. Both are confirmed against
  a third one: the versioned transaction against the one fetched at
  `raydium.ts` 117, the legacy one against the one fetched at
  `raydium-swap.ts` 353. `tx.until` and `until` are the two heights.

`LimitOrder` is the promise: one order with a limit and a floor, placed at most
once, filled at most once, lapsed for good when its time is up, and words to the
user that are true of it. The refinement mapping (`OrderView`) takes the height
at which the transaction's own blockhash expires for the order's time.

The wrapped-SOL instructions (`raydium-swap.ts` 426-460) are built and dropped
by the code; the model leaves them out. The command that calls the script is
commented out (`index.ts` 17-21, 142-188) and one import of the script does not
resolve, so it cannot run at this commit; it is modelled because it is a
finished program with its own rules for money.

### TokenCli

The commands g12, g13 and g14. Every run of `index.ts` is a process of its own,
in which the command builds one transaction, sends it, awaits it and exits.
The model has several of them: the user starts one when another has failed or
before it has ended, and gives it a mint whose address has been printed. A run
that ends with an error leaves its transaction as it is, and the user cannot
tell whether to repeat the command.

A transaction (`Tx`) is its command, its mint and the blockhash the run fetched
first (`gill.ts` 42, 100, 154): nothing else in it varies. Two runs of g13, or
of g14, that fetch the same blockhash therefore sign the same bytes. `fate`
belongs to the transaction and not to the run: it is executed once, and both
runs may return. What the chain does is external: `NewBlockhash`, and the token
program that creates, mints and transfers, within u64. That all transactions
with one blockhash expire together is not modelled: each is dropped by itself,
which allows more behaviours.

## 3. Runs

| Run | Question | Bounds | Distinct states |
|---|---|---|---|
| market | do the accounts, the tokens and the payments stay consistent under all instructions, can every holder still get out, and is the program an escrow? | 2 signers, 1 contract with 2 options, 4 tokens each, u64 up to 5, 2 shares per contract, clock 0..1, an id that is too long | 72 k |
| flash_loan | can a transaction, with or without calls from another program, leave the lender short of more than it has lent, or without the fee? | transactions of at most 3 instructions, 2 lender and 2 user accounts, u64 up to 7, fee 50 %; calls that borrow 2 (at most 4 in a transaction), repay, transfer | 322 k |
| serial_bot | do the callbacks exclude each other, is the bot a serial trader whose returns grow, and does its log follow the chain? | 2 tasks, 4 swaps, 2 amounts a swap may deliver, no faults; fairness | 70 k |
| faulty_bot | what survives every fault: the flag, the truth of the log, the watch on the price? | 2 tasks, 2 swaps, all faults, any number of restarts; fairness | 129 k |
| nft | what can the minting script leave behind? | all seven transactions, 2 polls, 10 points (the argument in `mintNft`); fairness | 7.8 k |
| raydium | does the script sell SOL for BONK within its limits, tell the truth about it, and place one limit order at most? | all 4 configurations, any subset of 3 pools in the file and on the chain, 2 prices, blockhashes of 2 blocks; fairness | 175 k |
| token_cli | what do the terminals tell of every token, and is a mint ever lost? | 4 runs, 2 blockhashes, 1 mint, u64 up to 9; fairness | 535 k |

Why these bounds are enough to be interesting. The u64 limits are small, so
that the overflow of the sum, of the first and of the second multiplication,
an empty wallet, an empty vault and an exact match all happen within a few
trades; `MCListings` has one listing for each reason of `new_option` to refuse
and two good ones at different prices; expiry times lie on both sides of the
clock. In `flash_loan` the set of instructions has a bad one for every test
of the code, a loan of 1 whose fee rounds to zero and one of 3 whose fee does
not, and three instructions leave room for one between borrow and repay, or for
two calls of `flashloan_borrow` by the first.
In `serial_bot` the quoted amounts give each trade a quote that is refused and
one that is accepted, so that the direction turns round three times, and a swap
delivers more or less than its quote.
In `faulty_bot` a swap of one process may land after the next has started, with
the log of the first still there. Ten points have more digits than the zero
they replace, so the rent is at stake in `nft`. In `raydium` a final blockhash
is one block old, so that a legacy transaction expires before the height it is
confirmed against, and the third pool is one that does not fit. In `token_cli`
two runs of g13 fill the u64 and the third does not fit, unless two of them are
one transaction; a g14 may come before the g13 it needs, or twice; four runs
leave room for a mint, a command, its repetition and another.

Bounds in guards: `MaxTime` and `MaxDonated` (the environment of the market),
`MaxSwaps` (a task at the bound can only fail to build its transaction),
`MaxPolls` (the 30 s of the airdrop, counted in polls), `MaxDelay` (no block is
made beyond it except while the script waits for an expiry), `MaxLent` (what
calls borrow in one transaction), `MaxHash` (the blockhashes of the commands)
and the sets `Runs` and `MintIds`. The market's runs use symmetry of the signers, whose
starting wallets are equal and whose initial configs include both; no liveness
is checked there. Deadlock is not checked for the bot, the scripts and the
commands, which end; everywhere else it is.

**Fairness.** What is assumed is that an event loop runs what is ready, that a
request is answered or fails, and that a blockhash expires.

- `ArbBot!Fairness`: the timer fires, every await ends, polling ends after 30 s,
  every transaction gets a fate, the exit timeout fires. Restarts and crashes
  are not fair: they need not happen.
- `NftMint!Fairness`: the script goes on, and a transaction is confirmed or
  expires. Failures and the kill are not fair.
- `RaydiumSwap!FairSpec`: the script goes on and blocks are made. A transaction
  need not be executed: that is what the expiry is for.
- `TokenCli!FairSpec`: each process goes on, each transaction is settled.

Nothing is assumed of good quotes, successful requests or landing transactions:
no step of that kind is fair by itself, only a disjunction that its failure
satisfies as well.

`serial_bot` assumes that a quote is answered within the check interval (10 s
by default), that no answer is lost and that there is one process. The
violation runs show what the first two are for; a restart forgets the position
(`index.ts` 204-207), so that `NextTradeFollows` cannot be asked of two
processes.

### Where the program differs from what the repository says

| Run | Said | Done |
|---|---|---|
| bought_before_end | `README.md` 9, "before the endTime" | `buy_option` does not look at the clock; nor does `sell_option` (`lib.rs` 218), which `README.md` 11 has users call "before the expiry date" |
| overlapping_quotes | `jupiter.ts` 194, "Waiting for previous transaction to confirm..." | the flag is read before the await of the quote only |
| late_landing | `jupiter.ts` 49, the next trade only after the gain | a trade given up may land, and was repeated |
| priority_fee | `raydium-config.ts` 85, "Ensure the fee is not less than ... (minimum fee)" | `raydium-swap.ts` 303 hands the fee of the transaction over as the price of a unit: 300 lamports are paid where the minimum is 1000 |
| host_exits | `jupiter.ts` 50, "to check price" | `index.ts` 249 ends the process at once |

Five more have no violation run of their own:

- `tests/test-main.ts` 223 expects "init Vault ATA" to pass. The mint of a new
  config is never set, and the constraint at `lib.rs` 624 then refuses every
  mint: `UnsetMintClosesMarket` states what follows, and is proved.
- `lib.rs` 127 and 132 assign `config.vault` and `config.vault_ata`. The
  contexts are not `mut`, the assignments are dropped: `TermsFrozen` includes
  that the config never changes.
- `README.md` 13 says "Admin withdraws the unclaimed rewards". `withdraw_token`
  compares its signer with nothing (the TODO at `lib.rs` 184), and `WithdrawToken`
  takes any signer.
- `README.md` 11 says "User can sell their contract before the expiry date".
  `NobodyTrapped` shows that this fails for one reason only: withdrawals of more
  than the others have paid. Nothing is claimed of sells after the expiry, which
  the program accepts as it accepts buys.
- `lib.rs` 313 says "if we loaned the money we know that it's going to be the
  first instruction and that the amount_borrowed will be there". Of a loan that
  a program takes by a call from instruction 0 that is not so: what `repay` reads
  is that instruction's own data. `LenderNeverLoses` names this one case as its
  exception (`Misread`), `FeePaid` is about transactions whose first instruction
  is the borrow, and `LoanBounded` says what holds in every case.

## 4. Proofs

The theorems hold for all values of the constants that satisfy the named
assumptions (`KeyAssumption`, `BoundAssumption`, `InputAssumption`,
`LoanAssumption`, `BotAssumption`, and for the three scripts `NftAssumption`,
`SwapAssumption` and `CliAssumption`; signers and option ids are finite sets,
because sums over them are taken): any number of signers, contracts and
options, any prices, the real integer widths.

**OptionMarketProofs.** `TypeCorrect` is inductive as it stands: the guard of
`Record` keeps payments in u64 and those of the transfers keep balances from
going below zero. `Refinement` shows that every action is one of Escrow's or
invisible to it. `ReconciledAlways` is proved from the escrow alone: a step of
the market is a step of the escrow, and each of those keeps the equation; the
sum changes by what one term changes (`TotalRaise`, used in both directions,
in UnitSumsProofs). `AccountGraphAlways` is proved of the dependencies between
accounts; `UnsetMintStaysClosed` needs it, because a mint that is unset now was
unset when anything that needs it could have happened. `FullExitAlways` needs
more than itself: contracts' prices do not change while positions are open, so
listed terms stay (`InitOnly`) and nothing is recorded at an unlisted one,
which is part of AccountGraph; then the sum of two premiums at one price is a
premium of the sum of the amounts, and fits u64 because the recorded payment
does. `NobodyIsTrapped` puts these together: where something is recorded, the
accounts that `sell_option` names exist (AccountGraph) and the config has the
mint that the vault's account was made for (`MintStands`, an invariant of its
own), one amount closes the position (FullExit), and the vault holds it
(`VaultCovers`: by Reconciled the vault has the sum of all payments, a holder's
and the others', `TotalSplit`, and what was sent to it unasked, less what was
withdrawn). `TermsStayFrozen` and `TradesConserve` are about steps.

**FlashLoanProofs.** `LoanBounded` is not inductive by itself: a borrow at
index 0, or a call of it, must already know that the last instruction repays to
the same account and that nobody else takes from a lender. `Backed` says so of
every account that has lent, `LoanValid` of the running transaction, and with
`LoanBounded` they are inductive, whatever calls are made: each adds to `lent`
what it takes. At the commit the last instruction has returned what the first
one's data stands for (`Returned`). If that instruction is the borrow, nothing
else can have been lent in the transaction, because a borrow looks for index 0:
`FeeAlwaysPaid` follows, and so does `LenderSafe`, whose exception is a first
instruction that is none.

**ArbBotProofs.** For any number of tasks and any faults, restarts included.
`FlagAlwaysTracksSwap`: `FlagInv` adds that a process that has exited has only
idle tasks, because the flag survives the exit and a task left over would bring
the process back. `TypeCorrect`: `Typed` has the sequences as sequences, and
that a task in `executeSwap` works with an amount that some quote promised, so
that the flipped trade is one. `LogAlwaysTruthful` is a count, and is proved
without counting: each entry belongs to a landed transaction of its own
(`Entered`), each landed transaction to a place of its own in the ledger
(`Placed`), and no two tasks hold the same transaction nor one that is in an
entry (`Holds`). Overlapping callbacks write the log over, which only loses
entries; a restart makes the tasks let go of theirs.

**SerialBotProofs.** For any number of tasks, any amounts and any gain, each
theorem under the faults it survives, which are hypotheses of the theorem
(gain and slippage are parts of `Whole`, which is any positive number, and each
swap may deliver any amount within the slippage of its quote):

- `Timely`, a quote never outlasts the check interval: `TasksExclude`. One task
  at most is past its tick (`Alone`), whatever answers are lost and however
  often the process is killed and replaced.
- `InOrder`, nothing fails but writes of the log: `SerialSwaps`,
  `NextAlwaysFollows`, `Refinement`, `ReturnsAlwaysGrow` and `GainAlwaysMade`,
  the property that the run `late_landing` violates.
- No fault: `LogFollows`.

`Serial` adds to `Alone` that the task works with the offer the bot has
(`Works`), and that only the latest transaction can be pending and is what the
trader would do next (`Pending`). What the bot and the file know lags behind
the ledger by the swap of that task while it confirms, refreshes and logs
(`Knows`, `Logged`). The process may exit in the middle, on a low balance: a
transaction may then be left pending or a swap unlogged, never both. A
transaction that lands is one of Trader's steps and nothing else changes the
ledger, which is `Refinement`; along such a chain the amount sold of a token
grows by the gain from each sale to the next, and what a swap delivers is short
of the next sale by its own slippage only (`ReturnsAlwaysGrow`). The run `serial_bot`
has no faults, the smallest case of all three hypotheses; the runs
`overlapping_quotes` and `late_landing` show what the first two are for.

**NftMintProofs.** For any number of points from 1 to 99 and any number of
polls. What is on the chain follows from which transactions have settled
(`OnChain`), and those are the ones before the script's step, with or without
the one it is at (`Order`, `Position`). The conjunction is inductive, because a
transaction that is under way when the script stops is the one it stopped at.
`NothingRefused` is then arithmetic on the sizes of the metadata;
`SupplyIsFixed` and `DoneAsAnnounced` read the chain off the order; `Refinement`
has one lemma per transaction that settles.

**RaydiumSwapProofs.** For any amounts, quotes, fees, lifetimes and lags of a
blockhash. `Hashes` says that a transaction that is being confirmed expires no
later than the height it is confirmed against. That is why an expiry is final
(`ExpiryAlwaysFinal`), and it holds for two reasons: a versioned transaction
carries a blockhash fetched before the one that is waited for, a legacy one a
final one, which is older. `Where`
has what is known at each await, among it that the transaction sells SOL for
BONK; `Sides` derives that from the orientation of the pool. `Refinement`
needs two things more: that the wallet is untouched until the order is filled
(`Once`), so that what is sold is within what the user had, and that the price
floor is the one of the transaction that was sent (`Inv`). The order lapses by
a step of the chain alone (`BlockLapses`), and what is told of it is true then
(`ConfirmTells`).

**TokenCliProofs.** For any number of runs, blockhashes, mints and holders, any
amounts and any u64. `Explained` says what every holder has of every mint in
terms of the *transactions* that were executed, counted by their blockhashes
(`Times`): an execution adds one to one count (`NextCount`, by cardinalities)
and no other step changes any. That no balance exceeds the supply, and with it
the type invariant, follows (`Bounded`). `TokensAlwaysReported` then compares
counts of transactions with counts of what the runs have printed (`Told`): a
returned run's transaction is executed (`Stages`), and an executed one is that
of some run that may have sent it (`Senders`); runs of one blockhash count once
on either side.

`PROJECT.json` lists the theorems with the property each one states.

**Only model-checked**: liveness everywhere (`KeepsWatching`, `LandedIsLogged`,
`Ends`: beyond TLAPS, which has neither fairness nor ENABLED), and the
violations: every invariant and every safety property of the passing runs has a
theorem. `SuccessIsReal` is a theorem that no run checks by itself, because
`ImplementsLimitOrder` contains it;
`OneSwapAtATime` is proved of the serial bot and checked by the run that
violates it. No recursive operator is used anywhere, and no theorem rests on an
induction over data.

## 5. Not modelled

- `pyth_oracle` and `transfer_lamports` change nothing; the `pyth`, g11, g15
  and 0 commands print, a10 does nothing, and g10 writes a key pair to a fixed
  path that nothing reads.
- `env.ts` reads two variables; `migrations/deploy.ts` is an empty hook.
- `tests/`: scaffolding and decoders, read for what they expect.
- The quote that `jupiter.ts` 33-42 asks for when it is loaded, and the
  wrapped-SOL instructions of `raydium-swap.ts` 426-460, have no effect.
- Four curiosities are in the models without a property, because nothing says
  what should happen: the price watch that starts after `terminateSession`
  (`jupiter.ts` 165), "Simulation successful" printed of a simulation with an
  error (`raydium.ts` 169), the one orientation in which a pool is looked for
  on the chain (`raydium-swap.ts` 137), and `address()` throwing for a missing
  variable before the command is looked at (`index.ts` 41), which the model of
  the commands avoids by starting with the variables set.

## 6. Plan

1. Done: every component that changes state has a module, runs and theorems.
2. Done: every safety property of a passing run is proved, and the market,
   the bot, the NFT script and the Raydium script each implement an abstract
   specification.
3. Then, if worth it: the bot's progress under quotes slower than the interval,
   with a bound on how many of its callbacks overlap.
