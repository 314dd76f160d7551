----------------------------- MODULE FlashLoan ------------------------------
(***************************************************************************)
(* The flash loan of programs/future-option-market: flashloan_borrow and   *)
(* repay, run as instructions of a transaction that both of them inspect   *)
(* through the instructions sysvar.  A transaction is a sequence of        *)
(* instructions known when it starts; they run one after the other on      *)
(* working balances that are committed when the last one succeeds and      *)
(* dropped when one fails.  An instruction of another program may call     *)
(* this one while it runs; the sysvar shows the transaction's own          *)
(* instructions only, not such calls.                                      *)
(***************************************************************************)
EXTENDS Integers, Sequences

CONSTANTS
  LenderAtas,       \* token accounts of the mint that lender_pda owns
  UserAtas,         \* token accounts of the mint that signing users own
  U64_MAX,          \* 2^64 - 1
  FEE, FEE_BASE,    \* 500 and 10_000: the fee in basis points
  ID, OtherProgram, \* this program, and any other one
  Short,            \* instruction data that ends before its byte 16
  InitialBalances,  \* what the token accounts hold at first
  Transactions,     \* the transactions users submit
  Invocations,      \* the calls that other programs' instructions may make
  MaxLent           \* bound on what such calls borrow in a transaction

VARIABLES
  tx,               \* the running transaction, <<>> when there is none
  current_index,    \* the instructions of tx that have run
  committed,        \* balances before tx
  balance,          \* balances as the running transaction sees them
  lent              \* what flashloan_borrow has lent in the running transaction

vars == <<tx, current_index, committed, balance, lent>>

Accounts == LenderAtas \union UserAtas
U64 == 0..U64_MAX

\* What the program can read of an instruction: the program it calls, the
\* discriminator, accounts 1 and 2, and bytes 8..16 of its data as a u64.
Instructions ==
  [program_id: {ID, OtherProgram}, disc: {"borrow", "repay", "transfer"},
   lender_ata: Accounts, user_ata: Accounts, word: U64 \union {Short}]

ASSUME LoanAssumption ==
  /\ LenderAtas \intersect UserAtas = {}
  /\ U64_MAX \in Nat
  /\ FEE \in Nat /\ FEE_BASE \in Nat \ {0} /\ FEE <= FEE_BASE
  /\ ID # OtherProgram
  /\ Short \notin Nat
  /\ InitialBalances \in [Accounts -> Nat]
  /\ Transactions \subseteq Seq(Instructions) \ {<<>>}
  /\ Invocations \subseteq Instructions
  /\ MaxLent \in Nat
-----------------------------------------------------------------------------
Running == tx # <<>>

\* The instruction that runs next.
Current == tx[current_index + 1]

Runs(program, disc) ==
  /\ Running
  /\ current_index < Len(tx)
  /\ Current.program_id = program
  /\ Current.disc = disc

\* The fee of a loan: the product is a u128, the quotient is cast to u64.
Fee(borrowed_amt) == ((borrowed_amt * FEE) \div FEE_BASE) % (U64_MAX + 1)

\* The account constraints of the context Flashloan: lender_ata belongs to
\* lender_pda and user_ata to the user who signs.
FlashloanAccounts(ix) ==
  /\ ix.lender_ata \in LenderAtas
  /\ ix.user_ata \in UserAtas

\* The SPL token program's transfer_checked between two accounts of the mint.
TransferUnchecked(from, to, amount) ==
  balance' = [balance EXCEPT ![from] = @ - amount, ![to] = @ + amount]
Transfer(from, to, amount) ==
  /\ amount <= balance[from]
  /\ balance' = [balance EXCEPT ![from] = @ - amount, ![to] = @ + amount]

\* flashloan_borrow's look at the last instruction of the transaction.
LastRepaysAnyLender(ix, last) ==
  /\ last.program_id = ID
  /\ last.disc = "repay"
  /\ last.user_ata = ix.user_ata
LastRepays(ix, last) ==
  /\ last.program_id = ID
  /\ last.disc = "repay"
  /\ last.user_ata = ix.user_ata
  /\ last.lender_ata = ix.lender_ata

\* flashloan_borrow's look at its own place in the transaction: the index is
\* that of the instruction that runs, whether it is the borrow itself or one
\* of another program that calls flashloan_borrow.
AnyIndex == TRUE
FirstIndex == current_index = 0

\* What repay takes for the loan in the first instruction's data.
RepayPrincipal(borrowed_amt) == borrowed_amt
RepayAmount(borrowed_amt) == borrowed_amt + Fee(borrowed_amt)
-----------------------------------------------------------------------------
NothingLent == [l \in LenderAtas |-> 0]

Init ==
  /\ tx = <<>>
  /\ current_index = 0
  /\ committed = InitialBalances
  /\ balance = InitialBalances
  /\ lent = NothingLent

Submit(t) ==
  /\ ~Running
  /\ tx' = t
  /\ UNCHANGED <<current_index, committed, balance, lent>>

\* What flashloan_borrow does for the accounts and the data of ix.
Borrow(ix) ==
  /\ FlashloanAccounts(ix)
  /\ ix.word \in U64 \ {0}
  /\ FirstIndex
  /\ LastRepays(ix, tx[Len(tx)])
  /\ Transfer(ix.lender_ata, ix.user_ata, ix.word)
  /\ lent' = [lent EXCEPT ![ix.lender_ata] = @ + ix.word]

\* What repay does for the accounts of ix: the amount is what instruction 0
\* has in bytes 8..16 of its data, and nothing else is asked of it.
PayBack(ix) ==
  /\ FlashloanAccounts(ix)
  /\ LET borrowed_amt == tx[1].word
     IN /\ borrowed_amt \in U64
        /\ RepayAmount(borrowed_amt) \in U64
        /\ Transfer(ix.user_ata, ix.lender_ata, RepayAmount(borrowed_amt))
  /\ UNCHANGED lent

\* A transfer that a user signs.
UserTransfer(ix) ==
  /\ ix.user_ata \in UserAtas
  /\ ix.word \in U64
  /\ ix.user_ata # ix.lender_ata
  /\ Transfer(ix.user_ata, ix.lender_ata, ix.word)
  /\ UNCHANGED lent

Advance ==
  /\ current_index' = current_index + 1
  /\ UNCHANGED <<tx, committed>>

FlashloanBorrow ==
  /\ Runs(ID, "borrow")
  /\ Borrow(Current)
  /\ Advance

Repay ==
  /\ Runs(ID, "repay")
  /\ PayBack(Current)
  /\ Advance

ForeignRuns ==
  /\ Running
  /\ current_index < Len(tx)
  /\ Current.program_id = OtherProgram

\* The running instruction of another program calls flashloan_borrow, repay
\* or the token program, as often as its compute units allow.
Invoke(ix) ==
  /\ ForeignRuns
  /\ \/ ix.program_id = ID /\ ix.disc = "borrow" /\ Borrow(ix)
     \/ ix.program_id = ID /\ ix.disc = "repay" /\ PayBack(ix)
     \/ ix.program_id = OtherProgram /\ UserTransfer(ix)
  /\ \A l \in LenderAtas : lent'[l] <= MaxLent
  /\ UNCHANGED <<tx, current_index, committed>>

\* An instruction of another program ends, whatever its data looks like: it
\* has moved tokens of a user who signs, or does nothing more.
OtherCall ==
  /\ ForeignRuns
  /\ UserTransfer(Current) \/ UNCHANGED <<balance, lent>>
  /\ Advance

\* The runtime keeps the working balances once every instruction succeeded.
Commit ==
  /\ Running
  /\ current_index = Len(tx)
  /\ committed' = balance
  /\ tx' = <<>>
  /\ current_index' = 0
  /\ lent' = NothingLent
  /\ UNCHANGED balance

\* The current instruction fails, for a reason above or for want of compute
\* units: the runtime drops the working balances.
Abort ==
  /\ Running
  /\ current_index < Len(tx)
  /\ balance' = committed
  /\ tx' = <<>>
  /\ current_index' = 0
  /\ lent' = NothingLent
  /\ UNCHANGED committed

Next ==
  \/ \E t \in Transactions : Submit(t)
  \/ FlashloanBorrow
  \/ Repay
  \/ \E ix \in Invocations : Invoke(ix)
  \/ OtherCall
  \/ Commit
  \/ Abort

Spec == Init /\ [][Next]_vars
-----------------------------------------------------------------------------
(* Properties.                                                             *)

\* Balances never go negative, and the index stays within the transaction.
TypeOK ==
  /\ tx \in Seq(Instructions)
  /\ current_index \in 0..Len(tx)
  /\ committed \in [Accounts -> Nat]
  /\ balance \in [Accounts -> Nat]
  /\ lent \in [LenderAtas -> Nat]

\* The running transaction starts with a borrow.
IsLoan == Running /\ tx[1].program_id = ID /\ tx[1].disc = "borrow"

\* What the last instruction has returned to a lender account that lent.
Returned(l) ==
  IF lent[l] > 0 /\ current_index = Len(tx) THEN RepayAmount(tx[1].word) ELSE 0

\* At every instruction of a transaction a lender account is short of no more
\* than what it has lent in it, however the loans were asked for; and after
\* the last instruction an account that has lent anything has got back, from
\* the one repay that flashloan_borrow has looked at, the amount and the fee
\* that the data of the first instruction stands for (lib.rs:305-326).
LoanBounded ==
  \A l \in LenderAtas : balance[l] + lent[l] >= committed[l] + Returned(l)

\* The loan was not taken by the first instruction but by a call from it, so
\* that repay reads some other data than the borrow's, and less.
Misread(l) ==
  /\ tx[1].program_id = OtherProgram
  /\ RepayAmount(tx[1].word) < lent[l]

\* lib.rs:313, `if we loaned the money we know that it's going to be the first
\* instruction and that the amount_borrowed will be there': with that proviso
\* no transaction that commits leaves a lender account with less, be it one
\* with a loan and a second borrow, without one, with a repayment to another
\* account, or with a repay that answers no borrow.  The exception is the one
\* case in which the proviso is not checked.
LenderNeverLoses ==
  [][\A l \in LenderAtas : committed'[l] >= committed[l] \/ Misread(l)]_vars

\* A transaction that starts with a borrow and commits leaves the lender
\* account it borrowed from with the fee on top of what it had.
FeePaid ==
  [][Commit /\ IsLoan =>
       committed'[tx[1].lender_ata]
         >= committed[tx[1].lender_ata] + Fee(tx[1].word)]_vars
=============================================================================
