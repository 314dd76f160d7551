-------------------------- MODULE FlashLoanProofs ---------------------------
(***************************************************************************)
(* Theorems of FlashLoan, for any accounts, any u64 bound, any fee up to   *)
(* the whole amount, transactions of any length, and any calls that the    *)
(* instructions of other programs make.                                    *)
(***************************************************************************)
EXTENDS FlashLoan, TLAPS
-----------------------------------------------------------------------------
(* The fee.                                                                *)

\* The quotient of a product by a base no smaller than the factor does not
\* exceed the other factor.
LEMMA QuotientBound ==
  ASSUME NEW a \in Nat, NEW f \in Nat, NEW b \in Nat, b > 0, f <= b
  PROVE  (a * f) \div b \in Nat /\ (a * f) \div b <= a
<1> DEFINE q == (a * f) \div b
<1>1. a * f \in Nat /\ a * f <= a * b
  OBVIOUS
<1>2. q \in Nat /\ q * b <= a * f
  BY <1>1
<1>3. q * b <= a * b
  BY <1>1, <1>2
<1>4. q <= a
  <2> HIDE DEF q
  <2>1. SUFFICES ASSUME q > a PROVE FALSE
    BY <1>2
  <2>2. q >= a + 1
    BY <1>2, <2>1
  <2>3. q * b >= (a + 1) * b
    BY <1>2, <2>2
  <2>4. (a + 1) * b = a * b + b
    OBVIOUS
  <2>5. q * b \in Nat /\ a * b \in Nat
    BY <1>2
  <2> QED
    BY <1>3, <2>3, <2>4, <2>5
<1> QED
  BY <1>2, <1>4

\* The fee of a u64 amount is a u64 amount no larger: the cast from u128
\* loses nothing.
LEMMA FeeBound ==
  ASSUME NEW n \in U64
  PROVE  /\ Fee(n) \in Nat
         /\ Fee(n) <= n
         /\ Fee(n) = (n * FEE) \div FEE_BASE
<1> DEFINE q == (n * FEE) \div FEE_BASE
<1>1. n \in Nat /\ U64_MAX \in Nat /\ n <= U64_MAX
  BY LoanAssumption DEF U64
<1>2. q \in Nat /\ q <= n
  BY <1>1, LoanAssumption, QuotientBound
<1>3. Fee(n) = q % (U64_MAX + 1)
  BY DEF Fee
<1> HIDE DEF q
<1>4. q % (U64_MAX + 1) = q
  BY <1>1, <1>2
<1> QED
  BY <1>2, <1>3, <1>4 DEF q
-----------------------------------------------------------------------------
(* Type correctness.                                                       *)

\* A transfer keeps balances natural numbers.
LEMMA TransferType ==
  ASSUME balance \in [Accounts -> Nat], NEW from \in Accounts,
         NEW to \in Accounts, NEW n \in Nat, Transfer(from, to, n)
  PROVE  balance' \in [Accounts -> Nat]
<1>1. balance[from] - n \in Nat
  BY DEF Transfer
<1> QED
  BY <1>1 DEF Transfer

\* The instruction that runs is one of the instructions.
LEMMA CurrentType ==
  ASSUME TypeOK, Running, current_index < Len(tx)
  PROVE  /\ Current \in Instructions
         /\ tx[1] \in Instructions
         /\ tx[Len(tx)] \in Instructions
         /\ current_index + 1 \in 1..Len(tx)
         /\ Len(tx) \in Nat \ {0}
<1>1. tx \in Seq(Instructions) /\ Len(tx) \in Nat /\ current_index \in Nat
  BY DEF TypeOK
<1>2. current_index + 1 \in 1..Len(tx) /\ 1 \in 1..Len(tx) /\ Len(tx) \in 1..Len(tx)
  BY <1>1
<1> QED
  BY <1>1, <1>2 DEF Current


\* What a repayment takes is a natural number, and no less than the amount
\* and the fee.
LEMMA RepayBound ==
  ASSUME NEW n \in U64
  PROVE  /\ n \in Nat
         /\ RepayAmount(n) \in Nat
         /\ RepayAmount(n) = n + Fee(n)
         /\ RepayAmount(n) >= n
<1>1. n \in Nat
  BY LoanAssumption DEF U64
<1>2. Fee(n) \in Nat
  BY FeeBound
<1> QED
  BY <1>1, <1>2 DEF RepayAmount

\* A borrow keeps the types, and it raises what its lender account has lent
\* by what it takes from it.
LEMMA BorrowMoves ==
  ASSUME TypeOK, NEW ix \in Instructions, Borrow(ix)
  PROVE  /\ ix.lender_ata \in LenderAtas
         /\ ix.word \in U64 /\ ix.word \in Nat /\ ix.word > 0
         /\ balance' \in [Accounts -> Nat]
         /\ lent' \in [LenderAtas -> Nat]
         /\ \A l \in LenderAtas :
              /\ balance'[l] + lent'[l] = balance[l] + lent[l]
              /\ lent'[l] = IF l = ix.lender_ata THEN lent[l] + ix.word ELSE lent[l]
<1>1. /\ ix.lender_ata \in LenderAtas /\ ix.user_ata \in UserAtas
      /\ ix.word \in U64 \ {0}
      /\ Transfer(ix.lender_ata, ix.user_ata, ix.word)
      /\ lent' = [lent EXCEPT ![ix.lender_ata] = @ + ix.word]
  BY DEF Borrow, FlashloanAccounts
<1>2. ix.word \in Nat /\ ix.word > 0
  BY <1>1, LoanAssumption DEF U64
<1>3. balance \in [Accounts -> Nat] /\ lent \in [LenderAtas -> Nat]
  BY DEF TypeOK
<1>4. balance' \in [Accounts -> Nat]
  BY <1>1, <1>2, <1>3, TransferType DEF Accounts
<1>5. lent' \in [LenderAtas -> Nat]
  BY <1>1, <1>2, <1>3
<1>6. ASSUME NEW l \in LenderAtas
      PROVE  /\ balance'[l] + lent'[l] = balance[l] + lent[l]
             /\ lent'[l] = IF l = ix.lender_ata THEN lent[l] + ix.word ELSE lent[l]
  <2>1. l \in Accounts /\ l # ix.user_ata
    BY <1>1, LoanAssumption DEF Accounts
  <2>2. balance'[l] = IF l = ix.lender_ata THEN balance[l] - ix.word ELSE balance[l]
    BY <1>1, <1>3, <2>1 DEF Transfer
  <2>3. lent'[l] = IF l = ix.lender_ata THEN lent[l] + ix.word ELSE lent[l]
    BY <1>1, <1>3
  <2>4. balance[l] \in Nat /\ lent[l] \in Nat
    BY <1>3, <2>1
  <2> QED
    BY <1>2, <2>2, <2>3, <2>4
<1> QED
  BY <1>1, <1>2, <1>4, <1>5, <1>6

\* A transfer out of a user's account takes nothing from a lender account.
LEMMA UserPays ==
  ASSUME balance \in [Accounts -> Nat], NEW from \in UserAtas,
         NEW to \in Accounts, NEW n \in Nat, Transfer(from, to, n)
  PROVE  /\ balance' \in [Accounts -> Nat]
         /\ \A l \in LenderAtas : balance'[l] >= balance[l]
         /\ to \in LenderAtas => balance'[to] = balance[to] + n
<1>1. from \in Accounts /\ from \notin LenderAtas
  BY LoanAssumption DEF Accounts
<1>2. \A l \in LenderAtas : l \in Accounts /\ balance[l] \in Nat
  BY DEF Accounts
<1> QED
  BY <1>1, <1>2, TransferType DEF Transfer

\* A repayment gives its lender account what the first instruction's data
\* stands for.
LEMMA PayBackMoves ==
  ASSUME TypeOK, NEW ix \in Instructions, PayBack(ix)
  PROVE  /\ tx[1].word \in U64
         /\ ix.lender_ata \in LenderAtas
         /\ balance' \in [Accounts -> Nat]
         /\ \A l \in LenderAtas : balance'[l] >= balance[l]
         /\ balance'[ix.lender_ata] = balance[ix.lender_ata] + RepayAmount(tx[1].word)
         /\ UNCHANGED lent
<1>1. /\ ix.lender_ata \in LenderAtas /\ ix.user_ata \in UserAtas
      /\ tx[1].word \in U64
      /\ Transfer(ix.user_ata, ix.lender_ata, RepayAmount(tx[1].word))
      /\ UNCHANGED lent
  BY DEF PayBack, FlashloanAccounts
<1>2. RepayAmount(tx[1].word) \in Nat
  BY <1>1, RepayBound
<1>3. balance \in [Accounts -> Nat] /\ ix.lender_ata \in Accounts
  BY <1>1 DEF TypeOK, Accounts
<1> QED
  BY <1>1, <1>2, <1>3, UserPays

\* So does a transfer that a user signs.
LEMMA UserTransferMoves ==
  ASSUME TypeOK, NEW ix \in Instructions, UserTransfer(ix)
  PROVE  /\ balance' \in [Accounts -> Nat]
         /\ \A l \in LenderAtas : balance'[l] >= balance[l]
         /\ UNCHANGED lent
<1>1. /\ ix.user_ata \in UserAtas /\ ix.word \in U64
      /\ Transfer(ix.user_ata, ix.lender_ata, ix.word)
      /\ UNCHANGED lent
  BY DEF UserTransfer
<1>2. ix.word \in Nat /\ ix.lender_ata \in Accounts
  BY <1>1, LoanAssumption DEF U64, Instructions
<1> QED
  BY <1>1, <1>2, UserPays DEF TypeOK

\* What runs inside a transaction either borrows or takes nothing from a
\* lender account, and stays within the transaction.
Lends(ix) == ix \in Instructions /\ Borrow(ix)
TakesNothing ==
  /\ balance' \in [Accounts -> Nat]
  /\ \A l \in LenderAtas : balance'[l] >= balance[l]
  /\ UNCHANGED lent

LEMMA Kinds ==
  ASSUME TypeOK,
         FlashloanBorrow \/ Repay \/ OtherCall \/ \E ix \in Invocations : Invoke(ix)
  PROVE  /\ Running
         /\ UNCHANGED <<tx, committed>>
         /\ current_index \in Nat /\ Len(tx) \in Nat
         /\ current_index < Len(tx)
         /\ current_index' \in {current_index, current_index + 1}
         /\ \/ FlashloanBorrow /\ Lends(Current) /\ current_index' = current_index + 1
            \/ /\ ForeignRuns /\ current_index' = current_index
               /\ \E ix \in Invocations : Lends(ix)
            \/ TakesNothing
<1>1. /\ Running /\ UNCHANGED <<tx, committed>>
      /\ current_index < Len(tx)
      /\ current_index' \in {current_index, current_index + 1}
  BY DEF FlashloanBorrow, Repay, OtherCall, Invoke, Runs, ForeignRuns, Advance
<1>2. Current \in Instructions
  BY <1>1, CurrentType
<1>3. current_index \in Nat /\ Len(tx) \in Nat
  BY DEF TypeOK
<1>4. CASE FlashloanBorrow
  BY <1>1, <1>2, <1>3, <1>4 DEF FlashloanBorrow, Lends, Advance
<1>5. CASE Repay
  BY <1>1, <1>2, <1>3, <1>5, PayBackMoves DEF Repay, TakesNothing
<1>6. CASE OtherCall
  <2>1. CASE UserTransfer(Current)
    BY <1>1, <1>2, <1>3, <2>1, UserTransferMoves DEF TakesNothing
  <2>2. CASE UNCHANGED <<balance, lent>>
    <3>1. TakesNothing
      BY <2>2 DEF TakesNothing, TypeOK, Accounts
    <3> QED
      BY <1>1, <1>3, <3>1
  <2> QED
    BY <1>6, <2>1, <2>2 DEF OtherCall
<1>7. ASSUME NEW ix \in Invocations, Invoke(ix)
      PROVE  \/ ForeignRuns /\ current_index' = current_index /\ Lends(ix)
             \/ TakesNothing
  <2>1. ix \in Instructions /\ ForeignRuns /\ current_index' = current_index
    BY <1>7, LoanAssumption DEF Invoke
  <2>2. CASE Borrow(ix)
    BY <2>1, <2>2 DEF Lends
  <2>3. CASE PayBack(ix)
    BY <2>1, <2>3, PayBackMoves DEF TakesNothing
  <2>4. CASE UserTransfer(ix)
    BY <2>1, <2>4, UserTransferMoves DEF TakesNothing
  <2> QED
    BY <1>7, <2>2, <2>3, <2>4 DEF Invoke
<1> QED
  BY <1>1, <1>3, <1>4, <1>5, <1>6, <1>7

\* Every step keeps the types.
LEMMA TypeNext == TypeOK /\ [Next]_vars => TypeOK'
<1> SUFFICES ASSUME TypeOK, [Next]_vars
             PROVE  TypeOK'
  OBVIOUS
<1>1. ASSUME NEW t \in Transactions, Submit(t)
      PROVE  TypeOK'
  <2>1. t \in Seq(Instructions) /\ Len(t) \in Nat
    BY LoanAssumption
  <2>2. tx = <<>> /\ current_index = 0
    BY <1>1 DEF Submit, Running, TypeOK
  <2> QED
    BY <1>1, <2>1, <2>2 DEF Submit, TypeOK
<1>2. CASE FlashloanBorrow \/ Repay \/ OtherCall \/ \E ix \in Invocations : Invoke(ix)
  <2>1. /\ tx' \in Seq(Instructions)
        /\ current_index' \in 0..Len(tx')
        /\ committed' \in [Accounts -> Nat]
    BY <1>2, Kinds DEF TypeOK
  <2>2. balance' \in [Accounts -> Nat] /\ lent' \in [LenderAtas -> Nat]
    <3>1. CASE TakesNothing
      BY <3>1 DEF TakesNothing, TypeOK
    <3>2. CASE \E ix : Lends(ix)
      BY <3>2, BorrowMoves DEF Lends
    <3> QED
      BY <1>2, <3>1, <3>2, Kinds
  <2> QED
    BY <2>1, <2>2 DEF TypeOK
<1>3. CASE Commit \/ Abort
  <2>1. /\ tx' = <<>> /\ current_index' = 0 /\ lent' = NothingLent
        /\ committed' \in [Accounts -> Nat] /\ balance' \in [Accounts -> Nat]
    BY <1>3 DEF Commit, Abort, TypeOK
  <2>2. tx' \in Seq(Instructions) /\ current_index' \in 0..Len(tx')
    BY <2>1
  <2>3. lent' \in [LenderAtas -> Nat]
    BY <2>1 DEF NothingLent
  <2> QED
    BY <2>1, <2>2, <2>3 DEF TypeOK
<1>4. CASE UNCHANGED vars
  BY <1>4 DEF vars, TypeOK
<1> QED
  BY <1>1, <1>2, <1>3, <1>4 DEF Next

\* Type correctness: no balance is overdrawn inside a transaction either.
THEOREM TypeCorrect == Spec => []TypeOK
<1>1. Init => TypeOK
  BY LoanAssumption DEF Init, TypeOK, NothingLent
<1> QED
  BY <1>1, TypeNext, PTL DEF Spec
-----------------------------------------------------------------------------
(* The loan.                                                               *)

\* What flashloan_borrow has checked for an account that has lent: the last
\* instruction repays it, and unless the first instruction is another
\* program's, the amount is the one that repay will find there.
Backed(l) ==
  /\ Running
  /\ tx[Len(tx)].program_id = ID
  /\ tx[Len(tx)].disc = "repay"
  /\ tx[Len(tx)].lender_ata = l
  /\ tx[1].program_id = ID =>
       current_index > 0 /\ tx[1].word \in U64 /\ lent[l] = tx[1].word
  /\ current_index = Len(tx) => tx[1].word \in U64

\* The strengthening that makes LoanBounded inductive.  Its second part says
\* that a transaction which starts with a borrow has got what it asked for.
LoanValid ==
  /\ \A l \in LenderAtas : lent[l] > 0 => Backed(l)
  /\ IsLoan /\ current_index > 0 =>
       /\ tx[1].lender_ata \in LenderAtas
       /\ tx[1].word \in U64 \ {0}
       /\ lent[tx[1].lender_ata] = tx[1].word

IInv == LoanValid /\ LoanBounded

\* A borrow, whether it is an instruction of the transaction or a call that
\* the first one makes: it is not the last instruction.
LEMMA BorrowStep ==
  ASSUME TypeOK, IInv, NEW ix, Lends(ix),
         UNCHANGED <<tx, committed>>, Running, current_index < Len(tx),
         \/ FlashloanBorrow /\ ix = Current /\ current_index' = current_index + 1
         \/ ForeignRuns /\ current_index' = current_index
  PROVE  IInv'
<1>1. /\ current_index = 0
      /\ LastRepays(ix, tx[Len(tx)])
      /\ Current = tx[1]
      /\ Len(tx) \in Nat \ {0}
  BY CurrentType DEF Lends, Borrow, FirstIndex, Current
<1>2. /\ ix.lender_ata \in LenderAtas
      /\ ix.word \in U64 /\ ix.word \in Nat /\ ix.word > 0
      /\ lent' \in [LenderAtas -> Nat]
      /\ \A l \in LenderAtas :
           /\ balance'[l] + lent'[l] = balance[l] + lent[l]
           /\ lent'[l] = IF l = ix.lender_ata THEN lent[l] + ix.word ELSE lent[l]
  BY BorrowMoves DEF Lends
<1>3. \/ tx[1] = ix /\ tx[1].program_id = ID /\ tx[1].disc = "borrow" /\ current_index' = 1
      \/ tx[1].program_id = OtherProgram /\ current_index' = 0
  BY <1>1 DEF FlashloanBorrow, Runs, ForeignRuns
<1>4. current_index' < Len(tx)
  <2>1. Len(tx) # 1
    BY <1>1, <1>3, LoanAssumption DEF LastRepays
  <2>2. Len(tx) > 1
    BY <1>1, <2>1
  <2>3. current_index' \in {0, 1}
    BY <1>3
  <2> QED
    BY <2>2, <2>3
<1>5. \A l \in LenderAtas : lent[l] \in Nat /\ (lent[l] > 0 => Backed(l))
  BY DEF IInv, LoanValid, TypeOK
<1>6. ASSUME tx[1].program_id = ID
      PROVE  \A l \in LenderAtas : lent[l] = 0
  BY <1>1, <1>5, <1>6 DEF Backed
<1>7. ASSUME NEW l \in LenderAtas, lent'[l] > 0
      PROVE  Backed(l)'
  <2>1. l = ix.lender_ata \/ lent[l] > 0
    BY <1>2, <1>7
  <2>2. /\ tx[Len(tx)].program_id = ID
        /\ tx[Len(tx)].disc = "repay"
        /\ tx[Len(tx)].lender_ata = l
    BY <1>1, <1>5, <2>1 DEF LastRepays, Backed
  <2>3. ASSUME tx[1].program_id = ID
        PROVE  current_index' > 0 /\ tx[1].word \in U64 /\ lent'[l] = tx[1].word
    <3>1. tx[1] = ix /\ current_index' = 1
      BY <1>3, <2>3, LoanAssumption
    <3>2. lent[l] = 0 /\ l = ix.lender_ata
      BY <1>6, <2>1, <2>3
    <3> QED
      BY <1>2, <3>1, <3>2
  <2> QED
    BY <1>4, <2>2, <2>3 DEF Backed, Running, U64
<1>8. ASSUME IsLoan', current_index' > 0
      PROVE  /\ tx[1].lender_ata \in LenderAtas
             /\ tx[1].word \in U64 \ {0}
             /\ lent'[tx[1].lender_ata] = tx[1].word
  <2>1. tx[1] = ix /\ tx[1].program_id = ID
    BY <1>3, <1>8
  <2>2. lent[ix.lender_ata] = 0
    BY <1>2, <1>6, <2>1
  <2> QED
    BY <1>2, <2>1, <2>2
<1>9. LoanValid'
  BY <1>7, <1>8 DEF LoanValid, U64
<1>10. ASSUME NEW l \in LenderAtas
       PROVE  balance'[l] + lent'[l] >= committed'[l] + Returned(l)'
  <2>1. balance[l] + lent[l] >= committed[l] + Returned(l)
    BY DEF IInv, LoanBounded
  <2>2. Returned(l) = 0 /\ Returned(l)' = 0
    BY <1>1, <1>4 DEF Returned
  <2>3. balance'[l] + lent'[l] = balance[l] + lent[l]
    BY <1>2
  <2> QED
    BY <2>1, <2>2, <2>3
<1> QED
  BY <1>9, <1>10 DEF IInv, LoanBounded

\* Any other step inside a transaction: no lender account loses, and the last
\* instruction brings to an account that has lent what it stands for.
LEMMA OtherStep ==
  ASSUME TypeOK, IInv, TakesNothing,
         FlashloanBorrow \/ Repay \/ OtherCall \/ \E ix \in Invocations : Invoke(ix)
  PROVE  IInv'
<1>1. /\ Running /\ UNCHANGED <<tx, committed, lent>>
      /\ current_index \in Nat /\ Len(tx) \in Nat
      /\ current_index < Len(tx)
      /\ current_index' \in {current_index, current_index + 1}
      /\ \A l \in LenderAtas : balance'[l] >= balance[l]
  BY Kinds DEF TakesNothing
<1>2. Current \in Instructions /\ Current = tx[current_index + 1] /\ tx[1] \in Instructions
  BY <1>1, CurrentType DEF Current
<1>3. \A l \in LenderAtas : lent[l] \in Nat /\ (lent[l] > 0 => Backed(l))
  BY DEF IInv, LoanValid, TypeOK
<1>4. ASSUME NEW l \in LenderAtas, lent[l] > 0, current_index' = Len(tx)
      PROVE  /\ tx[1].word \in U64
             /\ balance'[l] = balance[l] + RepayAmount(tx[1].word)
  <2>1. current_index' = current_index + 1 /\ Current = tx[Len(tx)]
    BY <1>1, <1>2, <1>4
  <2>2. Current.program_id = ID /\ Current.disc = "repay" /\ Current.lender_ata = l
    BY <1>3, <1>4, <2>1 DEF Backed
  <2>3. Repay
    BY <2>2, LoanAssumption DEF FlashloanBorrow, OtherCall, Invoke, ForeignRuns, Runs
  <2> QED
    BY <1>2, <2>2, <2>3, PayBackMoves DEF Repay
<1>5. ASSUME NEW l \in LenderAtas, lent'[l] > 0
      PROVE  Backed(l)'
  <2>1. Backed(l) /\ lent[l] > 0
    BY <1>1, <1>3, <1>5
  <2>2. current_index > 0 => current_index' > 0
    BY <1>1
  <2>3. current_index' = Len(tx) => tx[1].word \in U64
    BY <1>4, <2>1
  <2> QED
    BY <1>1, <2>1, <2>2, <2>3 DEF Backed, Running, U64
<1>6. ASSUME IsLoan', current_index' > 0
      PROVE  /\ tx[1].lender_ata \in LenderAtas
             /\ tx[1].word \in U64 \ {0}
             /\ lent[tx[1].lender_ata] = tx[1].word
  <2>1. IsLoan
    BY <1>1, <1>6 DEF IsLoan, Running
  <2>2. CASE current_index > 0
    BY <2>1, <2>2 DEF IInv, LoanValid
  <2>3. CASE current_index = 0
    <3>1. Current = tx[1] /\ Current.program_id = ID /\ Current.disc = "borrow"
      BY <1>2, <2>1, <2>3 DEF IsLoan
    <3>2. FlashloanBorrow
      BY <3>1, LoanAssumption DEF Repay, OtherCall, Invoke, ForeignRuns, Runs
    <3>3. Borrow(tx[1])
      BY <3>1, <3>2 DEF FlashloanBorrow
    <3>4. \A l \in LenderAtas : lent'[l] = IF l = tx[1].lender_ata
                                             THEN lent[l] + tx[1].word ELSE lent[l]
      BY <1>2, <3>3, BorrowMoves
    <3>5. tx[1].lender_ata \in LenderAtas /\ tx[1].word \in Nat /\ tx[1].word > 0
      BY <1>2, <3>3, BorrowMoves
    <3> QED
      BY <1>1, <1>3, <3>4, <3>5
  <2> QED
    BY <1>1, <2>2, <2>3
<1>7. LoanValid'
  BY <1>1, <1>5, <1>6 DEF LoanValid, U64
<1>8. ASSUME NEW l \in LenderAtas
      PROVE  balance'[l] + lent'[l] >= committed'[l] + Returned(l)'
  <2>1. /\ balance[l] \in Nat /\ committed[l] \in Nat /\ lent[l] \in Nat
        /\ balance'[l] \in Nat /\ balance'[l] >= balance[l]
        /\ lent'[l] = lent[l] /\ committed'[l] = committed[l]
    BY <1>1 DEF TypeOK, TakesNothing, Accounts
  <2>2. balance[l] + lent[l] >= committed[l] + Returned(l) /\ Returned(l) = 0
    BY <1>1 DEF IInv, LoanBounded, Returned
  <2>3. CASE lent[l] > 0 /\ current_index' = Len(tx)
    <3>1. /\ tx[1].word \in U64
          /\ balance'[l] = balance[l] + RepayAmount(tx[1].word)
      BY <1>4, <2>3
    <3>2. Returned(l)' = RepayAmount(tx[1].word)
      BY <1>1, <2>3 DEF Returned, RepayAmount, Fee
    <3>3. RepayAmount(tx[1].word) \in Nat
      BY <3>1, RepayBound
    <3> QED
      BY <2>1, <2>2, <3>1, <3>2, <3>3
  <2>4. CASE ~(lent[l] > 0 /\ current_index' = Len(tx))
    <3>1. Returned(l)' = 0
      BY <1>1, <2>4 DEF Returned
    <3> QED
      BY <2>1, <2>2, <3>1
  <2> QED
    BY <2>3, <2>4
<1> QED
  BY <1>7, <1>8 DEF IInv, LoanBounded

\* LoanValid and LoanBounded are preserved together.
LEMMA NextBounded == TypeOK /\ IInv /\ [Next]_vars => IInv'
<1> SUFFICES ASSUME TypeOK, IInv, [Next]_vars
             PROVE  IInv'
  OBVIOUS
<1>1. \A l \in LenderAtas :
        /\ balance[l] \in Nat /\ committed[l] \in Nat /\ lent[l] \in Nat
        /\ lent[l] > 0 => Running
  BY DEF TypeOK, Accounts, IInv, LoanValid, Backed
<1>2. ASSUME \A l \in LenderAtas : lent'[l] = 0,
             current_index' = 0,
             \A l \in LenderAtas : balance'[l] >= committed'[l]
      PROVE  IInv'
  <2>1. LoanValid'
    BY <1>2 DEF LoanValid
  <2>2. \A l \in LenderAtas : Returned(l)' = 0
    BY <1>2 DEF Returned
  <2>3. \A l \in LenderAtas : balance'[l] \in Nat /\ committed'[l] \in Nat
    BY TypeNext DEF TypeOK, Accounts
  <2> QED
    BY <1>2, <2>1, <2>2, <2>3 DEF IInv, LoanBounded
<1>3. ASSUME NEW t \in Transactions, Submit(t)
      PROVE  IInv'
  <2>1. /\ current_index = 0 /\ ~Running
        /\ UNCHANGED <<current_index, committed, balance, lent>>
    BY <1>3 DEF Submit, Running, TypeOK
  <2>2. \A l \in LenderAtas : lent[l] = 0
    BY <1>1, <2>1
  <2>3. \A l \in LenderAtas : balance[l] >= committed[l]
    BY <1>1, <2>2 DEF IInv, LoanBounded, Returned
  <2> QED
    BY <1>2, <2>1, <2>2, <2>3
<1>4. CASE FlashloanBorrow \/ Repay \/ OtherCall \/ \E ix \in Invocations : Invoke(ix)
  <2>1. CASE TakesNothing
    BY <1>4, <2>1, OtherStep
  <2>2. CASE FlashloanBorrow /\ Lends(Current) /\ current_index' = current_index + 1
    BY <1>4, <2>2, BorrowStep, Kinds
  <2>3. CASE /\ ForeignRuns /\ current_index' = current_index
             /\ \E ix \in Invocations : Lends(ix)
    BY <1>4, <2>3, BorrowStep, Kinds
  <2> QED
    BY <1>4, <2>1, <2>2, <2>3, Kinds
<1>5. CASE Commit \/ Abort
  <2>1. current_index' = 0 /\ \A l \in LenderAtas : lent'[l] = 0
    BY <1>5 DEF Commit, Abort, NothingLent
  <2>2. \A l \in LenderAtas : balance'[l] >= committed'[l]
    BY <1>1, <1>5 DEF Commit, Abort
  <2> QED
    BY <1>2, <2>1, <2>2
<1>6. CASE UNCHANGED vars
  BY <1>6 DEF vars, IInv, LoanValid, LoanBounded, Backed, IsLoan, Running, Returned,
     RepayAmount, Fee, U64
<1> QED
  BY <1>3, <1>4, <1>5, <1>6 DEF Next

\* Inside a transaction a lender account is short by no more than what it has
\* lent there, however the loans were asked for, and after the last
\* instruction it has got back what the first one's data stands for.
THEOREM LoanAlwaysBounded == Spec => [](LoanValid /\ LoanBounded)
<1>1. Init => IInv
  <2> SUFFICES ASSUME Init
               PROVE  IInv
    OBVIOUS
  <2>1. ~IsLoan /\ \A l \in LenderAtas : lent[l] = 0
    BY DEF Init, IsLoan, Running, NothingLent
  <2>2. \A l \in LenderAtas : balance[l] \in Nat /\ committed[l] = balance[l]
    BY LoanAssumption DEF Init, Accounts
  <2> QED
    BY <2>1, <2>2 DEF IInv, LoanValid, LoanBounded, Returned
<1> QED
  BY <1>1, NextBounded, TypeCorrect, PTL DEF Spec, IInv

\* What an account that has lent is left with when its transaction commits.
LEMMA CommitReturns ==
  ASSUME TypeOK, IInv, Commit, NEW l \in LenderAtas, lent[l] > 0
  PROVE  /\ Backed(l) /\ tx[1].word \in U64
         /\ committed'[l] + lent[l] >= committed[l] + RepayAmount(tx[1].word)
<1>1. current_index = Len(tx) /\ committed' = balance
  BY DEF Commit
<1>2. Backed(l)
  BY DEF IInv, LoanValid
<1>3. tx[1].word \in U64
  BY <1>1, <1>2 DEF Backed
<1>4. balance[l] + lent[l] >= committed[l] + Returned(l)
  BY DEF IInv, LoanBounded
<1>5. Returned(l) = RepayAmount(tx[1].word)
  BY <1>1 DEF Returned
<1> QED
  BY <1>1, <1>2, <1>3, <1>4, <1>5

\* Only Commit changes what is committed.
LEMMA OnlyCommit ==
  ASSUME TypeOK, [Next]_vars, committed' # committed
  PROVE  Commit
BY Kinds DEF Next, vars, Submit, Abort

\* A step leaves a lender account with less only if repay has read the data
\* of an instruction that is not the borrow.
LEMMA LenderStep ==
  ASSUME TypeOK, IInv, [Next]_vars, NEW l \in LenderAtas
  PROVE  committed'[l] >= committed[l] \/ Misread(l)
<1>1. committed[l] \in Nat /\ balance[l] \in Nat /\ lent[l] \in Nat
  BY DEF TypeOK, Accounts
<1>2. CASE committed' = committed
  BY <1>1, <1>2
<1>3. CASE Commit /\ lent[l] = 0
  <2>1. committed' = balance /\ Returned(l) = 0
    BY <1>3 DEF Commit, Returned
  <2>2. balance[l] + lent[l] >= committed[l] + Returned(l)
    BY DEF IInv, LoanBounded
  <2> QED
    BY <1>1, <1>3, <2>1, <2>2
<1>4. CASE Commit /\ lent[l] > 0
  <2>1. /\ Backed(l) /\ tx[1].word \in U64
        /\ committed'[l] + lent[l] >= committed[l] + RepayAmount(tx[1].word)
        /\ committed'[l] = balance[l]
    BY <1>4, CommitReturns DEF Commit
  <2>2. RepayAmount(tx[1].word) \in Nat /\ RepayAmount(tx[1].word) >= tx[1].word
    BY <2>1, RepayBound
  <2>3. CASE RepayAmount(tx[1].word) >= lent[l]
    BY <1>1, <2>1, <2>2, <2>3
  <2>4. CASE RepayAmount(tx[1].word) < lent[l]
    <3>1. tx[1].program_id # ID
      BY <1>1, <2>1, <2>2, <2>4 DEF Backed
    <3>2. tx[1] \in Instructions
      <4>1. tx \in Seq(Instructions) /\ tx # <<>>
        BY <2>1 DEF TypeOK, Backed, Running
      <4> QED
        BY <4>1
    <3> QED
      BY <2>4, <3>1, <3>2 DEF Misread, Instructions
  <2> QED
    BY <1>1, <2>2, <2>3, <2>4
<1> QED
  BY <1>1, <1>2, <1>3, <1>4, OnlyCommit

\* With the proviso of lib.rs:313, no transaction leaves a lender account with
\* less than it had, whatever instructions and calls it is made of.
THEOREM LenderSafe == Spec => LenderNeverLoses
<1>1. TypeOK /\ IInv /\ [Next]_vars =>
        [\A l \in LenderAtas : committed'[l] >= committed[l] \/ Misread(l)]_vars
  BY LenderStep
<1> QED
  BY <1>1, TypeCorrect, LoanAlwaysBounded, PTL DEF Spec, LenderNeverLoses, IInv

\* A transaction that starts with a borrow and commits has paid the fee.
THEOREM FeeAlwaysPaid == Spec => FeePaid
<1>1. ASSUME TypeOK, IInv, Commit, IsLoan
      PROVE  committed'[tx[1].lender_ata]
               >= committed[tx[1].lender_ata] + Fee(tx[1].word)
  <2> DEFINE l == tx[1].lender_ata
  <2>1. current_index > 0
    <3>1. tx \in Seq(Instructions) /\ tx # <<>> /\ current_index = Len(tx)
      BY <1>1 DEF TypeOK, Commit, Running
    <3> QED
      BY <3>1
  <2>2. l \in LenderAtas /\ tx[1].word \in U64 \ {0} /\ lent[l] = tx[1].word
    BY <1>1, <2>1 DEF IInv, LoanValid
  <2>3. tx[1].word \in Nat /\ lent[l] > 0
    BY <2>2, LoanAssumption DEF U64
  <2>4. committed'[l] + lent[l] >= committed[l] + RepayAmount(tx[1].word)
    BY <1>1, <2>2, <2>3, CommitReturns
  <2>5. RepayAmount(tx[1].word) = tx[1].word + Fee(tx[1].word) /\ Fee(tx[1].word) \in Nat
    BY <2>2, RepayBound, FeeBound
  <2>6. committed[l] \in Nat /\ committed'[l] \in Nat
    BY <1>1, <2>2 DEF Commit, TypeOK, Accounts
  <2> QED
    BY <2>2, <2>3, <2>4, <2>5, <2>6
<1>2. TypeOK /\ IInv /\ [Next]_vars =>
        [Commit /\ IsLoan => committed'[tx[1].lender_ata]
           >= committed[tx[1].lender_ata] + Fee(tx[1].word)]_vars
  BY <1>1
<1> QED
  BY <1>2, TypeCorrect, LoanAlwaysBounded, PTL DEF Spec, FeePaid, IInv
=============================================================================
