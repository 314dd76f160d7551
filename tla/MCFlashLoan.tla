---------------------------- MODULE MCFlashLoan -----------------------------
(***************************************************************************)
(* Two lender accounts, two user accounts, and transactions of one to three*)
(* instructions over a set that holds a good borrow and a good repay for   *)
(* each pair of accounts, and one bad instruction for each check.          *)
(***************************************************************************)
EXTENDS FlashLoan

CONSTANTS L1, L2, U1, U2

Ix(p, d, l, u, w) ==
  [program_id |-> p, disc |-> d, lender_ata |-> l, user_ata |-> u, word |-> w]

Borrows ==
  { Ix(ID, "borrow", l, u, w) : l \in {L1, L2}, u \in {U1}, w \in {1, 3} }
  \union { Ix(ID, "borrow", L1, U1, 0), Ix(ID, "borrow", L1, U1, 7),
           Ix(ID, "borrow", U2, U1, 1) }

Repays ==
  { Ix(ID, "repay", l, u, Short) : l \in {L1, L2}, u \in {U1, U2} }
  \union { Ix(ID, "repay", L1, U1, 1), Ix(ID, "repay", U2, U1, Short) }

Others ==
  { Ix(OtherProgram, "repay", L1, U1, Short),
    Ix(OtherProgram, "transfer", U1, U2, 3),
    Ix(OtherProgram, "transfer", U2, U1, 1),
    Ix(OtherProgram, "transfer", L1, U1, 1),
    Ix(OtherProgram, "transfer", U1, L1, 1),
    Ix(ID, "transfer", L1, U1, 1) }

Steps == Borrows \union Repays \union Others

\* What may stand first and last in a transaction of three instructions, and
\* between them: any other call, a second borrow, an early repayment.
First == Borrows \union
  { Ix(OtherProgram, "transfer", U1, U2, 3), Ix(OtherProgram, "transfer", U2, U1, 1) }
Between == Others \union
  { Ix(ID, "borrow", L1, U1, 1), Ix(ID, "repay", L1, U1, Short) }

MCTransactions ==
  { <<i>> : i \in Steps } \union { <<i, j>> : i, j \in Steps }
  \union { <<i, j, k>> : i \in First, j \in Between, k \in Repays }

\* Called while an instruction of OtherProgram runs: a loan, a repayment and a
\* transfer.
MCInvocations ==
  { Ix(ID, "borrow", L1, U1, 2), Ix(ID, "repay", L1, U1, Short),
    Ix(OtherProgram, "transfer", U1, U2, 1) }

MCInitialBalances ==
  [a \in Accounts |-> IF a = L1 THEN 3 ELSE IF a = L2 THEN 1 ELSE IF a = U1 THEN 2 ELSE 1]
=============================================================================
