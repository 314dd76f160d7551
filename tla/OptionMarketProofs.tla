------------------------- MODULE OptionMarketProofs -------------------------
(***************************************************************************)
(* Theorems of OptionMarket, for any signers, option ids, prices, u64      *)
(* bound and inputs its assumptions allow.                                 *)
(***************************************************************************)
EXTENDS OptionMarket, UnitSumsProofs
-----------------------------------------------------------------------------
(* Type correctness.                                                       *)

\* A zeroed account has the type of an initialised one.
LEMMA ZeroTypes ==
  /\ ZeroConfig \in Config
  /\ ZeroContract \in OptContract
<1>1. EmptyName \in AssetNames
  BY InputAssumption DEF EmptyName
<1>2. 0 \in U64 /\ 0 \in 0..U32-1
  BY BoundAssumption DEF U64
<1>3. ZeroConfig \in Config
  BY <1>2 DEF ZeroConfig, Config, Keys
<1>4. ZeroContract \in OptContract
  BY <1>1, <1>2 DEF ZeroContract, OptContract
<1> QED
  BY <1>3, <1>4

\* The initial accounts are well typed.
LEMMA InitType == Init => TypeOK
<1> SUFFICES ASSUME Init
             PROVE  TypeOK
  OBVIOUS
<1>1. clock \in 0..MaxTime
  BY BoundAssumption DEF Init
<1>2. created \subseteq Singletons /\ config \in Config
  BY ZeroTypes, InputAssumption DEF Init, Singletons
<1>3. listed \subseteq OptionIds /\ opened \subseteq Positions
  BY DEF Init
<1>4. opt_ctrt \in [OptionIds -> OptContract]
  BY ZeroTypes DEF Init
<1>5. user_payment \in [Positions -> [Slots -> U64]]
  BY BoundAssumption DEF Init, U64
<1>6. user_ata \in [Signers -> Nat] /\ vault_ata \in Nat
  BY InputAssumption DEF Init
<1>7. simple_acct \in SimpleAcct
  BY BoundAssumption DEF Init, SimpleAcct, Keys, U64
<1>8. withdrawn \in Nat /\ donated \in Nat
  BY DEF Init
<1> QED
  BY <1>1, <1>2, <1>3, <1>4, <1>5, <1>6, <1>7, <1>8 DEF TypeOK

\* The two transfers keep token accounts natural numbers.
LEMMA TransferType ==
  ASSUME TypeOK, NEW signer \in Signers, NEW amount \in Nat,
         TransferIn(signer, amount) \/ TransferOut(signer, amount)
  PROVE  user_ata' \in [Signers -> Nat] /\ vault_ata' \in Nat
BY DEF TypeOK, TransferIn, TransferOut

\* Recording a payment keeps the payments arrays u64 arrays.
LEMMA RecordType ==
  ASSUME TypeOK, NEW user \in Signers, NEW id \in OptionIds,
         NEW index \in Slots, NEW payment, Record(user, id, index, payment)
  PROVE  user_payment' \in [Positions -> [Slots -> U64]]
BY DEF TypeOK, Record, Positions

\* Every instruction and every step of the environment keeps the types.
LEMMA NextType == TypeOK /\ [Next]_vars => TypeOK'
<1> SUFFICES ASSUME TypeOK, [Next]_vars
             PROVE  TypeOK'
  OBVIOUS
<1>1. ASSUME NEW signer \in Signers, NEW word \in Words,
             InitConfig(signer, word)
      PROVE  TypeOK'
  <2>1. word \in U64
    BY InputAssumption
  <2>2. config' \in Config
    BY <1>1, <2>1 DEF InitConfig, WriteBack, TypeOK, Config, Keys
  <2> QED
    BY <1>1, <2>2 DEF InitConfig, TypeOK, Singletons
<1>2. ASSUME NEW signer \in Signers, NEW word \in Words,
             InitSimpleAcct(signer, word)
      PROVE  TypeOK'
  <2>1. simple_acct' \in SimpleAcct
    BY <1>2, InputAssumption DEF InitSimpleAcct, SimpleAcct, Keys
  <2> QED
    BY <1>2, <2>1 DEF InitSimpleAcct, TypeOK, Singletons
<1>3. ASSUME NEW signer \in Signers, NEW amount \in Amounts,
             WithdrawToken(signer, amount)
      PROVE  TypeOK'
  <2>1. amount \in Nat
    BY InputAssumption, BoundAssumption DEF U64
  <2>2. user_ata' \in [Signers -> Nat] /\ vault_ata' \in Nat
    BY <1>3, <2>1, TransferType DEF WithdrawToken
  <2> QED
    BY <1>3, <2>1, <2>2 DEF WithdrawToken, TypeOK
<1>4. CASE TimeTravel
  <2>1. time \in 0..U32-1
    BY BoundAssumption DEF time, TypeOK
  <2>2. config' \in Config
    BY <1>4, <2>1 DEF TimeTravel, WriteBack, TypeOK, Config
  <2> QED
    BY <1>4, <2>2 DEF TimeTravel, TypeOK
<1>5. ASSUME NEW signer \in Signers, NEW id \in OptionIds,
             NEW terms \in Listings, NewOption(signer, id, terms)
      PROVE  TypeOK'
  BY <1>5, InputAssumption DEF NewOption, TypeOK
<1>6. ASSUME NEW user \in Signers, NEW id \in OptionIds,
             InitUserPayment(user, id)
      PROVE  TypeOK'
  BY <1>6 DEF InitUserPayment, TypeOK, Positions
<1>7. ASSUME NEW admin \in Signers, InitVault(admin)
      PROVE  TypeOK'
  BY <1>7 DEF InitVault, WriteBack, TypeOK, Singletons
<1>8. ASSUME NEW admin \in Signers, InitVaultAta(admin)
      PROVE  TypeOK'
  BY <1>8 DEF InitVaultAta, WriteBack, TypeOK, Singletons
<1>9. ASSUME NEW user \in Signers, NEW id \in OptionIds,
             NEW amount \in Amounts, NEW index \in 0..LEN,
             BuyOption(user, id, amount, index)
      PROVE  TypeOK'
  <2> DEFINE premium == get_premium(amount, opt_ctrt[id].ctrt_prices[index])
             paid == user_payment[<<user, id>>][index]
  <2>1. /\ index \in Slots
        /\ premium \in Nat
        /\ Record(user, id, index, paid + premium)
        /\ TransferIn(user, premium)
    BY <1>9, BoundAssumption DEF BuyOption, PremiumFits, U64
  <2>2. user_payment' \in [Positions -> [Slots -> U64]]
    BY <2>1, RecordType
  <2>3. user_ata' \in [Signers -> Nat] /\ vault_ata' \in Nat
    BY <2>1, TransferType
  <2> QED
    BY <1>9, <2>2, <2>3 DEF BuyOption, TypeOK
<1>10. ASSUME NEW user \in Signers, NEW id \in OptionIds,
              NEW amount \in Amounts, NEW index \in 0..LEN,
              SellOption(user, id, amount, index)
       PROVE  TypeOK'
  <2> DEFINE premium == get_premium(amount, opt_ctrt[id].ctrt_prices[index])
             paid == user_payment[<<user, id>>][index]
  <2>1. /\ index \in Slots
        /\ premium \in Nat
        /\ Record(user, id, index, paid - premium)
        /\ TransferOut(user, premium)
    BY <1>10, BoundAssumption DEF SellOption, PremiumFits, U64
  <2>2. user_payment' \in [Positions -> [Slots -> U64]]
    BY <2>1, RecordType
  <2>3. user_ata' \in [Signers -> Nat] /\ vault_ata' \in Nat
    BY <2>1, TransferType
  <2> QED
    BY <1>10, <2>2, <2>3 DEF SellOption, TypeOK
<1>11. CASE Tick
  <2>1. clock' \in 0..MaxTime
    BY <1>11, BoundAssumption DEF Tick, TypeOK
  <2> QED
    BY <1>11, <2>1 DEF Tick, TypeOK
<1>12. ASSUME NEW signer \in Signers, NEW amount \in Amounts,
              Donate(signer, amount)
       PROVE  TypeOK'
  <2>1. amount \in Nat
    BY InputAssumption, BoundAssumption DEF U64
  <2>2. user_ata' \in [Signers -> Nat] /\ vault_ata' \in Nat
    BY <1>12, <2>1, TransferType DEF Donate
  <2> QED
    BY <1>12, <2>1, <2>2 DEF Donate, TypeOK
<1>13. ASSUME NEW from \in Signers, NEW to \in Signers,
              NEW amount \in Amounts, Pay(from, to, amount)
       PROVE  TypeOK'
  <2>1. amount \in Nat
    BY InputAssumption, BoundAssumption DEF U64
  <2>2. user_ata' \in [Signers -> Nat]
    BY <1>13, <2>1 DEF Pay, TypeOK
  <2> QED
    BY <1>13, <2>2 DEF Pay, TypeOK
<1>14. CASE UNCHANGED vars
  BY <1>14 DEF vars, TypeOK
<1> QED
  BY <1>1, <1>2, <1>3, <1>4, <1>5, <1>6, <1>7, <1>8, <1>9, <1>10, <1>11,
     <1>12, <1>13, <1>14 DEF Next, Program, Environment, Trade

\* Type correctness: recorded payments stay u64 values whatever is bought
\* and sold, and no token account is overdrawn.
THEOREM TypeCorrect == Spec => []TypeOK
BY InitType, NextType, PTL DEF Spec
-----------------------------------------------------------------------------
(* The market implements the escrow.                                       *)

\* Recorded is a function to u64 values.
LEMMA RecordedType ==
  ASSUME TypeOK
  PROVE  Recorded \in [Holdings -> U64]
BY DEF TypeOK, Recorded, Holdings, Positions

\* Recording a payment changes Recorded at one holding.
LEMMA RecordEffect ==
  ASSUME TypeOK, NEW user \in Signers, NEW id \in OptionIds,
         NEW index \in Slots, NEW payment, Record(user, id, index, payment)
  PROVE  /\ Recorded' = [Recorded EXCEPT ![<<user, id, index>>] = payment]
         /\ <<user, id, index>> \in Holdings
<1> DEFINE h == <<user, id, index>>
           p == <<user, id>>
<1>1. p \in Positions /\ h \in Holdings
  BY DEF Positions, Holdings
<1>2. user_payment' = [user_payment EXCEPT ![p][index] = payment]
  BY DEF Record
<1>3. user_payment \in [Positions -> [Slots -> U64]]
  BY DEF TypeOK
<1>4. ASSUME NEW g \in Holdings
      PROVE  user_payment'[<<g[1], g[2]>>][g[3]] =
               IF g = h THEN payment ELSE user_payment[<<g[1], g[2]>>][g[3]]
  <2>1. PICK u \in Signers, i \in OptionIds, x \in Slots : g = <<u, i, x>>
    BY DEF Holdings
  <2>2. <<u, i>> \in Positions
    BY DEF Positions
  <2>3. CASE u = user /\ i = id /\ x = index
    BY <1>1, <1>2, <1>3, <2>1, <2>2, <2>3
  <2>4. CASE u = user /\ i = id /\ x # index
    BY <1>1, <1>2, <1>3, <2>1, <2>2, <2>4
  <2>5. CASE u # user \/ i # id
    <3>1. <<u, i>> # p /\ g # h
      BY <2>1, <2>5
    <3> QED
      BY <1>1, <1>2, <1>3, <2>1, <2>2, <3>1
  <2> QED
    BY <2>3, <2>4, <2>5
<1>5. Recorded' = [g \in Holdings |-> user_payment'[<<g[1], g[2]>>][g[3]]]
  BY DEF Recorded, Holdings, Slots
<1>6. Recorded = [g \in Holdings |-> user_payment[<<g[1], g[2]>>][g[3]]]
  BY DEF Recorded
<1> QED
  BY <1>1, <1>4, <1>5, <1>6

\* Buying is the escrow's Take, selling its Refund.
LEMMA TradeIsEscrow ==
  ASSUME TypeOK, NEW user \in Signers, NEW id \in OptionIds,
         NEW amount \in Amounts, NEW index \in 0..LEN
  PROVE  /\ BuyOption(user, id, amount, index) =>
              \E n \in U64, h \in Holdings : EscrowView!Take(h, n)
         /\ SellOption(user, id, amount, index) =>
              \E n \in U64, h \in Holdings : EscrowView!Refund(h, n)
<1> DEFINE h == <<user, id, index>>
           premium == get_premium(amount, opt_ctrt[id].ctrt_prices[index])
           paid == user_payment[<<user, id>>][index]
<1>1. ASSUME BuyOption(user, id, amount, index)
      PROVE  \E n \in U64, g \in Holdings : EscrowView!Take(g, n)
  <2>1. /\ index \in Slots
        /\ premium \in U64
        /\ Record(user, id, index, paid + premium)
        /\ TransferIn(user, premium)
        /\ UNCHANGED <<withdrawn, donated>>
    BY <1>1 DEF BuyOption, PremiumFits
  <2>2. h \in Holdings /\ Recorded[h] = paid
    BY <2>1 DEF Recorded, Holdings
  <2>3. Recorded' = [Recorded EXCEPT ![h] = @ + premium]
    BY <2>1, <2>2, RecordEffect
  <2>4. vault_ata' = vault_ata + premium
    BY <2>1 DEF TransferIn
  <2> QED
    BY <2>1, <2>2, <2>3, <2>4 DEF EscrowView!Take
<1>2. ASSUME SellOption(user, id, amount, index)
      PROVE  \E n \in U64, g \in Holdings : EscrowView!Refund(g, n)
  <2>1. /\ index \in Slots
        /\ premium \in U64
        /\ Record(user, id, index, paid - premium)
        /\ TransferOut(user, premium)
        /\ UNCHANGED <<withdrawn, donated>>
    BY <1>2 DEF SellOption, PremiumFits
  <2>2. h \in Holdings /\ Recorded[h] = paid
    BY <2>1 DEF Recorded, Holdings
  <2>3. Recorded' = [Recorded EXCEPT ![h] = @ - premium]
    BY <2>1, <2>2, RecordEffect
  <2>4. vault_ata' = vault_ata - premium /\ premium <= vault_ata
    BY <2>1 DEF TransferOut
  <2>5. premium <= Recorded[h]
    <3>1. paid - premium \in U64
      BY <2>1 DEF Record
    <3>2. Recorded[h] \in U64
      BY <2>2, RecordedType
    <3> QED
      BY <2>1, <2>2, <3>1, <3>2, BoundAssumption DEF U64
  <2> QED
    BY <2>1, <2>2, <2>3, <2>4, <2>5 DEF EscrowView!Refund
<1> QED
  BY <1>1, <1>2

\* A step that leaves these variables alone is invisible to the escrow.
LEMMA EscrowStutter ==
  ASSUME UNCHANGED <<user_payment, vault_ata, withdrawn, donated>>
  PROVE  UNCHANGED EscrowView!vars
BY DEF EscrowView!vars, Recorded, Holdings, Slots

\* Every step of the market is a step of the escrow or a stutter.
LEMMA NextEscrow ==
  TypeOK /\ [Next]_vars => [EscrowView!Next]_(EscrowView!vars)
<1> SUFFICES ASSUME TypeOK, [Next]_vars
             PROVE  EscrowView!Next \/ UNCHANGED EscrowView!vars
  OBVIOUS
<1>1. ASSUME NEW user \in Signers, Trade(user)
      PROVE  EscrowView!Next
  BY <1>1, TradeIsEscrow DEF Trade, EscrowView!Next, U64
<1>2. ASSUME NEW signer \in Signers, NEW amount \in Amounts,
             WithdrawToken(signer, amount)
      PROVE  EscrowView!Next
  <2>1. EscrowView!Release(amount)
    BY <1>2 DEF WithdrawToken, TransferOut, EscrowView!Release, Recorded,
                Holdings, Slots
  <2> QED
    BY <2>1, InputAssumption DEF EscrowView!Next, U64
<1>3. ASSUME NEW signer \in Signers, NEW amount \in Amounts,
             Donate(signer, amount)
      PROVE  EscrowView!Next
  <2>1. EscrowView!Fund(amount)
    BY <1>3 DEF Donate, TransferIn, EscrowView!Fund, Recorded, Holdings, Slots
  <2> QED
    BY <2>1, InputAssumption DEF EscrowView!Next, U64
<1>4. ASSUME NEW signer \in Signers, NEW word \in Words,
             InitConfig(signer, word) \/ InitSimpleAcct(signer, word)
      PROVE  UNCHANGED EscrowView!vars
  BY <1>4, EscrowStutter DEF InitConfig, InitSimpleAcct
<1>5. CASE TimeTravel \/ Tick
  BY <1>5, EscrowStutter DEF TimeTravel, Tick
<1>6. ASSUME NEW signer \in Signers, NEW id \in OptionIds,
             \/ InitUserPayment(signer, id)
             \/ \E terms \in Listings : NewOption(signer, id, terms)
      PROVE  UNCHANGED EscrowView!vars
  BY <1>6, EscrowStutter DEF InitUserPayment, NewOption
<1>7. ASSUME NEW admin \in Signers, InitVault(admin) \/ InitVaultAta(admin)
      PROVE  UNCHANGED EscrowView!vars
  BY <1>7, EscrowStutter DEF InitVault, InitVaultAta
<1>8. ASSUME NEW from \in Signers, NEW to \in Signers, NEW amount \in Amounts,
             Pay(from, to, amount)
      PROVE  UNCHANGED EscrowView!vars
  BY <1>8, EscrowStutter DEF Pay
<1>9. CASE UNCHANGED vars
  BY <1>9, EscrowStutter DEF vars
<1> QED
  BY <1>1, <1>2, <1>3, <1>4, <1>5, <1>6, <1>7, <1>8, <1>9
     DEF Next, Program, Environment

\* The initial market is an empty escrow.
LEMMA InitEscrow == Init => EscrowView!Init
BY DEF Init, EscrowView!Init, Recorded, Holdings, Positions

\* Refinement: seen through the recorded payments, the vault's balance, the
\* withdrawal events and stray transfers, the program is the escrow.
THEOREM Refinement == Spec => ImplementsEscrow
<1>1. TypeOK /\ [Next]_vars => [EscrowView!Next]_(EscrowView!vars)
  BY NextEscrow
<1> QED
  BY <1>1, InitEscrow, TypeCorrect, PTL DEF Spec, ImplementsEscrow, EscrowView!Spec
-----------------------------------------------------------------------------
(* Reconciliation follows from the escrow alone.                           *)

\* There are finitely many holdings.
LEMMA HoldingsFinite == IsFiniteSet(Holdings)
<1>1. IsFiniteSet(Slots)
  BY BoundAssumption, FS_Interval DEF Slots
<1>2. IsFiniteSet(Signers \X (OptionIds \X Slots))
  BY <1>1, BoundAssumption, FS_Product
<1> DEFINE flat == [t \in Signers \X (OptionIds \X Slots) |->
                      <<t[1], t[2][1], t[2][2]>>]
<1>3. flat \in Surjection(Signers \X (OptionIds \X Slots), Holdings)
  <2>1. flat \in [Signers \X (OptionIds \X Slots) -> Holdings]
    BY DEF Holdings
  <2>2. ASSUME NEW h \in Holdings
        PROVE  \E t \in Signers \X (OptionIds \X Slots) : flat[t] = h
    <3>1. PICK u \in Signers, i \in OptionIds, x \in Slots : h = <<u, i, x>>
      BY DEF Holdings
    <3> WITNESS <<u, <<i, x>>>> \in Signers \X (OptionIds \X Slots)
    <3> QED
      BY <3>1
  <2> QED
    BY <2>1, <2>2 DEF Surjection
<1> QED
  BY <1>2, <1>3, FS_Surjection

\* Before and after a step, recorded payments are natural numbers.
LEMMA RecordedNat ==
  ASSUME TypeOK, TypeOK'
  PROVE  \A h \in Holdings : Recorded[h] \in Nat /\ Recorded'[h] \in Nat
<1>1. ASSUME NEW h \in Holdings
      PROVE  /\ <<h[1], h[2]>> \in Positions
             /\ h[3] \in Slots
             /\ Recorded[h] = user_payment[<<h[1], h[2]>>][h[3]]
             /\ Recorded'[h] = user_payment'[<<h[1], h[2]>>][h[3]]
  BY DEF Recorded, Holdings, Positions, Slots
<1>2. /\ user_payment \in [Positions -> [Slots -> U64]]
      /\ user_payment' \in [Positions -> [Slots -> U64]]
  BY DEF TypeOK, Positions, Slots, U64
<1>3. U64 \subseteq Nat
  BY BoundAssumption DEF U64
<1> QED
  BY <1>1, <1>2, <1>3

\* An escrow step keeps the sums equal.
LEMMA EscrowReconciles ==
  ASSUME TypeOK, TypeOK', Reconciled, EscrowView!Next
  PROVE  Reconciled'
<1>1. \A h \in Holdings : Recorded[h] \in Nat /\ Recorded'[h] \in Nat
  BY RecordedNat
<1>2. PICK n \in 0..U64_MAX :
        \/ \E h \in Holdings : EscrowView!Take(h, n) \/ EscrowView!Refund(h, n)
        \/ EscrowView!Release(n)
        \/ EscrowView!Fund(n)
  BY DEF EscrowView!Next
<1>3. /\ Recorded \in [Holdings -> U64]
      /\ Total(Recorded, Holdings) \in Nat
      /\ vault_ata \in Nat /\ withdrawn \in Nat /\ donated \in Nat
      /\ n \in Nat
  BY <1>1, HoldingsFinite, TotalType, RecordedType, BoundAssumption DEF TypeOK
<1>4. ASSUME NEW h \in Holdings, EscrowView!Take(h, n)
      PROVE  Reconciled'
  <2>1. Recorded' = [Recorded EXCEPT ![h] = @ + n]
    BY <1>4 DEF EscrowView!Take
  <2>2. Recorded'[h] = Recorded[h] + n
    BY <1>3, <2>1
  <2>3. \A g \in Holdings : g # h => Recorded'[g] = Recorded[g]
    BY <1>3, <2>1
  <2>4. Total(Recorded', Holdings) = Total(Recorded, Holdings) + n
    <3>1. SUFFICES ASSUME NEW f, NEW g, f = Recorded, g = Recorded'
                   PROVE  Total(g, Holdings) = Total(f, Holdings) + n
      OBVIOUS
    <3>2. \A k \in Holdings : f[k] \in Nat /\ g[k] \in Nat
      BY <1>1, <3>1
    <3>3. \A k \in Holdings : k # h => g[k] = f[k]
      BY <2>3, <3>1
    <3>4. g[h] = f[h] + n
      BY <2>2, <3>1
    <3> QED
      BY <1>3, <3>2, <3>3, <3>4, HoldingsFinite, TotalRaise
  <2> QED
    BY <1>3, <1>4, <2>4 DEF EscrowView!Take, Reconciled, Holdings, Slots, Total
<1>5. ASSUME NEW h \in Holdings, EscrowView!Refund(h, n)
      PROVE  Reconciled'
  <2>1. Recorded' = [Recorded EXCEPT ![h] = @ - n]
    BY <1>5 DEF EscrowView!Refund
  <2>2. Recorded'[h] = Recorded[h] - n
    BY <1>3, <2>1
  <2>3. \A g \in Holdings : g # h => Recorded'[g] = Recorded[g]
    BY <1>3, <2>1
  <2>4. Total(Recorded', Holdings) = Total(Recorded, Holdings) - n
    <3>1. SUFFICES ASSUME NEW f, NEW g, f = Recorded, g = Recorded'
                   PROVE  Total(g, Holdings) = Total(f, Holdings) - n
      OBVIOUS
    <3>2. \A k \in Holdings : g[k] \in Nat /\ f[k] \in Nat
      BY <1>1, <3>1
    <3>3. \A k \in Holdings : k # h => f[k] = g[k]
      BY <2>3, <3>1
    <3>4. f[h] = g[h] + n
      BY <1>3, <2>2, <3>1, <3>2
    <3>5. Total(f, Holdings) = Total(g, Holdings) + n
      BY <1>3, <3>2, <3>3, <3>4, HoldingsFinite, TotalRaise
    <3>6. Total(f, Holdings) \in Nat /\ Total(g, Holdings) \in Nat
      BY <3>2, HoldingsFinite, TotalType
    <3> QED
      BY <1>3, <3>5, <3>6
  <2> QED
    BY <1>3, <1>5, <2>4 DEF EscrowView!Refund, Reconciled, Holdings, Slots, Total
<1>6. CASE EscrowView!Release(n) \/ EscrowView!Fund(n)
  <2>1. Total(Recorded', Holdings) = Total(Recorded, Holdings)
    BY <1>6 DEF EscrowView!Release, EscrowView!Fund
  <2> QED
    BY <1>3, <1>6, <2>1
       DEF EscrowView!Release, EscrowView!Fund, Reconciled, Holdings, Slots, Total
<1> QED
  BY <1>2, <1>4, <1>5, <1>6

\* Reconciliation: the vault's tokens and the withdrawal events account for
\* every recorded payment and every token sent to the vault.
THEOREM ReconciledAlways == Spec => []Reconciled
<1>1. Init => Reconciled
  <2> SUFFICES ASSUME Init
               PROVE  Reconciled
    OBVIOUS
  <2>1. \A h \in Holdings : Recorded[h] = 0
    BY InitEscrow DEF EscrowView!Init
  <2>2. Total(Recorded, Holdings) = 0
    BY <2>1, TotalZero
  <2> QED
    BY <2>2 DEF Init, Reconciled
<1>2. TypeOK /\ TypeOK' /\ Reconciled /\ [Next]_vars => Reconciled'
  <2> SUFFICES ASSUME TypeOK, TypeOK', Reconciled, [Next]_vars
               PROVE  Reconciled'
    OBVIOUS
  <2>1. CASE EscrowView!Next
    BY <2>1, EscrowReconciles
  <2>2. CASE UNCHANGED EscrowView!vars
    BY <2>2 DEF EscrowView!vars, Reconciled, Total, Holdings, Slots
  <2> QED
    BY <2>1, <2>2, NextEscrow
<1> QED
  BY <1>1, <1>2, TypeCorrect, PTL DEF Spec
-----------------------------------------------------------------------------
(* The account graph, the closed market and the whole-contract invariant.  *)

\* Whatever leaves the payments alone leaves what is recorded alone.
LEMMA RecordedSame ==
  ASSUME UNCHANGED user_payment
  PROVE  Recorded' = Recorded
BY DEF Recorded, Holdings, Slots

\* What a trade changes, as a user's array and as the recorded payments.
LEMMA TradeEffect ==
  ASSUME TypeOK, NEW user \in Signers, NEW id \in OptionIds,
         NEW amount \in Amounts, NEW index \in 0..LEN,
         \/ BuyOption(user, id, amount, index)
         \/ SellOption(user, id, amount, index)
  PROVE  /\ TradeAccounts(user, id)
         /\ <<user, id, index>> \in Holdings
         /\ UNCHANGED <<clock, created, config, listed, opt_ctrt, opened,
                        simple_acct, withdrawn, donated>>
         /\ \E payment \in U64 :
              Recorded' = [Recorded EXCEPT ![<<user, id, index>>] = payment]
<1>1. TradeAccounts(user, id) /\ index \in Slots
  BY DEF BuyOption, SellOption
<1>2. \E payment : Record(user, id, index, payment)
  BY DEF BuyOption, SellOption
<1>3. PICK payment : Record(user, id, index, payment)
  BY <1>2
<1>4. payment \in U64
  BY <1>3 DEF Record
<1>5. UNCHANGED <<clock, created, config, listed, opt_ctrt, opened,
                  simple_acct, withdrawn, donated>>
  BY DEF BuyOption, SellOption
<1> QED
  BY <1>1, <1>3, <1>4, <1>5, RecordEffect

\* The account graph holds of an empty market, with or without a config.
LEMMA InitGraph == Init => AccountGraph
<1> SUFFICES ASSUME Init
             PROVE  AccountGraph
  OBVIOUS
<1>1. \A h \in Holdings : Recorded[h] = 0
  BY InitEscrow DEF EscrowView!Init
<1> QED
  BY <1>1 DEF Init, AccountGraph

\* Every step keeps the account graph.
LEMMA NextGraph == TypeOK /\ AccountGraph /\ [Next]_vars => AccountGraph'
<1> SUFFICES ASSUME TypeOK, AccountGraph, [Next]_vars
             PROVE  AccountGraph'
  OBVIOUS
<1> USE DEF AccountGraph
<1>1. ASSUME NEW signer \in Signers, NEW word \in Words,
             InitConfig(signer, word) \/ InitSimpleAcct(signer, word)
      PROVE  AccountGraph'
  BY <1>1, RecordedSame DEF InitConfig, InitSimpleAcct, Holdings, Slots
<1>2. ASSUME NEW signer \in Signers, NEW amount \in Amounts,
             WithdrawToken(signer, amount)
      PROVE  AccountGraph'
  BY <1>2, RecordedSame DEF WithdrawToken, Holdings, Slots
<1>3. CASE TimeTravel \/ Tick
  BY <1>3, RecordedSame DEF TimeTravel, Tick, Holdings, Slots
<1>4. ASSUME NEW signer \in Signers, NEW id \in OptionIds,
             NEW terms \in Listings, NewOption(signer, id, terms)
      PROVE  AccountGraph'
  BY <1>4, RecordedSame DEF NewOption, Holdings, Slots
<1>5. ASSUME NEW user \in Signers, NEW id \in OptionIds,
             InitUserPayment(user, id)
      PROVE  AccountGraph'
  BY <1>5, RecordedSame DEF InitUserPayment, Holdings, Slots
<1>6. ASSUME NEW admin \in Signers, InitVault(admin) \/ InitVaultAta(admin)
      PROVE  AccountGraph'
  <2>1. /\ created \subseteq created'
        /\ "vault_ata" \in created' => "vault" \in created'
        /\ "vault" \in created' => "config" \in created'
        /\ UNCHANGED <<listed, opened, vault_ata, withdrawn, donated>>
        /\ Recorded' = Recorded
    BY <1>6, RecordedSame DEF InitVault, InitVaultAta
  <2> QED
    BY <2>1 DEF Holdings, Slots
<1>7. ASSUME NEW user \in Signers, NEW id \in OptionIds,
             NEW amount \in Amounts, NEW index \in 0..LEN,
             \/ BuyOption(user, id, amount, index)
             \/ SellOption(user, id, amount, index)
      PROVE  AccountGraph'
  <2>1. /\ "vault_ata" \in created
        /\ <<user, id>> \in opened
        /\ UNCHANGED <<created, listed, opened>>
    BY <1>7, TradeEffect DEF TradeAccounts
  <2>2. PICK payment \in U64 :
          Recorded' = [Recorded EXCEPT ![<<user, id, index>>] = payment]
    BY <1>7, TradeEffect
  <2>3. ASSUME NEW h \in Holdings, Recorded'[h] > 0
        PROVE  <<h[1], h[2]>> \in opened
    <3>1. CASE h = <<user, id, index>>
      BY <2>1, <3>1
    <3>2. CASE h # <<user, id, index>>
      <4>1. Recorded'[h] = Recorded[h]
        BY <2>2, <3>2, RecordedType
      <4> QED
        BY <2>3, <4>1
    <3> QED
      BY <3>1, <3>2
  <2> QED
    BY <2>1, <2>3 DEF Holdings, Slots
<1>8. ASSUME NEW signer \in Signers, NEW amount \in Amounts,
             Donate(signer, amount)
      PROVE  AccountGraph'
  BY <1>8, RecordedSame DEF Donate, Holdings, Slots
<1>9. ASSUME NEW from \in Signers, NEW to \in Signers, NEW amount \in Amounts,
             Pay(from, to, amount)
      PROVE  AccountGraph'
  BY <1>9, RecordedSame DEF Pay, Holdings, Slots
<1>10. CASE UNCHANGED vars
  BY <1>10, RecordedSame DEF vars, Holdings, Slots
<1> QED
  BY <1>1, <1>2, <1>3, <1>4, <1>5, <1>6, <1>7, <1>8, <1>9, <1>10
     DEF Next, Program, Environment, Trade

\* Accounts exist only with the accounts they depend on, and payments and
\* tokens only where there is an account to hold them.
THEOREM AccountGraphAlways == Spec => []AccountGraph
BY InitGraph, NextGraph, TypeCorrect, PTL DEF Spec

\* A step keeps the market of a config without a mint closed.
LEMMA NextClosed ==
  TypeOK /\ AccountGraph /\ UnsetMintClosesMarket /\ [Next]_vars
    => UnsetMintClosesMarket'
<1> SUFFICES ASSUME TypeOK, AccountGraph, UnsetMintClosesMarket, [Next]_vars,
                    "config" \in created', config'.mint = DefaultKey
             PROVE  /\ "vault_ata" \notin created'
                    /\ \A h \in Holdings : Recorded'[h] = 0
  BY DEF UnsetMintClosesMarket, Holdings, Slots
<1>1. config.mint = DefaultKey => /\ "vault_ata" \notin created
                                  /\ \A h \in Holdings : Recorded[h] = 0
  <2>1. "config" \notin created => /\ "vault_ata" \notin created
                                   /\ \A h \in Holdings : Recorded[h] = 0
    <3>1. \A h \in Holdings : Recorded[h] \in Nat
      BY RecordedType, BoundAssumption DEF U64
    <3>2. "vault_ata" \in created => "config" \in created
      BY DEF AccountGraph
    <3>3. \A h \in Holdings : Recorded[h] > 0 => "vault_ata" \in created
      BY DEF AccountGraph
    <3> QED
      BY <3>1, <3>2, <3>3
  <2> QED
    BY <2>1 DEF UnsetMintClosesMarket
<1>2. ASSUME config'.mint = config.mint, Recorded' = Recorded,
             "vault_ata" \in created' => "vault_ata" \in created
      PROVE  /\ "vault_ata" \notin created'
             /\ \A h \in Holdings : Recorded'[h] = 0
  BY <1>1, <1>2
<1>3. ASSUME NEW signer \in Signers, NEW word \in Words,
             InitConfig(signer, word) \/ InitSimpleAcct(signer, word)
      PROVE  /\ config'.mint = config.mint
             /\ Recorded' = Recorded
             /\ "vault_ata" \in created' => "vault_ata" \in created
  BY <1>3, RecordedSame DEF InitConfig, InitSimpleAcct, WriteBack, TypeOK, Config
<1>4. ASSUME TimeTravel
      PROVE  /\ config'.mint = config.mint
             /\ Recorded' = Recorded
             /\ "vault_ata" \in created' => "vault_ata" \in created
  BY <1>4, RecordedSame DEF TimeTravel, WriteBack, TypeOK, Config
<1>5. ASSUME NEW admin \in Signers, InitVault(admin)
      PROVE  /\ config'.mint = config.mint
             /\ Recorded' = Recorded
             /\ "vault_ata" \in created' => "vault_ata" \in created
  BY <1>5, RecordedSame DEF InitVault, WriteBack
<1>6. ASSUME NEW admin \in Signers, InitVaultAta(admin)
      PROVE  FALSE
  BY <1>6, KeyAssumption DEF InitVaultAta, WriteBack, TokenConstraints
<1>7. ASSUME NEW user \in Signers, Trade(user)
      PROVE  FALSE
  <2>1. PICK id \in OptionIds, amount \in Amounts, index \in 0..LEN :
          \/ BuyOption(user, id, amount, index)
          \/ SellOption(user, id, amount, index)
    BY <1>7 DEF Trade
  <2>2. config' = config /\ TokenConstraints
    BY <2>1, TradeEffect DEF TradeAccounts
  <2> QED
    BY <2>2, KeyAssumption DEF TokenConstraints
<1>8. ASSUME NEW signer \in Signers, NEW id \in OptionIds,
             \/ InitUserPayment(signer, id)
             \/ \E terms \in Listings : NewOption(signer, id, terms)
      PROVE  UNCHANGED <<config, created, user_payment>>
  BY <1>8 DEF InitUserPayment, NewOption
<1>9. ASSUME NEW signer \in Signers, NEW amount \in Amounts,
             \/ WithdrawToken(signer, amount)
             \/ Donate(signer, amount)
             \/ \E to \in Signers : Pay(signer, to, amount)
      PROVE  UNCHANGED <<config, created, user_payment>>
  BY <1>9 DEF WithdrawToken, Donate, Pay
<1>10. CASE Tick \/ UNCHANGED vars
  BY <1>2, <1>10, RecordedSame DEF Tick, vars
<1>11. ASSUME UNCHANGED <<config, created, user_payment>>
       PROVE  /\ "vault_ata" \notin created'
              /\ \A h \in Holdings : Recorded'[h] = 0
  BY <1>2, <1>11, RecordedSame
<1>12. CASE Program
  BY <1>2, <1>3, <1>4, <1>5, <1>6, <1>7, <1>8, <1>9, <1>11, <1>12 DEF Program
<1>13. CASE Environment
  BY <1>9, <1>10, <1>11, <1>13 DEF Environment
<1> QED
  BY <1>10, <1>12, <1>13 DEF Next

\* On a config whose mint was never set nobody can ever trade.
THEOREM UnsetMintStaysClosed == Spec => []UnsetMintClosesMarket
<1>1. Init => UnsetMintClosesMarket
  <2> SUFFICES ASSUME Init
               PROVE  UnsetMintClosesMarket
    OBVIOUS
  <2>1. \A h \in Holdings : Recorded[h] = 0
    BY InitEscrow DEF EscrowView!Init
  <2> QED
    BY <2>1 DEF Init, UnsetMintClosesMarket
<1> QED
  BY <1>1, NextClosed, TypeCorrect, AccountGraphAlways, PTL DEF Spec
-----------------------------------------------------------------------------
(* Every position is a whole number of contracts that one sale can close.  *)

\* Listed contracts have positive prices: what FullExit needs to bound the
\* number of contracts by their premium.
ListedPrices ==
  \A id \in listed : \A x \in Slots : opt_ctrt[id].ctrt_prices[x] > 0

\* Buying nothing costs nothing.
LEMMA PremiumZero ==
  ASSUME NEW price \in Nat
  PROVE  PremiumFits(0, price) /\ get_premium(0, price) = 0
<1>1. 0 * OPTION_SHARES = 0 /\ price * 0 = 0
  BY BoundAssumption
<1> QED
  BY <1>1, BoundAssumption DEF PremiumFits, get_premium, U64

\* The premium of a contracts and of b contracts is that of a + b contracts.
LEMMA PremiumSum ==
  ASSUME NEW price \in Nat, NEW a \in Nat, NEW b \in Nat
  PROVE  get_premium(a, price) + get_premium(b, price) = get_premium(a + b, price)
<1>1. (a + b) * OPTION_SHARES = a * OPTION_SHARES + b * OPTION_SHARES
  BY BoundAssumption
<1>2. a * OPTION_SHARES \in Nat /\ b * OPTION_SHARES \in Nat
  BY BoundAssumption
<1>3. \A x, y \in Nat : price * (x + y) = price * x + price * y
  OBVIOUS
<1> QED
  BY <1>1, <1>2, <1>3 DEF get_premium

\* At a positive price a premium that is a u64 is computed without overflow.
LEMMA PremiumBounds ==
  ASSUME NEW price \in Nat, price > 0, NEW a \in Nat,
         get_premium(a, price) \in U64
  PROVE  a \in U64 /\ PremiumFits(a, price)
<1>1. OPTION_SHARES \in Nat /\ OPTION_SHARES > 0
  BY BoundAssumption
<1>2. a * OPTION_SHARES \in Nat /\ a <= a * OPTION_SHARES
  BY <1>1
<1>3. \A x \in Nat : x <= price * x
  OBVIOUS
<1>4. a * OPTION_SHARES <= get_premium(a, price)
  BY <1>2, <1>3 DEF get_premium
<1> QED
  BY <1>2, <1>4, BoundAssumption DEF PremiumFits, U64

\* A premium grows with the number of contracts.
LEMMA PremiumMonotone ==
  ASSUME NEW price \in Nat, price > 0, NEW a \in Nat, NEW b \in Nat,
         get_premium(a, price) <= get_premium(b, price)
  PROVE  a <= b
<1> SUFFICES ASSUME b < a
             PROVE  get_premium(b, price) < get_premium(a, price)
  <2>1. \A n \in Nat : get_premium(n, price) \in Nat
    BY BoundAssumption DEF get_premium
  <2> QED
    BY <2>1
<1>1. a = b + (a - b) /\ a - b \in Nat /\ a - b > 0
  OBVIOUS
<1>2. get_premium(a, price) = get_premium(b, price) + get_premium(a - b, price)
  BY <1>1, PremiumSum
<1>3. get_premium(a - b, price) \in Nat /\ get_premium(a - b, price) > 0
  <2>1. (a - b) * OPTION_SHARES \in Nat /\ (a - b) * OPTION_SHARES > 0
    BY <1>1, BoundAssumption
  <2>2. \A x \in Nat : x > 0 => price * x \in Nat /\ price * x > 0
    OBVIOUS
  <2> QED
    BY <2>1, <2>2 DEF get_premium
<1>4. get_premium(b, price) \in Nat
  BY BoundAssumption DEF get_premium
<1> QED
  BY <1>2, <1>3, <1>4

\* Buying and selling contracts leave a closable position closable.
LEMMA ClosableMoves ==
  ASSUME NEW price \in Nat, price > 0, NEW owed \in U64,
         Closable(owed, price), NEW n \in U64, NEW payment \in U64,
         \/ payment = owed + get_premium(n, price)
         \/ payment = owed - get_premium(n, price)
  PROVE  Closable(payment, price)
<1>1. PICK m \in U64 : get_premium(m, price) = owed
  BY DEF Closable
<1>2. m \in Nat /\ n \in Nat /\ owed \in Nat /\ payment \in Nat
  BY BoundAssumption DEF U64
<1>3. get_premium(n, price) \in Nat
  BY <1>2, BoundAssumption DEF get_premium
<1>4. CASE payment = owed + get_premium(n, price)
  <2>1. get_premium(m + n, price) = payment /\ m + n \in Nat
    BY <1>1, <1>2, <1>4, PremiumSum
  <2> QED
    BY <2>1, PremiumBounds DEF Closable
<1>5. CASE payment = owed - get_premium(n, price)
  <2>1. get_premium(n, price) <= get_premium(m, price)
    BY <1>1, <1>2, <1>3, <1>5
  <2>2. n <= m
    BY <1>2, <2>1, PremiumMonotone
  <2>3. m - n \in Nat /\ m = (m - n) + n
    BY <1>2, <2>2
  <2>4. get_premium(m - n, price) + get_premium(n, price) = owed
    BY <1>1, <1>2, <2>3, PremiumSum
  <2>5. get_premium(m - n, price) \in Nat
    BY <2>3, BoundAssumption DEF get_premium
  <2>6. get_premium(m - n, price) = payment
    BY <1>2, <1>3, <1>5, <2>4, <2>5
  <2> QED
    BY <2>3, <2>6, PremiumBounds DEF Closable
<1> QED
  BY <1>4, <1>5

\* The price of a holding's option is a natural number.
LEMMA PriceType ==
  ASSUME TypeOK, NEW h \in Holdings
  PROVE  price_of(h) \in Nat
<1>1. h[2] \in OptionIds /\ h[3] \in Slots
  BY DEF Holdings
<1>2. opt_ctrt[h[2]].ctrt_prices \in [Slots -> U64]
  BY <1>1 DEF TypeOK, OptContract
<1> QED
  BY <1>1, <1>2, BoundAssumption DEF price_of, U64

\* A trade leaves every position closable.
LEMMA TradeClosable ==
  ASSUME TypeOK, AccountGraph, ListedPrices, FullExit,
         NEW user \in Signers, NEW id \in OptionIds,
         NEW amount \in Amounts, NEW index \in 0..LEN,
         \/ BuyOption(user, id, amount, index)
         \/ SellOption(user, id, amount, index),
         NEW g \in Holdings
  PROVE  Closable(Recorded'[g], price_of(g)')
<1> DEFINE h == <<user, id, index>>
           price == opt_ctrt[id].ctrt_prices[index]
           paid == user_payment[<<user, id>>][index]
<1>1. /\ h \in Holdings
      /\ id \in listed
      /\ index \in Slots
      /\ UNCHANGED opt_ctrt
  BY TradeEffect DEF TradeAccounts, Holdings
<1>2. price_of(g)' = price_of(g)
  BY <1>1 DEF price_of
<1>3. \E payment \in U64 :
        /\ Record(user, id, index, payment)
        /\ \/ payment = paid + get_premium(amount, price)
           \/ payment = paid - get_premium(amount, price)
  BY DEF BuyOption, SellOption, Record
<1>4. PICK payment \in U64 :
        /\ Record(user, id, index, payment)
        /\ \/ payment = paid + get_premium(amount, price)
           \/ payment = paid - get_premium(amount, price)
  BY <1>3
<1>5. Recorded' = [Recorded EXCEPT ![h] = payment]
  BY <1>1, <1>4, RecordEffect
<1>6. CASE g # h
  <2>1. Recorded'[g] = Recorded[g]
    BY <1>5, <1>6, RecordedType
  <2> QED
    BY <1>2, <2>1 DEF FullExit
<1>7. CASE g = h
  <2>1. Recorded'[g] = payment /\ Recorded[h] = paid /\ Recorded[h] \in U64
    <3>1. Recorded[h] = paid
      BY <1>1 DEF Recorded, Holdings
    <3> QED
      BY <1>1, <1>5, <1>7, <3>1, RecordedType
  <2>2. price_of(h) = price /\ price \in Nat /\ price > 0
    <3>1. price_of(h) = price
      BY DEF price_of
    <3>2. price > 0
      BY <1>1 DEF ListedPrices
    <3> QED
      BY <1>1, <3>1, <3>2, PriceType
  <2>3. Closable(paid, price)
    BY <1>1, <2>1, <2>2 DEF FullExit
  <2>4. amount \in U64
    BY InputAssumption
  <2>5. Closable(payment, price)
    BY <1>4, <2>1, <2>2, <2>3, <2>4, ClosableMoves
  <2> QED
    BY <1>2, <1>7, <2>1, <2>2, <2>5
<1> QED
  BY <1>6, <1>7

\* Listing a contract sets prices only where nothing is recorded.
LEMMA ListingClosable ==
  ASSUME TypeOK, AccountGraph, FullExit, NEW signer \in Signers,
         NEW id \in OptionIds, NEW terms \in Listings,
         NewOption(signer, id, terms), TypeOK', NEW g \in Holdings
  PROVE  Closable(Recorded'[g], price_of(g)')
<1>1. Recorded' = Recorded /\ opt_ctrt' = [opt_ctrt EXCEPT ![id] = terms]
      /\ id \notin listed
  BY RecordedSame DEF NewOption, InitOnly
<1>2. CASE g[2] # id
  <2>1. price_of(g)' = price_of(g)
    BY <1>1, <1>2 DEF price_of, TypeOK, Holdings
  <2> QED
    BY <1>1, <2>1 DEF FullExit
<1>3. CASE g[2] = id
  <2>1. Recorded[g] \in U64
    BY RecordedType
  <2>2. ~ (Recorded[g] > 0)
    BY <1>1, <1>3 DEF AccountGraph
  <2>3. Recorded[g] = 0
    BY <2>1, <2>2, BoundAssumption DEF U64
  <2>4. price_of(g)' \in Nat
    <3>1. g[2] \in OptionIds /\ g[3] \in Slots
      BY DEF Holdings
    <3>2. terms.ctrt_prices \in [Slots -> U64]
      BY InputAssumption DEF OptContract
    <3>3. price_of(g)' = terms.ctrt_prices[g[3]]
      BY <1>1, <1>3, <3>1 DEF price_of, TypeOK
    <3> QED
      BY <3>1, <3>2, <3>3, BoundAssumption DEF U64
  <2>5. 0 \in U64
    BY BoundAssumption DEF U64
  <2> QED
    BY <1>1, <2>3, <2>4, <2>5, PremiumZero DEF Closable
<1> QED
  BY <1>2, <1>3

\* Listed prices stay positive: new_option checks them and nothing else
\* writes them.
LEMMA NextPrices == TypeOK /\ ListedPrices /\ [Next]_vars => ListedPrices'
<1> SUFFICES ASSUME TypeOK, ListedPrices, [Next]_vars
             PROVE  ListedPrices'
  OBVIOUS
<1>1. ASSUME UNCHANGED <<listed, opt_ctrt>>
      PROVE  ListedPrices'
  BY <1>1 DEF ListedPrices, Slots
<1>2. ASSUME NEW signer \in Signers, NEW id \in OptionIds,
             NEW terms \in Listings, NewOption(signer, id, terms)
      PROVE  ListedPrices'
  BY <1>2 DEF NewOption, ListedPrices, TypeOK, Slots
<1>3. ASSUME NEW user \in Signers, Trade(user)
      PROVE  UNCHANGED <<listed, opt_ctrt>>
  BY <1>3 DEF Trade, BuyOption, SellOption
<1>4. ASSUME ~ \E signer \in Signers, id \in OptionIds, terms \in Listings :
                 NewOption(signer, id, terms),
             ~ \E user \in Signers : Trade(user)
      PROVE  UNCHANGED <<listed, opt_ctrt>>
  BY <1>4 DEF Next, Program, Environment, InitConfig, InitSimpleAcct,
     WithdrawToken, TimeTravel, InitUserPayment, InitVault, InitVaultAta,
     Tick, Donate, Pay, vars
<1> QED
  BY <1>1, <1>2, <1>3, <1>4

\* Every step leaves every position closable.
LEMMA NextExit ==
  TypeOK /\ TypeOK' /\ AccountGraph /\ ListedPrices /\ FullExit /\ [Next]_vars
    => FullExit'
<1> SUFFICES ASSUME TypeOK, TypeOK', AccountGraph, ListedPrices, FullExit,
                    [Next]_vars, NEW g \in Holdings
             PROVE  Closable(Recorded'[g], price_of(g)')
  BY DEF FullExit, Closable, PremiumFits, get_premium, Holdings, Slots
<1>1. ASSUME NEW signer \in Signers, NEW id \in OptionIds,
             NEW terms \in Listings, NewOption(signer, id, terms)
      PROVE  Closable(Recorded'[g], price_of(g)')
  BY <1>1, ListingClosable
<1>2. ASSUME NEW user \in Signers, Trade(user)
      PROVE  Closable(Recorded'[g], price_of(g)')
  BY <1>2, TradeClosable DEF Trade
<1>3. ASSUME UNCHANGED <<opt_ctrt, user_payment>>
      PROVE  Closable(Recorded'[g], price_of(g)')
  <2>1. Recorded' = Recorded /\ price_of(g)' = price_of(g)
    BY <1>3, RecordedSame DEF price_of
  <2> QED
    BY <2>1 DEF FullExit
<1>4. ASSUME ~ \E signer \in Signers, id \in OptionIds, terms \in Listings :
                 NewOption(signer, id, terms),
             ~ \E user \in Signers : Trade(user)
      PROVE  UNCHANGED <<opt_ctrt, user_payment>>
  BY <1>4 DEF Next, Program, Environment, InitConfig, InitSimpleAcct,
     WithdrawToken, TimeTravel, InitUserPayment, InitVault, InitVaultAta,
     Tick, Donate, Pay, vars
<1> QED
  BY <1>1, <1>2, <1>3, <1>4

\* No position is ever stuck in the arithmetic: one sell_option of a whole
\* number of contracts closes it without overflow.
THEOREM FullExitAlways == Spec => []FullExit
<1>1. Init => ListedPrices
  BY DEF Init, ListedPrices
<1>2. Init => FullExit
  <2> SUFFICES ASSUME Init, NEW h \in Holdings
               PROVE  Closable(Recorded[h], price_of(h))
    BY DEF FullExit
  <2>1. Recorded[h] = 0
    BY InitEscrow DEF EscrowView!Init
  <2>2. price_of(h) \in Nat
    BY InitType, PriceType
  <2>3. 0 \in U64
    BY BoundAssumption DEF U64
  <2> QED
    BY <2>1, <2>2, <2>3, PremiumZero DEF Closable
<1>3. TypeOK /\ ListedPrices /\ [Next]_vars => ListedPrices'
  BY NextPrices
<1>4. TypeOK /\ TypeOK' /\ AccountGraph /\ ListedPrices /\ FullExit /\ [Next]_vars
        => FullExit'
  BY NextExit
<1> QED
  BY <1>1, <1>2, <1>3, <1>4, TypeCorrect, AccountGraphAlways, PTL DEF Spec
-----------------------------------------------------------------------------
(* Nobody is locked in.                                                    *)

\* The vault's token account was opened under the config's mint and token
\* program, and no instruction changes them afterwards: what NobodyTrapped
\* needs of the config.
MintStands == "vault_ata" \in created => TokenConstraints

\* Every step keeps the constraints the vault's token account was opened
\* under.
LEMMA NextStands ==
  TypeOK /\ AccountGraph /\ MintStands /\ [Next]_vars => MintStands'
<1> SUFFICES ASSUME TypeOK, AccountGraph, MintStands, [Next]_vars,
                    "vault_ata" \in created'
             PROVE  TokenConstraints'
  BY DEF MintStands
<1>1. ASSUME config'.mint = config.mint,
             config'.token_program = config.token_program,
             "vault_ata" \in created
      PROVE  TokenConstraints'
  BY <1>1 DEF MintStands, TokenConstraints
<1>2. ASSUME NEW signer \in Signers, NEW word \in Words,
             InitConfig(signer, word)
      PROVE  FALSE
  BY <1>2 DEF InitConfig, InitOnly, AccountGraph
<1>3. CASE TimeTravel
  <2>1. /\ config'.mint = config.mint
        /\ config'.token_program = config.token_program
    BY <1>3 DEF TimeTravel, WriteBack, TypeOK, Config
  <2> QED
    BY <1>1, <1>3, <2>1 DEF TimeTravel
<1>4. ASSUME NEW admin \in Signers, InitVaultAta(admin)
      PROVE  TokenConstraints'
  BY <1>4 DEF InitVaultAta, WriteBack, TokenConstraints
<1>5. ASSUME NEW admin \in Signers, InitVault(admin)
      PROVE  TokenConstraints'
  BY <1>1, <1>5 DEF InitVault, WriteBack
<1>6. ASSUME NEW signer \in Signers, NEW word \in Words,
             InitSimpleAcct(signer, word)
      PROVE  TokenConstraints'
  BY <1>1, <1>6 DEF InitSimpleAcct
<1>7. ASSUME NEW user \in Signers, Trade(user)
      PROVE  UNCHANGED <<config, created>>
  BY <1>7 DEF Trade, BuyOption, SellOption
<1>8. ASSUME NEW signer \in Signers, NEW id \in OptionIds,
             \/ InitUserPayment(signer, id)
             \/ \E terms \in Listings : NewOption(signer, id, terms)
      PROVE  UNCHANGED <<config, created>>
  BY <1>8 DEF InitUserPayment, NewOption
<1>9. ASSUME NEW signer \in Signers, NEW amount \in Amounts,
             \/ WithdrawToken(signer, amount)
             \/ Donate(signer, amount)
             \/ \E to \in Signers : Pay(signer, to, amount)
      PROVE  UNCHANGED <<config, created>>
  BY <1>9 DEF WithdrawToken, Donate, Pay
<1>10. CASE Tick \/ UNCHANGED vars
  BY <1>1, <1>10 DEF Tick, vars
<1>11. ASSUME UNCHANGED <<config, created>>
       PROVE  TokenConstraints'
  BY <1>1, <1>11
<1>12. CASE Program
  BY <1>2, <1>3, <1>4, <1>5, <1>6, <1>7, <1>8, <1>9, <1>11, <1>12 DEF Program
<1>13. CASE Environment
  BY <1>9, <1>10, <1>11, <1>13 DEF Environment
<1> QED
  BY <1>10, <1>12, <1>13 DEF Next

\* While no more was withdrawn than was donated and the others have recorded,
\* the vault holds what a user has.
LEMMA VaultCovers ==
  ASSUME TypeOK, Reconciled, NEW h \in Holdings, withdrawn <= donated + Others(h)
  PROVE  Recorded[h] <= vault_ata
<1>1. \A k \in Holdings : Recorded[k] \in Nat
  BY RecordedType, BoundAssumption DEF U64
<1>2. /\ Others(h) \in Nat
      /\ Total(Recorded, Holdings) = Others(h) + Recorded[h]
  <2> SUFFICES ASSUME NEW f, f = Recorded
               PROVE  /\ Total(f, Holdings \ {h}) \in Nat
                      /\ Total(f, Holdings) = Total(f, Holdings \ {h}) + f[h]
    BY DEF Others
  <2>1. \A k \in Holdings : f[k] \in Nat
    BY <1>1
  <2> QED
    BY <2>1, HoldingsFinite, TotalSplit
<1>3. vault_ata + withdrawn = donated + Total(Recorded, Holdings)
  BY DEF Reconciled
<1>4. vault_ata \in Nat /\ withdrawn \in Nat /\ donated \in Nat
  BY DEF TypeOK
<1> QED
  BY <1>1, <1>2, <1>3, <1>4

\* Before its expiry an option can be sold back in one call, with its
\* accounts, its premium and its tokens in place, unless withdraw_token took
\* more than all the others' payments and the tokens sent to the vault.
THEOREM NobodyIsTrapped == Spec => []NobodyTrapped
<1>1. Init => MintStands
  BY DEF Init, MintStands
<1>2. TypeOK /\ AccountGraph /\ MintStands /\ Reconciled /\ FullExit
        => NobodyTrapped
  <2> SUFFICES ASSUME TypeOK, AccountGraph, MintStands, Reconciled, FullExit,
                      NEW h \in Holdings, Recorded[h] > 0,
                      withdrawn <= donated + Others(h)
               PROVE  SellsOut(h)
    BY DEF NobodyTrapped
  <2>1. <<h[1], h[2]>> \in opened /\ "vault_ata" \in created
    BY DEF AccountGraph
  <2>2. h[2] \in listed
    BY <2>1 DEF AccountGraph
  <2>3. {"config", "vault", "vault_ata"} \subseteq created
    BY <2>1 DEF AccountGraph
  <2>4. TokenConstraints
    BY <2>1 DEF MintStands
  <2>5. TradeAccounts(h[1], h[2])
    BY <2>1, <2>2, <2>3, <2>4 DEF TradeAccounts
  <2>6. Closable(Recorded[h], price_of(h))
    BY DEF FullExit
  <2>7. Recorded[h] <= vault_ata
    BY VaultCovers
  <2> QED
    BY <2>3, <2>5, <2>6, <2>7 DEF SellsOut
<1> QED
  BY <1>1, <1>2, NextStands, TypeCorrect, AccountGraphAlways,
     ReconciledAlways, FullExitAlways, PTL DEF Spec
-----------------------------------------------------------------------------
(* What a step may never do.                                               *)

\* No step closes an account, initialises one twice, changes the terms of a
\* listed contract or any field of an existing config but new_u32.
THEOREM TermsStayFrozen == Spec => TermsFrozen
<1> DEFINE Frozen ==
             /\ created \subseteq created'
             /\ opened \subseteq opened'
             /\ listed \subseteq listed'
             /\ \A id \in listed : opt_ctrt'[id] = opt_ctrt[id]
             /\ "config" \in created =>
                  config' = [config EXCEPT !.new_u32 = config'.new_u32]
<1>1. TypeOK /\ [Next]_vars => Frozen
  <2> SUFFICES ASSUME TypeOK, [Next]_vars
               PROVE  Frozen
    OBVIOUS
  <2>1. ASSUME config' = config
        PROVE  config' = [config EXCEPT !.new_u32 = config'.new_u32]
    BY <2>1 DEF TypeOK, Config
  <2>2. ASSUME NEW signer \in Signers, NEW word \in Words,
               InitConfig(signer, word)
        PROVE  Frozen
    BY <2>2 DEF InitConfig, InitOnly
  <2>3. CASE TimeTravel
    <3>1. config' = [config EXCEPT !.new_u32 = config'.new_u32]
      BY <2>3 DEF TimeTravel, WriteBack, TypeOK, Config
    <3> QED
      BY <2>3, <3>1 DEF TimeTravel
  <2>4. ASSUME NEW signer \in Signers, NEW id \in OptionIds,
               NEW terms \in Listings, NewOption(signer, id, terms)
        PROVE  Frozen
    <3>1. \A i \in listed : opt_ctrt'[i] = opt_ctrt[i]
      BY <2>4 DEF NewOption, InitOnly, TypeOK
    <3> QED
      BY <2>1, <2>4, <3>1 DEF NewOption
  <2>5. ASSUME NEW user \in Signers, Trade(user)
        PROVE  Frozen
    BY <2>1, <2>5 DEF Trade, BuyOption, SellOption
  <2>6. ASSUME NEW admin \in Signers, InitVault(admin) \/ InitVaultAta(admin)
        PROVE  Frozen
    BY <2>1, <2>6 DEF InitVault, InitVaultAta, WriteBack
  <2>7. ASSUME NEW signer \in Signers,
               \/ \E word \in Words : InitSimpleAcct(signer, word)
               \/ \E amount \in Amounts : \/ WithdrawToken(signer, amount)
                                          \/ Donate(signer, amount)
               \/ \E id \in OptionIds : InitUserPayment(signer, id)
               \/ \E to \in Signers, amount \in Amounts : Pay(signer, to, amount)
        PROVE  Frozen
    BY <2>1, <2>7
       DEF InitSimpleAcct, WithdrawToken, Donate, InitUserPayment, Pay
  <2>8. CASE Tick \/ UNCHANGED vars
    BY <2>1, <2>8 DEF Tick, vars
  <2> QED
    BY <2>2, <2>3, <2>4, <2>5, <2>6, <2>7, <2>8 DEF Next, Program, Environment
<1>2. TypeOK /\ [Next]_vars => [Frozen]_vars
  BY <1>1
<1> QED
  BY <1>2, TypeCorrect, PTL DEF Spec, TermsFrozen

\* The holdings of one signer are finitely many.
LEMMA OwnHoldingsFinite ==
  ASSUME NEW u
  PROVE  IsFiniteSet({h \in Holdings : h[1] = u})
BY HoldingsFinite, FS_Subset

\* A buy or a sell leaves what each signer holds and has recorded, taken
\* together, as it was.
LEMMA TradeIsFair ==
  ASSUME TypeOK, TypeOK', NEW user \in Signers, NEW id \in OptionIds,
         NEW amount \in Amounts, NEW index \in 0..LEN,
         \/ BuyOption(user, id, amount, index)
         \/ SellOption(user, id, amount, index),
         NEW u \in Signers
  PROVE  Worth(u)' = Worth(u)
<1> DEFINE h == <<user, id, index>>
           n == get_premium(amount, opt_ctrt[id].ctrt_prices[index])
           own == {g \in Holdings : g[1] = u}
           paid == user_payment[<<user, id>>][index]
<1>1. Worth(u) = user_ata[u] + Total(Recorded, own)
  BY DEF Worth
<1>2. Worth(u)' = user_ata'[u] + Total(Recorded', own)
  BY DEF Worth, Holdings, Slots, Total, Coins
<1>3. \A g \in Holdings : Recorded[g] \in Nat /\ Recorded'[g] \in Nat
  BY RecordedNat
<1>4. IsFiniteSet(own) /\ own \subseteq Holdings
  BY OwnHoldingsFinite
<1>5. /\ h \in Holdings /\ index \in Slots
      /\ n \in Nat
      /\ user_ata[u] \in Nat /\ user_ata'[u] \in Nat
  <2>1. h \in Holdings /\ index \in Slots
    BY TradeEffect DEF BuyOption, SellOption
  <2>2. n \in Nat
    BY BoundAssumption DEF BuyOption, SellOption, PremiumFits, U64
  <2>3. user_ata[u] \in Nat /\ user_ata'[u] \in Nat
    BY DEF TypeOK
  <2> QED
    BY <2>1, <2>2, <2>3
<1>6. Recorded[h] = paid
  BY <1>5 DEF Recorded, Holdings
<1> SUFFICES ASSUME NEW f, NEW g, f = Recorded, g = Recorded'
             PROVE  user_ata'[u] + Total(g, own) = user_ata[u] + Total(f, own)
  BY <1>1, <1>2
<1>7. \A k \in own : f[k] \in Nat /\ g[k] \in Nat
  BY <1>3
<1>8. Total(f, own) \in Nat /\ Total(g, own) \in Nat
  BY <1>4, <1>7, TotalType
<1>9. CASE BuyOption(user, id, amount, index)
  <2>1. Record(user, id, index, paid + n) /\ TransferIn(user, n)
    BY <1>9 DEF BuyOption
  <2>2. g = [f EXCEPT ![h] = @ + n]
    BY <1>5, <1>6, <2>1, RecordEffect
  <2>3. g[h] = f[h] + n /\ \A k \in Holdings : k # h => g[k] = f[k]
    BY <1>5, <2>2, RecordedType
  <2>4. CASE u = user
    <3>1. user_ata'[u] = user_ata[u] - n
      BY <2>1, <2>4 DEF TransferIn, TypeOK
    <3>2. h \in own
      BY <1>5, <2>4
    <3>3. Total(g, own) = Total(f, own) + n
      <4>1. \A k \in own : k # h => g[k] = f[k]
        BY <1>4, <2>3
      <4>2. g[h] = f[h] + n
        BY <2>3
      <4> HIDE DEF own, h, n
      <4> QED
        BY <1>4, <1>5, <1>7, <3>2, <4>1, <4>2, TotalRaise
    <3> QED
      BY <1>5, <1>8, <3>1, <3>3
  <2>5. CASE u # user
    <3>1. user_ata'[u] = user_ata[u]
      BY <2>1, <2>5 DEF TransferIn, TypeOK
    <3>2. \A k \in own : f[k] = g[k]
      BY <1>4, <2>3, <2>5
    <3> QED
      BY <3>1, <3>2, TotalSame
  <2> QED
    BY <2>4, <2>5
<1>10. CASE SellOption(user, id, amount, index)
  <2>1. Record(user, id, index, paid - n) /\ TransferOut(user, n)
    BY <1>10 DEF SellOption
  <2>2. g = [f EXCEPT ![h] = @ - n]
    BY <1>5, <1>6, <2>1, RecordEffect
  <2>3. f[h] = g[h] + n /\ \A k \in Holdings : k # h => f[k] = g[k]
    BY <1>3, <1>5, <2>2, RecordedType
  <2>4. CASE u = user
    <3>1. user_ata'[u] = user_ata[u] + n
      BY <2>1, <2>4 DEF TransferOut, TypeOK
    <3>2. h \in own
      BY <1>5, <2>4
    <3>3. Total(f, own) = Total(g, own) + n
      <4>1. \A k \in own : k # h => f[k] = g[k]
        BY <1>4, <2>3
      <4>2. f[h] = g[h] + n
        BY <2>3
      <4>3. \A k \in own : g[k] \in Nat /\ f[k] \in Nat
        BY <1>7
      <4> HIDE DEF own, h, n
      <4> QED
        BY <1>4, <1>5, <3>2, <4>1, <4>2, <4>3, TotalRaise
    <3> QED
      BY <1>5, <1>8, <3>1, <3>3
  <2>5. CASE u # user
    <3>1. user_ata'[u] = user_ata[u]
      BY <2>1, <2>5 DEF TransferOut, TypeOK
    <3>2. \A k \in own : f[k] = g[k]
      BY <1>4, <2>3, <2>5
    <3> QED
      BY <3>1, <3>2, TotalSame
  <2> QED
    BY <2>4, <2>5
<1> QED
  BY <1>9, <1>10

\* Trades are fair exchanges, and only trades change what is recorded.
THEOREM TradesConserve == Spec => TradeConserves
<1> DEFINE Fair == Recorded' # Recorded => \A u \in Signers : Worth(u)' = Worth(u)
<1>1. TypeOK /\ TypeOK' /\ [Next]_vars => Fair
  <2> SUFFICES ASSUME TypeOK, TypeOK', [Next]_vars, Recorded' # Recorded
               PROVE  \A u \in Signers : Worth(u)' = Worth(u)
    OBVIOUS
  <2>1. CASE \E user \in Signers : Trade(user)
    BY <2>1, TradeIsFair DEF Trade
  <2>2. CASE ~ \E user \in Signers : Trade(user)
    <3>1. UNCHANGED user_payment
      BY <2>2 DEF Next, Program, Environment, InitConfig, InitSimpleAcct,
         WithdrawToken, TimeTravel, NewOption, InitUserPayment, InitVault,
         InitVaultAta, Tick, Donate, Pay, vars
    <3> QED
      BY <3>1, RecordedSame
  <2> QED
    BY <2>1, <2>2
<1>2. TypeOK /\ TypeOK' /\ [Next]_vars => [Fair]_vars
  BY <1>1
<1> QED
  BY <1>2, TypeCorrect, PTL DEF Spec, TradeConserves
=============================================================================
