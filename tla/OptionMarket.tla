---------------------------- MODULE OptionMarket ----------------------------
(***************************************************************************)
(* The on-chain program of programs/future-option-market: its accounts and *)
(* the instructions that change them.  One action is one instruction that  *)
(* succeeds.  An instruction that returns an error or panics leaves every  *)
(* account as it was, so each require!, each ok_or_else, each account      *)
(* constraint of its #[derive(Accounts)] context is a conjunct here.       *)
(*                                                                         *)
(* An address that holds no account reads as zeroes; `created', `listed'   *)
(* and `opened' say which addresses hold one.                              *)
(***************************************************************************)
EXTENDS Integers, UnitSums

CONSTANTS
  Signers,              \* wallets that sign instructions
  OptionIds,            \* option_id strings, those the program refuses too
  AssetNames,           \* asset_name strings, those the program refuses too
  NameLen,              \* the length in bytes of each string
  LEN,                  \* options per OptContract
  OPTION_ID_MAX_LEN,
  ASSET_NAME_MAX_LEN,
  OPTION_SHARES,        \* shares per contract
  U32,                  \* 2^32: the number of values of a u32
  U64_MAX,              \* 2^64 - 1
  DefaultKey,           \* Pubkey::default(), what a zeroed account holds
  Mint,                 \* the mint of every token account modelled
  TokenProgram,
  VAULT, VAULTATA,      \* the addresses of the two vault accounts
  EarlierConfigs,       \* Config accounts an earlier build may have left
  InitialTokens,        \* the tokens each signer starts with
  Listings,             \* the terms new_option is called with
  Amounts,              \* the u64 amounts the other instructions move
  Words,                \* the u64 arguments that are stored and never read
  MaxTime,              \* bound on the clock
  MaxDonated            \* bound on the tokens sent to the vault unasked

VARIABLES
  clock,                \* Clock::unix_timestamp
  created,              \* which of the singleton accounts exist
  config,               \* the Config account
  listed,               \* option ids with an OptContract account
  opt_ctrt,             \* the OptContract account of each id
  opened,               \* <<user, id>> with a UserPayment account
  user_payment,         \* the payments array of each UserPayment account
  user_ata,             \* tokens in each signer's token account
  vault_ata,            \* tokens in the vault's token account
  simple_acct,          \* the SimpleAcct account
  withdrawn,            \* sum of the amounts of the WithdrawTokenEvents
  donated               \* tokens sent to the vault by plain SPL transfers

vars == <<clock, created, config, listed, opt_ctrt, opened, user_payment,
          user_ata, vault_ata, simple_acct, withdrawn, donated>>

Singletons == {"config", "vault", "vault_ata", "simple_acct"}
Keys == Signers \union {DefaultKey, Mint, TokenProgram, VAULT, VAULTATA}
Slots == 0..LEN-1
U64 == 0..U64_MAX
Positions == Signers \X OptionIds
Holdings == Signers \X OptionIds \X Slots

Config ==
  [unique: Keys, prog_owner: Keys, admin: Keys, vault: Keys, vault_ata: Keys,
   token_program: Keys, mint: Keys, new_u32: 0..U32-1, new_u64: U64]

OptContract ==
  [asset_name: AssetNames, is_call: BOOLEAN, strike_prices: [Slots -> U64],
   ctrt_prices: [Slots -> U64], expiry_times: [Slots -> 0..U32-1]]

SimpleAcct == [write_authority: Keys, price: U64]

EmptyName == CHOOSE a \in AssetNames : NameLen[a] = 0

ZeroConfig ==
  [unique |-> DefaultKey, prog_owner |-> DefaultKey, admin |-> DefaultKey,
   vault |-> DefaultKey, vault_ata |-> DefaultKey,
   token_program |-> DefaultKey, mint |-> DefaultKey,
   new_u32 |-> 0, new_u64 |-> 0]

ZeroContract ==
  [asset_name |-> EmptyName, is_call |-> FALSE,
   strike_prices |-> [x \in Slots |-> 0], ctrt_prices |-> [x \in Slots |-> 0],
   expiry_times |-> [x \in Slots |-> 0]]

\* The names that cannot be told from the default key or from each other
\* would make the account constraints meaningless.
ASSUME KeyAssumption ==
  /\ Mint # DefaultKey
  /\ TokenProgram # DefaultKey
  /\ DefaultKey \notin Signers

ASSUME BoundAssumption ==
  /\ IsFiniteSet(Signers)
  /\ IsFiniteSet(OptionIds)
  /\ LEN \in Nat
  /\ OPTION_SHARES \in Nat \ {0}
  /\ U32 \in Nat \ {0}
  /\ U64_MAX \in Nat
  /\ MaxTime \in Nat
  /\ MaxDonated \in Nat

ASSUME InputAssumption ==
  /\ \E a \in AssetNames : NameLen[a] = 0
  /\ Amounts \subseteq U64
  /\ Words \subseteq U64
  /\ Listings \subseteq OptContract
  /\ InitialTokens \in [Signers -> Nat]
  /\ EarlierConfigs \subseteq Config
  /\ \A c \in EarlierConfigs : c.admin \in Signers
-----------------------------------------------------------------------------
(* Helpers of the program and of the runtime it calls.                     *)

\* fn time(): the i64 timestamp is cast to u32, which keeps its low 32 bits.
time == clock % U32

\* fn get_premium(): both multiplications are checked.
get_premium(amount, price) == price * (amount * OPTION_SHARES)
PremiumFits(amount, price) ==
  /\ amount * OPTION_SHARES \in U64
  /\ get_premium(amount, price) \in U64

\* Anchor's `init' creates an account and fails when there is one already.
InitIfNeeded(exists) == TRUE
InitOnly(exists) == ~exists

\* Anchor serialises an account back when the instruction ends only if its
\* context declares the account `mut'; otherwise the assignment is dropped.
WriteBack(mut, before, after) == IF mut THEN after ELSE before

\* The constraints on the mint and on the token program of the four contexts
\* that move tokens or open the vault's token account.
NoTokenConstraints == TRUE
TokenConstraints ==
  /\ config.mint = Mint
  /\ config.token_program = TokenProgram

\* The contexts BuyOption and SellOption: the accounts both of them load.
TradeWithoutUserPayment(user, id) ==
  /\ {"config", "vault_ata"} \subseteq created
  /\ id \in listed
  /\ TokenConstraints
TradeAccounts(user, id) ==
  /\ {"config", "vault_ata"} \subseteq created
  /\ id \in listed
  /\ <<user, id>> \in opened
  /\ TokenConstraints

\* user_payment.payments[idx] = new_payment, after checked_add or checked_sub.
RecordUnchecked(user, id, index, new_payment) ==
  user_payment' = [user_payment EXCEPT ![<<user, id>>][index] = new_payment]
RecordWrapping(user, id, index, new_payment) ==
  RecordUnchecked(user, id, index, new_payment % (U64_MAX + 1))
Record(user, id, index, new_payment) ==
  /\ new_payment \in U64
  /\ user_payment' = [user_payment EXCEPT ![<<user, id>>][index] = new_payment]

\* The SPL token program's transfer_checked, from a signer's token account to
\* the vault's and back.  It fails when the source holds too little.
TransferIn(signer, amount) ==
  /\ amount <= user_ata[signer]
  /\ user_ata' = [user_ata EXCEPT ![signer] = @ - amount]
  /\ vault_ata' = vault_ata + amount
TransferOut(signer, amount) ==
  /\ amount <= vault_ata
  /\ user_ata' = [user_ata EXCEPT ![signer] = @ + amount]
  /\ vault_ata' = vault_ata - amount

\* What each user has paid, by contract and option: the claims on the vault.
Recorded == [h \in Holdings |-> user_payment[<<h[1], h[2]>>][h[3]]]
-----------------------------------------------------------------------------
Init ==
  /\ clock = 0
  /\ \/ /\ created = {}
        /\ config = ZeroConfig
     \/ /\ created = {"config"}
        /\ config \in EarlierConfigs
  /\ listed = {}
  /\ opt_ctrt = [id \in OptionIds |-> ZeroContract]
  /\ opened = {}
  /\ user_payment = [p \in Positions |-> [x \in Slots |-> 0]]
  /\ user_ata = InitialTokens
  /\ vault_ata = 0
  /\ simple_acct = [write_authority |-> DefaultKey, price |-> 0]
  /\ withdrawn = 0
  /\ donated = 0

InitConfig(signer, new_u64) ==
  /\ InitOnly("config" \in created)
  /\ created' = created \union {"config"}
  /\ config' = WriteBack(TRUE, config,
                 [config EXCEPT !.unique = signer, !.prog_owner = signer,
                                !.admin = signer, !.new_u64 = new_u64])
  /\ UNCHANGED <<clock, listed, opt_ctrt, opened, user_payment, user_ata,
                 vault_ata, simple_acct, withdrawn, donated>>

TimeTravel ==
  /\ "config" \in created
  /\ config' = WriteBack(TRUE, config, [config EXCEPT !.new_u32 = time])
  /\ UNCHANGED <<clock, created, listed, opt_ctrt, opened, user_payment,
                 user_ata, vault_ata, simple_acct, withdrawn, donated>>

NewOption(signer, id, terms) ==
  /\ "config" \in created
  /\ InitOnly(id \in listed)
  /\ config.admin = signer
  /\ \A x \in Slots : /\ terms.expiry_times[x] > time
                      /\ terms.strike_prices[x] > 0
                      /\ terms.ctrt_prices[x] > 0
  /\ NameLen[id] \in 1..OPTION_ID_MAX_LEN
  /\ NameLen[terms.asset_name] \in 1..ASSET_NAME_MAX_LEN
  /\ listed' = listed \union {id}
  /\ opt_ctrt' = [opt_ctrt EXCEPT ![id] = terms]
  /\ UNCHANGED <<clock, created, config, opened, user_payment, user_ata,
                 vault_ata, simple_acct, withdrawn, donated>>

InitUserPayment(user, id) ==
  /\ "config" \in created
  /\ id \in listed
  /\ InitOnly(<<user, id>> \in opened)
  /\ opened' = opened \union {<<user, id>>}
  /\ UNCHANGED <<clock, created, config, listed, opt_ctrt, user_payment,
                 user_ata, vault_ata, simple_acct, withdrawn, donated>>

InitVault(admin) ==
  /\ "config" \in created
  /\ InitOnly("vault" \in created)
  /\ config.admin = admin
  /\ created' = created \union {"vault"}
  /\ config' = WriteBack(FALSE, config, [config EXCEPT !.vault = VAULT])
  /\ UNCHANGED <<clock, listed, opt_ctrt, opened, user_payment, user_ata,
                 vault_ata, simple_acct, withdrawn, donated>>

InitVaultAta(admin) ==
  /\ {"config", "vault"} \subseteq created
  /\ InitOnly("vault_ata" \in created)
  /\ config.admin = admin
  /\ TokenConstraints
  /\ created' = created \union {"vault_ata"}
  /\ config' = WriteBack(FALSE, config, [config EXCEPT !.vault_ata = VAULTATA])
  /\ UNCHANGED <<clock, listed, opt_ctrt, opened, user_payment, user_ata,
                 vault_ata, simple_acct, withdrawn, donated>>

\* An index out of the array's bounds panics.
BuyOption(user, id, amount, index) ==
  /\ TradeAccounts(user, id)
  /\ index \in Slots
  /\ LET price   == opt_ctrt[id].ctrt_prices[index]
         premium == get_premium(amount, price)
         paid    == user_payment[<<user, id>>][index]
     IN /\ PremiumFits(amount, price)
        /\ Record(user, id, index, paid + premium)
        /\ TransferIn(user, premium)
  /\ UNCHANGED <<clock, created, config, listed, opt_ctrt, opened,
                 simple_acct, withdrawn, donated>>

SellOption(user, id, amount, index) ==
  /\ TradeAccounts(user, id)
  /\ "vault" \in created
  /\ index \in Slots
  /\ LET price   == opt_ctrt[id].ctrt_prices[index]
         premium == get_premium(amount, price)
         paid    == user_payment[<<user, id>>][index]
     IN /\ PremiumFits(amount, price)
        /\ Record(user, id, index, paid - premium)
        /\ TransferOut(user, premium)
  /\ UNCHANGED <<clock, created, config, listed, opt_ctrt, opened,
                 simple_acct, withdrawn, donated>>

\* to_ata is the signer's token account; the handler names no other account
\* of the signer and does not compare it with config.admin.
WithdrawToken(signer, amount) ==
  /\ {"config", "vault", "vault_ata"} \subseteq created
  /\ TokenConstraints
  /\ TransferOut(signer, amount)
  /\ withdrawn' = withdrawn + amount
  /\ UNCHANGED <<clock, created, config, listed, opt_ctrt, opened,
                 user_payment, simple_acct, donated>>

InitSimpleAcct(signer, price) ==
  /\ InitOnly("simple_acct" \in created)
  /\ created' = created \union {"simple_acct"}
  /\ simple_acct' = [write_authority |-> signer, price |-> price]
  /\ UNCHANGED <<clock, config, listed, opt_ctrt, opened, user_payment,
                 user_ata, vault_ata, withdrawn, donated>>
-----------------------------------------------------------------------------
(* The environment: the cluster's clock, and token transfers that do not   *)
(* go through the program.                                                 *)

Tick ==
  /\ clock < MaxTime
  /\ clock' = clock + 1
  /\ UNCHANGED <<created, config, listed, opt_ctrt, opened, user_payment,
                 user_ata, vault_ata, simple_acct, withdrawn, donated>>

\* A plain SPL transfer from a signer's token account to the vault's.
Donate(signer, amount) ==
  /\ "vault_ata" \in created
  /\ donated + amount <= MaxDonated
  /\ TransferIn(signer, amount)
  /\ donated' = donated + amount
  /\ UNCHANGED <<clock, created, config, listed, opt_ctrt, opened,
                 user_payment, simple_acct, withdrawn>>

\* A plain SPL transfer between the token accounts of two signers.
Pay(from, to, amount) ==
  /\ from # to
  /\ amount <= user_ata[from]
  /\ user_ata' = [user_ata EXCEPT ![from] = @ - amount, ![to] = @ + amount]
  /\ UNCHANGED <<clock, created, config, listed, opt_ctrt, opened,
                 user_payment, vault_ata, simple_acct, withdrawn, donated>>

\* Indexes tried include the first one out of bounds.
Trade(user) ==
  \E id \in OptionIds, amount \in Amounts, index \in 0..LEN :
    \/ BuyOption(user, id, amount, index)
    \/ SellOption(user, id, amount, index)

Program ==
  \/ \E signer \in Signers, word \in Words :
       InitConfig(signer, word) \/ InitSimpleAcct(signer, word)
  \/ \E signer \in Signers, amount \in Amounts : WithdrawToken(signer, amount)
  \/ TimeTravel
  \/ \E signer \in Signers, id \in OptionIds, terms \in Listings :
       NewOption(signer, id, terms)
  \/ \E user \in Signers, id \in OptionIds : InitUserPayment(user, id)
  \/ \E admin \in Signers : InitVault(admin) \/ InitVaultAta(admin)
  \/ \E user \in Signers : Trade(user)

Environment ==
  \/ Tick
  \/ \E signer \in Signers, amount \in Amounts : Donate(signer, amount)
  \/ \E from, to \in Signers, amount \in Amounts : Pay(from, to, amount)

Next == Program \/ Environment

Spec == Init /\ [][Next]_vars
-----------------------------------------------------------------------------
(* Properties.                                                             *)

\* Every variable keeps its type; in particular the recorded payments stay
\* u64 values and no token account goes below zero.
TypeOK ==
  /\ clock \in 0..MaxTime
  /\ created \subseteq Singletons
  /\ config \in Config
  /\ listed \subseteq OptionIds
  /\ opt_ctrt \in [OptionIds -> OptContract]
  /\ opened \subseteq Positions
  /\ user_payment \in [Positions -> [Slots -> U64]]
  /\ user_ata \in [Signers -> Nat]
  /\ vault_ata \in Nat
  /\ simple_acct \in SimpleAcct
  /\ withdrawn \in Nat
  /\ donated \in Nat

\* An account exists only with the accounts it depends on: the vault's token
\* account with the vault, the vault and every listed contract with the
\* config, every UserPayment account with its contract.  Payments are
\* recorded only where a UserPayment account and the vault's token account
\* exist, and tokens are held by the vault only then.
AccountGraph ==
  /\ "vault_ata" \in created => "vault" \in created
  /\ "vault" \in created => "config" \in created
  /\ listed # {} => "config" \in created
  /\ \A p \in opened : p[2] \in listed
  /\ \A h \in Holdings : Recorded[h] > 0 => /\ <<h[1], h[2]>> \in opened
                                          /\ "vault_ata" \in created
  /\ "vault_ata" \notin created => vault_ata + withdrawn + donated = 0

\* A config whose mint was never set keeps the market closed: the vault has
\* no token account and nobody has bought anything.  init_config does not
\* set the mint (its assignment is commented out).
UnsetMintClosesMarket ==
  "config" \in created /\ config.mint = DefaultKey =>
    /\ "vault_ata" \notin created
    /\ \A h \in Holdings : Recorded[h] = 0

\* The token account of the vault and the WithdrawTokenEvents account for
\* every recorded payment and every token sent to the vault, to the unit:
\* the sums an auditor would compare after any sequence of buys, sells,
\* withdrawals and stray transfers.
Reconciled == vault_ata + withdrawn = donated + Total(Recorded, Holdings)

\* The listed price of a holding's option.
price_of(h) == opt_ctrt[h[2]].ctrt_prices[h[3]]

\* One call with some number of contracts moves exactly this premium.
Closable(owed, price) ==
  \E amount \in U64 : PremiumFits(amount, price) /\ get_premium(amount, price) = owed

\* No position is stuck in the arithmetic: whatever buys and partial sells
\* led to it, what a user has recorded at an option is the premium of a
\* whole number of contracts at the listed price, and get_premium computes
\* that premium without overflow, so one sell_option can close it.
FullExit == \A h \in Holdings : Closable(Recorded[h], price_of(h))

\* sell_option would accept one call that closes the holding: its accounts
\* exist and pass their constraints, some amount has the recorded payment as
\* its premium, and the vault holds that many tokens.
SellsOut(h) ==
  /\ TradeAccounts(h[1], h[2])
  /\ "vault" \in created
  /\ Closable(Recorded[h], price_of(h))
  /\ Recorded[h] <= vault_ata

\* What all the other holdings have recorded.
Others(h) == Total(Recorded, Holdings \ {h})

Unexpired(h) == clock < opt_ctrt[h[2]].expiry_times[h[3]]

\* README.md:11, `User can sell their contract before the expiry date'.  What
\* a holder has paid for an option that has not expired can be sold back in
\* one call, whatever the others have bought and sold, unless withdraw_token
\* took more than the payments of all the others and the tokens sent to the
\* vault unasked: nothing else can leave it too little.  The property is about
\* nothing past the expiry, where sell_option, which reads no clock, goes on
\* accepting sells.
NobodyTrapped ==
  \A h \in Holdings :
    Recorded[h] > 0 /\ Unexpired(h) /\ withdrawn <= donated + Others(h)
      => SellsOut(h)

\* Accounts are never closed or initialised twice, the terms of a listed
\* contract never change, and of an existing config only new_u32 does.
TermsFrozen ==
  [][/\ created \subseteq created'
     /\ opened \subseteq opened'
     /\ listed \subseteq listed'
     /\ \A id \in listed : opt_ctrt'[id] = opt_ctrt[id]
     /\ "config" \in created =>
          config' = [config EXCEPT !.new_u32 = config'.new_u32]]_vars

\* The tokens a signer holds and the payments recorded for it.
Worth(u) == user_ata[u] + Total(Recorded, {h \in Holdings : h[1] = u})

\* A step that changes a recorded payment is a fair exchange: it leaves what
\* each signer holds and has recorded, taken together, as it was.
TradeConserves ==
  [][Recorded' # Recorded => \A u \in Signers : Worth(u)' = Worth(u)]_vars

\* The program is an escrow: each instruction takes from a holder, refunds a
\* holder, releases or funds, or is invisible to the escrow.
EscrowView == INSTANCE Escrow WITH
  Holders <- Holdings, MaxUnits <- U64_MAX, claims <- Recorded,
  pool <- vault_ata, released <- withdrawn, funded <- donated
ImplementsEscrow == EscrowView!Spec
-----------------------------------------------------------------------------
(* What the repository says of the program and the program does not do.    *)

\* README.md:9: options are bought `before the endTime'.
BoughtBeforeEnd ==
  [][\A h \in Holdings : Recorded'[h] > Recorded[h] =>
       clock < opt_ctrt[h[2]].expiry_times[h[3]]]_vars
=============================================================================
