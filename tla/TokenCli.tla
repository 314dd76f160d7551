------------------------------ MODULE TokenCli ------------------------------
(***************************************************************************)
(* The commands g12, g13 and g14 of index.ts with backend/gill.ts: make a  *)
(* mint, mint tokens, send tokens.  Each run of index.ts is a process that *)
(* does one command, awaits its transaction and exits.  The user may start *)
(* one in another terminal before the last has ended, and may repeat one   *)
(* that failed, without knowing what has become of its transaction.  A     *)
(* transaction is what it says and the blockhash it says it with: two runs *)
(* of the same command that fetch the same blockhash sign the same bytes,  *)
(* which the chain executes once.                                          *)
(***************************************************************************)
EXTENDS Naturals, FiniteSets

CONSTANTS
  Runs,           \* the runs of index.ts, numbered in the order they start in
  MaxHash,        \* how many blockhashes the chain goes through: a bound
  MintIds,        \* key pairs that makeMintViaGill may generate: a bound
  Holders,        \* owners of token accounts
  signer, addr2,  \* the signer and SOLANA_ADDR2
  MintUI, SendUI, \* the amounts of g13 and g14
  UNIT,           \* 10 ** decimals
  U64_MAX

NoMint == "none"
NoHash == 0
Hashes == 1..MaxHash

ASSUME CliAssumption ==
  /\ Runs \subseteq Nat
  /\ MaxHash \in Nat \ {0}
  /\ IsFiniteSet(MintIds)
  /\ NoMint \notin MintIds
  /\ {signer, addr2} \subseteq Holders
  /\ signer # addr2
  /\ MintUI \in Nat \ {0}
  /\ SendUI \in Nat \ {0}
  /\ UNIT \in Nat \ {0}
  /\ U64_MAX \in Nat

VARIABLES
  run,       \* of each run: its command, mint and blockhash and where it is
  latest,    \* the latest blockhash, numbered from the first one seen
  fate,      \* of each transaction
  shown,     \* the mint addresses that have been printed
  minted,    \* the mints on the chain
  supply,    \* of each mint
  balance,   \* of each mint and holder
  addr3      \* SOLANA_ADDR3 of the environment

vars == <<run, latest, fate, shown, minted, supply, balance, addr3>>

Commands == {"make mint", "mint tokens", "send tokens"}
Transactions == [command: Commands, mint: MintIds, hash: Hashes]
Fates == {"unsent", "sent", "executed", "dropped"}

\* What a run signs.
Tx(r) == [command |-> run[r].command, mint |-> run[r].mint, hash |-> run[r].hash]

\* The argument of BigInt(amountUI) * BigInt(10 ** decimals).
BaseUnits(ui) == ui * UNIT

Place(r, somewhere) == run' = [run EXCEPT ![r].place = somewhere]
-----------------------------------------------------------------------------
Init ==
  /\ run = [r \in Runs |-> [command |-> "make mint", mint |-> NoMint,
                             hash |-> NoHash, place |-> "idle"]]
  /\ latest = 1
  /\ fate = [t \in Transactions |-> "unsent"]
  /\ shown = {}
  /\ minted = {}
  /\ supply = [m \in MintIds |-> 0]
  /\ balance = [m \in MintIds |-> [h \in Holders |-> 0]]
  /\ addr3 \in Holders

MintRuns == {r \in Runs : run[r].command = "make mint" /\ run[r].place # "idle"}

\* The user starts a command; WINGLIONMINT is an address g12 has printed.
AnyEnvironment(command, m) == command = "make mint" => m = NoMint
FromEnvironment(command, m) == m = NoMint <=> command = "make mint"

Start(r, command, m) ==
  /\ run[r].place = "idle"
  /\ FromEnvironment(command, m)
  /\ m # NoMint => m \in shown
  /\ \A other \in Runs : other < r => run[other].place # "idle"
  /\ command = "make mint" => Cardinality(MintRuns) < Cardinality(MintIds)
  /\ run' = [run EXCEPT ![r] = [command |-> command, mint |-> m,
                                hash |-> NoHash, place |-> "building"]]
  /\ UNCHANGED <<latest, fate, shown, minted, supply, balance, addr3>>

\* The address of a new mint, and the signature, are printed before the
\* transaction is sent.
ShowLater(m) == UNCHANGED shown
Show(m) == shown' = shown \union {m}

GenerateMint(r, m) ==
  /\ run[r].place = "building"
  /\ run[r].command = "make mint"
  /\ \A other \in Runs : run[other].mint # m
  /\ run' = [run EXCEPT ![r].mint = m, ![r].hash = latest, ![r].place = "built"]
  /\ Show(m)
  /\ UNCHANGED <<latest, fate, minted, supply, balance, addr3>>

\* The encoder of an amount throws if it does not fit u64.
Amount(command) ==
  IF command = "mint tokens" THEN BaseUnits(MintUI) ELSE BaseUnits(SendUI)

BuildTransaction(r) ==
  /\ run[r].place = "building"
  /\ run[r].command # "make mint"
  /\ run' = [run EXCEPT ![r].hash = latest,
       ![r].place = IF Amount(run[r].command) <= U64_MAX THEN "built" ELSE "error"]
  /\ UNCHANGED <<latest, fate, shown, minted, supply, balance, addr3>>

\* A transaction that is sent again, by another run, is the same transaction.
Submit(t) == fate' = [fate EXCEPT ![t] = IF @ = "unsent" THEN "sent" ELSE @]

Send(r) ==
  /\ run[r].place = "built"
  /\ Submit(Tx(r))
  /\ Place(r, "waiting")
  /\ UNCHANGED <<latest, shown, minted, supply, balance, addr3>>

\* The command returns once its transaction is confirmed, and index.ts exits.
SentWillDo(r) == fate[Tx(r)] \in {"sent", "executed"}
IsConfirmed(r) == fate[Tx(r)] = "executed"

Done(r) ==
  /\ run[r].place = "waiting"
  /\ IsConfirmed(r)
  /\ Place(r, "done")
  /\ UNCHANGED <<latest, fate, shown, minted, supply, balance, addr3>>

WaitForever(r) == FALSE
IsLost(r) == fate[Tx(r)] = "dropped"

\* The rejection is not caught and ends the process.
Rejected(r) ==
  /\ run[r].place = "waiting"
  /\ IsLost(r)
  /\ Place(r, "error")
  /\ UNCHANGED <<latest, fate, shown, minted, supply, balance, addr3>>

\* A request fails, whatever has become of the transaction.
RpcError(r) ==
  /\ run[r].place \in {"building", "built", "waiting"}
  /\ Place(r, "error")
  /\ \/ UNCHANGED fate
     \/ run[r].place = "built" /\ Submit(Tx(r))
  /\ UNCHANGED <<latest, shown, minted, supply, balance, addr3>>
-----------------------------------------------------------------------------
(* The chain, which executes a transaction once.                           *)

NewBlockhash ==
  /\ latest < MaxHash
  /\ latest' = latest + 1
  /\ UNCHANGED <<run, fate, shown, minted, supply, balance, addr3>>

CreateMint(m) ==
  /\ m \notin minted
  /\ minted' = minted \union {m}
  /\ UNCHANGED <<supply, balance>>

MintTokens(m, amount) ==
  /\ m \in minted
  /\ supply[m] + amount <= U64_MAX
  /\ supply' = [supply EXCEPT ![m] = @ + amount]
  /\ balance' = [balance EXCEPT ![m][addr3] = @ + amount]
  /\ UNCHANGED minted

TransferTokens(m, amount) ==
  /\ m \in minted
  /\ amount <= balance[m][signer]
  /\ balance' = [balance EXCEPT ![m][signer] = @ - amount, ![m][addr2] = @ + amount]
  /\ UNCHANGED <<minted, supply>>

Execute(t) ==
  /\ fate[t] = "sent"
  /\ fate' = [fate EXCEPT ![t] = "executed"]
  /\ \/ t.command = "make mint" /\ CreateMint(t.mint)
     \/ t.command = "mint tokens" /\ MintTokens(t.mint, Amount(t.command))
     \/ t.command = "send tokens" /\ TransferTokens(t.mint, Amount(t.command))
  /\ UNCHANGED <<run, latest, shown, addr3>>

\* It fails on the chain, or its blockhash expires.
Drop(t) ==
  /\ fate[t] = "sent"
  /\ fate' = [fate EXCEPT ![t] = "dropped"]
  /\ UNCHANGED <<run, latest, shown, minted, supply, balance, addr3>>

Process(r) ==
  \/ \E m \in MintIds : GenerateMint(r, m)
  \/ BuildTransaction(r) \/ Send(r) \/ Done(r) \/ Rejected(r)

Settle(t) == Execute(t) \/ Drop(t)

Next ==
  \/ \E r \in Runs :
       \/ \E command \in Commands, m \in MintIds \union {NoMint} : Start(r, command, m)
       \/ Process(r) \/ RpcError(r)
  \/ \E t \in Transactions : Settle(t)
  \/ NewBlockhash

Spec == Init /\ [][Next]_vars

\* Requests are answered, and a transaction is executed or dropped.
FairSpec ==
  /\ Spec
  /\ \A r \in Runs : WF_vars(Process(r))
  /\ \A t \in Transactions : WF_vars(Settle(t))
-----------------------------------------------------------------------------
(* Properties.                                                             *)

\* Every variable keeps its type, and what is built is a transaction: it has
\* a mint and a blockhash.
TypeOK ==
  /\ run \in [Runs -> [command: Commands, mint: MintIds \union {NoMint},
       hash: Hashes \union {NoHash},
       place: {"idle", "building", "built", "waiting", "done", "error"}]]
  /\ latest \in Hashes
  /\ fate \in [Transactions -> Fates]
  /\ shown \subseteq MintIds
  /\ minted \subseteq MintIds
  /\ supply \in [MintIds -> 0..U64_MAX]
  /\ balance \in [MintIds -> [Holders -> 0..U64_MAX]]
  /\ addr3 \in Holders
  /\ \A r \in Runs :
       run[r].place \in {"built", "waiting", "done"} => Tx(r) \in Transactions

\* A mint on the chain is one whose address the user has seen, although its
\* key pair is generated in memory and the answer may have been lost.
NoMintLost == minted \subseteq shown

\* What the terminals tell of the tokens.  A command is given for the
\* transactions it names: the blockhashes its runs have printed.
HashesAt(places, command, m) ==
  {run[r].hash : r \in {u \in Runs :
     /\ run[u].place \in places
     /\ run[u].command = command
     /\ run[u].mint = m
     /\ run[u].hash # NoHash}}

Reported(command, m) == Cardinality(HashesAt({"done"}, command, m))
Attempted(command, m) ==
  Cardinality(HashesAt({"waiting", "done", "error"}, command, m))

\* However the commands were repeated or overlapped, what has happened lies
\* between what the runs that returned say and what all that went as far as to
\* send could have done, in base units: at least one issue for every blockhash
\* a returned g13 printed, at most one for every blockhash any g13 printed,
\* and the same of the transfers of g14 to addr2.  Returned runs of one
\* blockhash count once; a run that ended with an error may have minted.
Between(tokens, command, m, amount) ==
  /\ Reported(command, m) * amount * UNIT <= tokens
  /\ tokens <= Attempted(command, m) * amount * UNIT

TokensReported ==
  \A m \in MintIds :
    LET issued == IF addr3 = addr2 THEN supply[m] ELSE 0
    IN /\ Between(supply[m], "mint tokens", m, MintUI)
       /\ Between(balance[m][addr2] - issued, "send tokens", m, SendUI)

\* Every command that was started ends, and index.ts with it.
Ends == <>[] \A r \in Runs : run[r].place \in {"idle", "done", "error"}
=============================================================================
