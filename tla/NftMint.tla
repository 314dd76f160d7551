------------------------------ MODULE NftMint ------------------------------
(***************************************************************************)
(* The script backend/nft.ts: seven transactions, each awaited before the  *)
(* next one is made, and a catch that ends the script at the first error.  *)
(* An error does not tell what became of the transaction: it may still     *)
(* land.  All the keys are in the memory of the process, so that nobody    *)
(* can go on with what the script has left behind.                         *)
(***************************************************************************)
EXTENDS Integers, Sequences

CONSTANTS
  PointsToAdd,   \* the argument of incrementPoints
  MaxPolls       \* polls of the airdrop within its 30 s

ASSUME NftAssumption ==
  /\ PointsToAdd \in 1..99
  /\ MaxPolls \in Nat

VARIABLES
  script,   \* what mintNft does: it sends, waits, or is over
  step,     \* the transaction of Plan it is at
  points,   \* the value for "Points"; 0 until it is read
  polls,    \* of the airdrop
  fate,     \* of each transaction
  chain     \* the payer, the mint and its holder, as confirmed

vars == <<script, step, points, polls, fate, chain>>

\* The transactions in the order of mintNft.
MintLastPlan == <<"airdrop", "init", "ata", "clean", "revoke", "mint", "points">>
ScoreFirstPlan == <<"airdrop", "init", "ata", "mint", "points", "clean", "revoke">>
ScoreEarlyPlan == <<"airdrop", "init", "ata", "mint", "clean", "points", "revoke">>
Plan == <<"airdrop", "init", "ata", "mint", "clean", "revoke", "points">>

Txs == {Plan[i] : i \in DOMAIN Plan}
Fates == {"unsent", "sent", "processed", "confirmed", "finalized", "dropped"}
Over == {"done", "failed", "killed"}

\* tokenMetadata.additionalMetadata
Keys == {"Background", "WrongData", "Points"}

\* Bytes of the metadata that depend on its fields: two lengths and two
\* strings each.
Digits(n) == IF n < 10 THEN 1 ELSE 2
Size(keys, score) ==
  (IF "Background" \in keys THEN 22 ELSE 0)
  + (IF "WrongData" \in keys THEN 26 ELSE 0)
  + (IF "Points" \in keys THEN 14 + Digits(score) ELSE 0)

\* The rent createTokenAndMint pays is for the metadata it starts with.
Paid == Size(Keys, 0)

Tx == Plan[step]
-----------------------------------------------------------------------------
(* What the transactions do when they are executed.                        *)

Airdrop == [chain EXCEPT !.funded = TRUE]

\* Account, metadata pointer, mint and metadata, in one transaction.
Initialize ==
  [chain EXCEPT !.exists = TRUE, !.mintable = TRUE, !.keys = Keys]

OpenAta == [chain EXCEPT !.ata = TRUE]

MintTo == [chain EXCEPT !.supply = @ + 1]

\* `idempotent': a key that is not there is no error.
RemoveKey == [chain EXCEPT !.keys = @ \ {"WrongData"}]

SetAuthority == [chain EXCEPT !.mintable = FALSE]

UpdateField == [chain EXCEPT !.keys = @ \union {"Points"}, !.points = points]

Effect ==
  [airdrop |-> Airdrop, init |-> Initialize, ata |-> OpenAta, mint |-> MintTo,
   clean |-> RemoveKey, revoke |-> SetAuthority, points |-> UpdateField]

\* What the token program insists on.
Needs ==
  [airdrop |-> TRUE,
   init    |-> chain.funded /\ ~chain.exists,
   ata     |-> chain.exists,
   mint    |-> chain.ata /\ chain.mintable,
   clean   |-> chain.exists,
   revoke  |-> chain.mintable,
   points  |-> chain.exists /\ Size(UpdateField.keys, points) <= Paid]
-----------------------------------------------------------------------------
Init ==
  /\ script = "sending"
  /\ step = 1
  /\ points = 0
  /\ polls = 0
  /\ fate = [tx \in Txs |-> "unsent"]
  /\ chain = [funded |-> FALSE, exists |-> FALSE, ata |-> FALSE, keys |-> {},
              points |-> 0, supply |-> 0, mintable |-> FALSE]

\* incrementPoints reads the metadata before it builds its transaction.
ReadPoints ==
  /\ script = "sending"
  /\ Tx = "points"
  /\ points = 0
  /\ chain.exists
  /\ points' = (IF "Points" \in chain.keys THEN chain.points ELSE 0) + PointsToAdd
  /\ UNCHANGED <<script, step, polls, fate, chain>>

\* The node simulates a transaction before it takes it.
Send ==
  /\ script = "sending"
  /\ Tx = "points" => points # 0
  /\ Needs[Tx]
  /\ fate' = [fate EXCEPT ![Tx] = "sent"]
  /\ script' = "waiting"
  /\ UNCHANGED <<step, points, polls, chain>>

\* The statuses that both the airdrop's own loop and web3.js accept.
HasBeenSeen(tx) == fate[tx] \in {"processed", "confirmed", "finalized"}
IsConfirmed(tx) == fate[tx] \in {"confirmed", "finalized"}

ProceedPastEnd == script' = "sending" /\ step' = step + 1
Proceed ==
  IF step = Len(Plan) THEN script' = "done" /\ UNCHANGED step
  ELSE script' = "sending" /\ step' = step + 1

Confirmed ==
  /\ script = "waiting"
  /\ IsConfirmed(Tx)
  /\ Proceed
  /\ UNCHANGED <<points, polls, fate, chain>>

\* One more second in the loop of airdropLamports, and its end.
StandStill == polls
Elapse == polls + 1

PollAgain ==
  /\ script = "waiting"
  /\ Tx = "airdrop"
  /\ polls < MaxPolls
  /\ ~IsConfirmed(Tx)
  /\ polls' = Elapse
  /\ UNCHANGED <<script, step, points, fate, chain>>

TimedOut == Tx = "airdrop" /\ polls = MaxPolls

\* sendAndConfirmTransaction waits until the blockhash has expired.
Expired == Tx # "airdrop" /\ fate[Tx] = "dropped"

\* The simulation fails, or incrementPoints finds no metadata.
Refused ==
  /\ script = "sending"
  /\ Tx = "points" /\ points = 0 => ~chain.exists
  /\ ~Needs[Tx]

\* The catch of mintNft.
Stop ==
  /\ \/ Refused
     \/ script = "waiting" /\ (TimedOut \/ Expired)
  /\ script' = "failed"
  /\ UNCHANGED <<step, points, polls, fate, chain>>

\* A request to the node fails, whatever has come of it.
RpcError ==
  /\ script \in {"sending", "waiting"}
  /\ script' = "failed"
  /\ UNCHANGED <<step, points, polls, fate, chain>>

\* index.ts does not await mintNft and ends the process under it.
Kill ==
  /\ script \notin Over
  /\ script' = "killed"
  /\ UNCHANGED <<step, points, polls, fate, chain>>
-----------------------------------------------------------------------------
(* The cluster: a processed block may still be abandoned, a confirmed one  *)
(* stays.                                                                  *)

Change(tx, from, to) ==
  /\ fate[tx] = from
  /\ fate' = [fate EXCEPT ![tx] = to]
  /\ UNCHANGED <<script, step, points, polls>>

Process(tx) == Needs[tx] /\ Change(tx, "sent", "processed") /\ UNCHANGED chain
Abandon(tx) == Change(tx, "processed", "sent") /\ UNCHANGED chain
Commit(tx) == Change(tx, "processed", "confirmed") /\ chain' = Effect[tx]
Finalize(tx) == Change(tx, "confirmed", "finalized") /\ UNCHANGED chain
Expire(tx) == Change(tx, "sent", "dropped") /\ UNCHANGED chain

Script == ReadPoints \/ Send \/ Confirmed \/ PollAgain \/ Stop

Cluster(tx) ==
  Process(tx) \/ Abandon(tx) \/ Commit(tx) \/ Finalize(tx) \/ Expire(tx)

Next == Script \/ RpcError \/ Kill \/ \E tx \in Txs : Cluster(tx)

Spec == Init /\ [][Next]_vars

\* The event loop runs what is ready; a blockhash does expire.
Fairness ==
  /\ WF_vars(Script)
  /\ \A tx \in Txs : WF_vars(Commit(tx) \/ Expire(tx))

FairSpec == Spec /\ Fairness
-----------------------------------------------------------------------------
(* Properties.                                                             *)

\* Every variable keeps its type.
TypeOK ==
  /\ script \in {"sending", "waiting"} \union Over
  /\ step \in DOMAIN Plan
  /\ points \in 0..99
  /\ polls \in 0..MaxPolls
  /\ fate \in [Txs -> Fates]
  /\ chain \in [funded: BOOLEAN, exists: BOOLEAN, ata: BOOLEAN,
                keys: SUBSET Keys, points: 0..99, supply: Nat,
                mintable: BOOLEAN]

\* The plan carries: at every step the chain is in the state the transaction
\* needs, down to the rent, which is paid once for metadata that changes its
\* size twice.  Only faults from outside can stop the script.
NeverRefused == ~Refused

\* Wherever the script is stopped, what has been done is a prefix of the
\* plan: every transaction before the current one stands, none after it was
\* ever sent.
StopsInOrder ==
  \A i \in DOMAIN Plan :
    /\ i < step => fate[Plan[i]] \in {"confirmed", "finalized"}
    /\ i > step => fate[Plan[i]] = "unsent"

\* A mint without an authority has a supply of one, for ever: it is never
\* left closed and empty.
FixedSupply == chain.exists /\ ~chain.mintable => chain.supply = 1

\* `New NFT' is printed of the NFT that was set out to be made.
AsAnnounced ==
  script = "done" =>
    /\ chain.keys = Keys \ {"WrongData"}
    /\ chain.points = PointsToAdd
    /\ chain.supply = 1
    /\ ~chain.mintable

\* What others can see of the token goes through the stages of an NFT's life,
\* whatever fails, is killed or lands late: a mint without supply is no NFT.
Life == INSTANCE NftLife WITH
  Surplus <- "WrongData",
  nft <- [keys     |-> IF chain.supply > 0 THEN chain.keys ELSE {},
          points   |-> chain.points,
          mintable |-> IF chain.supply > 0 THEN chain.mintable ELSE FALSE,
          supply   |-> chain.supply]
ImplementsNftLife == Life!Spec

\* The script ends, even if the airdrop never arrives.
Ends == <>(script \in Over)
=============================================================================
