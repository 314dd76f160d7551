--------------------------- MODULE NftMintProofs ---------------------------
(***************************************************************************)
(* Theorems of NftMint, for any number of points and polls.  What is on    *)
(* the chain follows from which transactions have settled, and those are   *)
(* the ones before the script's step, with or without the one it is at.    *)
(***************************************************************************)
EXTENDS NftMint, TLAPS

Settled(tx) == fate[tx] \in {"confirmed", "finalized"}

\* StopsInOrder, transaction by transaction.
InOrder(n, tx) ==
  /\ n < step => Settled(tx)
  /\ n > step => fate[tx] = "unsent"

Order ==
  /\ InOrder(1, "airdrop") /\ InOrder(2, "init") /\ InOrder(3, "ata")
  /\ InOrder(4, "mint") /\ InOrder(5, "clean") /\ InOrder(6, "revoke")
  /\ InOrder(7, "points")

\* Where the script is.
Position ==
  /\ script = "sending" => fate[Tx] = "unsent"
  /\ script = "done" => step = 7 /\ Settled("points")
  /\ points \in {0, PointsToAdd}
  /\ fate["points"] # "unsent" => points = PointsToAdd

\* What the chain has.
OnChain ==
  /\ chain.funded <=> Settled("airdrop")
  /\ chain.exists <=> Settled("init")
  /\ chain.ata <=> Settled("ata")
  /\ chain.supply = IF Settled("mint") THEN 1 ELSE 0
  /\ chain.keys = IF ~Settled("init") THEN {}
                  ELSE IF Settled("clean") THEN Keys \ {"WrongData"} ELSE Keys
  /\ chain.mintable <=> Settled("init") /\ ~Settled("revoke")
  /\ chain.points = IF Settled("points") THEN PointsToAdd ELSE 0

Inv == TypeOK /\ Order /\ Position /\ OnChain
-----------------------------------------------------------------------------
(* The plan, spelled out.                                                  *)

\* The seven transactions by their numbers.
LEMMA PlanFacts ==
  /\ DOMAIN Plan = 1..7
  /\ Len(Plan) = 7
  /\ Plan[1] = "airdrop" /\ Plan[2] = "init" /\ Plan[3] = "ata"
  /\ Plan[4] = "mint" /\ Plan[5] = "clean" /\ Plan[6] = "revoke"
  /\ Plan[7] = "points"
BY DEF Plan

LEMMA TxsFacts ==
  Txs = {"airdrop", "init", "ata", "mint", "clean", "revoke", "points"}
<1>1. \A i \in 1..7 : i = 1 \/ i = 2 \/ i = 3 \/ i = 4 \/ i = 5 \/ i = 6 \/ i = 7
  OBVIOUS
<1> QED
  BY <1>1, PlanFacts DEF Txs

LEMMA OrderIsStopsInOrder == ASSUME TypeOK PROVE Order <=> StopsInOrder
<1>1. \A i \in 1..7 : i = 1 \/ i = 2 \/ i = 3 \/ i = 4 \/ i = 5 \/ i = 6 \/ i = 7
  OBVIOUS
<1>2. StopsInOrder <=> \A i \in 1..7 : InOrder(i, Plan[i])
  BY PlanFacts DEF StopsInOrder, InOrder, Settled
<1> QED
  BY <1>1, <1>2, PlanFacts DEF Order

\* The transaction the script is at.
LEMMA TxFacts ==
  ASSUME TypeOK
  PROVE  \/ step = 1 /\ Tx = "airdrop"
         \/ step = 2 /\ Tx = "init"
         \/ step = 3 /\ Tx = "ata"
         \/ step = 4 /\ Tx = "mint"
         \/ step = 5 /\ Tx = "clean"
         \/ step = 6 /\ Tx = "revoke"
         \/ step = 7 /\ Tx = "points"
<1>1. step \in 1..7
  BY PlanFacts DEF TypeOK
<1> QED
  BY <1>1, PlanFacts DEF Tx

\* Only the script's transaction can be under way.
LEMMA OnlyTx ==
  ASSUME TypeOK, Order, NEW tx \in Txs,
         fate[tx] \notin {"unsent", "confirmed", "finalized"}
  PROVE  tx = Tx
BY TxFacts, TxsFacts DEF Order, InOrder, Settled
-----------------------------------------------------------------------------
(* The invariant.                                                          *)

\* Nothing has been sent, and nothing is on the chain.
LEMMA InitInv == Init => Inv
<1> SUFFICES ASSUME Init
             PROVE  Inv
  OBVIOUS
<1>1. \A tx \in Txs : fate[tx] = "unsent"
  BY DEF Init
<1>2. TypeOK
  BY PlanFacts, NftAssumption DEF Init, TypeOK, Fates
<1>3. Order /\ Position /\ OnChain
  BY <1>1, TxsFacts, PlanFacts DEF Init, Order, InOrder, Position, OnChain, Settled, Tx
<1> QED
  BY <1>2, <1>3 DEF Inv

\* A step that changes only where the script is, to one of its ends.
LEMMA EndInv ==
  ASSUME Inv, UNCHANGED <<step, points, polls, fate, chain>>,
         script' \in {"failed", "killed"}
  PROVE  Inv'
<1>1. TypeOK'
  BY DEF Inv, TypeOK, Over
<1>2. Order' /\ Position' /\ OnChain'
  BY DEF Inv, Order, InOrder, Position, OnChain, Settled
<1> QED
  BY <1>1, <1>2 DEF Inv

LEMMA ReadPointsInv == ASSUME Inv, ReadPoints PROVE Inv'
<1>1. step = 7 /\ chain.points = 0
  BY TxFacts DEF Inv, ReadPoints, Order, InOrder, Position, OnChain, Settled
<1>2. points' = PointsToAdd
  BY <1>1, NftAssumption DEF ReadPoints
<1>3. TypeOK'
  BY <1>2, NftAssumption DEF Inv, ReadPoints, TypeOK
<1>4. Order' /\ Position' /\ OnChain'
  BY <1>2 DEF Inv, ReadPoints, Order, InOrder, Position, OnChain, Settled, Tx
<1> QED
  BY <1>3, <1>4 DEF Inv

LEMMA SendInv == ASSUME Inv, Send PROVE Inv'
<1>1. Tx \in Txs
  BY TxFacts, TxsFacts DEF Inv
<1>2. fate[Tx] = "unsent" /\ fate' = [fate EXCEPT ![Tx] = "sent"] /\ fate \in [Txs -> Fates]
  BY DEF Inv, Send, Position, TypeOK
<1>3. \A tx \in Txs : fate'[tx] = IF tx = Tx THEN "sent" ELSE fate[tx]
  BY <1>2
<1>4. TypeOK'
  BY <1>2 DEF Inv, Send, TypeOK, Fates
<1>5. Order'
  BY <1>1, <1>2, <1>3, TxFacts, TxsFacts DEF Inv, Send, Order, InOrder, Settled
<1>6. Position'
  BY <1>1, <1>3, TxsFacts DEF Inv, Send, Position
<1>7. OnChain'
  <2>1. \A tx \in Txs : Settled(tx)' <=> Settled(tx)
    BY <1>2, <1>3 DEF Settled
  <2> QED
    BY <2>1, TxsFacts DEF Inv, Send, OnChain
<1> QED
  BY <1>4, <1>5, <1>6, <1>7 DEF Inv

LEMMA ConfirmedInv == ASSUME Inv, Confirmed PROVE Inv'
<1>1. Settled(Tx)
  BY DEF Confirmed, IsConfirmed, Settled
<1>2. CASE step = 7
  <2>1. script' = "done" /\ UNCHANGED <<step, points, polls, fate, chain>>
    BY <1>2, PlanFacts DEF Confirmed, Proceed
  <2>2. TypeOK'
    BY <2>1 DEF Inv, TypeOK, Over
  <2>3. Order' /\ Position' /\ OnChain'
    BY <1>1, <1>2, <2>1, PlanFacts
    DEF Inv, Order, InOrder, Position, OnChain, Settled, Tx
  <2> QED
    BY <2>2, <2>3 DEF Inv
<1>3. CASE step # 7
  <2>1. /\ script' = "sending"
        /\ step' = step + 1
        /\ UNCHANGED <<points, polls, fate, chain>>
    BY <1>3, PlanFacts DEF Confirmed, Proceed
  <2>2. step \in 1..6
    BY <1>3, PlanFacts DEF Inv, TypeOK
  <2>3. TypeOK'
    BY <2>1, <2>2, PlanFacts DEF Inv, TypeOK
  <2>4. Order'
    BY <1>1, <2>1, <2>2, TxFacts DEF Inv, Order, InOrder, Settled
  <2>5. fate[Tx'] = "unsent"
    BY <2>1, <2>2, PlanFacts DEF Inv, Order, InOrder, Tx
  <2>6. Position' /\ OnChain'
    BY <2>1, <2>5 DEF Inv, Position, OnChain, Settled
  <2> QED
    BY <2>3, <2>4, <2>6 DEF Inv
<1> QED
  BY <1>2, <1>3

LEMMA PollAgainInv == ASSUME Inv, PollAgain PROVE Inv'
<1>1. TypeOK'
  BY NftAssumption DEF Inv, PollAgain, Elapse, TypeOK
<1>2. Order' /\ Position' /\ OnChain'
  BY DEF Inv, PollAgain, Order, InOrder, Position, OnChain, Settled, Tx
<1> QED
  BY <1>1, <1>2 DEF Inv

\* The cluster moves a transaction that has been sent, and does not settle it.
LEMMA MoveInv ==
  ASSUME Inv, NEW tx \in Txs, NEW from, NEW to \in Fates,
         Change(tx, from, to), UNCHANGED chain, from # "unsent", to # "unsent",
         from \in {"confirmed", "finalized"} <=> to \in {"confirmed", "finalized"}
  PROVE  Inv'
<1>1. /\ fate \in [Txs -> Fates]
      /\ fate[tx] = from
      /\ fate' = [fate EXCEPT ![tx] = to]
      /\ UNCHANGED <<script, step, points, polls, chain>>
  BY DEF Inv, TypeOK, Change
<1>2. \A u \in Txs : fate'[u] = IF u = tx THEN to ELSE fate[u]
  BY <1>1
<1>3. \A u \in Txs : /\ Settled(u)' <=> Settled(u)
                     /\ fate'[u] = "unsent" <=> fate[u] = "unsent"
  BY <1>1, <1>2 DEF Settled
<1>4. TypeOK'
  BY <1>1 DEF Inv, TypeOK
<1>5. Order'
  BY <1>1, <1>3, TxsFacts DEF Inv, Order, InOrder
<1>6. Tx \in Txs /\ Tx' = Tx
  BY <1>1, TxFacts, TxsFacts DEF Inv, Tx
<1>7. Position'
  BY <1>1, <1>3, <1>6, TxsFacts DEF Inv, Position
<1>8. OnChain'
  BY <1>1, <1>3, TxsFacts DEF Inv, OnChain
<1> QED
  BY <1>4, <1>5, <1>7, <1>8 DEF Inv

\* The lengths, with PointsToAdd of one or two digits.
LEMMA SizeFacts ==
  /\ Paid = 63
  /\ Size({"Background", "Points"}, PointsToAdd) \in {37, 38}
<1>1. Digits(0) = 1 /\ Digits(PointsToAdd) \in {1, 2}
  BY NftAssumption DEF Digits
<1> QED
  BY <1>1 DEF Size, Paid, Keys

\* What a transaction does, and that it is the next one to do it.
LEMMA CommitFacts ==
  ASSUME Inv, NEW tx \in Txs, Commit(tx)
  PROVE  /\ tx = Tx
         /\ ~Settled(tx)
         /\ fate' = [fate EXCEPT ![tx] = "confirmed"]
         /\ UNCHANGED <<script, step, points, polls>>
         /\ \/ step = 1 /\ tx = "airdrop" /\ chain' = Airdrop
            \/ step = 2 /\ tx = "init" /\ chain' = Initialize
            \/ step = 3 /\ tx = "ata" /\ chain' = OpenAta
            \/ step = 4 /\ tx = "mint" /\ chain' = MintTo
            \/ step = 5 /\ tx = "clean" /\ chain' = RemoveKey
            \/ step = 6 /\ tx = "revoke" /\ chain' = SetAuthority
            \/ step = 7 /\ tx = "points" /\ chain' = UpdateField /\ points = PointsToAdd
<1>1. /\ fate[tx] = "processed"
      /\ fate' = [fate EXCEPT ![tx] = "confirmed"]
      /\ UNCHANGED <<script, step, points, polls>>
      /\ chain' = Effect[tx]
  BY DEF Commit, Change
<1>2. tx = Tx
  BY <1>1, OnlyTx DEF Inv
<1>3. ~Settled(tx)
  BY <1>1 DEF Settled
<1>4. /\ Effect["airdrop"] = Airdrop /\ Effect["init"] = Initialize
      /\ Effect["ata"] = OpenAta /\ Effect["mint"] = MintTo
      /\ Effect["clean"] = RemoveKey /\ Effect["revoke"] = SetAuthority
      /\ Effect["points"] = UpdateField
  BY DEF Effect
<1>5. tx = "points" => points = PointsToAdd
  BY <1>1 DEF Inv, Position
<1> QED
  BY <1>1, <1>2, <1>3, <1>4, <1>5, TxFacts DEF Inv

\* A confirmed transaction keeps the chain what the settled ones make of it.
LEMMA CommitChain ==
  ASSUME Inv, NEW tx \in Txs, Commit(tx)
  PROVE  /\ OnChain'
         /\ chain' \in [funded: BOOLEAN, exists: BOOLEAN, ata: BOOLEAN,
                        keys: SUBSET Keys, points: 0..99, supply: Nat,
                        mintable: BOOLEAN]
<1> USE CommitFacts
<1>1. fate \in [Txs -> Fates]
  BY DEF Inv, TypeOK
<1>2. \A u \in Txs : Settled(u)' <=> (u = tx \/ Settled(u))
  BY <1>1 DEF Settled
<1>3. chain \in [funded: BOOLEAN, exists: BOOLEAN, ata: BOOLEAN,
                 keys: SUBSET Keys, points: 0..99, supply: Nat,
                 mintable: BOOLEAN]
  BY DEF Inv, TypeOK
<1>4. Order /\ OnChain
  BY DEF Inv
<1>5. CASE tx = "airdrop"
  BY <1>2, <1>3, <1>4, <1>5, TxsFacts DEF Airdrop, OnChain
<1>6. CASE tx = "init"
  <2>1. ~Settled("clean") /\ ~Settled("revoke") /\ ~Settled("mint") /\ ~Settled("points")
    BY <1>4, <1>6 DEF Order, InOrder, Settled
  <2> QED
    BY <2>1, <1>2, <1>3, <1>4, <1>6, TxsFacts DEF Initialize, OnChain, Keys
<1>7. CASE tx = "ata"
  BY <1>2, <1>3, <1>4, <1>7, TxsFacts DEF OpenAta, OnChain
<1>8. CASE tx = "mint"
  BY <1>2, <1>3, <1>4, <1>8, TxsFacts DEF MintTo, OnChain
<1>9. CASE tx = "clean"
  <2>1. Settled("init")
    BY <1>4, <1>9 DEF Order, InOrder
  <2> QED
    BY <2>1, <1>2, <1>3, <1>4, <1>9, TxsFacts DEF RemoveKey, OnChain, Keys
<1>10. CASE tx = "revoke"
  BY <1>2, <1>3, <1>4, <1>10, TxsFacts DEF SetAuthority, OnChain
<1>11. CASE tx = "points"
  <2>1. Settled("init") /\ Settled("clean")
    BY <1>4, <1>11 DEF Order, InOrder
  <2>2. chain.keys = Keys \ {"WrongData"}
    BY <2>1, <1>4 DEF OnChain
  <2>3. chain.keys \union {"Points"} = chain.keys
    BY <2>2 DEF Keys
  <2>4. PointsToAdd \in 0..99
    BY NftAssumption
  <2>5. chain' = [chain EXCEPT !.keys = chain.keys, !.points = PointsToAdd]
    BY <2>3, <1>11 DEF UpdateField
  <2>6. /\ chain'.points = PointsToAdd /\ chain'.keys = chain.keys
        /\ chain'.funded = chain.funded /\ chain'.exists = chain.exists
        /\ chain'.ata = chain.ata /\ chain'.supply = chain.supply
        /\ chain'.mintable = chain.mintable
    BY <2>5, <1>3
  <2>7. OnChain'
    BY <2>6, <1>2, <1>4, <1>11, TxsFacts DEF OnChain
  <2> QED
    BY <2>4, <2>5, <2>7, <1>3
<1> QED
  BY <1>5, <1>6, <1>7, <1>8, <1>9, <1>10, <1>11, TxsFacts

LEMMA CommitInv ==
  ASSUME Inv, NEW tx \in Txs, Commit(tx)
  PROVE  Inv'
<1>1. /\ tx = Tx /\ fate[tx] = "processed"
      /\ fate \in [Txs -> Fates]
      /\ fate' = [fate EXCEPT ![tx] = "confirmed"]
      /\ UNCHANGED <<script, step, points, polls>>
  BY CommitFacts DEF Inv, TypeOK, Commit, Change
<1>2. \A u \in Txs : fate'[u] = IF u = tx THEN "confirmed" ELSE fate[u]
  BY <1>1
<1>3. TypeOK'
  BY <1>1, CommitChain DEF Inv, TypeOK, Fates
<1>4. Order'
  BY <1>1, <1>2, TxFacts, TxsFacts DEF Inv, Order, InOrder, Settled
<1>5. Tx' = Tx
  BY <1>1 DEF Tx
<1>6. Position'
  <2>1. script # "sending"
    BY <1>1 DEF Inv, Position
  <2>2. points \in {0, PointsToAdd} /\ (fate'["points"] # "unsent" => points = PointsToAdd)
    BY <1>1, <1>2, TxsFacts DEF Inv, Position
  <2>3. script = "done" => FALSE
    BY <1>1, TxFacts DEF Inv, Position, Settled
  <2> QED
    BY <1>1, <2>1, <2>2, <2>3 DEF Position
<1> QED
  BY <1>3, <1>4, <1>6, CommitChain DEF Inv
-----------------------------------------------------------------------------
(* The theorems.                                                           *)

LEMMA ClusterInv ==
  ASSUME Inv, NEW tx \in Txs, Cluster(tx)
  PROVE  Inv'
<1>1. CASE Process(tx)
  BY <1>1, MoveInv DEF Process, Fates
<1>2. CASE Abandon(tx)
  BY <1>2, MoveInv DEF Abandon, Fates
<1>3. CASE Commit(tx)
  BY <1>3, CommitInv
<1>4. CASE Finalize(tx)
  BY <1>4, MoveInv DEF Finalize, Fates
<1>5. CASE Expire(tx)
  BY <1>5, MoveInv DEF Expire, Fates
<1> QED
  BY <1>1, <1>2, <1>3, <1>4, <1>5 DEF Cluster

LEMMA NextInv == Inv /\ [Next]_vars => Inv'
<1> SUFFICES ASSUME Inv, [Next]_vars
             PROVE  Inv'
  OBVIOUS
<1>1. CASE ReadPoints
  BY <1>1, ReadPointsInv
<1>2. CASE Send
  BY <1>2, SendInv
<1>3. CASE Confirmed
  BY <1>3, ConfirmedInv
<1>4. CASE PollAgain
  BY <1>4, PollAgainInv
<1>5. CASE Stop \/ RpcError \/ Kill
  BY <1>5, EndInv DEF Stop, RpcError, Kill
<1>6. CASE \E tx \in Txs : Cluster(tx)
  BY <1>6, ClusterInv
<1>7. CASE UNCHANGED vars
  BY <1>7 DEF vars, Inv, TypeOK, Order, InOrder, Position, OnChain, Settled, Tx
<1> QED
  BY <1>1, <1>2, <1>3, <1>4, <1>5, <1>6, <1>7 DEF Next, Script

LEMMA Invariance == Spec => []Inv
BY InitInv, NextInv, PTL DEF Spec

\* Type correctness: every variable keeps its type.
THEOREM TypeCorrect == Spec => []TypeOK
<1>1. Inv => TypeOK
  BY DEF Inv
<1> QED
  BY <1>1, Invariance, PTL

\* Order: wherever the script stops, what is done is a prefix of the plan.
THEOREM AlwaysInOrder == Spec => []StopsInOrder
<1>1. Inv => StopsInOrder
  BY OrderIsStopsInOrder DEF Inv
<1> QED
  BY <1>1, Invariance, PTL

\* Supply: a mint that nobody can mint from any more has its one token.
THEOREM SupplyIsFixed == Spec => []FixedSupply
<1>1. Inv => FixedSupply
  <2> SUFFICES ASSUME Inv, chain.exists, ~chain.mintable
               PROVE  chain.supply = 1
    BY DEF FixedSupply
  <2>1. Settled("revoke")
    BY DEF Inv, OnChain
  <2>2. step \in 6..7
    BY <2>1, TxFacts DEF Inv, Order, InOrder, Settled
  <2>3. Settled("mint")
    BY <2>2 DEF Inv, Order, InOrder
  <2> QED
    BY <2>3 DEF Inv, OnChain
<1> QED
  BY <1>1, Invariance, PTL

\* Announcement: the script is done with the NFT that it set out to make.
THEOREM DoneAsAnnounced == Spec => []AsAnnounced
<1>1. Inv => AsAnnounced
  BY DEF Inv, Position, Order, InOrder, OnChain, AsAnnounced
<1> QED
  BY <1>1, Invariance, PTL

\* Refusal: the plan carries, down to the rent, for any number of points that
\* has as many digits as the assumption allows.
THEOREM NothingRefused == Spec => []NeverRefused
<1>1. Inv => NeverRefused
  <2> SUFFICES ASSUME Inv, Refused
               PROVE  FALSE
    BY DEF NeverRefused
  <2>1. /\ Needs["airdrop"]
        /\ Needs["init"] <=> chain.funded /\ ~chain.exists
        /\ Needs["ata"] <=> chain.exists
        /\ Needs["mint"] <=> chain.ata /\ chain.mintable
        /\ Needs["clean"] <=> chain.exists
        /\ Needs["revoke"] <=> chain.mintable
        /\ Needs["points"] <=>
             chain.exists /\ Size(UpdateField.keys, points) <= Paid
    BY DEF Needs
  <2>2. ~Needs[Tx] /\ fate[Tx] = "unsent" /\ Order /\ OnChain
    BY DEF Inv, Position, Refused
  <2>3. step = 7 /\ Tx = "points"
    <3>1. step # 1
      BY <2>1, <2>2, TxFacts DEF Inv
    <3>2. step # 2
      <4> SUFFICES ASSUME step = 2 PROVE FALSE
        OBVIOUS
      <4>1. Tx = "init" /\ Settled("airdrop") /\ ~Settled("init")
        BY <2>2, TxFacts DEF Inv, Order, InOrder, Settled
      <4> QED
        BY <4>1, <2>1, <2>2 DEF OnChain
    <3>3. step \notin {3, 5}
      <4> SUFFICES ASSUME step \in {3, 5} PROVE FALSE
        OBVIOUS
      <4>1. Tx \in {"ata", "clean"} /\ Settled("init")
        BY <2>2, TxFacts DEF Inv, Order, InOrder
      <4> QED
        BY <4>1, <2>1, <2>2 DEF OnChain
    <3>4. step \notin {4, 6}
      <4> SUFFICES ASSUME step \in {4, 6} PROVE FALSE
        OBVIOUS
      <4>1. /\ Tx \in {"mint", "revoke"} /\ Settled("init") /\ Settled("ata")
            /\ ~Settled("revoke")
        BY <2>2, TxFacts DEF Inv, Order, InOrder, Settled
      <4> QED
        BY <4>1, <2>1, <2>2 DEF OnChain
    <3> QED
      BY <3>1, <3>2, <3>3, <3>4, TxFacts DEF Inv
  <2>4. Settled("init") /\ Settled("clean")
    BY <2>2, <2>3 DEF Order, InOrder
  <2>5. chain.keys = Keys \ {"WrongData"} /\ chain.exists
    BY <2>2, <2>4 DEF OnChain
  <2>6. points = PointsToAdd
    BY <2>3, <2>5 DEF Refused, Inv, Position
  <2>7. UpdateField.keys = {"Background", "Points"}
    <3>1. chain.keys \union {"Points"} = {"Background", "Points"}
      BY <2>5 DEF Keys
    <3> QED
      BY <3>1 DEF UpdateField, Inv, TypeOK
  <2>8. Size(UpdateField.keys, points) <= Paid
    BY <2>6, <2>7, SizeFacts
  <2> QED
    BY <2>1, <2>2, <2>3, <2>5, <2>8
<1> QED
  BY <1>1, Invariance, PTL
-----------------------------------------------------------------------------
(* Refinement of NftLife.                                                  *)

\* What others see of the token on chain c.
View(c) == [keys     |-> IF c.supply > 0 THEN c.keys ELSE {},
            points   |-> c.points,
            mintable |-> IF c.supply > 0 THEN c.mintable ELSE FALSE,
            supply   |-> c.supply]

LEMMA Unborn ==
  ASSUME NEW c, c.supply = 0, c.points = 0
  PROVE  View(c) = Life!NoNft
BY DEF View, Life!NoNft

LEMMA Alive ==
  ASSUME NEW c, c.supply = 1, c.mintable \in BOOLEAN
  PROVE  View(c) = [keys |-> c.keys, points |-> c.points,
                    mintable |-> c.mintable, supply |-> 1]
BY DEF View

\* The fields of a living token change one at a time.
LEMMA OneField ==
  ASSUME NEW c, c.supply = 1, c.mintable \in BOOLEAN,
         NEW d, d.supply = 1, d.mintable \in BOOLEAN
  PROVE  /\ d.points = c.points /\ d.mintable = c.mintable
            => View(d) = [View(c) EXCEPT !.keys = d.keys]
         /\ d.keys = c.keys /\ d.points = c.points
            => View(d) = [View(c) EXCEPT !.mintable = d.mintable]
         /\ d.keys = c.keys /\ d.mintable = c.mintable
            => View(d) = [View(c) EXCEPT !.points = d.points]
<1>1. View(c) = [keys |-> c.keys, points |-> c.points,
                 mintable |-> c.mintable, supply |-> 1]
  BY Alive
<1>2. View(d) = [keys |-> d.keys, points |-> d.points,
                 mintable |-> d.mintable, supply |-> 1]
  BY Alive
<1> QED
  BY <1>1, <1>2

\* A confirmed transaction is a step of the token's life, or none.
LEMMA CommitLife ==
  ASSUME Inv, NEW tx \in Txs, Commit(tx)
  PROVE  Life!Next \/ View(chain') = View(chain)
<1>1. OnChain /\ Order /\ ~Settled(tx)
  BY CommitFacts DEF Inv
<1>2. chain \in [funded: BOOLEAN, exists: BOOLEAN, ata: BOOLEAN,
                 keys: SUBSET Keys, points: 0..99, supply: Nat,
                 mintable: BOOLEAN]
  BY DEF Inv, TypeOK
<1>3. CASE tx \in {"airdrop", "init", "ata"}
  <2>1. ~Settled("mint") /\ ~Settled("points")
    BY <1>1, <1>3, CommitFacts DEF Order, InOrder, Settled
  <2>2. chain.supply = 0 /\ chain.points = 0
    BY <2>1, <1>1 DEF OnChain
  <2>3. chain'.supply = 0 /\ chain'.points = 0
    BY <2>2, <1>2, <1>3, CommitFacts DEF Airdrop, Initialize, OpenAta
  <2> QED
    BY <2>2, <2>3, Unborn
<1>4. CASE tx = "mint"
  <2>1. /\ Settled("init") /\ ~Settled("clean") /\ ~Settled("revoke")
        /\ ~Settled("points") /\ ~Settled("mint")
    BY <1>1, <1>4, CommitFacts DEF Order, InOrder, Settled
  <2>2. /\ chain.supply = 0 /\ chain.points = 0
        /\ chain.keys = Keys /\ chain.mintable
    BY <2>1, <1>1 DEF OnChain
  <2>3. /\ chain'.keys = Keys /\ chain'.points = 0 /\ chain'.supply = 1
        /\ chain'.mintable \in BOOLEAN /\ chain'.mintable
    BY <2>2, <1>2, <1>4, CommitFacts DEF MintTo
  <2>4. View(chain') = [keys |-> Keys, points |-> 0,
                        mintable |-> chain'.mintable, supply |-> 1]
    BY <2>3, Alive
  <2>5. chain'.mintable = TRUE
    BY <2>3
  <2>6. View(chain') = [keys |-> Keys, points |-> 0, mintable |-> TRUE, supply |-> 1]
    BY <2>4, <2>5, Zenon
  <2> QED
    BY <2>2, <2>6, Unborn DEF View, Life!Next, Life!CreateTokenAndMint
<1>5. CASE tx = "clean"
  <2>1. Settled("init") /\ Settled("mint") /\ ~Settled("revoke")
    BY <1>1, <1>5, CommitFacts DEF Order, InOrder, Settled
  <2>2. chain.supply = 1 /\ chain.keys = Keys /\ chain.mintable
    BY <2>1, <1>1, <1>5 DEF OnChain
  <2>3. /\ chain'.supply = 1 /\ chain'.points = chain.points
        /\ chain'.mintable = chain.mintable /\ chain.mintable \in BOOLEAN
        /\ chain'.keys = chain.keys \ {"WrongData"}
    BY <2>2, <1>2, <1>5, CommitFacts DEF RemoveKey
  <2>4. View(chain') = [View(chain) EXCEPT !.keys = chain'.keys]
    BY <2>2, <2>3, OneField
  <2>5. View(chain).keys = chain.keys /\ View(chain).mintable
    BY <2>2 DEF View
  <2>6. "WrongData" \in chain.keys
    BY <2>2 DEF Keys
  <2> QED
    BY <2>3, <2>4, <2>5, <2>6 DEF View, Life!Next, Life!RemoveMetadataField
<1>6. CASE tx = "revoke"
  <2>1. Settled("init") /\ Settled("mint") /\ Settled("clean")
    BY <1>1, <1>6, CommitFacts DEF Order, InOrder, Settled
  <2>2. chain.supply = 1 /\ chain.keys = Keys \ {"WrongData"} /\ chain.mintable
    BY <2>1, <1>1, <1>6 DEF OnChain
  <2>3. /\ chain'.supply = 1 /\ chain'.points = chain.points
        /\ chain'.keys = chain.keys /\ chain.mintable \in BOOLEAN
        /\ chain'.mintable \in BOOLEAN /\ ~chain'.mintable
    BY <2>2, <1>2, <1>6, CommitFacts DEF SetAuthority
  <2>4. View(chain') = [View(chain) EXCEPT !.mintable = chain'.mintable]
    BY <2>2, <2>3, OneField
  <2>5. chain'.mintable = FALSE
    BY <2>3
  <2>6. View(chain') = [View(chain) EXCEPT !.mintable = FALSE]
    BY <2>4, <2>5, Zenon
  <2>7. View(chain).keys = chain.keys /\ View(chain).mintable
    BY <2>2 DEF View
  <2>8. "WrongData" \notin View(chain).keys
    BY <2>2, <2>7
  <2> QED
    BY <2>6, <2>7, <2>8 DEF View, Life!Next, Life!RemoveAuthority
<1>7. CASE tx = "points"
  <2>1. /\ Settled("init") /\ Settled("mint") /\ Settled("clean")
        /\ Settled("revoke") /\ ~Settled("points")
    BY <1>1, <1>7, CommitFacts DEF Order, InOrder, Settled
  <2>2. /\ chain.supply = 1 /\ chain.keys = Keys \ {"WrongData"}
        /\ ~chain.mintable /\ chain.points = 0
    BY <2>1, <1>1 DEF OnChain
  <2>3. chain.keys \union {"Points"} = chain.keys
    BY <2>2 DEF Keys
  <2>4. /\ chain'.supply = 1 /\ chain'.keys = chain.keys
        /\ chain'.mintable = chain.mintable /\ chain.mintable \in BOOLEAN
        /\ chain'.points = PointsToAdd
    BY <2>2, <2>3, <1>2, <1>7, CommitFacts DEF UpdateField
  <2>5. View(chain') = [View(chain) EXCEPT !.points = PointsToAdd]
    BY <2>2, <2>4, OneField
  <2>6. View(chain).supply = 1 /\ View(chain).points = 0
    BY <2>2 DEF View
  <2>7. ~View(chain).mintable
    BY <2>2, <2>4, Alive
  <2> QED
    BY <2>5, <2>6, <2>7 DEF View, Life!Next, Life!IncrementPoints
<1> QED
  BY <1>3, <1>4, <1>5, <1>6, <1>7, TxsFacts

\* Refinement: whatever fails or lands late, the token goes through the life
\* of an NFT.
THEOREM Refinement == Spec => ImplementsNftLife
<1>1. Init => Life!Init
  <2>1. Init => Life!Init <=> View(chain) = Life!NoNft
    BY DEF View, Life!Init
  <2>2. Init => View(chain) = Life!NoNft
    BY Unborn DEF Init
  <2> QED
    BY <2>1, <2>2
<1>2. Inv /\ [Next]_vars => [Life!Next]_(View(chain))
  <2> SUFFICES ASSUME Inv, [Next]_vars
               PROVE  Life!Next \/ View(chain') = View(chain)
    OBVIOUS
  <2>1. CASE UNCHANGED chain
    BY <2>1
  <2>2. CASE \E tx \in Txs : Commit(tx)
    BY <2>2, CommitLife
  <2> QED
    BY <2>1, <2>2 DEF Next, Script, ReadPoints, Send, Confirmed, PollAgain, Stop,
       RpcError, Kill, Cluster, Process, Abandon, Finalize, Expire, vars
<1> QED
  BY <1>1, <1>2, Invariance, PTL DEF Spec, ImplementsNftLife, Life!Spec, View
=============================================================================
