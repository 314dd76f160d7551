--------------------------- MODULE TokenCliProofs ---------------------------
(***************************************************************************)
(* Theorems of TokenCli, for any number of runs, blockhashes, mints and    *)
(* holders and any amounts.  The chain executes a transaction once, so the *)
(* tokens are counted by transaction: by the blockhashes whose g13 or g14  *)
(* was executed.  The runs are counted by the blockhashes they printed.    *)
(***************************************************************************)
EXTENDS TokenCli, FiniteSetTheorems, TLAPS

\* What goes with the place a run is at.
Stages ==
  \A r \in Runs :
    /\ run[r].place \in {"idle", "building"} => run[r].hash = NoHash
    /\ run[r].place = "done" => fate[Tx(r)] = "executed"
    /\ run[r].place = "building" /\ run[r].command # "make mint" => run[r].mint # NoMint
    /\ run[r].mint \in shown \union {NoMint}

\* A transaction on its way is one that some run has sent.
Sender(t) ==
  \E r \in Runs : run[r].place \in {"waiting", "done", "error"} /\ Tx(r) = t

Senders == \A t \in Transactions : fate[t] # "unsent" => Sender(t)

Executed(command, m) ==
  {h \in Hashes : fate[[command |-> command, mint |-> m, hash |-> h]] = "executed"}
Times(command, m) == Cardinality(Executed(command, m))

Issued(m) == Times("mint tokens", m) * MintUI * UNIT
Transferred(m) == Times("send tokens", m) * SendUI * UNIT

\* The executed transactions explain what everyone has of every mint.
Explained ==
  \A m \in MintIds :
    /\ supply[m] = Issued(m)
    /\ \A h \in Holders :
         balance[m][h] = (IF h = addr3 THEN Issued(m) ELSE 0)
                         + (IF h = addr2 THEN Transferred(m) ELSE 0)
                         - (IF h = signer THEN Transferred(m) ELSE 0)

Inv == TypeOK /\ minted \subseteq shown /\ Stages /\ Senders /\ Explained
-----------------------------------------------------------------------------
(* Counting transactions.                                                  *)

\* Few enough blockhashes to count.
LEMMA Countable ==
  ASSUME NEW S, S \subseteq Hashes
  PROVE  IsFiniteSet(S) /\ Cardinality(S) \in Nat
<1>1. IsFiniteSet(Hashes)
  BY CliAssumption, FS_Interval DEF Hashes
<1> QED
  BY <1>1, FS_Subset, FS_CardinalityType

\* The transactions that were executed can be counted.
LEMMA CountNat ==
  ASSUME NEW command, NEW m
  PROVE  IsFiniteSet(Executed(command, m)) /\ Times(command, m) \in Nat
<1>1. Executed(command, m) \subseteq Hashes
  BY DEF Executed
<1> QED
  BY <1>1, Countable DEF Times

\* One issue and one transfer are positive amounts.
LEMMA Positive == MintUI * UNIT \in Nat \ {0} /\ SendUI * UNIT \in Nat \ {0}
<1>1. \A a, b \in Nat \ {0} : a * b \in Nat \ {0}
  OBVIOUS
<1> QED
  BY <1>1, CliAssumption

\* An amount taken once more.
LEMMA OneMore ==
  ASSUME NEW n \in Nat, NEW a \in Nat, NEW b \in Nat
  PROVE  /\ n * a * b \in Nat
         /\ (n + 1) * a * b = n * a * b + a * b
OBVIOUS

\* What was issued and transferred are natural numbers.
LEMMA AmountsNat ==
  ASSUME NEW m
  PROVE  Issued(m) \in Nat /\ Transferred(m) \in Nat
BY CountNat, OneMore, CliAssumption DEF Issued, Transferred

\* They are after a step, too.
LEMMA AmountsNatNext ==
  ASSUME NEW m
  PROVE  Issued(m)' \in Nat /\ Transferred(m)' \in Nat
<1>1. ASSUME NEW c PROVE Times(c, m)' \in Nat
  <2>1. Executed(c, m)' \subseteq Hashes
    BY DEF Executed
  <2> QED
    BY <2>1, Countable DEF Times
<1> QED
  BY <1>1, OneMore, CliAssumption DEF Issued, Transferred

\* Only an execution changes the counts.
LEMMA SameCounts ==
  ASSUME \A t \in Transactions : fate'[t] = "executed" <=> fate[t] = "executed",
         NEW m \in MintIds
  PROVE  Issued(m)' = Issued(m) /\ Transferred(m)' = Transferred(m)
<1>1. ASSUME NEW c \in Commands PROVE Executed(c, m)' = Executed(c, m)
  <2>1. \A h \in Hashes : [command |-> c, mint |-> m, hash |-> h] \in Transactions
    BY DEF Transactions
  <2> QED
    BY <2>1 DEF Executed
<1>2. ASSUME NEW c \in Commands PROVE Times(c, m)' = Times(c, m)
  BY <1>1 DEF Times
<1> QED
  BY <1>2 DEF Issued, Transferred, Commands

\* An execution adds its transaction to one of them.
LEMMA NextCount ==
  ASSUME NEW t \in Transactions, fate \in [Transactions -> Fates], fate[t] = "sent",
         fate' = [fate EXCEPT ![t] = "executed"],
         NEW c \in Commands, NEW m \in MintIds
  PROVE  IF t.command = c /\ t.mint = m
         THEN Times(c, m)' = Times(c, m) + 1
         ELSE Times(c, m)' = Times(c, m)
<1> DEFINE T(h) == [command |-> c, mint |-> m, hash |-> h]
<1>1. \A h \in Hashes : T(h) \in Transactions
  BY DEF Transactions
<1>2. \A u \in Transactions : fate'[u] = "executed" <=> (u = t \/ fate[u] = "executed")
  OBVIOUS
<1>3. CASE t.command = c /\ t.mint = m
  <2>1. t.hash \in Hashes /\ \A h \in Hashes : T(h) = t <=> h = t.hash
    BY <1>3 DEF Transactions
  <2>2. Executed(c, m)' = Executed(c, m) \union {t.hash}
    BY <1>1, <1>2, <2>1 DEF Executed
  <2>3. t.hash \notin Executed(c, m)
    BY <2>1 DEF Executed
  <2>4. Cardinality(Executed(c, m) \union {t.hash}) = Cardinality(Executed(c, m)) + 1
    BY <2>3, CountNat, FS_AddElement
  <2> QED
    BY <1>3, <2>2, <2>4 DEF Times
<1>4. CASE ~(t.command = c /\ t.mint = m)
  <2>1. \A h \in Hashes : T(h) # t
    BY <1>4
  <2>2. Executed(c, m)' = Executed(c, m)
    BY <1>1, <1>2, <2>1 DEF Executed
  <2>3. Times(c, m)' = Times(c, m)
    BY <2>2 DEF Times
  <2> QED
    BY <1>4, <2>3
<1> QED
  BY <1>3, <1>4

\* What the executed commands account for, after one more of them.
LEMMA NextAmounts ==
  ASSUME NEW t \in Transactions, fate \in [Transactions -> Fates], fate[t] = "sent",
         fate' = [fate EXCEPT ![t] = "executed"], NEW m \in MintIds
  PROVE  /\ IF t.command = "mint tokens" /\ t.mint = m
            THEN Issued(m)' = Issued(m) + MintUI * UNIT
            ELSE Issued(m)' = Issued(m)
         /\ IF t.command = "send tokens" /\ t.mint = m
            THEN Transferred(m)' = Transferred(m) + SendUI * UNIT
            ELSE Transferred(m)' = Transferred(m)
<1>1. /\ Times("mint tokens", m) \in Nat
      /\ Times("send tokens", m) \in Nat
  BY CountNat
<1>2. MintUI \in Nat /\ SendUI \in Nat /\ UNIT \in Nat
  BY CliAssumption
<1>3. /\ (Times("mint tokens", m) + 1) * MintUI * UNIT
           = Issued(m) + MintUI * UNIT
      /\ (Times("send tokens", m) + 1) * SendUI * UNIT
           = Transferred(m) + SendUI * UNIT
  BY <1>1, <1>2, OneMore DEF Issued, Transferred
<1>4. IF t.command = "mint tokens" /\ t.mint = m
      THEN Issued(m)' = Issued(m) + MintUI * UNIT
      ELSE Issued(m)' = Issued(m)
  <2>1. CASE t.command = "mint tokens" /\ t.mint = m
    <3>1. Times("mint tokens", m)' = Times("mint tokens", m) + 1
      BY <2>1, NextCount DEF Commands
    <3> QED
      BY <1>3, <2>1, <3>1 DEF Issued
  <2>2. CASE ~(t.command = "mint tokens" /\ t.mint = m)
    <3>1. Times("mint tokens", m)' = Times("mint tokens", m)
      BY <2>2, NextCount DEF Commands
    <3> QED
      BY <2>2, <3>1 DEF Issued
  <2> QED
    BY <2>1, <2>2
<1>5. IF t.command = "send tokens" /\ t.mint = m
      THEN Transferred(m)' = Transferred(m) + SendUI * UNIT
      ELSE Transferred(m)' = Transferred(m)
  <2>1. CASE t.command = "send tokens" /\ t.mint = m
    <3>1. Times("send tokens", m)' = Times("send tokens", m) + 1
      BY <2>1, NextCount DEF Commands
    <3> QED
      BY <1>3, <2>1, <3>1 DEF Transferred
  <2>2. CASE ~(t.command = "send tokens" /\ t.mint = m)
    <3>1. Times("send tokens", m)' = Times("send tokens", m)
      BY <2>2, NextCount DEF Commands
    <3> QED
      BY <2>2, <3>1 DEF Transferred
  <2> QED
    BY <2>1, <2>2
<1> QED
  BY <1>4, <1>5

\* The signer's balance is not negative, so nobody holds more than the supply.
LEMMA Bounded ==
  ASSUME NEW issued \in 0..U64_MAX, NEW sent \in Nat, NEW a \in Holders,
         NEW b,
         \A h \in Holders :
           b[h] = (IF h = a THEN issued ELSE 0) + (IF h = addr2 THEN sent ELSE 0)
                  - (IF h = signer THEN sent ELSE 0),
         b[signer] >= 0
  PROVE  \A h \in Holders : b[h] \in 0..U64_MAX
<1>1. signer \in Holders /\ addr2 \in Holders /\ signer # addr2 /\ U64_MAX \in Nat
  BY CliAssumption
<1>2. sent <= IF signer = a THEN issued ELSE 0
  BY <1>1
<1> QED
  BY <1>1, <1>2
-----------------------------------------------------------------------------
(* The invariant.                                                          *)

\* At first nothing is minted and nothing sent.
LEMMA InitInv == Init => Inv
<1> SUFFICES ASSUME Init PROVE Inv
  OBVIOUS
<1>1. TypeOK
  <2>1. 0 \in 0..U64_MAX
    BY CliAssumption
  <2>2. /\ supply \in [MintIds -> 0..U64_MAX]
        /\ balance \in [MintIds -> [Holders -> 0..U64_MAX]]
    BY <2>1 DEF Init
  <2>3. /\ run \in [Runs -> [command: Commands, mint: MintIds \union {NoMint},
             hash: Hashes \union {NoHash},
             place: {"idle", "building", "built", "waiting", "done", "error"}]]
        /\ fate \in [Transactions -> Fates]
        /\ \A r \in Runs : run[r].place = "idle"
    BY DEF Init, Commands, Fates
  <2>4. latest \in Hashes
    <3>1. MaxHash \in Nat /\ MaxHash >= 1
      BY CliAssumption
    <3>2. 1 \in 1..MaxHash
      BY <3>1
    <3> QED
      BY <3>2 DEF Init, Hashes
  <2> QED
    BY <2>2, <2>3, <2>4 DEF Init, TypeOK
<1>2. ASSUME NEW m \in MintIds, NEW c \in Commands PROVE Times(c, m) = 0
  <2>1. \A h \in Hashes : [command |-> c, mint |-> m, hash |-> h] \in Transactions
    BY DEF Transactions
  <2>2. Executed(c, m) = {}
    BY <2>1 DEF Init, Executed
  <2> QED
    BY <2>2, FS_EmptySet DEF Times
<1>3. \A a, b \in Nat : 0 * a * b = 0
  OBVIOUS
<1>4. ASSUME NEW m \in MintIds PROVE Issued(m) = 0 /\ Transferred(m) = 0
  BY <1>2, <1>3, CliAssumption DEF Issued, Transferred, Commands
<1>5. minted \subseteq shown /\ Stages /\ Senders
  BY DEF Init, Stages, Senders
<1>6. ASSUME NEW m \in MintIds PROVE supply[m] = 0 /\ \A h \in Holders : balance[m][h] = 0
  BY DEF Init
<1>7. Explained
  BY <1>4, <1>6 DEF Explained
<1> QED
  BY <1>1, <1>5, <1>7 DEF Inv

\* A step that moves no token and executes nothing keeps Explained.
LEMMA KeepExplained ==
  ASSUME Explained, UNCHANGED <<supply, balance, addr3>>,
         \A t \in Transactions : fate'[t] = "executed" <=> fate[t] = "executed"
  PROVE  Explained'
<1>1. \A m \in MintIds : Issued(m)' = Issued(m) /\ Transferred(m)' = Transferred(m)
  BY SameCounts
<1> QED
  BY <1>1 DEF Explained

\* What a run has sent, it has sent.
LEMMA KeepSenders ==
  ASSUME Senders,
         \A r \in Runs : run[r].place \in {"waiting", "done", "error"} =>
           run'[r].place \in {"waiting", "done", "error"} /\ Tx(r)' = Tx(r),
         \A t \in Transactions : fate'[t] # "unsent" =>
           fate[t] # "unsent" \/ Sender(t)'
  PROVE  Senders'
<1>1. ASSUME NEW t \in Transactions, Sender(t) PROVE Sender(t)'
  BY <1>1 DEF Sender
<1> QED
  BY <1>1 DEF Senders

\* Starting a command sends nothing.
LEMMA StartInv ==
  ASSUME Inv, NEW r \in Runs, NEW command \in Commands,
         NEW m \in MintIds \union {NoMint}, Start(r, command, m)
  PROVE  Inv'
<1>1. /\ run[r].place = "idle"
      /\ run' = [run EXCEPT ![r] = [command |-> command, mint |-> m,
                                    hash |-> NoHash, place |-> "building"]]
      /\ UNCHANGED <<latest, fate, shown, minted, supply, balance, addr3>>
      /\ m = NoMint <=> command = "make mint"
      /\ m # NoMint => m \in shown
  BY DEF Start, FromEnvironment
<1>2. run \in [Runs -> [command: Commands, mint: MintIds \union {NoMint},
                        hash: Hashes \union {NoHash},
                        place: {"idle", "building", "built", "waiting", "done", "error"}]]
  BY DEF Inv, TypeOK
<1>3. /\ run'[r].place = "building" /\ run'[r].hash = NoHash
      /\ run'[r].command = command /\ run'[r].mint = m
      /\ \A u \in Runs : u # r => run'[u] = run[u]
  BY <1>1, <1>2
<1>4. \A u \in Runs : u # r => Tx(u)' = Tx(u)
  BY <1>3 DEF Tx
<1>5. TypeOK'
  BY <1>1, <1>3, <1>4 DEF Inv, TypeOK
<1>6. Stages'
  <2>1. ASSUME NEW u \in Runs, run'[u].place = "done" PROVE fate'[Tx(u)'] = "executed"
    <3>1. u # r
      BY <1>3, <2>1
    <3> QED
      BY <1>1, <1>3, <1>4, <2>1, <3>1 DEF Inv, Stages
  <2>2. run'[r].mint \in shown' \union {NoMint}
    <3>1. m \in shown \union {NoMint} /\ shown' = shown
      BY <1>1
    <3>2. run'[r].mint = m
      BY <1>3
    <3> QED
      BY <3>1, <3>2
  <2>3. \A u \in Runs : u # r => run'[u].mint \in shown' \union {NoMint}
    BY <1>1, <1>3 DEF Inv, Stages
  <2>4. \A u \in Runs : run'[u].place \in {"idle", "building"} => run'[u].hash = NoHash
    BY <1>3 DEF Inv, Stages
  <2>5. \A u \in Runs : run'[u].place = "building" /\ run'[u].command # "make mint" =>
          run'[u].mint # NoMint
    BY <1>1, <1>3 DEF Inv, Stages
  <2> QED
    BY <2>1, <2>2, <2>3, <2>4, <2>5 DEF Stages
<1>7. Senders'
  <2>1. ASSUME NEW u \in Runs, run[u].place \in {"waiting", "done", "error"}
        PROVE  run'[u].place \in {"waiting", "done", "error"} /\ Tx(u)' = Tx(u)
    BY <1>1, <1>3, <1>4, <2>1
  <2> QED
    BY <1>1, <2>1, KeepSenders DEF Inv
<1>8. Explained'
  BY <1>1, KeepExplained DEF Inv
<1> QED
  BY <1>1, <1>5, <1>6, <1>7, <1>8 DEF Inv

\* A run fetches the blockhash and builds, having found its mint.
LEMMA BuildInv ==
  ASSUME Inv, NEW r \in Runs, run[r].place = "building",
         NEW m \in MintIds, NEW p \in {"built", "error"},
         run' = [run EXCEPT ![r].mint = m, ![r].hash = latest, ![r].place = p],
         m \in shown', shown \subseteq shown', shown' \subseteq MintIds,
         UNCHANGED <<latest, fate, minted, supply, balance, addr3>>
  PROVE  Inv'
<1>1. run \in [Runs -> [command: Commands, mint: MintIds \union {NoMint},
                        hash: Hashes \union {NoHash},
                        place: {"idle", "building", "built", "waiting", "done", "error"}]]
  BY DEF Inv, TypeOK
<1>2. /\ run'[r].place = p /\ run'[r].hash = latest
      /\ run'[r].command = run[r].command /\ run'[r].mint = m
      /\ \A u \in Runs : u # r => run'[u] = run[u]
  BY <1>1
<1>3. \A u \in Runs : u # r => Tx(u)' = Tx(u)
  BY <1>2 DEF Tx
<1>4. latest \in Hashes /\ run[r].command \in Commands
  BY <1>1 DEF Inv, TypeOK
<1>5. Tx(r)' \in Transactions
  BY <1>2, <1>4 DEF Tx, Transactions
<1>6. run' \in [Runs -> [command: Commands, mint: MintIds \union {NoMint},
                         hash: Hashes \union {NoHash},
                         place: {"idle", "building", "built", "waiting", "done", "error"}]]
  BY <1>1, <1>4
<1>7. TypeOK'
  BY <1>2, <1>3, <1>5, <1>6 DEF Inv, TypeOK
<1>8. Stages'
  BY <1>2, <1>3 DEF Inv, Stages
<1>9. Senders'
  BY <1>2, <1>3, KeepSenders DEF Inv
<1>10. Explained'
  BY KeepExplained DEF Inv
<1> QED
  BY <1>7, <1>8, <1>9, <1>10 DEF Inv

\* g12 prints the address it has generated as it builds.
LEMMA GenerateMintInv ==
  ASSUME Inv, NEW r \in Runs, NEW m \in MintIds, GenerateMint(r, m)
  PROVE  Inv'
<1>1. shown' = shown \union {m} /\ shown \subseteq MintIds
  BY DEF GenerateMint, Show, Inv, TypeOK
<1> QED
  BY <1>1, BuildInv DEF GenerateMint

\* g13 and g14 take the mint of the environment.
LEMMA BuildTransactionInv ==
  ASSUME Inv, NEW r \in Runs, BuildTransaction(r)
  PROVE  Inv'
<1> DEFINE p == IF Amount(run[r].command) <= U64_MAX THEN "built" ELSE "error"
           m == run[r].mint
<1>1. /\ p \in {"built", "error"}
      /\ run[r].place = "building"
      /\ run[r].command # "make mint"
      /\ run' = [run EXCEPT ![r].hash = latest, ![r].place = p]
      /\ UNCHANGED <<latest, fate, shown, minted, supply, balance, addr3>>
  BY DEF BuildTransaction
<1>2. m \in MintIds /\ m \in shown /\ shown \subseteq MintIds
  BY <1>1 DEF Inv, TypeOK, Stages
<1>3. run \in [Runs -> [command: Commands, mint: MintIds \union {NoMint},
                        hash: Hashes \union {NoHash},
                        place: {"idle", "building", "built", "waiting", "done", "error"}]]
  BY DEF Inv, TypeOK
<1> HIDE DEF p
<1>4. run' = [run EXCEPT ![r].mint = m, ![r].hash = latest, ![r].place = p]
  BY <1>1, <1>3
<1> HIDE DEF m
<1> QED
  BY <1>1, <1>2, <1>4, BuildInv

\* The other steps of a process change its place, and may send.
LEMMA MoveInv ==
  ASSUME Inv, NEW r \in Runs,
         NEW p \in {"waiting", "done", "error"}, Place(r, p),
         run[r].place \in {"building", "built", "waiting"},
         fate' = fate \/ (run[r].place = "built" /\ p # "done" /\ Submit(Tx(r))),
         p = "waiting" => run[r].place = "built",
         p = "done" => run[r].place = "waiting" /\ fate[Tx(r)] = "executed",
         UNCHANGED <<latest, shown, minted, supply, balance, addr3>>
  PROVE  Inv'
<1>1. run \in [Runs -> [command: Commands, mint: MintIds \union {NoMint},
                        hash: Hashes \union {NoHash},
                        place: {"idle", "building", "built", "waiting", "done", "error"}]]
  BY DEF Inv, TypeOK
<1>2. /\ run'[r].place = p /\ run'[r].hash = run[r].hash
      /\ run'[r].command = run[r].command /\ run'[r].mint = run[r].mint
      /\ \A u \in Runs : u # r => run'[u] = run[u]
  BY <1>1 DEF Place
<1>3. \A u \in Runs : Tx(u)' = Tx(u)
  BY <1>2 DEF Tx
<1>4. fate \in [Transactions -> Fates]
  BY DEF Inv, TypeOK
<1>5. /\ \A t \in Transactions :
           /\ fate'[t] = "executed" <=> fate[t] = "executed"
           /\ fate'[t] # "unsent" => fate[t] # "unsent" \/ (t = Tx(r) /\ p # "done")
      /\ fate' \in [Transactions -> Fates]
  BY <1>4 DEF Submit, Fates
<1>6. run[r].place \in {"built", "waiting"} => Tx(r) \in Transactions
  BY DEF Inv, TypeOK
<1>7. run' \in [Runs -> [command: Commands, mint: MintIds \union {NoMint},
                         hash: Hashes \union {NoHash},
                         place: {"idle", "building", "built", "waiting", "done", "error"}]]
  BY <1>1 DEF Place
<1>8. TypeOK'
  BY <1>2, <1>3, <1>5, <1>6, <1>7 DEF Inv, TypeOK
<1>9. \A u \in Runs : run'[u].place = "done" => fate'[Tx(u)'] = "executed"
  <2> SUFFICES ASSUME NEW u \in Runs, run'[u].place = "done"
               PROVE  fate'[Tx(u)] = "executed"
    BY <1>3
  <2>1. fate[Tx(u)] = "executed" /\ Tx(u) \in Transactions
    BY <1>2, <1>6 DEF Inv, Stages, TypeOK
  <2> QED
    BY <1>5, <2>1
<1>10. Stages'
  BY <1>2, <1>9 DEF Inv, Stages
<1>11. Senders'
  <2>1. ASSUME NEW u \in Runs, run[u].place \in {"waiting", "done", "error"}
        PROVE  run'[u].place \in {"waiting", "done", "error"} /\ Tx(u)' = Tx(u)
    BY <1>2, <1>3, <2>1
  <2>2. ASSUME NEW t \in Transactions, fate'[t] # "unsent", fate[t] = "unsent"
        PROVE  Sender(t)'
    BY <1>2, <1>3, <1>5, <2>2 DEF Sender
  <2> QED
    BY <2>1, <2>2, KeepSenders DEF Inv
<1>12. Explained'
  BY <1>5, KeepExplained DEF Inv
<1> QED
  BY <1>8, <1>10, <1>11, <1>12 DEF Inv

\* No step of a run breaks the invariant.
LEMMA ProcessInv ==
  ASSUME Inv, NEW r \in Runs, Process(r) \/ RpcError(r)
  PROVE  Inv'
<1>1. CASE \E m \in MintIds : GenerateMint(r, m)
  BY <1>1, GenerateMintInv
<1>2. CASE BuildTransaction(r)
  BY <1>2, BuildTransactionInv
<1>3. CASE Send(r)
  <2>1. /\ run[r].place = "built"
        /\ Place(r, "waiting")
        /\ Submit(Tx(r))
        /\ UNCHANGED <<latest, shown, minted, supply, balance, addr3>>
    BY <1>3 DEF Send
  <2> QED
    BY <2>1, MoveInv
<1>4. CASE Done(r)
  <2>1. /\ run[r].place = "waiting"
        /\ fate[Tx(r)] = "executed"
        /\ Place(r, "done")
        /\ UNCHANGED <<latest, fate, shown, minted, supply, balance, addr3>>
    BY <1>4 DEF Done, IsConfirmed
  <2> QED
    BY <2>1, MoveInv
<1>5. CASE Rejected(r)
  <2>1. /\ run[r].place = "waiting"
        /\ Place(r, "error")
        /\ UNCHANGED <<latest, fate, shown, minted, supply, balance, addr3>>
    BY <1>5 DEF Rejected
  <2> QED
    BY <2>1, MoveInv
<1>6. CASE RpcError(r)
  <2>1. /\ run[r].place \in {"building", "built", "waiting"}
        /\ Place(r, "error")
        /\ fate' = fate \/ (run[r].place = "built" /\ Submit(Tx(r)))
        /\ UNCHANGED <<latest, shown, minted, supply, balance, addr3>>
    BY <1>6 DEF RpcError
  <2> QED
    BY <2>1, MoveInv
<1> QED
  BY <1>1, <1>2, <1>3, <1>4, <1>5, <1>6 DEF Process

\* The chain leaves the runs alone, and what was sent was sent.
LEMMA ChainKeeps ==
  ASSUME Inv, NEW t \in Transactions, fate[t] = "sent",
         NEW f \in {"executed", "dropped"}, fate' = [fate EXCEPT ![t] = f],
         UNCHANGED <<run, shown>>
  PROVE  /\ fate' \in [Transactions -> Fates]
         /\ \A r \in Runs :
              run'[r].place \in {"built", "waiting", "done"} => Tx(r)' \in Transactions
         /\ Stages'
         /\ Senders'
<1>1. fate \in [Transactions -> Fates]
  BY DEF Inv, TypeOK
<1>2. \A r \in Runs : Tx(r)' = Tx(r)
  BY DEF Tx
<1>3. ASSUME NEW u \in Transactions, fate[u] = "executed" PROVE fate'[u] = "executed"
  BY <1>1, <1>3
<1>4. \A r \in Runs : run[r].place \in {"built", "waiting", "done"} => Tx(r) \in Transactions
  BY DEF Inv, TypeOK
<1>5. \A r \in Runs : run'[r].place = "done" => fate'[Tx(r)'] = "executed"
  BY <1>2, <1>3, <1>4 DEF Inv, Stages
<1>6. Stages'
  BY <1>5 DEF Inv, Stages
<1>7. Senders'
  BY <1>1, <1>2, KeepSenders DEF Inv
<1> QED
  BY <1>1, <1>2, <1>4, <1>6, <1>7 DEF Fates

\* A transaction that is dropped changes no account.
LEMMA DropInv ==
  ASSUME Inv, NEW t \in Transactions, Drop(t)
  PROVE  Inv'
<1>1. /\ fate[t] = "sent"
      /\ fate' = [fate EXCEPT ![t] = "dropped"]
      /\ UNCHANGED <<run, latest, shown, minted, supply, balance, addr3>>
  BY DEF Drop
<1>2. /\ fate' \in [Transactions -> Fates]
      /\ \A r \in Runs :
           run'[r].place \in {"built", "waiting", "done"} => Tx(r)' \in Transactions
      /\ Stages' /\ Senders'
  BY <1>1, ChainKeeps
<1>3. TypeOK'
  BY <1>1, <1>2 DEF Inv, TypeOK
<1>4. \A u \in Transactions : fate'[u] = "executed" <=> fate[u] = "executed"
  BY <1>1 DEF Inv, TypeOK
<1>5. Explained'
  BY <1>1, <1>4, KeepExplained DEF Inv
<1> QED
  BY <1>1, <1>2, <1>3, <1>5 DEF Inv

\* What is left to show of an execution.
LEMMA ExecutedInv ==
  ASSUME Inv, NEW t \in Transactions, fate[t] = "sent",
         fate' = [fate EXCEPT ![t] = "executed"],
         UNCHANGED <<run, latest, shown, addr3>>,
         minted' \subseteq shown,
         supply' \in [MintIds -> 0..U64_MAX],
         balance' \in [MintIds -> [Holders -> Int]],
         \A m \in MintIds : balance'[m][signer] \in Nat,
         Explained'
  PROVE  Inv'
<1>1. ASSUME NEW m \in MintIds PROVE \A h \in Holders : balance'[m][h] \in 0..U64_MAX
  <2>1. Issued(m)' \in Nat /\ Transferred(m)' \in Nat
    BY AmountsNatNext
  <2>2. Issued(m)' \in 0..U64_MAX
    BY DEF Explained
  <2>3. addr3' \in Holders
    BY DEF Inv, TypeOK
  <2>4. \A h \in Holders :
          balance'[m][h] = (IF h = addr3' THEN Issued(m)' ELSE 0)
                           + (IF h = addr2 THEN Transferred(m)' ELSE 0)
                           - (IF h = signer THEN Transferred(m)' ELSE 0)
    BY DEF Explained
  <2>5. balance'[m][signer] >= 0
    OBVIOUS
  <2> HIDE DEF Explained
  <2> QED
    BY <2>1, <2>2, <2>3, <2>4, <2>5, Bounded
<1>2. balance' \in [MintIds -> [Holders -> 0..U64_MAX]]
  <2>1. ASSUME NEW m \in MintIds PROVE balance'[m] \in [Holders -> 0..U64_MAX]
    <3>1. balance'[m] \in [Holders -> Int]
      OBVIOUS
    <3> QED
      BY <1>1, <3>1
  <2> QED
    BY <2>1
<1>3. /\ fate' \in [Transactions -> Fates]
      /\ \A r \in Runs :
           run'[r].place \in {"built", "waiting", "done"} => Tx(r)' \in Transactions
      /\ Stages' /\ Senders'
  BY ChainKeeps
<1>4. TypeOK'
  BY <1>2, <1>3 DEF Inv, TypeOK
<1> QED
  BY <1>3, <1>4 DEF Inv

\* Balances are natural numbers.
LEMMA BalanceType ==
  ASSUME Inv
  PROVE  /\ balance \in [MintIds -> [Holders -> Int]]
         /\ \A m \in MintIds, h \in Holders : balance[m][h] \in Nat
<1>1. balance \in [MintIds -> [Holders -> 0..U64_MAX]]
  BY DEF Inv, TypeOK
<1>2. ASSUME NEW m \in MintIds, NEW h \in Holders PROVE balance[m][h] \in Nat
  <2>1. balance[m] \in [Holders -> 0..U64_MAX]
    BY <1>1
  <2>2. balance[m][h] \in 0..U64_MAX
    BY <2>1
  <2> QED
    BY <2>2, CliAssumption
<1>3. ASSUME NEW m \in MintIds PROVE balance[m] \in [Holders -> Int]
  <2>1. balance[m] \in [Holders -> 0..U64_MAX]
    BY <1>1
  <2> QED
    BY <1>2, <2>1
<1> QED
  BY <1>1, <1>2, <1>3

\* A new mint is one whose sender has shown it.
LEMMA CreateMintInv ==
  ASSUME Inv, NEW t \in Transactions, Execute(t),
         t.command = "make mint", CreateMint(t.mint)
  PROVE  Inv'
<1>1. /\ fate[t] = "sent"
      /\ fate' = [fate EXCEPT ![t] = "executed"]
      /\ UNCHANGED <<run, latest, shown, addr3, supply, balance>>
      /\ minted' = minted \union {t.mint}
  BY DEF Execute, CreateMint
<1>2. t.mint \in shown
  <2>1. PICK r \in Runs : Tx(r) = t
    BY <1>1 DEF Inv, Senders, Sender
  <2>2. run[r].mint = t.mint /\ run[r].mint \in shown \union {NoMint}
    BY <2>1 DEF Tx, Inv, Stages
  <2>3. t.mint \in MintIds
    BY DEF Transactions
  <2> QED
    BY <2>2, <2>3, CliAssumption
<1>3. \A m \in MintIds : Issued(m)' = Issued(m) /\ Transferred(m)' = Transferred(m)
  BY <1>1, NextAmounts DEF Inv, TypeOK
<1>4. Explained'
  BY <1>1, <1>3 DEF Inv, Explained
<1>5. \A m \in MintIds : balance'[m][signer] \in Nat
  BY <1>1, BalanceType, CliAssumption
<1>6. balance' \in [MintIds -> [Holders -> Int]]
  BY <1>1, BalanceType
<1>7. minted' \subseteq shown /\ supply' \in [MintIds -> 0..U64_MAX]
  BY <1>1, <1>2 DEF Inv, TypeOK
<1> QED
  BY <1>1, <1>4, <1>5, <1>6, <1>7, ExecutedInv

\* Some amount of a mint is issued to addr3.
LEMMA IssueInv ==
  ASSUME Inv, NEW t \in Transactions, fate[t] = "sent",
         fate' = [fate EXCEPT ![t] = "executed"],
         UNCHANGED <<run, latest, shown, addr3, minted>>,
         NEW M \in MintIds, NEW amount \in Nat,
         supply[M] + amount <= U64_MAX,
         supply' = [supply EXCEPT ![M] = @ + amount],
         balance' = [balance EXCEPT ![M][addr3] = @ + amount],
         \A m \in MintIds :
           /\ Issued(m)' = IF m = M THEN Issued(m) + amount ELSE Issued(m)
           /\ Transferred(m)' = Transferred(m)
  PROVE  Inv'
<1>1. M \in MintIds /\ addr3 \in Holders /\ signer \in Holders
  BY CliAssumption DEF Inv, TypeOK
<1>2. ASSUME NEW m \in MintIds
      PROVE  /\ supply'[m] = IF m = M THEN supply[m] + amount ELSE supply[m]
             /\ \A h \in Holders :
                  balance'[m][h] = IF m = M /\ h = addr3
                                   THEN balance[m][h] + amount ELSE balance[m][h]
  BY <1>1 DEF Inv, TypeOK
<1>3. Explained'
  <2> SUFFICES ASSUME NEW m \in MintIds
               PROVE  /\ supply'[m] = Issued(m)'
                      /\ \A h \in Holders :
                           balance'[m][h] = (IF h = addr3' THEN Issued(m)' ELSE 0)
                                            + (IF h = addr2 THEN Transferred(m)' ELSE 0)
                                            - (IF h = signer THEN Transferred(m)' ELSE 0)
    BY DEF Explained
  <2>1. /\ supply[m] = Issued(m)
        /\ \A h \in Holders :
             balance[m][h] = (IF h = addr3 THEN Issued(m) ELSE 0)
                             + (IF h = addr2 THEN Transferred(m) ELSE 0)
                             - (IF h = signer THEN Transferred(m) ELSE 0)
    BY DEF Inv, Explained
  <2>2. Issued(m) \in Nat /\ Transferred(m) \in Nat
    BY AmountsNat
  <2>3. CASE m = M
    BY <1>2, <2>1, <2>2, <2>3
  <2>4. CASE m # M
    BY <1>2, <2>1, <2>4
  <2> QED
    BY <2>3, <2>4
<1>4. ASSUME NEW m \in MintIds PROVE balance'[m][signer] \in Nat
  <2>1. balance[m][signer] \in Nat
    BY <1>1, BalanceType
  <2>2. \/ balance'[m][signer] = balance[m][signer]
        \/ balance'[m][signer] = balance[m][signer] + amount
    BY <1>1, <1>2
  <2> QED
    BY <2>1, <2>2
<1>5. supply' \in [MintIds -> 0..U64_MAX]
  <2>1. supply[M] \in 0..U64_MAX /\ supply \in [MintIds -> 0..U64_MAX]
    BY <1>1 DEF Inv, TypeOK
  <2>2. supply[M] + amount \in 0..U64_MAX
    BY <2>1, CliAssumption
  <2> QED
    BY <2>1, <2>2
<1>6. balance' \in [MintIds -> [Holders -> Int]]
  <2>1. balance[M][addr3] \in Nat
    BY <1>1, BalanceType
  <2>2. balance[M][addr3] + amount \in Int
    BY <2>1
  <2>3. [balance[M] EXCEPT ![addr3] = @ + amount] \in [Holders -> Int]
    BY <1>1, <2>2, BalanceType
  <2>4. balance' = [balance EXCEPT ![M] = [balance[M] EXCEPT ![addr3] = @ + amount]]
    OBVIOUS
  <2> QED
    BY <1>1, <2>3, <2>4, BalanceType
<1>7. minted' \subseteq shown
  BY DEF Inv
<1> QED
  BY <1>3, <1>4, <1>5, <1>6, <1>7, ExecutedInv
\* What one holder has of a mint.
Formula(h, a, issued, sent) ==
  (IF h = a THEN issued ELSE 0) + (IF h = addr2 THEN sent ELSE 0)
  - (IF h = signer THEN sent ELSE 0)

\* How it changes when some of it moves.
LEMMA FormulaOfMove ==
  ASSUME NEW issued \in Nat, NEW sent \in Nat, NEW amount \in Nat,
         NEW h, NEW a, NEW old, NEW new, signer # addr2,
         old = Formula(h, a, issued, sent),
         new = IF h = signer THEN old - amount ELSE IF h = addr2 THEN old + amount ELSE old
  PROVE  new = Formula(h, a, issued, sent + amount)
<1>1. CASE h = signer
  BY <1>1 DEF Formula
<1>2. CASE h = addr2
  BY <1>2 DEF Formula
<1>3. CASE h # signer /\ h # addr2
  BY <1>3 DEF Formula
<1> QED
  BY <1>1, <1>2, <1>3

\* Some amount of a mint moves from the signer to addr2.
LEMMA MoveTokensInv ==
  ASSUME Inv, NEW t \in Transactions, fate[t] = "sent",
         fate' = [fate EXCEPT ![t] = "executed"],
         UNCHANGED <<run, latest, shown, addr3, minted, supply>>,
         NEW M \in MintIds, NEW amount \in Nat,
         amount <= balance[M][signer],
         balance' = [balance EXCEPT ![M][signer] = @ - amount, ![M][addr2] = @ + amount],
         \A m \in MintIds :
           /\ Transferred(m)' = IF m = M THEN Transferred(m) + amount ELSE Transferred(m)
           /\ Issued(m)' = Issued(m)
  PROVE  Inv'
<1>1. addr3 \in Holders /\ signer \in Holders /\ addr2 \in Holders /\ signer # addr2
  BY CliAssumption DEF Inv, TypeOK
<1>2. balance[M][signer] \in Nat /\ balance[M][addr2] \in Nat
  BY <1>1, BalanceType
<1>3. ASSUME NEW m \in MintIds, NEW h \in Holders
      PROVE  balance'[m][h] = IF m = M /\ h = signer THEN balance[m][h] - amount
                              ELSE IF m = M /\ h = addr2 THEN balance[m][h] + amount
                              ELSE balance[m][h]
  BY <1>1 DEF Inv, TypeOK
<1>4. Explained'
  <2> SUFFICES ASSUME NEW m \in MintIds
               PROVE  /\ supply'[m] = Issued(m)'
                      /\ \A h \in Holders :
                           balance'[m][h] = (IF h = addr3' THEN Issued(m)' ELSE 0)
                                            + (IF h = addr2 THEN Transferred(m)' ELSE 0)
                                            - (IF h = signer THEN Transferred(m)' ELSE 0)
    BY DEF Explained
  <2>1. /\ supply[m] = Issued(m)
        /\ \A h \in Holders :
             balance[m][h] = (IF h = addr3 THEN Issued(m) ELSE 0)
                             + (IF h = addr2 THEN Transferred(m) ELSE 0)
                             - (IF h = signer THEN Transferred(m) ELSE 0)
    BY DEF Inv, Explained
  <2>2. Issued(m) \in Nat /\ Transferred(m) \in Nat
    BY AmountsNat
  <2>3. supply'[m] = Issued(m)'
    BY <2>1
  <2>4. ASSUME NEW h \in Holders
        PROVE  balance'[m][h] = (IF h = addr3 THEN Issued(m) ELSE 0)
                                + (IF h = addr2 THEN Transferred(m)' ELSE 0)
                                - (IF h = signer THEN Transferred(m)' ELSE 0)
    <3>1. CASE m = M
      <4>1. Transferred(m)' = Transferred(m) + amount
        BY <3>1
      <4>2. balance[m][h] = Formula(h, addr3, Issued(m), Transferred(m))
        BY <2>1 DEF Formula
      <4>3. balance'[m][h] = IF h = signer THEN balance[m][h] - amount
                             ELSE IF h = addr2 THEN balance[m][h] + amount
                             ELSE balance[m][h]
        BY <1>3, <3>1
      <4>4. balance'[m][h] = Formula(h, addr3, Issued(m), Transferred(m) + amount)
        BY <1>1, <2>2, <4>2, <4>3, FormulaOfMove
      <4> QED
        BY <4>1, <4>4 DEF Formula
    <3>2. CASE m # M
      <4>1. Transferred(m)' = Transferred(m) /\ balance'[m][h] = balance[m][h]
        BY <1>3, <3>2
      <4> QED
        BY <2>1, <4>1
    <3> QED
      BY <3>1, <3>2
  <2> QED
    BY <2>3, <2>4
<1>5. ASSUME NEW m \in MintIds PROVE balance'[m][signer] \in Nat
  <2>1. balance[m][signer] \in Nat
    BY <1>1, BalanceType
  <2>2. \/ balance'[m][signer] = balance[m][signer]
        \/ m = M /\ balance'[m][signer] = balance[m][signer] - amount
    <3>1. balance'[m][signer] = IF m = M THEN balance[m][signer] - amount
                                ELSE balance[m][signer]
      BY <1>1, <1>3
    <3> QED
      BY <3>1
  <2> QED
    BY <2>1, <2>2
<1>6. balance' \in [MintIds -> [Holders -> Int]]
  <2> DEFINE between == [balance[M] EXCEPT ![signer] = @ - amount]
             after == [between EXCEPT ![addr2] = @ + amount]
  <2>1. balance[M][signer] - amount \in Int /\ balance[M][addr2] + amount \in Int
    BY <1>2
  <2>2. between \in [Holders -> Int] /\ between[addr2] = balance[M][addr2]
    BY <1>1, <2>1, BalanceType
  <2>3. after \in [Holders -> Int]
    BY <1>1, <2>1, <2>2
  <2>4. balance' = [balance EXCEPT ![M] = after]
    BY <1>1, BalanceType
  <2> QED
    BY <2>3, <2>4, BalanceType
<1>7. supply' \in [MintIds -> 0..U64_MAX] /\ minted' \subseteq shown
  BY DEF Inv, TypeOK
<1> QED
  BY <1>4, <1>5, <1>6, <1>7, ExecutedInv

\* Each of the three instructions keeps the tokens explained.
LEMMA ExecuteInv ==
  ASSUME Inv, NEW t \in Transactions, Execute(t)
  PROVE  Inv'
<1> DEFINE M == t.mint
<1>1. /\ fate \in [Transactions -> Fates]
      /\ fate[t] = "sent"
      /\ fate' = [fate EXCEPT ![t] = "executed"]
      /\ UNCHANGED <<run, latest, shown, addr3>>
  BY DEF Execute, Inv, TypeOK
<1>2. M \in MintIds
  BY DEF Transactions
<1>3. CASE t.command = "make mint" /\ CreateMint(M)
  BY <1>3, CreateMintInv
<1>4. CASE t.command = "mint tokens" /\ MintTokens(M, Amount(t.command))
  <2>1. Amount(t.command) = MintUI * UNIT
    BY <1>4 DEF Amount, BaseUnits
  <2>2. MintUI * UNIT \in Nat
    BY Positive
  <2>3. \A m \in MintIds :
          /\ Issued(m)' = IF m = M THEN Issued(m) + MintUI * UNIT ELSE Issued(m)
          /\ Transferred(m)' = Transferred(m)
    BY <1>1, <1>4, NextAmounts
  <2>4. /\ supply[M] + MintUI * UNIT <= U64_MAX
        /\ supply' = [supply EXCEPT ![M] = @ + MintUI * UNIT]
        /\ balance' = [balance EXCEPT ![M][addr3] = @ + MintUI * UNIT]
        /\ minted' = minted
    BY <1>4, <2>1 DEF MintTokens
  <2> QED
    BY <1>1, <1>2, <2>2, <2>3, <2>4, IssueInv
<1>5. CASE t.command = "send tokens" /\ TransferTokens(M, Amount(t.command))
  <2>1. Amount(t.command) = SendUI * UNIT
    BY <1>5 DEF Amount, BaseUnits
  <2>2. SendUI * UNIT \in Nat
    BY Positive
  <2>3. \A m \in MintIds :
          /\ Transferred(m)' = IF m = M THEN Transferred(m) + SendUI * UNIT
                               ELSE Transferred(m)
          /\ Issued(m)' = Issued(m)
    BY <1>1, <1>5, NextAmounts
  <2>4. /\ SendUI * UNIT <= balance[M][signer]
        /\ balance' = [balance EXCEPT ![M][signer] = @ - SendUI * UNIT,
                                      ![M][addr2] = @ + SendUI * UNIT]
        /\ UNCHANGED <<minted, supply>>
    BY <1>5, <2>1 DEF TransferTokens
  <2> QED
    BY <1>1, <1>2, <2>2, <2>3, <2>4, MoveTokensInv
<1> QED
  BY <1>3, <1>4, <1>5 DEF Execute

\* No step breaks the invariant.
LEMMA NextInv == Inv /\ [Next]_vars => Inv'
<1> SUFFICES ASSUME Inv, [Next]_vars PROVE Inv'
  OBVIOUS
<1>1. ASSUME UNCHANGED <<run, fate, shown, minted, supply, balance, addr3>>,
             latest' \in Hashes
      PROVE  Inv'
  <2>1. Explained'
    BY <1>1, KeepExplained DEF Inv
  <2>2. \A r \in Runs : Tx(r)' = Tx(r)
    BY <1>1 DEF Tx
  <2>3. TypeOK' /\ Stages' /\ minted' \subseteq shown'
    BY <1>1, <2>2 DEF Inv, TypeOK, Stages
  <2>4. Senders'
    BY <1>1, <2>2, KeepSenders DEF Inv
  <2> QED
    BY <2>1, <2>3, <2>4 DEF Inv
<1>2. CASE UNCHANGED vars
  BY <1>1, <1>2 DEF vars, Inv, TypeOK
<1>3. ASSUME NEW r \in Runs,
             \/ \E command \in Commands, m \in MintIds \union {NoMint} :
                  Start(r, command, m)
             \/ Process(r) \/ RpcError(r)
      PROVE  Inv'
  BY <1>3, StartInv, ProcessInv
<1>4. ASSUME NEW t \in Transactions, Settle(t) PROVE Inv'
  BY <1>4, ExecuteInv, DropInv DEF Settle
<1>5. CASE NewBlockhash
  <2>1. latest \in 1..MaxHash /\ MaxHash \in Nat
    BY CliAssumption DEF Inv, TypeOK, Hashes
  <2>2. latest' \in Hashes
    BY <1>5, <2>1 DEF NewBlockhash, Hashes
  <2> QED
    BY <1>1, <1>5, <2>2 DEF NewBlockhash
<1> QED
  BY <1>2, <1>3, <1>4, <1>5 DEF Next

\* So it holds in every reachable state.
LEMMA Invariance == Spec => []Inv
BY InitInv, NextInv, PTL DEF Spec
-----------------------------------------------------------------------------
(* What the terminals tell.                                                *)

\* The blockhashes of the runs that returned are executed, and the executed
\* ones are of runs that may have sent.
LEMMA Told ==
  ASSUME Inv, NEW c \in Commands, NEW m \in MintIds
  PROVE  /\ Reported(c, m) \in Nat
         /\ Attempted(c, m) \in Nat
         /\ Reported(c, m) <= Times(c, m)
         /\ Times(c, m) <= Attempted(c, m)
<1> DEFINE T(h) == [command |-> c, mint |-> m, hash |-> h]
           done == HashesAt({"done"}, c, m)
           tried == HashesAt({"waiting", "done", "error"}, c, m)
<1>1. run \in [Runs -> [command: Commands, mint: MintIds \union {NoMint},
                        hash: Hashes \union {NoHash},
                        place: {"idle", "building", "built", "waiting", "done", "error"}]]
  BY DEF Inv, TypeOK
<1>2. done \subseteq Executed(c, m)
  <2> SUFFICES ASSUME NEW r \in Runs, run[r].place = "done", run[r].command = c,
                      run[r].mint = m, run[r].hash # NoHash
               PROVE  run[r].hash \in Executed(c, m)
    BY DEF HashesAt
  <2>1. run[r].hash \in Hashes
    BY <1>1
  <2>2. Tx(r) = T(run[r].hash)
    BY DEF Tx
  <2>3. fate[Tx(r)] = "executed"
    BY DEF Inv, Stages
  <2> QED
    BY <2>1, <2>2, <2>3 DEF Executed
<1>3. Executed(c, m) \subseteq tried
  <2> SUFFICES ASSUME NEW h \in Hashes, fate[T(h)] = "executed"
               PROVE  h \in tried
    BY DEF Executed
  <2>1. T(h) \in Transactions
    BY DEF Transactions
  <2>2. PICK r \in Runs : run[r].place \in {"waiting", "done", "error"} /\ Tx(r) = T(h)
    BY <2>1 DEF Inv, Senders, Sender
  <2>3. run[r].command = c /\ run[r].mint = m /\ run[r].hash = h
    BY <2>2 DEF Tx
  <2>4. h # NoHash
    BY DEF Hashes, NoHash
  <2> QED
    BY <2>2, <2>3, <2>4 DEF HashesAt
<1>4. done \subseteq Hashes /\ tried \subseteq Hashes /\ Executed(c, m) \subseteq Hashes
  BY <1>1 DEF HashesAt, Executed
<1> HIDE DEF done, tried
<1>5. /\ IsFiniteSet(done) /\ Cardinality(done) \in Nat
      /\ IsFiniteSet(tried) /\ Cardinality(tried) \in Nat
      /\ IsFiniteSet(Executed(c, m))
  BY <1>4, Countable
<1>6. /\ Cardinality(done) <= Cardinality(Executed(c, m))
      /\ Cardinality(Executed(c, m)) <= Cardinality(tried)
  BY <1>2, <1>3, <1>5, FS_Subset
<1> QED
  BY <1>5, <1>6 DEF Reported, Attempted, Times, done, tried

\* More transactions of the same amount come to more.
LEMMA TimesMore ==
  ASSUME NEW a \in Nat, NEW b \in Nat, a <= b, NEW x \in Nat, NEW y \in Nat
  PROVE  a * x * y <= b * x * y
<1>1. \A n, k, z \in Nat : (n + k) * z = n * z + k * z /\ k * z \in Nat /\ n * z \in Nat
  OBVIOUS
<1>2. PICK k \in Nat : b = a + k
  <2>1. b - a \in Nat /\ b = a + (b - a)
    OBVIOUS
  <2> QED
    BY <2>1
<1>3. b * x = a * x + k * x /\ k * x \in Nat /\ a * x \in Nat
  BY <1>1, <1>2
<1>4. b * x * y = a * x * y + k * x * y /\ k * x * y \in Nat /\ a * x * y \in Nat
  BY <1>1, <1>3
<1> QED
  BY <1>4
-----------------------------------------------------------------------------
(* The theorems.                                                           *)

\* Supplies and balances are u64 values, and every transaction that is built
\* has a mint and a blockhash.
THEOREM TypeCorrect == Spec => []TypeOK
<1>1. Inv => TypeOK
  BY DEF Inv
<1> QED
  BY <1>1, Invariance, PTL

\* Every mint on the chain has had its address printed by g12.
THEOREM NoMintEverLost == Spec => []NoMintLost
<1>1. Inv => NoMintLost
  BY DEF Inv, NoMintLost
<1> QED
  BY <1>1, Invariance, PTL

\* However often g13 and g14 are repeated, and whichever of them share a
\* blockhash, the supply of a mint and what addr2 was sent of it lie between
\* what the returned runs and all the runs that may have sent account for.
THEOREM TokensAlwaysReported == Spec => []TokensReported
<1>1. ASSUME Inv PROVE TokensReported
  <2> SUFFICES ASSUME NEW m \in MintIds
               PROVE  /\ Between(supply[m], "mint tokens", m, MintUI)
                      /\ Between(balance[m][addr2] - (IF addr3 = addr2 THEN supply[m] ELSE 0),
                                 "send tokens", m, SendUI)
    BY DEF TokensReported
  <2>1. signer \in Holders /\ addr2 \in Holders /\ signer # addr2
    BY CliAssumption
  <2>2. Issued(m) \in Nat /\ Transferred(m) \in Nat
    BY AmountsNat
  <2>3. /\ supply[m] = Issued(m)
        /\ balance[m][addr2] = (IF addr2 = addr3 THEN Issued(m) ELSE 0) + Transferred(m)
    BY <1>1, <2>1, <2>2 DEF Inv, Explained
  <2>4. balance[m][addr2] - (IF addr3 = addr2 THEN supply[m] ELSE 0) = Transferred(m)
    BY <2>2, <2>3
  <2>5. MintUI \in Nat /\ SendUI \in Nat /\ UNIT \in Nat
    BY CliAssumption
  <2>6. Between(Issued(m), "mint tokens", m, MintUI)
    BY <1>1, <2>5, CountNat, Told, TimesMore DEF Between, Issued, Commands
  <2>7. Between(Transferred(m), "send tokens", m, SendUI)
    BY <1>1, <2>5, CountNat, Told, TimesMore DEF Between, Transferred, Commands
  <2> QED
    BY <2>3, <2>4, <2>6, <2>7
<1> QED
  BY <1>1, Invariance, PTL
=============================================================================
