--------------------------- MODULE EthTxMgr_proofs ---------------------------
(* Proofs about EthTxMgr for every set of deposits, redeems and outpoints,    *)
(* every timeout, every number of transactions and every subset of the faults. *)
EXTENDS EthTxMgr, FiniteSetTheorems, NaturalsInduction, WellFoundedInduction, TLAPS

\* The places at which a goroutine holds its lock.
Inside == {"outs", "sign", "nonce", "send", "insert"}

\* What the loop waits for: the goroutines of the round are exactly those the
\* WaitGroup counts, they are of the kind of the round, and their places tell
\* who holds the locks and the mutex.
RoundInv ==
  /\ \A j \in Job : job[j] # "idle" <=> j \in wg
  /\ wg # {} => loop \in {"monitor", "prepare", "mint"}
  /\ loop = "monitor" => wg \subseteq TxId
  /\ loop = "prepare" => wg \subseteq Request
  /\ loop = "mint" => wg \subseteq BtcTx
  /\ \A x \in Ref : x \in held <=> job[x] \in Inside
  /\ \A x \in Ref : mu = x <=> job[x] = "send"
  /\ \A t \in TxId : job[t] \in {"idle", "receipt", "fail"}
  /\ \A x \in Ref : job[x] # "receipt"

\* While the mutex is held no transaction of the node has the nonce read.
NonceInv ==
  mu # NONE => \A t \in TxId : Alive(t) => tx[t].nonce # nonce

\* A row is of the transaction it names; what is monitored has a row, and what
\* is to be inserted was sent.
RowInv ==
  /\ \A t \in TxId : rows[t] # NONE => tx[t] # NONE /\ tx[t].ref = rows[t].ref
  /\ \A t \in TxId : job[t] = "receipt" => rows[t] # NONE
  /\ \A x \in Ref : job[x] = "insert" =>
       out[x] \in TxId /\ tx[out[x]] # NONE /\ tx[out[x]].ref = x

\* What was asked for: everything worked on or sent is a deposit that was
\* observed or a redeem that was requested on the chain.
AskedInv ==
  /\ requested \subseteq asked
  /\ wg \cap Ref \subseteq deposits \cup asked
  /\ \A t \in TxId : tx[t] # NONE => tx[t].ref \in deposits \cup asked

\* The vault gives an output of an observed deposit to one redeem.
VaultInv ==
  /\ \A r \in Request : \A o \in locked[r] : TxOf[o] \in deposits
  /\ \A r, q \in Request : r # q => locked[r] \cap locked[q] = {}
  /\ \A r \in Request : job[r] \in Inside \ {"outs"} => locked[r] # {}

\* The contract remembers every successful call, and a prepare carries the
\* outpoints the vault holds for it.
ChainInv ==
  /\ \A t \in TxId : tx[t] # NONE =>
       /\ tx[t].ref \in Request => tx[t].outs = locked[tx[t].ref] /\ tx[t].outs # {}
       /\ tx[t].state = "success" => Settled(tx[t].ref)
  /\ \A r \in Request : prepared[r] \in {{}, locked[r]}

EthInv ==
  /\ TypeOK /\ RoundInv
  /\ NonceInv /\ NoncesDistinct
  /\ RowInv /\ ResultsTruthful
  /\ AskedInv /\ VaultInv /\ ChainInv

LEMMA EthInit == Init => EthInv
<1> SUFFICES ASSUME Init PROVE EthInv
  OBVIOUS
<1> USE EthAssumption DEF Init
<1>1. TypeOK
  <2>1. job \in [Job -> Place] BY DEF Place
  <2>2. hdr \in [Ref -> Age] BY DEF Age
  <2>3. tx \in [TxId -> Tx \cup {NONE}] /\ rows \in [TxId -> Row \cup {NONE}] OBVIOUS
  <2>4. /\ prepared \in [Request -> SUBSET Outpoint] /\ locked \in [Request -> SUBSET Outpoint]
        /\ out \in [Ref -> TxId \cup {NONE}]
    OBVIOUS
  <2>5. err \in BOOLEAN OBVIOUS
  <2>6. 0 \in 0..MaxTx /\ 0 \in 0..MaxFaults OBVIOUS
  <2> QED BY <2>1, <2>2, <2>3, <2>4, <2>5, <2>6 DEF TypeOK
<1>2. RoundInv BY DEF RoundInv, Inside, Job
<1>3. NonceInv /\ NoncesDistinct BY DEF NonceInv, NoncesDistinct, Alive
<1>4. RowInv /\ ResultsTruthful BY DEF RowInv, ResultsTruthful, Job
<1>5. AskedInv /\ VaultInv /\ ChainInv BY DEF AskedInv, VaultInv, ChainInv, Inside, Job, Ref
<1> QED BY <1>1, <1>2, <1>3, <1>4, <1>5 DEF EthInv

-----------------------------------------------------------------------------
\* There is a free nonce: there are fewer transactions than nonces.  So the one
\* the node answers with is a nonce, and no living transaction has it.
LEMMA PendingNonceFree ==
  ASSUME TypeOK
  PROVE  /\ PendingNonce \in 0..MaxTx
         /\ \A t \in TxId : Alive(t) => tx[t].nonce # PendingNonce
<1> USE EthAssumption
<1> DEFINE Taken(n) == \E t \in TxId : Alive(t) /\ tx[t].nonce = n
           FreeNonces == {n \in 0..MaxTx : ~Taken(n)}
<1>1. FreeNonces # {}
  <2> SUFFICES ASSUME \A n \in 0..MaxTx : Taken(n) PROVE FALSE
    OBVIOUS
  <2> DEFINE f == [n \in 0..MaxTx |-> CHOOSE t \in TxId : Alive(t) /\ tx[t].nonce = n]
  <2>1. \A n \in 0..MaxTx : f[n] \in TxId /\ tx[f[n]].nonce = n
    OBVIOUS
  <2>2. f \in [0..MaxTx -> TxId] BY <2>1
  <2>3. IsFiniteSet(0..MaxTx) /\ Cardinality(0..MaxTx) = MaxTx + 1
    BY FS_Interval
  <2>4. IsFiniteSet(TxId) /\ Cardinality(TxId) = MaxTx
    BY FS_Interval DEF TxId
  <2> HIDE DEF f, Taken
  <2>5. PICK m, n \in 0..MaxTx : m # n /\ f[m] = f[n]
    <3>1. Cardinality(TxId) < Cardinality(0..MaxTx) BY <2>3, <2>4
    <3> QED BY <2>2, <2>3, <2>4, <3>1, FS_PigeonHole
  <2> QED BY <2>1, <2>5
<1>2. \E n \in FreeNonces : \A k \in FreeNonces : ~(k < n)
  <2>1. FreeNonces \subseteq Nat OBVIOUS
  <2> HIDE DEF FreeNonces
  <2>2. PICK n \in FreeNonces : \A k \in FreeNonces : ~(<<k, n>> \in OpToRel(<, Nat))
    BY <1>1, <2>1, WFMin, NatLessThanWellFounded
  <2>3. \A k \in FreeNonces : k < n => <<k, n>> \in OpToRel(<, Nat)
    BY <2>1 DEF OpToRel
  <2> QED BY <2>2, <2>3
<1>3. \E n \in 0..MaxTx :
        /\ \A t \in TxId : Alive(t) => tx[t].nonce # n
        /\ \A k \in 0..MaxTx : k < n => \E t \in TxId : Alive(t) /\ tx[t].nonce = k
  BY <1>2
<1> QED BY <1>3 DEF PendingNonce

\* Where a goroutine goes when it returns.
LEMMA ReturnTypes ==
  ASSUME TypeOK, NEW j \in Job, Done(j) \/ Return(j) \/ \E p \in Place : Goto(j, p)
  PROVE  /\ wg' \subseteq Job /\ held' \subseteq Ref
         /\ job' \in [Job -> Place]
BY DEF TypeOK, Done, Return, Goto, Unlock, Place

\* The tables, the chain, the rows and the goroutines keep their types.
LEMMA EthTypeStep == TypeOK /\ RoundInv /\ RowInv /\ [Next]_vars => TypeOK'
<1> SUFFICES ASSUME TypeOK, RoundInv, RowInv, [Next]_vars PROVE TypeOK'
  OBVIOUS
<1> USE EthAssumption, NoneEthAssumption DEF TypeOK, tables, chain, group, sender
<1>f. ASSUME NEW f, Fault(f) PROVE faults' \in 0..MaxFaults
  BY <1>f DEF Fault
<1>j. Ref \subseteq Job /\ TxId \subseteq Job /\ Request \subseteq Ref /\ BtcTx \subseteq Ref
  BY DEF Job, Ref
<1>1. ASSUME NEW b \in BtcTx, Deposit(b) PROVE TypeOK'
  BY <1>1 DEF Deposit
<1>2. ASSUME NEW r \in Request, RedeemRequest(r) PROVE TypeOK'
  BY <1>2 DEF RedeemRequest
<1>3. CASE Synced BY <1>3 DEF Synced
<1>4. ASSUME NEW t \in TxId, Execute(t) PROVE TypeOK'
  <2>1. tx[t] \in Tx BY <1>4 DEF Execute, Ready
  <2>2. \A s \in {"success", "reverted"} : Become(t, s) => tx' \in [TxId -> Tx \cup {NONE}]
    BY <2>1 DEF Become, Tx
  <2>3. tx' \in [TxId -> Tx \cup {NONE}] BY <1>4, <2>2 DEF Execute
  <2>4. minted' \subseteq BtcTx /\ prepared' \in [Request -> SUBSET Outpoint]
    BY <1>4, <2>1 DEF Execute, Tx
  <2> QED BY <1>4, <2>3, <2>4 DEF Execute
<1>5. ASSUME NEW t \in TxId, Drop(t) PROVE TypeOK'
  <2>1. tx[t] \in Tx BY <1>5 DEF Drop
  <2>2. tx' \in [TxId -> Tx \cup {NONE}] BY <1>5, <2>1 DEF Drop, Become, Tx
  <2> QED BY <1>5, <2>2, <1>f DEF Drop
<1>6. CASE NewBlock
  <2>1. \A a \in Age : Older(a) \in Age BY DEF Age, Older
  <2>2. rows' \in [TxId -> Row \cup {NONE}]
    <3>1. \A t \in TxId : rows[t] # NONE => rows[t] \in Row OBVIOUS
    <3> QED BY <1>6, <2>1, <3>1 DEF NewBlock, Row
  <2>3. hdr' \in [Ref -> Age]
    BY <1>6, <2>1 DEF NewBlock, Age
  <2>4. faults' \in 0..MaxFaults BY <1>6, <1>f DEF NewBlock
  <2> QED BY <1>6, <2>2, <2>3, <2>4 DEF NewBlock
<1>7. CASE ReceiveErr BY <1>7 DEF ReceiveErr
<1>8. CASE QueryError BY <1>8, <1>f DEF QueryError, LoopSends
<1>9. ASSUME NEW S \in SUBSET Job, NEW round \in {"monitor", "prepare", "mint"},
             NEW place \in {"receipt", "start"}, Launch(S, round, place),
             faults' \in 0..MaxFaults, err' \in BOOLEAN
      PROVE  TypeOK'
  BY <1>9 DEF Launch, Place
<1>10. CASE StartMonitor BY <1>10, <1>9, <1>j DEF StartMonitor
<1>11. ASSUME NEW S \in SUBSET Ref, NEW round \in {"prepare", "mint"}, StartRound(S, round)
       PROVE  TypeOK'
  <2> DEFINE fresh == {x \in S : Unsent(x)}
  <2>1. CASE Launch(fresh, round, "start") /\ UNCHANGED <<err, faults>>
    BY <2>1, <1>9, <1>j
  <2>2. ASSUME NEW x \in S, Launch(fresh \cup {x}, round, "start"), Fault("db"), err' = TRUE
        PROVE  TypeOK'
    <3>1. fresh \cup {x} \in SUBSET Job BY <1>j
    <3> QED BY <2>2, <3>1, <1>9, <1>f
  <2>3. CASE /\ Fault("db") /\ err' = TRUE /\ loop' = "blocked"
             /\ UNCHANGED <<wg, job, held, sender, tables, chain, rows, locked>>
    BY <2>3, <1>f
  <2> QED BY <1>11, <2>1, <2>2, <2>3 DEF StartRound
<1>12. CASE StartPrepare BY <1>12, <1>11, <1>j DEF StartPrepare
<1>13. CASE StartMint BY <1>13, <1>11, <1>j DEF StartMint
<1>14. CASE EndRound BY <1>14 DEF EndRound
<1>15. ASSUME NEW j \in Job, SendErr(j) PROVE TypeOK'
  BY <1>15 DEF SendErr, Place
<1>16. ASSUME NEW x \in Ref, Begin(x) PROVE TypeOK'
  <2>1. wg' \subseteq Job /\ held' \subseteq Ref /\ job' \in [Job -> Place]
    BY <1>16, <1>j, ReturnTypes DEF Begin, Place
  <2>2. faults' \in 0..MaxFaults BY <1>16, <1>f DEF Begin
  <2> QED BY <1>16, <2>1, <2>2 DEF Begin
<1>17. ASSUME NEW r \in Request, RequestOutpoints(r) PROVE TypeOK'
  <2>1. wg' \subseteq Job /\ held' \subseteq Ref /\ job' \in [Job -> Place]
    BY <1>17, <1>j, ReturnTypes DEF RequestOutpoints, Place
  <2>2. locked' \in [Request -> SUBSET Outpoint] BY <1>17 DEF RequestOutpoints, Free
  <2> QED BY <1>17, <2>1, <2>2 DEF RequestOutpoints
<1>18. ASSUME NEW x \in Ref, Sign(x) PROVE TypeOK'
  <2>1. wg' \subseteq Job /\ held' \subseteq Ref /\ job' \in [Job -> Place]
    BY <1>18, <1>j, ReturnTypes DEF Sign, Place
  <2>2. faults' \in 0..MaxFaults BY <1>18, <1>f DEF Sign
  <2>3. hdr' \in [Ref -> Age] BY <1>18 DEF Sign, Age
  <2> QED BY <1>18, <2>1, <2>2, <2>3 DEF Sign
<1>19. ASSUME NEW place \in {"select", "ended"}, Stopped(place), faults' \in 0..MaxFaults,
              UNCHANGED <<tables, chain, rows, locked>>
       PROVE  TypeOK'
  <2>1. job' \in [Job -> Place] BY <1>19 DEF Stopped, Place
  <2>2. hdr' \in [Ref -> Age] BY <1>19 DEF Stopped, Age
  <2>3. out' \in [Ref -> TxId \cup {NONE}] BY <1>19 DEF Stopped
  <2>4. nonce' \in 0..MaxTx BY <1>19 DEF Stopped
  <2> QED BY <1>19, <2>1, <2>2, <2>3, <2>4 DEF Stopped
<1>20. ASSUME NEW x \in Ref, SignerKills(x) PROVE TypeOK'
  BY <1>20, <1>19, <1>f DEF SignerKills
<1>21. ASSUME NEW x \in Ref, GetAuthNonce(x) PROVE TypeOK'
  <2>1. wg' \subseteq Job /\ held' \subseteq Ref /\ job' \in [Job -> Place]
    BY <1>21, <1>j, ReturnTypes DEF GetAuthNonce, Place
  <2>2. faults' \in 0..MaxFaults BY <1>21, <1>f DEF GetAuthNonce
  <2>3. nonce' \in 0..MaxTx BY <1>21, PendingNonceFree DEF GetAuthNonce
  <2>4. mu' \in Ref \cup {NONE} BY <1>21 DEF GetAuthNonce
  <2> QED BY <1>21, <2>1, <2>2, <2>3, <2>4 DEF GetAuthNonce
<1>22. ASSUME NEW x \in Ref, Send(x) PROVE TypeOK'
  <2>1. wg' \subseteq Job /\ held' \subseteq Ref /\ job' \in [Job -> Place]
    BY <1>22, <1>j, ReturnTypes DEF Send, Place
  <2>2. faults' \in 0..MaxFaults BY <1>22, <1>f DEF Send
  <2>3. out' \in [Ref -> TxId \cup {NONE}] BY <1>22 DEF Send
  <2>4. tx' \in [TxId -> Tx \cup {NONE}] BY <1>22 DEF Send, Tx
  <2> QED BY <1>22, <2>1, <2>2, <2>3, <2>4 DEF Send
<1>23. ASSUME NEW x \in Ref, Insert(x) PROVE TypeOK'
  <2>1. wg' \subseteq Job /\ held' \subseteq Ref /\ job' \in [Job -> Place]
    BY <1>23, <1>j, ReturnTypes DEF Insert, Place
  <2>2. faults' \in 0..MaxFaults BY <1>23, <1>f DEF Insert
  <2>3. out' \in [Ref -> TxId \cup {NONE}] BY <1>23 DEF Insert
  <2>4. rows' \in [TxId -> Row \cup {NONE}] BY <1>23 DEF Insert, RowInv, Row
  <2>5. hdr' \in [Ref -> Age] BY <1>23 DEF Insert, Age
  <2> QED BY <1>23, <2>1, <2>2, <2>3, <2>4, <2>5 DEF Insert
<1>24. ASSUME NEW t \in TxId, Monitor(t) PROVE TypeOK'
  <2>1. wg' \subseteq Job /\ held' \subseteq Ref /\ job' \in [Job -> Place]
    BY <1>24, <1>j, ReturnTypes DEF Monitor, Place
  <2>2. faults' \in 0..MaxFaults BY <1>24, <1>f DEF Monitor
  <2>3. rows[t] \in Row BY <1>24 DEF Monitor, RowInv
  <2>4. \A s \in {"pending", "timeout", "success", "reverted"} :
          Mark(t, s) => rows' \in [TxId -> Row \cup {NONE}]
    BY <2>3 DEF Mark, Row, Age
  <2>5. Result(t) \in {"pending", "success", "reverted"} BY DEF Result
  <2>6. rows' \in [TxId -> Row \cup {NONE}] BY <1>24, <2>4, <2>5 DEF Monitor
  <2> QED BY <1>24, <2>1, <2>2, <2>6 DEF Monitor
<1>25. CASE Restart BY <1>25, <1>19, <1>f DEF Restart
<1>26. CASE UNCHANGED vars BY <1>26 DEF vars
<1> HIDE DEF TypeOK, tables, chain, group, sender
<1>27. ASSUME NEW j \in Job, Goroutine(j) PROVE TypeOK'
  BY <1>27, <1>j, <1>15, <1>16, <1>17, <1>18, <1>20, <1>21, <1>22, <1>23, <1>24
     DEF Goroutine, mintDeposit, prepareRedeem, createTx
<1> QED
  BY <1>1, <1>2, <1>3, <1>4, <1>5, <1>6, <1>7, <1>8, <1>10, <1>12, <1>13, <1>14,
     <1>25, <1>26, <1>27
     DEF Next, LoopStep

-----------------------------------------------------------------------------
\* A goroutine moves to the place p, and takes and releases what goes with it.
LEMMA MoveKeepsRound ==
  ASSUME TypeOK, RoundInv, NEW j \in Job, job[j] # "idle", NEW p \in Place,
         j \in Ref => p # "receipt",
         j \in TxId => p \in {"idle", "receipt", "fail"},
         p = "send" => mu = NONE,
         job' = [job EXCEPT ![j] = p],
         wg' = IF p = "idle" THEN wg \ {j} ELSE wg,
         held' = IF p \in Inside THEN held \cup {j} ELSE held \ {j},
         mu' = IF p = "send" THEN j ELSE IF job[j] = "send" THEN NONE ELSE mu,
         loop' = loop
  PROVE  RoundInv'
<1> USE EthAssumption DEF RoundInv, TypeOK
<1>1. (\A i \in Job : job[i] # "idle" <=> i \in wg)' OBVIOUS
<1>2. (\A x \in Ref : x \in held <=> job[x] \in Inside)'
  BY DEF Inside, Job, Ref
<1>3. (\A x \in Ref : mu = x <=> job[x] = "send")'
  <2> SUFFICES ASSUME NEW x \in Ref PROVE mu' = x <=> job'[x] = "send"
    OBVIOUS
  <2>1. x \in Job /\ x # NONE BY DEF Job
  <2>2. CASE x = j BY <2>1, <2>2
  <2>3. CASE x # j
    <3>1. job[j] = "send" => mu = j BY DEF Job
    <3>2. job'[x] = job[x] BY <2>1, <2>3
    <3> QED BY <2>1, <2>3, <3>1, <3>2
  <2> QED BY <2>2, <2>3
<1>4. (\A t \in TxId : job[t] \in {"idle", "receipt", "fail"})' BY DEF Job
<1>5. (\A x \in Ref : job[x] # "receipt")' BY DEF Job
<1>6. wg' \subseteq wg OBVIOUS
<1> QED BY <1>1, <1>2, <1>3, <1>4, <1>5, <1>6

\* The ways in which a goroutine goes on.
LEMMA DoneKeepsRound ==
  ASSUME TypeOK, RoundInv, NEW j \in Job, job[j] # "idle", Done(j), loop' = loop,
         mu' = IF job[j] = "send" THEN NONE ELSE mu
  PROVE  RoundInv'
<1>1. "idle" \in Place BY DEF Place
<1> QED BY <1>1, MoveKeepsRound DEF Done, Unlock, Inside

LEMMA ReturnKeepsRound ==
  ASSUME TypeOK, RoundInv, NEW j \in Job, job[j] # "idle", Return(j), loop' = loop,
         mu' = IF job[j] = "send" THEN NONE ELSE mu
  PROVE  RoundInv'
<1>1. "fail" \in Place BY DEF Place
<1>2. CASE j \in Request BY <1>2, DoneKeepsRound DEF Return
<1>3. CASE j \notin Request BY <1>1, <1>3, MoveKeepsRound DEF Return, Unlock, Inside
<1> QED BY <1>2, <1>3

LEMMA GotoKeepsRound ==
  ASSUME TypeOK, RoundInv, NEW x \in Ref, job[x] \in Inside, NEW p \in Inside, Goto(x, p),
         p = "send" => mu = NONE, loop' = loop,
         mu' = IF p = "send" THEN x ELSE IF job[x] = "send" THEN NONE ELSE mu
  PROVE  RoundInv'
<1>1. p \in Place /\ p \notin {"receipt", "idle"} /\ job[x] # "idle" BY DEF Place, Inside
<1>2. x \in Job /\ x \notin TxId BY EthAssumption DEF Job
<1>3. held \cup {x} = held BY DEF RoundInv
<1> QED BY <1>1, <1>2, <1>3, MoveKeepsRound DEF Goto

LEMMA LaunchKeepsRound ==
  ASSUME TypeOK, RoundInv, loop = "select", NEW S, NEW round, NEW place,
         \/ S \subseteq TxId /\ round = "monitor" /\ place = "receipt"
         \/ S \subseteq Request /\ round = "prepare" /\ place = "start"
         \/ S \subseteq BtcTx /\ round = "mint" /\ place = "start",
         Launch(S, round, place)
  PROVE  RoundInv'
<1> USE EthAssumption DEF RoundInv, TypeOK
<1>1. wg = {} OBVIOUS
<1>2. /\ \A j \in Job : job[j] = "idle"
      /\ held = {} /\ mu = NONE
  <2>1. \A j \in Job : job[j] = "idle" BY <1>1
  <2> QED BY <2>1 DEF Inside, Job
<1>3. S \subseteq Job BY DEF Job, Ref
<1>4. /\ \A j \in Job : job'[j] = IF j \in S THEN place ELSE "idle"
      /\ wg' = S /\ held' = {} /\ mu' = NONE
      /\ loop' = IF S = {} THEN "select" ELSE round
  BY <1>2 DEF Launch, sender
<1>5. Ref \subseteq Job /\ TxId \subseteq Job /\ NONE \notin Ref BY DEF Job
<1>6. BtcTx \subseteq Ref /\ Request \subseteq Ref BY DEF Ref
<1> QED BY <1>3, <1>4, <1>5, <1>6 DEF Inside

\* Every round is the WaitGroup's: goroutines come and go with it.
LEMMA RoundStep == TypeOK /\ RoundInv /\ [Next]_vars => RoundInv'
<1> SUFFICES ASSUME TypeOK, RoundInv, [Next]_vars PROVE RoundInv'
  OBVIOUS
<1> USE DEF tables, chain, group, sender
<1>k. ASSUME UNCHANGED <<loop, wg, held, job, mu>> PROVE RoundInv'
  BY <1>k DEF RoundInv
<1>j. Ref \subseteq Job /\ TxId \subseteq Job /\ Request \subseteq Ref /\ BtcTx \subseteq Ref
      /\ Request \cap BtcTx = {} /\ Ref \cap TxId = {}
  BY EthAssumption DEF Job, Ref
<1>1. ASSUME NEW b \in BtcTx, Deposit(b) PROVE RoundInv'
  BY <1>1, <1>k DEF Deposit
<1>2. ASSUME NEW r \in Request, RedeemRequest(r) PROVE RoundInv'
  BY <1>2, <1>k DEF RedeemRequest
<1>3. CASE Synced BY <1>3, <1>k DEF Synced
<1>4. ASSUME NEW t \in TxId, Execute(t) PROVE RoundInv'
  BY <1>4, <1>k DEF Execute
<1>5. ASSUME NEW t \in TxId, Drop(t) PROVE RoundInv'
  BY <1>5, <1>k DEF Drop
<1>6. CASE NewBlock BY <1>6, <1>k DEF NewBlock
<1>7. CASE ReceiveErr BY <1>7 DEF ReceiveErr, RoundInv
<1>8. CASE QueryError BY <1>8 DEF QueryError, LoopSends, RoundInv
<1>10. CASE StartMonitor
  <2> DEFINE S == {t \in TxId : rows[t] # NONE /\ rows[t].status = "pending"}
  <2>1. S \subseteq TxId OBVIOUS
  <2> QED BY <1>10, <2>1, LaunchKeepsRound DEF StartMonitor
<1>11. ASSUME NEW S, NEW round,
              \/ S \subseteq Request /\ round = "prepare"
              \/ S \subseteq BtcTx /\ round = "mint",
              StartRound(S, round)
       PROVE  RoundInv'
  <2> DEFINE fresh == {x \in S : Unsent(x)}
  <2>1. CASE Launch(fresh, round, "start")
    BY <1>11, <2>1, LaunchKeepsRound DEF StartRound
  <2>2. ASSUME NEW x \in S, Launch(fresh \cup {x}, round, "start")
        PROVE  RoundInv'
    <3>1. fresh \cup {x} \subseteq S OBVIOUS
    <3> QED BY <1>11, <2>2, <3>1, LaunchKeepsRound DEF StartRound
  <2>3. CASE /\ loop' = "blocked"
             /\ UNCHANGED <<wg, job, held, sender, tables, chain, rows, locked>>
    <3>1. wg = {} BY <1>11 DEF StartRound, RoundInv
    <3> QED BY <2>3, <3>1 DEF RoundInv
  <2> QED BY <1>11, <2>1, <2>2, <2>3 DEF StartRound
<1>12. CASE StartPrepare BY <1>12, <1>11 DEF StartPrepare, TypeOK
<1>13. CASE StartMint BY <1>13, <1>11 DEF StartMint, TypeOK
<1>14. CASE EndRound BY <1>14 DEF EndRound, RoundInv
<1>15. ASSUME NEW j \in Job, SendErr(j) PROVE RoundInv'
  <2>1. held \ {j} = held BY <1>15, <1>j DEF SendErr, RoundInv, TypeOK, Inside
  <2> QED BY <1>15, <2>1, DoneKeepsRound DEF SendErr, Done, Unlock
<1>16. ASSUME NEW x \in Ref, Begin(x) PROVE RoundInv'
  <2>1. CASE Done(x) BY <1>16, <2>1, <1>j, DoneKeepsRound DEF Begin
  <2>2. CASE Return(x) BY <1>16, <2>2, <1>j, ReturnKeepsRound DEF Begin
  <2>3. CASE /\ UNCHANGED wg
             /\ held' = held \cup {x}
             /\ job' = [job EXCEPT ![x] = IF x \in Request THEN "outs" ELSE "sign"]
    <3> DEFINE p == IF x \in Request THEN "outs" ELSE "sign"
    <3>1. p \in Inside /\ p \in Place /\ p \notin {"idle", "receipt", "send"}
      BY DEF Inside, Place
    <3> QED BY <1>16, <2>3, <1>j, <3>1, MoveKeepsRound DEF Begin
  <2> QED BY <1>16, <2>1, <2>2, <2>3 DEF Begin
<1>17. ASSUME NEW r \in Request, RequestOutpoints(r) PROVE RoundInv'
  <2>1. CASE Done(r) BY <1>17, <2>1, <1>j, DoneKeepsRound DEF RequestOutpoints
  <2>2. CASE Goto(r, "sign")
    BY <1>17, <2>2, <1>j, GotoKeepsRound DEF RequestOutpoints, Inside
  <2> QED BY <1>17, <2>1, <2>2 DEF RequestOutpoints
<1>18. ASSUME NEW x \in Ref, Sign(x) PROVE RoundInv'
  <2>1. CASE Return(x) BY <1>18, <2>1, <1>j, ReturnKeepsRound DEF Sign
  <2>2. CASE Goto(x, "nonce") BY <1>18, <2>2, GotoKeepsRound DEF Sign, Inside
  <2> QED BY <1>18, <2>1, <2>2 DEF Sign
<1>19. ASSUME NEW place \in {"select", "ended"}, Stopped(place) PROVE RoundInv'
  <2>1. \A j \in Job : job'[j] = "idle" BY <1>19 DEF Stopped
  <2> QED BY <1>19, <1>j, <2>1, EthAssumption DEF Stopped, RoundInv, Inside
<1>20. ASSUME NEW x \in Ref, SignerKills(x) PROVE RoundInv'
  BY <1>20, <1>19 DEF SignerKills
<1>21. ASSUME NEW x \in Ref, GetAuthNonce(x) PROVE RoundInv'
  <2>1. CASE Return(x) /\ UNCHANGED <<mu, nonce>>
    BY <1>21, <2>1, <1>j, ReturnKeepsRound DEF GetAuthNonce
  <2>2. CASE Goto(x, "send") /\ mu' = x
    BY <1>21, <2>2, GotoKeepsRound DEF GetAuthNonce, MuFree, Inside
  <2> QED BY <1>21, <2>1, <2>2 DEF GetAuthNonce
<1>22. ASSUME NEW x \in Ref, Send(x) PROVE RoundInv'
  <2>1. CASE Return(x) BY <1>22, <2>1, <1>j, ReturnKeepsRound DEF Send
  <2>2. CASE Goto(x, "insert") BY <1>22, <2>2, GotoKeepsRound DEF Send, Inside
  <2> QED BY <1>22, <2>1, <2>2 DEF Send
<1>23. ASSUME NEW x \in Ref, Insert(x) PROVE RoundInv'
  <2>1. CASE Return(x) BY <1>23, <2>1, <1>j, ReturnKeepsRound DEF Insert
  <2>2. CASE Done(x) BY <1>23, <2>2, <1>j, DoneKeepsRound DEF Insert
  <2> QED BY <1>23, <2>1, <2>2 DEF Insert
<1>24. ASSUME NEW t \in TxId, Monitor(t) PROVE RoundInv'
  <2>1. CASE Return(t) BY <1>24, <2>1, <1>j, ReturnKeepsRound DEF Monitor
  <2>2. CASE Done(t) BY <1>24, <2>2, <1>j, DoneKeepsRound DEF Monitor
  <2> QED BY <1>24, <2>1, <2>2 DEF Monitor
<1>25. CASE Restart BY <1>25, <1>19 DEF Restart
<1>26. CASE UNCHANGED vars BY <1>26, <1>k DEF vars
<1> HIDE DEF tables, chain, group, sender
<1>27. ASSUME NEW j \in Job, Goroutine(j) PROVE RoundInv'
  BY <1>27, <1>j, <1>15, <1>16, <1>17, <1>18, <1>20, <1>21, <1>22, <1>23, <1>24
     DEF Goroutine, mintDeposit, prepareRedeem, createTx
<1> QED
  BY <1>1, <1>2, <1>3, <1>4, <1>5, <1>6, <1>7, <1>8, <1>10, <1>12, <1>13, <1>14,
     <1>25, <1>26, <1>27
     DEF Next, LoopStep

-----------------------------------------------------------------------------
\* Which steps write what.
Frames ==
  /\ UNCHANGED tx \/ (\E t \in TxId : Execute(t) \/ Drop(t)) \/ \E x \in Ref : Send(x)
  /\ UNCHANGED <<minted, prepared>> \/ \E t \in TxId : Execute(t)
  /\ UNCHANGED rows \/ NewBlock \/ (\E x \in Ref : Insert(x)) \/ \E t \in TxId : Monitor(t)
  /\ UNCHANGED locked \/ \E r \in Request : RequestOutpoints(r)
  /\ UNCHANGED requested \/ Synced
  /\ UNCHANGED <<mu, nonce>> \/ mu' = NONE \/ \E x \in Ref : GetAuthNonce(x)
  /\ \/ UNCHANGED <<deposits, asked>>
     \/ \E b \in BtcTx : Deposit(b)
     \/ \E r \in Request : RedeemRequest(r)
  /\ deposits \subseteq deposits' /\ asked \subseteq asked'
  /\ wg' \subseteq wg \/ StartMonitor \/ StartPrepare \/ StartMint

\* Which steps take a goroutine to where something is to hold.
Arrivals ==
  /\ \A t \in TxId : job'[t] = "receipt" => job[t] = "receipt" \/ StartMonitor
  /\ \A x \in Ref : job'[x] = "insert" => (job[x] = "insert" /\ out'[x] = out[x]) \/ Send(x)
  /\ \A r \in Request : job'[r] \in Inside \ {"outs"} =>
       job[r] \in Inside \ {"outs"} \/ RequestOutpoints(r)

LEMMA FramesStep == TypeOK /\ RoundInv /\ [Next]_vars => Frames /\ Arrivals
<1> SUFFICES ASSUME TypeOK, RoundInv, [Next]_vars PROVE Frames /\ Arrivals
  OBVIOUS
<1> USE DEF tables, chain, group, sender
<1>k. ASSUME UNCHANGED <<job, out>> PROVE Arrivals
  BY <1>k DEF Arrivals
<1>i. ASSUME \A j \in Job : job'[j] \in {"idle", "fail", "start"} \/ job'[j] = job[j],
             \A x \in Ref : job'[x] = "insert" => out'[x] = out[x]
      PROVE  Arrivals
  BY <1>i DEF Arrivals, Job, Ref, Inside
<1>j. Ref \subseteq Job /\ TxId \subseteq Job /\ Request \subseteq Ref /\ BtcTx \subseteq Ref
      /\ Request \cap BtcTx = {} /\ Ref \cap TxId = {}
  BY EthAssumption DEF Job, Ref
<1>r. \A j \in Job : Done(j) \/ Return(j) =>
        /\ \A i \in Job : job'[i] \in {"idle", "fail", "start"} \/ job'[i] = job[i]
        /\ wg' \subseteq wg
  BY DEF TypeOK, Done, Return
<1>1. ASSUME NEW b \in BtcTx, Deposit(b) PROVE Frames /\ Arrivals
  BY <1>1, <1>k DEF Deposit, Frames
<1>2. ASSUME NEW r \in Request, RedeemRequest(r) PROVE Frames /\ Arrivals
  BY <1>2, <1>k DEF RedeemRequest, Frames
<1>3. CASE Synced BY <1>3, <1>k DEF Synced, Frames
<1>4. ASSUME NEW t \in TxId, Execute(t) PROVE Frames /\ Arrivals
  <2>1. UNCHANGED <<tables, rows, locked, group, job, sender, faults>> BY <1>4 DEF Execute
  <2> QED BY <1>4, <2>1, <1>k DEF Frames
<1>5. ASSUME NEW t \in TxId, Drop(t) PROVE Frames /\ Arrivals
  <2>1. UNCHANGED <<tables, minted, prepared, rows, locked, group, job, sender>>
    BY <1>5 DEF Drop
  <2> QED BY <1>5, <2>1, <1>k DEF Frames
<1>6. CASE NewBlock
  <2>1. UNCHANGED <<tables, chain, locked, group, job, mu, nonce, out>> BY <1>6 DEF NewBlock
  <2> QED BY <1>6, <2>1, <1>k DEF Frames
<1>7. CASE ReceiveErr BY <1>7, <1>k DEF ReceiveErr, Frames
<1>8. CASE QueryError BY <1>8, <1>k DEF QueryError, Frames
<1>10. CASE StartMonitor
  <2>1. /\ UNCHANGED <<held, sender, tables, chain, rows, locked>>
        /\ \A j \in Job : job'[j] \in {"receipt", job[j]}
    BY <1>10 DEF StartMonitor, Launch
  <2>2. Arrivals BY <1>10, <1>j, <2>1 DEF Arrivals, Inside
  <2> QED BY <1>10, <2>1, <2>2 DEF Frames
<1>11. ASSUME NEW S, NEW round, StartRound(S, round) PROVE
         /\ UNCHANGED <<held, sender, tables, chain, rows, locked>>
         /\ Arrivals
  <2>1. \A T : Launch(T, round, "start") =>
          /\ UNCHANGED <<held, sender, tables, chain, rows, locked>>
          /\ \A j \in Job : job'[j] \in {"start", job[j]}
    BY DEF Launch
  <2>2. /\ UNCHANGED <<held, sender, tables, chain, rows, locked>>
        /\ \A j \in Job : job'[j] \in {"start", job[j]}
    BY <1>11, <2>1 DEF StartRound
  <2> QED BY <2>2, <1>i
<1>12. CASE StartPrepare BY <1>12, <1>11 DEF StartPrepare, Frames
<1>13. CASE StartMint BY <1>13, <1>11 DEF StartMint, Frames
<1>14. CASE EndRound BY <1>14, <1>k DEF EndRound, Frames
<1>15. ASSUME NEW j \in Job, SendErr(j) PROVE Frames /\ Arrivals
  <2>1. Arrivals BY <1>15, <1>i DEF SendErr, TypeOK
  <2> QED BY <1>15, <2>1 DEF SendErr, Frames
<1>16. ASSUME NEW x \in Ref, Begin(x) PROVE Frames /\ Arrivals
  <2>1. CASE Done(x) \/ Return(x)
    <3>1. Arrivals BY <1>16, <2>1, <1>j, <1>r, <1>i DEF Begin
    <3> QED BY <1>16, <2>1, <1>j, <1>r, <3>1 DEF Begin, Frames
  <2>2. CASE /\ UNCHANGED wg
             /\ job' = [job EXCEPT ![x] = IF x \in Request THEN "outs" ELSE "sign"]
    <3>1. Arrivals BY <1>16, <2>2, <1>j DEF Begin, Arrivals, TypeOK, Inside
    <3> QED BY <1>16, <2>2, <3>1 DEF Begin, Frames
  <2> QED BY <1>16, <2>1, <2>2 DEF Begin
<1>17. ASSUME NEW r \in Request, RequestOutpoints(r) PROVE Frames /\ Arrivals
  <2>1. wg' \subseteq wg BY <1>17 DEF RequestOutpoints, Done, Goto
  <2>2. Arrivals
    BY <1>17, <1>j DEF RequestOutpoints, Done, Goto, Arrivals, TypeOK, Inside
  <2>3. UNCHANGED <<tables, chain, rows, loop, err, sender, faults>>
    BY <1>17 DEF RequestOutpoints
  <2> QED BY <1>17, <2>1, <2>2, <2>3 DEF Frames
<1>18. ASSUME NEW x \in Ref, Sign(x) PROVE Frames /\ Arrivals
  <2>1. CASE Return(x)
    <3>1. Arrivals BY <1>18, <2>1, <1>j, <1>r, <1>i DEF Sign
    <3> QED BY <1>18, <2>1, <1>j, <1>r, <3>1 DEF Sign, Frames
  <2>2. CASE Goto(x, "nonce")
    <3>1. Arrivals BY <1>18, <2>2, <1>j DEF Sign, Goto, Arrivals, TypeOK, Inside
    <3> QED BY <1>18, <2>2, <3>1 DEF Sign, Goto, Frames
  <2> QED BY <1>18, <2>1, <2>2 DEF Sign
<1>19. ASSUME NEW place, Stopped(place), UNCHANGED <<tables, chain, rows, locked>>
       PROVE  Frames /\ Arrivals
  <2>1. \A j \in Job : job'[j] = "idle" BY <1>19 DEF Stopped
  <2>2. Arrivals BY <2>1, <1>i, <1>j
  <2> QED BY <1>19, <2>2 DEF Stopped, Frames
<1>20. ASSUME NEW x \in Ref, SignerKills(x) PROVE Frames /\ Arrivals
  BY <1>20, <1>19 DEF SignerKills
<1>21. ASSUME NEW x \in Ref, GetAuthNonce(x) PROVE Frames /\ Arrivals
  <2>1. CASE Return(x)
    <3>1. Arrivals BY <1>21, <2>1, <1>j, <1>r, <1>i DEF GetAuthNonce
    <3> QED BY <1>21, <2>1, <1>j, <1>r, <3>1 DEF GetAuthNonce, Frames
  <2>2. CASE Goto(x, "send")
    <3>1. Arrivals BY <1>21, <2>2, <1>j DEF GetAuthNonce, Goto, Arrivals, TypeOK, Inside
    <3> QED BY <1>21, <2>2, <3>1 DEF GetAuthNonce, Goto, Frames
  <2> QED BY <1>21, <2>1, <2>2 DEF GetAuthNonce
<1>22. ASSUME NEW x \in Ref, Send(x) PROVE Frames /\ Arrivals
  <2>0. /\ UNCHANGED <<tables, minted, prepared, rows, locked, loop, err, hdr>>
        /\ mu' = NONE /\ job[x] = "send"
    BY <1>22 DEF Send
  <2>1. CASE Return(x) /\ UNCHANGED out
    <3>1. Arrivals BY <2>1, <1>j, <1>r, <1>i
    <3> QED BY <1>22, <2>0, <2>1, <1>j, <1>r, <3>1 DEF Frames
  <2>2. CASE Goto(x, "insert") /\ \E t \in TxId : out' = [out EXCEPT ![x] = t]
    <3>1. \A i \in Job : i # x => job'[i] = job[i] BY <2>2, <1>j DEF Goto, TypeOK
    <3>2. \A i \in Ref : i # x => out'[i] = out[i] BY <2>2 DEF TypeOK
    <3>3. job'[x] = "insert" BY <2>2, <1>j DEF Goto, TypeOK
    <3>4. Arrivals BY <1>22, <2>0, <3>1, <3>2, <3>3, <1>j DEF Arrivals, Inside
    <3> QED BY <1>22, <2>0, <2>2, <3>4 DEF Goto, Frames
  <2> QED BY <1>22, <2>1, <2>2 DEF Send
<1>23. ASSUME NEW x \in Ref, Insert(x) PROVE Frames /\ Arrivals
  <2>1. Done(x) \/ Return(x) BY <1>23 DEF Insert
  <2>2. job'[x] # "insert" BY <2>1, <1>j DEF Done, Return, TypeOK
  <2>3. \A i \in Ref : i # x => out'[i] = out[i] BY <1>23 DEF Insert, TypeOK
  <2>4. Arrivals BY <2>1, <2>2, <2>3, <1>j, <1>r, <1>i
  <2>5. UNCHANGED <<tables, chain, locked, loop, err, mu, nonce>> BY <1>23 DEF Insert
  <2> QED BY <1>23, <2>1, <2>4, <2>5, <1>j, <1>r DEF Frames
<1>24. ASSUME NEW t \in TxId, Monitor(t) PROVE Frames /\ Arrivals
  <2>1. Done(t) \/ Return(t) BY <1>24 DEF Monitor
  <2>2. UNCHANGED <<tables, chain, locked, loop, err, sender>> BY <1>24 DEF Monitor
  <2>3. Arrivals BY <2>1, <2>2, <1>j, <1>r, <1>i
  <2> QED BY <1>24, <2>1, <2>2, <2>3, <1>j, <1>r DEF Frames
<1>25. CASE Restart BY <1>25, <1>19 DEF Restart
<1>26. CASE UNCHANGED vars BY <1>26, <1>k DEF vars, Frames
<1> HIDE DEF tables, chain, group, sender
<1>27. ASSUME NEW j \in Job, Goroutine(j) PROVE Frames /\ Arrivals
  BY <1>27, <1>j, <1>15, <1>16, <1>17, <1>18, <1>20, <1>21, <1>22, <1>23, <1>24
     DEF Goroutine, mintDeposit, prepareRedeem, createTx
<1> QED
  BY <1>1, <1>2, <1>3, <1>4, <1>5, <1>6, <1>7, <1>8, <1>10, <1>12, <1>13, <1>14,
     <1>25, <1>26, <1>27
     DEF Next, LoopStep

-----------------------------------------------------------------------------
\* What the chain has it keeps: a transaction stays what it is, and one that was
\* executed or dropped never changes again.
ChainGrows ==
  \A t \in TxId : tx[t] # NONE =>
    /\ tx'[t] # NONE /\ tx'[t].ref = tx[t].ref /\ tx'[t].outs = tx[t].outs
    /\ tx'[t].nonce = tx[t].nonce
    /\ tx[t].state # "mempool" => tx'[t].state = tx[t].state

\* The call of one goroutine reaches the node: its transaction is a new one.
Sent(x, t) ==
  /\ tx[t] = NONE
  /\ Accepts(x, IF x \in Request THEN locked[x] ELSE {})
  /\ tx' = [tx EXCEPT ![t] = [ref |-> x, outs |-> IF x \in Request THEN locked[x] ELSE {},
                              nonce |-> nonce, state |-> "mempool"]]

LEMMA SendSends ==
  ASSUME NEW x \in Ref, Send(x)
  PROVE  /\ UNCHANGED tx \/ \E t \in TxId : Sent(x, t)
         /\ job[x] = "send" /\ mu' = NONE
         /\ UNCHANGED <<minted, prepared, rows, locked, deposits, asked, requested>>
BY DEF Send, Sent, tables

\* One transaction takes its result.
LEMMA BecomeGrows ==
  ASSUME TypeOK, NEW t \in TxId, tx[t] # NONE, tx[t].state = "mempool",
         NEW s \in {"success", "reverted", "dropped"}, Become(t, s)
  PROVE  /\ ChainGrows
         /\ tx'[t].state = s /\ tx'[t] # NONE
         /\ \A u \in TxId : u # t => tx'[u] = tx[u]
<1>1. tx[t] \in Tx BY DEF TypeOK
<1>2. [ref |-> tx[t].ref, outs |-> tx[t].outs, nonce |-> tx[t].nonce, state |-> s] # NONE
  BY <1>1, NoneEthAssumption DEF Tx
<1> QED BY <1>1, <1>2 DEF TypeOK, Become, ChainGrows

LEMMA ChainGrowsStep == TypeOK /\ RoundInv /\ [Next]_vars => ChainGrows
<1> SUFFICES ASSUME TypeOK, RoundInv, [Next]_vars PROVE ChainGrows
  OBVIOUS
<1>1. CASE UNCHANGED tx BY <1>1 DEF ChainGrows
<1>2. ASSUME NEW t \in TxId, Execute(t) PROVE ChainGrows
  BY <1>2, BecomeGrows DEF Execute, Ready
<1>3. ASSUME NEW t \in TxId, Drop(t) PROVE ChainGrows
  BY <1>3, BecomeGrows DEF Drop
<1>4. ASSUME NEW x \in Ref, NEW t \in TxId, Sent(x, t) PROVE ChainGrows
  BY <1>4 DEF Sent, ChainGrows, TypeOK
<1> QED BY <1>1, <1>2, <1>3, <1>4, SendSends, FramesStep DEF Frames

-----------------------------------------------------------------------------
\* Between the read of a nonce and the transaction that carries it the node
\* takes no other: the mutex is held.
LEMMA NonceStep ==
  TypeOK /\ RoundInv /\ NonceInv /\ NoncesDistinct /\ [Next]_vars => (NonceInv /\ NoncesDistinct)'
<1> SUFFICES ASSUME TypeOK, RoundInv, NonceInv, NoncesDistinct, [Next]_vars
             PROVE  (NonceInv /\ NoncesDistinct)'
  OBVIOUS
<1> DEFINE Living(t) == tx'[t] # NONE /\ tx'[t].state # "dropped"
<1>a. \A t \in TxId : Alive(t)' <=> Living(t) BY DEF Alive
<1>b. Frames /\ ChainGrows BY FramesStep, ChainGrowsStep
<1>1. CASE \A t \in TxId : Living(t) => Alive(t)
  <2>1. \A t \in TxId : Living(t) => tx'[t].nonce = tx[t].nonce
    BY <1>1, <1>b DEF ChainGrows, Alive
  <2>2. NoncesDistinct' BY <1>1, <1>a, <2>1 DEF NoncesDistinct
  <2>3. CASE UNCHANGED <<mu, nonce>> BY <1>1, <1>a, <2>1, <2>2, <2>3 DEF NonceInv
  <2>4. CASE mu' = NONE BY <2>2, <2>4 DEF NonceInv
  <2>5. ASSUME NEW x \in Ref, GetAuthNonce(x) PROVE NonceInv'
    <3>1. UNCHANGED tx BY <2>5 DEF GetAuthNonce, chain
    <3>2. CASE nonce' = PendingNonce
      BY <3>1, <3>2, <1>1, <1>a, PendingNonceFree DEF NonceInv
    <3>3. CASE UNCHANGED <<mu, nonce>> BY <1>1, <1>a, <2>1, <3>3 DEF NonceInv
    <3> QED BY <2>5, <3>2, <3>3 DEF GetAuthNonce
  <2> QED BY <1>b, <2>2, <2>3, <2>4, <2>5 DEF Frames
<1>2. ASSUME NEW x \in Ref, Send(x), NEW t \in TxId, Sent(x, t)
      PROVE  (NonceInv /\ NoncesDistinct)'
  <2>1. mu # NONE
    <3>1. job[x] = "send" BY <1>2, SendSends
    <3>2. mu = x BY <3>1 DEF RoundInv
    <3> QED BY <3>2, EthAssumption DEF Job
  <2>2. tx'[t].nonce = nonce /\ \A u \in TxId : u # t => tx'[u] = tx[u]
    BY <1>2 DEF Sent, TypeOK
  <2>3. \A u \in TxId : u # t /\ Living(u) => Alive(u) /\ tx[u].nonce # nonce
    BY <2>1, <2>2 DEF Alive, NonceInv
  <2>4. NoncesDistinct' BY <1>a, <2>2, <2>3 DEF NoncesDistinct
  <2>5. NonceInv' BY <1>2, SendSends DEF NonceInv
  <2> QED BY <2>4, <2>5
<1>3. ASSUME NEW t \in TxId, Execute(t) \/ Drop(t) PROVE \A u \in TxId : Living(u) => Alive(u)
  <2>1. /\ tx[t] # NONE /\ tx[t].state = "mempool"
        /\ \A u \in TxId : u # t => tx'[u] = tx[u]
    BY <1>3, BecomeGrows DEF Execute, Ready, Drop
  <2> QED BY <2>1 DEF Alive
<1>4. CASE UNCHANGED tx BY <1>1, <1>4 DEF Alive
<1> QED BY <1>b, <1>1, <1>2, <1>3, <1>4, SendSends DEF Frames

\* A goroutine that goes on to insert has sent the transaction it will insert.
LEMMA SendInserts ==
  ASSUME TypeOK, NEW x \in Ref, Send(x), job'[x] = "insert"
  PROVE  out'[x] \in TxId /\ tx'[out'[x]] # NONE /\ tx'[out'[x]].ref = x
<1>1. x \in Job BY DEF Job
<1>2. Return(x) => job'[x] # "insert" BY <1>1 DEF Return, Done, TypeOK
<1>3. PICK t \in TxId : Sent(x, t) /\ out' = [out EXCEPT ![x] = t]
  BY <1>2 DEF Send, Sent
<1>4. tx'[t] \in Tx /\ tx'[t].ref = x BY <1>3 DEF Sent, TypeOK, Tx
<1> QED BY <1>3, <1>4, NoneEthAssumption DEF TypeOK

\* Rows follow what the chain says of their transactions.
LEMMA RowStep ==
  TypeOK /\ RoundInv /\ RowInv /\ ResultsTruthful /\ [Next]_vars => (RowInv /\ ResultsTruthful)'
<1> SUFFICES ASSUME TypeOK, RoundInv, RowInv, ResultsTruthful, [Next]_vars
             PROVE  (RowInv /\ ResultsTruthful)'
  OBVIOUS
<1>b. Frames /\ Arrivals /\ ChainGrows BY FramesStep, ChainGrowsStep
<1>t. TypeOK' BY EthTypeStep
<1> DEFINE Good(t) == rows'[t] # NONE =>
             /\ tx'[t] # NONE /\ tx'[t].ref = rows'[t].ref
             /\ rows'[t].status \in {"success", "reverted"} => tx'[t].state = rows'[t].status
           Kept(t) == rows[t] # NONE => rows'[t] # NONE
<1>0. \A t \in TxId : rows[t] # NONE =>
        /\ tx'[t] # NONE /\ tx'[t].ref = rows[t].ref
        /\ rows[t].status \in {"success", "reverted"} => tx'[t].state = rows[t].status
  BY <1>b DEF ChainGrows, RowInv, ResultsTruthful
<1>2. \A t \in TxId : Good(t) /\ Kept(t)
  <2>1. CASE UNCHANGED rows BY <1>0, <2>1
  <2>2. CASE NewBlock
    <3> SUFFICES ASSUME NEW t \in TxId PROVE Good(t) /\ Kept(t)
      OBVIOUS
    <3>1. rows'[t] = IF rows[t] # NONE /\ rows[t].status = "pending"
                     THEN [ref |-> rows[t].ref, age |-> Older(rows[t].age),
                           status |-> rows[t].status]
                     ELSE rows[t]
      BY <2>2 DEF NewBlock
    <3>2. CASE rows[t] # NONE /\ rows[t].status = "pending"
      <4>1. Older(rows[t].age) \in Age /\ rows[t] \in Row
        BY <3>2, EthAssumption DEF TypeOK, Row, Older, Age
      <4>2. rows'[t] \in Row BY <3>1, <3>2, <4>1 DEF Row
      <4> QED BY <3>1, <3>2, <4>2, <1>0, NoneEthAssumption
    <3>3. CASE ~(rows[t] # NONE /\ rows[t].status = "pending") BY <3>1, <3>3, <1>0
    <3> QED BY <3>2, <3>3
  <2>3. ASSUME NEW x \in Ref, Insert(x) PROVE \A t \in TxId : Good(t) /\ Kept(t)
    <3>1. UNCHANGED tx BY <2>3 DEF Insert, chain
    <3>2. out[x] \in TxId /\ tx[out[x]] # NONE /\ tx[out[x]].ref = x
      BY <2>3 DEF Insert, RowInv
    <3>3. CASE UNCHANGED rows BY <1>0, <3>3
    <3>4. CASE rows' = [rows EXCEPT ![out[x]] = [ref |-> x, age |-> hdr[x], status |-> "pending"]]
      <4>1. rows'[out[x]] \in Row BY <3>2, <3>4 DEF TypeOK, Row
      <4> QED BY <1>0, <3>1, <3>2, <3>4, <4>1, NoneEthAssumption DEF TypeOK
    <3> QED BY <2>3, <3>3, <3>4 DEF Insert
  <2>4. ASSUME NEW t \in TxId, Monitor(t) PROVE \A u \in TxId : Good(u) /\ Kept(u)
    <3>1. UNCHANGED tx BY <2>4 DEF Monitor, chain
    <3>2. rows[t] # NONE /\ rows[t] \in Row BY <2>4 DEF Monitor, RowInv, TypeOK
    <3>3. CASE UNCHANGED rows BY <1>0, <3>3
    <3>4. ASSUME NEW s \in {"timeout", Result(t)}, Mark(t, s)
          PROVE  \A u \in TxId : Good(u) /\ Kept(u)
      <4>1. /\ rows'[t].ref = rows[t].ref /\ rows'[t].status = s
            /\ \A u \in TxId : u # t => rows'[u] = rows[u]
        BY <3>4 DEF Mark, TypeOK
      <4>2. s \in {"success", "reverted"} => tx[t].state = s
        BY DEF Result
      <4>3. Good(t) BY <4>1, <4>2, <3>1, <3>2, <1>0
      <4>4. rows'[t] # NONE
        <5>1. s \in {"timeout", "pending", "success", "reverted"} BY DEF Result
        <5>2. rows'[t] \in Row BY <3>2, <3>4, <5>1, EthAssumption DEF Mark, TypeOK, Row, Age
        <5> QED BY <5>2, NoneEthAssumption
      <4> QED BY <4>1, <4>3, <4>4, <1>0
    <3> QED BY <2>4, <3>3, <3>4 DEF Monitor
  <2> QED BY <1>b, <2>1, <2>2, <2>3, <2>4 DEF Frames
<1>3. ResultsTruthful' BY <1>2 DEF ResultsTruthful
<1>4. ASSUME NEW t \in TxId, job'[t] = "receipt" PROVE rows'[t] # NONE
  <2>1. CASE job[t] = "receipt" BY <2>1, <1>2 DEF RowInv
  <2>2. CASE StartMonitor /\ job[t] # "receipt"
    <3>1. t \in Job BY DEF Job
    <3>2. rows[t] # NONE BY <1>4, <2>2, <3>1 DEF StartMonitor, Launch
    <3> QED BY <3>2, <1>2
  <2> QED BY <1>4, <2>1, <2>2, <1>b DEF Arrivals
<1>5. ASSUME NEW x \in Ref, job'[x] = "insert"
      PROVE  out'[x] \in TxId /\ tx'[out'[x]] # NONE /\ tx'[out'[x]].ref = x
  <2>1. CASE job[x] = "insert" /\ out'[x] = out[x]
    BY <2>1, <1>b DEF RowInv, ChainGrows
  <2>2. CASE Send(x) BY <1>5, <2>2, SendInserts
  <2> QED BY <1>5, <2>1, <2>2, <1>b DEF Arrivals
<1> QED BY <1>2, <1>3, <1>4, <1>5 DEF RowInv

-----------------------------------------------------------------------------
\* Nothing is sent that nobody asked for.
LEMMA AskedStep == TypeOK /\ RoundInv /\ AskedInv /\ [Next]_vars => AskedInv'
<1> SUFFICES ASSUME TypeOK, RoundInv, AskedInv, [Next]_vars PROVE AskedInv'
  OBVIOUS
<1>b. Frames /\ ChainGrows BY FramesStep, ChainGrowsStep
<1>1. requested' \subseteq asked'
  <2>1. CASE UNCHANGED requested BY <2>1, <1>b DEF Frames, AskedInv
  <2>2. CASE Synced BY <2>2 DEF Synced, AskedInv
  <2> QED BY <2>1, <2>2, <1>b DEF Frames
<1>2. wg' \cap Ref \subseteq deposits' \cup asked'
  <2>1. CASE wg' \subseteq wg BY <2>1, <1>b DEF Frames, AskedInv
  <2>2. CASE StartMonitor
    <3>1. wg' \subseteq TxId BY <2>2 DEF StartMonitor, Launch
    <3> QED BY <3>1, EthAssumption
  <2>3. ASSUME NEW S, NEW round, StartRound(S, round) PROVE wg' \subseteq S \/ wg' = wg
    BY <2>3 DEF StartRound, Launch
  <2>4. CASE StartPrepare
    BY <2>4, <2>3, <1>b DEF StartPrepare, Frames, AskedInv
  <2>5. CASE StartMint
    BY <2>5, <2>3, <1>b DEF StartMint, Frames, AskedInv
  <2> QED BY <2>1, <2>2, <2>4, <2>5, <1>b DEF Frames
<1>3. ASSUME NEW t \in TxId, tx'[t] # NONE PROVE tx'[t].ref \in deposits' \cup asked'
  <2>1. CASE tx[t] # NONE BY <2>1, <1>b DEF ChainGrows, Frames, AskedInv
  <2>2. CASE tx[t] = NONE
    <3>1. ASSUME NEW u \in TxId, Execute(u) \/ Drop(u) PROVE tx'[t] = tx[t]
      BY <3>1, <2>2 DEF Execute, Drop, Ready, Become, TypeOK
    <3>2. ASSUME NEW x \in Ref, Send(x), tx'[t] # tx[t]
          PROVE  tx'[t].ref \in deposits' \cup asked'
      <4>1. PICK u \in TxId : Sent(x, u) BY <3>2, SendSends
      <4>2. tx'[t].ref = x BY <3>2, <4>1 DEF Sent, TypeOK
      <4>3. x \in wg BY <3>2, SendSends DEF RoundInv, Job
      <4> QED BY <4>2, <4>3, <1>b DEF AskedInv, Frames
    <3> QED BY <1>3, <2>2, <3>1, <3>2, <1>b DEF Frames
  <2> QED BY <2>1, <2>2
<1> QED BY <1>1, <1>2, <1>3 DEF AskedInv

\* The vault gives free outputs out, and never takes any back.
LockedKept ==
  \/ UNCHANGED locked
  \/ \E r \in Request, outs \in (SUBSET Free) \ {{}} :
       locked[r] = {} /\ locked' = [locked EXCEPT ![r] = outs]

LEMMA LockedStep == TypeOK /\ RoundInv /\ [Next]_vars => LockedKept
BY FramesStep DEF Frames, RequestOutpoints, LockedKept

LEMMA VaultStep == TypeOK /\ RoundInv /\ VaultInv /\ [Next]_vars => VaultInv'
<1> SUFFICES ASSUME TypeOK, RoundInv, VaultInv, [Next]_vars PROVE VaultInv'
  OBVIOUS
<1>b. Frames /\ Arrivals /\ LockedKept BY FramesStep, LockedStep
<1>1. (\A r \in Request : \A o \in locked[r] : TxOf[o] \in deposits)'
  BY <1>b DEF Frames, LockedKept, VaultInv, TypeOK, Free
<1>2. (\A r, q \in Request : r # q => locked[r] \cap locked[q] = {})'
  <2>1. CASE UNCHANGED locked BY <2>1 DEF VaultInv
  <2>2. ASSUME NEW r \in Request, NEW outs \in (SUBSET Free) \ {{}},
               locked' = [locked EXCEPT ![r] = outs]
        PROVE  (\A p, q \in Request : p # q => locked[p] \cap locked[q] = {})'
    <3>1. \A q \in Request : outs \cap locked[q] = {} BY DEF Free
    <3> QED BY <2>2, <3>1 DEF VaultInv, TypeOK
  <2> QED BY <1>b, <2>1, <2>2 DEF LockedKept
<1>3. ASSUME NEW r \in Request, job'[r] \in Inside \ {"outs"} PROVE locked'[r] # {}
  <2>1. CASE job[r] \in Inside \ {"outs"}
    BY <2>1, <1>b DEF LockedKept, VaultInv, TypeOK
  <2>2. CASE RequestOutpoints(r)
    <3>1. r \in Job BY DEF Job, Ref
    <3>2. ~Done(r) BY <1>3, <3>1 DEF Done, TypeOK, Inside
    <3> QED BY <2>2, <3>2 DEF RequestOutpoints, TypeOK
  <2> QED BY <1>3, <2>1, <2>2, <1>b DEF Arrivals
<1> QED BY <1>1, <1>2, <1>3 DEF VaultInv

\* What a transaction that is executed does to the contract.
LEMMA ExecuteSettles ==
  ASSUME TypeOK, NEW t \in TxId, Execute(t)
  PROVE  /\ tx[t] \in Tx /\ tx[t] # NONE /\ tx[t].state = "mempool"
         /\ UNCHANGED <<deposits, asked, locked>>
         /\ \A u \in TxId : u # t => tx'[u] = tx[u]
         /\ tx'[t] # NONE /\ tx'[t].ref = tx[t].ref /\ tx'[t].outs = tx[t].outs
         /\ \/ /\ tx'[t].state = "success"
               /\ Accepts(tx[t].ref, tx[t].outs)
               /\ minted' = IF tx[t].ref \in BtcTx THEN minted \cup {tx[t].ref} ELSE minted
               /\ prepared' = IF tx[t].ref \in Request
                              THEN [prepared EXCEPT ![tx[t].ref] = tx[t].outs] ELSE prepared
            \/ tx'[t].state = "reverted" /\ UNCHANGED <<minted, prepared>>
<1>1. tx[t] \in Tx /\ tx[t] # NONE /\ tx[t].state = "mempool"
  BY DEF Execute, Ready, TypeOK
<1> QED BY <1>1, BecomeGrows DEF Execute, tables, ChainGrows

LEMMA ChainStep ==
  TypeOK /\ RoundInv /\ VaultInv /\ ChainInv /\ [Next]_vars => ChainInv'
<1> SUFFICES ASSUME TypeOK, RoundInv, VaultInv, ChainInv, [Next]_vars PROVE ChainInv'
  OBVIOUS
<1> DEFINE Settles(x) == IF x \in BtcTx THEN x \in minted' ELSE prepared'[x] # {}
<1>b. Frames /\ LockedKept /\ ChainGrows BY FramesStep, LockedStep, ChainGrowsStep
<1>r. Request \cap BtcTx = {} BY EthAssumption
<1>l. \A r \in Request : locked[r] # {} => locked'[r] = locked[r]
  BY <1>b DEF LockedKept, TypeOK
<1>s. ASSUME NEW x \in Ref, Settled(x) PROVE Settles(x)
  <2>1. CASE UNCHANGED <<minted, prepared>> BY <1>s, <2>1 DEF Settled
  <2>2. ASSUME NEW t \in TxId, Execute(t) PROVE Settles(x)
    BY <1>s, <2>2, ExecuteSettles DEF Settled, Accepts, Ref, TypeOK
  <2> QED BY <1>b, <2>1, <2>2 DEF Frames
<1>1. ASSUME NEW t \in TxId, tx'[t] # NONE
      PROVE  /\ tx'[t].ref \in Request =>
                  tx'[t].outs = locked'[tx'[t].ref] /\ tx'[t].outs # {}
             /\ tx'[t].state = "success" => Settles(tx'[t].ref)
  <2>1. CASE tx[t] # NONE /\ tx'[t].state = tx[t].state
    <3>1. tx[t] \in Tx /\ tx[t].ref \in Ref BY <2>1 DEF TypeOK, Tx
    <3> QED BY <2>1, <3>1, <1>b, <1>l, <1>s DEF ChainGrows, ChainInv
  <2>2. CASE tx[t] # NONE /\ tx'[t].state # tx[t].state
    <3>1. tx'[t].ref = tx[t].ref /\ tx'[t].outs = tx[t].outs BY <2>2, <1>b DEF ChainGrows
    <3>2. tx'[t].state = "success" => Settles(tx'[t].ref)
      <4>1. ASSUME NEW u \in TxId, Drop(u) PROVE tx'[t].state # "success"
        <5>1. tx[u] # NONE /\ tx[u].state = "mempool" /\ Become(u, "dropped")
          BY <4>1 DEF Drop
        <5> QED BY <2>2, <5>1, BecomeGrows
      <4>2. ASSUME NEW u \in TxId, Execute(u)
            PROVE  tx'[t].state = "success" => Settles(tx'[t].ref)
        <5>1. u = t BY <2>2, <4>2, ExecuteSettles
        <5>2. tx[t].ref \in Request => tx[t].outs # {} BY <2>2 DEF ChainInv
        <5>3. tx[t].ref \in Ref BY <4>2, <5>1, ExecuteSettles DEF Tx
        <5> QED BY <4>2, <5>1, <5>2, <5>3, <1>r, ExecuteSettles DEF Settled, Ref, TypeOK
      <4>3. ASSUME NEW x \in Ref, Send(x) PROVE tx'[t] = tx[t]
        BY <4>3, <2>2, SendSends DEF Sent, TypeOK
      <4> QED BY <2>2, <4>1, <4>2, <4>3, <1>b DEF Frames
    <3> QED BY <2>2, <3>1, <3>2, <1>l DEF ChainInv
  <2>3. CASE tx[t] = NONE
    <3>1. ASSUME NEW u \in TxId, Execute(u) \/ Drop(u) PROVE tx'[t] = tx[t]
      BY <3>1, <2>3 DEF Execute, Drop, Ready, Become, TypeOK
    <3>2. PICK x \in Ref : Send(x) BY <1>1, <2>3, <3>1, <1>b DEF Frames
    <3>3. PICK u \in TxId : Sent(x, u) BY <1>1, <2>3, <3>2, SendSends
    <3>4. /\ tx'[t].ref = x /\ tx'[t].state = "mempool"
          /\ x \in Request => tx'[t].outs = locked[x]
      BY <1>1, <2>3, <3>3 DEF Sent, TypeOK
    <3>5. x \in Request => locked[x] # {}
      BY <3>2, SendSends DEF VaultInv, Inside
    <3> QED BY <3>4, <3>5, <1>l
  <2> QED BY <2>1, <2>2, <2>3
<1>2. ASSUME NEW r \in Request PROVE prepared'[r] \in {{}, locked'[r]}
  <2>1. CASE UNCHANGED prepared BY <2>1, <1>l DEF ChainInv
  <2>2. ASSUME NEW t \in TxId, Execute(t) PROVE prepared'[r] \in {{}, locked'[r]}
    <3>1. tx[t].ref = r => tx[t].outs = locked[r] BY <2>2, ExecuteSettles DEF ChainInv
    <3> QED BY <2>2, <3>1, ExecuteSettles DEF ChainInv, TypeOK
  <2> QED BY <2>1, <2>2, <1>b DEF Frames
<1> QED BY <1>1, <1>2 DEF ChainInv, Settled

-----------------------------------------------------------------------------
LEMMA EthStep == EthInv /\ [Next]_vars => EthInv'
BY EthTypeStep, RoundStep, NonceStep, RowStep, AskedStep, VaultStep, ChainStep DEF EthInv

\* The invariant the other theorems follow from.
THEOREM EthInvariant == Spec => []EthInv
BY EthInit, EthStep, PTL DEF Spec

\* The tables, the transactions and the goroutines have their types; above all
\* there is always a nonce to answer with, whatever was dropped.
THEOREM EthTypeCorrect == Spec => []TypeOK
<1>1. EthInv => TypeOK BY DEF EthInv
<1> QED BY <1>1, EthInvariant, PTL

\* However many goroutines of a round send through one Etherman, no two
\* transactions the node has carry one nonce.
THEOREM EthNoncesDistinct == Spec => []NoncesDistinct
<1>1. EthInv => NoncesDistinct BY DEF EthInv
<1> QED BY <1>1, EthInvariant, PTL

\* When Loop is back at its select no goroutine is left behind, and no lock and
\* no mutex is held, on every path out of mint, prepareRedeem and the monitor.
THEOREM EthRoundsClosed == Spec => []RoundsClosed
<1>1. EthInv => RoundsClosed
  <2> SUFFICES ASSUME EthInv, loop = "select"
               PROVE  wg = {} /\ held = {} /\ mu = NONE /\ \A j \in Job : job[j] = "idle"
    BY DEF RoundsClosed
  <2>1. wg = {} BY DEF EthInv, RoundInv
  <2>2. \A j \in Job : job[j] = "idle" BY <2>1 DEF EthInv, RoundInv
  <2> QED BY <2>1, <2>2 DEF EthInv, RoundInv, TypeOK, Job, Inside
<1> QED BY <1>1, EthInvariant, PTL

\* Whatever UpdateMonitoredTxStatus wrote, a row that says success or reverted
\* says what the chain says.
THEOREM EthResultsTruthful == Spec => []ResultsTruthful
<1>1. EthInv => ResultsTruthful BY DEF EthInv
<1> QED BY <1>1, EthInvariant, PTL

-----------------------------------------------------------------------------
\* A step that settles nothing leaves the receipts of the promise alone.
LEMMA ReceiptsKept ==
  ASSUME TypeOK, \A t \in TxId :
           /\ (tx'[t] # NONE /\ tx'[t].state = "success") <=> (tx[t] # NONE /\ tx[t].state = "success")
           /\ tx[t] # NONE => tx'[t].ref = tx[t].ref
  PROVE  [x \in Ref |-> Receipts(x)]' = [x \in Ref |-> Receipts(x)]
<1>1. \A x \in Ref : Receipts(x)' = Receipts(x) BY DEF Receipts
<1> QED BY <1>1

\* Every step is one of the promise, or changes nothing it speaks of.
LEMMA EthPromiseStep == EthInv /\ [Next]_vars => [Promise!Next]_(Promise!promise)
<1> SUFFICES ASSUME EthInv, [Next]_vars PROVE [Promise!Next]_(Promise!promise)
  OBVIOUS
<1> USE DEF EthInv
<1> DEFINE receipt == [x \in Ref |-> Receipts(x)]
<1>b. Frames /\ ChainGrows BY FramesStep, ChainGrowsStep
<1>1. ASSUME NEW t \in TxId, Execute(t), tx'[t].state = "success"
      PROVE  Promise!Next
  <2> DEFINE ref == tx[t].ref
  <2>0. ref \in Ref /\ tx[t].outs \in SUBSET Outpoint BY <1>1, ExecuteSettles DEF Tx
  <2>1. Accepts(ref, tx[t].outs) /\ UNCHANGED <<deposits, asked>>
    BY <1>1, ExecuteSettles
  <2>2. ~Settled(ref) BY <2>0, <2>1 DEF Accepts, Settled, Ref
  <2>3. Receipts(ref) = {} BY <2>2 DEF Receipts, ChainInv
  <2>4. \A x \in Ref : Receipts(x)' = IF x = ref THEN {t} ELSE Receipts(x)
    <3> SUFFICES ASSUME NEW x \in Ref PROVE Receipts(x)' = IF x = ref THEN {t} ELSE Receipts(x)
      OBVIOUS
    <3>1. \A u \in TxId : u # t => tx'[u] = tx[u] BY <1>1, ExecuteSettles
    <3>2. tx[t].state # "success" /\ tx'[t] # NONE /\ tx'[t].ref = ref BY <1>1, ExecuteSettles
    <3> QED BY <1>1, <2>3, <3>1, <3>2 DEF Receipts
  <2>5. receipt[ref] = {} /\ receipt' = [receipt EXCEPT ![ref] = {t}]
    BY <2>0, <2>3, <2>4
  <2>6. ref \in deposits \cup asked BY <1>1, ExecuteSettles DEF AskedInv
  <2> HIDE DEF receipt
  <2>7. CASE ref \in BtcTx
    <3>1. ref \in deposits BY <2>6, <2>7, EthAssumption DEF TypeOK
    <3>2. ref \notin Request BY <2>7, EthAssumption
    <3>3. UNCHANGED prepared BY <1>1, <3>2, ExecuteSettles
    <3>4. Promise!Credit(ref, t)
      BY <2>1, <2>5, <3>1, <3>3 DEF Promise!Credit, Promise!Settle, receipt
    <3> QED BY <2>7, <3>4 DEF Promise!Next
  <2>8. CASE ref \in Request
    <3>1. ref \in asked BY <2>6, <2>8, EthAssumption DEF TypeOK
    <3>2. tx[t].outs = locked[ref] /\ tx[t].outs # {}
      BY <1>1, <2>8, ExecuteSettles DEF ChainInv
    <3>3. prepared' = [prepared EXCEPT ![ref] = tx[t].outs]
      BY <1>1, <2>8, ExecuteSettles
    <3>4. tx[t].outs \subseteq Promise!Available
      BY <2>0, <2>1, <2>8, <3>2 DEF Promise!Available, Accepts, VaultInv
    <3>5. Promise!Assign(ref, tx[t].outs, t)
      BY <2>1, <2>5, <3>1, <3>2, <3>3, <3>4 DEF Promise!Assign, Promise!Settle, receipt
    <3> QED BY <2>0, <2>8, <3>5 DEF Promise!Next
  <2> QED BY <2>0, <2>7, <2>8 DEF Ref
<1>2. ASSUME ~\E t \in TxId : Execute(t) /\ tx'[t].state = "success"
      PROVE  receipt' = receipt /\ UNCHANGED prepared
  <2>1. UNCHANGED prepared
    BY <1>2, <1>b, ExecuteSettles DEF Frames
  <2>2. ASSUME NEW u \in TxId
        PROVE  (tx'[u] # NONE /\ tx'[u].state = "success") <=> (tx[u] # NONE /\ tx[u].state = "success")
    <3>1. CASE UNCHANGED tx BY <3>1
    <3>2. ASSUME NEW t \in TxId, Execute(t) PROVE tx'[u] = tx[u] \/ (u = t /\ tx'[u].state = "reverted"
            /\ tx[u].state = "mempool")
      BY <1>2, <3>2, ExecuteSettles
    <3>3. ASSUME NEW t \in TxId, Drop(t) PROVE tx'[u] = tx[u] \/ (tx'[u].state = "dropped"
            /\ tx[u].state = "mempool")
      <4>1. tx[t] # NONE /\ tx[t].state = "mempool" /\ Become(t, "dropped") BY <3>3 DEF Drop
      <4> QED BY <4>1, BecomeGrows
    <3>4. ASSUME NEW x \in Ref, Send(x) PROVE tx'[u] = tx[u] \/ (tx'[u].state = "mempool"
            /\ tx[u] = NONE)
      BY <3>4, SendSends DEF Sent, TypeOK
    <3> QED BY <1>b, <3>1, <3>2, <3>3, <3>4 DEF Frames
  <2> QED BY <2>1, <2>2, <1>b, ReceiptsKept DEF ChainGrows
<1>3. CASE \E t \in TxId : Execute(t) /\ tx'[t].state = "success"
  BY <1>1, <1>3
<1>4. CASE ~\E t \in TxId : Execute(t) /\ tx'[t].state = "success"
  <2>1. receipt' = receipt /\ UNCHANGED prepared BY <1>2, <1>4
  <2> HIDE DEF receipt
  <2>2. ASSUME NEW b \in BtcTx, Deposit(b) PROVE Promise!Next
    <3>1. Promise!Observe(b) BY <2>1, <2>2 DEF Deposit, Promise!Observe, receipt
    <3> QED BY <3>1 DEF Promise!Next
  <2>3. ASSUME NEW r \in Request, RedeemRequest(r) PROVE Promise!Next
    <3>1. Promise!Ask(r) BY <2>1, <2>3 DEF RedeemRequest, Promise!Ask, receipt
    <3> QED BY <3>1 DEF Promise!Next
  <2>4. CASE UNCHANGED <<deposits, asked>>
    BY <2>1, <2>4 DEF Promise!promise, receipt
  <2>5. \/ UNCHANGED <<deposits, asked>>
        \/ \E b \in BtcTx : Deposit(b)
        \/ \E r \in Request : RedeemRequest(r)
    BY <1>b DEF Frames
  <2> QED BY <2>2, <2>3, <2>4, <2>5
<1> QED BY <1>3, <1>4

\* The manager of the Ethereum side, with its vault, its node and the contract,
\* implements BridgePromise for every set of deposits and requests, any number
\* of transactions and any faults: one receipt per deposit and per redeem, and
\* outpoints of observed deposits that no other redeem has.
THEOREM EthKeepsPromise == Spec => KeepsPromise
<1>1. Init => Promise!Init
  <2> SUFFICES ASSUME Init PROVE Promise!Init
    OBVIOUS
  <2>1. \A x : Receipts(x) = {} BY DEF Init, Receipts
  <2> QED BY <2>1 DEF Init, Promise!Init, Ref
<1> QED BY <1>1, EthPromiseStep, EthInvariant, PTL DEF Spec, KeepsPromise, Promise!Spec
=============================================================================
