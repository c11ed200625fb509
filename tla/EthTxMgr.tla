------------------------------ MODULE EthTxMgr ------------------------------
(***************************************************************************)
(* The Ethereum tx manager, package ethtxmanager, with its database, the   *)
(* Ethereum client it sends with (package etherman) and its signer.  One   *)
(* loop selects over three tickers and an error channel.  A tick starts a  *)
(* round: one goroutine per pending transaction, redeem or deposit, and a  *)
(* WaitGroup the loop waits on.  The goroutines of a round run             *)
(* concurrently with each other, with the chain and with the state.        *)
(*                                                                         *)
(* The vault is reduced to its promise, as in ChainTxMgr.  The contract    *)
(* accepts one mint per deposit and one prepare per request and outpoint;  *)
(* its Solidity source is not in the repository.  A block number is kept   *)
(* as the number of blocks since, which is all the manager computes.       *)
(***************************************************************************)
EXTENDS Naturals, FiniteSets

CONSTANTS
  BtcTx,       \* deposits
  Request,     \* redeem requests
  Outpoint,    \* outputs of deposits
  TxOf,        \* [Outpoint -> BtcTx]
  Timeout,     \* TimeoutOnMonitoringPendingTxs, in blocks
  MaxTx,       \* bound: number of transactions sent
  MaxFaults,   \* bound: number of faults
  Faults,      \* which of "rpc", "db", "sign", "late", "drop", "slow" and
               \* "crash" may happen
  NONE

TxId == 1..MaxTx
Ref == BtcTx \cup Request     \* RefIdentifier
Job == Ref \cup TxId          \* what a goroutine works on
Age == 0..(Timeout + 1)       \* blocks passed, any number beyond Timeout as one

ASSUME EthAssumption ==
  /\ TxOf \in [Outpoint -> BtcTx]
  /\ Timeout \in Nat /\ MaxTx \in Nat /\ MaxFaults \in Nat
  /\ BtcTx \cap Request = {}
  /\ Ref \cap TxId = {}
  /\ NONE \notin Job

\* A transaction the node has taken.  nonce: its place among those of the bridge.
Tx == [ref: Ref, outs: SUBSET Outpoint, nonce: 0..MaxTx,
       state: {"mempool", "success", "reverted", "dropped"}]

\* A row of MonitoredTx.  age: blocks since SentAfter.
Row == [ref: Ref, age: Age, status: {"pending", "timeout", "success", "reverted"}]

ASSUME NoneEthAssumption == NONE \notin Tx \cup Row

\* Where a goroutine is; "fail": it is about to send its error on errCh.
Place == {"idle", "start", "outs", "sign", "nonce", "send", "insert",
          "receipt", "fail"}

VARIABLES
  deposits, mintDone,   \* table mint: its keys, and those with a mintTxHash
  asked, requested,     \* redeems on the chain, and in the state as requested
  tx,                   \* the chain's transactions
  minted, prepared,     \* the contract: deposits minted, outpoints of redeems
  rows,                 \* MonitoredTx
  locked,               \* the vault: the outpoints given to a redeem
  loop,                 \* the round of Loop, or its end
  wg,                   \* the WaitGroup: jobs that have not called Done
  err,                  \* errCh, of capacity 1, holds an error
  held,                 \* redeemLock and mintLock
  job,                  \* the goroutines
  hdr,                  \* blocks since the header a goroutine has read
  mu, nonce,            \* Etherman.mu, and auth.Nonce
  out,                  \* the transaction a goroutine has sent
  faults                \* bound: faults so far

tables == <<deposits, mintDone, asked, requested>>
chain  == <<tx, minted, prepared>>
group  == <<loop, wg, err, held>>
sender == <<hdr, mu, nonce, out>>
vars   == <<tables, chain, rows, locked, group, job, sender, faults>>

TypeOK ==
  /\ deposits \subseteq BtcTx /\ mintDone \subseteq BtcTx
  /\ asked \subseteq Request /\ requested \subseteq Request
  /\ tx \in [TxId -> Tx \cup {NONE}]
  /\ minted \subseteq BtcTx /\ prepared \in [Request -> SUBSET Outpoint]
  /\ rows \in [TxId -> Row \cup {NONE}]
  /\ locked \in [Request -> SUBSET Outpoint]
  /\ loop \in {"select", "monitor", "prepare", "mint", "blocked", "ended"}
  /\ wg \subseteq Job /\ held \subseteq Ref
  /\ err \in BOOLEAN
  /\ job \in [Job -> Place]
  /\ hdr \in [Ref -> Age]
  /\ mu \in Ref \cup {NONE} /\ nonce \in 0..MaxTx
  /\ out \in [Ref -> TxId \cup {NONE}]
  /\ faults \in 0..MaxFaults

\* The variables of the process when it has ended, or starts again.
Stopped(place) ==
  /\ loop' = place /\ wg' = {} /\ err' = FALSE /\ held' = {}
  /\ job' = [j \in Job |-> "idle"]
  /\ hdr' = [x \in Ref |-> 0] /\ mu' = NONE /\ nonce' = 0
  /\ out' = [x \in Ref |-> NONE]

Init ==
  /\ deposits = {} /\ mintDone = {} /\ asked = {} /\ requested = {}
  /\ tx = [t \in TxId |-> NONE]
  /\ minted = {} /\ prepared = [r \in Request |-> {}]
  /\ rows = [t \in TxId |-> NONE]
  /\ locked = [r \in Request |-> {}]
  /\ loop = "select" /\ wg = {} /\ err = FALSE /\ held = {}
  /\ job = [j \in Job |-> "idle"]
  /\ hdr = [x \in Ref |-> 0] /\ mu = NONE /\ nonce = 0
  /\ out = [x \in Ref |-> NONE]
  /\ faults = 0

\* One of the faults f happens in this step.
Fault(f) == f \in Faults /\ faults < MaxFaults /\ faults' = faults + 1

-----------------------------------------------------------------------------
(* Around the manager                                                       *)

\* The mint observer stores a deposit.
Deposit(b) ==
  /\ b \notin deposits
  /\ deposits' = deposits \cup {b}
  /\ UNCHANGED <<mintDone, asked, requested, chain, rows, locked, group, job, sender, faults>>

\* A user approves the amount, calls redeemRequest and waits for the receipt.
RedeemRequest(r) ==
  /\ r \notin asked
  /\ asked' = asked \cup {r}
  /\ UNCHANGED <<deposits, mintDone, requested, chain, rows, locked, group, job, sender, faults>>

\* The synchronizer has delivered a minted, a requested or a prepared event.
Synced ==
  /\ \/ \E b \in minted \cap deposits :
          mintDone' = mintDone \cup {b} /\ UNCHANGED requested
     \/ \E r \in asked :
          /\ requested' = IF prepared[r] = {} THEN requested \cup {r} ELSE requested \ {r}
          /\ UNCHANGED mintDone
  /\ UNCHANGED <<deposits, asked, chain, rows, locked, group, job, sender, faults>>

\* The contract takes the call now.
Accepts(ref, outs) ==
  /\ ref \in BtcTx => ref \notin minted
  /\ ref \in Request => /\ prepared[ref] = {}
                        /\ \A r \in Request : outs \cap prepared[r] = {}

Alive(t) == tx[t] # NONE /\ tx[t].state # "dropped"

\* A transaction runs when those with lower nonces have run.
Ready(t) ==
  /\ tx[t] # NONE /\ tx[t].state = "mempool"
  /\ \A n \in 0..MaxTx : n < tx[t].nonce =>
       \E s \in TxId : /\ Alive(s) /\ tx[s].nonce = n /\ tx[s].state # "mempool"

Become(t, s) ==
  tx' = [tx EXCEPT ![t] = [ref |-> tx[t].ref, outs |-> tx[t].outs,
                           nonce |-> tx[t].nonce, state |-> s]]

Execute(t) ==
  /\ Ready(t)
  /\ LET ref == tx[t].ref
     IN \/ /\ Accepts(ref, tx[t].outs)
           /\ Become(t, "success")
           /\ minted' = IF ref \in BtcTx THEN minted \cup {ref} ELSE minted
           /\ prepared' = IF ref \in Request THEN [prepared EXCEPT ![ref] = tx[t].outs]
                                             ELSE prepared
        \/ /\ ~Accepts(ref, tx[t].outs)
           /\ Become(t, "reverted")
           /\ UNCHANGED <<minted, prepared>>
  /\ UNCHANGED <<tables, rows, locked, group, job, sender, faults>>

\* The node forgets a transaction that was not executed.
Drop(t) ==
  /\ Fault("drop")
  /\ tx[t] # NONE /\ tx[t].state = "mempool"
  /\ Become(t, "dropped")
  /\ UNCHANGED <<tables, minted, prepared, rows, locked, group, job, sender>>

Older(a) == IF a > Timeout THEN a ELSE a + 1

\* A block ends.  One that leaves executable transactions out is a fault.
NewBlock ==
  /\ \/ (\A t \in TxId : ~Ready(t)) /\ UNCHANGED faults
     \/ (\E t \in TxId : Ready(t)) /\ Fault("slow")
  /\ rows' = [t \in TxId |->
       IF rows[t] # NONE /\ rows[t].status = "pending"
       THEN [ref |-> rows[t].ref, age |-> Older(rows[t].age), status |-> rows[t].status]
       ELSE rows[t]]
  /\ hdr' = [x \in Ref |-> IF job[x] \in {"nonce", "send", "insert"} THEN Older(hdr[x])
                                                                     ELSE 0]
  /\ UNCHANGED <<tables, chain, locked, group, job, mu, nonce, out>>

-----------------------------------------------------------------------------
(* Loop                                                                     *)

\* case err := <-errCh: Loop returns, or logger.Fatal ends the process.
ReceiveErr ==
  /\ loop = "select" /\ err
  /\ loop' = "ended" /\ err' = FALSE
  /\ UNCHANGED <<tables, chain, rows, locked, wg, held, job, sender, faults>>

\* The loop itself sends an error; it is the only receiver of errCh.
LoopSends(next) ==
  /\ err' = TRUE
  /\ loop' = IF err THEN "blocked" ELSE next

\* A round over S: a goroutine for each, but for those whose lock is held, which
\* are counted by the WaitGroup all the same.
Launch(S, round, place) ==
  /\ loop' = IF S = {} THEN "select" ELSE round
  /\ wg' = S
  /\ job' = [j \in Job |-> IF j \in S \ held THEN place ELSE job[j]]
  /\ UNCHANGED <<held, sender, tables, chain, rows, locked>>

\* The query of a tick fails: the error is sent, and the round is empty.
QueryError ==
  /\ loop = "select" /\ Fault("db")
  /\ LoopSends("select")
  /\ UNCHANGED <<tables, chain, rows, locked, wg, held, job, sender>>

StartMonitor ==
  /\ loop = "select"
  /\ LET S == {t \in TxId : rows[t] # NONE /\ rows[t].status = "pending"}
     IN S # {} /\ Launch(S, "monitor", "receipt")
  /\ UNCHANGED <<err, faults>>

\* GetMonitoredTxsById: no transaction was sent for x, or all have timed out.
Unsent(x) == \A t \in TxId : rows[t] # NONE /\ rows[t].ref = x => rows[t].status = "timeout"

\* The candidates of a round.  A lookup that fails sends an error and counts as
\* one that found nothing.
StartRound(S, round) ==
  /\ loop = "select"
  /\ LET fresh == {x \in S : Unsent(x)}
     IN \/ /\ fresh # {} /\ Launch(fresh, round, "start")
           /\ UNCHANGED <<err, faults>>
        \/ \E x \in S \ fresh :
             /\ Fault("db")
             /\ err' = TRUE
             /\ IF err THEN loop' = "blocked"
                            /\ UNCHANGED <<wg, job, held, sender, tables, chain, rows, locked>>
                       ELSE Launch(fresh \cup {x}, round, "start")

StartPrepare == StartRound(requested, "prepare")

StartMint == StartRound(deposits \ mintDone, "mint")

\* wg.Wait() returns.
EndRound ==
  /\ loop \in {"monitor", "prepare", "mint"} /\ wg = {}
  /\ loop' = "select"
  /\ UNCHANGED <<tables, chain, rows, locked, wg, err, held, job, sender, faults>>

-----------------------------------------------------------------------------
(* The goroutines                                                           *)

\* The function returns; what it deferred is run.
MutantUnlock(j) == IF job[j] = "insert" THEN held \ {j} ELSE held  \* mutant: not on errors

Unlock(j) == held \ {j}

Done(j) ==
  /\ job' = [job EXCEPT ![j] = "idle"]
  /\ wg' = wg \ {j}
  /\ held' = Unlock(j)

\* An error of prepareRedeem is logged; one of mint or of a monitor is sent.
Return(j) ==
  IF j \in Request THEN Done(j)
  ELSE job' = [job EXCEPT ![j] = "fail"] /\ held' = Unlock(j) /\ UNCHANGED wg

\* errCh <- err, then wg.Done().
SendErr(j) ==
  /\ job[j] = "fail" /\ ~err
  /\ err' = TRUE
  /\ job' = [job EXCEPT ![j] = "idle"]
  /\ wg' = wg \ {j}
  /\ UNCHANGED <<tables, chain, rows, locked, loop, held, sender, faults>>

Goto(j, place) == job' = [job EXCEPT ![j] = place] /\ UNCHANGED <<wg, held>>

\* IsMinted, IsPrepared
Settled(x) == IF x \in BtcTx THEN x \in minted ELSE prepared[x] # {}

\* The lock is taken and the contract asked.
Begin(x) ==
  /\ job[x] = "start"
  /\ \/ Settled(x) /\ Done(x) /\ UNCHANGED faults
     \/ /\ ~Settled(x) /\ UNCHANGED <<wg, faults>>
        /\ held' = held \cup {x}
        /\ job' = [job EXCEPT ![x] = IF x \in Request THEN "outs" ELSE "sign"]
     \/ Fault("rpc") /\ Return(x)
  /\ UNCHANGED <<tables, chain, rows, locked, loop, err, sender>>

\* The vault's UTXOs that no redeem holds.
Free == {o \in Outpoint : TxOf[o] \in deposits /\ \A r \in Request : o \notin locked[r]}

MutantRequest(r) ==   \* mutant: locked outpoints are given out again
  /\ job[r] = "outs" /\ Outpoint # {}
  /\ locked' = [locked EXCEPT ![r] = {CHOOSE o \in Outpoint : TRUE}] /\ Goto(r, "sign")
  /\ UNCHANGED <<tables, chain, rows, loop, err, sender, faults>>

\* btcUTXOResponder.Request, and waitforOutpoints: the vault answers at once, or
\* refuses: nothing free, or outpoints were locked for this redeem before.
RequestOutpoints(r) ==
  /\ job[r] = "outs"
  /\ \/ /\ locked[r] = {}
        /\ \E outs \in (SUBSET Free) \ {{}} : locked' = [locked EXCEPT ![r] = outs]
        /\ Goto(r, "sign")
     \/ /\ locked[r] # {} \/ Free = {}
        /\ Done(r) /\ UNCHANGED locked
  /\ UNCHANGED <<tables, chain, rows, loop, err, sender, faults>>

\* SignAsync and waitForSignature, and then the latest header: a signature that
\* verifies, or an error of the signer, of the verification or of the node.
Sign(x) ==
  /\ job[x] = "sign"
  /\ \/ Goto(x, "nonce") /\ UNCHANGED faults
     \/ (Fault("sign") \/ Fault("rpc")) /\ Return(x)
  /\ hdr' = [hdr EXCEPT ![x] = 0]
  /\ UNCHANGED <<tables, chain, rows, locked, loop, err, mu, nonce, out>>

\* A signer that answers too late: waitForSignature returns neither a signature
\* nor an error, and the caller dereferences nil.  A remote signer that cannot
\* be reached: log.Fatalf.  The process ends either way.
SignerKills(x) ==
  /\ job[x] = "sign" /\ Fault("late")
  /\ Stopped("ended")
  /\ UNCHANGED <<tables, chain, rows, locked>>

\* PendingNonceAt: the first nonce no living transaction has.
PendingNonce ==
  CHOOSE n \in 0..MaxTx :
    /\ \A t \in TxId : Alive(t) => tx[t].nonce # n
    /\ \A k \in 0..MaxTx : k < n => \E t \in TxId : Alive(t) /\ tx[t].nonce = k

MutantMuFree == TRUE   \* mutant: the mutex is not taken

MuFree == mu = NONE

\* Etherman.Mint, Etherman.RedeemPrepare: mu is taken and the nonce is read.
GetAuthNonce(x) ==
  /\ job[x] = "nonce" /\ MuFree
  /\ \/ mu' = x /\ nonce' = PendingNonce /\ Goto(x, "send") /\ UNCHANGED faults
     \/ Fault("rpc") /\ Return(x) /\ UNCHANGED <<mu, nonce>>
  /\ UNCHANGED <<tables, chain, rows, locked, loop, err, hdr, out>>

\* ... and the transaction is signed with the nonce and sent, unless the
\* contract would refuse it, which the gas estimate shows.  The answer may be
\* lost.  mu is released.
Send(x) ==
  /\ job[x] = "send"
  /\ mu' = NONE /\ nonce' = 0
  /\ LET outs == IF x \in Request THEN locked[x] ELSE {}
         submitted(t) ==
           /\ Accepts(x, outs)
           /\ tx[t] = NONE /\ \A s \in TxId : s < t => tx[s] # NONE
           /\ tx' = [tx EXCEPT ![t] = [ref |-> x, outs |-> outs, nonce |-> nonce,
                                       state |-> "mempool"]]
     IN \/ \E t \in TxId : /\ submitted(t)
                           /\ \/ /\ Goto(x, "insert") /\ out' = [out EXCEPT ![x] = t]
                                 /\ UNCHANGED faults
                              \/ Fault("rpc") /\ Return(x) /\ UNCHANGED out
        \/ /\ ~Accepts(x, outs)
           /\ Return(x) /\ UNCHANGED <<tx, out, faults>>
        \/ /\ Fault("rpc")
           /\ Return(x) /\ UNCHANGED <<tx, out>>
  /\ UNCHANGED <<tables, minted, prepared, rows, locked, loop, err, hdr>>

\* InsertPendingMonitoredTx
Insert(x) ==
  /\ job[x] = "insert"
  /\ out' = [out EXCEPT ![x] = NONE]
  /\ \/ /\ rows' = [rows EXCEPT ![out[x]] = [ref |-> x, age |-> hdr[x], status |-> "pending"]]
        /\ Done(x) /\ UNCHANGED faults
     \/ Fault("db") /\ Return(x) /\ UNCHANGED rows
  /\ hdr' = [hdr EXCEPT ![x] = 0]
  /\ UNCHANGED <<tables, chain, locked, loop, err, mu, nonce>>

-----------------------------------------------------------------------------
(* monitorPendingTxs                                                        *)

MutantResult(t) ==    \* mutant: the status of the receipt is not looked at
  IF tx[t].state \in {"success", "reverted"} THEN "success" ELSE "pending"

MutantStored(t) == tx[t].state   \* mutant: what the node says of the transaction is stored

\* TransactionReceipt
Result(t) == IF tx[t].state \in {"success", "reverted"} THEN tx[t].state ELSE "pending"

\* UpdateMonitoredTxStatus.  Only the age of a pending row is ever read.
Mark(t, status) ==
  rows' = [rows EXCEPT ![t] = [ref |-> rows[t].ref, status |-> status,
                               age |-> IF status = "pending" THEN rows[t].age ELSE 0]]

\* The status of a mined transaction is stored.  Then, mined or not, a
\* transaction sent more than Timeout blocks ago becomes one that has timed out.
\* When the header of SentAfter is not found the block number is used, which
\* the table does not have: the chain's whole height counts.
Monitor(t) ==
  /\ job[t] = "receipt"
  /\ \/ /\ Mark(t, IF rows[t].age > Timeout THEN "timeout" ELSE Result(t))
        /\ Done(t) /\ UNCHANGED faults
     \/ /\ Fault("rpc")
        /\ Mark(t, "timeout") /\ Done(t)
     \/ /\ Fault("rpc") \/ Fault("db")
        /\ UNCHANGED rows \/ Mark(t, Result(t))
        /\ Return(t)
  /\ UNCHANGED <<tables, chain, locked, loop, err, sender>>

-----------------------------------------------------------------------------
\* The process is started again, after Loop has ended or after a crash.
Restart ==
  /\ (loop = "ended" /\ UNCHANGED faults) \/ Fault("crash")
  /\ Stopped("select")
  /\ UNCHANGED <<tables, chain, rows, locked>>

createTx(x) == GetAuthNonce(x) \/ Send(x) \/ Insert(x)

mintDeposit(b) == Begin(b) \/ Sign(b) \/ SignerKills(b) \/ createTx(b)

prepareRedeem(r) ==
  Begin(r) \/ RequestOutpoints(r) \/ Sign(r) \/ SignerKills(r) \/ createTx(r)

Goroutine(j) ==
  \/ SendErr(j)
  \/ j \in BtcTx /\ mintDeposit(j)
  \/ j \in Request /\ prepareRedeem(j)
  \/ j \in TxId /\ Monitor(j)

LoopStep ==
  ReceiveErr \/ StartMonitor \/ StartPrepare \/ StartMint \/ EndRound

Next ==
  \/ \E b \in BtcTx : Deposit(b)
  \/ \E r \in Request : RedeemRequest(r)
  \/ Synced
  \/ \E t \in TxId : Execute(t) \/ Drop(t)
  \/ NewBlock
  \/ LoopStep \/ QueryError
  \/ \E j \in Job : Goroutine(j)
  \/ Restart

Spec == Init /\ [][Next]_vars

-----------------------------------------------------------------------------
(* Properties                                                               *)

\* Two transactions the node has never carry one nonce, although the goroutines
\* of a round send concurrently and transactions disappear: otherwise one would
\* replace the other.
NoncesDistinct ==
  \A s, t \in TxId : s # t /\ Alive(s) /\ Alive(t) => tx[s].nonce # tx[t].nonce

\* At the select no goroutine is left and no lock is held: a round never waits
\* for a job it has skipped because of its lock.
RoundsClosed ==
  loop = "select" => wg = {} /\ held = {} /\ mu = NONE /\ \A j \in Job : job[j] = "idle"

\* The database never shows a result the chain does not.
ResultsTruthful ==
  \A t \in TxId : rows[t] # NONE /\ rows[t].status \in {"success", "reverted"} =>
    tx[t] # NONE /\ tx[t].state = rows[t].status

\* The transactions that settled x.
Receipts(x) == {t \in TxId : tx[t] # NONE /\ tx[t].state = "success" /\ tx[t].ref = x}

Promise == INSTANCE BridgePromise WITH
  Receipt <- TxId, requested <- asked, assigned <- prepared,
  receipt <- [x \in Ref |-> Receipts(x)]

\* Resent, dropped, late, refused and forgotten transactions taken together: a
\* deposit is minted once, a redeem is prepared once, after it was requested,
\* with outpoints nobody else has.
KeepsPromise == Promise!Spec
=============================================================================
