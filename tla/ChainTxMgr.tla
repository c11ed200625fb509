----------------------------- MODULE ChainTxMgr -----------------------------
(***************************************************************************)
(* The chain tx manager, package chaintxmgr, with its Aptos worker, its    *)
(* database and the contract it calls.  One goroutine repeats              *)
(*   procedureMint ; procedurePrepare ; procedureMarkTxStatus              *)
(* Each call of the worker, of the vault and of the database is a step;    *)
(* the chain, the users and the tables of the state move in between, and   *)
(* the process may stop anywhere.  The vault is reduced to its promise (of *)
(* module Vault): a request is given outpoints once, nobody else's.        *)
(***************************************************************************)
EXTENDS BridgeContract

CONSTANTS
  Hardcoded,       \* the address AptosSyncWorker.DoMint always uses
  PrepareBy,       \* the worker type whose IsPrepared and DoPrepare run; the
                   \* server has AptosSyncWorker, which runs everything else here
  TimeoutLedgers,  \* TimeoutTxLedgerNumber
  MaxTx,           \* bound: number of transactions submitted
  Faults           \* which of "rpc", "db", "drop", "crash" may happen

TxId == 1..MaxTx
Ref  == BtcTx \cup Request    \* RefIdentifier

ASSUME MgrAssumption ==
  /\ Hardcoded \in Account
  /\ PrepareBy \in {"AptosSyncWorker", "AptosMgrWorker"}
  /\ TimeoutLedgers \in Nat /\ MaxTx \in Nat
  /\ BtcTx \cap Request = {}
  /\ NONE \notin Ref

\* A submitted transaction: its arguments and what became of it.
Tx == [ref: Ref, to: Account \cup {NONE}, outs: SUBSET Outpoint,
       state: {"mempool", "success", "reverted", "dropped"}, version: Nat]

\* A row of chain_tx_mgr_db; found = 0 stands for "not found yet".
Row == [ref: Ref, sent: Nat, found: Nat,
        status: {"pending", "limbo", "success", "reverted", "timeout"}]

ASSUME NoneMgrAssumption == NONE \notin Tx \cup Row

VARIABLES
  deposits, mintDone,     \* table mint: its keys, and those with a mintTxHash
  redeems,                \* table redeem: the requests in status requested
  tx, ledger,             \* the chain: transactions by id, ledger number
  db,                     \* chain_tx_mgr_db
  locked,                 \* the vault: the outpoints given to a request
  pc, todo, cur, sent     \* the loop: place, items left, current tx and ledger

stateTables == <<deposits, mintDone, redeems>>
loop == <<pc, todo, cur, sent>>
vars == <<contract, stateTables, tx, ledger, db, locked, loop>>

TypeOK ==
  /\ ContractTypeOK
  /\ mintDone \subseteq BtcTx /\ deposits \subseteq BtcTx
  /\ redeems \subseteq Request
  /\ tx \in [TxId -> Tx \cup {NONE}]
  /\ ledger \in Nat
  /\ db \in [TxId -> Row \cup {NONE}]
  /\ locked \in [Request -> SUBSET Outpoint]
  /\ pc \in {"idle", "mint", "prepare", "call", "wait", "record", "mark", "found"}
  /\ todo \subseteq Ref \cup TxId
  /\ cur \in Ref \cup TxId \cup {NONE}
  /\ pc \in {"wait", "record", "found"} => cur \in TxId
  /\ pc = "call" => cur \in Request
  /\ sent \in Nat

Init ==
  /\ ContractInit
  /\ deposits = {} /\ mintDone = {} /\ redeems = {}
  /\ tx = [t \in TxId |-> NONE]
  /\ ledger = 1
  /\ db = [t \in TxId |-> NONE]
  /\ locked = [r \in Request |-> {}]
  /\ pc = "idle" /\ todo = {} /\ cur = NONE /\ sent = 0

-----------------------------------------------------------------------------
(* Around the manager                                                       *)

\* The mint observer stores a deposit.
Deposit(b) ==
  /\ Deposited[b] > 0
  /\ b \notin deposits
  /\ deposits' = deposits \cup {b}
  /\ UNCHANGED <<contract, mintDone, redeems, tx, ledger, db, locked, loop>>

\* The monitor scans the block again, as it does many times: the second
\* notification stores an all-zero mintTxHash, and the deposit counts as minted.
\* (UNIQUE would refuse this to a second deposit; here it may meet several.)
Rescan(b) ==
  /\ b \in deposits
  /\ mintDone' = mintDone \cup {b}
  /\ UNCHANGED <<contract, deposits, redeems, tx, ledger, db, locked, loop>>

\* The state has applied a minted or a requested event.  A prepared event does
\* not take a request out of the requested ones: getRedeemPreparedEvents swaps
\* its two hashes, so that it is stored under another key.
StateSynced ==
  /\ \/ \E b \in minted \cap deposits : mintDone' = mintDone \cup {b} /\ UNCHANGED redeems
     \/ \E r \in Request : /\ requests[r] # NONE
                           /\ redeems' = redeems \cup {r}
                           /\ UNCHANGED mintDone
  /\ UNCHANGED <<contract, deposits, tx, ledger, db, locked, loop>>

\* A user gets a CoinStore, ...
RegisterTWBTC ==
  /\ \E user \in Account : register(user)
  /\ UNCHANGED <<stateTables, tx, ledger, db, locked, loop>>

\* ... passes tokens on ...
UserTransfers ==
  /\ \E from, to \in Account, amount \in Transfers : transfer(from, to, amount)
  /\ UNCHANGED <<stateTables, tx, ledger, db, locked, loop>>

\* ... and asks for a redeem.
RedeemRequest ==
  /\ \E user \in Account, r \in Request, amount \in Amounts :
       redeem_request(user, r, amount)
  /\ UNCHANGED <<stateTables, tx, ledger, db, locked, loop>>

UserActs == RegisterTWBTC \/ UserTransfers \/ RedeemRequest

\* The chain takes a transaction from the mempool; an abort reverts it.
Execute(t) ==
  /\ tx[t] # NONE
  /\ tx[t].state = "mempool"
  /\ LET result(s) == [ref |-> tx[t].ref, to |-> tx[t].to, outs |-> tx[t].outs,
                        state |-> s, version |-> ledger + 1]
     IN \/ /\ tx[t].ref \in BtcTx
           /\ mint(tx[t].ref, tx[t].to)
           /\ tx' = [tx EXCEPT ![t] = result("success")]
        \/ /\ tx[t].ref \in Request
           /\ redeem_prepare(tx[t].ref, tx[t].outs)
           /\ tx' = [tx EXCEPT ![t] = result("success")]
        \/ /\ tx[t].ref \in BtcTx => ~CanMint(tx[t].ref, tx[t].to)
           /\ tx[t].ref \in Request => ~CanPrepare(tx[t].ref, tx[t].outs)
           /\ tx' = [tx EXCEPT ![t] = result("reverted")]
           /\ UNCHANGED contract
  /\ ledger' = ledger + 1
  /\ UNCHANGED <<stateTables, db, locked, loop>>

\* ... or drops it, when its sequence number or its expiry has passed.
Drop(t) ==
  /\ "drop" \in Faults
  /\ tx[t] # NONE
  /\ tx[t].state = "mempool"
  /\ tx' = [tx EXCEPT ![t] = [ref |-> tx[t].ref, to |-> tx[t].to, outs |-> tx[t].outs,
                              state |-> "dropped", version |-> 0]]
  /\ UNCHANGED <<contract, stateTables, ledger, db, locked, loop>>

\* SubmitTransaction
Submit(t, ref, to, outs) ==
  /\ tx[t] = NONE
  /\ \A s \in TxId : s < t => tx[s] # NONE
  /\ tx' = [tx EXCEPT ![t] = [ref |-> ref, to |-> to, outs |-> outs,
                              state |-> "mempool", version |-> 0]]

-----------------------------------------------------------------------------
(* procedureMint                                                            *)

MutantTracked(ref) == FALSE   \* mutant: the manager's records are not consulted

\* GetMonitoredTxByRefIdentifier finds a row, whatever its status.
Tracked(ref) == \E t \in TxId : db[t] # NONE /\ db[t].ref = ref

\* QueryMints and FilterMints
StartMint ==
  /\ pc = "idle"
  /\ pc' = "mint"
  /\ todo' = {b \in deposits \ mintDone : ~Tracked(b)}
  /\ UNCHANGED <<contract, stateTables, tx, ledger, db, locked, cur, sent>>

MutantIsMinted(b) == TRUE   \* mutant: the answer is inverted

\* The answer of IsMinted: it looks in UsedBtcTxIds, not in MintedTransactions,
\* and for raw bytes, not for the hex form the contract was given.
IsMinted(b) == FALSE

\* Goes on with the next item of the list that pc stands for.
NextItem(place, item) == pc' = place /\ todo' = todo \ {item} /\ cur' = NONE

\* IsDoubleMint found the mint, or a call returned an error before the mint was
\* submitted.
SkipMint(b) ==
  /\ pc = "mint" /\ b \in todo
  /\ IsMinted(b) \/ "rpc" \in Faults
  /\ NextItem("mint", b)
  /\ UNCHANGED <<contract, stateTables, tx, ledger, db, locked, sent>>

\* The receiver in the submitted call, whatever the deposit named.
MintTo(b) == Hardcoded

SubmitMint(b) ==
  /\ pc = "mint" /\ b \in todo
  /\ ~IsMinted(b)
  /\ \E t \in TxId : Submit(t, b, MintTo(b), {}) /\ cur' = t
  /\ pc' = "wait"
  /\ UNCHANGED <<contract, stateTables, ledger, db, locked, todo, sent>>

\* The loop continues with the list the current transaction came from.
Origin(t) == IF tx[t].ref \in BtcTx THEN "mint" ELSE "prepare"

\* WaitForTransaction saw the transaction executed, and the ledger number was
\* read.  Mint does not look at the result, RedeemPrepare does.
Returned ==
  /\ pc = "wait"
  /\ tx[cur].state = "success" \/ (tx[cur].state = "reverted" /\ tx[cur].ref \in BtcTx)
  /\ pc' = "record"
  /\ sent' = ledger
  /\ UNCHANGED <<contract, stateTables, tx, ledger, db, locked, todo, cur>>

\* The call returns an error although the transaction was submitted.
NotReturned ==
  /\ pc = "wait"
  /\ \/ tx[cur].state = "dropped"
     \/ tx[cur].state = "reverted" /\ tx[cur].ref \in Request
     \/ "rpc" \in Faults
  /\ NextItem(Origin(cur), tx[cur].ref)
  /\ UNCHANGED <<contract, stateTables, tx, ledger, db, locked, sent>>

InsertMonitoredTx(t) ==
  db' = [db EXCEPT ![t] = [ref |-> tx[t].ref, sent |-> sent, found |-> 0,
                           status |-> "pending"]]

\* SetMintToBeMonitored, SetPrepareToBeMonitored
Record ==
  /\ pc = "record"
  /\ InsertMonitoredTx(cur) \/ ("db" \in Faults /\ UNCHANGED db)
  /\ NextItem(Origin(cur), tx[cur].ref)
  /\ UNCHANGED <<contract, stateTables, tx, ledger, locked, sent>>

-----------------------------------------------------------------------------
(* procedurePrepare                                                         *)

\* QueryUnPrepared and FilterUnPrepared
StartPrepare ==
  /\ pc = "mint" /\ todo = {}
  /\ pc' = "prepare"
  /\ todo' = {r \in redeems : ~Tracked(r)}
  /\ UNCHANGED <<contract, stateTables, tx, ledger, db, locked, cur, sent>>

IsPrepared(r) == prepared[r] # {}

\* The vault's UTXOs that no request holds.
Free == {o \in Outpoint : TxOf[o] \in deposits /\ \A r \in Request : o \notin locked[r]}

\* IsDoublePrepare found the redeem, the worker failed, or the vault refused:
\* nothing free, or the request was given outpoints before.
SkipPrepare(r) ==
  /\ pc = "prepare" /\ r \in todo
  /\ IsPrepared(r) \/ "rpc" \in Faults \/ locked[r] # {} \/ Free = {}
  /\ NextItem("prepare", r)
  /\ UNCHANGED <<contract, stateTables, tx, ledger, db, locked, sent>>

\* PreparePrepare: the vault locks outpoints for the redeem.
LockOutpoints(r) ==
  /\ pc = "prepare" /\ r \in todo
  /\ ~IsPrepared(r) /\ locked[r] = {}
  /\ \E outs \in (SUBSET Free) \ {{}} : locked' = [locked EXCEPT ![r] = outs]
  /\ pc' = "call" /\ cur' = r
  /\ UNCHANGED <<contract, stateTables, tx, ledger, db, todo, sent>>

\* Mutant: the outpoints of the call are read from the vault's whole stock.
MutantSubmitPrepare ==
  /\ pc = "call" /\ PrepareBy = "AptosMgrWorker"
  /\ \E t \in TxId : Submit(t, cur, NONE, {o \in Outpoint : TxOf[o] \in deposits})
                     /\ cur' = t
  /\ pc' = "wait"
  /\ UNCHANGED <<contract, stateTables, ledger, db, locked, todo, sent>>

\* CallPrepare with AptosMgrWorker
SubmitPrepare ==
  /\ pc = "call" /\ PrepareBy = "AptosMgrWorker"
  /\ \E t \in TxId : Submit(t, cur, NONE, locked[cur]) /\ cur' = t
  /\ pc' = "wait"
  /\ UNCHANGED <<contract, stateTables, ledger, db, locked, todo, sent>>

\* AptosSyncWorker.DoPrepare leaves out the requester and the outpoints, so that
\* RedeemPrepare cannot parse the requester's address.
RequesterMissing == PrepareBy = "AptosSyncWorker"

\* CallPrepare fails: SignAsync or the node returned an error, or DoPrepare did.
\* The outpoints stay locked.
CallPrepareError ==
  /\ pc = "call"
  /\ RequesterMissing \/ "rpc" \in Faults
  /\ NextItem("prepare", cur)
  /\ UNCHANGED <<contract, stateTables, tx, ledger, db, locked, sent>>

-----------------------------------------------------------------------------
(* procedureMarkTxStatus                                                    *)

MutantPolled == {"limbo", "pending", "timeout"}   \* mutant: timeouts polled again

MutantPolledLimbo == {"limbo"}   \* mutant: rows just added are not polled

Polled == {"limbo", "pending"}

StartMark ==
  /\ pc = "prepare" /\ todo = {}
  /\ pc' = "mark"
  /\ todo' = {t \in TxId : db[t] # NONE /\ db[t].status \in Polled}
  /\ UNCHANGED <<contract, stateTables, tx, ledger, db, locked, cur, sent>>

\* Mutant: the Success flag of the transaction is not looked at.
MutantAnswers(t) == {IF tx[t].state = "reverted" THEN "success" ELSE tx[t].state}

\* What GetTxStatus may answer: a node that does not show the transaction
\* within the polling time makes it "timeout" or "limbo".
Answers(t) ==
  (IF tx[t].state \in {"success", "reverted"} THEN {tx[t].state} ELSE {"timeout", "limbo"})
    \cup (IF "rpc" \in Faults THEN {"timeout", "limbo"} ELSE {})

\* The status is stored, and then replaced by "timeout" when too many ledgers
\* have passed since the transaction was sent, unless the second step fails.
StatusStored(t, answer) ==
  IF answer = "limbo" /\ db[t].sent + TimeoutLedgers <= ledger
  THEN {"timeout"} \cup (IF Faults \subseteq {"drop"} THEN {} ELSE {"limbo"})
  ELSE {answer}

UpdateTxStatus(t, status) ==
  db' = [db EXCEPT ![t] = [ref |-> db[t].ref, sent |-> db[t].sent,
                           found |-> db[t].found, status |-> status]]

MarkStatus(t) ==
  /\ pc = "mark" /\ t \in todo
  /\ \E answer \in Answers(t) : \E status \in StatusStored(t, answer) :
       /\ UpdateTxStatus(t, status)
       /\ IF answer \in {"success", "reverted"}
          THEN pc' = "found" /\ cur' = t /\ UNCHANGED todo
          ELSE NextItem("mark", t)
  /\ UNCHANGED <<contract, stateTables, tx, ledger, locked, sent>>

\* GetTxStatus or an UPDATE returned an error.
MarkError(t) ==
  /\ Faults \cap {"rpc", "db"} # {}
  /\ t \in todo
  /\ pc = "mark" \/ (pc = "found" /\ t = cur)
  /\ NextItem("mark", t)
  /\ UNCHANGED <<contract, stateTables, tx, ledger, db, locked, sent>>

\* UpdateFound
UpdateFound ==
  /\ pc = "found"
  /\ db' = [db EXCEPT ![cur] = [ref |-> db[cur].ref, sent |-> db[cur].sent,
                                found |-> tx[cur].version, status |-> db[cur].status]]
  /\ NextItem("mark", cur)
  /\ UNCHANGED <<contract, stateTables, tx, ledger, locked, sent>>

EndMark ==
  /\ pc = "mark" /\ todo = {}
  /\ pc' = "idle"
  /\ UNCHANGED <<contract, stateTables, tx, ledger, db, locked, todo, cur, sent>>

Crash ==
  /\ "crash" \in Faults
  /\ pc # "idle"
  /\ pc' = "idle" /\ todo' = {} /\ cur' = NONE /\ sent' = 0
  /\ UNCHANGED <<contract, stateTables, tx, ledger, db, locked>>

-----------------------------------------------------------------------------
Environment ==
  \/ \E b \in BtcTx : Deposit(b) \/ Rescan(b)
  \/ StateSynced
  \/ UserActs
  \/ \E t \in TxId : Execute(t) \/ Drop(t)

procedureMint == StartMint \/ \E b \in BtcTx : SkipMint(b) \/ SubmitMint(b)

procedurePrepare ==
  \/ StartPrepare
  \/ \E r \in Request : SkipPrepare(r) \/ LockOutpoints(r)
  \/ SubmitPrepare
  \/ CallPrepareError

\* What follows a submission, in procedureMint and in procedurePrepare.
CallReturns == Returned \/ NotReturned \/ Record

procedureMarkTxStatus ==
  \/ StartMark
  \/ \E t \in TxId : MarkStatus(t) \/ MarkError(t)
  \/ UpdateFound

MgrStep ==
  procedureMint \/ procedurePrepare \/ CallReturns \/ procedureMarkTxStatus \/ EndMark

Next == Environment \/ MgrStep \/ Crash

Spec == Init /\ [][Next]_vars

\* The ticker keeps firing and every call returns; the chain executes what it
\* has accepted and the state applies what the chain reports.
FairSpec ==
  /\ Spec
  /\ WF_vars(MgrStep)
  /\ \A t \in TxId : WF_vars(Execute(t))
  /\ WF_vars(StateSynced)

-----------------------------------------------------------------------------
(* Properties                                                               *)

\* The statuses that do not settle a transaction.
Open == {"pending", "limbo"}

\* A deposit is minted by one transaction at most, although a mint whose call
\* failed late, or that was submitted just before a crash, is submitted again.
MintedOnce ==
  \A s, t \in TxId :
    /\ tx[s] # NONE /\ tx[t] # NONE
    /\ tx[s].state = "success" /\ tx[t].state = "success" /\ tx[s].ref = tx[t].ref
    => s = t

\* README: "filter out already-sent mints".  A deposit or a redeem has one
\* monitored transaction at most.
OneRowPerRef ==
  \A s, t \in TxId :
    db[s] # NONE /\ db[t] # NONE /\ db[s].ref = db[t].ref => s = t

\* The database never shows a result the chain does not: a success was a
\* success, a revert a revert, and the ledger number found is that of the
\* transaction.
StatusTruthful ==
  \A t \in TxId : db[t] # NONE =>
    /\ db[t].status \in {"success", "reverted"} => tx[t].state = db[t].status
    /\ db[t].found # 0 => db[t].found = tx[t].version

\* A status other than pending and limbo is final.
StatusFinal ==
  [][\A t \in TxId : db[t] # NONE =>
       /\ db'[t] # NONE
       /\ db[t].status \notin Open => db'[t].status = db[t].status]_vars

\* The outpoints a redeem is prepared with on the chain are the ones the vault
\* locked for this redeem, also after crashes and failed calls.
PreparedFromVault ==
  \A r \in Request : prepared[r] # {} => prepared[r] = locked[r]

\* The transactions that settled x.
Receipts(x) == {t \in TxId : tx[t] # NONE /\ tx[t].state = "success" /\ tx[t].ref = x}

Promise == INSTANCE BridgePromise WITH
  Receipt <- TxId,
  requested <- {r \in Request : requests[r] # NONE},
  assigned <- prepared,
  receipt <- [x \in Ref |-> Receipts(x)]

\* Manager, worker, vault and contract together, through resubmitted, dropped
\* and forgotten transactions: a deposit is minted once and after it was
\* observed, a redeem is prepared once, after it was requested, with outpoints
\* that no other redeem has and whose deposits were observed.
KeepsPromise == Promise!Spec

\* A deposit above the fee is minted in the end, unless a second scan takes it
\* out of GetUnMinted first: as long as the state offers it the manager does not
\* give it up, also when it meets it again while its transaction is under way.
DepositMinted ==
  \A b \in BtcTx : Deposited[b] > Fee => (b \in deposits ~> b \in minted \cup mintDone)

\* Every monitored transaction leaves pending and limbo.
TrackedSettles ==
  \A t \in TxId :
    (db[t] # NONE /\ db[t].status \in Open)
      ~> (db[t] # NONE /\ db[t].status \notin Open)

\* README: "Send redeemPrepare" for redeems "that are requested".  A requested
\* redeem is prepared unless other redeems have taken UTXOs of the vault.
RedeemPrepared ==
  \A r \in Request :
    (r \in redeems /\ Free # {})
      ~> (prepared[r] # {} \/ \E s \in Request \ {r} : locked[s] # {})
=============================================================================
