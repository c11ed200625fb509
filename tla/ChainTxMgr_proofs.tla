-------------------------- MODULE ChainTxMgr_proofs --------------------------
(* Proofs about ChainTxMgr for every set of deposits, redeems, outpoints and *)
(* transactions, both workers and every subset of the faults.                *)
EXTENDS ChainTxMgr, BridgeContract_proofs

\* The list being worked on holds what its place says, and nothing on the
\* lists of mints and prepares has been sent and recorded.
LoopInv ==
  /\ pc = "mint" => todo \subseteq BtcTx
  /\ pc \in {"prepare", "call"} => todo \subseteq Request
  /\ pc = "call" => cur \in todo /\ locked[cur] # {}
  /\ pc \in {"wait", "record"} =>
       /\ tx[cur] # NONE /\ tx[cur].ref \in todo
       /\ todo \subseteq BtcTx \/ todo \subseteq Request
  /\ pc \in {"mint", "prepare", "call", "wait", "record"} => \A x \in todo : ~Tracked(x)
  /\ pc \in {"mark", "found"} => todo \subseteq TxId /\ \A t \in todo : db[t] # NONE
  /\ pc = "found" =>
       /\ cur \in todo /\ tx[cur] # NONE
       /\ tx[cur].state = db[cur].status /\ db[cur].status \in {"success", "reverted"}

\* The contract remembers every successful call, and a prepare carries the
\* outpoints the vault still holds for it.
ChainInv ==
  \A t \in TxId : tx[t] # NONE =>
    /\ tx[t].state = "success" /\ tx[t].ref \in BtcTx => tx[t].ref \in minted
    /\ tx[t].ref \in Request =>
         /\ tx[t].outs = locked[tx[t].ref] /\ tx[t].outs # {}
         /\ tx[t].state = "success" => prepared[tx[t].ref] # {}

\* A row belongs to a transaction, and has a ledger number only when the
\* transaction was executed.
RowInv ==
  \A t \in TxId : db[t] # NONE =>
    /\ tx[t] # NONE /\ tx[t].ref = db[t].ref
    /\ db[t].found # 0 => tx[t].state \in {"success", "reverted"}

Facts ==
  /\ ChainInv /\ RowInv
  /\ MintedOnce /\ OneRowPerRef /\ StatusTruthful /\ PreparedFromVault

MgrInv == TypeOK /\ LoopInv /\ Facts

LEMMA MgrInit == Init => MgrInv
BY ContractAssumption, MgrAssumption, NoneMgrAssumption
   DEF Init, ContractInit, MgrInv, Facts, TypeOK, ContractTypeOK, LoopInv, ChainInv, RowInv,
       MintedOnce, OneRowPerRef, StatusTruthful, PreparedFromVault

-----------------------------------------------------------------------------
\* What users do is a call of theirs on the contract, and nothing else.
LEMMA UserActsCall ==
  UserActs => UserCalls /\ UNCHANGED <<stateTables, tx, ledger, db, locked, loop>>
BY DEF UserActs, RegisterTWBTC, UserTransfers, RedeemRequest, UserCalls

\* Each entry function keeps the types of the contract's resources.
LEMMA ContractTypeStep ==
  ASSUME ContractTypeOK,
         \/ UNCHANGED contract
         \/ \E b \in BtcTx, to \in Account \cup {NONE} : mint(b, to)
         \/ UserCalls
         \/ \E r \in Request, outs \in SUBSET Outpoint : redeem_prepare(r, outs)
  PROVE  ContractTypeOK'
<1> USE ContractAssumption DEF ContractTypeOK
<1>1. CASE UNCHANGED contract BY <1>1 DEF contract
<1>2. ASSUME NEW b \in BtcTx, NEW to \in Account \cup {NONE}, mint(b, to)
      PROVE  ContractTypeOK'
  <2>1. to \in Account /\ Deposited[b] \in Nat BY <1>2 DEF mint, CanMint
  <2> QED BY <1>2, <2>1 DEF mint
<1>a. ASSUME NEW user \in Account, register(user) PROVE ContractTypeOK'
  BY <1>a DEF register
<1>b. ASSUME NEW from \in Account, NEW to \in Account, NEW amount \in Transfers,
             transfer(from, to, amount)
      PROVE  ContractTypeOK'
  <2>1. amount \in Nat OBVIOUS
  <2>2. balance' \in [Account -> Nat] BY <1>b, <2>1 DEF transfer, Moved
  <2> QED BY <1>b, <2>2 DEF transfer
<1>3. ASSUME NEW user \in Account, NEW r \in Request, NEW amount \in Amounts,
             redeem_request(user, r, amount)
      PROVE  ContractTypeOK'
  <2>1. amount \in Nat /\ FeeAccount \in Account OBVIOUS
  <2>2. balance' \in [Account -> Nat]
    BY <1>3, <2>1 DEF redeem_request, Moved, Charge, ChargeAll
  <2>3. supply' = supply BY <1>3 DEF redeem_request, burn_from
  <2>4. requests' \in [Request -> [who: Account, amount: Nat] \cup {NONE}]
    BY <1>3, <2>1 DEF redeem_request
  <2> QED BY <1>3, <2>2, <2>3, <2>4 DEF redeem_request
<1>4. ASSUME NEW r \in Request, NEW outs \in SUBSET Outpoint, redeem_prepare(r, outs)
      PROVE  ContractTypeOK'
  BY <1>4 DEF redeem_prepare, MarkUsed
<1> QED BY <1>1, <1>2, <1>a, <1>b, <1>3, <1>4 DEF UserCalls

\* The calls of users neither mint nor prepare, and take no request back.
LEMMA UserCallsKeep ==
  ASSUME UserCalls
  PROVE  /\ UNCHANGED <<minted, prepared>>
         /\ \/ UNCHANGED requests
            \/ \E user \in Account, r \in Request, amount \in Amounts :
                 redeem_request(user, r, amount)
BY DEF UserCalls, register, transfer, redeem_request

\* The tables, the chain, the rows and the loop keep their types.
LEMMA MgrTypeStep == TypeOK /\ LoopInv /\ [Next]_vars => TypeOK'
<1> SUFFICES ASSUME TypeOK, LoopInv, [Next]_vars PROVE TypeOK'
  OBVIOUS
<1> USE ContractAssumption, MgrAssumption, NoneMgrAssumption
    DEF TypeOK, stateTables, loop
<1>1. ASSUME NEW b \in BtcTx, Deposit(b) PROVE TypeOK'
  BY <1>1, ContractTypeStep DEF Deposit
<1>a. ASSUME NEW b \in BtcTx, Rescan(b) PROVE TypeOK'
  BY <1>a, ContractTypeStep DEF Rescan
<1>2. CASE StateSynced BY <1>2, ContractTypeStep DEF StateSynced
<1>3. CASE UserActs BY <1>3, ContractTypeStep, UserActsCall
<1>4. ASSUME NEW t \in TxId, Execute(t) PROVE TypeOK'
  <2>1. tx[t] \in Tx /\ tx[t].ref \in Ref /\ tx[t].to \in Account \cup {NONE}
        /\ tx[t].outs \in SUBSET Outpoint
    BY <1>4 DEF Execute, Tx
  <2>2. ContractTypeOK' BY <1>4, <2>1, ContractTypeStep DEF Execute
  <2>3. tx' \in [TxId -> Tx \cup {NONE}] BY <1>4, <2>1 DEF Execute, Tx
  <2> QED BY <1>4, <2>2, <2>3 DEF Execute
<1>5. ASSUME NEW t \in TxId, Drop(t) PROVE TypeOK'
  <2>1. tx[t] \in Tx BY <1>5 DEF Drop
  <2>2. tx' \in [TxId -> Tx \cup {NONE}] BY <1>5, <2>1 DEF Drop, Tx
  <2> QED BY <1>5, <2>2, ContractTypeStep DEF Drop
<1>6. CASE StartMint BY <1>6, ContractTypeStep DEF StartMint, Ref
<1>7. ASSUME NEW b \in BtcTx, SkipMint(b) PROVE TypeOK'
  BY <1>7, ContractTypeStep DEF SkipMint, NextItem
<1>8. ASSUME NEW b \in BtcTx, SubmitMint(b) PROVE TypeOK'
  <2>1. PICK t \in TxId : Submit(t, b, MintTo(b), {}) /\ cur' = t BY <1>8 DEF SubmitMint
  <2>2. tx' \in [TxId -> Tx \cup {NONE}] BY <2>1 DEF Submit, Tx, Ref, MintTo
  <2> QED BY <1>8, <2>1, <2>2, ContractTypeStep DEF SubmitMint
<1>9. CASE Returned BY <1>9, ContractTypeStep DEF Returned
<1>10. CASE NotReturned
  BY <1>10, ContractTypeStep DEF NotReturned, NextItem, Origin
<1>11. CASE Record
  <2>1. tx[cur] \in Tx BY <1>11 DEF Record, InsertMonitoredTx, LoopInv
  <2>2. db' \in [TxId -> Row \cup {NONE}] BY <1>11, <2>1 DEF Record, InsertMonitoredTx, Row, Tx
  <2> QED BY <1>11, <2>2, ContractTypeStep DEF Record, InsertMonitoredTx, NextItem, Origin
<1>12. CASE StartPrepare BY <1>12, ContractTypeStep DEF StartPrepare, Ref
<1>13. ASSUME NEW r \in Request, SkipPrepare(r) PROVE TypeOK'
  BY <1>13, ContractTypeStep DEF SkipPrepare, NextItem
<1>14. ASSUME NEW r \in Request, LockOutpoints(r) PROVE TypeOK'
  BY <1>14, ContractTypeStep DEF LockOutpoints, Free, Ref
<1>15. CASE SubmitPrepare
  <2>1. PICK t \in TxId : Submit(t, cur, NONE, locked[cur]) /\ cur' = t
    BY <1>15 DEF SubmitPrepare
  <2>2. cur \in Request BY <1>15 DEF SubmitPrepare
  <2>3. tx' \in [TxId -> Tx \cup {NONE}] BY <2>1, <2>2 DEF Submit, Tx, Ref
  <2> QED BY <1>15, <2>1, <2>3, ContractTypeStep DEF SubmitPrepare
<1>16. CASE CallPrepareError
  BY <1>16, ContractTypeStep DEF CallPrepareError, RequesterMissing, NextItem
<1>17. CASE StartMark BY <1>17, ContractTypeStep DEF StartMark
<1>18. ASSUME NEW t \in TxId, MarkStatus(t) PROVE TypeOK'
  <2>1. db[t] \in Row BY <1>18 DEF MarkStatus, UpdateTxStatus, LoopInv
  <2>2. PICK answer \in Answers(t) : \E status \in StatusStored(t, answer) :
          /\ db' = [db EXCEPT ![t] = [ref |-> db[t].ref, sent |-> db[t].sent,
                                      found |-> db[t].found, status |-> status]]
          /\ IF answer \in {"success", "reverted"}
             THEN pc' = "found" /\ cur' = t /\ UNCHANGED todo
             ELSE NextItem("mark", t)
    BY <1>18 DEF MarkStatus, UpdateTxStatus
  <2>3. answer \in {"success", "reverted", "timeout", "limbo"}
    BY <2>2 DEF Answers
  <2>4. PICK status \in {"success", "reverted", "timeout", "limbo"} :
          db' = [db EXCEPT ![t] = [ref |-> db[t].ref, sent |-> db[t].sent,
                                      found |-> db[t].found, status |-> status]]
    BY <2>2, <2>3 DEF StatusStored
  <2>5. db' \in [TxId -> Row \cup {NONE}] BY <2>1, <2>4 DEF Row
  <2> QED BY <1>18, <2>2, <2>5, ContractTypeStep DEF MarkStatus, UpdateTxStatus, NextItem
<1>19. ASSUME NEW t \in TxId, MarkError(t) PROVE TypeOK'
  BY <1>19, ContractTypeStep DEF MarkError, NextItem
<1>20. CASE UpdateFound
  <2>1. db[cur] \in Row /\ cur \in todo BY <1>20 DEF UpdateFound, LoopInv
  <2>2. tx[cur].version \in Nat
    BY <1>20, <2>1 DEF UpdateFound, LoopInv, Tx, Row
  <2>3. db' \in [TxId -> Row \cup {NONE}] BY <1>20, <2>1, <2>2 DEF UpdateFound, Row
  <2> QED BY <1>20, <2>3, ContractTypeStep DEF UpdateFound, NextItem
<1>21. CASE EndMark BY <1>21, ContractTypeStep DEF EndMark
<1>22. CASE Crash BY <1>22, ContractTypeStep DEF Crash
<1>23. CASE UNCHANGED vars BY <1>23, ContractTypeStep DEF vars
<1> QED
  BY <1>1, <1>a, <1>2, <1>3, <1>4, <1>5, <1>6, <1>7, <1>8, <1>9, <1>10, <1>11, <1>12,
     <1>13, <1>14, <1>15, <1>16, <1>17, <1>18, <1>19, <1>20, <1>21, <1>22, <1>23
     DEF Next, Environment, MgrStep, procedureMint, procedurePrepare, CallReturns,
          procedureMarkTxStatus

-----------------------------------------------------------------------------
\* A step that leaves the contract's lists, the transactions, the rows and the
\* vault alone keeps all that relates them.
LEMMA FactsKept ==
  ASSUME Facts, UNCHANGED <<minted, prepared, tx, db, locked>>
  PROVE  Facts'
BY DEF Facts, ChainInv, RowInv, MintedOnce, OneRowPerRef, StatusTruthful,
       PreparedFromVault

\* The chain executes a transaction: the contract refuses the second mint of a
\* deposit and the second prepare of a redeem.
LEMMA ExecuteKeeps ==
  ASSUME MgrInv, NEW t \in TxId, Execute(t)
  PROVE  Facts' /\ LoopInv'
<1> USE MgrAssumption DEF MgrInv, TypeOK, stateTables, loop
<1>1. tx[t] \in Tx /\ tx[t] # NONE /\ tx[t].ref \in Ref /\ tx[t].state = "mempool"
  BY NoneMgrAssumption DEF Execute, Tx
<1>2. PICK s \in {"success", "reverted"} :
        /\ tx' = [tx EXCEPT ![t] = [ref |-> tx[t].ref, to |-> tx[t].to,
                                    outs |-> tx[t].outs, state |-> s,
                                    version |-> ledger + 1]]
        /\ s = "reverted" => UNCHANGED contract
        /\ s = "success" => \/ tx[t].ref \in BtcTx /\ mint(tx[t].ref, tx[t].to)
                            \/ tx[t].ref \in Request /\ redeem_prepare(tx[t].ref, tx[t].outs)
  BY DEF Execute
<1>3. UNCHANGED <<db, locked, pc, todo, cur>> BY DEF Execute
<1>4. tx'[t] # NONE /\ tx'[t].ref = tx[t].ref /\ tx'[t].outs = tx[t].outs
      /\ tx'[t].state = s /\ \A u \in TxId \ {t} : tx'[u] = tx[u]
  BY <1>1, <1>2, NoneMgrAssumption DEF Tx
<1>5. /\ minted \subseteq minted'
      /\ \A r \in Request : prepared[r] # {} => prepared'[r] = prepared[r]
      /\ s = "success" /\ tx[t].ref \in BtcTx =>
           tx[t].ref \notin minted /\ tx[t].ref \in minted'
      /\ s = "success" /\ tx[t].ref \in Request =>
           prepared[tx[t].ref] = {} /\ prepared'[tx[t].ref] = tx[t].outs
      /\ \A r \in Request : prepared'[r] # prepared[r] => s = "success" /\ r = tx[t].ref
  BY <1>2 DEF mint, redeem_prepare, CanMint, CanPrepare, contract, ContractTypeOK
<1>6. ChainInv'
  <2> SUFFICES ASSUME NEW u \in TxId, tx'[u] # NONE
               PROVE  /\ tx'[u].state = "success" /\ tx'[u].ref \in BtcTx => tx'[u].ref \in minted'
                      /\ tx'[u].ref \in Request =>
                           /\ tx'[u].outs = locked[tx'[u].ref] /\ tx'[u].outs # {}
                           /\ tx'[u].state = "success" => prepared'[tx'[u].ref] # {}
    BY <1>3 DEF ChainInv
  <2>1. CASE u = t BY <1>1, <1>4, <1>5, <2>1 DEF Facts, ChainInv
  <2>2. CASE u # t BY <1>4, <1>5, <2>2 DEF Facts, ChainInv
  <2> QED BY <2>1, <2>2
<1>7. RowInv' BY <1>1, <1>3, <1>4 DEF Facts, RowInv
<1>8. MintedOnce'
  BY <1>1, <1>4, <1>5 DEF Facts, MintedOnce, ChainInv, Ref
<1>9. OneRowPerRef' BY <1>3 DEF Facts, OneRowPerRef
<1>10. StatusTruthful' BY <1>1, <1>3, <1>4 DEF Facts, StatusTruthful, RowInv
<1>11. PreparedFromVault' BY <1>1, <1>3, <1>5 DEF Facts, PreparedFromVault, ChainInv
<1>12. LoopInv'
  <2>1. pc = "found" => cur # t BY <1>1 DEF LoopInv
  <2> QED BY <1>3, <1>4, <2>1 DEF LoopInv, Tracked
<1> QED BY <1>6, <1>7, <1>8, <1>9, <1>10, <1>11, <1>12 DEF Facts

\* A dropped transaction has no result.
LEMMA DropKeeps ==
  ASSUME MgrInv, NEW t \in TxId, Drop(t)
  PROVE  Facts' /\ LoopInv'
<1> USE MgrAssumption DEF MgrInv, TypeOK, stateTables, loop
<1>1. tx[t] \in Tx /\ tx[t] # NONE /\ tx[t].state = "mempool"
  BY NoneMgrAssumption DEF Drop
<1>2. UNCHANGED <<contract, db, locked, pc, todo, cur>> BY DEF Drop
<1>3. tx'[t] # NONE /\ tx'[t].ref = tx[t].ref /\ tx'[t].outs = tx[t].outs
      /\ tx'[t].state = "dropped" /\ \A u \in TxId \ {t} : tx'[u] = tx[u]
  BY <1>1, NoneMgrAssumption DEF Drop, Tx
<1>4. Facts'
  <2>1. UNCHANGED <<minted, prepared>> BY <1>2 DEF contract
  <2>2. ChainInv' BY <1>1, <1>2, <1>3, <2>1 DEF Facts, ChainInv
  <2>3. RowInv' BY <1>1, <1>2, <1>3 DEF Facts, RowInv
  <2>4. MintedOnce' BY <1>1, <1>3 DEF Facts, MintedOnce
  <2>5. OneRowPerRef' BY <1>2 DEF Facts, OneRowPerRef
  <2>6. StatusTruthful' BY <1>1, <1>2, <1>3 DEF Facts, StatusTruthful, RowInv
  <2>7. PreparedFromVault' BY <1>2, <2>1 DEF Facts, PreparedFromVault
  <2> QED BY <2>2, <2>3, <2>4, <2>5, <2>6, <2>7 DEF Facts
<1>5. LoopInv'
  <2>1. pc = "found" => cur # t BY <1>1 DEF LoopInv
  <2> QED BY <1>2, <1>3, <2>1 DEF LoopInv, Tracked
<1> QED BY <1>4, <1>5

\* A new transaction has an unused id: no row and no list mentions it.
LEMMA SubmitKeeps ==
  ASSUME MgrInv, NEW t \in TxId, NEW ref \in todo, NEW to, NEW outs,
         Submit(t, ref, to, outs), pc \in {"mint", "call"}, ref \in Ref,
         [ref |-> ref, to |-> to, outs |-> outs, state |-> "mempool", version |-> 0] \in Tx,
         ref \in Request => outs = locked[ref] /\ outs # {},
         pc' = "wait", cur' = t,
         UNCHANGED <<contract, db, locked, todo>>
  PROVE  Facts' /\ LoopInv'
<1> USE MgrAssumption DEF MgrInv, TypeOK, stateTables, loop
<1>1. tx'[t] # NONE /\ tx'[t].ref = ref /\ tx'[t].outs = outs
      /\ tx'[t].state = "mempool" /\ \A u \in TxId \ {t} : tx'[u] = tx[u]
  BY NoneMgrAssumption DEF Submit
<1>2. tx[t] = NONE /\ db[t] = NONE BY DEF Submit, Facts, RowInv
<1>3. Facts'
  <2>1. UNCHANGED <<minted, prepared>> BY DEF contract
  <2>2. ChainInv' BY <1>1, <1>2, <2>1 DEF Facts, ChainInv
  <2>3. RowInv' BY <1>1, <1>2 DEF Facts, RowInv
  <2>4. MintedOnce' BY <1>1, <1>2 DEF Facts, MintedOnce
  <2>5. OneRowPerRef' BY DEF Facts, OneRowPerRef
  <2>6. StatusTruthful' BY <1>1, <1>2 DEF Facts, StatusTruthful
  <2>7. PreparedFromVault' BY <2>1 DEF Facts, PreparedFromVault
  <2> QED BY <2>2, <2>3, <2>4, <2>5, <2>6, <2>7 DEF Facts
<1>4. LoopInv' BY <1>1 DEF LoopInv, Tracked
<1> QED BY <1>3, <1>4

\* A row is added for an item that had none, and its transaction was executed.
LEMMA RecordKeeps == ASSUME MgrInv, Record PROVE Facts' /\ LoopInv'
<1> USE MgrAssumption DEF MgrInv, TypeOK, stateTables, loop
<1>1. cur \in TxId /\ tx[cur] # NONE /\ tx[cur] \in Tx /\ tx[cur].ref \in todo
  BY DEF Record, InsertMonitoredTx, LoopInv
<1>2. UNCHANGED <<contract, tx, locked>> BY DEF Record, InsertMonitoredTx
<1>3. \A x \in todo : ~Tracked(x) BY DEF Record, InsertMonitoredTx, LoopInv
<1>4. CASE UNCHANGED db
  <2>1. Facts' BY <1>2, <1>4, FactsKept DEF contract
  <2>2. LoopInv'
    BY <1>1, <1>2, <1>3, <1>4 DEF Record, InsertMonitoredTx, NextItem, Origin, LoopInv, Tracked
  <2> QED BY <2>1, <2>2
<1>5. CASE db' = [db EXCEPT ![cur] = [ref |-> tx[cur].ref, sent |-> sent, found |-> 0,
                                      status |-> "pending"]]
  <2>1. [ref |-> tx[cur].ref, sent |-> sent, found |-> 0, status |-> "pending"] \in Row
    BY <1>1 DEF Row, Tx
  <2>2. db'[cur] # NONE /\ db'[cur].ref = tx[cur].ref /\ db'[cur].found = 0
        /\ db'[cur].status = "pending" /\ \A u \in TxId \ {cur} : db'[u] = db[u]
    BY <1>1, <1>5, <2>1, NoneMgrAssumption
  <2>3. UNCHANGED <<minted, prepared>> BY <1>2 DEF contract
  <2>4. ChainInv' BY <1>2, <2>3 DEF Facts, ChainInv
  <2>5. RowInv' BY <1>1, <1>2, <2>2 DEF Facts, RowInv
  <2>6. MintedOnce' BY <1>2 DEF Facts, MintedOnce
  <2>7. OneRowPerRef' BY <1>1, <1>3, <2>2 DEF Facts, OneRowPerRef, Tracked
  <2>8. StatusTruthful' BY <1>1, <1>2, <2>2 DEF Facts, StatusTruthful
  <2>9. PreparedFromVault' BY <1>2, <2>3 DEF Facts, PreparedFromVault
  <2>10. \A x \in todo' : ~Tracked(x)'
    BY <1>1, <1>3, <2>2 DEF Record, InsertMonitoredTx, NextItem, Tracked
  <2>11. LoopInv'
    BY <1>1, <1>2, <2>10 DEF Record, InsertMonitoredTx, NextItem, Origin, LoopInv
  <2> QED BY <2>4, <2>5, <2>6, <2>7, <2>8, <2>9, <2>11 DEF Facts
<1> QED BY <1>4, <1>5 DEF Record, InsertMonitoredTx

\* The vault gives outpoints to a redeem that had none, so no transaction
\* carries other ones.
LEMMA LockKeeps ==
  ASSUME MgrInv, NEW r \in Request, LockOutpoints(r)
  PROVE  Facts' /\ LoopInv'
<1> USE MgrAssumption DEF MgrInv, TypeOK, stateTables, loop
<1>1. UNCHANGED <<minted, prepared, tx, db, todo>> BY DEF LockOutpoints, contract
<1>2. locked[r] = {} /\ locked'[r] # {} /\ r \in todo
      /\ \A q \in Request \ {r} : locked'[q] = locked[q]
  <2>1. PICK outs \in (SUBSET Free) \ {{}} : locked' = [locked EXCEPT ![r] = outs]
    BY DEF LockOutpoints
  <2>2. locked[r] = {} /\ r \in todo BY DEF LockOutpoints
  <2>3. outs # {} OBVIOUS
  <2> QED BY <2>1, <2>2, <2>3
<1>3. ChainInv' BY <1>1, <1>2 DEF Facts, ChainInv
<1>4. PreparedFromVault' BY <1>1, <1>2 DEF Facts, PreparedFromVault
<1>5. RowInv' /\ MintedOnce' BY <1>1 DEF Facts, RowInv, MintedOnce
<1>6. OneRowPerRef' /\ StatusTruthful' BY <1>1 DEF Facts, OneRowPerRef, StatusTruthful
<1>7. LoopInv' BY <1>1, <1>2 DEF LockOutpoints, LoopInv, Tracked
<1> QED BY <1>3, <1>4, <1>5, <1>6, <1>7 DEF Facts

\* A row's status and ledger number are taken from the transaction.
LEMMA RowUpdateKeeps ==
  ASSUME MgrInv, NEW t \in TxId, NEW status, NEW found, db[t] # NONE,
         [ref |-> db[t].ref, sent |-> db[t].sent, found |-> found, status |-> status] \in Row,
         db' = [db EXCEPT ![t] = [ref |-> db[t].ref, sent |-> db[t].sent,
                                  found |-> found, status |-> status]],
         status \in {"success", "reverted"} => tx[t].state = status,
         found # 0 => found = tx[t].version /\ tx[t].state \in {"success", "reverted"},
         UNCHANGED <<minted, prepared, tx, locked>>
  PROVE  /\ Facts'
         /\ db'[t] # NONE /\ db'[t].status = status
         /\ \A u \in TxId \ {t} : db'[u] = db[u]
<1> USE DEF MgrInv, TypeOK
<1>1. db'[t] # NONE /\ db'[t].ref = db[t].ref /\ db'[t].found = found
      /\ db'[t].status = status /\ \A u \in TxId \ {t} : db'[u] = db[u]
  BY NoneMgrAssumption
<1>2. ChainInv' BY DEF Facts, ChainInv
<1>3. RowInv' BY <1>1 DEF Facts, RowInv
<1>4. MintedOnce' BY DEF Facts, MintedOnce
<1>5. OneRowPerRef' BY <1>1 DEF Facts, OneRowPerRef
<1>6. StatusTruthful' BY <1>1 DEF Facts, StatusTruthful
<1>7. PreparedFromVault' BY DEF Facts, PreparedFromVault
<1> QED BY <1>1, <1>2, <1>3, <1>4, <1>5, <1>6, <1>7 DEF Facts

-----------------------------------------------------------------------------
LEMMA MgrNext == MgrInv /\ [Next]_vars => MgrInv'
<1> SUFFICES ASSUME MgrInv, [Next]_vars PROVE Facts' /\ LoopInv'
  BY MgrTypeStep DEF MgrInv
<1> USE MgrAssumption DEF MgrInv, TypeOK, stateTables, loop
<1>1. ASSUME NEW b \in BtcTx, Deposit(b) PROVE Facts' /\ LoopInv'
  BY <1>1, FactsKept DEF Deposit, contract, LoopInv, Tracked
<1>a. ASSUME NEW b \in BtcTx, Rescan(b) PROVE Facts' /\ LoopInv'
  BY <1>a, FactsKept DEF Rescan, contract, LoopInv, Tracked
<1>2. CASE StateSynced
  BY <1>2, FactsKept DEF StateSynced, contract, LoopInv, Tracked
<1>3. CASE UserActs
  BY <1>3, FactsKept, UserActsCall, UserCallsKeep DEF LoopInv, Tracked
<1>4. ASSUME NEW t \in TxId, Execute(t) PROVE Facts' /\ LoopInv'
  BY <1>4, ExecuteKeeps
<1>5. ASSUME NEW t \in TxId, Drop(t) PROVE Facts' /\ LoopInv'
  BY <1>5, DropKeeps
<1>6. CASE StartMint
  BY <1>6, FactsKept DEF StartMint, contract, LoopInv, Tracked
<1>7. ASSUME NEW b \in BtcTx, SkipMint(b) PROVE Facts' /\ LoopInv'
  BY <1>7, FactsKept DEF SkipMint, NextItem, contract, LoopInv, Tracked
<1>8. ASSUME NEW b \in BtcTx, SubmitMint(b) PROVE Facts' /\ LoopInv'
  <2>1. PICK t \in TxId : Submit(t, b, MintTo(b), {}) /\ cur' = t BY <1>8 DEF SubmitMint
  <2>2. [ref |-> b, to |-> MintTo(b), outs |-> {}, state |-> "mempool", version |-> 0] \in Tx
    BY DEF Tx, Ref, MintTo
  <2>3. b \in Ref /\ b \notin Request BY DEF Ref
  <2>4. b \in todo /\ pc = "mint" /\ pc' = "wait" /\ UNCHANGED <<contract, db, locked, todo>>
    BY <1>8 DEF SubmitMint
  <2> QED BY <2>1, <2>2, <2>3, <2>4, SubmitKeeps
<1>9. CASE Returned
  BY <1>9, FactsKept DEF Returned, contract, LoopInv, Tracked
<1>10. CASE NotReturned
  BY <1>10, FactsKept DEF NotReturned, NextItem, Origin, contract, LoopInv, Tracked
<1>11. CASE Record BY <1>11, RecordKeeps
<1>12. CASE StartPrepare
  BY <1>12, FactsKept DEF StartPrepare, contract, LoopInv, Tracked
<1>13. ASSUME NEW r \in Request, SkipPrepare(r) PROVE Facts' /\ LoopInv'
  BY <1>13, FactsKept DEF SkipPrepare, NextItem, contract, LoopInv, Tracked
<1>14. ASSUME NEW r \in Request, LockOutpoints(r) PROVE Facts' /\ LoopInv'
  BY <1>14, LockKeeps
<1>15. CASE SubmitPrepare
  <2>1. PICK t \in TxId : Submit(t, cur, NONE, locked[cur]) /\ cur' = t
    BY <1>15 DEF SubmitPrepare
  <2>2. cur \in Request /\ cur \in todo /\ locked[cur] # {}
    BY <1>15 DEF SubmitPrepare, LoopInv
  <2>3. [ref |-> cur, to |-> NONE, outs |-> locked[cur], state |-> "mempool",
         version |-> 0] \in Tx
    BY <2>2 DEF Tx, Ref
  <2>4. pc = "call" /\ pc' = "wait" /\ UNCHANGED <<contract, db, locked, todo>>
    BY <1>15 DEF SubmitPrepare
  <2> QED BY <2>1, <2>2, <2>3, <2>4, SubmitKeeps DEF Ref
<1>16. CASE CallPrepareError
  BY <1>16, FactsKept DEF CallPrepareError, RequesterMissing, NextItem, contract, LoopInv, Tracked
<1>17. CASE StartMark
  BY <1>17, FactsKept DEF StartMark, contract, LoopInv, Tracked
<1>18. ASSUME NEW t \in TxId, MarkStatus(t) PROVE Facts' /\ LoopInv'
  <2>1. db[t] \in Row /\ db[t] # NONE /\ t \in todo /\ todo \subseteq TxId
        /\ (\A u \in todo : db[u] # NONE) /\ tx[t] # NONE /\ pc = "mark"
    BY <1>18 DEF MarkStatus, UpdateTxStatus, LoopInv, Facts, RowInv
  <2>a. PICK answer \in Answers(t) : \E status \in StatusStored(t, answer) :
          /\ db' = [db EXCEPT ![t] = [ref |-> db[t].ref, sent |-> db[t].sent,
                                      found |-> db[t].found, status |-> status]]
          /\ IF answer \in {"success", "reverted"}
             THEN pc' = "found" /\ cur' = t /\ UNCHANGED todo
             ELSE NextItem("mark", t)
    BY <1>18 DEF MarkStatus, UpdateTxStatus
  <2>2. PICK status \in StatusStored(t, answer) :
          /\ db' = [db EXCEPT ![t] = [ref |-> db[t].ref, sent |-> db[t].sent,
                                      found |-> db[t].found, status |-> status]]
          /\ IF answer \in {"success", "reverted"}
             THEN pc' = "found" /\ cur' = t /\ UNCHANGED todo
             ELSE NextItem("mark", t)
    BY <2>a
  <2>3. /\ answer \in {"success", "reverted", "timeout", "limbo"}
        /\ answer \in {"success", "reverted"} => tx[t].state = answer
    BY <2>2 DEF Answers
  <2>4. /\ status \in {"success", "reverted", "timeout", "limbo"}
        /\ status \in {"success", "reverted"} => answer = status
        /\ answer \in {"success", "reverted"} => answer = status
    BY <2>2, <2>3 DEF StatusStored
  <2>5. [ref |-> db[t].ref, sent |-> db[t].sent, found |-> db[t].found,
         status |-> status] \in Row
    BY <2>1, <2>4 DEF Row
  <2>6. db[t].found # 0 =>
          db[t].found = tx[t].version /\ tx[t].state \in {"success", "reverted"}
    BY <2>1 DEF Facts, RowInv, StatusTruthful
  <2>7. UNCHANGED <<minted, prepared, tx, locked>> BY <1>18 DEF MarkStatus, UpdateTxStatus, contract
  <2>8. /\ Facts'
        /\ db'[t] # NONE /\ db'[t].status = status
        /\ \A u \in TxId \ {t} : db'[u] = db[u]
    BY <2>1, <2>2, <2>3, <2>4, <2>5, <2>6, <2>7, RowUpdateKeeps
  <2>9. LoopInv'
    BY <2>1, <2>2, <2>3, <2>4, <2>7, <2>8 DEF LoopInv, NextItem
  <2> QED BY <2>8, <2>9
<1>19. ASSUME NEW t \in TxId, MarkError(t) PROVE Facts' /\ LoopInv'
  BY <1>19, FactsKept DEF MarkError, NextItem, contract, LoopInv
<1>20. CASE UpdateFound
  <2>1. /\ cur \in TxId /\ cur \in todo /\ todo \subseteq TxId /\ db[cur] \in Row
        /\ (\A u \in todo : db[u] # NONE) /\ tx[cur] # NONE /\ tx[cur] \in Tx
        /\ tx[cur].state = db[cur].status /\ db[cur].status \in {"success", "reverted"}
    BY <1>20 DEF UpdateFound, LoopInv
  <2>2. [ref |-> db[cur].ref, sent |-> db[cur].sent, found |-> tx[cur].version,
         status |-> db[cur].status] \in Row
    BY <2>1 DEF Row, Tx
  <2>3. UNCHANGED <<minted, prepared, tx, locked>> BY <1>20 DEF UpdateFound, contract
  <2>4. Facts' /\ db'[cur] # NONE /\ \A u \in TxId \ {cur} : db'[u] = db[u]
    BY <1>20, <2>1, <2>2, <2>3, RowUpdateKeeps DEF UpdateFound
  <2>5. LoopInv' BY <1>20, <2>1, <2>4 DEF UpdateFound, NextItem, LoopInv
  <2> QED BY <2>4, <2>5
<1>21. CASE EndMark
  BY <1>21, FactsKept DEF EndMark, contract, LoopInv
<1>22. CASE Crash
  BY <1>22, FactsKept DEF Crash, contract, LoopInv
<1>23. CASE UNCHANGED vars
  BY <1>23, FactsKept DEF vars, contract, LoopInv, Tracked
<1> QED
  BY <1>1, <1>a, <1>2, <1>3, <1>4, <1>5, <1>6, <1>7, <1>8, <1>9, <1>10, <1>11, <1>12,
     <1>13, <1>14, <1>15, <1>16, <1>17, <1>18, <1>19, <1>20, <1>21, <1>22, <1>23
     DEF Next, Environment, MgrStep, procedureMint, procedurePrepare, CallReturns,
          procedureMarkTxStatus

LEMMA MgrInvariant == Spec => []MgrInv
BY MgrInit, MgrNext, PTL DEF Spec

\* Tables, chain, rows and loop keep their types whatever fails.
THEOREM MgrTypeCorrect == Spec => []TypeOK
<1>1. MgrInv => TypeOK BY DEF MgrInv
<1> QED BY <1>1, MgrInvariant, PTL

\* No deposit is minted, and no redeem prepared, by two transactions, for any
\* number of resubmissions after failed calls, lost answers and crashes.
THEOREM MintedOnceTheorem == Spec => []MintedOnce
<1>1. MgrInv => MintedOnce BY DEF MgrInv, Facts
<1> QED BY <1>1, MgrInvariant, PTL

\* A deposit or redeem has at most one monitored transaction.
THEOREM OneRowPerRefTheorem == Spec => []OneRowPerRef
<1>1. MgrInv => OneRowPerRef BY DEF MgrInv, Facts
<1> QED BY <1>1, MgrInvariant, PTL

\* The manager's database never claims a result the chain does not have.
THEOREM StatusTruthfulTheorem == Spec => []StatusTruthful
<1>1. MgrInv => StatusTruthful BY DEF MgrInv, Facts
<1> QED BY <1>1, MgrInvariant, PTL

\* A redeem is prepared on chain with exactly the outpoints the vault locked
\* for it.
THEOREM PreparedFromVaultTheorem == Spec => []PreparedFromVault
<1>1. MgrInv => PreparedFromVault BY DEF MgrInv, Facts
<1> QED BY <1>1, MgrInvariant, PTL

-----------------------------------------------------------------------------
(* The contract under the manager                                           *)

\* Whatever the manager, its users and the chain do is for the contract a call
\* of one of its functions, or nothing.
LEMMA ContractStep == TypeOK /\ [Next]_vars => [ContractNext]_contract
<1> SUFFICES ASSUME TypeOK, [Next]_vars PROVE [ContractNext]_contract
  OBVIOUS
<1>1. CASE UserActs BY <1>1, UserActsCall DEF ContractNext
<1>2. ASSUME NEW t \in TxId, Execute(t) PROVE [ContractNext]_contract
  <2>1. tx[t] \in Tx BY <1>2 DEF Execute, TypeOK
  <2>2. tx[t].ref \in Ref /\ tx[t].to \in Account \cup {NONE} /\ tx[t].outs \in SUBSET Outpoint
    BY <2>1 DEF Tx
  <2>3. ASSUME tx[t].ref \in BtcTx, mint(tx[t].ref, tx[t].to) PROVE ContractNext
    <3>1. tx[t].to \in Account BY <2>3 DEF mint, CanMint, TypeOK, ContractTypeOK
    <3> QED BY <2>3, <3>1 DEF ContractNext
  <2>4. ASSUME tx[t].ref \in Request, redeem_prepare(tx[t].ref, tx[t].outs) PROVE ContractNext
    BY <2>2, <2>4 DEF ContractNext
  <2> QED BY <1>2, <2>3, <2>4 DEF Execute
<1>3. CASE \E b \in BtcTx : Deposit(b) \/ Rescan(b) BY <1>3 DEF Deposit, Rescan
<1>4. CASE StateSynced BY <1>4 DEF StateSynced
<1>5. CASE \E t \in TxId : Drop(t) BY <1>5 DEF Drop
<1>6. CASE procedureMint BY <1>6 DEF procedureMint, StartMint, SkipMint, SubmitMint
<1>7. CASE procedurePrepare
  BY <1>7 DEF procedurePrepare, StartPrepare, SkipPrepare, LockOutpoints, SubmitPrepare,
              CallPrepareError
<1>8. CASE CallReturns BY <1>8 DEF CallReturns, Returned, NotReturned, Record
<1>9. CASE procedureMarkTxStatus
  BY <1>9 DEF procedureMarkTxStatus, StartMark, MarkStatus, MarkError, UpdateFound
<1>10. CASE EndMark \/ Crash BY <1>10 DEF EndMark, Crash
<1>11. CASE UNCHANGED vars BY <1>11 DEF vars
<1> QED BY <1>1, <1>2, <1>3, <1>4, <1>5, <1>6, <1>7, <1>8, <1>9, <1>10, <1>11
        DEF Next, MgrStep, Environment

\* The manager and its faults with the contract: a behaviour of the contract.
THEOREM MgrUsesContract == Spec => ContractSpec
<1>1. Init => ContractInit BY DEF Init
<1> QED BY <1>1, ContractStep, MgrTypeCorrect, PTL DEF Spec, ContractSpec

\* So mints that the manager submits twice, drops or loses an answer to change
\* nothing about the money: the supply is what accounts hold, and what the
\* minted deposits brought.
THEOREM MgrSupplyRight == Spec => []SupplyRight
BY MgrUsesContract, SupplyRightTheorem, PTL

\* ... nor does it bring two prepared redeems to outpoints of one transaction.
THEOREM MgrOutpointsNotShared == Spec => []OutpointsNotShared
BY MgrUsesContract, OutpointsNotSharedTheorem, PTL

-----------------------------------------------------------------------------
(* Statuses are final                                                       *)

\* What procedureMarkTxStatus still has on its list is open, except for the
\* transaction whose ledger number is about to be stored.
MarkInv ==
  pc \in {"mark", "found"} =>
    \A t \in todo : db[t].status \in Open \/ (pc = "found" /\ t = cur)

LEMMA MarkNext == MgrInv /\ MarkInv /\ [Next]_vars => MarkInv'
<1> SUFFICES ASSUME MgrInv, MarkInv, [Next]_vars PROVE MarkInv'
  OBVIOUS
<1> USE DEF MgrInv, MarkInv, loop
<1>1. ASSUME UNCHANGED <<db, loop>> PROVE MarkInv' BY <1>1
<1>2. CASE Environment
  BY <1>1, <1>2, UserActsCall
     DEF Environment, Deposit, Rescan, StateSynced, Execute, Drop
<1>3. CASE procedureMint \/ procedurePrepare \/ CallReturns
  <2>1. pc' \notin {"mark", "found"}
    BY <1>3 DEF procedureMint, procedurePrepare, CallReturns, StartMint, SkipMint,
       SubmitMint, StartPrepare, SkipPrepare, LockOutpoints, SubmitPrepare,
       CallPrepareError, Returned, NotReturned, Record, NextItem, Origin
  <2> QED BY <2>1
<1>4. CASE StartMark BY <1>4 DEF StartMark, Polled, Open
<1>5. ASSUME NEW t \in TxId, MarkStatus(t) PROVE MarkInv'
  <2>1. \A s \in TxId \ {t} : db'[s] = db[s]
    BY <1>5 DEF MarkStatus, UpdateTxStatus, TypeOK
  <2>2. todo \subseteq TxId BY <1>5 DEF MarkStatus, LoopInv
  <2> QED BY <1>5, <2>1, <2>2 DEF MarkStatus, NextItem
<1>6. ASSUME NEW t \in TxId, MarkError(t) PROVE MarkInv'
  BY <1>6 DEF MarkError, NextItem
<1>7. CASE UpdateFound
  <2>1. \A s \in TxId \ {cur} : db'[s] = db[s] BY <1>7 DEF UpdateFound, TypeOK
  <2>2. todo \subseteq TxId BY <1>7 DEF UpdateFound, LoopInv
  <2> QED BY <1>7, <2>1, <2>2 DEF UpdateFound, NextItem
<1>8. CASE EndMark \/ Crash BY <1>8 DEF EndMark, Crash
<1>9. CASE UNCHANGED vars BY <1>1, <1>9 DEF vars
<1> QED
  BY <1>2, <1>3, <1>4, <1>5, <1>6, <1>7, <1>8, <1>9
     DEF Next, MgrStep, procedureMarkTxStatus

\* What StatusFinal says of one step.
KeepsFinal ==
  \A t \in TxId : db[t] # NONE =>
    /\ db'[t] # NONE
    /\ db[t].status \notin Open => db'[t].status = db[t].status

LEMMA FinalStep == MgrInv /\ MarkInv /\ [Next]_vars => KeepsFinal
<1> SUFFICES ASSUME MgrInv, MarkInv, [Next]_vars PROVE KeepsFinal
  OBVIOUS
<1> USE NoneMgrAssumption DEF MgrInv, TypeOK, KeepsFinal
<1>1. ASSUME UNCHANGED db PROVE KeepsFinal BY <1>1
<1>2. CASE Environment
  BY <1>1, <1>2, UserActsCall
     DEF Environment, Deposit, Rescan, StateSynced, Execute, Drop
<1>3. CASE procedureMint \/ procedurePrepare \/ Returned \/ NotReturned \/ StartMark
  BY <1>1, <1>3 DEF procedureMint, procedurePrepare, StartMint, SkipMint, SubmitMint,
     StartPrepare, SkipPrepare, LockOutpoints, SubmitPrepare, CallPrepareError,
     Returned, NotReturned, StartMark
<1>4. CASE Record
  <2>1. db[cur] = NONE
    BY <1>4 DEF Record, LoopInv, Tracked, Facts, RowInv
  <2> QED BY <1>4, <2>1 DEF Record, InsertMonitoredTx
<1>5. ASSUME NEW t \in TxId, MarkStatus(t) PROVE KeepsFinal
  <2>1. db[t].status \in Open BY <1>5 DEF MarkStatus, MarkInv
  <2>2. db[t] \in Row BY <1>5 DEF MarkStatus, LoopInv
  <2>3. PICK answer \in Answers(t) : \E status \in StatusStored(t, answer) :
          UpdateTxStatus(t, status)
    BY <1>5 DEF MarkStatus
  <2>4. PICK status \in StatusStored(t, answer) : UpdateTxStatus(t, status) BY <2>3
  <2>5. status \in {"limbo", "success", "reverted", "timeout"}
    BY <2>3, <2>4 DEF Answers, StatusStored
  <2>6. db'[t] \in Row BY <2>2, <2>4, <2>5 DEF UpdateTxStatus, Row
  <2>7. \A s \in TxId \ {t} : db'[s] = db[s] BY <2>4 DEF UpdateTxStatus
  <2> QED BY <2>1, <2>6, <2>7
<1>6. ASSUME NEW t \in TxId, MarkError(t) PROVE KeepsFinal BY <1>1, <1>6 DEF MarkError
<1>7. CASE UpdateFound
  <2>1. /\ cur \in TxId
        /\ \A s \in TxId \ {cur} : db'[s] = db[s]
        /\ db'[cur].status = db[cur].status
    BY <1>7 DEF UpdateFound
  <2>2. db'[cur] # NONE BY <1>7 DEF UpdateFound, Row, Tx, LoopInv, Facts, RowInv
  <2> QED BY <2>1, <2>2
<1>8. CASE EndMark \/ Crash \/ UNCHANGED vars BY <1>1, <1>8 DEF EndMark, Crash, vars
<1> QED
  BY <1>2, <1>3, <1>4, <1>5, <1>6, <1>7, <1>8
     DEF Next, MgrStep, CallReturns, procedureMarkTxStatus

\* A transaction that has settled in the manager's table stays settled, with
\* the same result, through crashes, failed calls and late answers.
THEOREM StatusFinalTheorem == Spec => StatusFinal
<1>1. Init => MarkInv BY DEF Init, MarkInv
<1>2. Spec => []MarkInv BY <1>1, MarkNext, MgrInvariant, PTL DEF Spec
<1>3. MgrInv /\ MarkInv /\ [Next]_vars => [KeepsFinal]_vars BY FinalStep
<1> QED BY <1>2, <1>3, MgrInvariant, PTL DEF Spec, StatusFinal, KeepsFinal

-----------------------------------------------------------------------------
(* The refinement of BridgePromise                                          *)

Asked == {r \in Request : requests[r] # NONE}

\* What is sent was observed or asked for before, and the vault gives each
\* outpoint, of an observed deposit, to one request.
PromiseInv ==
  /\ redeems \subseteq Asked
  /\ pc \in {"mint", "prepare", "call", "wait", "record"} => todo \subseteq deposits \cup Asked
  /\ \A t \in TxId : tx[t] # NONE => tx[t].ref \in deposits \cup Asked
  /\ \A r \in Request : \A o \in locked[r] :
       TxOf[o] \in deposits /\ \A s \in Request : o \in locked[s] => s = r

LEMMA PromiseInit == Init => PromiseInv
BY DEF Init, ContractInit, PromiseInv

\* A step that only adds deposits and requests, keeps what transactions are
\* for and leaves the vault alone.
LEMMA PromiseKept ==
  ASSUME PromiseInv, deposits \subseteq deposits', Asked \subseteq Asked',
         redeems' \subseteq Asked', UNCHANGED locked,
         \A t \in TxId : tx'[t] # NONE =>
           tx'[t].ref \in deposits \cup Asked \/ (tx[t] # NONE /\ tx'[t].ref = tx[t].ref),
         pc' \in {"mint", "prepare", "call", "wait", "record"} =>
           \/ todo' \subseteq deposits \cup Asked
           \/ todo' \subseteq todo /\ pc \in {"mint", "prepare", "call", "wait", "record"}
  PROVE  PromiseInv'
BY DEF PromiseInv

LEMMA PromiseNext == MgrInv /\ PromiseInv /\ [Next]_vars => PromiseInv'
<1> SUFFICES ASSUME MgrInv, PromiseInv, [Next]_vars PROVE PromiseInv'
  OBVIOUS
<1> USE MgrAssumption DEF MgrInv, TypeOK, stateTables, loop, PromiseInv
<1>1. ASSUME NEW b \in BtcTx, Deposit(b) PROVE PromiseInv'
  BY <1>1, PromiseKept DEF Deposit, contract, Asked
<1>a. ASSUME NEW b \in BtcTx, Rescan(b) PROVE PromiseInv'
  BY <1>a, PromiseKept DEF Rescan, contract, Asked
<1>2. CASE StateSynced
  BY <1>2, PromiseKept DEF StateSynced, contract, Asked
<1>3. CASE UserActs
  <2>1. Asked \subseteq Asked'
    BY <1>3, UserActsCall, UserCallsKeep, ContractAssumption
       DEF redeem_request, Asked, ContractTypeOK
  <2> QED BY <1>3, <2>1, PromiseKept, UserActsCall
<1>4. ASSUME NEW t \in TxId, Execute(t) PROVE PromiseInv'
  <2>1. UNCHANGED <<requests, deposits, redeems, locked, pc, todo>>
    BY <1>4 DEF Execute, mint, redeem_prepare, contract
  <2>2. \A u \in TxId : tx'[u] # NONE => tx[u] # NONE /\ tx'[u].ref = tx[u].ref
    BY <1>4 DEF Execute
  <2> QED BY <2>1, <2>2, PromiseKept DEF Asked
<1>5. ASSUME NEW t \in TxId, Drop(t) PROVE PromiseInv'
  <2>1. \A u \in TxId : tx'[u] # NONE => tx[u] # NONE /\ tx'[u].ref = tx[u].ref
    BY <1>5 DEF Drop
  <2> QED BY <1>5, <2>1, PromiseKept DEF Drop, contract, Asked
<1>6. CASE StartMint BY <1>6, PromiseKept DEF StartMint, contract, Asked
<1>7. ASSUME NEW b \in BtcTx, SkipMint(b) PROVE PromiseInv'
  BY <1>7, PromiseKept DEF SkipMint, NextItem, contract, Asked
<1>8. ASSUME NEW b \in BtcTx, SubmitMint(b) PROVE PromiseInv'
  <2>1. \A u \in TxId : tx'[u] # NONE => tx'[u].ref = b \/ tx'[u] = tx[u]
    BY <1>8 DEF SubmitMint, Submit
  <2>2. b \in deposits \cup Asked BY <1>8 DEF SubmitMint
  <2> QED BY <1>8, <2>1, <2>2, PromiseKept DEF SubmitMint, contract, Asked
<1>9. CASE Returned BY <1>9, PromiseKept DEF Returned, contract, Asked
<1>10. CASE NotReturned
  BY <1>10, PromiseKept DEF NotReturned, NextItem, contract, Asked
<1>11. CASE Record BY <1>11, PromiseKept DEF Record, InsertMonitoredTx, NextItem, contract, Asked
<1>12. CASE StartPrepare BY <1>12, PromiseKept DEF StartPrepare, contract, Asked
<1>13. ASSUME NEW r \in Request, SkipPrepare(r) PROVE PromiseInv'
  BY <1>13, PromiseKept DEF SkipPrepare, NextItem, contract, Asked
<1>14. ASSUME NEW r \in Request, LockOutpoints(r) PROVE PromiseInv'
  <2>1. PICK outs \in SUBSET Free : locked' = [locked EXCEPT ![r] = outs]
    BY <1>14 DEF LockOutpoints
  <2>2. locked[r] = {} /\ UNCHANGED <<requests, deposits, redeems, tx, todo>>
        /\ pc = "prepare"
    BY <1>14 DEF LockOutpoints, contract
  <2>3. \A s \in Request : \A o \in locked'[s] :
          TxOf[o] \in deposits /\ \A q \in Request : o \in locked'[q] => q = s
    BY <2>1, <2>2 DEF Free
  <2> QED BY <2>2, <2>3 DEF Asked
<1>15. CASE SubmitPrepare
  <2>1. \A u \in TxId : tx'[u] # NONE => tx'[u].ref = cur \/ tx'[u] = tx[u]
    BY <1>15 DEF SubmitPrepare, Submit
  <2>2. cur \in deposits \cup Asked BY <1>15 DEF SubmitPrepare, LoopInv
  <2> QED BY <1>15, <2>1, <2>2, PromiseKept DEF SubmitPrepare, contract, Asked
<1>16. CASE CallPrepareError
  BY <1>16, PromiseKept DEF CallPrepareError, RequesterMissing, NextItem, contract, Asked
<1>17. CASE StartMark BY <1>17, PromiseKept DEF StartMark, contract, Asked
<1>18. ASSUME NEW t \in TxId, MarkStatus(t) PROVE PromiseInv'
  <2>1. pc' \in {"mark", "found"} /\ UNCHANGED <<contract, stateTables, tx, locked>>
    BY <1>18 DEF MarkStatus, UpdateTxStatus, NextItem
  <2> QED BY <2>1, PromiseKept DEF contract, Asked
<1>19. ASSUME NEW t \in TxId, MarkError(t) PROVE PromiseInv'
  BY <1>19, PromiseKept DEF MarkError, NextItem, contract, Asked
<1>20. CASE UpdateFound BY <1>20, PromiseKept DEF UpdateFound, NextItem, contract, Asked
<1>21. CASE EndMark BY <1>21, PromiseKept DEF EndMark, contract, Asked
<1>22. CASE Crash BY <1>22, PromiseKept DEF Crash, contract, Asked
<1>23. CASE UNCHANGED vars BY <1>23, PromiseKept DEF vars, contract, Asked
<1> QED
  BY <1>1, <1>a, <1>2, <1>3, <1>4, <1>5, <1>6, <1>7, <1>8, <1>9, <1>10, <1>11, <1>12,
     <1>13, <1>14, <1>15, <1>16, <1>17, <1>18, <1>19, <1>20, <1>21, <1>22, <1>23
     DEF Next, Environment, MgrStep, procedureMint, procedurePrepare, CallReturns,
          procedureMarkTxStatus

-----------------------------------------------------------------------------
\* A step that changes no deposit, request, prepared redeem or settled
\* transaction is a stuttering step of the promise.
LEMMA PromiseStutter ==
  ASSUME UNCHANGED <<deposits, requests, prepared, tx>>
  PROVE  UNCHANGED Promise!promise
<1>1. \A x : Receipts(x)' = Receipts(x) BY DEF Receipts
<1> QED BY <1>1 DEF Promise!promise

\* The chain executes a transaction of the manager.
LEMMA ExecuteRefines ==
  ASSUME MgrInv, PromiseInv, NEW t \in TxId, Execute(t)
  PROVE  [Promise!Next]_Promise!promise
<1> USE MgrAssumption DEF MgrInv, TypeOK, stateTables, loop
<1>1. tx[t] \in Tx /\ tx[t] # NONE /\ tx[t].ref \in Ref /\ tx[t].state = "mempool"
  BY NoneMgrAssumption DEF Execute, Tx
<1>2. PICK s \in {"success", "reverted"} :
        /\ tx' = [tx EXCEPT ![t] = [ref |-> tx[t].ref, to |-> tx[t].to,
                                    outs |-> tx[t].outs, state |-> s,
                                    version |-> ledger + 1]]
        /\ s = "reverted" => UNCHANGED contract
        /\ s = "success" => \/ tx[t].ref \in BtcTx /\ mint(tx[t].ref, tx[t].to)
                            \/ tx[t].ref \in Request /\ redeem_prepare(tx[t].ref, tx[t].outs)
  BY DEF Execute
<1>3. UNCHANGED <<deposits, requests>>
  BY DEF Execute, mint, redeem_prepare, contract
<1>4. tx'[t] # NONE /\ tx'[t].ref = tx[t].ref /\ tx'[t].state = s
      /\ \A u \in TxId \ {t} : tx'[u] = tx[u]
  BY <1>1, <1>2, NoneMgrAssumption DEF Tx
<1>5. \A x : x # tx[t].ref \/ s = "reverted" => Receipts(x)' = Receipts(x)
  BY <1>1, <1>4 DEF Receipts
<1>6. ASSUME s = "success", Receipts(tx[t].ref) = {}
      PROVE  Promise!Settle(tx[t].ref, t)
  <2>1. \A x : x = tx[t].ref => Receipts(x)' = {t} BY <1>1, <1>4, <1>6 DEF Receipts
  <2>2. \A x \in Ref : Receipts(x)' = IF x = tx[t].ref THEN {t} ELSE Receipts(x)
    BY <1>5, <2>1
  <2>3. [x \in Ref |-> Receipts(x)]'
        = [x \in Ref |-> IF x = tx[t].ref THEN {t} ELSE Receipts(x)]
    BY <2>2
  <2>4. [x \in Ref |-> Receipts(x)]'
        = [[x \in Ref |-> Receipts(x)] EXCEPT ![tx[t].ref] = {t}]
    BY <2>3
  <2> QED BY <1>1, <1>6, <2>4 DEF Promise!Settle
<1>7. CASE s = "reverted"
  BY <1>2, <1>3, <1>5, <1>7 DEF Promise!promise, contract
<1>8. CASE s = "success" /\ tx[t].ref \in BtcTx
  <2>1. tx[t].ref \notin minted /\ UNCHANGED prepared
    BY <1>2, <1>8 DEF mint, redeem_prepare, CanMint
  <2>2. Receipts(tx[t].ref) = {} BY <1>8, <2>1 DEF Receipts, Facts, ChainInv
  <2>3. tx[t].ref \in deposits BY <1>1, <1>8 DEF PromiseInv, Asked
  <2>4. Promise!Credit(tx[t].ref, t)
    BY <1>3, <1>6, <1>8, <2>1, <2>2, <2>3 DEF Promise!Credit
  <2> QED BY <1>8, <2>4 DEF Promise!Next
<1>9. CASE s = "success" /\ tx[t].ref \in Request
  <2> DEFINE r == tx[t].ref
  <2>1. /\ prepared[r] = {} /\ tx[t].outs # {}
        /\ prepared' = [prepared EXCEPT ![r] = tx[t].outs]
    BY <1>2, <1>9 DEF mint, redeem_prepare, CanPrepare
  <2>2. Receipts(r) = {} BY <1>9, <2>1 DEF Receipts, Facts, ChainInv
  <2>3. r \in Asked BY <1>1, <1>9 DEF PromiseInv
  <2>4. tx[t].outs = locked[r] /\ tx[t].outs \in SUBSET Outpoint
    BY <1>1, <1>9 DEF Facts, ChainInv, Tx
  <2>5. \A o \in tx[t].outs :
          TxOf[o] \in deposits /\ \A q \in Request : o \notin prepared[q]
    BY <1>9, <2>1, <2>4 DEF PromiseInv, Facts, PreparedFromVault
  <2>6. Promise!Assign(r, tx[t].outs, t)
    BY <1>3, <1>6, <1>9, <2>1, <2>2, <2>3, <2>4, <2>5
       DEF Promise!Assign, Promise!Available, Asked
  <2> QED BY <1>9, <2>4, <2>6 DEF Promise!Next
<1> QED BY <1>1, <1>7, <1>8, <1>9 DEF Ref

LEMMA PromiseStep ==
  MgrInv /\ PromiseInv /\ [Next]_vars => [Promise!Next]_Promise!promise
<1> SUFFICES ASSUME MgrInv, PromiseInv, [Next]_vars
             PROVE  [Promise!Next]_Promise!promise
  OBVIOUS
<1> USE DEF stateTables, contract
<1>1. ASSUME NEW b \in BtcTx, Deposit(b) PROVE [Promise!Next]_Promise!promise
  <2>1. \A x : Receipts(x)' = Receipts(x) BY <1>1 DEF Deposit, Receipts
  <2>2. Promise!Observe(b) BY <1>1, <2>1 DEF Deposit, Promise!Observe
  <2> QED BY <2>2 DEF Promise!Next
<1>2. CASE UserActs
  <2>1. \A x : Receipts(x)' = Receipts(x) BY <1>2, UserActsCall DEF Receipts
  <2>2. UNCHANGED <<deposits, minted, prepared>> BY <1>2, UserActsCall, UserCallsKeep
  <2>3. CASE UNCHANGED requests BY <2>1, <2>2, <2>3 DEF Promise!promise
  <2>4. ASSUME NEW user \in Account, NEW r \in Request, NEW amount \in Amounts,
               redeem_request(user, r, amount)
        PROVE  [Promise!Next]_Promise!promise
    <3>1. [who |-> user, amount |-> amount] # NONE BY ContractAssumption
    <3>2. Asked' = Asked \cup {r}
      BY <2>4, <3>1 DEF redeem_request, Asked, MgrInv, TypeOK, ContractTypeOK
    <3>3. Promise!Ask(r) BY <2>1, <2>2, <2>4, <3>2 DEF Promise!Ask, Asked
    <3> QED BY <3>3 DEF Promise!Next
  <2> QED BY <1>2, <2>3, <2>4, UserActsCall, UserCallsKeep
<1>3. ASSUME NEW t \in TxId, Execute(t) PROVE [Promise!Next]_Promise!promise
  BY <1>3, ExecuteRefines
<1>4. ASSUME NEW t \in TxId, Drop(t) PROVE [Promise!Next]_Promise!promise
  <2>1. tx[t] \in Tx /\ tx[t].state = "mempool" BY <1>4 DEF Drop, MgrInv, TypeOK
  <2>2. \A x : Receipts(x)' = Receipts(x)
    BY <1>4, <2>1, NoneMgrAssumption DEF Drop, Receipts, MgrInv, TypeOK
  <2> QED BY <1>4, <2>2 DEF Drop, Promise!promise
<1>5. ASSUME NEW t \in TxId, tx[t] = NONE, NEW ref, NEW to, NEW outs,
             Submit(t, ref, to, outs), UNCHANGED <<deposits, contract>>
      PROVE  UNCHANGED Promise!promise
  <2>1. \A x : Receipts(x)' = Receipts(x)
    BY <1>5 DEF Submit, Receipts, MgrInv, TypeOK
  <2> QED BY <1>5, <2>1 DEF Promise!promise
<1>6. ASSUME NEW b \in BtcTx, SubmitMint(b) PROVE UNCHANGED Promise!promise
  BY <1>5, <1>6 DEF SubmitMint, Submit
<1>7. CASE SubmitPrepare BY <1>5, <1>7 DEF SubmitPrepare, Submit
<1>8. ASSUME \/ \E b \in BtcTx : Rescan(b)
             \/ StateSynced \/ StartMint \/ Returned \/ NotReturned \/ Record
             \/ \E b \in BtcTx : SkipMint(b)
      PROVE  UNCHANGED Promise!promise
  BY <1>8, PromiseStutter DEF Rescan, StateSynced, StartMint, Returned, NotReturned,
     Record, SkipMint
<1>9. ASSUME \/ StartPrepare \/ CallPrepareError \/ StartMark \/ UpdateFound \/ EndMark
             \/ \E r \in Request : SkipPrepare(r) \/ LockOutpoints(r)
             \/ \E t \in TxId : MarkStatus(t) \/ MarkError(t)
             \/ Crash \/ UNCHANGED vars
      PROVE  UNCHANGED Promise!promise
  BY <1>9, PromiseStutter DEF StartPrepare, CallPrepareError, RequesterMissing, StartMark, UpdateFound,
     EndMark, SkipPrepare, LockOutpoints, MarkStatus, MarkError, Crash, vars
<1> QED
  BY <1>1, <1>2, <1>3, <1>4, <1>6, <1>7, <1>8, <1>9
     DEF Next, Environment, MgrStep, procedureMint, procedurePrepare, CallReturns,
         procedureMarkTxStatus

\* Manager, worker, vault and contract implement BridgePromise: for every set
\* of deposits, requests and transactions and every subset of the faults, a
\* deposit is credited by one transaction after it was observed, and a redeem
\* gets outpoints of its own, once, after it was asked for.
THEOREM MgrKeepsPromise == Spec => KeepsPromise
<1>1. Init => Promise!Init
  <2> SUFFICES ASSUME Init PROVE Promise!Init
    OBVIOUS
  <2>1. \A x : Receipts(x) = {} BY DEF Init, Receipts
  <2> QED BY <2>1 DEF Init, ContractInit, Promise!Init, Ref
<1>2. Spec => []PromiseInv
  BY PromiseInit, PromiseNext, MgrInvariant, PTL DEF Spec
<1> QED
  BY <1>1, <1>2, PromiseStep, MgrInvariant, PTL DEF Spec, KeepsPromise, Promise!Spec
=============================================================================
