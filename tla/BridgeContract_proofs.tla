------------------------ MODULE BridgeContract_proofs ------------------------
(* Proofs about BridgeContract for every set of accounts, deposits, redeems   *)
(* and outpoints, and for both source trees.                                  *)
EXTENDS BridgeContract, Sums

\* The BTC transactions of the outpoints of a prepared redeem.
TxIds(r) == {TxOf[o] : o \in prepared[r]}

\* The used list knows all of them.
UsedIsComplete == \A r \in Request : TxIds(r) \subseteq used

ContractInv == ContractTypeOK /\ UsedIsComplete /\ OutpointsNotShared

LEMMA ContractInvInit == ContractInit => ContractInv
BY ContractAssumption
   DEF ContractInit, ContractInv, ContractTypeOK, UsedIsComplete, OutpointsNotShared, TxIds

\* Only redeem_prepare writes the two lists, and it refuses a used tx id.
LEMMA ContractInvNext == ContractInv /\ [ContractNext]_contract => ContractInv'
<1> SUFFICES ASSUME ContractInv, [ContractNext]_contract PROVE ContractInv'
  OBVIOUS
<1> USE ContractAssumption DEF ContractInv, ContractTypeOK, UsedIsComplete,
                               OutpointsNotShared, TxIds
<1>1. ASSUME NEW b \in BtcTx, NEW to \in Account, mint(b, to) PROVE ContractInv'
  <2>1. Deposited[b] \in Nat OBVIOUS
  <2> QED BY <1>1, <2>1 DEF mint
<1>a. ASSUME NEW user \in Account, register(user) PROVE ContractInv'
  BY <1>a DEF register
<1>b. ASSUME NEW from \in Account, NEW to \in Account, NEW amount \in Transfers,
             transfer(from, to, amount)
      PROVE  ContractInv'
  <2>1. amount \in Nat OBVIOUS
  <2>2. balance' \in [Account -> Nat] BY <1>b, <2>1 DEF transfer, Moved
  <2> QED BY <1>b, <2>2 DEF transfer
<1>2. ASSUME NEW user \in Account, NEW r \in Request, NEW amount \in Amounts,
             redeem_request(user, r, amount)
      PROVE  ContractInv'
  <2>1. amount \in Nat /\ FeeAccount \in Account OBVIOUS
  <2>2. balance' \in [Account -> Nat]
    BY <1>2, <2>1 DEF redeem_request, Moved, Charge, ChargeAll
  <2>3. requests' \in [Request -> [who: Account, amount: Nat] \cup {NONE}]
    BY <1>2, <2>1 DEF redeem_request
  <2> QED BY <1>2, <2>2, <2>3 DEF redeem_request, burn_from
<1>3. ASSUME NEW r \in Request, NEW outs \in SUBSET Outpoint, redeem_prepare(r, outs)
      PROVE  ContractInv'
  <2>1. prepared' = [prepared EXCEPT ![r] = outs] /\ used' = used \cup {TxOf[o] : o \in outs}
    BY <1>3 DEF redeem_prepare, MarkUsed
  <2>2. \A o \in outs : TxOf[o] \notin used BY <1>3 DEF redeem_prepare, CanPrepare
  <2>3. ContractTypeOK' BY <1>3, <2>1 DEF redeem_prepare
  <2>4. UsedIsComplete' BY <2>1
  <2>5. OutpointsNotShared' BY <2>1, <2>2
  <2> QED BY <2>3, <2>4, <2>5
<1>4. CASE UNCHANGED contract BY <1>4 DEF contract
<1> QED BY <1>1, <1>a, <1>b, <1>2, <1>3, <1>4 DEF ContractNext, UserCalls

LEMMA ContractInvariant == ContractSpec => []ContractInv
BY ContractInvInit, ContractInvNext, PTL DEF ContractSpec

\* Balances never go below zero and the contract's resources keep their types:
\* the asserts of redeem_request cover what it takes.
THEOREM ContractTypeCorrect == ContractSpec => []ContractTypeOK
<1>1. ContractInv => ContractTypeOK BY DEF ContractInv
<1> QED BY <1>1, ContractInvariant, PTL

\* Two prepared redeems never claim outpoints of the same BTC transaction.
THEOREM OutpointsNotSharedTheorem == ContractSpec => []OutpointsNotShared
<1>1. ContractInv => OutpointsNotShared BY DEF ContractInv
<1> QED BY <1>1, ContractInvariant, PTL

-----------------------------------------------------------------------------
\* What all accounts hold, and what all minted deposits brought, as sums; one
\* mint after the other, there are finitely many.
SupplyInv ==
  /\ supply = SumOver(balance, Account)
  /\ supply <= SumOver(Deposited, minted)
  /\ IsFiniteSet(minted)

LEMMA SupplyIsSum == ContractTypeOK /\ SupplyInv => SupplyRight
<1> SUFFICES ASSUME ContractTypeOK, SupplyInv PROVE SupplyRight
  OBVIOUS
<1>1. DOMAIN balance = Account BY DEF ContractTypeOK
<1>2. Total(balance) = SumOver(balance, DOMAIN balance)
  BY DEF Total, SumOver, MapThenSumSet, MapThenFoldSet
<1>3. SupplyIsHeld BY <1>1, <1>2 DEF SupplyIsHeld, SupplyInv
<1>4. SupplyIsDeposited
  BY DEF SupplyIsDeposited, SupplyInv, SumOver, MapThenSumSet, MapThenFoldSet
<1> QED BY <1>3, <1>4 DEF SupplyRight

\* A sum of balances after one of them changed by d.
LEMMA PaidTotal ==
  ASSUME NEW v \in [Account -> Int], NEW x \in Account, NEW d \in Int
  PROVE  /\ [v EXCEPT ![x] = @ + d] \in [Account -> Int]
         /\ SumOver(v, Account) \in Int
         /\ SumOver([v EXCEPT ![x] = @ + d], Account) = SumOver(v, Account) + d
<1> DEFINE w == [v EXCEPT ![x] = @ + d]
<1>1. w \in [Account -> Int] /\ w[x] = v[x] + d /\ \A y \in Account \ {x} : w[y] = v[y]
  OBVIOUS
<1> HIDE DEF w
<1>2. SumOver(w, Account) = SumOver(v, Account) - v[x] + w[x]
  BY <1>1, SumChange, AccountAssumption
<1>3. SumOver(v, Account) \in Int BY SumRemove, AccountAssumption
<1>4. v[x] \in Int OBVIOUS
<1>5. SumOver(w, Account) = SumOver(v, Account) + d BY <1>1, <1>2, <1>3, <1>4
<1> QED BY <1>1, <1>3, <1>5 DEF w

\* A transfer, even one to oneself, moves tokens and makes or loses none.
LEMMA MovedKeepsTotal ==
  ASSUME NEW from \in Account, NEW to \in Account, NEW amount \in Nat,
         balance \in [Account -> Nat]
  PROVE  SumOver(Moved(from, to, amount), Account) = SumOver(balance, Account)
<1> DEFINE paid == [balance EXCEPT ![from] = @ + (-amount)]
<1>1. balance \in [Account -> Int] /\ amount \in Int /\ -amount \in Int OBVIOUS
<1>2. /\ paid \in [Account -> Int] /\ SumOver(balance, Account) \in Int
      /\ SumOver(paid, Account) = SumOver(balance, Account) + (-amount)
  BY <1>1, PaidTotal
<1>3. Moved(from, to, amount) = [paid EXCEPT ![to] = @ + amount] BY DEF Moved
<1> HIDE DEF paid
<1>4. SumOver([paid EXCEPT ![to] = @ + amount], Account) = SumOver(paid, Account) + amount
  BY <1>1, <1>2, PaidTotal
<1> QED BY <1>1, <1>2, <1>3, <1>4

LEMMA SupplyStep == ContractTypeOK /\ SupplyInv /\ [ContractNext]_contract => SupplyInv'
<1> SUFFICES ASSUME ContractTypeOK, SupplyInv, [ContractNext]_contract PROVE SupplyInv'
  OBVIOUS
<1> USE ContractAssumption DEF ContractTypeOK
<1>k. ASSUME UNCHANGED <<supply, minted>>,
             SumOver(balance', Account) = SumOver(balance, Account)
      PROVE  SupplyInv'
  BY <1>k DEF SupplyInv
<1>1. ASSUME NEW b \in BtcTx, NEW to \in Account, mint(b, to) PROVE SupplyInv'
  <2>1. /\ b \notin minted /\ minted' = minted \cup {b} /\ supply' = supply + Deposited[b]
        /\ balance' = [balance EXCEPT ![to] = balance[to] + Deposited[b]]
    BY <1>1 DEF mint, CanMint
  <2>2. /\ Deposited[b] \in Int /\ \A x \in minted \cup {b} : Deposited[x] \in Int
        /\ \A x \in Account : balance[x] \in Int /\ balance'[x] \in Int
        /\ \A x \in Account \ {to} : balance'[x] = balance[x]
        /\ balance'[to] = balance[to] + Deposited[b]
    BY <2>1
  <2>3. IsFiniteSet(minted) /\ IsFiniteSet(minted') BY <2>1, FS_AddElement DEF SupplyInv
  <2>4. /\ SumOver(Deposited, minted') = Deposited[b] + SumOver(Deposited, minted)
        /\ SumOver(Deposited, minted) \in Int
    BY <2>1, <2>2, <2>3, SumAdd, SumRemove
  <2>5. SumOver(balance', Account) = SumOver(balance, Account) - balance[to] + balance'[to]
    BY <2>2, SumChange, AccountAssumption
  <2> QED BY <2>1, <2>2, <2>3, <2>4, <2>5 DEF SupplyInv
<1>2. ASSUME NEW user \in Account, register(user) PROVE SupplyInv'
  BY <1>2, <1>k DEF register
<1>3. ASSUME NEW from \in Account, NEW to \in Account, NEW amount \in Transfers,
             transfer(from, to, amount)
      PROVE  SupplyInv'
  BY <1>3, <1>k, MovedKeepsTotal DEF transfer
<1>4. ASSUME NEW user \in Account, NEW r \in Request, NEW amount \in Amounts,
             redeem_request(user, r, amount)
      PROVE  SupplyInv'
  <2>1. PICK fee \in Nat : balance' = Moved(user, FeeAccount, fee)
    BY <1>4 DEF redeem_request, Charge, ChargeAll
  <2>2. SumOver(balance', Account) = SumOver(balance, Account) BY <2>1, MovedKeepsTotal
  <2> QED BY <1>4, <2>2, <1>k DEF redeem_request, burn_from
<1>5. ASSUME NEW r \in Request, NEW outs \in SUBSET Outpoint, redeem_prepare(r, outs)
      PROVE  SupplyInv'
  BY <1>5, <1>k DEF redeem_prepare
<1>6. CASE UNCHANGED contract BY <1>6, <1>k DEF contract
<1> QED BY <1>1, <1>2, <1>3, <1>4, <1>5, <1>6 DEF ContractNext, UserCalls

\* For any number of accounts and deposits and any order of mints, transfers
\* and redeems: the supply is what the accounts hold together, and no more
\* than the minted deposits brought, each counted once.
THEOREM SupplyRightTheorem == ContractSpec => []SupplyRight
<1>1. ContractInit => SupplyInv
  <2> SUFFICES ASSUME ContractInit PROVE SupplyInv
    OBVIOUS
  <2>1. \A x \in Account : balance[x] = 0 BY DEF ContractInit
  <2>2. SumOver(balance, Account) = 0 BY <2>1, SumZero, AccountAssumption
  <2> QED BY <2>2, SumEmpty, FS_EmptySet DEF SupplyInv, ContractInit
<1> QED BY <1>1, SupplyIsSum, SupplyStep, ContractTypeCorrect, PTL DEF ContractSpec
=============================================================================
