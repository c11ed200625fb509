------------------------------ MODULE BtcWallet ------------------------------
(***************************************************************************)
(* The money on the Bitcoin side: the transactions the bridge and its      *)
(* users build (package btcman/assembler, BtcUser, BtcTxManager), how the  *)
(* monitor recognises them (btcman/utils), and the vault that gives their  *)
(* outputs to redeems.  Amounts, outputs and change are exact; blocks,     *)
(* channels and the single writes of the tables are in BtcSide and Vault,  *)
(* and are one step each here.                                             *)
(*                                                                         *)
(* Every address is one key pair's, and signatures are deterministic: a    *)
(* transaction is its inputs and outputs.                                  *)
(***************************************************************************)
EXTENDS Integers, SequencesExt, FiniteSetsExt

CONSTANTS
  User,           \* Bitcoin users, and their addresses
  Bridge,         \* the address of the bridge
  Genesis,        \* the users' coins at the start; the bridge's address is new
  Account,        \* receivers users name: 20-byte and 32-byte addresses
  EvmAddress,     \* 20-byte addresses
  Last20,         \* [Account -> EvmAddress], the last 20 bytes of an address
  DepositAmounts, TransferAmounts, UserFees,   \* what users choose from
  Request,        \* redeem requests
  RedeemAmount,   \* [Request -> satoshi]
  RedeemReceiver, \* [Request -> address]
  SafeMargin,     \* SAFE_MARGIN of the vault
  BtcTxFee,       \* BTC_TX_FEE of the tx manager
  MaxTx,          \* bound: number of transactions
  MaxFaults,      \* bound: number of faults
  NONE

Address == User \cup {Bridge}

\* What an OP_RETURN carries: a deposit an account, a payout its request; other
\* software may put something else there, or nothing at all.
Foreign == [other: {"malformed", "bare"}]
Data == [account: EvmAddress] \cup [request: Request] \cup Foreign

\* An output pays an address, or has no value and carries data.
Output == [to: Address \cup {NONE}, value: Nat, data: Data \cup {NONE}]

\* An output of a transaction: its number, and its place from 1 on.
OutRef == (1..MaxTx) \X (1..3)

\* What a transaction is for, which only the properties look at.
Purpose == [kind: {"genesis"}]
      \cup [kind: {"deposit"}, value: Nat, fee: Nat, account: Account]
      \cup [kind: {"transfer"}, value: Nat, fee: Nat, to: Address]
      \cup [kind: {"payout"}, request: Request]

ASSUME WalletAssumption ==
  /\ Bridge \notin User /\ NONE \notin Address \cup Data \cup EvmAddress \cup Request
  /\ Last20 \in [Account -> EvmAddress]
  /\ \A a \in Account \cap EvmAddress : Last20[a] = a
  /\ Genesis \in Seq([to: User, value: Nat, data: {NONE}]) /\ Len(Genesis) <= 3
  /\ DepositAmounts \subseteq Nat \ {0} /\ TransferAmounts \subseteq Nat \ {0}
  /\ UserFees \subseteq Nat
  /\ RedeemAmount \in [Request -> Nat \ {0}] /\ RedeemReceiver \in [Request -> Address]
  /\ SafeMargin \in Nat /\ BtcTxFee \in Nat /\ BtcTxFee <= SafeMargin
  /\ MaxTx \in Nat \ {0} /\ MaxFaults \in Nat

VARIABLES
  tx,        \* the transactions the node has taken
  mined,     \* those in a block
  inspected, \* those the monitor has inspected
  credit,    \* table mint: per transaction, NONE or account and value
  known,     \* the vault's rows
  worth,     \* their column amount
  linked,    \* their column linked_id; a row with one is locked
  prepared,  \* the redeems prepared in the state, and their outpoints
  sent,      \* table btc_action_redeem
  faults     \* bound: faults so far

node  == <<tx, mined>>
vault == <<known, worth, linked>>
vars  == <<node, inspected, credit, vault, prepared, sent, faults>>

TypeOK ==
  /\ tx \in Seq([ins: SUBSET OutRef, outs: Seq(Output), for: Purpose])
  /\ Len(tx) <= MaxTx
  /\ mined \subseteq 1..Len(tx) /\ inspected \subseteq mined
  /\ credit \in [1..MaxTx -> [account: EvmAddress, value: Nat] \cup {NONE}]
  /\ known \subseteq OutRef /\ worth \in [known -> Nat]
  /\ linked \in [known -> Request \cup {NONE}]
  /\ prepared \in [Request -> SUBSET OutRef]
  /\ sent \subseteq Request
  /\ faults \in 0..MaxFaults

Init ==
  /\ tx = <<[ins |-> {}, outs |-> Genesis, for |-> [kind |-> "genesis"]]>>
  /\ mined = {1} /\ inspected = {1}
  /\ credit = [n \in 1..MaxTx |-> NONE]
  /\ known = {} /\ worth = <<>> /\ linked = <<>>
  /\ prepared = [r \in Request |-> {}]
  /\ sent = {} /\ faults = 0

Fault == faults < MaxFaults /\ faults' = faults + 1

-----------------------------------------------------------------------------
(* The Bitcoin node                                                         *)

At(ref) == tx[ref[1]].outs[ref[2]]

Refs == {ref \in OutRef : ref[1] <= Len(tx) /\ ref[2] <= Len(tx[ref[1]].outs)}

\* Not spent by a transaction the node has taken.
Unspent == {ref \in Refs : \A n \in 1..Len(tx) : ref \notin tx[n].ins}

Value(refs) == MapThenSumSet(LAMBDA ref : At(ref).value, refs)

OutValue(outs) == FoldSeq(LAMBDA out, sum : out.value + sum, 0, outs)

\* The inputs that the signature scripts of one key unlock.
Unlock(by, ins) == {ref \in ins : At(ref).to = by}

\* The node takes a transaction that spends unspent outputs, all of them
\* unlocked, and no more than their value.
Takes(by, ins, outs) ==
  /\ ins # {} /\ ins \subseteq Unspent /\ Unlock(by, ins) = ins
  /\ OutValue(outs) <= Value(ins)

Broadcast(by, ins, outs, for) ==
  /\ Len(tx) < MaxTx
  /\ Takes(by, ins, outs)
  /\ tx' = Append(tx, [ins |-> ins, outs |-> outs, for |-> for])

Mine(n) ==
  /\ n \in 1..Len(tx) /\ n \notin mined
  /\ \A ref \in tx[n].ins : ref[1] \in mined
  /\ mined' = mined \cup {n}
  /\ UNCHANGED <<tx, inspected, credit, vault, prepared, sent, faults>>

-----------------------------------------------------------------------------
(* The assembler                                                            *)

Pay(to, value) == [to |-> to, value |-> value, data |-> NONE]

NullData(data) == [to |-> NONE, value |-> 0, data |-> data]

MutantChange(sum, amount, fee) == sum - amount   \* mutant: the fee is kept too

Change(sum, amount, fee) == sum - amount - fee

\* The last output, unless nothing is left for it.
WithChange(outs, to, change) == IF change > 0 THEN Append(outs, Pay(to, change)) ELSE outs

\* craftTransferOutOutput
TransferOutputs(sum, to, amount, fee, back) ==
  WithChange(<<Pay(to, amount)>>, back, Change(sum, amount, fee))

\* HexToAddress keeps the last 20 bytes and reports no error.
EvmAddrToByteArray(account) == Last20[account]

\* MakeDepositOpReturnData, MakeRedeemOpReturnData
DepositData(account) == [account |-> EvmAddrToByteArray(account)]
RedeemData(r) == [request |-> r]

\* craftBridgeDepositOutputs
DepositOutputs(sum, amount, fee, back, account) ==
  WithChange(<<Pay(Bridge, amount), NullData(DepositData(account))>>,
             back, Change(sum, amount, fee))

\* craftRedeemOutput
RedeemOutputs(sum, to, amount, fee, r) ==
  WithChange(<<Pay(to, amount), NullData(RedeemData(r))>>,
             Bridge, Change(sum, amount, fee))

-----------------------------------------------------------------------------
(* BtcUser                                                                  *)

\* GetUtxos: confirmed outputs.
Utxos(u) == {ref \in Unspent : ref[1] \in mined /\ At(ref).to = u}

\* SelectUtxo: in the order the node lists them, until the sum is larger.
Select(utxos, amount, fee) ==
  {S \in SUBSET utxos :
     /\ Value(S) > amount + fee
     /\ \E last \in S : Value(S \ {last}) <= amount + fee}

\* Otherwise the balance is too low, or nothing can be selected.
CanSpend(u, amount, fee) == Value(Utxos(u)) >= amount + fee

DepositToBridge(u, amount, fee, account) ==
  /\ CanSpend(u, amount, fee)
  /\ \E S \in Select(Utxos(u), amount, fee) :
       Broadcast(u, S, DepositOutputs(Value(S), amount, fee, u, account),
                 [kind |-> "deposit", value |-> amount, fee |-> fee, account |-> account])
  /\ UNCHANGED <<mined, inspected, credit, vault, prepared, sent, faults>>

TransferOut(u, amount, fee, to) ==
  /\ CanSpend(u, amount, fee)
  /\ \E S \in Select(Utxos(u), amount, fee) :
       Broadcast(u, S, TransferOutputs(Value(S), to, amount, fee, u),
                 [kind |-> "transfer", value |-> amount, fee |-> fee, to |-> to])
  /\ UNCHANGED <<mined, inspected, credit, vault, prepared, sent, faults>>

\* Other software pays the bridge, with an OP_RETURN of its own.
ForeignTransfer(u, amount, fee, data) ==
  /\ \E S \in SUBSET Utxos(u) :
       /\ Value(S) >= amount + fee
       /\ Broadcast(u, S, WithChange(<<Pay(Bridge, amount), NullData(data)>>,
                                    u, Change(Value(S), amount, fee)),
                    [kind |-> "transfer", value |-> amount, fee |-> fee, to |-> Bridge])
  /\ UNCHANGED <<mined, inspected, credit, vault, prepared, sent, faults>>

-----------------------------------------------------------------------------
(* The monitor                                                              *)

PaysBridge(out) == out.to = Bridge /\ out.value # 0

\* MaybeDepositTx: the first output pays the bridge, the second carries data.
MaybeDepositTx(outs) == Len(outs) >= 2 /\ PaysBridge(outs[1]) /\ outs[2].data # NONE

\* Mutant: data that is not a deposit's is decoded to some account.
MutantDecodes(data) == IF DOMAIN data = {"account"} THEN data.account
                                                    ELSE CHOOSE a \in EvmAddress : TRUE

MutantRaw(data) == data   \* mutant: the data is stored as it is

\* DecodeOpReturnData: a list of chain id and account.  The request hash of a
\* payout, 32 bytes, is none, and neither is what other software may write.
Decoded(data) == IF DOMAIN data = {"account"} THEN data.account ELSE NONE

\* The script is OP_RETURN alone: DecodeOpReturnData cuts off two bytes of one,
\* which ends the process before anything of the transaction is stored.
Panics(outs) == MaybeDepositTx(outs) /\ outs[2].data = [other |-> "bare"]

\* CraftDepositAction and the mint observer: a first notification is stored.
Credited(n) ==
  IF /\ MaybeDepositTx(tx[n].outs) /\ credit[n] = NONE
     /\ Decoded(tx[n].outs[2].data) # NONE
  THEN [credit EXCEPT ![n] = [account |-> Decoded(tx[n].outs[2].data),
                              value |-> tx[n].outs[1].value]]
  ELSE credit

MutantTransfers(n) ==   \* mutant: the outputs are counted without the data
  {<<n, v>> : v \in {v \in 1..2 : \E i \in DOMAIN tx[n].outs :
     PaysBridge(tx[n].outs[i]) /\ v = IF i = 3 THEN 2 ELSE i}}

\* MaybeJustTransfer: whatever pays the bridge.
Transfers(n) == {<<n, v>> : v \in {i \in DOMAIN tx[n].outs : PaysBridge(tx[n].outs[i])}}

\* The monitor finds the transaction in a block, for the first time or again,
\* and the observers store what they are told; the vault refuses a known row.
Inspect(n) ==
  /\ n \in mined /\ ~Panics(tx[n].outs)
  /\ inspected' = inspected \cup {n}
  /\ credit' = Credited(n)
  /\ LET new == Transfers(n) \ known
     IN /\ known' = known \cup new
        /\ worth' = [ref \in known' |-> IF ref \in new THEN At(ref).value ELSE worth[ref]]
        /\ linked' = [ref \in known' |-> IF ref \in new THEN NONE ELSE linked[ref]]
  /\ UNCHANGED <<node, prepared, sent, faults>>

-----------------------------------------------------------------------------
(* The vault and the redeems                                                *)

Rows(S) == MapThenSumSet(LAMBDA ref : worth[ref], S)

MutantSafeAmount(r) == RedeemAmount[r]   \* mutant: without the margin

SafeAmount(r) == RedeemAmount[r] + SafeMargin

Free == {ref \in known : linked[ref] = NONE}

\* QueryEnoughUTXOs: the free rows by falling amount, until they are enough.
Enough(S, amount) ==
  /\ S \subseteq Free /\ Rows(S) >= amount
  /\ \E last \in S :
       /\ Rows(S \ {last}) < amount
       /\ \A ref \in S : worth[ref] >= worth[last]
       /\ \A ref \in Free \ S : worth[ref] <= worth[last]

\* A redeem that is requested is given outpoints, once, and then prepared on
\* the other chain with them, unless the process stops in between.
Prepare(r) ==
  /\ prepared[r] = {}
  /\ \A ref \in known : linked[ref] # r
  /\ \E S \in SUBSET Free :
       /\ Enough(S, SafeAmount(r))
       /\ linked' = [ref \in known |-> IF ref \in S THEN r ELSE linked[ref]]
       /\ \/ prepared' = [prepared EXCEPT ![r] = S] /\ UNCHANGED faults
          \/ Fault /\ UNCHANGED prepared
  /\ UNCHANGED <<node, inspected, credit, known, worth, sent>>

MutantCollectUTXOs(r) == Free   \* mutant: outputs are selected when the payout is built

\* CollectUTXOs: the details of the redeem's outpoints.
CollectUTXOs(r) == prepared[r]

\* CreateBTCRedeemTx
Payout(r) ==
  LET ins == CollectUTXOs(r)
  IN [ins |-> ins,
      outs |-> RedeemOutputs(Rows(ins), RedeemReceiver[r], RedeemAmount[r], BtcTxFee, r),
      for |-> [kind |-> "payout", request |-> r]]

\* The change is not negative.
CanPay(r) == Change(Rows(CollectUTXOs(r)), RedeemAmount[r], BtcTxFee) >= 0

\* WithdrawBTC and InsertRedeem.  The node takes a payout again that it has and
\* has not mined.  The process may stop, or the insert fail, after SendRawTx.
Withdraw(r) ==
  /\ prepared[r] # {} /\ r \notin sent
  /\ CanPay(r)
  /\ LET p == Payout(r)
     IN \/ Broadcast(Bridge, p.ins, p.outs, p.for)
        \/ (\E n \in 1..Len(tx) : tx[n] = p /\ n \notin mined) /\ UNCHANGED tx
  /\ \/ sent' = sent \cup {r} /\ UNCHANGED faults
     \/ Fault /\ UNCHANGED sent
  /\ UNCHANGED <<mined, inspected, credit, vault, prepared>>

Next ==
  \/ \E u \in User, fee \in UserFees :
       \/ \E amount \in DepositAmounts, account \in Account :
            DepositToBridge(u, amount, fee, account)
       \/ \E amount \in TransferAmounts :
            \/ \E to \in Address : TransferOut(u, amount, fee, to)
            \/ \E data \in Foreign : ForeignTransfer(u, amount, fee, data)
  \/ \E n \in 1..MaxTx : Mine(n) \/ Inspect(n)
  \/ \E r \in Request : Prepare(r) \/ Withdraw(r)

Spec == Init /\ [][Next]_vars

-----------------------------------------------------------------------------
(* Properties                                                               *)

Payouts(r) == {n \in 1..Len(tx) : tx[n].for = [kind |-> "payout", request |-> r]}

\* A prepared redeem that was not paid can be paid: its outpoints are unspent,
\* are the bridge's, and cover amount and fee.  SAFE_MARGIN of one package has
\* to cover BTC_TX_FEE of another, and nobody else may spend what was given.
Payable ==
  \A r \in Request : prepared[r] # {} /\ Payouts(r) = {} =>
    /\ prepared[r] \subseteq Unspent
    /\ \A ref \in prepared[r] : At(ref).to = Bridge
    /\ Value(prepared[r]) >= RedeemAmount[r] + BtcTxFee

\* A redeem is paid once, in full and to its receiver, although a payout whose
\* record was lost is built and sent again.
PaidOnce ==
  \A r \in Request :
    /\ \A m, n \in Payouts(r) : m = n
    /\ \A n \in Payouts(r) : tx[n].outs[1] = Pay(RedeemReceiver[r], RedeemAmount[r])

\* A row the vault may give out is an unspent output of the bridge and worth
\* what the row says, change of payouts and plain transfers included.
FreeRowsUnspent ==
  \A ref \in Free : ref \in Unspent /\ At(ref).to = Bridge /\ At(ref).value = worth[ref]

\* What users deposit is credited in the amount they chose, to the account they
\* named or, when that is a 32-byte Aptos address, to its last 20 bytes (the
\* conversion loses the others); a transfer, with or without data of its own, a
\* change output or a payout, even one to the bridge itself, is never credited.
CreditsRight ==
  \A n \in inspected :
    credit[n] = IF tx[n].for.kind = "deposit"
                THEN [account |-> EvmAddrToByteArray(tx[n].for.account),
                      value |-> tx[n].for.value]
                ELSE NONE

\* What a transaction adds to the bridge's money.
Received(for) ==
  CASE for.kind = "genesis"  -> 0
    [] for.kind = "deposit"  -> for.value
    [] for.kind = "transfer" -> IF for.to = Bridge THEN for.value ELSE 0
    [] for.kind = "payout"   ->
         (IF RedeemReceiver[for.request] = Bridge THEN RedeemAmount[for.request] ELSE 0)
         - RedeemAmount[for.request] - BtcTxFee

\* The bridge holds what was deposited and transferred to it, less what it paid
\* out and the fees it paid: no change is lost.
FundsBalance ==
  Value({ref \in Unspent : At(ref).to = Bridge})
    = MapThenSumSet(LAMBDA n : Received(tx[n].for), 1..Len(tx))
=============================================================================
