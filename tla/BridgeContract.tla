--------------------------- MODULE BridgeContract ---------------------------
(***************************************************************************)
(* The Move modules btc_bridge and btc_token on Aptos.  An entry function  *)
(* runs to its end or aborts and changes nothing, so that each is one      *)
(* action whose guard is the conjunction of its asserts.  Strings are      *)
(* model values.  The signer of mint and redeem_prepare is the admin.      *)
(***************************************************************************)
EXTENDS Naturals, FiniteSetsExt

CONSTANTS
  Account,      \* Aptos addresses
  Registered,   \* the accounts that can hold BTC coins from the start
  FeeAccount,   \* fee_account
  Fee,          \* fee
  MaxSupply,    \* MAX_BTC_SUPPLY
  BtcTx,        \* BTC tx ids
  Deposited,    \* [BtcTx -> satoshi], the deposits
  Request,      \* redeem request tx hashes
  Outpoint,     \* (BTC tx id, index) pairs
  TxOf,         \* [Outpoint -> BtcTx]
  Amounts,      \* bound: the amounts users redeem
  Transfers,    \* bound: the amounts users transfer to each other
  Source,       \* which of the two source trees is deployed
  NONE          \* no request under this hash

ASSUME ContractAssumption ==
  /\ Registered \subseteq Account /\ FeeAccount \in Registered
  /\ Fee \in Nat \ {0} /\ MaxSupply \in Nat
  /\ Deposited \in [BtcTx -> Nat]
  /\ TxOf \in [Outpoint -> BtcTx]
  /\ Amounts \subseteq Nat /\ Transfers \subseteq Nat
  /\ NONE \notin [who: Account, amount: Nat]
  /\ Source \in {"aptos_contract", "aptoscontract"}

\* Addresses have a fixed size.
ASSUME AccountAssumption == IsFiniteSet(Account)

VARIABLES
  registered, \* the accounts with a CoinStore<BTC>
  balance,    \* what is in it
  supply,     \* coin::supply<BTC>
  minted,     \* MintedTransactions.minted
  requests,   \* the redeem_request_events, by tx hash
  prepared,   \* PreparedRedeems: the outpoints of a prepared redeem, else {}
  used        \* UsedBtcTxIds.used

contract == <<registered, balance, supply, minted, requests, prepared, used>>

ContractTypeOK ==
  /\ registered \subseteq Account /\ FeeAccount \in registered
  /\ balance \in [Account -> Nat]
  /\ supply \in Nat
  /\ minted \subseteq BtcTx
  /\ requests \in [Request -> [who: Account, amount: Nat] \cup {NONE}]
  /\ prepared \in [Request -> SUBSET Outpoint]
  /\ used \subseteq BtcTx

\* initialize
ContractInit ==
  /\ registered = Registered
  /\ balance = [a \in Account |-> 0]
  /\ supply = 0
  /\ minted = {}
  /\ requests = [r \in Request |-> NONE]
  /\ prepared = [r \in Request |-> {}]
  /\ used = {}

-----------------------------------------------------------------------------
\* Mutant: the search for btc_tx_id in the minted list is dropped.
MutantCanMint(b, to) ==
  Deposited[b] > Fee /\ supply + Deposited[b] <= MaxSupply /\ to \in registered

\* The asserts of mint and of mint_tokens.
CanMint(b, to) ==
  /\ Deposited[b] > Fee
  /\ b \notin minted
  /\ supply + Deposited[b] <= MaxSupply
  /\ to \in registered

\* The receiver gets the whole amount; only the event has the fee taken off.
mint(b, to) ==
  /\ CanMint(b, to)
  /\ balance' = [balance EXCEPT ![to] = @ + Deposited[b]]
  /\ supply' = supply + Deposited[b]
  /\ minted' = minted \cup {b}
  /\ UNCHANGED <<registered, requests, prepared, used>>

\* register: the signer gets a CoinStore, unless it has one.
register(user) ==
  /\ registered' = registered \cup {user}
  /\ UNCHANGED <<balance, supply, minted, requests, prepared, used>>

\* coin::transfer
Moved(from, to, amount) ==
  LET paid == [balance EXCEPT ![from] = @ - amount]
  IN  [paid EXCEPT ![to] = @ + amount]

\* transfer: aborts unless the sender has the amount and the receiver a CoinStore.
transfer(from, to, amount) ==
  /\ {from, to} \subseteq registered
  /\ balance[from] >= amount
  /\ balance' = Moved(from, to, amount)
  /\ UNCHANGED <<registered, supply, minted, requests, prepared, used>>

\* Mutant: the supply shrinks although no holder pays for it.
MutantBurnFrom(amount) == supply' = supply - amount

\* Fresh coins are minted and burnt; the account only needs the balance.
burn_from(amount) == UNCHANGED supply

\* What redeem_request transfers to the fee account and what it burns, in
\* aptos_contract/contract/sources ...
Charge(amount) == [fee |-> Fee, burn |-> amount - Fee]

\* ... and in aptoscontract/source, which takes the whole amount for a fee.
ChargeAll(amount) == [fee |-> amount, burn |-> amount]

redeem_request(user, r, amount) ==
  LET charge == IF Source = "aptos_contract" THEN Charge(amount) ELSE ChargeAll(amount)
  IN  /\ requests[r] = NONE                   \* a tx hash is used once
      /\ user \in registered
      /\ amount > Fee
      /\ balance[user] >= charge.fee          \* transfer
      /\ balance' = Moved(user, FeeAccount, charge.fee)
      /\ balance'[user] >= charge.burn        \* burn_from
      /\ burn_from(charge.burn)
      /\ requests' = [requests EXCEPT ![r] = [who |-> user, amount |-> amount]]
      /\ UNCHANGED <<registered, minted, prepared, used>>

\* Mutant: the used list is not searched.
MutantCanPrepare(r, outs) == prepared[r] = {} /\ outs # {}

\* A BTC tx id is used up as a whole, whatever the index of the outpoint.
CanPrepare(r, outs) ==
  /\ prepared[r] = {}
  /\ outs # {}
  /\ \A o \in outs : TxOf[o] \notin used

MarkUsed(outs) == used \cup {TxOf[o] : o \in outs}

redeem_prepare(r, outs) ==
  /\ CanPrepare(r, outs)
  /\ prepared' = [prepared EXCEPT ![r] = outs]
  /\ used' = MarkUsed(outs)
  /\ UNCHANGED <<registered, balance, supply, minted, requests>>

-----------------------------------------------------------------------------
(* The contract by itself: an admin that mints deposits and prepares        *)
(* redeems in any order, and users that register, transfer and redeem.      *)
UserCalls ==
  \/ \E user \in Account : register(user)
  \/ \E from, to \in Account, amount \in Transfers : transfer(from, to, amount)
  \/ \E user \in Account, r \in Request, amount \in Amounts :
       redeem_request(user, r, amount)

ContractNext ==
  \/ UserCalls
  \/ \E b \in BtcTx, to \in Account : mint(b, to)
  \/ \E r \in Request, outs \in SUBSET Outpoint : redeem_prepare(r, outs)

ContractSpec == ContractInit /\ [][ContractNext]_contract

Total(f) == MapThenSumSet(LAMBDA x : f[x], DOMAIN f)

\* The supply is what the accounts hold together, through mints, transfers, fees
\* and redeems: burn_from, which mints before it burns, does not skew it.
SupplyIsHeld == supply = Total(balance)

\* Two prepared redeems never claim outpoints of the same BTC transaction.
OutpointsNotShared ==
  \A r, s \in Request :
    r # s =>
      {TxOf[o] : o \in prepared[r]} \cap {TxOf[o] : o \in prepared[s]} = {}

\* Tokens come from deposits only: minting one deposit twice is impossible.
SupplyIsDeposited == supply <= MapThenSumSet(LAMBDA b : Deposited[b], minted)

\* Through mints, transfers, fees and redeems the supply is what the accounts
\* hold, and no more than the minted deposits brought, each counted once;
\* it may be less, by what redeem_request says it burns.
SupplyRight == SupplyIsHeld /\ SupplyIsDeposited

\* btc_bridge.move on redeem_request: "It emits an event to notify bridge
\* nodes and burn BTC tokens".  What is redeemed in BTC is no longer held as
\* tokens: holdings and redeemed amounts never exceed the deposits.
Backed ==
  Total(balance)
    + MapThenSumSet(LAMBDA r : IF requests[r] = NONE THEN 0 ELSE requests[r].amount - Fee,
                    Request)
  <= MapThenSumSet(LAMBDA b : Deposited[b], minted)
=============================================================================
