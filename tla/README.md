# Verification of the TEENet BTC bridge

TLA+ models of the bridge between Bitcoin and Aptos in this repository, TLC
configurations that check them on small instances, and TLAPS proofs of the main
results for every value of the constants. Paths below are relative to `src/`.

The bridge locks BTC in a wallet and issues a token for it on Aptos:

    Bitcoin deposit --> btcsync --> state, btcvault --> chaintxmgr --> contract: mint
    contract: redeem_request --> chainsync --> state --> chaintxmgr (with btcvault)
                        --> contract: redeem_prepare --> chainsync --> state
                        --> btctxmanager --> Bitcoin payout --> btcsync

One server process (`cmd/server.go`) runs all parts as goroutines. They share an
SQLite database and talk through Go channels. Nothing that spans two statements
is a transaction, and a restart keeps the tables and loses everything else.

## 1. Inventory

| Component | State | Operations | Meets the others through |
|---|---|---|---|
| Shared state, `state/` | tables `redeem`, `mint`, `kv`; four event channels; `errCh` | the `select` loop of `Start`, `SetNewBTC2EVMMint`, `SetRedeemCompleted` | channels from the synchronizer, calls from the observers, queries by both managers |
| BTC vault, `btcvault/` | table of UTXOs: `lockup`, `timeout`, `linked_id` | `AddUTXO`, `ChooseAndLock`, `ReleaseByExpire`, `ReleaseByCommand` | asked by the chain tx manager, filled by an observer, read by the BTC tx manager |
| Bridge contract, `aptos_contract/`, `aptoscontract/` | balances, supply, minted ids, prepared redeems, used BTC tx ids | `mint`, `redeem_request`, `redeem_prepare`; `register`, `transfer` of the token | transactions of the worker and of users; events |
| Chain tx manager, `chaintxmgr/`, `chaintxmgrdb/` | table of monitored transactions | `procedureMint`, `procedurePrepare`, `procedureMarkTxStatus` in one loop | state, vault, the Aptos worker |
| BTC monitor, `btcsync/` | `LastVistedBlockHeight`; a channel per observer | `Scan`, the publisher, the observers | Bitcoin node; writes deposits, `mint`, vault; completes rows of the BTC tx manager |
| BTC tx manager, `btctxmanager/`, `btcaction/` | table `btc_action_redeem` | `WithdrawLoop` | state, vault, Bitcoin node |
| Chain synchronizer, `chainsync/` | `LastChecked` | `NewChainSync`, `Loop` | event readers, the state's channels |
| Aptos client, `aptosman/` | none of its own | event readers, `DoMint`, `DoPrepare`, `GetTxStatus`, `IsMinted` | chain |
| Wallets and assembly, `cmd/btc_user.go`, `btcman/` | none: the Bitcoin node has it | `DepositToBridge`, `TransferOut`, the assembler, `MaybeDepositTx`, `MaybeJustTransfer` | users, BTC tx manager and monitor |
| Ethereum tx manager, `ethtxmanager/` | table `MonitoredTx`; locks per item, `errCh` | `Loop` with three tickers; a goroutine per item | state, vault, signer, `etherman/`; not started by the server |
| Ethereum client, `etherman/` | mutex, nonce | `Mint`, `RedeemPrepare`, queries, `GetEventLogs` | Ethereum node |
| Older synchronizers, `ethsync/`, `aptossync/` | `lastFinalized` | `Loop` | as `chainsync/`; not started by the server |
| Bridge server, `cmd/server.go` | configuration | wires and starts the parts | all |
| Signing, RPC, bindings, reporter, command line, helpers | - | - | see section 7 |

What is hard about it:

- **Interleaving.** The state loop and the mint observer both run the two
  statements of `UpdateMint`. The withdraw loop inserts the row of a payout that
  the monitor looks up. A vault release runs between the UPDATEs of a lock.
- **Rounds of goroutines.** The Ethereum manager starts a goroutine per item and
  waits for all of them; they share one nonce, one error channel and the vault.
- **Repetition and order.** Every block is scanned many times. Requested and
  prepared events come on two channels that `select` serves in any order. The
  synchronizer starts from a configured number after every restart, and tells
  the state what is finalized before it has read the events up to there.
- **Partial failure.** A call may fail after it had its effect (a submitted
  mint, a payout with the network); a database statement may fail between two
  that belong together; the process may stop anywhere.
- **Timeouts.** A poll that times out is taken for a transaction that did; a
  transaction that timed out may still be mined after it was sent again.
- **Boundaries.** The scan window, the maturity offset, the greedy choice of
  UTXOs, channels that are full, the page of the event reader, versions with an
  odd number of digits, a change output of nothing.
- **Assumptions across packages.** The vault's `SAFE_MARGIN` has to cover the
  payout's `BTC_TX_FEE`; a payout must not look like a deposit.

What makes the parts correct:

| Part | Properties |
|---|---|
| State | stored redeems are what the chain reported; no redeem is prepared twice, changed once prepared except to be completed, or revived once invalid; one prepare transaction backs one redeem; a minted deposit is never offered again |
| Vault | no UTXO for two redeems; a grant is kept; a grant is enough and not more |
| Contract | supply = holdings, and no more than the deposits minted; no BTC transaction serves two redeems; what is paid out is no longer held |
| Chain tx manager | one mint per deposit; the table says what the chain says; redeems are prepared with what the vault gave; deposits get minted |
| Bitcoin side | no block is missed; nothing immature is used; a payout row means a payout; what was lost is found again while it is in the window |
| Synchronizers | no event is skipped; every request, mint and prepare of the chain reaches its row; the state sees only what it can handle |
| Ethereum tx manager | nonces are distinct; a round ends; the table says what the chain says; the promise below |
| Both tx managers | a deposit is minted once; a redeem is prepared once, after it was requested, with outpoints of its own |
| Wallets | a prepared redeem can be paid, and is paid once and in full; free rows of the vault are unspent; a deposit, and nothing else, is credited, in full and to the bytes it carries; no money is lost in change |

The hazards with their lines and the properties that address them are listed
under `hazards` in `PROJECT.json`.

## 2. Modules

| Module | Models | Proofs | Instances |
|---|---|---|---|
| `BridgeState` | `state/` | `ChainSync_proofs` | `MCBridgeState` |
| `Vault` | `btcvault/` | `Vault_proofs` | `MCVault` |
| `BridgeContract` | the Move modules `btc_bridge`, `btc_token` | `BridgeContract_proofs` | `MCBridgeContract` |
| `ChainTxMgr` | `chaintxmgr/`, `chaintxmgrdb/`, the Aptos workers; EXTENDS `BridgeContract` | `ChainTxMgr_proofs` | `MCChainTxMgr` |
| `BtcSide` | `btcsync/`, `btctxmanager/`, `btcaction/` | `BtcSide_proofs` | `MCBtcSide` |
| `BridgePromise` | nothing: what a tx manager promises | refinements in `ChainTxMgr_proofs`, `EthTxMgr_proofs` | through the two managers |
| `EthTxMgr` | `ethtxmanager/`, `etherman/`, the signer's answers | `EthTxMgr_proofs` | `MCEthTxMgr` |
| `ChainSync` | `chainsync/`, `aptossync/`, `ethsync/`, the event readers; EXTENDS `BridgeState` | `ChainSync_proofs` | `MCChainSync` |
| `BtcWallet` | `cmd/btc_user.go`, `btcman/`, the payout, the vault's use of them | `BtcWallet_proofs` | `MCBtcWallet` |
| `Sums` | nothing: lemmas on sums over finite sets | itself | - |

The exact lines of every definition are under `map` in `PROJECT.json`.
Definitions whose name starts with `Mutant` are faulty variants of the
definition that follows; each property is violated when the definition named in
`PROJECT.json` is replaced by one of them, and no specification uses them.

### BridgeState

`redeem` and `mint` are the tables (`mint` is the column `mintTxHash`: a hash,
`ZeroHash` for 64 zeros, `NULL`, or `NoRow`). Each `case` of the `select` in
`Start` is one action (`HandleFinalized`, `HandleRequested`, `HandlePrepared`,
`ReceiveErr`), except the minted one: `UpdateMint` is two statements and the
observer runs it too, so its read and its write are separate steps
(`HandleMinted` / `HandleMintedWrite`, `ObserveDeposit` / `ObserveDepositWrite`).
The SQL constraints are modelled by what they refuse: `PRIMARY KEY` and `UNIQUE`
in `MintRefused` and `PrepareTaken`, `INSERT OR IGNORE` as a silent no-op, a
failing `UPDATE` as an error. `errCh` has room for one error and its only
receiver is the goroutine that sends: a second error leaves `loop = "blocked"`.
The synchronizer is the environment: any event of the chain, in any order,
repeated, one send at a time. (requester, receiver, amount) is one value
`terms`, since the code compares all three; `sound` and `validReceiver` are the
verdicts of the checks on the rest of an event. With `RedeemDoneObserver` the
observer of completed redeems is registered; `SetRedeemCompleted` then panics,
which ends the process. `RedeemLifecycle` allows the step from prepared to
completed that the function is meant to make (`state/state.go:373`): it would
hold of the repaired code as well.

### Vault

One step per `UPDATE` of `SetLockup`, `SetTimeout`, `SetLinkedID`. `lock` is the
`ChooseAndLock` that holds `updateMu`; `release` is a release in progress, which
does not take the mutex. `Enough` describes the greedy query as a set: the rows
by falling amount, as few as reach the target, ties in any order. `granted` and
`freed` are history variables. Both release operations exist in the code and the
server calls neither.

### BridgeContract

A Move entry function aborts without effect or runs to its end: one action each,
guarded by the asserts. The two source trees differ in what `redeem_request`
charges; the constant `Source` chooses. `registered` are the accounts with a
store for the token: others can neither be minted to nor sent tokens.
`burn_from` leaves the supply alone, as in the code it mints what it burns;
`SupplyRight` asks for a supply within the deposits, which a burn that burns
satisfies too.

### ChainTxMgr

`pc` is the place in the loop, `todo` the rest of the list at hand, `cur` and
`sent` the local variables of the transaction under way. Every call of the
worker, of the vault and of the database is a step, so that chain, users, state
tables, failures and stops come in between. The chain executes submitted
transactions with the actions of `BridgeContract`, in any order, or drops them.
`IsMinted` is constantly FALSE: the code searches the list of used redeem inputs
for raw bytes. `Tracked` ignores the status of a row, as `FilterMints` does. The
vault is reduced to what module `Vault` establishes: free outpoints, once per
request (`GrantsDisjoint`, `GrantKept`, without releases). `PrepareBy` chooses
the worker type whose `IsPrepared` and `DoPrepare` run; the rest of the worker is
`AptosSyncWorker`, which the server uses. `Rescan` is the monitor's second
notification of a deposit, which takes it out of `GetUnMinted`; it may come at
any time in every run. The loop is `MgrStep`: `procedureMint`,
`procedurePrepare`, `procedureMarkTxStatus`, with `CallReturns` for what follows
a submission.

### BridgePromise

The abstract specification of a tx manager with its vault and contract, free of
tables, calls and faults: `Observe` a deposit, `Ask` for a redeem, `Credit` a
deposit by one transaction, `Assign` outpoints nobody has to a redeem that was
asked for, by one transaction. Both managers implement it (`KeepsPromise`, an
`INSTANCE BridgePromise WITH`): `receipt` maps to the transactions that the chain
executed successfully for an item, `assigned` to the contract's prepared redeems.

### EthTxMgr

`loop` is the place of the `select`, `wg` the items the WaitGroup still counts,
`job` the place of every goroutine, `held` the locks of items, `err` the error
channel with its room for one. A tick is `StartMonitor`, `StartPrepare` or
`StartMint`; a goroutine is a sequence of steps, one per call (`Begin`,
`RequestOutpoints`, `Sign`, `GetAuthNonce`, `Send`, `Insert`), interleaved with
the others. `mu` is the mutex of `Etherman` between reading the nonce and
sending. Errors of `prepareRedeem` are logged, those of `mint` and of the
monitor are sent and end the loop. `SignerKills` is a signer that answers too
late (`waitForSignature` returns nil without an error) or cannot be reached: the
process ends. `Monitor` stores the receipt's status and then, mined or not,
replaces it by "timeout" for a transaction that is too old; `Unsent` sends those
again. The chain executes transactions in the order of their nonces and may
drop them. A block number is kept as an age.

### ChainSync

The synchronizer and the state as one system: `Tick` sends the finalized number,
`Fetch` reads the events, `Deliver` sends them one at a time into the channels of
`BridgeState`, `EndBatch` ends the batch or the round; `StateStep` is the state's
loop, `SyncRestart` a new process. `worker` says which of the
synchronizers runs: `chainsync` reads once per tick, `aptossync` all events
again for every version, `ethsync` block by block. `server` is `chainsync` as
`cmd/server.go` runs it, with the call of `state.Start` commented out
(`StateStarted`): nobody receives. The readers are modelled by
what they return: `Page` is the node's first page, whatever range was asked for;
`VersionHash` is the reading of a decimal version as hexadecimal, which loses
the last of an odd number of digits (`OddDigits`); `PreparedAt` exchanges the two
hashes of a prepared event, as the Aptos reader does. The ledger grows by
requests of users and by what the manager does from the state's tables.
`DepositSeen` is a notification of the monitor, the first or a repeated one: a
late one puts zeros over a recorded mint hash.

### BtcWallet

Bitcoin transactions with exact amounts: inputs, outputs, change, the data of an
`OP_RETURN`. A deposit carries what `EvmAddrToByteArray` leaves of its receiver:
the last 20 bytes (`Last20`), so that a 20-byte address is kept and a 32-byte
Aptos address is cut. `ForeignTransfer` is a payment by other software, with data
that does not decode, or with a bare `OP_RETURN`, on which `DecodeOpReturnData`
panics: no step of the monitor gets past such a transaction (`Panics`).
`DepositToBridge` and `TransferOut` are the user's operations,
`Withdraw` the bridge's payout with its second attempt after a lost record,
`Inspect` what the monitor and its observers make of a mined transaction,
`Prepare` the vault's choice for a redeem. `Takes` is the node: unspent inputs,
all unlocked by the sender's key, and no more out than in. The purpose of a
transaction (`for`) is history: the properties compare it with what the monitor
decodes from the outputs. Here the writes of one notification are one step;
their order is in `BtcSide` and `Vault`. `Genesis` are the coins the users have at
the start; the bridge's address is new and holds none.

### BtcSide

`Scan` is `StartScan` (first read of the height), `GetBlocks` (second read,
window), `VisitBlock` or `SkipBlock`, `InspectTx` per transaction, `EndScan`. The
publisher puts a notification into the observer's channel or, where it is full,
leaves it to a goroutine (`spill`). The observers are `Observe`. `WithdrawBTC`
and `InsertRedeem` are the two effects of a payout, with every error path around
them. `seen` and `covered` are history variables: the heights scans came to, and
the highest tip they covered. Faults (`May`) happen until the chain has height
`FaultsUntil`. `InReach(t)` says that they are over and that the block of `t` is
still within the window of the next scan; what has left the window by then may
be lost. A payout is a function of its redeem, so that `r`
stands for both.

## 3. Runs

Twelve runs; those marked V are expected to end in a violation and are
explained in section 5.

| Run | Checks | Shows |
|---|---|---|
| `state_safe` | `TypeOK RedeemRowsFaithful PrepareNotShared MintFaithful RedeemLifecycle MintNeverReopened` | conflicting, repeated and reordered events, the racing observer, failed statements and crashes corrupt neither table |
| `state_rescan` V | `EmptyUntilMinted` | a second notification hides a deposit |
| `vault_safe` | `GrantsDisjoint GrantMinimal GrantKept` | wherever an UPDATE fails, a release runs or the process stops, an unreleased UTXO has one holder and grants are exact |
| `contract_backed` V | `Backed` | tokens survive their redemption |
| `txmgr_safe` | `OneRowPerRef StatusTruthful PreparedFromVault StatusFinal KeepsPromise` | with every fault: one row per item, rows say what the chain says, and the whole implements `BridgePromise` |
| `txmgr_live` | `SupplyRight OutpointsNotShared DepositMinted TrackedSettles` | without faults, and with rescans at any time, a deposit is minted unless a rescan hides it first, and rows settle; the supply is what is held and within what was deposited; no BTC transaction serves two redeems |
| `txmgr_noprepare` V | `RedeemPrepared` | the server's worker never prepares a redeem |
| `btc` | `TypeOK NoBlockMissed OnlyMature RowsTruthful DepositReported PayoutRecorded` | the scan windows leave no gap, nothing immature is used, a row means a payout; what failed inserts, unread blocks and restarts lose, a later scan finds while the block is in its window |
| `eth` | `TypeOK NoncesDistinct RoundsClosed ResultsTruthful KeepsPromise` | concurrent goroutines, resent and dropped transactions and a fault anywhere: nonces do not collide, rounds end clean, and the manager implements `BridgePromise` |
| `sync_main` | `NothingSkipped RequestStored MintRecorded PreparedReachesEth FeedsState` | through full channels, repeated deposit notifications and a crash no readable event is skipped; with the state's loop started and hashes that do not collide, requests and mints reach their rows with every synchronizer, prepares with the Ethereum one; the composition implements `BridgeState` |
| `sync_prepared` V | `PreparedReachesAptos` | with the Aptos reader a prepared event does not reach its redeem |
| `wallet` | `TypeOK Payable PaidOnce FreeRowsUnspent CreditsRight FundsBalance` | deposits, transfers, payouts and change in amounts: what is prepared can be paid, is paid once, deposits alone are credited, and the books balance |

`CHECK_DEADLOCK FALSE` is used where the bounded system may stop (all deposits
minted, last block reached, all transactions used) and for the Ethereum
manager, whose loop really may stop (section 6). The state runs check for
deadlock.

### Bounds

- *State*: two requests, two prepare hashes, good, other and bad terms, two
  deposits, channels of one element. Each conflict the handlers can meet needs
  two rows or two events, and channels of one element interleave as freely as
  longer ones do since the environment may send anything at any time.
- *Vault*: UTXOs of 3, 2 and 2, requests of 3 and 2 with their margins, so that
  amounts tie, fit exactly or exceed, and a request takes one row or two,
  depending on which are there; the clock ticks once, and a lock expires in the
  next second.
- *Contract*: a deposit equal to the fee, two that fill the cap `MaxSupply`
  exactly, two outpoints of one BTC transaction, an account that cannot hold
  coins.
- *Chain tx manager*: two deposits, a redeem, three transactions, which
  leaves room for a resubmission; `TimeoutLedgers = 1`, so that a row can time
  out. The live run has two redeems that want outpoints of one deposit, four
  transactions, one for each item, and an account that registers on the way and
  can then be sent seven of the eight tokens; the violating run has one of each.
- *Bitcoin side*: `RETRO = 3` in place of 36, and a chain that grows from height 2
  to height 8, so that windows overlap, are cut off at the first block and leave
  blocks behind for good. Faults may happen up to height 6, long enough for a
  deposit or a payout to leave the window unrecorded. `MaxLag = 2`, how far the
  chain may be ahead of the scans; channels of one element, so that they fill.
- *Ethereum tx manager*: two redeems that compete for the outputs of one deposit,
  three transactions, so that one can be sent again after a timeout while the
  first is still alive; `Timeout = 0`: the next block is too late. One fault, of
  any of the seven kinds, at any step.
- *Synchronizers*: three ledger entries, of the versions 99, 100 and 101: one
  keeps its digits, two lose one and collide. A page of two events, so that a
  third of a kind does not fit; channels of one element; one crash. Three initial
  chains: without events, with a request, and with a request and its prepare and
  an entry of others in between. All three synchronizers, and the first without
  the state's loop, are in one run.
- *Wallets*: coins of 9 and 5, deposits of 3 and 7, so that selections need one
  coin or two and leave change or nearly none; one redeem is paid to the user
  and one to the bridge itself; receivers are an Ethereum address and an Aptos
  address of which the last 20 bytes remain; `SafeMargin` equals the fee, the least the
  assumption allows; five transactions and one lost record.

The largest runs are `txmgr_safe` with 1.8 million distinct states, `wallet` and
`sync_main` with 0.7 million each and `btc` with 0.7 million; each takes a few
minutes or less with two workers.

No symmetry is used: the instances give different roles to the values.

### Fairness

- `ChainSync`: the goroutines of the synchronizer, of the state and of the
  observer run, each as a whole, so that `select` may prefer any channel; a
  process that has ended is started again. Nothing is assumed of users and
  manager. The liveness properties have the form []<>: a restart may empty
  nothing that a later round does not fill again. Two exceptions are part of
  their statements: the state's loop is not started (worker `server`), and two
  readable events have one hash (`HashesCollide`). `MintRecorded` takes zeros for
  a record: what matters is that the deposit is not offered again.
- `ChainTxMgr`: the loop goes on (its ticker keeps firing and its calls return), the
  chain executes what it accepted, and the state applies what the chain reports.
  Checked without faults: with a lost transaction the deposit is never sent
  again (section 6). Rescans are not faults and happen; nothing makes them.
- `EthTxMgr` and `BtcWallet`: none, their properties are about safety.
- `BtcSide`: blocks keep coming, the monitor, the observers and the waiting
  senders run. Nothing is assumed of the withdraw loop. `DepositReported` and
  `PayoutRecorded` start from states in which faults are over and the block is
  within reach of a scan that is still to come; before, anything may fail.

## 4. Proofs

All theorems hold for every value of the constants that satisfies the named
assumptions, and with all faults.

| Module | Theorems | Inductive invariant |
|---|---|---|
| `Vault_proofs` | `VaultTypeCorrect`, `GrantsDisjointTheorem`, `GrantKeptTheorem`, `GrantMinimalTheorem` | `VaultInv`: types; granted and unreleased rows are locked and linked to their holder; the rows an operation has chosen are apart from every such grant. For `GrantMinimal` also `ChosenInv`: what is chosen and what is granted is enough and has nothing to spare, which follows from the greedy query (`EnoughIsMinimal`) |
| `BridgeContract_proofs` | `ContractTypeCorrect`, `OutpointsNotSharedTheorem`, `SupplyRightTheorem` | types, and every BTC transaction of a prepared redeem is in `used`; `SupplyRight` is inductive with the types: every entry function moves tokens within a total, adds a deposit to it, or keeps it; the total stays within the deposits |
| `ChainTxMgr_proofs` | `MgrTypeCorrect`, `MintedOnceTheorem`, `OneRowPerRefTheorem`, `StatusTruthfulTheorem`, `PreparedFromVaultTheorem`, `StatusFinalTheorem`, `MgrKeepsPromise`, `MgrUsesContract`, `MgrSupplyRight`, `MgrOutpointsNotShared` | `MgrInv`: types; `LoopInv` (what `pc` says about `cur` and `todo`: items still to do have no row), `ChainInv` (a successful mint is in `minted`, a successful prepare in `prepared` with its outpoints), `RowInv` (a row belongs to a transaction of its item, and has a ledger number only when that was executed); together with the four properties. For `StatusFinal` also `MarkInv`: what is on the list of `procedureMarkTxStatus` is still open. For the refinement `PromiseInv`: what is sent was observed or asked for, and the vault gives an outpoint once |
| `BtcSide_proofs` | `BtcTypeCorrect`, `NoBlockMissedTheorem`, `OnlyMatureTheorem`, `RowsTruthfulTheorem` | types and the scan's window; for `NoBlockMissed` also that the window in progress starts within reach of what is covered, under `MaxLag <= RETRO`; for the rows, that the payout at hand was sent |
| `EthTxMgr_proofs` | `EthTypeCorrect`, `EthRoundsClosed`, `EthNoncesDistinct`, `EthResultsTruthful`, `EthKeepsPromise` | `EthInv`: types; `RoundInv` (the goroutines are those the WaitGroup counts, and their places tell who holds which lock and the mutex), `NonceInv` (while the mutex is held nobody has the nonce that was read), `RowInv`, `AskedInv`, `VaultInv`, `ChainInv` (the contract remembers every successful call, and a prepare carries what the vault holds for it) |
| `BtcWallet_proofs` | `WalletTypeCorrect`, `WalletPaidOnce`, `WalletFreeRowsUnspent`, `WalletPayable`, `WalletCreditsRight`, `WalletShortReceiver`, `WalletFundsBalance` | `WalletInv`: types; `SpendsInv` (no output is spent twice), `BridgeSpends` (only a payout spends the bridge's outputs, and only those of its redeem), `PayoutsInv` (it spends all of them), `RowsInv`, `PreparedInv` (what a redeem was given is linked to it, and enough), `DataInv` (what the monitor finds in a transaction is what it was built for). For `FundsBalance` the balance itself |
| `ChainSync_proofs`, the state | `TypeCorrect`, `LifecycleTheorem`, `RowsFaithfulTheorem`, `PrepareNotSharedTheorem`, `NeverReopenedTheorem`, `MintFaithfulTheorem` | types, with which the properties of `redeem` are inductive themselves; for `MintFaithful` also `UpdateFaithful`: the hash a goroutine has read and not yet written was reported for that deposit |
| `ChainSync_proofs`, the composition | `SyncTypeCorrect`, `SyncFeedsState`, `SyncedRowsFaithful`, `NothingSkippedTheorem` | types; for `NothingSkipped` also `RoundInv`: what is readable below the number at hand was sent, and what the round has fetched is sent or still in the batch |

`NoBlockMissedTheorem` is the only one with a hypothesis beyond the modules'
assumptions: the chain is never more than `RETRO_SCAN_BLOCKS` ahead of the
scans. The hypothesis is needed: beyond that lag the window leaves out one block
(section 6).

Four of the theorems are refinements. `MgrKeepsPromise` shows that every step of
`ChainTxMgr` is a step of `BridgePromise` or leaves its variables alone: an
executed mint is a `Credit`, because the contract refuses a second one and the
deposit behind a submitted transaction was observed; an executed prepare is an
`Assign`, because its outpoints are those the vault locked for this redeem alone.
`EthKeepsPromise` shows the same of the Ethereum manager, with its rounds of
goroutines, locks and nonces. `MgrUsesContract` shows that the composition drives
the contract by its entry functions only, and `MgrSupplyRight` and
`MgrOutpointsNotShared` carry the contract's theorems over to it; `SyncFeedsState`
and `SyncedRowsFaithful` do so for the state fed by a synchronizer.

`WalletCreditsRight` says that a credit has the amount of its deposit and the
receiver as the deposit's data carries it, and that nothing else is credited.
That this is the receiver the sender named holds for 20-byte addresses
(`WalletShortReceiver`) and not for longer ones (section 6).

`EthNoncesDistinct` rests on a counting argument, `PendingNonceFree`: there are
more nonces than transactions, so the node has a free one to offer; with
`NonceInv` it is still free when the holder of the mutex sends.

The theorems about money rest on `Sums`. A sum is a fold, that is a recursive
function over the subsets of a set, and the induction theorems of the library
cannot be instantiated. Each lemma is therefore proved by looking at a smallest
set for which it would fail (`SmallestSet`, from the well-foundedness of the
strict subset ordering of a finite set): that the equation of a sum has one
solution, that an element can be added, taken away or changed, that sums of
disjoint sets add up. They are stated for functions; one lemma per
`MapThenSumSet` of a model turns it into that form.

Assumptions beyond the types of the constants: the contract has finitely many
accounts (`AccountAssumption`); for the wallet, `BTC_TX_FEE` is at most
`SAFE_MARGIN` (in the code they are equal), and the bridge's address is new when
the system starts (`WalletAssumption`, which also says that the last 20 bytes of
a 20-byte address are the address): the vault learns of outputs only from
transactions that the monitor inspects.

Only model-checked, not proved: `DepositMinted`, `TrackedSettles`,
`DepositReported`, `PayoutRecorded`, `RequestStored`, `MintRecorded` and
`PreparedReachesEth`. Liveness under fairness is beyond the proof system. Every
invariant and every other action property of a passing run is a theorem.

## 5. Findings

1. `state_rescan`: `UpdateMint` (`state/statedb_btc2eth.go:125`) stores 64 zeros
   for the empty hash where the row exists. The monitor reports every deposit
   many times, so a deposit that is not minted between two scans leaves
   `GetUnMinted` and is never minted. `btcsync/observer_mint.go:37` promises that
   the field stays empty until the mint.
2. `contract_backed`: `burn_from` (`btc_token.move:211`) mints fresh coins and
   burns those; the redeemer keeps the tokens.
3. `txmgr_noprepare`: `AptosSyncWorker.DoPrepare` (`aptosman/aptosman.go:834`)
   passes neither requester nor outpoints; every prepare fails after the vault
   has locked UTXOs.
4. `sync_prepared`: `getRedeemPreparedEvents` (`aptosman/aptosman.go:200`) stores
   the version of the event as its request hash and the request hash as its
   prepare hash. The redeem stays requested, and a row for a redeem nobody asked
   for is prepared. `chainsync/README.md` asks the synchronizer to notify the
   state of the captured events.

## 6. Behaviour worth knowing that no run states

These follow from the code and, where modelled, are reachable states of the
models. No document of the repository contradicts them closely enough to state
a violated property.

- `cmd/server.go:291` comments out `state.Start`: in the server nobody reads the
  channels the synchronizer fills, which then waits in a send for ever.
- A second handler error while one is buffered blocks the state loop for good.
- `SetRedeemCompleted` would panic (`RedeemLifecycle` allows the completion it
  means); its observer is not registered, so that a
  completed redeem stays prepared in the state and the withdraw loop reads it
  on every round.
- `ReleaseByExpire` (`btcvault/vault.go:122`) does not take `updateMu`, and a row
  that is being locked has timeout 0 for a moment: it is then taken for expired.
- A release leaves `linked_id` set, so that the id can never lock again.
- Once a prepare has failed after the vault locked outpoints, the vault refuses
  that redeem for ever: with both managers it is never prepared.
- `FilterMints` drops every deposit with a row, reverted and timed out ones too.
- A poll of five seconds that ends is stored as a timeout of the transaction,
  which may be included later.
- `IsMinted` searches the wrong list, and `DoMint` of the server's worker sends
  every mint to one fixed address.
- A payout that is mined before its row is inserted never gets a row.
- A deposit whose inserts fail, or whose block is mined while the process is
  down, is lost once its block has left the window of 36 blocks: after a restart
  the monitor starts from the node's height (`cmd/server.go:372`), unless a start
  block is configured. The same holds of the mark of a mined payout.
- A rescan after a mint puts zeros over the recorded mint hash, and the Ethereum
  synchronizer does not send the event again before a restart: the deposit counts
  as minted, the hash of the transaction is gone.
- `EvmAddrToByteArray` (`common/btc2evm_deposit.go:54`) cuts a 32-byte Aptos
  receiver to its last 20 bytes without an error, and these are what
  `btcsync/observer_mint.go:38` stores: on the server's chain the account named is
  not the account credited. `cmd/demo_test_cmd/integration_test.go:53` passes such
  an address. (The server's `DoMint` then ignores the stored receiver as well.)
- A transaction that pays the bridge and whose second output is a bare
  `OP_RETURN` ends the process: `IsNullData` accepts the script of one byte and
  `data[2:]` (`common/btc2evm_deposit.go:91`) panics, again after every restart as
  long as the block is in the window.
- Beyond a lag of 36 blocks the scan window starts one block too late.
- The event reader decodes decimal ledger versions as hexadecimal. Of a version
  with an odd number of digits the last is lost: up to ten versions in a row give
  one hash. A second request among them never gets its row; a second mint among
  them is refused by `UNIQUE`, and the state's loop returns on it after every
  restart.
- The event reader gets the first page of events whatever range it asks for:
  what is not in the page is never seen.
- An Ethereum round whose goroutines meet two errors never ends: `errCh` has
  room for one, its receiver waits for the WaitGroup.
- `waitForSignature` returns neither signature nor error when the signer is late.
- A user whose coins amount exactly to deposit and fee cannot spend them:
  `SelectUtxo` compares with `>`.
- The vault never marks a row as spent; a paid redeem's rows stay locked.

## 7. Not modelled

- Forks of the Bitcoin chain and eviction from the mempool: the code has no
  handling of either; the maturity offset is checked as the depth it requires.
- Signing (`multisig_client`, `signers`): cryptography and the protocol of the
  signing nodes. Its answers, late and missing ones too, are in `EthTxMgr`; the
  chain tx manager ignores them.
- `rpc/`, `contracts/`: generated code. The Solidity sources are not in the
  repository: what `EthTxMgr` assumes of the contract follows from the calls.
- `reporter/`: read-only queries over HTTP.
- Menus, balances and account files of the command line users: interactive code
  without state of the bridge. The requests they send are actions.
- The encoding of Aptos payloads; `mint_tokens` called by the admin outside the
  bridge (`MintTokensToContract`, which only a disabled test uses); simulated
  clients and deployment helpers, which are test code.
- `AptosMgrWorker`, except `IsPrepared` and `DoPrepare`: nothing else uses it.
- The BTC deposit observer behaves as the mint observer in `BtcSide`; the
  instance registers "mint" and "utxo", the proofs hold for all three.
- The second Move tree is an instance of `Source`: the proofs cover it, the run
  uses the deployed one.
- The table of other transfers, which nobody writes.
- The chain id check of `state.New`, JSON encodings, logging.

## 8. Plan

Done, in this order: state, vault, contract, chain tx manager, Bitcoin side;
the promise of a tx manager and its refinement, the Ethereum tx manager, the
synchronizers composed with the state, the wallets.

The proofs: first for each module its types and safety properties, then the
refinements, then the sums and with them the properties about money.

Next, most important first:

1. What `BridgePromise` implies, stated once there and carried over to both
   managers by their refinements, as `MgrUsesContract` does for the contract.
2. The vault inside `ChainTxMgr` and `BtcWallet` as an implementation of `Vault`
   without releases: today the reduction is an argument in words.
3. Shorter proofs, where lemmas repeat one argument for two operators.
