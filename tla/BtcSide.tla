------------------------------- MODULE BtcSide -------------------------------
(***************************************************************************)
(* The Bitcoin side of the bridge: the monitor that scans blocks           *)
(* (btcsync.BTCMonitor), the publisher and the observers it notifies, and  *)
(* the loop that sends the payouts of prepared redeems                     *)
(* (btctxmanager.BtcTxManager), around a Bitcoin node.                     *)
(*                                                                         *)
(* The monitor, each observer, each goroutine the publisher starts for a   *)
(* full channel and the withdraw loop run concurrently; they meet in the   *)
(* channels, in the tables and at the node.  The chain does not fork.  The *)
(* payout of a redeem is built from its own outpoints, receiver and amount *)
(* and signed deterministically, so that a redeem has one payout and r     *)
(* stands for both.                                                        *)
(***************************************************************************)
EXTENDS Integers, Sequences

CONSTANTS
  Deposit,    \* transactions that pay the bridge with a valid OP_RETURN
  Transfer,   \* transactions that pay the bridge without one
  Request,    \* redeems, and their payouts
  Inputs,     \* [Request -> SUBSET Tx], the transactions whose outputs r spends
  Change,     \* the payouts with a change output
  OFFSET,     \* BLK_MATURE_OFFSET
  RETRO,      \* RETRO_SCAN_BLOCKS
  Observers,  \* the registered ones of "deposit", "mint" and "utxo"
  Capacity,   \* CHANNEL_BUFFER_SIZE
  Start,      \* height of the chain when the bridge starts
  MaxHeight,  \* bound: the chain stops here
  MaxLag,     \* bound: the chain is never further ahead of the scans
  Faults,     \* which of "rpc", "db" and "crash" may happen
  FaultsUntil,  \* bound: the height of the chain at which faults cease
  NONE        \* no redeem at hand, no row

Tx == Deposit \cup Transfer \cup Request
Heights == 0..MaxHeight

ASSUME BtcAssumption ==
  /\ Inputs \in [Request -> SUBSET Tx] /\ Change \subseteq Request
  /\ OFFSET \in Nat /\ RETRO \in Nat \ {0} /\ Capacity \in Nat
  /\ "utxo" \in Observers
  /\ Start \in Nat /\ OFFSET <= Start + 1
  /\ MaxHeight \in Nat /\ Start <= MaxHeight /\ MaxLag \in Nat /\ FaultsUntil \in Nat
  /\ NONE \notin Request \cup {"sent", "mined"}

VARIABLES
  tip, block,      \* the chain: its height, and the transactions by height
  mempool,         \* payouts the node has accepted and not mined
  last,            \* LastVistedBlockHeight
  pc, latest,      \* where Scan is, and the height it read first
  at, upto, txs,   \* next block of the scan, its last block, and what is left
                   \* of the block at hand
  queue, spill,    \* per observer: its channel, and the blocked senders
  stored,          \* per observer: what it has written to its table
  prepared,        \* the prepared redeems in the shared state
  rows,            \* table btc_action_redeem
  todo, cur,       \* WithdrawLoop: redeems left of the batch, and the one sent
  seen, covered    \* history: heights visited, and the tip the scans reached

chain    == <<tip, block, mempool>>
monitor  == <<last, pc, latest, at, upto, txs>>
observer == <<queue, spill, stored>>
withdraw == <<todo, cur>>
history  == <<seen, covered>>
vars     == <<chain, monitor, observer, prepared, rows, withdraw, history>>

TypeOK ==
  /\ tip \in Heights /\ block \in [Heights -> SUBSET Tx] /\ mempool \subseteq Request
  /\ last \in Heights /\ latest \in Heights
  /\ pc \in {"idle", "fetch", "block"}
  /\ at \in Nat /\ upto \in Int /\ txs \subseteq Tx
  /\ queue \in [Observers -> Seq(Tx)]
  /\ \A o \in Observers : Len(queue[o]) <= Capacity
  /\ spill \in [Observers -> SUBSET Tx]
  /\ stored \in [Observers -> SUBSET Tx]
  /\ prepared \subseteq Request
  /\ rows \in [Request -> {NONE, "sent", "mined"}]
  /\ todo \subseteq Request /\ cur \in Request \cup {NONE}
  /\ seen \subseteq Heights /\ covered \in Int

\* With BtcStartBlk = -1 the monitor starts from the node's height.
Init ==
  /\ tip = Start /\ block = [h \in Heights |-> {}] /\ mempool = {}
  /\ last = Start /\ latest = 0
  /\ pc = "idle" /\ at = 0 /\ upto = 0 /\ txs = {}
  /\ queue = [o \in Observers |-> <<>>]
  /\ spill = [o \in Observers |-> {}]
  /\ stored = [o \in Observers |-> {}]
  /\ prepared = {}
  /\ rows = [r \in Request |-> NONE]
  /\ todo = {} /\ cur = NONE
  /\ seen = {} /\ covered = Start

May(f) == f \in Faults /\ tip < FaultsUntil

FaultsOver == Faults = {} \/ tip >= FaultsUntil

-----------------------------------------------------------------------------
(* The Bitcoin network and the other half of the bridge                     *)

OnChain == UNION {block[h] : h \in 0..tip}
Mature == UNION {block[h] : h \in 0..(tip - OFFSET)}

\* A block with some of the pending transactions, none before its inputs.
Mine(S) ==
  /\ tip < MaxHeight /\ tip < covered + MaxLag
  /\ S \subseteq (mempool \cup Deposit \cup Transfer) \ OnChain
  /\ \A r \in S \cap Request : Inputs[r] \subseteq OnChain \cup S
  /\ tip' = tip + 1
  /\ block' = [block EXCEPT ![tip + 1] = S]
  /\ mempool' = mempool \ S
  /\ UNCHANGED <<monitor, observer, prepared, rows, withdraw, history>>

\* A redeem was prepared with outpoints the vault gave out.
Prepare(r) ==
  /\ r \notin prepared
  /\ Inputs[r] \subseteq stored["utxo"]
  /\ prepared' = prepared \cup {r}
  /\ UNCHANGED <<chain, monitor, observer, rows, withdraw, history>>

\* The node takes a transaction whose inputs exist and that nothing else
\* spends, and takes it again while it is in the mempool.
Accepts(r) ==
  /\ r \notin OnChain
  /\ Inputs[r] \subseteq OnChain \cup mempool
  /\ \A q \in (OnChain \cup mempool) \cap Request : q # r => Inputs[q] \cap Inputs[r] = {}

-----------------------------------------------------------------------------
(* BTCMonitor.Scan                                                          *)

StartScan ==
  /\ pc = "idle" /\ tip > last
  /\ latest' = tip /\ pc' = "fetch"
  /\ UNCHANGED <<chain, last, at, upto, txs, observer, prepared, rows, withdraw, history>>

NumbersToFetch ==
  IF latest - last - OFFSET < RETRO THEN RETRO ELSE latest - last - OFFSET

\* Mutant: the blocks that were not mature at the last scan are left out.
MutantFirstHeight == tip - OFFSET - (latest - last - OFFSET) + 1

\* Scan returns: its local variables are gone.
Return ==
  pc' = "idle" /\ latest' = 0 /\ at' = 0 /\ upto' = 0 /\ txs' = {}

\* GetBlocks reads the height again: the chain may have grown since.
FirstHeight == tip - OFFSET - NumbersToFetch + 1

MutantLastHeight == tip   \* mutant: the offset is dropped

LastHeight == tip - OFFSET

\* The blocks, old to new; or the error of a chain that is too short.
GetBlocks ==
  /\ pc = "fetch"
  /\ \/ /\ FirstHeight >= 0
        /\ pc' = "block" /\ at' = FirstHeight /\ upto' = LastHeight
        /\ UNCHANGED <<latest, txs>>
     \/ FirstHeight < 0 /\ Return
  /\ UNCHANGED <<chain, last, observer, prepared, rows, withdraw, history>>

GetBlocksFault ==
  /\ May("rpc") /\ pc = "fetch"
  /\ Return
  /\ UNCHANGED <<chain, last, observer, prepared, rows, withdraw, history>>

Visited ==
  /\ at' = at + 1
  /\ seen' = seen \cup {at}
  /\ covered' = IF at + OFFSET > covered THEN at + OFFSET ELSE covered

VisitBlock ==
  /\ pc = "block" /\ txs = {} /\ at <= upto
  /\ txs' = block[at]
  /\ Visited
  /\ UNCHANGED <<chain, last, pc, latest, upto, observer, prepared, rows, withdraw>>

\* GetBlockHeightByHash fails: the block is left out of this scan.
SkipBlock ==
  /\ May("rpc")
  /\ pc = "block" /\ txs = {} /\ at <= upto
  /\ Visited
  /\ UNCHANGED <<chain, last, pc, latest, upto, txs, observer, prepared, rows, withdraw>>

\* Deposits go to the deposit and mint observers; every transaction with an
\* output to the bridge goes to the vault.
Interested(o, t) ==
  IF o = "utxo" THEN t \in Deposit \cup Transfer \cup Change ELSE t \in Deposit

\* Mutant: one send too many is taken for one that fits.
MutantNotify(t) ==
  /\ queue' = [o \in Observers |->
       IF Interested(o, t) /\ Len(queue[o]) <= Capacity THEN Append(queue[o], t) ELSE queue[o]]
  /\ UNCHANGED spill

\* The publisher never waits: where the channel is full it leaves the send to
\* a goroutine.
Notify(t) ==
  /\ queue' = [o \in Observers |->
       IF Interested(o, t) /\ Len(queue[o]) < Capacity THEN Append(queue[o], t) ELSE queue[o]]
  /\ spill' = [o \in Observers |->
       IF Interested(o, t) /\ ~(Len(queue[o]) < Capacity) THEN spill[o] \cup {t} ELSE spill[o]]

\* Mutant: a transaction that pays the bridge is not looked up.
MutantFinishRedeem(t) ==
  rows' = [r \in Request |-> IF r = t /\ r \notin Change /\ rows[r] # NONE
                             THEN "mined" ELSE rows[r]]

HasRedeem(r) == rows[r] # NONE

CompleteRedeem(r) == rows' = [rows EXCEPT ![r] = "mined"]

\* A payout that has a row.  Database errors are ignored.  NotifyRedeemIsDone
\* has no observer.
FinishRedeem(t) ==
  \/ t \in Request /\ HasRedeem(t) /\ CompleteRedeem(t)
  \/ ~(t \in Request /\ HasRedeem(t)) /\ UNCHANGED rows
  \/ May("db") /\ t \in Request /\ UNCHANGED rows

InspectTx(t) ==
  /\ pc = "block" /\ t \in txs
  /\ txs' = txs \ {t}
  /\ Notify(t)
  /\ FinishRedeem(t)
  /\ UNCHANGED <<chain, last, pc, latest, at, upto, stored, prepared, withdraw, history>>

EndScan ==
  /\ pc = "block" /\ txs = {} /\ at > upto
  /\ last' = latest /\ Return
  /\ UNCHANGED <<chain, observer, prepared, rows, withdraw, history>>

-----------------------------------------------------------------------------
(* Observers: AddDeposit, SetNewBTC2EVMMint and AddUTXO, each of which       *)
(* leaves a row it already has                                              *)

Unblock(o, t) ==
  /\ t \in spill[o] /\ Len(queue[o]) < Capacity
  /\ queue' = [queue EXCEPT ![o] = Append(queue[o], t)]
  /\ spill' = [spill EXCEPT ![o] = spill[o] \ {t}]
  /\ UNCHANGED <<chain, monitor, stored, prepared, rows, withdraw, history>>

Observe(o) ==
  /\ queue[o] # <<>>
  /\ queue' = [queue EXCEPT ![o] = Tail(queue[o])]
  /\ stored' = [stored EXCEPT ![o] = stored[o] \cup {Head(queue[o])}]
  /\ UNCHANGED <<chain, monitor, spill, prepared, rows, withdraw, history>>

\* The insert fails, which no observer looks at.
ObserveFault(o) ==
  /\ May("db") /\ queue[o] # <<>>
  /\ queue' = [queue EXCEPT ![o] = Tail(queue[o])]
  /\ UNCHANGED <<chain, monitor, spill, stored, prepared, rows, withdraw, history>>

-----------------------------------------------------------------------------
(* WithdrawLoop                                                             *)

FindRedeems ==
  /\ todo = {} /\ cur = NONE /\ prepared # {}
  /\ todo' = prepared
  /\ UNCHANGED <<chain, monitor, observer, prepared, rows, cur, history>>

\* The redeem has a row, or the lookup fails.
PassOver(r) ==
  /\ cur = NONE /\ r \in todo
  /\ HasRedeem(r) \/ May("db")
  /\ todo' = todo \ {r}
  /\ UNCHANGED <<chain, monitor, observer, prepared, rows, cur, history>>

\* The vault has every outpoint of the redeem, so that the payout can be built.
CollectUTXOs(r) == Inputs[r] \subseteq stored["utxo"]

\* Mutant: the error of SendRawTx is ignored.
MutantWithdrawBTC(r) ==
  /\ cur = NONE /\ r \in todo /\ ~HasRedeem(r)
  /\ cur' = r /\ todo' = todo
  /\ mempool' = IF Accepts(r) /\ ~May("rpc") THEN mempool \cup {r} ELSE mempool
  /\ UNCHANGED <<tip, block, monitor, observer, prepared, rows, history>>

\* SendRawTx: the node takes the payout or refuses it, or the call fails on
\* the way there or on the way back.
WithdrawBTC(r) ==
  /\ cur = NONE /\ r \in todo /\ ~HasRedeem(r)
  /\ \/ /\ CollectUTXOs(r) /\ Accepts(r)
        /\ mempool' = mempool \cup {r} /\ cur' = r /\ todo' = todo
     \/ /\ ~CollectUTXOs(r) \/ ~Accepts(r) \/ May("rpc")
        /\ todo' = todo \ {r} /\ UNCHANGED <<mempool, cur>>
     \/ /\ CollectUTXOs(r) /\ Accepts(r) /\ May("rpc")
        /\ mempool' = mempool \cup {r} /\ todo' = todo \ {r} /\ UNCHANGED cur
  /\ UNCHANGED <<tip, block, monitor, observer, prepared, rows, history>>

InsertRedeem ==
  /\ cur # NONE
  /\ \/ rows' = [rows EXCEPT ![cur] = "sent"]
     \/ May("db") /\ UNCHANGED rows
  /\ todo' = todo \ {cur} /\ cur' = NONE
  /\ UNCHANGED <<chain, monitor, observer, prepared, history>>

\* The process stops and starts again: channels and goroutines are gone, the
\* tables stay, the monitor starts from the node's height and waits for the next
\* block, which MaxLag has to leave room for.
Crash ==
  /\ May("crash") /\ tip < covered + MaxLag
  /\ last' = tip /\ Return
  /\ queue' = [o \in Observers |-> <<>>]
  /\ spill' = [o \in Observers |-> {}]
  /\ todo' = {} /\ cur' = NONE
  /\ UNCHANGED <<chain, stored, prepared, rows, history>>

ScanStep ==
  \/ StartScan \/ GetBlocks \/ VisitBlock \/ EndScan
  \/ \E t \in Tx : InspectTx(t)

Next ==
  \/ \E S \in SUBSET Tx : Mine(S)
  \/ \E r \in Request : Prepare(r) \/ PassOver(r) \/ WithdrawBTC(r)
  \/ ScanStep \/ GetBlocksFault \/ SkipBlock
  \/ \E o \in Observers : Observe(o) \/ ObserveFault(o) \/ \E t \in Tx : Unblock(o, t)
  \/ FindRedeems \/ InsertRedeem
  \/ Crash

Spec == Init /\ [][Next]_vars

\* Blocks keep coming, the monitor's goroutine runs, and so do the observers
\* and the blocked senders.
Fairness ==
  /\ WF_vars(\E S \in SUBSET Tx : Mine(S))
  /\ WF_vars(ScanStep)
  /\ \A o \in Observers :
       WF_vars(Observe(o)) /\ \A t \in Tx : WF_vars(Unblock(o, t))

FairSpec == Spec /\ Fairness

-----------------------------------------------------------------------------
(* Properties                                                               *)

\* Between the height the bridge started at and the one its scans have
\* reached, no block lay between the windows of two scans, although the height
\* is read twice, errors and restarts interrupt scans and blocks arrive
\* meanwhile: as long as the chain is never more than RETRO_SCAN_BLOCKS ahead.
\* (A block the scan came to and could not read counts as visited here;
\* DepositReported is about what happens to its transactions.)
NoBlockMissed == (Start + 1 - OFFSET)..(covered - OFFSET) \subseteq seen

\* Nothing is stored, on its way to be stored or marked as mined before it is
\* BLK_MATURE_OFFSET blocks deep.
OnlyMature ==
  /\ txs \subseteq Mature
  /\ \A o \in Observers :
       /\ spill[o] \cup stored[o] \subseteq Mature
       /\ \A i \in 1..Len(queue[o]) : queue[o][i] \in Mature
  /\ \A r \in Request : rows[r] = "mined" => r \in Mature

\* A row of btc_action_redeem stands for a payout the network has, whatever
\* went wrong around SendRawTx: a redeem with a row is never sent again.
RowsTruthful ==
  \A r \in Request : rows[r] # NONE => r \in mempool \cup OnChain

\* Faults are over, and the next scan comes to the block of t, whether or not
\* one was there before: the chain cannot outrun the window until then.
InReach(t) ==
  /\ FaultsOver /\ pc = "idle" /\ last < MaxHeight
  /\ \E h \in 0..(MaxHeight - OFFSET) :
       t \in block[h] /\ covered + MaxLag < h + OFFSET + RETRO

\* A deposit in a block is written to the deposit table, to the mint table and
\* to the vault, through full channels, failed inserts, skipped blocks and
\* restarts, if these end before the block has left the window of
\* RETRO_SCAN_BLOCKS; otherwise it may be lost.
DepositReported ==
  \A d \in Deposit : InReach(d) ~> \A o \in Observers : d \in stored[o]

\* A payout that has its row while its block is within reach is marked as
\* mined, also when the monitor came to the block before the withdraw loop had
\* inserted the row, or could not write the mark.
PayoutRecorded ==
  \A r \in Request : InReach(r) /\ rows[r] = "sent" ~> rows[r] = "mined"
=============================================================================
