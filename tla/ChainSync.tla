------------------------------ MODULE ChainSync ------------------------------
(***************************************************************************)
(* The synchronizers, composed with the shared state they feed: the loop   *)
(* of package chainsync with the Aptos event reader, and its predecessors  *)
(* in packages ethsync and aptossync.  A synchronizer and the state's loop *)
(* run concurrently and meet in the four channels of BridgeState.          *)
(*                                                                         *)
(* A ledger number has at most one event of the bridge.  The requests come *)
(* from users; mints and prepares come from the tx manager, which works    *)
(* from the tables of the state.                                           *)
(***************************************************************************)
EXTENDS BridgeState, FiniteSets

CONSTANTS
  InvalidReceiver,  \* the terms whose receiver is not a Bitcoin address
  Workers,      \* the synchronizers to look at, "server": chainsync as the
                \* server runs it, with state.Start commented out
  Base,         \* the ledger number the bridge's history starts after
  Histories,    \* what the chain may hold when the bridge first starts
  MaxLedger,    \* bound: number of ledger entries
  ForceScan,    \* ForceScanBlkNum: where to scan from, -1: where it stopped
  PageSize,     \* events the node returns when no limit is asked for
  MaxCrashes    \* bound: number of times the process stops

\* An entry of the ledger.  A prepare names the hash of its request.
Entry == [kind: {"mint"}, btc: BtcTx]
    \cup [kind: {"request"}, terms: Terms]
    \cup [kind: {"prepare"}, req: Request, terms: Terms, outs: Outpoints]
    \cup [kind: {"other"}]

ASSUME SyncAssumption ==
  /\ Workers \subseteq {"server", "chainsync", "aptossync", "ethsync"}
  /\ Base \in Nat /\ MaxLedger \in Nat /\ PageSize \in Nat /\ MaxCrashes \in Nat
  /\ ForceScan \in Nat \/ ForceScan = 0 - 1
  /\ Histories \subseteq Seq(Entry) /\ \A h \in Histories : Len(h) <= MaxLedger
  /\ InvalidReceiver \subseteq Terms

VARIABLES
  worker,    \* the synchronizer that runs
  ledger,    \* the chain: its entries after Base
  first,     \* history: the number the process started from
  last,      \* LastChecked, lastFinalized
  pc,        \* where Loop is
  target,    \* newFinalized
  inspected, \* inspecting_blk_num, inspecting_version
  batch,     \* the events fetched and not yet sent, by their numbers
  sent,      \* history: numbers of the events sent since the process started
  crashes    \* bound: times the process stopped

sync     == <<first, last, pc, target, inspected, batch, sent>>
syncVars == <<vars, worker, ledger, sync, crashes>>

\* The readers and the loop of package chainsync.
ChainSyncRuns == worker \in {"server", "chainsync"}

\* state.Start is called: by the tests, not by the server.
StateStarted == worker # "server"

Height == Base + Len(ledger)
Numbers == (Base + 1)..Height
At(v) == ledger[v - Base]
Kind(v) == IF v \in Numbers THEN At(v).kind ELSE "other"

\* v has an odd number of decimal digits; bound: at most nine.
OddDigits(v) == \E n \in 0..4 : 10 ^ (2 * n) <= v /\ v < 10 ^ (2 * n + 1)

\* HexStrToBytes32: a ledger version in decimal read as hexadecimal.  Of an odd
\* number of digits the last is lost.
VersionHash(v) == IF OddDigits(v) THEN v \div 10 ELSE v

\* The hashes of the state's tables are those the readers make of ledger numbers.
ASSUME HashAssumption ==
  /\ Request = PrepareTx /\ Request \subseteq Nat
  /\ \A v \in (Base + 1)..(Base + MaxLedger) :
       {v, VersionHash(v)} \subseteq Request \cap MintTx \cap LedgerNumbers
  /\ RequestedEvents = RequestedEvent /\ MintedEvents = MintedEvent
  /\ [req: Request, prepare: PrepareTx, terms: Terms, outs: Outpoints, sound: {TRUE}]
       \subseteq PreparedEvents
  /\ MaxCrashes > 0 => "crash" \in Faults

SyncTypeOK ==
  /\ TypeOK
  /\ worker \in Workers
  /\ ledger \in Seq(Entry) /\ Len(ledger) <= MaxLedger
  /\ first \in Nat /\ last \in Nat /\ target \in Nat /\ inspected \in Nat
  /\ pc \in {"idle", "fetch", "deliver"}
  /\ batch \subseteq Numbers /\ sent \subseteq Numbers
  /\ crashes \in 0..MaxCrashes

\* Mutant: the number in the state is used although events up to it may not
\* have been delivered.
MutantStartNumber(stored) == stored

\* New, NewChainSync
StartNumber(stored) == IF ForceScan = 0 - 1 THEN stored ELSE ForceScan

SyncInit ==
  /\ Init
  /\ worker \in Workers /\ ledger \in Histories
  /\ last = StartNumber(EthStartingBlock) /\ first = last
  /\ pc = "idle" /\ target = 0 /\ inspected = 0 /\ batch = {} /\ sent = {}
  /\ crashes = 0

-----------------------------------------------------------------------------
(* The chain                                                                *)

Extend(entry) ==
  /\ Len(ledger) < MaxLedger
  /\ ledger' = Append(ledger, entry)
  /\ UNCHANGED <<vars, worker, sync, crashes>>

UserRequests(terms) == Extend([kind |-> "request", terms |-> terms])

\* The manager prepares what the state has as requested.
ManagerPrepares(r, outs) ==
  /\ redeem[r] # NoRow /\ redeem[r].status = "requested"
  /\ \A i \in 1..Len(ledger) : ledger[i].kind = "prepare" => ledger[i].req # r
  /\ Extend([kind |-> "prepare", req |-> r, terms |-> redeem[r].terms, outs |-> outs])

\* The manager mints what GetUnMinted returns.
ManagerMints(b) ==
  /\ b \in UnMinted
  /\ \A i \in 1..Len(ledger) : ledger[i].kind = "mint" => ledger[i].btc # b
  /\ Extend([kind |-> "mint", btc |-> b])

\* The mint observer is notified of a deposit, for the first time or again: the
\* monitor scans every block many times.
DepositSeen(b) ==
  /\ ObserveDeposit(b)
  /\ UNCHANGED <<worker, ledger, sync, crashes>>

DepositStored ==
  /\ ObserveDepositWrite
  /\ UNCHANGED <<worker, ledger, sync, crashes>>

-----------------------------------------------------------------------------
(* The event readers                                                        *)

\* The Ethereum reader has the hash of the transaction.
TxHash(v) == IF worker = "ethsync" THEN v ELSE VersionHash(v)

Events(kind) == {v \in Numbers : Kind(v) = kind}

\* GetEvents: limit and start are not part of the query, so that the node
\* returns its first page whatever was read before.
Page(kind) == {v \in Events(kind) : Cardinality({w \in Events(kind) : w < v}) < PageSize}

\* GetModuleEvents
ModuleEvents == Page("mint") \cup Page("request") \cup Page("prepare")

\* Etherman.GetEventLogs
EventLogs(v) == IF Kind(v) = "other" THEN {} ELSE {v}

\* Mints are sent first, then requests, then prepares, each in ledger order.
Rank(v) == CASE Kind(v) = "mint" -> 1 [] Kind(v) = "request" -> 2 [] OTHER -> 3
Precedes(v, w) == Rank(v) < Rank(w) \/ (Rank(v) = Rank(w) /\ v < w)

MintedAt(v) == [btc |-> At(v).btc, tx |-> TxHash(v)]

\* AptosSyncWorker takes every receiver for a valid one.
RequestedAt(v) ==
  [req |-> TxHash(v), terms |-> At(v).terms,
   validReceiver |-> ChainSyncRuns \/ At(v).terms \notin InvalidReceiver]

\* Mutant: the hash of the prepare is left empty.
MutantPreparedAt(v) ==
  [req |-> At(v).req, prepare |-> 0, terms |-> At(v).terms, outs |-> At(v).outs,
   sound |-> TRUE]

\* The Aptos reader takes the version for the request hash and the request hash
\* of the event for the prepare hash.
PreparedAt(v) ==
  [req |-> IF worker = "ethsync" THEN At(v).req ELSE TxHash(v),
   prepare |-> IF worker = "ethsync" THEN TxHash(v) ELSE At(v).req,
   terms |-> At(v).terms, outs |-> At(v).outs, sound |-> TRUE]

-----------------------------------------------------------------------------
(* Loop                                                                     *)

\* The chain has gone on since the last round.
Ahead(n) == last < n

\* A tick finds the chain ahead: the state is told, before the events are read.
Tick(n) ==
  /\ pc = "idle" /\ Ahead(n)
  /\ SendFinalized(n)
  /\ pc' = "fetch" /\ target' = n /\ inspected' = last + 1
  /\ UNCHANGED <<worker, ledger, first, last, batch, sent, crashes>>

\* Mutant: the last block of a round is left out.
MutantFetched == IF worker # "ethsync" THEN ModuleEvents
                 ELSE IF inspected = target THEN {} ELSE EventLogs(inspected)

Fetched == IF worker = "ethsync" THEN EventLogs(inspected) ELSE ModuleEvents

Fetch ==
  /\ pc = "fetch"
  /\ batch' = Fetched /\ pc' = "deliver"
  /\ UNCHANGED <<vars, worker, ledger, first, last, target, inspected, sent, crashes>>

\* The events are sent one by one; a send on a full channel waits.
Deliver ==
  /\ pc = "deliver"
  /\ \E v \in batch :
       /\ \A w \in batch \ {v} : Precedes(v, w)
       /\ \/ Kind(v) = "mint" /\ SendMinted(MintedAt(v))
          \/ Kind(v) = "request" /\ SendRequested(RequestedAt(v))
          \/ Kind(v) = "prepare" /\ SendPrepared(PreparedAt(v))
       /\ sent' = sent \cup {v}
       /\ batch' = batch \ {v}
  /\ UNCHANGED <<worker, ledger, first, last, pc, target, inspected, crashes>>

\* ChainSync reads once per tick, its predecessors once per ledger number.
Rounds == ~ChainSyncRuns

EndBatch ==
  /\ pc = "deliver" /\ batch = {}
  /\ \/ /\ Rounds /\ inspected < target
        /\ inspected' = inspected + 1 /\ pc' = "fetch"
        /\ UNCHANGED <<last, target>>
     \/ /\ ~(Rounds /\ inspected < target)
        /\ last' = target /\ pc' = "idle" /\ target' = 0 /\ inspected' = 0
  /\ UNCHANGED <<vars, worker, ledger, first, batch, sent, crashes>>

SyncStep == (\E n \in Numbers : Tick(n)) \/ Fetch \/ Deliver \/ EndBatch

\* state.Start
StateStep ==
  /\ StateStarted
  /\ ReceiveErr \/ HandleFinalized \/ HandleRequested \/ HandlePrepared
     \/ HandleMinted \/ HandleMintedWrite
  /\ UNCHANGED <<worker, ledger, sync, crashes>>

\* The process ends, by a crash, a failed call of a reader or an error of one
\* of the loops, and is started again.
SyncRestart ==
  /\ \/ crashes < MaxCrashes /\ crashes' = crashes + 1
     \/ loop = "returned" /\ UNCHANGED crashes
  /\ NewProcess
  /\ last' = StartNumber(finalized) /\ first' = last'
  /\ pc' = "idle" /\ target' = 0 /\ inspected' = 0 /\ batch' = {} /\ sent' = {}
  /\ UNCHANGED <<worker, ledger>>

SyncNext ==
  \/ \E terms \in Terms : UserRequests(terms)
  \/ \E r \in Request, outs \in Outpoints : ManagerPrepares(r, outs)
  \/ \E b \in BtcTx : ManagerMints(b) \/ DepositSeen(b)
  \/ DepositStored
  \/ SyncStep
  \/ StateStep
  \/ SyncRestart

SyncSpec == SyncInit /\ [][SyncNext]_syncVars

\* The goroutines of the synchronizer, of the state and of the observer run; the
\* select may serve its channels in any order.  The process is started again.
SyncFairness ==
  /\ WF_syncVars(SyncStep) /\ WF_syncVars(StateStep) /\ WF_syncVars(DepositStored)
  /\ WF_syncVars(loop = "returned" /\ SyncRestart)

SyncFairSpec == SyncSpec /\ SyncFairness

-----------------------------------------------------------------------------
(* Properties                                                               *)

\* What the synchronizer does to the state is what BridgeState allows: its
\* events are well formed, and nothing else of the state is touched, so that
\* all that holds of the state holds of the two together.
FeedsState == Spec

\* The reader returns the event of v: it is in the page.
Readable(v) == worker = "ethsync" \/ v \in ModuleEvents

\* Between two rounds the synchronizer has sent, since it was started, every
\* readable event between its first number and its last, whatever the chain
\* added meanwhile.
NothingSkipped ==
  pc = "idle" =>
    \A v \in Numbers :
      first < v /\ v <= last /\ Kind(v) # "other" /\ Readable(v) => v \in sent

ReadableEvents(kind) == {v \in Events(kind) : Readable(v)}

\* Two readable events have one hash: the versions 100 and 101 are both stored
\* as 0x10.  The second request is then dropped as known, or does not match the
\* row it meets; the second mint is refused by UNIQUE, and the state's loop
\* returns on it after every restart.
HashesCollide ==
  \E v, w \in Numbers :
    v # w /\ TxHash(v) = TxHash(w) /\ {Kind(v), Kind(w)} \cap {"other"} = {}
    /\ Readable(v) /\ Readable(w)

\* Every readable request has its row, with its own terms.
RowsComplete ==
  \A v \in ReadableEvents("request") :
    redeem[TxHash(v)] # NoRow /\ redeem[TxHash(v)].terms = At(v).terms

\* Where the state's loop is started, a redeem that a user requested on the
\* chain gets its row, through full channels, stops, restarts and versions that
\* lose a digit, unless two hashes collide: again and again no request is
\* without its row.  (Rows are not deleted, so that in the end none is.)
RequestStored == []<>(StateStarted => RowsComplete \/ HashesCollide)

\* Every readable mint is recorded for its deposit; a later scan of the deposit
\* may have put zeros over the hash.
MintsComplete ==
  \A v \in ReadableEvents("mint") : mint[At(v).btc] \in {TxHash(v), ZeroHash}

\* Where the state's loop is started, a mint on the chain is recorded for its
\* deposit in the end, unless two hashes collide, and although the observer
\* writes the row too: the deposit is not offered to the manager again.
MintRecorded == []<>(StateStarted => MintsComplete \/ HashesCollide)

\* README of chainsync: the synchronizer shall "Notify `state` database about
\* the captured events".  The prepare of a redeem reaches the row of that redeem.
PreparesComplete(W) ==
  worker \in W =>
    \A v \in ReadableEvents("prepare") :
      redeem[At(v).req] # NoRow /\ redeem[At(v).req].status = "prepared"

PreparedReachesEth == []<>PreparesComplete({"ethsync"})

PreparedReachesAptos == []<>PreparesComplete({"chainsync", "aptossync"})
=============================================================================
