----------------------------- MODULE BridgeState -----------------------------
(***************************************************************************)
(* The shared state of the bridge: package state.  One goroutine, the loop *)
(* of State.Start, selects over four channels that the synchroniser fills  *)
(* and writes the tables redeem, mint and kv of the state database.  The   *)
(* mint observer of package btcsync writes the mint table from a goroutine *)
(* of its own.                                                             *)
(*                                                                         *)
(* Data are abstracted to what the code compares: a hash is a model value, *)
(* `terms' stands for (requester, receiver, amount), an outpoint list is   *)
(* one value, and an event carries the verdicts of the validity checks.    *)
(***************************************************************************)
EXTENDS Naturals, Sequences

CONSTANTS
  Request,          \* request tx hashes, the keys of table redeem
  PrepareTx,        \* prepare tx hashes
  Terms,            \* (requester, receiver, amount) triples
  BadTerms,         \* the terms whose amount is not positive
  Outpoints,        \* non-empty outpoint lists
  BtcTx,            \* BTC deposit tx ids, the keys of table mint
  MintTx,           \* mint tx hashes, none of them zero
  ZeroHash,         \* common.EmptyHash, 32 zero bytes
  NULL,             \* SQL NULL, and the absence of a pending operation
  NoRow,            \* no row with this key
  RequestedEvents,  \* the requested events the chain may report
  PreparedEvents,   \* the prepared events the chain may report
  MintedEvents,     \* the minted events the chain may report
  LedgerNumbers,    \* the finalized ledger numbers the chain may report
  ChannelSize,      \* StateConfig.ChannelSize
  Faults,           \* which of "db" and "crash" may happen
  RedeemDoneObserver  \* whether the redeem observer is registered

EthStartingBlock == 1

\* agreement.RedeemRequestedEvent
RequestedEvent == [req: Request, terms: Terms, validReceiver: BOOLEAN]

\* agreement.RedeemPreparedEvent.  `sound': prepare hash not zero, outpoint
\* lists of one non-zero length and without a zero tx id.
PreparedEvent == [req: Request, prepare: PrepareTx, terms: Terms,
                  outs: Outpoints, sound: BOOLEAN]

MintedEvent == [btc: BtcTx, tx: MintTx]

ASSUME ConstantsAssumption ==
  /\ RequestedEvents \subseteq RequestedEvent
  /\ PreparedEvents \subseteq PreparedEvent
  /\ MintedEvents \subseteq MintedEvent
  /\ BadTerms \subseteq Terms
  /\ LedgerNumbers \subseteq Nat
  /\ ChannelSize \in Nat \ {0}
  /\ NULL \notin PrepareTx \cup Outpoints \cup MintTx \cup {ZeroHash, NoRow}
  /\ NoRow \notin MintTx \cup {ZeroHash}
  /\ ZeroHash \notin MintTx

Status == {"requested", "prepared", "completed", "invalid"}

RedeemRow == [terms: Terms, prepare: PrepareTx \cup {NULL},
              outs: Outpoints \cup {NULL}, status: Status]

ASSUME NoRowAssumption == NoRow \notin RedeemRow

VARIABLES
  redeem,      \* table redeem: Request -> row or NoRow
  mint,        \* column mintTxHash of table mint, by btcTxId
  finalized,   \* kv[KeyEthFinalizedBlock] and its cache
  finalizedCh, mintedCh, requestedCh, preparedCh,   \* the channels
  errs,        \* number of errors in errCh, whose capacity is 1
  loop,        \* the goroutine of Start
  update       \* the UpdateMint in progress in each of the two writers

channels == <<finalizedCh, mintedCh, requestedCh, preparedCh>>
tables   == <<redeem, mint, finalized>>
vars     == <<tables, channels, errs, loop, update>>

\* The two goroutines that call UpdateMint.
Writer == {"loop", "observer"}

MintUpdate == [btc: BtcTx, tx: MintTx \cup {ZeroHash}, found: BOOLEAN]

TypeOK ==
  /\ redeem \in [Request -> RedeemRow \cup {NoRow}]
  /\ mint \in [BtcTx -> MintTx \cup {ZeroHash, NULL, NoRow}]
  /\ finalized \in Nat
  /\ finalizedCh \in Seq(LedgerNumbers) /\ Len(finalizedCh) <= 1
  /\ mintedCh \in Seq(MintedEvents) /\ Len(mintedCh) <= ChannelSize
  /\ requestedCh \in Seq(RequestedEvents) /\ Len(requestedCh) <= ChannelSize
  /\ preparedCh \in Seq(PreparedEvents) /\ Len(preparedCh) <= ChannelSize
  /\ errs \in 0..1
  /\ loop \in {"running", "blocked", "returned"}
  /\ update \in [Writer -> MintUpdate \cup {NULL}]

Init ==
  /\ redeem = [r \in Request |-> NoRow]
  /\ mint = [b \in BtcTx |-> NoRow]
  /\ finalized = EthStartingBlock
  /\ finalizedCh = <<>> /\ mintedCh = <<>>
  /\ requestedCh = <<>> /\ preparedCh = <<>>
  /\ errs = 0
  /\ loop = "running"
  /\ update = [w \in Writer |-> NULL]

-----------------------------------------------------------------------------
(* The synchroniser sends on the channels; a send on a full channel waits.  *)

SendFinalized(n) ==
  /\ Len(finalizedCh) < 1
  /\ finalizedCh' = Append(finalizedCh, n)
  /\ UNCHANGED <<tables, mintedCh, requestedCh, preparedCh, errs, loop, update>>

SendMinted(ev) ==
  /\ Len(mintedCh) < ChannelSize
  /\ mintedCh' = Append(mintedCh, ev)
  /\ UNCHANGED <<tables, finalizedCh, requestedCh, preparedCh, errs, loop, update>>

SendRequested(ev) ==
  /\ Len(requestedCh) < ChannelSize
  /\ requestedCh' = Append(requestedCh, ev)
  /\ UNCHANGED <<tables, finalizedCh, mintedCh, preparedCh, errs, loop, update>>

SendPrepared(ev) ==
  /\ Len(preparedCh) < ChannelSize
  /\ preparedCh' = Append(preparedCh, ev)
  /\ UNCHANGED <<tables, finalizedCh, mintedCh, requestedCh, errs, loop, update>>

-----------------------------------------------------------------------------
(* The loop of Start.                                                       *)

\* The loop is at its select.
Selecting == loop = "running" /\ update["loop"] = NULL

\* Mutant: errCh holds any number of errors.
MutantRaise == errs' = errs + 1 /\ UNCHANGED loop

\* errCh <- err, by the goroutine that also receives from errCh: with an
\* error already buffered the send never returns.
Raise ==
  IF errs = 0 THEN errs' = 1 /\ UNCHANGED loop
              ELSE loop' = "blocked" /\ UNCHANGED errs

NoError == UNCHANGED <<errs, loop>>

\* case err := <-errCh: every error makes Start return.
ReceiveErr ==
  /\ Selecting /\ errs > 0
  /\ errs' = errs - 1
  /\ loop' = "returned"
  /\ UNCHANGED <<tables, channels, update>>

\* The stored number is read, and replaced unless it is higher.
SetFinalized(n) == finalized' = IF finalized <= n THEN n ELSE finalized

HandleFinalized ==
  /\ Selecting /\ finalizedCh # <<>>
  /\ finalizedCh' = Tail(finalizedCh)
  /\ SetFinalized(Head(finalizedCh))
  /\ NoError
  /\ UNCHANGED <<redeem, mint, mintedCh, requestedCh, preparedCh, update>>

\* createRedeemFromRequestedEvent, for an event that passes its checks.
RequestedRow(terms, valid) ==
  [terms |-> terms, prepare |-> NULL, outs |-> NULL,
   status |-> IF valid THEN "requested" ELSE "invalid"]

\* GetRedeem, HasRedeem: the redeem is found.
Stored(r) == redeem[r] # NoRow

InsertAfterRequested(ev) ==
  redeem' = [redeem EXCEPT ![ev.req] = RequestedRow(ev.terms, ev.validReceiver)]

HandleRequested ==
  /\ Selecting /\ requestedCh # <<>>
  /\ requestedCh' = Tail(requestedCh)
  /\ LET ev == Head(requestedCh)
     IN \/ Stored(ev.req) /\ NoError /\ UNCHANGED redeem
        \/ /\ ~Stored(ev.req)
           /\ \/ ev.terms \in BadTerms /\ Raise /\ UNCHANGED redeem
              \/ ev.terms \notin BadTerms /\ NoError /\ InsertAfterRequested(ev)
  /\ UNCHANGED <<mint, finalized, finalizedCh, mintedCh, preparedCh, update>>

MutantMatches(ev, terms) == ev.sound   \* mutant: terms not compared

\* updateFromPreparedEvent accepts the event for a row with these terms.
Matches(ev, terms) == ev.terms = terms /\ ev.sound

PreparedRow(ev) ==
  [terms |-> ev.terms, prepare |-> ev.prepare, outs |-> ev.outs,
   status |-> "prepared"]

\* The UPDATE of UpdateAfterPrepared leaves the other columns alone.
UpdatedRow(row, ev) ==
  [terms |-> row.terms, prepare |-> ev.prepare, outs |-> ev.outs,
   status |-> "prepared"]

MutantPrepareTaken(ev) == FALSE   \* mutant: no UNIQUE on prepareTxHash

\* Another row holds this prepare tx hash, so that UNIQUE refuses it.
PrepareTaken(ev) ==
  \E r \in Request \ {ev.req} :
    redeem[r] # NoRow /\ redeem[r].prepare = ev.prepare

MutantAlreadyPrepared(ev) == FALSE   \* mutant: prepared rows not skipped

Prepared(r) == Stored(r) /\ redeem[r].status \in {"prepared", "completed"}

\* Rows that a prepared event leaves alone: nothing to do.
AlreadyPrepared(ev) == Prepared(ev.req)

\* Mutant: a prepared event ahead of its request is dropped.
MutantPrepareAbsent(ev) ==
  redeem[ev.req] = NoRow /\ NoError /\ UNCHANGED redeem

\* Nothing stored yet: the redeem is created from the prepared event, by an
\* INSERT OR IGNORE that a taken prepare tx hash turns into a silent no-op.
PrepareAbsent(ev) ==
  /\ ~Stored(ev.req)
  /\ LET valid == ev.terms \notin BadTerms /\ Matches(ev, ev.terms)
     IN /\ redeem' = IF valid /\ ~PrepareTaken(ev)
                     THEN [redeem EXCEPT ![ev.req] = PreparedRow(ev)]
                     ELSE redeem
        /\ IF valid THEN NoError ELSE Raise

\* A stored request: an UPDATE that a taken prepare tx hash makes fail.
PrepareStored(ev) ==
  /\ Stored(ev.req)
  /\ ~AlreadyPrepared(ev)
  /\ LET row == redeem[ev.req]
         accepted == /\ row.status # "invalid"
                     /\ Matches(ev, row.terms)
                     /\ ~PrepareTaken(ev)
     IN /\ redeem' = IF accepted
                     THEN [redeem EXCEPT ![ev.req] = UpdatedRow(row, ev)]
                     ELSE redeem
        /\ IF accepted THEN NoError ELSE Raise

HandlePrepared ==
  /\ Selecting /\ preparedCh # <<>>
  /\ preparedCh' = Tail(preparedCh)
  /\ LET ev == Head(preparedCh)
     IN \/ AlreadyPrepared(ev) /\ NoError /\ UNCHANGED redeem
        \/ PrepareAbsent(ev)
        \/ PrepareStored(ev)
  /\ UNCHANGED <<mint, finalized, finalizedCh, mintedCh, requestedCh, update>>

\* A database statement of a handler fails before anything is written.
HandlerFault ==
  /\ "db" \in Faults
  /\ Selecting
  /\ \/ /\ finalizedCh # <<>> /\ finalizedCh' = Tail(finalizedCh)
        /\ UNCHANGED <<mintedCh, requestedCh, preparedCh>>
     \/ /\ mintedCh # <<>> /\ mintedCh' = Tail(mintedCh)
        /\ UNCHANGED <<finalizedCh, requestedCh, preparedCh>>
     \/ /\ requestedCh # <<>> /\ requestedCh' = Tail(requestedCh)
        /\ UNCHANGED <<finalizedCh, mintedCh, preparedCh>>
     \/ /\ preparedCh # <<>> /\ preparedCh' = Tail(preparedCh)
        /\ UNCHANGED <<finalizedCh, mintedCh, requestedCh>>
  /\ Raise
  /\ UNCHANGED <<tables, update>>

-----------------------------------------------------------------------------
(* UpdateMint: GetMint, then an INSERT or an UPDATE.  The two statements   *)
(* are not one transaction, and the loop and the mint observer both run it.*)

\* What GetMint tells the writer.
MintRead(w, b, tx) ==
  update' = [update EXCEPT ![w] = [btc |-> b, tx |-> tx, found |-> mint[b] # NoRow]]

\* Mutant: the UPDATE stores NULL for the empty hash, as the INSERT does.
MutantMintWritten(u) == IF u.tx = ZeroHash THEN NULL ELSE u.tx

\* The value written: InsertMint turns the empty hash into NULL, whereas the
\* UPDATE stores the encoded hash, 64 zeros for the empty one.
MintWritten(u) == IF ~u.found /\ u.tx = ZeroHash THEN NULL ELSE u.tx

MutantMintRefused(u) == mint[u.btc] # NoRow   \* mutant: INSERT for UPDATE

\* PRIMARY KEY refuses a second INSERT, UNIQUE a mint tx hash in use.
MintRefused(u) ==
  \/ ~u.found /\ mint[u.btc] # NoRow
  \/ /\ MintWritten(u) # NULL
     /\ \E b \in BtcTx \ {u.btc} : mint[b] = MintWritten(u)

\* Mutant: the two writers share the row they are working on.
MutantMintWrite(w) ==
  LET row == IF update["observer"] = NULL THEN update[w].btc ELSE update["observer"].btc
  IN  /\ update[w] # NULL
      /\ mint' = [mint EXCEPT ![row] = MintWritten(update[w])]
      /\ update' = [update EXCEPT ![w] = NULL]

MintWrite(w) ==
  /\ update[w] # NULL
  /\ mint' = IF MintRefused(update[w]) THEN mint
             ELSE [mint EXCEPT ![update[w].btc] = MintWritten(update[w])]
  /\ update' = [update EXCEPT ![w] = NULL]

\* case ev := <-newMintedEventCh, up to GetMint.
HandleMinted ==
  /\ Selecting /\ mintedCh # <<>>
  /\ mintedCh' = Tail(mintedCh)
  /\ MintRead("loop", Head(mintedCh).btc, Head(mintedCh).tx)
  /\ UNCHANGED <<tables, finalizedCh, requestedCh, preparedCh, errs, loop>>

\* ... and the rest of that handler.
HandleMintedWrite ==
  /\ loop = "running"
  /\ MintWrite("loop")
  /\ IF MintRefused(update["loop"]) THEN Raise ELSE NoError
  /\ UNCHANGED <<redeem, finalized, channels>>

\* BTC2EVMObserver: a deposit was seen on Bitcoin, maybe not for the first
\* time.  SetNewBTC2EVMMint calls UpdateMint with the empty mint tx hash.
ObserveDeposit(b) ==
  /\ update["observer"] = NULL
  /\ MintRead("observer", b, ZeroHash)
  /\ UNCHANGED <<tables, channels, errs, loop>>

\* The observer drops the error UpdateMint may return.
ObserveDepositWrite ==
  /\ MintWrite("observer")
  /\ UNCHANGED <<redeem, finalized, channels, errs, loop>>

\* GetUnMinted
UnMinted == {b \in BtcTx : mint[b] = NULL}

-----------------------------------------------------------------------------
(* The process ends and starts again: New with the stored tables.           *)
NewProcess ==
  /\ finalizedCh' = <<>> /\ mintedCh' = <<>>
  /\ requestedCh' = <<>> /\ preparedCh' = <<>>
  /\ errs' = 0
  /\ loop' = "running"
  /\ update' = [w \in Writer |-> NULL]
  /\ UNCHANGED tables

\* A crash at any point, or the exit that follows when Start has returned.
Restart ==
  /\ "crash" \in Faults \/ loop = "returned"
  /\ NewProcess

\* Encoding the row for the UPDATE dereferences the Amount, which is nil: the
\* process dies.
UpdateAfterRedeemed == NewProcess

\* RedeemObserver: the BTC tx that pays redeem r is mined.  The Redeem that is
\* built has no Amount.
SetRedeemCompleted(r) ==
  /\ RedeemDoneObserver
  /\ Stored(r)
  /\ redeem[r].status = "prepared"
  /\ UpdateAfterRedeemed

-----------------------------------------------------------------------------
Next ==
  \/ \E n \in LedgerNumbers : SendFinalized(n)
  \/ \E ev \in MintedEvents : SendMinted(ev)
  \/ \E ev \in RequestedEvents : SendRequested(ev)
  \/ \E ev \in PreparedEvents : SendPrepared(ev)
  \/ ReceiveErr
  \/ HandleFinalized
  \/ HandleRequested
  \/ HandlePrepared
  \/ HandlerFault
  \/ HandleMinted
  \/ HandleMintedWrite
  \/ \E b \in BtcTx : ObserveDeposit(b)
  \/ ObserveDepositWrite
  \/ Restart
  \/ \E r \in Request : SetRedeemCompleted(r)

Spec == Init /\ [][Next]_vars

-----------------------------------------------------------------------------
(* Properties of table redeem.                                              *)

\* A row is either a request still without outpoints, or exactly what one
\* sound prepared event of the chain says, in whichever order the two events
\* of a redeem were received; its amount is positive.
RedeemRowsFaithful ==
  \A r \in Request : Stored(r) =>
    /\ redeem[r].terms \notin BadTerms
    /\ IF Prepared(r)
       THEN \E ev \in PreparedEvents :
              /\ ev.req = r /\ ev.sound /\ redeem[r].terms = ev.terms
              /\ redeem[r].prepare = ev.prepare /\ redeem[r].outs = ev.outs
       ELSE \E ev \in RequestedEvents :
              ev.req = r /\ redeem[r] = RequestedRow(ev.terms, ev.validReceiver)

\* One prepare transaction never backs two redeems, although a redeem may be
\* created by either event and the INSERT ignores conflicts.
PrepareNotShared ==
  \A r1, r2 \in Request :
    Prepared(r1) /\ Prepared(r2) /\ redeem[r1].prepare = redeem[r2].prepare => r1 = r2

\* The life of a redeem.
Steps == {<<s, s>> : s \in Status}
         \cup {<<"requested", "prepared">>, <<"prepared", "completed">>}

\* What duplicated, reordered or conflicting events and restarts never do to a
\* stored redeem: delete it, change its terms, prepare it a second time with
\* other outpoints, revive an invalid one or undo a completed one.  (The last
\* step, "from prepared to completed" in state.go, is allowed; as it stands the
\* code ends with a panic before it is taken.)
RedeemStep(r) ==
  Stored(r) =>
    /\ redeem'[r] # NoRow
    /\ redeem'[r].terms = redeem[r].terms
    /\ <<redeem[r].status, redeem'[r].status>> \in Steps
    /\ redeem[r].status # "requested" =>
         redeem'[r].prepare = redeem[r].prepare /\ redeem'[r].outs = redeem[r].outs

RedeemLifecycle == [][\A r \in Request : RedeemStep(r)]_vars

-----------------------------------------------------------------------------
(* Properties of table mint.                                                *)

\* A deposit that has left GetUnMinted never returns to it, whatever the order
\* of minted events and repeated deposit notifications: a second mint of the
\* deposit is never asked for.
MintNeverReopened ==
  [][\A b \in BtcTx : mint[b] \notin {NULL, NoRow} =>
                        mint'[b] \notin {NULL, NoRow}]_vars

\* A stored mint tx hash is the hash of a mint of that very deposit, also when
\* the loop and the observer interleave their statements.
MintFaithful ==
  \A b \in BtcTx : mint[b] \in MintTx =>
    [btc |-> b, tx |-> mint[b]] \in MintedEvents

\* observer_mint.go: "this field is empty until ETH side mints TWBTC".  A row
\* without a real mint tx hash is one that GetUnMinted returns.
EmptyUntilMinted ==
  \A b \in BtcTx : mint[b] \notin MintTx \cup {NoRow} => b \in UnMinted
=============================================================================
