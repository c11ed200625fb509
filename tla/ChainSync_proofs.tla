-------------------------- MODULE ChainSync_proofs --------------------------
(***************************************************************************)
(* Proofs about BridgeState, for every set of hashes, every set of events  *)
(* the chain may report and every channel size, and then about ChainSync,  *)
(* which feeds it: for all three synchronizers and every chain, page size, *)
(* starting number and number of stops.                                    *)
(***************************************************************************)
EXTENDS ChainSync, TLAPS

-----------------------------------------------------------------------------
(* The state                                                                *)

\* Sending on a channel with room keeps it a bounded sequence of its events.
LEMMA SendType ==
  ASSUME NEW S, NEW n \in Nat, NEW ch \in Seq(S), NEW x \in S, Len(ch) < n
  PROVE  Append(ch, x) \in Seq(S) /\ Len(Append(ch, x)) <= n
  OBVIOUS

\* Receiving from a non-empty channel yields one of its events.
LEMMA ReceiveType ==
  ASSUME NEW S, NEW n \in Nat, NEW ch \in Seq(S), ch # <<>>, Len(ch) <= n
  PROVE  Head(ch) \in S /\ Tail(ch) \in Seq(S) /\ Len(Tail(ch)) <= n
  OBVIOUS

\* A channel from which at most one event was received.
LEMMA DrainType ==
  ASSUME NEW S, NEW n \in Nat, NEW ch \in Seq(S), Len(ch) <= n,
         NEW left, left = ch \/ (ch # <<>> /\ left = Tail(ch))
  PROVE  left \in Seq(S) /\ Len(left) <= n
  BY ReceiveType

\* A new process has empty channels.
LEMMA EmptyType ==
  ASSUME NEW S, NEW n \in Nat
  PROVE  <<>> \in Seq(S) /\ Len(<<>>) <= n
  OBVIOUS

\* A raised error leaves errCh and the loop in their ranges.
LEMMA RaiseType ==
  ASSUME TypeOK, Raise \/ NoError
  PROVE  errs' \in 0..1 /\ loop' \in {"running", "blocked", "returned"}
  BY DEF TypeOK, Raise, NoError

\* Both events make rows of the table's type.
LEMMA RowTypes ==
  /\ \A t \in Terms, v \in BOOLEAN : RequestedRow(t, v) \in RedeemRow
  /\ \A ev \in PreparedEvents : PreparedRow(ev) \in RedeemRow
  BY ConstantsAssumption
  DEF RequestedRow, PreparedRow, RedeemRow, PreparedEvent, Status

-----------------------------------------------------------------------------
\* The table redeem after each of the two handlers that write it.
LEMMA RequestedTable ==
  ASSUME TypeOK, HandleRequested
  PROVE  /\ Head(requestedCh) \in RequestedEvents
         /\ \/ redeem' = redeem
            \/ /\ redeem[Head(requestedCh).req] = NoRow
               /\ Head(requestedCh).terms \notin BadTerms
               /\ redeem' = [redeem EXCEPT ![Head(requestedCh).req] =
                               RequestedRow(Head(requestedCh).terms,
                                            Head(requestedCh).validReceiver)]
  <1>1. Head(requestedCh) \in RequestedEvents
    BY ReceiveType, ConstantsAssumption
    DEF TypeOK, HandleRequested, InsertAfterRequested, Stored
  <1> QED BY <1>1 DEF HandleRequested, InsertAfterRequested, Stored

\* A prepared event is written only over nothing or over a request with the
\* same terms, and only when its prepare tx hash is not taken.
LEMMA PreparedTable ==
  ASSUME TypeOK, HandlePrepared
  PROVE  /\ Head(preparedCh) \in PreparedEvents
         /\ \/ redeem' = redeem
            \/ /\ \/ /\ redeem[Head(preparedCh).req] = NoRow
                     /\ Head(preparedCh).terms \notin BadTerms
                  \/ /\ redeem[Head(preparedCh).req] # NoRow
                     /\ redeem[Head(preparedCh).req].status = "requested"
                     /\ redeem[Head(preparedCh).req].terms = Head(preparedCh).terms
               /\ Head(preparedCh).sound
               /\ ~PrepareTaken(Head(preparedCh))
               /\ redeem' = [redeem EXCEPT ![Head(preparedCh).req] =
                               PreparedRow(Head(preparedCh))]
  <1> USE ConstantsAssumption
  <1>1. Head(preparedCh) \in PreparedEvents
    BY ReceiveType, ConstantsAssumption DEF TypeOK, HandlePrepared
  <1> DEFINE ev == Head(preparedCh)
  <1>2. CASE AlreadyPrepared(ev) /\ UNCHANGED redeem
    BY <1>1, <1>2
  <1>3. CASE PrepareAbsent(ev)
    BY <1>1, <1>3 DEF PrepareAbsent, Stored, Matches
  <1>4. CASE PrepareStored(ev)
    <2>1. ev \in PreparedEvent /\ redeem[ev.req] \in RedeemRow
      BY <1>1, <1>4 DEF PrepareStored, Stored, PreparedEvent, TypeOK
    <2>2. redeem[ev.req].terms = ev.terms =>
            UpdatedRow(redeem[ev.req], ev) = PreparedRow(ev)
      BY <2>1 DEF UpdatedRow, PreparedRow, RedeemRow
    <2>3. redeem[ev.req].status \notin {"invalid", "prepared", "completed"} =>
            redeem[ev.req].status = "requested"
      BY <2>1 DEF RedeemRow, Status
    <2> QED
      BY <1>1, <1>4, <2>2, <2>3 DEF PrepareStored, Matches, AlreadyPrepared, Prepared, Stored
  <1> QED BY <1>2, <1>3, <1>4 DEF HandlePrepared

\* Every other action leaves table redeem alone.
LEMMA OtherTable ==
  ASSUME [Next]_vars
  PROVE  HandleRequested \/ HandlePrepared \/ redeem' = redeem
  BY DEF Next, vars, tables, channels, SendFinalized, SendMinted, SendRequested,
         SendPrepared, ReceiveErr, HandleFinalized, SetFinalized, HandlerFault, HandleMinted,
         HandleMintedWrite, ObserveDeposit, ObserveDepositWrite, Restart,
         SetRedeemCompleted, UpdateAfterRedeemed, NewProcess

\* Table mint changes only by MintWrite.
LEMMA MintTable ==
  ASSUME [Next]_vars
  PROVE  (\E w \in Writer : MintWrite(w)) \/ mint' = mint
  BY DEF Next, vars, tables, channels, SendFinalized, SendMinted, SendRequested,
         SendPrepared, ReceiveErr, HandleFinalized, SetFinalized, HandlerFault, HandleMinted,
         HandleMintedWrite, ObserveDeposit, ObserveDepositWrite, Restart,
         SetRedeemCompleted, UpdateAfterRedeemed, NewProcess, HandleRequested,
         HandlePrepared, Writer

-----------------------------------------------------------------------------
\* The state of New is well typed.
LEMMA TypeInit == Init => TypeOK
  BY EmptyType, ConstantsAssumption
  DEF Init, TypeOK, EthStartingBlock, RedeemRow, MintUpdate

\* A write to table mint keeps it well typed and ends the update.
LEMMA MintWriteType ==
  ASSUME TypeOK, NEW w \in Writer, MintWrite(w)
  PROVE  /\ mint' \in [BtcTx -> MintTx \cup {ZeroHash, NULL, NoRow}]
         /\ update' \in [Writer -> MintUpdate \cup {NULL}]
  BY DEF TypeOK, MintWrite, MintWritten, MintUpdate

\* Every action keeps the types.
LEMMA TypeNext == TypeOK /\ [Next]_vars => TypeOK'
  <1> SUFFICES ASSUME TypeOK, [Next]_vars PROVE TypeOK'
    OBVIOUS
  <1> USE ConstantsAssumption
  <1>1. ASSUME NEW n \in LedgerNumbers, SendFinalized(n) PROVE TypeOK'
    BY <1>1, SendType DEF TypeOK, SendFinalized, tables
  <1>2. ASSUME NEW ev \in MintedEvents, SendMinted(ev) PROVE TypeOK'
    BY <1>2, SendType DEF TypeOK, SendMinted, tables
  <1>3. ASSUME NEW ev \in RequestedEvents, SendRequested(ev) PROVE TypeOK'
    BY <1>3, SendType DEF TypeOK, SendRequested, tables
  <1>4. ASSUME NEW ev \in PreparedEvents, SendPrepared(ev) PROVE TypeOK'
    BY <1>4, SendType DEF TypeOK, SendPrepared, tables
  <1>5. CASE ReceiveErr
    BY <1>5 DEF TypeOK, ReceiveErr, tables, channels
  <1>6. CASE HandleFinalized
    <2>1. /\ Head(finalizedCh) \in LedgerNumbers
          /\ Tail(finalizedCh) \in Seq(LedgerNumbers)
          /\ Len(Tail(finalizedCh)) <= 1
      BY <1>6, ReceiveType DEF TypeOK, HandleFinalized, SetFinalized
    <2> QED BY <1>6, <2>1 DEF TypeOK, HandleFinalized, SetFinalized, NoError
  <1>7. CASE HandleRequested
    <2>1. redeem' \in [Request -> RedeemRow \cup {NoRow}]
      BY <1>7, RequestedTable, RowTypes DEF TypeOK, RequestedEvent
    <2>2. /\ Tail(requestedCh) \in Seq(RequestedEvents)
          /\ Len(Tail(requestedCh)) <= ChannelSize
      BY <1>7, ReceiveType DEF TypeOK, HandleRequested, InsertAfterRequested, Stored
    <2>3. Raise \/ NoError
      BY <1>7 DEF HandleRequested, InsertAfterRequested, Stored
    <2> QED BY <1>7, <2>1, <2>2, <2>3, RaiseType
        DEF TypeOK, HandleRequested, InsertAfterRequested, Stored
  <1>8. CASE HandlePrepared
    <2>1. redeem' \in [Request -> RedeemRow \cup {NoRow}]
      BY <1>8, PreparedTable, RowTypes DEF TypeOK, PreparedEvent
    <2>2. /\ Tail(preparedCh) \in Seq(PreparedEvents)
          /\ Len(Tail(preparedCh)) <= ChannelSize
      BY <1>8, ReceiveType DEF TypeOK, HandlePrepared
    <2>3. Raise \/ NoError
      BY <1>8 DEF HandlePrepared, PrepareAbsent, Stored, PrepareStored
    <2> QED BY <1>8, <2>1, <2>2, <2>3, RaiseType DEF TypeOK, HandlePrepared
  <1>9. CASE HandlerFault
    <2>1. /\ finalizedCh' \in Seq(LedgerNumbers) /\ Len(finalizedCh') <= 1
          /\ mintedCh' \in Seq(MintedEvents) /\ Len(mintedCh') <= ChannelSize
          /\ requestedCh' \in Seq(RequestedEvents) /\ Len(requestedCh') <= ChannelSize
          /\ preparedCh' \in Seq(PreparedEvents) /\ Len(preparedCh') <= ChannelSize
      <3>1. finalizedCh' = finalizedCh
            \/ (finalizedCh # <<>> /\ finalizedCh' = Tail(finalizedCh))
        BY <1>9 DEF HandlerFault
      <3>2. mintedCh' = mintedCh \/ (mintedCh # <<>> /\ mintedCh' = Tail(mintedCh))
        BY <1>9 DEF HandlerFault
      <3>3. requestedCh' = requestedCh
            \/ (requestedCh # <<>> /\ requestedCh' = Tail(requestedCh))
        BY <1>9 DEF HandlerFault
      <3>4. preparedCh' = preparedCh
            \/ (preparedCh # <<>> /\ preparedCh' = Tail(preparedCh))
        BY <1>9 DEF HandlerFault
      <3>5. ChannelSize \in Nat
        OBVIOUS
      <3> QED BY <3>1, <3>2, <3>3, <3>4, <3>5, DrainType DEF TypeOK
    <2> QED BY <1>9, <2>1, RaiseType DEF TypeOK, HandlerFault, tables
  <1>10. CASE HandleMinted
    <2>1. /\ Head(mintedCh) \in MintedEvents
          /\ Tail(mintedCh) \in Seq(MintedEvents)
          /\ Len(Tail(mintedCh)) <= ChannelSize
      BY <1>10, ReceiveType DEF TypeOK, HandleMinted
    <2> QED
      BY <1>10, <2>1
      DEF TypeOK, HandleMinted, MintRead, MintUpdate, MintedEvent, tables
  <1>11. CASE HandleMintedWrite
    <2>1. Raise \/ NoError
      BY <1>11 DEF HandleMintedWrite
    <2> QED
      BY <1>11, <2>1, RaiseType, MintWriteType
      DEF TypeOK, HandleMintedWrite, channels, Writer
  <1>12. ASSUME NEW b \in BtcTx, ObserveDeposit(b) PROVE TypeOK'
    BY <1>12 DEF TypeOK, ObserveDeposit, MintRead, MintUpdate, tables, channels
  <1>13. CASE ObserveDepositWrite
    BY <1>13, MintWriteType DEF TypeOK, ObserveDepositWrite, channels, Writer
  <1>14. CASE NewProcess
    BY <1>14, EmptyType DEF TypeOK, NewProcess, tables
  <1>15. CASE UNCHANGED vars
    BY <1>15 DEF TypeOK, vars, tables, channels
  <1> QED
    BY <1>1, <1>2, <1>3, <1>4, <1>5, <1>6, <1>7, <1>8, <1>9, <1>10, <1>11,
       <1>12, <1>13, <1>14, <1>15
    DEF Next, Restart, SetRedeemCompleted, UpdateAfterRedeemed

\* Type correctness: rows, channels and pending updates keep their shapes and
\* no channel exceeds its capacity, under faults, crashes and redelivery.
THEOREM TypeCorrect == Spec => []TypeOK
  BY TypeInit, TypeNext, PTL DEF Spec

-----------------------------------------------------------------------------
\* No handler, duplicate, reordering or restart deletes a redeem, alters its
\* terms, prepares it twice, revives an invalid one or undoes a completed one.
THEOREM LifecycleTheorem == Spec => RedeemLifecycle
  <1>1. ASSUME TypeOK, [Next]_vars, NEW r \in Request PROVE RedeemStep(r)
    <2>0. CASE redeem'[r] = redeem[r]
      BY <1>1, <2>0 DEF RedeemStep, TypeOK, Stored, RedeemRow, Steps
    <2>1. CASE HandleRequested
      BY <1>1, <2>0, <2>1, RequestedTable DEF RedeemStep, TypeOK, Stored
    <2>2. CASE HandlePrepared
      <3>1. PreparedRow(Head(preparedCh)) # NoRow
        BY <1>1, <2>2, PreparedTable, RowTypes, NoRowAssumption
      <3> QED
        BY <1>1, <2>0, <2>2, <3>1, PreparedTable
        DEF RedeemStep, TypeOK, PreparedRow, Stored, Steps
    <2> QED BY <1>1, <2>0, <2>1, <2>2, OtherTable
  <1>2. TypeOK /\ [Next]_vars => [\A r \in Request : RedeemStep(r)]_vars
    BY <1>1
  <1> QED BY <1>2, TypeCorrect, PTL DEF Spec, RedeemLifecycle

\* Every stored row is a request as it was reported, or a redeem with the terms,
\* the prepare transaction and the outpoints of one reported prepare.
THEOREM RowsFaithfulTheorem == Spec => []RedeemRowsFaithful
  <1> DEFINE RowFaithful(r, row) ==
        /\ row.terms \notin BadTerms
        /\ IF row.status \in {"prepared", "completed"}
           THEN \E ev \in PreparedEvents :
                  /\ ev.req = r /\ ev.sound /\ row.terms = ev.terms
                  /\ row.prepare = ev.prepare /\ row.outs = ev.outs
           ELSE \E ev \in RequestedEvents :
                  ev.req = r /\ row = RequestedRow(ev.terms, ev.validReceiver)
  <1>0. /\ RedeemRowsFaithful <=>
             \A r \in Request : redeem[r] # NoRow => RowFaithful(r, redeem[r])
        /\ RedeemRowsFaithful' <=>
             \A r \in Request : redeem'[r] # NoRow => RowFaithful(r, redeem'[r])
    BY DEF RedeemRowsFaithful, Stored, Prepared
  <1>1. Init => RedeemRowsFaithful
    BY DEF Init, RedeemRowsFaithful, Stored
  <1>2. TypeOK /\ RedeemRowsFaithful /\ [Next]_vars => RedeemRowsFaithful'
    <2> SUFFICES ASSUME TypeOK, RedeemRowsFaithful, [Next]_vars,
                        NEW r \in Request, redeem'[r] # NoRow
                 PROVE  RowFaithful(r, redeem'[r])
      BY <1>0
    <2>1. CASE redeem'[r] = redeem[r]
      BY <1>0, <2>1
    <2>2. CASE HandleRequested /\ redeem'[r] # redeem[r]
      <3>1. /\ Head(requestedCh) \in RequestedEvents
            /\ Head(requestedCh).req = r
            /\ Head(requestedCh).terms \notin BadTerms
            /\ redeem'[r] = RequestedRow(Head(requestedCh).terms,
                                         Head(requestedCh).validReceiver)
        BY <2>2, RequestedTable, ConstantsAssumption DEF TypeOK, RequestedEvent
      <3> QED BY <3>1 DEF RequestedRow
    <2>3. CASE HandlePrepared /\ redeem'[r] # redeem[r]
      <3>1. /\ Head(preparedCh) \in PreparedEvents
            /\ Head(preparedCh).req = r
            /\ Head(preparedCh).sound
            /\ redeem'[r] = PreparedRow(Head(preparedCh))
        BY <2>3, PreparedTable, ConstantsAssumption DEF TypeOK, PreparedEvent
      <3>2. Head(preparedCh).terms \notin BadTerms
        BY <1>0, <2>3, <3>1, PreparedTable
      <3> QED BY <3>1, <3>2 DEF PreparedRow
    <2> QED BY <2>1, <2>2, <2>3, OtherTable
  <1> QED BY <1>1, <1>2, TypeCorrect, PTL DEF Spec

\* Two prepared redeems never share a prepare transaction.
THEOREM PrepareNotSharedTheorem == Spec => []PrepareNotShared
  <1>1. Init => PrepareNotShared
    BY DEF Init, PrepareNotShared, Prepared, Stored
  <1>2. TypeOK /\ PrepareNotShared /\ [Next]_vars => PrepareNotShared'
    <2> SUFFICES ASSUME TypeOK, PrepareNotShared, [Next]_vars
                 PROVE  PrepareNotShared'
      OBVIOUS
    <2>1. CASE HandleRequested
      BY <2>1, RequestedTable, ConstantsAssumption
      DEF PrepareNotShared, Prepared, Stored, TypeOK, RequestedRow, RequestedEvent
    <2>2. CASE HandlePrepared
      <3> DEFINE ev == Head(preparedCh)
      <3>1. CASE redeem' = redeem
        BY <3>1 DEF PrepareNotShared, Prepared, Stored
      <3>2. CASE redeem' # redeem
        <4>1. /\ ev.req \in Request
              /\ ~PrepareTaken(ev)
              /\ redeem' = [redeem EXCEPT ![ev.req] = PreparedRow(ev)]
          BY <2>2, <3>2, PreparedTable, ConstantsAssumption DEF PreparedEvent
        <4>2. PreparedRow(ev).prepare = ev.prepare
          BY DEF PreparedRow
        <4> HIDE DEF ev
        <4>3. \A r \in Request \ {ev.req} :
                redeem[r] # NoRow => redeem[r].prepare # ev.prepare
          BY <4>1 DEF PrepareTaken
        <4>4. /\ redeem'[ev.req] = PreparedRow(ev)
              /\ \A r \in Request \ {ev.req} : redeem'[r] = redeem[r]
          BY <4>1 DEF TypeOK
        <4> QED BY <4>1, <4>2, <4>3, <4>4 DEF PrepareNotShared, Prepared, Stored
      <3> QED BY <3>1, <3>2
    <2>3. CASE redeem' = redeem
      BY <2>3 DEF PrepareNotShared, Prepared, Stored
    <2> QED BY <2>1, <2>2, <2>3, OtherTable
  <1> QED BY <1>1, <1>2, TypeCorrect, PTL DEF Spec

-----------------------------------------------------------------------------
\* A deposit that left the list of unminted deposits never returns to it: the
\* writer that found no row is refused by the primary key, the one that found
\* a row never writes NULL.
THEOREM NeverReopenedTheorem == Spec => MintNeverReopened
  <1> DEFINE Step == \A b \in BtcTx : mint[b] \notin {NULL, NoRow} =>
                                         mint'[b] \notin {NULL, NoRow}
  <1>1. ASSUME TypeOK, NEW w \in Writer, MintWrite(w) PROVE Step
    BY <1>1, ConstantsAssumption
    DEF TypeOK, MintWrite, MintWritten, MintRefused, MintUpdate
  <1>2. TypeOK /\ [Next]_vars => Step
    BY <1>1, MintTable
  <1>3. TypeOK /\ [Next]_vars => [Step]_vars
    BY <1>2
  <1> QED BY <1>3, TypeCorrect, PTL DEF Spec, MintNeverReopened

\* The update a writer has under way carries a hash the chain reported.
UpdateFaithful ==
  \A w \in Writer : update[w] # NULL /\ update[w].tx \in MintTx =>
    [btc |-> update[w].btc, tx |-> update[w].tx] \in MintedEvents

\* A stored mint tx hash belongs to that very deposit, also when the loop and
\* the observer interleave between GetMint and the write.
THEOREM MintFaithfulTheorem == Spec => []MintFaithful
  <1> DEFINE Inv == MintFaithful /\ UpdateFaithful
  <1>1. Init => Inv
    BY ConstantsAssumption DEF Init, MintFaithful, UpdateFaithful
  <1>2. TypeOK /\ Inv /\ [Next]_vars => Inv'
    <2> SUFFICES ASSUME TypeOK, Inv, [Next]_vars PROVE Inv'
      OBVIOUS
    <2>1. ASSUME NEW w \in Writer, MintWrite(w) PROVE Inv'
      BY <2>1, ConstantsAssumption
      DEF TypeOK, MintWrite, MintWritten, MintFaithful, UpdateFaithful, MintUpdate
    <2>2. CASE HandleMinted
      <3>1. Head(mintedCh) \in MintedEvents
        BY <2>2, ReceiveType, ConstantsAssumption DEF TypeOK, HandleMinted
      <3>2. [btc |-> Head(mintedCh).btc, tx |-> Head(mintedCh).tx] = Head(mintedCh)
        BY <3>1, ConstantsAssumption DEF MintedEvent
      <3> QED
        BY <2>2, <3>1, <3>2
        DEF TypeOK, HandleMinted, MintRead, MintFaithful, UpdateFaithful, tables
    <2>3. ASSUME NEW b \in BtcTx, ObserveDeposit(b) PROVE Inv'
      BY <2>3, ConstantsAssumption
      DEF TypeOK, ObserveDeposit, MintRead, MintFaithful, UpdateFaithful, tables
    <2>4. CASE NewProcess
      BY <2>4 DEF NewProcess, MintFaithful, UpdateFaithful, tables
    <2>5. CASE UNCHANGED <<mint, update>>
      BY <2>5 DEF MintFaithful, UpdateFaithful
    <2> QED
      BY <2>1, <2>2, <2>3, <2>4, <2>5
      DEF Next, vars, tables, channels, SendFinalized, SendMinted, SendRequested,
          SendPrepared, ReceiveErr, HandleFinalized, SetFinalized, HandlerFault,
          HandleMintedWrite, ObserveDepositWrite, Restart,
          SetRedeemCompleted, UpdateAfterRedeemed, HandleRequested, HandlePrepared, Writer
  <1>3. Inv => MintFaithful
    OBVIOUS
  <1> QED BY <1>1, <1>2, <1>3, TypeCorrect, PTL DEF Spec

-----------------------------------------------------------------------------
(* The synchronizer                                                         *)

\* Types of what the synchronizer adds to the state.
SyncTypes ==
  /\ worker \in Workers
  /\ ledger \in Seq(Entry) /\ Len(ledger) <= MaxLedger
  /\ first \in Nat /\ last \in Nat /\ target \in Nat /\ inspected \in Nat
  /\ pc \in {"idle", "fetch", "deliver"}
  /\ batch \subseteq Numbers /\ sent \subseteq Numbers
  /\ crashes \in 0..MaxCrashes

\* What an entry of each kind holds.
LEMMA EntryKinds ==
  ASSUME SyncTypes, NEW v
  PROVE  /\ Kind(v) = "mint" => v \in Numbers /\ At(v).btc \in BtcTx
         /\ Kind(v) = "request" => v \in Numbers /\ At(v).terms \in Terms
         /\ Kind(v) = "prepare" =>
              /\ v \in Numbers /\ At(v).req \in Request
              /\ At(v).terms \in Terms /\ At(v).outs \in Outpoints
<1>1. CASE v \in Numbers
  <2>1. v - Base \in 1..Len(ledger) /\ At(v) \in Entry
    BY <1>1, SyncAssumption DEF SyncTypes, Numbers, Height, At
  <2> QED BY <1>1, <2>1 DEF Entry, Kind
<1>2. CASE v \notin Numbers BY <1>2 DEF Kind
<1> QED BY <1>1, <1>2

\* The events the readers make of the ledger are events the state may be sent.
LEMMA WellFormedEvents ==
  ASSUME SyncTypes, NEW v
  PROVE  /\ v \in Numbers => v \in LedgerNumbers
         /\ Kind(v) = "mint" => MintedAt(v) \in MintedEvents
         /\ Kind(v) = "request" => RequestedAt(v) \in RequestedEvents
         /\ Kind(v) = "prepare" => PreparedAt(v) \in PreparedEvents
<1>1. v \in Numbers =>
        /\ v \in (Base + 1)..(Base + MaxLedger)
        /\ {v, VersionHash(v)} \subseteq Request \cap MintTx \cap LedgerNumbers
  BY SyncAssumption, HashAssumption DEF SyncTypes, Numbers, Height
<1>2. v \in Numbers => v \in LedgerNumbers /\ TxHash(v) \in Request \cap MintTx
  BY <1>1 DEF TxHash
<1>3. Kind(v) = "mint" => MintedAt(v) \in MintedEvents
  BY <1>2, EntryKinds, HashAssumption DEF MintedAt, MintedEvent
<1>4. Kind(v) = "request" => RequestedAt(v) \in RequestedEvents
  BY <1>2, EntryKinds, HashAssumption DEF RequestedAt, RequestedEvent
<1>5. Kind(v) = "prepare" => PreparedAt(v) \in PreparedEvents
  <2>1. Kind(v) = "prepare" =>
          PreparedAt(v) \in [req: Request, prepare: PrepareTx, terms: Terms,
                             outs: Outpoints, sound: {TRUE}]
    BY <1>2, EntryKinds, HashAssumption DEF PreparedAt
  <2> QED BY <2>1, HashAssumption
<1> QED BY <1>2, <1>3, <1>4, <1>5

\* Every step of the composition is a step of the state, or none.
LEMMA SyncStateStep ==
  ASSUME SyncTypes, [SyncNext]_syncVars
  PROVE  [Next]_vars
<1>1. ASSUME NEW entry, Extend(entry) PROVE UNCHANGED vars BY <1>1 DEF Extend
<1>2. ASSUME NEW n \in Numbers, Tick(n) PROVE Next
  BY <1>2, WellFormedEvents DEF Tick, Next
<1>3. CASE Deliver
  <2>1. PICK v \in batch : \/ Kind(v) = "mint" /\ SendMinted(MintedAt(v))
                           \/ Kind(v) = "request" /\ SendRequested(RequestedAt(v))
                           \/ Kind(v) = "prepare" /\ SendPrepared(PreparedAt(v))
    BY <1>3 DEF Deliver
  <2> QED BY <2>1, WellFormedEvents DEF Next
<1>4. CASE SyncRestart
  BY <1>4, HashAssumption, SyncAssumption DEF SyncRestart, SyncTypes, Next, Restart
<1>5. CASE StateStep BY <1>5 DEF StateStep, Next
<1>6. ASSUME NEW b \in BtcTx, DepositSeen(b) PROVE Next BY <1>6 DEF DepositSeen, Next
<1>7. CASE DepositStored BY <1>7 DEF DepositStored, Next
<1>8. CASE Fetch \/ EndBatch BY <1>8 DEF Fetch, EndBatch
<1>9. CASE UNCHANGED syncVars BY <1>9 DEF syncVars
<1> QED
  BY <1>1, <1>2, <1>3, <1>4, <1>5, <1>6, <1>7, <1>8, <1>9
     DEF SyncNext, SyncStep, UserRequests, ManagerPrepares, ManagerMints

-----------------------------------------------------------------------------
LEMMA SyncInitTypes == SyncInit => TypeOK /\ SyncTypes
<1> SUFFICES ASSUME SyncInit PROVE SyncTypes
  BY TypeInit DEF SyncInit
<1>1. StartNumber(EthStartingBlock) \in Nat
  BY SyncAssumption DEF StartNumber, EthStartingBlock
<1> QED BY <1>1, SyncAssumption DEF SyncInit, SyncTypes

\* The ledger only grows, and keeps what it has.
LEMMA LedgerGrows ==
  ASSUME SyncTypes, [SyncNext]_syncVars
  PROVE  /\ Numbers \subseteq Numbers'
         /\ Height \in Nat /\ Height' \in Nat /\ Height <= Height'
         /\ \A v \in Numbers : At(v)' = At(v) /\ Kind(v)' = Kind(v)
<1>1. CASE UNCHANGED ledger
  BY <1>1, SyncAssumption DEF SyncTypes, Numbers, Height, At, Kind
<1>2. ASSUME NEW entry, ledger' = Append(ledger, entry)
      PROVE  /\ Numbers \subseteq Numbers'
             /\ Height \in Nat /\ Height' \in Nat /\ Height <= Height'
             /\ \A v \in Numbers : At(v)' = At(v) /\ Kind(v)' = Kind(v)
  <2>1. ledger \in Seq(Entry) /\ Len(ledger) \in Nat /\ Base \in Nat
    BY SyncAssumption DEF SyncTypes
  <2>2. Len(ledger') = Len(ledger) + 1 /\ \A i \in 1..Len(ledger) : ledger'[i] = ledger[i]
    BY <1>2, <2>1
  <2>3. \A v \in Numbers : v - Base \in 1..Len(ledger) BY <2>1 DEF Numbers, Height
  <2> QED BY <2>1, <2>2, <2>3 DEF Numbers, Height, At, Kind
<1> QED
  BY <1>1, <1>2 DEF SyncNext, SyncStep, UserRequests, ManagerPrepares, ManagerMints, Extend,
     DepositSeen, DepositStored, Tick, Fetch, Deliver, EndBatch, StateStep, SyncRestart,
     syncVars

LEMMA SyncNextTypes == TypeOK /\ SyncTypes /\ [SyncNext]_syncVars => SyncTypes'
<1> SUFFICES ASSUME TypeOK, SyncTypes, [SyncNext]_syncVars PROVE SyncTypes'
  OBVIOUS
<1> USE SyncAssumption
<1>0. Numbers \subseteq Numbers' BY LedgerGrows
<1>1. ASSUME NEW entry \in Entry, Extend(entry) PROVE SyncTypes'
  <2>1. ledger' \in Seq(Entry) /\ Len(ledger') <= MaxLedger
    BY <1>1 DEF Extend, SyncTypes
  <2> QED BY <1>0, <1>1, <2>1 DEF Extend, SyncTypes, sync
<1>2. ASSUME NEW terms \in Terms, UserRequests(terms) PROVE SyncTypes'
  BY <1>1, <1>2 DEF UserRequests, Entry
<1>3. ASSUME NEW r \in Request, NEW outs \in Outpoints, ManagerPrepares(r, outs)
      PROVE  SyncTypes'
  <2>1. redeem[r].terms \in Terms BY <1>3 DEF ManagerPrepares, TypeOK, RedeemRow
  <2> QED BY <1>1, <1>3, <2>1 DEF ManagerPrepares, Entry
<1>4. ASSUME NEW b \in BtcTx, ManagerMints(b) PROVE SyncTypes'
  BY <1>1, <1>4 DEF ManagerMints, Entry
<1>5. ASSUME NEW b \in BtcTx, DepositSeen(b) PROVE SyncTypes'
  BY <1>5 DEF DepositSeen, SyncTypes, sync, Numbers, Height
<1>6. CASE DepositStored BY <1>6 DEF DepositStored, SyncTypes, sync, Numbers, Height
<1>7. ASSUME NEW n \in Numbers, Tick(n) PROVE SyncTypes'
  BY <1>7 DEF Tick, Ahead, SyncTypes, Numbers, Height
<1>8. CASE Fetch
  <2>1. ModuleEvents \subseteq Numbers BY DEF ModuleEvents, Page, Events
  <2>2. EventLogs(inspected) \subseteq Numbers BY DEF EventLogs, Kind
  <2> QED BY <1>8, <2>1, <2>2 DEF Fetch, Fetched, SyncTypes, Numbers, Height
<1>9. CASE Deliver BY <1>9 DEF Deliver, SyncTypes, Numbers, Height
<1>10. CASE EndBatch BY <1>10 DEF EndBatch, SyncTypes, Numbers, Height
<1>11. CASE StateStep BY <1>11 DEF StateStep, SyncTypes, sync, Numbers, Height
<1>12. CASE SyncRestart
  <2>1. StartNumber(finalized) \in Nat BY DEF StartNumber, TypeOK
  <2> QED BY <1>12, <2>1 DEF SyncRestart, SyncTypes, Numbers, Height
<1>13. CASE UNCHANGED syncVars BY <1>13 DEF syncVars, SyncTypes, sync, Numbers, Height
<1> QED
  BY <1>2, <1>3, <1>4, <1>5, <1>6, <1>7, <1>8, <1>9, <1>10, <1>11, <1>12, <1>13
     DEF SyncNext, SyncStep

LEMMA SyncTypesInvariant == SyncSpec => [](TypeOK /\ SyncTypes)
<1>1. TypeOK /\ SyncTypes /\ [SyncNext]_syncVars => (TypeOK /\ SyncTypes)'
  BY SyncNextTypes, SyncStateStep, TypeNext
<1> QED BY <1>1, SyncInitTypes, PTL DEF SyncSpec

\* The synchronizer, its channels and the state keep their types.
THEOREM SyncTypeCorrect == SyncSpec => []SyncTypeOK
<1>1. TypeOK /\ SyncTypes => SyncTypeOK BY DEF SyncTypes, SyncTypeOK
<1> QED BY <1>1, SyncTypesInvariant, PTL

\* The state fed by any of the synchronizers behaves as BridgeState says: the
\* readers make well-formed events of every chain.
THEOREM SyncFeedsState == SyncSpec => FeedsState
<1>1. SyncInit => Init BY DEF SyncInit
<1>2. TypeOK /\ SyncTypes /\ [SyncNext]_syncVars => [Next]_vars BY SyncStateStep
<1> QED BY <1>1, <1>2, SyncTypesInvariant, PTL DEF SyncSpec, FeedsState, Spec

\* So that the redeem rows stay faithful to the events of the chain, and no
\* deposit is opened for a second mint, whatever the synchronizer re-reads
\* after a stop.
THEOREM SyncedRowsFaithful == SyncSpec => []RedeemRowsFaithful /\ MintNeverReopened
BY SyncFeedsState, RowsFaithfulTheorem, NeverReopenedTheorem, PTL DEF FeedsState

-----------------------------------------------------------------------------
(* Nothing is skipped                                                       *)

\* Every readable event of these numbers has been sent.
SentAll(from, to) ==
  \A v \in Numbers : from < v /\ v <= to /\ Kind(v) # "other" /\ Readable(v) => v \in sent

\* The same, with what is fetched and still to be sent.
FetchedAll(from, to) ==
  \A v \in Numbers :
    from < v /\ v <= to /\ Kind(v) # "other" /\ Readable(v) => v \in sent \cup batch

\* Before a round the numbers up to last are done.  In a round of the Ethereum
\* synchronizer the numbers below the inspected one are done too; the Aptos
\* readers fetch everything in every round.
RoundInv ==
  /\ first = last \/ last <= Height
  /\ SentAll(first, last)
  /\ pc \in {"fetch", "deliver"} =>
       /\ last < inspected /\ inspected <= target /\ target <= Height
       /\ worker = "ethsync" => SentAll(last, inspected - 1)
  /\ pc = "deliver" =>
       FetchedAll(IF worker = "ethsync" THEN inspected - 1 ELSE last,
                  IF worker = "ethsync" THEN inspected ELSE target)

\* What can be read of the numbers there are could be read before.
LEMMA ReadableBefore ==
  ASSUME SyncTypes, [SyncNext]_syncVars, NEW v \in Numbers, Readable(v)'
  PROVE  Readable(v)
<1>0. UNCHANGED worker
  BY DEF SyncNext, SyncStep, UserRequests, ManagerPrepares, ManagerMints, Extend,
     DepositSeen, DepositStored, Tick, Fetch, Deliver, EndBatch, StateStep, SyncRestart,
     syncVars
<1>1. ASSUME NEW kind, v \in Page(kind)' PROVE v \in Page(kind)
  <2>1. v \in Events(kind) BY <1>1, LedgerGrows DEF Page, Events
  <2>2. \A w \in Numbers' : w < v => w \in Numbers
    BY SyncAssumption DEF SyncTypes, Numbers, Height
  <2>3. {w \in Events(kind)' : w < v} = {w \in Events(kind) : w < v}
    BY <2>2, LedgerGrows DEF Events
  <2> QED BY <1>1, <2>1, <2>3 DEF Page
<1> QED BY <1>0, <1>1 DEF Readable, ModuleEvents

\* A step that keeps what was sent keeps that it is all there was to send.
LEMMA SentAllKept ==
  ASSUME SyncTypes, [SyncNext]_syncVars, sent \subseteq sent',
         NEW from, NEW to \in Nat, to <= Height
  PROVE  /\ SentAll(from, to) =>
              \A v \in Numbers' : from < v /\ v <= to /\ Kind(v)' # "other" /\ Readable(v)'
                                    => v \in sent'
         /\ FetchedAll(from, to) /\ (sent \cup batch \subseteq sent' \cup batch') =>
              \A v \in Numbers' : from < v /\ v <= to /\ Kind(v)' # "other" /\ Readable(v)'
                                    => v \in sent' \cup batch'
<1>1. \A v \in Numbers' : v <= to => v \in Numbers
  BY SyncAssumption DEF SyncTypes, Numbers, Height
<1> QED BY <1>1, LedgerGrows, ReadableBefore DEF SentAll, FetchedAll

\* What was done before a round, and below the inspected number, stays done.
LEMMA DoneKept ==
  ASSUME SyncTypes, RoundInv, [SyncNext]_syncVars, sent \subseteq sent',
         UNCHANGED <<first, last>>
  PROVE  /\ SentAll(first, last)'
         /\ /\ pc \in {"fetch", "deliver"} /\ worker = "ethsync"
            /\ UNCHANGED inspected
            => SentAll(last, inspected - 1)'
<1>0. /\ first \in Nat /\ last \in Nat /\ inspected \in Nat /\ target \in Nat
      /\ Height \in Nat
  BY LedgerGrows DEF SyncTypes
<1>1. SentAll(first, last)'
  <2>1. CASE first = last BY <1>0, <2>1, SyncAssumption DEF SentAll, Numbers
  <2>2. CASE last <= Height BY <1>0, <2>2, SentAllKept DEF RoundInv, SentAll
  <2> QED BY <2>1, <2>2 DEF RoundInv
<1>2. ASSUME pc \in {"fetch", "deliver"}, worker = "ethsync", UNCHANGED inspected
      PROVE  SentAll(last, inspected - 1)'
  <2>1. inspected - 1 \in Nat /\ inspected - 1 <= Height BY <1>0, <1>2 DEF RoundInv
  <2>2. SentAll(last, inspected - 1) BY <1>2 DEF RoundInv
  <2> QED BY <1>2, <2>1, <2>2, SentAllKept DEF SentAll
<1> QED BY <1>1, <1>2

\* What is fetched stays fetched until it is sent.
LEMMA FetchedKept ==
  ASSUME SyncTypes, RoundInv, [SyncNext]_syncVars, sent \subseteq sent',
         sent \cup batch \subseteq sent' \cup batch', pc = "deliver",
         UNCHANGED <<worker, last, inspected, target>>
  PROVE  FetchedAll(IF worker = "ethsync" THEN inspected - 1 ELSE last,
                    IF worker = "ethsync" THEN inspected ELSE target)'
<1>0. inspected \in Nat /\ target \in Nat /\ inspected <= target /\ target <= Height
      /\ Height \in Nat
  BY LedgerGrows DEF SyncTypes, RoundInv
<1>1. CASE worker = "ethsync"
  <2>1. inspected <= Height /\ FetchedAll(inspected - 1, inspected)
    BY <1>0, <1>1 DEF RoundInv
  <2>2. FetchedAll(inspected - 1, inspected)' BY <1>0, <2>1, SentAllKept DEF FetchedAll
  <2> QED BY <1>1, <2>2 DEF FetchedAll
<1>2. CASE worker # "ethsync"
  <2>1. FetchedAll(last, target) BY <1>2 DEF RoundInv
  <2>2. FetchedAll(last, target)' BY <1>0, <2>1, SentAllKept DEF FetchedAll
  <2> QED BY <1>2, <2>2 DEF FetchedAll
<1> QED BY <1>1, <1>2

LEMMA RoundInit == SyncInit => RoundInv
<1> SUFFICES ASSUME SyncInit PROVE RoundInv
  OBVIOUS
<1>1. SyncTypes BY SyncInitTypes
<1> QED BY <1>1, SyncAssumption DEF SyncInit, SyncTypes, RoundInv, SentAll, Numbers, Height

LEMMA RoundNext == TypeOK /\ SyncTypes /\ RoundInv /\ [SyncNext]_syncVars => RoundInv'
<1> SUFFICES ASSUME TypeOK, SyncTypes, RoundInv, [SyncNext]_syncVars PROVE RoundInv'
  OBVIOUS
<1>0. /\ Height \in Nat /\ Height' \in Nat /\ Height <= Height'
      /\ first \in Nat /\ last \in Nat /\ target \in Nat /\ inspected \in Nat
  BY LedgerGrows DEF SyncTypes
<1>1. ASSUME UNCHANGED <<worker, sync>> PROVE RoundInv'
  BY <1>0, <1>1, DoneKept, FetchedKept DEF sync, RoundInv
<1>2. ASSUME NEW n \in Numbers, Tick(n) PROVE RoundInv'
  <2>1. n \in Nat /\ n <= Height /\ last < n BY <1>2, SyncAssumption DEF Tick, Ahead, Numbers, Height
  <2>2. SentAll(first, last)' BY <1>2, DoneKept DEF Tick
  <2>3. SentAll(last, inspected - 1)'
    BY <1>0, <1>2 DEF Tick, SentAll, Numbers, Height
  <2> QED BY <1>0, <1>2, <2>1, <2>2, <2>3 DEF Tick, RoundInv
<1>3. CASE Fetch
  <2>1. SentAll(first, last)' /\ (worker = "ethsync" => SentAll(last, inspected - 1)')
    BY <1>3, DoneKept DEF Fetch
  <2>2. ASSUME NEW v \in Numbers', Kind(v)' # "other", Readable(v)',
               v > IF worker = "ethsync" THEN inspected - 1 ELSE last,
               v <= IF worker = "ethsync" THEN inspected ELSE target
        PROVE  v \in batch'
    <3>1. UNCHANGED ledger /\ UNCHANGED worker BY <1>3 DEF Fetch
    <3>2. Readable(v) /\ Kind(v) # "other" /\ v \in Numbers
      BY <2>2, <3>1 DEF Readable, ModuleEvents, Page, Events, Kind, At, Numbers, Height
    <3>3. worker = "ethsync" => v = inspected
      BY <1>0, <2>2, <3>2, SyncAssumption DEF Numbers
    <3> QED BY <1>3, <3>2, <3>3 DEF Fetch, Fetched, EventLogs, Readable
  <2>3. RoundInv' BY <1>0, <1>3, <2>1, <2>2 DEF Fetch, RoundInv, FetchedAll
  <2> QED BY <2>3
<1>4. CASE Deliver
  <2>1. /\ sent \subseteq sent' /\ sent \cup batch \subseteq sent' \cup batch'
        /\ UNCHANGED <<worker, first, last, pc, target, inspected>>
    BY <1>4 DEF Deliver
  <2>2. pc = "deliver" BY <1>4 DEF Deliver
  <2> QED BY <1>0, <2>1, <2>2, DoneKept, FetchedKept DEF RoundInv
<1>5. CASE EndBatch
  <2>1. batch = {} /\ pc = "deliver" /\ UNCHANGED <<ledger, worker, first, sent, batch>>
    BY <1>5 DEF EndBatch
  <2>2. \A from, to : (SentAll(from, to) =>
           \A v \in Numbers' : from < v /\ v <= to /\ Kind(v)' # "other" /\ Readable(v)'
                                    => v \in sent')
    BY <2>1 DEF SentAll, Readable, ModuleEvents, Page, Events, Kind, At, Numbers, Height
  <2>3. IF worker = "ethsync" THEN SentAll(inspected - 1, inspected) ELSE SentAll(last, target)
    BY <2>1 DEF RoundInv, FetchedAll, SentAll
  <2>4. CASE Rounds /\ inspected < target /\ inspected' = inspected + 1 /\ pc' = "fetch"
             /\ UNCHANGED <<last, target>>
    <3>1. worker = "ethsync" => SentAll(last, inspected)
      BY <1>0, <2>1, <2>3, SyncAssumption DEF RoundInv, SentAll, Numbers
    <3> QED BY <1>0, <2>1, <2>2, <2>4, <3>1 DEF RoundInv, SentAll, FetchedAll, Height
  <2>5. CASE ~(Rounds /\ inspected < target) /\ last' = target /\ pc' = "idle"
    <3>1. worker = "ethsync" => inspected = target
      BY <1>0, <2>1, <2>5 DEF Rounds, ChainSyncRuns, RoundInv
    <3>2. SentAll(last, target)
      BY <1>0, <2>1, <2>3, <3>1, SyncAssumption DEF RoundInv, SentAll, Numbers
    <3>3. SentAll(first, target)
      BY <1>0, <2>1, <3>2, SyncAssumption DEF RoundInv, SentAll, Numbers
    <3>4. target <= Height' BY <1>0, <2>1 DEF RoundInv
    <3> QED BY <2>1, <2>2, <2>5, <3>3, <3>4 DEF RoundInv, SentAll
  <2> QED BY <1>5, <2>4, <2>5 DEF EndBatch
<1>6. CASE SyncRestart
  <2>1. first' = last' /\ pc' = "idle" BY <1>6 DEF SyncRestart
  <2>2. last' \in Nat BY SyncNextTypes DEF SyncTypes
  <2> QED BY <1>0, <2>1, <2>2, SyncAssumption DEF RoundInv, SentAll, Numbers
<1>7. \/ UNCHANGED <<worker, sync>>
      \/ (\E n \in Numbers : Tick(n)) \/ Fetch \/ Deliver \/ EndBatch \/ SyncRestart
  BY DEF SyncNext, SyncStep, UserRequests, ManagerPrepares, ManagerMints, Extend,
     DepositSeen, DepositStored, StateStep, syncVars
<1> QED BY <1>1, <1>2, <1>3, <1>4, <1>5, <1>6, <1>7

\* Between two rounds every readable event since the start has been sent, for
\* every chain that grows while the synchronizer reads it.
THEOREM NothingSkippedTheorem == SyncSpec => []NothingSkipped
<1>1. RoundInv => NothingSkipped BY DEF RoundInv, SentAll, NothingSkipped
<1>2. SyncSpec => []RoundInv
  BY RoundInit, RoundNext, SyncTypesInvariant, PTL DEF SyncSpec
<1> QED BY <1>1, <1>2, PTL
=============================================================================
