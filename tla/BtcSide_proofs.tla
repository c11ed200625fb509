--------------------------- MODULE BtcSide_proofs ---------------------------
(* Proofs about BtcSide for every set of transactions, every channel size,  *)
(* every offset and number of blocks to scan, and every combination of      *)
(* faults.                                                                  *)
EXTENDS BtcSide, TLAPS

\* A scan visits mature blocks only.
Window == pc = "block" => upto <= tip - OFFSET

BtcInv == TypeOK /\ Window

LEMMA BtcInit == Init => BtcInv
BY BtcAssumption DEF Init, BtcInv, TypeOK, Window, Heights

\* What a published transaction does to the channels.
LEMMA NotifyType ==
  ASSUME TypeOK, NEW t \in Tx, Notify(t)
  PROVE  /\ queue' \in [Observers -> Seq(Tx)]
         /\ \A o \in Observers : Len(queue'[o]) <= Capacity
         /\ spill' \in [Observers -> SUBSET Tx]
<1> USE BtcAssumption DEF TypeOK, Notify
<1>1. ASSUME NEW o \in Observers PROVE queue'[o] \in Seq(Tx) /\ Len(queue'[o]) <= Capacity
  OBVIOUS
<1>2. spill' \in [Observers -> SUBSET Tx] OBVIOUS
<1> QED BY <1>1, <1>2

\* Every step keeps the types, and keeps scans to mature blocks.
LEMMA BtcStep == BtcInv /\ [Next]_vars => BtcInv'
<1> SUFFICES ASSUME BtcInv, [Next]_vars PROVE BtcInv'
  OBVIOUS
<1> USE BtcAssumption
    DEF BtcInv, TypeOK, Window, Heights, chain, monitor, observer, withdraw, history
<1>1. ASSUME NEW S \in SUBSET Tx, Mine(S) PROVE BtcInv'
  <2>1. block' \in [Heights -> SUBSET Tx] /\ tip' = tip + 1 /\ tip' \in Heights
    BY <1>1 DEF Mine
  <2> QED BY <1>1, <2>1 DEF Mine
<1>2. ASSUME NEW r \in Request, Prepare(r) PROVE BtcInv' BY <1>2 DEF Prepare
<1>3. ASSUME NEW r \in Request, PassOver(r) PROVE BtcInv' BY <1>3 DEF PassOver
<1>4. ASSUME NEW r \in Request, WithdrawBTC(r) PROVE BtcInv' BY <1>4 DEF WithdrawBTC
<1>5. CASE StartScan BY <1>5 DEF StartScan
<1>6. CASE GetBlocks
  <2>1. FirstHeight \in Int /\ LastHeight \in Int BY DEF FirstHeight, LastHeight, NumbersToFetch
  <2> QED BY <1>6, <2>1 DEF GetBlocks, Return, LastHeight
<1>7. CASE VisitBlock
  <2>1. at \in Heights /\ at' \in Nat /\ covered' \in Int BY <1>7 DEF VisitBlock, Visited
  <2> QED BY <1>7, <2>1 DEF VisitBlock, Visited
<1>8. CASE EndScan BY <1>8 DEF EndScan, Return
<1>9. ASSUME NEW t \in Tx, InspectTx(t) PROVE BtcInv'
  <2>1. Notify(t) /\ FinishRedeem(t) BY <1>9 DEF InspectTx
  <2>2. rows' \in [Request -> {NONE, "sent", "mined"}] BY <2>1 DEF FinishRedeem, CompleteRedeem, HasRedeem
  <2> QED BY <1>9, <2>1, <2>2, NotifyType DEF InspectTx
<1>10. CASE GetBlocksFault BY <1>10 DEF GetBlocksFault, Return
<1>11. CASE SkipBlock
  <2>1. at \in Heights /\ at' \in Nat /\ covered' \in Int BY <1>11 DEF SkipBlock, Visited
  <2> QED BY <1>11, <2>1 DEF SkipBlock, Visited
<1>12. ASSUME NEW o \in Observers, Observe(o) PROVE BtcInv'
  <2>1. /\ Head(queue[o]) \in Tx /\ Tail(queue[o]) \in Seq(Tx)
        /\ Len(Tail(queue[o])) <= Capacity
    BY <1>12 DEF Observe
  <2> QED BY <1>12, <2>1 DEF Observe
<1>13. ASSUME NEW o \in Observers, ObserveFault(o) PROVE BtcInv'
  <2>1. Tail(queue[o]) \in Seq(Tx) /\ Len(Tail(queue[o])) <= Capacity
    BY <1>13 DEF ObserveFault
  <2> QED BY <1>13, <2>1 DEF ObserveFault
<1>14. ASSUME NEW o \in Observers, NEW t \in Tx, Unblock(o, t) PROVE BtcInv'
  <2>1. Append(queue[o], t) \in Seq(Tx) /\ Len(Append(queue[o], t)) <= Capacity
    BY <1>14 DEF Unblock
  <2> QED BY <1>14, <2>1 DEF Unblock
<1>15. CASE FindRedeems BY <1>15 DEF FindRedeems
<1>16. CASE InsertRedeem BY <1>16 DEF InsertRedeem
<1>17. CASE Crash BY <1>17 DEF Crash, Return
<1>18. CASE UNCHANGED vars BY <1>18 DEF vars
<1> QED
  BY <1>1, <1>2, <1>3, <1>4, <1>5, <1>6, <1>7, <1>8, <1>9, <1>10, <1>11, <1>12, <1>13,
     <1>14, <1>15, <1>16, <1>17, <1>18 DEF Next, ScanStep

\* The variables of the Bitcoin side keep their types; in particular no
\* channel ever holds more than its capacity.
THEOREM BtcTypeCorrect == Spec => []TypeOK
BY BtcInit, BtcStep, PTL DEF Spec, BtcInv

-----------------------------------------------------------------------------
(* No block is missed                                                       *)

\* The chain is at most MaxLag ahead of what the scans have reached, and a
\* scan never begins beyond that.
Reach ==
  /\ tip <= covered + MaxLag
  /\ pc = "block" => at <= covered - OFFSET + 1

CoverInv == BtcInv /\ Reach /\ NoBlockMissed

LEMMA LagShrinks ==
  ASSUME NEW a \in Int, NEW b \in Int, NEW c \in Int, NEW m \in Int, a <= b + m, b <= c
  PROVE  a <= c + m
OBVIOUS

\* Visiting the next block of a scan extends what is covered without a gap.
LEMMA VisitedCovers ==
  ASSUME CoverInv, pc = "block", Visited
  PROVE  /\ covered <= covered' /\ at' <= covered' - OFFSET + 1
         /\ NoBlockMissed'
<1> USE BtcAssumption DEF CoverInv, BtcInv, TypeOK, Reach, Visited
<1>1. covered <= covered' /\ at' <= covered' - OFFSET + 1 OBVIOUS
<1>2. ASSUME NEW h \in (Start + 1 - OFFSET)..(covered' - OFFSET) PROVE h \in seen'
  <2>1. CASE h <= covered - OFFSET BY <2>1 DEF NoBlockMissed
  <2>2. CASE h > covered - OFFSET
    <3>1. h = at BY <2>2
    <3> QED BY <3>1
  <2> QED BY <2>1, <2>2
<1> QED BY <1>1, <1>2 DEF NoBlockMissed

LEMMA CoverStep ==
  ASSUME MaxLag <= RETRO, CoverInv, [Next]_vars PROVE CoverInv'
<1>0. BtcInv' BY BtcStep DEF CoverInv
<1> USE BtcAssumption
    DEF CoverInv, BtcInv, TypeOK, Reach, chain, monitor, observer, withdraw, history
<1>1. ASSUME NEW S \in SUBSET Tx, Mine(S) PROVE CoverInv'
  <2>1. tip' = tip + 1 /\ tip < covered + MaxLag /\ UNCHANGED <<monitor, history>>
    BY <1>1 DEF Mine
  <2>2. tip \in Int /\ covered \in Int /\ MaxLag \in Int BY DEF Heights
  <2>3. tip' <= covered + MaxLag BY <2>1, <2>2
  <2>4. NoBlockMissed' BY <2>1 DEF NoBlockMissed
  <2> QED BY <1>0, <2>1, <2>3, <2>4
<1>2. ASSUME NEW r \in Request, Prepare(r) \/ PassOver(r) PROVE CoverInv'
  BY <1>0, <1>2 DEF Prepare, PassOver, NoBlockMissed
<1>3. ASSUME NEW r \in Request, WithdrawBTC(r) PROVE CoverInv'
  BY <1>0, <1>3 DEF WithdrawBTC, NoBlockMissed
<1>4. CASE StartScan BY <1>0, <1>4 DEF StartScan, NoBlockMissed
<1>5. CASE GetBlocks
  <2>1. NumbersToFetch \in Int /\ NumbersToFetch >= RETRO BY DEF NumbersToFetch, Heights
  <2>2. FirstHeight <= covered - OFFSET + 1 BY <2>1 DEF FirstHeight, Heights
  <2> QED BY <1>0, <1>5, <2>2 DEF GetBlocks, Return, NoBlockMissed
<1>6. CASE VisitBlock \/ SkipBlock
  <2>1. pc = "block" /\ Visited /\ tip' = tip BY <1>6 DEF VisitBlock, SkipBlock
  <2>2. covered <= covered' /\ at' <= covered' - OFFSET + 1 /\ NoBlockMissed'
    BY <2>1, VisitedCovers DEF NoBlockMissed
  <2>3. tip \in Int /\ covered \in Int /\ covered' \in Int /\ MaxLag \in Int
    BY <1>0 DEF Heights
  <2>4. tip <= covered + MaxLag /\ covered <= covered' BY <2>2
  <2>5. tip <= covered' + MaxLag BY <2>3, <2>4, LagShrinks
  <2> QED BY <1>0, <2>1, <2>2, <2>5
<1>7. CASE EndScan \/ GetBlocksFault
  BY <1>0, <1>7 DEF EndScan, GetBlocksFault, Return, NoBlockMissed
<1>8. ASSUME NEW t \in Tx, InspectTx(t) PROVE CoverInv'
  BY <1>0, <1>8 DEF InspectTx, NoBlockMissed
<1>9. ASSUME NEW o \in Observers, Observe(o) \/ ObserveFault(o) PROVE CoverInv'
  BY <1>0, <1>9 DEF Observe, ObserveFault, NoBlockMissed
<1>10. ASSUME NEW o \in Observers, NEW t \in Tx, Unblock(o, t) PROVE CoverInv'
  BY <1>0, <1>10 DEF Unblock, NoBlockMissed
<1>11. CASE FindRedeems \/ InsertRedeem
  BY <1>0, <1>11 DEF FindRedeems, InsertRedeem, NoBlockMissed
<1>12. CASE Crash BY <1>0, <1>12 DEF Crash, Return, NoBlockMissed
<1>13. CASE UNCHANGED vars BY <1>0, <1>13 DEF vars, NoBlockMissed
<1> QED
  BY <1>1, <1>2, <1>3, <1>4, <1>5, <1>6, <1>7, <1>8, <1>9, <1>10, <1>11, <1>12, <1>13
  DEF Next, ScanStep

\* No block is missed while the chain is at most RETRO_SCAN_BLOCKS ahead of the
\* scans, whatever the offset and wherever errors and restarts cut a scan.
THEOREM NoBlockMissedTheorem ==
  ASSUME MaxLag <= RETRO PROVE Spec => []NoBlockMissed
<1>1. Init => CoverInv
  BY BtcInit, BtcAssumption DEF Init, CoverInv, Reach, NoBlockMissed
<1>2. CoverInv /\ [Next]_vars => CoverInv' BY CoverStep
<1> QED BY <1>1, <1>2, PTL DEF Spec, CoverInv

-----------------------------------------------------------------------------
(* Maturity, and the rows of the payouts                                    *)

\* What is mature stays mature, what the network has it keeps.
LEMMA ChainGrows ==
  ASSUME BtcInv, [Next]_vars
  PROVE  Mature \subseteq Mature' /\ mempool \cup OnChain \subseteq mempool' \cup OnChain'
<1> USE BtcAssumption DEF BtcInv, TypeOK, Heights, chain, monitor, observer, withdraw, history
<1>1. ASSUME NEW S \in SUBSET Tx, Mine(S)
      PROVE  Mature \subseteq Mature' /\ mempool \cup OnChain \subseteq mempool' \cup OnChain'
  <2>1. tip \in Nat /\ tip' = tip + 1 /\ tip + 1 \in Heights BY <1>1 DEF Mine
  <2>2. \A h \in 0..tip : block'[h] = block[h] BY <1>1, <2>1 DEF Mine
  <2>3. block'[tip + 1] = S BY <1>1, <2>1 DEF Mine
  <2>4. ASSUME NEW t \in Mature PROVE t \in Mature'
    <3>1. PICK h \in 0..(tip - OFFSET) : t \in block[h] BY DEF Mature
    <3>2. h \in 0..(tip' - OFFSET) /\ h \in 0..tip BY <2>1, <3>1
    <3>3. t \in block'[h] BY <2>2, <3>1, <3>2
    <3> QED BY <3>2, <3>3 DEF Mature
  <2>5. ASSUME NEW t \in OnChain \cup S PROVE t \in OnChain'
    <3>1. CASE t \in S
      <4>1. t \in block'[tip'] /\ tip' \in 0..tip' BY <2>1, <2>3, <3>1
      <4> QED BY <4>1 DEF OnChain
    <3>2. CASE t \in OnChain
      <4>1. PICK h \in 0..tip : t \in block[h] BY <3>2 DEF OnChain
      <4>2. h \in 0..tip' /\ t \in block'[h] BY <2>1, <2>2, <4>1
      <4> QED BY <4>2 DEF OnChain
    <3> QED BY <3>1, <3>2
  <2> QED BY <1>1, <2>4, <2>5 DEF Mine
<1>2. ASSUME NEW r \in Request, WithdrawBTC(r)
      PROVE  Mature \subseteq Mature' /\ mempool \cup OnChain \subseteq mempool' \cup OnChain'
  BY <1>2 DEF WithdrawBTC, Mature, OnChain
<1>3. CASE UNCHANGED chain BY <1>3 DEF Mature, OnChain
<1>4. (\A S \in SUBSET Tx : ~Mine(S)) /\ (\A r \in Request : ~WithdrawBTC(r)) => UNCHANGED chain
  BY DEF Next, ScanStep, Prepare, PassOver, StartScan, GetBlocks, GetBlocksFault,
         VisitBlock, SkipBlock, InspectTx, EndScan, Observe, ObserveFault, Unblock,
         FindRedeems, InsertRedeem, Crash, vars
<1> QED BY <1>1, <1>2, <1>3, <1>4

\* A block below the reach of a scan is mature.
LEMMA VisitedIsMature ==
  ASSUME BtcInv, VisitBlock PROVE txs' \subseteq Mature
BY BtcAssumption DEF BtcInv, TypeOK, Window, VisitBlock, Mature, Heights

\* The payout at hand is with the network.
SentInv == BtcInv /\ OnlyMature /\ RowsTruthful /\ (cur # NONE => cur \in mempool \cup OnChain)

LEMMA SentStep == SentInv /\ [Next]_vars => SentInv'
<1> SUFFICES ASSUME SentInv, [Next]_vars PROVE SentInv'
  OBVIOUS
<1>0. BtcInv' BY BtcStep DEF SentInv
<1>00. Mature \subseteq Mature' /\ mempool \cup OnChain \subseteq mempool' \cup OnChain'
  BY ChainGrows DEF SentInv
<1> USE BtcAssumption, <1>0, <1>00
    DEF SentInv, BtcInv, TypeOK, OnlyMature, RowsTruthful,
        chain, monitor, observer, withdraw, history
<1>1. ASSUME NEW S \in SUBSET Tx, Mine(S) PROVE SentInv' BY <1>1 DEF Mine
<1>2. ASSUME NEW r \in Request, Prepare(r) \/ PassOver(r) PROVE SentInv'
  BY <1>2 DEF Prepare, PassOver
<1>3. ASSUME NEW r \in Request, WithdrawBTC(r) PROVE SentInv' BY <1>3 DEF WithdrawBTC
<1>4. CASE StartScan BY <1>4 DEF StartScan
<1>5. CASE GetBlocks BY <1>5 DEF GetBlocks, Return
<1>6. CASE VisitBlock BY <1>6, VisitedIsMature DEF VisitBlock
<1>7. CASE SkipBlock BY <1>7 DEF SkipBlock
<1>8. CASE EndScan \/ GetBlocksFault BY <1>8 DEF EndScan, GetBlocksFault, Return
<1>9. ASSUME NEW t \in Tx, InspectTx(t) PROVE SentInv'
  <2>1. t \in Mature /\ Notify(t) /\ FinishRedeem(t) BY <1>9 DEF InspectTx
  <2>2. ASSUME NEW o \in Observers, NEW i \in 1..Len(queue'[o])
        PROVE  queue'[o][i] \in Mature'
    BY <2>1 DEF Notify
  <2>3. \A o \in Observers : spill'[o] \cup stored'[o] \subseteq Mature'
    BY <1>9, <2>1 DEF Notify, InspectTx
  <2>4. \A r \in Request : rows'[r] = "mined" => r \in Mature' BY <2>1 DEF FinishRedeem, CompleteRedeem, HasRedeem
  <2>5. \A r \in Request : rows'[r] # NONE => rows[r] # NONE BY <2>1 DEF FinishRedeem, CompleteRedeem, HasRedeem
  <2> QED BY <1>9, <2>2, <2>3, <2>4, <2>5 DEF InspectTx
<1>10. ASSUME NEW o \in Observers, Observe(o) \/ ObserveFault(o) PROVE SentInv'
  <2>1. queue[o] \in Seq(Tx) /\ queue[o] # <<>> /\ Head(queue[o]) \in Mature
    BY <1>10 DEF Observe, ObserveFault
  <2>2. \A i \in 1..Len(Tail(queue[o])) : Tail(queue[o])[i] \in Mature BY <2>1
  <2>3. queue' = [queue EXCEPT ![o] = Tail(queue[o])] BY <1>10 DEF Observe, ObserveFault
  <2>4. \A p \in Observers : \A i \in 1..Len(queue'[p]) : queue'[p][i] \in Mature
    BY <2>2, <2>3
  <2>5. \A p \in Observers : stored'[p] \subseteq Mature
    <3>1. stored' \in {stored, [stored EXCEPT ![o] = stored[o] \cup {Head(queue[o])}]}
      BY <1>10 DEF Observe, ObserveFault
    <3>2. stored[o] \cup {Head(queue[o])} \subseteq Mature BY <2>1
    <3> QED BY <3>1, <3>2
  <2>6. UNCHANGED <<chain, monitor, spill, rows, withdraw>>
    BY <1>10 DEF Observe, ObserveFault
  <2> QED BY <2>4, <2>5, <2>6
<1>11. ASSUME NEW o \in Observers, NEW t \in Tx, Unblock(o, t) PROVE SentInv'
  <2>1. t \in Mature BY <1>11 DEF Unblock
  <2>2. \A i \in 1..Len(Append(queue[o], t)) : Append(queue[o], t)[i] \in Mature
    BY <2>1
  <2> QED BY <1>11, <2>1, <2>2 DEF Unblock
<1>12. CASE FindRedeems BY <1>12 DEF FindRedeems
<1>13. CASE InsertRedeem BY <1>13 DEF InsertRedeem
<1>14. CASE Crash BY <1>14 DEF Crash, Return
<1>15. CASE UNCHANGED vars BY <1>15 DEF vars
<1> QED
  BY <1>1, <1>2, <1>3, <1>4, <1>5, <1>6, <1>7, <1>8, <1>9, <1>10, <1>11, <1>12, <1>13,
     <1>14, <1>15 DEF Next, ScanStep

LEMMA SentInit == Init => SentInv
BY BtcInit, BtcAssumption DEF Init, SentInv, OnlyMature, RowsTruthful

\* Nothing is stored or marked as mined before it is mature, for every offset.
THEOREM OnlyMatureTheorem == Spec => []OnlyMature
BY SentInit, SentStep, PTL DEF Spec, SentInv

\* A row of a payout is only ever there when the network has the payout.
THEOREM RowsTruthfulTheorem == Spec => []RowsTruthful
BY SentInit, SentStep, PTL DEF Spec, SentInv
=============================================================================
