--------------------------- MODULE BtcWallet_proofs ---------------------------
(***************************************************************************)
(* Proofs about BtcWallet for every set of users, amounts, fees and redeems *)
(* and any number of transactions and faults.                              *)
(***************************************************************************)
EXTENDS BtcWallet, Sums

\* No transaction has more than three outputs, so every one has a reference.
OutsShort == \A n \in 1..Len(tx) : Len(tx[n].outs) <= 3

\* Transactions spend what there is, and none spends what another does.
SpendsInv ==
  /\ \A n \in 1..Len(tx) : tx[n].ins \subseteq Refs
  /\ \A m, n \in 1..Len(tx) : m # n => tx[m].ins \cap tx[n].ins = {}

\* Only a payout spends outputs of the bridge, and only those of its redeem.
BridgeSpends ==
  \A n \in 1..Len(tx) : \A ref \in tx[n].ins :
    At(ref).to = Bridge => \E r \in Request : n \in Payouts(r) /\ ref \in prepared[r]

\* A payout spends all that its redeem was given, and pays its receiver first.
PayoutsInv ==
  \A r \in Request : \A n \in Payouts(r) :
    /\ prepared[r] # {} /\ tx[n].ins = prepared[r]
    /\ tx[n].outs[1] = Pay(RedeemReceiver[r], RedeemAmount[r])

\* The vault's rows are outputs of the bridge and worth what they say.
RowsInv ==
  \A ref \in known : ref \in Refs /\ At(ref).to = Bridge /\ At(ref).value = worth[ref]

\* What a redeem was given is linked to it, and enough.
PreparedInv ==
  \A r \in Request :
    /\ \A ref \in prepared[r] : ref \in known /\ linked[ref] = r
    /\ prepared[r] # {} => SumOver(worth, prepared[r]) >= SafeAmount(r)

\* What the monitor finds in a transaction is what it was built for.
IsCredited(t) == MaybeDepositTx(t.outs) /\ Decoded(t.outs[2].data) # NONE

CreditOf(t) == [account |-> Decoded(t.outs[2].data), value |-> t.outs[1].value]

TellsTruth(t) ==
  /\ IsCredited(t) <=> t.for.kind = "deposit"
  /\ t.for.kind = "deposit" =>
       CreditOf(t) = [account |-> EvmAddrToByteArray(t.for.account), value |-> t.for.value]

DataInv ==
  /\ \A n \in 1..Len(tx) : TellsTruth(tx[n])
  /\ \A n \in 1..MaxTx : credit[n] # NONE => n \in inspected

WalletInv ==
  /\ TypeOK /\ OutsShort /\ SpendsInv /\ BridgeSpends /\ PayoutsInv
  /\ RowsInv /\ PreparedInv /\ DataInv /\ CreditsRight

-----------------------------------------------------------------------------
(* Sums of the wallet                                                       *)

LEMMA MaxTxNat == MaxTx \in Nat
BY WalletAssumption

LEMMA OutRefFinite == IsFiniteSet(OutRef) /\ \A S \in SUBSET OutRef : IsFiniteSet(S)
<1>1. IsFiniteSet(1..MaxTx) BY FS_Interval, MaxTxNat
<1>3. IsFiniteSet(1..3)
  <2>1. 1 \in Int /\ 3 \in Int OBVIOUS
  <2> QED BY <2>1, FS_Interval, Zenon
<1>2. IsFiniteSet(OutRef) BY <1>1, <1>3, FS_Product DEF OutRef
<1> QED BY <1>2, FS_Subset

\* The values of the outputs of a list of transactions, and what the
\* transactions bring, as functions.
ValueIn(t) == [ref \in OutRef |-> t[ref[1]].outs[ref[2]].value]

ReceivedIn(t) == [n \in 1..MaxTx |-> Received(t[n].for)]

LEMMA ValueInIsSum ==
  ASSUME NEW t, NEW S \in SUBSET OutRef
  PROVE  MapThenSumSet(LAMBDA ref : t[ref[1]].outs[ref[2]].value, S) = SumOver(ValueIn(t), S)
<1> DEFINE val(ref) == t[ref[1]].outs[ref[2]].value
           iter[s \in SUBSET S] ==
             IF s = {} THEN 0 ELSE LET x == CHOOSE x \in s : TRUE IN val(x) + iter[s \ {x}]
<1>1. MapThenSumSet(LAMBDA ref : t[ref[1]].outs[ref[2]].value, S) = iter[S]
  BY DEF MapThenSumSet, MapThenFoldSet
<1>2. iter = CHOOSE h : h = [s \in SUBSET S |->
                               IF s = {} THEN 0 ELSE val(Some(s)) + h[s \ {Some(s)}]]
  BY DEF Some
<1>3. \A s \in SUBSET S : s # {} => ValueIn(t)[Some(s)] = val(Some(s))
  BY DEF ValueIn, Some
<1> HIDE DEF iter, val
<1>4. IsFiniteSet(S) BY OutRefFinite
<1>5. PICK g : IsSum(g, ValueIn(t), S) BY <1>4, SumExists
<1>6. g = [s \in SUBSET S |-> IF s = {} THEN 0 ELSE val(Some(s)) + g[s \ {Some(s)}]]
  BY <1>3, <1>5 DEF IsSum
<1>7. iter = [s \in SUBSET S |-> IF s = {} THEN 0 ELSE val(Some(s)) + iter[s \ {Some(s)}]]
  BY <1>2, <1>6
<1>8. IsSum(iter, ValueIn(t), S) BY <1>3, <1>7 DEF IsSum
<1> QED BY <1>1, <1>4, <1>8, SumSolves

LEMMA ReceivedInIsSum ==
  ASSUME NEW t, NEW S \in SUBSET (1..MaxTx)
  PROVE  MapThenSumSet(LAMBDA n : Received(t[n].for), S) = SumOver(ReceivedIn(t), S)
<1> DEFINE val(n) == Received(t[n].for)
           iter[s \in SUBSET S] ==
             IF s = {} THEN 0 ELSE LET x == CHOOSE x \in s : TRUE IN val(x) + iter[s \ {x}]
<1>1. MapThenSumSet(LAMBDA n : Received(t[n].for), S) = iter[S]
  BY DEF MapThenSumSet, MapThenFoldSet
<1>2. iter = CHOOSE h : h = [s \in SUBSET S |->
                               IF s = {} THEN 0 ELSE val(Some(s)) + h[s \ {Some(s)}]]
  BY DEF Some
<1>3. \A s \in SUBSET S : s # {} => ReceivedIn(t)[Some(s)] = val(Some(s))
  BY DEF ReceivedIn, Some
<1> HIDE DEF iter, val
<1>4. IsFiniteSet(S) 
  <2>1. IsFiniteSet(1..MaxTx) BY FS_Interval, MaxTxNat
  <2> QED BY <2>1, FS_Subset
<1>5. PICK g : IsSum(g, ReceivedIn(t), S) BY <1>4, SumExists
<1>6. g = [s \in SUBSET S |-> IF s = {} THEN 0 ELSE val(Some(s)) + g[s \ {Some(s)}]]
  BY <1>3, <1>5 DEF IsSum
<1>7. iter = [s \in SUBSET S |-> IF s = {} THEN 0 ELSE val(Some(s)) + iter[s \ {Some(s)}]]
  BY <1>2, <1>6
<1>8. IsSum(iter, ReceivedIn(t), S) BY <1>3, <1>7 DEF IsSum
<1> QED BY <1>1, <1>4, <1>8, SumSolves

\* Value and Rows are such sums, of naturals.
LEMMA ValueIsSum ==
  ASSUME NEW S \in SUBSET OutRef
  PROVE  Value(S) = SumOver(ValueIn(tx), S) /\ Value(S)' = SumOver(ValueIn(tx'), S)
<1>1. Value(S) = MapThenSumSet(LAMBDA ref : tx[ref[1]].outs[ref[2]].value, S)
  BY DEF Value, At
<1>2. Value(S)' = MapThenSumSet(LAMBDA ref : tx'[ref[1]].outs[ref[2]].value, S)
  BY DEF Value, At, MapThenSumSet, MapThenFoldSet
<1>3. \A t : MapThenSumSet(LAMBDA ref : t[ref[1]].outs[ref[2]].value, S)
            = SumOver(ValueIn(t), S)
  BY ValueInIsSum
<1> QED BY <1>1, <1>2, <1>3

LEMMA RowsIsSum ==
  ASSUME NEW S
  PROVE  Rows(S) = SumOver(worth, S) /\ Rows(S)' = SumOver(worth', S)
BY DEF Rows, SumOver, MapThenSumSet, MapThenFoldSet

LEMMA TxTyped ==
  TypeOK => \A n \in 1..Len(tx) : /\ tx[n].ins \subseteq OutRef
                                 /\ tx[n].outs \in Seq(Output)
                                 /\ tx[n].for \in Purpose
<1> SUFFICES ASSUME TypeOK, NEW n \in 1..Len(tx)
             PROVE  /\ tx[n].ins \subseteq OutRef
                    /\ tx[n].outs \in Seq(Output)
                    /\ tx[n].for \in Purpose
  OBVIOUS
<1> DEFINE Tx == [ins: SUBSET OutRef, outs: Seq(Output), for: Purpose]
<1>1. tx \in Seq(Tx) BY DEF TypeOK
<1>2. tx[n] \in Tx
  <2> HIDE DEF Tx
  <2> QED BY <1>1
<1> QED BY <1>2

LEMMA ValueType ==
  ASSUME TypeOK, NEW S \in SUBSET Refs
  PROVE  Value(S) \in Nat /\ \A ref \in Refs : At(ref) \in Output /\ ref \in OutRef
<1>1. \A ref \in Refs : At(ref) \in Output /\ ref \in OutRef
  <2> SUFFICES ASSUME NEW ref \in Refs PROVE At(ref) \in Output /\ ref \in OutRef
    OBVIOUS
  <2>1. /\ ref \in OutRef /\ ref[1] \in 1..MaxTx /\ ref[2] \in 1..3
        /\ ref[1] <= Len(tx) /\ ref[2] <= Len(tx[ref[1]].outs)
    BY DEF Refs, OutRef
  <2>2. tx \in Seq([ins: SUBSET OutRef, outs: Seq(Output), for: Purpose]) BY DEF TypeOK
  <2>3. ref[1] \in 1..Len(tx) BY <2>1, <2>2, MaxTxNat
  <2>4. tx[ref[1]].outs \in Seq(Output) BY <2>3, TxTyped
  <2>5. ref[2] \in 1..Len(tx[ref[1]].outs) BY <2>1, <2>4
  <2>6. At(ref) \in Output BY <2>4, <2>5 DEF At
  <2> QED BY <2>1, <2>6
<1>2. S \in SUBSET OutRef /\ \A ref \in S : ValueIn(tx)[ref] \in Nat
  BY <1>1 DEF ValueIn, At, Output
<1> QED BY <1>1, <1>2, OutRefFinite, ValueIsSum, SumNat

-----------------------------------------------------------------------------
(* What the node takes                                                      *)

Tx == [ins: SUBSET OutRef, outs: Seq(Output), for: Purpose]

\* The node takes t as its next transaction.
Sent(t) ==
  /\ Len(tx) < MaxTx /\ tx' = Append(tx, t)
  /\ t \in Tx /\ Len(t.outs) <= 3
  /\ t.ins \subseteq Unspent

\* A value of an output, if it pays the bridge.
Part(t, i) == IF i <= Len(t.outs) /\ t.outs[i].to = Bridge THEN t.outs[i].value ELSE 0

Brings(t) == Part(t, 1) + Part(t, 2) + Part(t, 3)

\* What a user sends: coins of the user, for a deposit or a transfer.
ByUser(t) ==
  /\ \A ref \in t.ins : At(ref).to # Bridge
  /\ \A r \in Request : t.for # [kind |-> "payout", request |-> r]
  /\ TellsTruth(t)
  /\ Brings(t) = Received(t.for)

\* What the bridge sends: the payout of a prepared redeem, whose change is
\* what the receiver and the fee leave.
ByBridge(t, r) ==
  /\ prepared[r] # {} /\ t.ins = prepared[r]
  /\ t.for = [kind |-> "payout", request |-> r]
  /\ t.outs[1] = Pay(RedeemReceiver[r], RedeemAmount[r])
  /\ TellsTruth(t)
  /\ Brings(t) = Received(t.for) + Rows(t.ins)

LEMMA PaysTyped ==
  /\ \A to \in Address, value \in Nat : Pay(to, value) \in Output
  /\ \A data \in Data : NullData(data) \in Output
BY DEF Pay, NullData, Output

LEMMA NoneApart ==
  /\ NONE # Bridge /\ NONE \notin EvmAddress /\ NONE \notin Request /\ NONE \notin Data
  /\ Bridge \in Address /\ Bridge \notin User /\ User \subseteq Address
BY WalletAssumption DEF Address

\* The node lists one transaction more; what was unspent stays so unless it is
\* spent now, and the new outputs are unspent.
LEMMA Grows ==
  ASSUME TypeOK, SpendsInv, NEW t, Sent(t), NEW N, N = Len(tx) + 1
  PROVE  /\ Len(tx') = N /\ Len(tx) \in Nat /\ N \in 1..MaxTx
         /\ tx'[N] = t
         /\ \A n \in 1..Len(tx) : tx'[n] = tx[n]
         /\ Refs' = Refs \cup {<<N, i>> : i \in 1..Len(t.outs)}
         /\ \A ref \in Refs : At(ref)' = At(ref)
         /\ \A i \in 1..Len(t.outs) :
              At(<<N, i>>)' = t.outs[i] /\ <<N, i>> \notin Refs /\ <<N, i>> \in OutRef
         /\ Unspent' = (Unspent \ t.ins) \cup {<<N, i>> : i \in 1..Len(t.outs)}
<1> DEFINE new == {<<N, i>> : i \in 1..Len(t.outs)}
<1>1. /\ Len(tx') = N /\ Len(tx) \in Nat /\ tx'[N] = t /\ N \in 1..MaxTx
      /\ \A n \in 1..Len(tx) : tx'[n] = tx[n]
  <2>1. tx \in Seq(Tx) BY DEF TypeOK, Tx
  <2>2. t \in Tx /\ tx' = Append(tx, t) /\ Len(tx) < MaxTx BY DEF Sent
  <2> HIDE DEF Tx
  <2> QED BY <2>1, <2>2, MaxTxNat
<1>2. Len(t.outs) \in Nat /\ Len(t.outs) <= 3 /\ t.ins \subseteq Unspent
  <2>1. t.outs \in Seq(Output) BY DEF Sent, Tx
  <2>2. Len(t.outs) \in Nat BY <2>1
  <2> QED BY <2>2 DEF Sent
<1>3. \A ref \in Refs : ref \in OutRef /\ ref[1] \in 1..Len(tx) /\ ref[2] <= Len(tx[ref[1]].outs)
  BY <1>1, MaxTxNat DEF Refs, OutRef
<1>4. \A ref \in Refs : At(ref)' = At(ref) /\ ref \in Refs'
  BY <1>1, <1>3 DEF At, Refs
<1>5. \A i \in 1..Len(t.outs) : /\ At(<<N, i>>)' = t.outs[i] /\ <<N, i>> \notin Refs
                              /\ <<N, i>> \in Refs' /\ <<N, i>> \in OutRef
  <2> SUFFICES ASSUME NEW i \in 1..Len(t.outs)
               PROVE  /\ At(<<N, i>>)' = t.outs[i] /\ <<N, i>> \notin Refs
                      /\ <<N, i>> \in Refs' /\ <<N, i>> \in OutRef
    OBVIOUS
  <2>1. i \in 1..3 /\ i <= Len(t.outs) BY <1>2
  <2>2. <<N, i>> \in OutRef /\ <<N, i>>[1] = N /\ <<N, i>>[2] = i
    BY <1>1, <2>1 DEF OutRef
  <2>3. At(<<N, i>>)' = t.outs[i]
    <3>1. \A ref : ref[1] = N /\ ref[2] = i => At(ref)' = t.outs[i] BY <1>1 DEF At
    <3> QED BY <2>2, <3>1
  <2>4. <<N, i>> \in Refs' BY <1>1, <2>1, <2>2 DEF Refs
  <2>5. <<N, i>> \notin Refs
    <3>1. ~(N <= Len(tx)) BY <1>1
    <3> QED BY <3>1, <2>2 DEF Refs
  <2> QED BY <2>2, <2>3, <2>4, <2>5
<1>6. Refs' \subseteq Refs \cup new
  <2> SUFFICES ASSUME NEW ref \in Refs', ref \notin Refs PROVE ref \in new
    OBVIOUS
  <2>1. /\ ref \in OutRef /\ ref[1] \in 1..MaxTx /\ ref[2] \in 1..3 /\ ref = <<ref[1], ref[2]>>
        /\ ref[1] <= Len(tx') /\ ref[2] <= Len(tx'[ref[1]].outs)
    BY DEF Refs, OutRef
  <2>2. ref[1] = N
    <3> SUFFICES ASSUME ref[1] # N PROVE FALSE
      OBVIOUS
    <3>1. ref[1] \in 1..Len(tx) BY <1>1, <2>1, MaxTxNat
    <3>2. tx'[ref[1]] = tx[ref[1]] BY <1>1, <3>1
    <3> QED BY <2>1, <3>1, <3>2 DEF Refs
  <2>3. ref[2] \in 1..Len(t.outs) BY <1>1, <1>2, <2>1, <2>2
  <2> QED BY <2>1, <2>2, <2>3
<1>7. Refs' = Refs \cup new BY <1>4, <1>5, <1>6
<1>8. \A n \in 1..N : tx'[n].ins \subseteq Refs
  <2>1. \A n \in 1..Len(tx) : tx'[n].ins \subseteq Refs BY <1>1 DEF SpendsInv
  <2>2. tx'[N].ins \subseteq Refs BY <1>1, <1>2 DEF Unspent
  <2>3. \A n \in 1..N : n \in 1..Len(tx) \/ n = N BY <1>1
  <2> QED BY <2>1, <2>2, <2>3
<1>9. Unspent' = (Unspent \ t.ins) \cup new
  <2>1. \A n \in 1..N : n \in 1..Len(tx) \/ n = N BY <1>1
  <2>2. \A ref \in new : ref \in Unspent' BY <1>1, <1>5, <1>8 DEF Unspent
  <2>3. \A ref \in Unspent \ t.ins : ref \in Unspent' BY <1>1, <1>4, <2>1 DEF Unspent
  <2>4. \A ref \in Unspent' : ref \in (Unspent \ t.ins) \cup new
    <3> SUFFICES ASSUME NEW ref \in Unspent', ref \notin new PROVE ref \in Unspent \ t.ins
      OBVIOUS
    <3>1. ref \in Refs BY <1>7 DEF Unspent
    <3>2. \A n \in 1..N : ref \notin tx'[n].ins BY <1>1 DEF Unspent
    <3>3. 1..Len(tx) \subseteq 1..N /\ N \in 1..N BY <1>1
    <3>4. ref \notin t.ins /\ \A n \in 1..Len(tx) : ref \notin tx[n].ins
      BY <1>1, <3>2, <3>3
    <3> QED BY <3>1, <3>4 DEF Unspent
  <2> QED BY <2>2, <2>3, <2>4
<1> QED BY <1>1, <1>4, <1>5, <1>7, <1>9

-----------------------------------------------------------------------------
(* Which transactions are built                                             *)

LEMMA DataFacts ==
  /\ \A a \in Account : /\ DepositData(a) \in Data /\ DepositData(a) # NONE
                        /\ Decoded(DepositData(a)) = EvmAddrToByteArray(a)
                        /\ EvmAddrToByteArray(a) \in EvmAddress
                        /\ EvmAddrToByteArray(a) # NONE
  /\ \A r \in Request : /\ RedeemData(r) \in Data /\ RedeemData(r) # NONE
                        /\ Decoded(RedeemData(r)) = NONE
  /\ \A d \in Foreign : d \in Data /\ Decoded(d) = NONE
<1>1. ASSUME NEW a \in Account
      PROVE  /\ DepositData(a) \in Data /\ DepositData(a) # NONE
             /\ Decoded(DepositData(a)) = EvmAddrToByteArray(a)
             /\ EvmAddrToByteArray(a) \in EvmAddress
             /\ EvmAddrToByteArray(a) # NONE
  <2>0. EvmAddrToByteArray(a) \in EvmAddress BY WalletAssumption DEF EvmAddrToByteArray
  <2>1. DepositData(a) \in Data BY <2>0 DEF DepositData, Data
  <2>2. Decoded(DepositData(a)) = EvmAddrToByteArray(a) BY DEF DepositData, Decoded
  <2> QED BY <2>0, <2>1, <2>2, NoneApart
<1>2. ASSUME NEW r \in Request
      PROVE  /\ RedeemData(r) \in Data /\ RedeemData(r) # NONE
             /\ Decoded(RedeemData(r)) = NONE
  <2>1. RedeemData(r) \in Data BY DEF RedeemData, Data
  <2>2. DOMAIN RedeemData(r) = {"request"} BY DEF RedeemData
  <2>3. "account" \notin {"request"} OBVIOUS
  <2>4. Decoded(RedeemData(r)) = NONE BY <2>2, <2>3 DEF Decoded
  <2> QED BY <2>1, <2>4, NoneApart
<1>3. ASSUME NEW d \in Foreign PROVE d \in Data /\ Decoded(d) = NONE
  <2>1. DOMAIN d = {"other"} BY DEF Foreign
  <2>2. "account" \notin {"other"} OBVIOUS
  <2> QED BY <2>1, <2>2 DEF Decoded, Data
<1> QED BY <1>1, <1>2, <1>3

LEMMA TwoOutputs ==
  ASSUME NEW o \in Output, NEW p \in Output, NEW to \in Address, NEW change \in Int
  PROVE  \A outs : outs = WithChange(<<o, p>>, to, change) =>
           /\ outs \in Seq(Output) /\ outs[1] = o /\ outs[2] = p
           /\ Len(outs) >= 2 /\ Len(outs) <= 3
           /\ Len(outs) >= 3 => outs[3] = Pay(to, change)
           /\ Len(outs) >= 3 <=> change > 0
<1>1. CASE change > 0
  <2>1. Pay(to, change) \in Output BY <1>1 DEF Pay, Output
  <2>2. \A q \in Output : \A outs : outs = Append(<<o, p>>, q) =>
          /\ outs \in Seq(Output) /\ outs[1] = o /\ outs[2] = p
          /\ Len(outs) >= 2 /\ Len(outs) <= 3 /\ Len(outs) >= 3 /\ outs[3] = q
    OBVIOUS
  <2>3. WithChange(<<o, p>>, to, change) = Append(<<o, p>>, Pay(to, change))
    BY <1>1 DEF WithChange
  <2> QED BY <1>1, <2>1, <2>2, <2>3, Zenon
<1>2. CASE ~(change > 0)
  <2>1. \A outs : outs = <<o, p>> =>
          /\ outs \in Seq(Output) /\ outs[1] = o /\ outs[2] = p
          /\ Len(outs) >= 2 /\ Len(outs) <= 3 /\ ~(Len(outs) >= 3)
    OBVIOUS
  <2>2. WithChange(<<o, p>>, to, change) = <<o, p>> BY <1>2 DEF WithChange
  <2> QED BY <1>2, <2>1, <2>2, Zenon
<1> QED BY <1>1, <1>2

LEMMA OneOutput ==
  ASSUME NEW o \in Output, NEW to \in Address, NEW change \in Int
  PROVE  \A outs : outs = WithChange(<<o>>, to, change) =>
           /\ outs \in Seq(Output) /\ outs[1] = o
           /\ Len(outs) >= 1 /\ Len(outs) <= 2
           /\ Len(outs) >= 2 => outs[2] = Pay(to, change)
<1>1. CASE change > 0
  <2>1. Pay(to, change) \in Output BY <1>1 DEF Pay, Output
  <2>2. \A q \in Output : \A outs : outs = Append(<<o>>, q) =>
          /\ outs \in Seq(Output) /\ outs[1] = o /\ outs[2] = q
          /\ Len(outs) >= 1 /\ Len(outs) <= 2
    OBVIOUS
  <2>3. WithChange(<<o>>, to, change) = Append(<<o>>, Pay(to, change))
    BY <1>1 DEF WithChange
  <2> QED BY <1>1, <2>1, <2>2, <2>3, Zenon
<1>2. CASE ~(change > 0)
  <2>1. \A outs : outs = <<o>> => outs \in Seq(Output) /\ outs[1] = o /\ Len(outs) = 1
    OBVIOUS
  <2>2. WithChange(<<o>>, to, change) = <<o>> BY <1>2 DEF WithChange
  <2> QED BY <1>2, <2>1, <2>2
<1> QED BY <1>1, <1>2

\* The node takes what is broadcast.
LEMMA Broadcasts ==
  ASSUME TypeOK, NEW by, NEW ins, NEW outs \in Seq(Output), NEW for \in Purpose,
         Len(outs) <= 3, Broadcast(by, ins, outs, for), NEW t,
         t = [ins |-> ins, outs |-> outs, for |-> for]
  PROVE  Sent(t) /\ \A ref \in t.ins : At(ref).to = by
<1>1. ins \subseteq Unspent /\ \A ref \in ins : At(ref).to = by
  BY DEF Broadcast, Takes, Unlock
<1>2. ins \subseteq OutRef BY <1>1 DEF Unspent, Refs
<1>3. t.ins = ins /\ t.outs = outs /\ t.for = for OBVIOUS
<1>4. t \in Tx BY <1>2 DEF Tx
<1>5. Len(tx) < MaxTx /\ tx' = Append(tx, t) BY DEF Broadcast
<1> QED BY <1>1, <1>3, <1>4, <1>5 DEF Sent

LEMMA DepositSent ==
  ASSUME TypeOK, NEW u \in User, NEW fee \in UserFees, NEW amount \in DepositAmounts,
         NEW account \in Account, DepositToBridge(u, amount, fee, account)
  PROVE  \E t : Sent(t) /\ ByUser(t)
<1>1. amount \in Nat \ {0} /\ fee \in Nat BY WalletAssumption
<1> DEFINE for == [kind |-> "deposit", value |-> amount, fee |-> fee, account |-> account]
           outs(S) == DepositOutputs(Value(S), amount, fee, u, account)
<1>2. PICK S \in Select(Utxos(u), amount, fee) : Broadcast(u, S, outs(S), for)
  BY DEF DepositToBridge
<1>3. Value(S) \in Nat
  <2>1. S \subseteq Refs BY <1>2 DEF Select, Utxos, Unspent
  <2> QED BY <2>1, ValueType
<1>4. PICK change \in Int : change = Change(Value(S), amount, fee)
  BY <1>1, <1>3 DEF Change
<1> DEFINE o == Pay(Bridge, amount)
           p == NullData(DepositData(account))
<1>5. o \in Output /\ p \in Output /\ u \in Address
  BY <1>1, PaysTyped, DataFacts, NoneApart
<1>6. PICK os : os = outs(S) OBVIOUS
<1>7. os = WithChange(<<o, p>>, u, change) BY <1>4, <1>6 DEF DepositOutputs
<1>12. Broadcast(u, S, os, for) BY <1>2, <1>6
<1> HIDE DEF o, p, outs
<1>8. /\ os \in Seq(Output) /\ os[1] = o /\ os[2] = p
      /\ Len(os) >= 2 /\ Len(os) <= 3
      /\ Len(os) >= 3 => os[3] = Pay(u, change)
  BY <1>5, <1>7, TwoOutputs
<1>9. os \in Seq(Output) /\ Len(os) <= 3 BY <1>8
<1>10. for \in Purpose BY <1>1 DEF Purpose
<1>11. PICK t : t = [ins |-> S, outs |-> os, for |-> for] OBVIOUS
<1> HIDE DEF for
<1>13. Sent(t) /\ \A ref \in t.ins : At(ref).to = u
  BY <1>9, <1>10, <1>11, <1>12, Broadcasts
<1>14. t.outs = os /\ t.for = for BY <1>11
<1>15. /\ o.to = Bridge /\ o.value = amount /\ o.data = NONE
       /\ p.to = NONE /\ p.value = 0 /\ p.data = DepositData(account)
  BY DEF o, p, Pay, NullData
<1>16. /\ for.kind = "deposit" /\ for.value = amount /\ for.account = account
       /\ \A r \in Request : for # [kind |-> "payout", request |-> r]
  <2>1. for.kind = "deposit" /\ for.value = amount /\ for.account = account BY DEF for
  <2>2. \A r : [kind |-> "payout", request |-> r].kind = "payout" OBVIOUS
  <2> QED BY <2>1, <2>2
<1>17. TellsTruth(t)
  <2>1. MaybeDepositTx(os)
    BY <1>1, <1>8, <1>15, DataFacts DEF MaybeDepositTx, PaysBridge
  <2>2. Decoded(os[2].data) = EvmAddrToByteArray(account) /\ EvmAddrToByteArray(account) # NONE
    BY <1>8, <1>15, DataFacts
  <2> QED BY <1>8, <1>14, <1>15, <1>16, <2>1, <2>2 DEF TellsTruth, IsCredited, CreditOf
<1>18. Brings(t) = Received(t.for)
  <2>1. Part(t, 1) = amount BY <1>8, <1>14, <1>15 DEF Part
  <2>2. Part(t, 2) = 0 BY <1>8, <1>14, <1>15, NoneApart DEF Part
  <2>3. Part(t, 3) = 0
    <3>1. Len(os) >= 3 => os[3].to # Bridge BY <1>8, NoneApart DEF Pay
    <3> QED BY <1>8, <1>14, <3>1 DEF Part
  <2>4. Received(t.for) = amount BY <1>14, <1>16 DEF Received
  <2> QED BY <1>1, <2>1, <2>2, <2>3, <2>4 DEF Brings
<1>19. \A ref \in t.ins : At(ref).to # Bridge BY <1>13, NoneApart
<1> QED BY <1>13, <1>14, <1>16, <1>17, <1>18, <1>19 DEF ByUser

LEMMA ForeignSent ==
  ASSUME TypeOK, NEW u \in User, NEW fee \in UserFees, NEW amount \in TransferAmounts,
         NEW data \in Foreign, ForeignTransfer(u, amount, fee, data)
  PROVE  \E t : Sent(t) /\ ByUser(t)
<1>1. amount \in Nat \ {0} /\ fee \in Nat BY WalletAssumption
<1> DEFINE for == [kind |-> "transfer", value |-> amount, fee |-> fee, to |-> Bridge]
           outs(S) == WithChange(<<Pay(Bridge, amount), NullData(data)>>, u,
                                 Change(Value(S), amount, fee))
<1>2. PICK S \in SUBSET Utxos(u) : Broadcast(u, S, outs(S), for)
  BY DEF ForeignTransfer
<1>3. Value(S) \in Nat
  <2>1. S \subseteq Refs BY <1>2 DEF Utxos, Unspent
  <2> QED BY <2>1, ValueType
<1>4. PICK change \in Int : change = Change(Value(S), amount, fee)
  BY <1>1, <1>3 DEF Change
<1> DEFINE o == Pay(Bridge, amount)
           p == NullData(data)
<1>5. o \in Output /\ p \in Output /\ u \in Address
  BY <1>1, PaysTyped, DataFacts, NoneApart
<1>6. PICK os : os = outs(S) OBVIOUS
<1>7. os = WithChange(<<o, p>>, u, change) BY <1>4, <1>6
<1>12. Broadcast(u, S, os, for) BY <1>2, <1>6
<1> HIDE DEF o, p, outs
<1>8. /\ os \in Seq(Output) /\ os[1] = o /\ os[2] = p
      /\ Len(os) >= 2 /\ Len(os) <= 3
      /\ Len(os) >= 3 => os[3] = Pay(u, change)
  BY <1>5, <1>7, TwoOutputs
<1>9. os \in Seq(Output) /\ Len(os) <= 3 BY <1>8
<1>10. for \in Purpose BY <1>1, NoneApart DEF Purpose
<1>11. PICK t : t = [ins |-> S, outs |-> os, for |-> for] OBVIOUS
<1> HIDE DEF for
<1>13. Sent(t) /\ \A ref \in t.ins : At(ref).to = u
  BY <1>9, <1>10, <1>11, <1>12, Broadcasts
<1>14. t.outs = os /\ t.for = for BY <1>11
<1>15. /\ o.to = Bridge /\ o.value = amount /\ o.data = NONE
       /\ p.to = NONE /\ p.value = 0 /\ p.data = data
  BY DEF o, p, Pay, NullData
<1>16. /\ for.kind = "transfer" /\ for.value = amount /\ for.to = Bridge
       /\ \A r \in Request : for # [kind |-> "payout", request |-> r]
  <2>1. for.kind = "transfer" /\ for.value = amount /\ for.to = Bridge BY DEF for
  <2>2. \A r : [kind |-> "payout", request |-> r].kind = "payout" OBVIOUS
  <2> QED BY <2>1, <2>2
<1>17. TellsTruth(t)
  <2>1. Decoded(os[2].data) = NONE BY <1>8, <1>15, DataFacts
  <2> QED BY <1>14, <1>16, <2>1 DEF TellsTruth, IsCredited
<1>18. Brings(t) = Received(t.for)
  <2>1. Part(t, 1) = amount BY <1>8, <1>14, <1>15 DEF Part
  <2>2. Part(t, 2) = 0 BY <1>8, <1>14, <1>15, NoneApart DEF Part
  <2>3. Part(t, 3) = 0
    <3>1. Len(os) >= 3 => os[3].to # Bridge BY <1>8, NoneApart DEF Pay
    <3> QED BY <1>8, <1>14, <3>1 DEF Part
  <2>4. Received(t.for) = amount BY <1>14, <1>16 DEF Received
  <2> QED BY <1>1, <2>1, <2>2, <2>3, <2>4 DEF Brings
<1>19. \A ref \in t.ins : At(ref).to # Bridge BY <1>13, NoneApart
<1> QED BY <1>13, <1>14, <1>16, <1>17, <1>18, <1>19 DEF ByUser

LEMMA TransferSent ==
  ASSUME TypeOK, NEW u \in User, NEW fee \in UserFees, NEW amount \in TransferAmounts,
         NEW to \in Address, TransferOut(u, amount, fee, to)
  PROVE  \E t : Sent(t) /\ ByUser(t)
<1>1. amount \in Nat \ {0} /\ fee \in Nat BY WalletAssumption
<1> DEFINE for == [kind |-> "transfer", value |-> amount, fee |-> fee, to |-> to]
           outs(S) == TransferOutputs(Value(S), to, amount, fee, u)
<1>2. PICK S \in Select(Utxos(u), amount, fee) : Broadcast(u, S, outs(S), for)
  BY DEF TransferOut
<1>3. Value(S) \in Nat
  <2>1. S \subseteq Refs BY <1>2 DEF Select, Utxos, Unspent
  <2> QED BY <2>1, ValueType
<1>4. PICK change \in Int : change = Change(Value(S), amount, fee)
  BY <1>1, <1>3 DEF Change
<1> DEFINE o == Pay(to, amount)
<1>5. o \in Output /\ u \in Address BY <1>1, PaysTyped, NoneApart
<1>6. PICK os : os = outs(S) OBVIOUS
<1>7. os = WithChange(<<o>>, u, change) BY <1>4, <1>6 DEF TransferOutputs
<1>12. Broadcast(u, S, os, for) BY <1>2, <1>6
<1> HIDE DEF o, outs
<1>8. /\ os \in Seq(Output) /\ os[1] = o
      /\ Len(os) >= 1 /\ Len(os) <= 2
      /\ Len(os) >= 2 => os[2] = Pay(u, change)
  BY <1>5, <1>7, OneOutput
<1>9. os \in Seq(Output) /\ Len(os) <= 3 BY <1>8
<1>10. for \in Purpose BY <1>1 DEF Purpose
<1>11. PICK t : t = [ins |-> S, outs |-> os, for |-> for] OBVIOUS
<1> HIDE DEF for
<1>13. Sent(t) /\ \A ref \in t.ins : At(ref).to = u
  BY <1>9, <1>10, <1>11, <1>12, Broadcasts
<1>14. t.outs = os /\ t.for = for BY <1>11
<1>15. o.to = to /\ o.value = amount BY DEF o, Pay
<1>16. /\ for.kind = "transfer" /\ for.value = amount /\ for.to = to
       /\ \A r \in Request : for # [kind |-> "payout", request |-> r]
  <2>1. for.kind = "transfer" /\ for.value = amount /\ for.to = to BY DEF for
  <2>2. \A r : [kind |-> "payout", request |-> r].kind = "payout" OBVIOUS
  <2> QED BY <2>1, <2>2
<1>17. TellsTruth(t)
  <2>1. Len(os) >= 2 => os[2].data = NONE BY <1>8 DEF Pay
  <2>2. ~MaybeDepositTx(os) BY <2>1 DEF MaybeDepositTx
  <2> QED BY <1>14, <1>16, <2>2 DEF TellsTruth, IsCredited
<1>18. Brings(t) = Received(t.for)
  <2>1. Part(t, 1) = IF to = Bridge THEN amount ELSE 0 BY <1>8, <1>14, <1>15 DEF Part
  <2>2. Part(t, 2) = 0
    <3>1. Len(os) >= 2 => os[2].to # Bridge BY <1>8, NoneApart DEF Pay
    <3> QED BY <1>8, <1>14, <3>1 DEF Part
  <2>3. Part(t, 3) = 0 BY <1>8, <1>14 DEF Part
  <2>4. Received(t.for) = IF to = Bridge THEN amount ELSE 0 BY <1>14, <1>16 DEF Received
  <2> QED BY <1>1, <2>1, <2>2, <2>3, <2>4 DEF Brings
<1>19. \A ref \in t.ins : At(ref).to # Bridge BY <1>13, NoneApart
<1> QED BY <1>13, <1>14, <1>16, <1>17, <1>18, <1>19 DEF ByUser

LEMMA RowsType ==
  ASSUME TypeOK, NEW S \in SUBSET known
  PROVE  Rows(S) \in Nat /\ IsFiniteSet(S)
<1>1. known \in SUBSET OutRef /\ worth \in [known -> Nat] BY DEF TypeOK
<1>2. IsFiniteSet(S)
  <2>1. S \in SUBSET OutRef BY <1>1
  <2> QED BY <2>1, OutRefFinite
<1>3. \A ref \in S : worth[ref] \in Nat BY <1>1
<1> QED BY <1>2, <1>3, RowsIsSum, SumNat

LEMMA PayoutSent ==
  ASSUME TypeOK, PreparedInv, NEW r \in Request, Withdraw(r)
  PROVE  UNCHANGED tx \/ \E t : Sent(t) /\ ByBridge(t, r)
<1>1. RedeemAmount[r] \in Nat \ {0} /\ RedeemReceiver[r] \in Address /\ BtcTxFee \in Nat
  BY WalletAssumption
<1>2. PICK S : S = prepared[r] OBVIOUS
<1>3. S # {} /\ S \subseteq known /\ S = CollectUTXOs(r)
  BY <1>2 DEF Withdraw, PreparedInv, CollectUTXOs
<1>4. Rows(S) \in Nat BY <1>3, RowsType
<1>5. PICK change \in Int : change = Change(Rows(S), RedeemAmount[r], BtcTxFee)
  BY <1>1, <1>4 DEF Change
<1>6. change >= 0 /\ change = Rows(S) - RedeemAmount[r] - BtcTxFee
  BY <1>3, <1>5 DEF Withdraw, CanPay, Change
<1> DEFINE for == [kind |-> "payout", request |-> r]
           o == Pay(RedeemReceiver[r], RedeemAmount[r])
           p == NullData(RedeemData(r))
<1>7. PICK os : os = WithChange(<<o, p>>, Bridge, change) OBVIOUS
<1>8. PICK t : t = [ins |-> S, outs |-> os, for |-> for] OBVIOUS
<1>9. Payout(r) = t BY <1>3, <1>5, <1>7, <1>8 DEF Payout, RedeemOutputs
<1>10. t.ins = S /\ t.outs = os /\ t.for = for BY <1>8
<1>11. CASE Broadcast(Bridge, Payout(r).ins, Payout(r).outs, Payout(r).for)
  <2>1. Broadcast(Bridge, S, os, for) BY <1>9, <1>10, <1>11
  <2>2. o \in Output /\ p \in Output /\ Bridge \in Address
    BY <1>1, PaysTyped, DataFacts, NoneApart
  <2>3. /\ o.to = RedeemReceiver[r] /\ o.value = RedeemAmount[r]
        /\ p.to = NONE /\ p.value = 0 /\ p.data = RedeemData(r)
    BY DEF Pay, NullData
  <2>4. for \in Purpose /\ for.kind = "payout" /\ for.request = r BY DEF Purpose
  <2> HIDE DEF o, p, for
  <2>5. /\ os \in Seq(Output) /\ os[1] = o /\ os[2] = p
        /\ Len(os) >= 2 /\ Len(os) <= 3
        /\ Len(os) >= 3 => os[3] = Pay(Bridge, change)
        /\ Len(os) >= 3 <=> change > 0
    BY <1>7, <2>2, TwoOutputs
  <2>6. Sent(t) BY <1>8, <2>1, <2>4, <2>5, Broadcasts
  <2>7. TellsTruth(t)
    <3>1. Decoded(os[2].data) = NONE BY <2>3, <2>5, DataFacts
    <3> QED BY <1>10, <2>4, <3>1 DEF TellsTruth, IsCredited
  <2>8. Brings(t) = Received(t.for) + Rows(t.ins)
    <3>1. Part(t, 1) = IF RedeemReceiver[r] = Bridge THEN RedeemAmount[r] ELSE 0
      BY <1>10, <2>3, <2>5 DEF Part
    <3>2. Part(t, 2) = 0 BY <1>10, <2>3, <2>5, NoneApart DEF Part
    <3>3. Part(t, 3) = change
      <4>1. Len(os) >= 3 => os[3].to = Bridge /\ os[3].value = change BY <2>5 DEF Pay
      <4>2. CASE change > 0 BY <1>10, <2>5, <4>1, <4>2 DEF Part
      <4>3. CASE ~(change > 0)
        <5>1. change = 0 /\ ~(3 <= Len(os)) BY <1>6, <2>5, <4>3
        <5> QED BY <1>10, <5>1 DEF Part
      <4> QED BY <4>2, <4>3
    <3>4. Received(t.for) =
            (IF RedeemReceiver[r] = Bridge THEN RedeemAmount[r] ELSE 0)
            - RedeemAmount[r] - BtcTxFee
      BY <1>10, <2>4 DEF Received
    <3>5. CASE RedeemReceiver[r] = Bridge
      BY <1>1, <1>4, <1>6, <1>10, <3>1, <3>2, <3>3, <3>4, <3>5 DEF Brings
    <3>6. CASE RedeemReceiver[r] # Bridge
      BY <1>1, <1>4, <1>6, <1>10, <3>1, <3>2, <3>3, <3>4, <3>6 DEF Brings
    <3> QED BY <3>5, <3>6
  <2> QED BY <1>2, <1>3, <1>10, <2>5, <2>6, <2>7, <2>8 DEF ByBridge, o, for
<1> QED BY <1>11 DEF Withdraw

\* What one step may write: the node's list, with a transaction of a user or of
\* the bridge, or the tables of one handler.
money == <<tx, mined, inspected, credit, vault, prepared>>

Sends ==
  /\ \E t : Sent(t) /\ (ByUser(t) \/ \E r \in Request : ByBridge(t, r))
  /\ UNCHANGED <<mined, inspected, credit, vault, prepared>>

LEMMA WalletSteps ==
  ASSUME TypeOK, PreparedInv, [Next]_vars
  PROVE  \/ Sends
         \/ \E n \in 1..MaxTx : Mine(n) \/ Inspect(n)
         \/ \E r \in Request : Prepare(r)
         \/ UNCHANGED money
<1>1. ASSUME NEW u \in User, NEW fee \in UserFees, NEW amount \in DepositAmounts,
             NEW account \in Account, DepositToBridge(u, amount, fee, account)
      PROVE  Sends
  BY <1>1, DepositSent DEF DepositToBridge, Sends
<1>2. ASSUME NEW u \in User, NEW fee \in UserFees, NEW amount \in TransferAmounts,
             NEW to \in Address, TransferOut(u, amount, fee, to)
      PROVE  Sends
  BY <1>2, TransferSent DEF TransferOut, Sends
<1>f. ASSUME NEW u \in User, NEW fee \in UserFees, NEW amount \in TransferAmounts,
             NEW data \in Foreign, ForeignTransfer(u, amount, fee, data)
      PROVE  Sends
  BY <1>f, ForeignSent DEF ForeignTransfer, Sends
<1>3. ASSUME NEW r \in Request, Withdraw(r) PROVE Sends \/ UNCHANGED money
  <2>1. UNCHANGED <<mined, inspected, credit, vault, prepared>> BY <1>3 DEF Withdraw
  <2>2. CASE UNCHANGED tx BY <2>1, <2>2 DEF money
  <2>3. CASE \E t : Sent(t) /\ ByBridge(t, r) BY <2>1, <2>3 DEF Sends
  <2> QED BY <1>3, <2>2, <2>3, PayoutSent
<1>4. CASE UNCHANGED vars BY <1>4 DEF vars, node, money
<1> QED BY <1>1, <1>2, <1>f, <1>3, <1>4 DEF Next

\* The table of sent redeems and the count of faults keep their types.
LEMMA CountersTyped ==
  ASSUME TypeOK, [Next]_vars
  PROVE  sent' \subseteq Request /\ faults' \in 0..MaxFaults
<1>1. sent \subseteq Request /\ faults \in 0..MaxFaults /\ MaxFaults \in Nat
  BY WalletAssumption DEF TypeOK
<1>2. CASE UNCHANGED <<sent, faults>> BY <1>1, <1>2
<1>3. ASSUME Fault PROVE faults' \in 0..MaxFaults BY <1>1, <1>3 DEF Fault
<1>4. ASSUME NEW r \in Request, Prepare(r) PROVE sent' = sent /\ (Fault \/ faults' = faults)
  BY <1>4 DEF Prepare
<1>5. ASSUME NEW r \in Request, Withdraw(r)
      PROVE  sent' \subseteq Request /\ (Fault \/ faults' = faults)
  BY <1>1, <1>5 DEF Withdraw
<1>6. ASSUME NEW n \in 1..MaxTx, Mine(n) \/ Inspect(n) PROVE UNCHANGED <<sent, faults>>
  BY <1>6 DEF Mine, Inspect
<1>7. ASSUME NEW u \in User, NEW fee \in UserFees, NEW amount, NEW account,
             \/ DepositToBridge(u, amount, fee, account) \/ TransferOut(u, amount, fee, account)
             \/ ForeignTransfer(u, amount, fee, account)
      PROVE  UNCHANGED <<sent, faults>>
  BY <1>7 DEF DepositToBridge, TransferOut, ForeignTransfer
<1>8. CASE UNCHANGED vars BY <1>2, <1>8 DEF vars
<1> QED BY <1>1, <1>2, <1>3, <1>4, <1>5, <1>6, <1>7, <1>8 DEF Next

-----------------------------------------------------------------------------
(* The invariant                                                            *)

LEMMA WalletInvInit == Init => WalletInv
<1> SUFFICES ASSUME Init PROVE WalletInv
  OBVIOUS
<1> DEFINE t == [ins |-> {}, outs |-> Genesis, for |-> [kind |-> "genesis"]]
<1>1. /\ Genesis \in Seq([to: User, value: Nat, data: {NONE}]) /\ Len(Genesis) <= 3
      /\ MaxTx \in Nat \ {0} /\ MaxFaults \in Nat
  BY WalletAssumption
<1>2. Genesis \in Seq(Output)
  <2>1. \A out \in [to: User, value: Nat, data: {NONE}] : out \in Output
    BY NoneApart DEF Output
  <2>2. \A S, T : S \subseteq T => \A s \in Seq(S) : s \in Seq(T) OBVIOUS
  <2> QED BY <1>1, <2>1, <2>2
<1>3. [kind |-> "genesis"] \in Purpose BY DEF Purpose
<1>4. tx = <<t>> /\ tx \in Seq(Tx) /\ Len(tx) = 1 /\ tx[1] = t
  <2>1. t \in Tx BY <1>2, <1>3 DEF Tx
  <2>2. tx = <<t>> BY DEF Init
  <2> HIDE DEF t, Tx
  <2> QED BY <2>1, <2>2
<1>5. /\ mined = {1} /\ inspected = {1} /\ known = {} /\ sent = {} /\ faults = 0
      /\ credit = [n \in 1..MaxTx |-> NONE] /\ prepared = [r \in Request |-> {}]
      /\ worth = <<>> /\ linked = <<>>
  BY DEF Init
<1>6. t.ins = {} /\ t.outs = Genesis /\ t.for.kind = "genesis" /\ t.for = [kind |-> "genesis"]
  OBVIOUS
<1> HIDE DEF t
<1>7. \A n \in 1..Len(tx) : n = 1 /\ tx[n] = t BY <1>4
<1>8. TypeOK
  <2>1. tx \in Seq([ins: SUBSET OutRef, outs: Seq(Output), for: Purpose]) BY <1>4 DEF Tx
  <2>2. Len(tx) <= MaxTx /\ mined \subseteq 1..Len(tx) /\ inspected \subseteq mined
    BY <1>1, <1>4, <1>5
  <2>3. worth \in [known -> Nat] /\ linked \in [known -> Request \cup {NONE}] BY <1>5
  <2>4. /\ credit \in [1..MaxTx -> [account: EvmAddress, value: Nat] \cup {NONE}]
        /\ prepared \in [Request -> SUBSET OutRef]
    BY <1>5
  <2>5. known \subseteq OutRef /\ sent \subseteq Request /\ faults \in 0..MaxFaults
    BY <1>1, <1>5
  <2> QED BY <2>1, <2>2, <2>3, <2>4, <2>5 DEF TypeOK
<1>9. OutsShort BY <1>1, <1>6, <1>7 DEF OutsShort
<1>10. SpendsInv BY <1>6, <1>7 DEF SpendsInv
<1>11. BridgeSpends BY <1>6, <1>7 DEF BridgeSpends
<1>12. \A r : t.for # [kind |-> "payout", request |-> r]
  <2>1. \A r : [kind |-> "payout", request |-> r].kind = "payout" OBVIOUS
  <2> QED BY <1>6, <2>1
<1>13. PayoutsInv BY <1>7, <1>12 DEF PayoutsInv, Payouts
<1>14. RowsInv /\ PreparedInv BY <1>5 DEF RowsInv, PreparedInv
<1>15. TellsTruth(t)
  <2>1. \A S : \A s \in Seq(S) : Len(s) >= 2 => s[2] \in S OBVIOUS
  <2>3. Len(Genesis) >= 2 => Genesis[2] \in [to: User, value: Nat, data: {NONE}]
    BY <1>1, <2>1
  <2>4. Len(Genesis) >= 2 => Genesis[2].data = NONE BY <2>3
  <2>2. ~MaybeDepositTx(t.outs) BY <1>6, <2>4 DEF MaybeDepositTx
  <2> QED BY <1>6, <2>2 DEF TellsTruth, IsCredited
<1>16. DataInv BY <1>5, <1>7, <1>15 DEF DataInv
<1>17. CreditsRight BY <1>1, <1>4, <1>5, <1>6 DEF CreditsRight
<1> QED BY <1>8, <1>9, <1>10, <1>11, <1>13, <1>14, <1>16, <1>17 DEF WalletInv

\* The invariant, but for the counters, after the node took a transaction.
LEMMA SendsKeeps ==
  ASSUME WalletInv, Sends, sent' \subseteq Request, faults' \in 0..MaxFaults
  PROVE  WalletInv'
<1>0. /\ TypeOK /\ OutsShort /\ SpendsInv /\ BridgeSpends /\ PayoutsInv
      /\ RowsInv /\ PreparedInv /\ DataInv /\ CreditsRight
  BY DEF WalletInv
<1>1. PICK t : Sent(t) /\ (ByUser(t) \/ \E r \in Request : ByBridge(t, r))
  BY DEF Sends
<1>2. UNCHANGED <<mined, inspected, credit, known, worth, linked, prepared>>
  BY DEF Sends, vault
<1>3. PICK N : N = Len(tx) + 1 OBVIOUS
<1>4. /\ Len(tx') = N /\ Len(tx) \in Nat /\ N \in 1..MaxTx
      /\ tx'[N] = t
      /\ \A n \in 1..Len(tx) : tx'[n] = tx[n]
      /\ Refs' = Refs \cup {<<N, i>> : i \in 1..Len(t.outs)}
      /\ \A ref \in Refs : At(ref)' = At(ref)
  BY <1>0, <1>1, <1>3, Grows
<1>5. t \in Tx /\ Len(t.outs) <= 3 /\ t.ins \subseteq Unspent BY <1>1 DEF Sent
<1>6. \A n \in 1..Len(tx') : (n \in 1..Len(tx) /\ tx'[n] = tx[n]) \/ (n = N /\ tx'[n] = t)
  BY <1>3, <1>4
<1>7. TypeOK'
  <2>1. tx' \in Seq([ins: SUBSET OutRef, outs: Seq(Output), for: Purpose])
    <3>1. tx \in Seq(Tx) /\ tx' = Append(tx, t) BY <1>0, <1>1 DEF TypeOK, Sent, Tx
    <3> HIDE DEF Tx
    <3>2. tx' \in Seq(Tx) BY <1>5, <3>1
    <3> QED BY <3>2 DEF Tx
  <2>2. Len(tx') <= MaxTx BY <1>4, MaxTxNat
  <2>3. mined' \subseteq 1..Len(tx')
    <3>1. mined \subseteq 1..Len(tx) BY <1>0 DEF TypeOK
    <3> QED BY <1>2, <1>3, <1>4, <3>1
  <2> QED BY <1>0, <1>2, <2>1, <2>2, <2>3 DEF TypeOK
<1>8. OutsShort' BY <1>0, <1>5, <1>6 DEF OutsShort
<1>9. SpendsInv'
  <2>1. \A n \in 1..Len(tx) : tx[n].ins \cap t.ins = {} BY <1>5 DEF Unspent
  <2>2. t.ins \subseteq Refs' BY <1>4, <1>5 DEF Unspent
  <2>3. \A n \in 1..Len(tx) : tx[n].ins \subseteq Refs' BY <1>0, <1>4 DEF SpendsInv
  <2>4. \A n \in 1..Len(tx') : tx'[n].ins \subseteq Refs' BY <1>6, <2>2, <2>3
  <2>5. ASSUME NEW m \in 1..Len(tx'), NEW n \in 1..Len(tx'), m # n
        PROVE  tx'[m].ins \cap tx'[n].ins = {}
    BY <1>0, <1>6, <2>1, <2>5 DEF SpendsInv
  <2> QED BY <2>4, <2>5 DEF SpendsInv
<1>10. ASSUME NEW r \in Request
       PROVE  /\ Payouts(r) \subseteq Payouts(r)'
              /\ \A n \in Payouts(r)' :
                   n \in Payouts(r) \/ (n = N /\ t.for = [kind |-> "payout", request |-> r])
              /\ t.for = [kind |-> "payout", request |-> r] => N \in Payouts(r)'
  <2>1. 1..Len(tx) \subseteq 1..Len(tx') /\ N \in 1..Len(tx') BY <1>3, <1>4
  <2> QED BY <1>4, <1>6, <2>1 DEF Payouts
<1>11. BridgeSpends'
  <2> SUFFICES ASSUME NEW n \in 1..Len(tx'), NEW ref \in tx'[n].ins, At(ref)'.to = Bridge
               PROVE  \E r \in Request : n \in Payouts(r)' /\ ref \in prepared'[r]
    BY DEF BridgeSpends
  <2>1. CASE n \in 1..Len(tx) /\ tx'[n] = tx[n]
    <3>1. ref \in tx[n].ins /\ ref \in Refs BY <1>0, <2>1 DEF SpendsInv
    <3>2. At(ref).to = Bridge BY <1>4, <3>1
    <3>3. PICK r \in Request : n \in Payouts(r) /\ ref \in prepared[r]
      BY <1>0, <2>1, <3>1, <3>2 DEF BridgeSpends
    <3> QED BY <1>2, <1>10, <3>3
  <2>2. CASE n = N /\ tx'[n] = t
    <3>1. ref \in t.ins /\ ref \in Refs BY <1>5, <2>2 DEF Unspent
    <3>2. At(ref).to = Bridge BY <1>4, <3>1
    <3>3. PICK r \in Request : ByBridge(t, r) BY <1>1, <3>1, <3>2 DEF ByUser
    <3>4. N \in Payouts(r)' /\ ref \in prepared[r] BY <1>10, <3>1, <3>3 DEF ByBridge
    <3> QED BY <1>2, <2>2, <3>4
  <2> QED BY <1>6, <2>1, <2>2
<1>12. PayoutsInv'
  <2> SUFFICES ASSUME NEW r \in Request, NEW n \in Payouts(r)'
               PROVE  /\ prepared'[r] # {} /\ tx'[n].ins = prepared'[r]
                      /\ tx'[n].outs[1] = Pay(RedeemReceiver[r], RedeemAmount[r])
    BY DEF PayoutsInv
  <2>1. CASE n \in Payouts(r)
    <3>1. n \in 1..Len(tx) BY <2>1 DEF Payouts
    <3> QED BY <1>0, <1>2, <1>4, <2>1, <3>1 DEF PayoutsInv
  <2>2. CASE n = N /\ t.for = [kind |-> "payout", request |-> r]
    <3>1. PICK q \in Request : ByBridge(t, q) BY <1>1, <2>2 DEF ByUser
    <3>2. t.for.request = r /\ t.for.request = q
      <4>1. t.for = [kind |-> "payout", request |-> q] BY <3>1 DEF ByBridge
      <4> QED BY <2>2, <4>1
    <3> QED BY <1>2, <1>4, <2>2, <3>1, <3>2 DEF ByBridge
  <2> QED BY <1>10, <2>1, <2>2
<1>13. RowsInv'
  <2>1. \A ref \in known : ref \in Refs /\ ref \in Refs' /\ At(ref)' = At(ref)
    BY <1>0, <1>4 DEF RowsInv
  <2> QED BY <1>0, <1>2, <2>1 DEF RowsInv
<1>14. PreparedInv' BY <1>0, <1>2 DEF PreparedInv, SafeAmount
<1>15. DataInv'
  <2>1. TellsTruth(t) BY <1>1 DEF ByUser, ByBridge
  <2>2. \A n \in 1..Len(tx) : TellsTruth(tx[n]) BY <1>0 DEF DataInv
  <2>3. \A n \in 1..Len(tx') : TellsTruth(tx'[n]) BY <1>6, <2>1, <2>2
  <2> QED BY <1>0, <1>2, <2>3 DEF DataInv, TellsTruth
<1>16. CreditsRight'
  <2>1. inspected \subseteq 1..Len(tx) BY <1>0 DEF TypeOK
  <2> QED BY <1>0, <1>2, <1>4, <2>1 DEF CreditsRight
<1> QED BY <1>7, <1>8, <1>9, <1>11, <1>12, <1>13, <1>14, <1>15, <1>16 DEF WalletInv

\* The monitor inspects a transaction: new rows and a credit, once.
LEMMA InspectKeeps ==
  ASSUME WalletInv, NEW n \in 1..MaxTx, Inspect(n),
         sent' \subseteq Request, faults' \in 0..MaxFaults
  PROVE  WalletInv'
<1>0. /\ TypeOK /\ OutsShort /\ SpendsInv /\ BridgeSpends /\ PayoutsInv
      /\ RowsInv /\ PreparedInv /\ DataInv /\ CreditsRight
  BY DEF WalletInv
<1> DEFINE new == Transfers(n) \ known
<1>1. /\ n \in mined /\ inspected' = inspected \cup {n} /\ credit' = Credited(n)
      /\ known' = known \cup new
      /\ worth' = [ref \in known' |-> IF ref \in new THEN At(ref).value ELSE worth[ref]]
      /\ linked' = [ref \in known' |-> IF ref \in new THEN NONE ELSE linked[ref]]
      /\ UNCHANGED <<tx, mined, prepared>>
  BY DEF Inspect, node
<1>2. n \in 1..Len(tx) /\ mined \subseteq 1..Len(tx) /\ inspected \subseteq mined
  BY <1>0, <1>1 DEF TypeOK
<1>3. tx[n].outs \in Seq(Output) /\ tx[n].for \in Purpose BY <1>0, <1>2, TxTyped
<1>4. \A ref \in new : ref \in Refs /\ At(ref).to = Bridge /\ ref \notin known
  <2> SUFFICES ASSUME NEW v \in DOMAIN tx[n].outs, PaysBridge(tx[n].outs[v])
               PROVE  <<n, v>> \in Refs /\ At(<<n, v>>).to = Bridge
    BY DEF Transfers
  <2>1. v \in 1..Len(tx[n].outs) /\ v \in Nat BY <1>3
  <2>2. Len(tx[n].outs) \in Nat /\ Len(tx[n].outs) <= 3 BY <1>0, <1>2, <1>3 DEF OutsShort
  <2>3. v \in 1..3 BY <2>1, <2>2
  <2>4. <<n, v>> \in OutRef /\ <<n, v>>[1] = n /\ <<n, v>>[2] = v BY <2>3 DEF OutRef
  <2>5. \A ref : ref[1] = n /\ ref[2] = v => At(ref) = tx[n].outs[v] BY DEF At
  <2>6. n <= Len(tx) /\ v <= Len(tx[n].outs) BY <1>2, <2>1
  <2> QED BY <2>4, <2>5, <2>6 DEF Refs, PaysBridge
<1>5. \A ref \in new : ref \in OutRef /\ At(ref).value \in Nat
  BY <1>0, <1>4, ValueType DEF Output
<1> HIDE DEF new
<1>6. \A ref \in known : ref \notin new /\ ref \in known' /\ worth'[ref] = worth[ref]
                         /\ linked'[ref] = linked[ref]
  BY <1>1, <1>4
<1>7. credit' \in [1..MaxTx -> [account: EvmAddress, value: Nat] \cup {NONE}]
  <2>1. CASE credit' = credit BY <1>0, <2>1 DEF TypeOK
  <2>2. CASE credit' # credit
    <3>1. /\ IsCredited(tx[n]) /\ credit' = [credit EXCEPT ![n] = CreditOf(tx[n])]
      BY <1>1, <2>2 DEF Credited, IsCredited, CreditOf
    <3>2. tx[n].for.kind = "deposit"
          /\ CreditOf(tx[n]) = [account |-> EvmAddrToByteArray(tx[n].for.account),
                                value |-> tx[n].for.value]
      BY <1>0, <1>2, <3>1 DEF DataInv, TellsTruth
    <3>3. EvmAddrToByteArray(tx[n].for.account) \in EvmAddress /\ tx[n].for.value \in Nat
      <4>1. tx[n].for.account \in Account /\ tx[n].for.value \in Nat
        BY <1>3, <3>2 DEF Purpose
      <4> QED BY <4>1, DataFacts
    <3> QED BY <1>0, <3>1, <3>2, <3>3 DEF TypeOK
  <2> QED BY <2>1, <2>2
<1>8. TypeOK'
  <2>1. known' \subseteq OutRef BY <1>0, <1>1, <1>5 DEF TypeOK
  <2>2. worth' \in [known' -> Nat]
    <3>1. \A ref \in known' : ref \in new \/ (ref \notin new /\ ref \in known) BY <1>1
    <3>2. \A ref \in known : worth[ref] \in Nat BY <1>0 DEF TypeOK
    <3> QED BY <1>1, <1>5, <3>1, <3>2
  <2>3. linked' \in [known' -> Request \cup {NONE}]
    <3>1. \A ref \in known' : ref \in new \/ (ref \notin new /\ ref \in known) BY <1>1
    <3>2. \A ref \in known : linked[ref] \in Request \cup {NONE} BY <1>0 DEF TypeOK
    <3> QED BY <1>1, <3>1, <3>2
  <2>4. inspected' \subseteq mined' BY <1>1, <1>2
  <2> QED BY <1>0, <1>1, <1>7, <2>1, <2>2, <2>3, <2>4 DEF TypeOK
<1>9. OutsShort' /\ SpendsInv' /\ BridgeSpends' /\ PayoutsInv'
  BY <1>0, <1>1 DEF OutsShort, SpendsInv, BridgeSpends, PayoutsInv, Payouts, Refs, At
<1>10. RowsInv'
  <2> SUFFICES ASSUME NEW ref \in known'
               PROVE  ref \in Refs' /\ At(ref)'.to = Bridge /\ At(ref)'.value = worth'[ref]
    BY DEF RowsInv
  <2>1. At(ref)' = At(ref) /\ Refs' = Refs BY <1>1 DEF At, Refs
  <2>2. CASE ref \in new BY <1>1, <1>4, <2>1, <2>2
  <2>3. CASE ref \in known BY <1>0, <1>6, <2>1, <2>3 DEF RowsInv
  <2> QED BY <1>1, <2>2, <2>3
<1>11. PreparedInv'
  <2> SUFFICES ASSUME NEW r \in Request
               PROVE  /\ \A ref \in prepared'[r] : ref \in known' /\ linked'[ref] = r
                      /\ prepared'[r] # {} => SumOver(worth', prepared'[r]) >= SafeAmount(r)
    BY DEF PreparedInv, SafeAmount
  <2>1. \A ref \in prepared[r] : ref \in known /\ linked[ref] = r
    BY <1>0 DEF PreparedInv
  <2>2. SumOver(worth', prepared[r]) = SumOver(worth, prepared[r])
    <3>1. prepared[r] \in SUBSET known BY <2>1
    <3>2. IsFiniteSet(prepared[r]) BY <1>0, <3>1, RowsType
    <3>3. \A ref \in prepared[r] : worth[ref] \in Int /\ worth[ref] = worth'[ref]
      BY <1>0, <1>6, <3>1 DEF TypeOK
    <3> QED BY <3>2, <3>3, SumSame
  <2> QED BY <1>0, <1>1, <1>6, <2>1, <2>2 DEF PreparedInv
<1>12. /\ \A m \in 1..MaxTx : m # n => credit'[m] = credit[m]
       /\ credit[n] # NONE => credit'[n] = credit[n]
  BY <1>0, <1>1 DEF Credited, TypeOK
<1>13. DataInv'
  <2>1. \A m \in 1..Len(tx') : TellsTruth(tx'[m]) BY <1>0, <1>1 DEF DataInv
  <2>2. \A m \in 1..MaxTx : credit'[m] # NONE => m \in inspected'
    BY <1>0, <1>1, <1>12 DEF DataInv
  <2> QED BY <2>1, <2>2 DEF DataInv, TellsTruth
<1>14. CreditsRight'
  <2> SUFFICES ASSUME NEW m \in inspected'
               PROVE  credit'[m] = IF tx[m].for.kind = "deposit"
                        THEN [account |-> EvmAddrToByteArray(tx[m].for.account),
                              value |-> tx[m].for.value]
                        ELSE NONE
    BY <1>1 DEF CreditsRight, EvmAddrToByteArray
  <2>0. m \in 1..MaxTx BY <1>0, <1>1, <1>2, MaxTxNat DEF TypeOK
  <2>1. CASE m # n \/ credit[m] # NONE
    <3>1. m \in inspected /\ credit'[m] = credit[m]
      BY <1>0, <1>1, <1>12, <2>0, <2>1 DEF DataInv
    <3> QED BY <1>0, <3>1 DEF CreditsRight
  <2>2. CASE m = n /\ credit[m] = NONE
    <3>1. credit' = IF IsCredited(tx[n]) THEN [credit EXCEPT ![n] = CreditOf(tx[n])] ELSE credit
      BY <1>1, <2>2 DEF Credited, IsCredited, CreditOf
    <3>2. TellsTruth(tx[n]) BY <1>0, <1>2 DEF DataInv
    <3>3. n \in DOMAIN credit BY <1>0 DEF TypeOK
    <3> QED BY <2>2, <3>1, <3>2, <3>3 DEF TellsTruth
  <2> QED BY <2>1, <2>2
<1> QED BY <1>8, <1>9, <1>10, <1>11, <1>13, <1>14 DEF WalletInv

\* A redeem is given rows: free ones, which nothing was given before.
LEMMA PrepareKeeps ==
  ASSUME WalletInv, NEW r \in Request, Prepare(r),
         sent' \subseteq Request, faults' \in 0..MaxFaults
  PROVE  WalletInv'
<1>0. /\ TypeOK /\ OutsShort /\ SpendsInv /\ BridgeSpends /\ PayoutsInv
      /\ RowsInv /\ PreparedInv /\ DataInv /\ CreditsRight
  BY DEF WalletInv
<1>1. PICK S \in SUBSET Free :
        /\ Enough(S, SafeAmount(r))
        /\ linked' = [ref \in known |-> IF ref \in S THEN r ELSE linked[ref]]
        /\ prepared' = [prepared EXCEPT ![r] = S] \/ UNCHANGED prepared
  BY DEF Prepare
<1>2. /\ prepared[r] = {}
      /\ UNCHANGED <<tx, mined, inspected, credit, known, worth>>
  BY DEF Prepare, node
<1>3. S \subseteq known /\ \A ref \in S : linked[ref] = NONE BY <1>1 DEF Free
<1>4. SumOver(worth, S) >= SafeAmount(r)
  <2>1. Rows(S) >= SafeAmount(r) BY <1>1 DEF Enough
  <2> QED BY <2>1, RowsIsSum
<1>5. \A q \in Request : prepared'[q] = prepared[q] \/ (q = r /\ prepared'[q] = S)
  BY <1>0, <1>1 DEF TypeOK
<1>6. \A q \in Request : prepared[q] # {} => prepared'[q] = prepared[q] BY <1>2, <1>5
<1>7. TypeOK'
  <2>1. linked' \in [known' -> Request \cup {NONE}]
    <3>1. \A ref \in known : linked[ref] \in Request \cup {NONE} BY <1>0 DEF TypeOK
    <3> QED BY <1>1, <1>2, <3>1
  <2>2. prepared' \in [Request -> SUBSET OutRef] BY <1>0, <1>1, <1>3 DEF TypeOK
  <2> QED BY <1>0, <1>2, <2>1, <2>2 DEF TypeOK
<1>8. OutsShort' /\ SpendsInv' /\ RowsInv' /\ DataInv' /\ CreditsRight'
  BY <1>0, <1>2 DEF OutsShort, SpendsInv, RowsInv, DataInv, CreditsRight, Refs, At, TellsTruth
<1>9. \A q \in Request : Payouts(q)' = Payouts(q) BY <1>2 DEF Payouts
<1>10. BridgeSpends'
  <2> SUFFICES ASSUME NEW n \in 1..Len(tx'), NEW ref \in tx'[n].ins, At(ref)'.to = Bridge
               PROVE  \E q \in Request : n \in Payouts(q)' /\ ref \in prepared'[q]
    BY DEF BridgeSpends
  <2>1. n \in 1..Len(tx) /\ ref \in tx[n].ins /\ At(ref).to = Bridge BY <1>2 DEF At
  <2>2. PICK q \in Request : n \in Payouts(q) /\ ref \in prepared[q]
    BY <1>0, <2>1 DEF BridgeSpends
  <2> QED BY <1>6, <1>9, <2>2
<1>11. PayoutsInv'
  <2> SUFFICES ASSUME NEW q \in Request, NEW n \in Payouts(q)'
               PROVE  /\ prepared'[q] # {} /\ tx'[n].ins = prepared'[q]
                      /\ tx'[n].outs[1] = Pay(RedeemReceiver[q], RedeemAmount[q])
    BY DEF PayoutsInv
  <2> QED BY <1>0, <1>2, <1>6, <1>9 DEF PayoutsInv
<1>12. PreparedInv'
  <2> SUFFICES ASSUME NEW q \in Request
               PROVE  /\ \A ref \in prepared'[q] : ref \in known' /\ linked'[ref] = q
                      /\ prepared'[q] # {} => SumOver(worth', prepared'[q]) >= SafeAmount(q)
    BY DEF PreparedInv, SafeAmount
  <2>1. CASE prepared'[q] = prepared[q]
    <3>1. \A ref \in prepared[q] : ref \in known /\ linked[ref] = q BY <1>0 DEF PreparedInv
    <3>2. \A ref \in prepared[q] : ref \notin S BY <1>3, <3>1, NoneApart
    <3>3. \A ref \in prepared[q] : linked'[ref] = q BY <1>1, <3>1, <3>2
    <3> QED BY <1>0, <1>2, <2>1, <3>1, <3>3 DEF PreparedInv
  <2>2. CASE q = r /\ prepared'[q] = S BY <1>1, <1>2, <1>3, <1>4, <2>2
  <2> QED BY <1>5, <2>1, <2>2
<1> QED BY <1>7, <1>8, <1>10, <1>11, <1>12 DEF WalletInv

LEMMA WalletInvNext == WalletInv /\ [Next]_vars => WalletInv'
<1> SUFFICES ASSUME WalletInv, [Next]_vars PROVE WalletInv'
  OBVIOUS
<1>0. TypeOK /\ PreparedInv BY DEF WalletInv
<1>1. sent' \subseteq Request /\ faults' \in 0..MaxFaults BY <1>0, CountersTyped
<1>2. CASE Sends BY <1>1, <1>2, SendsKeeps
<1>k. ASSUME UNCHANGED <<tx, inspected, credit, known, worth, linked, prepared>>,
             mined \subseteq mined', mined' \subseteq 1..Len(tx)
      PROVE  WalletInv'
  <2>1. TypeOK' BY <1>0, <1>1, <1>k DEF TypeOK
  <2>2. OutsShort' /\ SpendsInv' /\ BridgeSpends' /\ PayoutsInv'
    BY <1>k DEF WalletInv, OutsShort, SpendsInv, BridgeSpends, PayoutsInv, Payouts, Refs, At
  <2>3. RowsInv' /\ PreparedInv'
    BY <1>k DEF WalletInv, RowsInv, PreparedInv, SafeAmount, Refs, At
  <2>4. DataInv' /\ CreditsRight'
    BY <1>k DEF WalletInv, DataInv, CreditsRight, TellsTruth
  <2> QED BY <2>1, <2>2, <2>3, <2>4 DEF WalletInv
<1>3. ASSUME NEW n \in 1..MaxTx, Mine(n) PROVE WalletInv'
  BY <1>0, <1>3, <1>k DEF Mine, vault, TypeOK
<1>4. ASSUME NEW n \in 1..MaxTx, Inspect(n) PROVE WalletInv'
  BY <1>1, <1>4, InspectKeeps
<1>5. ASSUME NEW r \in Request, Prepare(r) PROVE WalletInv'
  BY <1>1, <1>5, PrepareKeeps
<1>6. CASE UNCHANGED money BY <1>0, <1>6, <1>k DEF money, vault, TypeOK
<1> QED BY <1>0, <1>2, <1>3, <1>4, <1>5, <1>6, WalletSteps

LEMMA WalletInvariant == Spec => []WalletInv
BY WalletInvInit, WalletInvNext, PTL DEF Spec

\* The wallet's tables keep their types: no change output is negative, no
\* transaction spends an output that does not exist.
THEOREM WalletTypeCorrect == Spec => []TypeOK
<1>1. WalletInv => TypeOK BY DEF WalletInv
<1> QED BY <1>1, WalletInvariant, PTL

\* For any number of users, redeems and faults: a redeem is paid once, in full
\* and to its receiver, however often its payout is built and sent.
THEOREM WalletPaidOnce == Spec => []PaidOnce
<1>1. WalletInv => PaidOnce
  <2> SUFFICES ASSUME WalletInv, NEW r \in Request
               PROVE  /\ \A m, n \in Payouts(r) : m = n
                      /\ \A n \in Payouts(r) :
                           tx[n].outs[1] = Pay(RedeemReceiver[r], RedeemAmount[r])
    BY DEF PaidOnce
  <2>1. \A n \in Payouts(r) : n \in 1..Len(tx) /\ prepared[r] # {} /\ tx[n].ins = prepared[r]
    BY DEF WalletInv, PayoutsInv, Payouts
  <2>2. \A m, n \in Payouts(r) : m = n BY <2>1 DEF WalletInv, SpendsInv
  <2> QED BY <2>2 DEF WalletInv, PayoutsInv
<1> QED BY <1>1, WalletInvariant, PTL

\* A row is spent only by the payout of the redeem it is linked to.
LEMMA RowsSpent ==
  ASSUME WalletInv, NEW ref \in known, ref \notin Unspent
  PROVE  linked[ref] \in Request /\ Payouts(linked[ref]) # {}
<1>1. ref \in Refs /\ At(ref).to = Bridge BY DEF WalletInv, RowsInv
<1>2. PICK n \in 1..Len(tx) : ref \in tx[n].ins BY <1>1 DEF Unspent
<1>3. PICK r \in Request : n \in Payouts(r) /\ ref \in prepared[r]
  BY <1>1, <1>2 DEF WalletInv, BridgeSpends
<1>4. linked[ref] = r BY <1>3 DEF WalletInv, PreparedInv
<1> QED BY <1>3, <1>4

\* Whatever the vault may still give to a redeem is an unspent output of the
\* bridge with the value of its row.
THEOREM WalletFreeRowsUnspent == Spec => []FreeRowsUnspent
<1>1. WalletInv => FreeRowsUnspent
  <2> SUFFICES ASSUME WalletInv, NEW ref \in Free
               PROVE  ref \in Unspent /\ At(ref).to = Bridge /\ At(ref).value = worth[ref]
    BY DEF FreeRowsUnspent
  <2>1. ref \in known /\ linked[ref] \notin Request BY NoneApart DEF Free
  <2> QED BY <2>1, RowsSpent DEF WalletInv, RowsInv
<1> QED BY <1>1, WalletInvariant, PTL

\* A prepared redeem that was not paid can be paid, for every SAFE_MARGIN that
\* covers BTC_TX_FEE: its outpoints are unspent, are the bridge's, and enough.
THEOREM WalletPayable == Spec => []Payable
<1>1. WalletInv => Payable
  <2> SUFFICES ASSUME WalletInv, NEW r \in Request, prepared[r] # {}, Payouts(r) = {}
               PROVE  /\ prepared[r] \subseteq Unspent
                      /\ \A ref \in prepared[r] : At(ref).to = Bridge
                      /\ Value(prepared[r]) >= RedeemAmount[r] + BtcTxFee
    BY DEF Payable
  <2>1. \A ref \in prepared[r] : ref \in known /\ linked[ref] = r
    BY DEF WalletInv, PreparedInv
  <2>2. prepared[r] \subseteq Unspent BY <2>1, RowsSpent
  <2>3. \A ref \in prepared[r] : At(ref).to = Bridge /\ At(ref).value = worth[ref]
    BY <2>1 DEF WalletInv, RowsInv
  <2>4. PICK S : S = prepared[r] OBVIOUS
  <2>5. S \in SUBSET known /\ S \in SUBSET OutRef /\ S \subseteq Refs
    BY <2>1, <2>2, <2>4 DEF WalletInv, TypeOK, Unspent
  <2>6. Value(S) = SumOver(worth, S)
    <3>1. \A ref \in S : ValueIn(tx)[ref] = worth[ref] /\ worth[ref] \in Nat
      BY <2>3, <2>4, <2>5 DEF ValueIn, At, WalletInv, TypeOK
    <3>2. IsFiniteSet(S) BY <2>5, OutRefFinite
    <3>3. SumOver(ValueIn(tx), S) = SumOver(worth, S)
      <4>1. \A ref \in S : ValueIn(tx)[ref] \in Int /\ ValueIn(tx)[ref] = worth[ref] BY <3>1
      <4> QED BY <3>2, <4>1, SumSame
    <3> QED BY <2>5, <3>3, ValueIsSum
  <2>7. SumOver(worth, S) >= RedeemAmount[r] + SafeMargin
    BY <2>4 DEF WalletInv, PreparedInv, SafeAmount
  <2>8. /\ RedeemAmount[r] \in Nat /\ SafeMargin \in Nat /\ BtcTxFee \in Nat
        /\ BtcTxFee <= SafeMargin
    BY WalletAssumption
  <2>9. Value(S) \in Nat
    <3>1. TypeOK BY DEF WalletInv
    <3> QED BY <2>5, <3>1, ValueType
  <2>10. Value(S) >= RedeemAmount[r] + BtcTxFee BY <2>6, <2>7, <2>8, <2>9
  <2> QED BY <2>2, <2>3, <2>4, <2>10
<1> QED BY <1>1, WalletInvariant, PTL

\* Deposits are credited in the amount their users chose and to the 20 bytes that
\* EvmAddrToByteArray makes of the account they named, through repeated scans;
\* nothing else that pays the bridge is credited, whatever data it carries.
THEOREM WalletCreditsRight == Spec => []CreditsRight
<1>1. WalletInv => CreditsRight BY DEF WalletInv
<1> QED BY <1>1, WalletInvariant, PTL

\* Who names a 20-byte address is credited under this very address.  (Of two
\* 32-byte addresses with the same last 20 bytes nothing like it holds.)
ShortReceiverCredited ==
  \A n \in inspected :
    tx[n].for.kind = "deposit" /\ tx[n].for.account \in EvmAddress =>
      credit[n] = [account |-> tx[n].for.account, value |-> tx[n].for.value]

\* The conversion of the receiver is harmless for Ethereum addresses.
THEOREM WalletShortReceiver == Spec => []ShortReceiverCredited
<1>1. WalletInv => ShortReceiverCredited
  <2> SUFFICES ASSUME WalletInv, NEW n \in inspected, tx[n].for.kind = "deposit",
                      tx[n].for.account \in EvmAddress
               PROVE  credit[n] = [account |-> tx[n].for.account, value |-> tx[n].for.value]
    BY DEF ShortReceiverCredited
  <2>1. tx[n].for \in Purpose BY TxTyped DEF WalletInv, TypeOK
  <2>2. tx[n].for.account \in Account BY <2>1 DEF Purpose
  <2>3. EvmAddrToByteArray(tx[n].for.account) = tx[n].for.account
    BY <2>2, WalletAssumption DEF EvmAddrToByteArray
  <2> QED BY <2>3 DEF WalletInv, CreditsRight
<1> QED BY <1>1, WalletInvariant, PTL

-----------------------------------------------------------------------------
(* The bridge's money                                                       *)

\* The outputs the bridge can spend.
Held == {ref \in Unspent : At(ref).to = Bridge}

FundsInv == SumOver(ValueIn(tx), Held) = SumOver(ReceivedIn(tx), 1..Len(tx))

LEMMA ReceivedType == ASSUME NEW for \in Purpose PROVE Received(for) \in Int
<1>1. CASE for \in [kind: {"genesis"}]
  <2>1. for.kind = "genesis" BY <1>1
  <2> QED BY <2>1 DEF Received
<1>2. CASE for \in [kind: {"deposit"}, value: Nat, fee: Nat, account: Account]
  <2>1. for.kind = "deposit" /\ for.value \in Nat BY <1>2
  <2> QED BY <2>1 DEF Received
<1>3. CASE for \in [kind: {"transfer"}, value: Nat, fee: Nat, to: Address]
  <2>1. for.kind = "transfer" /\ for.value \in Nat BY <1>3
  <2> QED BY <2>1 DEF Received
<1>4. CASE for \in [kind: {"payout"}, request: Request]
  <2>1. for.kind = "payout" /\ for.request \in Request BY <1>4
  <2>2. RedeemAmount[for.request] \in Nat /\ BtcTxFee \in Nat BY <2>1, WalletAssumption
  <2>3. CASE RedeemReceiver[for.request] = Bridge BY <2>1, <2>2, <2>3 DEF Received
  <2>4. CASE RedeemReceiver[for.request] # Bridge BY <2>1, <2>2, <2>4 DEF Received
  <2> QED BY <2>3, <2>4
<1> QED BY <1>1, <1>2, <1>3, <1>4 DEF Purpose

LEMMA FundsAreSums == TypeOK /\ FundsInv => FundsBalance
<1> SUFFICES ASSUME TypeOK, FundsInv PROVE FundsBalance
  OBVIOUS
<1>1. Held \in SUBSET OutRef BY DEF Held, Unspent, Refs
<1>2. Value(Held) = SumOver(ValueIn(tx), Held)
  <2>1. \A S \in SUBSET OutRef : Value(S) = SumOver(ValueIn(tx), S) BY ValueIsSum
  <2> QED BY <1>1, <2>1
<1>3. 1..Len(tx) \in SUBSET (1..MaxTx)
  <2>1. Len(tx) \in Nat /\ Len(tx) <= MaxTx BY DEF TypeOK
  <2> QED BY <2>1, MaxTxNat
<1>4. MapThenSumSet(LAMBDA n : Received(tx[n].for), 1..Len(tx))
        = SumOver(ReceivedIn(tx), 1..Len(tx))
  BY <1>3, ReceivedInIsSum
<1> QED BY <1>2, <1>4 DEF FundsInv, FundsBalance, Held

\* The outputs of the next transaction that pay the bridge are worth Brings.
LEMMA BringsIsSum ==
  ASSUME TypeOK, SpendsInv, NEW t, Sent(t), NEW N, N = Len(tx) + 1, NEW new,
         new = {<<N, i>> : i \in {i \in 1..Len(t.outs) : t.outs[i].to = Bridge}}
  PROVE  SumOver(ValueIn(tx'), new) = Brings(t)
<1>1. /\ t.outs \in Seq(Output) /\ Len(t.outs) \in Nat /\ Len(t.outs) <= 3
  <2>1. t \in Tx /\ Len(t.outs) <= 3 BY DEF Sent
  <2>2. t.outs \in Seq(Output) BY <2>1 DEF Tx
  <2> QED BY <2>1, <2>2
<1> DEFINE v == ValueIn(tx')
           pays(i) == i <= Len(t.outs) /\ t.outs[i].to = Bridge
           one(i) == IF pays(i) THEN {<<N, i>>} ELSE {}
<1>2. \A i \in 1..Len(t.outs) :
        At(<<N, i>>)' = t.outs[i] /\ <<N, i>> \notin Refs /\ <<N, i>> \in OutRef
  BY Grows
<1>3. ASSUME NEW i \in 1..3
      PROVE  SumOver(v, one(i)) = Part(t, i) /\ Part(t, i) \in Int
             /\ IsFiniteSet(one(i)) /\ \A x \in one(i) : v[x] \in Int
  <2>1. CASE pays(i)
    <3>1. i \in 1..Len(t.outs) BY <1>1, <2>1
    <3>2. v[<<N, i>>] = t.outs[i].value BY <1>2, <3>1 DEF ValueIn, At
    <3>3. t.outs[i].value \in Nat
      <4>1. t.outs[i] \in Output BY <1>1, <3>1
      <4> QED BY <4>1 DEF Output
    <3>4. one(i) = {<<N, i>>} /\ Part(t, i) = t.outs[i].value BY <2>1 DEF Part
    <3> HIDE DEF v, one
    <3>5. SumOver(v, {<<N, i>>}) = v[<<N, i>>]
      <4>1. PICK x : x = <<N, i>> OBVIOUS
      <4>2. v[x] \in Int BY <3>2, <3>3, <4>1
      <4>3. SumOver(v, {x}) = v[x] BY <4>2, SumOne
      <4> QED BY <4>1, <4>3
    <3>6. IsFiniteSet({<<N, i>>}) BY FS_Singleton
    <3> QED BY <3>2, <3>3, <3>4, <3>5, <3>6
  <2>2. CASE ~pays(i)
    <3>1. one(i) = {} /\ Part(t, i) = 0 BY <2>2 DEF Part
    <3> HIDE DEF v, one
    <3>2. SumOver(v, {}) = 0 /\ IsFiniteSet({}) BY SumEmpty, FS_EmptySet
    <3> QED BY <3>1, <3>2
  <2> QED BY <2>1, <2>2
<1>4. one(1) \cap one(2) = {} /\ (one(1) \cup one(2)) \cap one(3) = {} OBVIOUS
<1>5. new = (one(1) \cup one(2)) \cup one(3)
  <2>1. \A i \in 1..Len(t.outs) : i = 1 \/ i = 2 \/ i = 3 BY <1>1
  <2>2. \A i \in {1, 2, 3} : i <= Len(t.outs) => i \in 1..Len(t.outs) BY <1>1
  <2>3. ASSUME NEW i \in 1..Len(t.outs), t.outs[i].to = Bridge
        PROVE  <<N, i>> \in (one(1) \cup one(2)) \cup one(3)
    <3>1. pays(i) /\ <<N, i>> \in one(i) BY <1>1, <2>3
    <3> HIDE DEF one
    <3> QED BY <2>1, <3>1
  <2>4. ASSUME NEW i \in {1, 2, 3}, NEW x \in one(i) PROVE x \in new
    <3>1. pays(i) /\ x = <<N, i>> BY <2>4
    <3>2. i \in 1..Len(t.outs) BY <2>2, <3>1
    <3> QED BY <3>1, <3>2
  <2>5. new \subseteq (one(1) \cup one(2)) \cup one(3) BY <2>3
  <2> HIDE DEF one
  <2> QED BY <2>4, <2>5
<1>6. 1 \in 1..3 /\ 2 \in 1..3 /\ 3 \in 1..3 OBVIOUS
<1>7. PICK a, b, c : a = one(1) /\ b = one(2) /\ c = one(3) OBVIOUS
<1>8. /\ SumOver(v, a) = Part(t, 1) /\ SumOver(v, b) = Part(t, 2) /\ SumOver(v, c) = Part(t, 3)
      /\ Part(t, 1) \in Int /\ Part(t, 2) \in Int /\ Part(t, 3) \in Int
      /\ IsFiniteSet(a) /\ IsFiniteSet(b) /\ IsFiniteSet(c)
      /\ \A x \in (a \cup b) \cup c : v[x] \in Int
  BY <1>3, <1>6, <1>7
<1>9. a \cap b = {} /\ (a \cup b) \cap c = {} /\ new = (a \cup b) \cup c BY <1>4, <1>5, <1>7
<1> HIDE DEF v, one
<1>10. SumOver(v, a \cup b) = SumOver(v, a) + SumOver(v, b) BY <1>8, <1>9, SumUnion
<1>11. IsFiniteSet(a \cup b) BY <1>8, FS_Union
<1>12. SumOver(v, (a \cup b) \cup c) = SumOver(v, a \cup b) + SumOver(v, c)
  BY <1>8, <1>9, <1>11, SumUnion
<1>13. SumOver(v, new) = Brings(t) BY <1>8, <1>9, <1>10, <1>12 DEF Brings
<1> QED BY <1>13 DEF v

\* What the node's new list says the bridge received.
LEMMA ReceivedGrows ==
  ASSUME TypeOK, SpendsInv, NEW t, Sent(t)
  PROVE  /\ SumOver(ReceivedIn(tx'), 1..Len(tx'))
              = Received(t.for) + SumOver(ReceivedIn(tx), 1..Len(tx))
         /\ SumOver(ReceivedIn(tx), 1..Len(tx)) \in Int /\ Received(t.for) \in Int
<1>1. PICK N : N = Len(tx) + 1 OBVIOUS
<1>2. /\ Len(tx') = N /\ Len(tx) \in Nat /\ N \in 1..MaxTx /\ tx'[N] = t
      /\ \A n \in 1..Len(tx) : tx'[n] = tx[n]
  BY <1>1, Grows
<1>3. PICK old : old = 1..Len(tx) OBVIOUS
<1>4. /\ 1..Len(tx') = old \cup {N} /\ N \notin old /\ old \subseteq 1..MaxTx
  BY <1>1, <1>2, <1>3, MaxTxNat
<1>5. IsFiniteSet(old) BY <1>2, <1>3, FS_Interval
<1>6. t.for \in Purpose BY DEF Sent, Tx
<1>7. Received(t.for) \in Int /\ \A n \in old : Received(tx[n].for) \in Int
  BY <1>3, <1>6, ReceivedType, TxTyped
<1> DEFINE v == ReceivedIn(tx)
           w == ReceivedIn(tx')
<1>8. /\ w[N] = Received(t.for)
      /\ \A n \in old : v[n] = w[n] /\ v[n] \in Int
  BY <1>2, <1>3, <1>4, <1>7 DEF ReceivedIn
<1>9. \A n \in old \cup {N} : w[n] \in Int BY <1>7, <1>8
<1> HIDE DEF v, w
<1>10. SumOver(w, old \cup {N}) = w[N] + SumOver(w, old) BY <1>4, <1>5, <1>9, SumAdd
<1>11. SumOver(v, old) = SumOver(w, old) BY <1>5, <1>8, SumSame
<1>12. SumOver(v, old) \in Int BY <1>5, <1>8, SumRemove
<1> QED BY <1>3, <1>4, <1>7, <1>8, <1>10, <1>11, <1>12 DEF v, w

\* What the bridge holds then: what it held and did not spend, and what the
\* transaction brings.
LEMMA HeldGrows ==
  ASSUME TypeOK, SpendsInv, NEW t, Sent(t)
  PROVE  /\ SumOver(ValueIn(tx'), Held') = SumOver(ValueIn(tx), Held \ t.ins) + Brings(t)
         /\ IsFiniteSet(Held) /\ \A ref \in Held : ValueIn(tx)[ref] \in Nat
<1>1. PICK N : N = Len(tx) + 1 OBVIOUS
<1>2. /\ \A ref \in Refs : At(ref)' = At(ref)
      /\ \A i \in 1..Len(t.outs) :
           At(<<N, i>>)' = t.outs[i] /\ <<N, i>> \notin Refs /\ <<N, i>> \in OutRef
      /\ Unspent' = (Unspent \ t.ins) \cup {<<N, i>> : i \in 1..Len(t.outs)}
  BY <1>1, Grows
<1>3. PICK new : new = {<<N, i>> : i \in {i \in 1..Len(t.outs) : t.outs[i].to = Bridge}}
  OBVIOUS
<1>4. PICK old : old = Held \ t.ins OBVIOUS
<1>5. Held \subseteq Refs /\ old \subseteq Refs BY <1>4 DEF Held, Unspent
<1>6. Held' = old \cup new
  <2>1. \A ref \in Unspent : At(ref)' = At(ref) BY <1>2 DEF Unspent
  <2>2. \A ref : ref \in Held' <=> ref \in Unspent' /\ At(ref)'.to = Bridge BY DEF Held
  <2>3. \A ref : ref \in old <=> ref \in Unspent \ t.ins /\ At(ref).to = Bridge
    BY <1>4 DEF Held
  <2>4. \A ref \in Unspent \ t.ins : ref \in Held' <=> ref \in old
    BY <1>2, <2>1, <2>2, <2>3
  <2>5. ASSUME NEW i \in 1..Len(t.outs)
        PROVE  <<N, i>> \in Held' <=> t.outs[i].to = Bridge
    BY <1>2, <2>2
  <2>6. Held' \subseteq old \cup new
    <3> SUFFICES ASSUME NEW ref \in Held' PROVE ref \in old \cup new
      OBVIOUS
    <3>1. ref \in Unspent' BY <2>2
    <3>2. CASE ref \in Unspent \ t.ins BY <2>4, <3>2
    <3>3. CASE \E i \in 1..Len(t.outs) : ref = <<N, i>> BY <1>3, <2>5, <3>3
    <3> QED BY <1>2, <3>1, <3>2, <3>3
  <2>7. old \subseteq Held' BY <2>3, <2>4
  <2>8. new \subseteq Held' BY <1>3, <2>5
  <2> QED BY <2>6, <2>7, <2>8
<1> DEFINE v == ValueIn(tx)
           w == ValueIn(tx')
<1>7. \A ref \in Refs : ref \in OutRef /\ v[ref] = w[ref] /\ v[ref] \in Nat
  <2> SUFFICES ASSUME NEW ref \in Refs
               PROVE  ref \in OutRef /\ v[ref] = w[ref] /\ v[ref] \in Nat
    OBVIOUS
  <2>1. At(ref) \in Output /\ ref \in OutRef BY ValueType
  <2>2. At(ref).value \in Nat BY <2>1 DEF Output
  <2>3. v[ref] = At(ref).value /\ w[ref] = At(ref)'.value BY <2>1 DEF ValueIn, At
  <2> QED BY <1>2, <2>1, <2>2, <2>3
<1>8. \A ref \in new : ref \in OutRef /\ ref \notin Refs /\ w[ref] \in Int
  <2> SUFFICES ASSUME NEW i \in 1..Len(t.outs)
               PROVE  <<N, i>> \in OutRef /\ <<N, i>> \notin Refs /\ w[<<N, i>>] \in Int
    BY <1>3
  <2>1. t.outs \in Seq(Output) BY DEF Sent, Tx
  <2>2. t.outs[i] \in Output BY <2>1
  <2>3. t.outs[i].value \in Nat BY <2>2 DEF Output
  <2>4. w[<<N, i>>] = t.outs[i].value BY <1>2 DEF ValueIn, At
  <2> QED BY <1>2, <2>3, <2>4
<1>9. IsFiniteSet(Held) /\ IsFiniteSet(old) /\ IsFiniteSet(new)
  <2>1. Held \in SUBSET OutRef /\ old \in SUBSET OutRef /\ new \in SUBSET OutRef
    BY <1>5, <1>7, <1>8
  <2> QED BY <2>1, OutRefFinite
<1>10. SumOver(w, new) = Brings(t) BY <1>1, <1>3, BringsIsSum
<1> HIDE DEF v, w
<1>11. \A ref \in old \cup new : w[ref] \in Int BY <1>5, <1>7, <1>8
<1>12. old \cap new = {} BY <1>5, <1>8
<1>13. SumOver(w, old \cup new) = SumOver(w, old) + SumOver(w, new)
  BY <1>9, <1>11, <1>12, SumUnion
<1>14. SumOver(v, old) = SumOver(w, old) BY <1>5, <1>7, <1>9, SumSame
<1> QED BY <1>4, <1>5, <1>6, <1>7, <1>9, <1>10, <1>13, <1>14 DEF v, w

LEMMA FundsSends == WalletInv /\ FundsInv /\ Sends => FundsInv'
<1> SUFFICES ASSUME WalletInv, FundsInv, Sends PROVE FundsInv'
  OBVIOUS
<1>0. TypeOK /\ SpendsInv /\ RowsInv /\ PreparedInv BY DEF WalletInv
<1>1. PICK t : Sent(t) /\ (ByUser(t) \/ \E r \in Request : ByBridge(t, r)) BY DEF Sends
<1> DEFINE v == ValueIn(tx)
<1>2. /\ SumOver(ValueIn(tx'), Held') = SumOver(v, Held \ t.ins) + Brings(t)
      /\ IsFiniteSet(Held) /\ \A ref \in Held : v[ref] \in Nat
  BY <1>0, <1>1, HeldGrows
<1>3. /\ SumOver(ReceivedIn(tx'), 1..Len(tx'))
           = Received(t.for) + SumOver(ReceivedIn(tx), 1..Len(tx))
      /\ SumOver(ReceivedIn(tx), 1..Len(tx)) \in Int /\ Received(t.for) \in Int
  BY <1>0, <1>1, ReceivedGrows
<1>4. t.ins \subseteq Unspent BY <1>1 DEF Sent
<1>5. SumOver(v, Held) = SumOver(ReceivedIn(tx), 1..Len(tx)) BY DEF FundsInv
<1>6. CASE ByUser(t)
  <2>1. Held \ t.ins = Held BY <1>6 DEF ByUser, Held
  <2>2. Brings(t) = Received(t.for) BY <1>6 DEF ByUser
  <2> HIDE DEF v
  <2>3. SumOver(ValueIn(tx'), Held')
          = SumOver(ReceivedIn(tx), 1..Len(tx)) + Received(t.for)
    BY <1>2, <1>5, <2>1, <2>2
  <2>4. \A i, j \in Int : i + j = j + i OBVIOUS
  <2> QED BY <1>3, <2>3, <2>4 DEF FundsInv
<1>7. ASSUME NEW r \in Request, ByBridge(t, r) PROVE FundsInv'
  <2>1. /\ Brings(t) = Received(t.for) + Rows(t.ins) /\ t.ins \subseteq known
    BY <1>0, <1>7 DEF ByBridge, PreparedInv
  <2>2. t.ins \subseteq Held BY <1>0, <1>4, <2>1 DEF Held, RowsInv
  <2>3. Rows(t.ins) = SumOver(v, t.ins)
    <3>1. \A ref \in t.ins : worth[ref] \in Int /\ worth[ref] = v[ref]
      <4>1. \A ref \in known : ref \in OutRef /\ worth[ref] \in Nat /\ At(ref).value = worth[ref]
        BY <1>0 DEF RowsInv, TypeOK
      <4> QED BY <2>1, <4>1 DEF ValueIn, At
    <3>2. IsFiniteSet(t.ins) BY <1>2, <2>2, FS_Subset
    <3> HIDE DEF v
    <3>3. SumOver(worth, t.ins) = SumOver(v, t.ins) BY <3>1, <3>2, SumSame
    <3> QED BY <3>3, RowsIsSum
  <2> HIDE DEF v
  <2>4. PICK S, T : S = Held \ t.ins /\ T = t.ins OBVIOUS
  <2>5. /\ IsFiniteSet(S) /\ IsFiniteSet(T) /\ S \cap T = {} /\ Held = S \cup T
    BY <1>2, <2>2, <2>4, FS_Subset
  <2>6. \A ref \in S \cup T : v[ref] \in Int BY <1>2, <2>5
  <2>7. SumOver(v, S \cup T) = SumOver(v, S) + SumOver(v, T) BY <2>5, <2>6, SumUnion
  <2>8. SumOver(v, S) \in Int /\ SumOver(v, T) \in Int BY <2>5, <2>6, SumRemove
  <2>9. SumOver(ValueIn(tx'), Held') = SumOver(v, S) + (Received(t.for) + SumOver(v, T))
    BY <1>2, <2>1, <2>3, <2>4
  <2>10. SumOver(ReceivedIn(tx), 1..Len(tx)) = SumOver(v, S) + SumOver(v, T)
    BY <1>5, <2>5, <2>7
  <2>11. \A i, j, k \in Int : i + (j + k) = j + (i + k) OBVIOUS
  <2> QED BY <1>3, <2>8, <2>9, <2>10, <2>11 DEF FundsInv
<1> QED BY <1>1, <1>6, <1>7

LEMMA FundsStep == WalletInv /\ FundsInv /\ [Next]_vars => FundsInv'
<1> SUFFICES ASSUME WalletInv, FundsInv, [Next]_vars PROVE FundsInv'
  OBVIOUS
<1>1. ASSUME UNCHANGED tx PROVE FundsInv'
  BY <1>1 DEF FundsInv, Held, Unspent, Refs, At
<1>2. TypeOK /\ PreparedInv BY DEF WalletInv
<1>3. CASE Sends BY <1>3, FundsSends
<1>4. ASSUME NEW n \in 1..MaxTx, Mine(n) \/ Inspect(n) PROVE UNCHANGED tx
  BY <1>4 DEF Mine, Inspect, node
<1>5. ASSUME NEW r \in Request, Prepare(r) PROVE UNCHANGED tx BY <1>5 DEF Prepare, node
<1>6. CASE UNCHANGED money BY <1>1, <1>6 DEF money
<1> QED BY <1>1, <1>2, <1>3, <1>4, <1>5, <1>6, WalletSteps

LEMMA FundsInit == Init => FundsInv
<1> SUFFICES ASSUME Init PROVE FundsInv
  OBVIOUS
<1>1. PICK t : t = [ins |-> {}, outs |-> Genesis, for |-> [kind |-> "genesis"]] OBVIOUS
<1>2. tx = <<t>> /\ t.outs = Genesis /\ t.for.kind = "genesis" BY <1>1 DEF Init
<1>3. Len(tx) = 1 /\ tx[1] = t BY <1>2
<1>4. Genesis \in Seq([to: User, value: Nat, data: {NONE}]) BY WalletAssumption
<1>5. \A ref \in Refs : At(ref).to # Bridge
  <2> SUFFICES ASSUME NEW ref \in Refs PROVE At(ref).to # Bridge
    OBVIOUS
  <2>1. ref[1] \in 1..MaxTx /\ ref[2] \in 1..3 /\ ref[1] <= 1 /\ ref[2] <= Len(tx[ref[1]].outs)
    BY <1>3 DEF Refs, OutRef
  <2>2. ref[1] = 1 BY <2>1, MaxTxNat
  <2>3. ref[2] \in 1..Len(Genesis) BY <1>2, <1>3, <1>4, <2>1, <2>2
  <2>4. \A S : \A s \in Seq(S) : \A i \in 1..Len(s) : s[i] \in S OBVIOUS
  <2>5. Genesis[ref[2]] \in [to: User, value: Nat, data: {NONE}] BY <1>4, <2>3, <2>4
  <2>6. At(ref) = Genesis[ref[2]] BY <1>2, <1>3, <2>2 DEF At
  <2> QED BY <2>5, <2>6, NoneApart
<1>6. Held = {} BY <1>5 DEF Held, Unspent
<1>7. SumOver(ValueIn(tx), Held) = 0 BY <1>6, SumEmpty
<1>8. SumOver(ReceivedIn(tx), 1..Len(tx)) = 0
  <2>1. MaxTx \in Nat \ {0} BY WalletAssumption
  <2>2. 1..Len(tx) = {1} /\ 1 \in 1..MaxTx BY <1>3, <2>1
  <2>3. ReceivedIn(tx)[1] = 0 BY <1>2, <1>3, <2>2 DEF ReceivedIn, Received
  <2>4. PICK w : w = ReceivedIn(tx) OBVIOUS
  <2>5. SumOver(w, {1}) = w[1] BY <2>3, <2>4, SumOne
  <2> QED BY <2>2, <2>3, <2>4, <2>5
<1> QED BY <1>7, <1>8 DEF FundsInv

\* For all amounts, fees and users, and any number of transactions: the bridge
\* holds exactly what was deposited and transferred to it, less the redeems it
\* paid to others and its fees.  No change is lost and none is counted twice.
THEOREM WalletFundsBalance == Spec => []FundsBalance
<1>1. Init => FundsInv BY FundsInit
<1>2. WalletInv /\ FundsInv /\ [Next]_vars => FundsInv' BY FundsStep
<1>3. WalletInv /\ FundsInv => FundsBalance BY FundsAreSums DEF WalletInv
<1> QED BY <1>1, <1>2, <1>3, WalletInvariant, PTL DEF Spec
=============================================================================
