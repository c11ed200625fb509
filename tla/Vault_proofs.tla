---------------------------- MODULE Vault_proofs ----------------------------
(* Proofs about Vault for every set of UTXOs, amounts and requests and for *)
(* every combination of faults and releases.                               *)
EXTENDS Vault, Sums

\* But for released UTXOs: while an attempt is under way its rows are apart
\* from every grant; the rows it has finished, and the rows of every grant, are
\* locked and linked.
Apart ==
  lock # NONE =>
    /\ lock.todo \subseteq lock.chosen /\ lock.chosen \subseteq known
    /\ granted[lock.id] \subseteq freed
    /\ \A i \in Id : granted[i] \cap lock.chosen \subseteq freed
    /\ \A u \in lock.chosen \ lock.todo :
         u \in freed \/ (lockup[u] /\ linked[u] = lock.id)
    /\ lock.step # "lockup" =>
         lock.cur \in lock.todo /\ (lock.cur \in freed \/ lockup[lock.cur])

Held ==
  \A i \in Id : \A u \in granted[i] \ freed :
    u \in known /\ lockup[u] /\ linked[u] = i

VaultInv == TypeOK /\ Apart /\ Held

LEMMA VaultInit == Init => VaultInv
BY VaultAssumption DEF Init, VaultInv, TypeOK, Apart, Held

\* Columns, history and operations keep their types in every step, released
\* locks included.
LEMMA TypeStep == TypeOK /\ [Next]_vars => TypeOK'
<1> SUFFICES ASSUME TypeOK, [Next]_vars PROVE TypeOK'
  OBVIOUS
<1> USE VaultAssumption, NoneAssumption DEF TypeOK, LockOp, ReleaseOp, table, history
<1>1. CASE Tick BY <1>1 DEF Tick
<1>2. ASSUME NEW u \in UTXO, AddUTXO(u) PROVE TypeOK' BY <1>2 DEF AddUTXO
<1>3. ASSUME NEW i \in Id, ChooseAndLock(i) PROVE TypeOK'
  <2>1. PICK S \in SUBSET UTXO :
          lock' = [id |-> i, chosen |-> S, todo |-> S, cur |-> NONE, step |-> "lockup"]
    BY <1>3 DEF ChooseAndLock
  <2>2. lock' \in LockOp BY <2>1
  <2> QED BY <1>3, <2>2 DEF ChooseAndLock
<1>4. ASSUME NEW u \in UTXO, SetLockup(u) PROVE TypeOK' BY <1>4 DEF SetLockup
<1>5. CASE SetTimeout
  <2>1. lock \in LockOp /\ now + TimeoutDelay \in Nat BY <1>5 DEF SetTimeout
  <2>2. lock' \in LockOp BY <1>5, <2>1 DEF SetTimeout
  <2>3. timeout' \in [UTXO -> Nat] BY <1>5, <2>1 DEF SetTimeout
  <2> QED BY <1>5, <2>2, <2>3 DEF SetTimeout
<1>6. CASE SetLinkedID BY <1>6 DEF SetLinkedID
<1>7. CASE Reply BY <1>7 DEF Reply
<1>8. CASE LockFault BY <1>8 DEF LockFault
<1>9. CASE ReleaseByExpire BY <1>9 DEF ReleaseByExpire
<1>10. ASSUME NEW u \in UTXO, ReleaseByCommand(u) PROVE TypeOK'
  BY <1>10 DEF ReleaseByCommand
<1>11. ASSUME NEW u \in UTXO, Unlock(u) PROVE TypeOK' BY <1>11 DEF Unlock
<1>12. CASE ClearTimeout BY <1>12 DEF ClearTimeout
<1>13. CASE Released BY <1>13 DEF Released
<1>14. CASE Crash BY <1>14 DEF Crash
<1>15. CASE UNCHANGED vars BY <1>15 DEF vars
<1> QED
  BY <1>1, <1>2, <1>3, <1>4, <1>5, <1>6, <1>7, <1>8, <1>9, <1>10, <1>11, <1>12,
     <1>13, <1>14, <1>15 DEF Next

\* The columns and the history of the vault keep their types in every
\* behaviour, with every combination of faults and releases.
THEOREM VaultTypeCorrect == Spec => []TypeOK
<1>1. Init => TypeOK BY VaultAssumption DEF Init, TypeOK
<1> QED BY <1>1, TypeStep, PTL DEF Spec

\* A step keeps attempts and grants apart, and keeps every grant that is not
\* released.
LEMMA VaultStep ==
  ASSUME VaultInv, [Next]_vars
  PROVE  VaultInv' /\ \A i \in Id : GrantStep(i)
<1> USE VaultAssumption, NoneAssumption
    DEF VaultInv, TypeOK, LockOp, ReleaseOp, table, history, GrantStep
<1>0. TypeOK' BY TypeStep
<1>1. CASE Tick BY <1>0, <1>1 DEF Tick, Apart, Held
<1>2. ASSUME NEW u \in UTXO, AddUTXO(u) PROVE VaultInv' /\ \A i \in Id : GrantStep(i)
  BY <1>0, <1>2 DEF AddUTXO, Apart, Held
<1>3. ASSUME NEW i \in Id, ChooseAndLock(i) PROVE VaultInv' /\ \A j \in Id : GrantStep(j)
  <2>1. PICK S \in SUBSET UTXO :
          /\ Enough(S, SafeAmount(i))
          /\ lock' = [id |-> i, chosen |-> S, todo |-> S, cur |-> NONE, step |-> "lockup"]
    BY <1>3 DEF ChooseAndLock
  <2>2. S \subseteq known /\ \A u \in S : ~lockup[u] BY <2>1 DEF Enough, Usable
  <2>3. \A j \in Id : granted[j] \cap S \subseteq freed BY <2>2 DEF Held
  <2>4. granted[i] \subseteq freed BY <1>3 DEF ChooseAndLock, LinkedBefore, Held
  <2>5. Apart' BY <1>3, <2>1, <2>2, <2>3, <2>4 DEF ChooseAndLock, Apart
  <2> QED BY <1>0, <1>3, <2>5 DEF ChooseAndLock, Held
<1>4. ASSUME NEW u \in UTXO, SetLockup(u) PROVE VaultInv' /\ \A i \in Id : GrantStep(i)
  <2>1. Apart' BY <1>4 DEF SetLockup, Apart
  <2>2. Held' /\ \A i \in Id : GrantStep(i) BY <1>4 DEF SetLockup, Held
  <2> QED BY <1>0, <1>4, <2>1, <2>2 DEF SetLockup
<1>5. CASE SetTimeout
  <2>1. Apart' BY <1>5 DEF SetTimeout, Apart
  <2>2. Held' /\ \A i \in Id : GrantStep(i) BY <1>5 DEF SetTimeout, Held
  <2> QED BY <1>0, <1>5, <2>1, <2>2 DEF SetTimeout
<1>6. CASE SetLinkedID
  <2>1. lock.cur \in lock.chosen /\ lock.cur \in UTXO /\ lock.id \in Id
    BY <1>6 DEF SetLinkedID, Apart
  <2>2. Apart' BY <1>6, <2>1 DEF SetLinkedID, Apart
  <2>3. \A i \in Id : lock.cur \notin granted[i] \ freed BY <1>6, <2>1 DEF SetLinkedID, Apart
  <2>4. Held' /\ \A i \in Id : GrantStep(i) BY <1>6, <2>1, <2>3 DEF SetLinkedID, Held
  <2> QED BY <1>0, <1>6, <2>2, <2>4 DEF SetLinkedID
<1>7. CASE Reply
  <2>1. \A u \in lock.chosen \ freed : u \in known /\ lockup[u] /\ linked[u] = lock.id
    BY <1>7 DEF Reply, Apart
  <2>2. Held' BY <1>7, <2>1 DEF Reply, Held
  <2>3. \A i \in Id : GrantStep(i) BY <1>7 DEF Reply, Held, Apart
  <2> QED BY <1>0, <1>7, <2>2, <2>3 DEF Reply, Apart
<1>8. CASE LockFault BY <1>0, <1>8 DEF LockFault, Apart, Held
<1>9. CASE Crash BY <1>0, <1>9 DEF Crash, Apart, Held
<1>10. CASE UNCHANGED vars BY <1>0, <1>10 DEF vars, Apart, Held
<1>11. CASE ReleaseByExpire BY <1>0, <1>11 DEF ReleaseByExpire, Apart, Held
<1>12. ASSUME NEW u \in UTXO, ReleaseByCommand(u)
       PROVE VaultInv' /\ \A i \in Id : GrantStep(i)
  BY <1>0, <1>12 DEF ReleaseByCommand, Apart, Held
<1>13. ASSUME NEW u \in UTXO, Unlock(u) PROVE VaultInv' /\ \A i \in Id : GrantStep(i)
  <2>1. Apart' BY <1>13 DEF Unlock, Apart
  <2>2. Held' /\ \A i \in Id : GrantStep(i) BY <1>13 DEF Unlock, Held
  <2> QED BY <1>0, <2>1, <2>2
<1>14. CASE ClearTimeout BY <1>0, <1>14 DEF ClearTimeout, Apart, Held
<1>15. CASE Released BY <1>0, <1>15 DEF Released, Apart, Held
<1> QED
  BY <1>1, <1>2, <1>3, <1>4, <1>5, <1>6, <1>7, <1>8, <1>9, <1>10, <1>11, <1>12,
     <1>13, <1>14, <1>15 DEF Next

\* No UTXO is given to two redeems unless a release unlocked it.
THEOREM GrantsDisjointTheorem == Spec => []GrantsDisjoint
<1>1. VaultInv => GrantsDisjoint
  BY DEF VaultInv, Held, GrantsDisjoint, TypeOK
<1>2. VaultInv /\ [Next]_vars => VaultInv' BY VaultStep
<1> QED BY <1>1, <1>2, VaultInit, PTL DEF Spec

\* What a redeem was given and no release unlocked is never replaced, unlocked
\* or linked to another.
THEOREM GrantKeptTheorem == Spec => GrantKept
<1>1. VaultInv /\ [Next]_vars => VaultInv' BY VaultStep
<1>2. VaultInv /\ [Next]_vars => [\A i \in Id : GrantStep(i)]_vars BY VaultStep
<1> QED BY <1>1, <1>2, VaultInit, PTL DEF Spec, GrantKept

-----------------------------------------------------------------------------
\* Worth of finitely many rows is the sum of their amounts.
LEMMA WorthIsSum == \A S : Worth(S) = SumOver(Amount, S)
BY DEF Worth, SumOver, MapThenSumSet, MapThenFoldSet

\* S is worth enough for i, and not without any one of its rows.
NoneSpare(S, i) ==
  /\ Worth(S) >= SafeAmount(i)
  /\ \A u \in S : Worth(S \ {u}) < SafeAmount(i)

\* The rows come by falling amount: if the last one is needed, so is each.
LEMMA EnoughIsMinimal ==
  ASSUME TypeOK, IsFiniteSet(known), NEW i \in Id, NEW S \in SUBSET UTXO,
         Enough(S, SafeAmount(i))
  PROVE  NoneSpare(S, i)
<1> USE VaultAssumption
<1>1. S \subseteq known /\ IsFiniteSet(S)
  <2>1. S \subseteq known BY DEF Enough, Usable
  <2> QED BY <2>1, FS_Subset
<1>2. PICK last \in S : /\ Worth(S \ {last}) < SafeAmount(i)
                        /\ \A u \in S : Amount[u] >= Amount[last]
  BY DEF Enough
<1>3. \A u \in S : Amount[u] \in Nat OBVIOUS
<1>4. \A u \in S : Worth(S) = Amount[u] + Worth(S \ {u}) /\ Worth(S \ {u}) \in Int
  <2>1. \A u \in S : IsFiniteSet(S \ {u}) BY <1>1, FS_RemoveElement
  <2> QED BY <1>1, <1>3, <2>1, SumRemove, WorthIsSum
<1>5. ASSUME NEW u \in S PROVE Worth(S \ {u}) < SafeAmount(i)
  <2>1. Amount[u] >= Amount[last] /\ Amount[u] \in Nat /\ Amount[last] \in Nat BY <1>2, <1>3
  <2>2. Amount[u] + Worth(S \ {u}) = Amount[last] + Worth(S \ {last}) BY <1>4
  <2>3. SafeAmount(i) \in Int BY DEF SafeAmount
  <2> QED BY <1>2, <1>4, <2>1, <2>2, <2>3
<1> QED BY <1>5 DEF NoneSpare, Enough

\* There are finitely many rows; what was chosen, and what was granted, is
\* minimal and stays what it was chosen to be, faults and releases included.
ChosenInv ==
  /\ IsFiniteSet(known)
  /\ lock # NONE => NoneSpare(lock.chosen, lock.id)
  /\ \A i \in Id : granted[i] # {} => NoneSpare(granted[i], i)

LEMMA ChosenStep == TypeOK /\ ChosenInv /\ [Next]_vars => ChosenInv'
<1> SUFFICES ASSUME TypeOK, ChosenInv, [Next]_vars PROVE ChosenInv'
  OBVIOUS
<1> USE NoneAssumption DEF table, history, ChosenInv
<1>k. ASSUME known' = known, granted' = granted,
             \/ lock' = NONE
             \/ lock' = lock
             \/ lock # NONE /\ lock'.chosen = lock.chosen /\ lock'.id = lock.id
      PROVE  ChosenInv'
  BY <1>k
<1>1. CASE Tick BY <1>1, <1>k DEF Tick
<1>2. ASSUME NEW u \in UTXO, AddUTXO(u) PROVE ChosenInv'
  BY <1>2, FS_AddElement DEF AddUTXO
<1>3. ASSUME NEW i \in Id, ChooseAndLock(i) PROVE ChosenInv'
  <2>1. PICK S \in SUBSET UTXO :
          /\ Enough(S, SafeAmount(i))
          /\ lock' = [id |-> i, chosen |-> S, todo |-> S, cur |-> NONE, step |-> "lockup"]
    BY <1>3 DEF ChooseAndLock
  <2>2. NoneSpare(S, i) BY <2>1, EnoughIsMinimal
  <2> QED BY <1>3, <2>1, <2>2 DEF ChooseAndLock
<1>4. ASSUME NEW u \in UTXO, SetLockup(u) PROVE ChosenInv' BY <1>4, <1>k DEF SetLockup
<1>5. CASE SetTimeout BY <1>5, <1>k DEF SetTimeout
<1>6. CASE SetLinkedID BY <1>6, <1>k DEF SetLinkedID
<1>7. CASE Reply BY <1>7 DEF Reply, TypeOK
<1>8. CASE LockFault BY <1>8, <1>k DEF LockFault
<1>9. CASE ReleaseByExpire BY <1>9, <1>k DEF ReleaseByExpire
<1>10. ASSUME NEW u \in UTXO, ReleaseByCommand(u) PROVE ChosenInv'
  BY <1>10, <1>k DEF ReleaseByCommand
<1>11. ASSUME NEW u \in UTXO, Unlock(u) PROVE ChosenInv' BY <1>11, <1>k DEF Unlock
<1>12. CASE ClearTimeout BY <1>12, <1>k DEF ClearTimeout
<1>13. CASE Released BY <1>13, <1>k DEF Released
<1>14. CASE Crash BY <1>14, <1>k DEF Crash
<1>15. CASE UNCHANGED vars BY <1>15, <1>k DEF vars
<1> QED
  BY <1>1, <1>2, <1>3, <1>4, <1>5, <1>6, <1>7, <1>8, <1>9, <1>10, <1>11, <1>12,
     <1>13, <1>14, <1>15 DEF Next

\* Whatever the amounts are, a redeem is granted outpoints worth its amount and
\* the margin, of which it could do without none.
THEOREM GrantMinimalTheorem == Spec => []GrantMinimal
<1>1. Init => ChosenInv BY FS_EmptySet DEF Init, ChosenInv
<1>2. ChosenInv => GrantMinimal BY DEF ChosenInv, NoneSpare, GrantMinimal
<1> QED BY <1>1, <1>2, ChosenStep, VaultTypeCorrect, PTL DEF Spec
=============================================================================
