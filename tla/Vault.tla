-------------------------------- MODULE Vault --------------------------------
(***************************************************************************)
(* The treasure vault, package btcvault: a table of the UTXOs the bridge   *)
(* wallet owns.  The chain tx manager asks for outpoints worth a redeem's  *)
(* amount (Request, ChooseAndLock); the Bitcoin monitor adds UTXOs; a lock *)
(* can be released by expiry or by command.  Every column is written by an *)
(* UPDATE of its own, so that each is a step and the process may fail or   *)
(* stop between two of them; updateMu covers ChooseAndLock and nothing     *)
(* else.                                                                   *)
(***************************************************************************)
EXTENDS Naturals, FiniteSetsExt

CONSTANTS
  UTXO,           \* (tx id, vout) pairs that pay the bridge
  Amount,         \* [UTXO -> satoshi]
  Id,             \* linked ids: request tx hashes
  RequestAmount,  \* [Id -> satoshi], the amount of the redeem
  SafeMargin,     \* SAFE_MARGIN
  TimeoutDelay,   \* TIMEOUT_DELAY
  MaxTime,        \* bound: the clock stops here
  Releases,       \* which of "expire" and "command" are ever called
  Faults,         \* which of "db" and "crash" may happen
  NONE            \* no linked id, no operation in progress

ASSUME VaultAssumption ==
  /\ Amount \in [UTXO -> Nat]
  /\ RequestAmount \in [Id -> Nat]
  /\ SafeMargin \in Nat \ {0} /\ TimeoutDelay \in Nat /\ MaxTime \in Nat
  /\ NONE \notin UTXO \cup Id

LockOp == [id: Id, chosen: SUBSET UTXO, todo: SUBSET UTXO, cur: UTXO \cup {NONE},
           step: {"lockup", "timeout", "linked"}]
ReleaseOp == [todo: SUBSET UTXO, cur: UTXO \cup {NONE}]

ASSUME NoneAssumption == NONE \notin LockOp \cup ReleaseOp

VARIABLES
  known,     \* the rows of the table
  lockup, timeout, linked,   \* its columns lockup, timeout and linked_id
  now,       \* time.Now().Unix()
  lock,      \* the ChooseAndLock that holds updateMu
  release,   \* the ReleaseByExpire or ReleaseByCommand in progress
  granted,   \* history: the outpoints returned for an id, {} before that
  freed      \* history: the UTXOs a release has unlocked

table   == <<known, lockup, timeout, linked>>
history == <<granted, freed>>
vars    == <<table, now, lock, release, history>>

TypeOK ==
  /\ known \subseteq UTXO
  /\ lockup \in [UTXO -> BOOLEAN]
  /\ timeout \in [UTXO -> Nat]
  /\ linked \in [UTXO -> Id \cup {NONE}]
  /\ now \in Nat
  /\ lock \in LockOp \cup {NONE}
  /\ release \in ReleaseOp \cup {NONE}
  /\ granted \in [Id -> SUBSET UTXO]
  /\ freed \subseteq UTXO

Init ==
  /\ known = {}
  /\ lockup = [u \in UTXO |-> FALSE]
  /\ timeout = [u \in UTXO |-> 0]
  /\ linked = [u \in UTXO |-> NONE]
  /\ now = 1
  /\ lock = NONE /\ release = NONE
  /\ granted = [i \in Id |-> {}]
  /\ freed = {}

Worth(S) == MapThenSumSet(LAMBDA u : Amount[u], S)

Tick == now < MaxTime /\ now' = now + 1 /\ UNCHANGED <<table, lock, release, history>>

\* The UTXO observer.  The row is new: not locked, not linked.
AddUTXO(u) ==
  /\ u \notin known
  /\ known' = known \cup {u}
  /\ UNCHANGED <<lockup, timeout, linked, now, lock, release, history>>

-----------------------------------------------------------------------------
(* Request and ChooseAndLock                                                *)

SafeAmount(i) == RequestAmount[i] + SafeMargin

MutantUsable == known   \* mutant: the WHERE clause is dropped

\* WHERE lockup = 0 AND spent = 0; nothing ever sets spent.
Usable == {u \in known : ~lockup[u]}

\* Mutant: the running total is not tested before the next row is added.
MutantEnough(S, amount) ==
  S # {} /\ S \subseteq Usable /\ Worth(S) >= amount /\ S = Usable

\* S is what QueryEnoughUTXOs may return: the rows by falling amount, as few
\* as reach the amount.  Rows of one amount come in any order.
Enough(S, amount) ==
  /\ S \subseteq Usable
  /\ Worth(S) >= amount
  /\ \E last \in S :
       /\ Worth(S \ {last}) < amount
       /\ \A u \in S : Amount[u] >= Amount[last]
       /\ \A u \in Usable \ S : Amount[u] <= Amount[last]

MutantLinkedBefore(i) == FALSE   \* mutant: no check of the linked id

\* QueryByLinkedID: UTXOs were locked for this id before.
LinkedBefore(i) == \E u \in known : linked[u] = i

\* Otherwise Request returns an error and changes nothing.
ChooseAndLock(i) ==
  /\ lock = NONE
  /\ ~LinkedBefore(i)
  /\ \E S \in SUBSET UTXO :
       /\ Enough(S, SafeAmount(i))
       /\ lock' = [id |-> i, chosen |-> S, todo |-> S, cur |-> NONE, step |-> "lockup"]
  /\ UNCHANGED <<table, now, release, history>>

SetLockup(u) ==
  /\ lock # NONE
  /\ lock.step = "lockup" /\ u \in lock.todo
  /\ \A v \in lock.todo : Amount[u] >= Amount[v]
  /\ lockup' = [lockup EXCEPT ![u] = TRUE]
  /\ lock' = [id |-> lock.id, chosen |-> lock.chosen, todo |-> lock.todo,
              cur |-> u, step |-> "timeout"]
  /\ UNCHANGED <<known, timeout, linked, now, release, history>>

SetTimeout ==
  /\ lock # NONE
  /\ lock.step = "timeout"
  /\ timeout' = [timeout EXCEPT ![lock.cur] = now + TimeoutDelay]
  /\ lock' = [id |-> lock.id, chosen |-> lock.chosen, todo |-> lock.todo,
              cur |-> lock.cur, step |-> "linked"]
  /\ UNCHANGED <<known, lockup, linked, now, release, history>>

SetLinkedID ==
  /\ lock # NONE
  /\ lock.step = "linked"
  /\ linked' = [linked EXCEPT ![lock.cur] = lock.id]
  /\ lock' = [id |-> lock.id, chosen |-> lock.chosen, todo |-> lock.todo \ {lock.cur},
              cur |-> NONE, step |-> "lockup"]
  /\ UNCHANGED <<known, lockup, timeout, now, release, history>>

\* All rows are written: the outpoints go to the caller.
Reply ==
  /\ lock # NONE
  /\ lock.step = "lockup" /\ lock.todo = {}
  /\ granted' = [granted EXCEPT ![lock.id] = lock.chosen]
  /\ lock' = NONE
  /\ UNCHANGED <<table, now, release, freed>>

\* An UPDATE fails: the rows written so far stay as they are.
LockFault ==
  /\ "db" \in Faults
  /\ lock # NONE
  /\ lock.todo # {}
  /\ lock' = NONE
  /\ UNCHANGED <<table, now, release, history>>

-----------------------------------------------------------------------------
(* ReleaseByExpire and ReleaseByCommand.  Neither takes updateMu nor clears *)
(* linked_id; the server calls neither.                                     *)

\* QueryExpiredAndLockedUTXOs
ReleaseByExpire ==
  /\ "expire" \in Releases
  /\ release = NONE
  /\ release' = [todo |-> {u \in known : lockup[u] /\ timeout[u] < now}, cur |-> NONE]
  /\ UNCHANGED <<table, now, lock, history>>

ReleaseByCommand(u) ==
  /\ "command" \in Releases
  /\ release = NONE
  /\ u \in known
  /\ release' = [todo |-> {u}, cur |-> NONE]
  /\ UNCHANGED <<table, now, lock, history>>

\* SetLockup(.., false)
Unlock(u) ==
  /\ release # NONE
  /\ release.cur = NONE /\ u \in release.todo
  /\ lockup' = [lockup EXCEPT ![u] = FALSE]
  /\ release' = [todo |-> release.todo \ {u}, cur |-> u]
  /\ freed' = freed \cup {u}
  /\ UNCHANGED <<known, timeout, linked, now, lock, granted>>

\* SetTimeout(.., 0)
ClearTimeout ==
  /\ release # NONE
  /\ release.cur # NONE
  /\ timeout' = [timeout EXCEPT ![release.cur] = 0]
  /\ release' = [todo |-> release.todo, cur |-> NONE]
  /\ UNCHANGED <<known, lockup, linked, now, lock, history>>

\* The last row is done, or an UPDATE failed.
Released ==
  /\ release # NONE
  /\ (release.todo = {} /\ release.cur = NONE) \/ "db" \in Faults
  /\ release' = NONE
  /\ UNCHANGED <<table, now, lock, history>>

\* The process stops; the table stays.
Crash ==
  /\ "crash" \in Faults
  /\ lock # NONE \/ release # NONE
  /\ lock' = NONE /\ release' = NONE
  /\ UNCHANGED <<table, now, history>>

Next ==
  \/ Tick
  \/ \E u \in UTXO : AddUTXO(u)
  \/ \E i \in Id : ChooseAndLock(i)
  \/ \E u \in UTXO : SetLockup(u)
  \/ SetTimeout
  \/ SetLinkedID
  \/ Reply
  \/ LockFault
  \/ ReleaseByExpire
  \/ \E u \in UTXO : ReleaseByCommand(u)
  \/ \E u \in UTXO : Unlock(u)
  \/ ClearTimeout
  \/ Released
  \/ Crash

Spec == Init /\ [][Next]_vars

-----------------------------------------------------------------------------
(* Properties                                                               *)

\* Two redeems are never given the same UTXO unless a release unlocked it,
\* wherever faults and crashes cut earlier attempts short: the prepare
\* transactions they lead to would spend it twice.
GrantsDisjoint ==
  \A i, j \in Id : i # j => granted[i] \cap granted[j] \subseteq freed

\* What was given to a redeem and not released stays given, locked and linked
\* to it: a retry of the request is never answered with other outpoints.
GrantStep(i) ==
  \A u \in granted[i] \ freed' :
    granted'[i] = granted[i] /\ lockup'[u] /\ linked'[u] = i

GrantKept == [][\A i \in Id : GrantStep(i)]_vars

\* A redeem gets outpoints worth its amount and the margin for the fee, and
\* none that it could do without.
GrantMinimal ==
  \A i \in Id : granted[i] # {} =>
    /\ Worth(granted[i]) >= SafeAmount(i)
    /\ \A u \in granted[i] : Worth(granted[i] \ {u}) < SafeAmount(i)
=============================================================================
