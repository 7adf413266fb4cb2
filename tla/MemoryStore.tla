---------------------------- MODULE MemoryStore ----------------------------
(***************************************************************************)
(* InMemoryStore shared by threads (broker/memory_store.py, class comment: *)
(* "thread-safe").  A method that takes the lock once is one action whose  *)
(* guard is that the lock is free.  Three details are steps of their own,  *)
(* because another thread can run in between or the lock is held across    *)
(* them:                                                                   *)
(*   - stage and purge_expired read the clock BEFORE they take the lock;   *)
(*   - purge_expired and purge_all wipe one entry at a time, in dict order,*)
(*     with the lock held;                                                 *)
(*   - purge_expired adds to total_purged_expired after the loop.          *)
(* Readers (exists, get_inbox, stats, ram_snapshot) leave the store alone. *)
(***************************************************************************)
EXTENDS StoreProperties

CONSTANTS
  Threads,
  TTLs,          \* time-to-live values callers pass
  MaxClock,      \* bound: the clock stops here
  MaxStaged,     \* bound: calls of stage
  MaxRetrieved   \* bound: successful calls of retrieve

ASSUME MemoryStoreAssumption ==
  /\ TTLs \subseteq Nat \ {0}
  /\ None \notin Threads
  /\ MaxClock \in Nat /\ MaxStaged \in Nat /\ MaxRetrieved \in Nat

VARIABLES
  clock,    \* time.time(), in whole seconds
  store,    \* the fields of the InMemoryStore object
  lock,     \* the thread that holds self._lock between two steps, or None
  pc,       \* what each thread is in the middle of
  pending,  \* arguments of a stage call, with the expires_at it computed
  now,      \* the clock value a purge_expired call read
  todo,     \* tickets a purge loop has still to wipe
  found     \* len(expired)

vars == <<clock, store, lock, pc, pending, now, todo, found>>
locals == <<pending, now, todo, found>>

Pending == [tx_id: TxIds, recipient: Addresses, payload: Payloads,
            expires_at: Nat]

\* In the middle of stage, of purge_expired before its lock, of the loop of
\* purge_expired, of the loop of purge_all.
PCs == {"idle", "stage", "purge_expired", "expire_loop", "wipe_loop"}

TypeOK ==
  /\ clock \in Nat
  /\ store \in Store
  /\ Len(store.events) <= RAM_EVENT_LOG_SIZE
  /\ lock \in Threads \cup {None}
  /\ pc \in [Threads -> PCs]
  /\ pending \in [Threads -> Pending \cup {None}]
  /\ now \in [Threads -> Nat]
  /\ todo \in [Threads -> SUBSET TxIds]
  /\ found \in [Threads -> Nat]

Init ==
  /\ clock = 0
  /\ store = EmptyStore
  /\ lock = None
  /\ pc = [th \in Threads |-> "idle"]
  /\ pending = [th \in Threads |-> None]
  /\ now = [th \in Threads |-> 0]
  /\ todo = [th \in Threads |-> {}]
  /\ found = [th \in Threads |-> 0]

-----------------------------------------------------------------------------

Tick ==
  /\ clock < MaxClock
  /\ clock' = clock + 1
  /\ UNCHANGED <<store, lock, pc, locals>>

\* expires_at = time.time() + ttl_seconds, before the lock.
StageBegin(th, t, recipient, payload, ttl) ==
  /\ pc[th] = "idle"
  /\ store.total_staged + Cardinality({u \in Threads : pc[u] = "stage"}) < MaxStaged
  /\ pc' = [pc EXCEPT ![th] = "stage"]
  /\ pending' = [pending EXCEPT ![th] =
       [tx_id |-> t, recipient |-> recipient, payload |-> payload,
        expires_at |-> clock + ttl]]
  /\ UNCHANGED <<clock, store, lock, now, todo, found>>

\* Mutant: stage writes without taking the lock.
StageUnlocked(th) ==
  /\ pc[th] = "stage"
  /\ store' = Stage(store, pending[th].tx_id, pending[th].recipient,
                    pending[th].payload, pending[th].expires_at)
  /\ pc' = [pc EXCEPT ![th] = "idle"]
  /\ pending' = [pending EXCEPT ![th] = None]
  /\ UNCHANGED <<clock, lock, now, todo, found>>

StageLocked(th) ==
  /\ pc[th] = "stage"
  /\ lock = None
  /\ store' = Stage(store, pending[th].tx_id, pending[th].recipient,
                    pending[th].payload, pending[th].expires_at)
  /\ pc' = [pc EXCEPT ![th] = "idle"]
  /\ pending' = [pending EXCEPT ![th] = None]
  /\ UNCHANGED <<clock, lock, now, todo, found>>

\* retrieve reads the clock with the lock held.
RetrieveCall(th, t) ==
  /\ pc[th] = "idle"
  /\ lock = None
  /\ store.total_retrieved < MaxRetrieved
  /\ store' = Retrieve(store, t, clock)
  /\ UNCHANGED <<clock, lock, pc, locals>>

PurgeCall(th, t) ==
  /\ pc[th] = "idle"
  /\ lock = None
  /\ store' = PurgeOne(store, t, "WIPE")
  /\ UNCHANGED <<clock, lock, pc, locals>>

\* now = time.time(), before the lock.
PurgeExpiredBegin(th) ==
  /\ pc[th] = "idle"
  /\ pc' = [pc EXCEPT ![th] = "purge_expired"]
  /\ now' = [now EXCEPT ![th] = clock]
  /\ UNCHANGED <<clock, store, lock, pending, todo, found>>

\* The lock is taken and the list of expired tickets built.
PurgeExpiredLocked(th) ==
  /\ pc[th] = "purge_expired"
  /\ lock = None
  /\ lock' = th
  /\ pc' = [pc EXCEPT ![th] = "expire_loop"]
  /\ todo' = [todo EXCEPT ![th] = Expired(store, now[th])]
  /\ found' = [found EXCEPT ![th] = Cardinality(Expired(store, now[th]))]
  /\ UNCHANGED <<clock, store, pending, now>>

PurgeAllCall(th) ==
  /\ pc[th] = "idle"
  /\ lock = None
  /\ lock' = th
  /\ pc' = [pc EXCEPT ![th] = "wipe_loop"]
  /\ todo' = [todo EXCEPT ![th] = Held(store)]
  /\ UNCHANGED <<clock, store, pending, now, found>>

\* One turn of the loop of purge_expired or of purge_all.
ScrubOne(th, t) ==
  /\ pc[th] \in {"expire_loop", "wipe_loop"}
  /\ NextInDict(store, todo[th], t)
  /\ store' = PurgeOne(store, t, IF pc[th] = "expire_loop" THEN "EXPIRE" ELSE "WIPE")
  /\ todo' = [todo EXCEPT ![th] = @ \ {t}]
  /\ UNCHANGED <<clock, lock, pc, pending, now, found>>

\* The loop ends, the counter is brought up to date, the lock is released.
ScrubDone(th) ==
  /\ pc[th] \in {"expire_loop", "wipe_loop"}
  /\ todo[th] = {}
  /\ store' = IF pc[th] = "expire_loop" THEN CountExpired(store, found[th]) ELSE store
  /\ lock' = None
  /\ pc' = [pc EXCEPT ![th] = "idle"]
  /\ now' = [now EXCEPT ![th] = 0]
  /\ found' = [found EXCEPT ![th] = 0]
  /\ UNCHANGED <<clock, pending, todo>>

ThreadStep(th) ==
  \/ \E t \in TxIds, a \in Addresses, p \in Payloads, ttl \in TTLs :
       StageBegin(th, t, a, p, ttl)
  \/ StageLocked(th)
  \/ \E t \in TxIds : RetrieveCall(th, t)
  \/ \E t \in TxIds : PurgeCall(th, t)
  \/ PurgeExpiredBegin(th)
  \/ PurgeExpiredLocked(th)
  \/ PurgeAllCall(th)
  \/ \E t \in TxIds : ScrubOne(th, t)
  \/ ScrubDone(th)

Next == Tick \/ \E th \in Threads : ThreadStep(th)

Spec == Init /\ [][Next]_vars

-----------------------------------------------------------------------------
(***************************************************************************)
(* Properties                                                              *)
(***************************************************************************)

(* No buffer leaves RAM unwiped, whatever the threads interleave.          *)
BytesLedger == BytesAccounted(store)

(* Every staging and every removal leaves one event (_log_event callers,   *)
(* memory_store.py:183, 256).                                              *)
EventLedger == PayloadsAccounted(store)

(* The dashboard's log and its list of entries tell the same story         *)
(* (ram_snapshot, memory_store.py:112-145).                                *)
LogConsistent == LogAgreesWithRam(store)

(* total_purged_expired agrees with the log whenever no thread is inside   *)
(* the lock: both counting paths (retrieve and purge_expired) are covered. *)
ExpiryCounter == lock = None => ExpiriesCounted(store)

(* An EXPIRE removal never hits an entry that has time left, although      *)
(* purge_expired compares with a clock value read before the lock and a    *)
(* thread may have overwritten the ticket in between.                      *)
NoEarlyExpiry ==
  [][\A t \in ExpiredBetween(store, store') : store.data[t].expires_at <= clock]_vars

(* A purge_expired call that returns has removed every entry that was      *)
(* expired when it was called.                                             *)
PassIsComplete ==
  [][\A th \in Threads :
       pc[th] = "expire_loop" /\ pc'[th] = "idle"
         => \A t \in Held(store') : store'.data[t].expires_at > now[th]]_vars

=============================================================================
