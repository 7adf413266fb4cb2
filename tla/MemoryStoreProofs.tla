------------------------- MODULE MemoryStoreProofs -------------------------
(***************************************************************************)
(* Safety of the store shared by threads, for every number of threads and  *)
(* tickets, every TTL, payload size, log length and bound.                 *)
(*                                                                         *)
(* The inductive invariant IInv adds to the properties what each thread    *)
(* knows between its steps: only the lock holder is inside a purge loop,   *)
(* the clock value it read is not in the future, and its list of tickets   *)
(* is still exactly the entries that value makes expired.  The last part   *)
(* is where the lock matters: another thread that could stage in between   *)
(* would break it.                                                         *)
(***************************************************************************)
EXTENDS MemoryStore, RamStoreProofs

LockInv ==
  \A th \in Threads : pc[th] \in {"expire_loop", "wipe_loop"} <=> lock = th

StageInv ==
  \A th \in Threads : pc[th] = "stage" => pending[th] \in Pending

NowInv == \A th \in Threads : now[th] <= clock

LoopInv ==
  \A th \in Threads : pc[th] = "expire_loop" =>
    /\ \A t \in todo[th] :
         t \in Held(store) /\ store.data[t].expires_at <= now[th]
    /\ \A t \in Held(store) \ todo[th] : store.data[t].expires_at > now[th]

IInv ==
  /\ TypeOK
  /\ Consistent(store)
  /\ LockInv
  /\ StageInv
  /\ NowInv
  /\ LoopInv

LEMMA InitIInv == Init => IInv
<1> SUFFICES ASSUME Init PROVE IInv
  OBVIOUS
<1>1. TypeOK
  <2>1. store \in Store /\ Len(store.events) <= RAM_EVENT_LOG_SIZE
    BY EmptyStoreType, RamStoreAssumption DEF Init
  <2> QED  BY <2>1 DEF Init, TypeOK, PCs
<1>2. Consistent(store)
  BY EmptyConsistent DEF Init
<1>3. LockInv /\ StageInv /\ NowInv /\ LoopInv
  BY MemoryStoreAssumption DEF Init, LockInv, StageInv, NowInv, LoopInv
<1> QED  BY <1>1, <1>2, <1>3 DEF IInv

(* A step that keeps the store and the locals and does not turn the clock  *)
(* back.                                                                   *)
LEMMA TickIInv ==
  ASSUME IInv, Tick
  PROVE  IInv'
<1>1. TypeOK'
  BY DEF IInv, TypeOK, Tick, locals
<1>2. Consistent(store)'
  BY DEF IInv, Tick
<1>3. NowInv'
  <2>1. clock \in Nat /\ now \in [Threads -> Nat] /\ clock' = clock + 1 /\ now' = now
    BY DEF IInv, TypeOK, Tick, locals
  <2> QED  BY <2>1 DEF IInv, NowInv
<1>4. (LockInv /\ StageInv /\ LoopInv)'
  BY DEF IInv, LockInv, StageInv, LoopInv, Tick, locals
<1> QED  BY <1>1, <1>2, <1>3, <1>4 DEF IInv

LEMMA StageBeginIInv ==
  ASSUME IInv, NEW th \in Threads, NEW t \in TxIds, NEW a \in Addresses,
         NEW p \in Payloads, NEW ttl \in TTLs, StageBegin(th, t, a, p, ttl)
  PROVE  IInv'
<1> DEFINE args == [tx_id |-> t, recipient |-> a, payload |-> p,
                    expires_at |-> clock + ttl]
<1>1. args \in Pending
  BY MemoryStoreAssumption DEF IInv, TypeOK, Pending
<1>2. /\ pending' = [pending EXCEPT ![th] = args]
      /\ pc' = [pc EXCEPT ![th] = "stage"] /\ pc[th] = "idle"
      /\ UNCHANGED <<clock, store, lock, now, todo, found>>
  BY DEF StageBegin
<1> HIDE DEF args
<1>3. TypeOK'
  BY <1>1, <1>2 DEF IInv, TypeOK, PCs
<1>4. Consistent(store)'
  BY <1>2 DEF IInv
<1>5. LockInv' /\ NowInv'
  BY <1>2 DEF IInv, TypeOK, LockInv, NowInv
<1>6. StageInv'
  BY <1>1, <1>2 DEF IInv, TypeOK, StageInv
<1>7. LoopInv'
  BY <1>2 DEF IInv, TypeOK, LoopInv
<1> QED  BY <1>3, <1>4, <1>5, <1>6, <1>7 DEF IInv

LEMMA StageLockedIInv ==
  ASSUME IInv, NEW th \in Threads, StageLocked(th)
  PROVE  IInv'
<1>1. /\ pc[th] = "stage" /\ lock = None
      /\ pc' = [pc EXCEPT ![th] = "idle"]
      /\ pending' = [pending EXCEPT ![th] = None]
      /\ UNCHANGED <<clock, lock, now, todo, found>>
  BY DEF StageLocked
<1>2. Consistent(store')
  <2>1. pending[th] \in Pending
    BY <1>1 DEF IInv, StageInv
  <2>2. /\ pending[th].tx_id \in TxIds /\ pending[th].recipient \in Addresses
        /\ pending[th].payload \in Payloads /\ pending[th].expires_at \in Nat
    BY <2>1 DEF Pending
  <2> QED  BY <2>2, StageConsistent DEF IInv, StageLocked
<1>3. store' \in Store /\ Len(store'.events) <= RAM_EVENT_LOG_SIZE
  BY <1>2, ConsistentLogBounded DEF Consistent
<1>4. TypeOK'
  BY <1>1, <1>3 DEF IInv, TypeOK, PCs
<1>5. (LockInv /\ StageInv /\ NowInv)'
  BY <1>1 DEF IInv, TypeOK, LockInv, StageInv, NowInv
<1>6. LoopInv'
  <2>1. \A u \in Threads : pc[u] # "expire_loop"
    BY <1>1, MemoryStoreAssumption DEF IInv, LockInv
  <2> QED  BY <1>1, <2>1 DEF IInv, TypeOK, LoopInv
<1> QED  BY <1>2, <1>4, <1>5, <1>6 DEF IInv

(* A method that takes the free lock once and only changes the store.      *)
LEMMA OneLockIInv ==
  ASSUME IInv, lock = None, Consistent(store'),
         UNCHANGED <<clock, lock, pc, locals>>
  PROVE  IInv'
<1>1. store' \in Store /\ Len(store'.events) <= RAM_EVENT_LOG_SIZE
  BY ConsistentLogBounded DEF Consistent
<1>2. TypeOK'
  BY <1>1 DEF IInv, TypeOK, locals
<1>3. (LockInv /\ StageInv /\ NowInv)'
  BY DEF IInv, LockInv, StageInv, NowInv, locals
<1>4. LoopInv'
  <2>1. \A u \in Threads : pc[u] # "expire_loop"
    BY MemoryStoreAssumption DEF IInv, LockInv
  <2> QED  BY <2>1 DEF LoopInv
<1> QED  BY <1>2, <1>3, <1>4 DEF IInv

LEMMA RetrieveCallIInv ==
  ASSUME IInv, NEW th \in Threads, NEW t \in TxIds, RetrieveCall(th, t)
  PROVE  IInv'
<1>1. Consistent(store')
  BY RetrieveConsistent DEF IInv, TypeOK, RetrieveCall
<1> QED  BY <1>1, OneLockIInv DEF RetrieveCall

LEMMA PurgeCallIInv ==
  ASSUME IInv, NEW th \in Threads, NEW t \in TxIds, PurgeCall(th, t)
  PROVE  IInv'
<1>1. Consistent(store')
  BY PurgeOneConsistent DEF IInv, PurgeCall, Reasons
<1> QED  BY <1>1, OneLockIInv DEF PurgeCall

LEMMA PurgeExpiredBeginIInv ==
  ASSUME IInv, NEW th \in Threads, PurgeExpiredBegin(th)
  PROVE  IInv'
<1>1. /\ pc[th] = "idle" /\ pc' = [pc EXCEPT ![th] = "purge_expired"]
      /\ now' = [now EXCEPT ![th] = clock]
      /\ UNCHANGED <<clock, store, lock, pending, todo, found>>
  BY DEF PurgeExpiredBegin
<1>2. TypeOK'
  BY <1>1 DEF IInv, TypeOK, PCs
<1>3. Consistent(store)'
  BY <1>1 DEF IInv
<1>4. (LockInv /\ StageInv)'
  BY <1>1 DEF IInv, TypeOK, LockInv, StageInv
<1>5. NowInv'
  BY <1>1 DEF IInv, TypeOK, NowInv
<1>6. LoopInv'
  BY <1>1 DEF IInv, TypeOK, LoopInv
<1> QED  BY <1>2, <1>3, <1>4, <1>5, <1>6 DEF IInv

LEMMA PurgeExpiredLockedIInv ==
  ASSUME IInv, NEW th \in Threads, PurgeExpiredLocked(th)
  PROVE  IInv'
<1> DEFINE expired == Expired(store, now[th])
<1>1. /\ pc[th] = "purge_expired" /\ lock = None /\ lock' = th
      /\ pc' = [pc EXCEPT ![th] = "expire_loop"]
      /\ todo' = [todo EXCEPT ![th] = expired]
      /\ found' = [found EXCEPT ![th] = Cardinality(expired)]
      /\ UNCHANGED <<clock, store, pending, now>>
  BY DEF PurgeExpiredLocked
<1>2. expired \in SUBSET TxIds /\ Cardinality(expired) \in Nat
  <2>1. expired \in SUBSET Held(store)
    BY DEF Expired
  <2> QED  BY <2>1, HeldFinite, FS_Subset, FS_CardinalityType DEF Held
<1>3. /\ \A t \in expired : t \in Held(store) /\ store.data[t].expires_at <= now[th]
      /\ \A t \in Held(store) \ expired : store.data[t].expires_at > now[th]
  <2>1. \A t \in Held(store) : store.data[t].expires_at \in Nat
    BY DEF IInv, TypeOK, Store, Held, Entry
  <2>2. now[th] \in Nat
    BY DEF IInv, TypeOK
  <2> QED  BY <2>1, <2>2 DEF Expired
<1> HIDE DEF expired
<1>4. TypeOK'
  BY <1>1, <1>2 DEF IInv, TypeOK, PCs
<1>5. Consistent(store)'
  BY <1>1 DEF IInv
<1>6. LockInv'
  BY <1>1, MemoryStoreAssumption DEF IInv, TypeOK, LockInv
<1>7. (StageInv /\ NowInv)'
  BY <1>1 DEF IInv, TypeOK, StageInv, NowInv
<1>8. LoopInv'
  <2>1. \A u \in Threads : pc[u] # "expire_loop"
    BY <1>1, MemoryStoreAssumption DEF IInv, LockInv
  <2> QED  BY <1>1, <1>3, <2>1 DEF IInv, TypeOK, LoopInv
<1> QED  BY <1>4, <1>5, <1>6, <1>7, <1>8 DEF IInv

LEMMA PurgeAllCallIInv ==
  ASSUME IInv, NEW th \in Threads, PurgeAllCall(th)
  PROVE  IInv'
<1>1. /\ pc[th] = "idle" /\ lock = None /\ lock' = th
      /\ pc' = [pc EXCEPT ![th] = "wipe_loop"]
      /\ todo' = [todo EXCEPT ![th] = Held(store)]
      /\ UNCHANGED <<clock, store, pending, now, found>>
  BY DEF PurgeAllCall
<1>2. Held(store) \in SUBSET TxIds
  BY DEF Held
<1>3. TypeOK'
  BY <1>1, <1>2 DEF IInv, TypeOK, PCs
<1>4. Consistent(store)'
  BY <1>1 DEF IInv
<1>5. LockInv'
  BY <1>1, MemoryStoreAssumption DEF IInv, TypeOK, LockInv
<1>6. (StageInv /\ NowInv)'
  BY <1>1 DEF IInv, TypeOK, StageInv, NowInv
<1>7. LoopInv'
  <2>1. \A u \in Threads : pc'[u] # "expire_loop"
    BY <1>1, MemoryStoreAssumption DEF IInv, TypeOK, LockInv
  <2> QED  BY <2>1 DEF LoopInv
<1> QED  BY <1>3, <1>4, <1>5, <1>6, <1>7 DEF IInv

(* One turn of a purge loop: the ticket leaves the store and the list      *)
(* together.                                                               *)
LEMMA ScrubOneIInv ==
  ASSUME IInv, NEW th \in Threads, NEW t \in TxIds, ScrubOne(th, t)
  PROVE  IInv'
<1> DEFINE reason == IF pc[th] = "expire_loop" THEN "EXPIRE" ELSE "WIPE"
<1>1. /\ pc[th] \in {"expire_loop", "wipe_loop"} /\ t \in todo[th]
      /\ store' = PurgeOne(store, t, reason)
      /\ todo' = [todo EXCEPT ![th] = @ \ {t}]
      /\ UNCHANGED <<clock, lock, pc, pending, now, found>>
  BY DEF ScrubOne, NextInDict
<1>2. reason \in Reasons
  BY DEF Reasons
<1> HIDE DEF reason
<1>3. Consistent(store')
  BY <1>1, <1>2, PurgeOneConsistent DEF IInv
<1>4. store' \in Store /\ Len(store'.events) <= RAM_EVENT_LOG_SIZE
  BY <1>3, ConsistentLogBounded DEF Consistent
<1>5. TypeOK'
  BY <1>1, <1>4 DEF IInv, TypeOK, PCs
<1>6. (LockInv /\ StageInv /\ NowInv)'
  BY <1>1 DEF IInv, LockInv, StageInv, NowInv
<1>7. LoopInv'
  <2> SUFFICES ASSUME NEW u \in Threads, pc[u] = "expire_loop"
               PROVE  /\ \A v \in todo'[u] : v \in Held(store')
                           /\ store'.data[v].expires_at <= now[u]
                      /\ \A v \in Held(store') \ todo'[u] :
                           store'.data[v].expires_at > now[u]
    BY <1>1 DEF LoopInv
  <2>1. u = th
    BY <1>1 DEF IInv, LockInv
  <2>2. t \in Held(store)
    BY <1>1, <2>1 DEF IInv, LoopInv
  <2>3. store'.data = [store.data EXCEPT ![t] = None]
    BY <1>1, <1>2, <2>2, PurgeHeldFields DEF IInv, TypeOK
  <2>4. /\ Held(store') = Held(store) \ {t}
        /\ \A v \in TxIds \ {t} : store'.data[v] = store.data[v]
    BY <2>3 DEF Held, IInv, TypeOK, Store
  <2>5. todo'[u] = todo[u] \ {t}
    BY <1>1, <2>1 DEF IInv, TypeOK
  <2>6. Held(store) \subseteq TxIds
    BY DEF Held
  <2> QED  BY <2>4, <2>5, <2>6 DEF IInv, LoopInv
<1> QED  BY <1>3, <1>5, <1>6, <1>7 DEF IInv

LEMMA ScrubDoneIInv ==
  ASSUME IInv, NEW th \in Threads, ScrubDone(th)
  PROVE  IInv'
<1>1. /\ pc[th] \in {"expire_loop", "wipe_loop"} /\ lock' = None
      /\ pc' = [pc EXCEPT ![th] = "idle"]
      /\ now' = [now EXCEPT ![th] = 0]
      /\ found' = [found EXCEPT ![th] = 0]
      /\ UNCHANGED <<clock, pending, todo>>
      /\ store' = CountExpired(store, found[th]) \/ store' = store
  BY DEF ScrubDone
<1>2. Consistent(store')
  <2>1. found[th] \in Nat
    BY DEF IInv, TypeOK
  <2> QED  BY <1>1, <2>1, CountExpiredConsistent DEF IInv
<1>3. store' \in Store /\ Len(store'.events) <= RAM_EVENT_LOG_SIZE
  BY <1>2, ConsistentLogBounded DEF Consistent
<1>4. TypeOK'
  BY <1>1, <1>3 DEF IInv, TypeOK, PCs
<1>5. lock = th
  BY <1>1 DEF IInv, LockInv
<1>6. LockInv'
  BY <1>1, <1>5, MemoryStoreAssumption DEF IInv, TypeOK, LockInv
<1>7. (StageInv /\ NowInv)'
  BY <1>1 DEF IInv, TypeOK, StageInv, NowInv
<1>8. LoopInv'
  <2>1. \A u \in Threads : pc'[u] # "expire_loop"
    BY <1>1, <1>5 DEF IInv, TypeOK, LockInv
  <2> QED  BY <2>1 DEF LoopInv
<1> QED  BY <1>2, <1>4, <1>6, <1>7, <1>8 DEF IInv

LEMMA StutterIInv ==
  ASSUME IInv, UNCHANGED vars
  PROVE  IInv'
BY DEF IInv, vars, TypeOK, LockInv, StageInv, NowInv, LoopInv

LEMMA NextIInv == IInv /\ [Next]_vars => IInv'
<1> SUFFICES ASSUME IInv, [Next]_vars PROVE IInv'
  OBVIOUS
<1>1. CASE Tick
  BY <1>1, TickIInv
<1>2. ASSUME NEW th \in Threads, ThreadStep(th)
      PROVE  IInv'
  BY <1>2, StageBeginIInv, StageLockedIInv, RetrieveCallIInv, PurgeCallIInv,
     PurgeExpiredBeginIInv, PurgeExpiredLockedIInv, PurgeAllCallIInv,
     ScrubOneIInv, ScrubDoneIInv DEF ThreadStep
<1>3. CASE UNCHANGED vars
  BY <1>3, StutterIInv
<1> QED  BY <1>1, <1>2, <1>3 DEF Next

LEMMA Invariance == Spec => []IInv
BY InitIInv, NextIInv, PTL DEF Spec

-----------------------------------------------------------------------------
(***************************************************************************)
(* The theorems                                                            *)
(***************************************************************************)

(* Every variable keeps its type and the event deque never exceeds maxlen. *)
THEOREM TypeCorrect == Spec => []TypeOK
BY Invariance, PTL DEF IInv

(* Whatever the threads interleave, stagings, removals and events balance: *)
(* nothing enters or leaves the dict unlogged.                             *)
THEOREM LedgerBalances == Spec => []EventLedger
<1>1. IInv => EventLedger
  BY DEF IInv, Consistent, EventLedger
<1> QED  BY Invariance, <1>1, PTL

(* And so do the bytes: what was staged is held or was overwritten, at     *)
(* every moment and also between two turns of a purge.                     *)
THEOREM BytesBalance == Spec => []BytesLedger
<1>1. IInv => BytesLedger
  BY DEF IInv, Consistent, BytesLedger
<1> QED  BY Invariance, <1>1, PTL

(* The dashboard's event log is the gap-free suffix of the history and     *)
(* agrees with the entries in RAM about every ticket it mentions.          *)
THEOREM LogIsTruthful == Spec => []LogConsistent
<1>1. IInv => LogConsistent
  BY DEF IInv, Consistent, LogConsistent
<1> QED  BY Invariance, <1>1, PTL

(* If a step logs one event at most, that event is the only one numbered   *)
(* above the old sequence number.                                          *)
LEMMA NewestEvent ==
  ASSUME NEW s \in Store, NEW t \in TxIds, NEW r \in Reasons, t \in Held(s),
         Consistent(s),
         NEW i \in DOMAIN PurgeOne(s, t, r).events,
         PurgeOne(s, t, r).events[i].seq > s.seq
  PROVE  PurgeOne(s, t, r).events[i] = PurgeEvent(s, t, r)
<1> DEFINE s2 == PurgeOne(s, t, r)
           e == PurgeEvent(s, t, r)
<1>1. /\ s2.events = Push(s.events, e) /\ s2.seq = s.seq + 1 /\ e \in Event
      /\ Len(s.events) <= RAM_EVENT_LOG_SIZE
      /\ s2 \in Store /\ Consistent(s2)
  BY PurgeHeldFields, ConsistentLogBounded, PurgeOneConsistent
<1>2. s.events \in Seq(Event) /\ s.seq \in Nat
  BY DEF Store
<1> HIDE DEF s2, e
<1>3. PICK d \in {0, 1} : Shifted(s.events, s2.events, e, d)
  BY <1>1, <1>2, PushShift
<1>4. s2.events[Len(s2.events)] = e
  BY <1>3 DEF Shifted
<1>5. /\ s2.events \in Seq(Event) /\ Len(s2.events) \in Nat
      /\ DOMAIN s2.events = 1..Len(s2.events)
  BY <1>1 DEF Store
<1>6. s2.events[i].seq = s2.seq - Len(s2.events) + i /\ i \in 1..Len(s2.events)
  BY <1>1, <1>5 DEF Consistent, LogAgreesWithRam, LogIsSuffix, s2
<1>7. i = Len(s2.events)
  BY <1>1, <1>2, <1>5, <1>6 DEF s2
<1> QED  BY <1>4, <1>7 DEF s2, e

(* Only an EXPIRE removal counts as an expiry.                             *)
LEMMA WipeIsNoExpiry ==
  ASSUME NEW s \in Store, NEW t \in TxIds, Consistent(s)
  PROVE  ExpiredBetween(s, PurgeOne(s, t, "WIPE")) = {}
<1> DEFINE s2 == PurgeOne(s, t, "WIPE")
<1>1. CASE t \notin Held(s)
  BY <1>1 DEF Held, PurgeOne, ExpiredBetween
<1>2. CASE t \in Held(s)
  <2>1. ASSUME NEW i \in DOMAIN s2.events, s2.events[i].seq > s.seq
        PROVE  s2.events[i].action = "WIPE"
    <3>1. s2.events[i] = PurgeEvent(s, t, "WIPE")
      BY <1>2, <2>1, NewestEvent DEF Reasons
    <3> QED  BY <3>1 DEF PurgeEvent
  <2> QED  BY <2>1 DEF ExpiredBetween
<1> QED  BY <1>1, <1>2

(* One removal takes one ticket.                                           *)
LEMMA ExpiredIsPurged ==
  ASSUME NEW s \in Store, NEW t \in TxIds, NEW r \in Reasons,
         NEW u \in ExpiredBetween(s, PurgeOne(s, t, r))
  PROVE  u = t
<1>1. u \in Held(s) /\ u \notin Held(PurgeOne(s, t, r)) /\ u \in TxIds
  BY DEF ExpiredBetween, Held
<1>2. CASE t \notin Held(s)
  BY <1>1, <1>2 DEF Held, PurgeOne
<1>3. CASE t \in Held(s)
  <2>1. PurgeOne(s, t, r).data = [s.data EXCEPT ![t] = None]
    BY <1>3, PurgeHeldFields
  <2> QED  BY <1>1, <2>1 DEF Held, Store
<1> QED  BY <1>2, <1>3

LEMMA SameHeldNoExpiry ==
  ASSUME NEW s, NEW s2, Held(s) \subseteq Held(s2)
  PROVE  ExpiredBetween(s, s2) = {}
BY DEF ExpiredBetween

(* A staging only adds its ticket to those held.                           *)
LEMMA StageHeld ==
  ASSUME NEW s, Consistent(s), NEW t \in TxIds, NEW a \in Addresses,
         NEW p \in Payloads, NEW x \in Nat
  PROVE  Held(s) \subseteq Held(Stage(s, t, a, p, x))
<1> DEFINE s1 == PurgeOne(s, t, "WIPE")
           e == NewEntry(s1, a, p, x)
<1>1. s1 \in Store /\ s \in Store
  BY PurgeOneConsistent DEF Consistent, Reasons
<1>2. \A u \in TxIds \ {t} : s1.data[u] = s.data[u]
  <2>1. CASE t \notin Held(s)
    BY <2>1 DEF Held, PurgeOne
  <2>2. CASE t \in Held(s)
    <3>1. s1.data = [s.data EXCEPT ![t] = None]
      BY <1>1, <2>2, PurgeHeldFields DEF Reasons
    <3> QED  BY <1>1, <3>1 DEF Store
  <2> QED  BY <2>1, <2>2
<1>3. Stage(s, t, a, p, x) = Insert(s1, t, a, p, x)
  BY DEF Stage
<1> DEFINE s2 == Insert(s1, t, a, p, x)
<1> HIDE DEF s1
<1>4. s2.data = [s1.data EXCEPT ![t] = e] /\ e # None
  <2>1. Inserted(s1, s2, t, a, p, x)
    BY <1>1, InsertFields
  <2> QED  BY <2>1 DEF Inserted
<1> HIDE DEF e
<1> QED  BY <1>1, <1>2, <1>3, <1>4 DEF Held, Store

LEMMA NoEarlyExpiryStep ==
  ASSUME IInv, [Next]_vars, NEW t \in ExpiredBetween(store, store')
  PROVE  store.data[t].expires_at <= clock
<1>0. /\ store \in Store /\ Consistent(store)
      /\ t \in Held(store) /\ t \notin Held(store') /\ t \in TxIds
  BY DEF IInv, TypeOK, ExpiredBetween, Held
<1>1. CASE store' = store
  BY <1>0, <1>1
<1>2. ASSUME NEW th \in Threads, StageLocked(th)
      PROVE  FALSE
  <2>1. pending[th] \in Pending
    BY <1>2 DEF IInv, StageInv, StageLocked
  <2>2. Held(store) \subseteq Held(store')
    BY <1>0, <1>2, <2>1, StageHeld DEF StageLocked, Pending
  <2> QED  BY <1>0, <2>2
<1>3. ASSUME NEW th \in Threads, NEW u \in TxIds, RetrieveCall(th, u)
      PROVE  store.data[t].expires_at <= clock
  <2>1. CASE store.data[u] = None
    BY <1>0, <1>3, <2>1 DEF RetrieveCall, Retrieve
  <2>2. CASE store.data[u] # None /\ u \in Expired(store, clock)
    <3> DEFINE s1 == PurgeOne(store, u, "EXPIRE")
    <3>1. store' = CountExpired(s1, 1)
      BY <1>3, <2>2 DEF RetrieveCall, Retrieve
    <3>2. s1 \in Store
      BY <1>0, PurgeOneConsistent DEF Consistent, Reasons
    <3>3. store'.data = s1.data /\ store'.events = s1.events
      <4> HIDE DEF s1
      <4> QED  BY <3>1, <3>2 DEF CountExpired, Store
    <3>4. t \in ExpiredBetween(store, s1)
      BY <3>3 DEF ExpiredBetween, Held
    <3>5. t = u
      BY <1>0, <3>4, ExpiredIsPurged DEF Reasons
    <3>6. clock \in Nat /\ store.data[u].expires_at \in Nat
      BY <1>0, <3>5 DEF IInv, TypeOK, Store, Held, Entry
    <3> QED  BY <2>2, <3>5, <3>6 DEF Expired
  <2>3. CASE store.data[u] # None /\ u \notin Expired(store, clock)
    <3>1. store'.data = store.data
      BY <1>0, <1>3, <2>3 DEF RetrieveCall, Retrieve, Store
    <3> QED  BY <1>0, <3>1 DEF Held
  <2> QED  BY <2>1, <2>2, <2>3
<1>4. ASSUME NEW th \in Threads, NEW u \in TxIds, PurgeCall(th, u)
      PROVE  FALSE
  BY <1>0, <1>4, WipeIsNoExpiry DEF PurgeCall
<1>5. ASSUME NEW th \in Threads, NEW u \in TxIds, ScrubOne(th, u)
      PROVE  store.data[t].expires_at <= clock
  <2>1. CASE pc[th] = "wipe_loop"
    BY <1>0, <1>5, <2>1, WipeIsNoExpiry DEF ScrubOne
  <2>2. CASE pc[th] = "expire_loop"
    <3>1. store' = PurgeOne(store, u, "EXPIRE") /\ u \in todo[th]
      BY <1>5, <2>2 DEF ScrubOne, NextInDict
    <3>2. t = u
      BY <1>0, <3>1, ExpiredIsPurged DEF Reasons
    <3>3. store.data[t].expires_at <= now[th] /\ now[th] <= clock
      BY <2>2, <3>1, <3>2 DEF IInv, LoopInv, NowInv
    <3>4. /\ clock \in Nat /\ now[th] \in Nat /\ store.data[t].expires_at \in Nat
      BY <1>0 DEF IInv, TypeOK, Store, Held, Entry
    <3> QED  BY <3>3, <3>4
  <2> QED  BY <1>5, <2>1, <2>2 DEF ScrubOne
<1>6. ASSUME NEW th \in Threads, ScrubDone(th)
      PROVE  FALSE
  <2>1. store'.data = store.data
    BY <1>0, <1>6 DEF ScrubDone, CountExpired, Store
  <2> QED  BY <1>0, <2>1 DEF Held
<1> QED
  BY <1>1, <1>2, <1>3, <1>4, <1>5, <1>6
  DEF Next, ThreadStep, vars, Tick, StageBegin, PurgeExpiredBegin,
      PurgeExpiredLocked, PurgeAllCall

(* No payload is removed as expired while it has time left, although       *)
(* purge_expired decides with a clock value read before it had the lock.   *)
THEOREM NeverExpiresEarly == Spec => NoEarlyExpiry
<1>1. IInv /\ [Next]_vars =>
        [\A t \in ExpiredBetween(store, store') : store.data[t].expires_at <= clock]_vars
  BY NoEarlyExpiryStep
<1> QED  BY Invariance, <1>1, PTL DEF Spec, NoEarlyExpiry

(* A purge_expired call that returns has left nothing that was expired     *)
(* when it was called.                                                     *)
THEOREM PassesAreComplete == Spec => PassIsComplete
<1> DEFINE Complete ==
      \A th \in Threads :
        pc[th] = "expire_loop" /\ pc'[th] = "idle"
          => \A t \in Held(store') : store'.data[t].expires_at > now[th]
<1>1. ASSUME IInv, [Next]_vars
      PROVE  [Complete]_vars
  <2> SUFFICES ASSUME NEW th \in Threads, pc[th] = "expire_loop", pc'[th] = "idle",
                      Next
               PROVE  \A t \in Held(store') : store'.data[t].expires_at > now[th]
    BY <1>1 DEF Complete
  <2>1. ScrubDone(th)
    BY <1>1 DEF Next, ThreadStep, Tick, StageBegin, StageLocked, RetrieveCall,
       PurgeCall, PurgeExpiredBegin, PurgeExpiredLocked, PurgeAllCall, ScrubOne,
       ScrubDone, IInv, TypeOK, LockInv, locals
  <2>2. store'.data = store.data /\ todo[th] = {}
    BY <1>1, <2>1 DEF ScrubDone, CountExpired, Store, IInv, TypeOK
  <2> QED  BY <1>1, <2>2 DEF IInv, LoopInv, Held
<1>2. IInv /\ [Next]_vars => [Complete]_vars
  BY <1>1
<1> QED  BY Invariance, <1>2, PTL DEF Spec, PassIsComplete

-----------------------------------------------------------------------------
(***************************************************************************)
(* The expiry counter lags behind the log by what the purge in its loop    *)
(* has removed so far: it counts when the loop is over.                    *)
(***************************************************************************)

InLoop(th) == lock = th /\ pc[th] = "expire_loop"

CountInv ==
  /\ \A th \in Threads : InLoop(th) =>
       /\ Cardinality(todo[th]) <= found[th]
       /\ Lags(store, found[th] - Cardinality(todo[th]))
  /\ (\A th \in Threads : ~InLoop(th)) => Lags(store, 0)

(* Steps outside the loop of purge_expired, which leave no lag.            *)
LEMMA QuietCount ==
  ASSUME \A th \in Threads : ~InLoop(th)', Lags(store', 0)
  PROVE  CountInv'
BY DEF CountInv

(* Steps that leave the loops alone and keep the store.                    *)
LEMMA SameCount ==
  ASSUME IInv, CountInv, store' = store, lock' = lock, todo' = todo, found' = found,
         \A th \in Threads : pc'[th] = "expire_loop" <=> pc[th] = "expire_loop"
  PROVE  CountInv'
BY DEF CountInv, InLoop

LEMMA TodoFinite ==
  ASSUME TypeOK, NEW th \in Threads
  PROVE  IsFiniteSet(todo[th]) /\ Cardinality(todo[th]) \in Nat
<1>1. todo[th] \in SUBSET TxIds
  BY DEF TypeOK
<1> QED  BY <1>1, RamStoreAssumption, FS_Subset, FS_CardinalityType

LEMMA ScrubOneCount ==
  ASSUME IInv, CountInv, NEW th \in Threads, NEW t \in TxIds, ScrubOne(th, t)
  PROVE  CountInv'
<1>1. /\ TypeOK /\ Consistent(store) /\ lock = th
      /\ pc[th] \in {"expire_loop", "wipe_loop"} /\ t \in todo[th]
      /\ store' = PurgeOne(store, t, IF pc[th] = "expire_loop" THEN "EXPIRE" ELSE "WIPE")
      /\ todo' = [todo EXCEPT ![th] = @ \ {t}]
      /\ UNCHANGED <<lock, pc, found>>
  BY DEF IInv, LockInv, ScrubOne, NextInDict
<1>2. CASE pc[th] = "wipe_loop"
  <2>1. \A u \in Threads : ~InLoop(u) /\ ~InLoop(u)'
    BY <1>1, <1>2 DEF InLoop
  <2>2. Lags(store', 0)
    BY <1>1, <1>2, <2>1, WipeLags DEF CountInv
  <2> QED  BY <2>1, <2>2, QuietCount
<1>3. CASE pc[th] = "expire_loop"
  <2> DEFINE n == Cardinality(todo[th])
             k == found[th] - n
  <2>1. /\ InLoop(th) /\ InLoop(th)'
        /\ \A u \in Threads : InLoop(u)' => u = th
    BY <1>1, <1>3 DEF InLoop
  <2>2. n \in Nat /\ found[th] \in Nat /\ n <= found[th] /\ Lags(store, k)
    BY <1>1, <2>1, TodoFinite DEF CountInv, TypeOK
  <2>3. Cardinality(todo'[th]) = n - 1 /\ n - 1 \in Nat
    <3>1. todo'[th] = todo[th] \ {t}
      BY <1>1 DEF TypeOK
    <3>2. Cardinality(todo[th] \ {t}) = n - 1 /\ Cardinality(todo[th] \ {t}) \in Nat
      BY <1>1, TodoFinite, FS_RemoveElement, FS_CardinalityType
    <3> QED  BY <3>1, <3>2
  <2>4. Lags(store', k + 1)
    <3>1. t \in Held(store)
      BY <1>1, <1>3 DEF IInv, LoopInv
    <3>2. k \in Nat
      BY <2>2
    <3> HIDE DEF k
    <3> QED  BY <1>1, <1>3, <2>2, <3>1, <3>2, PurgeHeldLags DEF Reasons
  <2>5. k + 1 = found'[th] - Cardinality(todo'[th]) /\ Cardinality(todo'[th]) <= found'[th]
    BY <1>1, <2>2, <2>3
  <2> QED  BY <2>1, <2>4, <2>5 DEF CountInv
<1> QED  BY <1>1, <1>2, <1>3

LEMMA ScrubDoneCount ==
  ASSUME IInv, CountInv, NEW th \in Threads, ScrubDone(th)
  PROVE  CountInv'
<1>1. /\ TypeOK /\ Consistent(store) /\ lock = th /\ lock' = None
      /\ pc[th] \in {"expire_loop", "wipe_loop"} /\ todo[th] = {}
      /\ store' = IF pc[th] = "expire_loop" THEN CountExpired(store, found[th]) ELSE store
  BY DEF IInv, LockInv, ScrubDone
<1>2. \A u \in Threads : ~InLoop(u)'
  BY <1>1, MemoryStoreAssumption DEF InLoop
<1>3. Lags(store', 0)
  <2>1. CASE pc[th] = "expire_loop"
    <3>1. found[th] \in Nat /\ store \in Store
      BY <1>1 DEF TypeOK
    <3>2. Lags(store, found[th] - 0)
      BY <1>1, <2>1, FS_EmptySet DEF CountInv, InLoop
    <3>3. found[th] - 0 = found[th]
      BY <3>1
    <3> QED  BY <1>1, <2>1, <3>1, <3>2, <3>3, CountExpiredLags
  <2>2. CASE pc[th] = "wipe_loop"
    BY <1>1, <2>2 DEF CountInv, InLoop
  <2> QED  BY <1>1, <2>1, <2>2
<1> QED  BY <1>2, <1>3, QuietCount

LEMMA PurgeExpiredLockedCount ==
  ASSUME IInv, CountInv, NEW th \in Threads, PurgeExpiredLocked(th)
  PROVE  CountInv'
<1> DEFINE expired == Expired(store, now[th])
<1>1. /\ TypeOK /\ lock = None /\ lock' = th /\ store' = store
      /\ pc' = [pc EXCEPT ![th] = "expire_loop"]
      /\ todo' = [todo EXCEPT ![th] = expired]
      /\ found' = [found EXCEPT ![th] = Cardinality(expired)]
  BY DEF IInv, PurgeExpiredLocked
<1>2. Cardinality(expired) \in Nat
  <2>1. expired \in SUBSET Held(store)
    BY DEF Expired
  <2> QED  BY <2>1, HeldFinite, FS_Subset, FS_CardinalityType
<1> HIDE DEF expired
<1>3. Lags(store', 0)
  BY <1>1, MemoryStoreAssumption DEF CountInv, InLoop
<1>4. /\ todo'[th] = expired /\ found'[th] = Cardinality(expired)
      /\ InLoop(th)' /\ \A u \in Threads : InLoop(u)' => u = th
  BY <1>1 DEF TypeOK, InLoop
<1>5. found'[th] - Cardinality(todo'[th]) = 0 /\ Cardinality(todo'[th]) <= found'[th]
  BY <1>2, <1>4
<1> QED  BY <1>3, <1>4, <1>5 DEF CountInv

(* A method that takes the free lock once finds no lag and leaves none.    *)
LEMMA OneLockCount ==
  ASSUME CountInv, lock = None, lock' = None, Lags(store, 0) => Lags(store', 0)
  PROVE  CountInv'
<1>1. \A th \in Threads : ~InLoop(th) /\ ~InLoop(th)'
  BY MemoryStoreAssumption DEF InLoop
<1> QED  BY <1>1, QuietCount DEF CountInv

LEMMA NextCount == IInv /\ CountInv /\ [Next]_vars => CountInv'
<1> SUFFICES ASSUME IInv, CountInv, [Next]_vars PROVE CountInv'
  OBVIOUS
<1>0. TypeOK /\ Consistent(store) /\ clock \in Nat
  BY DEF IInv, TypeOK
<1>1. CASE Tick \/ UNCHANGED vars
  BY <1>1, SameCount DEF Tick, vars, locals
<1>2. ASSUME NEW th \in Threads, NEW t \in TxIds, NEW a \in Addresses,
             NEW p \in Payloads, NEW ttl \in TTLs, StageBegin(th, t, a, p, ttl)
      PROVE  CountInv'
  BY <1>0, <1>2, SameCount DEF StageBegin, TypeOK
<1>3. ASSUME NEW th \in Threads, StageLocked(th)
      PROVE  CountInv'
  <2>1. pending[th] \in Pending
    BY <1>3 DEF IInv, StageInv, StageLocked
  <2>2. /\ pending[th].tx_id \in TxIds /\ pending[th].recipient \in Addresses
        /\ pending[th].payload \in Payloads /\ pending[th].expires_at \in Nat
    BY <2>1 DEF Pending
  <2> QED  BY <1>0, <1>3, <2>2, StageLags, OneLockCount DEF StageLocked
<1>4. ASSUME NEW th \in Threads, NEW t \in TxIds, RetrieveCall(th, t)
      PROVE  CountInv'
  BY <1>0, <1>4, RetrieveLags, OneLockCount DEF RetrieveCall
<1>5. ASSUME NEW th \in Threads, NEW t \in TxIds, PurgeCall(th, t)
      PROVE  CountInv'
  BY <1>0, <1>5, WipeLags, OneLockCount DEF PurgeCall
<1>6. ASSUME NEW th \in Threads, PurgeExpiredBegin(th)
      PROVE  CountInv'
  BY <1>0, <1>6, SameCount DEF PurgeExpiredBegin, TypeOK
<1>7. ASSUME NEW th \in Threads, PurgeAllCall(th)
      PROVE  CountInv'
  <2>1. /\ lock = None /\ lock' = th /\ store' = store
        /\ pc' = [pc EXCEPT ![th] = "wipe_loop"]
    BY <1>7 DEF PurgeAllCall
  <2>2. \A u \in Threads : ~InLoop(u) /\ ~InLoop(u)'
    BY <1>0, <2>1, MemoryStoreAssumption DEF InLoop, TypeOK
  <2> QED  BY <2>1, <2>2, QuietCount DEF CountInv
<1> QED
  BY <1>1, <1>2, <1>3, <1>4, <1>5, <1>6, <1>7, PurgeExpiredLockedCount,
     ScrubOneCount, ScrubDoneCount DEF Next, ThreadStep

(* However purges, overwrites and lookups interleave, the number of        *)
(* expiries the dashboard shows is the number its log shows, whenever no   *)
(* thread is inside the lock (memory_store.py:211, 284).                   *)
THEOREM ExpiriesAreCounted == Spec => []ExpiryCounter
<1>1. Init => CountInv
  <2> SUFFICES ASSUME Init PROVE CountInv
    OBVIOUS
  <2>1. \A th \in Threads : ~InLoop(th)
    BY DEF Init, InLoop
  <2> QED  BY <2>1, EmptyLags DEF CountInv, Init
<1>2. IInv /\ CountInv => ExpiryCounter
  <2> SUFFICES ASSUME IInv, CountInv, lock = None PROVE ExpiriesCounted(store)
    BY DEF ExpiryCounter
  <2>1. Lags(store, 0)
    BY MemoryStoreAssumption DEF CountInv, InLoop
  <2> QED  BY <2>1, NoLag DEF IInv, TypeOK
<1> QED  BY Invariance, NextCount, <1>1, <1>2, PTL DEF Spec

=============================================================================
