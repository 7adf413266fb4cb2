---------------------------- MODULE BrokerProofs ----------------------------
(***************************************************************************)
(* Safety of the broker, for every ticket set, wallet set, TTL, interval,  *)
(* clock drift, log length and bound.                                      *)
(*                                                                         *)
(* Every handler and every purge step changes the dict in one of two ways: *)
(* it only removes entries (`Shrinks`), or it puts one entry with a fresh  *)
(* number in place of what its ticket held (`PutsOne`).  The inductive     *)
(* invariant is built on that: the numbers of the entries held are         *)
(* distinct and were handed out already, no number told to be gone is held *)
(* again, and the loop of purge_all has listed every entry there is.       *)
(***************************************************************************)
EXTENDS Broker, RamStoreProofs

(* s2 differs from s by removals only.                                     *)
Shrinks(s, s2) ==
  /\ s2.total_staged = s.total_staged
  /\ Held(s2) \subseteq Held(s)
  /\ \A t \in Held(s2) : s2.data[t] = s.data[t]

(* s2 is s with ticket t holding a new entry, the last one numbered.       *)
PutsOne(s, s2, t, a, x) ==
  /\ s2.total_staged = s.total_staged + 1
  /\ Held(s2) = Held(s) \cup {t}
  /\ \A u \in Held(s2) \ {t} : s2.data[u] = s.data[u]
  /\ s2.data[t].order = s.total_staged + 1
  /\ s2.data[t].recipient = a
  /\ s2.data[t].expires_at = x

LEMMA SameShrinks ==
  ASSUME NEW s, NEW s2, s2.total_staged = s.total_staged, s2.data = s.data
  PROVE  Shrinks(s, s2)
BY DEF Shrinks, Held

LEMMA PurgeOneShrinks ==
  ASSUME NEW s \in Store, NEW t \in TxIds, NEW r \in Reasons
  PROVE  /\ Shrinks(s, PurgeOne(s, t, r))
         /\ Held(PurgeOne(s, t, r)) = Held(s) \ {t}
<1> DEFINE s2 == PurgeOne(s, t, r)
<1>1. CASE t \notin Held(s)
  <2>1. s2 = s
    BY <1>1 DEF Held, PurgeOne
  <2> QED  BY <1>1, <2>1 DEF Shrinks
<1>2. CASE t \in Held(s)
  <2>1. s2.data = [s.data EXCEPT ![t] = None] /\ s2.total_staged = s.total_staged
    BY <1>2, PurgeHeldFields
  <2>2. s.data \in [TxIds -> Entry \cup {None}]
    BY DEF Store
  <2> HIDE DEF s2
  <2>3. Held(s2) = Held(s) \ {t} /\ \A u \in TxIds \ {t} : s2.data[u] = s.data[u]
    BY <2>1, <2>2 DEF Held
  <2>4. Held(s2) \subseteq TxIds \ {t}
    BY <2>3 DEF Held
  <2>5. Shrinks(s, s2)
    BY <2>1, <2>3, <2>4 DEF Shrinks
  <2> QED  BY <2>3, <2>5 DEF s2
<1> QED  BY <1>1, <1>2

LEMMA CountExpiredShrinks ==
  ASSUME NEW s \in Store, NEW n \in Nat
  PROVE  Shrinks(s, CountExpired(s, n)) /\ Held(CountExpired(s, n)) = Held(s)
<1>1. /\ CountExpired(s, n).data = s.data
      /\ CountExpired(s, n).total_staged = s.total_staged
  BY DEF CountExpired, Store
<1> QED  BY <1>1, SameShrinks DEF Held

(* A lookup removes its ticket if it is expired and nothing otherwise.     *)
LEMMA RetrieveShrinks ==
  ASSUME NEW s \in Store, NEW t \in TxIds, NEW now \in Nat,
         Len(s.events) <= RAM_EVENT_LOG_SIZE
  PROVE  /\ Shrinks(s, Retrieve(s, t, now))
         /\ Held(Retrieve(s, t, now)) =
              IF t \in Expired(s, now) THEN Held(s) \ {t} ELSE Held(s)
<1>1. CASE s.data[t] = None
  <2>1. Retrieve(s, t, now) = s /\ t \notin Expired(s, now)
    BY <1>1 DEF Retrieve, Expired, Held
  <2> QED  BY <2>1 DEF Shrinks
<1>2. CASE s.data[t] # None /\ t \in Expired(s, now)
  <2> DEFINE s1 == PurgeOne(s, t, "EXPIRE")
  <2>1. Retrieve(s, t, now) = CountExpired(s1, 1)
    BY <1>2 DEF Retrieve
  <2>2. Shrinks(s, s1) /\ Held(s1) = Held(s) \ {t}
    BY PurgeOneShrinks DEF Reasons
  <2>3. /\ CountExpired(s1, 1).data = s1.data
        /\ CountExpired(s1, 1).total_staged = s1.total_staged
    <3>1. s1 \in Store
      BY PurgeOneType DEF Reasons
    <3> HIDE DEF s1
    <3> QED  BY <3>1 DEF CountExpired, Store
  <2> HIDE DEF s1
  <2> QED  BY <1>2, <2>1, <2>2, <2>3 DEF Shrinks, Held
<1>3. CASE s.data[t] # None /\ t \notin Expired(s, now)
  <2>1. /\ Retrieve(s, t, now).data = s.data
        /\ Retrieve(s, t, now).total_staged = s.total_staged
    BY <1>3 DEF Retrieve, Store
  <2> QED  BY <1>3, <2>1, SameShrinks DEF Held
<1> QED  BY <1>1, <1>2, <1>3

LEMMA ShrinksTwice ==
  ASSUME NEW s, NEW s1, NEW s2, Shrinks(s, s1), Shrinks(s1, s2)
  PROVE  Shrinks(s, s2)
BY DEF Shrinks

LEMMA StagePutsOne ==
  ASSUME NEW s, Consistent(s), NEW t \in TxIds, NEW a \in Addresses,
         NEW p \in Payloads, NEW x \in Nat
  PROVE  PutsOne(s, Stage(s, t, a, p, x), t, a, x)
<1> DEFINE s1 == PurgeOne(s, t, "WIPE")
           e == NewEntry(s1, a, p, x)
           s2 == Insert(s1, t, a, p, x)
<1>1. s1 \in Store /\ s \in Store
  BY PurgeOneConsistent DEF Consistent, Reasons
<1>2. Shrinks(s, s1) /\ Held(s1) = Held(s) \ {t}
  BY <1>1, PurgeOneShrinks DEF Reasons
<1>3. Stage(s, t, a, p, x) = s2
  BY DEF Stage
<1> HIDE DEF s1
<1>4. /\ s2.data = [s1.data EXCEPT ![t] = e] /\ e # None
      /\ s2.total_staged = s1.total_staged + 1
  <2>1. Inserted(s1, s2, t, a, p, x)
    BY <1>1, InsertFields
  <2> QED  BY <2>1 DEF Inserted
<1>5. e.order = s1.total_staged + 1 /\ e.recipient = a /\ e.expires_at = x
  BY DEF NewEntry
<1> HIDE DEF e, s2
<1>6. s1.data \in [TxIds -> Entry \cup {None}]
  BY <1>1 DEF Store
<1>7. /\ s2.data[t] = e
      /\ \A u \in TxIds \ {t} : s2.data[u] = s1.data[u]
  BY <1>4, <1>6
<1>8. Held(s2) = Held(s) \cup {t} /\ Held(s2) \subseteq TxIds
  BY <1>2, <1>4, <1>7 DEF Held
<1>9. \A u \in Held(s2) \ {t} : s2.data[u] = s.data[u]
  BY <1>2, <1>7, <1>8 DEF Shrinks
<1> QED  BY <1>2, <1>3, <1>4, <1>5, <1>7, <1>8, <1>9 DEF Shrinks, PutsOne

-----------------------------------------------------------------------------
(***************************************************************************)
(* The inductive invariant                                                 *)
(***************************************************************************)

NumbersInv ==
  /\ \A t \in Held(store) : store.data[t].order \in 1..store.total_staged
  /\ \A t, u \in Held(store) :
       store.data[t].order = store.data[u].order => t = u

BurnedInv ==
  /\ burned \subseteq 1..(earlier + store.total_staged)
  /\ \A t \in Held(store) : Id(t) \notin burned

SweepInv ==
  /\ sweep = "wipe" <=> mode = "stopping"
  /\ sweep = "expire" => mode = "up"
  /\ mode = "stopping" => Held(store) \subseteq todo
  /\ mode = "down" => Held(store) = {}
  /\ sweep = "expire" => todo \subseteq Expired(store, clock)

IInv ==
  /\ TypeOK
  /\ Consistent(store)
  /\ NumbersInv
  /\ BurnedInv
  /\ SweepInv

LEMMA ConsistentType ==
  ASSUME NEW s, Consistent(s)
  PROVE  s \in Store /\ Len(s.events) <= RAM_EVENT_LOG_SIZE
BY ConsistentLogBounded DEF Consistent

LEMMA EmptyHeld == Held(EmptyStore) = {} /\ EmptyStore.total_staged = 0
BY DEF Held, EmptyStore

LEMMA HeldTypes ==
  ASSUME IInv, NEW t \in Held(store)
  PROVE  /\ t \in TxIds
         /\ store.data[t] \in Entry
         /\ store.data[t].order \in Nat /\ store.data[t].expires_at \in Nat
         /\ store.data[t].recipient \in Addresses
         /\ Id(t) \in Nat /\ ItemOf(t) \in Item
<1>1. t \in TxIds /\ store.data[t] \in Entry /\ earlier \in Nat
  BY DEF IInv, TypeOK, Store, Held
<1>2. /\ store.data[t].order \in Nat /\ store.data[t].expires_at \in Nat
      /\ store.data[t].recipient \in Addresses
  BY <1>1 DEF Entry
<1>3. Id(t) \in Nat
  BY <1>1, <1>2 DEF Id
<1> QED  BY <1>1, <1>2, <1>3 DEF ItemOf, Item

\* The two tests of expires_at, that of get_inbox and that of retrieve, are
\* each other's negation.
LEMMA InboxIs ==
  ASSUME IInv, NEW w, NEW t
  PROVE  t \in Inbox(store, w, clock) <=>
           /\ t \in Held(store) /\ t \notin Expired(store, clock)
           /\ SameWallet(store.data[t].recipient, w)
<1>1. clock \in Nat
  BY DEF IInv, TypeOK
<1>2. t \in Held(store) => store.data[t].expires_at \in Nat
  BY HeldTypes
<1> QED  BY <1>1, <1>2 DEF Inbox, Expired, SameWallet

LEMMA InitIInv == Init => IInv
<1> SUFFICES ASSUME Init PROVE IInv
  OBVIOUS
<1>1. Consistent(store) /\ Held(store) = {} /\ store.total_staged = 0
  BY EmptyConsistent, EmptyHeld DEF Init
<1>2. TypeOK
  BY <1>1, ConsistentType, BrokerAssumption DEF Init, TypeOK
<1>3. NumbersInv /\ BurnedInv /\ SweepInv
  BY <1>1 DEF Init, NumbersInv, BurnedInv, SweepInv
<1> QED  BY <1>1, <1>2, <1>3 DEF IInv

(* Removals keep the numbering, and may tell someone that the entries      *)
(* numbered in `gone` are no more.                                         *)
LEMMA ShrinkNumbers ==
  ASSUME IInv, Shrinks(store, store'), earlier' = earlier,
         NEW gone \in SUBSET (1..(earlier + store.total_staged)),
         burned' = burned \cup gone,
         \A t \in Held(store') : Id(t) \notin gone
  PROVE  (NumbersInv /\ BurnedInv)'
<1>1. NumbersInv'
  BY DEF IInv, NumbersInv, Shrinks
<1>2. \A t \in Held(store') : Id(t)' = Id(t) /\ t \in Held(store)
  BY DEF Shrinks, Id
<1>3. BurnedInv'
  BY <1>2 DEF IInv, BurnedInv, Shrinks
<1> QED  BY <1>1, <1>3

(* The same when nothing is told to be gone.                               *)
LEMMA QuietShrink ==
  ASSUME IInv, Shrinks(store, store'), earlier' = earlier, burned' = burned
  PROVE  (NumbersInv /\ BurnedInv)'
<1> DEFINE gone == {}
<1>1. /\ gone \in SUBSET (1..(earlier + store.total_staged))
      /\ burned' = burned \cup gone
      /\ \A t \in Held(store') : Id(t) \notin gone
  OBVIOUS
<1> HIDE DEF gone
<1> QED  BY <1>1, ShrinkNumbers

(* A handler leaves the process state alone: what it needs from SweepInv.  *)
LEMMA HandlerSweep ==
  ASSUME IInv, Serving, UNCHANGED <<clock, procVars>>
  PROVE  SweepInv'
BY DEF SweepInv, Serving, procVars

LEMMA EmptiedStore ==
  ASSUME IInv, store' = EmptyStore, earlier' = earlier + store.total_staged,
         burned' = burned
  PROVE  (Consistent(store) /\ NumbersInv /\ BurnedInv)'
<1>1. Consistent(store') /\ Held(store') = {} /\ store'.total_staged = 0
  BY EmptyConsistent, EmptyHeld
<1>2. earlier \in Nat /\ store.total_staged \in Nat
  BY DEF IInv, TypeOK, Store
<1>3. 1..(earlier' + store'.total_staged) = 1..(earlier + store.total_staged)
  BY <1>1, <1>2
<1> QED  BY <1>1, <1>3 DEF IInv, NumbersInv, BurnedInv

-----------------------------------------------------------------------------
(***************************************************************************)
(* One lemma per action                                                    *)
(***************************************************************************)

LEMMA StagePayloadIInv ==
  ASSUME IInv, NEW t \in TxIds, NEW a \in Addresses, NEW p \in Payloads,
         NEW ttl \in TTLs, StagePayload(t, a, p, ttl)
  PROVE  IInv'
<1> DEFINE x == clock + ttl
<1>1. x \in Nat
  BY BrokerAssumption DEF IInv, TypeOK
<1>2. /\ store' = Stage(store, t, a, p, x)
      /\ Serving /\ last' = None
      /\ UNCHANGED <<clock, procVars, wireVars>>
  BY DEF StagePayload
<1> HIDE DEF x
<1>3. Consistent(store')
  BY <1>1, <1>2, StageConsistent DEF IInv
<1>4. TypeOK'
  BY <1>2, <1>3, ConsistentType DEF IInv, TypeOK, procVars, wireVars
<1>5. PutsOne(store, store', t, a, x)
  BY <1>1, <1>2, StagePutsOne DEF IInv
<1>6. earlier \in Nat /\ store.total_staged \in Nat /\ earlier' = earlier
      /\ burned' = burned
  BY <1>2 DEF IInv, TypeOK, Store, procVars, wireVars
<1>7. \A u \in Held(store) : store.data[u].order \in Nat
                             /\ store.data[u].order <= store.total_staged
  BY <1>6 DEF IInv, NumbersInv
<1>8. NumbersInv'
  BY <1>5, <1>6, <1>7 DEF IInv, NumbersInv, PutsOne
<1>9. BurnedInv'
  <2>1. burned' \subseteq 1..(earlier' + store'.total_staged)
    BY <1>5, <1>6 DEF IInv, BurnedInv, PutsOne
  <2>2. \A u \in Held(store') : Id(u)' \notin burned'
    <3> SUFFICES ASSUME NEW u \in Held(store') PROVE Id(u)' \notin burned
      BY <1>6
    <3>1. CASE u = t
      <4>1. Id(u)' = earlier + store.total_staged + 1
        BY <1>5, <1>6, <3>1 DEF Id, PutsOne
      <4> QED  BY <1>6, <4>1 DEF IInv, BurnedInv
    <3>2. CASE u # t
      <4>1. Id(u)' = Id(u) /\ u \in Held(store)
        BY <1>5, <1>6, <3>2 DEF Id, PutsOne
      <4> QED  BY <4>1 DEF IInv, BurnedInv
    <3> QED  BY <3>1, <3>2
  <2> QED  BY <2>1, <2>2 DEF BurnedInv
<1>10. SweepInv'
  BY <1>2, HandlerSweep
<1> QED  BY <1>3, <1>4, <1>8, <1>9, <1>10 DEF IInv

(* The two outcomes of a lookup that the handlers share.                   *)
LEMMA LookupStore ==
  ASSUME IInv, NEW t \in TxIds
  PROVE  LET s1 == Retrieve(store, t, clock)
             s2 == PurgeOne(s1, t, "WIPE") IN
         /\ Consistent(s1) /\ Shrinks(store, s1)
         /\ Consistent(s2) /\ Shrinks(store, s2) /\ t \notin Held(s2)
         /\ t \notin Expired(store, clock) => Held(s1) = Held(store)
         /\ t \in Expired(store, clock) => Held(s1) = Held(store) \ {t}
         /\ Held(s2) = Held(store) \ {t}
<1> DEFINE s1 == Retrieve(store, t, clock)
           s2 == PurgeOne(s1, t, "WIPE")
<1>1. /\ store \in Store /\ Len(store.events) <= RAM_EVENT_LOG_SIZE
      /\ clock \in Nat /\ Consistent(store)
  BY DEF IInv, TypeOK
<1>2. /\ Consistent(s1) /\ Shrinks(store, s1)
      /\ Held(s1) = IF t \in Expired(store, clock) THEN Held(store) \ {t}
                    ELSE Held(store)
  BY <1>1, RetrieveConsistent, RetrieveShrinks
<1>3. s1 \in Store
  BY <1>2 DEF Consistent
<1> HIDE DEF s1
<1>4. Consistent(s2) /\ Shrinks(s1, s2) /\ Held(s2) = Held(s1) \ {t}
  BY <1>2, <1>3, PurgeOneConsistent, PurgeOneShrinks DEF Reasons
<1> HIDE DEF s2
<1>5. Shrinks(store, s2)
  BY <1>2, <1>4, ShrinksTwice
<1> QED  BY <1>2, <1>4, <1>5 DEF s1, s2

(* Status 200 means that there was a live entry, of that wallet.           *)
LEMMA GrantedLookup ==
  ASSUME IInv, NEW t \in TxIds, NEW w, NEW signer, NEW ts,
         Verdict(t, w, signer, ts) = 200
  PROVE  /\ t \in Held(store) /\ t \notin Expired(store, clock)
         /\ Authentic(w, signer, ts)
         /\ SameWallet(store.data[t].recipient, w)
<1>1. /\ Retrieved(store, t, clock) # None
      /\ Authentic(w, signer, ts)
      /\ SameWallet(Retrieved(store, t, clock).recipient, w)
  BY DEF Verdict
<1> QED  BY <1>1 DEF Retrieved

(* An answer of the shape the handlers build is an Answer.                 *)
LEMMA AnswerType ==
  ASSUME IInv, NEW items \in SUBSET Item, NEW w \in Addresses,
         NEW signer \in Addresses, NEW ts \in 0..MaxClock,
         Answered(items, w, signer, ts)
  PROVE  last' \in Answer
<1>1. ts \in Nat
  BY BrokerAssumption
<1> QED  BY <1>1 DEF Answered, Answer

(* A handler that ends in `s2`, a store smaller than the one it found.     *)
LEMMA HandlerIInv ==
  ASSUME IInv, Serving, UNCHANGED <<clock, procVars>>,
         Consistent(store'), Shrinks(store, store'),
         last' \in Answer, wire' \in SUBSET Nat, received' = received,
         NEW gone \in SUBSET (1..(earlier + store.total_staged)),
         burned' = burned \cup gone,
         \A t \in Held(store') : Id(t) \notin gone
  PROVE  IInv'
<1>1. burned' \in SUBSET Nat
  <2>1. 1..(earlier + store.total_staged) \subseteq Nat
    OBVIOUS
  <2> QED  BY <2>1 DEF IInv, TypeOK
<1>2. TypeOK'
  BY <1>1, ConsistentType DEF IInv, TypeOK, procVars
<1>3. earlier' = earlier
  BY DEF procVars
<1>4. (NumbersInv /\ BurnedInv)'
  BY <1>3, ShrinkNumbers
<1>5. SweepInv'
  BY HandlerSweep
<1> QED  BY <1>2, <1>4, <1>5 DEF IInv

LEMMA QuietHandlerIInv ==
  ASSUME IInv, Serving, UNCHANGED <<clock, procVars, wireVars>>,
         Consistent(store'), Shrinks(store, store'), last' \in Answer
  PROVE  IInv'
<1> DEFINE gone == {}
<1>1. /\ gone \in SUBSET (1..(earlier + store.total_staged))
      /\ burned' = burned \cup gone
      /\ wire' \in SUBSET Nat /\ received' = received
      /\ \A t \in Held(store') : Id(t) \notin gone
  BY DEF IInv, TypeOK, wireVars
<1> HIDE DEF gone
<1> QED  BY <1>1, HandlerIInv

LEMMA RefuseIInv ==
  ASSUME IInv, NEW t \in TxIds, NEW w \in Addresses, NEW signer \in Addresses,
         NEW ts \in 0..MaxClock, Refuse(t, w, signer, ts)
  PROVE  IInv'
<1>1. last' \in Answer
  BY DEF Refuse, Verdict, Answer
<1>2. Consistent(store') /\ Shrinks(store, store')
  BY LookupStore DEF Refuse
<1> QED  BY <1>1, <1>2, QuietHandlerIInv DEF Refuse, LookupBound

LEMMA RetrievePayloadIInv ==
  ASSUME IInv, NEW t \in TxIds, NEW w \in Addresses, NEW signer \in Addresses,
         NEW ts \in 0..MaxClock, RetrievePayload(t, w, signer, ts)
  PROVE  IInv'
<1>1. Answered({ItemOf(t)}, w, signer, ts) /\ {ItemOf(t)} \in SUBSET Item
  BY GrantedLookup, HeldTypes DEF RetrievePayload
<1>2. last' \in Answer
  BY <1>1, AnswerType
<1>3. Consistent(store') /\ Shrinks(store, store')
  BY LookupStore DEF RetrievePayload
<1> QED  BY <1>2, <1>3, QuietHandlerIInv DEF RetrievePayload, LookupBound

(* The number of a purged entry is told to be gone, and no other has it.   *)
LEMMA BurnNumbers ==
  ASSUME IInv, NEW t \in Held(store), NEW s2, Held(s2) = Held(store) \ {t}
  PROVE  /\ {Id(t)} \in SUBSET (1..(earlier + store.total_staged))
         /\ \A u \in Held(s2) : Id(u) \notin {Id(t)}
<1>1. /\ earlier \in Nat /\ store.total_staged \in Nat
      /\ \A u \in Held(store) : store.data[u].order \in 1..store.total_staged
  BY DEF IInv, TypeOK, Store, NumbersInv
<1> QED  BY <1>1 DEF IInv, NumbersInv, Id

LEMMA RetrieveAndBurnIInv ==
  ASSUME IInv, NEW t \in TxIds, NEW w \in Addresses, NEW signer \in Addresses,
         NEW ts \in 0..MaxClock, RetrieveAndBurn(t, w, signer, ts)
  PROVE  IInv'
<1>0. t \in Held(store) /\ Id(t) \in Nat /\ {ItemOf(t)} \in SUBSET Item
  BY GrantedLookup, HeldTypes DEF RetrieveAndBurn
<1>1. /\ Answered({ItemOf(t)}, w, signer, ts)
      /\ burned' = burned \cup {Id(t)} /\ wire' = wire \cup {Id(t)}
      /\ UNCHANGED <<clock, procVars, received>> /\ Serving
  BY DEF RetrieveAndBurn, LookupBound
<1>2. last' \in Answer
  BY <1>0, <1>1, AnswerType
<1>3. Consistent(store') /\ Shrinks(store, store') /\ Held(store') = Held(store) \ {t}
  BY LookupStore DEF RetrieveAndBurn
<1>4. wire' \in SUBSET Nat /\ received' = received
  BY <1>0, <1>1 DEF IInv, TypeOK
<1>5. /\ {Id(t)} \in SUBSET (1..(earlier + store.total_staged))
      /\ \A u \in Held(store') : Id(u) \notin {Id(t)}
  BY <1>0, <1>3, BurnNumbers
<1> DEFINE gone == {Id(t)}
<1>6. /\ burned' = burned \cup gone
      /\ gone \in SUBSET (1..(earlier + store.total_staged))
      /\ \A u \in Held(store') : Id(u) \notin gone
  BY <1>1, <1>5
<1> HIDE DEF gone
<1> QED  BY <1>1, <1>2, <1>3, <1>4, <1>6, HandlerIInv

LEMMA DeletePayloadIInv ==
  ASSUME IInv, NEW t \in TxIds, NEW w \in Addresses, NEW signer \in Addresses,
         NEW ts \in 0..MaxClock, DeletePayload(t, w, signer, ts)
  PROVE  IInv'
<1>0. t \in Held(store)
  BY GrantedLookup DEF DeletePayload
<1>1. /\ Answered({}, w, signer, ts)
      /\ burned' = burned \cup {Id(t)}
      /\ UNCHANGED <<clock, procVars, wire, received>> /\ Serving
  BY DEF DeletePayload, LookupBound
<1>2. last' \in Answer
  BY <1>1, AnswerType
<1>3. Consistent(store') /\ Shrinks(store, store') /\ Held(store') = Held(store) \ {t}
  BY LookupStore DEF DeletePayload
<1>4. wire' \in SUBSET Nat /\ received' = received
  BY <1>1 DEF IInv, TypeOK
<1>5. /\ {Id(t)} \in SUBSET (1..(earlier + store.total_staged))
      /\ \A u \in Held(store') : Id(u) \notin {Id(t)}
  BY <1>0, <1>3, BurnNumbers
<1> DEFINE gone == {Id(t)}
<1>6. /\ burned' = burned \cup gone
      /\ gone \in SUBSET (1..(earlier + store.total_staged))
      /\ \A u \in Held(store') : Id(u) \notin gone
  BY <1>1, <1>5
<1> HIDE DEF gone
<1> QED  BY <1>1, <1>2, <1>3, <1>4, <1>6, HandlerIInv

LEMMA GetInboxIInv ==
  ASSUME IInv, NEW w \in Addresses, NEW signer \in Addresses,
         NEW ts \in 0..MaxClock, GetInbox(w, signer, ts)
  PROVE  IInv'
<1> DEFINE items == {ItemOf(t) : t \in Inbox(store, w, clock)}
<1>1. items \in SUBSET Item
  <2>1. \A t \in Inbox(store, w, clock) : t \in Held(store)
    BY DEF Inbox
  <2> QED  BY <2>1, HeldTypes
<1>2. Answered(items, w, signer, ts)
  BY DEF GetInbox
<1> HIDE DEF items
<1>3. last' \in Answer
  BY <1>1, <1>2, AnswerType
<1>4. Consistent(store') /\ Shrinks(store, store')
  BY DEF IInv, GetInbox, Shrinks
<1> QED  BY <1>3, <1>4, QuietHandlerIInv DEF GetInbox

LEMMA PurgeWakeIInv ==
  ASSUME IInv, PurgeWake
  PROVE  IInv'
<1>1. /\ Serving /\ sweep' = "expire" /\ last' = None
      /\ todo' = Expired(store, clock)
      /\ found' = Cardinality(Expired(store, clock))
      /\ UNCHANGED <<clock, store, mode, purge_due, runs, earlier, wireVars>>
  BY DEF PurgeWake
<1>2. Expired(store, clock) \subseteq TxIds /\ Cardinality(Expired(store, clock)) \in Nat
  <2>1. Expired(store, clock) \subseteq Held(store) /\ Held(store) \subseteq TxIds
    BY DEF Expired, Held
  <2> QED  BY <2>1, HeldFinite, FS_Subset, FS_CardinalityType
<1>3. TypeOK'
  BY <1>1, <1>2 DEF IInv, TypeOK, wireVars
<1>4. (Consistent(store) /\ NumbersInv /\ BurnedInv)'
  BY <1>1 DEF IInv, NumbersInv, BurnedInv, Id, wireVars
<1>5. SweepInv'
  BY <1>1 DEF SweepInv, Serving
<1> QED  BY <1>3, <1>4, <1>5 DEF IInv

LEMMA ShutdownIInv ==
  ASSUME IInv, Shutdown
  PROVE  IInv'
<1>1. /\ Serving /\ mode' = "stopping" /\ sweep' = "wipe" /\ last' = None
      /\ todo' = Held(store)
      /\ UNCHANGED <<clock, store, found, purge_due, runs, earlier, wireVars>>
  BY DEF Shutdown
<1>2. Held(store) \subseteq TxIds
  BY DEF Held
<1>3. TypeOK'
  BY <1>1, <1>2 DEF IInv, TypeOK, wireVars
<1>4. (Consistent(store) /\ NumbersInv /\ BurnedInv)'
  BY <1>1 DEF IInv, NumbersInv, BurnedInv, Id, wireVars
<1>5. SweepInv'
  BY <1>1 DEF SweepInv
<1> QED  BY <1>3, <1>4, <1>5 DEF IInv

(* One turn of a purge loop: the ticket leaves the dict and the list.      *)
LEMMA SweepOneIInv ==
  ASSUME IInv, NEW t \in TxIds, SweepOne(t)
  PROVE  IInv'
<1> DEFINE reason == IF sweep = "expire" THEN "EXPIRE" ELSE "WIPE"
<1>1. /\ sweep # "none" /\ t \in todo /\ last' = None
      /\ store' = PurgeOne(store, t, reason)
      /\ todo' = todo \ {t}
      /\ UNCHANGED <<clock, mode, sweep, found, purge_due, runs, earlier, wireVars>>
  BY DEF SweepOne, NextInDict
<1>2. reason \in Reasons
  BY DEF Reasons
<1> HIDE DEF reason
<1>3. store \in Store
  BY DEF IInv, TypeOK
<1>4. /\ Consistent(store') /\ Shrinks(store, store')
      /\ Held(store') = Held(store) \ {t}
  BY <1>1, <1>2, <1>3, PurgeOneConsistent, PurgeOneShrinks DEF IInv
<1>5. TypeOK'
  BY <1>1, <1>4, ConsistentType DEF IInv, TypeOK, wireVars
<1>6. (NumbersInv /\ BurnedInv)'
  BY <1>1, <1>4, QuietShrink DEF wireVars
<1>7. SweepInv'
  <2>1. ASSUME sweep = "expire" PROVE todo' \subseteq Expired(store', clock)
    <3> SUFFICES ASSUME NEW u \in todo' PROVE u \in Expired(store', clock)
      OBVIOUS
    <3>1. u \in Held(store) /\ clock >= store.data[u].expires_at /\ u # t
      BY <1>1, <2>1 DEF IInv, SweepInv, Expired
    <3> QED  BY <1>4, <3>1 DEF Expired, Shrinks
  <2>2. mode = "stopping" => Held(store') \subseteq todo'
    BY <1>1, <1>4 DEF IInv, SweepInv
  <2>3. mode = "down" => Held(store') = {}
    BY <1>4 DEF IInv, SweepInv
  <2> QED  BY <1>1, <2>1, <2>2, <2>3 DEF IInv, SweepInv
<1> QED  BY <1>4, <1>5, <1>6, <1>7 DEF IInv

LEMMA ExpireDoneIInv ==
  ASSUME IInv, ExpireDone
  PROVE  IInv'
<1>1. /\ sweep = "expire" /\ sweep' = "none" /\ found' = 0 /\ last' = None
      /\ store' = CountExpired(store, found)
      /\ purge_due' = clock + PURGE_INTERVAL_SECONDS
      /\ UNCHANGED <<clock, mode, todo, runs, earlier, wireVars>>
  BY DEF ExpireDone
<1>2. store \in Store /\ found \in Nat /\ purge_due' \in Nat
  BY <1>1, BrokerAssumption DEF IInv, TypeOK
<1>3. /\ Consistent(store') /\ Shrinks(store, store')
  BY <1>1, <1>2, CountExpiredConsistent, CountExpiredShrinks DEF IInv
<1>4. TypeOK'
  BY <1>1, <1>2, <1>3, ConsistentType DEF IInv, TypeOK, wireVars
<1>5. (NumbersInv /\ BurnedInv)'
  BY <1>1, <1>3, QuietShrink DEF wireVars
<1>6. SweepInv'
  BY <1>1 DEF IInv, SweepInv
<1> QED  BY <1>3, <1>4, <1>5, <1>6 DEF IInv

LEMMA StopDoneIInv ==
  ASSUME IInv, StopDone
  PROVE  IInv'
<1>1. /\ sweep = "wipe" /\ todo = {} /\ mode' = "down" /\ sweep' = "none"
      /\ last' = None
      /\ UNCHANGED <<clock, store, todo, found, purge_due, runs, earlier, wireVars>>
  BY DEF StopDone
<1>2. TypeOK'
  BY <1>1 DEF IInv, TypeOK, wireVars
<1>3. (Consistent(store) /\ NumbersInv /\ BurnedInv)'
  BY <1>1 DEF IInv, NumbersInv, BurnedInv, Id, wireVars
<1>4. SweepInv'
  BY <1>1 DEF IInv, SweepInv
<1> QED  BY <1>2, <1>3, <1>4 DEF IInv

LEMMA CrashIInv ==
  ASSUME IInv, Crash
  PROVE  IInv'
<1>1. /\ mode' = "down" /\ sweep' = "none" /\ todo' = {} /\ found' = 0
      /\ earlier' = earlier + store.total_staged
      /\ store' = EmptyStore /\ last' = None
      /\ UNCHANGED <<clock, purge_due, runs, wireVars>>
  BY DEF Crash
<1>2. (Consistent(store) /\ NumbersInv /\ BurnedInv)'
  BY <1>1, EmptiedStore DEF wireVars
<1>3. earlier' \in Nat
  BY <1>1 DEF IInv, TypeOK, Store
<1>4. TypeOK'
  BY <1>1, <1>2, <1>3, ConsistentType DEF IInv, TypeOK, wireVars
<1>5. SweepInv'
  BY <1>1, EmptyHeld DEF SweepInv
<1> QED  BY <1>2, <1>4, <1>5 DEF IInv

LEMMA StartIInv ==
  ASSUME IInv, Start
  PROVE  IInv'
<1>1. /\ mode = "down" /\ mode' = "up" /\ runs' = runs + 1
      /\ earlier' = earlier + store.total_staged
      /\ store' = EmptyStore /\ last' = None
      /\ purge_due' = clock + PURGE_INTERVAL_SECONDS
      /\ UNCHANGED <<clock, sweep, todo, found, wireVars>>
  BY DEF Start
<1>2. (Consistent(store) /\ NumbersInv /\ BurnedInv)'
  BY <1>1, EmptiedStore DEF wireVars
<1>3. earlier' \in Nat /\ purge_due' \in Nat /\ runs' \in Nat
  BY <1>1, BrokerAssumption DEF IInv, TypeOK, Store
<1>4. TypeOK'
  BY <1>1, <1>2, <1>3, ConsistentType DEF IInv, TypeOK, wireVars
<1>5. SweepInv'
  BY <1>1 DEF IInv, SweepInv
<1> QED  BY <1>2, <1>4, <1>5 DEF IInv

LEMMA TickIInv ==
  ASSUME IInv, Tick
  PROVE  IInv'
<1>1. /\ clock \in Nat /\ clock' = clock + 1 /\ last' = None
      /\ UNCHANGED <<store, procVars, wireVars>>
  BY DEF IInv, TypeOK, Tick
<1>2. TypeOK'
  BY <1>1 DEF IInv, TypeOK, procVars, wireVars
<1>3. (Consistent(store) /\ NumbersInv /\ BurnedInv)'
  BY <1>1 DEF IInv, NumbersInv, BurnedInv, Id, procVars, wireVars
<1>4. \A t \in Expired(store, clock) : t \in Expired(store, clock')
  BY <1>1, HeldTypes DEF Expired
<1>5. SweepInv'
  BY <1>1, <1>4 DEF IInv, SweepInv, procVars
<1> QED  BY <1>2, <1>3, <1>5 DEF IInv

LEMMA AnswerIInv ==
  ASSUME IInv, NEW n \in Ids, AnswerArrives(n) \/ AnswerLost(n)
  PROVE  IInv'
<1>1. /\ n \in Nat /\ last' = None /\ wire' = wire \ {n}
      /\ received' = received \cup {n} \/ received' = received
      /\ UNCHANGED <<clock, store, procVars, burned>>
  BY DEF AnswerArrives, AnswerLost, Ids
<1>2. TypeOK'
  BY <1>1 DEF IInv, TypeOK, procVars
<1>3. (Consistent(store) /\ NumbersInv /\ BurnedInv /\ SweepInv)'
  BY <1>1 DEF IInv, NumbersInv, BurnedInv, SweepInv, Id, procVars
<1> QED  BY <1>2, <1>3 DEF IInv

LEMMA StutterIInv ==
  ASSUME IInv, UNCHANGED vars
  PROVE  IInv'
BY DEF IInv, vars, procVars, wireVars, TypeOK, NumbersInv, BurnedInv, SweepInv, Id

LEMMA SignersAreAddresses == Signers \subseteq Addresses
BY RamStoreAssumption DEF Signers

LEMMA NextIInv == IInv /\ [Next]_vars => IInv'
<1> SUFFICES ASSUME IInv, [Next]_vars PROVE IInv'
  OBVIOUS
<1>1. CASE Handle
  BY <1>1, StagePayloadIInv, RefuseIInv, RetrievePayloadIInv,
     RetrieveAndBurnIInv, DeletePayloadIInv, GetInboxIInv, SignersAreAddresses DEF Handle
<1>2. CASE Sweep
  BY <1>2, SweepOneIInv, ExpireDoneIInv, StopDoneIInv DEF Sweep
<1>3. CASE PurgeWake \/ Shutdown \/ Crash \/ Start \/ Tick
  BY <1>3, PurgeWakeIInv, ShutdownIInv, CrashIInv, StartIInv, TickIInv
<1>4. CASE \E n \in Ids : AnswerArrives(n) \/ AnswerLost(n)
  BY <1>4, AnswerIInv
<1>5. CASE UNCHANGED vars
  BY <1>5, StutterIInv
<1> QED  BY <1>1, <1>2, <1>3, <1>4, <1>5 DEF Next

LEMMA Invariance == Spec => []IInv
BY InitIInv, NextIInv, PTL DEF Spec

-----------------------------------------------------------------------------
(***************************************************************************)
(* The theorems                                                            *)
(***************************************************************************)

(* Every variable keeps its type, every answer has the shape of its        *)
(* endpoint and the event deque never exceeds maxlen.                      *)
THEOREM BrokerTypes == Spec => []TypeOK
BY Invariance, PTL DEF IInv

(* Crashes, restarts and purges included, the event counter, the log and   *)
(* the dict tell the same story.                                           *)
THEOREM BrokerRamAccounted == Spec => []RamAccounted
<1>1. IInv => RamAccounted
  BY DEF IInv, Consistent, RamAccounted
<1> QED  BY Invariance, <1>1, PTL

(* A broker that is down holds no package.                                 *)
THEOREM BrokerStopsEmpty == Spec => []StopLeavesNothing
<1>1. IInv => StopLeavesNothing
  BY DEF IInv, SweepInv, StopLeavesNothing
<1> QED  BY Invariance, <1>1, PTL

(* What a step may answer with a package: a retrieve of one ticket, or an  *)
(* inbox listing; every other step answers none.                           *)
LEMMA WhoServes ==
  ASSUME IInv, Next
  PROVE  \/ last' = None
         \/ last'.status # 200
         \/ last'.status = 200 /\ last'.items = {}
         \/ \E t \in TxIds, w, signer \in Addresses, ts \in 0..MaxClock :
              RetrievePayload(t, w, signer, ts) \/ RetrieveAndBurn(t, w, signer, ts)
         \/ \E w, signer \in Addresses, ts \in 0..MaxClock : GetInbox(w, signer, ts)
<1>1. CASE Handle
  <2>1. ASSUME NEW t \in TxIds, NEW w, NEW signer, NEW ts, Refuse(t, w, signer, ts)
        PROVE  last'.status # 200
    BY <2>1 DEF Refuse
  <2>2. ASSUME NEW t \in TxIds, NEW w, NEW signer, NEW ts, DeletePayload(t, w, signer, ts)
        PROVE  last'.status = 200 /\ last'.items = {}
    BY <2>2 DEF DeletePayload, Answered
  <2>3. ASSUME NEW t, NEW a, NEW p, NEW ttl, StagePayload(t, a, p, ttl)
        PROVE  last' = None
    BY <2>3 DEF StagePayload
  <2> QED  BY <1>1, <2>1, <2>2, <2>3, SignersAreAddresses DEF Handle
<1>2. CASE ~Handle
  BY <1>2 DEF Next, Sweep, PurgeWake, Shutdown, SweepOne, ExpireDone, StopDone,
     Crash, Start, Tick, AnswerArrives, AnswerLost
<1> QED  BY <1>1, <1>2

(* The entries an answer may come from, and what it then holds.            *)
LEMMA ServedFrom ==
  ASSUME IInv, Next, last' # None, last'.status = 200,
         NEW item \in last'.items
  PROVE  \E t \in Held(store) :
           /\ item = ItemOf(t) /\ t \notin Expired(store, clock)
           /\ SameWallet(store.data[t].recipient, last'.wallet)
           /\ Authentic(last'.wallet, last'.signer, last'.timestamp)
           /\ clock' = clock
<1>1. ASSUME NEW t \in TxIds, NEW w \in Addresses, NEW signer \in Addresses,
             NEW ts \in 0..MaxClock,
             RetrievePayload(t, w, signer, ts) \/ RetrieveAndBurn(t, w, signer, ts)
      PROVE  /\ t \in Held(store) /\ item = ItemOf(t) /\ t \notin Expired(store, clock)
             /\ SameWallet(store.data[t].recipient, last'.wallet)
             /\ Authentic(last'.wallet, last'.signer, last'.timestamp)
             /\ clock' = clock
  <2>1. Verdict(t, w, signer, ts) = 200 /\ Answered({ItemOf(t)}, w, signer, ts)
        /\ clock' = clock
    BY <1>1 DEF RetrievePayload, RetrieveAndBurn
  <2>2. /\ last'.items = {ItemOf(t)} /\ last'.wallet = w
        /\ last'.signer = signer /\ last'.timestamp = ts
    BY <2>1 DEF Answered
  <2> QED  BY <2>1, <2>2, GrantedLookup
<1>2. ASSUME NEW w \in Addresses, NEW signer \in Addresses,
             NEW ts \in 0..MaxClock, GetInbox(w, signer, ts)
      PROVE  \E t \in Held(store) :
               /\ item = ItemOf(t) /\ t \notin Expired(store, clock)
               /\ SameWallet(store.data[t].recipient, last'.wallet)
               /\ Authentic(last'.wallet, last'.signer, last'.timestamp)
               /\ clock' = clock
  <2>1. /\ last'.items = {ItemOf(t) : t \in Inbox(store, w, clock)}
        /\ last'.wallet = w /\ last'.signer = signer /\ last'.timestamp = ts
        /\ Authentic(w, signer, ts) /\ clock' = clock
    BY <1>2 DEF GetInbox, Answered
  <2>2. PICK t \in Inbox(store, w, clock) : item = ItemOf(t)
    BY <2>1
  <2>3. t \in Held(store) /\ t \notin Expired(store, clock)
        /\ SameWallet(store.data[t].recipient, w)
    BY InboxIs
  <2> QED  BY <2>1, <2>2, <2>3
<1> QED  BY <1>1, <1>2, WhoServes

LEMMA ServedStep ==
  ASSUME IInv, ServedOnlyToRecipient, [Next]_vars
  PROVE  ServedOnlyToRecipient'
<1>1. CASE UNCHANGED vars
  BY <1>1 DEF ServedOnlyToRecipient, InWindow, vars
<1>2. CASE Next
  <2> SUFFICES ASSUME last' # None, last'.status = 200, NEW item \in last'.items
               PROVE  /\ LowerOf[item.recipient] = LowerOf[last'.wallet]
                      /\ LowerOf[last'.signer] = LowerOf[item.recipient]
                      /\ InWindow(last.timestamp)'
                      /\ clock' < item.expires_at
    BY DEF ServedOnlyToRecipient
  <2>1. PICK t \in Held(store) :
          /\ item = ItemOf(t) /\ t \notin Expired(store, clock)
          /\ SameWallet(store.data[t].recipient, last'.wallet)
          /\ Authentic(last'.wallet, last'.signer, last'.timestamp)
          /\ clock' = clock
    BY <1>2, ServedFrom
  <2>2. item.recipient = store.data[t].recipient
        /\ item.expires_at = store.data[t].expires_at
    BY <2>1 DEF ItemOf
  <2>3. clock < store.data[t].expires_at
    <3>1. clock \in Nat /\ store.data[t].expires_at \in Nat
      BY HeldTypes DEF IInv, TypeOK
    <3> QED  BY <2>1, <3>1 DEF Expired
  <2> QED  BY <2>1, <2>2, <2>3 DEF SameWallet, Authentic, InWindow
<1> QED  BY <1>1, <1>2

(* Only the recipient's wallet, in the time window, before expiry.         *)
THEOREM ServesTheRecipient == Spec => []ServedOnlyToRecipient
<1>1. Init => ServedOnlyToRecipient
  BY DEF Init, ServedOnlyToRecipient
<1>2. IInv /\ ServedOnlyToRecipient /\ [Next]_vars => ServedOnlyToRecipient'
  BY ServedStep
<1> QED  BY Invariance, <1>1, <1>2, PTL DEF Spec

(* No package is handed out after somebody was told that it is gone.       *)
THEOREM NeverServesBurned == Spec => NoServeAfterBurn
<1> DEFINE Fresh == last' # None /\ last'.status = 200 =>
                      \A item \in last'.items : item.id \notin burned
<1>1. ASSUME IInv, Next
      PROVE  Fresh
  <2> SUFFICES ASSUME last' # None, last'.status = 200, NEW item \in last'.items
               PROVE  item.id \notin burned
    OBVIOUS
  <2>1. PICK t \in Held(store) : item = ItemOf(t)
    BY <1>1, ServedFrom
  <2> QED  BY <1>1, <2>1 DEF ItemOf, IInv, BurnedInv
<1>2. IInv /\ [Next]_vars => [Fresh]_vars
  BY <1>1
<1> QED  BY Invariance, <1>2, PTL DEF Spec, NoServeAfterBurn

(* The inbox lists exactly what a retrieve signed now would be given.      *)
THEOREM InboxIsRetrievable == Spec => []InboxMatchesRetrieve
<1>1. ASSUME IInv
      PROVE  InboxMatchesRetrieve
  <2> SUFFICES ASSUME NEW t \in TxIds, NEW w \in Addresses
               PROVE  t \in Inbox(store, w, clock) <=> Verdict(t, w, w, clock) = 200
    BY DEF InboxMatchesRetrieve
  <2>1. Authentic(w, w, clock)
    BY <1>1, BrokerAssumption DEF Authentic, InWindow, SameWallet, IInv, TypeOK
  <2>2. t \in Held(store) => store.data[t] # None
    BY DEF Held
  <2>3. Verdict(t, w, w, clock) = 200 <=>
          /\ Retrieved(store, t, clock) # None
          /\ SameWallet(Retrieved(store, t, clock).recipient, w)
    BY <2>1 DEF Verdict
  <2>4. t \in Inbox(store, w, clock) <=>
          /\ t \in Held(store) /\ t \notin Expired(store, clock)
          /\ SameWallet(store.data[t].recipient, w)
    BY <1>1, InboxIs
  <2> QED  BY <2>2, <2>3, <2>4 DEF Retrieved
<1>2. IInv => InboxMatchesRetrieve
  BY <1>1
<1> QED  BY Invariance, <1>2, PTL

-----------------------------------------------------------------------------
(***************************************************************************)
(* The broker implements the mailbox, for every value of the constants:    *)
(* its initial state is an empty mailbox, and each of its steps puts one   *)
(* package in a box, hands packages out to their recipient, makes packages *)
(* vanish, or changes nothing the mailbox has.                             *)
(***************************************************************************)

LEMMA BoxInitially == Init => Box!BoxInit
<1> SUFFICES ASSUME Init PROVE Box!BoxInit
  OBVIOUS
<1>1. BoxPuts = 0 /\ BoxOut = {}
  BY EmptyHeld DEF Init, BoxPuts, BoxOut
<1>2. \A t \in TxIds : ~Live(t)
  BY EmptyHeld DEF Init, Live
<1>3. BoxContents = [t \in TxIds |-> None]
  BY <1>2 DEF BoxContents
<1> QED  BY <1>1, <1>3 DEF Box!BoxInit, Box!BoxesInit

LEMMA BoxAt ==
  ASSUME NEW t \in TxIds
  PROVE  BoxContents[t] = IF Live(t)
                          THEN [id |-> Id(t), recipient |-> store.data[t].recipient]
                          ELSE None
BY DEF BoxContents

LEMMA BoxAtPrime ==
  ASSUME NEW t \in TxIds
  PROVE  BoxContents'[t] = IF Live(t)'
                           THEN [id |-> Id(t)', recipient |-> store'.data[t].recipient]
                           ELSE None
BY DEF BoxContents

(* A live package fills its box.                                           *)
LEMMA LiveIsFull ==
  ASSUME IInv, NEW t \in TxIds, Live(t)
  PROVE  /\ BoxContents[t].id = Id(t)
         /\ BoxContents[t].recipient = store.data[t].recipient
         /\ BoxContents[t] # None
<1>1. Id(t) \in Nat /\ store.data[t].recipient \in Addresses
  BY HeldTypes DEF Live
<1>2. BoxContents[t] = [id |-> Id(t), recipient |-> store.data[t].recipient]
  BY BoxAt
<1> QED  BY <1>1, <1>2, NoneAssumption

(* A step that answers no package and leaves or empties each box.          *)
LEMMA VanishStep ==
  ASSUME BoxPuts' = BoxPuts, BoxOut' = {},
         \A t \in TxIds : BoxContents'[t] = BoxContents[t] \/ BoxContents'[t] = None
  PROVE  Box!BoxNext
<1> DEFINE S == {t \in Box!Full : BoxContents'[t] = None}
<1>1. S \in SUBSET Box!Full
  OBVIOUS
<1>2. BoxContents' = [t \in TxIds |-> IF t \in S THEN None ELSE BoxContents[t]]
  <2>1. BoxContents' = [t \in TxIds |-> BoxContents'[t]]
    BY DEF BoxContents
  <2>2. ASSUME NEW t \in TxIds
        PROVE  BoxContents'[t] = IF t \in S THEN None ELSE BoxContents[t]
    BY DEF Box!Full
  <2> HIDE DEF S
  <2> QED  BY <2>1, <2>2
<1> HIDE DEF S
<1>3. Box!Vanish(S)
  BY <1>2 DEF Box!Vanish, Box!Discard
<1> QED  BY <1>1, <1>3 DEF Box!BoxNext

(* Removals of entries, the clock going on and the broker stopping leave   *)
(* or empty each box.                                                      *)
LEMMA ShrinkVanishes ==
  ASSUME IInv, Shrinks(store, store'), earlier' = earlier,
         clock' \in Nat, clock <= clock', mode' = "up" => mode = "up",
         BoxOut' = {}
  PROVE  Box!BoxNext
<1>1. BoxPuts' = BoxPuts
  BY DEF BoxPuts, Shrinks
<1>2. ASSUME NEW t \in TxIds, Live(t)'
      PROVE  /\ Live(t) /\ Id(t)' = Id(t)
             /\ store'.data[t].recipient = store.data[t].recipient
  <2>1. /\ mode = "up" /\ t \in Held(store') /\ t \in Held(store)
        /\ store'.data[t] = store.data[t]
        /\ ~(clock' >= store'.data[t].expires_at)
    BY <1>2 DEF Live, Expired, Shrinks
  <2>2. store.data[t].expires_at \in Nat /\ clock \in Nat
    BY <2>1, HeldTypes DEF IInv, TypeOK
  <2> QED  BY <2>1, <2>2 DEF Live, Expired, Id
<1>3. \A t \in TxIds : BoxContents'[t] = BoxContents[t] \/ BoxContents'[t] = None
  BY <1>2, BoxAt, BoxAtPrime
<1> QED  BY <1>1, <1>3, VanishStep

LEMMA EmptiedVanishes ==
  ASSUME IInv, store' = EmptyStore, earlier' = earlier + store.total_staged,
         BoxOut' = {}
  PROVE  Box!BoxNext
<1>1. BoxPuts' = BoxPuts
  BY EmptyHeld DEF BoxPuts, IInv, TypeOK, Store
<1>2. \A t \in TxIds : BoxContents'[t] = None
  BY EmptyHeld, BoxAtPrime DEF Live
<1> QED  BY <1>1, <1>2, VanishStep

-----------------------------------------------------------------------------

LEMMA StageIsPut ==
  ASSUME IInv, NEW t \in TxIds, NEW a \in Addresses, NEW p \in Payloads,
         NEW ttl \in TTLs, StagePayload(t, a, p, ttl)
  PROVE  Box!BoxNext
<1> DEFINE x == clock + ttl
           e == [id |-> BoxPuts + 1, recipient |-> a]
<1>1. /\ x \in Nat /\ ~(clock >= x) /\ clock \in Nat
      /\ earlier \in Nat /\ store.total_staged \in Nat
  BY BrokerAssumption DEF IInv, TypeOK, Store
<1>2. /\ PutsOne(store, store', t, a, x)
      /\ clock' = clock /\ earlier' = earlier /\ mode' = mode /\ mode = "up"
      /\ last' = None
  BY <1>1, StagePutsOne DEF StagePayload, Serving, procVars, IInv
<1> HIDE DEF x
<1>3. BoxPuts' = BoxPuts + 1 /\ BoxOut' = {}
  BY <1>1, <1>2 DEF BoxPuts, BoxOut, PutsOne
<1>4. BoxContents'[t] = e
  <2>1. /\ Live(t)' /\ store'.data[t].recipient = a
        /\ Id(t)' = BoxPuts + 1
    BY <1>1, <1>2 DEF Live, Expired, PutsOne, Id, BoxPuts
  <2> QED  BY <2>1, BoxAtPrime
<1>5. ASSUME NEW u \in TxIds \ {t}
      PROVE  BoxContents'[u] = BoxContents[u]
  <2>1. u \in TxIds
    OBVIOUS
  <2>2. u \in Held(store') <=> u \in Held(store)
    BY <1>2 DEF PutsOne
  <2>3. u \in Held(store) => store'.data[u] = store.data[u]
    BY <1>2 DEF PutsOne
  <2>4. Live(u)' <=> Live(u)
    BY <1>2, <2>2, <2>3 DEF Live, Expired
  <2>5. Live(u) => u \in Held(store)
    BY DEF Live
  <2>6. Live(u) => Id(u)' = Id(u) /\ store'.data[u].recipient = store.data[u].recipient
    BY <1>2, <2>3, <2>5 DEF Id
  <2> QED  BY <2>1, <2>4, <2>6, BoxAt, BoxAtPrime
<1> HIDE DEF e
<1>6. BoxContents' = [BoxContents EXCEPT ![t] = e]
  <2>1. /\ BoxContents' = [u \in TxIds |-> BoxContents'[u]]
        /\ BoxContents = [u \in TxIds |-> BoxContents[u]]
    BY DEF BoxContents
  <2> QED  BY <1>4, <1>5, <2>1
<1>7. Box!Put(t, a)
  BY <1>3, <1>6 DEF Box!Put, Box!PutIn, e
<1> QED  BY <1>7 DEF Box!BoxNext

(* An answer with the packages of the tickets S, of which `burnt` are then *)
(* gone, hands out those boxes.                                            *)
LEMMA HandOutStep ==
  ASSUME IInv, NEW S, NEW burnt \in SUBSET S, NEW w \in Addresses,
         NEW signer, NEW ts,
         S \subseteq TxIds,
         \A t \in S : Live(t) /\ SameWallet(store.data[t].recipient, w),
         Answered({ItemOf(t) : t \in S}, w, signer, ts),
         last' # None,
         Shrinks(store, store'), Held(store') = Held(store) \ burnt,
         clock' = clock, mode' = mode, earlier' = earlier
  PROVE  Box!BoxNext
<1>1. BoxPuts' = BoxPuts
  BY DEF BoxPuts, Shrinks
<1>2. \A t \in S : /\ BoxContents[t].id = Id(t)
                   /\ BoxContents[t].recipient = store.data[t].recipient
                   /\ BoxContents[t] # None
  BY LiveIsFull
<1>3. S \in SUBSET Box!Full
  BY <1>2 DEF Box!Full
<1>4. \A t \in S : LowerOf[BoxContents[t].recipient] = LowerOf[w]
  BY <1>2 DEF SameWallet
<1>5. BoxOut' = {[id |-> BoxContents[t].id, to |-> w] : t \in S}
  <2>1. BoxOut' = {[id |-> item.id, to |-> w] : item \in {ItemOf(t) : t \in S}}
    BY DEF BoxOut, Answered
  <2>2. \A t \in S : ItemOf(t).id = BoxContents[t].id
    BY <1>2 DEF ItemOf
  <2> QED  BY <2>1, <2>2
<1>6. ASSUME NEW t \in TxIds
      PROVE  BoxContents'[t] = IF t \in burnt THEN None ELSE BoxContents[t]
  <2>1. CASE t \in burnt
    BY <2>1, BoxAtPrime DEF Live
  <2>2. CASE t \notin burnt
    <3>1. t \in Held(store') <=> t \in Held(store)
      BY <2>2
    <3>2. t \in Held(store) => store'.data[t] = store.data[t]
      BY <3>1 DEF Shrinks
    <3>3. Live(t)' <=> Live(t)
      BY <3>1, <3>2 DEF Live, Expired
    <3>4. Live(t) => Id(t)' = Id(t) /\ store'.data[t].recipient = store.data[t].recipient
      BY <3>2 DEF Live, Id
    <3> QED  BY <2>2, <3>3, <3>4, BoxAt, BoxAtPrime
  <2> QED  BY <2>1, <2>2
<1>7. BoxContents' = [t \in TxIds |-> IF t \in burnt THEN None ELSE BoxContents[t]]
  <2>1. BoxContents' = [t \in TxIds |-> BoxContents'[t]]
    BY DEF BoxContents
  <2> QED  BY <1>6, <2>1
<1>8. Box!HandOut(S, w, burnt)
  BY <1>1, <1>4, <1>5, <1>7 DEF Box!HandOut, Box!Hand, Box!Discard, Box!Owns
<1> QED  BY <1>3, <1>8 DEF Box!BoxNext

LEMMA AnsweredNotNone ==
  ASSUME IInv, NEW items \in SUBSET Item, NEW w \in Addresses,
         NEW signer \in Addresses, NEW ts \in 0..MaxClock,
         Answered(items, w, signer, ts)
  PROVE  last' # None
BY AnswerType, NoneAssumption

LEMMA RetrieveIsHandOut ==
  ASSUME IInv, NEW t \in TxIds, NEW w \in Addresses, NEW signer \in Addresses,
         NEW ts \in 0..MaxClock,
         RetrievePayload(t, w, signer, ts) \/ RetrieveAndBurn(t, w, signer, ts)
  PROVE  Box!BoxNext
<1> DEFINE S == {t}
           items == {ItemOf(u) : u \in S}
<1>1. /\ t \in Held(store) /\ t \notin Expired(store, clock)
      /\ SameWallet(store.data[t].recipient, w) /\ ItemOf(t) \in Item
  BY GrantedLookup, HeldTypes DEF RetrievePayload, RetrieveAndBurn
<1>2. /\ Answered({ItemOf(t)}, w, signer, ts) /\ Serving
      /\ clock' = clock /\ mode' = mode /\ earlier' = earlier
  BY DEF RetrievePayload, RetrieveAndBurn, LookupBound, procVars
<1>3. \A u \in S : Live(u) /\ SameWallet(store.data[u].recipient, w)
  BY <1>1, <1>2 DEF Live, Serving
<1>4. items = {ItemOf(t)} /\ items \in SUBSET Item /\ S \subseteq TxIds
  BY <1>1
<1>5. Answered(items, w, signer, ts)
  BY <1>2, <1>4
<1>6. last' # None
  BY <1>4, <1>5, AnsweredNotNone
<1>7. PICK burnt \in SUBSET S :
        Shrinks(store, store') /\ Held(store') = Held(store) \ burnt
  <2>1. CASE RetrievePayload(t, w, signer, ts)
    <3>1. Shrinks(store, store') /\ Held(store') = Held(store) \ {}
      BY <1>1, <2>1, LookupStore DEF RetrievePayload
    <3> QED  BY <3>1
  <2>2. CASE RetrieveAndBurn(t, w, signer, ts)
    <3>1. Shrinks(store, store') /\ Held(store') = Held(store) \ {t}
      BY <1>1, <2>2, LookupStore DEF RetrieveAndBurn
    <3> QED  BY <3>1
  <2> QED  BY <2>1, <2>2
<1> HIDE DEF S
<1> QED  BY <1>2, <1>3, <1>4, <1>5, <1>6, <1>7, HandOutStep

LEMMA InboxIsHandOut ==
  ASSUME IInv, NEW w \in Addresses, NEW signer \in Addresses,
         NEW ts \in 0..MaxClock, GetInbox(w, signer, ts)
  PROVE  Box!BoxNext
<1> DEFINE S == Inbox(store, w, clock)
           items == {ItemOf(t) : t \in S}
<1>1. /\ Serving /\ Answered(items, w, signer, ts)
      /\ store' = store /\ clock' = clock /\ mode' = mode /\ earlier' = earlier
  BY DEF GetInbox, procVars
<1>2. /\ S \subseteq Held(store) /\ S \subseteq TxIds
      /\ \A t \in S : Live(t) /\ SameWallet(store.data[t].recipient, w)
  BY <1>1, InboxIs DEF Inbox, Live, Serving, Held
<1>3. items \in SUBSET Item
  BY <1>2, HeldTypes
<1>4. last' # None
  BY <1>1, <1>3, AnsweredNotNone
<1>5. Shrinks(store, store') /\ Held(store') = Held(store) \ {} /\ {} \in SUBSET S
  BY <1>1 DEF Shrinks
<1> HIDE DEF S
<1> QED  BY <1>1, <1>2, <1>4, <1>5, HandOutStep

(* Every other step answers no package.                                    *)
LEMMA QuietOut ==
  ASSUME last' = None \/ last'.status # 200 \/ last'.items = {}
  PROVE  BoxOut' = {}
BY DEF BoxOut

LEMMA OtherStepVanishes ==
  ASSUME IInv, Next, BoxOut' = {},
         ~\E t \in TxIds, a \in Addresses, p \in Payloads, ttl \in TTLs :
            StagePayload(t, a, p, ttl)
  PROVE  Box!BoxNext
<1>0. clock \in Nat /\ store \in Store /\ found \in Nat
  BY DEF IInv, TypeOK
<1>1. CASE Crash \/ Start
  BY <1>1, EmptiedVanishes DEF Crash, Start
<1>2. CASE Handle
  <2>1. ASSUME NEW t \in TxIds, NEW w \in Addresses, NEW signer \in Addresses,
               NEW ts \in 0..MaxClock,
               \/ Refuse(t, w, signer, ts)
               \/ RetrievePayload(t, w, signer, ts)
               \/ RetrieveAndBurn(t, w, signer, ts)
               \/ DeletePayload(t, w, signer, ts)
        PROVE  Shrinks(store, store') /\ UNCHANGED <<clock, procVars>>
    BY <2>1, LookupStore DEF Refuse, RetrievePayload, RetrieveAndBurn, DeletePayload
  <2>2. ASSUME NEW w, NEW signer, NEW ts, GetInbox(w, signer, ts)
        PROVE  Shrinks(store, store') /\ UNCHANGED <<clock, procVars>>
    BY <2>2 DEF GetInbox, Shrinks
  <2>3. Shrinks(store, store') /\ UNCHANGED <<clock, procVars>>
    BY <1>2, <2>1, <2>2, SignersAreAddresses DEF Handle
  <2> QED  BY <1>0, <2>3, ShrinkVanishes DEF procVars
<1>3. CASE Sweep
  <2>1. ASSUME NEW t \in TxIds, SweepOne(t)
        PROVE  Shrinks(store, store') /\ mode' = mode
    BY <1>0, <2>1, PurgeOneShrinks DEF SweepOne, Reasons
  <2>2. ASSUME ExpireDone PROVE Shrinks(store, store')
    BY <1>0, <2>2, CountExpiredShrinks DEF ExpireDone
  <2>3. ASSUME StopDone PROVE Shrinks(store, store') /\ mode' = "down"
    BY <2>3 DEF StopDone, Shrinks
  <2>4. Shrinks(store, store') /\ (mode' = "up" => mode = "up")
    BY <1>3, <2>1, <2>2, <2>3 DEF Sweep, ExpireDone, StopDone
  <2>5. earlier' = earlier /\ clock' = clock
    BY <1>3 DEF Sweep, SweepOne, ExpireDone, StopDone
  <2> QED  BY <1>0, <2>4, <2>5, ShrinkVanishes
<1>4. CASE \/ PurgeWake \/ Shutdown \/ Tick
           \/ \E n \in Ids : AnswerArrives(n) \/ AnswerLost(n)
  <2>1. Shrinks(store, store') /\ (mode' = "up" => mode = "up") /\ earlier' = earlier
    BY <1>4 DEF PurgeWake, Shutdown, Tick, AnswerArrives, AnswerLost, Shrinks, procVars
  <2>2. clock' \in Nat /\ clock <= clock'
    BY <1>0, <1>4 DEF PurgeWake, Shutdown, Tick, AnswerArrives, AnswerLost
  <2> QED  BY <2>1, <2>2, ShrinkVanishes
<1> QED  BY <1>1, <1>2, <1>3, <1>4 DEF Next

LEMMA BoxStep ==
  ASSUME IInv, [Next]_vars
  PROVE  [Box!BoxNext]_(Box!boxVars)
<1>1. CASE UNCHANGED vars
  <2>1. BoxPuts' = BoxPuts /\ BoxOut' = BoxOut /\ BoxContents' = BoxContents
    BY <1>1 DEF vars, procVars, BoxPuts, BoxOut, BoxContents, Live, Id
  <2> QED  BY <2>1 DEF Box!boxVars
<1>2. CASE Next
  <2>1. CASE \E t \in TxIds, a \in Addresses, p \in Payloads, ttl \in TTLs :
               StagePayload(t, a, p, ttl)
    BY <2>1, StageIsPut
  <2>2. CASE \E t \in TxIds, w, signer \in Addresses, ts \in 0..MaxClock :
               RetrievePayload(t, w, signer, ts) \/ RetrieveAndBurn(t, w, signer, ts)
    BY <2>2, RetrieveIsHandOut
  <2>3. CASE \E w, signer \in Addresses, ts \in 0..MaxClock : GetInbox(w, signer, ts)
    BY <2>3, InboxIsHandOut
  <2>4. CASE \/ last' = None \/ last'.status # 200
             \/ last'.status = 200 /\ last'.items = {}
    BY <1>2, <2>1, <2>4, QuietOut, OtherStepVanishes
  <2> QED  BY <1>2, <2>1, <2>2, <2>3, <2>4, WhoServes
<1> QED  BY <1>1, <1>2

(* The broker implements the mailbox.                                      *)
THEOREM BrokerImplementsMailbox == Spec => ImplementsMailbox
BY Invariance, BoxInitially, BoxStep, PTL DEF Spec, ImplementsMailbox, Box!BoxSpec

=============================================================================
