------------------------------- MODULE Broker -------------------------------
(***************************************************************************)
(* The staging broker (broker/main.py): its HTTP handlers, its purge task, *)
(* its start, stop and crash, over the RAM store.                          *)
(*                                                                         *)
(* The handlers are coroutines without an await, on one event loop, so     *)
(* each runs from its first line to its answer in one step.  A purge is    *)
(* also synchronous but takes one entry at a time; a crash may fall in     *)
(* between, a handler may not (`Serving`).                                 *)
(*                                                                         *)
(* The network is in the quantifiers: at any moment a request may arrive   *)
(* with any ticket, wallet header, signer and timestamp, so requests are   *)
(* lost, delayed, reordered and repeated.  The answer that carries a       *)
(* package back can be lost too, and is modelled (`wire`).                 *)
(***************************************************************************)
EXTENDS StoreProperties

CONSTANTS
  TTLs,                    \* ttl_seconds values (schemas.py: greater than 0)
  PURGE_INTERVAL_SECONDS,
  MAX_CLOCK_DRIFT,         \* Web3Auth.MAX_CLOCK_DRIFT
  MaxClock,                \* bound: the clock stops here
  MaxExpiry,               \* bound: packages expire by then
  MaxStaged,               \* bound: accepted POST /stage, over all runs
  MaxRetrieved,            \* bound: successful lookups of one run
  MaxRuns                  \* bound: starts of the process

ASSUME BrokerAssumption ==
  /\ TTLs \subseteq Nat \ {0}
  /\ PURGE_INTERVAL_SECONDS \in Nat \ {0}
  /\ MAX_CLOCK_DRIFT \in Nat
  /\ MaxClock \in Nat /\ MaxExpiry \in Nat /\ MaxStaged \in Nat
  /\ MaxRetrieved \in Nat /\ MaxRuns \in Nat

VARIABLES
  clock,      \* time.time() of the broker's host, in whole seconds
  store,      \* broker.memory_store.store
  mode,       \* "up", "stopping" (in the finally of lifespan), "down"
  sweep,      \* "none", or the purge loop in progress: "expire", "wipe"
  todo,       \* its tickets still to wipe
  found,      \* len(expired)
  purge_due,  \* when the purge task's sleep ends
  runs,       \* starts of the process so far
  earlier,    \* stagings accepted by the runs before this one
  burned,     \* stagings the broker has told someone are gone
  wire,       \* burnt packages whose answer is on its way to the client
  received,   \* burnt packages a client has received
  last        \* the answer the last step gave, or None

procVars == <<mode, sweep, todo, found, purge_due, runs, earlier>>
wireVars == <<burned, wire, received>>
vars == <<clock, store, procVars, wireVars, last>>

Ids == 1..MaxStaged

\* A staging, numbered over all runs, with what its owner may check.
Item == [id: Nat, recipient: Addresses, expires_at: Nat]
Answer == [status: {401, 403, 404}]
  \cup [status: {200}, items: SUBSET Item,
        wallet: Addresses, signer: Addresses, timestamp: Nat]

ASSUME NoneAssumption ==
  /\ None \notin Answer
  /\ None \notin [id: Nat, recipient: Addresses]

TypeOK ==
  /\ clock \in Nat
  /\ store \in Store
  /\ Len(store.events) <= RAM_EVENT_LOG_SIZE
  /\ mode \in {"up", "stopping", "down"}
  /\ sweep \in {"none", "expire", "wipe"}
  /\ todo \in SUBSET TxIds
  /\ found \in Nat
  /\ purge_due \in Nat
  /\ runs \in Nat /\ earlier \in Nat
  /\ burned \in SUBSET Nat /\ wire \in SUBSET Nat /\ received \in SUBSET Nat
  /\ last \in Answer \cup {None}

Init ==
  /\ clock = 0
  /\ store = EmptyStore
  /\ mode = "up" /\ sweep = "none" /\ todo = {} /\ found = 0
  /\ purge_due = PURGE_INTERVAL_SECONDS
  /\ runs = 1 /\ earlier = 0
  /\ burned = {} /\ wire = {} /\ received = {}
  /\ last = None

-----------------------------------------------------------------------------

Serving == mode = "up" /\ sweep = "none"

Id(t) == earlier + store.data[t].order

ItemOf(t) == [id |-> Id(t), recipient |-> store.data[t].recipient,
              expires_at |-> store.data[t].expires_at]

SameWallet(a, b) == LowerOf[a] = LowerOf[b]

\* abs(int(time.time()) - timestamp) > MAX_CLOCK_DRIFT is a refusal.
InWindow(ts) == clock - ts <= MAX_CLOCK_DRIFT /\ ts - clock <= MAX_CLOCK_DRIFT

\* The message is rebuilt from the ticket and the timestamp of the request,
\* so the recovered address is the signer's.
Authentic(wallet, signer, ts) == InWindow(ts) /\ SameWallet(wallet, signer)

\* Mutant: any wallet with a signature of its own may retrieve.
VerdictAnyWallet(t, wallet, signer, ts) ==
  IF Retrieved(store, t, clock) = None THEN 404
  ELSE IF ~Authentic(wallet, signer, ts) THEN 401
  ELSE 200

\* The checks retrieve_payload and delete_payload share, in their order.
Verdict(t, wallet, signer, ts) ==
  LET entry == Retrieved(store, t, clock) IN
  IF entry = None THEN 404
  ELSE IF ~Authentic(wallet, signer, ts) THEN 401
  ELSE IF ~SameWallet(entry.recipient, wallet) THEN 403
  ELSE 200

Answered(items, wallet, signer, ts) ==
  last' = [status |-> 200, items |-> items, wallet |-> wallet,
           signer |-> signer, timestamp |-> ts]

\* Bounds on a lookup of ticket t.
LookupBound(t) ==
  /\ Serving
  /\ store.total_retrieved < MaxRetrieved

StagePayload(t, recipient, payload, ttl) ==
  /\ Serving
  /\ earlier + store.total_staged < MaxStaged
  /\ clock + ttl <= MaxExpiry
  /\ store' = Stage(store, t, recipient, payload, clock + ttl)
  /\ last' = None
  /\ UNCHANGED <<clock, procVars, wireVars>>

\* GET /retrieve or DELETE /payload that ends in 404, 401 or 403.
Refuse(t, wallet, signer, ts) ==
  /\ LookupBound(t)
  /\ Verdict(t, wallet, signer, ts) # 200
  /\ store' = Retrieve(store, t, clock)
  /\ last' = [status |-> Verdict(t, wallet, signer, ts)]
  /\ UNCHANGED <<clock, procVars, wireVars>>

RetrievePayload(t, wallet, signer, ts) ==
  /\ LookupBound(t)
  /\ Verdict(t, wallet, signer, ts) = 200
  /\ store' = Retrieve(store, t, clock)
  /\ Answered({ItemOf(t)}, wallet, signer, ts)
  /\ UNCHANGED <<clock, procVars, wireVars>>

\* Mutant: burn is answered but nothing is purged.
RetrieveNoBurn(t, wallet, signer, ts) ==
  /\ LookupBound(t)
  /\ Verdict(t, wallet, signer, ts) = 200
  /\ store' = Retrieve(store, t, clock)
  /\ Answered({ItemOf(t)}, wallet, signer, ts)
  /\ burned' = burned \cup {Id(t)}
  /\ wire' = wire \cup {Id(t)}
  /\ UNCHANGED <<clock, procVars, received>>

\* ?burn=true: the payload is purged before the answer leaves.
RetrieveAndBurn(t, wallet, signer, ts) ==
  /\ LookupBound(t)
  /\ Verdict(t, wallet, signer, ts) = 200
  /\ store' = PurgeOne(Retrieve(store, t, clock), t, "WIPE")
  /\ Answered({ItemOf(t)}, wallet, signer, ts)
  /\ burned' = burned \cup {Id(t)}
  /\ wire' = wire \cup {Id(t)}
  /\ UNCHANGED <<clock, procVars, received>>

DeletePayload(t, wallet, signer, ts) ==
  /\ LookupBound(t)
  /\ Verdict(t, wallet, signer, ts) = 200
  /\ store' = PurgeOne(Retrieve(store, t, clock), t, "WIPE")
  /\ Answered({}, wallet, signer, ts)
  /\ burned' = burned \cup {Id(t)}
  /\ UNCHANGED <<clock, procVars, wire, received>>

\* GET /inbox: every live payload of the wallet, none of them burnt.
GetInbox(wallet, signer, ts) ==
  /\ Serving
  /\ Authentic(wallet, signer, ts)
  /\ Answered({ItemOf(t) : t \in Inbox(store, wallet, clock)}, wallet, signer, ts)
  /\ UNCHANGED <<clock, store, procVars, wireVars>>

-----------------------------------------------------------------------------

\* The purge task wakes up and lists the expired tickets.
PurgeWake ==
  /\ Serving
  /\ clock >= purge_due
  /\ sweep' = "expire"
  /\ todo' = Expired(store, clock)
  /\ found' = Cardinality(Expired(store, clock))
  /\ last' = None
  /\ UNCHANGED <<clock, store, mode, purge_due, runs, earlier, wireVars>>

\* Mutant: shutdown runs purge_expired in place of purge_all.
ShutdownExpiredOnly ==
  /\ Serving
  /\ mode' = "stopping"
  /\ sweep' = "wipe"
  /\ todo' = Expired(store, clock)
  /\ last' = None
  /\ UNCHANGED <<clock, store, found, purge_due, runs, earlier, wireVars>>

\* The server is told to stop: the purge task is cancelled, purge_all runs.
Shutdown ==
  /\ Serving
  /\ mode' = "stopping"
  /\ sweep' = "wipe"
  /\ todo' = Held(store)
  /\ last' = None
  /\ UNCHANGED <<clock, store, found, purge_due, runs, earlier, wireVars>>

\* Mutant: a loop that drops the entry without wiping or logging it.
SweepForgets(t) ==
  /\ sweep # "none"
  /\ NextInDict(store, todo, t)
  /\ store' = [store EXCEPT !.data[t] = None]
  /\ todo' = todo \ {t}
  /\ last' = None
  /\ UNCHANGED <<clock, mode, sweep, found, purge_due, runs, earlier, wireVars>>

SweepOne(t) ==
  /\ sweep # "none"
  /\ NextInDict(store, todo, t)
  /\ store' = PurgeOne(store, t, IF sweep = "expire" THEN "EXPIRE" ELSE "WIPE")
  /\ todo' = todo \ {t}
  /\ last' = None
  /\ UNCHANGED <<clock, mode, sweep, found, purge_due, runs, earlier, wireVars>>

\* Mutant: the purge task ends after its first pass.
ExpireOnce ==
  /\ sweep = "expire" /\ todo = {}
  /\ store' = CountExpired(store, found)
  /\ sweep' = "none" /\ found' = 0
  /\ purge_due' = MaxClock + 1
  /\ last' = None
  /\ UNCHANGED <<clock, mode, todo, runs, earlier, wireVars>>

\* The purge task goes back to sleep.
ExpireDone ==
  /\ sweep = "expire" /\ todo = {}
  /\ store' = CountExpired(store, found)
  /\ sweep' = "none" /\ found' = 0
  /\ purge_due' = clock + PURGE_INTERVAL_SECONDS
  /\ last' = None
  /\ UNCHANGED <<clock, mode, todo, runs, earlier, wireVars>>

StopDone ==
  /\ sweep = "wipe" /\ todo = {}
  /\ mode' = "down"
  /\ sweep' = "none"
  /\ last' = None
  /\ UNCHANGED <<clock, store, todo, found, purge_due, runs, earlier, wireVars>>

\* The process dies; its memory goes with it, nothing was persisted.
Crash ==
  /\ mode # "down"
  /\ mode' = "down" /\ sweep' = "none" /\ todo' = {} /\ found' = 0
  /\ earlier' = earlier + store.total_staged
  /\ store' = EmptyStore
  /\ last' = None
  /\ UNCHANGED <<clock, purge_due, runs, wireVars>>

\* A new process: an empty store and a fresh purge task.
Start ==
  /\ mode = "down"
  /\ runs < MaxRuns
  /\ mode' = "up"
  /\ runs' = runs + 1
  /\ earlier' = earlier + store.total_staged
  /\ store' = EmptyStore
  /\ purge_due' = clock + PURGE_INTERVAL_SECONDS
  /\ last' = None
  /\ UNCHANGED <<clock, sweep, todo, found, wireVars>>

\* The bound on a sweep's duration lets the next purge fall before MaxClock.
Tick ==
  /\ clock < MaxClock
  /\ sweep = "none" \/ clock < MaxExpiry
  /\ clock' = clock + 1
  /\ last' = None
  /\ UNCHANGED <<store, procVars, wireVars>>

\* The answer with a burnt package reaches the client, or the connection
\* fails or times out first.
AnswerArrives(n) ==
  /\ n \in wire
  /\ wire' = wire \ {n}
  /\ received' = received \cup {n}
  /\ last' = None
  /\ UNCHANGED <<clock, store, procVars, burned>>

AnswerLost(n) ==
  /\ n \in wire
  /\ wire' = wire \ {n}
  /\ last' = None
  /\ UNCHANGED <<clock, store, procVars, burned, received>>

\* An address recovered from a signature has one spelling.
Signers == {LowerOf[a] : a \in Addresses}

Handle ==
  \/ \E t \in TxIds, a \in Addresses, p \in Payloads, ttl \in TTLs :
       StagePayload(t, a, p, ttl)
  \/ \E t \in TxIds, wallet \in Addresses, signer \in Signers, ts \in 0..MaxClock :
       \/ Refuse(t, wallet, signer, ts)
       \/ RetrievePayload(t, wallet, signer, ts)
       \/ RetrieveAndBurn(t, wallet, signer, ts)
       \/ DeletePayload(t, wallet, signer, ts)
  \/ \E wallet \in Addresses, signer \in Signers, ts \in 0..MaxClock :
       GetInbox(wallet, signer, ts)

Sweep == (\E t \in TxIds : SweepOne(t)) \/ ExpireDone \/ StopDone

Next ==
  \/ Handle
  \/ PurgeWake \/ Shutdown \/ Sweep
  \/ Crash \/ Start
  \/ Tick
  \/ \E n \in Ids : AnswerArrives(n) \/ AnswerLost(n)

Spec == Init /\ [][Next]_vars

\* Time passes, and the event loop keeps running what is ready: a purge that
\* began ends, and the purge task runs once its sleep is over.  Nothing is
\* assumed of clients, of the network, or of starts and stops.
FairSpec == Spec /\ WF_vars(Tick) /\ WF_vars(Sweep) /\ WF_vars(PurgeWake)

-----------------------------------------------------------------------------
(***************************************************************************)
(* Properties                                                              *)
(***************************************************************************)

(* Through purges cut short by a crash, restarts and overwrites, the event *)
(* counter, the log and the dict keep agreeing.                            *)
RamAccounted ==
  PayloadsAccounted(store) /\ BytesAccounted(store) /\ LogAgreesWithRam(store)

(* Whatever request, replay or inbox listing led to it, a package is only  *)
(* in an answer to a wallet that is its recipient (up to case), signed by  *)
(* that wallet within MAX_CLOCK_DRIFT of now, and before it expires        *)
(* (retrieve_payload, get_inbox; SECURITY.md section 2.3).                 *)
ServedOnlyToRecipient ==
  last # None /\ last.status = 200 =>
    \A item \in last.items :
      /\ LowerOf[item.recipient] = LowerOf[last.wallet]
      /\ LowerOf[last.signer] = LowerOf[item.recipient]
      /\ InWindow(last.timestamp)
      /\ clock < item.expires_at

(* Once a client was told that a package is gone - it was burnt by a       *)
(* retrieve or deleted - no later answer carries it, not even after the    *)
(* ticket was used again or the broker restarted.                          *)
NoServeAfterBurn ==
  [][last' # None /\ last'.status = 200 =>
       \A item \in last'.items : item.id \notin burned]_vars

(* A broker that is down holds nothing: its last act was to wipe all that  *)
(* was there when it was told to stop, whichever purge was in progress     *)
(* before (lifespan, finally: store.purge_all()).                          *)
StopLeavesNothing == mode = "down" => Held(store) = {}

(* The inbox and the retrieve endpoint agree: a wallet can retrieve a      *)
(* ticket right now exactly when its inbox lists it.                       *)
InboxMatchesRetrieve ==
  \A t \in TxIds, wallet \in Addresses :
    t \in Inbox(store, wallet, clock) <=> Verdict(t, wallet, wallet, clock) = 200

(* The broker is a mailbox: see module Mailbox.  A package whose TTL is    *)
(* over, or that a stopping broker still holds, counts as vanished.        *)
Live(t) == mode = "up" /\ t \in Held(store) \ Expired(store, clock)

BoxPuts == earlier + store.total_staged

BoxContents ==
  [t \in TxIds |->
     IF Live(t) THEN [id |-> Id(t), recipient |-> store.data[t].recipient] ELSE None]

BoxOut ==
  IF last = None \/ last.status # 200 THEN {}
  ELSE {[id |-> item.id, to |-> last.wallet] : item \in last.items}

Box == INSTANCE Mailbox WITH puts <- BoxPuts, box <- BoxContents, out <- BoxOut

ImplementsMailbox == Box!BoxSpec

(* Nothing stays in RAM for ever: with the purge task scheduled, a staging *)
(* leaves memory even if nobody asks for it, whatever restarts happen.     *)
InRam(n) == \E t \in Held(store) : Id(t) = n

EveryPayloadLeaves == \A n \in Ids : InRam(n) ~> ~InRam(n)

(* memory_store.py:199-202 says that retrieve does not burn so that the    *)
(* buyer does not lose the data when the network fails midway: when the    *)
(* answer with a burnt package is lost, the broker still has the package.  *)
LossLeavesACopy ==
  [][\A n \in wire \ wire' : n \in received' \/ InRam(n)']_vars

=============================================================================
