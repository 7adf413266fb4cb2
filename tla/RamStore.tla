------------------------------ MODULE RamStore ------------------------------
(***************************************************************************)
(* The RAM store of the broker as a value: the fields of InMemoryStore     *)
(* (broker/memory_store.py) in one record, and each method that changes    *)
(* them as an operator from store to store.  Nothing here is a step: the   *)
(* modules MemoryStore (threads and the lock) and Broker (HTTP handlers on *)
(* an event loop) say when the operators are applied.                      *)
(***************************************************************************)
EXTENDS Integers, Sequences, FiniteSets

CONSTANTS
  TxIds,              \* ticket ids
  Addresses,          \* spellings of wallet addresses, as requests carry them
  LowerOf,            \* str.lower() on those spellings
  Payloads,           \* the four sensitive fields of a package, as one value
  Size,               \* bytes of those four fields together
  None,               \* Python's None: no entry
  RAM_EVENT_LOG_SIZE  \* maxlen of the event deque

\* A dict value.  `order` is its place in the dict's insertion order.
Entry == [recipient: Addresses, payload: Payloads,
          expires_at: Nat, order: Nat]

ASSUME RamStoreAssumption ==
  /\ IsFiniteSet(TxIds)
  /\ LowerOf \in [Addresses -> Addresses]
  /\ Size \in [Payloads -> Nat]
  /\ None \notin Entry
  /\ RAM_EVENT_LOG_SIZE \in Nat \ {0}

Reasons == {"WIPE", "EXPIRE"}

Event == [seq: Nat, action: Reasons \cup {"STAGE"}, tx_id: TxIds,
          size_bytes: Nat]

Store == [data: [TxIds -> Entry \cup {None}],
          total_staged: Nat, total_retrieved: Nat, total_purged_expired: Nat,
          events: Seq(Event), bytes_staged: Nat, bytes_wiped: Nat, seq: Nat]

EmptyStore ==
  [data |-> [t \in TxIds |-> None],
   total_staged |-> 0, total_retrieved |-> 0, total_purged_expired |-> 0,
   events |-> <<>>, bytes_staged |-> 0, bytes_wiped |-> 0, seq |-> 0]

-----------------------------------------------------------------------------

Held(s) == {t \in TxIds : s.data[t] # None}

\* Mutant: the entry outlives the second it expires in.
ExpiredStrictly(s, now) == {t \in Held(s) : now > s.data[t].expires_at}

\* The test of retrieve and of purge_expired: now >= entry["expires_at"].
Expired(s, now) == {t \in Held(s) : now >= s.data[t].expires_at}

\* Mutants: a deque without maxlen; a full deque that refuses the new event.
PushUnbounded(log, e) == Append(log, e)
PushKeepOldest(log, e) == IF Len(log) < RAM_EVENT_LOG_SIZE THEN Append(log, e) ELSE log

\* deque.append with maxlen: the oldest event falls out.
Push(log, e) ==
  IF Len(log) < RAM_EVENT_LOG_SIZE THEN Append(log, e) ELSE Append(Tail(log), e)

LogEvent(s, action, t, size) ==
  [s EXCEPT !.seq = @ + 1,
            !.events = Push(@, [seq |-> s.seq + 1, action |-> action,
                                tx_id |-> t, size_bytes |-> size])]

\* Mutant: a removal that is not logged.
PurgeUnlogged(s, t, reason) ==
  [s EXCEPT !.data[t] = None, !.bytes_wiped = @ + Size[s.data[t].payload]]

\* pop, overwrite the buffers with 0x00, count the bytes, log.
PurgeHeld(s, t, reason) ==
  LET size == Size[s.data[t].payload] IN
  LogEvent([s EXCEPT !.data[t] = None, !.bytes_wiped = @ + size],
           reason, t, size)

PurgeOne(s, t, reason) ==
  IF s.data[t] = None THEN s ELSE PurgeHeld(s, t, reason)

NewEntry(s, recipient, payload, expires_at) ==
  [recipient |-> recipient, payload |-> payload, expires_at |-> expires_at,
   order |-> s.total_staged + 1]

\* Insert a fresh entry for a ticket that holds none.
Insert(s, t, recipient, payload, expires_at) ==
  LET size == Size[payload] IN
  LogEvent([s EXCEPT !.data[t] = NewEntry(s, recipient, payload, expires_at),
                     !.total_staged = @ + 1,
                     !.bytes_staged = @ + size],
           "STAGE", t, size)

\* Mutant: the entry already there is replaced without being wiped.
StageOver(s, t, recipient, payload, expires_at) ==
  Insert(s, t, recipient, payload, expires_at)

\* stage under the lock: an entry already there is wiped first.
Stage(s, t, recipient, payload, expires_at) ==
  Insert(PurgeOne(s, t, "WIPE"), t, recipient, payload, expires_at)

\* Mutant: retrieve answers without looking at expires_at.
RetrievedStale(s, t, now) == s.data[t]

\* What retrieve answers, and what it does to the store.
Retrieved(s, t, now) ==
  IF t \in Held(s) /\ t \notin Expired(s, now) THEN s.data[t] ELSE None

CountExpired(s, n) == [s EXCEPT !.total_purged_expired = @ + n]

\* Mutant: an expiry found by retrieve is not counted.
RetrieveUncounted(s, t, now) ==
  IF s.data[t] = None THEN s
  ELSE IF t \in Expired(s, now) THEN PurgeOne(s, t, "EXPIRE")
  ELSE [s EXCEPT !.total_retrieved = @ + 1]

Retrieve(s, t, now) ==
  IF s.data[t] = None THEN s
  ELSE IF t \in Expired(s, now) THEN CountExpired(PurgeOne(s, t, "EXPIRE"), 1)
  ELSE [s EXCEPT !.total_retrieved = @ + 1]

\* Mutant: the inbox compares addresses as they are spelled.
InboxExactCase(s, address, now) ==
  {t \in Held(s) : now < s.data[t].expires_at /\ s.data[t].recipient = address}

\* The tickets get_inbox lists for a wallet address, with a test of its own.
Inbox(s, address, now) ==
  {t \in Held(s) : /\ now < s.data[t].expires_at
                   /\ LowerOf[s.data[t].recipient] = LowerOf[address]}

\* The next ticket of a loop over dict keys: loops run in insertion order.
NextInDict(s, todo, t) ==
  /\ t \in todo
  /\ \A u \in todo : s.data[t].order <= s.data[u].order

=============================================================================
