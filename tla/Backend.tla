------------------------------ MODULE Backend ------------------------------
(***************************************************************************)
(* Broker processes and what they store packages in: the RAM of the        *)
(* process, or one Redis server that several brokers share (the end of     *)
(* broker/memory_store.py).                                                *)
(*                                                                         *)
(* A handler of a RAM broker is one step (see module Broker).  A handler   *)
(* over RedisStore is one step per Redis command: it blocks the event loop *)
(* of its own broker, but other brokers and Redis' own expiry go on in     *)
(* between, and a command may raise, before or after Redis did it.         *)
(* Signatures are module Broker's: a wallet here has proved that it is     *)
(* one.                                                                    *)
(***************************************************************************)
EXTENDS StoreProperties, SequencesExt

CONSTANTS
  Brokers,
  Environments,  \* what a process may find when it imports memory_store
  TTLs,
  MaxClock,      \* bound: the clock stops here
  MaxCount,      \* bounds: packages staged, lookups begun, processes started
                 \* and, for module Monitor, dashboards refreshed
  MaxCalls       \* bound: all of these together

ASSUME BackendAssumption ==
  /\ Environments \subseteq [REDIS_URL: BOOLEAN, ALLOW_REDIS_STORE: BOOLEAN, redis: BOOLEAN]
  /\ TTLs \subseteq Nat \ {0}

VARIABLES
  clock,
  mode,     \* per broker: "down", "up", "stopping"
  backend,  \* per broker: the class of `store`: "ram", "redis" or None
  store,    \* per broker: the fields of its store object
  server,   \* Redis: the keys cloakshare:tx:*, and packages ever put there
  call,     \* per broker: the RedisStore method in progress and its locals, or None
  burnt,    \* packages of Redis that a client was told are gone
  last,     \* the answer a lookup in Redis got in the last step, or None
  count     \* how often a bounded action was taken

processes == <<mode, backend, store>>
backendVars == <<clock, processes, server, call, burnt, last, count>>

Bump(what) ==
  /\ count[what] < MaxCount[what]
  /\ count.staged + count.retrieved + count.runs + count.refreshes < MaxCalls
  /\ count' = [count EXCEPT ![what] = @ + 1]

-----------------------------------------------------------------------------
(***************************************************************************)
(* The process                                                             *)
(***************************************************************************)

\* The order of the checks at the end of memory_store.py; "refused" is the
\* RuntimeError that keeps the process from starting.
Chosen(env) ==
  IF env.REDIS_URL /\ ~env.ALLOW_REDIS_STORE THEN "refused"
  ELSE IF env.REDIS_URL /\ ~env.redis THEN "refused"
  ELSE IF env.REDIS_URL THEN "redis"
  ELSE "ram"

\* RedisStore's own fields: counters of this run.
NewRedisStore == [total_staged |-> 0, total_retrieved |-> 0,
                  total_purged_expired |-> 0, disk_writes |-> 0]

BackendInit ==
  /\ clock = 0
  /\ mode = [b \in Brokers |-> "down"]
  /\ backend = [b \in Brokers |-> None]
  /\ store = [b \in Brokers |-> None]
  /\ server = [data |-> [t \in TxIds |-> None], puts |-> 0]
  /\ call = [b \in Brokers |-> None]
  /\ burnt = {} /\ last = None
  /\ count = [staged |-> 0, retrieved |-> 0, runs |-> 0, refreshes |-> 0]

Start(b) ==
  /\ mode[b] = "down"
  /\ \E env \in Environments :
       /\ Chosen(env) # "refused"
       /\ backend' = [backend EXCEPT ![b] = Chosen(env)]
       /\ store' = [store EXCEPT ![b] = IF Chosen(env) = "redis" THEN NewRedisStore ELSE EmptyStore]
  /\ mode' = [mode EXCEPT ![b] = "up"]
  /\ Bump("runs") /\ last' = None
  /\ UNCHANGED <<clock, server, call, burnt>>

Down(b) ==
  /\ mode' = [mode EXCEPT ![b] = "down"]
  /\ backend' = [backend EXCEPT ![b] = None]
  /\ store' = [store EXCEPT ![b] = None]
  /\ call' = [call EXCEPT ![b] = None]
  /\ last' = None

\* The process is killed.  What is in Redis stays there.
Crash(b) ==
  /\ mode[b] # "down" /\ Down(b)
  /\ UNCHANGED <<clock, server, burnt, count>>

Free(b, kind) == mode[b] = "up" /\ backend[b] = kind /\ call[b] = None

Begin(b, method) == call' = [call EXCEPT ![b] = method]
Return(b) == call' = [call EXCEPT ![b] = None]

HeldIn(data) == {t \in TxIds : data[t] # None}
Gone(S) == server' = [server EXCEPT !.data = [t \in TxIds |-> IF t \in S THEN None ELSE @[t]]]

\* lifespan's finally.  RAM is wiped at once; with Redis the keys are listed
\* - those of every broker - and deleted by a second command.
Stop(b) ==
  /\ mode[b] = "up" /\ call[b] = None
  /\ IF backend[b] = "redis" /\ HeldIn(server.data) # {}
     THEN /\ mode' = [mode EXCEPT ![b] = "stopping"]
          /\ Begin(b, [op |-> "purge_all", keys |-> HeldIn(server.data)])
          /\ last' = None /\ UNCHANGED <<backend, store>>
     ELSE Down(b)
  /\ UNCHANGED <<clock, server, burnt, count>>

DeleteAll(b) ==
  /\ mode[b] = "stopping"
  /\ Gone(call[b].keys)
  /\ Down(b)
  /\ UNCHANGED <<clock, burnt, count>>

-----------------------------------------------------------------------------
(***************************************************************************)
(* Handlers over InMemoryStore                                             *)
(***************************************************************************)

RamBecomes(b, s) ==
  /\ Free(b, "ram")
  /\ store' = [store EXCEPT ![b] = s]
  /\ last' = None
  /\ UNCHANGED <<clock, mode, backend, server, call, burnt>>

StageInRam(b, t, recipient, payload, ttl) ==
  /\ Bump("staged")
  /\ RamBecomes(b, Stage(store[b], t, recipient, payload, clock + ttl))

\* GET /retrieve with burn, or DELETE /payload, by the recipient; anybody
\* else is refused after the lookup.
BurnInRam(b, t, wallet) ==
  /\ Bump("retrieved")
  /\ mode[b] = "up" /\ backend[b] = "ram"
  /\ LET entry == Retrieved(store[b], t, clock)
         s == Retrieve(store[b], t, clock)
     IN  RamBecomes(b, IF entry # None /\ LowerOf[entry.recipient] = LowerOf[wallet]
                       THEN PurgeOne(s, t, "WIPE") ELSE s)

\* The elements of S, each of them Before the next: sorted(), and a loop
\* over a dict.
InOrder(S, Before(_, _)) ==
  CHOOSE seq \in [1..Cardinality(S) -> S] :
    \A m, n \in 1..Cardinality(S) : m < n => Before(seq[m], seq[n])

\* _purge_loop: every expired entry, in the order of the dict.
PurgeExpired(b) ==
  /\ Free(b, "ram") /\ Expired(store[b], clock) # {}
  /\ LET expired == InOrder(Expired(store[b], clock),
                            LAMBDA t, u : store[b].data[t].order < store[b].data[u].order)
         wiped == FoldLeft(LAMBDA s, t : PurgeOne(s, t, "EXPIRE"), store[b], expired)
     IN  RamBecomes(b, CountExpired(wiped, Len(expired)))
  /\ UNCHANGED count

-----------------------------------------------------------------------------
(***************************************************************************)
(* Handlers over RedisStore                                                *)
(***************************************************************************)

IdsOf(data) == {data[t].order : t \in HeldIn(data)}

Owned(entry, wallet) == LowerOf[entry.recipient] = LowerOf[wallet]

\* What a lookup answers; before is what was burnt when it began.
Answer(op, b, wallet, ids, present, before) ==
  last' = [op |-> op, broker |-> b, wallet |-> wallet, ids |-> ids,
           present |-> present, before |-> before]

\* SETEX.  When the reply is lost the handler raises and counts nothing.
StageInRedis(b, t, recipient, payload, ttl) ==
  /\ Free(b, "redis") /\ Bump("staged")
  /\ server' = [data |-> [server.data EXCEPT ![t] =
                            [recipient |-> recipient, payload |-> payload,
                             expires_at |-> clock + ttl, order |-> server.puts + 1]],
                puts |-> server.puts + 1]
  /\ \/ store' = [store EXCEPT ![b].total_staged = @ + 1, ![b].disk_writes = @ + 1]
     \/ store' = store
  /\ last' = None
  /\ UNCHANGED <<clock, mode, backend, call, burnt>>

\* Mutant: the answer goes out before the DEL.
GetEarly(b, t, wallet, op) ==
  LET entry == server.data[t] IN
  /\ Free(b, "redis") /\ Bump("retrieved")
  /\ store' = store
  /\ IF entry # None /\ entry.expires_at > clock /\ Owned(entry, wallet)
     THEN /\ Answer(op, b, wallet, {entry.order}, {}, burnt)
          /\ burnt' = IF op = "read" THEN burnt ELSE burnt \cup {entry.order}
          /\ Begin(b, [op |-> "expired", tx_id |-> t])
     ELSE UNCHANGED <<burnt, call>> /\ last' = None
  /\ UNCHANGED <<clock, mode, backend, server>>

\* GET, at the start of retrieve_payload ("read", "burn") and delete_payload:
\* 404, an expired package that is to be deleted, 403, or the package - to
\* be deleted before it is answered unless it was only read.
Get(b, t, wallet, op) ==
  LET entry == server.data[t] IN
  /\ Free(b, "redis") /\ Bump("retrieved")
  /\ \/ entry = None /\ last' = None /\ UNCHANGED <<store, call>>
     \/ /\ entry # None /\ clock >= entry.expires_at
        /\ Begin(b, [op |-> "expired", tx_id |-> t])
        /\ last' = None /\ store' = store
     \/ /\ entry # None /\ clock < entry.expires_at
        /\ store' = [store EXCEPT ![b].total_retrieved = @ + 1]
        /\ \/ ~Owned(entry, wallet) /\ last' = None /\ call' = call
           \/ /\ Owned(entry, wallet) /\ op = "read" /\ call' = call
              /\ Answer(op, b, wallet, {entry.order}, {}, burnt)
           \/ /\ Owned(entry, wallet) /\ op # "read" /\ last' = None
              /\ Begin(b, [op |-> op, tx_id |-> t, wallet |-> wallet,
                           id |-> entry.order, before |-> burnt])
  /\ UNCHANGED <<clock, mode, backend, server, burnt>>

\* DEL, of whatever is under the key by now, then the answer.
Del(b) ==
  /\ call[b] # None /\ call[b].op \in {"expired", "burn", "delete"}
  /\ Gone({call[b].tx_id})
  /\ IF call[b].op = "expired" THEN last' = None /\ burnt' = burnt
     ELSE /\ burnt' = burnt \cup {call[b].id}
          /\ IF call[b].op = "burn"
             THEN Answer("burn", b, call[b].wallet, {call[b].id}, {}, call[b].before)
             ELSE last' = None
  /\ Return(b)
  /\ UNCHANGED <<clock, processes, count>>

\* get_inbox: KEYS, then a GET for each of them.
InboxKeys(b, wallet) ==
  /\ Free(b, "redis") /\ Bump("retrieved")
  /\ Begin(b, [op |-> "inbox", wallet |-> wallet, keys |-> HeldIn(server.data),
               ids |-> {}, present |-> IdsOf(server.data), before |-> burnt])
  /\ last' = None
  /\ UNCHANGED <<clock, processes, server, burnt>>

\* Mutant: the first key that is gone ends the listing.
InboxGetBreaks(b) ==
  call[b] # None /\ call[b].op = "inbox" /\ \E t \in call[b].keys :
    LET entry == server.data[t] IN
    /\ call' = [call EXCEPT ![b].keys = IF entry = None THEN {} ELSE @ \ {t},
                            ![b].ids = IF entry # None /\ clock < entry.expires_at /\ Owned(entry, call[b].wallet)
                                       THEN @ \cup {entry.order} ELSE @]
    /\ last' = None
    /\ UNCHANGED <<clock, processes, server, burnt, count>>

InboxGet(b) ==
  /\ call[b] # None /\ call[b].op = "inbox"
  /\ \E t \in call[b].keys :
       LET entry == server.data[t] IN
       call' = [call EXCEPT
                  ![b].keys = @ \ {t},
                  ![b].ids = IF entry # None /\ clock < entry.expires_at /\ Owned(entry, call[b].wallet)
                             THEN @ \cup {entry.order} ELSE @]
  /\ last' = None
  /\ UNCHANGED <<clock, processes, server, burnt, count>>

InboxAnswer(b) ==
  /\ call[b] # None /\ call[b].op = "inbox" /\ call[b].keys = {}
  /\ Answer("inbox", b, call[b].wallet, call[b].ids, call[b].present, call[b].before)
  /\ Return(b)
  /\ UNCHANGED <<clock, processes, server, burnt, count>>

\* A command raises, done or not: the handler ends with a 500, purge_all with
\* the process.
RedisError(b) ==
  /\ call[b] # None
  /\ \/ UNCHANGED server
     \/ call[b].op \in {"expired", "burn", "delete"} /\ Gone({call[b].tx_id})
     \/ call[b].op = "purge_all" /\ Gone(call[b].keys)
  /\ IF mode[b] = "stopping" THEN Down(b)
     ELSE Return(b) /\ last' = None /\ UNCHANGED processes
  /\ UNCHANGED <<clock, burnt, count>>

\* Redis drops a key whose TTL is over, on its own.
RedisExpires(t) ==
  /\ server.data[t] # None /\ clock >= server.data[t].expires_at
  /\ Gone({t}) /\ last' = None
  /\ UNCHANGED <<clock, processes, call, burnt, count>>

Tick ==
  /\ clock < MaxClock /\ clock' = clock + 1 /\ last' = None
  /\ UNCHANGED <<processes, server, call, burnt, count>>

BackendNext ==
  \/ \E b \in Brokers :
       \/ Start(b) \/ Crash(b) \/ Stop(b) \/ DeleteAll(b)
       \/ PurgeExpired(b) \/ Del(b) \/ InboxGet(b) \/ InboxAnswer(b) \/ RedisError(b)
       \/ \E t \in TxIds, a \in Addresses, p \in Payloads, ttl \in TTLs :
            StageInRam(b, t, a, p, ttl) \/ StageInRedis(b, t, a, p, ttl)
       \/ \E t \in TxIds, w \in Addresses :
            BurnInRam(b, t, w) \/ \E op \in {"read", "burn", "delete"} : Get(b, t, w, op)
       \/ \E w \in Addresses : InboxKeys(b, w)
  \/ \E t \in TxIds : RedisExpires(t)
  \/ Tick

-----------------------------------------------------------------------------
(***************************************************************************)
(* Properties                                                              *)
(***************************************************************************)

(* Brokers that share a Redis agree on what is burnt: once one of them has *)
(* told a client that a package is destroyed, no lookup that begins after  *)
(* that, at any broker, over retrieve or inbox, returns it - though GET    *)
(* and DEL are two commands, and brokers stop and crash in between.        *)
BurntStaysBurnt == last # None => last.ids \cap last.before = {}

(* get_inbox over Redis reads the keys one by one while packages come and  *)
(* go: whatever vanishes meanwhile, every package of the wallet that was   *)
(* there the whole time is listed, and nothing is listed that is not the   *)
(* wallet's.                                                               *)
InboxIsFair ==
  last # None /\ last.op = "inbox" =>
    \A t \in HeldIn(server.data) :
      LET entry == server.data[t] IN
      IF Owned(entry, last.wallet)
      THEN clock < entry.expires_at /\ entry.order \in last.present => entry.order \in last.ids
      ELSE entry.order \notin last.ids

=============================================================================
