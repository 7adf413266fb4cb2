---------------------------- MODULE MonitorProofs ----------------------------
(***************************************************************************)
(* What brokers and the dashboard over them promise, for any number of     *)
(* brokers, and any tickets, wallets, TTLs and bounds.                     *)
(*                                                                         *)
(* Brokers that share a Redis: a burnt package stays burnt, and an inbox   *)
(* is fair.  The number of a staging is never given twice, and a package   *)
(* never changes its ticket.  So whatever comes and goes between two       *)
(* commands of a handler, what it noted down by number it can still        *)
(* account for.                                                            *)
(*                                                                         *)
(* The dashboard: its drawing adds up, and freezes when the broker does    *)
(* not answer.  Every RAM store is consistent in the sense of              *)
(* RamStoreProofs, so what /stats and /ram answer adds up by itself; the   *)
(* session holds such answers only, and a refresh that came to draw has    *)
(* what it draws in the session.                                           *)
(***************************************************************************)
EXTENDS Monitor, RamStoreProofs

Data == server.data

\* Numbers tell packages apart, and none of a burnt package is there.
ServerOK ==
  /\ server = [data |-> [t \in TxIds |-> Data[t]], puts |-> server.puts]
  /\ server.puts \in Nat /\ clock \in Nat
  /\ \A t \in HeldIn(Data) : /\ Data[t].order \in 1..server.puts
                             /\ Data[t].order \notin burnt
                             /\ Data[t].expires_at \in Nat
  /\ \A t, u \in HeldIn(Data) : Data[t].order = Data[u].order => t = u
  /\ burnt \subseteq 1..server.puts

\* A burn under way: its package was not burnt when it began, and is under
\* the ticket that is to be deleted if it is anywhere.
BurnOK(c) ==
  /\ c.id \in 1..server.puts /\ c.id \notin c.before
  /\ \A t \in HeldIn(Data) : Data[t].order = c.id => t = c.tx_id

Listing ==
  [op: {"inbox"}, wallet: Addresses, keys: SUBSET TxIds, ids: SUBSET Nat,
   present: SUBSET Nat, before: SUBSET Nat]

\* A listing under way: what was there when it began and still is has been
\* listed, if it is the wallet's, or will be looked at.
InboxOK(c) ==
  /\ c \in Listing
  /\ c.present \subseteq 1..server.puts /\ c.ids \subseteq 1..server.puts
  /\ c.ids \cap c.before = {}
  /\ \A t \in HeldIn(Data) :
       /\ Data[t].order \in c.present =>
            \/ t \in c.keys
            \/ Owned(Data[t], c.wallet) /\ clock < Data[t].expires_at => Data[t].order \in c.ids
       /\ Data[t].order \in c.ids => Owned(Data[t], c.wallet)

CallOK(b) ==
  call[b] # None =>
    /\ call[b].op \in {"burn", "delete"} => call[b].before \subseteq burnt /\ BurnOK(call[b])
    /\ call[b].op = "inbox" => call[b].before \subseteq burnt /\ InboxOK(call[b])

BackendInv ==
  /\ ServerOK
  /\ call = [b \in Brokers |-> call[b]]
  /\ \A b \in Brokers : CallOK(b)

-----------------------------------------------------------------------------
(***************************************************************************)
(* What a step may do to Redis                                             *)
(***************************************************************************)

\* Packages vanish, or come under a number of their own.
Moves ==
  /\ server.puts <= server'.puts /\ server'.puts \in Nat
  /\ clock <= clock' /\ clock' \in Nat
  /\ \A t \in HeldIn(Data') :
       \/ t \in HeldIn(Data) /\ Data'[t] = Data[t]
       \/ Data'[t].order > server.puts /\ Data'[t].order \in Nat
  /\ burnt \subseteq burnt'

\* Packages only vanish.
Shrinks ==
  /\ server' = [data |-> [t \in TxIds |-> Data'[t]], puts |-> server.puts]
  /\ \A t \in HeldIn(Data') : t \in HeldIn(Data) /\ Data'[t] = Data[t]
  /\ clock <= clock' /\ clock' \in Nat

LEMMA GoneShrinks ==
  ASSUME ServerOK, NEW S, Gone(S), UNCHANGED clock
  PROVE  /\ Shrinks
         /\ \A t \in HeldIn(Data') : t \notin S
<1>1. /\ server = [data |-> [t \in TxIds |-> Data[t]], puts |-> server.puts]
      /\ server.puts \in Nat /\ clock \in Nat
  BY DEF ServerOK
<1>2. server' = [server EXCEPT !.data = [t \in TxIds |-> IF t \in S THEN None ELSE Data[t]]]
  BY <1>1 DEF Gone, Data
<1>3. server'.puts = server.puts /\ Data' = [t \in TxIds |-> IF t \in S THEN None ELSE Data[t]]
      /\ server' = [data |-> Data', puts |-> server'.puts]
  BY <1>1, <1>2 DEF Data
<1> QED  BY <1>1, <1>3 DEF Shrinks, HeldIn

LEMMA SameShrinks ==
  ASSUME ServerOK, UNCHANGED server, clock <= clock', clock' \in Nat
  PROVE  Shrinks
BY DEF ServerOK, Shrinks, Data, HeldIn

LEMMA ShrinksKeeps ==
  ASSUME ServerOK, Shrinks, burnt \subseteq burnt', burnt' \subseteq 1..server.puts,
         \A t \in HeldIn(Data') : Data[t].order \notin burnt'
  PROVE  ServerOK' /\ Moves
<1>1. server'.puts = server.puts /\ server.puts \in Nat
  BY DEF ServerOK, Shrinks
<1>2. Moves
  BY <1>1 DEF Moves, Shrinks
<1>3. ServerOK'
  BY <1>1 DEF ServerOK, Shrinks, Data
<1> QED  BY <1>2, <1>3

LEMMA CallStays ==
  ASSUME ServerOK, Moves, NEW b \in Brokers, CallOK(b), call'[b] = call[b]
  PROVE  CallOK(b)'
<1> DEFINE c == call[b]
<1>1. \A n \in 1..server.puts : n \in 1..server'.puts
  BY DEF ServerOK, Moves
<1>2. ASSUME BurnOK(c)  PROVE BurnOK(c)'
  BY <1>1, <1>2 DEF BurnOK, Moves, ServerOK
<1>3. ASSUME InboxOK(c)  PROVE InboxOK(c)'
  BY <1>1, <1>3 DEF InboxOK, Moves, ServerOK, Owned
<1> QED  BY <1>2, <1>3 DEF CallOK, Moves

\* The others' calls go on; that of b is new.
LEMMA CallsKept ==
  ASSUME BackendInv, Moves, ServerOK', NEW b \in Brokers, NEW c,
         call' = [call EXCEPT ![b] = c], CallOK(b)'
  PROVE  BackendInv'
<1>1. /\ call' = [d \in Brokers |-> call'[d]]
      /\ \A d \in Brokers \ {b} : call'[d] = call[d]
  BY DEF BackendInv
<1>2. \A d \in Brokers : CallOK(d)'
  BY <1>1, CallStays DEF BackendInv
<1> QED  BY <1>1, <1>2 DEF BackendInv

LEMMA CallIs ==
  ASSUME BackendInv, NEW b \in Brokers, NEW c, call' = [call EXCEPT ![b] = c]
  PROVE  call'[b] = c
BY DEF BackendInv

\* A step that lets packages vanish at most, and ends or changes no call but
\* for one with nothing to account for.
LEMMA QuietStep ==
  ASSUME BackendInv, Shrinks, UNCHANGED burnt,
         \/ UNCHANGED call
         \/ \E b \in Brokers : \E c :
              /\ call' = [call EXCEPT ![b] = c]
              /\ c = None \/ c.op \in {"purge_all", "expired"}
  PROVE  BackendInv'
<1>1. ServerOK' /\ Moves
  <2>1. ServerOK /\ \A t \in HeldIn(Data') : Data[t].order \notin burnt'
    BY DEF BackendInv, ServerOK, Shrinks
  <2> QED  BY <2>1, ShrinksKeeps DEF ServerOK
<1>2. CASE UNCHANGED call
  BY <1>1, <1>2, CallStays DEF BackendInv
<1>3. ASSUME NEW b \in Brokers, NEW c, call' = [call EXCEPT ![b] = c],
             c = None \/ c.op \in {"purge_all", "expired"}
      PROVE  BackendInv'
  <2>1. call'[b] = c
    BY <1>3, CallIs
  <2>2. CallOK(b)'
    BY <1>3, <2>1 DEF CallOK
  <2> QED  BY <1>1, <1>3, <2>2, CallsKept
<1> QED  BY <1>2, <1>3

\* A step that leaves Redis alone.
LEMMA RedisUntouched ==
  ASSUME BackendInv, UNCHANGED <<server, clock, burnt>>
  PROVE  Shrinks /\ Moves
<1>1. ServerOK
  BY DEF BackendInv
<1>2. Shrinks
  BY <1>1, SameShrinks DEF ServerOK
<1> QED  BY <1>1, <1>2, ShrinksKeeps DEF ServerOK, Shrinks

-----------------------------------------------------------------------------
(***************************************************************************)
(* The steps                                                               *)
(***************************************************************************)

AnswersOK == BurntStaysBurnt /\ InboxIsFair

LEMMA NoAnswer ==
  ASSUME last' = None
  PROVE  AnswersOK'
BY DEF AnswersOK, BurntStaysBurnt, InboxIsFair

LEMMA ProcessSteps ==
  ASSUME BackendInv, NEW b \in Brokers,
         \/ Start(b) \/ Crash(b) \/ Stop(b) \/ DeleteAll(b) \/ RedisError(b) \/ PurgeExpired(b)
         \/ \E t \in TxIds, a \in Addresses, p \in Payloads, ttl \in TTLs : StageInRam(b, t, a, p, ttl)
         \/ \E t \in TxIds, w \in Addresses : BurnInRam(b, t, w)
  PROVE  BackendInv' /\ AnswersOK'
<1>0. ServerOK
  BY DEF BackendInv
<1>1. CASE Start(b)
  BY <1>1, QuietStep, NoAnswer, RedisUntouched DEF Start
<1>2. CASE Crash(b)
  BY <1>2, QuietStep, NoAnswer, RedisUntouched DEF Crash, Down
<1>3. CASE Stop(b)
  <2>1. CASE Down(b)
    BY <1>3, <2>1, QuietStep, NoAnswer, RedisUntouched DEF Stop, Down
  <2>2. CASE ~Down(b)
    <3> DEFINE c == [op |-> "purge_all", keys |-> HeldIn(server.data)]
    <3>1. /\ call' = [call EXCEPT ![b] = c] /\ c.op = "purge_all" /\ last' = None
          /\ UNCHANGED <<server, clock, burnt>>
      BY <1>3, <2>2 DEF Stop, Begin
    <3> HIDE DEF c
    <3> QED  BY <3>1, QuietStep, NoAnswer, RedisUntouched
  <2> QED  BY <2>1, <2>2
<1>4. CASE DeleteAll(b)
  BY <1>0, <1>4, GoneShrinks, QuietStep, NoAnswer DEF DeleteAll, Down
<1>5. CASE RedisError(b)
  <2>1. Shrinks
    BY <1>0, <1>5, GoneShrinks, RedisUntouched DEF RedisError
  <2> QED  BY <1>5, <2>1, QuietStep, NoAnswer DEF RedisError, Down, Return
<1>6. CASE \/ PurgeExpired(b)
           \/ \E t \in TxIds, a \in Addresses, p \in Payloads, ttl \in TTLs : StageInRam(b, t, a, p, ttl)
           \/ \E t \in TxIds, w \in Addresses : BurnInRam(b, t, w)
  <2>1. \E s : RamBecomes(b, s)
    BY <1>6 DEF PurgeExpired, StageInRam, BurnInRam
  <2> QED  BY <2>1, QuietStep, NoAnswer, RedisUntouched DEF RamBecomes
<1> QED  BY <1>1, <1>2, <1>3, <1>4, <1>5, <1>6

LEMMA StagesInRedis ==
  ASSUME BackendInv, NEW b \in Brokers, NEW t \in TxIds, NEW a, NEW p, NEW ttl \in TTLs,
         StageInRedis(b, t, a, p, ttl)
  PROVE  BackendInv' /\ AnswersOK'
<1> DEFINE e == [recipient |-> a, payload |-> p, expires_at |-> clock + ttl, order |-> server.puts + 1]
<1>1. /\ server' = [data |-> [Data EXCEPT ![t] = e], puts |-> server.puts + 1]
      /\ UNCHANGED <<clock, call, burnt>> /\ last' = None
  BY DEF StageInRedis, Data
<1>2. ServerOK /\ Data = [u \in TxIds |-> Data[u]] /\ server.puts \in Nat /\ clock \in Nat
  BY DEF BackendInv, ServerOK, Data
<1>3. e.order = server.puts + 1 /\ e.expires_at \in Nat
  BY <1>2, BackendAssumption
<1> HIDE DEF e
<1>4. /\ Data' = [Data EXCEPT ![t] = e] /\ server'.puts = server.puts + 1
      /\ server' = [data |-> Data', puts |-> server'.puts]
  BY <1>1 DEF Data
<1>5. \A u \in TxIds : Data'[u] = IF u = t THEN e ELSE Data[u]
  BY <1>2, <1>4
<1>6. Data' = [u \in TxIds |-> Data'[u]]
  BY <1>2, <1>4
<1>7. \A u \in HeldIn(Data') : (u = t /\ Data'[u] = e) \/ (u \in HeldIn(Data) /\ Data'[u] = Data[u])
  BY <1>5 DEF HeldIn
<1>8. ServerOK'
  <2>1. \A u \in HeldIn(Data') : /\ Data'[u].order \in 1..server'.puts
                                 /\ Data'[u].order \notin burnt'
                                 /\ Data'[u].expires_at \in Nat
    BY <1>1, <1>2, <1>3, <1>4, <1>7 DEF ServerOK
  <2>2. \A u, v \in HeldIn(Data') : Data'[u].order = Data'[v].order => u = v
    BY <1>2, <1>3, <1>7 DEF ServerOK
  <2>3. burnt' \subseteq 1..server'.puts
    BY <1>1, <1>2, <1>4 DEF ServerOK
  <2> QED  BY <1>1, <1>2, <1>4, <1>6, <2>1, <2>2, <2>3 DEF ServerOK
<1>9. Moves
  BY <1>1, <1>2, <1>3, <1>4, <1>7 DEF Moves
<1> QED  BY <1>1, <1>8, <1>9, NoAnswer, CallStays DEF BackendInv

LEMMA Gets ==
  ASSUME BackendInv, NEW b \in Brokers, NEW t \in TxIds, NEW w, NEW op \in {"read", "burn", "delete"},
         Get(b, t, w, op)
  PROVE  BackendInv' /\ AnswersOK'
<1> DEFINE entry == Data[t]
<1>1. UNCHANGED <<server, clock, burnt>> /\ Shrinks /\ Moves /\ ServerOK
  BY RedisUntouched DEF Get, BackendInv
<1>2. CASE last' = None /\ call' = call
  BY <1>1, <1>2, QuietStep, NoAnswer
<1>3. CASE last' = None /\ Begin(b, [op |-> "expired", tx_id |-> t])
  <2> DEFINE c == [op |-> "expired", tx_id |-> t]
  <2>1. call' = [call EXCEPT ![b] = c] /\ c.op = "expired"
    BY <1>3 DEF Begin
  <2> HIDE DEF c
  <2> QED  BY <1>1, <1>3, <2>1, QuietStep, NoAnswer
<1>4. CASE /\ entry # None /\ call' = call /\ Answer(op, b, w, {entry.order}, {}, burnt) /\ op = "read"
  <2> DEFINE l == [op |-> op, broker |-> b, wallet |-> w, ids |-> {entry.order}, present |-> {},
                   before |-> burnt]
  <2>1. last' = l /\ l.op = "read" /\ l.ids = {entry.order} /\ l.before = burnt
    BY <1>4 DEF Answer
  <2>2. entry.order \notin burnt
    BY <1>1, <1>4 DEF ServerOK, HeldIn
  <2> HIDE DEF l, entry
  <2>3. AnswersOK'
    BY <2>1, <2>2 DEF AnswersOK, BurntStaysBurnt, InboxIsFair
  <2> QED  BY <1>1, <1>4, <2>3, QuietStep
<1>5. CASE /\ entry # None /\ last' = None /\ op # "read"
           /\ Begin(b, [op |-> op, tx_id |-> t, wallet |-> w, id |-> entry.order, before |-> burnt])
  <2> DEFINE c == [op |-> op, tx_id |-> t, wallet |-> w, id |-> entry.order, before |-> burnt]
  <2>1. /\ call' = [call EXCEPT ![b] = c] /\ c.op \in {"burn", "delete"} /\ c.tx_id = t
        /\ c.id = entry.order /\ c.before = burnt
    BY <1>5 DEF Begin
  <2>2. t \in HeldIn(Data)
    BY <1>5 DEF HeldIn
  <2>3. Data' = Data /\ server'.puts = server.puts
    BY <1>1 DEF Data
  <2>4. ServerOK'
    BY <1>1 DEF ServerOK, Data
  <2> HIDE DEF c
  <2>5. call'[b] = c
    BY <2>1, CallIs
  <2>6. BurnOK(call[b])'
    BY <1>1, <2>1, <2>2, <2>3, <2>5 DEF BurnOK, ServerOK
  <2>7. CallOK(b)'
    BY <1>1, <2>1, <2>5, <2>6 DEF CallOK
  <2> QED  BY <1>1, <1>5, <2>1, <2>4, <2>7, CallsKept, NoAnswer
<1> QED  BY <1>2, <1>3, <1>4, <1>5 DEF Get, Data

LEMMA Dels ==
  ASSUME BackendInv, NEW b \in Brokers, Del(b)
  PROVE  BackendInv' /\ AnswersOK'
<1>1. /\ ServerOK /\ call[b] # None /\ Gone({call[b].tx_id}) /\ CallOK(b)
      /\ UNCHANGED clock /\ call' = [call EXCEPT ![b] = None]
  BY DEF Del, BackendInv, Return
<1>2. Shrinks /\ \A t \in HeldIn(Data') : t # call[b].tx_id
  BY <1>1, GoneShrinks
<1>3. CASE call[b].op = "expired"
  BY <1>1, <1>2, <1>3, QuietStep, NoAnswer DEF Del
<1>4. CASE call[b].op \in {"burn", "delete"}
  <2>1. /\ burnt' = burnt \cup {call[b].id} /\ call[b].before \subseteq burnt /\ BurnOK(call[b])
    BY <1>1, <1>4 DEF Del, CallOK
  <2>2. ServerOK' /\ Moves
    <3>1. \A t \in HeldIn(Data') : Data[t].order \notin burnt'
      BY <1>1, <1>2, <2>1 DEF BurnOK, Shrinks, ServerOK
    <3>2. burnt \subseteq burnt' /\ burnt' \subseteq 1..server.puts
      BY <1>1, <2>1 DEF BurnOK, ServerOK
    <3> QED  BY <1>1, <1>2, <3>1, <3>2, ShrinksKeeps
  <2>3. BackendInv'
    <3>1. call'[b] = None
      BY <1>1, CallIs
    <3>2. CallOK(b)'
      BY <3>1 DEF CallOK
    <3> QED  BY <1>1, <2>2, <3>2, CallsKept
  <2>4. CASE call[b].op = "burn"
    <3> DEFINE l == [op |-> "burn", broker |-> b, wallet |-> call[b].wallet, ids |-> {call[b].id},
                     present |-> {}, before |-> call[b].before]
    <3>1. last' = l /\ l.op = "burn" /\ l.ids = {call[b].id} /\ l.before = call[b].before
      BY <1>1, <2>4 DEF Del, Answer
    <3> HIDE DEF l
    <3>2. AnswersOK'
      BY <2>1, <3>1 DEF AnswersOK, BurntStaysBurnt, InboxIsFair, BurnOK
    <3> QED  BY <2>3, <3>2
  <2>5. CASE call[b].op = "delete"
    BY <1>1, <2>3, <2>5, NoAnswer DEF Del
  <2> QED  BY <1>4, <2>4, <2>5
<1> QED  BY <1>3, <1>4 DEF Del

LEMMA InboxBegins ==
  ASSUME BackendInv, NEW b \in Brokers, NEW w \in Addresses, InboxKeys(b, w)
  PROVE  BackendInv' /\ AnswersOK'
<1> DEFINE c == [op |-> "inbox", wallet |-> w, keys |-> HeldIn(server.data), ids |-> {},
                 present |-> IdsOf(server.data), before |-> burnt]
<1>1. /\ call' = [call EXCEPT ![b] = c] /\ last' = None /\ UNCHANGED <<server, clock, burnt>>
      /\ c.op = "inbox" /\ c.keys = HeldIn(Data) /\ c.ids = {} /\ c.present = IdsOf(Data)
      /\ c.before = burnt
  BY DEF InboxKeys, Begin, Data
<1>0. c \in Listing
  BY DEF BackendInv, ServerOK, Listing, IdsOf, HeldIn, Data
<1> HIDE DEF c
<1>2. ServerOK /\ ServerOK' /\ Moves /\ Data' = Data
  BY <1>1, RedisUntouched DEF BackendInv, ServerOK, Data
<1>3. call'[b] = c
  BY <1>1, CallIs
<1>4. IdsOf(Data) \subseteq 1..server.puts
  BY <1>2 DEF IdsOf, ServerOK
<1>5. InboxOK(call[b])'
  BY <1>1, <1>2, <1>3, <1>4, <1>0 DEF InboxOK
<1>6. CallOK(b)'
  BY <1>1, <1>3, <1>5 DEF CallOK
<1> QED  BY <1>1, <1>2, <1>6, CallsKept, NoAnswer

LEMMA InboxReads ==
  ASSUME BackendInv, NEW b \in Brokers, InboxGet(b)
  PROVE  BackendInv' /\ AnswersOK'
<1>1. /\ ServerOK /\ call[b] # None /\ call[b].op = "inbox" /\ last' = None
      /\ call[b].before \subseteq burnt /\ InboxOK(call[b])
      /\ UNCHANGED <<server, clock, burnt>>
  BY DEF InboxGet, BackendInv, CallOK
<1>2. PICK t \in call[b].keys :
        LET entry == server.data[t] IN
        call' = [call EXCEPT
                   ![b].keys = @ \ {t},
                   ![b].ids = IF entry # None /\ clock < entry.expires_at /\ Owned(entry, call[b].wallet)
                              THEN @ \cup {entry.order} ELSE @]
  BY DEF InboxGet
<1> DEFINE listed == Data[t] # None /\ clock < Data[t].expires_at /\ Owned(Data[t], call[b].wallet)
           ids == IF listed THEN call[b].ids \cup {Data[t].order} ELSE call[b].ids
           c == [call[b] EXCEPT !.keys = @ \ {t}, !.ids = ids]
<1>3. call' = [call EXCEPT ![b] = c]
  BY <1>2 DEF Data
<1>4. t \in TxIds /\ (listed => t \in HeldIn(Data))
  BY <1>1 DEF HeldIn, InboxOK, Listing
<1>5. /\ ids \subseteq 1..server.puts /\ ids \cap call[b].before = {}
  BY <1>1, <1>4 DEF InboxOK, ServerOK
<1>6. /\ c \in Listing /\ c.op = "inbox" /\ c.keys = call[b].keys \ {t} /\ c.ids = ids
      /\ c.wallet = call[b].wallet /\ c.present = call[b].present /\ c.before = call[b].before
  <2>1. call[b] \in Listing /\ call[b].keys \ {t} \in SUBSET TxIds /\ ids \in SUBSET Nat
    BY <1>1, <1>4, <1>5 DEF InboxOK, Listing, ServerOK
  <2> HIDE DEF ids
  <2> QED  BY <2>1 DEF Listing
<1> HIDE DEF c
<1>7. ServerOK' /\ Moves /\ Data' = Data /\ server'.puts = server.puts
  BY <1>1, RedisUntouched DEF ServerOK, Data
<1>8. call'[b] = c
  BY <1>3, CallIs
<1>9. ASSUME NEW u \in HeldIn(Data)
      PROVE  /\ Data[u].order \in call[b].present =>
                  \/ u \in call[b].keys \ {t}
                  \/ Owned(Data[u], call[b].wallet) /\ clock < Data[u].expires_at => Data[u].order \in ids
             /\ Data[u].order \in ids => Owned(Data[u], call[b].wallet)
  <2>1. CASE u = t
    BY <1>1, <2>1 DEF InboxOK, HeldIn
  <2>2. CASE u # t
    BY <1>1, <1>4, <2>2 DEF InboxOK, ServerOK
  <2> QED  BY <2>1, <2>2
<1> HIDE DEF ids
<1>10. InboxOK(call[b])'
  BY <1>1, <1>5, <1>6, <1>7, <1>8, <1>9 DEF InboxOK
<1>11. CallOK(b)'
  BY <1>1, <1>6, <1>8, <1>10 DEF CallOK
<1> QED  BY <1>1, <1>3, <1>7, <1>11, CallsKept, NoAnswer

LEMMA InboxEnds ==
  ASSUME BackendInv, NEW b \in Brokers, InboxAnswer(b)
  PROVE  BackendInv' /\ AnswersOK'
<1> DEFINE c == call[b]
           l == [op |-> "inbox", broker |-> b, wallet |-> c.wallet, ids |-> c.ids,
                 present |-> c.present, before |-> c.before]
<1>1. /\ call[b] # None /\ call[b].op = "inbox" /\ call[b].keys = {} /\ InboxOK(call[b])
      /\ call' = [call EXCEPT ![b] = None] /\ UNCHANGED <<server, clock, burnt>>
  BY DEF InboxAnswer, BackendInv, CallOK, Return
<1>2. /\ last' = l /\ l.op = "inbox" /\ l.ids = c.ids /\ l.before = c.before
      /\ l.present = c.present /\ l.wallet = c.wallet
  BY DEF InboxAnswer, Answer
<1> HIDE DEF l
<1>3. BackendInv'
  BY <1>1, QuietStep, RedisUntouched
<1>4. BurntStaysBurnt'
  BY <1>1, <1>2 DEF BurntStaysBurnt, InboxOK
<1>5. InboxIsFair'
  BY <1>1, <1>2 DEF InboxIsFair, InboxOK, Data
<1> QED  BY <1>3, <1>4, <1>5 DEF AnswersOK

LEMMA WorldSteps ==
  ASSUME BackendInv, (\E t \in TxIds : RedisExpires(t)) \/ Tick
  PROVE  BackendInv' /\ AnswersOK'
<1>1. ServerOK
  BY DEF BackendInv
<1>2. ASSUME NEW t \in TxIds, RedisExpires(t)  PROVE BackendInv' /\ AnswersOK'
  BY <1>1, <1>2, GoneShrinks, QuietStep, NoAnswer DEF RedisExpires
<1>3. CASE Tick
  <2>1. Shrinks
    BY <1>1, <1>3, SameShrinks DEF Tick, ServerOK
  <2> QED  BY <1>3, <2>1, QuietStep, NoAnswer DEF Tick
<1> QED  BY <1>2, <1>3

LEMMA BackendSteps ==
  ASSUME BackendInv, BackendNext
  PROVE  BackendInv' /\ AnswersOK'
BY ProcessSteps, StagesInRedis, Gets, Dels, InboxBegins, InboxReads, InboxEnds, WorldSteps
   DEF BackendNext

LEMMA AllSteps ==
  ASSUME BackendInv, AnswersOK, [Next]_<<backendVars, monitorVars>>
  PROVE  BackendInv' /\ AnswersOK'
<1>1. CASE BackendNext
  BY <1>1, BackendSteps
<1>2. CASE last' = None /\ UNCHANGED <<clock, processes, server, call, burnt>>
  BY <1>2, QuietStep, NoAnswer, RedisUntouched
<1>3. CASE UNCHANGED <<backendVars, monitorVars>>
  <2>1. UNCHANGED <<clock, server, call, burnt, last>>
    BY <1>3 DEF backendVars
  <2>2. BackendInv'
    BY <2>1, QuietStep, RedisUntouched
  <2>3. AnswersOK'
    BY <2>1 DEF AnswersOK, BurntStaysBurnt, InboxIsFair
  <2> QED  BY <2>2, <2>3
<1> QED  BY <1>1, <1>2, <1>3 DEF Next

LEMMA Initially ==
  ASSUME MonitorInit
  PROVE  BackendInv /\ AnswersOK
<1>1. /\ server = [data |-> [t \in TxIds |-> None], puts |-> 0] /\ clock = 0 /\ burnt = {}
      /\ call = [b \in Brokers |-> None] /\ last = None
  BY DEF MonitorInit, BackendInit
<1>2. Data = [t \in TxIds |-> None] /\ server.puts = 0
  BY <1>1 DEF Data
<1>3. ServerOK
  BY <1>1, <1>2 DEF ServerOK, HeldIn
<1>4. call = [b \in Brokers |-> call[b]] /\ \A b \in Brokers : CallOK(b)
  BY <1>1 DEF CallOK
<1> QED  BY <1>1, <1>3, <1>4 DEF BackendInv, AnswersOK, BurntStaysBurnt, InboxIsFair

(* Once a broker has told a client that a package is destroyed, no lookup  *)
(* that begins after that returns it, at any broker over the same Redis,   *)
(* although GET and DEL are two commands (memory_store.py:409-434).        *)
THEOREM BurntIsBurntEverywhere == Spec => []BurntStaysBurnt
<1>1. MonitorInit => BackendInv /\ AnswersOK
  BY Initially
<1>2. BackendInv /\ AnswersOK /\ [Next]_<<backendVars, monitorVars>> => (BackendInv /\ AnswersOK)'
  BY AllSteps
<1>3. AnswersOK => BurntStaysBurnt
  BY DEF AnswersOK
<1> QED  BY <1>1, <1>2, <1>3, PTL DEF Spec

(* An inbox over Redis lists every package of the wallet that was there    *)
(* the whole time it took, and none of another wallet that is still there  *)
(* (memory_store.py:465-481).                                              *)
THEOREM InboxListsWhatStays == Spec => []InboxIsFair
<1>1. MonitorInit => BackendInv /\ AnswersOK
  BY Initially
<1>2. BackendInv /\ AnswersOK /\ [Next]_<<backendVars, monitorVars>> => (BackendInv /\ AnswersOK)'
  BY AllSteps
<1>3. AnswersOK => InboxIsFair
  BY DEF AnswersOK
<1> QED  BY <1>1, <1>2, <1>3, PTL DEF Spec

-----------------------------------------------------------------------------
(***************************************************************************)
(* Brokers of RAM                                                          *)
(***************************************************************************)

LEMMA PlacesFinite == \A k \in Nat : IsFiniteSet(1..k)
BY FS_Interval

(* The largest number of a set of places in a list: how FoldLeft picks.    *)
LEMMA MaxPicks ==
  ASSUME NEW k \in Nat
  PROVE  /\ Picks([s \in SUBSET (1..k) |-> Max(s)], 1..k)
         /\ \A s \in SUBSET (1..k) : s # {} => Max(s) \in s
<1> DEFINE D == 1..k
           R == {p \in D \X D : p[1] < p[2]}
<1>1. IsFiniteSet(D)
  BY PlacesFinite
<1>2. \A x, y \in D : <<x, y>> \in R <=> x < y
  OBVIOUS
<1>3. Orders(R, D)
  <2> HIDE DEF R
  <2> QED  BY <1>2 DEF Orders
<1>4. ASSUME NEW s \in SUBSET D, s # {}
      PROVE  Max(s) \in s
  <2> HIDE DEF R, D
  <2>1. PICK m \in s : \A x \in s : x = m \/ <<x, m>> \in R
    BY <1>1, <1>3, <1>4, LastElement
  <2>2. ASSUME NEW x \in s
        PROVE  m >= x
    <3>1. x \in D /\ m \in D
      OBVIOUS
    <3>2. x = m \/ x < m
      BY <1>2, <2>1, <3>1
    <3> QED  BY <3>1, <3>2 DEF D
  <2> QED  BY <2>1, <2>2 DEF Max
<1> QED  BY <1>4 DEF Picks

(* A purge of a list of tickets keeps a store consistent.                  *)
LEMMA PurgesConsistent ==
  ASSUME NEW s0, Consistent(s0), NEW k \in Nat, NEW seq \in [1..k -> TxIds]
  PROVE  Consistent(FoldLeft(LAMBDA s, t : PurgeOne(s, t, "EXPIRE"), s0, seq))
<1> DEFINE D == 1..k
           V == {s \in Store : Consistent(s)}
           c == [s \in SUBSET D |-> Max(s)]
           st == [p \in D \X V |-> PurgeOne(p[2], seq[p[1]], "EXPIRE")]
           P(h) == h = [s \in SUBSET D |->
                     IF s = {} THEN s0
                     ELSE PurgeOne(h[s \ {Max(s)}], seq[Max(s)], "EXPIRE")]
<1>1. FoldLeft(LAMBDA s, t : PurgeOne(s, t, "EXPIRE"), s0, seq) = (CHOOSE h : P(h))[D]
  BY DEF FoldLeft, MapThenFoldSet
<1>2. /\ IsFiniteSet(D) /\ Picks(c, D)
      /\ \A s \in SUBSET D : s # {} => c[s] = Max(s) /\ c[s] \in D
  <2>1. IsFiniteSet(D)
    BY PlacesFinite
  <2>2. Picks(c, D) /\ \A s \in SUBSET D : s # {} => Max(s) \in s
    BY MaxPicks
  <2>3. \A s \in SUBSET D : c[s] = Max(s)
    OBVIOUS
  <2> HIDE DEF c, D
  <2> QED  BY <2>1, <2>2, <2>3
<1>3. \A x \in D, s \in V : st[<<x, s>>] = PurgeOne(s, seq[x], "EXPIRE") /\ st[<<x, s>>] \in V
  <2> TAKE x \in D, s \in V
  <2>1. seq[x] \in TxIds /\ Consistent(s)
    OBVIOUS
  <2>2. Consistent(PurgeOne(s, seq[x], "EXPIRE"))
    BY <2>1, PurgeOneConsistent DEF Reasons
  <2> QED  BY <2>2 DEF Consistent
<1>4. s0 \in V /\ StaysIn(st, D, V)
  BY <1>3 DEF StaysIn, Consistent
<1> HIDE DEF D, V, c, st
<1>5. ASSUME NEW h, P(h)
      PROVE  Takes(h, s0, st, c, D, V)
  <2>1. h[{}] = s0
    BY <1>5
  <2>2. ASSUME NEW s \in SUBSET D, s # {}, h[s \ {c[s]}] \in V
        PROVE  h[s] = st[<<c[s], h[s \ {c[s]}]>>]
    <3>1. h[s] = PurgeOne(h[s \ {Max(s)}], seq[Max(s)], "EXPIRE")
      BY <1>5, <2>2
    <3>2. c[s] = Max(s) /\ c[s] \in D
      BY <1>2, <2>2
    <3>3. st[<<c[s], h[s \ {c[s]}]>>] = PurgeOne(h[s \ {c[s]}], seq[c[s]], "EXPIRE")
      BY <1>3, <2>2, <3>2
    <3> QED  BY <3>1, <3>2, <3>3
  <2> QED  BY <2>1, <2>2 DEF Takes
<1>6. PICK g : IsFold(g, s0, st, c, D)
  BY <1>2, FoldExists
<1>7. \A s \in SUBSET D : g[s] \in V /\ g[s] = FoldStep(g, s0, st, c, s)
  <2>1. Takes(g, s0, st, c, D, V)
    BY <1>6 DEF IsFold, FoldStep, Takes
  <2> QED  BY <1>2, <1>4, <2>1, FoldStaysIn
<1>8. P(g)
  <2>1. \A s \in SUBSET D :
          FoldStep(g, s0, st, c, s)
            = IF s = {} THEN s0 ELSE PurgeOne(g[s \ {Max(s)}], seq[Max(s)], "EXPIRE")
    <3> TAKE s \in SUBSET D
    <3>1. g[s \ {Max(s)}] \in V
      BY <1>7
    <3> QED  BY <1>2, <1>3, <3>1 DEF FoldStep
  <2>2. g = [s \in SUBSET D |-> FoldStep(g, s0, st, c, s)]
    BY <1>6 DEF IsFold
  <2> QED  BY <2>1, <2>2
<1> HIDE DEF P
<1>9. Takes(CHOOSE h : P(h), s0, st, c, D, V)
  BY <1>5, <1>8
<1>10. (CHOOSE h : P(h))[D] \in V
  BY <1>2, <1>4, <1>9, FoldStaysIn
<1> QED  BY <1>1, <1>10 DEF V

(* What the rows of a list add up to.                                      *)
LEMMA ListedIsTotal ==
  ASSUME NEW k \in Nat, NEW rows, DOMAIN rows = 1..k,
         \A n \in 1..k : rows[n].size_bytes \in Nat
  PROVE  Listed(rows) = Total([n \in 1..k |-> rows[n].size_bytes], 1..k)
<1> DEFINE D == 1..k
           N == Nat
           c == [s \in SUBSET D |-> Max(s)]
           w == [n \in D |-> rows[n].size_bytes]
           st == [p \in D \X N |-> p[2] + w[p[1]]]
           P(h) == h = [s \in SUBSET D |->
                     IF s = {} THEN 0 ELSE h[s \ {Max(s)}] + rows[Max(s)].size_bytes]
<1>1. Listed(rows) = (CHOOSE h : P(h))[D]
  BY DEF Listed, FoldLeft, MapThenFoldSet
<1>2. /\ IsFiniteSet(D) /\ Picks(c, D)
      /\ \A s \in SUBSET D : s # {} => c[s] = Max(s) /\ c[s] \in D
  <2>1. IsFiniteSet(D)
    BY PlacesFinite
  <2>2. Picks(c, D) /\ \A s \in SUBSET D : s # {} => Max(s) \in s
    BY MaxPicks
  <2>3. \A s \in SUBSET D : c[s] = Max(s)
    OBVIOUS
  <2> HIDE DEF c, D
  <2> QED  BY <2>1, <2>2, <2>3
<1>3. /\ \A x \in D : w[x] = rows[x].size_bytes /\ w[x] \in N
      /\ \A x \in D, v \in N : st[<<x, v>>] = v + w[x] /\ v + w[x] \in N /\ v + w[x] = w[x] + v
  OBVIOUS
<1>4. 0 \in N /\ StaysIn(st, D, N)
  BY <1>3 DEF StaysIn
<1> HIDE DEF D, N, c, w, st
<1>5. ASSUME NEW h, P(h)
      PROVE  IsSum(h, w, c, D)
  <2>1. /\ \A s \in SUBSET D :
             h[s] = IF s = {} THEN 0 ELSE h[s \ {Max(s)}] + rows[Max(s)].size_bytes
        /\ h = [s \in SUBSET D |-> h[s]]
    BY <1>5
  <2> HIDE DEF P
  <2>2. ASSUME NEW s \in SUBSET D, s # {}
        PROVE  c[s] \in D /\ h[s] = h[s \ {c[s]}] + w[c[s]]
    <3>1. c[s] = Max(s) /\ c[s] \in D
      BY <1>2, <2>2
    <3>2. w[c[s]] = rows[c[s]].size_bytes
      BY <1>3, <3>1
    <3>3. h[s] = h[s \ {Max(s)}] + rows[Max(s)].size_bytes
      BY <2>1, <2>2
    <3> QED  BY <3>1, <3>2, <3>3
  <2>3. Takes(h, 0, st, c, D, N)
    <3>1. h[{}] = 0
      BY <2>1
    <3>2. ASSUME NEW s \in SUBSET D, s # {}, h[s \ {c[s]}] \in N
          PROVE  h[s] = st[<<c[s], h[s \ {c[s]}]>>]
      BY <1>3, <2>2, <3>2
    <3> QED  BY <3>1, <3>2 DEF Takes
  <2>4. \A s \in SUBSET D : h[s] \in N
    BY <1>2, <1>4, <2>3, FoldStaysIn
  <2>5. \A s \in SUBSET D : h[s] = SumStep(h, w, c, s)
    <3> TAKE s \in SUBSET D
    <3>1. CASE s = {}
      BY <2>1, <3>1 DEF SumStep
    <3>2. CASE s # {}
      <4>1. h[s \ {c[s]}] \in N
        BY <2>4
      <4>2. h[s] = w[c[s]] + h[s \ {c[s]}]
        BY <1>3, <2>2, <3>2, <4>1
      <4> QED  BY <3>2, <4>2 DEF SumStep
    <3> QED  BY <3>1, <3>2
  <2> QED  BY <2>1, <2>5 DEF IsSum
<1>6. PICK g : IsFold(g, 0, st, c, D)
  BY <1>2, FoldExists
<1>7. \A s \in SUBSET D : g[s] \in N /\ g[s] = FoldStep(g, 0, st, c, s)
  <2>1. Takes(g, 0, st, c, D, N)
    BY <1>6 DEF IsFold, FoldStep, Takes
  <2> QED  BY <1>2, <1>4, <2>1, FoldStaysIn
<1>8. P(g)
  <2>1. \A s \in SUBSET D :
          FoldStep(g, 0, st, c, s)
            = IF s = {} THEN 0 ELSE g[s \ {Max(s)}] + rows[Max(s)].size_bytes
    <3> TAKE s \in SUBSET D
    <3>1. CASE s = {}
      BY <3>1 DEF FoldStep
    <3>2. CASE s # {}
      <4>1. c[s] = Max(s) /\ c[s] \in D
        BY <1>2, <3>2
      <4>2. g[s \ {c[s]}] \in N
        BY <1>7
      <4>3. /\ st[<<c[s], g[s \ {c[s]}]>>] = g[s \ {c[s]}] + w[c[s]]
            /\ w[c[s]] = rows[c[s]].size_bytes
        BY <1>3, <4>1, <4>2
      <4> QED  BY <3>2, <4>1, <4>3 DEF FoldStep
    <3> QED  BY <3>1, <3>2
  <2>2. g = [s \in SUBSET D |-> FoldStep(g, 0, st, c, s)]
    BY <1>6 DEF IsFold
  <2> QED  BY <2>1, <2>2
<1> HIDE DEF P
<1>9. IsSum(CHOOSE h : P(h), w, c, D)
  BY <1>5, <1>8
<1>10. \A x \in D : w[x] \in Nat
  BY <1>3 DEF N
<1>11. Total(w, D) = (CHOOSE h : P(h))[D]
  BY <1>2, <1>9, <1>10, TotalInAnyOrder
<1> QED  BY <1>1, <1>11 DEF D, w

-----------------------------------------------------------------------------
(***************************************************************************)
(* What a broker of RAM answers to /ram                                    *)
(***************************************************************************)

\* One ticket before another: by the time left, then by the place in the dict.
Sooner(s) ==
  {p \in Held(s) \X Held(s) :
     \/ TtlRemaining(s.data[p[1]]) < TtlRemaining(s.data[p[2]])
     \/ /\ TtlRemaining(s.data[p[1]]) = TtlRemaining(s.data[p[2]])
        /\ s.data[p[1]].order < s.data[p[2]].order}

LEMMA TtlIsNat ==
  ASSUME clock \in Nat, NEW s, Consistent(s)
  PROVE  \A t \in Held(s) : /\ TtlRemaining(s.data[t]) \in Nat
                            /\ s.data[t] \in Entry /\ s.data[t].order \in Nat
BY DEF Consistent, Store, Held, Entry, TtlRemaining

LEMMA SoonerOrders ==
  ASSUME clock \in Nat, NEW s, Consistent(s)
  PROVE  Orders(Sooner(s), Held(s))
<1>1. \A t \in Held(s) : TtlRemaining(s.data[t]) \in Nat /\ s.data[t].order \in Nat
  BY TtlIsNat
<1>2. \A t, u \in Held(s) : s.data[t].order = s.data[u].order => t = u
  BY DEF Consistent, Numbered
<1>3. \A t, u \in Held(s) :
        <<t, u>> \in Sooner(s) <=>
          \/ TtlRemaining(s.data[t]) < TtlRemaining(s.data[u])
          \/ /\ TtlRemaining(s.data[t]) = TtlRemaining(s.data[u])
             /\ s.data[t].order < s.data[u].order
  BY DEF Sooner
<1>4. ASSUME NEW x \in Held(s)
      PROVE  <<x, x>> \notin Sooner(s)
  BY <1>1, <1>3
<1>5. ASSUME NEW x \in Held(s), NEW y \in Held(s)
      PROVE  x = y \/ <<x, y>> \in Sooner(s) \/ <<y, x>> \in Sooner(s)
  BY <1>1, <1>2, <1>3
<1>6. ASSUME NEW x \in Held(s), NEW y \in Held(s), NEW z \in Held(s),
             <<x, y>> \in Sooner(s), <<y, z>> \in Sooner(s)
      PROVE  <<x, z>> \in Sooner(s)
  BY <1>1, <1>3, <1>6
<1> QED  BY <1>4, <1>5, <1>6 DEF Orders

\* What a picture of the RAM must add up to.
AddsUp(r) ==
  /\ r.active_bytes \in Nat /\ r.bytes_wiped \in Nat
  /\ r.bytes_staged = r.active_bytes + r.bytes_wiped
  /\ Listed(r.entries) = r.active_bytes

(* The rows of /ram are the packages held, each of them once: their sizes  *)
(* add up to the bytes held, and these with the bytes wiped to all that    *)
(* was ever written.                                                       *)
LEMMA SnapshotAddsUp ==
  ASSUME clock \in Nat, NEW s, Consistent(s)
  PROVE  AddsUp(RamSnapshot(s))
<1> DEFINE S == Held(s)
           k == Cardinality(S)
           Before(t, u) ==
             \/ TtlRemaining(s.data[t]) < TtlRemaining(s.data[u])
             \/ /\ TtlRemaining(s.data[t]) = TtlRemaining(s.data[u])
                /\ s.data[t].order < s.data[u].order
           ids == InOrder(S, Before)
           Row(t) == [tx_id |-> t, recipient |-> s.data[t].recipient,
                      size_bytes |-> Size[s.data[t].payload],
                      ttl_remaining |-> TtlRemaining(s.data[t])]
           rows == [n \in DOMAIN ids |-> Row(ids[n])]
           v == [n \in 1..k |-> rows[n].size_bytes]
<1>1. /\ RamSnapshot(s).entries = rows
      /\ RamSnapshot(s).bytes_staged = s.bytes_staged
      /\ RamSnapshot(s).bytes_wiped = s.bytes_wiped
      /\ RamSnapshot(s).active_bytes = BytesIn(s)
  BY DEF RamSnapshot
<1>2. IsFiniteSet(S) /\ k \in Nat
  BY HeldFinite
<1>3. Orders(Sooner(s), S)
  BY SoonerOrders
<1>4. \A t, u \in S : <<t, u>> \in Sooner(s) <=> Before(t, u)
  BY DEF Sooner
<1> DEFINE C(q) == q \in [1..k -> S] /\ \A m, n \in 1..k : m < n => Before(q[m], q[n])
<1>5. C(ids)
  <2>1. ids = CHOOSE q : C(q)
    BY DEF InOrder
  <2>2. PICK q : ListsInOrder(q, Sooner(s), S)
    BY <1>2, <1>3, OrderedListExists
  <2>3. C(q)
    BY <1>4, <2>2 DEF ListsInOrder
  <2> HIDE DEF C, ids
  <2> QED  BY <2>1, <2>3
<1>6. ids \in [1..k -> S] /\ ListsInOrder(ids, Sooner(s), S)
  <2> HIDE DEF ids
  <2> QED  BY <1>4, <1>5 DEF ListsInOrder
<1>7. /\ \A m, n \in 1..k : ids[m] = ids[n] => m = n
      /\ \A x \in S : \E n \in 1..k : ids[n] = x
  <2> HIDE DEF ids
  <2> QED  BY <1>2, <1>3, <1>6, OrderedListIsBijective
<1>8. /\ DOMAIN rows = 1..k
      /\ \A n \in 1..k : rows[n].size_bytes = BytesOf(s)[ids[n]] /\ v[n] = BytesOf(s)[ids[n]]
  <2> HIDE DEF ids
  <2> QED  BY <1>6 DEF BytesOf
<1>9. s.data \in [TxIds -> Entry \cup {None}] /\ s.bytes_wiped \in Nat /\ s.bytes_staged \in Nat
  BY DEF Consistent, Store
<1>10. \A t \in S : BytesOf(s)[t] \in Nat
  BY <1>9, BytesAreNat
<1>11. \A n \in 1..k : rows[n].size_bytes \in Nat
  <2> HIDE DEF rows, ids
  <2> QED  BY <1>6, <1>8, <1>10
<1>12. Listed(rows) = Total(v, 1..k)
  <2> HIDE DEF rows
  <2> QED  BY <1>2, <1>8, <1>11, ListedIsTotal
<1>13. Total(v, 1..k) = Total(BytesOf(s), S)
  <2> DEFINE w == BytesOf(s)
  <2>1. /\ IsFiniteSet(S) /\ \A x \in S : w[x] \in Nat
        /\ k \in Nat /\ ids \in [1..k -> S]
    BY <1>2, <1>6, <1>10
  <2>2. \A n \in 1..k : v[n] = w[ids[n]]
    BY <1>8
  <2> HIDE DEF v, ids, rows, S, k, w, C, Before, Row
  <2>3. Total(v, 1..k) = Total(w, S)
    BY <1>7, <2>1, <2>2, TotalOfList
  <2> QED  BY <2>3 DEF w
<1>14. BytesIn(s) = SumHeld(s) /\ SumHeld(s) = Total(BytesOf(s), S) /\ SumHeld(s) \in Nat
  BY <1>2, <1>9, <1>10, HeldBytes, TotalFacts DEF BytesIn, SumHeld
<1>15. s.bytes_staged = s.bytes_wiped + SumHeld(s)
  BY <1>9, AccountedIsSum DEF Consistent
<1> HIDE DEF rows
<1> QED  BY <1>1, <1>9, <1>12, <1>13, <1>14, <1>15 DEF AddsUp

-----------------------------------------------------------------------------
(***************************************************************************)
(* The stores of the brokers                                               *)
(***************************************************************************)

StoreOK(b) == mode[b] # "down" /\ backend[b] = "ram" => Consistent(store[b])

RamInv ==
  /\ mode = [b \in Brokers |-> mode[b]]
  /\ store = [b \in Brokers |-> store[b]]
  /\ backend = [b \in Brokers |-> backend[b]]
  /\ \A b \in Brokers : StoreOK(b)

\* A step of one broker, that leaves its store consistent.
LEMMA OneStore ==
  ASSUME RamInv, NEW b \in Brokers, NEW m, NEW kind, NEW s,
         m # "down" /\ kind = "ram" => Consistent(s),
         mode' = [mode EXCEPT ![b] = m], backend' = [backend EXCEPT ![b] = kind],
         store' = [store EXCEPT ![b] = s]
  PROVE  RamInv'
<1>1. /\ \A d \in Brokers : mode'[d] = IF d = b THEN m ELSE mode[d]
      /\ \A d \in Brokers : backend'[d] = IF d = b THEN kind ELSE backend[d]
      /\ \A d \in Brokers : store'[d] = IF d = b THEN s ELSE store[d]
  BY DEF RamInv
<1>2. \A d \in Brokers : StoreOK(d)'
  BY <1>1 DEF RamInv, StoreOK
<1> QED  BY <1>1, <1>2 DEF RamInv

LEMMA StoreBecomes ==
  ASSUME RamInv, NEW b \in Brokers, NEW s, RamBecomes(b, s), Consistent(s)
  PROVE  RamInv'
<1>1. /\ mode' = [mode EXCEPT ![b] = mode[b]] /\ backend' = [backend EXCEPT ![b] = backend[b]]
      /\ store' = [store EXCEPT ![b] = s]
  BY DEF RamBecomes, RamInv
<1> QED  BY <1>1, OneStore

LEMMA StoresStay ==
  ASSUME RamInv, UNCHANGED processes
  PROVE  RamInv'
BY DEF RamInv, StoreOK, processes

LEMMA DownStores ==
  ASSUME RamInv, NEW b \in Brokers, Down(b)
  PROVE  RamInv'
BY OneStore DEF Down

LEMMA StoreIsConsistent ==
  ASSUME RamInv, NEW b \in Brokers, mode[b] = "up", backend[b] = "ram"
  PROVE  Consistent(store[b])
BY DEF RamInv, StoreOK

(* The purge loop: it wipes the expired packages one by one, in the order  *)
(* of the dict, and then counts them.                                      *)
LEMMA PurgeKeepsStore ==
  ASSUME RamInv, clock \in Nat, NEW b \in Brokers, PurgeExpired(b)
  PROVE  RamInv'
<1> DEFINE s0 == store[b]
           S == Expired(s0, clock)
           k == Cardinality(S)
           Before(t, u) == s0.data[t].order < s0.data[u].order
           R == {p \in S \X S : Before(p[1], p[2])}
           C(q) == q \in [1..k -> S] /\ \A m, n \in 1..k : m < n => Before(q[m], q[n])
           expired == InOrder(S, Before)
           wiped == FoldLeft(LAMBDA s, t : PurgeOne(s, t, "EXPIRE"), s0, expired)
<1>1. RamBecomes(b, CountExpired(wiped, Len(expired)))
  BY DEF PurgeExpired
<1>2. Consistent(s0)
  BY StoreIsConsistent DEF PurgeExpired, Free
<1>3. S \subseteq Held(s0) /\ IsFiniteSet(S) /\ k \in Nat
  BY HeldFinite, FS_Subset, FS_CardinalityType DEF Expired
<1>4. Orders(R, S)
  <2>1. \A t \in S : s0.data[t].order \in Nat
    BY <1>2, <1>3 DEF Consistent, Store, Held, Entry
  <2>2. \A t, u \in S : s0.data[t].order = s0.data[u].order => t = u
    BY <1>2, <1>3 DEF Consistent, Numbered
  <2>3. \A t, u \in S : <<t, u>> \in R <=> s0.data[t].order < s0.data[u].order
    OBVIOUS
  <2> HIDE DEF R, S, s0
  <2> QED  BY <2>1, <2>2, <2>3 DEF Orders
<1>5. C(expired)
  <2>1. expired = CHOOSE q : C(q)
    BY DEF InOrder
  <2>2. PICK q : ListsInOrder(q, R, S)
    <3> HIDE DEF R, S
    <3> QED  BY <1>3, <1>4, OrderedListExists
  <2>3. C(q)
    BY <2>2 DEF ListsInOrder
  <2> HIDE DEF C, expired
  <2> QED  BY <2>1, <2>3
<1>6. expired \in [1..k -> TxIds] /\ Len(expired) = k
  <2>1. S \subseteq TxIds
    BY DEF Expired, Held
  <2>2. expired \in [1..k -> S]
    BY <1>5
  <2> HIDE DEF expired, S, k
  <2> QED  BY <1>3, <2>1, <2>2
<1>7. Consistent(wiped)
  <2> HIDE DEF expired, s0, k
  <2> QED  BY <1>2, <1>3, <1>6, PurgesConsistent
<1>8. Consistent(CountExpired(wiped, Len(expired)))
  <2> HIDE DEF wiped, expired
  <2> QED  BY <1>3, <1>6, <1>7, CountExpiredConsistent
<1> QED  BY <1>1, <1>8, StoreBecomes

LEMMA BackendKeepsStores ==
  ASSUME BackendInv, RamInv, BackendNext
  PROVE  RamInv'
<1>0. clock \in Nat
  BY DEF BackendInv, ServerOK
<1>1. ASSUME NEW b \in Brokers, Start(b)
      PROVE  RamInv'
  <2>1. PICK env \in Environments :
          /\ backend' = [backend EXCEPT ![b] = Chosen(env)]
          /\ store' = [store EXCEPT ![b] = IF Chosen(env) = "redis" THEN NewRedisStore ELSE EmptyStore]
    BY <1>1 DEF Start
  <2>2. Chosen(env) = "ram" =>
          Consistent(IF Chosen(env) = "redis" THEN NewRedisStore ELSE EmptyStore)
    BY EmptyConsistent
  <2> QED  BY <1>1, <2>1, <2>2, OneStore DEF Start
<1>2. ASSUME NEW b \in Brokers, Crash(b) \/ DeleteAll(b) \/ Stop(b) \/ RedisError(b)
      PROVE  RamInv'
  <2>1. CASE Down(b)
    BY <2>1, DownStores
  <2>2. CASE UNCHANGED processes
    BY <2>2, StoresStay
  <2>3. CASE Stop(b) /\ mode' = [mode EXCEPT ![b] = "stopping"] /\ UNCHANGED <<backend, store>>
    <3>1. backend[b] = "redis" \/ Down(b)
      BY <2>3 DEF Stop
    <3>2. CASE backend[b] = "redis"
      <4>1. /\ backend' = [backend EXCEPT ![b] = "redis"] /\ store' = [store EXCEPT ![b] = store[b]]
        BY <2>3, <3>2 DEF RamInv
      <4> QED  BY <2>3, <4>1, OneStore
    <3> QED  BY <3>1, <3>2, DownStores
  <2> QED  BY <1>2, <2>1, <2>2, <2>3 DEF Crash, DeleteAll, Stop, RedisError
<1>3. ASSUME NEW b \in Brokers, PurgeExpired(b)
      PROVE  RamInv'
  BY <1>0, <1>3, PurgeKeepsStore
<1>4. ASSUME NEW b \in Brokers, Del(b) \/ InboxGet(b) \/ InboxAnswer(b)
      PROVE  RamInv'
  BY <1>4, StoresStay DEF Del, InboxGet, InboxAnswer
<1>5. ASSUME NEW b \in Brokers, NEW t \in TxIds, NEW a \in Addresses, NEW p \in Payloads,
             NEW ttl \in TTLs, StageInRam(b, t, a, p, ttl)
      PROVE  RamInv'
  <2>1. clock + ttl \in Nat
    BY <1>0, BackendAssumption
  <2>2. Consistent(store[b])
    BY <1>5, StoreIsConsistent DEF StageInRam, RamBecomes, Free
  <2> QED  BY <1>5, <2>1, <2>2, StageConsistent, StoreBecomes DEF StageInRam
<1>6. ASSUME NEW b \in Brokers, NEW s, Free(b, "redis"), UNCHANGED <<mode, backend>>,
             store' = [store EXCEPT ![b] = s]
      PROVE  RamInv'
  <2>1. /\ mode' = [mode EXCEPT ![b] = mode[b]] /\ backend' = [backend EXCEPT ![b] = backend[b]]
        /\ backend[b] # "ram"
    BY <1>6 DEF Free, RamInv
  <2> QED  BY <1>6, <2>1, OneStore
<1>7. ASSUME NEW b \in Brokers, NEW t \in TxIds, NEW a \in Addresses, NEW p \in Payloads,
             NEW ttl \in TTLs, StageInRedis(b, t, a, p, ttl)
      PROVE  RamInv'
  <2>1. CASE UNCHANGED store
    BY <1>7, <2>1, StoresStay DEF StageInRedis, processes
  <2>2. CASE store' = [store EXCEPT ![b].total_staged = @ + 1, ![b].disk_writes = @ + 1]
    <3>1. store' = [store EXCEPT ![b] = store'[b]]
      BY <2>2 DEF RamInv
    <3> QED  BY <1>6, <1>7, <3>1 DEF StageInRedis
  <2> QED  BY <1>7, <2>1, <2>2 DEF StageInRedis
<1>8. ASSUME NEW b \in Brokers, NEW t \in TxIds, NEW w \in Addresses, BurnInRam(b, t, w)
      PROVE  RamInv'
  <2> DEFINE s == Retrieve(store[b], t, clock)
             s2 == IF /\ Retrieved(store[b], t, clock) # None
                      /\ LowerOf[Retrieved(store[b], t, clock).recipient] = LowerOf[w]
                   THEN PurgeOne(s, t, "WIPE") ELSE s
  <2>1. RamBecomes(b, s2)
    BY <1>8 DEF BurnInRam
  <2>2. Consistent(s)
    BY <1>0, <1>8, StoreIsConsistent, RetrieveConsistent DEF BurnInRam
  <2> HIDE DEF s
  <2>3. Consistent(PurgeOne(s, t, "WIPE"))
    BY <2>2, PurgeOneConsistent DEF Reasons
  <2>4. Consistent(s2)
    BY <2>2, <2>3
  <2> HIDE DEF s2
  <2> QED  BY <2>1, <2>4, StoreBecomes
<1>9. ASSUME NEW b \in Brokers, NEW t \in TxIds, NEW w \in Addresses,
             NEW op \in {"read", "burn", "delete"}, Get(b, t, w, op)
      PROVE  RamInv'
  <2>1. CASE UNCHANGED store
    BY <1>9, <2>1, StoresStay DEF Get, processes
  <2>2. CASE store' = [store EXCEPT ![b].total_retrieved = @ + 1]
    <3>1. store' = [store EXCEPT ![b] = store'[b]]
      BY <2>2 DEF RamInv
    <3> QED  BY <1>6, <1>9, <3>1 DEF Get
  <2> QED  BY <1>9, <2>1, <2>2 DEF Get
<1>10. ASSUME NEW b \in Brokers, NEW w \in Addresses, InboxKeys(b, w)
       PROVE  RamInv'
  BY <1>10, StoresStay DEF InboxKeys
<1>11. ASSUME (\E t \in TxIds : RedisExpires(t)) \/ Tick
       PROVE  RamInv'
  BY <1>11, StoresStay DEF RedisExpires, Tick
<1> QED  BY <1>1, <1>2, <1>3, <1>4, <1>5, <1>7, <1>8, <1>9, <1>10, <1>11 DEF BackendNext

-----------------------------------------------------------------------------
(***************************************************************************)
(* The dashboard                                                           *)
(***************************************************************************)

GoodStats(stats) == stats.approx_ram_bytes \in Nat
GoodRam(ram) == ram # NoRam => AddsUp(ram)

\* What the screen shows of figures that the session keeps.
Picture(stats, ram) ==
  [online |-> screen.online, figures |-> Figures(stats, ram), peak |-> session.peak_ram_bytes,
   ttl |-> ShortestTtl(PayloadRows(ram)), scrubbed |-> Scrubbed(Figures(stats, ram)),
   curve |-> screen.curve, payloads |-> PayloadRows(ram), log |-> EventRows(ram)]

SessionOK ==
  /\ session = [broker_url |-> session.broker_url, cached_stats |-> session.cached_stats,
                cached_ram |-> session.cached_ram, peak_ram_bytes |-> session.peak_ram_bytes,
                ram_history |-> session.ram_history]
  /\ session.broker_url \in Brokers
  /\ GoodStats(session.cached_stats) /\ GoodRam(session.cached_ram)
  /\ session.peak_ram_bytes \in Nat

\* A refresh that draws has its figures in the session: they come from it,
\* or went into it, one after the other.
RefreshOK ==
  /\ refresh = [place |-> refresh.place, stats |-> refresh.stats, ram |-> refresh.ram,
                ok |-> refresh.ok]
  /\ refresh.place \in {"idle", "ram", "keep", "keep_ram", "draw"} /\ refresh.ok \in BOOLEAN
  /\ GoodStats(refresh.stats) /\ GoodRam(refresh.ram)
  /\ refresh.place \in {"ram", "keep", "keep_ram"} => refresh.ok
  /\ refresh.place \in {"keep_ram", "draw"} => refresh.stats = session.cached_stats
  /\ At("draw") => refresh.ram = session.cached_ram

\* The screen shows the figures of the session until new ones go into it.
ScreenOK ==
  screen # None /\ (refresh.place \in {"idle", "ram", "keep"} \/ (At("draw") /\ ~refresh.ok)) =>
    /\ screen = Picture(session.cached_stats, session.cached_ram)
    /\ screen.figures.active <= session.peak_ram_bytes

DashInv == SessionOK /\ RefreshOK /\ ScreenOK /\ DrawingAddsUp

(* Figures that add up are drawn as figures that add up.                   *)
LEMMA FiguresAddUp ==
  ASSUME NEW stats, NEW ram, GoodStats(stats), GoodRam(ram)
  PROVE  LET f == Figures(stats, ram) IN
         /\ f.active \in Nat /\ f.wiped \in Nat /\ f.staged = f.active + f.wiped
         /\ PayloadRows(ram) # <<>> => Listed(PayloadRows(ram)) = f.active
         /\ Scrubbed(f) = "some left" <=> f.active > 0
<1> DEFINE f == Figures(stats, ram)
<1>1. /\ f.active \in Nat /\ f.wiped \in Nat /\ f.staged = f.active + f.wiped
      /\ PayloadRows(ram) # <<>> => Listed(PayloadRows(ram)) = f.active
  <2>1. CASE ram = NoRam
    <3>1. f.active = stats.approx_ram_bytes /\ f.staged = stats.approx_ram_bytes /\ f.wiped = 0
      BY <2>1 DEF Figures
    <3>2. PayloadRows(ram) = <<>>
      BY <2>1 DEF PayloadRows
    <3> HIDE DEF f
    <3> QED  BY <3>1, <3>2 DEF GoodStats
  <2>2. CASE ram # NoRam
    <3>1. f.active = ram.active_bytes /\ f.staged = ram.bytes_staged /\ f.wiped = ram.bytes_wiped
      BY <2>2 DEF Figures
    <3>2. PayloadRows(ram) = ram.entries /\ AddsUp(ram)
      BY <2>2 DEF PayloadRows, GoodRam
    <3> HIDE DEF f
    <3> QED  BY <3>1, <3>2 DEF AddsUp
  <2> QED  BY <2>1, <2>2
<1> HIDE DEF f
<1>2. Scrubbed(f) = "some left" <=> f.active > 0
  BY <1>1 DEF Scrubbed
<1> QED  BY <1>1, <1>2 DEF f

(* What a broker answers is good to keep.                                  *)
LEMMA AnswersAreGood ==
  ASSUME BackendInv, RamInv, NEW b \in Brokers, Answers(b)
  PROVE  /\ \A stats \in Stats(b) : GoodStats(stats)
         /\ GoodRam(Ram(b))
<1>0. clock \in Nat
  BY DEF BackendInv, ServerOK
<1>1. CASE backend[b] = "ram"
  <2>1. Consistent(store[b])
    BY <1>1, StoreIsConsistent DEF Answers
  <2>2. AddsUp(RamSnapshot(store[b]))
    BY <1>0, <2>1, SnapshotAddsUp
  <2>5. RamSnapshot(store[b]).active_bytes = BytesIn(store[b])
    BY DEF RamSnapshot
  <2>3. \A stats \in Stats(b) : stats.approx_ram_bytes = BytesIn(store[b])
    BY <1>1 DEF Stats
  <2>4. Ram(b) = RamSnapshot(store[b])
    BY <1>1 DEF Ram
  <2> QED  BY <2>2, <2>3, <2>4, <2>5 DEF AddsUp, GoodStats, GoodRam
<1>2. CASE backend[b] # "ram"
  <2>1. \A stats \in Stats(b) : stats.approx_ram_bytes \in UsedMemory
    BY <1>2 DEF Stats
  <2>2. Ram(b) = NoRam
    BY <1>2 DEF Ram
  <2> QED  BY <2>1, <2>2, MonitorAssumption DEF GoodStats, GoodRam
<1> QED  BY <1>1, <1>2

LEMMA NothingNew == GoodStats(NoStats) /\ GoodRam(NoRam)
BY DEF GoodStats, GoodRam, NoStats

\* The session and the screen stay: all but where the refresh is.
LEMMA SameSession ==
  ASSUME DashInv, UNCHANGED <<session, screen>>
  PROVE  SessionOK' /\ DrawingAddsUp'
BY DEF DashInv, SessionOK, DrawingAddsUp, GoodStats, GoodRam

\* FreezesOffline, of the step that is being taken.
Frozen == screen # None /\ screen' # None /\ ~screen'.online => Shown' = Shown

LEMMA Asking ==
  ASSUME BackendInv, RamInv, DashInv, AskStats \/ AskRam
  PROVE  DashInv' /\ Frozen
<1> DEFINE b == session.broker_url
<1>1. /\ UNCHANGED <<session, screen>> /\ b \in Brokers
      /\ refresh.place \in {"idle", "ram"}
  BY DEF AskStats, AskRam, DashInv, SessionOK, At
<1>2. CASE Offline
  <2>1. /\ refresh'.place = "draw" /\ refresh'.stats = session.cached_stats
        /\ refresh'.ram = session.cached_ram /\ refresh'.ok = FALSE
        /\ refresh' = [place |-> refresh'.place, stats |-> refresh'.stats, ram |-> refresh'.ram,
                       ok |-> refresh'.ok]
    BY <1>2 DEF Goes, Offline
  <2>2. RefreshOK'
    BY <1>1, <2>1 DEF RefreshOK, DashInv, SessionOK, At, GoodStats, GoodRam
  <2>3. ScreenOK'
    BY <1>1, <2>1 DEF DashInv, ScreenOK, At, Picture
  <2> QED  BY <1>1, <2>2, <2>3, SameSession DEF DashInv, Frozen, Shown
<1>3. ASSUME AskStats, Answers(b), NEW s \in Stats(b), Goes("ram", s, NoRam, TRUE)
      PROVE  DashInv' /\ Frozen
  <2>1. GoodStats(s) /\ GoodRam(NoRam)
    BY <1>1, <1>3, AnswersAreGood, NothingNew
  <2>2. RefreshOK'
    BY <1>3, <2>1 DEF Goes, RefreshOK, At, GoodStats, GoodRam
  <2>3. ScreenOK'
    BY <1>1, <1>3 DEF Goes, DashInv, ScreenOK, At, Picture
  <2> QED  BY <1>1, <2>2, <2>3, SameSession DEF DashInv, Frozen, Shown
<1>4. ASSUME AskRam, Answers(b), Goes("keep", refresh.stats, Ram(b), TRUE)
      PROVE  DashInv' /\ Frozen
  <2>1. GoodStats(refresh.stats) /\ GoodRam(Ram(b))
    BY <1>1, <1>4, AnswersAreGood DEF DashInv, RefreshOK
  <2>2. RefreshOK'
    BY <1>4, <2>1 DEF Goes, RefreshOK, At, GoodStats, GoodRam
  <2>3. ScreenOK'
    BY <1>1, <1>4 DEF Goes, DashInv, ScreenOK, At, Picture
  <2> QED  BY <1>1, <2>2, <2>3, SameSession DEF DashInv, Frozen, Shown
<1> QED  BY <1>2, <1>3, <1>4 DEF AskStats, AskRam

LEMMA Keeping ==
  ASSUME DashInv, KeepStats \/ KeepRam
  PROVE  DashInv' /\ Frozen
<1>1. UNCHANGED screen
  BY DEF KeepStats, KeepRam
<1>2. DrawingAddsUp' /\ Frozen
  BY <1>1 DEF DashInv, DrawingAddsUp, Frozen, Shown
<1>3. CASE KeepStats
  <2>1. /\ session'.cached_stats = refresh.stats /\ session'.cached_ram = session.cached_ram
        /\ session'.broker_url = session.broker_url
        /\ session'.peak_ram_bytes = session.peak_ram_bytes
        /\ session' = [broker_url |-> session'.broker_url, cached_stats |-> session'.cached_stats,
                       cached_ram |-> session'.cached_ram, peak_ram_bytes |-> session'.peak_ram_bytes,
                       ram_history |-> session'.ram_history]
    BY <1>3 DEF KeepStats, DashInv, SessionOK
  <2>2. Goes("keep_ram", refresh.stats, refresh.ram, refresh.ok) /\ refresh.ok
    BY <1>3 DEF KeepStats, DashInv, RefreshOK, Goes, At
  <2>3. SessionOK'
    BY <2>1 DEF DashInv, SessionOK, RefreshOK, GoodStats, GoodRam
  <2>4. RefreshOK'
    BY <2>1, <2>2 DEF Goes, DashInv, RefreshOK, At, GoodStats, GoodRam
  <2>5. ScreenOK'
    BY <2>2 DEF Goes, ScreenOK, At
  <2> QED  BY <1>2, <2>3, <2>4, <2>5 DEF DashInv
<1>4. CASE KeepRam
  <2>1. /\ session'.cached_stats = session.cached_stats /\ session'.cached_ram = refresh.ram
        /\ session'.broker_url = session.broker_url
        /\ session'.peak_ram_bytes = session.peak_ram_bytes
        /\ session' = [broker_url |-> session'.broker_url, cached_stats |-> session'.cached_stats,
                       cached_ram |-> session'.cached_ram, peak_ram_bytes |-> session'.peak_ram_bytes,
                       ram_history |-> session'.ram_history]
    BY <1>4 DEF KeepRam, DashInv, SessionOK
  <2>2. /\ Goes("draw", refresh.stats, refresh.ram, refresh.ok) /\ refresh.ok
        /\ refresh.stats = session.cached_stats
    BY <1>4 DEF KeepRam, DashInv, RefreshOK, Goes, At
  <2>3. SessionOK'
    BY <2>1 DEF DashInv, SessionOK, RefreshOK, GoodStats, GoodRam
  <2>4. RefreshOK'
    BY <2>1, <2>2 DEF Goes, DashInv, RefreshOK, At, GoodStats, GoodRam
  <2>5. ScreenOK'
    BY <2>2 DEF Goes, ScreenOK, At
  <2> QED  BY <1>2, <2>3, <2>4, <2>5 DEF DashInv
<1> QED  BY <1>3, <1>4

Marked(r, o, c) == [r EXCEPT !.online = o, !.curve = c]

(* Two screens that differ in the mark "online" and the curve only.        *)
LEMMA Blanked ==
  ASSUME NEW r, NEW r2, NEW figures, NEW peak, NEW ttl, NEW scrubbed, NEW payloads, NEW log,
         NEW online, NEW online2, NEW curve, NEW curve2, NEW o, NEW c,
         r = [online |-> online, figures |-> figures, peak |-> peak, ttl |-> ttl,
              scrubbed |-> scrubbed, curve |-> curve, payloads |-> payloads, log |-> log],
         r2 = [online |-> online2, figures |-> figures, peak |-> peak, ttl |-> ttl,
               scrubbed |-> scrubbed, curve |-> curve2, payloads |-> payloads, log |-> log]
  PROVE  Marked(r, o, c) = Marked(r2, o, c)
<1> DEFINE same == [online |-> o, figures |-> figures, peak |-> peak, ttl |-> ttl,
                    scrubbed |-> scrubbed, curve |-> c, payloads |-> payloads, log |-> log]
<1>1. [r EXCEPT !.online = o, !.curve = c] = same
  <2>1. PICK v : v = [r EXCEPT !.online = o]
    OBVIOUS
  <2>2. v = [online |-> o, figures |-> figures, peak |-> peak, ttl |-> ttl,
             scrubbed |-> scrubbed, curve |-> curve, payloads |-> payloads, log |-> log]
    BY <2>1
  <2>3. PICK w : w = [v EXCEPT !.curve = c]
    OBVIOUS
  <2>4. w = same
    BY <2>2, <2>3
  <2>5. w = [r EXCEPT !.online = o, !.curve = c]
    BY <2>1, <2>3
  <2> QED  BY <2>4, <2>5
<1>2. [r2 EXCEPT !.online = o, !.curve = c] = same
  <2>1. PICK v : v = [r2 EXCEPT !.online = o]
    OBVIOUS
  <2>2. v = [online |-> o, figures |-> figures, peak |-> peak, ttl |-> ttl,
             scrubbed |-> scrubbed, curve |-> curve2, payloads |-> payloads, log |-> log]
    BY <2>1
  <2>3. PICK w : w = [v EXCEPT !.curve = c]
    OBVIOUS
  <2>4. w = same
    BY <2>2, <2>3
  <2>5. w = [r2 EXCEPT !.online = o, !.curve = c]
    BY <2>1, <2>3
  <2> QED  BY <2>4, <2>5
<1> QED  BY <1>1, <1>2 DEF Marked

LEMMA Drawing ==
  ASSUME DashInv, Draw
  PROVE  DashInv' /\ Frozen
<1> DEFINE stats == session.cached_stats
           ram == session.cached_ram
           f == Figures(stats, ram)
           rows == PayloadRows(ram)
           peak == IF f.active > session.peak_ram_bytes THEN f.active ELSE session.peak_ram_bytes
<1>0. /\ refresh.stats = stats /\ refresh.ram = ram /\ refresh.ok \in BOOLEAN /\ At("draw")
      /\ GoodStats(stats) /\ GoodRam(ram) /\ session.peak_ram_bytes \in Nat
  BY DEF Draw, DashInv, RefreshOK, SessionOK, At
<1>1. PICK history :
        /\ session' = [session EXCEPT !.peak_ram_bytes = peak, !.ram_history = history]
        /\ screen' = [online |-> refresh.ok, figures |-> f, peak |-> peak,
                      ttl |-> ShortestTtl(rows), scrubbed |-> Scrubbed(f),
                      curve |-> history, payloads |-> rows, log |-> EventRows(ram)]
  BY <1>0 DEF Draw
<1>2. f.active \in Nat /\ peak \in Nat /\ f.active <= peak
  <2>1. f.active \in Nat
    BY <1>0, FiguresAddUp
  <2> HIDE DEF f
  <2> QED  BY <1>0, <2>1
<1>3. /\ session'.cached_stats = stats /\ session'.cached_ram = ram
      /\ session'.broker_url = session.broker_url /\ session'.peak_ram_bytes = peak
      /\ session' = [broker_url |-> session'.broker_url, cached_stats |-> session'.cached_stats,
                     cached_ram |-> session'.cached_ram, peak_ram_bytes |-> session'.peak_ram_bytes,
                     ram_history |-> session'.ram_history]
  <2> HIDE DEF peak
  <2> QED  BY <1>1 DEF DashInv, SessionOK
<1>4. /\ screen'.online = refresh.ok /\ screen'.figures = f /\ screen'.peak = peak
      /\ screen'.scrubbed = Scrubbed(f) /\ screen'.payloads = rows
      /\ screen'.curve = history
  <2> HIDE DEF peak, f, rows
  <2> QED  BY <1>1
<1>5. SessionOK'
  <2> HIDE DEF peak, f
  <2> QED  BY <1>0, <1>2, <1>3 DEF SessionOK, DashInv, GoodStats, GoodRam
<1>6. RefreshOK'
  BY NothingNew DEF Idle, Draw, RefreshOK, At, GoodStats, GoodRam
<1>7. ScreenOK'
  <2>1. screen' = Picture(session.cached_stats, session.cached_ram)'
    <3>1. Picture(session.cached_stats, session.cached_ram)'
            = [online |-> screen'.online, figures |-> f, peak |-> peak,
               ttl |-> ShortestTtl(rows), scrubbed |-> Scrubbed(f),
               curve |-> screen'.curve, payloads |-> rows, log |-> EventRows(ram)]
      BY <1>3 DEF Picture
    <3> HIDE DEF peak, f, rows
    <3> QED  BY <1>1, <1>4, <3>1
  <2>2. screen'.figures.active <= session'.peak_ram_bytes
    BY <1>2, <1>3, <1>4
  <2> QED  BY <2>1, <2>2 DEF ScreenOK
<1>8. DrawingAddsUp'
  <2>1. /\ f.staged = f.active + f.wiped
        /\ rows # <<>> => Listed(rows) = f.active
        /\ Scrubbed(f) = "some left" <=> f.active > 0
    BY <1>0, FiguresAddUp
  <2> HIDE DEF f, rows
  <2> QED  BY <1>4, <2>1 DEF DrawingAddsUp
<1>9. Frozen
  <2> SUFFICES ASSUME screen # None, ~refresh.ok
               PROVE  Shown' = Shown
    BY <1>4 DEF Frozen
  <2>1. /\ screen = Picture(stats, ram)
        /\ screen.figures.active <= session.peak_ram_bytes
    BY <1>0 DEF DashInv, ScreenOK
  <2>2. screen.figures = f
    BY <2>1 DEF Picture
  <2>3. peak = session.peak_ram_bytes
    <3> HIDE DEF f
    <3> QED  BY <1>0, <1>2, <2>1, <2>2
  <2>4. screen = [online |-> screen.online, figures |-> f, peak |-> peak,
                  ttl |-> ShortestTtl(rows), scrubbed |-> Scrubbed(f),
                  curve |-> screen.curve, payloads |-> rows, log |-> EventRows(ram)]
    <3> HIDE DEF peak
    <3> QED  BY <2>1, <2>3 DEF Picture
  <2> DEFINE ttl == ShortestTtl(rows)
             scrubbed == Scrubbed(f)
             log == EventRows(ram)
             no == FALSE
             empty == <<>>
  <2>5. screen' = [online |-> refresh.ok, figures |-> f, peak |-> peak, ttl |-> ttl,
                   scrubbed |-> scrubbed, curve |-> history, payloads |-> rows, log |-> log]
    BY <1>1
  <2>6. screen = [online |-> screen.online, figures |-> f, peak |-> peak, ttl |-> ttl,
                  scrubbed |-> scrubbed, curve |-> screen.curve, payloads |-> rows, log |-> log]
    BY <2>4
  <2> HIDE DEF f, peak, rows, ttl, scrubbed, log, no, empty
  <2>7. Marked(screen', no, empty) = Marked(screen, no, empty)
    BY <2>5, <2>6, Blanked
  <2> QED  BY <2>7 DEF Shown, Marked, no, empty
<1> QED  BY <1>5, <1>6, <1>7, <1>8, <1>9 DEF DashInv

LEMMA Rerunning ==
  ASSUME DashInv, Rerun
  PROVE  DashInv' /\ Frozen
<1>1. screen' = None /\ refresh' = Idle
  BY DEF Rerun
<1>2. PICK url \in Brokers : session' = [session EXCEPT !.broker_url = url]
  BY DEF Rerun
<1>3. SessionOK'
  BY <1>2 DEF DashInv, SessionOK, GoodStats, GoodRam
<1>4. RefreshOK'
  BY <1>1, NothingNew DEF Idle, RefreshOK, At, GoodStats, GoodRam
<1>5. ScreenOK' /\ DrawingAddsUp' /\ Frozen
  BY <1>1 DEF ScreenOK, DrawingAddsUp, Frozen
<1> QED  BY <1>3, <1>4, <1>5 DEF DashInv

LEMMA DashStays ==
  ASSUME DashInv, UNCHANGED monitorVars
  PROVE  DashInv' /\ Frozen
<1>1. UNCHANGED <<session, refresh, screen>>
  BY DEF monitorVars
<1>2. RefreshOK' /\ ScreenOK'
  BY <1>1 DEF DashInv, RefreshOK, ScreenOK, At, GoodStats, GoodRam, Picture
<1> QED  BY <1>1, <1>2, SameSession DEF DashInv, Frozen, Shown

-----------------------------------------------------------------------------
(***************************************************************************)
(* The dashboard over the brokers                                          *)
(***************************************************************************)

MonitorInv == BackendInv /\ AnswersOK /\ RamInv /\ DashInv

LEMMA MonitorSteps ==
  ASSUME MonitorInv, [Next]_<<backendVars, monitorVars>>
  PROVE  MonitorInv' /\ Frozen
<1>1. BackendInv' /\ AnswersOK'
  BY AllSteps DEF MonitorInv
<1>2. CASE BackendNext /\ UNCHANGED monitorVars
  BY <1>1, <1>2, BackendKeepsStores, DashStays DEF MonitorInv
<1>3. CASE MonitorStep /\ UNCHANGED processes
  BY <1>1, <1>3, StoresStay, Asking, Keeping, Drawing, Rerunning DEF MonitorInv, MonitorStep
<1>4. CASE UNCHANGED <<backendVars, monitorVars>>
  BY <1>1, <1>4, StoresStay, DashStays DEF MonitorInv, backendVars
<1> QED  BY <1>2, <1>3, <1>4 DEF Next

LEMMA MonitorBegins ==
  ASSUME MonitorInit
  PROVE  MonitorInv
<1>1. BackendInv /\ AnswersOK
  BY Initially
<1>2. RamInv
  BY DEF MonitorInit, BackendInit, RamInv, StoreOK
<1>3. session \in [broker_url: Brokers, cached_stats: {NoStats}, cached_ram: {NoRam},
                  peak_ram_bytes: {0}, ram_history: {<<>>}]
      /\ refresh = Idle /\ screen = None
  BY DEF MonitorInit
<1>4. SessionOK
  BY <1>3, NothingNew DEF SessionOK
<1>5. RefreshOK
  BY <1>3, NothingNew DEF RefreshOK, Idle, At
<1>6. ScreenOK /\ DrawingAddsUp
  BY <1>3 DEF ScreenOK, DrawingAddsUp
<1> QED  BY <1>1, <1>2, <1>4, <1>5, <1>6 DEF MonitorInv, DashInv

(* Whatever the two requests of a refresh met, the bars and the list of    *)
(* packages add up, offline, over restarts, changes of the broker,         *)
(* interrupted refreshes and Redis (app.py, the fragment's drawing).       *)
THEOREM DashboardAddsUp == Spec => []DrawingAddsUp
<1>1. MonitorInit => MonitorInv
  BY MonitorBegins
<1>2. MonitorInv /\ [Next]_<<backendVars, monitorVars>> => MonitorInv'
  BY MonitorSteps
<1>3. MonitorInv => DrawingAddsUp
  BY DEF MonitorInv, DashInv
<1> QED  BY <1>1, <1>2, <1>3, PTL DEF Spec

(* A dashboard whose broker does not answer shows what it showed: no step  *)
(* that draws offline over a drawing changes a figure, a row or an event   *)
(* (app.py:1662).                                                          *)
THEOREM DashboardFreezes == Spec => FreezesOffline
<1>1. MonitorInit => MonitorInv
  BY MonitorBegins
<1>2. MonitorInv /\ [Next]_<<backendVars, monitorVars>> => MonitorInv'
  BY MonitorSteps
<1>3. MonitorInv /\ [Next]_<<backendVars, monitorVars>>
        => [screen # None /\ screen' # None /\ ~screen'.online => Shown' = Shown]_screen
  BY MonitorSteps DEF Frozen
<1> QED  BY <1>1, <1>2, <1>3, PTL DEF Spec, FreezesOffline

=============================================================================
