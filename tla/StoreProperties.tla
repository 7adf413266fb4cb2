-------------------------- MODULE StoreProperties --------------------------
(***************************************************************************)
(* What must be true of the RAM store whoever drives it: threads sharing   *)
(* the lock, or the handlers of the broker.                                *)
(***************************************************************************)
EXTENDS RamStore, FiniteSetsExt

(* Every byte ever written to RAM is either still held or was overwritten  *)
(* with 0x00: no path (overwrite, burn, expiry, shutdown) drops a buffer   *)
(* unwiped.  _bytes_staged and _bytes_wiped, memory_store.py:181-182, 255. *)
BytesAccounted(s) ==
  s.bytes_staged
    = s.bytes_wiped + MapThenSumSet(LAMBDA t : Size[s.data[t].payload], Held(s))

(* Every staging is one event and every removal is one event, so the       *)
(* number of events (_seq), of stagings and of entries held are tied:      *)
(* nothing enters or leaves the dict without a line in the dashboard's log.*)
PayloadsAccounted(s) ==
  s.seq + Cardinality(Held(s)) = 2 * s.total_staged

(* The log is the last RAM_EVENT_LOG_SIZE events, without a gap.           *)
LogIsSuffix(s) ==
  /\ Len(s.events) = IF s.seq < RAM_EVENT_LOG_SIZE THEN s.seq ELSE RAM_EVENT_LOG_SIZE
  /\ \A i \in DOMAIN s.events : s.events[i].seq = s.seq - Len(s.events) + i

IsLatest(s, i) ==
  \A j \in DOMAIN s.events : j > i => s.events[j].tx_id # s.events[i].tx_id

(* A ticket is in RAM exactly when its latest event in the log says STAGE, *)
(* with the size that event shows: the two halves of ram_snapshot agree.   *)
LogShowsHeld(s) ==
  \A i \in DOMAIN s.events :
    IsLatest(s, i) =>
      LET e == s.events[i] IN
      IF e.action = "STAGE"
      THEN e.tx_id \in Held(s) /\ e.size_bytes = Size[s.data[e.tx_id].payload]
      ELSE e.tx_id \notin Held(s)

LogAgreesWithRam(s) == LogIsSuffix(s) /\ LogShowsHeld(s)

Logged(s, action) == {i \in DOMAIN s.events : s.events[i].action = action}

(* While the log has dropped nothing, total_purged_expired is the number   *)
(* of EXPIRE events in it.                                                 *)
ExpiriesCounted(s) ==
  s.seq <= RAM_EVENT_LOG_SIZE =>
    s.total_purged_expired = Cardinality(Logged(s, "EXPIRE"))

(* Tickets that a step from store s to store s2 removes as expired.        *)
ExpiredBetween(s, s2) ==
  {t \in Held(s) \ Held(s2) :
     \E i \in DOMAIN s2.events :
       /\ s2.events[i].seq > s.seq
       /\ s2.events[i].action = "EXPIRE"
       /\ s2.events[i].tx_id = t}

=============================================================================
