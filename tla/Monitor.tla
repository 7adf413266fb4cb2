------------------------------ MODULE Monitor ------------------------------
(***************************************************************************)
(* The dashboard of the administrator (ui/app.py,                          *)
(* _render_zero_log_dashboard_fragment) over the brokers of module         *)
(* Backend: every two seconds one browser session asks the broker of its   *)
(* URL for /stats and then for /ram, keeps what it got in the session and  *)
(* draws it; when the broker does not answer it draws what it kept.        *)
(*                                                                         *)
(* The two requests are two steps, and Streamlit may stop the fragment for *)
(* a rerun of the page at every access to the session in between.          *)
(***************************************************************************)
EXTENDS Backend

CONSTANTS
  UsedMemory,  \* what Redis may report as used_memory
  Window       \* samples the curve keeps; 60 in the code

ASSUME MonitorAssumption == UsedMemory \subseteq Nat /\ Window \in Nat \ {0}

VARIABLES
  session,   \* st.session_state: broker_url, cached_*, peak_ram_bytes, ram_history
  refresh,   \* the refresh in progress: its place and its locals, or Idle
  screen     \* what the dashboard shows, or None while the page is rebuilt

monitorVars == <<session, refresh, screen>>

NoStats == [active_payloads |-> 0, total_staged |-> 0, total_retrieved |-> 0,
            total_purged_expired |-> 0, disk_writes |-> 0, approx_ram_bytes |-> 0]
NoRam == None

Idle == [place |-> "idle", stats |-> NoStats, ram |-> NoRam, ok |-> FALSE]

MonitorInit ==
  /\ BackendInit
  /\ session \in [broker_url: Brokers, cached_stats: {NoStats}, cached_ram: {NoRam},
                  peak_ram_bytes: {0}, ram_history: {<<>>}]
  /\ refresh = Idle /\ screen = None

-----------------------------------------------------------------------------
(***************************************************************************)
(* What the broker answers                                                 *)
(***************************************************************************)

BytesIn(s) == MapThenSumSet(LAMBDA t : Size[s.data[t].payload], Held(s))

Stats(b) ==
  LET s == store[b]
      Of(active, disk, bytes) ==
        [active_payloads |-> active, total_staged |-> s.total_staged,
         total_retrieved |-> s.total_retrieved,
         total_purged_expired |-> s.total_purged_expired,
         disk_writes |-> disk, approx_ram_bytes |-> bytes]
  IN  IF backend[b] = "ram"
      THEN {Of(Cardinality(Held(s) \ Expired(s, clock)), 0, BytesIn(s))}
      ELSE {Of(Cardinality(HeldIn(server.data)), s.disk_writes, n) : n \in UsedMemory}

TtlRemaining(entry) == IF entry.expires_at > clock THEN entry.expires_at - clock ELSE 0

\* ram_snapshot: expired packages the purge has not come to are in it.
RamSnapshot(s) ==
  LET Row(t) == [tx_id |-> t, recipient |-> s.data[t].recipient,
                 size_bytes |-> Size[s.data[t].payload],
                 ttl_remaining |-> TtlRemaining(s.data[t])]
      Before(t, u) ==
        \/ TtlRemaining(s.data[t]) < TtlRemaining(s.data[u])
        \/ /\ TtlRemaining(s.data[t]) = TtlRemaining(s.data[u])
           /\ s.data[t].order < s.data[u].order
      ids == InOrder(Held(s), Before)
  IN  [entries |-> [n \in DOMAIN ids |-> Row(ids[n])], events |-> s.events,
       bytes_staged |-> s.bytes_staged, bytes_wiped |-> s.bytes_wiped,
       active_bytes |-> BytesIn(s), disk_writes |-> 0]

\* RedisStore has no ram_snapshot: /ram is a 500 there, and the dashboard
\* goes on without.
Ram(b) == IF backend[b] = "ram" THEN RamSnapshot(store[b]) ELSE NoRam

-----------------------------------------------------------------------------
(***************************************************************************)
(* A refresh                                                               *)
(***************************************************************************)

At(place) == refresh.place = place
Goes(place, stats, ram, ok) ==
  refresh' = [place |-> place, stats |-> stats, ram |-> ram, ok |-> ok]

\* No answer, or one that is no 200: the last figures of the session.
Offline == Goes("draw", session.cached_stats, session.cached_ram, FALSE)

\* A broker in the middle of a Redis command answers too late or later.
Answers(b) == mode[b] = "up" /\ call[b] = None

\* Mutant: the first answer goes into the session before the second is asked.
AskStatsKeeps ==
  /\ At("idle") /\ Bump("refreshes")
  /\ \/ /\ Answers(session.broker_url)
        /\ \E s \in Stats(session.broker_url) :
             Goes("ram", s, NoRam, TRUE) /\ session' = [session EXCEPT !.cached_stats = s]
     \/ Offline /\ session' = session
  /\ UNCHANGED screen

AskStats ==
  /\ At("idle") /\ Bump("refreshes")
  /\ \/ /\ Answers(session.broker_url)
        /\ \E s \in Stats(session.broker_url) : Goes("ram", s, NoRam, TRUE)
     \/ Offline
  /\ UNCHANGED <<session, screen>>

AskRam ==
  /\ At("ram")
  /\ \/ /\ Answers(session.broker_url)
        /\ Goes("keep", refresh.stats, Ram(session.broker_url), TRUE)
     \/ Offline
  /\ UNCHANGED <<session, screen, count>>

\* Two assignments to the session, with a point to be stopped at between.
KeepStats ==
  /\ At("keep")
  /\ session' = [session EXCEPT !.cached_stats = refresh.stats]
  /\ refresh' = [refresh EXCEPT !.place = "keep_ram"]
  /\ UNCHANGED <<screen, count>>

KeepRam ==
  /\ At("keep_ram")
  /\ session' = [session EXCEPT !.cached_ram = refresh.ram]
  /\ refresh' = [refresh EXCEPT !.place = "draw"]
  /\ UNCHANGED <<screen, count>>

-----------------------------------------------------------------------------
(***************************************************************************)
(* The drawing                                                             *)
(***************************************************************************)

\* The figures of the five cards and of the two bar charts.
Figures(stats, ram) ==
  LET bytes == stats.approx_ram_bytes IN
  [packages |-> stats.active_payloads,
   active |-> IF ram = NoRam THEN bytes ELSE ram.active_bytes,
   staged |-> IF ram = NoRam THEN bytes ELSE ram.bytes_staged,
   wiped |-> IF ram = NoRam THEN 0 ELSE ram.bytes_wiped,
   disk |-> IF ram = NoRam THEN stats.disk_writes ELSE ram.disk_writes,
   bars |-> [EXPIRE |-> stats.total_purged_expired, WIPE |-> stats.total_retrieved,
             STAGE |-> stats.total_staged]]

\* The table of the packages in RAM; the broker has sorted it.
PayloadRows(ram) == IF ram = NoRam THEN <<>> ELSE ram.entries

ShortestTtl(rows) ==
  IF rows = <<>> THEN None ELSE Min({rows[n].ttl_remaining : n \in DOMAIN rows})

\* The progress bar and its caption.
Scrubbed(f) ==
  IF f.staged = 0 THEN "nothing to scrub"
  ELSE IF f.wiped >= f.staged THEN "all scrubbed"
  ELSE "some left"

Newest(seq, n) == IF Len(seq) > n THEN SubSeq(seq, Len(seq) - n + 1, Len(seq)) ELSE seq

\* The newest 40 events, newest first.
EventRows(ram) == IF ram = NoRam THEN <<>> ELSE Reverse(Newest(ram.events, 40))

Draw ==
  /\ At("draw")
  /\ LET f == Figures(refresh.stats, refresh.ram)
         rows == PayloadRows(refresh.ram)
         peak == IF f.active > session.peak_ram_bytes THEN f.active ELSE session.peak_ram_bytes
         sample == [active |-> f.active, staged |-> f.staged, wiped |-> f.wiped]
         history == Newest(Append(session.ram_history, sample), Window)
     IN  /\ session' = [session EXCEPT !.peak_ram_bytes = peak, !.ram_history = history]
         /\ screen' = [online |-> refresh.ok, figures |-> f, peak |-> peak,
                       ttl |-> ShortestTtl(rows), scrubbed |-> Scrubbed(f),
                       curve |-> history, payloads |-> rows, log |-> EventRows(refresh.ram)]
  /\ refresh' = Idle
  /\ UNCHANGED count

\* The administrator clicks somewhere: the fragment ends where it is, and the
\* page is built again, with the broker URL just saved if that was the click.
Rerun ==
  /\ ~At("idle") \/ screen # None
  /\ \E url \in Brokers : session' = [session EXCEPT !.broker_url = url]
  /\ refresh' = Idle /\ screen' = None
  /\ UNCHANGED count

MonitorStep == AskStats \/ AskRam \/ KeepStats \/ KeepRam \/ Draw \/ Rerun

Next ==
  \/ BackendNext /\ UNCHANGED monitorVars
  \/ MonitorStep /\ last' = None /\ UNCHANGED <<clock, processes, server, call, burnt>>

Spec == MonitorInit /\ [][Next]_<<backendVars, monitorVars>>

-----------------------------------------------------------------------------
(***************************************************************************)
(* Properties                                                              *)
(***************************************************************************)

Listed(rows) == FoldLeft(LAMBDA sum, row : sum + row.size_bytes, 0, rows)

(* The dashboard's promise is that what was written to RAM is either there *)
(* or overwritten, and its drawing bears it out whatever the two requests  *)
(* met: the bars and the list of packages add up, online and offline, over *)
(* restarts, changes of the broker, interrupted refreshes and Redis.       *)
DrawingAddsUp ==
  screen # None =>
    LET f == screen.figures IN
    /\ f.staged = f.active + f.wiped
    /\ screen.payloads # <<>> => Listed(screen.payloads) = f.active
    /\ screen.scrubbed = "some left" <=> f.active > 0

Shown == [screen EXCEPT !.online = FALSE, !.curve = <<>>]

(* "Showing the last snapshot kept in memory" (app.py:1662): when the      *)
(* broker stops answering, before or between the two requests, the         *)
(* dashboard freezes: no figure, row or event changes but the curve.       *)
FreezesOffline ==
  [][screen # None /\ screen' # None /\ ~screen'.online => Shown' = Shown]_screen

=============================================================================
