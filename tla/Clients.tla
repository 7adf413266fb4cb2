------------------------------ MODULE Clients ------------------------------
(***************************************************************************)
(* The clients of the broker: the sessions of the web page (ui/app.py) and *)
(* the command line (engine/cli.py), over the boxes of module Boxes.        *)
(*                                                                         *)
(* A session runs one script at a time.  Its calls to the broker and to    *)
(* the chain and the uses it makes of the session while it logs in are     *)
(* steps of their own, and the script may end at any of them (`Abandon`):  *)
(* the answer is lost or late, or the user clicks and Streamlit stops the  *)
(* script at its next use of the session.  What was done by then stays     *)
(* done.  my_pk and my_address, set in adjacent lines, are one value here. *)
(*                                                                         *)
(* get_public_key is module Dpki's.  Seen from here it gives the RSA key   *)
(* of a wallet that the command line has registered while the node is up,  *)
(* and the key of the wallet itself from the relay while it is down: the   *)
(* contract takes no key without an RSA proof, which the page cannot give. *)
(***************************************************************************)
EXTENDS Boxes, Sequences

CONSTANTS
  Sessions,
  OnChain,   \* the wallets with an RSA key on chain
  AtRelay,   \* the wallets whose own key the broker's relay has
  Passwords, \* the wallets the people at each session can log in as
  MaxMined   \* bound: mined transactions of each wallet

ASSUME ClientsAssumption ==
  /\ TxIds \subseteq Nat /\ IsFiniteSet(Sessions)
  /\ OnChain \subseteq Addresses /\ AtRelay \subseteq Addresses
  /\ LowerOf \in [Addresses -> Addresses]
  /\ Passwords \in [Sessions -> SUBSET Addresses]
  /\ MaxMined \in [Addresses -> Nat]

VARIABLES
  user,              \* the wallet logged in (my_pk, my_address), or None
  messages,          \* st.session_state.messages
  last_drop_ticket,  \* st.session_state.last_drop_ticket
  busy,              \* what the session's script is waiting for, or None
  since,             \* history variable: the wallets the session has been logged
                     \* in as since a login last ran to its end
  content,           \* what is sealed in the packages staged, in their order
  uuids,             \* uuid4 values drawn
  node,              \* "up" or "down"
  mined,             \* mined transactions of each wallet: its next nonce
  pool               \* wallets with a transaction waiting to be mined

sessionVars == <<user, messages, last_drop_ticket, busy, since>>
chainVars == <<node, mined, pool>>
vars == <<boxes, sessionVars, content, uuids, chainVars>>

\* The page seals JSON with the sender in it, the command line bare bytes.
Sealed ==
  [tx_id: TxIds, to: Addresses, kind: {"chat", "transfer", "drop"},
   sender: Addresses]
  \cup [tx_id: TxIds, to: Addresses, kind: {"file"}]

Message == [id: TxIds, kind: {"chat", "transfer"}, from: Addresses,
            to: Addresses]

Waiting ==
  [op: {"messages", "ticket"}]
  \cup [op: {"sent"}, n: Nat, to: Addresses]
  \cup [op: {"poll"}, todo: SUBSET Nat]
  \cup [op: {"pay", "receipt"}, to: Addresses, nonce: Nat]
  \cup [op: {"notify"}, to: Addresses, id: TxIds]

ASSUME WaitingAssumption == None \notin Waiting /\ None \notin Addresses

TypeOK ==
  /\ puts = Len(content)
  /\ user \in [Sessions -> Addresses \cup {None}]
  /\ messages \in [Sessions -> Seq(Message)]
  /\ last_drop_ticket \in [Sessions -> TxIds \cup {None}]
  /\ busy \in [Sessions -> Waiting \cup {None}]
  /\ since \in [Sessions -> SUBSET Addresses]
  /\ content \in Seq(Sealed)
  /\ uuids \in Nat
  /\ node \in {"up", "down"}
  /\ mined \in [Addresses -> Nat] /\ pool \in SUBSET Addresses

Init ==
  /\ BoxesInit
  /\ user = [s \in Sessions |-> None]
  /\ messages = [s \in Sessions |-> <<>>]
  /\ last_drop_ticket = [s \in Sessions |-> None]
  /\ busy = [s \in Sessions |-> None]
  /\ since = [s \in Sessions |-> {}]
  /\ content = <<>> /\ uuids = 0
  /\ node \in {"up", "down"}
  /\ mined = [w \in Addresses |-> 0] /\ pool = {}

-----------------------------------------------------------------------------

Idle(s) == user[s] # None /\ busy[s] = None

Doing(s, op) == busy[s] # None /\ busy[s].op = op

Wait(s, what) == busy' = [busy EXCEPT ![s] = what]

Inbox(w) == {t \in Full : Owns(w, t)}

\* The kind of key get_public_key gives for w, None when it raises.  A process
\* that still has the RSA key in its cache while the node is down (module Dpki)
\* sends nothing, as if there were no key.
KeyOf(w) ==
  IF node = "up" THEN IF w \in OnChain THEN "rsa" ELSE None
  ELSE IF w \in AtRelay THEN "eth" ELSE None

\* unwrap_key, decrypt_bytes, gzip and JSON: a drop is not compressed, a file
\* is wrapped with RSA.
OpensInChat(p) == p.kind \in {"chat", "transfer"}

\* POST /stage is accepted.
Stage(p) == PutIn(p.tx_id, p.to) /\ content' = Append(content, p)

-----------------------------------------------------------------------------
(***************************************************************************)
(* Logging in and out                                                      *)
(***************************************************************************)

\* The login form, and the form that makes a wallet: my_pk opens the gate.
\* What the last user had goes only now, one key of the session after another,
\* and the script may end (Abandon) before the next one.
Login(s, w) ==
  /\ user[s] = None /\ w \in Passwords[s]
  /\ user' = [user EXCEPT ![s] = w]
  /\ since' = [since EXCEPT ![s] = @ \cup {w}]
  /\ Wait(s, [op |-> "messages"])
  /\ UNCHANGED <<boxes, messages, last_drop_ticket, content, uuids, chainVars>>

\* Mutant: the messages are not among the keys to drop.
KeepMessages(s) ==
  /\ Doing(s, "messages")
  /\ Wait(s, [op |-> "ticket"])
  /\ UNCHANGED <<boxes, user, messages, last_drop_ticket, since, content, uuids,
                 chainVars>>

DropMessages(s) ==
  /\ Doing(s, "messages")
  /\ messages' = [messages EXCEPT ![s] = <<>>]
  /\ Wait(s, [op |-> "ticket"])
  /\ UNCHANGED <<boxes, user, last_drop_ticket, since, content, uuids, chainVars>>

\* The last key: the login has run to its end.
DropTicket(s) ==
  /\ Doing(s, "ticket")
  /\ last_drop_ticket' = [last_drop_ticket EXCEPT ![s] = None]
  /\ since' = [since EXCEPT ![s] = {user[s]}]
  /\ Wait(s, None)
  /\ UNCHANGED <<boxes, user, messages, content, uuids, chainVars>>

\* The messages and the ticket stay in the session.
_logout_and_stop(s) ==
  /\ Idle(s)
  /\ user' = [user EXCEPT ![s] = None]
  /\ UNCHANGED <<boxes, messages, last_drop_ticket, busy, since, content, uuids,
                 chainVars>>

\* Nothing more of the script runs.
Abandon(s) ==
  /\ busy[s] # None /\ busy[s].op # "poll"
  /\ Wait(s, None)
  /\ UNCHANGED <<boxes, user, messages, last_drop_ticket, since, content,
                 uuids, chainVars>>

-----------------------------------------------------------------------------
(***************************************************************************)
(* Chat and CloakDrop                                                      *)
(***************************************************************************)

\* The chat form and the drop form: get_public_key, encrypt, wrap, sign and
\* POST /stage.  Without the other wallet's own key nothing is sent.
Send(s, to, kind) ==
  /\ Idle(s) /\ to # user[s]
  /\ KeyOf(to) = "eth"
  /\ uuids + 1 \in TxIds
  /\ uuids' = uuids + 1
  /\ Stage([tx_id |-> uuids + 1, to |-> to, kind |-> kind,
            sender |-> user[s]])
  /\ Wait(s, [op |-> "sent", n |-> puts + 1, to |-> to])
  /\ UNCHANGED <<user, messages, last_drop_ticket, since, chainVars>>

Record(s, id, kind, from, to) ==
  messages' = [messages EXCEPT ![s] =
    Append(@, [id |-> id, kind |-> kind, from |-> from, to |-> to])]

\* The 201 arrives.
SentChat(s) ==
  /\ Doing(s, "sent") /\ content[busy[s].n].kind = "chat"
  /\ Record(s, content[busy[s].n].tx_id, "chat", user[s], busy[s].to)
  /\ Wait(s, None)
  /\ UNCHANGED <<boxes, user, last_drop_ticket, since, content, uuids,
                 chainVars>>

SentDrop(s) ==
  /\ Doing(s, "sent") /\ content[busy[s].n].kind = "drop"
  /\ last_drop_ticket' =
       [last_drop_ticket EXCEPT ![s] = content[busy[s].n].tx_id]
  /\ Wait(s, None)
  /\ UNCHANGED <<boxes, user, messages, since, content, uuids, chainVars>>

Numbers(w) == {box[t].id : t \in Inbox(w)}

\* Mutant: the ids already shown are not looked up.
NothingShown(s) == {}

\* existing_ids
Shown(s) == {messages[s][i].id : i \in DOMAIN messages[s]}

\* The items of the inbox that are not shown when the answer comes.
NewItems(s) == {n \in Numbers(user[s]) : content[n].tx_id \notin Shown(s)}

\* GET /inbox is answered; without a new item nothing changes.  The script may
\* be stopped within the loop over the items, so it handles those up to some
\* `end`, the last one or another.
poll_inbox(s, end) ==
  /\ Idle(s) /\ end \in NewItems(s)
  /\ Hand(Inbox(user[s]), user[s], {})
  /\ Wait(s, [op |-> "poll", todo |-> {n \in NewItems(s) : n <= end}])
  /\ UNCHANGED <<user, messages, last_drop_ticket, since, content, uuids,
                 chainVars>>

WholePoll(s) ==
  /\ Idle(s)
  /\ \E end \in 1..puts :
       (\A n \in NewItems(s) : n <= end) /\ poll_inbox(s, end)

\* Mutant: an item that does not open ends the loop.
LoopTillFailure(s, n) ==
  Wait(s, IF busy[s].todo = {n} \/ ~OpensInChat(content[n]) THEN None
          ELSE [busy[s] EXCEPT !.todo = @ \ {n}])

\* After item n the loop goes on, or ends with the last item.
Loop(s, n) ==
  Wait(s, IF busy[s].todo = {n} THEN None
          ELSE [busy[s] EXCEPT !.todo = @ \ {n}])

\* The next new item: one that opens is shown, and the signature only decides
\* on its badge; another is passed over.
PollItem(s, n) ==
  /\ Doing(s, "poll") /\ n \in busy[s].todo /\ \A k \in busy[s].todo : n <= k
  /\ IF OpensInChat(content[n])
     THEN Record(s, content[n].tx_id, content[n].kind, content[n].sender,
                 user[s])
     ELSE UNCHANGED messages
  /\ Loop(s, n)
  /\ UNCHANGED <<boxes, user, last_drop_ticket, since, content, uuids,
                 chainVars>>

\* The claim form, with any ticket the wallet may retrieve.  The package is
\* opened after the broker has handed it out: a drop becomes a download, another
\* package an error, and neither is kept.  The sender's wish to have it burned
\* is in there and nobody reads it: `burn` is the claimer's.
Claim(s, t, burn) ==
  /\ Idle(s) /\ t \in Inbox(user[s])
  /\ Hand({t}, user[s], IF burn THEN {t} ELSE {})
  /\ UNCHANGED <<sessionVars, content, uuids, chainVars>>

-----------------------------------------------------------------------------
(***************************************************************************)
(* The command line                                                        *)
(***************************************************************************)

\* send: the recipient's RSA key wraps, bytes are staged as they are.
CliSend(to) ==
  /\ KeyOf(to) = "rsa"
  /\ uuids + 1 \in TxIds
  /\ uuids' = uuids + 1
  /\ Stage([tx_id |-> uuids + 1, to |-> to, kind |-> "file"])
  /\ UNCHANGED <<sessionVars, chainVars>>

\* receive, with --burn or not: what happens to the answer is the user's
\* affair, what happens to the package is not.
CliReceive(w, t, burn) ==
  /\ t \in Inbox(w)
  /\ Hand({t}, w, IF burn THEN {t} ELSE {})
  /\ UNCHANGED <<sessionVars, content, uuids, chainVars>>

-----------------------------------------------------------------------------
(***************************************************************************)
(* Transfers                                                               *)
(***************************************************************************)

\* send_eth up to the transaction it builds; `nonce` is the count of mined
\* transactions.  The balance is enough.
Pay(s, to) ==
  /\ Idle(s) /\ to # user[s]
  /\ node = "up"
  /\ mined[user[s]] < MaxMined[user[s]]
  /\ Wait(s, [op |-> "pay", to |-> to, nonce |-> mined[user[s]]])
  /\ UNCHANGED <<boxes, user, messages, last_drop_ticket, since, content,
                 uuids, chainVars>>

\* Mutant: the node's refusal is not noticed.
AcceptsAnything(w, nonce) == TRUE

\* send_raw_transaction: a used nonce is too low, and a transaction with the
\* nonce of one in the pool does not replace it at the same price.
Accepts(w, nonce) == nonce = mined[w] /\ w \notin pool

SendTransaction(s) ==
  /\ Doing(s, "pay")
  /\ node = "up"
  /\ Accepts(user[s], busy[s].nonce)
  /\ pool' = pool \cup {user[s]}
  /\ Wait(s, [busy[s] EXCEPT !.op = "receipt"])
  /\ UNCHANGED <<boxes, user, messages, last_drop_ticket, since, content,
                 uuids, node, mined>>

\* The receipt is there: the transfer is shown, under an id of its own.
Receipt(s) ==
  /\ Doing(s, "receipt")
  /\ mined[user[s]] > busy[s].nonce
  /\ uuids + 1 \in TxIds
  /\ uuids' = uuids + 1
  /\ Record(s, uuids + 1, "transfer", user[s], busy[s].to)
  /\ Wait(s, [op |-> "notify", to |-> busy[s].to, id |-> uuids + 1])
  /\ UNCHANGED <<boxes, user, last_drop_ticket, since, content, chainVars>>

\* What fails here is passed over; the caller does not learn of it.
notify_transfer(s) ==
  /\ Doing(s, "notify")
  /\ IF KeyOf(busy[s].to) = "eth"
     THEN Stage([tx_id |-> busy[s].id, to |-> busy[s].to, kind |-> "transfer",
                 sender |-> user[s]])
     ELSE UNCHANGED <<boxes, content>>
  /\ Wait(s, None)
  /\ UNCHANGED <<user, messages, last_drop_ticket, since, uuids, chainVars>>

-----------------------------------------------------------------------------
(***************************************************************************)
(* The world around                                                        *)
(***************************************************************************)

Mine(w) ==
  /\ node = "up" /\ w \in pool
  /\ pool' = pool \ {w}
  /\ mined' = [mined EXCEPT ![w] = @ + 1]
  /\ UNCHANGED <<boxes, sessionVars, content, uuids, node>>

NodeChanges ==
  /\ node' = IF node = "up" THEN "down" ELSE "up"
  /\ UNCHANGED <<boxes, sessionVars, content, uuids, mined, pool>>

\* A time to live ends, or the broker stops.
Expire ==
  /\ \E S \in SUBSET Full : S # {} /\ Discard(S)
  /\ UNCHANGED <<sessionVars, content, uuids, chainVars>>

Environment ==
  \/ \E w \in Addresses : Mine(w)
  \/ NodeChanges \/ Expire

Page(s) ==
  \/ \E w \in Addresses : Login(s, w)
  \/ DropMessages(s) \/ DropTicket(s) \/ _logout_and_stop(s)
  \/ Abandon(s)
  \/ \E to \in Addresses : Send(s, to, "chat") \/ Send(s, to, "drop") \/ Pay(s, to)
  \/ SentChat(s) \/ SentDrop(s)
  \/ \E n \in 1..puts : poll_inbox(s, n) \/ PollItem(s, n)
  \/ \E t \in TxIds, burn \in BOOLEAN : Claim(s, t, burn)
  \/ SendTransaction(s) \/ Receipt(s) \/ notify_transfer(s)

CommandLine ==
  \/ \E to \in Addresses : CliSend(to)
  \/ \E w \in Addresses, t \in TxIds, burn \in BOOLEAN : CliReceive(w, t, burn)

Next == (\E s \in Sessions : Page(s)) \/ CommandLine \/ Environment

Spec == Init /\ [][Next]_vars

\* A chat page asks for the inbox every two seconds and at the start of every
\* script, and no script waits for good: the loop over the items calls nothing
\* that blocks, and a call ends within its timeout.
Fairness ==
  \A s \in Sessions :
    /\ SF_vars(WholePoll(s))
    /\ WF_vars((\E n \in 1..puts : PollItem(s, n)) \/ Abandon(s))

FairSpec == Spec /\ Fairness

-----------------------------------------------------------------------------
(***************************************************************************)
(* Properties                                                              *)
(***************************************************************************)

(* A session's history has one entry per ticket, although the inbox is     *)
(* read again and again and packages stay in it (app.py:1151-1155).        *)
ShownOnce ==
  \A s \in Sessions : \A i, j \in DOMAIN messages[s] :
    messages[s][i].id = messages[s][j].id => i = j

\* w has written the message, or got it.
ForUser(m, w) ==
  \/ m.from = w
  \/ m.to = w /\ \E n \in DOMAIN content :
       /\ content[n].tx_id = m.id
       /\ LowerOf[content[n].to] = LowerOf[w]

SentBy(ticket, w) ==
  \E n \in DOMAIN content :
    content[n].tx_id = ticket /\ content[n].kind = "drop" /\ content[n].sender = w

(* What a session holds is of the wallets it was logged in as since a      *)
(* login last ran to its end: messages they have sent or that were         *)
(* addressed to them, and the ticket of a drop one of them has sent.  After *)
(* such a login that is the user alone, whoever was logged in before.  A   *)
(* login that is cut off before it drops the old history (app.py:831-841)  *)
(* leaves the new user with it, and with nothing older.                    *)
HistorySinceLogin ==
  \A s \in Sessions :
    /\ \A i \in DOMAIN messages[s] : \E w \in since[s] : ForUser(messages[s][i], w)
    /\ last_drop_ticket[s] # None =>
         \E w \in since[s] : SentBy(last_drop_ticket[s], w)

TransfersShown(w) ==
  UNION {{messages[s][i].id : i \in {j \in DOMAIN messages[s] :
            messages[s][j].kind = "transfer" /\ messages[s][j].from = w}} :
         s \in Sessions}

(* While every notice is made by send_eth, no wallet is shown as the author *)
(* of more transfers than it has mined, when two sessions of the wallet    *)
(* pay at once and answers get lost (app.py:1090-1136).  The chat shows    *)
(* whatever is sealed as a transfer under the sender it names: a notice    *)
(* that somebody makes up is in no behaviour of this module.               *)
TransfersCovered ==
  \A w \in Addresses : Cardinality(TransfersShown(w)) <= mined[w]

\* What is in RAM for the wallet logged in and not shown to it yet, of the
\* messages whose sender's key can be looked up.
Unshown(s) ==
  {n \in DOMAIN content :
     /\ user[s] # None /\ LowerOf[user[s]] = LowerOf[content[n].to]
     /\ OpensInChat(content[n]) /\ KeyOf(content[n].sender) = "eth"
     /\ \E t \in Full : box[t].id = n
     /\ content[n].tx_id \notin Shown(s)}

(* Again and again a session has shown every message that is in RAM for    *)
(* its wallet and whose sender's key can be looked up, so that each is     *)
(* shown unless it leaves RAM or the wallet the session: what does not     *)
(* open, a drop or a file, does not hold it up (app.py:1152-1199).  Of a   *)
(* message whose signature cannot be checked nothing is asked, though the  *)
(* chat shows it too.                                                      *)
MessageIsShown == \A s \in Sessions : []<>(Unshown(s) = {})

=============================================================================
