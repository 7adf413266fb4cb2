---------------------------- MODULE ClientsProofs ----------------------------
(***************************************************************************)
(* Safety of module Clients, for any sessions, wallets and packages.       *)
(***************************************************************************)
EXTENDS Clients, FiniteSetTheorems, SequenceTheorems, TLAPS

\* A ticket names one package, with an id that was drawn.
ContentOK ==
  /\ \A n \in DOMAIN content : content[n].tx_id \in 1..uuids
  /\ \A n, k \in DOMAIN content : content[n].tx_id = content[k].tx_id => n = k

\* What a box holds was staged, for the recipient the box names.
BoxesOK ==
  /\ box = [t \in TxIds |-> box[t]]
  /\ \A t \in Full : /\ box[t].id \in DOMAIN content
                     /\ box[t].recipient = content[box[t].id].to

HistoryOK(s) ==
  /\ \A i \in DOMAIN messages[s] : messages[s][i].id \in 1..uuids
  /\ \A i, j \in DOMAIN messages[s] : messages[s][i].id = messages[s][j].id => i = j
  /\ \A i \in DOMAIN messages[s] : \E w \in since[s] : ForUser(messages[s][i], w)
  /\ last_drop_ticket[s] # None => \E w \in since[s] : SentBy(last_drop_ticket[s], w)
  /\ user[s] # None => user[s] \in since[s]

\* A script that waits has a user; one that has only the ticket left to drop has
\* dropped the messages; a package it has sent is the user's and not shown yet;
\* the items it still goes through are the user's and not shown either.
BusyOK(s) ==
  busy[s] # None =>
    /\ user[s] # None
    /\ busy[s].op = "ticket" => messages[s] = <<>>
    /\ busy[s].op = "sent" =>
         /\ busy[s].n \in DOMAIN content
         /\ content[busy[s].n].kind \in {"chat", "drop"}
         /\ content[busy[s].n].sender = user[s]
         /\ content[busy[s].n].tx_id \notin Shown(s)
    /\ busy[s].op = "poll" =>
         \A n \in busy[s].todo :
           /\ n \in DOMAIN content
           /\ LowerOf[content[n].to] = LowerOf[user[s]]
           /\ content[n].tx_id \notin Shown(s)

\* The id of a notice not staged yet is nobody else's.
NoticesOK ==
  \A s \in Sessions : Doing(s, "notify") =>
    /\ busy[s].id \in 1..uuids
    /\ \A n \in DOMAIN content : content[n].tx_id # busy[s].id
    /\ \A r \in Sessions : Doing(r, "notify") /\ busy[r].id = busy[s].id => r = s

SafeInv ==
  /\ TypeOK
  /\ ContentOK /\ BoxesOK /\ NoticesOK
  /\ \A s \in Sessions : HistoryOK(s) /\ BusyOK(s)

-----------------------------------------------------------------------------
(***************************************************************************)
(* Types                                                                   *)
(***************************************************************************)

LEMMA WaitTypes ==
  ASSUME TypeOK, NEW s \in Sessions, NEW what \in Waiting \cup {None}, Wait(s, what)
  PROVE  busy' \in [Sessions -> Waiting \cup {None}]
BY DEF TypeOK, Wait

\* What a session waits for, by its op.
LEMMA WaitingFor ==
  ASSUME TypeOK, NEW s \in Sessions, busy[s] # None
  PROVE  /\ busy[s] \in Waiting
         /\ busy[s].op = "sent" => busy[s] \in [op: {"sent"}, n: Nat, to: Addresses]
         /\ busy[s].op = "poll" => busy[s] \in [op: {"poll"}, todo: SUBSET Nat]
         /\ busy[s].op \in {"pay", "receipt"} =>
              busy[s] \in [op: {"pay", "receipt"}, to: Addresses, nonce: Nat]
         /\ busy[s].op = "notify" => busy[s] \in [op: {"notify"}, to: Addresses, id: TxIds]
<1>1. busy[s] \in Waiting
  BY DEF TypeOK
<1> QED  BY <1>1 DEF Waiting

LEMMA ContentTypes ==
  ASSUME TypeOK, NEW n \in DOMAIN content
  PROVE  /\ content[n] \in Sealed
         /\ content[n].tx_id \in TxIds /\ content[n].to \in Addresses
         /\ content[n].kind \in {"chat", "transfer", "drop", "file"}
         /\ content[n].kind # "file" => content[n].sender \in Addresses
<1>1. content[n] \in Sealed
  BY DEF TypeOK
<1> QED  BY <1>1 DEF Sealed

LEMMA StageTypes ==
  ASSUME TypeOK, NEW p \in Sealed, Stage(p)
  PROVE  /\ puts' = Len(content') /\ content' \in Seq(Sealed)
BY DEF TypeOK, Stage, PutIn

LEMMA RecordTypes ==
  ASSUME TypeOK, NEW s \in Sessions, NEW id \in TxIds, NEW kind \in {"chat", "transfer"},
         NEW from \in Addresses, NEW to \in Addresses, Record(s, id, kind, from, to)
  PROVE  messages' \in [Sessions -> Seq(Message)]
<1> DEFINE m == [id |-> id, kind |-> kind, from |-> from, to |-> to]
<1>1. m \in Message
  BY DEF Message
<1>2. messages' = [messages EXCEPT ![s] = Append(@, m)]
  BY DEF Record
<1> HIDE DEF m
<1>3. Append(messages[s], m) \in Seq(Message)
  BY <1>1 DEF TypeOK
<1> QED  BY <1>2, <1>3 DEF TypeOK

LEMMA InboxKnown ==
  ASSUME SafeInv, NEW w \in Addresses
  PROVE  \A n \in Numbers(w) : /\ n \in DOMAIN content
                               /\ LowerOf[content[n].to] = LowerOf[w]
BY DEF SafeInv, BoxesOK, Numbers, Inbox, Owns, Full

LEMMA PageTypes ==
  ASSUME SafeInv, NEW s \in Sessions, Page(s)
  PROVE  TypeOK'
<1> USE ClientsAssumption
<1>1. TypeOK
  BY DEF SafeInv
<1>2. \A n \in DOMAIN content : n \in Nat
  BY <1>1 DEF TypeOK
<1>3. ASSUME NEW w \in Addresses, Login(s, w)  PROVE TypeOK'
  <2>1. busy' \in [Sessions -> Waiting \cup {None}]
    BY <1>1, <1>3, WaitTypes DEF Login, Waiting
  <2>2. since' \in [Sessions -> SUBSET Addresses]
    BY <1>1, <1>3 DEF Login, TypeOK
  <2> QED  BY <1>1, <1>3, <2>1, <2>2 DEF TypeOK, Login, boxes, chainVars
<1>4. CASE DropMessages(s)
  <2>1. busy' \in [Sessions -> Waiting \cup {None}]
    BY <1>1, <1>4, WaitTypes DEF DropMessages, Waiting
  <2>2. messages' \in [Sessions -> Seq(Message)]
    BY <1>1, <1>4 DEF TypeOK, DropMessages
  <2> QED  BY <1>1, <1>4, <2>1, <2>2 DEF TypeOK, DropMessages, boxes, chainVars
<1>5. CASE DropTicket(s)
  <2>1. busy' \in [Sessions -> Waiting \cup {None}]
    BY <1>1, <1>5, WaitTypes DEF DropTicket
  <2>2. user[s] \in Addresses
    BY <1>1, <1>5 DEF DropTicket, Doing, SafeInv, BusyOK, TypeOK
  <2>3. since' \in [Sessions -> SUBSET Addresses]
    BY <1>1, <1>5, <2>2 DEF DropTicket, TypeOK
  <2> QED  BY <1>1, <1>5, <2>1, <2>3 DEF TypeOK, DropTicket, boxes, chainVars
<1>6. CASE _logout_and_stop(s)
  BY <1>1, <1>6 DEF TypeOK, _logout_and_stop, boxes, chainVars
<1>7. CASE Abandon(s)
  BY <1>1, <1>7, WaitTypes DEF TypeOK, Abandon, boxes, chainVars
<1>8. ASSUME NEW to \in Addresses, NEW kind \in {"chat", "drop"}, Send(s, to, kind)  PROVE TypeOK'
  <2> DEFINE p == [tx_id |-> uuids + 1, to |-> to, kind |-> kind, sender |-> user[s]]
             what == [op |-> "sent", n |-> puts + 1, to |-> to]
  <2>1. user[s] \in Addresses
    BY <1>1, <1>8 DEF TypeOK, Send, Idle
  <2>2. p \in Sealed
    BY <1>8, <2>1 DEF Sealed, Send
  <2>3. puts + 1 \in Nat
    BY <1>1 DEF TypeOK
  <2>4. what \in Waiting
    BY <2>3 DEF Waiting
  <2>5. Stage(p) /\ Wait(s, what)
    BY <1>8 DEF Send
  <2> HIDE DEF p, what
  <2>6. /\ puts' = Len(content') /\ content' \in Seq(Sealed)
        /\ busy' \in [Sessions -> Waiting \cup {None}]
    BY <1>1, <2>2, <2>4, <2>5, StageTypes, WaitTypes
  <2> QED  BY <1>1, <1>8, <2>6 DEF TypeOK, Send, chainVars
<1>9. CASE SentChat(s)
  <2>1. /\ busy[s].n \in DOMAIN content /\ user[s] \in Addresses /\ busy[s].to \in Addresses
    BY <1>1, <1>9, WaitingFor DEF SentChat, Doing, SafeInv, BusyOK, TypeOK
  <2>2. content[busy[s].n].tx_id \in TxIds
    BY <1>1, <2>1, ContentTypes
  <2>3. messages' \in [Sessions -> Seq(Message)]
    BY <1>1, <1>9, <2>1, <2>2, RecordTypes DEF SentChat
  <2>4. busy' \in [Sessions -> Waiting \cup {None}]
    BY <1>1, <1>9, WaitTypes DEF SentChat
  <2> QED  BY <1>1, <1>9, <2>3, <2>4 DEF TypeOK, SentChat, boxes, chainVars
<1>10. CASE SentDrop(s)
  <2>1. busy[s].n \in DOMAIN content
    BY <1>1, <1>10 DEF SentDrop, Doing, SafeInv, BusyOK
  <2>2. content[busy[s].n].tx_id \in TxIds
    BY <1>1, <2>1, ContentTypes
  <2>3. busy' \in [Sessions -> Waiting \cup {None}]
    BY <1>1, <1>10, WaitTypes DEF SentDrop
  <2> QED  BY <1>1, <1>10, <2>2, <2>3 DEF TypeOK, SentDrop, boxes, chainVars
<1>11. ASSUME NEW end, poll_inbox(s, end)  PROVE TypeOK'
  <2> DEFINE what == [op |-> "poll", todo |-> {n \in NewItems(s) : n <= end}]
  <2>1. user[s] \in Addresses
    BY <1>1, <1>11 DEF TypeOK, poll_inbox, Idle
  <2>2. NewItems(s) \subseteq Nat
    BY <1>2, <2>1, InboxKnown DEF NewItems
  <2>4. what \in Waiting
    BY <2>2 DEF Waiting
  <2>5. Wait(s, what)
    BY <1>11 DEF poll_inbox
  <2> HIDE DEF what
  <2>6. busy' \in [Sessions -> Waiting \cup {None}]
    BY <1>1, <2>4, <2>5, WaitTypes
  <2> QED  BY <1>1, <1>11, <2>6 DEF TypeOK, poll_inbox, Hand, Discard, chainVars
<1>12. ASSUME NEW n, PollItem(s, n)  PROVE TypeOK'
  <2>1. /\ busy[s] # None /\ busy[s].op = "poll" /\ n \in busy[s].todo
        /\ n \in DOMAIN content /\ user[s] \in Addresses
    BY <1>1, <1>12 DEF PollItem, Doing, SafeInv, BusyOK, TypeOK
  <2>2. messages' \in [Sessions -> Seq(Message)]
    <3>1. CASE OpensInChat(content[n])
      <4>1. /\ content[n].tx_id \in TxIds /\ content[n].sender \in Addresses
            /\ content[n].kind \in {"chat", "transfer"}
        BY <1>1, <2>1, <3>1, ContentTypes DEF OpensInChat
      <4>2. Record(s, content[n].tx_id, content[n].kind, content[n].sender, user[s])
        BY <1>12, <3>1 DEF PollItem
      <4> QED  BY <1>1, <2>1, <4>1, <4>2, RecordTypes
    <3>2. CASE ~OpensInChat(content[n])
      BY <1>1, <1>12, <3>2 DEF PollItem, TypeOK
    <3> QED  BY <3>1, <3>2
  <2>3. busy' \in [Sessions -> Waiting \cup {None}]
    <3> DEFINE todo == busy[s].todo \ {n}
               what == IF busy[s].todo = {n} THEN None ELSE [busy[s] EXCEPT !.todo = @ \ {n}]
    <3>1. busy[s] \in [op: {"poll"}, todo: SUBSET Nat]
      BY <1>1, <2>1, WaitingFor
    <3>2. todo \in SUBSET Nat
      BY <3>1
    <3>3. [busy[s] EXCEPT !.todo = todo] \in Waiting
      BY <3>1, <3>2 DEF Waiting
    <3>4. what \in Waiting \cup {None} /\ Wait(s, what)
      BY <1>12, <3>3 DEF PollItem, Loop
    <3> HIDE DEF what
    <3> QED  BY <1>1, <3>4, WaitTypes
  <2> QED  BY <1>1, <1>12, <2>2, <2>3 DEF TypeOK, PollItem, boxes, chainVars
<1>13. ASSUME NEW t \in TxIds, NEW burn, Claim(s, t, burn)  PROVE TypeOK'
  BY <1>1, <1>13 DEF TypeOK, Claim, Hand, Discard, sessionVars, chainVars
<1>14. ASSUME NEW to \in Addresses, Pay(s, to)  PROVE TypeOK'
  <2> DEFINE what == [op |-> "pay", to |-> to, nonce |-> mined[user[s]]]
  <2>1. mined[user[s]] \in Nat
    BY <1>1, <1>14 DEF TypeOK, Pay, Idle
  <2>2. what \in Waiting /\ Wait(s, what)
    BY <1>14, <2>1 DEF Waiting, Pay
  <2> HIDE DEF what
  <2>3. busy' \in [Sessions -> Waiting \cup {None}]
    BY <1>1, <2>2, WaitTypes
  <2> QED  BY <1>1, <1>14, <2>3 DEF TypeOK, Pay, boxes, chainVars
<1>15. CASE SendTransaction(s)
  <2> DEFINE what == [busy[s] EXCEPT !.op = "receipt"]
  <2>1. busy[s] \in [op: {"pay", "receipt"}, to: Addresses, nonce: Nat] /\ user[s] \in Addresses
    BY <1>1, <1>15, WaitingFor DEF SendTransaction, Doing, SafeInv, BusyOK, TypeOK
  <2>2. what \in Waiting /\ Wait(s, what)
    BY <1>15, <2>1 DEF Waiting, SendTransaction
  <2> HIDE DEF what
  <2>3. busy' \in [Sessions -> Waiting \cup {None}]
    BY <1>1, <2>2, WaitTypes
  <2> QED  BY <1>1, <1>15, <2>1, <2>3 DEF TypeOK, SendTransaction, boxes
<1>16. CASE Receipt(s)
  <2> DEFINE what == [op |-> "notify", to |-> busy[s].to, id |-> uuids + 1]
  <2>1. busy[s].to \in Addresses /\ user[s] \in Addresses /\ uuids + 1 \in TxIds
    BY <1>1, <1>16, WaitingFor DEF Receipt, Doing, SafeInv, BusyOK, TypeOK
  <2>2. what \in Waiting /\ Wait(s, what)
    BY <1>16, <2>1 DEF Waiting, Receipt
  <2> HIDE DEF what
  <2>3. busy' \in [Sessions -> Waiting \cup {None}]
    BY <1>1, <2>2, WaitTypes
  <2>4. messages' \in [Sessions -> Seq(Message)]
    BY <1>1, <1>16, <2>1, RecordTypes DEF Receipt
  <2> QED  BY <1>1, <1>16, <2>3, <2>4 DEF TypeOK, Receipt, boxes, chainVars
<1>17. CASE notify_transfer(s)
  <2> DEFINE p == [tx_id |-> busy[s].id, to |-> busy[s].to, kind |-> "transfer", sender |-> user[s]]
  <2>1. busy[s].to \in Addresses /\ user[s] \in Addresses /\ busy[s].id \in TxIds
    BY <1>1, <1>17, WaitingFor DEF notify_transfer, Doing, SafeInv, BusyOK, TypeOK
  <2>2. p \in Sealed
    BY <2>1 DEF Sealed
  <2>3. Stage(p) \/ UNCHANGED <<boxes, content>>
    BY <1>17 DEF notify_transfer
  <2> HIDE DEF p
  <2>4. puts' = Len(content') /\ content' \in Seq(Sealed)
    BY <1>1, <2>2, <2>3, StageTypes DEF boxes, TypeOK
  <2>5. busy' \in [Sessions -> Waiting \cup {None}]
    BY <1>1, <1>17, WaitTypes DEF notify_transfer
  <2> QED  BY <1>1, <1>17, <2>4, <2>5 DEF TypeOK, notify_transfer, chainVars
<1> QED
  BY <1>3, <1>4, <1>5, <1>6, <1>7, <1>8, <1>9, <1>10, <1>11, <1>12, <1>13, <1>14, <1>15, <1>16,
     <1>17 DEF Page

LEMMA WorldTypes ==
  ASSUME SafeInv, CommandLine \/ Environment
  PROVE  TypeOK'
<1>1. TypeOK
  BY DEF SafeInv
<1>2. ASSUME NEW to \in Addresses, CliSend(to)  PROVE TypeOK'
  <2> DEFINE p == [tx_id |-> uuids + 1, to |-> to, kind |-> "file"]
  <2>1. p \in Sealed /\ Stage(p)
    BY <1>2 DEF CliSend, Sealed
  <2> HIDE DEF p
  <2>2. puts' = Len(content') /\ content' \in Seq(Sealed)
    BY <1>1, <2>1, StageTypes
  <2> QED  BY <1>1, <1>2, <2>2 DEF TypeOK, CliSend, sessionVars, chainVars
<1>3. ASSUME NEW w, NEW t, NEW burn, CliReceive(w, t, burn)  PROVE TypeOK'
  BY <1>1, <1>3 DEF TypeOK, CliReceive, Hand, Discard, sessionVars, chainVars
<1>4. CASE Expire
  BY <1>1, <1>4 DEF TypeOK, Expire, Discard, sessionVars, chainVars
<1>5. CASE NodeChanges
  BY <1>1, <1>5 DEF TypeOK, NodeChanges, boxes, sessionVars
<1>6. ASSUME NEW w \in Addresses, Mine(w)  PROVE TypeOK'
  BY <1>1, <1>6 DEF TypeOK, Mine, boxes, sessionVars
<1> QED  BY <1>2, <1>3, <1>4, <1>5, <1>6 DEF CommandLine, Environment

-----------------------------------------------------------------------------
(***************************************************************************)
(* What a session shows                                                    *)
(***************************************************************************)

\* Packages are only added, under ids that are drawn in the step or waited
\* for in a notice.
ContentGrows ==
  /\ Len(content) <= Len(content')
  /\ \A n \in DOMAIN content : n \in DOMAIN content' /\ content'[n] = content[n]
  /\ uuids <= uuids'

\* A session the step leaves alone.
Same(s) ==
  /\ user'[s] = user[s] /\ messages'[s] = messages[s]
  /\ last_drop_ticket'[s] = last_drop_ticket[s] /\ busy'[s] = busy[s]
  /\ since'[s] = since[s]

LEMMA HistoryStays ==
  ASSUME TypeOK, TypeOK', ContentGrows, NEW s \in Sessions, HistoryOK(s),
         user'[s] = user[s], messages'[s] = messages[s],
         last_drop_ticket'[s] = last_drop_ticket[s], since'[s] = since[s]
  PROVE  HistoryOK(s)'
<1>1. \A n \in 1..uuids : n \in 1..uuids'
  BY DEF ContentGrows, TypeOK
<1>2. \A n \in DOMAIN content : n \in DOMAIN content' /\ content'[n] = content[n]
  BY DEF ContentGrows
<1>3. /\ \A i \in DOMAIN messages'[s] : messages'[s][i].id \in 1..uuids'
      /\ \A i, j \in DOMAIN messages'[s] : messages'[s][i].id = messages'[s][j].id => i = j
  BY <1>1 DEF HistoryOK
<1>4. \A m, w : ForUser(m, w) => ForUser(m, w)'
  BY <1>2 DEF ForUser
<1>5. \A t, w : SentBy(t, w) => SentBy(t, w)'
  BY <1>2 DEF SentBy
<1> QED  BY <1>3, <1>4, <1>5 DEF HistoryOK

LEMMA WaitStays ==
  ASSUME TypeOK, ContentGrows, NEW s \in Sessions, BusyOK(s),
         user'[s] = user[s], messages'[s] = messages[s], busy'[s] = busy[s]
  PROVE  BusyOK(s)'
<1>1. \A n \in DOMAIN content : n \in DOMAIN content' /\ content'[n] = content[n]
  BY DEF ContentGrows
<1>2. Shown(s)' = Shown(s)
  BY DEF Shown
<1> QED  BY <1>1, <1>2 DEF BusyOK

LEMMA OthersStay ==
  ASSUME SafeInv, TypeOK', ContentGrows, NEW s \in Sessions, Same(s)
  PROVE  (HistoryOK(s) /\ BusyOK(s))'
BY HistoryStays, WaitStays DEF SafeInv, Same

\* A step of one session that stages nothing.
LEMMA QuietStep ==
  ASSUME SafeInv, TypeOK', NEW s \in Sessions,
         UNCHANGED content, uuids <= uuids', BoxesOK',
         \A r \in Sessions \ {s} : Same(r),
         Doing(s, "notify")' =>
           busy'[s].id \in uuids + 1 .. uuids' \/ (Doing(s, "notify") /\ busy'[s] = busy[s]),
         HistoryOK(s)', BusyOK(s)'
  PROVE  SafeInv'
<1>1. ContentGrows
  <2>1. Len(content) \in Nat
    BY DEF SafeInv, TypeOK
  <2> QED  BY <2>1 DEF ContentGrows
<1>2. \A r \in Sessions : (HistoryOK(r) /\ BusyOK(r))'
  BY <1>1, OthersStay
<1>3. ContentOK'
  BY DEF SafeInv, ContentOK, TypeOK
<1>4. NoticesOK'
  <2>1. \A r \in Sessions : Doing(r, "notify")' =>
           busy'[r].id \in uuids + 1 .. uuids' \/ (Doing(r, "notify") /\ busy'[r] = busy[r])
    BY DEF Same, Doing
  <2>2. \A r \in Sessions : Doing(r, "notify") => busy[r].id \in 1..uuids
    BY DEF SafeInv, NoticesOK
  <2>3. \A n \in DOMAIN content : content[n].tx_id \in 1..uuids
    BY DEF SafeInv, ContentOK
  <2>4. uuids \in Nat /\ uuids' \in Nat
    BY DEF SafeInv, TypeOK
  <2>5. ASSUME NEW q \in Sessions, Doing(q, "notify")'
        PROVE  /\ busy'[q].id \in 1..uuids'
               /\ \A n \in DOMAIN content : content[n].tx_id # busy'[q].id
    <3>1. CASE busy'[q].id \in uuids + 1 .. uuids'
      BY <2>3, <2>4, <3>1
    <3>2. CASE Doing(q, "notify") /\ busy'[q] = busy[q]
      BY <2>2, <2>4, <3>2 DEF SafeInv, NoticesOK
    <3> QED  BY <2>1, <2>5, <3>1, <3>2
  <2>6. ASSUME NEW q \in Sessions, Doing(q, "notify")',
               NEW r \in Sessions, Doing(r, "notify")', busy'[r].id = busy'[q].id
        PROVE  r = q
    <3>1. CASE q # s /\ r # s
      BY <2>6, <3>1 DEF SafeInv, NoticesOK, Same, Doing
    <3>2. CASE q = s /\ r # s
      <4>1. Doing(r, "notify") /\ busy'[r] = busy[r]
        BY <2>6, <3>2 DEF Same, Doing
      <4>2. busy[r].id \in 1..uuids
        BY <2>2, <4>1
      <4>3. Doing(s, "notify") /\ busy'[s] = busy[s]
        BY <2>1, <2>4, <2>6, <3>2, <4>1, <4>2
      <4> QED  BY <2>6, <3>2, <4>1, <4>3 DEF SafeInv, NoticesOK
    <3>3. CASE q # s /\ r = s
      <4>1. Doing(q, "notify") /\ busy'[q] = busy[q]
        BY <2>6, <3>3 DEF Same, Doing
      <4>2. busy[q].id \in 1..uuids
        BY <2>2, <4>1
      <4>3. Doing(s, "notify") /\ busy'[s] = busy[s]
        BY <2>1, <2>4, <2>6, <3>3, <4>1, <4>2
      <4> QED  BY <2>6, <3>3, <4>1, <4>3 DEF SafeInv, NoticesOK
    <3> QED  BY <3>1, <3>2, <3>3
  <2> QED  BY <2>5, <2>6, Zenon DEF NoticesOK
<1> QED  BY <1>2, <1>3, <1>4 DEF SafeInv

LEMMA WaitEffect ==
  ASSUME TypeOK, NEW s \in Sessions, NEW what, Wait(s, what)
  PROVE  busy'[s] = what /\ \A r \in Sessions \ {s} : busy'[r] = busy[r]
BY DEF TypeOK, Wait

LEMMA RecordEffect ==
  ASSUME TypeOK, NEW s \in Sessions, NEW id, NEW kind, NEW from, NEW to,
         Record(s, id, kind, from, to)
  PROVE  /\ messages'[s] = Append(messages[s], [id |-> id, kind |-> kind, from |-> from, to |-> to])
         /\ \A r \in Sessions \ {s} : messages'[r] = messages[r]
BY DEF TypeOK, Record

LEMMA BoxesStay ==
  ASSUME SafeInv, UNCHANGED content, UNCHANGED boxes \/ \E S : Discard(S)
  PROVE  BoxesOK'
<1>1. CASE UNCHANGED boxes
  BY <1>1 DEF SafeInv, BoxesOK, boxes, Full
<1>2. ASSUME NEW S, Discard(S)  PROVE BoxesOK'
  <2>1. \A t \in TxIds : box'[t] = IF t \in S THEN None ELSE box[t]
    BY <1>2 DEF Discard
  <2>2. box' = [t \in TxIds |-> box'[t]]
    BY <1>2 DEF Discard
  <2> QED  BY <2>1, <2>2 DEF SafeInv, BoxesOK, Full
<1> QED  BY <1>1, <1>2

\* One more message is shown.
LEMMA HistoryRecorded ==
  ASSUME SafeInv, NEW s \in Sessions, NEW m, UNCHANGED content, uuids <= uuids', uuids' \in Nat,
         user'[s] = user[s], user[s] # None,
         last_drop_ticket'[s] = last_drop_ticket[s], since'[s] = since[s],
         messages'[s] = Append(messages[s], m),
         m.id \in 1..uuids', m.id \notin Shown(s), ForUser(m, user[s])
  PROVE  HistoryOK(s)'
<1> DEFINE old == messages[s]
<1>1. HistoryOK(s) /\ uuids \in Nat /\ old \in Seq(Message)
  BY DEF SafeInv, TypeOK
<1>2. \A i \in DOMAIN old : old[i].id \in 1..uuids /\ old[i].id # m.id
  BY <1>1 DEF HistoryOK, Shown
<1>3. \A i, j \in DOMAIN old : old[i].id = old[j].id => i = j
  BY <1>1 DEF HistoryOK
<1>4. /\ \A i \in DOMAIN old : \E w \in since[s] : ForUser(old[i], w)
      /\ last_drop_ticket[s] # None => \E w \in since[s] : SentBy(last_drop_ticket[s], w)
      /\ user[s] \in since[s]
  BY <1>1 DEF HistoryOK
<1>5. /\ \A x, w : ForUser(x, w)' <=> ForUser(x, w)
      /\ \A t, w : SentBy(t, w)' <=> SentBy(t, w)
  BY DEF ForUser, SentBy
<1>6. messages'[s] = Append(old, m)
  OBVIOUS
<1> HIDE DEF old
<1> DEFINE new == Append(old, m)
<1>7. /\ DOMAIN new = 1..Len(old) + 1 /\ DOMAIN old = 1..Len(old) /\ Len(old) \in Nat
      /\ \A i \in DOMAIN old : new[i] = old[i]
      /\ new[Len(old) + 1] = m
  BY <1>1
<1> HIDE DEF new
<1>8. \A i \in DOMAIN new : i \in DOMAIN old \/ i = Len(old) + 1
  BY <1>7
<1>9. \A i \in DOMAIN new : new[i].id \in 1..uuids'
  BY <1>1, <1>2, <1>7, <1>8
<1>10. \A i, j \in DOMAIN new : new[i].id = new[j].id => i = j
  BY <1>2, <1>3, <1>7, <1>8
<1>11. \A i \in DOMAIN new : \E w \in since[s] : ForUser(new[i], w)
  BY <1>4, <1>7, <1>8
<1>12. messages'[s] = new
  BY <1>6 DEF new
<1> QED  BY <1>4, <1>5, <1>9, <1>10, <1>11, <1>12 DEF HistoryOK

-----------------------------------------------------------------------------
(***************************************************************************)
(* The steps of a session that stage nothing                               *)
(***************************************************************************)

\* The script ends, or waits for something that says nothing of packages.
LEMMA WaitsForNothing ==
  ASSUME SafeInv, NEW s \in Sessions, NEW what \in Waiting \cup {None}, Wait(s, what),
         what # None => what.op \in {"pay", "receipt", "messages"} /\ user'[s] # None
  PROVE  BusyOK(s)' /\ ~Doing(s, "notify")' /\ \A r \in Sessions \ {s} : busy'[r] = busy[r]
<1>1. TypeOK
  BY DEF SafeInv
<1>2. busy'[s] = what /\ \A r \in Sessions \ {s} : busy'[r] = busy[r]
  BY <1>1, WaitEffect
<1> QED  BY <1>2 DEF BusyOK, Doing

LEMMA LogsIn ==
  ASSUME SafeInv, TypeOK', NEW s \in Sessions, NEW w \in Addresses, Login(s, w)
  PROVE  SafeInv'
<1>1. TypeOK
  BY DEF SafeInv
<1>2. /\ user'[s] = w /\ messages'[s] = messages[s]
      /\ last_drop_ticket'[s] = last_drop_ticket[s] /\ since'[s] = since[s] \cup {w}
      /\ busy'[s] = [op |-> "messages"] /\ UNCHANGED <<content, uuids>>
      /\ \A r \in Sessions \ {s} : Same(r)
  BY <1>1, WaitEffect DEF Login, TypeOK, Same
<1>3. BoxesOK'
  BY <1>2, BoxesStay DEF Login
<1>4. HistoryOK(s)'
  <2>1. HistoryOK(s)
    BY DEF SafeInv
  <2> QED  BY <1>2, <2>1 DEF HistoryOK, ForUser, SentBy
<1>5. BusyOK(s)' /\ ~Doing(s, "notify")'
  BY <1>2, WaitingAssumption DEF BusyOK, Doing
<1> QED  BY <1>1, <1>2, <1>3, <1>4, <1>5, QuietStep DEF TypeOK

LEMMA DropsMessages ==
  ASSUME SafeInv, TypeOK', NEW s \in Sessions, DropMessages(s)
  PROVE  SafeInv'
<1>1. TypeOK /\ HistoryOK(s) /\ user[s] # None
  BY DEF SafeInv, BusyOK, DropMessages, Doing
<1>2. /\ user'[s] = user[s] /\ messages'[s] = <<>>
      /\ last_drop_ticket'[s] = last_drop_ticket[s] /\ since'[s] = since[s]
      /\ busy'[s] = [op |-> "ticket"] /\ UNCHANGED <<content, uuids>>
      /\ \A r \in Sessions \ {s} : Same(r)
  BY <1>1, WaitEffect DEF DropMessages, TypeOK, Same
<1>3. BoxesOK'
  BY <1>2, BoxesStay DEF DropMessages
<1>4. HistoryOK(s)'
  BY <1>1, <1>2 DEF HistoryOK, SentBy
<1>5. BusyOK(s)' /\ ~Doing(s, "notify")'
  BY <1>1, <1>2 DEF BusyOK, Doing
<1> QED  BY <1>1, <1>2, <1>3, <1>4, <1>5, QuietStep DEF TypeOK

\* The login runs to its end: nothing is left of who was there before.
LEMMA DropsTicket ==
  ASSUME SafeInv, TypeOK', NEW s \in Sessions, DropTicket(s)
  PROVE  SafeInv'
<1>1. TypeOK /\ user[s] # None /\ messages[s] = <<>>
  BY DEF SafeInv, BusyOK, DropTicket, Doing
<1>2. /\ user'[s] = user[s] /\ messages'[s] = <<>>
      /\ last_drop_ticket'[s] = None /\ since'[s] = {user[s]}
      /\ busy'[s] = None /\ UNCHANGED <<content, uuids>>
      /\ \A r \in Sessions \ {s} : Same(r)
  BY <1>1, WaitEffect DEF DropTicket, TypeOK, Same
<1>3. BoxesOK'
  BY <1>2, BoxesStay DEF DropTicket
<1>4. HistoryOK(s)' /\ BusyOK(s)' /\ ~Doing(s, "notify")'
  BY <1>2 DEF HistoryOK, BusyOK, Doing
<1> QED  BY <1>1, <1>2, <1>3, <1>4, QuietStep DEF TypeOK

LEMMA LogsOut ==
  ASSUME SafeInv, TypeOK', NEW s \in Sessions, _logout_and_stop(s)
  PROVE  SafeInv'
<1>1. TypeOK /\ HistoryOK(s)
  BY DEF SafeInv
<1>2. /\ user'[s] = None /\ messages'[s] = messages[s]
      /\ last_drop_ticket'[s] = last_drop_ticket[s] /\ since'[s] = since[s]
      /\ busy'[s] = None /\ UNCHANGED <<content, uuids>>
      /\ \A r \in Sessions \ {s} : Same(r)
  BY <1>1 DEF _logout_and_stop, Idle, TypeOK, Same
<1>3. BoxesOK'
  BY <1>2, BoxesStay DEF _logout_and_stop
<1>4. HistoryOK(s)' /\ BusyOK(s)' /\ ~Doing(s, "notify")'
  BY <1>1, <1>2 DEF HistoryOK, BusyOK, Doing, ForUser, SentBy
<1> QED  BY <1>1, <1>2, <1>3, <1>4, QuietStep DEF TypeOK

\* The history stays; the script ends or waits for what is no package.
LEMMA JustWaits ==
  ASSUME SafeInv, TypeOK', NEW s \in Sessions, NEW what \in Waiting \cup {None}, Wait(s, what),
         what # None => what.op \in {"pay", "receipt"} /\ user[s] # None,
         UNCHANGED <<user, messages, last_drop_ticket, since, content, uuids>>,
         UNCHANGED boxes \/ \E S : Discard(S)
  PROVE  SafeInv'
<1>1. TypeOK /\ HistoryOK(s) /\ uuids \in Nat
  BY DEF SafeInv, TypeOK
<1>2. BusyOK(s)' /\ ~Doing(s, "notify")' /\ \A r \in Sessions \ {s} : Same(r)
  BY WaitsForNothing DEF Same
<1>3. BoxesOK'
  BY BoxesStay
<1>4. HistoryOK(s)'
  <2>1. ContentGrows
    <3>1. Len(content) \in Nat
      BY <1>1 DEF TypeOK
    <3> QED  BY <1>1, <3>1 DEF ContentGrows
  <2> QED  BY <1>1, <2>1, HistoryStays
<1> QED  BY <1>1, <1>2, <1>3, <1>4, QuietStep

LEMMA OtherWaits ==
  ASSUME SafeInv, TypeOK', NEW s \in Sessions,
         Abandon(s) \/ SendTransaction(s) \/ (\E to \in Addresses : Pay(s, to))
  PROVE  SafeInv'
<1>1. TypeOK /\ TypeOK'
  BY DEF SafeInv
<1>2. busy'[s] \in Waiting \cup {None}
  BY <1>1 DEF TypeOK
<1>3. ASSUME NEW what, Wait(s, what),
             what # None => what.op \in {"pay", "receipt"} /\ user[s] # None,
             UNCHANGED <<user, messages, last_drop_ticket, since, content, uuids>>,
             UNCHANGED boxes \/ \E S : Discard(S)
      PROVE  SafeInv'
  <2>1. what \in Waiting \cup {None}
    BY <1>1, <1>2, <1>3, WaitEffect
  <2> QED  BY <1>3, <2>1, JustWaits
<1>4. CASE Abandon(s)
  BY <1>3, <1>4 DEF Abandon
<1>5. CASE SendTransaction(s)
  <2> DEFINE what == [busy[s] EXCEPT !.op = "receipt"]
  <2>1. busy[s] \in [op: {"pay", "receipt"}, to: Addresses, nonce: Nat] /\ user[s] # None
    BY <1>1, <1>5, WaitingFor DEF SendTransaction, Doing, SafeInv, BusyOK
  <2>2. what.op = "receipt" /\ Wait(s, what)
    BY <1>5, <2>1 DEF SendTransaction
  <2> HIDE DEF what
  <2> QED  BY <1>3, <1>5, <2>1, <2>2 DEF SendTransaction
<1>6. ASSUME NEW to \in Addresses, Pay(s, to)  PROVE SafeInv'
  <2> DEFINE what == [op |-> "pay", to |-> to, nonce |-> mined[user[s]]]
  <2>1. what.op = "pay" /\ Wait(s, what) /\ user[s] # None
    BY <1>6 DEF Pay, Idle
  <2> HIDE DEF what
  <2> QED  BY <1>3, <1>6, <2>1 DEF Pay
<1> QED  BY <1>4, <1>5, <1>6

LEMMA ChatIsSent ==
  ASSUME SafeInv, TypeOK', NEW s \in Sessions, SentChat(s)
  PROVE  SafeInv'
<1> DEFINE p == content[busy[s].n]
           m == [id |-> p.tx_id, kind |-> "chat", from |-> user[s], to |-> busy[s].to]
<1>1. TypeOK /\ uuids \in Nat /\ uuids' = uuids /\ UNCHANGED <<content, boxes>>
  BY DEF SafeInv, TypeOK, SentChat
<1>2. busy[s].n \in DOMAIN content /\ p.tx_id \notin Shown(s) /\ user[s] # None
  BY DEF SafeInv, BusyOK, SentChat, Doing
<1>3. p.tx_id \in 1..uuids
  BY <1>2 DEF SafeInv, ContentOK
<1>4. m.id = p.tx_id /\ m.from = user[s]
  OBVIOUS
<1>5. /\ messages'[s] = Append(messages[s], m)
      /\ \A r \in Sessions \ {s} : messages'[r] = messages[r]
  BY <1>1, RecordEffect DEF SentChat
<1> HIDE DEF p, m
<1>6. HistoryOK(s)'
  BY <1>1, <1>2, <1>3, <1>4, <1>5, HistoryRecorded DEF SentChat, ForUser
<1>7. BusyOK(s)' /\ ~Doing(s, "notify")' /\ \A r \in Sessions \ {s} : Same(r)
  BY <1>5, WaitsForNothing DEF SentChat, Same
<1>8. BoxesOK'
  BY <1>1, BoxesStay
<1> QED  BY <1>1, <1>6, <1>7, <1>8, QuietStep

LEMMA DropIsSent ==
  ASSUME SafeInv, TypeOK', NEW s \in Sessions, SentDrop(s)
  PROVE  SafeInv'
<1>1. TypeOK /\ HistoryOK(s) /\ uuids \in Nat /\ uuids' = uuids /\ UNCHANGED <<content, boxes>>
  BY DEF SafeInv, TypeOK, SentDrop
<1>2. /\ busy[s].n \in DOMAIN content /\ content[busy[s].n].sender = user[s]
      /\ content[busy[s].n].kind = "drop" /\ user[s] \in since[s]
  BY <1>1 DEF SafeInv, BusyOK, SentDrop, Doing, HistoryOK
<1>3. /\ last_drop_ticket'[s] = content[busy[s].n].tx_id
      /\ user'[s] = user[s] /\ messages'[s] = messages[s] /\ since'[s] = since[s]
      /\ \A r \in Sessions \ {s} : last_drop_ticket'[r] = last_drop_ticket[r]
  BY <1>1 DEF SentDrop, TypeOK
<1>4. SentBy(last_drop_ticket[s], user[s])'
  BY <1>1, <1>2, <1>3 DEF SentBy
<1>5. \A m, w : ForUser(m, w)' <=> ForUser(m, w)
  BY <1>1 DEF ForUser
<1>6. HistoryOK(s)'
  BY <1>1, <1>2, <1>3, <1>4, <1>5 DEF HistoryOK
<1>7. BusyOK(s)' /\ ~Doing(s, "notify")' /\ \A r \in Sessions \ {s} : Same(r)
  BY <1>3, WaitsForNothing DEF SentDrop, Same
<1>8. BoxesOK'
  BY <1>1, BoxesStay
<1> QED  BY <1>1, <1>6, <1>7, <1>8, QuietStep

LEMMA Polls ==
  ASSUME SafeInv, TypeOK', NEW s \in Sessions, NEW end, poll_inbox(s, end)
  PROVE  SafeInv'
<1> DEFINE what == [op |-> "poll", todo |-> {n \in NewItems(s) : n <= end}]
<1>1. /\ TypeOK /\ HistoryOK(s) /\ uuids \in Nat /\ user[s] \in Addresses /\ user[s] # None
      /\ UNCHANGED <<user, messages, last_drop_ticket, since, content, uuids>>
  BY DEF SafeInv, TypeOK, poll_inbox, Idle
<1>2. Wait(s, what) /\ what.op = "poll"
  BY DEF poll_inbox
<1>3. \A n \in what.todo : /\ n \in DOMAIN content /\ LowerOf[content[n].to] = LowerOf[user[s]]
                          /\ content[n].tx_id \notin Shown(s)
  BY <1>1, InboxKnown DEF NewItems
<1> HIDE DEF what
<1>4. busy'[s] = what /\ \A r \in Sessions \ {s} : Same(r)
  BY <1>1, <1>2, WaitEffect DEF Same
<1>5. Shown(s)' = Shown(s)
  BY <1>1 DEF Shown
<1>6. BusyOK(s)' /\ ~Doing(s, "notify")'
  BY <1>1, <1>2, <1>3, <1>4, <1>5 DEF BusyOK, Doing
<1>7. HistoryOK(s)'
  <2>1. Len(content) \in Nat
    BY <1>1 DEF TypeOK
  <2>2. ContentGrows
    BY <1>1, <2>1 DEF ContentGrows
  <2> QED  BY <1>1, <2>2, HistoryStays
<1>8. BoxesOK'
  BY <1>1, BoxesStay DEF poll_inbox, Hand
<1> QED  BY <1>1, <1>4, <1>6, <1>7, <1>8, QuietStep

LEMMA PollsItem ==
  ASSUME SafeInv, TypeOK', NEW s \in Sessions, NEW n, PollItem(s, n)
  PROVE  SafeInv'
<1> DEFINE p == content[n]
           m == [id |-> p.tx_id, kind |-> p.kind, from |-> p.sender, to |-> user[s]]
           todo == busy[s].todo \ {n}
           what == IF busy[s].todo = {n} THEN None ELSE [busy[s] EXCEPT !.todo = @ \ {n}]
<1>1. /\ TypeOK /\ HistoryOK(s) /\ uuids \in Nat
      /\ UNCHANGED <<user, last_drop_ticket, since, content, uuids, boxes>>
  BY DEF SafeInv, TypeOK, PollItem
<1>2. /\ busy[s] # None /\ busy[s].op = "poll" /\ n \in busy[s].todo /\ user[s] # None
      /\ \A k \in busy[s].todo :
           /\ k \in DOMAIN content
           /\ LowerOf[content[k].to] = LowerOf[user[s]]
           /\ content[k].tx_id \notin Shown(s)
  BY DEF SafeInv, BusyOK, PollItem, Doing
<1>3. busy[s] \in [op: {"poll"}, todo: SUBSET Nat]
  BY <1>1, <1>2, WaitingFor
<1>4. /\ Wait(s, what)
      /\ what # None => what.op = "poll" /\ what.todo = todo
  BY <1>3 DEF PollItem, Loop
<1>5. p.tx_id \in 1..uuids
  BY <1>2 DEF SafeInv, ContentOK
<1>6. m.id = p.tx_id /\ ForUser(m, user[s])
  BY <1>2 DEF ForUser
<1>7. \A k \in todo : k \in busy[s].todo /\ content[k].tx_id # p.tx_id
  BY <1>2 DEF SafeInv, ContentOK
<1> HIDE DEF what, p, m, todo
<1>8. busy'[s] = what /\ \A r \in Sessions \ {s} : busy'[r] = busy[r]
  BY <1>1, <1>4, WaitEffect
<1>9. \/ Record(s, p.tx_id, p.kind, p.sender, user[s])
      \/ UNCHANGED messages
  BY DEF PollItem, p
<1>10. CASE UNCHANGED messages
  <2>1. Shown(s)' = Shown(s)
    BY <1>10 DEF Shown
  <2>2. HistoryOK(s)'
    <3>1. Len(content) \in Nat
      BY <1>1 DEF TypeOK
    <3>2. ContentGrows
      BY <1>1, <3>1 DEF ContentGrows
    <3> QED  BY <1>1, <1>10, <3>2, HistoryStays
  <2>3. BusyOK(s)' /\ ~Doing(s, "notify")'
    BY <1>1, <1>2, <1>4, <1>7, <1>8, <2>1 DEF BusyOK, Doing
  <2>4. \A r \in Sessions \ {s} : Same(r)
    BY <1>1, <1>8, <1>10 DEF Same
  <2> QED  BY <1>1, <2>2, <2>3, <2>4, BoxesStay, QuietStep
<1>11. CASE Record(s, p.tx_id, p.kind, p.sender, user[s])
  <2>1. p.tx_id \notin Shown(s)
    BY <1>2 DEF p
  <2>2. /\ messages'[s] = Append(messages[s], m)
        /\ \A r \in Sessions \ {s} : messages'[r] = messages[r]
    BY <1>1, <1>11, RecordEffect DEF m
  <2>3. HistoryOK(s)'
    BY <1>1, <1>2, <1>5, <1>6, <2>1, <2>2, HistoryRecorded
  <2>4. \A x \in Shown(s)' : x \in Shown(s) \/ x = p.tx_id
    <3>1. messages[s] \in Seq(Message)
      BY <1>1 DEF TypeOK
    <3> QED  BY <1>6, <2>2, <3>1 DEF Shown
  <2>5. BusyOK(s)' /\ ~Doing(s, "notify")'
    BY <1>1, <1>2, <1>4, <1>7, <1>8, <2>4 DEF BusyOK, Doing
  <2>6. \A r \in Sessions \ {s} : Same(r)
    BY <1>1, <1>8, <2>2 DEF Same
  <2> QED  BY <1>1, <2>3, <2>5, <2>6, BoxesStay, QuietStep
<1> QED  BY <1>9, <1>10, <1>11

LEMMA ReceiptComes ==
  ASSUME SafeInv, TypeOK', NEW s \in Sessions, Receipt(s)
  PROVE  SafeInv'
<1> DEFINE id == uuids + 1
           m == [id |-> id, kind |-> "transfer", from |-> user[s], to |-> busy[s].to]
           what == [op |-> "notify", to |-> busy[s].to, id |-> id]
<1>1. /\ TypeOK /\ HistoryOK(s) /\ uuids \in Nat /\ uuids' = uuids + 1 /\ user[s] # None
      /\ UNCHANGED <<user, last_drop_ticket, since, content, boxes>>
  BY DEF SafeInv, TypeOK, Receipt, Doing, BusyOK
<1>2. id \in 1..uuids' /\ id \notin Shown(s) /\ id \in uuids + 1 .. uuids'
  BY <1>1 DEF HistoryOK, Shown
<1>3. Wait(s, what) /\ what.op = "notify" /\ what.id = id
  BY DEF Receipt
<1>4. /\ messages'[s] = Append(messages[s], m)
      /\ \A r \in Sessions \ {s} : messages'[r] = messages[r]
  BY <1>1, RecordEffect DEF Receipt
<1>5. m.id = id /\ m.from = user[s]
  OBVIOUS
<1> HIDE DEF id, m, what
<1>6. HistoryOK(s)'
  BY <1>1, <1>2, <1>4, <1>5, HistoryRecorded DEF ForUser
<1>7. busy'[s] = what /\ \A r \in Sessions \ {s} : Same(r)
  BY <1>1, <1>3, <1>4, WaitEffect DEF Same
<1>8. BusyOK(s)'
  BY <1>1, <1>3, <1>7 DEF BusyOK
<1>9. uuids <= uuids' /\ busy'[s].id \in uuids + 1 .. uuids' /\ \A r \in Sessions \ {s} : Same(r)
  BY <1>1, <1>2, <1>3, <1>7
<1>10. UNCHANGED content /\ BoxesOK'
  BY <1>1, BoxesStay
<1> QED  BY <1>6, <1>8, <1>9, <1>10, QuietStep

-----------------------------------------------------------------------------
(***************************************************************************)
(* The steps that stage a package                                          *)
(***************************************************************************)

LEMMA StagingKeeps ==
  ASSUME SafeInv, TypeOK', NEW p, Stage(p), p.tx_id \in TxIds,
         uuids <= uuids', p.tx_id \in 1..uuids',
         \A n \in DOMAIN content : content[n].tx_id # p.tx_id
  PROVE  /\ content' = Append(content, p) /\ DOMAIN content' = 1..puts + 1
         /\ DOMAIN content = 1..puts /\ puts \in Nat /\ content'[puts + 1] = p
         /\ ContentGrows /\ ContentOK' /\ BoxesOK'
<1>1. /\ content \in Seq(Sealed) /\ puts = Len(content) /\ puts \in Nat
      /\ uuids \in Nat /\ uuids' \in Nat
  BY DEF SafeInv, TypeOK
<1>2. /\ content' = Append(content, p) /\ puts' = puts + 1
      /\ box' = [box EXCEPT ![p.tx_id] = [id |-> puts + 1, recipient |-> p.to]]
  BY DEF Stage, PutIn
<1>3. /\ DOMAIN content = 1..puts /\ DOMAIN content' = 1..puts + 1
      /\ content'[puts + 1] = p /\ \A n \in 1..puts : content'[n] = content[n]
      /\ Len(content') = puts + 1
  BY <1>1, <1>2
<1>4. ContentGrows
  BY <1>1, <1>3 DEF ContentGrows
<1>5. \A n \in DOMAIN content' : n \in DOMAIN content \/ n = puts + 1
  BY <1>1, <1>3
<1>6. ContentOK'
  <2>1. \A n \in DOMAIN content' : content'[n].tx_id \in 1..uuids'
    BY <1>1, <1>3, <1>5 DEF SafeInv, ContentOK
  <2>2. \A n, k \in DOMAIN content' : content'[n].tx_id = content'[k].tx_id => n = k
    BY <1>3, <1>5 DEF SafeInv, ContentOK
  <2> QED  BY <2>1, <2>2 DEF ContentOK
<1>7. BoxesOK'
  <2>1. box = [t \in TxIds |-> box[t]]
    BY DEF SafeInv, BoxesOK
  <2>2. box' = [t \in TxIds |-> box'[t]]
    BY <1>2, <2>1
  <2>3. ASSUME NEW t \in TxIds, box'[t] # None
        PROVE  box'[t].id \in DOMAIN content' /\ box'[t].recipient = content'[box'[t].id].to
    <3>1. CASE t = p.tx_id
      <4>1. box'[t] = [id |-> puts + 1, recipient |-> p.to]
        BY <1>2, <2>1, <3>1
      <4> QED  BY <1>1, <1>3, <4>1
    <3>2. CASE t # p.tx_id
      <4>1. box'[t] = box[t]
        BY <1>2, <2>1, <3>2
      <4>2. box[t].id \in DOMAIN content /\ box[t].recipient = content[box[t].id].to
        BY <2>3, <4>1 DEF SafeInv, BoxesOK, Full
      <4> QED  BY <1>3, <1>5, <4>1, <4>2, <1>4 DEF ContentGrows
    <3> QED  BY <3>1, <3>2
  <2> QED  BY <2>2, <2>3 DEF BoxesOK, Full
<1> QED  BY <1>1, <1>2, <1>3, <1>4, <1>6, <1>7

\* The notices others wait to stage stay theirs when no session takes one up.
LEMMA NoticesStay ==
  ASSUME SafeInv, uuids <= uuids', uuids' \in Nat, NEW p, content' = Append(content, p),
         \A r \in Sessions : Doing(r, "notify")' =>
            Doing(r, "notify") /\ busy'[r] = busy[r] /\ p.tx_id # busy[r].id
  PROVE  NoticesOK'
<1>1. content \in Seq(Sealed) /\ uuids \in Nat
  BY DEF SafeInv, TypeOK
<1>2. \A n \in DOMAIN content' : content'[n] = p \/ (n \in DOMAIN content /\ content'[n] = content[n])
  BY <1>1
<1>3. ASSUME NEW r \in Sessions, Doing(r, "notify")'
      PROVE  /\ busy'[r].id \in 1..uuids'
             /\ \A n \in DOMAIN content' : content'[n].tx_id # busy'[r].id
             /\ \A q \in Sessions : Doing(q, "notify")' /\ busy'[q].id = busy'[r].id => q = r
  <2>1. /\ Doing(r, "notify") /\ busy'[r] = busy[r] /\ p.tx_id # busy[r].id
        /\ busy[r].id \in 1..uuids
        /\ \A n \in DOMAIN content : content[n].tx_id # busy[r].id
        /\ \A q \in Sessions : Doing(q, "notify") /\ busy[q].id = busy[r].id => q = r
    BY <1>3 DEF SafeInv, NoticesOK
  <2> QED  BY <1>1, <1>2, <2>1
<1> QED  BY <1>3, Zenon DEF NoticesOK

LEMMA Sends ==
  ASSUME SafeInv, TypeOK', NEW s \in Sessions, NEW to \in Addresses,
         NEW kind \in {"chat", "drop"}, Send(s, to, kind)
  PROVE  SafeInv'
<1> DEFINE p == [tx_id |-> uuids + 1, to |-> to, kind |-> kind, sender |-> user[s]]
           what == [op |-> "sent", n |-> puts + 1, to |-> to]
<1>1. /\ TypeOK /\ HistoryOK(s) /\ uuids \in Nat /\ uuids' = uuids + 1 /\ uuids + 1 \in TxIds
      /\ UNCHANGED <<user, messages, last_drop_ticket, since>> /\ user[s] # None
  BY DEF SafeInv, TypeOK, Send, Idle
<1>2. /\ Stage(p) /\ p.tx_id = uuids + 1 /\ p.kind \in {"chat", "drop"} /\ p.sender = user[s]
      /\ Wait(s, what) /\ what.op = "sent" /\ what.n = puts + 1
  BY DEF Send
<1> HIDE DEF p, what
<1>3. \A n \in DOMAIN content : content[n].tx_id # uuids + 1
  BY <1>1 DEF SafeInv, ContentOK
<1>4. /\ content' = Append(content, p) /\ DOMAIN content' = 1..puts + 1
      /\ puts \in Nat /\ content'[puts + 1] = p
      /\ ContentGrows /\ ContentOK' /\ BoxesOK'
  BY <1>1, <1>2, <1>3, StagingKeeps
<1>5. busy'[s] = what /\ \A r \in Sessions \ {s} : Same(r)
  BY <1>1, <1>2, WaitEffect DEF Same
<1>6. Shown(s)' = Shown(s) /\ uuids + 1 \notin Shown(s)
  BY <1>1 DEF Shown, HistoryOK
<1>7. BusyOK(s)'
  <2>1. puts + 1 \in DOMAIN content'
    BY <1>4
  <2> QED  BY <1>1, <1>2, <1>4, <1>5, <1>6, <2>1 DEF BusyOK
<1>8. HistoryOK(s)'
  BY <1>1, <1>4, HistoryStays
<1>9. NoticesOK'
  <2>1. \A r \in Sessions : Doing(r, "notify")' =>
          Doing(r, "notify") /\ busy'[r] = busy[r] /\ busy[r].id \in 1..uuids
    BY <1>2, <1>5 DEF Doing, Same, SafeInv, NoticesOK
  <2> QED  BY <1>1, <1>2, <1>4, <2>1, NoticesStay
<1> QED  BY <1>4, <1>5, <1>7, <1>8, <1>9, OthersStay DEF SafeInv

LEMMA Notifies ==
  ASSUME SafeInv, TypeOK', NEW s \in Sessions, notify_transfer(s)
  PROVE  SafeInv'
<1> DEFINE p == [tx_id |-> busy[s].id, to |-> busy[s].to, kind |-> "transfer", sender |-> user[s]]
<1>1. /\ TypeOK /\ HistoryOK(s) /\ uuids \in Nat /\ uuids' = uuids
      /\ UNCHANGED <<user, messages, last_drop_ticket, since>> /\ Wait(s, None)
      /\ busy[s].id \in TxIds /\ Doing(s, "notify")
  BY WaitingFor DEF SafeInv, TypeOK, notify_transfer, Doing
<1>2. p.tx_id = busy[s].id
  OBVIOUS
<1>3. BusyOK(s)' /\ ~Doing(s, "notify")' /\ \A r \in Sessions \ {s} : Same(r)
  BY <1>1, WaitsForNothing DEF Same
<1>4. Stage(p) \/ UNCHANGED <<boxes, content>>
  BY DEF notify_transfer
<1> HIDE DEF p
<1>5. CASE Stage(p)
  <2>1. /\ busy[s].id \in 1..uuids
        /\ \A n \in DOMAIN content : content[n].tx_id # busy[s].id
        /\ \A r \in Sessions : Doing(r, "notify") /\ busy[r].id = busy[s].id => r = s
    BY <1>1 DEF SafeInv, NoticesOK
  <2>2. content' = Append(content, p) /\ ContentGrows /\ ContentOK' /\ BoxesOK'
    BY <1>1, <1>2, <1>5, <2>1, StagingKeeps
  <2>3. HistoryOK(s)'
    BY <1>1, <2>2, HistoryStays
  <2>4. \A r \in Sessions : Doing(r, "notify")' =>
          Doing(r, "notify") /\ busy'[r] = busy[r] /\ p.tx_id # busy[r].id
    BY <1>2, <1>3, <2>1 DEF Doing, Same
  <2>5. NoticesOK'
    BY <1>1, <2>2, <2>4, NoticesStay
  <2> QED  BY <1>3, <2>2, <2>3, <2>5, OthersStay DEF SafeInv
<1>6. CASE UNCHANGED <<boxes, content>>
  <2>1. Len(content) \in Nat
    BY <1>1 DEF TypeOK
  <2>2. HistoryOK(s)'
    BY <1>1, <1>6, <2>1, HistoryStays DEF ContentGrows
  <2> QED  BY <1>1, <1>3, <1>6, <2>2, BoxesStay, QuietStep
<1> QED  BY <1>4, <1>5, <1>6

\* Packages that leave are no session's affair.
LEMMA BoxesAreEmptied ==
  ASSUME SafeInv, TypeOK', UNCHANGED <<sessionVars, content, uuids>>,
         UNCHANGED boxes \/ \E S : Discard(S)
  PROVE  SafeInv'
<1>1. uuids \in Nat /\ Len(content) \in Nat
  BY DEF SafeInv, TypeOK
<1>2. ContentGrows /\ \A s \in Sessions : Same(s)
  BY <1>1 DEF ContentGrows, Same, sessionVars
<1>3. ContentOK' /\ NoticesOK' /\ BoxesOK'
  BY BoxesStay DEF SafeInv, ContentOK, NoticesOK, Doing, sessionVars
<1> QED  BY <1>2, <1>3, OthersStay DEF SafeInv

LEMMA Claims ==
  ASSUME SafeInv, TypeOK', NEW s \in Sessions, NEW t \in TxIds, NEW burn \in BOOLEAN,
         Claim(s, t, burn)
  PROVE  SafeInv'
BY BoxesAreEmptied DEF Claim, Hand

LEMMA CommandLineSafe ==
  ASSUME SafeInv, TypeOK', CommandLine \/ Environment
  PROVE  SafeInv'
<1>1. /\ TypeOK /\ uuids \in Nat /\ Len(content) \in Nat
      /\ \A s \in Sessions : HistoryOK(s) /\ BusyOK(s)
  BY DEF SafeInv, TypeOK
<1>2. ASSUME UNCHANGED <<sessionVars, content, uuids>>, UNCHANGED boxes \/ \E S : Discard(S)
      PROVE  SafeInv'
  BY <1>2, BoxesAreEmptied
<1>3. ASSUME NEW to \in Addresses, CliSend(to)  PROVE SafeInv'
  <2> DEFINE p == [tx_id |-> uuids + 1, to |-> to, kind |-> "file"]
  <2>1. Stage(p) /\ p.tx_id = uuids + 1 /\ uuids' = uuids + 1 /\ uuids + 1 \in TxIds
        /\ \A s \in Sessions : Same(s)
    BY <1>3 DEF CliSend, Same, sessionVars
  <2> HIDE DEF p
  <2>2. \A n \in DOMAIN content : content[n].tx_id # uuids + 1
    BY <1>1 DEF SafeInv, ContentOK
  <2>3. content' = Append(content, p) /\ ContentGrows /\ ContentOK' /\ BoxesOK'
    BY <1>1, <2>1, <2>2, StagingKeeps
  <2>4. \A r \in Sessions : Doing(r, "notify")' =>
          Doing(r, "notify") /\ busy'[r] = busy[r] /\ busy[r].id \in 1..uuids
    BY <2>1 DEF Doing, Same, SafeInv, NoticesOK
  <2>5. NoticesOK'
    BY <1>1, <2>1, <2>3, <2>4, NoticesStay
  <2> QED  BY <2>1, <2>3, <2>5, OthersStay DEF SafeInv
<1>4. ASSUME NEW w, NEW t, NEW burn, CliReceive(w, t, burn)  PROVE SafeInv'
  BY <1>2, <1>4 DEF CliReceive, Hand
<1>5. CASE Expire
  BY <1>2, <1>5 DEF Expire
<1>6. CASE NodeChanges
  BY <1>2, <1>6 DEF NodeChanges
<1>7. ASSUME NEW w \in Addresses, Mine(w)  PROVE SafeInv'
  BY <1>2, <1>7 DEF Mine
<1> QED  BY <1>3, <1>4, <1>5, <1>6, <1>7 DEF CommandLine, Environment

LEMMA PageSafe ==
  ASSUME SafeInv, TypeOK', NEW s \in Sessions, Page(s)
  PROVE  SafeInv'
BY LogsIn, DropsMessages, DropsTicket, LogsOut, OtherWaits, Sends, ChatIsSent, DropIsSent, Polls,
   PollsItem, Claims, ReceiptComes, Notifies DEF Page

LEMMA StutterSafe ==
  ASSUME SafeInv, UNCHANGED vars
  PROVE  SafeInv'
<1>1. TypeOK'
  BY DEF SafeInv, TypeOK, vars, boxes, sessionVars, chainVars
<1>2. ContentGrows /\ \A s \in Sessions : Same(s)
  <2>1. Len(content) \in Nat /\ uuids \in Nat
    BY DEF SafeInv, TypeOK
  <2> QED  BY <2>1 DEF ContentGrows, Same, vars, sessionVars
<1>3. ContentOK' /\ NoticesOK' /\ BoxesOK'
  BY BoxesStay DEF SafeInv, ContentOK, NoticesOK, Doing, vars, sessionVars
<1> QED  BY <1>1, <1>2, <1>3, OthersStay DEF SafeInv

LEMMA InitSafe ==
  ASSUME Init
  PROVE  SafeInv
<1>1. TypeOK
  BY ClientsAssumption DEF Init, TypeOK, BoxesInit
<1>2. ContentOK /\ BoxesOK /\ NoticesOK
  BY DEF Init, BoxesInit, ContentOK, BoxesOK, Full, NoticesOK, Doing
<1>3. \A s \in Sessions : HistoryOK(s) /\ BusyOK(s)
  BY DEF Init, HistoryOK, BusyOK
<1> QED  BY <1>1, <1>2, <1>3 DEF SafeInv

LEMMA NextSafe ==
  ASSUME SafeInv, [Next]_vars
  PROVE  SafeInv'
<1>1. ASSUME NEW s \in Sessions, Page(s)  PROVE SafeInv'
  BY <1>1, PageTypes, PageSafe
<1>2. CASE CommandLine \/ Environment
  BY <1>2, WorldTypes, CommandLineSafe
<1> QED  BY <1>1, <1>2, StutterSafe DEF Next

(* The page and the command line keep every variable in its type.          *)
THEOREM ClientsTypes == Spec => []TypeOK
<1>1. Init => SafeInv
  BY InitSafe
<1>2. SafeInv /\ [Next]_vars => SafeInv'
  BY NextSafe
<1>3. SafeInv => TypeOK
  BY DEF SafeInv
<1> QED  BY <1>1, <1>2, <1>3, PTL DEF Spec

(* A session never has two entries for one ticket, however often the inbox *)
(* is read and wherever the script is stopped (app.py:1151-1155).          *)
THEOREM NothingShownTwice == Spec => []ShownOnce
<1>1. Init => SafeInv
  BY InitSafe
<1>2. SafeInv /\ [Next]_vars => SafeInv'
  BY NextSafe
<1>3. SafeInv => ShownOnce
  BY DEF SafeInv, HistoryOK, ShownOnce
<1> QED  BY <1>1, <1>2, <1>3, PTL DEF Spec

(* What a session holds was sent by or to a wallet it was logged in as     *)
(* since a login last ran to its end, whichever logins are cut off in      *)
(* between, and wherever (app.py:831-841).                                 *)
THEOREM HistoriesArePrivate == Spec => []HistorySinceLogin
<1>1. Init => SafeInv
  BY InitSafe
<1>2. SafeInv /\ [Next]_vars => SafeInv'
  BY NextSafe
<1>3. SafeInv => HistorySinceLogin
  BY DEF SafeInv, HistoryOK, HistorySinceLogin
<1> QED  BY <1>1, <1>2, <1>3, PTL DEF Spec

-----------------------------------------------------------------------------
(***************************************************************************)
(* Transfers                                                               *)
(***************************************************************************)

NoticesOf(w) == {busy[s].id : s \in {r \in Sessions : Doing(r, "notify") /\ user[r] = w}}

StagedBy(w) ==
  {content[n].tx_id : n \in {k \in DOMAIN content :
     content[k].kind = "transfer" /\ content[k].sender = w}}

\* The ids ever drawn for a transfer of w that still are anywhere.
TransferIds(w) == TransfersShown(w) \cup StagedBy(w) \cup NoticesOf(w)

\* Sessions of w whose transaction is mined and not shown yet.
Confirmed(w) ==
  {s \in Sessions : Doing(s, "receipt") /\ user[s] = w /\ busy[s].nonce < mined[w]}

\* Of the transactions with a nonce, one is in the pool or mined.
NoncesOK ==
  \A s \in Sessions : Doing(s, "receipt") =>
    /\ busy[s].nonce <= mined[user[s]]
    /\ busy[s].nonce = mined[user[s]] =>
         /\ user[s] \in pool
         /\ \A r \in Sessions :
              Doing(r, "receipt") /\ user[r] = user[s] /\ busy[r].nonce = busy[s].nonce => r = s

CountsOK ==
  \A w \in Addresses : Cardinality(TransferIds(w)) + Cardinality(Confirmed(w)) <= mined[w]

LEMMA IdsHave ==
  /\ \A s \in Sessions : \A i \in DOMAIN messages[s] :
       messages[s][i].kind = "transfer" => messages[s][i].id \in TransferIds(messages[s][i].from)
  /\ \A n \in DOMAIN content :
       content[n].kind = "transfer" => content[n].tx_id \in TransferIds(content[n].sender)
  /\ \A s \in Sessions : Doing(s, "notify") => busy[s].id \in TransferIds(user[s])
<1>1. \A s \in Sessions : \A i \in DOMAIN messages[s] :
        messages[s][i].kind = "transfer" => messages[s][i].id \in TransfersShown(messages[s][i].from)
  BY DEF TransfersShown
<1>2. \A n \in DOMAIN content :
        content[n].kind = "transfer" => content[n].tx_id \in StagedBy(content[n].sender)
  BY DEF StagedBy
<1>3. \A s \in Sessions : Doing(s, "notify") => busy[s].id \in NoticesOf(user[s])
  BY DEF NoticesOf
<1> QED  BY <1>1, <1>2, <1>3 DEF TransferIds

\* Ids come from what is shown, staged or about to be.
LEMMA IdsAre ==
  ASSUME NEW w, NEW S,
         \A s \in Sessions : \A i \in DOMAIN messages[s] :
           messages[s][i].kind = "transfer" /\ messages[s][i].from = w => messages[s][i].id \in S,
         \A n \in DOMAIN content :
           content[n].kind = "transfer" /\ content[n].sender = w => content[n].tx_id \in S,
         \A s \in Sessions : Doing(s, "notify") /\ user[s] = w => busy[s].id \in S
  PROVE  TransferIds(w) \subseteq S
<1>1. TransfersShown(w) \subseteq S
  BY DEF TransfersShown
<1>2. StagedBy(w) \subseteq S
  BY DEF StagedBy
<1>3. NoticesOf(w) \subseteq S
  BY DEF NoticesOf
<1> QED  BY <1>1, <1>2, <1>3 DEF TransferIds

LEMMA CountsAreFinite ==
  ASSUME SafeInv, NEW w \in Addresses
  PROVE  /\ IsFiniteSet(TransferIds(w)) /\ TransferIds(w) \subseteq 1..uuids
         /\ IsFiniteSet(Confirmed(w))
         /\ Cardinality(TransferIds(w)) \in Nat /\ Cardinality(Confirmed(w)) \in Nat
         /\ mined[w] \in Nat
<1>1. TransferIds(w) \subseteq 1..uuids
  BY IdsAre DEF SafeInv, HistoryOK, ContentOK, NoticesOK
<1>2. uuids \in Nat /\ mined[w] \in Nat
  BY DEF SafeInv, TypeOK
<1>3. IsFiniteSet(1..uuids)
  BY <1>2, FS_Interval
<1>4. IsFiniteSet(TransferIds(w))
  BY <1>1, <1>3, FS_Subset
<1>5. IsFiniteSet(Confirmed(w))
  BY ClientsAssumption, FS_Subset DEF Confirmed
<1> QED  BY <1>1, <1>2, <1>4, <1>5, FS_CardinalityType

\* The same after a step.
LEMMA IdsAreNext ==
  ASSUME NEW w, NEW S,
         \A s \in Sessions : \A i \in DOMAIN messages'[s] :
           messages'[s][i].kind = "transfer" /\ messages'[s][i].from = w => messages'[s][i].id \in S,
         \A n \in DOMAIN content' :
           content'[n].kind = "transfer" /\ content'[n].sender = w => content'[n].tx_id \in S,
         \A s \in Sessions : Doing(s, "notify")' /\ user'[s] = w => busy'[s].id \in S
  PROVE  TransferIds(w)' \subseteq S
<1>1. TransfersShown(w)' \subseteq S
  BY DEF TransfersShown
<1>2. StagedBy(w)' \subseteq S
  BY DEF StagedBy
<1>3. NoticesOf(w)' \subseteq S
  BY DEF NoticesOf
<1> QED  BY <1>1, <1>2, <1>3 DEF TransferIds

\* What session r shows and is about to announce after the step was a transfer
\* before it.
IdsKnown(r) ==
  /\ \A i \in DOMAIN messages'[r] :
       messages'[r][i].kind = "transfer" => messages'[r][i].id \in TransferIds(messages'[r][i].from)
  /\ Doing(r, "notify")' => busy'[r].id \in TransferIds(user'[r])

StagedKnown ==
  \A n \in DOMAIN content' :
    content'[n].kind = "transfer" => content'[n].tx_id \in TransferIds(content'[n].sender)

\* Session r waits for a receipt only if it did.
NoReceipt(r) ==
  Doing(r, "receipt")' => Doing(r, "receipt") /\ busy'[r] = busy[r] /\ user'[r] = user[r]

LEMMA SameIsQuiet ==
  ASSUME NEW r \in Sessions, user'[r] = user[r], messages'[r] = messages[r], busy'[r] = busy[r]
  PROVE  IdsKnown(r) /\ NoReceipt(r)
BY IdsHave DEF IdsKnown, NoReceipt, Doing

\* The bound for a wallet after a step, from what the step adds.
LEMMA CountAfter ==
  ASSUME SafeInv, CountsOK, NEW w \in Addresses,
         TransferIds(w)' \subseteq TransferIds(w), Confirmed(w)' \subseteq Confirmed(w),
         mined'[w] = mined[w]
  PROVE  Cardinality(TransferIds(w)') + Cardinality(Confirmed(w)') <= mined'[w]
<1>1. /\ IsFiniteSet(TransferIds(w)) /\ IsFiniteSet(Confirmed(w))
      /\ Cardinality(TransferIds(w)) \in Nat /\ Cardinality(Confirmed(w)) \in Nat
      /\ mined[w] \in Nat
  BY CountsAreFinite
<1>2. /\ Cardinality(TransferIds(w)') <= Cardinality(TransferIds(w))
      /\ Cardinality(TransferIds(w)') \in Nat
  BY <1>1, FS_Subset, FS_CardinalityType
<1>3. /\ Cardinality(Confirmed(w)') <= Cardinality(Confirmed(w))
      /\ Cardinality(Confirmed(w)') \in Nat
  BY <1>1, FS_Subset, FS_CardinalityType
<1>4. Cardinality(TransferIds(w)) + Cardinality(Confirmed(w)) <= mined[w]
  BY DEF CountsOK
<1> QED  BY <1>1, <1>2, <1>3, <1>4

\* A step with no new transfer and no new transaction of the pages.
LEMMA QuietTransfers ==
  ASSUME SafeInv, SafeInv', NoncesOK, CountsOK, UNCHANGED <<mined, pool>>, StagedKnown,
         \A r \in Sessions : IdsKnown(r) /\ NoReceipt(r)
  PROVE  NoncesOK' /\ CountsOK'
<1>1. NoncesOK'
  BY DEF NoncesOK, NoReceipt
<1>2. ASSUME NEW w \in Addresses
      PROVE  Cardinality(TransferIds(w)') + Cardinality(Confirmed(w)') <= mined'[w]
  <2>1. TransferIds(w)' \subseteq TransferIds(w)
    BY IdsAreNext DEF IdsKnown, StagedKnown
  <2>2. Confirmed(w)' \subseteq Confirmed(w)
    BY DEF Confirmed, NoReceipt
  <2> QED  BY <2>1, <2>2, CountAfter
<1> QED  BY <1>1, <1>2 DEF CountsOK

\* A step of session s that is done with, or waits for something other than a
\* receipt or a notice.
LEMMA QuietSession ==
  ASSUME SafeInv, SafeInv', NoncesOK, CountsOK, UNCHANGED <<mined, pool>>, StagedKnown,
         NEW s \in Sessions, NEW what, Wait(s, what),
         what # None => what.op \notin {"receipt", "notify"},
         \A r \in Sessions \ {s} : user'[r] = user[r] /\ messages'[r] = messages[r],
         \A i \in DOMAIN messages'[s] :
           messages'[s][i].kind = "transfer" =>
             messages'[s][i].id \in TransferIds(messages'[s][i].from)
  PROVE  NoncesOK' /\ CountsOK'
<1>1. busy'[s] = what /\ \A r \in Sessions \ {s} : busy'[r] = busy[r]
  BY WaitEffect DEF SafeInv
<1>2. IdsKnown(s) /\ NoReceipt(s)
  BY <1>1 DEF IdsKnown, NoReceipt, Doing
<1> QED  BY <1>1, <1>2, SameIsQuiet, QuietTransfers

LEMMA QuietWaits ==
  ASSUME SafeInv, SafeInv', NoncesOK, CountsOK, UNCHANGED <<mined, pool, user, messages>>,
         StagedKnown, NEW s \in Sessions, NEW what, Wait(s, what),
         what # None => what.op \notin {"receipt", "notify"}
  PROVE  NoncesOK' /\ CountsOK'
BY IdsHave, QuietSession

LEMMA StagedStays ==
  ASSUME UNCHANGED content
  PROVE  StagedKnown
BY IdsHave DEF StagedKnown

LEMMA StagedMore ==
  ASSUME SafeInv, NEW p, Stage(p), p.kind = "transfer" => p.tx_id \in TransferIds(p.sender)
  PROVE  StagedKnown
<1>1. content \in Seq(Sealed) /\ content' = Append(content, p)
  BY DEF SafeInv, TypeOK, Stage
<1>2. \A n \in DOMAIN content' : content'[n] = p \/ (n \in DOMAIN content /\ content'[n] = content[n])
  BY <1>1
<1> QED  BY <1>2, IdsHave DEF StagedKnown

LEMMA RecordKnown ==
  ASSUME SafeInv, NEW s \in Sessions, NEW id, NEW kind, NEW from, NEW to,
         Record(s, id, kind, from, to), kind = "transfer" => id \in TransferIds(from)
  PROVE  /\ \A r \in Sessions \ {s} : messages'[r] = messages[r]
         /\ \A i \in DOMAIN messages'[s] :
              messages'[s][i].kind = "transfer" =>
                messages'[s][i].id \in TransferIds(messages'[s][i].from)
<1> DEFINE m == [id |-> id, kind |-> kind, from |-> from, to |-> to]
<1>1. /\ messages'[s] = Append(messages[s], m) /\ messages[s] \in Seq(Message)
      /\ \A r \in Sessions \ {s} : messages'[r] = messages[r]
  BY RecordEffect DEF SafeInv, TypeOK
<1>2. m.id = id /\ m.kind = kind /\ m.from = from
  OBVIOUS
<1> HIDE DEF m
<1>3. \A i \in DOMAIN messages'[s] :
        messages'[s][i] = m \/ (i \in DOMAIN messages[s] /\ messages'[s][i] = messages[s][i])
  BY <1>1
<1> QED  BY <1>1, <1>2, <1>3, IdsHave

LEMMA QuietPage ==
  ASSUME SafeInv, SafeInv', NoncesOK, CountsOK, NEW s \in Sessions, Page(s),
         ~SendTransaction(s), ~Receipt(s)
  PROVE  NoncesOK' /\ CountsOK'
<1>0. /\ user[s] = None => busy[s] = None
      /\ user \in [Sessions -> Addresses \cup {None}] /\ messages \in [Sessions -> Seq(Message)]
  BY DEF SafeInv, BusyOK, TypeOK
<1>1. ASSUME NEW w, Login(s, w)  PROVE NoncesOK' /\ CountsOK'
  <2>1. /\ UNCHANGED <<mined, pool, content, messages>> /\ busy'[s] = [op |-> "messages"]
        /\ \A r \in Sessions \ {s} : user'[r] = user[r] /\ busy'[r] = busy[r]
    BY <1>0, <1>1, WaitEffect DEF Login, chainVars, SafeInv
  <2>2. IdsKnown(s) /\ NoReceipt(s)
    BY <2>1, IdsHave DEF IdsKnown, NoReceipt, Doing
  <2> QED  BY <2>1, <2>2, SameIsQuiet, StagedStays, QuietTransfers
<1>2. CASE DropMessages(s)
  <2>1. /\ Wait(s, [op |-> "ticket"]) /\ UNCHANGED <<mined, pool, user, content>>
        /\ messages'[s] = <<>> /\ \A r \in Sessions \ {s} : messages'[r] = messages[r]
    BY <1>0, <1>2 DEF DropMessages, chainVars
  <2> QED  BY <2>1, StagedStays, QuietSession
<1>3. CASE DropTicket(s)
  BY <1>3, StagedStays, QuietWaits DEF DropTicket, chainVars
<1>4. CASE _logout_and_stop(s)
  <2>1. /\ UNCHANGED <<mined, pool, content, busy, messages>> /\ busy[s] = None
        /\ \A r \in Sessions \ {s} : user'[r] = user[r]
    BY <1>0, <1>4 DEF _logout_and_stop, Idle, chainVars
  <2>2. IdsKnown(s) /\ NoReceipt(s)
    BY <2>1, IdsHave DEF IdsKnown, NoReceipt, Doing
  <2> QED  BY <2>1, <2>2, SameIsQuiet, StagedStays, QuietTransfers
<1>5. CASE Abandon(s) \/ SentDrop(s)
  BY <1>5, StagedStays, QuietWaits DEF Abandon, SentDrop, chainVars
<1>6. ASSUME NEW to, NEW kind \in {"chat", "drop"}, Send(s, to, kind)  PROVE NoncesOK' /\ CountsOK'
  <2> DEFINE p == [tx_id |-> uuids + 1, to |-> to, kind |-> kind, sender |-> user[s]]
             what == [op |-> "sent", n |-> puts + 1, to |-> to]
  <2>1. /\ Stage(p) /\ p.kind # "transfer" /\ Wait(s, what) /\ what.op = "sent"
        /\ UNCHANGED <<mined, pool, user, messages>>
    BY <1>6 DEF Send, chainVars
  <2> HIDE DEF p, what
  <2> QED  BY <2>1, StagedMore, QuietWaits
<1>7. CASE SentChat(s)
  <2>1. /\ Wait(s, None) /\ UNCHANGED <<mined, pool, user, content>>
        /\ \E id, to : Record(s, id, "chat", user[s], to)
    BY <1>7 DEF SentChat, chainVars
  <2>2. PICK id, to : Record(s, id, "chat", user[s], to)
    BY <2>1
  <2>3. /\ \A r \in Sessions \ {s} : messages'[r] = messages[r]
        /\ \A i \in DOMAIN messages'[s] :
             messages'[s][i].kind = "transfer" =>
               messages'[s][i].id \in TransferIds(messages'[s][i].from)
    BY <2>2, RecordKnown
  <2> QED  BY <2>1, <2>3, StagedStays, QuietSession
<1>8. ASSUME NEW end, poll_inbox(s, end)  PROVE NoncesOK' /\ CountsOK'
  <2> DEFINE what == [op |-> "poll", todo |-> {n \in NewItems(s) : n <= end}]
  <2>1. Wait(s, what) /\ what.op = "poll" /\ UNCHANGED <<mined, pool, user, messages, content>>
    BY <1>8 DEF poll_inbox, chainVars
  <2> HIDE DEF what
  <2> QED  BY <2>1, StagedStays, QuietWaits
<1>9. ASSUME NEW n, PollItem(s, n)  PROVE NoncesOK' /\ CountsOK'
  <2> DEFINE todo == busy[s].todo \ {n}
             what == IF busy[s].todo = {n} THEN None ELSE [busy[s] EXCEPT !.todo = todo]
  <2>1. /\ UNCHANGED <<mined, pool, user, content>> /\ busy[s] # None /\ busy[s].op = "poll"
        /\ n \in DOMAIN content
    BY <1>9 DEF PollItem, chainVars, Doing, SafeInv, BusyOK
  <2>2. busy[s] \in [op: {"poll"}, todo: SUBSET Nat]
    BY <2>1, WaitingFor DEF SafeInv
  <2>3. Wait(s, what) /\ (what # None => what.op = "poll")
    BY <1>9, <2>2 DEF PollItem, Loop
  <2> HIDE DEF what
  <2>4. CASE UNCHANGED messages
    BY <2>1, <2>3, <2>4, StagedStays, QuietWaits
  <2>5. CASE Record(s, content[n].tx_id, content[n].kind, content[n].sender, user[s])
    <3>1. content[n].kind = "transfer" => content[n].tx_id \in TransferIds(content[n].sender)
      BY <2>1, IdsHave
    <3>2. /\ \A r \in Sessions \ {s} : messages'[r] = messages[r]
          /\ \A i \in DOMAIN messages'[s] :
               messages'[s][i].kind = "transfer" =>
                 messages'[s][i].id \in TransferIds(messages'[s][i].from)
      BY <2>5, <3>1, RecordKnown
    <3> QED  BY <2>1, <2>3, <3>2, StagedStays, QuietSession
  <2> QED  BY <1>9, <2>4, <2>5 DEF PollItem
<1>10. ASSUME NEW t, NEW burn, Claim(s, t, burn)  PROVE NoncesOK' /\ CountsOK'
  <2>1. UNCHANGED <<mined, pool, user, messages, content, busy>>
    BY <1>10 DEF Claim, chainVars, sessionVars
  <2> QED  BY <2>1, SameIsQuiet, StagedStays, QuietTransfers
<1>11. ASSUME NEW to, Pay(s, to)  PROVE NoncesOK' /\ CountsOK'
  <2> DEFINE what == [op |-> "pay", to |-> to, nonce |-> mined[user[s]]]
  <2>1. Wait(s, what) /\ what.op = "pay" /\ UNCHANGED <<mined, pool, user, messages, content>>
    BY <1>11 DEF Pay, chainVars
  <2> HIDE DEF what
  <2> QED  BY <2>1, StagedStays, QuietWaits
<1>12. CASE notify_transfer(s)
  <2> DEFINE p == [tx_id |-> busy[s].id, to |-> busy[s].to, kind |-> "transfer", sender |-> user[s]]
  <2>1. /\ Wait(s, None) /\ UNCHANGED <<mined, pool, user, messages>>
        /\ Stage(p) \/ UNCHANGED content
        /\ p.tx_id = busy[s].id /\ p.sender = user[s] /\ Doing(s, "notify")
    BY <1>12 DEF notify_transfer, chainVars
  <2> HIDE DEF p
  <2>2. p.tx_id \in TransferIds(p.sender)
    BY <2>1, IdsHave
  <2> QED  BY <2>1, <2>2, StagedMore, StagedStays, QuietWaits
<1> QED
  BY <1>1, <1>2, <1>3, <1>4, <1>5, <1>6, <1>7, <1>8, <1>9, <1>10, <1>11, <1>12
     DEF Page

LEMMA QuietWorld ==
  ASSUME SafeInv, SafeInv', NoncesOK, CountsOK,
         \/ CommandLine \/ NodeChanges \/ Expire \/ UNCHANGED vars
  PROVE  NoncesOK' /\ CountsOK'
<1>1. /\ UNCHANGED <<mined, pool, user, messages, busy>>
      /\ UNCHANGED content \/ \E to : Stage([tx_id |-> uuids + 1, to |-> to, kind |-> "file"])
  BY DEF CommandLine, CliSend, CliReceive, NodeChanges, Expire, vars, sessionVars, chainVars
<1>2. StagedKnown
  <2>1. ASSUME NEW to, Stage([tx_id |-> uuids + 1, to |-> to, kind |-> "file"])
        PROVE  StagedKnown
    <3> DEFINE p == [tx_id |-> uuids + 1, to |-> to, kind |-> "file"]
    <3>1. Stage(p) /\ p.kind # "transfer"
      BY <2>1
    <3> HIDE DEF p
    <3> QED  BY <3>1, StagedMore
  <2> QED  BY <1>1, <2>1, StagedStays
<1> QED  BY <1>1, <1>2, SameIsQuiet, QuietTransfers

LEMMA OneMore ==
  ASSUME NEW S, NEW x, IsFiniteSet(S)
  PROVE  /\ IsFiniteSet(S \cup {x}) /\ Cardinality(S \cup {x}) \in Nat
         /\ Cardinality(S \cup {x}) <= Cardinality(S) + 1
<1>1. Cardinality(S) \in Nat
  BY FS_CardinalityType
<1>2. IsFiniteSet(S \cup {x})
  BY FS_AddElement
<1>3. Cardinality(S \cup {x}) = IF x \in S THEN Cardinality(S) ELSE Cardinality(S) + 1
  BY FS_AddElement
<1> QED  BY <1>1, <1>2, <1>3

\* The node takes a transaction only under a nonce that none mined or in the
\* pool has.
LEMMA TransactionSent ==
  ASSUME SafeInv, NoncesOK, CountsOK, NEW s \in Sessions, SendTransaction(s)
  PROVE  NoncesOK' /\ CountsOK'
<1> DEFINE what == [busy[s] EXCEPT !.op = "receipt"]
<1>1. /\ UNCHANGED <<user, messages, content, mined>> /\ busy[s] # None /\ user[s] \in Addresses
      /\ busy[s] \in [op: {"pay", "receipt"}, to: Addresses, nonce: Nat]
      /\ Wait(s, what) /\ busy[s].nonce = mined[user[s]] /\ user[s] \notin pool
      /\ pool' = pool \cup {user[s]}
  BY WaitingFor DEF SafeInv, SendTransaction, Doing, BusyOK, TypeOK, Accepts
<1>2. what.op = "receipt" /\ what.nonce = busy[s].nonce
  BY <1>1
<1> HIDE DEF what
<1>3. busy'[s] = what /\ \A r \in Sessions \ {s} : busy'[r] = busy[r]
  BY <1>1, WaitEffect DEF SafeInv
<1>4. mined \in [Addresses -> Nat]
  BY DEF SafeInv, TypeOK
<1>5. ASSUME NEW q \in Sessions, Doing(q, "receipt")'
      PROVE  /\ busy'[q].nonce <= mined'[user'[q]]
             /\ busy'[q].nonce = mined'[user'[q]] =>
                  /\ user'[q] \in pool'
                  /\ \A r \in Sessions :
                       Doing(r, "receipt")' /\ user'[r] = user'[q] /\ busy'[r].nonce = busy'[q].nonce
                         => r = q
  <2>1. CASE q = s
    BY <1>1, <1>2, <1>3, <1>4, <2>1 DEF NoncesOK, Doing
  <2>2. CASE q # s
    BY <1>1, <1>2, <1>3, <1>5, <2>2 DEF NoncesOK, Doing
  <2> QED  BY <2>1, <2>2
<1>6. NoncesOK'
  BY <1>5 DEF NoncesOK
<1>7. ASSUME NEW w \in Addresses
      PROVE  Cardinality(TransferIds(w)') + Cardinality(Confirmed(w)') <= mined'[w]
  <2>1. \A r \in Sessions : IdsKnown(r)
    BY <1>1, <1>2, <1>3, IdsHave DEF IdsKnown, Doing
  <2>2. TransferIds(w)' \subseteq TransferIds(w)
    BY <1>1, <2>1, StagedStays, IdsAreNext DEF IdsKnown, StagedKnown
  <2>3. Confirmed(w)' \subseteq Confirmed(w)
    BY <1>1, <1>2, <1>3, <1>4 DEF Confirmed, Doing
  <2> QED  BY <1>1, <2>2, <2>3, CountAfter
<1> QED  BY <1>6, <1>7 DEF CountsOK

\* A mined transaction turns into a transfer shown.
LEMMA TransferShown ==
  ASSUME SafeInv, NoncesOK, CountsOK, NEW s \in Sessions, Receipt(s)
  PROVE  NoncesOK' /\ CountsOK'
<1> DEFINE id == uuids + 1
           what == [op |-> "notify", to |-> busy[s].to, id |-> id]
           m == [id |-> id, kind |-> "transfer", from |-> user[s], to |-> busy[s].to]
<1>1. /\ UNCHANGED <<user, content, mined, pool>> /\ user[s] \in Addresses
      /\ Doing(s, "receipt") /\ mined[user[s]] > busy[s].nonce
      /\ Wait(s, what) /\ Record(s, id, "transfer", user[s], busy[s].to)
  BY DEF SafeInv, Receipt, Doing, BusyOK, TypeOK, chainVars
<1>2. /\ what.op = "notify" /\ what.id = id
      /\ m.id = id /\ m.from = user[s] /\ m.kind = "transfer"
  OBVIOUS
<1>3. /\ messages'[s] = Append(messages[s], m) /\ messages[s] \in Seq(Message)
      /\ \A r \in Sessions \ {s} : messages'[r] = messages[r]
  BY <1>1, RecordEffect DEF SafeInv, TypeOK
<1> HIDE DEF id, what, m
<1>4. busy'[s] = what /\ \A r \in Sessions \ {s} : busy'[r] = busy[r]
  BY <1>1, WaitEffect DEF SafeInv
<1>5. NoncesOK'
  BY <1>1, <1>2, <1>4 DEF NoncesOK, Doing
<1>6. \A i \in DOMAIN messages'[s] :
        messages'[s][i] = m \/ (i \in DOMAIN messages[s] /\ messages'[s][i] = messages[s][i])
  BY <1>3
<1>7. ASSUME NEW w \in Addresses
      PROVE  Cardinality(TransferIds(w)') + Cardinality(Confirmed(w)') <= mined'[w]
  <2>1. CASE w = user[s]
    <3>1. TransferIds(w)' \subseteq TransferIds(w) \cup {id}
      <4> DEFINE S == TransferIds(w) \cup {id}
      <4>1. \A r \in Sessions : \A i \in DOMAIN messages'[r] :
              messages'[r][i].kind = "transfer" /\ messages'[r][i].from = w => messages'[r][i].id \in S
        BY <1>2, <1>3, <1>6, IdsHave
      <4>2. \A n \in DOMAIN content' :
              content'[n].kind = "transfer" /\ content'[n].sender = w => content'[n].tx_id \in S
        BY <1>1, IdsHave
      <4>3. \A r \in Sessions : Doing(r, "notify")' /\ user'[r] = w => busy'[r].id \in S
        BY <1>1, <1>2, <1>4, IdsHave DEF Doing
      <4> HIDE DEF S
      <4>4. TransferIds(w)' \subseteq S
        BY <4>1, <4>2, <4>3, IdsAreNext
      <4> QED  BY <4>4 DEF S
    <3>2. Confirmed(w)' \subseteq Confirmed(w) \ {s} /\ s \in Confirmed(w)
      <4>1. s \in Confirmed(w)
        BY <1>1, <2>1 DEF Confirmed
      <4>2. ~Doing(s, "receipt")' /\ \A r \in Sessions \ {s} : Doing(r, "receipt")' => Doing(r, "receipt")
        BY <1>2, <1>4 DEF Doing
      <4> QED  BY <1>1, <1>4, <4>1, <4>2 DEF Confirmed
    <3>3. /\ IsFiniteSet(TransferIds(w)) /\ IsFiniteSet(Confirmed(w))
          /\ Cardinality(TransferIds(w)) \in Nat /\ Cardinality(Confirmed(w)) \in Nat
          /\ mined[w] \in Nat
      BY CountsAreFinite
    <3>4. /\ IsFiniteSet(TransferIds(w) \cup {id})
          /\ Cardinality(TransferIds(w) \cup {id}) \in Nat
          /\ Cardinality(TransferIds(w) \cup {id}) <= Cardinality(TransferIds(w)) + 1
      BY <3>3, OneMore
    <3>5. /\ IsFiniteSet(Confirmed(w) \ {s})
          /\ Cardinality(Confirmed(w) \ {s}) \in Nat
          /\ Cardinality(Confirmed(w) \ {s}) = Cardinality(Confirmed(w)) - 1
      BY <3>2, <3>3, FS_RemoveElement, FS_CardinalityType
    <3>6. /\ Cardinality(TransferIds(w)') <= Cardinality(TransferIds(w) \cup {id})
          /\ Cardinality(TransferIds(w)') \in Nat
      BY <3>1, <3>4, FS_Subset, FS_CardinalityType
    <3>7. /\ Cardinality(Confirmed(w)') <= Cardinality(Confirmed(w) \ {s})
          /\ Cardinality(Confirmed(w)') \in Nat
      BY <3>2, <3>5, FS_Subset, FS_CardinalityType
    <3>8. Cardinality(TransferIds(w)) + Cardinality(Confirmed(w)) <= mined[w] /\ mined'[w] = mined[w]
      BY <1>1 DEF CountsOK
    <3> QED  BY <3>3, <3>4, <3>5, <3>6, <3>7, <3>8
  <2>2. CASE w # user[s]
    <3>1. TransferIds(w)' \subseteq TransferIds(w)
      <4>1. \A r \in Sessions : \A i \in DOMAIN messages'[r] :
              messages'[r][i].kind = "transfer" /\ messages'[r][i].from = w
                => messages'[r][i].id \in TransferIds(w)
        <5>1. \A i \in DOMAIN messages'[s] :
                messages'[s][i].kind = "transfer" /\ messages'[s][i].from = w
                  => i \in DOMAIN messages[s] /\ messages'[s][i] = messages[s][i]
          BY <1>2, <1>6, <2>2
        <5>2. ASSUME NEW r \in Sessions, NEW i \in DOMAIN messages'[r],
                     messages'[r][i].kind = "transfer", messages'[r][i].from = w
              PROVE  i \in DOMAIN messages[r] /\ messages'[r][i] = messages[r][i]
          BY <1>3, <5>1, <5>2
        <5> QED  BY <5>2, IdsHave
      <4>2. \A n \in DOMAIN content' :
              content'[n].kind = "transfer" /\ content'[n].sender = w
                => content'[n].tx_id \in TransferIds(w)
        BY <1>1, IdsHave
      <4>3. \A r \in Sessions : Doing(r, "notify")' /\ user'[r] = w => busy'[r].id \in TransferIds(w)
        BY <1>1, <1>2, <1>4, <2>2, IdsHave DEF Doing
      <4> QED  BY <4>1, <4>2, <4>3, IdsAreNext
    <3>2. Confirmed(w)' \subseteq Confirmed(w)
      BY <1>1, <1>2, <1>4 DEF Confirmed, Doing
    <3> QED  BY <1>1, <3>1, <3>2, CountAfter
  <2> QED  BY <2>1, <2>2
<1> QED  BY <1>5, <1>7 DEF CountsOK

\* Of the sessions that wait for a receipt at most one gets it.
LEMMA TransactionMined ==
  ASSUME SafeInv, NoncesOK, CountsOK, NEW v \in Addresses, Mine(v)
  PROVE  NoncesOK' /\ CountsOK'
<1>1. /\ UNCHANGED <<user, messages, busy, content>> /\ v \in pool /\ pool' = pool \ {v}
      /\ mined \in [Addresses -> Nat] /\ mined' = [mined EXCEPT ![v] = @ + 1]
  BY DEF SafeInv, TypeOK, Mine, sessionVars
<1>2. /\ mined[v] \in Nat /\ mined'[v] = mined[v] + 1
      /\ \A w \in Addresses \ {v} : mined'[w] = mined[w]
  BY <1>1
<1>3. \A s \in Sessions : Doing(s, "receipt") =>
        /\ user[s] \in Addresses /\ busy[s].nonce \in Nat /\ busy[s].nonce <= mined[user[s]]
  BY WaitingFor DEF SafeInv, BusyOK, TypeOK, Doing, NoncesOK
<1>4. NoncesOK'
  <2>1. ASSUME NEW q \in Sessions, Doing(q, "receipt")'
        PROVE  /\ busy'[q].nonce <= mined'[user'[q]]
               /\ busy'[q].nonce = mined'[user'[q]] =>
                    /\ user'[q] \in pool'
                    /\ \A r \in Sessions :
                         Doing(r, "receipt")' /\ user'[r] = user'[q] /\ busy'[r].nonce = busy'[q].nonce
                           => r = q
    <3>1. Doing(q, "receipt") /\ busy'[q] = busy[q] /\ user'[q] = user[q]
      BY <1>1, <2>1 DEF Doing
    <3>2. CASE user[q] = v
      BY <1>2, <1>3, <3>1, <3>2
    <3>3. CASE user[q] # v
      BY <1>1, <1>2, <1>3, <3>1, <3>3 DEF NoncesOK, Doing
    <3> QED  BY <3>2, <3>3
  <2> QED  BY <2>1 DEF NoncesOK
<1>5. ASSUME NEW w \in Addresses
      PROVE  Cardinality(TransferIds(w)') + Cardinality(Confirmed(w)') <= mined'[w]
  <2>1. TransferIds(w)' \subseteq TransferIds(w)
    BY <1>1, IdsHave, IdsAreNext DEF Doing
  <2>2. CASE w # v
    <3>1. Confirmed(w)' \subseteq Confirmed(w)
      BY <1>1, <1>2, <2>2 DEF Confirmed, Doing
    <3> QED  BY <1>2, <2>1, <2>2, <3>1, CountAfter
  <2>3. CASE w = v
    <3>1. \A r, q \in Confirmed(w)' : r \notin Confirmed(w) /\ q \notin Confirmed(w) => r = q
      <4>1. ASSUME NEW r \in Confirmed(w)', r \notin Confirmed(w)
            PROVE  r \in Sessions /\ Doing(r, "receipt") /\ user[r] = v /\ busy[r].nonce = mined[v]
        BY <1>1, <1>2, <1>3, <2>3, <4>1 DEF Confirmed, Doing
      <4> QED  BY <4>1 DEF NoncesOK
    <3>2. \E q : Confirmed(w)' \subseteq Confirmed(w) \cup {q}
      <4>1. CASE Confirmed(w)' \subseteq Confirmed(w)
        BY <4>1
      <4>2. CASE ~(Confirmed(w)' \subseteq Confirmed(w))
        <5>1. PICK q \in Confirmed(w)' : q \notin Confirmed(w)
          BY <4>2
        <5>2. Confirmed(w)' \subseteq Confirmed(w) \cup {q}
          BY <3>1, <5>1
        <5> QED  BY <5>2
      <4> QED  BY <4>1, <4>2
    <3>3. PICK q : Confirmed(w)' \subseteq Confirmed(w) \cup {q}
      BY <3>2
    <3>4. /\ IsFiniteSet(TransferIds(w)) /\ IsFiniteSet(Confirmed(w))
          /\ Cardinality(TransferIds(w)) \in Nat /\ Cardinality(Confirmed(w)) \in Nat
      BY CountsAreFinite
    <3>5. /\ IsFiniteSet(Confirmed(w) \cup {q})
          /\ Cardinality(Confirmed(w) \cup {q}) \in Nat
          /\ Cardinality(Confirmed(w) \cup {q}) <= Cardinality(Confirmed(w)) + 1
      BY <3>4, OneMore
    <3>6. /\ Cardinality(Confirmed(w)') <= Cardinality(Confirmed(w) \cup {q})
          /\ Cardinality(Confirmed(w)') \in Nat
      BY <3>3, <3>5, FS_Subset, FS_CardinalityType
    <3>7. /\ Cardinality(TransferIds(w)') <= Cardinality(TransferIds(w))
          /\ Cardinality(TransferIds(w)') \in Nat
      BY <2>1, <3>4, FS_Subset, FS_CardinalityType
    <3>8. Cardinality(TransferIds(w)) + Cardinality(Confirmed(w)) <= mined[w]
      BY DEF CountsOK
    <3> QED  BY <1>2, <2>3, <3>4, <3>5, <3>6, <3>7, <3>8
  <2> QED  BY <2>2, <2>3
<1> QED  BY <1>4, <1>5 DEF CountsOK

LEMMA TransfersCounted ==
  ASSUME SafeInv, SafeInv', NoncesOK, CountsOK, [Next]_vars
  PROVE  NoncesOK' /\ CountsOK'
<1>1. ASSUME NEW s \in Sessions, Page(s)  PROVE NoncesOK' /\ CountsOK'
  BY <1>1, QuietPage, TransactionSent, TransferShown
<1>2. CASE CommandLine \/ NodeChanges \/ Expire \/ UNCHANGED vars
  BY <1>2, QuietWorld
<1>3. ASSUME NEW w \in Addresses, Mine(w)  PROVE NoncesOK' /\ CountsOK'
  BY <1>3, TransactionMined
<1> QED  BY <1>1, <1>2, <1>3 DEF Next, Environment

LEMMA NothingTransferred ==
  ASSUME Init
  PROVE  NoncesOK /\ CountsOK
<1>1. NoncesOK
  BY DEF Init, NoncesOK, Doing
<1>2. ASSUME NEW w \in Addresses
      PROVE  Cardinality(TransferIds(w)) + Cardinality(Confirmed(w)) <= mined[w]
  <2>1. TransferIds(w) \subseteq {}
    BY IdsAre DEF Init, Doing
  <2>2. TransferIds(w) = {} /\ Confirmed(w) = {}
    BY <2>1 DEF Init, Confirmed, Doing
  <2>3. mined[w] = 0
    BY DEF Init
  <2> QED  BY <2>2, <2>3, FS_EmptySet
<1> QED  BY <1>1, <1>2 DEF CountsOK

(* No wallet is shown as the author of more transfers than it has mined,   *)
(* whatever sessions pay at once and whatever answers get lost             *)
(* (app.py:1090-1136).                                                     *)
THEOREM TransfersAreMined == Spec => []TransfersCovered
<1> DEFINE Inv == SafeInv /\ NoncesOK /\ CountsOK
<1>1. Init => Inv
  BY InitSafe, NothingTransferred
<1>2. Inv /\ [Next]_vars => Inv'
  BY NextSafe, TransfersCounted
<1>3. Inv => TransfersCovered
  <2>1. ASSUME Inv, NEW w \in Addresses  PROVE Cardinality(TransfersShown(w)) <= mined[w]
    <3>1. TransfersShown(w) \subseteq TransferIds(w)
      BY DEF TransferIds
    <3>2. /\ IsFiniteSet(TransferIds(w)) /\ Cardinality(TransferIds(w)) \in Nat
          /\ Cardinality(Confirmed(w)) \in Nat /\ mined[w] \in Nat
      BY <2>1, CountsAreFinite
    <3>3. /\ Cardinality(TransfersShown(w)) <= Cardinality(TransferIds(w))
          /\ Cardinality(TransfersShown(w)) \in Nat
      BY <3>1, <3>2, FS_Subset, FS_CardinalityType
    <3>4. Cardinality(TransferIds(w)) + Cardinality(Confirmed(w)) <= mined[w]
      BY <2>1 DEF CountsOK
    <3> QED  BY <3>2, <3>3, <3>4
  <2> QED  BY <2>1 DEF TransfersCovered
<1> QED  BY <1>1, <1>2, <1>3, PTL DEF Spec

=============================================================================
