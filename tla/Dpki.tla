-------------------------------- MODULE Dpki --------------------------------
(***************************************************************************)
(* Key lookup and registration: the threads of one process that calls      *)
(* DPKIClient (engine/dpki_client.py), the chain with the contract, and    *)
(* the broker's key relay (broker/main.py).                                *)
(*                                                                         *)
(* The key cache and the connectivity verdict belong to the class, so the  *)
(* threads share them; a step is what a thread does between two network    *)
(* calls or two uses of what is shared.  Any RPC can fail, also after the  *)
(* node has acted on it, and a transaction may be mined at any later time. *)
(* A development chain may be started anew, empty, and the contract        *)
(* deployed again (scripts/deploy_dpki.py), while the process runs on.     *)
(***************************************************************************)
EXTENDS KeyRegistry

LOCAL INSTANCE FiniteSetsExt

CONSTANTS
  Threads,          \* threads of the process, each with clients of its own
  OfflineModes,     \* allow_offline of its clients: TRUE in the UI, FALSE else
  RsaFiles,         \* private key files it passes: None in the UI, else keys
  Requests,         \* posts that other clients send to the relay
  NodeStates,       \* {"up", "down"}, or {"up"} for a node that never fails
  HomeNonce,        \* of the deployer's transaction whose contract has the
                    \* address that the clients are configured with
  MaxTransactions,  \* bound: transactions on a chain, two fewer on the next
  MaxResets,        \* bound: how often the chain is started anew
  MaxLost           \* bound: transactions a reset undoes

VARIABLES
  contract,       \* the dPKIRegistry at the clients' address
  code,           \* whether there is one: deployed, since the chain started
  deployer,       \* transactions of the deployer since then
  pool,           \* transactions sent and not mined
  receipts,       \* receipts[w]: statuses of w's mined transactions, by nonce
  node,           \* the RPC node, as the process sees it: "up" or "down"
  relay,          \* broker: _BROKER_DPKI_REGISTRY
  checked,        \* DPKIClient: less than 30 s since _last_check_ts
  cached_status,  \* DPKIClient._cached_status
  cache,          \* _LOCAL_REGISTRY
  calls,          \* what each thread is doing
  last            \* the answer the last step gave to a caller, or None

chainVars == <<contract, code, deployer, pool, receipts>>
statusVars == <<checked, cached_status>>
vars == <<chainVars, node, relay, statusVars, cache, calls, last>>

Transaction == [from: Wallets, nonce: Nat, pem: Keys, signature: Pop]

Cached == [pem: Keys, source: {"chain", "broker-unverified"}]

\* POST /api/v1/dpki/register; length is that of the signature field.
Request == [address: Wallets, pem: Keys, signer: Wallets, timely: BOOLEAN,
            length: {130, 132}]

ASSUME DpkiAssumption ==
  /\ OfflineModes \subseteq BOOLEAN
  /\ RsaFiles \subseteq Keys \cup {None}
  /\ Requests \subseteq Request
  /\ NodeStates \subseteq {"up", "down"}
  /\ HomeNonce \in Nat /\ MaxTransactions \in Nat /\ MaxResets \in Nat /\ MaxLost \in Nat

LivePCs == {"live", "conclude", "nonce", "send", "receipt", "read_back",
            "confirmed", "post"}
OfflinePCs == {"dead", "ask_broker", "keep_broker", "post_offline", "keep_offline"}

\* key and rsa: the PEM to register and the private key file, None without.
\* since: history, the number of events when the call began.
Call == [pc: {"idle", "stamp", "probe"} \cup LivePCs \cup OfflinePCs,
         op: {"lookup", "register"}, wallet: Wallets, allow_offline: BOOLEAN,
         key: Keys \cup {None}, rsa: Keys \cup {None},
         found: Keys \cup {None}, nonce: Nat, since: Nat]

Idle == [pc |-> "idle"]

Results == {"chain", "chain-cache", "broker-unverified", "KeyNotRegistered",
            "ChainUnavailable", "onchain", "local", "failed"}

Answer == [result: Results, wallet: Wallets, key: Keys \cup {None}, since: Nat]

ASSUME NoneAssumption == None \notin Cached /\ None \notin Answer

TypeOK ==
  /\ contract \in Contract /\ code \in BOOLEAN /\ deployer \in Nat
  /\ pool \in SUBSET Transaction
  /\ receipts \in [Wallets -> Seq(BOOLEAN)]
  /\ node \in NodeStates
  /\ relay \in [Wallets -> Keys \cup {None}]
  /\ checked \in BOOLEAN /\ cached_status \in BOOLEAN
  /\ cache \in [Wallets -> Cached \cup {None}]
  /\ calls \in [Threads -> Call \cup {Idle}]
  /\ last \in Answer \cup {None}

Init ==
  /\ contract = NewContract /\ code = TRUE /\ deployer = HomeNonce + 1
  /\ pool = {} /\ receipts = [w \in Wallets |-> <<>>]
  /\ node \in NodeStates
  /\ relay = [w \in Wallets |-> None]
  /\ checked = FALSE /\ cached_status = FALSE
  /\ cache = [w \in Wallets |-> None]
  /\ calls = [t \in Threads |-> Idle]
  /\ last = None

-----------------------------------------------------------------------------
(***************************************************************************)
(* The chain and the other parties                                         *)
(***************************************************************************)

\* How often the chain was started anew.
Resets == Cardinality({i \in DOMAIN contract.log : contract.log[i] = ChainReset})

\* Transactions on the present chain, sent and mined.
Transactions == Cardinality(pool) + MapThenSumSet(LAMBDA w : Len(receipts[w]), Wallets)

\* A node accepts a transaction with the next nonce, once.
Accepts(w, nonce) ==
  /\ nonce = Len(receipts[w])
  /\ Transactions + 2 * Resets < MaxTransactions
  /\ \A tx \in pool : tx.from # w

\* Signatures others can put in a transaction: their own, or published ones.
KnownProofs(w) ==
  {[key |-> k, address |-> w] : k \in Holds[w]}
  \cup {contract.log[i].signature :
          i \in {j \in DOMAIN contract.log : \E u \in Wallets : Registers(contract.log[j], u)}}

\* The owner of w registers from another machine.
SubmitElsewhere(w, pem, signature) ==
  /\ Accepts(w, Len(receipts[w]))
  /\ pool' = pool \cup {[from |-> w, nonce |-> Len(receipts[w]), pem |-> pem,
                         signature |-> signature]}
  /\ last' = None
  /\ UNCHANGED <<contract, code, deployer, receipts, node, relay, statusVars, cache, calls>>

\* A transaction to an address without code does nothing, and succeeds.
Mine(tx) ==
  /\ pool' = pool \ {tx}
  /\ contract' = IF code
                 THEN registerPublicKeyWithPoP(contract, tx.from, tx.pem, tx.signature)
                 ELSE contract
  /\ receipts' = [receipts EXCEPT ![tx.from] =
                    Append(@, code => ProofHolds(tx.from, tx.pem, tx.signature))]
  /\ last' = None
  /\ UNCHANGED <<code, deployer, node, relay, statusVars, cache, calls>>

\* The development node is stopped and started again, with an empty chain.
ResetChain ==
  /\ Resets < MaxResets /\ Transactions <= MaxLost
  /\ contract' = Emptied(contract) /\ code' = FALSE /\ deployer' = 0
  /\ pool' = {} /\ receipts' = [w \in Wallets |-> <<>>]
  /\ last' = None
  /\ UNCHANGED <<node, relay, statusVars, cache, calls>>

\* deploy_dpki.py: the deployer's next transaction, whose nonce makes the
\* address.  It may fail, out of gas, and is not made good: what the script
\* sends next has the next address.
Deploy ==
  /\ deployer <= HomeNonce
  /\ deployer' = deployer + 1
  /\ code' \in (IF deployer = HomeNonce THEN BOOLEAN ELSE {code})
  /\ last' = None
  /\ UNCHANGED <<contract, pool, receipts, node, relay, statusVars, cache, calls>>

\* The node goes out of reach or comes back.
NodeChanges ==
  /\ node' \in NodeStates \ {node}
  /\ last' = None
  /\ UNCHANGED <<chainVars, relay, statusVars, cache, calls>>

\* register_broker_dpki: the schema, the time window, the signature.
StatusOf(r) ==
  IF r.length # 132 THEN 422
  ELSE IF ~r.timely THEN 400
  ELSE IF r.signer # r.address THEN 401
  ELSE 200

register_broker_dpki(r) ==
  relay' = IF StatusOf(r) = 200 THEN [relay EXCEPT ![r.address] = r.pem] ELSE relay

\* Another client of the relay.
PostElsewhere(r) ==
  /\ register_broker_dpki(r)
  /\ last' = None
  /\ UNCHANGED <<chainVars, node, statusVars, cache, calls>>

\* The broker restarts; the relay was in its memory.
RelayRestart ==
  /\ relay' = [w \in Wallets |-> None]
  /\ last' = None
  /\ UNCHANGED <<chainVars, node, statusVars, cache, calls>>

-----------------------------------------------------------------------------
(***************************************************************************)
(* The threads of the client process                                       *)
(***************************************************************************)

At(t, pc) == calls[t].pc = pc

Goto(t, pc) ==
  /\ calls' = [calls EXCEPT ![t].pc = pc]
  /\ last' = None

Learn(t, pc, key) ==
  /\ calls' = [calls EXCEPT ![t].pc = pc, ![t].found = key]
  /\ last' = None

Return(t, result, key) ==
  /\ calls' = [calls EXCEPT ![t] = Idle]
  /\ last' = [result |-> result, wallet |-> calls[t].wallet, key |-> key,
              since |-> calls[t].since]

CachePut(w, key, source) ==
  cache' = [cache EXCEPT ![w] = [pem |-> key, source |-> source]]

CacheDel(w) == cache' = [cache EXCEPT ![w] = None]

\* is_connected, first lines: the shared verdict if it is recent.
Verdict ==
  IF ~checked THEN "stamp" ELSE IF cached_status THEN "live" ELSE "dead"

Begin(t, op, w, offline, key, rsa) ==
  /\ At(t, "idle")
  /\ calls' = [calls EXCEPT ![t] =
       [pc |-> Verdict, op |-> op, wallet |-> w, allow_offline |-> offline,
        key |-> key, rsa |-> rsa, found |-> None, nonce |-> 0,
        since |-> Len(contract.log)]]
  /\ last' = None
  /\ UNCHANGED <<chainVars, node, relay, statusVars, cache>>

Lookup(t, w, offline) == Begin(t, "lookup", w, offline, None, None)

\* By the command line, which has a private key file, or the page.
Register(t, w, offline, key, rsa) == Begin(t, "register", w, offline, key, rsa)

\* _last_check_ts is set before the probe, the verdict after it.
Stamp(t) ==
  /\ At(t, "stamp")
  /\ checked' = TRUE
  /\ Goto(t, "probe")
  /\ UNCHANGED <<chainVars, node, relay, cached_status, cache>>

Probe(t) ==
  /\ At(t, "probe")
  /\ cached_status' = (node = "up")
  /\ Goto(t, IF node = "up" THEN "live" ELSE "dead")
  /\ UNCHANGED <<chainVars, node, relay, checked, cache>>

\* Offline is an explicit choice of the caller.
RefuseOffline(t) ==
  /\ At(t, "dead") /\ ~calls[t].allow_offline
  /\ Return(t, "ChainUnavailable", None)
  /\ UNCHANGED <<chainVars, node, relay, statusVars, cache>>

-----------------------------------------------------------------------------
\* get_public_key_with_provenance

\* A function of the contract can be called.
Answers == node = "up" /\ code

KeyOf(w) ==
  IF contract.registry[w] # None /\ contract.registry[w].hasPoP
  THEN contract.registry[w].publicKeyPem
  ELSE None

\* Mutant: the local registry first, as it was before.
AskLocalFirst(t) ==
  /\ At(t, "live") /\ calls[t].op = "lookup"
  /\ Answers
  /\ LET entry == cache[calls[t].wallet] IN
     Learn(t, "conclude", IF entry # None /\ entry.source = "chain"
                          THEN entry.pem ELSE KeyOf(calls[t].wallet))
  /\ UNCHANGED <<chainVars, node, relay, statusVars, cache>>

AskChain(t) ==
  /\ At(t, "live") /\ calls[t].op = "lookup"
  /\ Answers
  /\ Learn(t, "conclude", KeyOf(calls[t].wallet))
  /\ UNCHANGED <<chainVars, node, relay, statusVars, cache>>

AskChainFails(t) ==
  /\ At(t, "live") /\ calls[t].op = "lookup"
  /\ Return(t, "ChainUnavailable", None)
  /\ UNCHANGED <<chainVars, node, relay, statusVars, cache>>

\* No key, or one without proof of possession, is a final answer.
Conclude(t) ==
  /\ At(t, "conclude")
  /\ LET call == calls[t] IN
     IF call.found = None
     THEN CacheDel(call.wallet) /\ Return(t, "KeyNotRegistered", None)
     ELSE CachePut(call.wallet, call.found, "chain") /\ Return(t, "chain", call.found)
  /\ UNCHANGED <<chainVars, node, relay, statusVars>>

FromCache(t) ==
  /\ At(t, "dead") /\ calls[t].op = "lookup" /\ calls[t].allow_offline
  /\ LET entry == cache[calls[t].wallet] IN
     IF entry # None /\ entry.source = "chain"
     THEN Return(t, "chain-cache", entry.pem)
     ELSE Goto(t, "ask_broker")
  /\ UNCHANGED <<chainVars, node, relay, statusVars, cache>>

\* The relay's key for a wallet, or None: its answer is then a 404.
get_broker_dpki_key(wallet) == relay[wallet]

\* Mutant: an empty answer of the broker is taken for a key.
AskBrokerBlank(t) ==
  /\ At(t, "ask_broker")
  /\ Learn(t, "keep_broker", get_broker_dpki_key(calls[t].wallet))
  /\ UNCHANGED <<chainVars, node, relay, statusVars, cache>>

AskBroker(t) ==
  /\ At(t, "ask_broker")
  /\ get_broker_dpki_key(calls[t].wallet) # None
  /\ Learn(t, "keep_broker", get_broker_dpki_key(calls[t].wallet))
  /\ UNCHANGED <<chainVars, node, relay, statusVars, cache>>

\* The broker has no key, or it cannot be reached.
AskBrokerFails(t) ==
  /\ At(t, "ask_broker")
  /\ Return(t, "ChainUnavailable", None)
  /\ UNCHANGED <<chainVars, node, relay, statusVars, cache>>

\* KeyUnverified carries the key to the caller.
KeepBroker(t) ==
  /\ At(t, "keep_broker")
  /\ CachePut(calls[t].wallet, calls[t].found, "broker-unverified")
  /\ Return(t, "broker-unverified", calls[t].found)
  /\ UNCHANGED <<chainVars, node, relay, statusVars>>

-----------------------------------------------------------------------------
\* register_public_key

\* Already there with proof of possession: no second transaction.  When the
\* record cannot be read the code goes on and registers.
ReadOwn(t) ==
  /\ At(t, "live") /\ calls[t].op = "register"
  /\ \/ /\ Answers
        /\ Goto(t, IF KeyOf(calls[t].wallet) = calls[t].key THEN "confirmed" ELSE "nonce")
     \/ Goto(t, "nonce")
  /\ UNCHANGED <<chainVars, node, relay, statusVars, cache>>

\* Without the RSA private key there is no way on.
CountTransactions(t) ==
  /\ At(t, "nonce")
  /\ node = "up"
  /\ calls[t].rsa # None
  /\ calls' = [calls EXCEPT ![t].pc = "send", ![t].nonce = Len(receipts[calls[t].wallet])]
  /\ last' = None
  /\ UNCHANGED <<chainVars, node, relay, statusVars, cache>>

\* The node takes the transaction; its reply may be lost all the same.
Send(t) ==
  /\ At(t, "send")
  /\ node = "up"
  /\ Accepts(calls[t].wallet, calls[t].nonce)
  /\ pool' = pool \cup
       {[from |-> calls[t].wallet, nonce |-> calls[t].nonce, pem |-> calls[t].key,
         signature |-> [key |-> calls[t].rsa, address |-> calls[t].wallet]]}
  /\ Goto(t, "receipt") \/ Return(t, "failed", None)
  /\ UNCHANGED <<contract, code, deployer, receipts, node, relay, statusVars, cache>>

\* Mutant: a receipt that says 1 is enough, the record is not read back.
ReceiptIsEnough(t) ==
  /\ At(t, "receipt")
  /\ node = "up"
  /\ calls[t].nonce < Len(receipts[calls[t].wallet])
  /\ receipts[calls[t].wallet][calls[t].nonce + 1]
  /\ Goto(t, "confirmed")
  /\ UNCHANGED <<chainVars, node, relay, statusVars, cache>>

\* A receipt is found by the transaction's hash, that is by its contents; on
\* a chain started anew the same transaction may have been sent again.
Receipt(t) ==
  /\ At(t, "receipt")
  /\ node = "up"
  /\ calls[t].nonce < Len(receipts[calls[t].wallet])
  /\ receipts[calls[t].wallet][calls[t].nonce + 1]
  /\ Goto(t, "read_back")
  /\ UNCHANGED <<chainVars, node, relay, statusVars, cache>>

ReadBack(t) ==
  /\ At(t, "read_back")
  /\ Answers
  /\ KeyOf(calls[t].wallet) = calls[t].key
  /\ Goto(t, "confirmed")
  /\ UNCHANGED <<chainVars, node, relay, statusVars, cache>>

\* Every failure is raised: an RPC, the proof, a revert, no receipt in 10 s,
\* another key on read-back.  What was sent stays sent.
RegisterFails(t) ==
  /\ calls[t].pc \in {"nonce", "send", "receipt", "read_back"}
  /\ Return(t, "failed", None)
  /\ UNCHANGED <<chainVars, node, relay, statusVars, cache>>

CacheConfirmed(t) ==
  /\ At(t, "confirmed")
  /\ CachePut(calls[t].wallet, calls[t].key, "chain")
  /\ Goto(t, "post")
  /\ UNCHANGED <<chainVars, node, relay, statusVars>>

RegisterOffline(t) ==
  /\ At(t, "dead") /\ calls[t].op = "register" /\ calls[t].allow_offline
  /\ Goto(t, "post_offline")
  /\ UNCHANGED <<chainVars, node, relay, statusVars, cache>>

\* _post_broker_registration signs for the wallet now; signature.hex() has no
\* 0x, so it is 130 characters.
OwnRequest(t) ==
  [address |-> calls[t].wallet, pem |-> calls[t].key,
   signer |-> calls[t].wallet, timely |-> TRUE, length |-> 130]

\* The callers ignore whether the post was accepted.
Posted(t) ==
  \/ At(t, "post") /\ Return(t, "onchain", calls[t].key)
  \/ At(t, "post_offline") /\ Goto(t, "keep_offline")

PostAnswered(t) ==
  /\ Posted(t)
  /\ register_broker_dpki(OwnRequest(t))
  /\ UNCHANGED <<chainVars, node, statusVars, cache>>

PostFails(t) ==
  /\ Posted(t)
  /\ UNCHANGED <<chainVars, node, relay, statusVars, cache>>

\* Mutant: the key registered offline is cached like one read from the chain.
KeepOfflineAsChain(t) ==
  /\ At(t, "keep_offline")
  /\ CachePut(calls[t].wallet, calls[t].key, "chain")
  /\ Return(t, "local", calls[t].key)
  /\ UNCHANGED <<chainVars, node, relay, statusVars>>

KeepOffline(t) ==
  /\ At(t, "keep_offline")
  /\ CachePut(calls[t].wallet, calls[t].key, "broker-unverified")
  /\ Return(t, "local", calls[t].key)
  /\ UNCHANGED <<chainVars, node, relay, statusVars>>

-----------------------------------------------------------------------------

\* Thirty seconds pass since the last check.
CheckAges ==
  /\ checked /\ checked' = FALSE
  /\ last' = None
  /\ UNCHANGED <<chainVars, node, relay, cached_status, cache, calls>>

\* The process ends and starts again: its memory is new.
Restart ==
  /\ checked' = FALSE /\ cached_status' = FALSE
  /\ cache' = [w \in Wallets |-> None]
  /\ calls' = [t \in Threads |-> Idle]
  /\ last' = None
  /\ UNCHANGED <<chainVars, node, relay>>

Work(t) ==
  \/ Stamp(t) \/ Probe(t) \/ RefuseOffline(t)
  \/ AskChain(t) \/ AskChainFails(t) \/ Conclude(t)
  \/ FromCache(t) \/ AskBroker(t) \/ AskBrokerFails(t) \/ KeepBroker(t)
  \/ ReadOwn(t) \/ CountTransactions(t) \/ Send(t) \/ Receipt(t) \/ ReadBack(t)
  \/ RegisterFails(t) \/ CacheConfirmed(t)
  \/ RegisterOffline(t) \/ PostAnswered(t) \/ PostFails(t) \/ KeepOffline(t)

StartCall(t) ==
  \E w \in Wallets, offline \in OfflineModes :
    \/ Lookup(t, w, offline)
    \/ \E key \in Keys, rsa \in RsaFiles \cap (Holds[w] \cup {None}) :
         Register(t, w, offline, key, rsa)

Environment ==
  \/ \E w \in Wallets, pem \in Keys : \E signature \in KnownProofs(w) :
       SubmitElsewhere(w, pem, signature)
  \/ \E tx \in pool : Mine(tx)
  \/ NodeChanges
  \/ \E r \in Requests : PostElsewhere(r)
  \/ RelayRestart
  \/ ResetChain \/ Deploy

Next ==
  \/ \E t \in Threads : StartCall(t) \/ Work(t)
  \/ CheckAges \/ Restart
  \/ Environment

Spec == Init /\ [][Next]_vars

-----------------------------------------------------------------------------
(***************************************************************************)
(* Properties                                                              *)
(***************************************************************************)

(* Whatever transactions are sent, with any proof that was ever published, *)
(* a wallet's key on chain is one whose private half its owner holds       *)
(* (registerPublicKeyWithPoP, steps 3 and 4).                              *)
KeysAreProven ==
  \A w \in Wallets : contract.registry[w] # None =>
    /\ contract.registry[w].hasPoP
    /\ contract.registry[w].publicKeyPem \in Holds[w]

(* The registry holds the last key its log announces, and a reader of the  *)
(* KeyRotated events sees every change of key, from what to what, and      *)
(* nothing else (dPKIRegistry.sol:23-25).                                  *)
LogTellsHistory ==
  /\ RegistryMatchesLog(contract)
  /\ ChangesAreLogged(contract.log)
  /\ RotationsAreChanges(contract.log)

(* What the process believes to be from the chain was on the chain: a      *)
(* cache entry, or an answer in degraded mode, that carries the source     *)
(* chain is a key its wallet once had there, whatever the relay, offline   *)
(* registrations and threads that overtake each other put in the cache.    *)
(* It may have been on a chain that is no more.                            *)
ChainSourceIsTrue ==
  /\ \A w \in Wallets : cache[w] # None /\ cache[w].source = "chain" =>
       EverOnChain(contract.log, w, cache[w].pem)
  /\ last # None /\ last.result = "chain-cache" =>
       EverOnChain(contract.log, last.wallet, last.key)

(* A lookup answered by the chain is current: the key was the wallet's at  *)
(* some moment of the call, or it had none at one - also when the chain    *)
(* that knew an older key was started anew under the call or before it.    *)
LookupIsCurrent ==
  last # None =>
    /\ last.result = "chain" =>
         KeyDuring(contract.log, last.since, last.wallet, last.key)
    /\ last.result = "KeyNotRegistered" =>
         NoKeyDuring(contract.log, last.since, last.wallet)

(* A registration that reports success was on chain, with that key, at     *)
(* some moment of the call - whoever else registers for the wallet, and    *)
(* also when the transaction went to an address where nobody had deployed  *)
(* the contract yet, and succeeded there.                                  *)
RegisteredIsOnChain ==
  last # None /\ last.result = "onchain" =>
    KeyDuring(contract.log, last.since, last.wallet, last.key)

(* dpki_client.py:479-480: allow_offline is only used when the chain is    *)
(* dead.  With a node that never fails no thread is in the offline branch. *)
OfflineOnlyWhenChainDead ==
  \A t \in Threads : calls[t].pc \in OfflinePCs => "down" \in NodeStates

=============================================================================
