# A formal model of CloakShare

CloakShare passes encrypted files and messages between Ethereum wallets. A
broker holds the ciphertexts in RAM only and wipes them; a contract on a chain
says which RSA key belongs to which wallet; a Streamlit application and a
command line are the clients. This directory holds TLA+ modules of the parts
that keep state and meet concurrency or failure, the TLC runs that check them,
and TLAPS proofs of their central properties for every value of the constants.

Line numbers are those of the files under `src/`.

## 1. The system

| Part | State | Operations | Talks to |
|---|---|---|---|
| RAM store, `broker/memory_store.py` | dict of packages, five counters, a bounded deque of events, one lock | `stage`, `retrieve`, `purge`, `purge_expired`, `purge_all`; readers `exists`, `get_inbox`, `ram_snapshot` | called by the broker |
| Staging broker, `broker/main.py`, `schemas.py`, `engine/wallet_auth.py` | the store, the purge task, nothing on disk | POST stage, GET retrieve (`?burn=true`), DELETE payload, GET inbox, stats and RAM pages; start, purge loop, graceful stop | clients over HTTP |
| Broker key relay, `broker/main.py` 272-360 | a dict address -> key | POST and GET dpki | dPKI clients |
| dPKI contract, `contracts/dPKIRegistry.sol`, `scripts/deploy_dpki.py` | registry of keys, event log; its address, which follows from the deployer's nonce | deployment, `registerPublicKeyWithPoP`, which parses the PEM text and checks an RSA proof, `getKeyRecord` | transactions |
| dPKI client, `engine/dpki_client.py`, `pop_helper.py` | class-wide key cache and connectivity verdict | `get_public_key_with_provenance`, `register_public_key`, `is_connected` | chain, relay |
| Accounts, `engine/accounts.py` | one JSON file | `register`, `authenticate`, `change_password`, `delete_account`, `set_role`, `ensure_roles` | UI sessions, its command line |
| Dashboard, `ui/app.py` 1616-2173 | of a browser session: last stats, last RAM page, peak, curve | a refresh every two seconds: ask stats, ask RAM, keep, draw | broker over HTTP |
| Messenger, CloakDrop and transfers, `ui/app.py` 748-920, 1055-1204, 1440-1600 | state of a browser session | log in and out, poll the inbox, send, create and claim a drop, pay | broker, dPKI client, chain |
| Command line client, `engine/cli.py` | none | `send`, `receive`, `keygen`, `register` | broker, dPKI client |
| AES core, `core/*.c`, `engine/wrappers/aes_wrapper.py` | the C buffers of one call | pad, encrypt, decrypt, unpad | both clients |
| Key wrapping, `engine/cli_adapter.py`, `rsa_envelope.py`, `ecies_envelope.py` | none | wrap and unwrap a session key | both clients |
| Signatures, `engine/signer.py` | none | `sign_file`, `verify_file` | both clients |
| Redis store, `memory_store.py` 371-538 | a Redis server, shared by brokers and outliving them; counters of the process | the same methods as the RAM store, one or two Redis commands each | opt-in backend of the broker |

How they interact. The broker's handlers and its purge task are coroutines on
one event loop; they call the store synchronously. The store itself claims to
be thread-safe and is also used that way by tests. The UI runs each browser
session on a thread of one process, so the class variables of `DPKIClient` and
the account file are shared by sessions. A client looks a recipient's key up
(chain, then cache, then relay), stages a package, and the recipient's client
lists its inbox and retrieves with a signature of its wallet.

What is hard, and what must be true all the same:

- *RAM store.* The clock is read outside the lock; purges loop over packages;
  the event deque forgets. No package may expire early, every byte staged must
  be wiped, and the log must tell the truth about what it still mentions.
- *Broker.* Requests are lost, repeated, delayed; tickets are reused; a crash
  falls into a purge. A package goes only to its recipient, never again after
  it was burned, and leaves RAM in the end.
- *dPKI.* Nodes fail between two RPCs, replies are lost after the node acted,
  transactions are mined late, threads overtake each other in a shared cache.
  A development chain is stopped and started empty under a process that goes on,
  and the contract is not there until somebody deploys it with the right nonce:
  until then a registration costs its fee, succeeds and registers nothing.
  A key on chain must be proven, the log must be its history, and what a
  client calls a chain key must have been one.
- *Key text.* The contract walks through Base64 and DER by hand, with offsets it
  computes from lengths that have a short and two long forms, on files that
  other programs wrote in two formats, copied with other line ends, or cut. A
  whole key file must give its key and a cut one none, and only one opened
  block may pass for a proof.
- *Clients.* A page's script is stopped wherever the user clicks, a login
  included; the inbox is read again every two seconds with the same packages in
  it; answers are lost; two sessions may belong to one wallet, and one session
  to two users in turn. A message is shown once, to its reader, and nothing that
  does not open holds it up; what one user has seen the next one does not see; a
  transfer is shown when it was mined.
- *Redis store.* What the RAM store does under its lock is a GET and a DEL here,
  or a KEYS and a GET for each key; other brokers and Redis' own expiry go on
  in between, and a command may raise when it is done. What one broker has
  called destroyed must stay so for all of them, and an inbox must list what
  was there all along.
- *Dashboard.* A refresh is two requests and two assignments to the session;
  Streamlit may stop it at each, the broker may die between them, and the
  administrator may point it at another broker. Its promise is that every byte
  that entered RAM is there or overwritten, so its figures must add up, and
  must not move while nobody answers.
- *AES, wrapping, signatures.* Buffers are sized in Python and filled by C
  loops; an error that encryption and decryption share still round-trips; data
  is damaged or exchanged on the way, anybody can wrap another key for the
  recipient, and the signature covers the ciphertext but neither the iv nor the
  wrapped key. What a valid one is worth must be known exactly.
- *Accounts.* Sessions load, derive for a third of a second, and save the
  whole file through one temporary file. Names stay unique, the file stays
  whole, and a call does what it says - as far as the code achieves that.

## 2. Modules

    StoreProperties -> RamStore              the RAM store as a value
    MemoryStore     -> StoreProperties       threads and the lock
    Broker          -> StoreProperties       handlers, purge task, crash, restart
                    -> Mailbox (INSTANCE)    what the broker promises
    Backend         -> StoreProperties       broker processes over RAM or one Redis
    Monitor         -> Backend               the dashboard over them
    Boxes                                    packages as users see them
    Mailbox         -> Boxes                 and who was handed what
    Clients         -> Boxes                 page sessions, command line, transfers
    KeyRegistry                              the contract as a value
    KeyText                                  its parsing and padding, as functions
    Registration    -> Dpki, KeyText         the bytes under its transactions
    Dpki            -> KeyRegistry           chain, relay, threads of a client process
    Accounts                                 the account file and its sessions
    Sealing                                  padding, CBC, wrapping, signing, opening
    AES128          -> Bytes                 the block cipher of core/aes128.c
    FIPS197         -> Bytes                 AES by its standard, not code of the
                                             repository: the reference for AES128

    RamStoreProofs, MemoryStoreProofs, BrokerProofs, MonitorProofs,
    DpkiProofs, AccountsProofs, ClientsProofs, SealingProofs       the theorems
    MCMemoryStore, MCBroker, MCClients, MCDpki, MCAccounts, MCMonitor,
    MCRegistration, MCSealing                                      instances for TLC

(`A -> B`: A extends B.) A definition that starts with the comment "Mutant" is
not part of the model: it is a plausible bug in the code next to the definition
it would replace, and shows that the property it names can fail.

**RamStore.** The record `Store` has the fields of `InMemoryStore`; `Stage`,
`Retrieve`, `PurgeOne`, `CountExpired` map a store to the store a method leaves
behind. The four sensitive fields of a package are one payload value with a
`Size`; wiping a buffer is counting its bytes in `bytes_wiped`. `order` keeps
the dict's insertion order, in which the purge loops run. Rate counters and
timestamps of events are left out: nothing reads them back.

**MemoryStore.** One action per method that takes the lock once. `stage` and
`purge_expired` read the clock before the lock, so they begin in a step of
their own (`StageBegin`, `PurgeExpiredBegin`); the loops of `purge_expired` and
`purge_all` are steps of one package each with the lock held.

**Broker.** A handler has no await between its first line and its answer, so
it is one action, with the checks in the code's order (`Verdict`: 404, 401,
403). The lookup counts and may purge even when the answer is a refusal, as in
the code, because `store.retrieve` comes first. Purges are steps of one
package, so that `Crash` can come between; handlers wait (`Serving`). A burned
package travels in `wire` until it arrives or is lost. Signatures: a request
names its signer, and verification is that signer and header are the same
wallet and the timestamp is in the window. Every combination may arrive at any
moment, which includes repeated and delayed requests.

**Mailbox** is the abstract specification: boxes, packages put in, handed only
to the recipient, vanishing at any moment, never handed out after that.
`Broker!ImplementsMailbox` maps to it: the boxes hold what is held, not expired
and not being shut down.

**KeyRegistry.** Storage and events of the contract. Parsing of PEM and DER and
RSA verification together are `ProofHolds`: the proof was made with the private
half of the submitted key, over the sender's address. A revert changes nothing.
`Emptied` is the contract of a chain started anew; the log is a history and goes
on, with a mark (`ChainReset`), so that "was on chain during the call" keeps its
meaning when chains come and go.

**KeyText.** What stands behind `ProofHolds`: from the text between the dashes to
the modulus and exponent, and the check of what the signature opens to. A
function of the contract that may revert - by a `require`, an index outside of
an array, an underflow - is the set of what it returns, which is then empty. A
loop over an index is the set of the places it stops at. `X509`, `Pkcs1` and
`PemOf` write a key file as OpenSSL and the Python library do; they are external and
the reference the parser is held against.

**Dpki.** A call is a record with a program counter; a step is what a thread
does between two network calls or two uses of the shared class variables. In
`is_connected`, `Stamp` (the time of the check) and `Probe` (the verdict) are
two steps because the code sets the one before the RPC and the other after it.
Every RPC may fail; `Send` may fail after the node took the transaction. `Mine`
is separate, so a receipt may come after the client has given up. Others
register for the same wallet, replay published proofs, and post to the relay.
`ResetChain` starts the chain anew: registry, pool, receipts and the contract's
code are gone, while cache, verdict and calls of the process stay. `Deploy` is a
transaction of the deployer; only the one with the nonce `HomeNonce` makes the
address that clients are configured with, and if it fails that address stays
empty. A transaction to an empty address succeeds and does nothing (`Mine`); the
read-back (`ReadBack`) is what catches it. A receipt is found by wallet and
nonce: after a reset another transaction of the same nonce may be taken for
one's own, which allows more than the code does.

**Registration.** The bytes under Dpki's transactions. A key stands for any modulus
and exponent of its `Material`; its files, over copies and cuts of their text,
are read by `parseRsaPem`, and `Judged` is the contract's verdict on what a
signature opens to. The modular exponentiation is the chain's precompile: a
signature opens to the encoding of what was signed under its own key, and under
another to any block of the right length (`Openings`) but the encoding of a
wallet's digest. `ProofsAreChecked` is then what justifies `ProofHolds`: the loops over the bytes
give the verdict the predicate gives.

**Accounts.** A call loads (one step), then opens, writes and renames (three
steps); `change_password` and `delete_account` load twice. A file that does not
parse reads as empty, as `_load_file` has it. The handle of a session stays with
its file: when another session renames the temporary file, a write still under
way goes into `accounts.json`. Writing over an older text keeps its tail, so
the result may be no JSON (`Over`). `Abort` ends a call anywhere.
PBKDF2 and Fernet are: a record opens with the password it was made with.

**Clients.** The users of the broker, over `Boxes`, the part of the abstract
mailbox that has no observer: what the broker may do to a package is put it in,
hand it to its recipient, drop it at any moment, and the refinement says that
it does nothing else. A session of the page runs one script; what the script waits for
is in `busy`, and `Abandon` ends the script there: the answer was lost, came
too late, or the user has clicked. What the call did stays done. A login opens
the gate first (`Login`, which sets `my_pk`) and drops the last user's history
after that (`DropMessages`, `DropTicket`), so it may be cut off in between; the
history variable `since` has the wallets that were logged in since a login last
came to its end. `poll_inbox` takes the items of the answer that are not shown
yet (`NewItems`), `PollItem` handles one; a script stopped within the loop has
handled a prefix (`end`). `Claim` keeps nothing of what the broker handed out. A package
is what was sealed in it: a chat message or the notice of a transfer opens in the chat, a
drop (no gzip) and a file of the command line (RSA) do not. `KeyOf` is what
module Dpki's lookup gives: on a living chain an RSA key or nothing, since the
page cannot prove possession of an RSA key (`app.py:953`), with a dead chain
the wallet's own key if the relay has it. The page can wrap only with the
latter, the command line only with the former. Transfers
are split at the count of the nonce, at the node's acceptance and at the
receipt, so two sessions of one wallet can be between any two of them. Notices
are those that `send_eth` makes.

**Backend.** `Start` takes what the process finds in its environment and
chooses the store as the end of `memory_store.py` does, or refuses to start. A
handler over RAM is one step and uses `RamStore`. A handler over Redis is one
step per command; `call` holds its locals between two. The client's calls to
Redis are synchronous, so a broker does nothing else meanwhile, but the other
broker does, and Redis expires keys by itself. `RedisError` ends a command
after Redis has done it or not: a 500 for a handler, and the end of the process
for the purge in `lifespan`. A package in Redis keeps the number of its staging
(`order`), so that a new one under an old ticket is told from the old one;
`burnt` are the numbers somebody was told are destroyed. `purge_expired` and
`purge` of a missing key do nothing with Redis and are left out.

**Monitor.** The fragment that redraws itself every two seconds: `AskStats`,
`AskRam`, the two assignments to the session, `Draw`, each a step, and `Rerun`
may end it at any of them. `Stats` and `RamSnapshot` are what the two endpoints
answer, expired packages that are not purged included (the first counts them
out of the packages but not out of the bytes). Over Redis /ram is a 500,
because RedisStore has no `ram_snapshot`, and the dashboard goes on with the
stats alone. Figures, bars, rows, events, the shortest TTL, the progress bar
and the curve are in `screen`.

**Sealing.** Bytes are numbers and a C buffer is a sequence; a turn of a CBC
loop is a step, with the index arithmetic of the code, so a loop that reads or
writes past a buffer is a state. AESWrapper's allocations, its checks of
lengths and return codes, and `pkcs7_pad` and `pkcs7_unpad` are operators. The
block cipher is a parameter: a pair of functions of a key. `Arrivals` says what
may become of a package on the way: fields are damaged, cut or lost, somebody
else wraps another key for the recipient or signs a ciphertext. Four clients seal and open - chat, CloakDrop,
command line, and the CLIAdapter, whose `unwrap_aes_key` splits at the wrong
place but has no caller - each with its own order of unwrapping, verifying,
decrypting and unpadding. RSA-OAEP, ECIES and RSA-PSS are records that name the
key pair.

**AES128** follows `aes128.c`: S-boxes, `gmul`, the key schedule and the rounds
on a block of 16 bytes. `FIPS197` defines the same cipher from the field
GF(2^8): the S-box as inverse and affine map, MixColumns as a matrix product.
`MCSealing` checks one against the other and gives the first to Sealing.

## 3. Runs

| Run | Shows | Bounds |
|---|---|---|
| `store_threads` | ledger of bytes, ledger of events, log against dict, expiry counter, no early expiry, complete passes, under two threads | 2 threads, 2 tickets, 2 sizes, 3 stagings, clock to 3, log of 4 |
| `broker` | a stop wipes and RAM is accounted for, through crashes and restarts; who is served what, and inbox against retrieve; nothing burned is served again; refinement of Mailbox; every package leaves RAM | 2 tickets, 2 wallets of which one has two spellings, 2 stagings, TTLs 1 and 2, purge interval 1, clock to 3, 1 lookup that finds a package in each run of the process, 2 runs of the process, log of 3 |
| `broker_loss` | violation: a lost answer takes the package with it | 1 staging |
| `clients` | what sessions show and to whom, also after logins that were cut off, transfers against mined transactions, and that messages get shown | 2 sessions, one used by two people and one by one of them, 2 wallets, 2 tickets, 1 transaction |
| `dpki_lookup` | lookups and registrations of two threads, node up and down, relay, restarts of the process and of the chain | 1 wallet, 2 keys, 2 transactions, 1 reset that undoes at most one of them, the contract at the deployer's first address |
| `dpki_register` | registrations of two wallets, one of which lacks a key, before and after the contract is deployed again; whole key files give their key, cut ones no other; verdicts on the bytes of a proof are those of the model | 2 wallets, 2 keys, 3 transactions, or 1 after a reset that undoes at most one, the contract at the deployer's second address; 8 moduli of 62 to 256 bytes in 2 formats, 4 copies of a file, cuts at every 8th place, near the end, of the body alone and of a line; openings with one byte changed or the padding cut |
| `dpki_offline` | violation: the offline branch with a node that never fails | 2 threads |
| `accounts` | unique names, whole file, exact quiet calls | 2 sessions, 3 names of which 2 are spellings of one, 2 passwords, 2 keys, 3 calls |
| `accounts_race` | violation: a registration removes accounts | as above |
| `sealing` | the cipher is AES, the loops stay inside their buffers, data comes back, unpadding is exact, damage stays local, what a valid signature is worth | data of 0, 1, 15, 16, 31 and 33 bytes, a key of 16 bytes and one of 15, 2 signers, 3 recipients of both kinds, damage to every part of a package, 2 keys that somebody else wraps, a ciphertext that the other pair signs |
| `sealing_intact` | violation: a valid signature over other data | as above |
| `monitor` | burnt is burnt at every broker, the inbox is fair, the dashboard's books balance and freeze offline | 2 brokers, 2 tickets, 2 wallets, TTL 1, clock to 1, 2 each of stagings, lookups, starts and refreshes and 5 of them together, log of 3, curve of 1 |

Why the bounds are enough. Each property needs at most two actors in each
other's way and one ticket, wallet or name to be used twice with a second one
beside it: hence two threads, two tickets, two wallets, two keys. Two or three
stagings and a log of 3 or 4 let the deque forget and a ticket be reused after a purge.
TTLs of 1 and 2 with a drift of 1 put a request before, at and after both
ends of its window. Two runs of the broker include a crash in a purge, an early
restart, and a staging on either side. In Accounts three calls are one to
set up, two to race, or two crashes and one call that must not build on what
they left. In Clients one id is a message and one a package that does not open
beside it, or a transfer and its notice; one session each for two wallets, two
for one, or one that changes hands (`Passwords`). In Sealing the lengths are those
around one and two blocks and the empty one; one of the keys that others wrap
(`OtherKey`) makes of a last block something that unpads, so the package opens to
other data under a valid signature. A
chain of Dpki takes `MaxTransactions`, the next one two fewer, and is started
anew `MaxResets` times, when it has at most `MaxLost`; `Deploy` stops at the
transaction whose address counts. One key lost to a reset and an answer of
either chain are within these, and in `dpki_register` a registration at the
address before the contract is there. In `dpki_register` a modulus of 127 or
255 bytes, with and without a zero in front, is where its length takes another
form, and 62 bytes are as few as a proof needs. In `monitor` five calls are a
start and a staging at each of two brokers and a refresh, or two starts, a
staging and two lookups that cross. The proofs of section 5 remove the bounds
for most properties.

`MaxClock`, `MaxExpiry`, `MaxStaged`, `MaxRetrieved`, `MaxRuns`,
`MaxTransactions`, `MaxResets`, `MaxLost`, `MaxMined`, `MaxCount` and
`MaxCalls` stop counters that have no bound in the code; they are in the guards
of the action they bound. Because of them a behaviour may end, so the runs of
Broker, Dpki, Accounts and Monitor do not report deadlock, nor does `clients`,
which draws ids from the finite set `TxIds`, or `sealing`, which ends when a
package is opened; `store_threads` does: there the clock, retrievals and purges
always go on, and a thread that cannot get the lock would show.

Symmetry is used for tickets, threads, brokers, sessions, keys and passwords, which no
definition tells apart, and only in runs without liveness.

Fairness. Only `broker` and `clients` assume any. In `broker`: weak fairness of time, of a purge
that has begun (the loop is synchronous code) and of the wake-up of the purge
task (`asyncio.sleep` on an event loop whose handlers all return). Nothing is
assumed of clients, the network, stops or starts. The clock of a run ends at
`MaxClock`; a package expires by `MaxExpiry`, and `BoundsLeaveRoom` in
`MCBroker` asks that the purge after it still falls into the run. In
`clients`: strong fairness of a whole poll of each session, because a chat page
polls every two seconds (`app.py:1350`) and at the start of every script
(`app.py:1204`), whatever the user clicks in between; weak fairness of the next
item of the loop, which calls only what ends within a timeout, and of the end
of any other call. Nothing is assumed of users, the node or the broker.

## 4. What the violations say

Four runs check a statement of the repository that the code does not keep.

1. `broker_loss`: `retrieve(burn=true)` purges before the answer is delivered
   (`main.py:192`); `memory_store.py:199-202` and `SECURITY.md:53` promise that
   a network failure does not lose the data.
2. `dpki_offline`: `is_connected` stamps the check before its verdict is known
   (`dpki_client.py:140`), so a second thread works offline although the node
   is up; lines 479-480 exclude that.
3. `accounts_race`: two registrations at once empty the account file or drop
   each other's accounts (`accounts.py:119-124`, `149-168`); `ui/app.py:775-776`
   says that accounts that exist are not overwritten.
4. `sealing_intact`: the signature covers the ciphertext alone
   (`cli.py:166`, `232`), so with another iv, or with another key wrapped for the
   recipient, the data differs from what was sealed while the signature is
   valid; `cli.py:234` then says that it is 100% intact, and `README.md:150` that
   a change of one bit is refused. What a valid signature is worth is
   `SignatureCovers`.

Other statements that the models contradict, without a run of their own:

- `SECURITY.md:29` (the receiver must verify before decrypting) and
  `README.md:150`: the chat decrypts and parses before it verifies, because the
  sender's name is inside, and shows what it could not verify with another badge
  (`ui/app.py:1164-1197`); the command line verifies only if it was given a key, and
  decrypts whatever the outcome (`cli.py:229-245`); CloakDrop never verifies
  (`ui/app.py:1589-1591`). No property asks for any of it: `MessageIsShown` speaks
  of messages whose sender's key can be looked up.
- `ui/app.py:837` calls a login a new session with nothing left of the old one.
  The gate opens at 831 and the history goes at 838-840 (878-880 for a new
  wallet); a script stopped in between leaves the new user with the messages and
  the ticket of the last one. `HistorySinceLogin` says what holds.
- `dpki_client.py:347` and `373` count on the post to the broker. Its signature has
  130 characters (line 314), the broker's schema asks for 132
  (`schemas.py:117-123`), so it is answered 422 (`OwnRequest` and
  `PostAnswered` of Dpki), and no caller looks at that.

What else the models show of the code, without a statement it contradicts:

- The sender's box Burn-After-Read (`ui/app.py:1522`) is sealed into the drop
  (line 1535) and read by nobody; the claimer's own box decides (1567, 1580).
- Over Redis two brokers may serve one burn each at the same time:
  `BurntStaysBurnt` speaks of lookups that begin after the answer. A package
  staged anew between the GET and the DEL of a burn is deleted unread. The
  graceful stop of one broker deletes the packages of all of them.
- The dashboard's WIPE bar is `total_retrieved` (`ui/app.py:1759`): lookups
  without a wipe and not wipes without a lookup. An interrupted refresh may
  leave the stats of one fetch, or of one broker, with the RAM page of another
  in the session; `DrawingAddsUp` speaks of figures of one answer.
- The chat shows any sealed JSON of kind transfer as a transfer of the sender it
  names (`ui/app.py:1157-1197`). `TransfersCovered` holds while notices are made
  by `send_eth`.
- `unwrap_aes_key` (`cli_adapter.py:58`) splits at 32 what `wrap_aes_key` packs as
  16 and 16; nothing calls it.
- The page and `DPKIClient` expect the contract at the address of the deployer's
  second transaction (`ui/app.py:482`, `dpki_client.py:103`), the command line at
  that of the third (`cli.py:46`), `test_register.py:5` at that of the first: by
  default each talks to another contract, or to none (`HomeNonce`).
- Between a reset and the deployment a registration is mined with status 1 and
  no effect; the read-back turns it into a failure.
- The page registers without the RSA private key (`ui/app.py:953`), so on a
  living chain it cannot register at all.

## 5. Proofs

For every number of threads, tickets, wallets, keys, sessions and names, and
every bound. The assumptions are the ASSUMEs of the modules: constants are of
their types, sizes and TTLs are naturals, the set of tickets is finite, `None`
is no value of another kind. TLC evaluates them in the runs.

- `MemoryStoreProofs`: `TypeOK`, `EventLedger`, `LogConsistent`,
  `NoEarlyExpiry`, `PassIsComplete`, `BytesLedger`, `ExpiryCounter`. The invariant adds to the store's own
  consistency (`Consistent`, with lemmas per method in `RamStoreProofs`) what a
  thread knows between its steps: only the lock's holder is in a loop, the
  clock value it read is not in the future, its list is what that value makes
  expired. The last part is where the lock matters: a staging in between would
  break it. The sums of `BytesLedger` and `ExpiryCounter` are folds, recursive
  functions on the subsets of a set; that such a function exists and is unique
  is proved in `RamStoreProofs` from the well-founded order of the subsets, by a
  smallest counterexample instead of an induction theorem. `ExpiryCounter` needs
  that a package whose expiry is counted is on some thread's list or gone (`Lags`).
- `BrokerProofs`: `TypeOK`, `RamAccounted`, `StopLeavesNothing`,
  `ServedOnlyToRecipient`, `NoServeAfterBurn`, `InboxMatchesRetrieve`. The
  invariant numbers stagings over all runs (`NumbersInv`): no two packages held
  have a number, and none held is a burned one (`BurnedInv`), so a reused
  ticket is never mistaken for the old package. `SweepInv` says what is left
  to purge while the broker stops.
  `BrokerImplementsMailbox`: each step of the broker is a step of Mailbox or a
  stutter. A tick that makes packages expire is a `Vanish`, a sweep of
  already expired ones a stutter.
- `MonitorProofs`: `BurntStaysBurnt`, `InboxIsFair`, `DrawingAddsUp`,
  `FreezesOffline`. The number of a staging is
  never given twice and a package never changes its ticket (`ServerOK`), so a
  burn under way deletes its package or finds it gone (`BurnOK`), and a listing
  has listed what was there and still is, or will come to it (`InboxOK`). The
  dashboard's books rest on the store's (`BytesAccounted`, the sum again), carried
  through the refresh: what the session keeps, an answer under way holds or the
  screen shows balanced when it was taken. Packages of no bytes are staged too,
  so a bar of bytes may be zero while the list is not.
- `DpkiProofs`: `TypeOK`, `KeysAreProven`, `LogTellsHistory`,
  `ChainSourceIsTrue`, `LookupIsCurrent`, `RegisteredIsOnChain`. Two additions:
  every proof in the pool and in the log was made by an owner of its key
  (`ProofsGenuine`), so a replay for another wallet fails; and what each program
  counter knows of the chain since the call began (`CallsOK`), which survives
  the transactions of others because the event log only grows. It also grows over a
  reset, which is an event of the history: what a call read of a chain that is gone
  is still true of a moment of the call (`KeyDuring`, `NoKeyDuring`), and the
  registry, emptied, is again what the events since then say (`ResetKeepsLog`,
  `ResetKeeps`, `GrowingKeeps`). So the six theorems hold for any number of resets
  and deployments, and as long as no contract is there.
  Of the contract's parser it proves, for keys of any length a DER length of two
  bytes can tell: the DER of a key in either format gives modulus and exponent
  back (`Pkcs1IsRead`, `X509IsRead`); of a DER cut anywhere nothing is read, or
  the key itself (`CutSaysNothingElse`); Base64 decoding undoes encoding for every
  sequence of bytes (`DecodingInverts`); only the encoding of a digest opens its
  proof (`OneEncoding`), and so `ProofsAreChecked` of Registration, for any keys and
  openings, from the assumptions that digests are 32 bytes and differ and that
  keys have the 62 bytes a proof takes (with fewer, the contract refuses all).
- `AccountsProofs`: `TypeOK`, `NamesUnique`, `WholeUnlessShared`,
  `QuietCallIsExact`. Unique names need the same of the temporary file and of
  every book about to be saved (`UniqueInv`); the whole file needs that without
  sharing the one saver's temporary file is blank while it writes and its book
  when it renames (`SoleInv`); exactness that what a call not overtaken has
  loaded is still what the file says (`QuietInv`).
- `ClientsProofs`: `TypeOK`, `ShownOnce`, `HistorySinceLogin`, `TransfersCovered`.
  `SafeInv` relates a session's history to the packages ever staged, to the
  wallets in `since` (`HistoryOK`: whoever is logged in is one of them, and a login
  under way has dropped the messages before it drops the rest) and to what its
  script waits for: the package just sent is not shown yet (`BusyOK`), an
  item of the loop is shown only if it was when the loop began, the id of a
  notice under way is nobody else's (`NoticesOK`). For transfers the count is
  strengthened to all ids of a wallet's transfers - shown, staged or about to
  be - plus the receipts mined and not yet seen (`CountsOK`); it needs that of
  the waiting transactions with the next nonce there is only one, and that in
  the pool (`NoncesOK`).
- `SealingProofs`: the types, `LoopsStayInside`, `UnpadExact`, `RoundTrip`,
  `DamageIsLocal`, `SignatureCovers`, for data of any length and any block
  cipher whose decryption undoes its encryption. Of a package that arrives they
  assume (`Faults`) that its fields are bytes, that a wrapped key is any bytes
  wrapped for any recipient, or none, and that nobody but the signer signs as the
  signer. The invariant says which blocks the loop has finished and what its kept
  block is: the ciphertext before it, as sealed on the way out and as arrived on
  the way in; and that the key is a block, the sender's if the package is.

The types of `Accounts` and `Clients`, like those of `Sealing`, are
proved and in no run.

Only model-checked: `EncryptionIsAES` (Bitwise, which the prover does not take);
`KeyFilesAreRead` from text to key, because between the text
and the Base64 stands a filter of the library, recursive over data - their DER and
Base64 parts are the theorems above;
liveness (`EveryPayloadLeaves`, `MessageIsShown`); and the violations.

## 6. Not modelled

Left out, because they keep no state or decide nothing:

- of the dashboard, the times of samples and events and their marks on the
  curve, units, layout, and tiles that show constants;
- of the page, the point between lines 831 and 832, where only `my_pk` is new (key
  and address are one value of the model), `active_role`, and the steps of a
  logout (748-754), which is one action; contacts and the choice of a peer, `get_status` for the banner,
  file and text contents, styles;
- of the wrapper, `encrypt_file` and `decrypt_file`, which read and write files
  around what is modelled, and the overflow of `(int)padded_len`, which takes
  data of 2 GB in one call;
- the modular exponentiation of the contract, which is the chain's precompile;
- sealed transfer notices that `send_eth` did not make;
- RSA, ECIES, PBKDF2, Fernet and secp256k1: libraries, as who made something
  with which key;
- scripts: figures, reports, benchmarks, start-up, demonstrations;
- blocks undone one by one, as on the public chains `deploy_dpki.py:23` names
  beside the development node: the client awaits no confirmations, so there its
  success is that the key was in a block.

What is modelled and not proved is named, with the reasons, at the end of
section 5.
