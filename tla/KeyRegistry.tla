---------------------------- MODULE KeyRegistry ----------------------------
(***************************************************************************)
(* The contract contracts/dPKIRegistry.sol as a value: its storage and the *)
(* events it has emitted, and its functions as operators.  A transaction   *)
(* that reverts leaves the value as it is.  A chain that is started anew   *)
(* empties the storage; the log, as a history, goes on.  Module Dpki says  *)
(* who sends transactions, when they are mined and when the chain ends.    *)
(***************************************************************************)
EXTENDS Integers, Sequences, FiniteSets

CONSTANTS
  Wallets,   \* Ethereum accounts
  Keys,      \* RSA public keys, as PEM texts the contract can parse
  Holds,     \* Holds[w]: the keys whose private half the owner of w has
  None       \* the empty string of an absent key; Python's None

ASSUME KeyRegistryAssumption ==
  /\ Holds \in [Wallets -> SUBSET Keys]
  /\ None \notin Keys

\* An RSA signature on sha256(address), made with the private half of key.
Pop == [key: Keys, address: Wallets]

KeyRecord == [publicKeyPem: Keys, hasPoP: BOOLEAN]

\* In the history: the chain and all that was on it are gone.
ChainReset == [name |-> "ChainReset"]

Event ==
  {ChainReset}
  \cup [name: {"PublicKeyRegisteredWithPoP"}, user: Wallets, publicKeyPem: Keys,
         signature: Pop]
  \cup [name: {"KeyRotated"}, user: Wallets, oldPem: Keys, newPem: Keys]

Contract == [registry: [Wallets -> KeyRecord \cup {None}], log: Seq(Event)]

NewContract == [registry |-> [w \in Wallets |-> None], log |-> <<>>]

\* The contract deployed again on a chain started anew.
Emptied(c) == [registry |-> NewContract.registry, log |-> Append(c.log, ChainReset)]

ASSUME RecordAssumption == None \notin KeyRecord

-----------------------------------------------------------------------------

\* Mutant: the signature is checked, the address it was made for is not.
ProofOfAnyone(sender, pem, signature) == signature.key = pem

\* parseRsaPem, sha256(msg.sender) and verifyRsaPkcs1v15 together; byte by
\* byte they are in KeyText and Registration.
ProofHolds(sender, pem, signature) ==
  signature.key = pem /\ signature.address = sender

Registered(w, pem, signature) ==
  [name |-> "PublicKeyRegisteredWithPoP", user |-> w, publicKeyPem |-> pem,
   signature |-> signature]

Rotated(w, old, pem) ==
  [name |-> "KeyRotated", user |-> w, oldPem |-> old, newPem |-> pem]

\* Mutant: every registration over an older one is logged as a rotation.
RotationsAlways(c, w, pem) ==
  IF c.registry[w] # None
  THEN <<Rotated(w, c.registry[w].publicKeyPem, pem)>>
  ELSE <<>>

\* The KeyRotated event, when the wallet had another key.
Rotations(c, w, pem) ==
  IF c.registry[w] # None /\ c.registry[w].publicKeyPem # pem
  THEN <<Rotated(w, c.registry[w].publicKeyPem, pem)>>
  ELSE <<>>

registerPublicKeyWithPoP(c, sender, pem, signature) ==
  IF ProofHolds(sender, pem, signature)
  THEN [registry |-> [c.registry EXCEPT
                        ![sender] = [publicKeyPem |-> pem, hasPoP |-> TRUE]],
        log |-> Append(c.log \o Rotations(c, sender, pem),
                       Registered(sender, pem, signature))]
  ELSE c

-----------------------------------------------------------------------------
(***************************************************************************)
(* What the event log says                                                 *)
(***************************************************************************)

Registers(e, w) == e.name = "PublicKeyRegisteredWithPoP" /\ e.user = w

\* What ends the time a wallet has the key it had.
Ends(e, w) == Registers(e, w) \/ e = ChainReset

\* The wallet had this key on chain at some moment since the first n events.
KeyDuring(log, n, w, pem) ==
  \E i \in DOMAIN log :
    /\ Registers(log[i], w) /\ log[i].publicKeyPem = pem
    /\ \A j \in i+1..n : ~Ends(log[j], w)

EverOnChain(log, w, pem) == KeyDuring(log, 0, w, pem)

\* The wallet had no key when there were n events.
NoKeyAt(log, n, w) ==
  \A i \in 1..n : Registers(log[i], w) => \E j \in i+1..n : log[j] = ChainReset

\* It had none at some moment since then.
NoKeyDuring(log, n, w) == \E m \in n..Len(log) : NoKeyAt(log, m, w)

\* Two registrations of w in a row on one chain, whatever others do between.
InARow(log, w, i, j) ==
  /\ i \in DOMAIN log /\ j \in DOMAIN log /\ i < j
  /\ Registers(log[i], w) /\ Registers(log[j], w)
  /\ \A k \in i+1..j-1 : ~Ends(log[k], w)

RegistryMatchesLog(c) ==
  \A w \in Wallets :
    IF c.registry[w] = None THEN NoKeyAt(c.log, Len(c.log), w)
    ELSE KeyDuring(c.log, Len(c.log), w, c.registry[w].publicKeyPem)

ChangesAreLogged(log) ==
  \A w \in Wallets, i, j \in DOMAIN log :
    InARow(log, w, i, j) /\ log[i].publicKeyPem # log[j].publicKeyPem =>
      log[j-1] = Rotated(w, log[i].publicKeyPem, log[j].publicKeyPem)

\* The rotation at n is that from the registration at k to the next one.
RotationFrom(log, n, k) ==
  /\ InARow(log, log[n].user, k, n+1)
  /\ log[k].publicKeyPem = log[n].oldPem
  /\ log[n+1].publicKeyPem = log[n].newPem
  /\ log[n].oldPem # log[n].newPem

RotationsAreChanges(log) ==
  \A n \in DOMAIN log : log[n].name = "KeyRotated" =>
    \E k \in 1..n-1 : RotationFrom(log, n, k)

=============================================================================
