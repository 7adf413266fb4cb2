----------------------------- MODULE DpkiProofs -----------------------------
(***************************************************************************)
(* Proofs about module Dpki, for any wallets, keys and number of threads.  *)
(*                                                                         *)
(* IInv adds to the properties what each program counter knows: a lookup   *)
(* that has read a key holds one that was on chain since it began, and so  *)
(* does a registration once it is confirmed.  These facts survive what     *)
(* others mine, because the event log only grows.                          *)
(*                                                                         *)
(* Behind Dpki's predicate ProofHolds is module KeyText.  The second half  *)
(* shows that the contract reads the key that was written, in either       *)
(* format, for lengths of one, two or three bytes; that DER cut short says *)
(* nothing else; that Base64 gives back its bytes; and that one message    *)
(* only opens a proof.                                                     *)
(***************************************************************************)
EXTENDS Registration, SequenceTheorems, TLAPS

RegisterPCs == {"nonce", "send", "receipt", "read_back", "confirmed", "post",
                "post_offline", "keep_offline"}

CallOK(call, log) ==
  /\ call.since <= Len(log)
  /\ call.op = "register" => call.key \in Keys
  /\ call.pc \in RegisterPCs => call.op = "register"
  /\ call.rsa # None => call.rsa \in Holds[call.wallet]
  /\ call.pc = "send" => call.rsa # None
  /\ call.pc = "keep_broker" => call.found \in Keys
  /\ call.pc = "conclude" =>
       IF call.found = None THEN NoKeyDuring(log, call.since, call.wallet)
       ELSE KeyDuring(log, call.since, call.wallet, call.found)
  /\ call.pc \in {"confirmed", "post"} =>
       KeyDuring(log, call.since, call.wallet, call.key)

CallsOK == \A t \in Threads : calls[t].pc # "idle" => CallOK(calls[t], contract.log)

\* Every proof of possession was made by an owner of the key.
Genuine(signature) == signature.key \in Holds[signature.address]

ProofsGenuine ==
  /\ \A tx \in pool : Genuine(tx.signature)
  /\ \A i \in DOMAIN contract.log :
       contract.log[i].name = "PublicKeyRegisteredWithPoP" =>
         Genuine(contract.log[i].signature)

IInv == /\ TypeOK /\ CallsOK /\ ProofsGenuine
        /\ KeysAreProven /\ LogTellsHistory
        /\ ChainSourceIsTrue /\ LookupIsCurrent /\ RegisteredIsOnChain

-----------------------------------------------------------------------------
(***************************************************************************)
(* The event log                                                           *)
(***************************************************************************)

\* new is old with events added at the end.
Grown(old, new) ==
  /\ old \in Seq(Event) /\ new \in Seq(Event)
  /\ Len(old) <= Len(new)
  /\ \A i \in 1..Len(old) : new[i] = old[i]

\* What a wallet had on chain since n events it still had after more events.
LEMMA DuringGrows ==
  ASSUME NEW old, NEW new, Grown(old, new), NEW n \in Nat, n <= Len(old),
         NEW w, NEW pem, KeyDuring(old, n, w, pem)
  PROVE  KeyDuring(new, n, w, pem)
<1>1. PICK i \in DOMAIN old : /\ Registers(old[i], w) /\ old[i].publicKeyPem = pem
                              /\ \A j \in i+1..n : ~Ends(old[j], w)
  BY DEF KeyDuring
<1>2. i \in 1..Len(old) /\ i \in DOMAIN new /\ new[i] = old[i]
  BY DEF Grown
<1>3. \A j \in i+1..n : ~Ends(new[j], w)
  <2>1. \A j \in i+1..n : j \in 1..Len(old)
    BY <1>2 DEF Grown
  <2> QED  BY <2>1, <1>1 DEF Grown
<1> QED  BY <1>1, <1>2, <1>3 DEF KeyDuring

LEMMA NoKeyGrows ==
  ASSUME NEW old, NEW new, Grown(old, new), NEW n \in Nat, n <= Len(old),
         NEW w, NoKeyDuring(old, n, w)
  PROVE  NoKeyDuring(new, n, w)
<1>1. PICK m \in n..Len(old) : NoKeyAt(old, m, w)
  BY DEF NoKeyDuring
<1>2. m \in n..Len(new) /\ m \in Nat
  BY DEF Grown
<1>3. \A i \in 1..m : i \in 1..Len(old) /\ new[i] = old[i]
  BY DEF Grown
<1>4. ASSUME NEW i \in 1..m, Registers(new[i], w)
      PROVE  \E j \in i+1..m : new[j] = ChainReset
  <2>1. PICK j \in i+1..m : old[j] = ChainReset
    BY <1>1, <1>3, <1>4 DEF NoKeyAt
  <2>2. j \in 1..m
    BY <1>2
  <2> QED  BY <2>1, <2>2, <1>3
<1>5. NoKeyAt(new, m, w)
  BY <1>4 DEF NoKeyAt
<1> QED  BY <1>2, <1>5 DEF NoKeyDuring

\* What holds of a later moment's log prefix holds since an earlier one.
LEMMA DuringEarlier ==
  ASSUME NEW log, NEW m \in Nat, NEW n \in Nat, n <= m,
         NEW w, NEW pem, KeyDuring(log, m, w, pem), log \in Seq(Event)
  PROVE  KeyDuring(log, n, w, pem)
<1>1. PICK i \in DOMAIN log : /\ Registers(log[i], w) /\ log[i].publicKeyPem = pem
                              /\ \A j \in i+1..m : ~Ends(log[j], w)
  BY DEF KeyDuring
<1>2. i \in Nat
  OBVIOUS
<1>3. \A j \in i+1..n : j \in i+1..m
  BY <1>2
<1> QED  BY <1>1, <1>3 DEF KeyDuring

\* A registration that does not revert: c becomes d.
Entered(c, d, w, pem, signature) ==
  /\ c \in Contract /\ d \in Contract
  /\ d.registry = [c.registry EXCEPT ![w] = [publicKeyPem |-> pem, hasPoP |-> TRUE]]
  /\ Grown(c.log, d.log)
  /\ d.log[Len(d.log)] = Registered(w, pem, signature)
  /\ \/ /\ c.registry[w] # None /\ c.registry[w].publicKeyPem # pem
        /\ Len(d.log) = Len(c.log) + 2
        /\ d.log[Len(c.log) + 1] = Rotated(w, c.registry[w].publicKeyPem, pem)
     \/ /\ c.registry[w] = None \/ c.registry[w].publicKeyPem = pem
        /\ Len(d.log) = Len(c.log) + 1

LEMMA RegisterEnters ==
  ASSUME NEW c \in Contract, NEW w \in Wallets, NEW pem \in Keys,
         NEW signature \in Pop, ProofHolds(w, pem, signature),
         NEW d, d = registerPublicKeyWithPoP(c, w, pem, signature)
  PROVE  Entered(c, d, w, pem, signature)
<1> DEFINE new == Registered(w, pem, signature)
<1>1. c.log \in Seq(Event) /\ c.registry \in [Wallets -> KeyRecord \cup {None}]
  BY DEF Contract
<1>2. new \in Event
  BY DEF Registered, Event
<1>3. d.registry = [c.registry EXCEPT ![w] = [publicKeyPem |-> pem, hasPoP |-> TRUE]]
  BY DEF registerPublicKeyWithPoP
<1>4. d.log = Append(c.log \o Rotations(c, w, pem), new)
  BY DEF registerPublicKeyWithPoP
<1>5. d = [registry |-> d.registry, log |-> d.log]
  BY DEF registerPublicKeyWithPoP
<1>6. d.registry \in [Wallets -> KeyRecord \cup {None}]
  BY <1>1, <1>3 DEF KeyRecord
<1>7. CASE c.registry[w] # None /\ c.registry[w].publicKeyPem # pem
  <2> DEFINE rot == Rotated(w, c.registry[w].publicKeyPem, pem)
  <2>1. c.registry[w] \in KeyRecord
    BY <1>1, <1>7
  <2>2. rot \in Event
    BY <2>1 DEF Rotated, Event, KeyRecord
  <2>3. d.log = Append(c.log \o <<rot>>, new)
    BY <1>4, <1>7 DEF Rotations
  <2> HIDE DEF rot, new
  <2>4. /\ d.log \in Seq(Event) /\ Len(d.log) = Len(c.log) + 2
        /\ d.log[Len(c.log) + 1] = rot /\ d.log[Len(d.log)] = new
        /\ \A i \in 1..Len(c.log) : d.log[i] = c.log[i]
    BY <1>1, <1>2, <2>2, <2>3
  <2>5. d \in Contract
    BY <2>4, <1>5, <1>6 DEF Contract
  <2>6. Grown(c.log, d.log)
    BY <2>4, <1>1 DEF Grown
  <2> USE DEF new, rot
  <2> QED  BY <2>4, <2>5, <2>6, <1>3, <1>7 DEF Entered
<1>8. CASE c.registry[w] = None \/ c.registry[w].publicKeyPem = pem
  <2>1. d.log = Append(c.log \o <<>>, new)
    BY <1>4, <1>8 DEF Rotations
  <2> HIDE DEF new
  <2>2. /\ d.log \in Seq(Event) /\ Len(d.log) = Len(c.log) + 1
        /\ d.log[Len(d.log)] = new
        /\ \A i \in 1..Len(c.log) : d.log[i] = c.log[i]
    BY <1>1, <1>2, <2>1
  <2>3. d \in Contract
    BY <2>2, <1>5, <1>6 DEF Contract
  <2>4. Grown(c.log, d.log)
    BY <2>2, <1>1 DEF Grown
  <2> USE DEF new
  <2> QED  BY <2>2, <2>3, <2>4, <1>3, <1>8 DEF Entered
<1> QED  BY <1>7, <1>8

\* The last registration of a wallet is the one before the next.
LEMMA RowEndsAtLast ==
  ASSUME NEW log \in Seq(Event), NEW w, NEW pem, NEW i \in DOMAIN log,
         KeyDuring(log, Len(log), w, pem), Registers(log[i], w),
         \A j \in i+1..Len(log) : ~Ends(log[j], w)
  PROVE  log[i].publicKeyPem = pem
<1>1. PICK k \in DOMAIN log : /\ Registers(log[k], w) /\ log[k].publicKeyPem = pem
                              /\ \A j \in k+1..Len(log) : ~Ends(log[j], w)
  BY DEF KeyDuring
<1>2. i \in 1..Len(log) /\ k \in 1..Len(log)
  OBVIOUS
<1>3. /\ i < k => k \in i+1..Len(log)
      /\ k < i => i \in k+1..Len(log)
  BY <1>2
<1>4. ~(i < k) /\ ~(k < i)
  BY <1>1, <1>3 DEF Ends
<1> QED  BY <1>1, <1>2, <1>4

LEMMA EnteredMatches ==
  ASSUME NEW c, NEW d, NEW w \in Wallets, NEW pem \in Keys, NEW signature,
         Entered(c, d, w, pem, signature), RegistryMatchesLog(c)
  PROVE  RegistryMatchesLog(d)
<1> SUFFICES ASSUME NEW u \in Wallets
             PROVE  IF d.registry[u] = None THEN NoKeyAt(d.log, Len(d.log), u)
                    ELSE KeyDuring(d.log, Len(d.log), u, d.registry[u].publicKeyPem)
  BY DEF RegistryMatchesLog
<1>1. /\ c.log \in Seq(Event) /\ d.log \in Seq(Event)
      /\ c.registry \in [Wallets -> KeyRecord \cup {None}]
  BY DEF Entered, Contract
<1>2. /\ Len(c.log) < Len(d.log)
      /\ \A i \in 1..Len(c.log) : d.log[i] = c.log[i]
      /\ d.log[Len(d.log)] = Registered(w, pem, signature)
  BY <1>1 DEF Entered, Grown
<1>3. CASE u = w
  <2>1. d.registry[w] = [publicKeyPem |-> pem, hasPoP |-> TRUE]
    BY <1>1 DEF Entered
  <2>6. d.registry[w] \in KeyRecord
    BY <2>1 DEF KeyRecord
  <2>7. d.registry[w] # None
    BY <2>6, RecordAssumption
  <2>8. d.registry[w].publicKeyPem = pem
    BY <2>1
  <2>2. d.registry[w] # None /\ d.registry[w].publicKeyPem = pem
    BY <2>7, <2>8
  <2>3. /\ Registers(d.log[Len(d.log)], w)
        /\ d.log[Len(d.log)].publicKeyPem = pem
    BY <1>2 DEF Registers, Registered
  <2>4. Len(d.log) \in DOMAIN d.log
    BY <1>1, <1>2
  <2>5. KeyDuring(d.log, Len(d.log), w, pem)
    BY <2>3, <2>4, <1>1 DEF KeyDuring
  <2> QED  BY <1>3, <2>2, <2>5
<1>4. CASE u # w
  <2>1. d.registry[u] = c.registry[u]
    BY <1>1, <1>4 DEF Entered
  <2>2. \A j \in Len(c.log)+1..Len(d.log) : ~Ends(d.log[j], u)
    <3>1. \A j \in Len(c.log)+1..Len(d.log) : j = Len(d.log) \/ j = Len(c.log) + 1
      BY <1>1, <1>2 DEF Entered
    <3>2. ~Ends(d.log[Len(d.log)], u)
      BY <1>2, <1>4 DEF Ends, Registers, Registered, ChainReset
    <3>3. Len(c.log) + 1 = Len(d.log) \/ ~Ends(d.log[Len(c.log) + 1], u)
      BY <1>4 DEF Entered, Ends, Registers, Rotated, ChainReset
    <3> QED  BY <3>1, <3>2, <3>3
  <2>3. ASSUME NoKeyAt(c.log, Len(c.log), u)
        PROVE  NoKeyAt(d.log, Len(d.log), u)
    <3>1. \A i \in 1..Len(d.log) : i \in 1..Len(c.log) \/ i \in Len(c.log)+1..Len(d.log)
      BY <1>1, <1>2
    <3>2. ASSUME NEW i \in 1..Len(d.log), Registers(d.log[i], u)
          PROVE  \E j \in i+1..Len(d.log) : d.log[j] = ChainReset
      <4>1. i \in 1..Len(c.log) /\ Registers(c.log[i], u)
        BY <3>1, <3>2, <2>2, <1>2 DEF Ends
      <4>2. PICK j \in i+1..Len(c.log) : c.log[j] = ChainReset
        BY <4>1, <2>3 DEF NoKeyAt
      <4>3. j \in 1..Len(c.log) /\ j \in i+1..Len(d.log)
        BY <1>1, <1>2, <4>1
      <4> QED  BY <4>2, <4>3, <1>2
    <3> QED  BY <3>2 DEF NoKeyAt
  <2>4. ASSUME NEW key, KeyDuring(c.log, Len(c.log), u, key)
        PROVE  KeyDuring(d.log, Len(d.log), u, key)
    <3>1. PICK i \in DOMAIN c.log :
             /\ Registers(c.log[i], u) /\ c.log[i].publicKeyPem = key
             /\ \A j \in i+1..Len(c.log) : ~Ends(c.log[j], u)
      BY <2>4 DEF KeyDuring
    <3>2. i \in 1..Len(c.log) /\ i \in DOMAIN d.log /\ d.log[i] = c.log[i]
      BY <1>1, <1>2
    <3>3. \A j \in i+1..Len(d.log) :
            (j \in i+1..Len(c.log) /\ j \in 1..Len(c.log)) \/ j \in Len(c.log)+1..Len(d.log)
      BY <1>1, <1>2, <3>2
    <3>4. \A j \in i+1..Len(d.log) : ~Ends(d.log[j], u)
      BY <3>3, <2>2, <3>1, <1>2
    <3> QED  BY <3>1, <3>2, <3>4 DEF KeyDuring
  <2> QED  BY <2>1, <2>3, <2>4 DEF RegistryMatchesLog
<1> QED  BY <1>3, <1>4

RowFrom(c, d, w, u, i, j) ==
  \/ InARow(c.log, u, i, j)
  \/ /\ j = Len(d.log) /\ u = w
     /\ c.registry[w] # None
     /\ d.log[i].publicKeyPem = c.registry[w].publicKeyPem

\* A row of the longer log is one of the older, or ends with the new event.
LEMMA RowsOfEntered ==
  ASSUME NEW c, NEW d, NEW w \in Wallets, NEW pem \in Keys, NEW signature,
         Entered(c, d, w, pem, signature), RegistryMatchesLog(c),
         NEW u, NEW i, NEW j, InARow(d.log, u, i, j)
  PROVE  RowFrom(c, d, w, u, i, j)
<1>1. /\ c.log \in Seq(Event) /\ d.log \in Seq(Event)
      /\ Len(c.log) < Len(d.log)
      /\ \A k \in 1..Len(c.log) : d.log[k] = c.log[k]
      /\ d.log[Len(d.log)] = Registered(w, pem, signature)
  BY DEF Entered, Contract, Grown
<1>2. /\ i \in 1..Len(d.log) /\ j \in 1..Len(d.log) /\ i < j
      /\ Registers(d.log[i], u) /\ Registers(d.log[j], u)
      /\ \A k \in i+1..j-1 : ~Ends(d.log[k], u)
  BY <1>1 DEF InARow
<1>3. Len(c.log) + 1 = Len(d.log) \/ ~Registers(d.log[Len(c.log) + 1], u)
  BY DEF Entered, Registers, Rotated
<1>4. /\ i \in 1..Len(c.log)
      /\ j \in 1..Len(c.log) \/ j = Len(d.log)
  <2>1. j = Len(d.log) \/ j = Len(c.log) + 1 \/ j \in 1..Len(c.log)
    BY <1>1, <1>2 DEF Entered
  <2>2. i = Len(c.log) + 1 \/ i \in 1..Len(c.log)
    BY <1>1, <1>2 DEF Entered
  <2>3. i # Len(c.log) + 1
    BY <1>1, <1>2, <1>3
  <2> QED  BY <2>1, <2>2, <2>3, <1>2, <1>3, <1>1
<1>5. CASE j \in 1..Len(c.log)
  <2>1. \A k \in i+1..j-1 : k \in 1..Len(c.log)
    BY <1>4, <1>5, <1>1
  <2>2. InARow(c.log, u, i, j)
    BY <2>1, <1>1, <1>2, <1>4, <1>5 DEF InARow
  <2> QED  BY <2>2 DEF RowFrom
<1>6. CASE j = Len(d.log)
  <2>1. u = w
    BY <1>1, <1>2, <1>6 DEF Registers, Registered
  <2>2. \A k \in i+1..Len(c.log) : ~Ends(c.log[k], w)
    <3>1. \A k \in i+1..Len(c.log) : k \in i+1..j-1 /\ k \in 1..Len(c.log)
      BY <1>1, <1>4, <1>6
    <3> QED  BY <3>1, <1>1, <1>2, <2>1
  <2>3. Registers(c.log[i], w)
    BY <1>1, <1>2, <1>4, <2>1
  <2>4. c.registry[w] # None
    BY <2>2, <2>3, <1>4 DEF RegistryMatchesLog, NoKeyAt, Ends
  <2>5. KeyDuring(c.log, Len(c.log), w, c.registry[w].publicKeyPem)
    BY <2>4 DEF RegistryMatchesLog
  <2>6. i \in DOMAIN c.log
    BY <1>1, <1>4
  <2>7. c.log[i].publicKeyPem = c.registry[w].publicKeyPem
    BY <2>2, <2>3, <2>5, <2>6, <1>1, RowEndsAtLast
  <2> QED  BY <1>6, <2>1, <1>4, <2>4, <2>7, <1>1 DEF RowFrom
<1> QED  BY <1>4, <1>5, <1>6

LEMMA EnteredChanges ==
  ASSUME NEW c, NEW d, NEW w \in Wallets, NEW pem \in Keys, NEW signature,
         Entered(c, d, w, pem, signature), RegistryMatchesLog(c),
         ChangesAreLogged(c.log)
  PROVE  ChangesAreLogged(d.log)
<1> SUFFICES ASSUME NEW u \in Wallets, NEW i \in DOMAIN d.log, NEW j \in DOMAIN d.log,
                    InARow(d.log, u, i, j), d.log[i].publicKeyPem # d.log[j].publicKeyPem
             PROVE  d.log[j-1] = Rotated(u, d.log[i].publicKeyPem, d.log[j].publicKeyPem)
  BY DEF ChangesAreLogged
<1>1. /\ c.log \in Seq(Event) /\ d.log \in Seq(Event)
      /\ \A k \in 1..Len(c.log) : d.log[k] = c.log[k]
      /\ d.log[Len(d.log)] = Registered(w, pem, signature)
  BY DEF Entered, Contract, Grown
<1>2. CASE InARow(c.log, u, i, j)
  <2>1. i \in DOMAIN c.log /\ j \in DOMAIN c.log /\ i < j
    BY <1>2 DEF InARow
  <2>2. i \in 1..Len(c.log) /\ j \in 1..Len(c.log) /\ j-1 \in 1..Len(c.log)
    BY <2>1, <1>1
  <2>3. c.log[i].publicKeyPem # c.log[j].publicKeyPem
    BY <2>2, <1>1
  <2>4. c.log[j-1] = Rotated(u, c.log[i].publicKeyPem, c.log[j].publicKeyPem)
    BY <1>2, <2>1, <2>3 DEF ChangesAreLogged
  <2> QED  BY <2>2, <2>4, <1>1
<1>3. CASE /\ j = Len(d.log) /\ u = w
           /\ c.registry[w] # None
           /\ d.log[i].publicKeyPem = c.registry[w].publicKeyPem
  <2>1. d.log[j].publicKeyPem = pem
    BY <1>1, <1>3 DEF Registered
  <2>2. c.registry[w].publicKeyPem # pem
    BY <2>1, <1>3
  <2>3. /\ Len(d.log) = Len(c.log) + 2
        /\ d.log[Len(c.log) + 1] = Rotated(w, c.registry[w].publicKeyPem, pem)
    BY <2>2, <1>3 DEF Entered
  <2>4. j - 1 = Len(c.log) + 1
    BY <2>3, <1>3, <1>1
  <2> QED  BY <2>1, <2>3, <2>4, <1>3
<1>4. RowFrom(c, d, w, u, i, j)
  BY RowsOfEntered
<1> QED  BY <1>2, <1>3, <1>4 DEF RowFrom

LEMMA EnteredRotations ==
  ASSUME NEW c, NEW d, NEW w \in Wallets, NEW pem \in Keys, NEW signature,
         Entered(c, d, w, pem, signature), RegistryMatchesLog(c),
         RotationsAreChanges(c.log)
  PROVE  RotationsAreChanges(d.log)
<1> SUFFICES ASSUME NEW n \in DOMAIN d.log, d.log[n].name = "KeyRotated"
             PROVE  \E k \in 1..n-1 : RotationFrom(d.log, n, k)
  BY DEF RotationsAreChanges
<1>1. /\ c.log \in Seq(Event) /\ d.log \in Seq(Event)
      /\ Len(c.log) < Len(d.log)
      /\ \A k \in 1..Len(c.log) : d.log[k] = c.log[k]
      /\ d.log[Len(d.log)] = Registered(w, pem, signature)
  BY DEF Entered, Contract, Grown
<1>2. n \in 1..Len(d.log) /\ n # Len(d.log)
  BY <1>1 DEF Registered
<1>3. CASE n \in 1..Len(c.log)
  <2>1. c.log[n].name = "KeyRotated" /\ n \in DOMAIN c.log
    BY <1>1, <1>3
  <2>2. PICK k \in 1..n-1 : RotationFrom(c.log, n, k)
    BY <2>1 DEF RotationsAreChanges
  <2>3. /\ n+1 \in 1..Len(c.log) /\ k \in 1..Len(c.log)
        /\ \A m \in k+1..n : m \in 1..Len(c.log)
    BY <2>2, <1>1, <1>3 DEF RotationFrom, InARow
  <2>4. /\ d.log[n] = c.log[n] /\ d.log[k] = c.log[k] /\ d.log[n+1] = c.log[n+1]
        /\ \A m \in k+1..n : d.log[m] = c.log[m]
    BY <2>3, <1>1, <1>3
  <2>5. (n+1)-1 = n /\ n+1 \in DOMAIN d.log /\ k \in DOMAIN d.log
    BY <2>3, <1>1, <1>3
  <2>9. InARow(c.log, c.log[n].user, k, n+1)
    BY <2>2 DEF RotationFrom
  <2>8. \A m \in k+1..(n+1)-1 : ~Ends(d.log[m], d.log[n].user)
    <3>1. \A m \in k+1..(n+1)-1 : m \in k+1..n
      BY <2>5
    <3>2. \A m \in k+1..(n+1)-1 : ~Ends(c.log[m], c.log[n].user)
      BY <2>9 DEF InARow
    <3> QED  BY <3>1, <3>2, <2>4
  <2>6. InARow(d.log, d.log[n].user, k, n+1)
    BY <2>9, <2>4, <2>5, <2>8 DEF InARow
  <2>7. RotationFrom(d.log, n, k)
    BY <2>2, <2>4, <2>6 DEF RotationFrom
  <2> QED  BY <2>7
<1>4. CASE n \notin 1..Len(c.log)
  <2>1. /\ n = Len(c.log) + 1 /\ Len(d.log) = Len(c.log) + 2
        /\ c.registry[w] # None /\ c.registry[w].publicKeyPem # pem
        /\ d.log[n] = Rotated(w, c.registry[w].publicKeyPem, pem)
    BY <1>1, <1>2, <1>4 DEF Entered
  <2>2. PICK k \in DOMAIN c.log :
           /\ Registers(c.log[k], w)
           /\ c.log[k].publicKeyPem = c.registry[w].publicKeyPem
           /\ \A m \in k+1..Len(c.log) : ~Ends(c.log[m], w)
    BY <2>1 DEF RegistryMatchesLog, KeyDuring
  <2>3. /\ k \in 1..n-1 /\ k \in 1..Len(c.log) /\ k \in DOMAIN d.log
        /\ n+1 \in DOMAIN d.log /\ n+1 = Len(d.log) /\ k < n+1
        /\ \A m \in k+1..(n+1)-1 : m = n \/ (m \in k+1..Len(c.log) /\ m \in 1..Len(c.log))
    BY <2>1, <1>1
  <2>4. d.log[k] = c.log[k] /\ d.log[n+1] = Registered(w, pem, signature)
    BY <2>3, <1>1
  <2>8. ~Ends(d.log[n], w)
    BY <2>1 DEF Ends, Registers, Rotated, ChainReset
  <2>5. \A m \in k+1..(n+1)-1 : ~Ends(d.log[m], w)
    BY <2>2, <2>3, <2>8, <1>1
  <2>6. InARow(d.log, w, k, n+1)
    BY <2>2, <2>3, <2>4, <2>5 DEF InARow, Registers, Registered
  <2>7. RotationFrom(d.log, n, k)
    BY <2>1, <2>2, <2>4, <2>6 DEF RotationFrom, Rotated, Registered
  <2> QED  BY <2>3, <2>7
<1> QED  BY <1>3, <1>4

-----------------------------------------------------------------------------
(***************************************************************************)
(* What the facts of IInv need from a step                                 *)
(***************************************************************************)

\* They refer to the contract by its log, and survive when it grows.
LEMMA CallOKGrows ==
  ASSUME NEW old, NEW new, Grown(old, new), NEW call \in Call, CallOK(call, old)
  PROVE  CallOK(call, new)
<1>1. call.since \in Nat /\ call.since <= Len(old) /\ call.since <= Len(new)
  BY DEF Call, CallOK, Grown
<1>2. call.pc = "conclude" =>
        IF call.found = None THEN NoKeyDuring(new, call.since, call.wallet)
        ELSE KeyDuring(new, call.since, call.wallet, call.found)
  BY <1>1, DuringGrows, NoKeyGrows DEF CallOK
<1>3. call.pc \in {"confirmed", "post"} =>
        KeyDuring(new, call.since, call.wallet, call.key)
  BY <1>1, DuringGrows DEF CallOK
<1> QED  BY <1>1, <1>2, <1>3 DEF CallOK

LEMMA GrownItself == ASSUME NEW log \in Seq(Event) PROVE Grown(log, log)
BY DEF Grown

\* A thread's call after a step: over, or as its program counter says.
CallStep(t) ==
  \E call \in Call \cup {Idle} :
    /\ calls' = [calls EXCEPT ![t] = call]
    /\ call.pc # "idle" => CallOK(call, contract.log)

LEMMA CallStepKeeps ==
  ASSUME IInv, NEW t \in Threads, CallStep(t), UNCHANGED contract
  PROVE  calls' \in [Threads -> Call \cup {Idle}] /\ CallsOK'
<1>1. calls \in [Threads -> Call \cup {Idle}] /\ CallsOK
  BY DEF IInv, TypeOK
<1>2. PICK call \in Call \cup {Idle} :
        /\ calls' = [calls EXCEPT ![t] = call]
        /\ call.pc # "idle" => CallOK(call, contract.log)
  BY DEF CallStep
<1>3. calls' \in [Threads -> Call \cup {Idle}]
  BY <1>1, <1>2
<1>4. \A u \in Threads : calls'[u] = IF u = t THEN call ELSE calls[u]
  BY <1>1, <1>2
<1>5. \A u \in Threads : calls'[u].pc # "idle" => CallOK(calls'[u], contract.log)
  BY <1>1, <1>2, <1>4 DEF CallsOK
<1> QED  BY <1>3, <1>5 DEF CallsOK

LEMMA ThreadBusy ==
  ASSUME IInv, NEW t \in Threads, calls[t].pc # "idle"
  PROVE  calls[t] \in Call /\ CallOK(calls[t], contract.log)
<1>1. calls[t] \in Call \cup {Idle}
  BY DEF IInv, TypeOK
<1>2. Idle.pc = "idle"
  BY DEF Idle
<1> QED  BY <1>1, <1>2 DEF IInv, CallsOK

\* Goto(t, pc) keeps the facts, if pc does not ask for more.
LEMMA GotoKeeps ==
  ASSUME IInv, NEW t \in Threads, calls[t].pc # "idle",
         NEW pc \in {"stamp", "probe"} \cup LivePCs \cup OfflinePCs,
         Goto(t, pc),
         CallOK([calls[t] EXCEPT !.pc = pc], contract.log)
  PROVE  CallStep(t) /\ last' = None
<1> DEFINE call == [calls[t] EXCEPT !.pc = pc]
<1>1. calls[t] \in Call
  BY ThreadBusy
<1>2. call \in Call
  BY <1>1 DEF Call
<1>3. calls' = [calls EXCEPT ![t] = call] /\ last' = None
  BY DEF Goto
<1> QED  BY <1>2, <1>3 DEF CallStep

LEMMA ReturnKeeps ==
  ASSUME IInv, NEW t \in Threads, NEW result, NEW key, Return(t, result, key)
  PROVE  CallStep(t)
<1>1. Idle \in Call \cup {Idle} /\ Idle.pc = "idle"
  BY DEF Idle
<1> QED  BY <1>1 DEF CallStep, Return

\* The answer a call ends with.
LEMMA ReturnAnswers ==
  ASSUME IInv, NEW t \in Threads, calls[t].pc # "idle",
         NEW result \in Results, NEW key \in Keys \cup {None}, Return(t, result, key)
  PROVE  /\ last' \in Answer /\ last' # None
         /\ last'.result = result /\ last'.key = key
         /\ last'.wallet = calls[t].wallet /\ last'.since = calls[t].since
<1>1. calls[t].wallet \in Wallets /\ calls[t].since \in Nat
  BY ThreadBusy DEF Call
<1>2. last' = [result |-> result, wallet |-> calls[t].wallet, key |-> key,
               since |-> calls[t].since]
  BY DEF Return
<1>3. last' \in Answer
  BY <1>1, <1>2 DEF Answer
<1>4. last' # None
  BY <1>3, NoneAssumption
<1>5. /\ last'.result = result /\ last'.key = key
      /\ last'.wallet = calls[t].wallet /\ last'.since = calls[t].since
  BY <1>2
<1> QED  BY <1>3, <1>4, <1>5

CacheTrue(entries, log) ==
  \A w \in Wallets : entries[w] # None /\ entries[w].source = "chain" =>
    EverOnChain(log, w, entries[w].pem)

AnswerTrue(a, log) ==
  a # None =>
    /\ a.result = "chain-cache" => EverOnChain(log, a.wallet, a.key)
    /\ a.result \in {"chain", "onchain"} => KeyDuring(log, a.since, a.wallet, a.key)
    /\ a.result = "KeyNotRegistered" => NoKeyDuring(log, a.since, a.wallet)

\* What every step of a thread, and most others, are shown to do.
StepFacts ==
  /\ calls' \in [Threads -> Call \cup {Idle}] /\ CallsOK'
  /\ UNCHANGED <<contract, receipts>> /\ code' \in BOOLEAN /\ deployer' \in Nat
  /\ node' \in NodeStates
  /\ pool' \in SUBSET Transaction /\ \A tx \in pool' : Genuine(tx.signature)
  /\ relay' \in [Wallets -> Keys \cup {None}]
  /\ checked' \in BOOLEAN /\ cached_status' \in BOOLEAN
  /\ cache' \in [Wallets -> Cached \cup {None}] /\ CacheTrue(cache', contract.log)
  /\ last' \in Answer \cup {None} /\ AnswerTrue(last', contract.log)

LEMMA StepFactsSuffice == ASSUME IInv, StepFacts PROVE IInv'
<1>1. TypeOK'
  BY DEF IInv, TypeOK, StepFacts
<1>2. ProofsGenuine' /\ KeysAreProven' /\ LogTellsHistory'
  BY DEF IInv, ProofsGenuine, KeysAreProven, LogTellsHistory, StepFacts
<1>3. ChainSourceIsTrue'
  BY DEF StepFacts, ChainSourceIsTrue, CacheTrue, AnswerTrue
<1>4. LookupIsCurrent' /\ RegisteredIsOnChain'
  BY DEF StepFacts, LookupIsCurrent, RegisteredIsOnChain, AnswerTrue
<1> QED  BY <1>1, <1>2, <1>3, <1>4 DEF IInv, StepFacts

\* The facts about what a step leaves unchanged.
LEMMA Unchanged ==
  ASSUME IInv
  PROVE  /\ UNCHANGED pool => /\ pool' \in SUBSET Transaction
                              /\ \A tx \in pool' : Genuine(tx.signature)
         /\ UNCHANGED <<code, deployer>> => code' \in BOOLEAN /\ deployer' \in Nat
         /\ UNCHANGED relay => relay' \in [Wallets -> Keys \cup {None}]
         /\ UNCHANGED checked => checked' \in BOOLEAN
         /\ UNCHANGED cached_status => cached_status' \in BOOLEAN
         /\ UNCHANGED node => node' \in NodeStates
         /\ UNCHANGED cache => /\ cache' \in [Wallets -> Cached \cup {None}]
                               /\ CacheTrue(cache', contract.log)
         /\ last' = None => /\ last' \in Answer \cup {None}
                            /\ AnswerTrue(last', contract.log)
BY DEF IInv, TypeOK, ProofsGenuine, ChainSourceIsTrue, CacheTrue, AnswerTrue

LEMMA CachePutKeeps ==
  ASSUME IInv, NEW w \in Wallets, NEW key \in Keys,
         NEW source \in {"chain", "broker-unverified"}, CachePut(w, key, source),
         source = "chain" => EverOnChain(contract.log, w, key)
  PROVE  cache' \in [Wallets -> Cached \cup {None}] /\ CacheTrue(cache', contract.log)
<1> DEFINE entry == [pem |-> key, source |-> source]
<1>1. cache \in [Wallets -> Cached \cup {None}] /\ CacheTrue(cache, contract.log)
  BY DEF IInv, TypeOK, ChainSourceIsTrue, CacheTrue
<1>2. entry \in Cached /\ entry.pem = key /\ entry.source = source
  BY DEF Cached
<1>3. cache' = [cache EXCEPT ![w] = entry]
  BY DEF CachePut
<1> HIDE DEF entry
<1>4. cache' \in [Wallets -> Cached \cup {None}]
  BY <1>1, <1>2, <1>3
<1>5. \A u \in Wallets : cache'[u] = IF u = w THEN entry ELSE cache[u]
  BY <1>1, <1>3
<1>6. CacheTrue(cache', contract.log)
  BY <1>1, <1>2, <1>5 DEF CacheTrue
<1> QED  BY <1>4, <1>6

LEMMA CacheDelKeeps ==
  ASSUME IInv, NEW w \in Wallets, CacheDel(w)
  PROVE  cache' \in [Wallets -> Cached \cup {None}] /\ CacheTrue(cache', contract.log)
<1>1. cache \in [Wallets -> Cached \cup {None}] /\ CacheTrue(cache, contract.log)
  BY DEF IInv, TypeOK, ChainSourceIsTrue, CacheTrue
<1>2. cache' = [cache EXCEPT ![w] = None]
  BY DEF CacheDel
<1>3. \A u \in Wallets : cache'[u] = IF u = w THEN None ELSE cache[u]
  BY <1>1, <1>2
<1> QED  BY <1>1, <1>2, <1>3 DEF CacheTrue

\* A key read from the chain was there, then, and since any earlier moment.
LEMMA KeyReadWasThere ==
  ASSUME IInv, NEW w \in Wallets, NEW n \in Nat, n <= Len(contract.log)
  PROVE  /\ KeyOf(w) \in Keys \cup {None}
         /\ KeyOf(w) = None => NoKeyDuring(contract.log, n, w)
         /\ KeyOf(w) # None => KeyDuring(contract.log, n, w, KeyOf(w))
<1>1. /\ contract.log \in Seq(Event)
      /\ contract.registry[w] \in KeyRecord \cup {None}
  BY DEF IInv, TypeOK, Contract
<1>2. RegistryMatchesLog(contract)
  BY DEF IInv, LogTellsHistory
<1>3. CASE contract.registry[w] = None
  <2>1. KeyOf(w) = None
    BY <1>3 DEF KeyOf
  <2>2. NoKeyAt(contract.log, Len(contract.log), w)
    BY <1>2, <1>3 DEF RegistryMatchesLog
  <2>3. Len(contract.log) \in n..Len(contract.log)
    BY <1>1
  <2> QED  BY <2>1, <2>2, <2>3 DEF NoKeyDuring
<1>4. CASE contract.registry[w] # None
  <2>1. /\ contract.registry[w].hasPoP
        /\ contract.registry[w].publicKeyPem \in Keys
    BY <1>1, <1>4 DEF IInv, KeysAreProven, KeyRecord
  <2>2. KeyOf(w) = contract.registry[w].publicKeyPem
    BY <1>4, <2>1 DEF KeyOf
  <2>3. KeyDuring(contract.log, Len(contract.log), w, KeyOf(w))
    BY <1>2, <1>4, <2>2 DEF RegistryMatchesLog
  <2>4. KeyOf(w) # None
    BY <2>1, <2>2, KeyRegistryAssumption
  <2> QED  BY <2>1, <2>2, <2>3, <2>4, <1>1, DuringEarlier
<1> QED  BY <1>3, <1>4

-----------------------------------------------------------------------------
(***************************************************************************)
(* The steps                                                               *)
(***************************************************************************)

\* A step that changes a thread's call, and perhaps answers.
LEMMA QuietStep ==
  ASSUME IInv, NEW t \in Threads, CallStep(t),
         last' \in Answer \cup {None}, AnswerTrue(last', contract.log),
         UNCHANGED <<chainVars, node, relay, statusVars, cache>>
  PROVE  StepFacts
BY CallStepKeeps, Unchanged DEF StepFacts, chainVars, statusVars

LEMMA QuietGoto ==
  ASSUME IInv, NEW t \in Threads, CallStep(t), last' = None,
         UNCHANGED <<chainVars, node, relay, statusVars, cache>>
  PROVE  StepFacts
BY QuietStep DEF AnswerTrue

LEMMA QuietReturn ==
  ASSUME IInv, NEW t \in Threads, calls[t].pc # "idle",
         NEW result \in {"ChainUnavailable", "failed"},
         Return(t, result, None),
         UNCHANGED <<chainVars, node, relay, statusVars, cache>>
  PROVE  StepFacts
<1>1. /\ CallStep(t) /\ last' \in Answer /\ last'.result = result
  BY ReturnKeeps, ReturnAnswers DEF Results
<1>2. AnswerTrue(last', contract.log)
  BY <1>1 DEF AnswerTrue
<1> QED  BY <1>1, <1>2, QuietStep

LEMMA BeginKeeps ==
  ASSUME IInv, NEW t \in Threads, NEW op \in {"lookup", "register"}, NEW w \in Wallets,
         NEW offline \in BOOLEAN, NEW key \in Keys \cup {None},
         NEW rsa \in Holds[w] \cup {None}, op = "register" => key \in Keys,
         Begin(t, op, w, offline, key, rsa)
  PROVE  StepFacts
<1> DEFINE call == [pc |-> Verdict, op |-> op, wallet |-> w, allow_offline |-> offline,
                    key |-> key, rsa |-> rsa, found |-> None, nonce |-> 0,
                    since |-> Len(contract.log)]
<1>1. contract.log \in Seq(Event)
  BY DEF IInv, TypeOK, Contract
<1>2. Verdict \in {"stamp", "live", "dead"}
  BY DEF Verdict
<1>3. rsa \in Keys \cup {None}
  BY KeyRegistryAssumption
<1>4. call \in Call
  BY <1>1, <1>2, <1>3 DEF Call, LivePCs, OfflinePCs
<1>5. CallOK(call, contract.log)
  BY <1>1, <1>2 DEF CallOK, RegisterPCs
<1>6. calls' = [calls EXCEPT ![t] = call]
  BY DEF Begin
<1>7. CallStep(t)
  BY <1>4, <1>5, <1>6 DEF CallStep
<1> QED  BY <1>7, QuietGoto DEF Begin

LEMMA ConnectKeeps ==
  ASSUME IInv, NEW t \in Threads, Stamp(t) \/ Probe(t) \/ RefuseOffline(t)
  PROVE  StepFacts
<1>1. calls[t].pc # "idle"
  BY DEF Stamp, Probe, RefuseOffline, At
<1>2. calls[t] \in Call /\ CallOK(calls[t], contract.log)
  BY <1>1, ThreadBusy
<1>3. ASSUME NEW pc \in {"probe", "live", "dead"}, Goto(t, pc)
      PROVE  CallStep(t) /\ last' = None
  <2>1. CallOK([calls[t] EXCEPT !.pc = pc], contract.log)
    BY <1>2 DEF CallOK, Call, RegisterPCs
  <2> QED  BY <1>1, <1>3, <2>1, GotoKeeps DEF LivePCs, OfflinePCs
<1>4. CASE Stamp(t)
  <2>1. CallStep(t) /\ last' = None
    BY <1>3, <1>4 DEF Stamp
  <2>2. checked' \in BOOLEAN
    BY <1>4 DEF Stamp
  <2> QED  BY <1>4, <2>1, <2>2, CallStepKeeps, Unchanged DEF Stamp, StepFacts, chainVars
<1>5. CASE Probe(t)
  <2>1. CallStep(t) /\ last' = None
    BY <1>3, <1>5 DEF Probe
  <2>2. cached_status' \in BOOLEAN
    BY <1>5 DEF Probe
  <2> QED  BY <1>5, <2>1, <2>2, CallStepKeeps, Unchanged DEF Probe, StepFacts, chainVars
<1>6. CASE RefuseOffline(t)
  BY <1>1, <1>6, QuietReturn DEF RefuseOffline
<1> QED  BY <1>4, <1>5, <1>6

\* get_public_key_with_provenance while the chain answers.
LEMMA LookupLiveKeeps ==
  ASSUME IInv, NEW t \in Threads, AskChain(t) \/ AskChainFails(t) \/ Conclude(t)
  PROVE  StepFacts
<1> DEFINE call == calls[t]
<1>1. calls[t].pc # "idle"
  BY DEF AskChain, AskChainFails, Conclude, At
<1>2. call \in Call /\ CallOK(call, contract.log)
  BY <1>1, ThreadBusy
<1>3. call.wallet \in Wallets /\ call.since \in Nat /\ call.since <= Len(contract.log)
  BY <1>2 DEF Call, CallOK
<1>4. CASE AskChain(t)
  <2> DEFINE new == [call EXCEPT !.pc = "conclude", !.found = KeyOf(call.wallet)]
  <2>1. /\ KeyOf(call.wallet) \in Keys \cup {None}
        /\ KeyOf(call.wallet) = None => NoKeyDuring(contract.log, call.since, call.wallet)
        /\ KeyOf(call.wallet) # None =>
             KeyDuring(contract.log, call.since, call.wallet, KeyOf(call.wallet))
    BY <1>3, KeyReadWasThere
  <2>2. new \in Call
    BY <1>2, <2>1 DEF Call, LivePCs
  <2>3. /\ new.pc = "conclude" /\ new.found = KeyOf(call.wallet)
        /\ new.since = call.since /\ new.wallet = call.wallet /\ new.op = call.op
        /\ new.key = call.key /\ new.rsa = call.rsa
    BY <1>2 DEF Call
  <2> HIDE DEF new
  <2>4. CallOK(new, contract.log)
    BY <1>2, <2>1, <2>3 DEF CallOK, RegisterPCs
  <2>5. calls' = [calls EXCEPT ![t] = new] /\ last' = None
    BY <1>4 DEF AskChain, Learn, new
  <2>6. CallStep(t)
    BY <2>2, <2>4, <2>5 DEF CallStep
  <2> QED  BY <1>4, <2>5, <2>6, QuietGoto DEF AskChain
<1>5. CASE AskChainFails(t)
  BY <1>1, <1>5, QuietReturn DEF AskChainFails
<1>6. CASE Conclude(t)
  <2>1. call.pc = "conclude" /\ call.found \in Keys \cup {None}
    BY <1>2, <1>6 DEF Conclude, At, Call
  <2>2. UNCHANGED <<chainVars, node, relay, statusVars>>
    BY <1>6 DEF Conclude
  <2>3. CASE call.found = None
    <3>1. CacheDel(call.wallet) /\ Return(t, "KeyNotRegistered", None)
      BY <1>6, <2>3 DEF Conclude
    <3>2. NoKeyDuring(contract.log, call.since, call.wallet)
      BY <1>2, <2>1, <2>3 DEF CallOK
    <3>3. /\ last' \in Answer /\ last'.result = "KeyNotRegistered"
          /\ last'.wallet = call.wallet /\ last'.since = call.since
      BY <1>1, <3>1, ReturnAnswers DEF Results
    <3>4. AnswerTrue(last', contract.log)
      BY <3>2, <3>3 DEF AnswerTrue
    <3> QED  BY <1>3, <2>2, <3>1, <3>3, <3>4, CacheDelKeeps, ReturnKeeps, CallStepKeeps, Unchanged
             DEF StepFacts, chainVars, statusVars
  <2>4. CASE call.found # None
    <3>1. CachePut(call.wallet, call.found, "chain") /\ Return(t, "chain", call.found)
      BY <1>6, <2>4 DEF Conclude
    <3>2. KeyDuring(contract.log, call.since, call.wallet, call.found)
      BY <1>2, <2>1, <2>4 DEF CallOK
    <3>3. /\ last' \in Answer /\ last'.result = "chain" /\ last'.key = call.found
          /\ last'.wallet = call.wallet /\ last'.since = call.since
      BY <1>1, <2>1, <3>1, ReturnAnswers DEF Results
    <3>4. AnswerTrue(last', contract.log)
      BY <3>2, <3>3 DEF AnswerTrue
    <3>5. EverOnChain(contract.log, call.wallet, call.found)
      <4>1. contract.log \in Seq(Event)
        BY DEF IInv, TypeOK, Contract
      <4> QED  BY <1>3, <3>2, <4>1, DuringEarlier DEF EverOnChain
    <3>6. cache' \in [Wallets -> Cached \cup {None}] /\ CacheTrue(cache', contract.log)
      BY <1>3, <2>1, <2>4, <3>1, <3>5, CachePutKeeps
    <3> QED  BY <2>2, <3>1, <3>3, <3>4, <3>6, ReturnKeeps, CallStepKeeps, Unchanged
             DEF StepFacts, chainVars, statusVars
  <2> QED  BY <2>3, <2>4
<1> QED  BY <1>4, <1>5, <1>6

\* The same in degraded mode.
LEMMA LookupOfflineKeeps ==
  ASSUME IInv, NEW t \in Threads,
         FromCache(t) \/ AskBroker(t) \/ AskBrokerFails(t) \/ KeepBroker(t)
  PROVE  StepFacts
<1> DEFINE call == calls[t]
<1>1. calls[t].pc # "idle"
  BY DEF FromCache, AskBroker, AskBrokerFails, KeepBroker, At
<1>2. call \in Call /\ CallOK(call, contract.log)
  BY <1>1, ThreadBusy
<1>3. call.wallet \in Wallets
  BY <1>2 DEF Call
<1>4. CASE FromCache(t)
  <2> DEFINE entry == cache[call.wallet]
  <2>1. CASE entry # None /\ entry.source = "chain"
    <3>1. Return(t, "chain-cache", entry.pem)
      BY <1>4, <2>1 DEF FromCache
    <3>2. entry.pem \in Keys /\ EverOnChain(contract.log, call.wallet, entry.pem)
      BY <1>3, <2>1 DEF IInv, TypeOK, Cached, ChainSourceIsTrue
    <3>3. /\ last' \in Answer /\ last'.result = "chain-cache" /\ last'.key = entry.pem
          /\ last'.wallet = call.wallet
      BY <1>1, <3>1, <3>2, ReturnAnswers DEF Results
    <3>4. AnswerTrue(last', contract.log)
      BY <3>2, <3>3 DEF AnswerTrue
    <3> QED  BY <1>4, <3>1, <3>3, <3>4, ReturnKeeps, QuietStep DEF FromCache
  <2>2. CASE ~(entry # None /\ entry.source = "chain")
    <3>1. Goto(t, "ask_broker")
      BY <1>4, <2>2 DEF FromCache
    <3>2. CallOK([call EXCEPT !.pc = "ask_broker"], contract.log)
      BY <1>2 DEF CallOK, Call, RegisterPCs
    <3>3. CallStep(t) /\ last' = None
      BY <1>1, <3>1, <3>2, GotoKeeps DEF OfflinePCs
    <3> QED  BY <1>4, <3>3, QuietGoto DEF FromCache
  <2> QED  BY <2>1, <2>2
<1>5. CASE AskBroker(t)
  <2> DEFINE new == [call EXCEPT !.pc = "keep_broker", !.found = relay[call.wallet]]
  <2>1. relay[call.wallet] \in Keys
    BY <1>3, <1>5 DEF AskBroker, get_broker_dpki_key, IInv, TypeOK
  <2>2. new \in Call
    BY <1>2, <2>1 DEF Call, OfflinePCs
  <2>3. /\ new.pc = "keep_broker" /\ new.found = relay[call.wallet]
        /\ new.since = call.since /\ new.wallet = call.wallet /\ new.op = call.op
        /\ new.key = call.key /\ new.rsa = call.rsa
    BY <1>2 DEF Call
  <2> HIDE DEF new
  <2>4. CallOK(new, contract.log)
    BY <1>2, <2>1, <2>3 DEF CallOK, RegisterPCs
  <2>5. calls' = [calls EXCEPT ![t] = new] /\ last' = None
    BY <1>5 DEF AskBroker, get_broker_dpki_key, Learn, new
  <2>6. CallStep(t)
    BY <2>2, <2>4, <2>5 DEF CallStep
  <2> QED  BY <1>5, <2>5, <2>6, QuietGoto DEF AskBroker
<1>6. CASE AskBrokerFails(t)
  BY <1>1, <1>6, QuietReturn DEF AskBrokerFails
<1>7. CASE KeepBroker(t)
  <2>1. call.found \in Keys
    BY <1>2, <1>7 DEF KeepBroker, At, CallOK
  <2>2. /\ CachePut(call.wallet, call.found, "broker-unverified")
        /\ Return(t, "broker-unverified", call.found)
    BY <1>7 DEF KeepBroker
  <2>3. last' \in Answer /\ last'.result = "broker-unverified"
    BY <1>1, <2>1, <2>2, ReturnAnswers DEF Results
  <2>4. AnswerTrue(last', contract.log)
    BY <2>3 DEF AnswerTrue
  <2>5. cache' \in [Wallets -> Cached \cup {None}] /\ CacheTrue(cache', contract.log)
    BY <1>3, <2>1, <2>2, CachePutKeeps
  <2> QED  BY <1>7, <2>2, <2>3, <2>4, <2>5, ReturnKeeps, CallStepKeeps, Unchanged
           DEF KeepBroker, StepFacts, chainVars, statusVars
<1> QED  BY <1>4, <1>5, <1>6, <1>7

LEMMA RegisterLiveKeeps ==
  ASSUME IInv, NEW t \in Threads,
         ReadOwn(t) \/ Receipt(t) \/ ReadBack(t) \/ RegisterFails(t) \/ RegisterOffline(t)
  PROVE  StepFacts
<1> DEFINE call == calls[t]
<1>1. calls[t].pc # "idle"
  BY DEF ReadOwn, Receipt, ReadBack, RegisterFails, RegisterOffline, At
<1>2. call \in Call /\ CallOK(call, contract.log)
  BY <1>1, ThreadBusy
<1>3. call.wallet \in Wallets /\ call.since \in Nat /\ call.since <= Len(contract.log)
  BY <1>2 DEF Call, CallOK
<1>4. ASSUME NEW pc \in {"nonce", "read_back", "confirmed", "post_offline"}, Goto(t, pc),
             call.op = "register",
             pc = "confirmed" => KeyOf(call.wallet) = call.key
      PROVE  CallStep(t) /\ last' = None
  <2>1. call.key \in Keys
    BY <1>2, <1>4 DEF CallOK
  <2>2. pc = "confirmed" => KeyDuring(contract.log, call.since, call.wallet, call.key)
    BY <1>3, <1>4, <2>1, KeyReadWasThere, KeyRegistryAssumption
  <2> DEFINE new == [call EXCEPT !.pc = pc]
  <2>3. /\ new.pc = pc /\ new.since = call.since /\ new.wallet = call.wallet
        /\ new.op = call.op /\ new.key = call.key /\ new.rsa = call.rsa
    BY <1>2 DEF Call
  <2> HIDE DEF new
  <2>4. CallOK(new, contract.log)
    BY <1>2, <1>4, <2>2, <2>3 DEF CallOK
  <2>5. CallOK([calls[t] EXCEPT !.pc = pc], contract.log)
    BY <2>4 DEF new
  <2> QED  BY <1>1, <1>4, <2>5, GotoKeeps DEF LivePCs, OfflinePCs
<1>5. CASE ReadOwn(t)
  <2>1. call.op = "register"
    BY <1>5 DEF ReadOwn
  <2>2. \/ Goto(t, "confirmed") /\ KeyOf(call.wallet) = call.key
        \/ Goto(t, "nonce")
    BY <1>5 DEF ReadOwn
  <2>3. CallStep(t) /\ last' = None
    BY <1>4, <2>1, <2>2
  <2> QED  BY <1>5, <2>3, QuietGoto DEF ReadOwn
<1>6. CASE Receipt(t)
  <2>1. call.op = "register"
    BY <1>2, <1>6 DEF Receipt, At, CallOK, RegisterPCs
  <2>2. CallStep(t) /\ last' = None
    BY <1>4, <1>6, <2>1 DEF Receipt
  <2> QED  BY <1>6, <2>2, QuietGoto DEF Receipt
<1>7. CASE ReadBack(t)
  <2>1. call.op = "register"
    BY <1>2, <1>7 DEF ReadBack, At, CallOK, RegisterPCs
  <2>2. CallStep(t) /\ last' = None
    BY <1>4, <1>7, <2>1 DEF ReadBack
  <2> QED  BY <1>7, <2>2, QuietGoto DEF ReadBack
<1>8. CASE RegisterFails(t)
  BY <1>1, <1>8, QuietReturn DEF RegisterFails
<1>9. CASE RegisterOffline(t)
  <2>1. CallStep(t) /\ last' = None
    BY <1>4, <1>9 DEF RegisterOffline
  <2> QED  BY <1>9, <2>1, QuietGoto DEF RegisterOffline
<1> QED  BY <1>5, <1>6, <1>7, <1>8, <1>9

LEMMA SendKeeps ==
  ASSUME IInv, NEW t \in Threads, CountTransactions(t) \/ Send(t)
  PROVE  StepFacts
<1> DEFINE call == calls[t]
<1>1. calls[t].pc # "idle"
  BY DEF CountTransactions, Send, At
<1>2. call \in Call /\ CallOK(call, contract.log)
  BY <1>1, ThreadBusy
<1>3. call.wallet \in Wallets /\ call.op = "register" /\ call.key \in Keys
  BY <1>2 DEF Call, CallOK, RegisterPCs, CountTransactions, Send, At
<1>4. CASE CountTransactions(t)
  <2>8. receipts[call.wallet] \in Seq(BOOLEAN)
    BY <1>3 DEF IInv, TypeOK
  <2>1. PICK n \in Nat : n = Len(receipts[call.wallet])
    BY <2>8
  <2> DEFINE new == [call EXCEPT !.pc = "send", !.nonce = n]
  <2>2. new \in Call
    BY <1>2, <2>1 DEF Call, LivePCs
  <2>3. /\ new.pc = "send" /\ new.since = call.since /\ new.wallet = call.wallet
        /\ new.op = call.op /\ new.key = call.key /\ new.rsa = call.rsa
    BY <1>2 DEF Call
  <2>4. call.rsa # None
    BY <1>4 DEF CountTransactions
  <2> HIDE DEF new
  <2>5. CallOK(new, contract.log)
    BY <1>2, <1>3, <2>3, <2>4 DEF CallOK
  <2>6. calls' = [calls EXCEPT ![t] = new] /\ last' = None
    BY <1>4, <2>1 DEF CountTransactions, new
  <2>7. CallStep(t)
    BY <2>2, <2>5, <2>6 DEF CallStep
  <2> QED  BY <1>4, <2>6, <2>7, QuietGoto DEF CountTransactions
<1>5. CASE Send(t)
  <2> DEFINE proof == [key |-> call.rsa, address |-> call.wallet]
             tx == [from |-> call.wallet, nonce |-> call.nonce, pem |-> call.key,
                    signature |-> proof]
  <2>1. call.rsa \in Keys /\ call.rsa \in Holds[call.wallet] /\ call.nonce \in Nat
    BY <1>2, <1>3, <1>5, KeyRegistryAssumption DEF Send, At, CallOK, Call
  <2>2. proof \in Pop /\ Genuine(proof)
    BY <1>3, <2>1 DEF Pop, Genuine
  <2>3. tx \in Transaction /\ Genuine(tx.signature)
    BY <1>3, <2>1, <2>2 DEF Transaction
  <2>4. pool' = pool \cup {tx}
    BY <1>5 DEF Send
  <2> HIDE DEF tx
  <2>5. pool' \in SUBSET Transaction /\ \A x \in pool' : Genuine(x.signature)
    BY <2>3, <2>4 DEF IInv, TypeOK, ProofsGenuine
  <2>6. /\ CallStep(t) /\ last' \in Answer \cup {None} /\ AnswerTrue(last', contract.log)
    <3>1. CASE Goto(t, "receipt")
      <4>1. CallOK([call EXCEPT !.pc = "receipt"], contract.log)
        BY <1>2, <1>3 DEF CallOK, Call, RegisterPCs
      <4>2. CallStep(t) /\ last' = None
        BY <1>1, <3>1, <4>1, GotoKeeps DEF LivePCs
      <4> QED  BY <4>2 DEF AnswerTrue
    <3>2. CASE Return(t, "failed", None)
      <4>1. CallStep(t) /\ last' \in Answer /\ last'.result = "failed"
        BY <1>1, <3>2, ReturnKeeps, ReturnAnswers DEF Results
      <4> QED  BY <4>1 DEF AnswerTrue
    <3> QED  BY <1>5, <3>1, <3>2 DEF Send
  <2> QED  BY <1>5, <2>5, <2>6, CallStepKeeps, Unchanged DEF Send, StepFacts, statusVars
<1> QED  BY <1>4, <1>5

LEMMA RelayKeeps ==
  ASSUME IInv, NEW r \in Request, register_broker_dpki(r)
  PROVE  relay' \in [Wallets -> Keys \cup {None}]
<1>1. relay \in [Wallets -> Keys \cup {None}] /\ r.address \in Wallets /\ r.pem \in Keys
  BY DEF IInv, TypeOK, Request
<1> QED  BY <1>1 DEF register_broker_dpki

LEMMA ConfirmKeeps ==
  ASSUME IInv, NEW t \in Threads,
         CacheConfirmed(t) \/ PostAnswered(t) \/ PostFails(t) \/ KeepOffline(t)
  PROVE  StepFacts
<1> DEFINE call == calls[t]
<1>1. calls[t].pc # "idle"
  BY DEF CacheConfirmed, PostAnswered, PostFails, Posted, KeepOffline, At
<1>2. call \in Call /\ CallOK(call, contract.log)
  BY <1>1, ThreadBusy
<1>3. call.wallet \in Wallets /\ call.op = "register" /\ call.key \in Keys
  BY <1>2 DEF Call, CallOK, RegisterPCs, CacheConfirmed, PostAnswered, PostFails,
              Posted, KeepOffline, At
<1>4. call.pc \in {"confirmed", "post"} =>
        /\ KeyDuring(contract.log, call.since, call.wallet, call.key)
        /\ EverOnChain(contract.log, call.wallet, call.key)
  <2>1. contract.log \in Seq(Event) /\ call.since \in Nat
    BY <1>2 DEF IInv, TypeOK, Contract, Call
  <2> QED  BY <1>2, <2>1, DuringEarlier DEF CallOK, EverOnChain
<1>5. CASE CacheConfirmed(t)
  <2>1. call.pc = "confirmed" /\ CachePut(call.wallet, call.key, "chain") /\ Goto(t, "post")
    BY <1>5 DEF CacheConfirmed, At
  <2>2. cache' \in [Wallets -> Cached \cup {None}] /\ CacheTrue(cache', contract.log)
    BY <1>3, <1>4, <2>1, CachePutKeeps
  <2>3. CallOK([call EXCEPT !.pc = "post"], contract.log)
    BY <1>2, <1>3, <1>4, <2>1 DEF CallOK, Call
  <2>4. CallStep(t) /\ last' = None
    BY <1>1, <2>1, <2>3, GotoKeeps DEF LivePCs
  <2> QED  BY <1>5, <2>2, <2>4, CallStepKeeps, Unchanged
           DEF CacheConfirmed, StepFacts, chainVars, statusVars
<1>6. ASSUME Posted(t)
      PROVE  CallStep(t) /\ last' \in Answer \cup {None} /\ AnswerTrue(last', contract.log)
  <2>1. CASE At(t, "post") /\ Return(t, "onchain", calls[t].key)
    <3>1. KeyDuring(contract.log, call.since, call.wallet, call.key)
      BY <1>4, <2>1 DEF At
    <3>2. /\ CallStep(t) /\ last' \in Answer /\ last'.result = "onchain"
          /\ last'.key = call.key /\ last'.wallet = call.wallet /\ last'.since = call.since
      BY <1>1, <1>3, <2>1, ReturnKeeps, ReturnAnswers DEF Results
    <3> QED  BY <3>1, <3>2 DEF AnswerTrue
  <2>2. CASE At(t, "post_offline") /\ Goto(t, "keep_offline")
    <3>1. CallOK([call EXCEPT !.pc = "keep_offline"], contract.log)
      BY <1>2, <1>3 DEF CallOK, Call
    <3>2. CallStep(t) /\ last' = None
      BY <1>1, <2>2, <3>1, GotoKeeps DEF OfflinePCs
    <3> QED  BY <3>2 DEF AnswerTrue
  <2> QED  BY <1>6, <2>1, <2>2 DEF Posted
<1>7. CASE PostAnswered(t)
  <2>1. OwnRequest(t) \in Request
    BY <1>3 DEF OwnRequest, Request
  <2>2. relay' \in [Wallets -> Keys \cup {None}]
    BY <1>7, <2>1, RelayKeeps DEF PostAnswered
  <2> QED  BY <1>6, <1>7, <2>2, CallStepKeeps, Unchanged
           DEF PostAnswered, StepFacts, chainVars, statusVars
<1>8. CASE PostFails(t)
  BY <1>6, <1>8, QuietStep DEF PostFails
<1>9. CASE KeepOffline(t)
  <2>1. /\ CachePut(call.wallet, call.key, "broker-unverified")
        /\ Return(t, "local", call.key)
    BY <1>9 DEF KeepOffline
  <2>2. CallStep(t) /\ last' \in Answer /\ last'.result = "local"
    BY <1>1, <1>3, <2>1, ReturnKeeps, ReturnAnswers DEF Results
  <2>3. AnswerTrue(last', contract.log)
    BY <2>2 DEF AnswerTrue
  <2>4. cache' \in [Wallets -> Cached \cup {None}] /\ CacheTrue(cache', contract.log)
    BY <1>3, <2>1, CachePutKeeps
  <2> QED  BY <1>9, <2>2, <2>3, <2>4, CallStepKeeps, Unchanged
           DEF KeepOffline, StepFacts, chainVars, statusVars
<1> QED  BY <1>5, <1>7, <1>8, <1>9

LEMMA WorkKeeps == ASSUME IInv, NEW t \in Threads, Work(t) PROVE IInv'
<1>1. StepFacts
  BY ConnectKeeps, LookupLiveKeeps, LookupOfflineKeeps, RegisterLiveKeeps,
     SendKeeps, ConfirmKeeps DEF Work
<1> QED  BY <1>1, StepFactsSuffice

LEMMA StartCallKeeps == ASSUME IInv, NEW t \in Threads, StartCall(t) PROVE IInv'
<1>1. PICK w \in Wallets, offline \in OfflineModes :
        \/ Lookup(t, w, offline)
        \/ \E key \in Keys, rsa \in RsaFiles \cap (Holds[w] \cup {None}) :
             Register(t, w, offline, key, rsa)
  BY DEF StartCall
<1>2. offline \in BOOLEAN
  BY DpkiAssumption
<1>3. StepFacts
  BY <1>1, <1>2, BeginKeeps DEF Lookup, Register
<1> QED  BY <1>3, StepFactsSuffice

\* Steps of others that leave the chain's state and the threads alone.
LEMMA OthersKeep ==
  ASSUME IInv, \/ NodeChanges \/ (\E r \in Requests : PostElsewhere(r)) \/ RelayRestart
               \/ CheckAges \/ Deploy
  PROVE  IInv'
<1>1. calls' \in [Threads -> Call \cup {Idle}] /\ CallsOK'
  BY DEF IInv, TypeOK, CallsOK, NodeChanges, PostElsewhere, RelayRestart, CheckAges, Deploy, chainVars
<1>2. last' = None
  BY DEF NodeChanges, PostElsewhere, RelayRestart, CheckAges, Deploy
<1>3. CASE NodeChanges
  <2>1. node' \in NodeStates
    BY <1>3 DEF NodeChanges
  <2> QED  BY <1>1, <1>2, <1>3, <2>1, Unchanged, StepFactsSuffice
           DEF NodeChanges, StepFacts, chainVars, statusVars
<1>4. ASSUME NEW r \in Requests, PostElsewhere(r) PROVE IInv'
  <2>1. relay' \in [Wallets -> Keys \cup {None}]
    BY <1>4, RelayKeeps, DpkiAssumption DEF PostElsewhere
  <2> QED  BY <1>1, <1>2, <1>4, <2>1, Unchanged, StepFactsSuffice
           DEF PostElsewhere, StepFacts, chainVars, statusVars
<1>5. CASE RelayRestart
  <2>1. relay' \in [Wallets -> Keys \cup {None}]
    BY <1>5 DEF RelayRestart
  <2> QED  BY <1>1, <1>2, <1>5, <2>1, Unchanged, StepFactsSuffice
           DEF RelayRestart, StepFacts, chainVars, statusVars
<1>6. CASE CheckAges
  <2>1. checked' \in BOOLEAN
    BY <1>6 DEF CheckAges
  <2> QED  BY <1>1, <1>2, <1>6, <2>1, Unchanged, StepFactsSuffice
           DEF CheckAges, StepFacts, chainVars
<1>7. CASE Deploy
  <2>1. code' \in BOOLEAN /\ deployer' \in Nat
    BY <1>7 DEF Deploy, IInv, TypeOK
  <2> QED  BY <1>1, <1>2, <1>7, <2>1, Unchanged, StepFactsSuffice DEF Deploy, StepFacts, statusVars
<1> QED  BY <1>3, <1>4, <1>5, <1>6, <1>7

LEMMA RestartKeeps == ASSUME IInv, Restart PROVE IInv'
<1>1. calls' \in [Threads -> Call \cup {Idle}] /\ CallsOK'
  BY DEF Restart, CallsOK, Idle
<1>2. cache' \in [Wallets -> Cached \cup {None}] /\ CacheTrue(cache', contract.log)
  BY DEF Restart, CacheTrue
<1> QED  BY <1>1, <1>2, Unchanged, StepFactsSuffice DEF Restart, StepFacts, chainVars

LEMMA SubmitKeeps ==
  ASSUME IInv, NEW w \in Wallets, NEW pem \in Keys, NEW signature \in KnownProofs(w),
         SubmitElsewhere(w, pem, signature)
  PROVE  IInv'
<1>1. signature \in Pop /\ Genuine(signature)
  <2>1. CASE signature \in {[key |-> k, address |-> w] : k \in Holds[w]}
    BY <2>1, KeyRegistryAssumption DEF Pop, Genuine
  <2>2. CASE signature \in {contract.log[i].signature :
                 i \in {j \in DOMAIN contract.log :
                          \E u \in Wallets : Registers(contract.log[j], u)}}
    <3>1. PICK i \in DOMAIN contract.log :
            /\ contract.log[i].name = "PublicKeyRegisteredWithPoP"
            /\ signature = contract.log[i].signature
      BY <2>2 DEF Registers
    <3>2. contract.log[i] \in Event
      BY <3>1 DEF IInv, TypeOK, Contract
    <3>3. contract.log[i].signature \in Pop
      BY <3>1, <3>2 DEF Event, ChainReset
    <3> QED  BY <3>1, <3>3 DEF IInv, ProofsGenuine
  <2> QED  BY <2>1, <2>2 DEF KnownProofs
<1>2. PICK n \in Nat : n = Len(receipts[w])
  BY DEF IInv, TypeOK
<1> DEFINE tx == [from |-> w, nonce |-> n, pem |-> pem, signature |-> signature]
<1>3. tx \in Transaction /\ Genuine(tx.signature)
  BY <1>1 DEF Transaction
<1>4. pool' = pool \cup {tx}
  BY <1>2 DEF SubmitElsewhere
<1> HIDE DEF tx
<1>5. pool' \in SUBSET Transaction /\ \A x \in pool' : Genuine(x.signature)
  BY <1>3, <1>4 DEF IInv, TypeOK, ProofsGenuine
<1>6. calls' \in [Threads -> Call \cup {Idle}] /\ CallsOK'
  BY DEF SubmitElsewhere, IInv, TypeOK, CallsOK
<1> QED  BY <1>5, <1>6, Unchanged, StepFactsSuffice DEF SubmitElsewhere, StepFacts, statusVars

\* What a longer log, the registry apart, does to the facts.
LEMMA GrowingKeeps ==
  ASSUME IInv, UNCHANGED <<cache, calls>>, last' = None,
         Grown(contract.log, contract'.log)
  PROVE  CallsOK' /\ ChainSourceIsTrue' /\ LookupIsCurrent' /\ RegisteredIsOnChain'
<1>1. UNCHANGED <<cache, calls>> /\ last' = None
  OBVIOUS
<1>2. CallsOK'
  <2> SUFFICES ASSUME NEW t \in Threads, calls[t].pc # "idle"
               PROVE  CallOK(calls[t], contract'.log)
    BY <1>1 DEF CallsOK
  <2> QED  BY ThreadBusy, CallOKGrows
<1>3. ChainSourceIsTrue'
  <2> SUFFICES ASSUME NEW w \in Wallets, cache[w] # None, cache[w].source = "chain"
               PROVE  EverOnChain(contract'.log, w, cache[w].pem)
    BY <1>1 DEF ChainSourceIsTrue
  <2>1. KeyDuring(contract.log, 0, w, cache[w].pem)
    BY DEF IInv, ChainSourceIsTrue, EverOnChain
  <2>2. 0 \in Nat /\ 0 <= Len(contract.log)
    BY DEF Grown
  <2> QED  BY <2>1, <2>2, DuringGrows DEF EverOnChain
<1> QED  BY <1>1, <1>2, <1>3 DEF LookupIsCurrent, RegisteredIsOnChain

LEMMA MineKeeps == ASSUME IInv, NEW tx \in pool, Mine(tx) PROVE IInv'
<1>1. /\ tx.from \in Wallets /\ tx.pem \in Keys /\ tx.signature \in Pop
      /\ Genuine(tx.signature)
  BY DEF IInv, TypeOK, Transaction, ProofsGenuine
<1>2. /\ pool' \in SUBSET Transaction /\ \A x \in pool' : Genuine(x.signature)
      /\ receipts' \in [Wallets -> Seq(BOOLEAN)]
  <2>1. pool' \in SUBSET Transaction /\ \A x \in pool' : Genuine(x.signature)
    BY DEF Mine, IInv, TypeOK, ProofsGenuine
  <2>2. (code => ProofHolds(tx.from, tx.pem, tx.signature)) \in BOOLEAN
    BY DEF ProofHolds, IInv, TypeOK
  <2>3. PICK b \in BOOLEAN : b = (code => ProofHolds(tx.from, tx.pem, tx.signature))
    BY <2>2
  <2>4. receipts' = [receipts EXCEPT ![tx.from] = Append(@, b)]
    BY <2>3 DEF Mine
  <2>5. receipts \in [Wallets -> Seq(BOOLEAN)]
    BY DEF IInv, TypeOK
  <2>6. Append(receipts[tx.from], b) \in Seq(BOOLEAN)
    BY <2>5, <1>1
  <2>7. receipts' \in [Wallets -> Seq(BOOLEAN)]
    BY <2>4, <2>5, <2>6
  <2> QED  BY <2>1, <2>7
<1>3. contract \in Contract
  BY DEF IInv, TypeOK
<1>4. CASE code /\ ProofHolds(tx.from, tx.pem, tx.signature)
  <2>1. Entered(contract, contract', tx.from, tx.pem, tx.signature)
    BY <1>1, <1>3, <1>4, RegisterEnters DEF Mine
  <2>2. LogTellsHistory'
    BY <1>1, <2>1, EnteredMatches, EnteredChanges, EnteredRotations DEF IInv, LogTellsHistory
  <2>3. CallsOK' /\ ChainSourceIsTrue' /\ LookupIsCurrent' /\ RegisteredIsOnChain'
    BY <2>1, GrowingKeeps DEF Entered, Mine
  <2>4. KeysAreProven'
    <3>1. tx.pem \in Holds[tx.from]
      BY <1>1, <1>4 DEF ProofHolds, Genuine
    <3>2. contract'.registry =
            [contract.registry EXCEPT ![tx.from] = [publicKeyPem |-> tx.pem, hasPoP |-> TRUE]]
      BY <2>1 DEF Entered
    <3>3. contract.registry \in [Wallets -> KeyRecord \cup {None}]
      BY <1>3 DEF Contract
    <3>4. \A w \in Wallets :
            contract'.registry[w] = IF w = tx.from
                                    THEN [publicKeyPem |-> tx.pem, hasPoP |-> TRUE]
                                    ELSE contract.registry[w]
      BY <3>2, <3>3
    <3> QED  BY <3>1, <3>4 DEF IInv, KeysAreProven
  <2>5. ProofsGenuine'
    <3>1. /\ contract.log \in Seq(Event) /\ contract'.log \in Seq(Event)
          /\ Len(contract.log) < Len(contract'.log)
          /\ \A k \in 1..Len(contract.log) : contract'.log[k] = contract.log[k]
          /\ contract'.log[Len(contract'.log)] = Registered(tx.from, tx.pem, tx.signature)
      BY <2>1 DEF Entered, Contract, Grown
    <3>2. SUFFICES ASSUME NEW i \in DOMAIN contract'.log,
                          contract'.log[i].name = "PublicKeyRegisteredWithPoP"
                   PROVE  Genuine(contract'.log[i].signature)
      BY <1>2 DEF ProofsGenuine
    <3>3. \/ i \in 1..Len(contract.log) \/ i = Len(contract'.log)
          \/ contract'.log[i].name = "KeyRotated"
      BY <2>1, <3>1 DEF Entered, Rotated
    <3>4. CASE i \in 1..Len(contract.log)
      BY <3>1, <3>2, <3>4 DEF IInv, ProofsGenuine
    <3>5. CASE i = Len(contract'.log)
      BY <1>1, <3>1, <3>5 DEF Registered
    <3> QED  BY <3>2, <3>3, <3>4, <3>5
  <2>6. TypeOK'
    BY <1>2, <2>1 DEF Mine, IInv, TypeOK, statusVars, Entered
  <2> QED  BY <2>2, <2>3, <2>4, <2>5, <2>6 DEF IInv
<1>5. CASE ~(code /\ ProofHolds(tx.from, tx.pem, tx.signature))
  <2>1. contract' = contract
    BY <1>5 DEF Mine, registerPublicKeyWithPoP
  <2>2. Grown(contract.log, contract'.log)
    BY <2>1, <1>3, GrownItself DEF Contract
  <2>3. CallsOK' /\ ChainSourceIsTrue' /\ LookupIsCurrent' /\ RegisteredIsOnChain'
    BY <2>2, GrowingKeeps DEF Mine
  <2>4. LogTellsHistory' /\ KeysAreProven' /\ ProofsGenuine'
    BY <2>1, <1>2 DEF IInv, LogTellsHistory, KeysAreProven, ProofsGenuine
  <2>5. TypeOK'
    BY <1>2, <2>1 DEF Mine, IInv, TypeOK, statusVars
  <2> QED  BY <2>3, <2>4, <2>5 DEF IInv
<1> QED  BY <1>4, <1>5

\* The last event of the history is that the chain is gone.
LEMMA ResetKeepsLog ==
  ASSUME NEW c \in Contract, NEW d, d = Emptied(c),
         RegistryMatchesLog(c), ChangesAreLogged(c.log), RotationsAreChanges(c.log)
  PROVE  /\ d \in Contract /\ Grown(c.log, d.log)
         /\ d.registry = [w \in Wallets |-> None]
         /\ d.log[Len(d.log)] = ChainReset /\ Len(d.log) = Len(c.log) + 1
         /\ RegistryMatchesLog(d) /\ ChangesAreLogged(d.log) /\ RotationsAreChanges(d.log)
<1>1. c.log \in Seq(Event) /\ ChainReset \in Event
  BY DEF Contract, Event
<1>2. /\ d.registry = [w \in Wallets |-> None]
      /\ d.log = Append(c.log, ChainReset)
      /\ d = [registry |-> d.registry, log |-> d.log]
  BY DEF Emptied, NewContract
<1> HIDE DEF ChainReset
<1>3. /\ d.log \in Seq(Event) /\ Len(d.log) = Len(c.log) + 1
      /\ d.log[Len(d.log)] = ChainReset
      /\ \A i \in 1..Len(c.log) : d.log[i] = c.log[i]
  BY <1>1, <1>2
<1>4. d \in Contract
  BY <1>2, <1>3 DEF Contract
<1>5. Grown(c.log, d.log)
  BY <1>1, <1>3 DEF Grown
<1>6. \A w : ~Registers(ChainReset, w) /\ Ends(ChainReset, w)
  BY DEF Registers, ChainReset, Ends
<1>7. RegistryMatchesLog(d)
  <2> SUFFICES ASSUME NEW w \in Wallets, NEW i \in 1..Len(d.log), Registers(d.log[i], w)
               PROVE  \E j \in i+1..Len(d.log) : d.log[j] = ChainReset
    BY <1>2 DEF RegistryMatchesLog, NoKeyAt
  <2>1. i # Len(d.log)
    BY <1>3, <1>6
  <2>2. Len(d.log) \in i+1..Len(d.log)
    BY <1>3, <2>1
  <2> QED  BY <1>3, <2>2
<1>8. ASSUME NEW w, NEW i, NEW j, InARow(d.log, w, i, j)
      PROVE  InARow(c.log, w, i, j) /\ j \in 1..Len(c.log)
  <2>1. /\ i \in 1..Len(d.log) /\ j \in 1..Len(d.log) /\ i < j
        /\ Registers(d.log[i], w) /\ Registers(d.log[j], w)
        /\ \A k \in i+1..j-1 : ~Ends(d.log[k], w)
    BY <1>3, <1>8 DEF InARow
  <2>2. j # Len(d.log)
    BY <1>3, <1>6, <2>1
  <2>3. /\ i \in 1..Len(c.log) /\ j \in 1..Len(c.log)
        /\ \A k \in i+1..j-1 : k \in 1..Len(c.log)
    BY <1>1, <1>3, <2>1, <2>2
  <2> QED  BY <1>1, <1>3, <2>1, <2>3 DEF InARow
<1>9. ChangesAreLogged(d.log)
  <2> SUFFICES ASSUME NEW w \in Wallets, NEW i \in DOMAIN d.log, NEW j \in DOMAIN d.log,
                      InARow(d.log, w, i, j), d.log[i].publicKeyPem # d.log[j].publicKeyPem
               PROVE  d.log[j-1] = Rotated(w, d.log[i].publicKeyPem, d.log[j].publicKeyPem)
    BY DEF ChangesAreLogged
  <2>1. InARow(c.log, w, i, j)
    BY <1>8
  <2>2. i \in 1..Len(c.log) /\ j \in 1..Len(c.log) /\ j-1 \in 1..Len(c.log) /\ i < j
    BY <1>1, <2>1 DEF InARow
  <2>3. i \in DOMAIN c.log /\ j \in DOMAIN c.log
    BY <1>1, <2>2
  <2> QED  BY <1>3, <2>1, <2>2, <2>3 DEF ChangesAreLogged
<1>10. RotationsAreChanges(d.log)
  <2> SUFFICES ASSUME NEW n \in DOMAIN d.log, d.log[n].name = "KeyRotated"
               PROVE  \E k \in 1..n-1 : RotationFrom(d.log, n, k)
    BY DEF RotationsAreChanges
  <2>1. n # Len(d.log)
    BY <1>3 DEF ChainReset
  <2>2. n \in 1..Len(c.log) /\ n \in DOMAIN c.log /\ d.log[n] = c.log[n]
    BY <1>1, <1>3, <2>1
  <2>3. PICK k \in 1..n-1 : RotationFrom(c.log, n, k)
    BY <2>2 DEF RotationsAreChanges
  <2>4. InARow(c.log, c.log[n].user, k, n+1)
    BY <2>3 DEF RotationFrom
  <2>5. /\ k \in 1..Len(c.log) /\ n+1 \in 1..Len(c.log) /\ k < n+1
        /\ \A m \in k+1..(n+1)-1 : m \in 1..Len(c.log)
    BY <1>1, <2>2, <2>4 DEF InARow
  <2>6. InARow(d.log, d.log[n].user, k, n+1)
    <3>1. k \in DOMAIN d.log /\ n+1 \in DOMAIN d.log
      BY <1>3, <2>5
    <3>2. d.log[k] = c.log[k] /\ d.log[n+1] = c.log[n+1]
      BY <1>3, <2>5
    <3>3. \A m \in k+1..(n+1)-1 : d.log[m] = c.log[m]
      BY <1>3, <2>5
    <3> QED  BY <2>2, <2>4, <2>5, <3>1, <3>2, <3>3 DEF InARow
  <2>7. RotationFrom(d.log, n, k)
    BY <1>3, <2>2, <2>3, <2>5, <2>6 DEF RotationFrom
  <2> QED  BY <2>7
<1> QED  BY <1>2, <1>3, <1>4, <1>5, <1>7, <1>9, <1>10

LEMMA ResetKeeps == ASSUME IInv, ResetChain PROVE IInv'
<1>1. /\ contract \in Contract /\ contract' = Emptied(contract)
      /\ UNCHANGED <<cache, calls>> /\ last' = None
  BY DEF IInv, TypeOK, ResetChain
<1>2. /\ contract' \in Contract /\ Grown(contract.log, contract'.log)
      /\ contract'.registry = [w \in Wallets |-> None]
      /\ contract'.log[Len(contract'.log)] = ChainReset
      /\ Len(contract'.log) = Len(contract.log) + 1
      /\ LogTellsHistory'
  BY <1>1, ResetKeepsLog DEF IInv, LogTellsHistory
<1>3. CallsOK' /\ ChainSourceIsTrue' /\ LookupIsCurrent' /\ RegisteredIsOnChain'
  BY <1>1, <1>2, GrowingKeeps
<1>4. KeysAreProven'
  BY <1>2 DEF KeysAreProven
<1>5. ProofsGenuine'
  <2> SUFFICES ASSUME NEW i \in DOMAIN contract'.log,
                      contract'.log[i].name = "PublicKeyRegisteredWithPoP"
               PROVE  Genuine(contract'.log[i].signature)
    BY DEF ResetChain, ProofsGenuine
  <2>1. contract.log \in Seq(Event) /\ contract'.log \in Seq(Event)
    BY <1>2 DEF Grown
  <2>2. i # Len(contract'.log)
    BY <1>2 DEF ChainReset
  <2>3. i \in 1..Len(contract.log) /\ contract'.log[i] = contract.log[i]
    BY <1>2, <2>1, <2>2 DEF Grown
  <2> QED  BY <2>1, <2>3 DEF IInv, ProofsGenuine
<1>6. TypeOK'
  <2>1. receipts' \in [Wallets -> Seq(BOOLEAN)]
    <3>1. <<>> \in Seq(BOOLEAN)
      OBVIOUS
    <3> QED  BY <3>1 DEF ResetChain
  <2>2. code' \in BOOLEAN /\ deployer' \in Nat /\ pool' = {}
    BY DEF ResetChain
  <2> QED  BY <1>1, <1>2, <2>1, <2>2 DEF ResetChain, IInv, TypeOK, statusVars
<1> QED  BY <1>2, <1>3, <1>4, <1>5, <1>6 DEF IInv

LEMMA InitIInv == ASSUME Init PROVE IInv
<1>1. TypeOK
  <2>1. contract \in Contract
    <3>1. [w \in Wallets |-> None] \in [Wallets -> KeyRecord \cup {None}] /\ <<>> \in Seq(Event)
      OBVIOUS
    <3> QED  BY <3>1 DEF Init, NewContract, Contract
  <2>2. receipts \in [Wallets -> Seq(BOOLEAN)]
    <3>1. <<>> \in Seq(BOOLEAN)
      OBVIOUS
    <3> QED  BY <3>1 DEF Init
  <2>3. calls \in [Threads -> Call \cup {Idle}]
    BY DEF Init
  <2>4. code \in BOOLEAN /\ deployer \in Nat
    BY DpkiAssumption DEF Init
  <2> QED  BY <2>1, <2>2, <2>3, <2>4 DEF Init, TypeOK
<1>2. contract.log = <<>> /\ \A w \in Wallets : contract.registry[w] = None
  BY DEF Init, NewContract
<1>3. DOMAIN contract.log = {} /\ Len(contract.log) = 0
  BY <1>2
<1>4. LogTellsHistory
  BY <1>2, <1>3 DEF LogTellsHistory, RegistryMatchesLog, NoKeyAt, ChangesAreLogged, RotationsAreChanges
<1>5. KeysAreProven /\ ProofsGenuine
  BY <1>2, <1>3 DEF Init, KeysAreProven, ProofsGenuine
<1>6. CallsOK /\ ChainSourceIsTrue /\ LookupIsCurrent /\ RegisteredIsOnChain
  BY DEF Init, CallsOK, Idle, ChainSourceIsTrue, LookupIsCurrent, RegisteredIsOnChain
<1> QED  BY <1>1, <1>4, <1>5, <1>6 DEF IInv

LEMMA NextIInv == ASSUME IInv, [Next]_vars PROVE IInv'
<1>1. CASE \E t \in Threads : StartCall(t) \/ Work(t)
  BY <1>1, StartCallKeeps, WorkKeeps
<1>2. CASE CheckAges
  BY <1>2, OthersKeep
<1>3. CASE Restart
  BY <1>3, RestartKeeps
<1>4. CASE Environment
  BY <1>4, SubmitKeeps, MineKeeps, ResetKeeps, OthersKeep DEF Environment
<1>5. CASE UNCHANGED vars
  BY <1>5 DEF vars, chainVars, statusVars, IInv, TypeOK, CallsOK, ProofsGenuine,
     KeysAreProven, LogTellsHistory, ChainSourceIsTrue, LookupIsCurrent, RegisteredIsOnChain
<1> QED  BY <1>1, <1>2, <1>3, <1>4, <1>5 DEF Next

-----------------------------------------------------------------------------

LEMMA Invariance == Spec => []IInv
BY InitIInv, NextIInv, PTL DEF Spec

(* Every variable keeps its type: in particular no cache entry is without  *)
(* a key, and its source is chain or broker-unverified (dpki_client.py:72).*)
THEOREM DpkiTypes == Spec => []TypeOK
<1>1. IInv => TypeOK
  BY DEF IInv
<1> QED  BY <1>1, Invariance, PTL

(* A wallet's key on chain is one whose private half its owner holds, for  *)
(* any transactions with any published proofs (registerPublicKeyWithPoP).  *)
THEOREM KeysProven == Spec => []KeysAreProven
<1>1. IInv => KeysAreProven
  BY DEF IInv
<1> QED  BY <1>1, Invariance, PTL

(* The KeyRotated events tell every change of key and nothing else, and    *)
(* the registry holds the last key announced (dPKIRegistry.sol:23-25).     *)
THEOREM LogComplete == Spec => []LogTellsHistory
<1>1. IInv => LogTellsHistory
  BY DEF IInv
<1> QED  BY <1>1, Invariance, PTL

(* What the process holds or answers as coming from the chain was there    *)
(* (_cache_put and its callers, get_public_key_with_provenance).           *)
THEOREM ChainProvenance == Spec => []ChainSourceIsTrue
<1>1. IInv => ChainSourceIsTrue
  BY DEF IInv
<1> QED  BY <1>1, Invariance, PTL

(* An answer of the chain is true of some moment of the call, however      *)
(* calls, rotations and cache updates overlap                              *)
(* (get_public_key_with_provenance).                                       *)
THEOREM LookupsCurrent == Spec => []LookupIsCurrent
<1>1. IInv => LookupIsCurrent
  BY DEF IInv
<1> QED  BY <1>1, Invariance, PTL

(* A registration reports success only for a key that was on chain during  *)
(* the call (register_public_key, the read-back).                          *)
THEOREM RegistrationsConfirmed == Spec => []RegisteredIsOnChain
<1>1. IInv => RegisteredIsOnChain
  BY DEF IInv
<1> QED  BY <1>1, Invariance, PTL

-----------------------------------------------------------------------------
(***************************************************************************)
(* KeyText: DER is read as it was written                                  *)
(***************************************************************************)

\* Bytes; the lengths that two of them can say; what data has from an offset on.
Byte == 0..255
Lengths == {n \in Nat : n < 65536}

Reads(data, offset, s) ==
  /\ offset + Len(s) <= Len(data)
  /\ \A i \in 1..Len(s) : data[offset + i] = s[i]

LEMMA Joined ==
  ASSUME NEW s \in Seq(Byte), NEW t \in Seq(Byte)
  PROVE  /\ s \o t \in Seq(Byte) /\ Len(s \o t) = Len(s) + Len(t)
         /\ Len(s) \in Nat /\ Len(t) \in Nat
         /\ \A i \in 1..Len(s) + Len(t) :
              (s \o t)[i] = IF i <= Len(s) THEN s[i] ELSE t[i - Len(s)]
  BY ConcatProperties

LEMMA ReadsBoth ==
  ASSUME NEW data \in Seq(Byte), NEW offset \in Nat,
         NEW s \in Seq(Byte), NEW t \in Seq(Byte), Reads(data, offset, s \o t)
  PROVE  Reads(data, offset, s) /\ Reads(data, offset + Len(s), t)
<1>0. /\ s \o t \in Seq(Byte) /\ Len(s \o t) = Len(s) + Len(t)
      /\ Len(s) \in Nat /\ Len(t) \in Nat /\ Len(data) \in Nat
  OBVIOUS
<1>1. Reads(data, offset, s)
  <2>1. ASSUME NEW i \in 1..Len(s) PROVE data[offset + i] = s[i]
    <3>1. i \in 1..Len(s \o t) /\ (s \o t)[i] = s[i]
      BY <1>0
    <3> QED  BY <3>1 DEF Reads
  <2> QED  BY <1>0, <2>1 DEF Reads
<1>2. Reads(data, offset + Len(s), t)
  <2>1. ASSUME NEW i \in 1..Len(t) PROVE data[(offset + Len(s)) + i] = t[i]
    <3>1. Len(s) + i \in 1..Len(s \o t) /\ (s \o t)[Len(s) + i] = t[i]
      BY <1>0
    <3>2. offset + (Len(s) + i) = (offset + Len(s)) + i
      BY <1>0
    <3> QED  BY <3>1, <3>2 DEF Reads
  <2> QED  BY <1>0, <2>1 DEF Reads
<1> QED  BY <1>1, <1>2

\* Short sequences.
LEMMA Tuples ==
  ASSUME NEW S, NEW a \in S, NEW b \in S, NEW c \in S
  PROVE  /\ <<a>> \in Seq(S) /\ Len(<<a>>) = 1 /\ <<a>>[1] = a
         /\ <<a, b>> \in Seq(S) /\ Len(<<a, b>>) = 2 /\ <<a, b>>[1] = a /\ <<a, b>>[2] = b
         /\ <<a, b, c>> \in Seq(S) /\ Len(<<a, b, c>>) = 3
         /\ <<a, b, c>>[1] = a /\ <<a, b, c>>[2] = b /\ <<a, b, c>>[3] = c
  OBVIOUS

LEMMA LengthBytes ==
  ASSUME NEW len \in Lengths
  PROVE  /\ len \in Nat
         /\ len < 256 => len \in Byte
         /\ len \div 256 \in Byte /\ len % 256 \in Byte
         /\ 256 * (len \div 256) + (len % 256) = len
         /\ 129 \in Byte /\ 130 \in Byte
  BY SMT DEF Lengths, Byte

\* A length takes one, two or three bytes.
LEMMA LengthForms ==
  ASSUME NEW len \in Lengths
  PROVE  /\ LengthOf(len) \in Seq(Byte)
         /\ Len(LengthOf(len)) = IF len < 128 THEN 1 ELSE IF len < 256 THEN 2 ELSE 3
<1>1. CASE len < 128
  <2>1. len \in Byte
    BY <1>1, LengthBytes
  <2>2. LengthOf(len) = <<len>>
    BY <1>1 DEF LengthOf
  <2> QED  BY <1>1, <2>1, <2>2, Tuples
<1>2. CASE ~(len < 128) /\ len < 256
  <2>1. len \in Byte /\ 129 \in Byte
    BY <1>2, LengthBytes
  <2>2. LengthOf(len) = <<129, len>>
    BY <1>2 DEF LengthOf
  <2> QED  BY <1>2, <2>1, <2>2, Tuples
<1>3. CASE ~(len < 128) /\ ~(len < 256)
  <2>1. len \div 256 \in Byte /\ len % 256 \in Byte /\ 130 \in Byte
    BY LengthBytes
  <2>2. LengthOf(len) = <<130, len \div 256, len % 256>>
    BY <1>3 DEF LengthOf
  <2> QED  BY <1>3, <2>1, <2>2, Tuples
<1> QED  BY <1>1, <1>2, <1>3

LEMMA ElementTypes ==
  ASSUME NEW tag \in Byte, NEW content \in Seq(Byte), Len(content) \in Lengths
  PROVE  /\ Element(tag, content) \in Seq(Byte)
         /\ Len(Element(tag, content)) = 1 + Len(LengthOf(Len(content))) + Len(content)
         /\ Len(Element(tag, content)) <= 4 + Len(content)
<1> DEFINE form == LengthOf(Len(content))
<1>1. form \in Seq(Byte) /\ Len(form) \in 1..3
  BY LengthForms
<1>2. <<tag>> \in Seq(Byte) /\ Len(<<tag>>) = 1
  BY Tuples
<1> HIDE DEF form
<1>3. <<tag>> \o form \in Seq(Byte) /\ Len(<<tag>> \o form) = 1 + Len(form)
  BY <1>1, <1>2, Joined
<1>4. /\ (<<tag>> \o form) \o content \in Seq(Byte)
      /\ Len((<<tag>> \o form) \o content) = (1 + Len(form)) + Len(content)
      /\ Len(content) \in Nat
  BY <1>3, Joined
<1>5. Element(tag, content) = (<<tag>> \o form) \o content
  BY DEF Element, form
<1>6. (1 + Len(form)) + Len(content) <= 4 + Len(content)
  <2>1. \A f \in 1..3, n \in Nat : (1 + f) + n <= 4 + n
    OBVIOUS
  <2> QED  BY <2>1, <1>1, <1>4
<1> QED  BY <1>4, <1>5, <1>6 DEF form

\* readTagLength, where the length has two bytes and where it has three.
LEMMA TwoBytes ==
  ASSUME NEW data \in Seq(Byte), NEW offset \in Nat, NEW n \in Nat, offset + 3 <= Len(data),
         data[offset + 2] = 129, data[offset + 3] = n
  PROVE  readTagLength(data, offset) = {[next |-> offset + 3, len |-> n]}
<1>1. Len(data) \in Nat
  OBVIOUS
<1>2. (offset + 1) + 1 = offset + 2 /\ (offset + 2) + 1 = offset + 3
  OBVIOUS
<1>3. ByteAt(data, offset + 1) = 129 /\ ByteAt(data, offset + 2) = n
  BY <1>2 DEF ByteAt
<1> QED  BY <1>1, <1>3 DEF readTagLength

LEMMA ThreeBytes ==
  ASSUME NEW data \in Seq(Byte), NEW offset \in Nat, NEW high \in Nat, NEW low \in Nat,
         offset + 4 <= Len(data),
         data[offset + 2] = 130, data[offset + 3] = high, data[offset + 4] = low
  PROVE  readTagLength(data, offset) = {[next |-> offset + 4, len |-> 256 * high + low]}
<1>1. Len(data) \in Nat
  OBVIOUS
<1>2. /\ (offset + 1) + 1 = offset + 2 /\ (offset + 2) + 1 = offset + 3
      /\ (offset + 3) + 1 = offset + 4
  OBVIOUS
<1>3. /\ ByteAt(data, offset + 1) = 130 /\ ByteAt(data, offset + 2) = high
      /\ ByteAt(data, offset + 3) = low
  BY <1>2 DEF ByteAt
<1> QED  BY <1>1, <1>3 DEF readTagLength

\* A length that stands behind a tag is read as what it says.
LEMMA LengthRead ==
  ASSUME NEW data \in Seq(Byte), NEW offset \in Nat, NEW len \in Lengths,
         Reads(data, offset + 1, LengthOf(len))
  PROVE  readTagLength(data, offset) =
           {[next |-> offset + 1 + Len(LengthOf(len)), len |-> len]}
<1> DEFINE form == LengthOf(len)
<1>1. /\ form \in Seq(Byte) /\ Len(form) \in Nat /\ Len(data) \in Nat
      /\ offset + 1 + Len(form) <= Len(data)
      /\ \A i \in 1..Len(form) : data[(offset + 1) + i] = form[i]
  BY LengthForms DEF Reads
<1>0. len \in Nat
  BY LengthBytes
<1>2. (offset + 1) + 1 = offset + 2 /\ (offset + 1) + 2 = offset + 3 /\ (offset + 1) + 3 = offset + 4
  OBVIOUS
<1>3. CASE len < 128
  <2>1. Len(form) = 1 /\ form[1] = len
    BY <1>3, Tuples DEF LengthOf
  <2>2. data[offset + 2] = len /\ offset + 2 <= Len(data)
    BY <2>1, <1>1, <1>2
  <2>3. ByteAt(data, offset + 1) = len
    BY <2>2, <1>2 DEF ByteAt
  <2> QED  BY <2>1, <2>2, <2>3, <1>0, <1>1, <1>3 DEF readTagLength
<1>4. CASE ~(len < 128) /\ len < 256
  <2>1. Len(form) = 2 /\ form[1] = 129 /\ form[2] = len
    BY <1>4, Tuples DEF LengthOf
  <2>2. data[offset + 2] = 129 /\ data[offset + 3] = len /\ offset + 3 <= Len(data)
    BY <2>1, <1>1, <1>2
  <2>3. readTagLength(data, offset) = {[next |-> offset + 3, len |-> len]}
    BY <1>0, <2>2, TwoBytes
  <2> QED  BY <2>1, <2>3
<1>5. CASE ~(len < 128) /\ ~(len < 256)
  <2> DEFINE high == len \div 256
             low == len % 256
  <2>1. Len(form) = 3 /\ form[1] = 130 /\ form[2] = high /\ form[3] = low
    BY <1>5, Tuples DEF LengthOf
  <2>2. high \in Nat /\ low \in Nat /\ 256 * high + low = len
    BY SMT, LengthBytes DEF Byte
  <2> HIDE DEF high, low
  <2>3. /\ data[offset + 2] = 130 /\ data[offset + 3] = high /\ data[offset + 4] = low
        /\ offset + 4 <= Len(data)
    BY <2>1, <1>1, <1>2
  <2>4. readTagLength(data, offset) = {[next |-> offset + 4, len |-> 256 * high + low]}
    BY <2>2, <2>3, ThreeBytes
  <2> QED  BY <2>1, <2>2, <2>4
<1> QED  BY <1>3, <1>4, <1>5

\* Where the content of an element at offset starts.
ContentAt(offset, content) == offset + 1 + Len(LengthOf(Len(content)))

LEMMA ElementRead ==
  ASSUME NEW data \in Seq(Byte), NEW offset \in Nat, NEW tag \in Byte,
         NEW content \in Seq(Byte), Len(content) \in Lengths,
         Reads(data, offset, Element(tag, content))
  PROVE  /\ Tagged(data, offset, tag)
         /\ readTagLength(data, offset) =
              {[next |-> ContentAt(offset, content), len |-> Len(content)]}
         /\ Reads(data, ContentAt(offset, content), content)
         /\ ContentAt(offset, content) \in Nat
         /\ ContentAt(offset, content) + Len(content) = offset + Len(Element(tag, content))
<1> DEFINE len == Len(content)
           form == LengthOf(len)
<1>0. len \in Lengths /\ len \in Nat /\ Len(data) \in Nat
  OBVIOUS
<1>1. form \in Seq(Byte) /\ <<tag>> \in Seq(Byte) /\ Len(<<tag>>) = 1 /\ <<tag>>[1] = tag
      /\ Len(form) \in Nat
  BY <1>0, LengthForms, Tuples
<1>2. <<tag>> \o form \in Seq(Byte) /\ Len(<<tag>> \o form) = 1 + Len(form)
  BY <1>1, Joined
<1>3. Reads(data, offset, <<tag>> \o form) /\ Reads(data, offset + (1 + Len(form)), content)
  BY <1>2, ReadsBoth DEF Element
<1>4. Reads(data, offset, <<tag>>) /\ Reads(data, offset + 1, form)
  BY <1>1, <1>3, ReadsBoth
<1>5. Tagged(data, offset, tag)
  BY <1>4, <1>1, <1>0 DEF Reads, Tagged, ByteAt
<1>6. ContentAt(offset, content) = offset + (1 + Len(form)) /\ ContentAt(offset, content) \in Nat
  BY <1>1 DEF ContentAt
<1>7. readTagLength(data, offset) = {[next |-> ContentAt(offset, content), len |-> len]}
  BY <1>0, <1>4, LengthRead DEF ContentAt
<1>8. ContentAt(offset, content) + Len(content) = offset + Len(Element(tag, content))
  <2>1. Len(Element(tag, content)) = 1 + Len(form) + Len(content)
    BY ElementTypes
  <2> QED  BY <2>1, <1>0, <1>1, <1>6
<1> QED  BY <1>3, <1>5, <1>6, <1>7, <1>8

LEMMA SliceRead ==
  ASSUME NEW data \in Seq(Byte), NEW offset \in Nat, NEW s \in Seq(Byte), Reads(data, offset, s)
  PROVE  Slice(data, offset, offset + Len(s)) = s
<1> DEFINE u == SubSeq(data, offset + 1, offset + Len(s))
<1>1. Len(s) \in Nat /\ Len(data) \in Nat /\ offset + Len(s) <= Len(data)
  BY DEF Reads
<1>2. u \in Seq(Byte) /\ Len(u) = Len(s)
  BY <1>1
<1>3. ASSUME NEW i \in 1..Len(s) PROVE u[i] = s[i]
  <2>1. u[i] = data[offset + i]
    BY <1>1
  <2> QED  BY <2>1 DEF Reads
<1>4. u = s
  <2> HIDE DEF u
  <2> QED  BY <1>2, <1>3, SeqEqual
<1> QED  BY <1>4 DEF Slice

LEMMA Shorter ==
  ASSUME NEW n \in Nat, 1 + n \in Lengths
  PROVE  n \in Lengths
  BY SMT DEF Lengths

\* A number in as few bytes as it takes.
Numerals == {b \in Seq(Byte) : b # <<>> /\ b[1] # 0}

\* What is in an INTEGER: in front of a byte of 128 or more stands a zero.
Signed(bytes) == IF bytes[1] >= 128 THEN <<0>> \o bytes ELSE bytes

LEMMA UnsignedTypes ==
  ASSUME NEW bytes \in Numerals, 1 + Len(bytes) \in Lengths
  PROVE  /\ bytes \in Seq(Byte) /\ Len(bytes) \in Nat /\ Len(bytes) > 0
         /\ Signed(bytes) \in Seq(Byte) /\ Len(Signed(bytes)) \in Lengths
         /\ Unsigned(bytes) = Element(2, Signed(bytes)) /\ 2 \in Byte
         /\ Unsigned(bytes) \in Seq(Byte) /\ Len(Unsigned(bytes)) <= 5 + Len(bytes)
<1>1. bytes \in Seq(Byte) /\ Len(bytes) \in Nat /\ Len(bytes) > 0
  BY DEF Numerals
<1>2. 0 \in Byte /\ 2 \in Byte /\ Len(bytes) \in Lengths
  <2>1. 0 \in Byte /\ 2 \in Byte
    BY SMT DEF Byte
  <2> QED  BY <1>1, <2>1, Shorter
<1>3. <<0>> \in Seq(Byte) /\ Len(<<0>>) = 1
  BY <1>2, Tuples
<1>4. <<0>> \o bytes \in Seq(Byte) /\ Len(<<0>> \o bytes) = 1 + Len(bytes)
  BY <1>1, <1>3, Joined
<1>5. /\ Signed(bytes) \in Seq(Byte)
      /\ Len(Signed(bytes)) = Len(bytes) \/ Len(Signed(bytes)) = 1 + Len(bytes)
  BY <1>1, <1>4 DEF Signed
<1>6. Unsigned(bytes) = Element(2, Signed(bytes))
  BY DEF Unsigned, Signed
<1>7. /\ Element(2, Signed(bytes)) \in Seq(Byte)
      /\ Len(Element(2, Signed(bytes))) <= 4 + Len(Signed(bytes))
      /\ Len(Element(2, Signed(bytes))) \in Nat
  BY <1>2, <1>5, ElementTypes
<1>8. Len(Element(2, Signed(bytes))) <= 5 + Len(bytes)
  BY <1>1, <1>5, <1>7
<1> QED  BY <1>1, <1>2, <1>5, <1>6, <1>7, <1>8

(* An INTEGER is read as the number that was written, the zero in front of *)
(* it left out (the two loops of extractRsaKey).                           *)
LEMMA IntegerRead ==
  ASSUME NEW data \in Seq(Byte), NEW offset \in Nat,
         NEW bytes \in Numerals, 1 + Len(bytes) \in Lengths,
         Reads(data, offset, Unsigned(bytes))
  PROVE  Integers(data, offset) =
           {[bytes |-> bytes, next |-> offset + Len(Unsigned(bytes))]}
<1> DEFINE content == Signed(bytes)
           start == ContentAt(offset, content)
           head == [next |-> start, len |-> Len(content)]
<1>1. /\ bytes \in Seq(Byte) /\ Len(bytes) \in Nat /\ Len(bytes) > 0
      /\ content \in Seq(Byte) /\ Len(content) \in Lengths /\ Len(content) \in Nat
      /\ Unsigned(bytes) = Element(2, content) /\ 2 \in Byte /\ Len(data) \in Nat
  BY UnsignedTypes
<1>2. /\ Tagged(data, offset, 2) /\ readTagLength(data, offset) = {head}
      /\ Reads(data, start, content) /\ start \in Nat
      /\ start + Len(content) = offset + Len(Unsigned(bytes))
  <2> HIDE DEF content
  <2>1. Reads(data, offset, Element(2, content))
    BY <1>1
  <2>2. /\ Tagged(data, offset, 2)
        /\ readTagLength(data, offset) =
             {[next |-> ContentAt(offset, content), len |-> Len(content)]}
        /\ Reads(data, ContentAt(offset, content), content)
        /\ ContentAt(offset, content) \in Nat
        /\ ContentAt(offset, content) + Len(content) = offset + Len(Element(2, content))
    BY <1>1, <2>1, ElementRead
  <2> QED  BY <1>1, <2>2
<1>3. start + Len(content) <= Len(data)
  BY <1>2 DEF Reads
<1>4. /\ Len(content) > 0 /\ ByteAt(data, start) = content[1]
  <2>1. content = bytes \/ content = <<0>> \o bytes
    BY DEF Signed
  <2>2. 0 \in Byte
    BY SMT DEF Byte
  <2>3. Len(<<0>> \o bytes) = 1 + Len(bytes)
    BY <1>1, <2>2, Tuples, Joined
  <2> HIDE DEF content, start
  <2>4. Len(content) > 0
    BY <1>1, <2>1, <2>3
  <2>5. 1 \in 1..Len(content)
    BY <1>1, <2>4
  <2>6. \A i \in 1..Len(content) : data[start + i] = content[i]
    BY <1>2 DEF Reads
  <2>7. data[start + 1] = content[1]
    BY <2>5, <2>6
  <2> QED  BY <2>4, <2>7 DEF ByteAt
<1>5. Slice(data, IF ByteAt(data, start) = 0 /\ Len(content) > 0 THEN start + 1 ELSE start,
            start + Len(content)) = bytes
  <2>1. CASE bytes[1] >= 128
    <3>0. 0 \in Byte
      BY SMT DEF Byte
    <3>1. content = <<0>> \o bytes /\ <<0>> \in Seq(Byte) /\ Len(<<0>>) = 1 /\ <<0>>[1] = 0
      BY <2>1, <3>0, Tuples DEF Signed
    <3>2. content[1] = 0 /\ Len(content) = 1 + Len(bytes)
      BY <3>1, <1>1, Joined
    <3> HIDE DEF content, start
    <3>3. Reads(data, start + 1, bytes)
      BY <3>1, <1>1, <1>2, ReadsBoth
    <3>4. Slice(data, start + 1, (start + 1) + Len(bytes)) = bytes
      BY <3>3, <1>1, <1>2, SliceRead
    <3>5. (start + 1) + Len(bytes) = start + Len(content)
      BY <3>2, <1>1, <1>2
    <3> QED  BY <3>2, <3>4, <3>5, <1>4
  <2>2. CASE ~(bytes[1] >= 128)
    <3>1. content = bytes /\ content[1] # 0
      BY <2>2 DEF Signed, Numerals
    <3> HIDE DEF content, start
    <3>2. Slice(data, start, start + Len(bytes)) = bytes
      BY <3>1, <1>1, <1>2, SliceRead
    <3> QED  BY <3>1, <3>2, <1>4
  <2> QED  BY <2>1, <2>2
<1> HIDE DEF content, start
<1>6. Elements(data, offset, 2) = {head}
  BY <1>2 DEF Elements
<1>7. {g \in Elements(data, offset, 2) : g.next < Len(data) /\ g.next + g.len <= Len(data)} = {head}
  <2>1. start < Len(data)
    BY <1>1, <1>2, <1>3, <1>4
  <2> QED  BY <1>6, <2>1, <1>3
<1> DEFINE Number(h) ==
      [bytes |-> Slice(data, IF ByteAt(data, h.next) = 0 /\ h.len > 0 THEN h.next + 1 ELSE h.next,
                       h.next + h.len),
       next |-> h.next + h.len]
<1>8. Number(head) = [bytes |-> bytes, next |-> offset + Len(Unsigned(bytes))]
  BY <1>2, <1>5
<1>9. Integers(data, offset) =
        {Number(h) : h \in {g \in Elements(data, offset, 2) :
                              g.next < Len(data) /\ g.next + g.len <= Len(data)}}
  BY DEF Integers
<1> HIDE DEF Number, head
<1> QED  BY <1>7, <1>8, <1>9

\* The key whose two numbers stand one behind the other.
LEMMA KeyReadAt ==
  ASSUME NEW data \in Seq(Byte), NEW offset \in Nat,
         NEW m \in Numerals, NEW e \in Numerals, 1 + Len(m) \in Lengths, 1 + Len(e) \in Lengths,
         Reads(data, offset, Unsigned(m) \o Unsigned(e)), KeyStarts(data) = {offset}
  PROVE  extractRsaKey(data) = {[modulus |-> m, exponent |-> e]}
<1> DEFINE next == offset + Len(Unsigned(m))
           end == next + Len(Unsigned(e))
<1>1. /\ Unsigned(m) \in Seq(Byte) /\ Unsigned(e) \in Seq(Byte) /\ next \in Nat
  BY UnsignedTypes
<1>2. Reads(data, offset, Unsigned(m)) /\ Reads(data, next, Unsigned(e))
  BY <1>1, ReadsBoth
<1>3. Integers(data, offset) = {[bytes |-> m, next |-> next]}
  BY <1>2, IntegerRead
<1>4. Integers(data, next) = {[bytes |-> e, next |-> end]}
  BY <1>1, <1>2, IntegerRead
<1> HIDE DEF next, end
<1> DEFINE a0 == [bytes |-> m, next |-> next]
           b0 == [bytes |-> e, next |-> end]
           Key(a, b) == [modulus |-> a.bytes, exponent |-> b.bytes]
<1>5. Key(a0, b0) = [modulus |-> m, exponent |-> e] /\ a0.next = next
  OBVIOUS
<1>6. extractRsaKey(data) =
        UNION {UNION {{Key(a, b) : b \in Integers(data, a.next)} : a \in Integers(data, c)} :
               c \in KeyStarts(data)}
  BY DEF extractRsaKey
<1>7. Integers(data, offset) = {a0} /\ Integers(data, a0.next) = {b0}
  BY <1>3, <1>4, <1>5
<1> HIDE DEF Key, a0, b0
<1> QED  BY <1>5, <1>6, <1>7

\* KeyStarts, where no AlgorithmIdentifier comes first.
LEMMA StartOfPkcs1 ==
  ASSUME NEW der, NEW c, NEW l, readTagLength(der, 0) = {[next |-> c, len |-> l]},
         c < Len(der), ByteAt(der, c) # 48
  PROVE  KeyStarts(der) = {c}
<1> DEFINE h0 == [next |-> c, len |-> l]
<1>1. h0.next = c
  OBVIOUS
<1> HIDE DEF h0
<1>2. {h.next : h \in {g \in readTagLength(der, 0) : g.next < Len(der)}} = {c}
  BY <1>1 DEF h0
<1> QED  BY <1>2 DEF KeyStarts

\* Keys whose lengths two bytes can say, in either format.
Writable == {k \in [modulus : Numerals, exponent : Numerals] :
               Len(k.modulus) + Len(k.exponent) < 65500}

LEMMA WritableTypes ==
  ASSUME NEW k \in Writable
  PROVE  LET numbers == Unsigned(k.modulus) \o Unsigned(k.exponent) IN
         /\ k = [modulus |-> k.modulus, exponent |-> k.exponent]
         /\ k.modulus \in Numerals /\ k.exponent \in Numerals
         /\ 1 + Len(k.modulus) \in Lengths /\ 1 + Len(k.exponent) \in Lengths
         /\ Unsigned(k.modulus) \in Seq(Byte) /\ Unsigned(k.exponent) \in Seq(Byte)
         /\ numbers \in Seq(Byte) /\ Len(numbers) \in Lengths /\ Len(numbers) < 65510
         /\ Pkcs1(k) = Element(48, numbers) /\ 48 \in Byte
         /\ Pkcs1(k) \in Seq(Byte) /\ Len(Pkcs1(k)) < 65514
<1> DEFINE m == k.modulus
           e == k.exponent
           numbers == Unsigned(m) \o Unsigned(e)
<1>1. k = [modulus |-> m, exponent |-> e] /\ m \in Numerals /\ e \in Numerals
      /\ Len(m) + Len(e) < 65500
  BY SMT DEF Writable
<1> HIDE DEF m, e
<1>2. Len(m) \in Nat /\ Len(e) \in Nat
  BY <1>1 DEF Numerals
<1>3. 1 + Len(m) \in Lengths /\ 1 + Len(e) \in Lengths
  BY <1>1, <1>2, SMT DEF Lengths
<1>4. /\ Unsigned(m) \in Seq(Byte) /\ Len(Unsigned(m)) <= 5 + Len(m)
      /\ Unsigned(e) \in Seq(Byte) /\ Len(Unsigned(e)) <= 5 + Len(e)
  BY <1>1, <1>3, UnsignedTypes
<1>5. /\ numbers \in Seq(Byte) /\ Len(numbers) = Len(Unsigned(m)) + Len(Unsigned(e))
      /\ Len(Unsigned(m)) \in Nat /\ Len(Unsigned(e)) \in Nat /\ Len(numbers) \in Nat
  BY <1>4, Joined
<1>6. Len(numbers) < 65510
  <2> HIDE DEF numbers
  <2> QED  BY <1>1, <1>2, <1>4, <1>5, SMT
<1>7. Len(numbers) \in Lengths
  <2> HIDE DEF numbers
  <2> QED  BY <1>5, <1>6, SMT DEF Lengths
<1>8. 48 \in Byte
  BY SMT DEF Byte
<1>9. Pkcs1(k) = Element(48, numbers)
  BY DEF Pkcs1, m, e
<1>10. Pkcs1(k) \in Seq(Byte) /\ Len(Pkcs1(k)) <= 4 + Len(numbers) /\ Len(Pkcs1(k)) \in Nat
  <2> HIDE DEF numbers
  <2>1. Element(48, numbers) \in Seq(Byte) /\ Len(Element(48, numbers)) <= 4 + Len(numbers)
    BY <1>5, <1>7, <1>8, ElementTypes
  <2> QED  BY <2>1, <1>9
<1>11. Len(Pkcs1(k)) < 65514
  <2> HIDE DEF numbers
  <2> QED  BY <1>5, <1>6, <1>10, SMT
<1> QED  BY <1>1, <1>3, <1>4, <1>5, <1>6, <1>7, <1>8, <1>9, <1>10, <1>11 DEF m, e

\* A text reads as itself from its start.
LEMMA ReadsItself ==
  ASSUME NEW data \in Seq(Byte)
  PROVE  Reads(data, 0, data)
<1>1. Len(data) \in Nat /\ 0 + Len(data) <= Len(data)
  OBVIOUS
<1>2. ASSUME NEW i \in 1..Len(data) PROVE data[0 + i] = data[i]
  OBVIOUS
<1> QED  BY <1>1, <1>2 DEF Reads

LEMMA FirstElement ==
  ASSUME NEW data \in Seq(Byte), NEW tag \in Byte, NEW content \in Seq(Byte),
         Len(content) \in Lengths, data = Element(tag, content)
  PROVE  /\ readTagLength(data, 0) = {[next |-> ContentAt(0, content), len |-> Len(content)]}
         /\ Reads(data, ContentAt(0, content), content)
         /\ ContentAt(0, content) \in Nat
<1> DEFINE Q(offset) ==
             /\ readTagLength(data, offset) =
                  {[next |-> ContentAt(offset, content), len |-> Len(content)]}
             /\ Reads(data, ContentAt(offset, content), content)
             /\ ContentAt(offset, content) \in Nat
<1>1. Reads(data, 0, Element(tag, content))
  BY ReadsItself
<1>2. ASSUME NEW offset \in Nat, Reads(data, offset, Element(tag, content))
      PROVE  Q(offset)
  BY <1>2, ElementRead
<1> HIDE DEF Q
<1>3. Q(0)
  BY <1>1, <1>2
<1> QED  BY <1>3 DEF Q

(* PKCS#1: the contract reads the key the client has, whatever its length. *)
THEOREM Pkcs1IsRead ==
  ASSUME NEW k \in Writable
  PROVE  extractRsaKey(Pkcs1(k)) = {k}
<1> DEFINE der == Pkcs1(k)
           numbers == Unsigned(k.modulus) \o Unsigned(k.exponent)
           c == ContentAt(0, numbers)
<1>1. /\ k = [modulus |-> k.modulus, exponent |-> k.exponent]
      /\ k.modulus \in Numerals /\ k.exponent \in Numerals
      /\ 1 + Len(k.modulus) \in Lengths /\ 1 + Len(k.exponent) \in Lengths
      /\ Unsigned(k.modulus) \in Seq(Byte) /\ Unsigned(k.exponent) \in Seq(Byte)
      /\ numbers \in Seq(Byte) /\ Len(numbers) \in Lengths
      /\ der = Element(48, numbers) /\ 48 \in Byte
      /\ der \in Seq(Byte)
  BY WritableTypes
<1> HIDE DEF der, numbers, c
<1>3. /\ readTagLength(der, 0) = {[next |-> c, len |-> Len(numbers)]}
      /\ Reads(der, c, numbers) /\ c \in Nat
  BY <1>1, FirstElement DEF c
<1>4. Tagged(der, c, 2)
  <2>1. Reads(der, c, Unsigned(k.modulus))
    BY <1>1, <1>3, ReadsBoth DEF numbers
  <2> QED  BY <2>1, <1>1, <1>3, UnsignedTypes, ElementRead
<1>5. c < Len(der) /\ ByteAt(der, c) # 48
  BY <1>4 DEF Tagged
<1>6. KeyStarts(der) = {c}
  BY <1>3, <1>5, StartOfPkcs1
<1>7. extractRsaKey(der) = {[modulus |-> k.modulus, exponent |-> k.exponent]}
  <2> DEFINE m == k.modulus
             e == k.exponent
  <2>1. /\ der \in Seq(Byte) /\ c \in Nat /\ m \in Numerals /\ e \in Numerals
        /\ 1 + Len(m) \in Lengths /\ 1 + Len(e) \in Lengths
        /\ Reads(der, c, Unsigned(m) \o Unsigned(e)) /\ KeyStarts(der) = {c}
    BY <1>1, <1>3, <1>6 DEF numbers
  <2> HIDE DEF m, e
  <2>2. extractRsaKey(der) = {[modulus |-> m, exponent |-> e]}
    BY <2>1, KeyReadAt
  <2> QED  BY <2>2 DEF m, e
<1> QED  BY <1>1, <1>7 DEF der

AlgorithmOID == <<6, 9, 42, 134, 72, 134, 247, 13, 1, 1, 1, 5, 0>>

LEMMA AlgorithmTypes ==
  /\ AlgorithmOID \in Seq(Byte) /\ Len(AlgorithmOID) = 13
  /\ Len(AlgorithmOID) \in Lengths
  /\ AlgorithmIdentifier = Element(48, AlgorithmOID)
  /\ AlgorithmIdentifier \in Seq(Byte) /\ Len(AlgorithmIdentifier) <= 17
<1>1. AlgorithmOID \in Seq(Byte) /\ Len(AlgorithmOID) = 13
  BY SMT DEF AlgorithmOID, Byte
<1>2. Len(AlgorithmOID) \in Lengths
  BY <1>1, SMT DEF Lengths
<1>3. AlgorithmIdentifier = Element(48, AlgorithmOID)
  BY DEF AlgorithmIdentifier, AlgorithmOID
<1>4. 48 \in Byte
  BY SMT DEF Byte
<1>5. /\ Element(48, AlgorithmOID) \in Seq(Byte)
      /\ Len(Element(48, AlgorithmOID)) <= 4 + Len(AlgorithmOID)
  BY <1>1, <1>2, <1>4, ElementTypes
<1> QED  BY <1>1, <1>2, <1>3, <1>5

(* X.509: the AlgorithmIdentifier is stepped over, and the same key read.  *)
THEOREM X509IsRead ==
  ASSUME NEW k \in Writable
  PROVE  extractRsaKey(X509(k)) = {k}
<1> DEFINE der == X509(k)
           numbers == Unsigned(k.modulus) \o Unsigned(k.exponent)
           bits == <<0>> \o Pkcs1(k)
           string == Element(3, bits)
           whole == AlgorithmIdentifier \o string
           c == ContentAt(0, whole)
           n1 == ContentAt(c, AlgorithmOID)
           b == c + Len(AlgorithmIdentifier)
           n2 == ContentAt(b, bits)
           n3 == ContentAt(n2 + 1, numbers)
<1> HIDE DEF der, numbers, bits, string, whole, c, n1, b, n2, n3
<1>1. /\ k = [modulus |-> k.modulus, exponent |-> k.exponent]
      /\ k.modulus \in Numerals /\ k.exponent \in Numerals
      /\ 1 + Len(k.modulus) \in Lengths /\ 1 + Len(k.exponent) \in Lengths
      /\ numbers \in Seq(Byte) /\ Len(numbers) \in Lengths
      /\ Pkcs1(k) = Element(48, numbers) /\ 48 \in Byte
      /\ Pkcs1(k) \in Seq(Byte) /\ Len(Pkcs1(k)) < 65514
  BY WritableTypes DEF numbers
<1>2. 0 \in Byte /\ 3 \in Byte
  BY SMT DEF Byte
<1>3. <<0>> \in Seq(Byte) /\ Len(<<0>>) = 1
  BY <1>2, Tuples
<1>4. /\ bits \in Seq(Byte) /\ Len(bits) = 1 + Len(Pkcs1(k)) /\ Len(Pkcs1(k)) \in Nat
      /\ Len(bits) \in Nat
  BY <1>1, <1>3, Joined DEF bits
<1>5. Len(bits) \in Lengths /\ Len(bits) < 65515
  <2>1. Len(bits) < 65515
    BY <1>1, <1>4, SMT
  <2> QED  BY <1>4, <2>1, SMT DEF Lengths
<1>6. string \in Seq(Byte) /\ Len(string) <= 4 + Len(bits) /\ Len(string) \in Nat
  BY <1>2, <1>4, <1>5, ElementTypes DEF string
<1>7. /\ AlgorithmIdentifier \in Seq(Byte) /\ Len(AlgorithmIdentifier) <= 17
      /\ Len(AlgorithmIdentifier) \in Nat
      /\ AlgorithmIdentifier = Element(48, AlgorithmOID)
      /\ AlgorithmOID \in Seq(Byte) /\ Len(AlgorithmOID) \in Lengths
  BY AlgorithmTypes
<1>8. /\ whole \in Seq(Byte) /\ Len(whole) = Len(AlgorithmIdentifier) + Len(string)
      /\ Len(whole) \in Nat
  BY <1>6, <1>7, Joined DEF whole
<1>9. Len(whole) \in Lengths
  <2>1. Len(whole) < 65536
    BY <1>4, <1>5, <1>6, <1>7, <1>8, SMT
  <2> QED  BY <1>8, <2>1, SMT DEF Lengths
<1>10. der = Element(48, whole)
  BY DEF der, X509, whole, string, bits
<1>11. der \in Seq(Byte)
  BY <1>1, <1>8, <1>9, <1>10, ElementTypes
<1>12. /\ readTagLength(der, 0) = {[next |-> c, len |-> Len(whole)]}
       /\ Reads(der, c, whole) /\ c \in Nat
  <2>1. /\ der \in Seq(Byte) /\ 48 \in Byte /\ whole \in Seq(Byte)
        /\ Len(whole) \in Lengths /\ der = Element(48, whole)
    BY <1>1, <1>8, <1>9, <1>10, <1>11
  <2> QED  BY <2>1, FirstElement DEF c
<1>13. Reads(der, c, AlgorithmIdentifier) /\ Reads(der, b, string) /\ b \in Nat
  <2>1. Reads(der, c, AlgorithmIdentifier \o string)
    BY <1>12 DEF whole
  <2>2. /\ Reads(der, c, AlgorithmIdentifier)
        /\ Reads(der, c + Len(AlgorithmIdentifier), string)
    <3>1. /\ der \in Seq(Byte) /\ c \in Nat
          /\ AlgorithmIdentifier \in Seq(Byte) /\ string \in Seq(Byte)
      BY <1>6, <1>7, <1>11, <1>12
    <3> QED  BY <2>1, <3>1, ReadsBoth
  <2> QED  BY <1>7, <1>12, <2>2 DEF b
<1>14. /\ Tagged(der, c, 48)
       /\ readTagLength(der, c) = {[next |-> n1, len |-> Len(AlgorithmOID)]}
       /\ n1 + Len(AlgorithmOID) = b
  <2>1. /\ Tagged(der, c, 48)
        /\ readTagLength(der, c) = {[next |-> n1, len |-> Len(AlgorithmOID)]}
        /\ n1 + Len(AlgorithmOID) = c + Len(Element(48, AlgorithmOID))
    BY <1>1, <1>7, <1>11, <1>12, <1>13, ElementRead DEF n1
  <2> QED  BY <2>1, <1>7 DEF b
<1>15. /\ Tagged(der, b, 3) /\ readTagLength(der, b) = {[next |-> n2, len |-> Len(bits)]}
       /\ Reads(der, n2, bits) /\ n2 \in Nat
  <2>1. /\ der \in Seq(Byte) /\ b \in Nat /\ 3 \in Byte /\ bits \in Seq(Byte)
        /\ Len(bits) \in Lengths /\ Reads(der, b, Element(3, bits))
    BY <1>2, <1>4, <1>5, <1>11, <1>13 DEF string
  <2>2. ASSUME NEW t \in Byte, Reads(der, b, Element(t, bits))
        PROVE  /\ Tagged(der, b, t) /\ readTagLength(der, b) = {[next |-> n2, len |-> Len(bits)]}
               /\ Reads(der, n2, bits) /\ n2 \in Nat
    BY <2>1, <2>2, ElementRead DEF n2
  <2> QED  BY <2>1, <2>2
<1>16. Elements(der, b, 3) = {[next |-> n2, len |-> Len(bits)]}
  BY <1>15 DEF Elements
<1>17. Reads(der, n2 + 1, Pkcs1(k)) /\ n2 + 1 \in Nat
  <2>1. Reads(der, n2, <<0>> \o Pkcs1(k))
    BY <1>15 DEF bits
  <2>2. Reads(der, n2 + Len(<<0>>), Pkcs1(k))
    <3>1. der \in Seq(Byte) /\ n2 \in Nat /\ <<0>> \in Seq(Byte) /\ Pkcs1(k) \in Seq(Byte)
      BY <1>1, <1>3, <1>11, <1>15
    <3> QED  BY <2>1, <3>1, ReadsBoth
  <2> QED  BY <1>3, <1>15, <2>2
<1>18. /\ readTagLength(der, n2 + 1) = {[next |-> n3, len |-> Len(numbers)]}
       /\ Reads(der, n3, numbers) /\ n3 \in Nat
  BY <1>1, <1>11, <1>17, ElementRead DEF n3
<1>19. c < Len(der) /\ ByteAt(der, c) = 48
  BY <1>14 DEF Tagged
<1>20. KeyStarts(der) = {n3}
  <2>1. Elements(der, n1 + Len(AlgorithmOID), 3) = {[next |-> n2, len |-> Len(bits)]}
    BY <1>14, <1>16
  <2> DEFINE h0 == [next |-> c, len |-> Len(whole)]
             h1 == [next |-> n1, len |-> Len(AlgorithmOID)]
             h2 == [next |-> n2, len |-> Len(bits)]
             h3 == [next |-> n3, len |-> Len(numbers)]
  <2>2. /\ h0.next = c /\ h1.next = n1 /\ h1.len = Len(AlgorithmOID)
        /\ h2.next = n2 /\ h3.next = n3
    OBVIOUS
  <2>3. /\ readTagLength(der, 0) = {h0} /\ readTagLength(der, c) = {h1}
        /\ Elements(der, n1 + Len(AlgorithmOID), 3) = {h2}
        /\ readTagLength(der, n2 + 1) = {h3}
    BY <1>12, <1>14, <1>18, <2>1
  <2> HIDE DEF h0, h1, h2, h3
  <2> DEFINE Outer == {h.next : h \in {g \in readTagLength(der, 0) : g.next < Len(der)}}
             Behind(d) == {h.next + h.len : h \in readTagLength(der, d)}
             Inside(d) == {h.next + 1 : h \in Elements(der, d, 3)}
             Inner(d) == {h.next : h \in readTagLength(der, d)}
             From(d) == IF ByteAt(der, d) # 48 THEN {d}
                        ELSE UNION {UNION {Inner(x) : x \in Inside(a)} : a \in Behind(d)}
  <2>4. Outer = {c} /\ Behind(c) = {n1 + Len(AlgorithmOID)}
    BY <1>19, <2>2, <2>3
  <2>5. Inside(n1 + Len(AlgorithmOID)) = {n2 + 1} /\ Inner(n2 + 1) = {n3}
    BY <2>2, <2>3
  <2>6. KeyStarts(der) = UNION {From(d) : d \in Outer}
    BY DEF KeyStarts
  <2> HIDE DEF Outer, Behind, Inside, Inner
  <2>7. From(c) = {n3}
    <3>1. UNION {UNION {Inner(x) : x \in Inside(a)} : a \in Behind(c)} = {n3}
      BY <2>4, <2>5
    <3> QED  BY <3>1, <1>19
  <2> HIDE DEF From
  <2> QED  BY <2>4, <2>6, <2>7
<1>21. extractRsaKey(der) = {[modulus |-> k.modulus, exponent |-> k.exponent]}
  <2> DEFINE m == k.modulus
             e == k.exponent
  <2>1. /\ der \in Seq(Byte) /\ n3 \in Nat /\ m \in Numerals /\ e \in Numerals
        /\ 1 + Len(m) \in Lengths /\ 1 + Len(e) \in Lengths
        /\ Reads(der, n3, Unsigned(m) \o Unsigned(e)) /\ KeyStarts(der) = {n3}
    BY <1>1, <1>11, <1>18, <1>20 DEF numbers
  <2> HIDE DEF m, e
  <2>2. extractRsaKey(der) = {[modulus |-> m, exponent |-> e]}
    BY <2>1, KeyReadAt
  <2> QED  BY <2>2 DEF m, e
<1> QED  BY <1>1, <1>21 DEF der

-----------------------------------------------------------------------------
(***************************************************************************)
(* KeyText: DER that was cut                                               *)
(***************************************************************************)

\* What is left of data when its end is gone.
Begins(cut, data) ==
  /\ cut \in Seq(Byte) /\ data \in Seq(Byte) /\ Len(cut) <= Len(data)
  /\ \A i \in 1..Len(cut) : cut[i] = data[i]

LEMMA CutLengthRead ==
  ASSUME NEW data, NEW cut, Begins(cut, data), NEW offset \in Nat,
         NEW h \in readTagLength(cut, offset)
  PROVE  h \in readTagLength(data, offset) /\ h.next \in Nat /\ h.len \in Nat
<1> DEFINE first == ByteAt(cut, offset + 1)
           second == ByteAt(cut, offset + 2)
           third == ByteAt(cut, offset + 3)
<1>1. Len(cut) \in Nat /\ Len(data) \in Nat /\ Len(cut) <= Len(data)
  BY DEF Begins
<1>2. offset + 1 < Len(cut)
  <2>1. ~(offset + 1 >= Len(cut))
    BY DEF readTagLength
  <2> QED  BY <2>1, <1>1
<1>3. ASSUME NEW i \in Nat, i < Len(cut)
      PROVE  ByteAt(cut, i) = ByteAt(data, i) /\ ByteAt(cut, i) \in Nat
  <2>1. i + 1 \in 1..Len(cut)
    BY <1>1, <1>3
  <2>2. cut[i + 1] = data[i + 1] /\ cut[i + 1] \in Byte
    BY <2>1 DEF Begins
  <2>3. \A x \in Byte : x \in Nat
    BY SMT DEF Byte
  <2> QED  BY <2>2, <2>3 DEF ByteAt
<1>4. first = ByteAt(data, offset + 1) /\ first \in Nat
  BY <1>2, <1>3
<1>5. ~(offset + 1 >= Len(cut)) /\ ~(offset + 1 >= Len(data))
  BY <1>1, <1>2
<1> HIDE DEF first, second, third
<1>6. CASE first < 128
  <2>1. h = [next |-> offset + 2, len |-> first]
    BY <1>5, <1>6 DEF readTagLength, first
  <2>2. readTagLength(data, offset) = {[next |-> offset + 2, len |-> first]}
    BY <1>4, <1>5, <1>6 DEF readTagLength
  <2> QED  BY <2>1, <2>2, <1>4
<1>7. CASE ~(first < 128) /\ first = 129 /\ offset + 2 < Len(cut)
  <2>1. h = [next |-> offset + 3, len |-> second]
    BY <1>5, <1>7 DEF readTagLength, first, second
  <2>2. second = ByteAt(data, offset + 2) /\ second \in Nat /\ offset + 2 < Len(data)
    BY <1>1, <1>3, <1>7 DEF second
  <2>3. readTagLength(data, offset) = {[next |-> offset + 3, len |-> second]}
    BY <1>4, <1>5, <1>7, <2>2 DEF readTagLength
  <2> QED  BY <2>1, <2>2, <2>3
<1>8. CASE ~(first < 128) /\ ~(first = 129 /\ offset + 2 < Len(cut))
           /\ first = 130 /\ offset + 3 < Len(cut)
  <2>1. h = [next |-> offset + 4, len |-> 256 * second + third]
    BY <1>5, <1>8 DEF readTagLength, first, second, third
  <2>2. /\ second = ByteAt(data, offset + 2) /\ third = ByteAt(data, offset + 3)
        /\ second \in Nat /\ third \in Nat /\ offset + 3 < Len(data)
    BY <1>1, <1>3, <1>8 DEF second, third
  <2>3. ~(first = 129 /\ offset + 2 < Len(data))
    BY <1>8
  <2>4. readTagLength(data, offset) = {[next |-> offset + 4, len |-> 256 * second + third]}
    BY <1>4, <1>5, <1>8, <2>2, <2>3 DEF readTagLength
  <2>5. 256 * second + third \in Nat
    BY <2>2
  <2> QED  BY <2>1, <2>4, <2>5
<1>9. QED
  <2>1. \/ first < 128
        \/ ~(first < 128) /\ first = 129 /\ offset + 2 < Len(cut)
        \/ /\ ~(first < 128) /\ ~(first = 129 /\ offset + 2 < Len(cut))
           /\ first = 130 /\ offset + 3 < Len(cut)
    BY <1>5 DEF readTagLength, first
  <2> QED  BY <2>1, <1>6, <1>7, <1>8

LEMMA CutByte ==
  ASSUME NEW data, NEW cut, Begins(cut, data), NEW i \in Nat, i < Len(cut)
  PROVE  i < Len(data) /\ ByteAt(cut, i) = ByteAt(data, i)
<1>1. Len(cut) \in Nat /\ Len(data) \in Nat /\ Len(cut) <= Len(data)
  BY DEF Begins
<1>2. i + 1 \in 1..Len(cut)
  BY <1>1
<1> QED  BY <1>1, <1>2 DEF Begins, ByteAt

LEMMA CutElements ==
  ASSUME NEW data, NEW cut, Begins(cut, data), NEW offset \in Nat, NEW tag,
         NEW h \in Elements(cut, offset, tag)
  PROVE  h \in Elements(data, offset, tag) /\ h.next \in Nat /\ h.len \in Nat
<1>1. Tagged(cut, offset, tag) /\ h \in readTagLength(cut, offset)
  BY DEF Elements
<1>2. Tagged(data, offset, tag)
  BY <1>1, CutByte DEF Tagged
<1> QED  BY <1>1, <1>2, CutLengthRead DEF Elements

LEMMA CutSlice ==
  ASSUME NEW data, NEW cut, Begins(cut, data), NEW a \in Nat, NEW b \in Nat, b <= Len(cut)
  PROVE  Slice(cut, a, b) = Slice(data, a, b)
<1> DEFINE u == SubSeq(cut, a + 1, b)
           v == SubSeq(data, a + 1, b)
<1>1. /\ cut \in Seq(Byte) /\ data \in Seq(Byte) /\ Len(cut) \in Nat /\ Len(data) \in Nat
      /\ b <= Len(data) /\ \A i \in 1..Len(cut) : cut[i] = data[i]
  BY DEF Begins
<1>2. /\ u \in Seq(Byte) /\ v \in Seq(Byte) /\ Len(u) = Len(v)
      /\ \A i \in 1..Len(u) : i \in 1..b - a /\ u[i] = cut[a + i] /\ v[i] = data[a + i]
  BY <1>1
<1>3. ASSUME NEW i \in 1..Len(u) PROVE u[i] = v[i]
  <2>1. a + i \in 1..Len(cut)
    BY <1>1, <1>2
  <2> QED  BY <1>1, <1>2, <2>1
<1>4. u = v
  <2> HIDE DEF u, v
  <2> QED  BY <1>2, <1>3, SeqEqual
<1> QED  BY <1>4 DEF Slice

LEMMA CutIntegers ==
  ASSUME NEW data, NEW cut, Begins(cut, data), NEW offset \in Nat, NEW x \in Integers(cut, offset)
  PROVE  x \in Integers(data, offset) /\ x.next \in Nat
<1> DEFINE From(d, h) == IF ByteAt(d, h.next) = 0 /\ h.len > 0 THEN h.next + 1 ELSE h.next
           Number(d, h) == [bytes |-> Slice(d, From(d, h), h.next + h.len),
                            next |-> h.next + h.len]
           Heads(d) == {g \in Elements(d, offset, 2) :
                          g.next < Len(d) /\ g.next + g.len <= Len(d)}
<1>1. \A d : Integers(d, offset) = {Number(d, h) : h \in Heads(d)}
  BY DEF Integers
<1>2. PICK h \in Heads(cut) : x = Number(cut, h)
  BY <1>1
<1>3. h \in Elements(data, offset, 2) /\ h.next \in Nat /\ h.len \in Nat
  BY <1>2, CutElements
<1>4. Len(cut) \in Nat /\ Len(data) \in Nat /\ Len(cut) <= Len(data)
  BY DEF Begins
<1>5. h.next < Len(cut) /\ h.next + h.len <= Len(cut)
  BY <1>2
<1>6. h \in Heads(data)
  <2>1. h.next < Len(data) /\ h.next + h.len <= Len(data)
    BY <1>3, <1>4, <1>5
  <2> QED  BY <1>3, <2>1
<1>7. From(cut, h) = From(data, h) /\ From(cut, h) \in Nat
  BY <1>3, <1>5, CutByte
<1>8. Number(cut, h) = Number(data, h)
  <2> HIDE DEF From
  <2>1. h.next + h.len \in Nat
    BY <1>3
  <2>2. Slice(cut, From(cut, h), h.next + h.len) = Slice(data, From(cut, h), h.next + h.len)
    BY <1>5, <1>7, <2>1, CutSlice
  <2> QED  BY <1>7, <2>2
<1>9. x.next \in Nat
  BY <1>2, <1>3
<1> HIDE DEF Number, Heads
<1> QED  BY <1>1, <1>2, <1>6, <1>8, <1>9

LEMMA CutStarts ==
  ASSUME NEW data, NEW cut, Begins(cut, data), NEW x \in KeyStarts(cut)
  PROVE  x \in KeyStarts(data) /\ x \in Nat
<1> DEFINE Outer(d) == {h.next : h \in {g \in readTagLength(d, 0) : g.next < Len(d)}}
           Behind(d, c) == {h.next + h.len : h \in readTagLength(d, c)}
           Inside(d, c) == {h.next + 1 : h \in Elements(d, c, 3)}
           Inner(d, c) == {h.next : h \in readTagLength(d, c)}
           From(d, c) == IF ByteAt(d, c) # 48 THEN {c}
                         ELSE UNION {UNION {Inner(d, b) : b \in Inside(d, a)} : a \in Behind(d, c)}
<1>1. \A d : KeyStarts(d) = UNION {From(d, c) : c \in Outer(d)}
  BY DEF KeyStarts
<1>2. ASSUME NEW c \in Outer(cut)
      PROVE  c \in Outer(data) /\ c \in Nat /\ c < Len(cut)
  <2>1. PICK h \in readTagLength(cut, 0) : h.next < Len(cut) /\ c = h.next
    BY <1>2
  <2>2. h \in readTagLength(data, 0) /\ h.next \in Nat
    BY CutLengthRead
  <2>3. h.next < Len(data)
    BY <2>1, <2>2, CutByte
  <2> QED  BY <2>1, <2>2, <2>3
<1>3. ASSUME NEW c \in Nat, NEW a \in Behind(cut, c)
      PROVE  a \in Behind(data, c) /\ a \in Nat
  <2>1. PICK h \in readTagLength(cut, c) : a = h.next + h.len
    BY <1>3
  <2>2. h \in readTagLength(data, c) /\ h.next \in Nat /\ h.len \in Nat
    BY CutLengthRead
  <2> QED  BY <2>1, <2>2
<1>4. ASSUME NEW c \in Nat, NEW b \in Inside(cut, c)
      PROVE  b \in Inside(data, c) /\ b \in Nat
  <2>1. PICK h \in Elements(cut, c, 3) : b = h.next + 1
    BY <1>4
  <2>2. h \in Elements(data, c, 3) /\ h.next \in Nat
    BY CutElements
  <2> QED  BY <2>1, <2>2
<1>5. ASSUME NEW c \in Nat, NEW n \in Inner(cut, c)
      PROVE  n \in Inner(data, c) /\ n \in Nat
  <2>1. PICK h \in readTagLength(cut, c) : n = h.next
    BY <1>5
  <2>2. h \in readTagLength(data, c) /\ h.next \in Nat
    BY CutLengthRead
  <2> QED  BY <2>1, <2>2
<1> HIDE DEF Outer, Behind, Inside, Inner
<1>6. PICK c \in Outer(cut) : x \in From(cut, c)
  <2> HIDE DEF From
  <2> QED  BY <1>1
<1>7. c \in Outer(data) /\ c \in Nat /\ ByteAt(cut, c) = ByteAt(data, c)
  BY <1>2, <1>6, CutByte
<1>8. x \in From(data, c) /\ x \in Nat
  <2>1. CASE ByteAt(cut, c) # 48
    BY <2>1, <1>6, <1>7
  <2>2. CASE ~(ByteAt(cut, c) # 48)
    <3>1. PICK a \in Behind(cut, c) : \E b \in Inside(cut, a) : x \in Inner(cut, b)
      BY <2>2, <1>6
    <3>2. a \in Behind(data, c) /\ a \in Nat
      BY <1>3, <1>7, <3>1
    <3>3. PICK b \in Inside(cut, a) : x \in Inner(cut, b)
      BY <3>1
    <3>4. b \in Inside(data, a) /\ b \in Nat
      BY <1>4, <3>2, <3>3
    <3>5. x \in Inner(data, b) /\ x \in Nat
      BY <1>5, <3>3, <3>4
    <3> QED  BY <2>2, <1>7, <3>2, <3>4, <3>5
  <2> QED  BY <2>1, <2>2
<1> HIDE DEF From
<1> QED  BY <1>1, <1>7, <1>8

(* DER that ends early is never read as another key: it says the same, or  *)
(* the call reverts (the bounds of readTagLength and of the two loops).    *)
THEOREM CutSaysNothingElse ==
  ASSUME NEW data, NEW cut, Begins(cut, data)
  PROVE  extractRsaKey(cut) \subseteq extractRsaKey(data)
<1> DEFINE Key(m, e) == [modulus |-> m.bytes, exponent |-> e.bytes]
<1>1. \A d : extractRsaKey(d) =
        UNION {UNION {{Key(m, e) : e \in Integers(d, m.next)} : m \in Integers(d, c)} :
               c \in KeyStarts(d)}
  BY DEF extractRsaKey
<1> HIDE DEF Key
<1>2. ASSUME NEW k \in extractRsaKey(cut) PROVE k \in extractRsaKey(data)
  <2>1. PICK c \in KeyStarts(cut) :
          \E m \in Integers(cut, c) : \E e \in Integers(cut, m.next) : k = Key(m, e)
    BY <1>1, <1>2
  <2>2. c \in KeyStarts(data) /\ c \in Nat
    BY CutStarts
  <2>3. PICK m \in Integers(cut, c) : \E e \in Integers(cut, m.next) : k = Key(m, e)
    BY <2>1
  <2>4. m \in Integers(data, c) /\ m.next \in Nat
    BY <2>2, <2>3, CutIntegers
  <2>5. PICK e \in Integers(cut, m.next) : k = Key(m, e)
    BY <2>3
  <2>6. e \in Integers(data, m.next)
    BY <2>4, <2>5, CutIntegers
  <2> QED  BY <1>1, <2>2, <2>4, <2>5, <2>6
<1> QED  BY <1>2

-----------------------------------------------------------------------------
(***************************************************************************)
(* KeyText: Base64                                                         *)
(***************************************************************************)

\* The 24 bits of three bytes, their sextets and their octets.
Word(a, b, c) == 65536 * a + 256 * b + c
Sextet(w, k) ==
  (w \div (IF k = 0 THEN 262144 ELSE IF k = 1 THEN 4096 ELSE IF k = 2 THEN 64 ELSE 1)) % 64
Joint(p, q, r, s) == 262144 * p + 4096 * q + 64 * r + s
OctetOf(w, k) == (w \div (IF k = 0 THEN 65536 ELSE IF k = 1 THEN 256 ELSE 1)) % 256

LEMMA WordBytes ==
  ASSUME NEW a \in Byte, NEW b \in Byte, NEW c \in Byte
  PROVE  /\ OctetOf(Word(a, b, c), 0) = a /\ OctetOf(Word(a, b, c), 1) = b
         /\ OctetOf(Word(a, b, c), 2) = c
  BY SMT DEF Word, OctetOf, Byte

LEMMA WordSextets ==
  ASSUME NEW a \in Byte, NEW b \in Byte, NEW c \in Byte, NEW w, w = Word(a, b, c)
  PROVE  Joint(Sextet(w, 0), Sextet(w, 1), Sextet(w, 2), Sextet(w, 3)) = w
<1> DEFINE x1 == w \div 64
           x2 == w \div 4096
           x3 == w \div 262144
<1>1. w \in Nat /\ w < 16777216
  BY SMT DEF Word, Byte
<1>2. /\ x1 \in Nat /\ x2 \in Nat /\ x3 \in Nat
      /\ w % 64 \in Nat /\ x1 % 64 \in Nat /\ x2 % 64 \in Nat /\ x3 % 64 \in Nat
  BY <1>1, SMT
<1>3. w = 64 * x1 + (w % 64)
  BY <1>1, SMT
<1>4. x1 = 64 * x2 + (x1 % 64)
  <2> DEFINE y == x1 \div 64
             t == x1 % 64
             s == w % 64
  <2>1. x1 = 64 * y + t /\ y \in Nat /\ t \in Nat /\ t < 64 /\ x1 \in Nat
    BY <1>2, SMT
  <2>2. s \in Nat /\ s < 64 /\ w = 64 * x1 + s
    BY <1>1, <1>3, SMT
  <2>3. x2 * 4096 <= w /\ w < 4096 * x2 + 4096 /\ x2 \in Nat
    BY <1>1, SMT
  <2> HIDE DEF x1, x2, y, t, s
  <2>4. x2 = y
    BY <2>1, <2>2, <2>3, SMT
  <2> QED  BY <2>1, <2>4 DEF t
<1>5. x2 = 64 * x3 + (x2 % 64)
  BY <1>1, SMT
<1>6. x3 = x3 % 64
  BY <1>1, SMT
<1>7. /\ Sextet(w, 0) = x3 % 64 /\ Sextet(w, 1) = x2 % 64 /\ Sextet(w, 2) = x1 % 64
      /\ Sextet(w, 3) = w % 64
  <2>1. w \div 1 = w
    BY <1>1, SMT
  <2> QED  BY <2>1, SMT DEF Sextet
<1> HIDE DEF x1, x2, x3
<1> DEFINE r0 == w % 64
           r1 == x1 % 64
           r2 == x2 % 64
           r3 == x3 % 64
<1>8. r0 \in Nat /\ r1 \in Nat /\ r2 \in Nat /\ r3 \in Nat
  BY <1>2
<1>9. w = 64 * x1 + r0 /\ x1 = 64 * x2 + r1 /\ x2 = 64 * x3 + r2 /\ x3 = r3
  BY <1>3, <1>4, <1>5, <1>6
<1>10. Joint(Sextet(w, 0), Sextet(w, 1), Sextet(w, 2), Sextet(w, 3)) = Joint(r3, r2, r1, r0)
  BY <1>7
<1> HIDE DEF r0, r1, r2, r3
<1>11. Joint(r3, r2, r1, r0) = w
  BY <1>8, <1>9, SMT DEF Joint
<1> QED  BY <1>10, <1>11

LEMMA SextetTypes ==
  ASSUME NEW a \in Byte, NEW b \in Byte, NEW c \in Byte, NEW k \in 0..3
  PROVE  Sextet(Word(a, b, c), k) \in 0..63
  BY SMT DEF Word, Sextet, Byte

LEMMA WordPadding ==
  ASSUME NEW a \in Byte, NEW b \in Byte
  PROVE  /\ Sextet(Word(a, b, 0), 3) = 0
         /\ Sextet(Word(a, 0, 0), 2) = 0
  BY SMT DEF Word, Sextet, Byte

LEMMA CharsInvert ==
  ASSUME NEW v \in 0..63
  PROVE  b64Val(Char64(v)) = v
  BY SMT DEF b64Val, Char64

OctetAt(der, n) == IF n <= Len(der) THEN der[n] ELSE 0
WordAt(der, g) == Word(OctetAt(der, 3 * g + 1), OctetAt(der, 3 * g + 2), OctetAt(der, 3 * g + 3))
Groups(der) == (Len(der) + 2) \div 3
PaddingOf(der) == (3 - (Len(der) % 3)) % 3

LEMMA GroupsAndPadding ==
  ASSUME NEW der \in Seq(Byte)
  PROVE  /\ Groups(der) \in Nat /\ PaddingOf(der) \in 0..2
         /\ Len(der) = 3 * Groups(der) - PaddingOf(der) /\ Len(der) \in Nat
<1>1. Len(der) \in Nat
  OBVIOUS
<1>2. ASSUME NEW n \in Nat
      PROVE  /\ (n + 2) \div 3 \in Nat /\ (3 - (n % 3)) % 3 \in 0..2
             /\ n = 3 * ((n + 2) \div 3) - ((3 - (n % 3)) % 3)
  BY SMT
<1> QED  BY <1>1, <1>2 DEF Groups, PaddingOf

LEMMA WordTypes ==
  ASSUME NEW der \in Seq(Byte), NEW n \in Nat, n > 0
  PROVE  OctetAt(der, n) \in Byte
<1>1. 0 \in Byte
  BY SMT DEF Byte
<1>2. ASSUME n <= Len(der) PROVE der[n] \in Byte
  BY <1>2
<1> QED  BY <1>1, <1>2 DEF OctetAt

LEMMA Base64Char ==
  ASSUME NEW der \in Seq(Byte), NEW g \in 0..Groups(der) - 1, NEW k \in 0..3
  PROVE  /\ Len(Base64(der)) = 4 * Groups(der)
         /\ Base64(der)[4 * g + k + 1] =
              IF 4 * g + k + 1 > 4 * Groups(der) - PaddingOf(der) THEN 61
              ELSE Char64(Sextet(WordAt(der, g), k))
<1> DEFINE G == Groups(der)
           p == PaddingOf(der)
           Char(n) == IF n > 4 * G - p THEN 61
                      ELSE Char64(Sextet(WordAt(der, (n - 1) \div 4), (n - 1) % 4))
<1>1. G \in Nat
  BY GroupsAndPadding
<1>2. Base64(der) = [n \in 1..4 * G |-> Char(n)]
  BY DEF Base64, Groups, PaddingOf, WordAt, Word, Sextet, OctetAt
<1> HIDE DEF G, p
<1>3. 4 * G \in Nat
  BY <1>1
<1>4. 4 * g + k + 1 \in 1..4 * G
  BY <1>1 DEF G
<1>5. ((4 * g + k + 1) - 1) \div 4 = g /\ ((4 * g + k + 1) - 1) % 4 = k
  <2>1. g \in Nat
    BY <1>1 DEF G
  <2>2. (4 * g + k + 1) - 1 = 4 * g + k
    BY <2>1
  <2> QED  BY <2>1, <2>2, SMT
<1>6. Char(4 * g + k + 1) = IF 4 * g + k + 1 > 4 * G - p THEN 61
                            ELSE Char64(Sextet(WordAt(der, g), k))
  BY <1>5
<1> HIDE DEF Char
<1>7. Len(Base64(der)) = 4 * G
  BY <1>2, <1>3
<1> QED  BY <1>2, <1>4, <1>6, <1>7 DEF G, p

\* What b64Val makes of each character, the padding too.
LEMMA Base64Value ==
  ASSUME NEW der \in Seq(Byte), NEW g \in 0..Groups(der) - 1, NEW k \in 0..3
  PROVE  b64Val(Base64(der)[4 * g + k + 1]) = Sextet(WordAt(der, g), k)
<1> DEFINE G == Groups(der)
           p == PaddingOf(der)
           len == Len(der)
           n == 4 * g + k + 1
           w == WordAt(der, g)
<1>1. G \in Nat /\ p \in 0..2 /\ len = 3 * G - p /\ len \in Nat /\ g \in Nat /\ g <= G - 1
  BY GroupsAndPadding
<1>2. Base64(der)[n] = IF n > 4 * G - p THEN 61 ELSE Char64(Sextet(w, k))
  BY Base64Char
<1>3. /\ OctetAt(der, 3 * g + 1) \in Byte /\ OctetAt(der, 3 * g + 2) \in Byte
      /\ OctetAt(der, 3 * g + 3) \in Byte
  <2>1. 3 * g + 1 \in Nat /\ 3 * g + 2 \in Nat /\ 3 * g + 3 \in Nat
        /\ 3 * g + 1 > 0 /\ 3 * g + 2 > 0 /\ 3 * g + 3 > 0
    BY <1>1
  <2> QED  BY <2>1, WordTypes
<1> HIDE DEF G, p, len, n, w
<1>4. CASE ~(n > 4 * G - p)
  <2>1. Sextet(w, k) \in 0..63
    BY <1>3, SextetTypes DEF w, WordAt
  <2> QED  BY <1>2, <1>4, <2>1, CharsInvert DEF n, w
<1>5. CASE n > 4 * G - p
  <2>1. b64Val(Base64(der)[n]) = 0
    BY <1>2, <1>5, SMT DEF b64Val
  <2>2. g = G - 1 /\ ((p = 1 /\ k = 3) \/ (p = 2 /\ k \in {2, 3}))
    BY <1>1, <1>5 DEF n
  <2>3. OctetAt(der, 3 * g + 3) = 0
    <3>1. ~(3 * g + 3 <= len)
      BY <1>1, <2>2
    <3> QED  BY <3>1 DEF OctetAt, len
  <2>4. CASE k = 3
    <3>1. Sextet(w, 3) = 0
      BY <1>3, <2>3, WordPadding DEF w, WordAt
    <3> QED  BY <2>1, <2>4, <3>1 DEF n, w
  <2>5. CASE k = 2
    <3>1. ~(3 * g + 2 <= len)
      BY <1>1, <2>2, <2>5
    <3>2. OctetAt(der, 3 * g + 2) = 0
      BY <3>1 DEF OctetAt, len
    <3>3. Sextet(w, 2) = 0
      BY <1>3, <2>3, <3>2, WordPadding DEF w, WordAt
    <3> QED  BY <2>1, <2>5, <3>3 DEF n, w
  <2> QED  BY <2>2, <2>4, <2>5
<1> QED  BY <1>4, <1>5

(* The bit arithmetic of base64Decode gives back the bytes that were       *)
(* encoded, however many and however padded.                               *)
THEOREM DecodingInverts ==
  ASSUME NEW der \in Seq(Byte)
  PROVE  Decoded(Base64(der), PaddingOf(der)) = der
<1> DEFINE G == Groups(der)
           p == PaddingOf(der)
           clean == Base64(der)
           Bits(g) == Joint(b64Val(clean[4 * g + 1]), b64Val(clean[4 * g + 2]),
                            b64Val(clean[4 * g + 3]), b64Val(clean[4 * g + 4]))
           result == [n \in 1..Len(der) |-> OctetOf(Bits((n - 1) \div 3), (n - 1) % 3)]
<1>1. G \in Nat /\ p \in 0..2 /\ Len(der) = 3 * G - p /\ Len(der) \in Nat
  BY GroupsAndPadding
<1>2. ASSUME NEW n \in 1..Len(der)
      PROVE  OctetOf(Bits((n - 1) \div 3), (n - 1) % 3) = der[n]
  <2> DEFINE g == (n - 1) \div 3
             k == (n - 1) % 3
             w == WordAt(der, g)
  <2>1. g \in 0..G - 1 /\ k \in 0..2 /\ n = 3 * g + k + 1 /\ g \in Nat
    BY <1>1, SMT
  <2> HIDE DEF g, k, w, G
  <2>2. /\ b64Val(clean[4 * g + 0 + 1]) = Sextet(w, 0) /\ b64Val(clean[4 * g + 1 + 1]) = Sextet(w, 1)
        /\ b64Val(clean[4 * g + 2 + 1]) = Sextet(w, 2) /\ b64Val(clean[4 * g + 3 + 1]) = Sextet(w, 3)
    <3>1. 0 \in 0..3 /\ 1 \in 0..3 /\ 2 \in 0..3 /\ 3 \in 0..3
      OBVIOUS
    <3>2. g \in 0..Groups(der) - 1
      BY <2>1 DEF G
    <3> HIDE DEF clean
    <3>3. \A j \in 0..3 : b64Val(clean[4 * g + j + 1]) = Sextet(w, j)
      BY <3>2, Base64Value DEF clean, w
    <3> QED  BY <3>1, <3>3
  <2>3. /\ 4 * g + 0 + 1 = 4 * g + 1 /\ 4 * g + 1 + 1 = 4 * g + 2
        /\ 4 * g + 2 + 1 = 4 * g + 3 /\ 4 * g + 3 + 1 = 4 * g + 4
    BY <2>1
  <2>4. /\ OctetAt(der, 3 * g + 1) \in Byte /\ OctetAt(der, 3 * g + 2) \in Byte
        /\ OctetAt(der, 3 * g + 3) \in Byte
    <3>1. 3 * g + 1 \in Nat /\ 3 * g + 2 \in Nat /\ 3 * g + 3 \in Nat
          /\ 3 * g + 1 > 0 /\ 3 * g + 2 > 0 /\ 3 * g + 3 > 0
      BY <2>1
    <3> QED  BY <3>1, WordTypes
  <2>5. Bits(g) = w
    <3> HIDE DEF clean
    <3>1. Bits(g) = Joint(Sextet(w, 0), Sextet(w, 1), Sextet(w, 2), Sextet(w, 3))
      BY <2>2, <2>3
    <3>2. w = Word(OctetAt(der, 3 * g + 1), OctetAt(der, 3 * g + 2), OctetAt(der, 3 * g + 3))
      BY DEF w, WordAt
    <3> HIDE DEF Bits
    <3> QED  BY <2>4, <3>1, <3>2, WordSextets
  <2>6. OctetOf(w, k) = OctetAt(der, 3 * g + k + 1)
    <3> DEFINE x == OctetAt(der, 3 * g + 1)
               y == OctetAt(der, 3 * g + 2)
               z == OctetAt(der, 3 * g + 3)
    <3>1. w = Word(x, y, z)
      BY DEF w, WordAt
    <3>2. 3 * g + 0 + 1 = 3 * g + 1 /\ 3 * g + 1 + 1 = 3 * g + 2 /\ 3 * g + 2 + 1 = 3 * g + 3
      BY <2>1
    <3> HIDE DEF x, y, z
    <3>3. OctetOf(w, 0) = x /\ OctetOf(w, 1) = y /\ OctetOf(w, 2) = z
      BY <2>4, <3>1, WordBytes DEF x, y, z
    <3>4. k = 0 \/ k = 1 \/ k = 2
      BY <2>1
    <3> QED  BY <3>2, <3>3, <3>4 DEF x, y, z
  <2>7. OctetAt(der, 3 * g + k + 1) = der[n]
    BY <2>1 DEF OctetAt
  <2> HIDE DEF Bits
  <2> QED  BY <2>5, <2>6, <2>7 DEF g, k
<1>3. result = der
  <2> HIDE DEF Bits
  <2>1. der = [n \in 1..Len(der) |-> der[n]]
    OBVIOUS
  <2> QED  BY <1>2, <2>1
<1>4. Decoded(clean, p) = result
  <2> HIDE DEF clean, p, G
  <2>1. 3 * (Len(clean) \div 4) - p = Len(der)
    <3>1. CASE G = 0
      <4>1. Len(clean) = 0
        BY <3>1, SMT DEF clean, Base64, G, Groups
      <4> QED  BY <1>1, <3>1, <4>1, SMT
    <3>2. CASE G # 0
      <4>1. 0 \in 0..Groups(der) - 1 /\ 0 \in 0..3
        BY <1>1, <3>2 DEF G
      <4>2. Len(clean) = 4 * G
        BY <4>1, Base64Char DEF clean, G
      <4> QED  BY <1>1, <4>2, SMT
    <3> QED  BY <3>1, <3>2
  <2>2. Decoded(clean, p) =
          [n \in 1..3 * (Len(clean) \div 4) - p |-> OctetOf(Bits((n - 1) \div 3), (n - 1) % 3)]
    BY DEF Decoded, OctetOf, Joint
  <2> HIDE DEF Bits
  <2> QED  BY <2>1, <2>2
<1> QED  BY <1>3, <1>4

-----------------------------------------------------------------------------
(***************************************************************************)
(* KeyText: the proof of possession                                        *)
(***************************************************************************)

\* The encoded message, byte by byte.
EncodedByte(k, digest, i) ==
  IF i = 1 THEN 0
  ELSE IF i = 2 THEN 1
  ELSE IF i < k - 51 THEN 255
  ELSE IF i = k - 51 THEN 0
  ELSE IF i <= k - 32 THEN SHA256_PREFIX[i - (k - 51)]
  ELSE digest[i - (k - 32)]

LEMMA EncodedBytes ==
  ASSUME NEW k \in Nat, k >= tLen + 11, NEW digest \in Seq(Byte), Len(digest) = 32
  PROVE  /\ EncodedMessage(k, digest) \in Seq(Byte)
         /\ Len(EncodedMessage(k, digest)) = k
         /\ \A i \in 1..k : EncodedMessage(k, digest)[i] = EncodedByte(k, digest, i)
<1> DEFINE ones == [i \in 1..k - tLen - 3 |-> 255]
           a == <<0, 1>>
           b == a \o ones
           c == b \o <<0>>
           d == c \o SHA256_PREFIX
<1>1. SHA256_PREFIX \in Seq(Byte) /\ Len(SHA256_PREFIX) = 19 /\ tLen = 51
  BY DEF SHA256_PREFIX, tLen, Byte
<1>2. ones \in Seq(Byte) /\ Len(ones) = k - 54
  BY <1>1 DEF Byte
<1>3. /\ a \in Seq(Byte) /\ Len(a) = 2 /\ a[1] = 0 /\ a[2] = 1
      /\ <<0>> \in Seq(Byte) /\ Len(<<0>>) = 1 /\ <<0>>[1] = 0
  BY DEF Byte
<1>4. \A i \in 1..k - 54 : ones[i] = 255
  BY <1>1
<1>5. EncodedMessage(k, digest) = d \o digest
  BY DEF EncodedMessage
<1> HIDE DEF a, ones, Byte
<1>0. k >= 62 /\ k - 54 \in Nat
  BY <1>1
<1>6. /\ b \in Seq(Byte) /\ Len(b) = k - 52
      /\ \A i \in 1..k - 52 : b[i] = IF i <= 2 THEN a[i] ELSE 255
  <2>1. /\ b \in Seq(Byte) /\ Len(b) = Len(a) + Len(ones)
        /\ \A i \in 1..Len(a) + Len(ones) : b[i] = IF i <= Len(a) THEN a[i] ELSE ones[i - Len(a)]
    BY <1>2, <1>3, Joined
  <2> HIDE DEF b
  <2>2. Len(a) + Len(ones) = k - 52
    BY <1>0, <1>2, <1>3
  <2>3. ASSUME NEW i \in 1..k - 52 PROVE b[i] = IF i <= 2 THEN a[i] ELSE 255
    <3>1. b[i] = IF i <= 2 THEN a[i] ELSE ones[i - 2]
      BY <2>1, <2>2, <1>3
    <3>2. i > 2 => i - 2 \in 1..k - 54
      BY <1>0
    <3> QED  BY <3>1, <3>2, <1>4
  <2> QED  BY <2>1, <2>2, <2>3
<1> HIDE DEF b
<1>7. /\ c \in Seq(Byte) /\ Len(c) = k - 51
      /\ \A i \in 1..k - 51 : c[i] = IF i <= k - 52 THEN b[i] ELSE 0
  <2>1. /\ c \in Seq(Byte) /\ Len(c) = Len(b) + Len(<<0>>)
        /\ \A i \in 1..Len(b) + Len(<<0>>) : c[i] = IF i <= Len(b) THEN b[i] ELSE <<0>>[i - Len(b)]
    BY <1>3, <1>6, Joined
  <2> HIDE DEF c
  <2>2. Len(b) + Len(<<0>>) = k - 51
    BY <1>0, <1>3, <1>6
  <2>3. ASSUME NEW i \in 1..k - 51 PROVE c[i] = IF i <= k - 52 THEN b[i] ELSE 0
    <3>1. c[i] = IF i <= k - 52 THEN b[i] ELSE <<0>>[i - (k - 52)]
      BY <2>1, <2>2, <1>6
    <3>2. i > k - 52 => i - (k - 52) = 1
      BY <1>0
    <3> QED  BY <3>1, <3>2, <1>3, <1>0
  <2> QED  BY <2>1, <2>2, <2>3
<1> HIDE DEF c
<1>8. /\ d \in Seq(Byte) /\ Len(d) = k - 32
      /\ \A i \in 1..k - 32 : d[i] = IF i <= k - 51 THEN c[i] ELSE SHA256_PREFIX[i - (k - 51)]
  <2>1. /\ d \in Seq(Byte) /\ Len(d) = Len(c) + Len(SHA256_PREFIX)
        /\ \A i \in 1..Len(c) + Len(SHA256_PREFIX) :
             d[i] = IF i <= Len(c) THEN c[i] ELSE SHA256_PREFIX[i - Len(c)]
    BY <1>1, <1>7, Joined
  <2> HIDE DEF d
  <2>2. Len(c) + Len(SHA256_PREFIX) = k - 32
    BY <1>0, <1>1, <1>7
  <2> QED  BY <2>1, <2>2, <1>7
<1> HIDE DEF d
<1>9. /\ d \o digest \in Seq(Byte) /\ Len(d \o digest) = k
      /\ \A i \in 1..k : (d \o digest)[i] = IF i <= k - 32 THEN d[i] ELSE digest[i - (k - 32)]
  <2> DEFINE e == d \o digest
  <2>1. /\ e \in Seq(Byte) /\ Len(e) = Len(d) + Len(digest)
        /\ \A i \in 1..Len(d) + Len(digest) : e[i] = IF i <= Len(d) THEN d[i] ELSE digest[i - Len(d)]
    BY <1>8, Joined
  <2> HIDE DEF e
  <2>2. Len(d) + Len(digest) = k
    BY <1>0, <1>8
  <2>3. /\ e \in Seq(Byte) /\ Len(e) = k
        /\ \A i \in 1..k : e[i] = IF i <= k - 32 THEN d[i] ELSE digest[i - (k - 32)]
    BY <2>1, <2>2, <1>8
  <2> QED  BY <2>3 DEF e
<1>10. ASSUME NEW i \in 1..k
       PROVE  (d \o digest)[i] = EncodedByte(k, digest, i)
  <2>1. CASE i <= k - 52
    <3>1. (d \o digest)[i] = d[i] /\ d[i] = c[i] /\ c[i] = b[i] /\ b[i] = IF i <= 2 THEN a[i] ELSE 255
      BY <2>1, <1>6, <1>7, <1>8, <1>9
    <3> QED  BY <3>1, <2>1, <1>0, <1>3 DEF EncodedByte
  <2>2. CASE i = k - 51
    <3>1. (d \o digest)[i] = d[i] /\ d[i] = c[i] /\ c[i] = 0
      BY <2>2, <1>1, <1>7, <1>8, <1>9
    <3> QED  BY <3>1, <2>2, <1>0 DEF EncodedByte
  <2>3. CASE i > k - 51
    BY <2>3, <1>0, <1>8, <1>9 DEF EncodedByte
  <2>4. i <= k - 52 \/ i = k - 51 \/ i > k - 51
    BY <1>0
  <2> QED  BY <2>1, <2>2, <2>3, <2>4
<1> DEFINE e == d \o digest
<1> HIDE DEF e
<1> QED  BY <1>5, <1>9, <1>10 DEF e

(* verifyRsaPkcs1v15 accepts one message only: what its loops leave is the *)
(* encoding of RFC 8017 of the digest, for keys of any length.             *)
THEOREM OneEncoding ==
  ASSUME NEW em \in Seq(Byte), NEW digest \in Seq(Byte), Len(digest) = 32
  PROVE  OpensTo(em, digest) <=>
           Len(em) >= tLen + 11 /\ em = EncodedMessage(Len(em), digest)
<1> DEFINE k == Len(em)
           m == EncodedMessage(k, digest)
<1>1. SHA256_PREFIX \in Seq(Byte) /\ Len(SHA256_PREFIX) = 19 /\ tLen = 51
  BY DEF SHA256_PREFIX, tLen, Byte
<1>2. k \in Nat
  OBVIOUS
<1>3. OpensTo(em, digest) <=>
        /\ k >= 62
        /\ em[1] = 0 /\ em[2] = 1
        /\ \A i \in 2..(k - 52) - 1 : em[i + 1] = 255
        /\ em[(k - 52) + 1] = 0
        /\ \A i \in 0..18 : em[((k - 52) + 1 + i) + 1] = SHA256_PREFIX[i + 1]
        /\ \A i \in 0..31 : em[((k - 52) + 1 + 19 + i) + 1] = digest[i + 1]
  <2>1. k - tLen - 1 = k - 52 /\ Len(SHA256_PREFIX) - 1 = 18 /\ 11 + tLen = 62 /\ 0 + 1 = 1 /\ 1 + 1 = 2
    BY <1>1, <1>2
  <2> HIDE DEF k
  <2>2. k = Len(em)
    BY DEF k
  <2> QED  BY <1>1, <2>1, <2>2 DEF OpensTo, ByteAt
<1> HIDE DEF k, m
<1>4. ASSUME k >= 62
      PROVE  (\A i \in 1..k : em[i] = m[i]) <=> em = m
  <2>1. m \in Seq(Byte) /\ Len(m) = k /\ Len(em) = k
    BY <1>1, <1>2, <1>4, EncodedBytes DEF m, k
  <2> QED  BY <2>1, SeqEqual
<1>5. ASSUME k >= 62
      PROVE  \A i \in 1..k : m[i] =
              IF i = 1 THEN 0
              ELSE IF i = 2 THEN 1
              ELSE IF i < k - 51 THEN 255
              ELSE IF i = k - 51 THEN 0
              ELSE IF i <= k - 32 THEN SHA256_PREFIX[i - (k - 51)]
              ELSE digest[i - (k - 32)]
  BY <1>1, <1>2, <1>5, EncodedBytes DEF m, EncodedByte
<1>6. ASSUME k >= 62, OpensTo(em, digest), NEW i \in 1..k
      PROVE  em[i] = m[i]
  <2>0. /\ em[1] = 0 /\ em[2] = 1
        /\ \A n \in 2..(k - 52) - 1 : em[n + 1] = 255
        /\ em[(k - 52) + 1] = 0
        /\ \A n \in 0..18 : em[((k - 52) + 1 + n) + 1] = SHA256_PREFIX[n + 1]
        /\ \A n \in 0..31 : em[((k - 52) + 1 + 19 + n) + 1] = digest[n + 1]
    BY <1>3, <1>6
  <2>1. CASE i <= 2
    <3>1. (i = 1 /\ em[1] = 0) \/ (i = 2 /\ em[2] = 1)
      BY <2>0, <2>1, <1>2, <1>6
    <3> QED  BY <3>1, <1>2, <1>5, <1>6
  <2>2. CASE 3 <= i /\ i < k - 51
    <3> DEFINE j == i - 1
    <3>1. j \in 2..(k - 52) - 1 /\ j + 1 = i
      BY <2>2, <1>2
    <3> HIDE DEF j
    <3>2. em[i] = 255
      BY <2>0, <3>1
    <3> QED  BY <3>2, <2>2, <1>2, <1>5, <1>6
  <2>3. CASE i = k - 51
    <3>1. (k - 52) + 1 = i
      BY <2>3, <1>2
    <3>2. em[i] = 0
      BY <2>0, <3>1
    <3> QED  BY <3>2, <2>3, <1>2, <1>5, <1>6
  <2>4. CASE k - 51 < i /\ i <= k - 32
    <3> DEFINE j == i - (k - 50)
    <3>1. j \in 0..18 /\ ((k - 52) + 1 + j) + 1 = i /\ j + 1 = i - (k - 51)
      BY <2>4, <1>2
    <3> HIDE DEF j
    <3>2. em[((k - 52) + 1 + j) + 1] = SHA256_PREFIX[j + 1]
      BY <2>0, <3>1
    <3>3. em[i] = SHA256_PREFIX[i - (k - 51)]
      BY <3>1, <3>2
    <3> QED  BY <3>3, <2>4, <1>2, <1>5, <1>6
  <2>5. CASE k - 32 < i
    <3> DEFINE j == i - (k - 31)
    <3>1. j \in 0..31 /\ ((k - 52) + 1 + 19 + j) + 1 = i /\ j + 1 = i - (k - 32)
      BY <2>5, <1>2
    <3> HIDE DEF j
    <3>2. em[((k - 52) + 1 + 19 + j) + 1] = digest[j + 1]
      BY <2>0, <3>1
    <3>3. em[i] = digest[i - (k - 32)]
      BY <3>1, <3>2
    <3> QED  BY <3>3, <2>5, <1>2, <1>5, <1>6
  <2>6. i <= 2 \/ (3 <= i /\ i < k - 51) \/ i = k - 51 \/ (k - 51 < i /\ i <= k - 32) \/ k - 32 < i
    BY <1>2, <1>6
  <2> QED  BY <2>1, <2>2, <2>3, <2>4, <2>5, <2>6
<1>7. ASSUME k >= 62, em = m
      PROVE  OpensTo(em, digest)
  <2>1. em[1] = 0 /\ em[2] = 1 /\ em[(k - 52) + 1] = 0
    BY <1>2, <1>5, <1>7
  <2>2. ASSUME NEW i \in 2..(k - 52) - 1 PROVE em[i + 1] = 255
    BY <1>2, <1>5, <1>7
  <2>3. ASSUME NEW i \in 0..18 PROVE em[((k - 52) + 1 + i) + 1] = SHA256_PREFIX[i + 1]
    <3> DEFINE n == ((k - 52) + 1 + i) + 1
    <3>1. n \in 1..k /\ n > k - 51 /\ n <= k - 32 /\ n - (k - 51) = i + 1
      BY <1>2, <1>7
    <3> HIDE DEF n
    <3>2. em[n] = SHA256_PREFIX[n - (k - 51)]
      BY <3>1, <1>2, <1>5, <1>7
    <3> QED  BY <3>1, <3>2 DEF n
  <2>4. ASSUME NEW i \in 0..31 PROVE em[((k - 52) + 1 + 19 + i) + 1] = digest[i + 1]
    <3> DEFINE n == ((k - 52) + 1 + 19 + i) + 1
    <3>1. n \in 1..k /\ n > k - 32 /\ n - (k - 32) = i + 1
      BY <1>2, <1>7
    <3> HIDE DEF n
    <3>2. em[n] = digest[n - (k - 32)]
      BY <3>1, <1>2, <1>5, <1>7
    <3> QED  BY <3>1, <3>2 DEF n
  <2> QED  BY <1>3, <1>7, <2>1, <2>2, <2>3, <2>4
<1>8. OpensTo(em, digest) => k >= 62
  BY <1>3
<1>9. 11 + tLen = 62 /\ tLen + 11 = 62
  BY <1>1
<1> QED  BY <1>4, <1>6, <1>7, <1>8, <1>9 DEF k, m

-----------------------------------------------------------------------------
(***************************************************************************)
(* Registration                                                            *)
(***************************************************************************)

\* The encoding of a digest proves it, and it alone.
LEMMA EncodingOpens ==
  ASSUME NEW k \in Nat, k >= tLen + 11,
         NEW digest \in Seq(Byte), Len(digest) = 32, NEW other \in Seq(Byte), Len(other) = 32
  PROVE  OpensTo(EncodedMessage(k, digest), other) <=> digest = other
<1> DEFINE em == EncodedMessage(k, digest)
<1>1. em \in Seq(Byte) /\ Len(em) = k
  BY EncodedBytes
<1> HIDE DEF em
<1>2. OpensTo(em, digest)
  <2>1. OpensTo(em, digest) <=> Len(em) >= tLen + 11 /\ em = EncodedMessage(Len(em), digest)
    BY <1>1, OneEncoding
  <2> QED  BY <2>1, <1>1 DEF em
<1>3. ASSUME OpensTo(em, other) PROVE digest = other
  <2>1. \A i \in 0..31 : ByteAt(digest, i) = ByteAt(other, i)
    BY <1>2, <1>3 DEF OpensTo
  <2>2. ASSUME NEW i \in 1..32 PROVE digest[i] = other[i]
    <3> DEFINE j == i - 1
    <3>1. j \in 0..31 /\ j + 1 = i
      OBVIOUS
    <3> HIDE DEF j
    <3>2. ByteAt(digest, j) = ByteAt(other, j)
      BY <2>1, <3>1
    <3> QED  BY <3>1, <3>2 DEF ByteAt
  <2>3. Len(digest) = Len(other) /\ \A i \in 1..Len(digest) : digest[i] = other[i]
    BY <2>2
  <2> QED  BY <2>3, SeqEqual
<1> QED  BY <1>2, <1>3 DEF em

(* What the contract's checks say of the bytes is what ProofHolds says of  *)
(* the transaction, whatever numbers its key stands for and whatever a     *)
(* signature of another key opens to (registerPublicKeyWithPoP).           *)
THEOREM ProofsChecked == Spec => []ProofsAreChecked
<1>1. TypeOK => ProofsAreChecked
  <2> SUFFICES ASSUME TypeOK, NEW tx \in pool
               PROVE  Submission(tx.from, tx.pem, tx.signature) \in
                        IF ProofHolds(tx.from, tx.pem, tx.signature) THEN Verified ELSE Rejected
    BY DEF ProofsAreChecked
  <2> DEFINE from == tx.from
             pem == tx.pem
             signature == tx.signature
             s == Submission(from, pem, signature)
  <2>1. from \in Wallets /\ pem \in Keys /\ signature \in Pop
    BY DEF TypeOK, Transaction
  <2> HIDE DEF from, pem, signature
  <2>2. s \in Submissions /\ s.from = from /\ s.pem = pem /\ s.signature = signature
    BY <2>1 DEF Submissions, Submission
  <2>3. signature.key \in Keys /\ signature.address \in Wallets
    BY <2>1 DEF Pop
  <2>4. ASSUME NEW k \in Material[pem], NEW em \in modExp(k, pem, signature)
        PROVE  OpensTo(em, Digest[from]) <=> ProofHolds(from, pem, signature)
    <3> DEFINE n == Len(k.modulus)
    <3>1. n \in Nat /\ n >= tLen + 11
      BY <2>1, RegistrationAssumption
    <3>2. \A w \in Wallets : Digest[w] \in Seq(Byte) /\ Len(Digest[w]) = 32
      BY RegistrationAssumption DEF Byte
    <3>3. CASE signature.key = pem
      <4>1. em = EncodedMessage(n, Digest[signature.address])
        BY <3>3 DEF modExp
      <4> HIDE DEF n
      <4>2. OpensTo(em, Digest[from]) <=> Digest[signature.address] = Digest[from]
        BY <2>1, <2>3, <3>1, <3>2, <4>1, EncodingOpens
      <4>3. Digest[signature.address] = Digest[from] <=> signature.address = from
        BY <2>1, <2>3, RegistrationAssumption
      <4> QED  BY <3>3, <4>2, <4>3 DEF ProofHolds
    <3>4. CASE signature.key # pem
      <4>1. /\ em \in Seq(Byte) /\ Len(em) = n
            /\ em # EncodedMessage(Len(em), Digest[from])
        BY <2>1, <3>4 DEF modExp, Byte
      <4>2. ~OpensTo(em, Digest[from])
        BY <2>1, <3>2, <4>1, OneEncoding
      <4>3. ~ProofHolds(from, pem, signature)
        BY <3>4 DEF ProofHolds
      <4> QED  BY <4>2, <4>3
    <3> QED  BY <3>3, <3>4
  <2> HIDE DEF s
  <2>5. CASE ProofHolds(from, pem, signature)
    <3>1. s \in Judged(TRUE)
      BY <2>2, <2>4, <2>5 DEF Judged
    <3> QED  BY <2>5, <3>1 DEF Verified, s, from, pem, signature
  <2>6. CASE ~ProofHolds(from, pem, signature)
    <3>1. s \in Judged(FALSE)
      BY <2>2, <2>4, <2>6 DEF Judged
    <3> QED  BY <2>6, <3>1 DEF Rejected, s, from, pem, signature
  <2> QED  BY <2>5, <2>6
<1> QED  BY <1>1, DpkiTypes, PTL

=============================================================================
