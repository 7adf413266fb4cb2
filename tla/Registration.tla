---------------------------- MODULE Registration ----------------------------
(***************************************************************************)
(* Under the keys, proofs and predicate ProofHolds of Dpki: the key files  *)
(* and signed blocks a transaction carries, byte by byte, and what         *)
(* contracts/dPKIRegistry.sol makes of them.  The text of a key file may   *)
(* have been copied, with other line ends or text around it, or cut.       *)
(*                                                                         *)
(* RSA and SHA-256 are taken for what they are: a signature opens to what  *)
(* was signed under its own key, and to nothing meant for a wallet under   *)
(* another; two wallets have two digests.                                  *)
(***************************************************************************)
EXTENDS Dpki, KeyText

CONSTANTS
  Material,    \* Material[key]: the modulus and exponent key may stand for
  Copies(_),   \* texts that say what the text of a key file says
  Cuts(_),     \* what may be left of it
  Digest,      \* Digest[w]: sha256 of the address of wallet w
  Openings(_)  \* blocks that the signatures of other keys may open to

ASSUME RegistrationAssumption ==
  /\ \A key \in Keys : \A k \in Material[key] :
       Len(k.modulus) \in Nat /\ Len(k.modulus) >= tLen + 11
  /\ \A w \in Wallets : Digest[w] \in Seq(0..255) /\ Len(Digest[w]) = 32
  /\ \A w, u \in Wallets : Digest[w] = Digest[u] => w = u

-----------------------------------------------------------------------------

\* keygen or a key library writes the file, register sends what is in it.
KeyFiles(k) == {PemOf(X509(k)), PemOf(Pkcs1(k))}

parseRsaPem(pem) ==
  UNION {UNION {extractRsaKey(der) : der \in base64Decode(body)} : body \in Bodies(pem)}

\* The keys whose files the contract reads: whole, as the key; cut, as the
\* key or not at all.
Readable ==
  {key \in Keys : \A k \in Material[key] : \A pem \in KeyFiles(k) :
     /\ \A copy \in Copies(pem) : parseRsaPem(copy) = {k}
     /\ \A cut \in Cuts(pem) : parseRsaPem(cut) \subseteq {k}}

\* What a signature opens to under k, of pem; it has the length of k.
modExp(k, pem, signature) ==
  IF signature.key = pem
  THEN {EncodedMessage(Len(k.modulus), Digest[signature.address])}
  ELSE {em \in Openings(Len(k.modulus)) :
          /\ em \in Seq(0..255) /\ Len(em) = Len(k.modulus)
          /\ \A w \in Wallets : em # EncodedMessage(Len(em), Digest[w])}

Submission(from, pem, signature) == [from |-> from, pem |-> pem, signature |-> signature]

Submissions ==
  {Submission(w, key, signature) : w \in Wallets, key \in Keys, signature \in Pop}

\* verifyRsaPkcs1v15 returns this verdict, whatever numbers the key stands for.
Judged(verdict) ==
  {s \in Submissions : \A k \in Material[s.pem] : \A em \in modExp(k, s.pem, s.signature) :
     OpensTo(em, Digest[s.from]) <=> verdict}

Verified == Judged(TRUE)
Rejected == Judged(FALSE)

-----------------------------------------------------------------------------
(***************************************************************************)
(* Properties                                                              *)
(***************************************************************************)

(* A key on its way to the contract is understood in either format, for    *)
(* every form its lengths take, with any line ends and any text around it. *)
(* From a file that was cut - anywhere, a line of it gone - it is never    *)
(* taken for another key: that is refused, or what is left says the same.  *)
KeyFilesAreRead == \A tx \in pool : tx.pem \in Readable

(* What the loops of verifyRsaPkcs1v15 find in the bytes is what Dpki      *)
(* takes them for: the signature was made with the private half of this    *)
(* key, for this sender.                                                   *)
ProofsAreChecked ==
  \A tx \in pool :
    Submission(tx.from, tx.pem, tx.signature) \in
      IF ProofHolds(tx.from, tx.pem, tx.signature) THEN Verified ELSE Rejected

=============================================================================
