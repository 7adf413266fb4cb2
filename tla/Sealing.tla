------------------------------ MODULE Sealing ------------------------------
(***************************************************************************)
(* How a client seals data and another opens it: the session key and the   *)
(* CBC loop of core/aes128.c behind AESWrapper, the padding of             *)
(* core/padding.c, the envelope around the session key and the signature   *)
(* over the ciphertext.  One package is sealed, arrives - intact, damaged  *)
(* or with parts that others put there: anybody can wrap a key for a       *)
(* public key, and sign with a pair of their own - and is opened.          *)
(*                                                                         *)
(* Bytes are numbers, a C buffer is a sequence whose index is the C index  *)
(* plus one, and a turn of a C loop is a step.  The block cipher is a      *)
(* parameter; RSA-OAEP, ECIES and the signatures are records that name     *)
(* their key pair, which only its owner can open or make.                  *)
(***************************************************************************)
EXTENDS Integers, Sequences

CONSTANTS
  None,               \* no value
  Inputs,             \* plaintexts
  Keys, IVs,          \* what os.urandom(16), or a caller of encrypt_bytes, gives
  Senders,            \* key pairs that sign
  Recipients,         \* key pairs that session keys are wrapped for
  FormOf,             \* "pem" (RSA) or "hex" (a wallet's) of a pair
  XorByte(_, _),
  EncryptBlock(_, _), \* aes128_encrypt_block with the key's round keys
  DecryptBlock(_, _),
  Arrivals(_)         \* what a package may be when it arrives

Byte == 0..255
Block == [1..16 -> Byte]
Pairs == Senders \cup Recipients
Clients == {"chat", "drop", "cli", "adapter"}

ASSUME SealingAssumption ==
  /\ Inputs \subseteq Seq(Byte)
  /\ Keys \subseteq Seq(Byte)
  /\ IVs \subseteq Block
  /\ FormOf \in [Pairs -> {"pem", "hex"}]
  /\ None \notin Pairs /\ None \notin BOOLEAN
  /\ None \notin Seq(Byte)
  /\ None \notin [to : Recipients, bytes : Seq(Byte)]
  /\ None \notin [signer : Senders, data : Seq(Byte)]
  /\ \A a, b \in Byte : /\ XorByte(a, b) \in Byte
                        /\ XorByte(XorByte(a, b), b) = a

VARIABLES
  pc,
  job,      \* the arguments of the sender
  padded,   \* padded_buffer
  out,      \* ciphertext_buffer, then the decrypted buffer
  prev,     \* the block the loop keeps
  offset,   \* where the loop is: its i
  pkg,      \* the package as the sender made it
  got,      \* the package as it arrived, with who opens it
  key,      \* the session key the opener unwrapped, the sender's or not
  verdict,  \* what the signature check said; None without one
  result    \* the plaintext the opener gets

loopVars == <<out, prev, offset>>
sendVars == <<job, padded, pkg>>
vars == <<pc, sendVars, loopVars, got, key, verdict, result>>

-----------------------------------------------------------------------------
(***************************************************************************)
(* core/padding.c: the length returned, or an error, and the buffer.       *)
(***************************************************************************)

Failed(error) == [len |-> error, buf |-> <<>>]

\* Mutant: a whole number of blocks is not padded.
pkcs7_pad_short(in, block_size) ==
  LET pad_val == (block_size - (Len(in) % block_size)) % block_size IN
  IF block_size \in 1..255
  THEN [len |-> Len(in) + pad_val, buf |-> in \o [k \in 1..pad_val |-> pad_val]]
  ELSE Failed(-1)

pkcs7_pad(in, block_size) ==
  LET pad_val == block_size - (Len(in) % block_size) IN
  IF block_size \in 1..255
  THEN [len |-> Len(in) + pad_val, buf |-> in \o [k \in 1..pad_val |-> pad_val]]
  ELSE Failed(-1)

\* Mutant: the last byte alone is looked at.
pkcs7_unpad_last(in, block_size) ==
  LET pad_val == in[Len(in)]
      unpadded_len == Len(in) - pad_val
  IN  IF block_size \notin 1..255 THEN Failed(-1)
      ELSE IF Len(in) = 0 \/ (Len(in) % block_size) # 0 THEN Failed(-2)
      ELSE IF pad_val = 0 \/ pad_val > block_size \/ pad_val > Len(in) THEN Failed(-2)
      ELSE [len |-> unpadded_len, buf |-> SubSeq(in, 1, unpadded_len)]

pkcs7_unpad(in, block_size) ==
  LET pad_val == in[Len(in)]
      unpadded_len == Len(in) - pad_val
  IN  IF block_size \notin 1..255 THEN Failed(-1)
      ELSE IF Len(in) = 0 \/ (Len(in) % block_size) # 0 THEN Failed(-2)
      ELSE IF pad_val = 0 \/ pad_val > block_size \/ pad_val > Len(in) THEN Failed(-2)
      ELSE IF \E k \in unpadded_len + 1 .. Len(in) : in[k] # pad_val THEN Failed(-2)
      ELSE [len |-> unpadded_len, buf |-> SubSeq(in, 1, unpadded_len)]

-----------------------------------------------------------------------------
(***************************************************************************)
(* Key envelopes and signatures.                                           *)
(***************************************************************************)

\* What a client wraps a session key with.
Scheme(client) == IF client = "cli" THEN "pem" ELSE "hex"

\* RSAEnvelope.wrap_key of a PEM, ECIESEnvelope.wrap_key of a wallet's key;
\* neither takes the other's spelling of a public key.
Wrappable(client, to) == FormOf[to] = Scheme(client)

\* wrap_aes_key packs the key and the iv, the clients wrap the key alone.
wrap_key(client, to, k, iv) ==
  [to |-> to, bytes |-> IF client = "adapter" THEN k \o iv ELSE k]

Unwrappable(client, wrapped, me) ==
  wrapped # None /\ wrapped.to = me /\ FormOf[me] = Scheme(client)

sign_file(data, signer) == [signer |-> signer, data |-> data]

\* Mutant: the signature is recovered, the signer not compared.
verify_file_any(data, signature, pub) ==
  signature # None /\ signature.data = data

\* A signature that does not parse, or is made with the other kind of key,
\* is an exception in there, and FALSE.
verify_file(data, signature, pub) ==
  signature # None /\ signature.data = data /\ signature.signer = pub

-----------------------------------------------------------------------------

Init ==
  /\ pc = "idle"
  /\ job = None /\ padded = <<>> /\ pkg = None
  /\ out = <<>> /\ prev = <<>> /\ offset = 0
  /\ got = None /\ key = None /\ verdict = None /\ result = None

BlockAt(s, n) == [k \in 1..16 |-> s[n + k]]
XorBlock(a, b) == [k \in 1..16 |-> XorByte(a[k], b[k])]

\* s with block b written at offset n.
Written(s, n, b) ==
  [k \in DOMAIN s |-> IF k \in n + 1 .. n + 16 THEN b[k - n] ELSE s[k]]

Zeros(n) == [k \in 1..n |-> 0]

\* Mutant: room for the last block, none for a block of padding.
pad_buffer_len_tight(len) == 16 * ((len + 15) \div 16)

pad_buffer_len(len) == len + 16

\* AESWrapper.encrypt, up to the loop: the key's length, pkcs7_pad into
\* padded_buffer, a ciphertext buffer of new_len.
\* Session keys of the clients have 16 bytes, the adapter takes any.
Encrypt(client, to, signer, plain, k, iv) ==
  LET new == pkcs7_pad(plain, 16) IN
  /\ pc = "idle"
  /\ client # "adapter" => Len(k) = 16
  /\ job' = [client |-> client, to |-> to, signer |-> signer,
             plain |-> plain, key |-> k, iv |-> iv]
  /\ IF Len(k) # 16 \/ new.len <= 0 \/ (new.len % 16) # 0
     THEN pc' = "refused" /\ UNCHANGED <<padded, loopVars>>
     ELSE /\ pc' = "encrypting"
          /\ padded' = SubSeq(new.buf \o Zeros(16), 1, pad_buffer_len(Len(plain)))
          /\ out' = Zeros(new.len)
          /\ prev' = iv /\ offset' = 0
  /\ UNCHANGED <<pkg, got, key, verdict, result>>

EncryptTurn ==
  LET block == EncryptBlock(job.key, XorBlock(BlockAt(padded, offset), prev)) IN
  /\ pc = "encrypting" /\ offset < Len(out)
  /\ out' = Written(out, offset, block)
  /\ prev' = block
  /\ offset' = offset + 16
  /\ UNCHANGED <<pc, sendVars, got, key, verdict, result>>

\* The rest of a send: the key is wrapped for the recipient, the ciphertext
\* signed - by the command line only when the sender's key file exists.
Seal ==
  /\ pc = "encrypting" /\ offset >= Len(out)
  /\ IF Wrappable(job.client, job.to)
     THEN /\ pc' = "staged"
          /\ pkg' = [iv |-> job.iv, ciphertext |-> out,
                     wrapped_key |-> wrap_key(job.client, job.to, job.key, job.iv),
                     signature |-> IF job.signer = None THEN None
                                   ELSE sign_file(out, job.signer)]
     ELSE pc' = "refused" /\ pkg' = pkg
  /\ UNCHANGED <<job, padded, loopVars, got, key, verdict, result>>

\* The package reaches client, in one of its forms; me is the opener's key pair and
\* pub the key the signature is checked with: --sender-pub, or None; what
\* the directory says of the sender the content names, in the chat.
Arrive(client, me, pub) ==
  /\ pc = "staged"
  /\ client = "adapter" <=> job.client = "adapter"
  /\ pc' = IF client = "cli" THEN "verify" ELSE "unwrap"
  /\ \E arrived \in Arrivals(pkg) :
       got' = [client |-> client, me |-> me, pub |-> pub, pkg |-> arrived]
  /\ UNCHANGED <<sendVars, loopVars, key, verdict, result>>

\* cli.py checks first, says what it found, and goes on either way.
VerifyFirst ==
  /\ pc = "verify"
  /\ verdict' = IF got.pub = None \/ got.pkg.signature = None THEN None
                ELSE verify_file(got.pkg.ciphertext, got.pkg.signature, got.pub)
  /\ pc' = "unwrap"
  /\ UNCHANGED <<sendVars, loopVars, got, key, result>>

\* unwrap_aes_key splits what it unwrapped at 32, or has no iv to split off.
Unwrapped(bytes) ==
  IF got.client # "adapter" THEN [key |-> bytes, iv |-> got.pkg.iv]
  ELSE IF Len(bytes) <= 32 THEN [key |-> bytes, iv |-> <<>>]
  ELSE [key |-> SubSeq(bytes, 1, 32), iv |-> SubSeq(bytes, 33, Len(bytes))]

\* What AESWrapper.decrypt raises ValueError for.
ArgumentsRaise(k, iv, ciphertext) ==
  \/ Len(k) # 16 \/ Len(iv) # 16
  \/ Len(ciphertext) = 0 \/ (Len(ciphertext) % 16) # 0

Decrypt ==
  /\ pc = "unwrap"
  /\ IF ~Unwrappable(got.client, got.pkg.wrapped_key, got.me)
     THEN pc' = "refused" /\ UNCHANGED <<key, loopVars>>
     ELSE LET ciphertext == got.pkg.ciphertext
              opened == Unwrapped(got.pkg.wrapped_key.bytes)
          IN /\ key' = opened.key
             /\ IF ArgumentsRaise(opened.key, opened.iv, ciphertext)
                THEN pc' = "refused" /\ UNCHANGED loopVars
                ELSE /\ pc' = "decrypting"
                     /\ out' = Zeros(Len(ciphertext))
                     /\ prev' = opened.iv /\ offset' = 0
  /\ UNCHANGED <<sendVars, got, verdict, result>>

\* Mutant: the loop keeps the decrypted block in place of the ciphertext's.
DecryptTurnFeedback ==
  LET block == XorBlock(DecryptBlock(key, BlockAt(got.pkg.ciphertext, offset)), prev) IN
  /\ pc = "decrypting" /\ offset < Len(out)
  /\ out' = Written(out, offset, block)
  /\ prev' = block
  /\ offset' = offset + 16
  /\ UNCHANGED <<pc, sendVars, got, key, verdict, result>>

DecryptTurn ==
  LET block == BlockAt(got.pkg.ciphertext, offset) IN
  /\ pc = "decrypting" /\ offset < Len(out)
  /\ out' = Written(out, offset, XorBlock(DecryptBlock(key, block), prev))
  /\ prev' = block
  /\ offset' = offset + 16
  /\ UNCHANGED <<pc, sendVars, got, key, verdict, result>>

\* The chat then parses what it got and looks the sender it names up.  Data
\* other than what was sealed is no gzip of anything else - the format ends in
\* a checksum - and the package is dropped.
Unpad ==
  LET unpadded == pkcs7_unpad(out, 16) IN
  /\ pc = "decrypting" /\ offset >= Len(out)
  /\ IF unpadded.len < 0 \/ (got.client = "chat" /\ unpadded.buf # job.plain)
     THEN pc' = "refused" /\ UNCHANGED <<verdict, result>>
     ELSE /\ pc' = "opened"
          /\ result' = unpadded.buf
          /\ verdict' = IF got.client # "chat" THEN verdict
                        ELSE verify_file(got.pkg.ciphertext, got.pkg.signature, got.pub)
  /\ UNCHANGED <<sendVars, loopVars, got, key>>

Next ==
  \/ \E client \in Clients, to \in Recipients, signer \in Senders \cup {None},
        plain \in Inputs, k \in Keys, iv \in IVs :
       Encrypt(client, to, signer, plain, k, iv)
  \/ EncryptTurn \/ Seal
  \/ \E client \in Clients, me \in Recipients, pub \in Senders \cup {None} : Arrive(client, me, pub)
  \/ VerifyFirst \/ Decrypt \/ DecryptTurn \/ Unpad

Spec == Init /\ [][Next]_vars

-----------------------------------------------------------------------------
(***************************************************************************)
(* Properties                                                              *)
(***************************************************************************)

PCs == {"idle", "encrypting", "staged", "verify", "unwrap", "decrypting",
        "opened", "refused"}

(* The loops work on bytes, sixteen at a time.                             *)
TypeOK ==
  /\ pc \in PCs
  /\ padded \in Seq(Byte) /\ out \in Seq(Byte)
  /\ offset \in Nat /\ offset % 16 = 0
  /\ prev \in Block \cup {<<>>}
  /\ pc \in {"encrypting", "decrypting"} => prev \in Block
  /\ pc = "encrypting" => job.key \in Block
  /\ pc = "decrypting" => key \in Block
  /\ verdict \in BOOLEAN \cup {None}
  /\ result \in Seq(Byte) \cup {None}

(* No turn of a loop, for any length of data, reads or writes past the end *)
(* of a buffer that AESWrapper allocated (aes128_cbc_encrypt,              *)
(* aes128_cbc_decrypt).                                                    *)
LoopsStayInside ==
  /\ pc = "encrypting" /\ offset < Len(out) => /\ offset + 16 <= Len(out)
                                              /\ offset + 16 <= Len(padded)
  /\ pc = "decrypting" /\ offset < Len(out) => /\ offset + 16 <= Len(out)
                                              /\ Len(out) = Len(got.pkg.ciphertext)

Done == pc \in {"opened", "refused"} /\ got # None

(* A package that arrives as it was made, for a recipient whose client     *)
(* speaks the sender's kind of key, opens to what was sealed - data of     *)
(* length 0 and of whole blocks included.  Only the key and iv that        *)
(* wrap_aes_key packs never come back from unwrap_aes_key as a key.        *)
RoundTrip ==
  /\ Done /\ got.pkg = pkg /\ got.me = job.to /\ Scheme(got.client) = Scheme(job.client)
  => IF got.client = "adapter" THEN pc = "refused"
     ELSE pc = "opened" /\ result = job.plain

(* Unpadding accepts exactly what padding can have produced, and undoes it *)
(* - whatever the decryption of damaged data looks like.                   *)
IsPadded(s, n) == pkcs7_pad(SubSeq(s, 1, n), 16).buf = s

UnpadExact ==
  pc = "decrypting" /\ offset >= Len(out) =>
    LET unpadded == pkcs7_unpad(out, 16) IN
    IF unpadded.len < 0
    THEN \A n \in 0..Len(out) : ~IsPadded(out, n)
    ELSE IsPadded(out, unpadded.len) /\ unpadded.buf = SubSeq(out, 1, unpadded.len)

(* Damage is local: under the sender's key, a decrypted block whose own    *)
(* ciphertext and whose predecessor's arrived intact is the block that was *)
(* sealed.                                                                 *)
Before(p, n) == IF n = 0 THEN p.iv ELSE BlockAt(p.ciphertext, n - 16)

ArrivedIntact(n) ==
  /\ n + 16 <= Len(pkg.ciphertext)
  /\ BlockAt(got.pkg.ciphertext, n) = BlockAt(pkg.ciphertext, n)
  /\ Before(got.pkg, n) = Before(pkg, n)

DamageIsLocal ==
  pc = "decrypting" /\ key = job.key =>
    \A n \in 0..offset : n % 16 = 0 /\ n < offset /\ ArrivedIntact(n) =>
      BlockAt(out, n) = BlockAt(padded, n)

\* The signature was found to be the sender's, and the package opened.
VerifiedAndOpened ==
  pc = "opened" /\ verdict = TRUE /\ job.signer \in Senders /\ got.pub = job.signer

(* What a valid signature of the sender is worth (cli.py's check before it *)
(* opens, the chat's after it parsed), whatever others put into a package. *)
(* The ciphertext is the one that was sealed; under the sender's key the   *)
(* length and all that follows the first block are too; and with the iv,   *)
(* everything.                                                             *)
SignatureCovers ==
  VerifiedAndOpened =>
    /\ got.pkg.ciphertext = pkg.ciphertext
    /\ key = job.key =>
         /\ Len(job.plain) >= 16 => Len(result) = Len(job.plain)
         /\ \A n \in DOMAIN result :
              n > 16 => n \in DOMAIN job.plain /\ result[n] = job.plain[n]
         /\ got.pkg.iv = pkg.iv => result = job.plain

(* cli.py:234 calls the data of a valid signature valid, "Du lieu nguyen   *)
(* ven 100%": one hundred percent intact.  The code does not see to that:  *)
(* the key and the iv are not signed.                                      *)
VerifiedMeansIntact == VerifiedAndOpened => result = job.plain

=============================================================================
