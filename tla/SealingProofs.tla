--------------------------- MODULE SealingProofs ---------------------------
(***************************************************************************)
(* Proofs about module Sealing: for data, keys, package damage and foreign *)
(* parts of any kind, and for every block cipher that is one.              *)
(***************************************************************************)
EXTENDS Sealing, SequenceTheorems, TLAPS

\* What a block cipher is: a permutation of the blocks for every key.
BlockCipher ==
  \A k, b \in Block :
    /\ EncryptBlock(k, b) \in Block
    /\ DecryptBlock(k, b) \in Block
    /\ DecryptBlock(k, EncryptBlock(k, b)) = b

Envelopes == [to : Recipients, bytes : Seq(Byte)]

\* What may become of a package: its fields are still bytes; a wrapped key is
\* any bytes that anybody wrapped for any of the recipients, or none, as
\* RSA-OAEP and ECIES detect damage; and nobody but the signer signs as the
\* signer, who signed one ciphertext.
Faults ==
  \A p : \A a \in Arrivals(p) :
    /\ p.iv \in Seq(Byte) => a.iv \in Seq(Byte)
    /\ p.ciphertext \in Seq(Byte) => a.ciphertext \in Seq(Byte)
    /\ p.wrapped_key \in Envelopes => a.wrapped_key \in Envelopes \cup {None}
    /\ /\ p.signature # None /\ p.signature.data = p.ciphertext
       /\ a.signature # None /\ a.signature.data = a.ciphertext
       /\ a.signature.signer = p.signature.signer
       => a.ciphertext = p.ciphertext

-----------------------------------------------------------------------------
(***************************************************************************)
(* Blocks of a sequence                                                    *)
(***************************************************************************)

LEMMA BlockAtType ==
  ASSUME NEW s \in Seq(Byte), NEW n \in Nat, n + 16 <= Len(s)
  PROVE  BlockAt(s, n) \in Block
BY DEF BlockAt, Block

LEMMA BlocksAreSequences ==
  ASSUME NEW b
  PROVE  b \in Block <=> b \in Seq(Byte) /\ Len(b) = 16
<1>1. ASSUME b \in Seq(Byte), Len(b) = 16
      PROVE  b \in [1..16 -> Byte]
  <2>1. b \in [1..Len(b) -> Byte]
    BY <1>1, LenProperties
  <2> QED  BY <1>1, <2>1
<1>2. ASSUME b \in [1..16 -> Byte]
      PROVE  b \in Seq(Byte) /\ Len(b) = 16
  <2>1. b = [k \in 1..16 |-> b[k]] /\ \A k \in 1..16 : b[k] \in Byte
    BY <1>2
  <2>2. [k \in 1..16 |-> b[k]] \in Seq(Byte) /\ Len([k \in 1..16 |-> b[k]]) = 16
    BY <2>1
  <2> QED  BY <2>1, <2>2
<1> QED  BY <1>1, <1>2 DEF Block

LEMMA ZerosType ==
  ASSUME NEW n \in Nat
  PROVE  Zeros(n) \in Seq(Byte) /\ Len(Zeros(n)) = n
BY DEF Zeros, Byte

LEMMA XorBlockType ==
  ASSUME NEW a \in Block, NEW b \in Block
  PROVE  XorBlock(a, b) \in Block
BY SealingAssumption DEF XorBlock, Block

LEMMA XorBlockCancels ==
  ASSUME NEW a \in Block, NEW b \in Block
  PROVE  XorBlock(XorBlock(a, b), b) = a
<1>1. \A k \in 1..16 : XorByte(XorByte(a[k], b[k]), b[k]) = a[k]
  BY SealingAssumption DEF Block
<1>2. XorBlock(XorBlock(a, b), b) = [k \in 1..16 |-> XorByte(XorByte(a[k], b[k]), b[k])]
  BY DEF XorBlock
<1> QED  BY <1>1, <1>2 DEF Block

LEMMA WrittenType ==
  ASSUME NEW s \in Seq(Byte), NEW n \in Nat, n + 16 <= Len(s), NEW b \in Block
  PROVE  /\ Written(s, n, b) \in Seq(Byte)
         /\ Len(Written(s, n, b)) = Len(s)
         /\ \A k \in 1..Len(s) :
              Written(s, n, b)[k] = IF k \in n + 1 .. n + 16 THEN b[k - n] ELSE s[k]
<1>1. DOMAIN s = 1..Len(s) /\ Len(s) \in Nat
  OBVIOUS
<1>2. \A k \in 1..Len(s) : (IF k \in n + 1 .. n + 16 THEN b[k - n] ELSE s[k]) \in Byte
  <2> SUFFICES ASSUME NEW k \in 1..Len(s)
               PROVE  (IF k \in n + 1 .. n + 16 THEN b[k - n] ELSE s[k]) \in Byte
    OBVIOUS
  <2>1. CASE k \in n + 1 .. n + 16
    <3>1. k - n \in 1..16
      BY <2>1
    <3> QED  BY <2>1, <3>1 DEF Block
  <2>2. CASE k \notin n + 1 .. n + 16
    BY <2>2
  <2> QED  BY <2>1, <2>2
<1>3. Written(s, n, b) \in [1..Len(s) -> Byte]
  BY <1>1, <1>2 DEF Written
<1>4. \A k \in 1..Len(s) :
        Written(s, n, b)[k] = IF k \in n + 1 .. n + 16 THEN b[k - n] ELSE s[k]
  BY <1>1 DEF Written
<1> QED  BY <1>1, <1>3, <1>4

\* A write changes its block and no other.
LEMMA WrittenBlocks ==
  ASSUME NEW s \in Seq(Byte), NEW n \in Nat, n + 16 <= Len(s), NEW b \in Block
  PROVE  /\ BlockAt(Written(s, n, b), n) = b
         /\ \A m \in Nat : m + 16 <= n => BlockAt(Written(s, n, b), m) = BlockAt(s, m)
<1>1. ASSUME NEW k \in 1..16
      PROVE  Written(s, n, b)[n + k] = b[k]
  <2>1. n + k \in 1..Len(s) /\ n + k \in n + 1 .. n + 16
    OBVIOUS
  <2>2. Written(s, n, b)[n + k] = b[(n + k) - n]
    BY <2>1, WrittenType
  <2>3. (n + k) - n = k
    OBVIOUS
  <2> QED  BY <2>2, <2>3
<1>2. ASSUME NEW m \in Nat, m + 16 <= n, NEW k \in 1..16
      PROVE  Written(s, n, b)[m + k] = s[m + k]
  <2>1. m + k \in 1..Len(s) /\ m + k \notin n + 1 .. n + 16
    BY <1>2
  <2> QED  BY <2>1, WrittenType
<1>3. BlockAt(Written(s, n, b), n) = b
  <2>1. b = [k \in 1..16 |-> b[k]]
    BY DEF Block
  <2> QED  BY <1>1, <2>1 DEF BlockAt
<1>4. ASSUME NEW m \in Nat, m + 16 <= n
      PROVE  BlockAt(Written(s, n, b), m) = BlockAt(s, m)
  BY <1>2, <1>4 DEF BlockAt
<1> QED  BY <1>3, <1>4

\* Offsets of blocks are equal or a block apart.
LEMMA OffsetsApart ==
  ASSUME NEW m \in Nat, NEW n \in Nat, m % 16 = 0, n % 16 = 0, m < n + 16
  PROVE  m <= n
<1>1. m = 16 * (m \div 16) /\ m \div 16 \in Nat
  OBVIOUS
<1>2. n = 16 * (n \div 16) /\ n \div 16 \in Nat
  OBVIOUS
<1> QED  BY <1>1, <1>2

\* Every index lies in one block.
LEMMA IndexInBlock ==
  ASSUME NEW len \in Nat, len % 16 = 0, NEW k \in 1..len
  PROVE  \E n \in Nat, j \in 1..16 : n % 16 = 0 /\ k = n + j /\ n + 16 <= len
<1> DEFINE n == k - 1 - ((k - 1) % 16)
           j == ((k - 1) % 16) + 1
<1>1. n \in Nat /\ j \in 1..16 /\ n % 16 = 0 /\ k = n + j
  OBVIOUS
<1>2. n + 16 <= len
  BY <1>1
<1> HIDE DEF n, j
<1> QED  BY <1>1, <1>2

\* Sequences with the same blocks from m on have the same elements from m on.
LEMMA BlocksAreAll ==
  ASSUME NEW s \in Seq(Byte), NEW t, NEW m \in Nat, m % 16 = 0, Len(s) % 16 = 0,
         \A n \in Nat : n % 16 = 0 /\ m <= n /\ n + 16 <= Len(s) => BlockAt(s, n) = BlockAt(t, n)
  PROVE  \A k \in m + 1 .. Len(s) : s[k] = t[k]
<1> SUFFICES ASSUME NEW k \in m + 1 .. Len(s)
             PROVE  s[k] = t[k]
  OBVIOUS
<1>1. Len(s) \in Nat /\ k \in 1..Len(s)
  OBVIOUS
<1>2. PICK n \in Nat, j \in 1..16 : n % 16 = 0 /\ k = n + j /\ n + 16 <= Len(s)
  BY <1>1, IndexInBlock
<1>3. m <= n
  <2>1. m < n + 16
    BY <1>2
  <2> QED  BY <1>2, <2>1, OffsetsApart
<1>4. BlockAt(s, n) = BlockAt(t, n)
  BY <1>2, <1>3
<1>5. BlockAt(s, n)[j] = s[n + j] /\ BlockAt(t, n)[j] = t[n + j]
  BY DEF BlockAt
<1> QED  BY <1>2, <1>4, <1>5

-----------------------------------------------------------------------------
(***************************************************************************)
(* Padding                                                                 *)
(***************************************************************************)

PadVal(n) == 16 - (n % 16)

LEMMA PadValRange ==
  ASSUME NEW n \in Nat
  PROVE  PadVal(n) \in 1..16 /\ (n + PadVal(n)) % 16 = 0 /\ PadVal(n) \in Byte
BY DEF PadVal, Byte

LEMMA PadIs ==
  ASSUME NEW s \in Seq(Byte)
  PROVE  /\ pkcs7_pad(s, 16).len = Len(s) + PadVal(Len(s))
         /\ pkcs7_pad(s, 16).buf \in Seq(Byte)
         /\ Len(pkcs7_pad(s, 16).buf) = Len(s) + PadVal(Len(s))
         /\ \A k \in 1..Len(s) + PadVal(Len(s)) :
              pkcs7_pad(s, 16).buf[k] = IF k <= Len(s) THEN s[k] ELSE PadVal(Len(s))
<1> DEFINE v == PadVal(Len(s))
           filling == [k \in 1..v |-> v]
<1>1. v \in 1..16 /\ v \in Byte /\ Len(s) \in Nat
  BY PadValRange
<1>2. pkcs7_pad(s, 16) = [len |-> Len(s) + v, buf |-> s \o filling]
  BY DEF pkcs7_pad, PadVal
<1> HIDE DEF v
<1>3. filling \in Seq(Byte) /\ Len(filling) = v /\ \A k \in 1..v : filling[k] = v
  BY <1>1
<1> HIDE DEF filling
<1>4. /\ s \o filling \in Seq(Byte)
      /\ Len(s \o filling) = Len(s) + v
      /\ \A k \in 1..Len(s) + v :
           (s \o filling)[k] = IF k <= Len(s) THEN s[k] ELSE filling[k - Len(s)]
  BY <1>1, <1>3
<1>5. ASSUME NEW k \in 1..Len(s) + v
      PROVE  (s \o filling)[k] = IF k <= Len(s) THEN s[k] ELSE v
  <2>1. CASE k <= Len(s)
    BY <1>4, <2>1
  <2>2. CASE ~(k <= Len(s))
    <3>1. k - Len(s) \in 1..v
      BY <1>1, <2>2
    <3> QED  BY <1>3, <1>4, <2>2, <3>1
  <2> QED  BY <2>1, <2>2
<1>6. pkcs7_pad(s, 16).len = Len(s) + v /\ pkcs7_pad(s, 16).buf = s \o filling
  BY <1>2
<1>7. /\ pkcs7_pad(s, 16).len = Len(s) + v
      /\ pkcs7_pad(s, 16).buf \in Seq(Byte)
      /\ Len(pkcs7_pad(s, 16).buf) = Len(s) + v
      /\ \A k \in 1..Len(s) + v :
           pkcs7_pad(s, 16).buf[k] = IF k <= Len(s) THEN s[k] ELSE v
  BY <1>4, <1>5, <1>6
<1> QED  BY <1>7 DEF v

\* Unpadding accepts s exactly when it ends in as many bytes of that value
\* as its last byte says.
UnpadAccepts(s) ==
  /\ Len(s) # 0 /\ Len(s) % 16 = 0
  /\ s[Len(s)] \in 1..16
  /\ \A k \in Len(s) - s[Len(s)] + 1 .. Len(s) : s[k] = s[Len(s)]

LEMMA UnpadIs ==
  ASSUME NEW s \in Seq(Byte)
  PROVE  pkcs7_unpad(s, 16) =
           IF UnpadAccepts(s)
           THEN [len |-> Len(s) - s[Len(s)], buf |-> SubSeq(s, 1, Len(s) - s[Len(s)])]
           ELSE Failed(-2)
<1>1. CASE Len(s) = 0 \/ Len(s) % 16 # 0
  BY <1>1 DEF pkcs7_unpad, UnpadAccepts
<1>2. CASE ~(Len(s) = 0 \/ Len(s) % 16 # 0)
  <2> DEFINE v == s[Len(s)]
  <2>1. Len(s) \in Nat /\ Len(s) >= 16 /\ Len(s) \in DOMAIN s
    BY <1>2
  <2>2. v \in Byte
    BY <2>1
  <2> HIDE DEF v
  <2>3. (v = 0 \/ v > 16 \/ v > Len(s)) <=> v \notin 1..16
    BY <2>1, <2>2 DEF Byte
  <2>4. pkcs7_unpad(s, 16) =
          IF v = 0 \/ v > 16 \/ v > Len(s) THEN Failed(-2)
          ELSE IF \E k \in Len(s) - v + 1 .. Len(s) : s[k] # v THEN Failed(-2)
          ELSE [len |-> Len(s) - v, buf |-> SubSeq(s, 1, Len(s) - v)]
    BY <1>2 DEF pkcs7_unpad, v
  <2>5. UnpadAccepts(s) <=>
          /\ v \in 1..16
          /\ \A k \in Len(s) - v + 1 .. Len(s) : s[k] = v
    BY <1>2 DEF UnpadAccepts, v
  <2> QED  BY <2>3, <2>4, <2>5 DEF v
<1> QED  BY <1>1, <1>2

\* What pkcs7_pad makes is what pkcs7_unpad accepts, and only that.
LEMMA PaddedIsAccepted ==
  ASSUME NEW s \in Seq(Byte), NEW n \in 0..Len(s), IsPadded(s, n)
  PROVE  UnpadAccepts(s) /\ n = Len(s) - s[Len(s)]
<1> DEFINE t == SubSeq(s, 1, n)
           v == PadVal(n)
<1>1. t \in Seq(Byte) /\ Len(t) = n /\ n \in Nat
  BY SubSeqProperties
<1>2. v \in 1..16 /\ (n + v) % 16 = 0
  BY <1>1, PadValRange
<1>3. s = pkcs7_pad(t, 16).buf
  BY DEF IsPadded
<1> HIDE DEF t
<1>4. Len(s) = n + v /\ \A k \in 1..n + v : s[k] = IF k <= n THEN t[k] ELSE v
  BY <1>1, <1>3, PadIs
<1> HIDE DEF v
<1>5. s[Len(s)] = v
  <2>1. Len(s) \in 1..n + v /\ ~(Len(s) <= n)
    BY <1>1, <1>2, <1>4
  <2> QED  BY <1>4, <2>1
<1>6. \A k \in Len(s) - v + 1 .. Len(s) : s[k] = v
  <2> SUFFICES ASSUME NEW k \in Len(s) - v + 1 .. Len(s)
               PROVE  s[k] = v
    OBVIOUS
  <2>1. k \in 1..n + v /\ ~(k <= n)
    BY <1>1, <1>2, <1>4
  <2> QED  BY <1>4, <2>1
<1> QED  BY <1>1, <1>2, <1>4, <1>5, <1>6 DEF UnpadAccepts

LEMMA AcceptedIsPadded ==
  ASSUME NEW s \in Seq(Byte), UnpadAccepts(s)
  PROVE  /\ Len(s) - s[Len(s)] \in 0..Len(s)
         /\ IsPadded(s, Len(s) - s[Len(s)])
<1> DEFINE v == s[Len(s)]
           n == Len(s) - v
           t == SubSeq(s, 1, n)
           u == pkcs7_pad(t, 16).buf
<1>1. Len(s) \in Nat /\ Len(s) % 16 = 0 /\ Len(s) >= 16 /\ v \in 1..16
  BY DEF UnpadAccepts
<1>2. \A k \in n + 1 .. Len(s) : s[k] = v
  BY DEF UnpadAccepts
<1> HIDE DEF v
<1>3. n \in 0..Len(s)
  BY <1>1
<1>4. PadVal(n) = v
  BY <1>1 DEF PadVal
<1> HIDE DEF n
<1>5. t \in Seq(Byte) /\ Len(t) = n /\ \A k \in 1..n : t[k] = s[k]
  BY <1>3, SubSeqProperties
<1> HIDE DEF t
<1>6. n + v = Len(s)
  BY <1>1 DEF n
<1>7. /\ u \in Seq(Byte) /\ Len(u) = Len(s)
      /\ \A k \in 1..Len(s) : u[k] = IF k <= n THEN t[k] ELSE v
  BY <1>4, <1>5, <1>6, PadIs
<1> HIDE DEF u
<1>8. \A k \in 1..Len(s) : u[k] = s[k]
  BY <1>2, <1>3, <1>5, <1>7
<1>9. u = s
  BY <1>7, <1>8, SeqEqual
<1>10. IsPadded(s, n)
  BY <1>9 DEF IsPadded, u, t
<1> QED  BY <1>3, <1>10 DEF n, v

LEMMA UnpadInverts ==
  ASSUME NEW s \in Seq(Byte)
  PROVE  LET unpadded == pkcs7_unpad(s, 16) IN
         IF unpadded.len < 0
         THEN \A n \in 0..Len(s) : ~IsPadded(s, n)
         ELSE IsPadded(s, unpadded.len) /\ unpadded.buf = SubSeq(s, 1, unpadded.len)
<1>1. CASE UnpadAccepts(s)
  <2> DEFINE n == Len(s) - s[Len(s)]
  <2>1. n \in 0..Len(s) /\ IsPadded(s, n)
    BY <1>1, AcceptedIsPadded
  <2>2. pkcs7_unpad(s, 16).len = n /\ pkcs7_unpad(s, 16).buf = SubSeq(s, 1, n)
    BY <1>1, UnpadIs
  <2> HIDE DEF n
  <2>3. ~(n < 0)
    BY <2>1
  <2> QED  BY <2>1, <2>2, <2>3
<1>2. CASE ~UnpadAccepts(s)
  <2>1. pkcs7_unpad(s, 16).len = -2
    BY <1>2, UnpadIs DEF Failed
  <2>2. \A n \in 0..Len(s) : ~IsPadded(s, n)
    BY <1>2, PaddedIsAccepted
  <2> QED  BY <2>1, <2>2
<1> QED  BY <1>1, <1>2

LEMMA UnpadPad ==
  ASSUME NEW s \in Seq(Byte)
  PROVE  LET unpadded == pkcs7_unpad(pkcs7_pad(s, 16).buf, 16) IN
         unpadded.len = Len(s) /\ unpadded.buf = s
<1> DEFINE t == pkcs7_pad(s, 16).buf
           v == PadVal(Len(s))
<1>1. Len(s) \in Nat /\ v \in 1..16
  BY PadValRange
<1>2. /\ t \in Seq(Byte) /\ Len(t) = Len(s) + v
      /\ \A k \in 1..Len(s) + v : t[k] = IF k <= Len(s) THEN s[k] ELSE v
  BY PadIs
<1> HIDE DEF t, v
<1>3. Len(s) \in 0..Len(t)
  BY <1>1, <1>2
<1>4. SubSeq(t, 1, Len(s)) = s
  <2>1. /\ SubSeq(t, 1, Len(s)) \in Seq(Byte) /\ Len(SubSeq(t, 1, Len(s))) = Len(s)
        /\ \A k \in 1..Len(s) : SubSeq(t, 1, Len(s))[k] = t[k]
    BY <1>1, <1>2, <1>3, SubSeqProperties
  <2>2. \A k \in 1..Len(s) : t[k] = s[k]
    BY <1>1, <1>2
  <2> QED  BY <2>1, <2>2, SeqEqual
<1>5. IsPadded(t, Len(s))
  BY <1>4 DEF IsPadded, t
<1>6. UnpadAccepts(t) /\ Len(s) = Len(t) - t[Len(t)]
  BY <1>2, <1>3, <1>5, PaddedIsAccepted
<1>7. pkcs7_unpad(t, 16).len = Len(s) /\ pkcs7_unpad(t, 16).buf = SubSeq(t, 1, Len(s))
  <2>1. pkcs7_unpad(t, 16) =
          [len |-> Len(t) - t[Len(t)], buf |-> SubSeq(t, 1, Len(t) - t[Len(t)])]
    BY <1>2, <1>6, UnpadIs
  <2> QED  BY <1>6, <2>1
<1> QED  BY <1>4, <1>7 DEF t

-----------------------------------------------------------------------------
(***************************************************************************)
(* The inductive invariant                                                 *)
(***************************************************************************)

PaddedBuffer(plain) ==
  SubSeq(pkcs7_pad(plain, 16).buf \o Zeros(16), 1, pad_buffer_len(Len(plain)))

PaddedLen(plain) == Len(pkcs7_pad(plain, 16).buf)

\* The block that the block at n is chained to.
Prior(iv, s, n) == IF n = 0 THEN iv ELSE BlockAt(s, n - 16)

\* s is, up to n, the CBC encryption of clear.
EncryptedTo(n, k, iv, clear, s) ==
  \A m \in Nat : m % 16 = 0 /\ m + 16 <= n =>
    BlockAt(s, m) = EncryptBlock(k, XorBlock(BlockAt(clear, m), Prior(iv, s, m)))

\* clear is, up to n, the CBC decryption of s.
DecryptedTo(n, k, iv, s, clear) ==
  \A m \in Nat : m % 16 = 0 /\ m + 16 <= n =>
    BlockAt(clear, m) = XorBlock(DecryptBlock(k, BlockAt(s, m)), Prior(iv, s, m))

\* A loop over buffer s: it is at the start of a block or at the end.
LoopAt(s) ==
  /\ s \in Seq(Byte) /\ Len(s) % 16 = 0 /\ Len(s) # 0
  /\ offset \in Nat /\ offset % 16 = 0 /\ offset <= Len(s)

Sent == {"staged", "verify", "unwrap", "decrypting", "opened"}
Arrived == Sent \ {"staged"}
Decrypted == {"decrypting", "opened"}

Job ==
  /\ job.client \in Clients /\ job.to \in Recipients /\ job.signer \in Senders \cup {None}
  /\ job.plain \in Seq(Byte) /\ job.key \in Block /\ job.iv \in Block
  /\ padded = PaddedBuffer(job.plain)

JobInv == pc \in {"encrypting"} \cup Sent => Job

Encrypting ==
  /\ LoopAt(out) /\ Len(out) = PaddedLen(job.plain)
  /\ prev = Prior(job.iv, out, offset)
  /\ EncryptedTo(offset, job.key, job.iv, padded, out)

EncInv == pc = "encrypting" => Encrypting

Package ==
  /\ pkg.iv = job.iv
  /\ pkg.ciphertext \in Seq(Byte) /\ Len(pkg.ciphertext) = PaddedLen(job.plain)
  /\ EncryptedTo(Len(pkg.ciphertext), job.key, job.iv, padded, pkg.ciphertext)
  /\ pkg.wrapped_key = wrap_key(job.client, job.to, job.key, job.iv)
  /\ pkg.signature = IF job.signer = None THEN None ELSE sign_file(pkg.ciphertext, job.signer)
  /\ Wrappable(job.client, job.to)

PkgInv == pc \in Sent => Package

Arrival ==
  /\ got.client \in Clients /\ got.me \in Recipients /\ got.pub \in Senders \cup {None}
  /\ got.pkg \in Arrivals(pkg)
  /\ got.client = "adapter" <=> job.client = "adapter"

GotInv == /\ pc \in Arrived => Arrival
          /\ pc \in {"idle", "encrypting", "staged"} => got = None

Decrypting ==
  /\ got.client # "adapter" /\ key \in Block /\ (got.pkg = pkg => key = job.key)
  /\ got.pkg.ciphertext \in Seq(Byte) /\ got.pkg.iv \in Block
  /\ LoopAt(out) /\ Len(out) = Len(got.pkg.ciphertext)
  /\ prev = Prior(got.pkg.iv, got.pkg.ciphertext, offset)
  /\ DecryptedTo(offset, key, got.pkg.iv, got.pkg.ciphertext, out)

DecInv == pc \in Decrypted => Decrypting

\* A valid signature is the signature of what arrived, by the key it was
\* checked with.
VerdictInv ==
  /\ verdict \in BOOLEAN \cup {None}
  /\ pc \notin Arrived \cup {"refused"} => verdict = None
  /\ pc \in Arrived /\ verdict = TRUE =>
       verify_file(got.pkg.ciphertext, got.pkg.signature, got.pub)

OpenedInv ==
  pc = "opened" => /\ offset = Len(out)
                   /\ ~(pkcs7_unpad(out, 16).len < 0)
                   /\ result = pkcs7_unpad(out, 16).buf

\* The part of TypeOK that the others do not imply.
BasicTypes ==
  /\ pc \in PCs
  /\ padded \in Seq(Byte) /\ out \in Seq(Byte)
  /\ offset \in Nat /\ offset % 16 = 0
  /\ prev \in Block \cup {<<>>}
  /\ result \in Seq(Byte) \cup {None}

IInv ==
  /\ BasicTypes /\ JobInv /\ EncInv /\ PkgInv /\ GotInv /\ DecInv
  /\ VerdictInv /\ OpenedInv /\ RoundTrip

-----------------------------------------------------------------------------
(***************************************************************************)
(* Lemmas about the loops                                                  *)
(***************************************************************************)

LEMMA BufferIs ==
  ASSUME NEW s \in Seq(Byte)
  PROVE  /\ PaddedBuffer(s) \in Seq(Byte)
         /\ PaddedLen(s) \in Nat /\ PaddedLen(s) % 16 = 0 /\ PaddedLen(s) >= 16
         /\ pkcs7_pad(s, 16).len = PaddedLen(s)
         /\ PaddedLen(s) <= Len(PaddedBuffer(s))
         /\ \A k \in 1..PaddedLen(s) : PaddedBuffer(s)[k] = pkcs7_pad(s, 16).buf[k]
<1> DEFINE t == pkcs7_pad(s, 16).buf
           n == PaddedLen(s)
           v == PadVal(Len(s))
           both == t \o Zeros(16)
<1>1. Len(s) \in Nat /\ v \in 1..16 /\ (Len(s) + v) % 16 = 0
  BY PadValRange
<1>2. t \in Seq(Byte) /\ n = Len(t) /\ n = Len(s) + v /\ pkcs7_pad(s, 16).len = n
  BY PadIs DEF PaddedLen
<1> HIDE DEF t, n, v
<1>3. n \in Nat /\ n % 16 = 0 /\ n >= 16 /\ n <= Len(s) + 16
  BY <1>1, <1>2
<1>4. Zeros(16) \in Seq(Byte) /\ Len(Zeros(16)) = 16
  BY ZerosType
<1>5. both \in Seq(Byte) /\ Len(both) = n + 16 /\ \A k \in 1..n : both[k] = t[k]
  <2>1. /\ both \in Seq(Byte) /\ Len(both) = Len(t) + Len(Zeros(16))
        /\ \A k \in 1..Len(t) + Len(Zeros(16)) :
             both[k] = IF k <= Len(t) THEN t[k] ELSE Zeros(16)[k - Len(t)]
    <3> DEFINE z == Zeros(16)
    <3>1. z \in Seq(Byte)
      BY <1>4
    <3> HIDE DEF z
    <3>2. /\ t \o z \in Seq(Byte) /\ Len(t \o z) = Len(t) + Len(z)
          /\ \A k \in 1..Len(t) + Len(z) :
               (t \o z)[k] = IF k <= Len(t) THEN t[k] ELSE z[k - Len(t)]
      BY <1>2, <3>1, ConcatProperties
    <3> QED  BY <3>2 DEF z
  <2> HIDE DEF both
  <2>2. ASSUME NEW k \in 1..n PROVE both[k] = t[k]
    BY <1>2, <1>3, <1>4, <2>1
  <2> QED  BY <1>2, <1>4, <2>1, <2>2
<1> HIDE DEF both
<1>6. pad_buffer_len(Len(s)) = Len(s) + 16 /\ Len(s) + 16 \in Nat
  BY <1>1 DEF pad_buffer_len
<1>7. \A k \in 1..Len(s) + 16 : both[k] \in Byte
  <2>1. Len(s) + 16 <= Len(both)
    BY <1>1, <1>2, <1>5
  <2> QED  BY <1>1, <1>5, <2>1
<1>8. /\ SubSeq(both, 1, Len(s) + 16) \in Seq(Byte)
      /\ Len(SubSeq(both, 1, Len(s) + 16)) = Len(s) + 16
      /\ \A k \in 1..Len(s) + 16 : SubSeq(both, 1, Len(s) + 16)[k] = both[k]
  <2> DEFINE e == Len(s) + 16
  <2>1. e \in Nat /\ e >= 16 /\ \A k \in 1..e : both[k] \in Byte
    BY <1>1, <1>7
  <2> HIDE DEF e
  <2>2. /\ SubSeq(both, 1, e) \in Seq(Byte) /\ Len(SubSeq(both, 1, e)) = e
        /\ \A k \in 1..e : SubSeq(both, 1, e)[k] = both[k]
    BY <2>1, SubSeqProperties
  <2> QED  BY <2>2 DEF e
<1>9. PaddedBuffer(s) = SubSeq(both, 1, Len(s) + 16)
  BY <1>6 DEF PaddedBuffer, both, t
<1>10. /\ PaddedBuffer(s) \in Seq(Byte)
       /\ n <= Len(PaddedBuffer(s))
       /\ \A k \in 1..n : PaddedBuffer(s)[k] = t[k]
  BY <1>1, <1>3, <1>5, <1>8, <1>9
<1> QED  BY <1>2, <1>3, <1>10 DEF t, n

\* A loop that is not at the end has a block to go.
LEMMA BlockToGo ==
  ASSUME NEW n \in Nat, NEW len \in Nat, n % 16 = 0, len % 16 = 0, n < len
  PROVE  n + 16 <= len /\ (n + 16) % 16 = 0
<1>1. (n + 16) % 16 = 0 /\ n + 16 \in Nat /\ n + 16 < len + 16
  OBVIOUS
<1> QED  BY <1>1, OffsetsApart

LEMMA PriorType ==
  ASSUME NEW iv \in Block, NEW s \in Seq(Byte), NEW n \in Nat, n % 16 = 0, n <= Len(s)
  PROVE  Prior(iv, s, n) \in Block
<1>1. CASE n = 0
  BY <1>1 DEF Prior
<1>2. CASE n # 0
  <2>1. n - 16 \in Nat /\ n - 16 + 16 <= Len(s)
    BY <1>2
  <2> QED  BY <1>2, <2>1, BlockAtType DEF Prior
<1> QED  BY <1>1, <1>2

LEMMA PriorUnwritten ==
  ASSUME NEW s \in Seq(Byte), NEW n \in Nat, n + 16 <= Len(s), NEW b \in Block, NEW iv,
         NEW m \in Nat, m % 16 = 0, m <= n
  PROVE  Prior(iv, Written(s, n, b), m) = Prior(iv, s, m)
<1>1. CASE m = 0
  BY <1>1 DEF Prior
<1>2. CASE m # 0
  <2>1. m - 16 \in Nat /\ m - 16 + 16 <= n
    BY <1>2
  <2> QED  BY <1>2, <2>1, WrittenBlocks DEF Prior
<1> QED  BY <1>1, <1>2

\* The last block that an offset n + 16 covers is the one at n.
LEMMA BlockCovered ==
  ASSUME NEW m \in Nat, NEW n \in Nat, m % 16 = 0, n % 16 = 0, m + 16 <= n + 16, m # n
  PROVE  m + 16 <= n
BY BlockToGo

LEMMA EncryptedFurther ==
  ASSUME NEW s \in Seq(Byte), NEW n \in Nat, n % 16 = 0, n + 16 <= Len(s),
         NEW b \in Block, NEW k, NEW iv, NEW clear,
         EncryptedTo(n, k, iv, clear, s),
         b = EncryptBlock(k, XorBlock(BlockAt(clear, n), Prior(iv, s, n)))
  PROVE  /\ EncryptedTo(n + 16, k, iv, clear, Written(s, n, b))
         /\ Prior(iv, Written(s, n, b), n + 16) = b
<1> DEFINE t == Written(s, n, b)
<1>1. BlockAt(t, n) = b /\ \A m \in Nat : m + 16 <= n => BlockAt(t, m) = BlockAt(s, m)
  BY WrittenBlocks
<1>2. \A m \in Nat : m % 16 = 0 /\ m <= n => Prior(iv, t, m) = Prior(iv, s, m)
  BY PriorUnwritten
<1> HIDE DEF t
<1>3. ASSUME NEW m \in Nat, m % 16 = 0, m + 16 <= n + 16
      PROVE  BlockAt(t, m) = EncryptBlock(k, XorBlock(BlockAt(clear, m), Prior(iv, t, m)))
  <2>1. CASE m = n
    BY <1>1, <1>2, <2>1
  <2>2. CASE m # n
    <3>1. m + 16 <= n
      BY <1>3, <2>2, BlockCovered
    <3>2. BlockAt(t, m) = BlockAt(s, m) /\ Prior(iv, t, m) = Prior(iv, s, m)
      BY <1>1, <1>2, <1>3, <3>1
    <3>3. BlockAt(s, m) = EncryptBlock(k, XorBlock(BlockAt(clear, m), Prior(iv, s, m)))
      BY <1>3, <3>1 DEF EncryptedTo
    <3> QED  BY <3>2, <3>3
  <2> QED  BY <2>1, <2>2
<1>4. Prior(iv, t, n + 16) = BlockAt(t, n)
  <2>1. n + 16 # 0 /\ (n + 16) - 16 = n
    OBVIOUS
  <2> QED  BY <2>1 DEF Prior
<1> QED  BY <1>1, <1>3, <1>4 DEF EncryptedTo, t

LEMMA DecryptedFurther ==
  ASSUME NEW clear \in Seq(Byte), NEW n \in Nat, n % 16 = 0, n + 16 <= Len(clear),
         NEW b \in Block, NEW k, NEW iv, NEW s,
         DecryptedTo(n, k, iv, s, clear),
         b = XorBlock(DecryptBlock(k, BlockAt(s, n)), Prior(iv, s, n))
  PROVE  /\ DecryptedTo(n + 16, k, iv, s, Written(clear, n, b))
         /\ Prior(iv, s, n + 16) = BlockAt(s, n)
<1> DEFINE t == Written(clear, n, b)
<1>1. BlockAt(t, n) = b /\ \A m \in Nat : m + 16 <= n => BlockAt(t, m) = BlockAt(clear, m)
  BY WrittenBlocks
<1> HIDE DEF t
<1>2. ASSUME NEW m \in Nat, m % 16 = 0, m + 16 <= n + 16
      PROVE  BlockAt(t, m) = XorBlock(DecryptBlock(k, BlockAt(s, m)), Prior(iv, s, m))
  <2>1. CASE m = n
    BY <1>1, <2>1
  <2>2. CASE m # n
    <3>1. m + 16 <= n
      BY <1>2, <2>2, BlockCovered
    <3> QED  BY <1>1, <1>2, <3>1 DEF DecryptedTo
  <2> QED  BY <2>1, <2>2
<1>3. Prior(iv, s, n + 16) = BlockAt(s, n)
  <2>1. n + 16 # 0 /\ (n + 16) - 16 = n
    OBVIOUS
  <2> QED  BY <2>1 DEF Prior
<1> QED  BY <1>2, <1>3 DEF DecryptedTo, t

-----------------------------------------------------------------------------
(***************************************************************************)
(* The invariant is inductive                                              *)
(***************************************************************************)

LEMMA InitInv == Init => IInv
<1> SUFFICES ASSUME Init PROVE IInv
  OBVIOUS
<1>1. BasicTypes
  BY DEF Init, BasicTypes, PCs
<1>2. GotInv /\ JobInv /\ EncInv /\ PkgInv /\ DecInv /\ OpenedInv
  BY DEF Init, GotInv, JobInv, EncInv, PkgInv, DecInv, OpenedInv, Sent, Arrived, Decrypted
<1>3. VerdictInv /\ RoundTrip
  BY SealingAssumption DEF Init, VerdictInv, RoundTrip, Done, Arrived, Sent
<1> QED  BY <1>1, <1>2, <1>3 DEF IInv

LEMMA EncryptInv ==
  ASSUME IInv, NEW client \in Clients, NEW to \in Recipients, NEW signer \in Senders \cup {None},
         NEW plain \in Inputs, NEW k \in Keys, NEW iv \in IVs,
         Encrypt(client, to, signer, plain, k, iv)
  PROVE  IInv'
<1> DEFINE new == pkcs7_pad(plain, 16)
           refused == Len(k) # 16 \/ new.len <= 0 \/ (new.len % 16) # 0
<1>1. /\ pc = "idle" /\ UNCHANGED <<pkg, got, key, verdict, result>>
      /\ job' = [client |-> client, to |-> to, signer |-> signer,
                 plain |-> plain, key |-> k, iv |-> iv]
      /\ refused => pc' = "refused" /\ UNCHANGED <<padded, loopVars>>
      /\ ~refused => /\ pc' = "encrypting" /\ padded' = PaddedBuffer(plain)
                     /\ out' = Zeros(new.len) /\ prev' = iv /\ offset' = 0
  BY DEF Encrypt, PaddedBuffer
<1>2. plain \in Seq(Byte) /\ iv \in Block /\ k \in Seq(Byte) /\ got = None /\ verdict = None
  BY <1>1, SealingAssumption DEF IInv, GotInv, VerdictInv, Arrived, Sent
<1>3. /\ PaddedBuffer(plain) \in Seq(Byte)
      /\ PaddedLen(plain) \in Nat /\ PaddedLen(plain) % 16 = 0 /\ PaddedLen(plain) >= 16
      /\ new.len = PaddedLen(plain)
  BY <1>2, BufferIs
<1>4. Zeros(PaddedLen(plain)) \in Seq(Byte) /\ Len(Zeros(PaddedLen(plain))) = PaddedLen(plain)
  BY <1>3, ZerosType
<1> HIDE DEF new, refused
<1>5. CASE refused
  <2>1. BasicTypes'
    BY <1>1, <1>5 DEF IInv, BasicTypes, PCs, loopVars
  <2>2. GotInv' /\ JobInv' /\ EncInv' /\ PkgInv' /\ DecInv' /\ OpenedInv'
    BY <1>1, <1>5 DEF GotInv, JobInv, EncInv, PkgInv, DecInv, OpenedInv, Sent, Arrived, Decrypted
  <2>3. VerdictInv' /\ RoundTrip'
    BY <1>1, <1>2, <1>5, SealingAssumption DEF VerdictInv, RoundTrip, Done, Arrived, Sent
  <2> QED  BY <2>1, <2>2, <2>3 DEF IInv
<1>6. CASE ~refused
  <2>1. Len(k) = 16
    BY <1>6 DEF refused
  <2>2. k \in Block
    BY <1>2, <2>1, BlocksAreSequences
  <2>3. Job'
    BY <1>1, <1>2, <1>6, <2>2 DEF Job
  <2>4. LoopAt(out)' /\ Len(out)' = PaddedLen(job.plain)'
    BY <1>1, <1>3, <1>4, <1>6 DEF LoopAt
  <2>5. prev' = Prior(job.iv, out, offset)'
    BY <1>1, <1>6 DEF Prior
  <2>6. EncryptedTo(offset, job.key, job.iv, padded, out)'
    BY <1>1, <1>6 DEF EncryptedTo
  <2>7. BasicTypes'
    BY <1>1, <1>2, <1>3, <1>4, <1>6 DEF IInv, BasicTypes, PCs
  <2>8. EncInv' /\ JobInv'
    BY <2>3, <2>4, <2>5, <2>6 DEF EncInv, JobInv, Encrypting
  <2>9. GotInv' /\ PkgInv' /\ DecInv' /\ OpenedInv'
    BY <1>1, <1>2, <1>6 DEF GotInv, PkgInv, DecInv, OpenedInv, Sent, Arrived, Decrypted
  <2>10. VerdictInv' /\ RoundTrip'
    BY <1>1, <1>2, <1>6, SealingAssumption DEF VerdictInv, RoundTrip, Done, Arrived, Sent
  <2> QED  BY <2>7, <2>8, <2>9, <2>10 DEF IInv
<1> QED  BY <1>5, <1>6

LEMMA EncryptTurnInv ==
  ASSUME IInv, BlockCipher, EncryptTurn
  PROVE  IInv'
<1> DEFINE block == EncryptBlock(job.key, XorBlock(BlockAt(padded, offset), prev))
<1>1. /\ pc = "encrypting" /\ offset < Len(out) /\ pc' = "encrypting"
      /\ out' = Written(out, offset, block) /\ prev' = block /\ offset' = offset + 16
      /\ UNCHANGED <<job, padded, pkg, got, key, verdict, result>>
  BY DEF EncryptTurn, sendVars
<1>2. BasicTypes /\ Job /\ Encrypting
  BY <1>1 DEF IInv, JobInv, EncInv
<1>3. /\ out \in Seq(Byte) /\ Len(out) % 16 = 0 /\ Len(out) # 0
      /\ offset \in Nat /\ offset % 16 = 0 /\ Len(out) = PaddedLen(job.plain)
      /\ prev = Prior(job.iv, out, offset)
      /\ EncryptedTo(offset, job.key, job.iv, padded, out)
  BY <1>2 DEF Encrypting, LoopAt
<1>4. /\ job.plain \in Seq(Byte) /\ job.key \in Block /\ job.iv \in Block
      /\ padded = PaddedBuffer(job.plain)
  BY <1>2 DEF Job
<1>5. Len(out) \in Nat /\ offset + 16 <= Len(out) /\ (offset + 16) % 16 = 0
  BY <1>1, <1>3, BlockToGo
<1>6. block \in Block
  <2>1. padded \in Seq(Byte) /\ Len(out) <= Len(padded) /\ Len(padded) \in Nat
    BY <1>3, <1>4, BufferIs
  <2>2. BlockAt(padded, offset) \in Block
    <3>1. offset + 16 <= Len(padded)
      BY <1>3, <1>5, <2>1
    <3> QED  BY <1>3, <2>1, <3>1, BlockAtType
  <2>3. prev \in Block
    BY <1>1, <1>3, <1>4, <1>5, PriorType
  <2>4. XorBlock(BlockAt(padded, offset), prev) \in Block
    BY <2>2, <2>3, XorBlockType
  <2> QED  BY <1>4, <2>4 DEF BlockCipher
<1>7. /\ EncryptedTo(offset + 16, job.key, job.iv, padded, Written(out, offset, block))
      /\ Prior(job.iv, Written(out, offset, block), offset + 16) = block
  BY <1>3, <1>5, <1>6, EncryptedFurther
<1>8. Written(out, offset, block) \in Seq(Byte) /\ Len(Written(out, offset, block)) = Len(out)
  BY <1>3, <1>5, <1>6, WrittenType
<1> HIDE DEF block
<1>9. Encrypting'
  <2>1. LoopAt(out)' /\ Len(out)' = PaddedLen(job.plain)'
    BY <1>1, <1>3, <1>5, <1>8 DEF LoopAt
  <2>2. prev' = Prior(job.iv, out, offset)' /\ EncryptedTo(offset, job.key, job.iv, padded, out)'
    BY <1>1, <1>7
  <2> QED  BY <2>1, <2>2 DEF Encrypting
<1>10. Job'
  BY <1>1, <1>2 DEF Job
<1>11. BasicTypes'
  BY <1>1, <1>2, <1>3, <1>5, <1>6, <1>8 DEF BasicTypes
<1>12. EncInv' /\ JobInv'
  BY <1>9, <1>10 DEF EncInv, JobInv
<1>13. GotInv' /\ PkgInv' /\ DecInv' /\ OpenedInv'
  BY <1>1 DEF IInv, GotInv, PkgInv, DecInv, OpenedInv, Sent, Arrived, Decrypted
<1>14. VerdictInv' /\ RoundTrip'
  BY <1>1 DEF IInv, VerdictInv, RoundTrip, Done, Arrived, Sent
<1> QED  BY <1>11, <1>12, <1>13, <1>14 DEF IInv

LEMMA SealInv ==
  ASSUME IInv, Seal
  PROVE  IInv'
<1>1. /\ pc = "encrypting" /\ offset >= Len(out)
      /\ UNCHANGED <<job, padded, out, prev, offset, got, key, verdict, result>>
  BY DEF Seal, loopVars
<1>2. BasicTypes /\ Job /\ Encrypting /\ got = None
  BY <1>1 DEF IInv, JobInv, EncInv, GotInv
<1>3. verdict = None /\ verdict' = None
  BY <1>1 DEF IInv, VerdictInv, Arrived, Sent
<1>4. BasicTypes' /\ Job'
  <2>1. pc' \in {"staged", "refused"}
    BY DEF Seal
  <2> QED  BY <1>1, <1>2, <2>1 DEF BasicTypes, Job, PCs
<1>5. CASE Wrappable(job.client, job.to)
  <2>1. /\ pc' = "staged"
        /\ pkg' = [iv |-> job.iv, ciphertext |-> out,
                   wrapped_key |-> wrap_key(job.client, job.to, job.key, job.iv),
                   signature |-> IF job.signer = None THEN None ELSE sign_file(out, job.signer)]
    BY <1>5 DEF Seal
  <2>2. offset = Len(out)
    BY <1>1, <1>2 DEF Encrypting, LoopAt
  <2>3. Package'
    BY <1>1, <1>2, <1>5, <2>1, <2>2 DEF Package, Encrypting, LoopAt, EncryptedTo, Wrappable
  <2>4. JobInv' /\ PkgInv' /\ EncInv'
    BY <1>4, <2>1, <2>3 DEF JobInv, PkgInv, EncInv
  <2>5. GotInv' /\ DecInv' /\ OpenedInv'
    BY <1>1, <1>2, <2>1 DEF GotInv, DecInv, OpenedInv, Arrived, Decrypted
  <2>6. VerdictInv' /\ RoundTrip'
    BY <1>3, <2>1, SealingAssumption DEF VerdictInv, RoundTrip, Done, Arrived, Sent
  <2> QED  BY <1>4, <2>4, <2>5, <2>6 DEF IInv
<1>6. CASE ~Wrappable(job.client, job.to)
  <2>1. pc' = "refused" /\ pkg' = pkg
    BY <1>6 DEF Seal
  <2>2. JobInv' /\ PkgInv' /\ EncInv' /\ GotInv' /\ DecInv' /\ OpenedInv'
    BY <2>1 DEF JobInv, PkgInv, EncInv, GotInv, DecInv, OpenedInv, Sent, Arrived, Decrypted
  <2>3. VerdictInv' /\ RoundTrip'
    BY <1>1, <1>2, <1>3, <2>1, SealingAssumption DEF VerdictInv, RoundTrip, Done, Arrived, Sent
  <2> QED  BY <1>4, <2>2, <2>3 DEF IInv
<1> QED  BY <1>5, <1>6

LEMMA ArriveInv ==
  ASSUME IInv, NEW client \in Clients, NEW me \in Recipients, NEW pub \in Senders \cup {None},
         Arrive(client, me, pub)
  PROVE  IInv'
<1>1. /\ pc = "staged" /\ (client = "adapter" <=> job.client = "adapter")
      /\ pc' \in {"verify", "unwrap"}
      /\ UNCHANGED <<job, padded, pkg, out, prev, offset, key, verdict, result>>
  BY DEF Arrive, sendVars, loopVars
<1>2. PICK arrived \in Arrivals(pkg) :
        got' = [client |-> client, me |-> me, pub |-> pub, pkg |-> arrived]
  BY DEF Arrive
<1>3. BasicTypes /\ Job /\ Package /\ verdict = None
  BY <1>1 DEF IInv, JobInv, PkgInv, VerdictInv, Sent, Arrived
<1>4. BasicTypes' /\ Job' /\ Package'
  BY <1>1, <1>3 DEF BasicTypes, Job, Package, EncryptedTo, PCs
<1>5. Arrival'
  BY <1>1, <1>2 DEF Arrival
<1>6. JobInv' /\ PkgInv' /\ EncInv' /\ GotInv' /\ DecInv' /\ OpenedInv'
  BY <1>1, <1>4, <1>5
     DEF JobInv, PkgInv, EncInv, GotInv, DecInv, OpenedInv, Arrived, Decrypted, Sent
<1>7. VerdictInv' /\ RoundTrip'
  BY <1>1, <1>3, SealingAssumption DEF VerdictInv, RoundTrip, Done
<1> QED  BY <1>4, <1>6, <1>7 DEF IInv

LEMMA VerifyFirstInv ==
  ASSUME IInv, VerifyFirst
  PROVE  IInv'
<1>1. /\ pc = "verify" /\ pc' = "unwrap"
      /\ UNCHANGED <<job, padded, pkg, out, prev, offset, got, key, result>>
  BY DEF VerifyFirst, sendVars, loopVars
<1>2. BasicTypes /\ Job /\ Package /\ Arrival
  BY <1>1 DEF IInv, JobInv, PkgInv, GotInv, Sent, Arrived
<1>3. BasicTypes' /\ Job' /\ Package' /\ Arrival'
  BY <1>1, <1>2 DEF BasicTypes, Job, Package, Arrival, EncryptedTo, PCs
<1>4. JobInv' /\ PkgInv' /\ EncInv' /\ GotInv' /\ DecInv' /\ OpenedInv'
  BY <1>1, <1>3
     DEF JobInv, PkgInv, EncInv, GotInv, DecInv, OpenedInv, Arrived, Decrypted, Sent
<1>5. verdict' \in BOOLEAN \cup {None}
  BY DEF VerifyFirst, verify_file
<1>6. ASSUME verdict' = TRUE
      PROVE  verify_file(got.pkg.ciphertext, got.pkg.signature, got.pub)
  BY <1>6, SealingAssumption DEF VerifyFirst
<1>7. VerdictInv' /\ RoundTrip'
  BY <1>1, <1>5, <1>6, SealingAssumption DEF VerdictInv, RoundTrip, Done, verify_file, Arrived, Sent
<1> QED  BY <1>3, <1>4, <1>7 DEF IInv

LEMMA ConcatIs ==
  ASSUME NEW s \in Seq(Byte), NEW t \in Seq(Byte)
  PROVE  s \o t \in Seq(Byte) /\ Len(s \o t) = Len(s) + Len(t)
BY ConcatProperties

\* An envelope as it was made.
LEMMA EnvelopeIs ==
  ASSUME Job, Package
  PROVE  /\ pkg.wrapped_key \in Envelopes /\ pkg.wrapped_key # None
         /\ pkg.wrapped_key.to = job.to
         /\ job.client # "adapter" => pkg.wrapped_key.bytes = job.key
<1> DEFINE content == IF job.client = "adapter" THEN job.key \o job.iv ELSE job.key
<1>1. pkg.wrapped_key = [to |-> job.to, bytes |-> content]
  BY DEF Package, wrap_key
<1>2. content \in Seq(Byte)
  <2>1. job.key \in Seq(Byte) /\ job.iv \in Seq(Byte)
    BY BlocksAreSequences DEF Job
  <2>2. job.key \o job.iv \in Seq(Byte)
    BY <2>1, ConcatIs, Zenon
  <2> QED  BY <2>1, <2>2
<1>3. job.client # "adapter" => content = job.key
  OBVIOUS
<1> HIDE DEF content
<1>4. pkg.wrapped_key \in Envelopes
  BY <1>1, <1>2 DEF Job, Envelopes
<1> QED  BY <1>1, <1>3, <1>4, SealingAssumption DEF Envelopes

\* What comes out of an envelope is bytes: the sender's key, when the package
\* is the sender's.
LEMMA OpenedKey ==
  ASSUME Job, Package, Arrival, Faults, Unwrappable(got.client, got.pkg.wrapped_key, got.me)
  PROVE  /\ got.pkg.wrapped_key.bytes \in Seq(Byte)
         /\ got.pkg = pkg /\ got.client # "adapter" => got.pkg.wrapped_key.bytes = job.key
<1>1. got.pkg.wrapped_key \in Envelopes
  <2>1. pkg.wrapped_key \in Envelopes
    BY EnvelopeIs
  <2> QED  BY <2>1 DEF Arrival, Faults, Unwrappable
<1>2. got.pkg.wrapped_key.bytes \in Seq(Byte)
  BY <1>1 DEF Envelopes
<1>3. got.pkg = pkg /\ got.client # "adapter" => got.pkg.wrapped_key.bytes = job.key
  BY EnvelopeIs DEF Arrival
<1> QED  BY <1>2, <1>3

\* The adapter never gets a key and an iv of sixteen bytes.
LEMMA AdapterRaises ==
  ASSUME NEW bytes \in Seq(Byte), NEW ciphertext, got.client = "adapter"
  PROVE  ArgumentsRaise(Unwrapped(bytes).key, Unwrapped(bytes).iv, ciphertext)
<1>1. Len(bytes) \in Nat
  BY LenProperties
<1>2. CASE Len(bytes) <= 32
  <2>1. Unwrapped(bytes).iv = <<>>
    BY <1>2 DEF Unwrapped
  <2> QED  BY <2>1 DEF ArgumentsRaise
<1>3. CASE ~(Len(bytes) <= 32)
  <2>1. Unwrapped(bytes).key = SubSeq(bytes, 1, 32)
    BY <1>3 DEF Unwrapped
  <2>2. Len(SubSeq(bytes, 1, 32)) = 32
    BY <1>1, <1>3, SubSeqProperties
  <2> QED  BY <2>1, <2>2 DEF ArgumentsRaise
<1> QED  BY <1>2, <1>3

LEMMA IntactOpens ==
  ASSUME Job, Package, Arrival, got.pkg = pkg, got.me = job.to,
         Scheme(got.client) = Scheme(job.client)
  PROVE  Unwrappable(got.client, got.pkg.wrapped_key, got.me)
BY EnvelopeIs DEF Unwrappable, Package, Wrappable

\* What the loops do to a block that arrived intact.
LEMMA IntactBlock ==
  ASSUME Job, Package, Decrypting, BlockCipher, key = job.key,
         NEW n \in Nat, n % 16 = 0, n + 16 <= offset, ArrivedIntact(n)
  PROVE  BlockAt(out, n) = BlockAt(padded, n)
<1> DEFINE sealed == pkg.ciphertext
           clear == BlockAt(padded, n)
           prior == Prior(job.iv, sealed, n)
<1>1. /\ n + 16 <= Len(sealed) /\ BlockAt(got.pkg.ciphertext, n) = BlockAt(sealed, n)
      /\ Prior(got.pkg.iv, got.pkg.ciphertext, n) = prior
  BY DEF ArrivedIntact, Before, Prior, Package
<1>2. /\ sealed \in Seq(Byte) /\ Len(sealed) \in Nat
      /\ EncryptedTo(Len(sealed), job.key, job.iv, padded, sealed)
      /\ Len(sealed) <= Len(padded) /\ padded \in Seq(Byte) /\ Len(padded) \in Nat
  BY BufferIs DEF Package, Job
<1>3. clear \in Block
  BY <1>1, <1>2, BlockAtType
<1>4. prior \in Block
  <2>1. n <= Len(sealed)
    BY <1>1, <1>2
  <2> QED  BY <1>2, <2>1, PriorType DEF Job
<1>5. BlockAt(sealed, n) = EncryptBlock(job.key, XorBlock(clear, prior))
  BY <1>1, <1>2 DEF EncryptedTo
<1>6. BlockAt(out, n) = XorBlock(DecryptBlock(job.key, BlockAt(sealed, n)), prior)
  BY <1>1 DEF Decrypting, DecryptedTo
<1> HIDE DEF sealed, clear, prior
<1>7. DecryptBlock(job.key, EncryptBlock(job.key, XorBlock(clear, prior))) = XorBlock(clear, prior)
  BY <1>3, <1>4, XorBlockType DEF BlockCipher, Job
<1>8. BlockAt(out, n) = clear
  BY <1>3, <1>4, <1>5, <1>6, <1>7, XorBlockCancels
<1> QED  BY <1>8 DEF clear

\* When the loop is done, what arrived intact from block m on is what was
\* padded from there on.
LEMMA IntactBytes ==
  ASSUME Job, Package, Decrypting, BlockCipher, key = job.key, offset = Len(out),
         NEW m \in Nat, m % 16 = 0,
         \A n \in Nat : n % 16 = 0 /\ m <= n /\ n + 16 <= Len(out) => ArrivedIntact(n)
  PROVE  \A k \in m + 1 .. Len(out) : out[k] = padded[k]
<1>1. out \in Seq(Byte) /\ Len(out) % 16 = 0
  BY DEF Decrypting, LoopAt
<1>2. \A n \in Nat : n % 16 = 0 /\ m <= n /\ n + 16 <= Len(out) => BlockAt(out, n) = BlockAt(padded, n)
  BY IntactBlock
<1> QED  BY <1>1, <1>2, BlocksAreAll

LEMMA IntactIsWhole ==
  ASSUME Job, Package, Decrypting, BlockCipher, key = job.key, offset = Len(out),
         got.pkg.ciphertext = pkg.ciphertext, got.pkg.iv = pkg.iv
  PROVE  out = pkcs7_pad(job.plain, 16).buf
<1> DEFINE buf == pkcs7_pad(job.plain, 16).buf
<1>1. buf \in Seq(Byte) /\ Len(buf) = PaddedLen(job.plain)
  BY PadIs DEF Job, PaddedLen
<1>2. out \in Seq(Byte) /\ Len(out) \in Nat /\ Len(out) = Len(pkg.ciphertext)
  BY DEF Decrypting, LoopAt
<1>3. Len(out) = PaddedLen(job.plain)
  BY <1>2 DEF Package
<1>4. \A n \in Nat : n + 16 <= Len(out) => ArrivedIntact(n)
  BY <1>2 DEF ArrivedIntact, Before
<1>5. \A k \in 1..Len(out) : out[k] = padded[k]
  <2>1. \A k \in 0 + 1 .. Len(out) : out[k] = padded[k]
    <3>1. 0 \in Nat /\ 0 % 16 = 0
      OBVIOUS
    <3>2. \A n \in Nat : n % 16 = 0 /\ 0 <= n /\ n + 16 <= Len(out) => ArrivedIntact(n)
      BY <1>4
    <3> QED  BY <3>1, <3>2, IntactBytes
  <2> QED  BY <2>1
<1>6. \A k \in 1..PaddedLen(job.plain) : padded[k] = buf[k]
  BY BufferIs DEF Job
<1> HIDE DEF buf
<1>7. out = buf
  BY <1>1, <1>2, <1>3, <1>5, <1>6, SeqEqual
<1> QED  BY <1>7 DEF buf

LEMMA DecryptInv ==
  ASSUME IInv, Faults, Decrypt
  PROVE  IInv'
<1> DEFINE ciphertext == got.pkg.ciphertext
           opened == Unwrapped(got.pkg.wrapped_key.bytes)
           opens == Unwrappable(got.client, got.pkg.wrapped_key, got.me)
           raises == ArgumentsRaise(opened.key, opened.iv, ciphertext)
<1>1. /\ pc = "unwrap" /\ UNCHANGED <<job, padded, pkg, got, verdict, result>>
      /\ ~opens => pc' = "refused" /\ UNCHANGED <<key, out, prev, offset>>
      /\ opens => key' = opened.key
      /\ opens /\ raises => pc' = "refused" /\ UNCHANGED <<out, prev, offset>>
      /\ opens /\ ~raises => /\ pc' = "decrypting" /\ out' = Zeros(Len(ciphertext))
                             /\ prev' = opened.iv /\ offset' = 0
  BY DEF Decrypt, sendVars, loopVars
<1>2. BasicTypes /\ Job /\ Package /\ Arrival
  BY <1>1 DEF IInv, JobInv, PkgInv, GotInv, Sent, Arrived
<1>3. /\ verdict \in BOOLEAN \cup {None}
      /\ verdict = TRUE => verify_file(ciphertext, got.pkg.signature, got.pub)
  BY <1>1 DEF IInv, VerdictInv, Sent, Arrived
<1>4. ciphertext \in Seq(Byte) /\ got.pkg.iv \in Seq(Byte)
  <2>1. pkg.ciphertext \in Seq(Byte) /\ pkg.iv \in Seq(Byte)
    BY <1>2, BlocksAreSequences DEF Package, Job
  <2> QED  BY <1>2, <2>1 DEF Arrival, Faults
<1>5. ASSUME opens, ~raises
      PROVE  /\ got.client # "adapter" /\ opened.iv = got.pkg.iv /\ got.pkg.iv \in Block
             /\ opened.key \in Block /\ (got.pkg = pkg => opened.key = job.key)
             /\ Len(ciphertext) # 0 /\ Len(ciphertext) % 16 = 0 /\ Len(ciphertext) \in Nat
  <2>1. Len(opened.key) = 16 /\ Len(opened.iv) = 16 /\ Len(ciphertext) # 0 /\ Len(ciphertext) % 16 = 0
    BY <1>5 DEF ArgumentsRaise
  <2>2. /\ got.pkg.wrapped_key.bytes \in Seq(Byte)
        /\ got.pkg = pkg /\ got.client # "adapter" => got.pkg.wrapped_key.bytes = job.key
    BY <1>2, <1>5, OpenedKey
  <2>3. got.client # "adapter"
    BY <1>5, <2>2, AdapterRaises
  <2>4. opened.key = got.pkg.wrapped_key.bytes /\ opened.iv = got.pkg.iv
    BY <2>3 DEF Unwrapped
  <2>5. got.pkg.iv \in Block /\ opened.key \in Block
    BY <1>4, <2>1, <2>2, <2>4, BlocksAreSequences
  <2>6. Len(ciphertext) \in Nat
    BY <1>4, LenProperties
  <2> HIDE DEF ciphertext, opened
  <2> QED  BY <2>1, <2>2, <2>3, <2>4, <2>5, <2>6
<1>6. pc' \in {"refused", "decrypting"}
  BY <1>1
<1>7. Job' /\ Package' /\ Arrival'
  BY <1>1, <1>2 DEF Job, Package, Arrival, EncryptedTo
<1>8. JobInv' /\ PkgInv' /\ GotInv' /\ EncInv' /\ OpenedInv'
  BY <1>6, <1>7 DEF JobInv, PkgInv, GotInv, EncInv, OpenedInv, Sent, Arrived
<1>9. VerdictInv'
  BY <1>1, <1>3, <1>6 DEF VerdictInv, verify_file, Arrived, Sent
<1>10. CASE opens /\ ~raises
  <2>1. Zeros(Len(ciphertext)) \in Seq(Byte) /\ Len(Zeros(Len(ciphertext))) = Len(ciphertext)
    BY <1>5, <1>10, ZerosType
  <2> HIDE DEF opened, opens, raises
  <2>2. pc' = "decrypting" /\ got.pkg.ciphertext' = ciphertext
    BY <1>1, <1>10
  <2>3. LoopAt(out)' /\ Len(out)' = Len(got.pkg.ciphertext)'
    <3> HIDE DEF ciphertext
    <3>1. out' = Zeros(Len(ciphertext)) /\ offset' = 0
      BY <1>1, <1>10
    <3>2. out' \in Seq(Byte) /\ Len(out') = Len(ciphertext)
      BY <2>1, <3>1
    <3>3. 0 \in Nat /\ 0 % 16 = 0 /\ 0 <= Len(ciphertext)
      BY <1>5, <1>10
    <3> QED  BY <1>5, <1>10, <2>2, <3>1, <3>2, <3>3 DEF LoopAt
  <2>4. prev' = Prior(got.pkg.iv, got.pkg.ciphertext, offset)'
    BY <1>1, <1>5, <1>10 DEF Prior
  <2>5. DecryptedTo(offset, key, got.pkg.iv, got.pkg.ciphertext, out)'
    BY <1>1, <1>10 DEF DecryptedTo
  <2>6. Decrypting'
    BY <1>1, <1>4, <1>5, <1>10, <2>3, <2>4, <2>5 DEF Decrypting
  <2>7. BasicTypes'
    BY <1>1, <1>2, <1>5, <1>10, <2>1 DEF BasicTypes, PCs
  <2>8. DecInv' /\ RoundTrip'
    BY <2>2, <2>6 DEF DecInv, RoundTrip, Done
  <2> QED  BY <1>8, <1>9, <2>7, <2>8 DEF IInv
<1>11. CASE ~opens \/ raises
  <2>1. pc' = "refused" /\ UNCHANGED <<out, prev, offset>>
    BY <1>1, <1>11
  <2>2. BasicTypes' /\ DecInv'
    BY <1>1, <1>2, <2>1 DEF BasicTypes, DecInv, Decrypted, PCs
  <2>3. ASSUME got.pkg = pkg, got.me = job.to, Scheme(got.client) = Scheme(job.client),
               got.client # "adapter"
        PROVE  FALSE
    <3>1. opens
      BY <1>2, <2>3, IntactOpens
    <3>2. opened.key = job.key /\ opened.iv = job.iv
      BY <1>2, <2>3, <3>1, OpenedKey DEF Unwrapped, Package
    <3>3. Len(job.key) = 16 /\ Len(job.iv) = 16
      BY <1>2, BlocksAreSequences DEF Job
    <3>4. Len(ciphertext) # 0 /\ Len(ciphertext) % 16 = 0
      <4>1. PaddedLen(job.plain) \in Nat /\ PaddedLen(job.plain) >= 16 /\ PaddedLen(job.plain) % 16 = 0
        BY <1>2, BufferIs DEF Job
      <4>2. Len(ciphertext) = PaddedLen(job.plain)
        BY <1>2, <2>3 DEF Package
      <4> QED  BY <4>1, <4>2
    <3>5. ~raises
      BY <3>2, <3>3, <3>4 DEF ArgumentsRaise
    <3> QED  BY <1>11, <3>1, <3>5
  <2>4. RoundTrip'
    BY <1>1, <2>1, <2>3 DEF RoundTrip, Scheme
  <2> QED  BY <1>8, <1>9, <2>2, <2>4 DEF IInv
<1> QED  BY <1>10, <1>11

LEMMA DecryptTurnInv ==
  ASSUME IInv, BlockCipher, DecryptTurn
  PROVE  IInv'
<1> DEFINE ciphertext == got.pkg.ciphertext
           block == BlockAt(ciphertext, offset)
           clear == XorBlock(DecryptBlock(key, block), prev)
<1>1. /\ pc = "decrypting" /\ offset < Len(out) /\ pc' = "decrypting"
      /\ out' = Written(out, offset, clear) /\ prev' = block /\ offset' = offset + 16
      /\ UNCHANGED <<job, padded, pkg, got, key, verdict, result>>
  BY DEF DecryptTurn, sendVars
<1>2. BasicTypes /\ Job /\ Package /\ Arrival /\ Decrypting
  BY <1>1 DEF IInv, JobInv, PkgInv, GotInv, DecInv, Sent, Arrived, Decrypted
<1>3. /\ out \in Seq(Byte) /\ Len(out) % 16 = 0 /\ Len(out) # 0 /\ Len(out) \in Nat
      /\ offset \in Nat /\ offset % 16 = 0 /\ Len(out) = Len(ciphertext)
      /\ ciphertext \in Seq(Byte) /\ got.pkg.iv \in Block /\ key \in Block
      /\ prev = Prior(got.pkg.iv, ciphertext, offset)
      /\ DecryptedTo(offset, key, got.pkg.iv, ciphertext, out)
  <2>1. Len(out) \in Nat
    BY <1>2, LenProperties DEF BasicTypes
  <2> QED  BY <1>2, <2>1 DEF Decrypting, LoopAt, Job
<1>4. offset + 16 <= Len(out) /\ (offset + 16) % 16 = 0
  BY <1>1, <1>3, BlockToGo
<1>5. block \in Block
  BY <1>3, <1>4, BlockAtType
<1>6. clear \in Block
  <2>1. prev \in Block
    BY <1>1, <1>3, PriorType
  <2> QED  BY <1>3, <1>5, <2>1, XorBlockType DEF BlockCipher
<1>7. /\ DecryptedTo(offset + 16, key, got.pkg.iv, ciphertext, Written(out, offset, clear))
      /\ Prior(got.pkg.iv, ciphertext, offset + 16) = block
  BY <1>3, <1>4, <1>6, DecryptedFurther
<1> HIDE DEF ciphertext, block, clear
<1>8. Written(out, offset, clear) \in Seq(Byte) /\ Len(Written(out, offset, clear)) = Len(out)
  BY <1>3, <1>4, <1>6, WrittenType
<1>9. Decrypting'
  <2>1. LoopAt(out)' /\ Len(out)' = Len(got.pkg.ciphertext)'
    <3>1. out' \in Seq(Byte) /\ Len(out') = Len(out)
      BY <1>1, <1>8
    <3>2. got.pkg.ciphertext' = ciphertext
      BY <1>1 DEF ciphertext
    <3> QED  BY <1>1, <1>3, <1>4, <3>1, <3>2 DEF LoopAt
  <2>2. /\ prev' = Prior(got.pkg.iv, got.pkg.ciphertext, offset)'
        /\ DecryptedTo(offset, key, got.pkg.iv, got.pkg.ciphertext, out)'
    BY <1>1, <1>7 DEF ciphertext
  <2> QED  BY <1>1, <1>2, <2>1, <2>2 DEF Decrypting
<1>10. Job' /\ Package' /\ Arrival'
  BY <1>1, <1>2 DEF Job, Package, Arrival, EncryptedTo
<1>11. BasicTypes'
  BY <1>1, <1>2, <1>3, <1>4, <1>5, <1>8 DEF BasicTypes
<1>12. JobInv' /\ PkgInv' /\ GotInv' /\ DecInv' /\ EncInv' /\ OpenedInv'
  BY <1>1, <1>9, <1>10 DEF JobInv, PkgInv, GotInv, DecInv, EncInv, OpenedInv, Sent, Arrived
<1>13. VerdictInv' /\ RoundTrip'
  BY <1>1 DEF IInv, VerdictInv, RoundTrip, Done, verify_file
<1> QED  BY <1>11, <1>12, <1>13 DEF IInv

LEMMA UnpadType ==
  ASSUME NEW s \in Seq(Byte), ~(pkcs7_unpad(s, 16).len < 0)
  PROVE  /\ pkcs7_unpad(s, 16).len \in 0..Len(s)
         /\ pkcs7_unpad(s, 16).buf = SubSeq(s, 1, pkcs7_unpad(s, 16).len)
         /\ pkcs7_unpad(s, 16).buf \in Seq(Byte)
<1>1. UnpadAccepts(s)
  BY UnpadIs DEF Failed
<1> DEFINE n == Len(s) - s[Len(s)]
<1>2. n \in 0..Len(s)
  BY <1>1, AcceptedIsPadded
<1>3. pkcs7_unpad(s, 16).len = n /\ pkcs7_unpad(s, 16).buf = SubSeq(s, 1, n)
  BY <1>1, UnpadIs
<1> HIDE DEF n
<1>4. SubSeq(s, 1, n) \in Seq(Byte)
  BY <1>2, SubSeqProperties
<1> QED  BY <1>2, <1>3, <1>4

LEMMA UnpadInv ==
  ASSUME IInv, BlockCipher, Unpad
  PROVE  IInv'
<1> DEFINE unpadded == pkcs7_unpad(out, 16)
           dropped == unpadded.len < 0 \/ (got.client = "chat" /\ unpadded.buf # job.plain)
<1>1. /\ pc = "decrypting" /\ offset >= Len(out)
      /\ UNCHANGED <<job, padded, pkg, out, prev, offset, got, key>>
      /\ dropped => pc' = "refused" /\ UNCHANGED <<verdict, result>>
      /\ ~dropped => /\ pc' = "opened" /\ result' = unpadded.buf
                     /\ verdict' = IF got.client # "chat" THEN verdict
                                   ELSE verify_file(got.pkg.ciphertext, got.pkg.signature, got.pub)
  BY DEF Unpad, sendVars, loopVars
<1>2. BasicTypes /\ Job /\ Package /\ Arrival /\ Decrypting
  BY <1>1 DEF IInv, JobInv, PkgInv, GotInv, DecInv, Sent, Arrived, Decrypted
<1>3. /\ verdict \in BOOLEAN \cup {None}
      /\ verdict = TRUE => verify_file(got.pkg.ciphertext, got.pkg.signature, got.pub)
  BY <1>1 DEF IInv, VerdictInv, Sent, Arrived
<1>4. offset = Len(out) /\ out \in Seq(Byte) /\ got.client # "adapter"
  <2>1. Len(out) \in Nat
    BY <1>2, LenProperties DEF BasicTypes
  <2> QED  BY <1>1, <1>2, <2>1 DEF Decrypting, LoopAt
<1>5. ASSUME got.pkg = pkg
      PROVE  ~dropped /\ unpadded.buf = job.plain
  <2>1. out = pkcs7_pad(job.plain, 16).buf
    <3>1. key = job.key
      BY <1>2, <1>5 DEF Decrypting
    <3> QED  BY <1>2, <1>4, <1>5, <3>1, IntactIsWhole
  <2>2. unpadded.len = Len(job.plain) /\ unpadded.buf = job.plain
    BY <1>2, <2>1, UnpadPad DEF Job
  <2>3. Len(job.plain) \in Nat
    BY <1>2, LenProperties DEF Job
  <2> HIDE DEF unpadded
  <2>4. ~(unpadded.len < 0)
    BY <2>2, <2>3
  <2> QED  BY <2>2, <2>4
<1>6. pc' \in {"refused", "opened"}
  BY <1>1
<1>7. Job' /\ Package' /\ Arrival' /\ Decrypting'
  BY <1>1, <1>2 DEF Job, Package, Arrival, EncryptedTo, Decrypting, LoopAt, DecryptedTo
<1>8. JobInv' /\ PkgInv' /\ GotInv' /\ DecInv' /\ EncInv'
  BY <1>6, <1>7 DEF JobInv, PkgInv, GotInv, DecInv, EncInv, Sent, Arrived
<1>9. CASE dropped
  <2>1. pc' = "refused" /\ UNCHANGED <<verdict, result>>
    BY <1>1, <1>9
  <2>2. BasicTypes' /\ OpenedInv' /\ VerdictInv'
    BY <1>1, <1>2, <1>3, <2>1 DEF BasicTypes, OpenedInv, VerdictInv, PCs, Arrived, Sent
  <2>3. RoundTrip'
    BY <1>1, <1>5, <1>9 DEF RoundTrip
  <2> QED  BY <1>8, <2>2, <2>3 DEF IInv
<1>10. CASE ~dropped
  <2>1. ~(unpadded.len < 0)
    BY <1>10
  <2>2. unpadded.buf \in Seq(Byte)
    BY <1>4, <2>1, UnpadType
  <2> HIDE DEF unpadded, dropped
  <2>3. /\ pc' = "opened" /\ result' = unpadded.buf
        /\ verdict' = IF got.client # "chat" THEN verdict
                      ELSE verify_file(got.pkg.ciphertext, got.pkg.signature, got.pub)
    BY <1>1, <1>10
  <2>4. BasicTypes'
    BY <1>1, <1>2, <2>2, <2>3 DEF BasicTypes, PCs
  <2>5. OpenedInv'
    <3>1. pkcs7_unpad(out, 16)' = unpadded
      BY <1>1 DEF unpadded
    <3> QED  BY <1>1, <1>4, <2>1, <2>3, <3>1 DEF OpenedInv
  <2>6. VerdictInv'
    <3>1. verify_file(got.pkg.ciphertext, got.pkg.signature, got.pub) \in BOOLEAN
      BY DEF verify_file
    <3>2. verdict' \in BOOLEAN \cup {None}
      BY <1>3, <2>3, <3>1
    <3>3. verdict' = TRUE => verify_file(got.pkg.ciphertext, got.pkg.signature, got.pub)'
      BY <1>1, <1>3, <2>3 DEF verify_file
    <3> QED  BY <2>3, <3>2, <3>3 DEF VerdictInv, Arrived, Sent
  <2>7. RoundTrip'
    BY <1>1, <1>4, <1>5, <2>3 DEF RoundTrip
  <2> QED  BY <1>8, <2>4, <2>5, <2>6, <2>7 DEF IInv
<1> QED  BY <1>9, <1>10

LEMMA StutterInv ==
  ASSUME IInv, UNCHANGED vars
  PROVE  IInv'
<1>1. UNCHANGED <<pc, job, padded, pkg, out, prev, offset, got, key, verdict, result>>
  BY DEF vars, sendVars, loopVars
<1>2. BasicTypes' /\ JobInv' /\ EncInv'
  BY <1>1 DEF IInv, BasicTypes, JobInv, Job, EncInv, Encrypting, LoopAt, EncryptedTo
<1>3. PkgInv' /\ GotInv' /\ DecInv'
  BY <1>1 DEF IInv, PkgInv, Package, EncryptedTo, GotInv, Arrival, DecInv, Decrypting, LoopAt, DecryptedTo
<1>4. VerdictInv' /\ OpenedInv'
  BY <1>1 DEF IInv, VerdictInv, OpenedInv, verify_file
<1>5. RoundTrip'
  BY <1>1 DEF IInv, RoundTrip, Done
<1> QED  BY <1>2, <1>3, <1>4, <1>5 DEF IInv

LEMMA NextInv ==
  ASSUME BlockCipher, Faults, IInv, [Next]_vars
  PROVE  IInv'
<1>1. CASE UNCHANGED vars
  BY <1>1, StutterInv
<1>2. ASSUME NEW client \in Clients, NEW to \in Recipients, NEW signer \in Senders \cup {None},
             NEW plain \in Inputs, NEW k \in Keys, NEW iv \in IVs,
             Encrypt(client, to, signer, plain, k, iv)
      PROVE  IInv'
  BY <1>2, EncryptInv
<1>3. CASE EncryptTurn
  BY <1>3, EncryptTurnInv
<1>4. CASE Seal
  BY <1>4, SealInv
<1>5. ASSUME NEW client \in Clients, NEW me \in Recipients, NEW pub \in Senders \cup {None},
             Arrive(client, me, pub)
      PROVE  IInv'
  BY <1>5, ArriveInv
<1>6. CASE VerifyFirst
  BY <1>6, VerifyFirstInv
<1>7. CASE Decrypt
  BY <1>7, DecryptInv
<1>8. CASE DecryptTurn
  BY <1>8, DecryptTurnInv
<1>9. CASE Unpad
  BY <1>9, UnpadInv
<1> QED  BY <1>1, <1>2, <1>3, <1>4, <1>5, <1>6, <1>7, <1>8, <1>9 DEF Next

LEMMA Invariance ==
  ASSUME BlockCipher, Faults
  PROVE  Spec => []IInv
<1>1. Init => IInv
  BY InitInv
<1>2. IInv /\ [Next]_vars => IInv'
  BY NextInv
<1> QED  BY <1>1, <1>2, PTL DEF Spec

\* With the sender's key and ciphertext, a foreign iv changes the first block
\* and, if that is the last one, the length.
LEMMA FirstBlockOnly ==
  ASSUME Job, Package, Decrypting, BlockCipher, key = job.key, offset = Len(out),
         got.pkg.ciphertext = pkg.ciphertext,
         ~(pkcs7_unpad(out, 16).len < 0), result = pkcs7_unpad(out, 16).buf
  PROVE  /\ Len(job.plain) >= 16 => Len(result) = Len(job.plain)
         /\ \A n \in DOMAIN result :
              n > 16 => n \in DOMAIN job.plain /\ result[n] = job.plain[n]
<1> DEFINE p == job.plain
           v == PadVal(Len(p))
           buf == pkcs7_pad(p, 16).buf
<1>1. p \in Seq(Byte) /\ Len(p) \in Nat /\ v \in 1..16
  BY LenProperties, PadValRange DEF Job
<1>2. /\ out \in Seq(Byte) /\ Len(out) \in Nat /\ Len(out) # 0
      /\ Len(pkg.ciphertext) = Len(out)
  BY LenProperties DEF Decrypting, LoopAt
<1>3. Len(out) = Len(p) + v /\ Len(out) = PaddedLen(p)
  BY <1>1, <1>2, PadIs DEF Package, PaddedLen
<1>4. \A k \in 17..Len(out) : out[k] = buf[k]
  <2>1. ASSUME NEW n \in Nat, n % 16 = 0, 16 <= n, n + 16 <= Len(out)
        PROVE  ArrivedIntact(n)
    BY <1>2, <2>1 DEF ArrivedIntact, Before
  <2>2. 16 \in Nat /\ 16 % 16 = 0 /\ 16 + 1 = 17
    OBVIOUS
  <2>3. \A k \in 16 + 1 .. Len(out) : out[k] = padded[k]
    BY <2>1, <2>2, IntactBytes
  <2>4. \A k \in 1..Len(out) : padded[k] = buf[k]
    BY <1>1, <1>3, BufferIs DEF Job
  <2> QED  BY <2>2, <2>3, <2>4
<1>5. \A k \in 1..Len(out) : buf[k] = IF k <= Len(p) THEN p[k] ELSE v
  BY <1>1, <1>3, PadIs
<1> DEFINE w == out[Len(out)]
           n == Len(out) - w
<1>6. UnpadAccepts(out)
  BY <1>2, UnpadIs DEF Failed
<1>7. w \in 1..16 /\ n \in 0..Len(out) /\ result = SubSeq(out, 1, n)
  <2>1. w \in 1..16
    BY <1>6 DEF UnpadAccepts
  <2>2. n \in 0..Len(out)
    BY <1>2, <1>6, AcceptedIsPadded
  <2> QED  BY <1>2, <1>6, <2>1, <2>2, UnpadIs
<1> HIDE DEF w
<1>8. Len(result) = n /\ \A k \in 1..n : result[k] = out[k]
  <2> HIDE DEF n
  <2> QED  BY <1>2, <1>7, SubSeqProperties
<1>9. DOMAIN result = 1..n
  <2>1. result \in Seq(Byte)
    BY <1>2, UnpadType
  <2> QED  BY <1>8, <2>1, LenProperties
<1> HIDE DEF v, buf, p, n
<1>10. CASE Len(p) >= 16
  <2>1. Len(out) \in 17..Len(out) /\ Len(out) \in 1..Len(out) /\ ~(Len(out) <= Len(p))
    BY <1>1, <1>2, <1>3, <1>10
  <2>2. w = v
    BY <1>4, <1>5, <2>1 DEF w
  <2>3. n = Len(p)
    BY <1>1, <1>3, <2>2 DEF n
  <2>4. ASSUME NEW k \in DOMAIN result, k > 16
        PROVE  k \in DOMAIN p /\ result[k] = p[k]
    <3>1. k \in 1..n /\ k \in 17..Len(out) /\ k \in 1..Len(out) /\ k <= Len(p)
      BY <1>1, <1>2, <1>3, <1>9, <2>3, <2>4
    <3>2. k \in DOMAIN p
      BY <1>1, <2>3, <3>1
    <3> QED  BY <1>4, <1>5, <1>8, <3>1, <3>2
  <2> QED  BY <1>8, <2>3, <2>4 DEF p
<1>11. CASE Len(p) < 16
  <2>1. Len(out) = 16
    <3>1. Len(p) % 16 = Len(p)
      BY <1>1, <1>11
    <3>2. v = 16 - Len(p)
      BY <3>1 DEF v, PadVal
    <3> QED  BY <1>1, <1>3, <3>2
  <2>2. n < 16
    BY <1>7, <2>1 DEF n
  <2>3. \A k \in DOMAIN result : ~(k > 16)
    BY <1>7, <1>9, <2>2
  <2>4. ~(Len(p) >= 16)
    BY <1>1, <1>11
  <2> QED  BY <2>3, <2>4 DEF p
<1> QED  BY <1>1, <1>10, <1>11

-----------------------------------------------------------------------------
(***************************************************************************)
(* The theorems                                                            *)
(***************************************************************************)

(* The buffers of AESWrapper hold bytes, and its keys, ivs and offsets are *)
(* whole blocks in every loop of aes128.c.                                 *)
THEOREM TypeCorrect ==
  ASSUME BlockCipher, Faults
  PROVE  Spec => []TypeOK
<1>1. IInv => TypeOK
  <2> SUFFICES ASSUME IInv PROVE TypeOK
    OBVIOUS
  <2>1. BasicTypes /\ verdict \in BOOLEAN \cup {None}
    BY DEF IInv, VerdictInv
  <2>2. ASSUME pc \in {"encrypting", "decrypting"}
        PROVE  prev \in Block /\ job.key \in Block /\ (pc = "decrypting" => key \in Block)
    <3>1. Job
      BY <2>2 DEF IInv, JobInv, Sent
    <3>2. CASE pc = "encrypting"
      <4>1. Encrypting
        BY <3>2 DEF IInv, EncInv
      <4>2. Len(out) \in Nat /\ offset <= Len(out) /\ offset \in Nat /\ offset % 16 = 0
        BY <4>1, LenProperties DEF Encrypting, LoopAt
      <4> QED  BY <3>1, <3>2, <4>1, <4>2, PriorType DEF Job, Encrypting, LoopAt
    <3>3. CASE pc = "decrypting"
      <4>1. Decrypting
        BY <3>3 DEF IInv, DecInv, Decrypted
      <4>2. offset <= Len(got.pkg.ciphertext) /\ offset \in Nat /\ offset % 16 = 0
        BY <4>1 DEF Decrypting, LoopAt
      <4> QED  BY <3>1, <4>1, <4>2, PriorType DEF Job, Decrypting
    <3> QED  BY <2>2, <3>2, <3>3
  <2> QED  BY <2>1, <2>2 DEF TypeOK, BasicTypes
<1> QED  BY <1>1, Invariance, PTL

(* aes128_cbc_encrypt and aes128_cbc_decrypt stay inside their buffers,    *)
(* whatever the length of the data.                                        *)
THEOREM LoopsAreSafe ==
  ASSUME BlockCipher, Faults
  PROVE  Spec => []LoopsStayInside
<1>1. IInv => LoopsStayInside
  <2> SUFFICES ASSUME IInv PROVE LoopsStayInside
    OBVIOUS
  <2>1. ASSUME LoopAt(out), offset < Len(out)
        PROVE  offset + 16 <= Len(out)
    BY <2>1, LenProperties, BlockToGo DEF LoopAt
  <2>2. ASSUME pc = "encrypting", offset < Len(out)
        PROVE  offset + 16 <= Len(out) /\ offset + 16 <= Len(padded)
    <3>1. Job /\ Encrypting
      BY <2>2 DEF IInv, JobInv, EncInv
    <3>2. offset + 16 <= Len(out) /\ Len(out) = PaddedLen(job.plain) /\ offset \in Nat
      BY <2>1, <2>2, <3>1 DEF Encrypting, LoopAt
    <3>3. PaddedLen(job.plain) \in Nat /\ PaddedLen(job.plain) <= Len(padded) /\ padded \in Seq(Byte)
      BY <3>1, BufferIs DEF Job
    <3>4. Len(padded) \in Nat
      BY <3>3, LenProperties
    <3> QED  BY <3>2, <3>3, <3>4
  <2>3. ASSUME pc = "decrypting", offset < Len(out)
        PROVE  offset + 16 <= Len(out) /\ Len(out) = Len(got.pkg.ciphertext)
    <3>1. Decrypting
      BY <2>3 DEF IInv, DecInv, Decrypted
    <3> QED  BY <2>1, <2>3, <3>1 DEF Decrypting
  <2> QED  BY <2>2, <2>3 DEF LoopsStayInside
<1> QED  BY <1>1, Invariance, PTL

(* pkcs7_unpad accepts exactly the data that pkcs7_pad can have made.      *)
THEOREM UnpadIsExact ==
  ASSUME BlockCipher, Faults
  PROVE  Spec => []UnpadExact
<1>1. IInv => UnpadExact
  BY UnpadInverts DEF IInv, BasicTypes, UnpadExact
<1> QED  BY <1>1, Invariance, PTL

(* What is sealed opens: encrypt, wrap, unwrap and decrypt compose to the  *)
(* identity for every plaintext, key and iv.                               *)
THEOREM SealedDataOpens ==
  ASSUME BlockCipher, Faults
  PROVE  Spec => []RoundTrip
<1>1. IInv => RoundTrip
  BY DEF IInv
<1> QED  BY <1>1, Invariance, PTL

(* Damage to a package stays in the blocks it hits and their successors,   *)
(* as long as the key is the sender's.                                     *)
THEOREM DamageStaysLocal ==
  ASSUME BlockCipher, Faults
  PROVE  Spec => []DamageIsLocal
<1>1. ASSUME BlockCipher, IInv PROVE DamageIsLocal
  <2> SUFFICES ASSUME pc = "decrypting", key = job.key,
                      NEW n \in 0..offset, n % 16 = 0, n < offset, ArrivedIntact(n)
               PROVE  BlockAt(out, n) = BlockAt(padded, n)
    BY DEF DamageIsLocal
  <2>1. Job /\ Package /\ Decrypting
    BY <1>1 DEF IInv, JobInv, PkgInv, DecInv, Sent, Decrypted
  <2>2. offset \in Nat /\ offset % 16 = 0 /\ n \in Nat
    BY <2>1 DEF Decrypting, LoopAt
  <2>3. n + 16 <= offset
    BY <2>2, BlockToGo
  <2> QED  BY <1>1, <2>1, <2>2, <2>3, IntactBlock
<1> QED  BY <1>1, Invariance, PTL

(* A signature found to be the sender's vouches for the ciphertext, with   *)
(* the sender's key for what follows the first block, and with key and iv  *)
(* for all that was sealed - whatever others put into the package.         *)
THEOREM SignaturesVouch ==
  ASSUME BlockCipher, Faults
  PROVE  Spec => []SignatureCovers
<1>1. ASSUME BlockCipher, Faults, IInv PROVE SignatureCovers
  <2> SUFFICES ASSUME VerifiedAndOpened
               PROVE  /\ got.pkg.ciphertext = pkg.ciphertext
                      /\ key = job.key =>
                           /\ Len(job.plain) >= 16 => Len(result) = Len(job.plain)
                           /\ \A n \in DOMAIN result :
                                n > 16 => n \in DOMAIN job.plain /\ result[n] = job.plain[n]
                           /\ got.pkg.iv = pkg.iv => result = job.plain
    BY DEF SignatureCovers
  <2>1. Job /\ Package /\ Arrival /\ Decrypting
    BY <1>1 DEF IInv, JobInv, PkgInv, GotInv, DecInv, Sent, Arrived, Decrypted, VerifiedAndOpened
  <2>2. /\ offset = Len(out) /\ ~(pkcs7_unpad(out, 16).len < 0) /\ result = pkcs7_unpad(out, 16).buf
        /\ verify_file(got.pkg.ciphertext, got.pkg.signature, job.signer)
    BY <1>1 DEF IInv, OpenedInv, VerdictInv, Sent, Arrived, VerifiedAndOpened
  <2>3. got.pkg.ciphertext = pkg.ciphertext
    <3>1. job.signer # None
      BY SealingAssumption DEF VerifiedAndOpened, Pairs
    <3>2. pkg.signature = [signer |-> job.signer, data |-> pkg.ciphertext]
      BY <2>1, <3>1 DEF Package, sign_file
    <3>3. pkg.signature # None
      BY <2>1, <3>2, SealingAssumption DEF Package, VerifiedAndOpened
    <3> QED  BY <1>1, <2>1, <2>2, <3>2, <3>3 DEF Arrival, Faults, verify_file
  <2>4. ASSUME key = job.key
        PROVE  /\ Len(job.plain) >= 16 => Len(result) = Len(job.plain)
               /\ \A n \in DOMAIN result :
                    n > 16 => n \in DOMAIN job.plain /\ result[n] = job.plain[n]
    BY <1>1, <2>1, <2>2, <2>3, <2>4, FirstBlockOnly
  <2>5. ASSUME key = job.key, got.pkg.iv = pkg.iv
        PROVE  result = job.plain
    <3>1. out = pkcs7_pad(job.plain, 16).buf
      BY <1>1, <2>1, <2>2, <2>3, <2>5, IntactIsWhole
    <3> QED  BY <2>1, <2>2, <3>1, UnpadPad DEF Job
  <2> QED  BY <2>3, <2>4, <2>5
<1> QED  BY <1>1, Invariance, PTL

=============================================================================
