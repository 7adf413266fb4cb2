------------------------------ MODULE KeyText ------------------------------
(***************************************************************************)
(* How contracts/dPKIRegistry.sol reads the text of an RSA public key and  *)
(* checks the opened proof of possession: the functions behind             *)
(* KeyRegistry's predicate ProofHolds, with no state of their own.         *)
(*                                                                         *)
(* A function that may revert is the set of what it returns: one value, or *)
(* none when it reverts - by an error of its own, by an index outside of   *)
(* an array, or by an underflow.  Texts and DER are sequences of byte      *)
(* values; offsets count from 0 as in the contract.                        *)
(***************************************************************************)
EXTENDS Integers, Sequences, FiniteSets

ByteAt(data, offset) == data[offset + 1]
Slice(data, first, after) == SubSeq(data, first + 1, after)

-----------------------------------------------------------------------------
(***************************************************************************)
(* PEM                                                                     *)
(***************************************************************************)

\* Where five dashes start; a text of less than five has no such place.
Dashes(text) ==
  {i \in 0..Len(text) - 5 : \A k \in 0..4 : ByteAt(text, i + k) = 45}

\* What is between the second and the third: the end of -----BEGIN X----- and
\* the start of -----END X-----.
Bodies(text) ==
  LET Before(i) == Cardinality({j \in Dashes(text) : j < i}) IN
  {Slice(text, p[1] + 5, p[2]) :
     p \in {q \in Dashes(text) \X Dashes(text) :
              Before(q[1]) = 1 /\ Before(q[2]) = 2 /\ q[1] + 5 < q[2]}}

-----------------------------------------------------------------------------
(***************************************************************************)
(* Base64                                                                  *)
(***************************************************************************)

IsBase64(c) == c \in 65..90 \cup 97..122 \cup 48..57 \cup {43, 47, 61}

b64Val(c) ==
  IF c \in 65..90 THEN c - 65
  ELSE IF c \in 97..122 THEN c - 71
  ELSE IF c \in 48..57 THEN c + 4
  ELSE IF c = 43 THEN 62
  ELSE IF c = 47 THEN 63
  ELSE 0

\* The bytes of clean characters, of which the last `padding` are no bytes:
\* four characters make 24 bits, and these three bytes.
Decoded(clean, padding) ==
  LET Bits(g) == 262144 * b64Val(clean[4 * g + 1]) + 4096 * b64Val(clean[4 * g + 2])
                   + 64 * b64Val(clean[4 * g + 3]) + b64Val(clean[4 * g + 4])
      Shift(k) == IF k = 0 THEN 65536 ELSE IF k = 1 THEN 256 ELSE 1
  IN  [n \in 1..3 * (Len(clean) \div 4) - padding |->
         (Bits((n - 1) \div 3) \div Shift((n - 1) % 3)) % 256]

\* Anything else - line ends, spaces - is skipped.
base64Decode(input) ==
  LET clean == SelectSeq(input, IsBase64)
      len == Len(clean)
      padding == Cardinality({k \in {0, 1} : len > k /\ clean[len - k] = 61})
  IN  IF len % 4 = 0 THEN {Decoded(clean, padding)} ELSE {}

-----------------------------------------------------------------------------
(***************************************************************************)
(* ASN.1 DER                                                               *)
(***************************************************************************)

\* Mutant: the long form takes one byte of length, whatever it says.
ReadTagLengthShort(data, offset) ==
  IF offset + 1 >= Len(data) THEN {}
  ELSE LET first == ByteAt(data, offset + 1) IN
    IF first < 128 THEN {[next |-> offset + 2, len |-> first]}
    ELSE IF offset + 2 < Len(data)
    THEN {[next |-> offset + 3, len |-> ByteAt(data, offset + 2)]}
    ELSE {}

\* Where the content of the element at offset starts, and its length: in
\* the byte behind the tag, or in the one or two that byte announces.
readTagLength(data, offset) ==
  IF offset + 1 >= Len(data) THEN {}
  ELSE LET first == ByteAt(data, offset + 1) IN
    IF first < 128 THEN {[next |-> offset + 2, len |-> first]}
    ELSE IF first = 129 /\ offset + 2 < Len(data)
    THEN {[next |-> offset + 3, len |-> ByteAt(data, offset + 2)]}
    ELSE IF first = 130 /\ offset + 3 < Len(data)
    THEN {[next |-> offset + 4,
           len |-> 256 * ByteAt(data, offset + 2) + ByteAt(data, offset + 3)]}
    ELSE {}

Tagged(data, offset, tag) == offset < Len(data) /\ ByteAt(data, offset) = tag

Elements(data, offset, tag) ==
  IF Tagged(data, offset, tag) THEN readTagLength(data, offset) ELSE {}

\* The bytes of the INTEGER at offset, without the zero in front that keeps
\* it from being negative, and where it ends.
Integers(data, offset) ==
  {[bytes |-> Slice(data, IF ByteAt(data, h.next) = 0 /\ h.len > 0 THEN h.next + 1 ELSE h.next,
                    h.next + h.len),
    next |-> h.next + h.len] :
     h \in {g \in Elements(data, offset, 2) :
              g.next < Len(data) /\ g.next + g.len <= Len(data)}}

\* Where the two integers start: in the outer SEQUENCE of PKCS#1, or, when
\* an X.509 AlgorithmIdentifier comes first, in the SEQUENCE in the BIT STRING
\* behind it, whose first byte says how many bits are unused.
KeyStarts(der) ==
  LET Outer == {h.next : h \in {g \in readTagLength(der, 0) : g.next < Len(der)}}
      Behind(c) == {h.next + h.len : h \in readTagLength(der, c)}
      Inside(c) == {h.next + 1 : h \in Elements(der, c, 3)}
      Inner(c) == {h.next : h \in readTagLength(der, c)}
  IN  UNION {IF ByteAt(der, c) # 48 THEN {c}
             ELSE UNION {UNION {Inner(b) : b \in Inside(a)} : a \in Behind(c)} : c \in Outer}

extractRsaKey(der) ==
  UNION {UNION {{[modulus |-> m.bytes, exponent |-> e.bytes] : e \in Integers(der, m.next)} :
                m \in Integers(der, c)} : c \in KeyStarts(der)}

-----------------------------------------------------------------------------
(***************************************************************************)
(* The proof of possession                                                 *)
(***************************************************************************)

SHA256_PREFIX == <<48, 49, 48, 13, 6, 9, 96, 134, 72, 1, 101, 3, 4, 2, 1, 5, 0, 4, 32>>

tLen == Len(SHA256_PREFIX) + 32

\* Mutant: the byte that ends the padding is not looked at.
OpensUnterminated(em, digest) ==
  LET k == Len(em)
      psEnd == k - tLen - 1
  IN  /\ k >= 11 + tLen
      /\ ByteAt(em, 0) = 0 /\ ByteAt(em, 1) = 1
      /\ \A i \in 2..psEnd - 1 : ByteAt(em, i) = 255
      /\ \A i \in 0..Len(SHA256_PREFIX) - 1 : ByteAt(em, psEnd + 1 + i) = ByteAt(SHA256_PREFIX, i)
      /\ \A i \in 0..31 : ByteAt(em, psEnd + 1 + Len(SHA256_PREFIX) + i) = ByteAt(digest, i)

\* verifyRsaPkcs1v15 of a signature that opens to em: 00 01 FF .. FF 00, the
\* prefix, the digest.
OpensTo(em, digest) ==
  LET k == Len(em)
      psEnd == k - tLen - 1
  IN  /\ k >= 11 + tLen
      /\ ByteAt(em, 0) = 0 /\ ByteAt(em, 1) = 1
      /\ \A i \in 2..psEnd - 1 : ByteAt(em, i) = 255
      /\ ByteAt(em, psEnd) = 0
      /\ \A i \in 0..Len(SHA256_PREFIX) - 1 : ByteAt(em, psEnd + 1 + i) = ByteAt(SHA256_PREFIX, i)
      /\ \A i \in 0..31 : ByteAt(em, psEnd + 1 + Len(SHA256_PREFIX) + i) = ByteAt(digest, i)

-----------------------------------------------------------------------------
(***************************************************************************)
(* What the client's library writes: the standards, as reference.          *)
(***************************************************************************)

LengthOf(len) ==
  IF len < 128 THEN <<len>>
  ELSE IF len < 256 THEN <<129, len>>
  ELSE <<130, len \div 256, len % 256>>

Element(tag, content) == <<tag>> \o LengthOf(Len(content)) \o content

Unsigned(bytes) == Element(2, IF bytes[1] >= 128 THEN <<0>> \o bytes ELSE bytes)

Pkcs1(key) == Element(48, Unsigned(key.modulus) \o Unsigned(key.exponent))

\* rsaEncryption, and no parameters.
AlgorithmIdentifier == Element(48, <<6, 9, 42, 134, 72, 134, 247, 13, 1, 1, 1, 5, 0>>)

X509(key) == Element(48, AlgorithmIdentifier \o Element(3, <<0>> \o Pkcs1(key)))

Char64(v) ==
  IF v < 26 THEN v + 65 ELSE IF v < 52 THEN v + 71 ELSE IF v < 62 THEN v - 4
  ELSE IF v = 62 THEN 43 ELSE 47

\* Three bytes are 24 bits, and four characters; "=" where there is no byte.
Base64(der) ==
  LET len == Len(der)
      chars == 4 * ((len + 2) \div 3)
      Octet(n) == IF n <= len THEN der[n] ELSE 0
      Bits(g) == 65536 * Octet(3 * g + 1) + 256 * Octet(3 * g + 2) + Octet(3 * g + 3)
      Shift(k) == IF k = 0 THEN 262144 ELSE IF k = 1 THEN 4096 ELSE IF k = 2 THEN 64 ELSE 1
  IN  [n \in 1..chars |->
         IF n > chars - ((3 - (len % 3)) % 3) THEN 61
         ELSE Char64((Bits((n - 1) \div 4) \div Shift((n - 1) % 4)) % 64)]

\* Lines of 64 characters.
InLines(chars) ==
  LET len == Len(chars) + (Len(chars) + 63) \div 64 IN
  [n \in 1..len |-> IF n % 65 = 0 \/ n = len THEN 10 ELSE chars[n - (n \div 65)]]

\* A frame line; one letter stands for the words in it.
FrameLine(letter) == <<45, 45, 45, 45, 45, letter, 45, 45, 45, 45, 45, 10>>

PemOf(der) == FrameLine(66) \o InLines(Base64(der)) \o FrameLine(69)

\* RFC 8017, 9.2: the one message that proves the digest in k bytes.
EncodedMessage(k, digest) ==
  <<0, 1>> \o [i \in 1..k - tLen - 3 |-> 255] \o <<0>> \o SHA256_PREFIX \o digest

=============================================================================
