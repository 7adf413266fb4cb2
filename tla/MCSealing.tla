----------------------------- MODULE MCSealing -----------------------------
(***************************************************************************)
(* Sealing for TLC, with the block cipher of core/aes128.c and, to compare *)
(* it with, the cipher of FIPS 197.                                        *)
(***************************************************************************)
EXTENDS Sealing, AES128, FIPS197

\* The key and the block of FIPS 197, appendix C.1.
TestKey == [n \in 1..16 |-> n - 1]
TestBlock == [n \in 1..16 |-> 17 * (n - 1)]

ASSUME ReferenceMeetsItsVector ==
  Cipher(TestKey, TestBlock) =
    <<105, 196, 224, 216, 106, 123, 4, 48, 216, 205, 183, 128, 112, 180, 197, 90>>

\* Nothing, a byte, a byte less than a block (its last byte a 2, which a damaged iv
\* turns into padding of two), a block, and two blocks and a bit.
Text(n) == [k \in 1..n |-> IF k % 15 = 0 THEN 2 ELSE (7 * k) % 256]
MCInputs == {Text(n) : n \in {0, 1, 15, 16, 31, 33}}

\* One key, and one that no cipher takes.  The key that somebody else wraps: it
\* decrypts the last of 16 bytes' two blocks to something that ends in a padding.
OtherKey == [n \in 1..16 |-> 106 + n]
MCKeys == {TestKey, [n \in 1..15 |-> n]}
MCIVs == {[n \in 1..16 |-> 255 - n]}

MCSenders == {"alice.pem", "alice"}
MCRecipients == {"bob.pem", "bob", "carol"}
MCFormOf ==
  [p \in MCSenders \cup MCRecipients |->
     IF p \in {"alice.pem", "bob.pem"} THEN "pem" ELSE "hex"]

Changed(s, n, d) == [s EXCEPT ![n] = Xored(@, d)]

\* The pairs other than the signer's.
Others(p) == IF p.signature = None THEN MCSenders ELSE MCSenders \ {p.signature.signer}

\* The package as it was made, with one field changed, cut short or lost, with
\* a key that somebody else wrapped for its recipient, or with a ciphertext
\* that somebody else signed.
MCArrivals(p) ==
  LET len == Len(p.ciphertext)
      tampered == Changed(p.ciphertext, 1, 1)
  IN
  {p}
  \cup {[p EXCEPT !.iv = Changed(@, 16, d)] : d \in {1, 3, 16}}
  \cup {[p EXCEPT !.iv = SubSeq(@, 1, 15)], [p EXCEPT !.wrapped_key = None]}
  \cup {[p EXCEPT !.ciphertext = Changed(@, n, 1)] : n \in {1, len - 16} \ {0}}
  \cup {[p EXCEPT !.ciphertext = SubSeq(@, 1, n)] : n \in {0, 16, len - 1}}
  \cup {[p EXCEPT !.wrapped_key.bytes = k] : k \in {OtherKey, SubSeq(OtherKey, 1, 15)}}
  \cup {[p EXCEPT !.ciphertext = tampered, !.signature = sign_file(tampered, s)] :
           s \in Others(p)}
  \cup {[p EXCEPT !.signature = None]}
  \cup (IF p.signature = None THEN {} ELSE {[p EXCEPT !.signature.data = None]})

(* What aes128_cbc_encrypt writes is AES-128 in CBC mode: each block of a  *)
(* package is the cipher of FIPS 197 on the padded data and the ciphertext *)
(* block before it.                                                        *)
EncryptionIsAES ==
  pc = "staged" =>
    \A n \in {16 * k : k \in 0..(Len(pkg.ciphertext) \div 16) - 1} :
      BlockAt(pkg.ciphertext, n) =
        Cipher(job.key, XorBlock(BlockAt(padded, n), Before(pkg, n)))

=============================================================================
