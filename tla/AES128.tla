------------------------------- MODULE AES128 -------------------------------
(***************************************************************************)
(* The block cipher of core/aes128.c: its tables, key expansion and the    *)
(* two block functions.  A block is a sequence of 16 bytes; the i-th byte  *)
(* of a C array has index i + 1.  The products the C code computes again   *)
(* and again are a table here.                                             *)
(***************************************************************************)
EXTENDS Bytes, SequencesExt

SBOX ==
  << 99, 124, 119, 123, 242, 107, 111, 197, 48, 1, 103, 43, 254, 215, 171, 118,
     202, 130, 201, 125, 250, 89, 71, 240, 173, 212, 162, 175, 156, 164, 114, 192,
     183, 253, 147, 38, 54, 63, 247, 204, 52, 165, 229, 241, 113, 216, 49, 21,
     4, 199, 35, 195, 24, 150, 5, 154, 7, 18, 128, 226, 235, 39, 178, 117,
     9, 131, 44, 26, 27, 110, 90, 160, 82, 59, 214, 179, 41, 227, 47, 132,
     83, 209, 0, 237, 32, 252, 177, 91, 106, 203, 190, 57, 74, 76, 88, 207,
     208, 239, 170, 251, 67, 77, 51, 133, 69, 249, 2, 127, 80, 60, 159, 168,
     81, 163, 64, 143, 146, 157, 56, 245, 188, 182, 218, 33, 16, 255, 243, 210,
     205, 12, 19, 236, 95, 151, 68, 23, 196, 167, 126, 61, 100, 93, 25, 115,
     96, 129, 79, 220, 34, 42, 144, 136, 70, 238, 184, 20, 222, 94, 11, 219,
     224, 50, 58, 10, 73, 6, 36, 92, 194, 211, 172, 98, 145, 149, 228, 121,
     231, 200, 55, 109, 141, 213, 78, 169, 108, 86, 244, 234, 101, 122, 174, 8,
     186, 120, 37, 46, 28, 166, 180, 198, 232, 221, 116, 31, 75, 189, 139, 138,
     112, 62, 181, 102, 72, 3, 246, 14, 97, 53, 87, 185, 134, 193, 29, 158,
     225, 248, 152, 17, 105, 217, 142, 148, 155, 30, 135, 233, 206, 85, 40, 223,
     140, 161, 137, 13, 191, 230, 66, 104, 65, 153, 45, 15, 176, 84, 187, 22 >>

INV_SBOX ==
  << 82, 9, 106, 213, 48, 54, 165, 56, 191, 64, 163, 158, 129, 243, 215, 251,
     124, 227, 57, 130, 155, 47, 255, 135, 52, 142, 67, 68, 196, 222, 233, 203,
     84, 123, 148, 50, 166, 194, 35, 61, 238, 76, 149, 11, 66, 250, 195, 78,
     8, 46, 161, 102, 40, 217, 36, 178, 118, 91, 162, 73, 109, 139, 209, 37,
     114, 248, 246, 100, 134, 104, 152, 22, 212, 164, 92, 204, 93, 101, 182, 146,
     108, 112, 72, 80, 253, 237, 185, 218, 94, 21, 70, 87, 167, 141, 157, 132,
     144, 216, 171, 0, 140, 188, 211, 10, 247, 228, 88, 5, 184, 179, 69, 6,
     208, 44, 30, 143, 202, 63, 15, 2, 193, 175, 189, 3, 1, 19, 138, 107,
     58, 145, 17, 65, 79, 103, 220, 234, 151, 242, 207, 206, 240, 180, 230, 115,
     150, 172, 116, 34, 231, 173, 53, 133, 226, 249, 55, 232, 28, 117, 223, 110,
     71, 241, 26, 113, 29, 41, 197, 137, 111, 183, 98, 14, 170, 24, 190, 27,
     252, 86, 62, 75, 198, 210, 121, 32, 154, 219, 192, 254, 120, 205, 90, 244,
     31, 221, 168, 51, 136, 7, 199, 49, 177, 18, 16, 89, 39, 128, 236, 95,
     96, 81, 127, 169, 25, 181, 74, 13, 45, 229, 122, 159, 147, 201, 156, 239,
     160, 224, 59, 77, 174, 42, 245, 176, 200, 235, 187, 60, 131, 83, 153, 97,
     23, 43, 4, 126, 186, 119, 214, 38, 225, 105, 20, 99, 85, 33, 12, 125 >>

RCON == <<1, 2, 4, 8, 16, 32, 64, 128, 27, 54>>

\* One turn of the loop of gmul.
GmulTurn(m, i) ==
  [p |-> IF m.b % 2 = 1 THEN Xored(m.p, m.a) ELSE m.p,
   a |-> Xored((2 * m.a) % 256, IF m.a >= 128 THEN 27 ELSE 0),
   b |-> m.b \div 2]

gmul(a, b) ==
  FoldLeft(GmulTurn, [p |-> 0, a |-> a, b |-> b], [i \in 1..8 |-> i]).p

\* The coefficients the columns are mixed with, and their products.
Factor == {1, 2, 3, 9, 11, 13, 14}

Products == Values(14, LAMBDA b :
  IF b + 1 \in Factor THEN Values(256, LAMBDA a : gmul(a, b + 1)) ELSE <<>>)

Rotated(w) == <<SBOX[w[2] + 1], SBOX[w[3] + 1], SBOX[w[4] + 1], SBOX[w[1] + 1]>>

\* A round key is four words; words[w] is the sum of the same word of the
\* last round key and of the word before.
Extended(last, temp) ==
  LET w1 == XorAll(last[1], temp)
      w2 == XorAll(last[2], w1)
      w3 == XorAll(last[3], w2)
  IN  <<w1, w2, w3, XorAll(last[4], w3)>>

\* Mutant: the round constant is left out.
NextRoundKeyPlain(keys, round) ==
  Append(keys, Extended(keys[round], Rotated(keys[round][4])))

\* One more round key, from the round keys there are.
NextRoundKey(keys, round) ==
  Append(keys, Extended(keys[round],
                        XorAll(Rotated(keys[round][4]), <<RCON[round], 0, 0, 0>>)))

\* round_keys: the key and ten more.
key_expansion(key) ==
  FoldLeft(NextRoundKey, <<Values(4, LAMBDA w : SubSeq(key, 4 * w + 1, 4 * w + 4))>>,
           [round \in 1..10 |-> round])

RoundKey(keys, round) == FlattenSeq(keys[round + 1])

Substitute(box, state) == Values(16, LAMBDA i : box[state[i + 1] + 1])

\* Byte r of column c moves by r columns, to the left when encrypting and
\* to the right when decrypting.
ShiftRows(state, to) ==
  Values(16, LAMBDA i : state[((i + to * 4 * (i % 4)) % 16) + 1])

\* Byte r of a column is the sum of its four bytes, from the r-th on, each
\* times its coefficient.
MixColumns(state, by) ==
  Values(16, LAMBDA i :
     LET r == i % 4
         a(n) == Products[by[n + 1]][state[i - r + ((r + n) % 4) + 1] + 1]
     IN  Xored(Xored(a(0), a(1)), Xored(a(2), a(3))))

\* The rounds are recursive functions of the state, which TLC then computes
\* before the next round.
encrypt_block(key, block) ==
  LET keys == key_expansion(key)
      from[round \in 1..11, state \in Seq(Nat)] ==
        LET shifted == ShiftRows(Substitute(SBOX, state), 1)
            mixed   == IF round < 10 THEN MixColumns(shifted, <<2, 3, 1, 1>>) ELSE shifted
        IN  IF round > 10 THEN state
            ELSE from[round + 1, XorAll(mixed, RoundKey(keys, round))]
  IN  from[1, XorAll(block, RoundKey(keys, 0))]

decrypt_block(key, block) ==
  LET keys == key_expansion(key)
      down[rounds \in 0..10, state \in Seq(Nat)] ==
        LET restored == Substitute(INV_SBOX, ShiftRows(state, 3))
            keyed    == XorAll(restored, RoundKey(keys, rounds - 1))
        IN  IF rounds = 0 THEN state
            ELSE down[rounds - 1, IF rounds > 1 THEN MixColumns(keyed, <<14, 11, 13, 9>>)
                                                ELSE keyed]
  IN  down[10, XorAll(block, RoundKey(keys, 10))]

=============================================================================
