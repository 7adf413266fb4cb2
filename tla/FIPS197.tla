------------------------------ MODULE FIPS197 ------------------------------
(***************************************************************************)
(* The reference for module AES128: the cipher as FIPS 197 defines it.  A  *)
(* byte stands for a polynomial over GF(2), here the set of its exponents, *)
(* modulo x^8 + x^4 + x^3 + x + 1; the S-box is an inverse and an affine   *)
(* map, a state is a matrix, and a product is a product of polynomials.    *)
(***************************************************************************)
EXTENDS Bytes, FiniteSetsExt, SequencesExt

Polynomial(b) == {e \in 0..7 : (b \div 2^e) % 2 = 1}
Number(p) == SumSet({2^e : e \in p})

Plus(p, q) == (p \ q) \cup (q \ p)

\* x times p.
XTimes(p) == Plus({e + 1 : e \in p \ {7}}, IF 7 \in p THEN {0, 1, 3, 4} ELSE {})

XPower[e \in 0..9] == IF e = 0 THEN {0} ELSE XTimes(XPower[e - 1])

\* x^e times p.
Shifted(p, e) == FoldLeft(LAMBDA q, n : XTimes(q), p, [n \in 1..e |-> n])

Times(p, q) == FoldSet(LAMBDA e, sum : Plus(Shifted(p, e), sum), {}, q)

\* The inverse of a unit is its power 254 = 2 + 4 + ... + 128.
Squares(p) == FoldLeft(LAMBDA s, n : Append(s, Times(s[n], s[n])), <<p>>, [n \in 1..7 |-> n])
Reciprocal(p) ==
  LET s == Squares(p) IN FoldLeft(LAMBDA q, n : Times(q, s[n]), {0}, [n \in 1..7 |-> n + 1])

Affine(p) ==
  {e \in 0..7 : Cardinality({d \in {0, 4, 5, 6, 7} : (e + d) % 8 \in p}) % 2 = 1}

SubByte == Values(256, LAMBDA b : Number(Plus(Affine(Reciprocal(Polynomial(b))), {0, 1, 5, 6})))

Doubled == Values(256, LAMBDA b : Number(Times(Polynomial(b), {1})))
Tripled == Values(256, LAMBDA b : Number(Times(Polynomial(b), {0, 1})))

-----------------------------------------------------------------------------

SubWord(w) == Values(4, LAMBDA r : SubByte[w[r + 1] + 1])
RotWord(w) == Values(4, LAMBDA r : w[((r + 1) % 4) + 1])
Rcon(j) == <<Number(XPower[j - 1]), 0, 0, 0>>

\* w[i] from the words before it (the sequence's index is one more).
ExtendKey(w, i) ==
  Append(w, XorAll(w[i - 3],
                   IF i % 4 = 0 THEN XorAll(SubWord(RotWord(w[i])), Rcon(i \div 4))
                                ELSE w[i]))

KeyExpansion(key) ==
  FoldLeft(ExtendKey, Values(4, LAMBDA c : SubSeq(key, 4 * c + 1, 4 * c + 4)),
           [i \in 1..40 |-> i + 3])

\* A state is four columns of four rows.
Columns(block) == Values(4, LAMBDA c : SubSeq(block, 4 * c + 1, 4 * c + 4))

SubBytes(s) == Values(4, LAMBDA c : SubWord(s[c + 1]))

ShiftedRows(s) ==
  Values(4, LAMBDA c : Values(4, LAMBDA r : s[((c + r) % 4) + 1][r + 1]))

MixedColumn(w) ==
  Values(4, LAMBDA r :
    LET at(n) == w[((r + n) % 4) + 1] + 1 IN
    Xored(Xored(Doubled[at(0)], Tripled[at(1)]), Xored(at(2) - 1, at(3) - 1)))

MixedColumns(s) == Values(4, LAMBDA c : MixedColumn(s[c + 1]))

AddRoundKey(s, w, round) == Values(4, LAMBDA c : XorAll(s[c + 1], w[4 * round + c + 1]))

Cipher(key, block) ==
  LET w == KeyExpansion(key)
      rounds[round \in 1..10, s \in Seq(Seq(Nat))] ==
        LET shifted == ShiftedRows(SubBytes(s)) IN
        IF round = 10 THEN AddRoundKey(shifted, w, 10)
        ELSE rounds[round + 1, AddRoundKey(MixedColumns(shifted), w, round)]
  IN  FlattenSeq(rounds[1, AddRoundKey(Columns(block), w, 0)])

=============================================================================
