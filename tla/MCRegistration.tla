--------------------------- MODULE MCRegistration ---------------------------
(* Dpki and Registration for TLC: key files whose moduli take every form   *)
(* of length an INTEGER has.                                               *)
EXTENDS MCDpki, Registration

Modulus(first, len) == [n \in 1..len |-> IF n = 1 THEN first ELSE (37 * n + 5) % 256]

\* 127 and 255 bytes become 128 and 256 with a zero in front; 62 are as few
\* as a proof needs.
Numbers(p) == [modulus |-> Modulus(p[1], p[2]), exponent |-> p[3]]

MCMaterial ==
  [key \in Keys |->
     IF key = k1
     THEN {Numbers(p) : p \in {<<100, 62, <<1, 0, 1>>>>, <<100, 127, <<3>>>>,
                               <<200, 127, <<3>>>>, <<200, 255, <<200, 1>>>>}}
     ELSE {Numbers(p) : p \in {<<200, 64, <<1, 0, 1>>>>, <<200, 128, <<1, 0, 1>>>>,
                               <<100, 255, <<3>>>>, <<200, 256, <<1, 0, 1>>>>}}]

MCDigest == [w \in Wallets |-> [n \in 1..32 |-> IF w = w1 THEN n ELSE 7 * n]]

CrLf(text) ==
  SelectSeq([n \in 1..2 * Len(text) |->
               IF n % 2 = 0 THEN text[n \div 2] ELSE IF text[(n + 1) \div 2] = 10 THEN 13 ELSE 0],
            LAMBDA c : c # 0)

OneLine(text) == SelectSeq(text, LAMBDA c : c # 10)

\* As it is; with CR LF; with no line ends; between other lines.
MCCopies(text) ==
  {text, CrLf(text), OneLine(text), <<75, 10>> \o text \o <<10, 75>>}

WithoutLine(text, n) == SubSeq(text, 1, 12 + 65 * (n - 1)) \o SubSeq(text, 13 + 65 * n, Len(text))

\* A text that ends early; one whose body does; one that lost a line.
MCCuts(text) ==
  LET ends == {m \in 0..Len(text) - 1 : Len(text) < 140 \/ m % 8 = 0 \/ m > Len(text) - 14} IN
  {SubSeq(text, 1, m) : m \in ends}
  \cup {SubSeq(text, 1, m) \o FrameLine(69) : m \in {n \in ends : 11 < n /\ n < Len(text) - 13}}
  \cup {WithoutLine(text, n) : n \in 1..(Len(text) - 24) \div 65}

\* An encoded message with one byte another, at every place that is told from
\* the next; with its padding cut short and something behind it.
MCOpenings(k) ==
  UNION {LET em == EncodedMessage(k, MCDigest[w]) IN
         {[em EXCEPT ![n] = (@ + 1) % 256] : n \in {1, 2, 3, k - 52} \cup (k - 51)..k}
         \cup {SubSeq(em, 1, 2) \o SubSeq(em, 4, Len(em)) \o <<0>>} : w \in Wallets}

=============================================================================
