------------------------------- MODULE Bytes -------------------------------
(***************************************************************************)
(* Bytes, exclusive or, and sequences that TLC computes once.              *)
(***************************************************************************)
EXTENDS Naturals, Sequences
LOCAL INSTANCE Bitwise

\* The values F(0), ..., F(n - 1).  SubSeq has TLC compute each of them once.
Values(n, F(_)) == SubSeq([i \in 1..n |-> F(i - 1)], 1, n)

XorTable == Values(256, LAMBDA a : Values(256, LAMBDA b : a ^^ b))

Xored(a, b) == XorTable[a + 1][b + 1]

XorAll(s, t) == Values(Len(s), LAMBDA i : Xored(s[i + 1], t[i + 1]))

=============================================================================
