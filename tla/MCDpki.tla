------------------------------- MODULE MCDpki -------------------------------
(* Dpki for TLC.  The owner of w1 has two keys to rotate, the owner of w2  *)
(* only one of them, and may try the other.                                *)
EXTENDS Dpki, TLC

CONSTANTS w1, w2, k1, k2, t1, t2

MCOneWallet == {w1}
MCTwoWallets == {w1, w2}
MCKeys == {k1, k2}
MCOneThread == {t1}
MCTwoThreads == {t1, t2}

MCHoldsBoth == [w \in Wallets |-> Keys]
MCHoldsMixed == [w \in Wallets |-> IF w = w1 THEN Keys ELSE {k2}]

MCNoFile == {None}
MCUi == {TRUE}
MCOthers == {FALSE}

\* What the relay accepts.
MCGoodRequests ==
  {r \in Request : r.signer = r.address /\ r.timely /\ r.length = 132}

MCUpAndDown == {"up", "down"}
MCAlwaysUp == {"up"}

MCSymmetry == Permutations(MCKeys) \cup Permutations(Threads)

=============================================================================
