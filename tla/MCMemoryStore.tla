--------------------------- MODULE MCMemoryStore ---------------------------
(* MemoryStore for TLC: two threads, two tickets, two payload sizes.       *)
EXTENDS MemoryStore, TLC

CONSTANTS th1, th2, tx1, tx2, small, large

MCThreads == {th1, th2}
MCTxIds == {tx1, tx2}
MCPayloads == {small, large}
MCSize == (small :> 1) @@ (large :> 3)
MCAddresses == {"bob"}
MCLowerOf == [a \in MCAddresses |-> a]

MCSymmetry == Permutations(MCThreads) \cup Permutations(MCTxIds)

=============================================================================
