----------------------------- MODULE MCMonitor -----------------------------
(* Monitor for TLC: two brokers, of RAM or over one Redis; two wallets.    *)
EXTENDS Monitor, TLC

CONSTANTS b1, b2, tx1, tx2, package

MCBrokers == {b1, b2}
MCTxIds == {tx1, tx2}
MCPayloads == {package}
MCSize == [p \in Payloads |-> 3]
MCAddresses == {"0xb0b", "0xeve"}
MCLowerOf == [a \in Addresses |-> a]
MCMaxCount == [staged |-> 2, retrieved |-> 2, runs |-> 2, refreshes |-> 2]

\* Nothing set; a Redis that is wanted; one that nobody allowed.
MCEnvironments ==
  [REDIS_URL: {FALSE}, ALLOW_REDIS_STORE: {FALSE}, redis: {FALSE}]
    \cup [REDIS_URL: {TRUE}, ALLOW_REDIS_STORE: BOOLEAN, redis: {TRUE}]

MCSymmetry == Permutations(MCBrokers) \cup Permutations(MCTxIds)

=============================================================================
