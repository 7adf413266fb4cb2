------------------------------ MODULE MCBroker ------------------------------
(* Broker for TLC: two tickets; Bob writes his address in two spellings,   *)
(* Eve is somebody else.                                                   *)
EXTENDS Broker

CONSTANTS tx1, tx2, small, large

MCTxIds == {tx1, tx2}
MCPayloads == {small, large}
MCOnePayload == {large}
MCSize == [p \in Payloads |-> IF p = large THEN 3 ELSE 1]
MCAddresses == {"0xB0B", "0xb0b", "0xeve"}
MCTwoWallets == {"0xb0b", "0xeve"}
MCLowerOf == [a \in Addresses |-> IF a = "0xB0B" THEN "0xb0b" ELSE a]

\* A package that expires by MaxExpiry meets a purge by MaxClock.
ASSUME BoundsLeaveRoom == MaxExpiry + PURGE_INTERVAL_SECONDS <= MaxClock

=============================================================================
