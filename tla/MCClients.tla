----------------------------- MODULE MCClients ------------------------------
(* Two sessions and two wallets, one of which is used at both; the         *)
(* addresses are spelled in one way.                                       *)
EXTENDS Clients, TLC

CONSTANTS a, b, s1, s2

MCLowerOf == [w \in Addresses |-> w]

MCPasswords == (s1 :> {a, b}) @@ (s2 :> {a})

MCMaxMined == (a :> 1) @@ (b :> 0)

=============================================================================
