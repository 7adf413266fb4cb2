----------------------------- MODULE MCAccounts -----------------------------
(* Accounts for TLC: a name in two spellings and another name.             *)
EXTENDS Accounts, TLC

CONSTANTS s1, s2, p1, p2, k1, k2

MCSessions == {s1, s2}
MCNames == {"bob", "Bob", "eve"}
MCLowerOf == [n \in Names |-> IF n = "Bob" THEN "bob" ELSE n]
MCPasswords == {p1, p2}
MCKeys == {k1, k2}
MCOneKey == {k1}

\* No file yet, or one of a version that knew no roles.
MCFirstFiles ==
  {None} \cup
  {[n \in Names |-> IF n = "eve" THEN [password |-> p, key |-> k, role |-> None]
                    ELSE None] : p \in Passwords, k \in Keys}

MCSymmetry == Permutations(MCSessions) \cup Permutations(MCPasswords) \cup Permutations(MCKeys)

=============================================================================
