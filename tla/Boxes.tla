------------------------------- MODULE Boxes -------------------------------
(***************************************************************************)
(* The broker's packages as its users see them, with no clock, no          *)
(* signatures and no RAM: a box per ticket.  A package is put in once, may *)
(* be handed to its recipient any number of times while it is in the box,  *)
(* and may vanish at any moment.                                           *)
(***************************************************************************)
EXTENDS Integers, FiniteSets

CONSTANTS TxIds, Addresses, LowerOf, None

VARIABLES
  puts,  \* packages ever put in a box; the n-th has id n
  box    \* the package in each box, or None

boxes == <<puts, box>>

Full == {t \in TxIds : box[t] # None}

Owns(w, t) == LowerOf[box[t].recipient] = LowerOf[w]

BoxesInit ==
  /\ puts = 0
  /\ box = [t \in TxIds |-> None]

\* A package takes the place of whatever the box held.
PutIn(t, recipient) ==
  /\ puts' = puts + 1
  /\ box' = [box EXCEPT ![t] = [id |-> puts + 1, recipient |-> recipient]]

Discard(S) ==
  /\ box' = [t \in TxIds |-> IF t \in S THEN None ELSE box[t]]
  /\ UNCHANGED puts

\* The packages of the boxes S are handed to wallet w; those of `burnt` go.
Hand(S, w, burnt) == (\A t \in S : Owns(w, t)) /\ Discard(burnt)

=============================================================================
