------------------------------ MODULE Mailbox ------------------------------
(***************************************************************************)
(* What the broker promises: once a package is out of its box it is never  *)
(* handed out again, and it is handed to its recipient only.               *)
(***************************************************************************)
EXTENDS Boxes

VARIABLE out  \* what the last step handed out, and to whom

boxVars == <<puts, box, out>>

BoxInit == BoxesInit /\ out = {}

Put(t, recipient) == PutIn(t, recipient) /\ out' = {}

HandOut(S, w, burnt) ==
  /\ Hand(S, w, burnt)
  /\ out' = {[id |-> box[t].id, to |-> w] : t \in S}

Vanish(S) == Discard(S) /\ out' = {}

BoxNext ==
  \/ \E t \in TxIds, a \in Addresses : Put(t, a)
  \/ \E S \in SUBSET Full, w \in Addresses : \E burnt \in SUBSET S : HandOut(S, w, burnt)
  \/ \E S \in SUBSET Full : Vanish(S)

BoxSpec == BoxInit /\ [][BoxNext]_boxVars

=============================================================================
