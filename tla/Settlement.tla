------------------------------ MODULE Settlement ------------------------------
(***************************************************************************)
(* What the payment callback promises, checkout by checkout: the order is  *)
(* made once, it is marked paid once, and only then does the backend call  *)
(* the payment settled.  No step is ever taken back.                       *)
(***************************************************************************)
CONSTANT Checkouts

VARIABLE phase

Phases == {"open", "ordered", "paid", "settled"}

After(p) == CASE p = "open"    -> "ordered"
              [] p = "ordered" -> "paid"
              [] OTHER         -> "settled"

Init == phase = [c \in Checkouts |-> "open"]

Advance(c) ==
    /\ phase[c] # "settled"
    /\ phase' = [phase EXCEPT ![c] = After(phase[c])]

Next == \E c \in Checkouts : Advance(c)

Spec == Init /\ [][Next]_phase
=============================================================================
