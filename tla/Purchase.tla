------------------------------- MODULE Purchase -------------------------------
(***************************************************************************)
(* What the TipTopPay hook promises for captured payments.  A payment buys *)
(* its checkout if no other payment has; only then is its charge recorded  *)
(* in the shop, its card remembered, once, and its callback closed.        *)
(* Nothing is undone.                                                      *)
(***************************************************************************)
EXTENDS Naturals

CONSTANTS Payments,
          CheckoutOf,   \* the checkout a payment pays
          Keys,
          CallbackOf    \* the callback that reports it

VARIABLES ordered,    \* payments with an order
          charged,    \* payments the shop knows of
          cards,      \* cards remembered for each payment
          closed      \* callbacks that are done with

Init ==
    /\ ordered = {}
    /\ charged = {}
    /\ cards = [p \in Payments |-> 0]
    /\ closed = {}

Order(p) ==
    /\ \A q \in ordered : CheckoutOf[q] # CheckoutOf[p]
    /\ ordered' = ordered \cup {p}
    /\ UNCHANGED <<charged, cards, closed>>

RecordCharge(p) ==
    /\ p \in ordered
    /\ charged' = charged \cup {p}
    /\ UNCHANGED <<ordered, cards, closed>>

RememberCard(p) ==
    /\ p \in ordered
    /\ cards[p] = 0
    /\ cards' = [cards EXCEPT ![p] = 1]
    /\ UNCHANGED <<ordered, charged, closed>>

Close(k) ==
    /\ \E p \in ordered : CallbackOf[p] = k
    /\ closed' = closed \cup {k}
    /\ UNCHANGED <<ordered, charged, cards>>

Next ==
    \/ \E p \in Payments : Order(p) \/ RecordCharge(p) \/ RememberCard(p)
    \/ \E k \in Keys : Close(k)

Spec == Init /\ [][Next]_<<ordered, charged, cards, closed>>
=============================================================================
