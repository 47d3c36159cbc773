------------------------------- MODULE Saleor -------------------------------
(***************************************************************************)
(* What the Saleor shop knows of a payment: which checkouts still exist,   *)
(* which orders were made from them and which orders count as paid.        *)
(* Saleor itself is not in the repository.  The definitions below say what *)
(* the mutations the backend sends to it do, as far as the payment         *)
(* handlers depend on it.                                                  *)
(***************************************************************************)
EXTENDS FiniteSets

CONSTANTS Checkouts,    \* checkouts of the shop
          OrderIds,     \* the ids Saleor may give to orders
          NoCheckout    \* orderOf of an id that names no order

ASSUME NoCheckoutAssumption == NoCheckout \notin Checkouts

VARIABLES live,         \* checkouts that have not been turned into an order
          orderOf,      \* the checkout each order was made from
          paid          \* orders Saleor shows as paid

saleorVars == <<live, orderOf, paid>>

SaleorTypeOK ==
    /\ live \subseteq Checkouts
    /\ orderOf \in [OrderIds -> Checkouts \cup {NoCheckout}]
    /\ paid \subseteq OrderIds

SaleorInit ==
    /\ live = Checkouts
    /\ orderOf = [o \in OrderIds |-> NoCheckout]
    /\ paid = {}

OrdersOf(c) == {o \in OrderIds : orderOf[o] = c}

\* orderCreateFromCheckout with removeCheckout: true: the order is made and the
\* checkout is gone in one Saleor transaction.
CreateFromCheckout(c, o) ==
    /\ c \in live
    /\ orderOf[o] = NoCheckout
    /\ orderOf' = [orderOf EXCEPT ![o] = c]
    /\ live' = live \ {c}
    /\ UNCHANGED paid

\* orderMarkAsPaid answers with errors for an order that is already paid.
MarkPaid(o) ==
    /\ o \notin paid
    /\ paid' = paid \cup {o}
    /\ UNCHANGED <<live, orderOf>>

\* A checkout becomes at most one order: it is the shop that sees to this, by
\* removeCheckout, and the handlers rely on it when they repeat a creation that
\* may have worked.
OneOrderPerCheckout ==
    \A o, p \in OrderIds :
        orderOf[o] = orderOf[p] /\ orderOf[o] # NoCheckout => o = p
=============================================================================
