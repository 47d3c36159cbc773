----------------------------- MODULE MCTipTopPay -----------------------------
(* Instances of TipTopPay for TLC. *)
EXTENDS TipTopPay, TLC

CONSTANTS p1, p2, p3, k1, k2, c1

\* A customer may pay one checkout twice: p1 and p2 are two transactions.  The
\* callback of p3 names neither a transaction nor a checkout.
TwoKeys == (p1 :> k1) @@ (p2 :> k2) @@ (p3 :> NoKey)
SameInvoice == (p1 :> c1) @@ (p2 :> c1) @@ (p3 :> NoCheckout)

\* One payment of one checkout.
OneKey == p1 :> k1
OneInvoice == p1 :> c1

\* Every fault but one: the operator's alert is sent.
AlertsAreSent == ({"throw", "lost", "crash"} \X Steps) \ {<<"throw", "alert">>}

\* The database fails on one of the two calls after the order was made that are
\* not best-effort.
LateThrow == {<<"throw", "user">>, <<"throw", "invoice">>}
=============================================================================
