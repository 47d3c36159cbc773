------------------------------- MODULE TipTopPay -------------------------------
(***************************************************************************)
(* POST /hooks/payments/pay: TipTopPay has captured the money of a card    *)
(* payment and says so, once or more often.  The handler claims the        *)
(* payment by its idempotency key, makes the order, records the charge on  *)
(* it, remembers the card and marks the claim as processed.  Unlike the    *)
(* AirbaPay handler it keeps no progress: an error gives the claim back    *)
(* and a retry starts over.                                                *)
(*                                                                         *)
(* Most calls are best-effort: their errors are logged and the handler     *)
(* goes on.  Errors of the creation, of the user lookup and of the invoice *)
(* update reach the catch block, which alerts an operator if no order was  *)
(* made and releases the claim.                                            *)
(*                                                                         *)
(* A callback with neither id has no key: it is worked on without a claim. *)
(*                                                                         *)
(* updateInvoiceStatus selects invoices by referenceId, which no code      *)
(* sets: it changes no row, but it can throw.                              *)
(*                                                                         *)
(* Not modelled: the signature guard, logging, the amount comparison, the  *)
(* kerId stamp, and the notifications whose handlers only log.             *)
(***************************************************************************)
EXTENDS Saleor, Naturals

CONSTANTS Payments,      \* captured payments
          Keys,          \* idempotency keys
          NoKey,         \* neither TransactionId nor InvoiceId
          KeyOf,         \* TransactionId of a payment, or its InvoiceId, or NoKey
          InvoiceOf,     \* InvoiceId: the checkout that was paid, or NoCheckout
          Handlers,      \* slots for callbacks being handled at one time
          NoPayment,     \* payment of an idle handler
          NoOrder,       \* createdOrderId before there is one
          Faults,        \* the pairs <<kind, step>> that may happen
          MaxCaptured,   \* bound: payments captured in one behaviour
          MaxFaults      \* bound: faults in one behaviour

Steps == {"claim", "create", "record", "user", "card", "invoice", "mark",
          "alert", "release", "ok", "failed"}

ASSUME TipTopPayAssumption ==
    /\ NoKey \notin Keys
    /\ KeyOf \in [Payments -> Keys \cup {NoKey}]
    /\ InvoiceOf \in [Payments -> Checkouts \cup {NoCheckout}]
    /\ \A p \in Payments : KeyOf[p] = NoKey => InvoiceOf[p] = NoCheckout
    /\ NoPayment \notin Payments
    /\ NoOrder \notin OrderIds
    /\ Faults \subseteq {"throw", "lost", "crash"} \X Steps
    /\ MaxCaptured \in Nat
    /\ MaxFaults \in Nat

VARIABLES claim,     \* status of the PaymentWebhookEvent row of each key
          cards,     \* SavedCard rows made for each payment
          alerted,   \* payments an operator was told to refund
          pc,        \* the step each handler is about to take
          payment,   \* the payment each handler works on
          created,   \* createdOrderId of each handler
          captured,  \* payments TipTopPay has captured
          acked,     \* payments whose callback was answered with true
          faults,    \* faults so far
          payer      \* history: the payment each order was made for

rowVars     == <<claim, cards, alerted>>
handlerVars == <<pc, payment, created>>
gatewayVars == <<captured, acked>>
vars == <<saleorVars, rowVars, handlerVars, gatewayVars, faults, payer>>

TypeOK ==
    /\ SaleorTypeOK
    /\ claim \in [Keys -> {"absent", "processing", "processed"}]
    /\ cards \in [Payments -> Nat]
    /\ alerted \subseteq captured
    /\ pc \in [Handlers -> Steps \cup {"idle"}]
    /\ payment \in [Handlers -> Payments \cup {NoPayment}]
    /\ created \in [Handlers -> OrderIds \cup {NoOrder}]
    /\ captured \subseteq Payments
    /\ acked \subseteq captured
    /\ faults \in Nat
    /\ payer \in [OrderIds -> Payments \cup {NoPayment}]

Init ==
    /\ SaleorInit
    /\ claim = [k \in Keys |-> "absent"]
    /\ cards = [p \in Payments |-> 0]
    /\ alerted = {}
    /\ pc = [h \in Handlers |-> "idle"]
    /\ payment = [h \in Handlers |-> NoPayment]
    /\ created = [h \in Handlers |-> NoOrder]
    /\ captured = {}
    /\ acked = {}
    /\ faults = 0
    /\ payer = [o \in OrderIds |-> NoPayment]

Key(h) == KeyOf[payment[h]]
Keyed(h) == Key(h) # NoKey

Goto(h, s, t) ==
    /\ pc[h] = s
    /\ pc' = [pc EXCEPT ![h] = t]
    /\ UNCHANGED payment

Leave(h) ==
    /\ pc' = [pc EXCEPT ![h] = "idle"]
    /\ payment' = [payment EXCEPT ![h] = NoPayment]
    /\ created' = [created EXCEPT ![h] = NoOrder]

-----------------------------------------------------------------------------
(* TipTopPay                                                               *)

Capture(p) ==
    /\ p \notin captured
    /\ Cardinality(captured) < MaxCaptured
    /\ captured' = captured \cup {p}
    /\ UNCHANGED <<saleorVars, rowVars, handlerVars, acked, faults, payer>>

\* The callback arrives, for the first time or again.
Deliver(h, p) ==
    /\ pc[h] = "idle"
    /\ p \in captured
    /\ pc' = [pc EXCEPT ![h] = "claim"]
    /\ payment' = [payment EXCEPT ![h] = p]
    /\ UNCHANGED <<saleorVars, rowVars, created, gatewayVars, faults, payer>>

AnswerTrue(h) ==
    /\ pc[h] = "ok"
    /\ acked' = acked \cup {payment[h]}
    /\ Leave(h)
    /\ UNCHANGED <<saleorVars, rowVars, captured, faults, payer>>

AnswerFalse(h) ==
    /\ pc[h] = "failed"
    /\ Leave(h)
    /\ UNCHANGED <<saleorVars, rowVars, gatewayVars, faults, payer>>

-----------------------------------------------------------------------------
(* What the calls do when they work                                        *)

\* Without a key there is no row to write.
SetClaim(h, status) ==
    /\ claim' = IF Keyed(h) THEN [claim EXCEPT ![Key(h)] = status] ELSE claim
    /\ UNCHANGED <<saleorVars, cards, alerted>>

NewOrder(h, o) ==
    /\ CreateFromCheckout(InvoiceOf[payment[h]], o)
    /\ payer' = [payer EXCEPT ![o] = payment[h]]

\* transactionCreate on the new order: Saleor shows it as paid.
RecordCharge(h) ==
    /\ paid' = paid \cup {created[h]}
    /\ UNCHANGED <<live, orderOf, rowVars>>

SaveCard(h) ==
    /\ cards' = [cards EXCEPT ![payment[h]] = @ + 1]
    /\ UNCHANGED <<saleorVars, claim, alerted>>

SendAlert(h) ==
    /\ alerted' = alerted \cup {payment[h]}
    /\ UNCHANGED <<saleorVars, claim, cards>>

-----------------------------------------------------------------------------
(* The handler                                                             *)

\* Mutant: the status of another table.
ClaimPending(h) ==
    /\ Goto(h, "claim", "create")
    /\ Keyed(h)
    /\ claim[Key(h)] = "absent"
    /\ SetClaim(h, "pending")
    /\ UNCHANGED <<created, gatewayVars, faults, payer>>

Claim(h) ==
    /\ Goto(h, "claim", "create")
    /\ Keyed(h)
    /\ claim[Key(h)] = "absent"
    /\ SetClaim(h, "processing")
    /\ UNCHANGED <<created, gatewayVars, faults, payer>>

\* No key to claim: "process, but flag it".
GoUnclaimed(h) ==
    /\ Goto(h, "claim", "create")
    /\ ~Keyed(h)
    /\ UNCHANGED <<saleorVars, rowVars, created, gatewayVars, faults, payer>>

\* Mutant: only a processed payment counts as a duplicate.
RerunUnprocessed(h) ==
    /\ pc[h] = "claim" /\ Keyed(h)
    /\ Goto(h, "claim", IF claim[Key(h)] = "processed" THEN "ok" ELSE "create")
    /\ claim[Key(h)] # "absent"
    /\ UNCHANGED <<saleorVars, rowVars, created, gatewayVars, faults, payer>>

\* P2002: a duplicate, answered with true.
SkipDuplicate(h) ==
    /\ Goto(h, "claim", "ok")
    /\ Keyed(h)
    /\ claim[Key(h)] # "absent"
    /\ UNCHANGED <<saleorVars, rowVars, created, gatewayVars, faults, payer>>

CreateOrder(h) ==
    /\ Goto(h, "create", "record")
    /\ \E o \in OrderIds :
          /\ NewOrder(h, o)
          /\ created' = [created EXCEPT ![h] = o]
    /\ UNCHANGED <<rowVars, gatewayVars, faults>>

\* Mutant: nobody is told.
RefusedSilently(h) ==
    /\ Goto(h, "create", "release")
    /\ InvoiceOf[payment[h]] \notin live
    /\ UNCHANGED <<saleorVars, rowVars, created, gatewayVars, faults, payer>>

CreateRefused(h) ==
    /\ Goto(h, "create", "alert")
    /\ InvoiceOf[payment[h]] \notin live
    /\ UNCHANGED <<saleorVars, rowVars, created, gatewayVars, faults, payer>>

\* recordSaleorPayment gives up on an amount that is not a positive number.
Record(h) ==
    /\ Goto(h, "record", "user")
    /\ RecordCharge(h) \/ UNCHANGED <<saleorVars, rowVars>>
    /\ UNCHANGED <<created, gatewayVars, faults, payer>>

\* The account may belong to no user: then there is nobody to save the card for.
FindUser(h) ==
    /\ \E next \in {"card", "invoice"} : Goto(h, "user", next)
    /\ UNCHANGED <<saleorVars, rowVars, created, gatewayVars, faults, payer>>

Card(h) ==
    /\ Goto(h, "card", "invoice")
    /\ SaveCard(h)
    /\ UNCHANGED <<created, gatewayVars, faults, payer>>

UpdateInvoice(h) ==
    /\ Goto(h, "invoice", "mark")
    /\ UNCHANGED <<saleorVars, rowVars, created, gatewayVars, faults, payer>>

Mark(h) ==
    /\ Goto(h, "mark", "ok")
    /\ SetClaim(h, "processed")
    /\ UNCHANGED <<created, gatewayVars, faults, payer>>

Alert(h) ==
    /\ Goto(h, "alert", "release")
    /\ SendAlert(h)
    /\ UNCHANGED <<created, gatewayVars, faults, payer>>

\* Mutant: the claim is closed on failure too.
CloseClaim(h) ==
    /\ Goto(h, "release", "failed")
    /\ SetClaim(h, "processed")
    /\ UNCHANGED <<created, gatewayVars, faults, payer>>

\* deleteMany by key, if there is one; the invoice update that follows changes nothing and its
\* error is caught.
Release(h) ==
    /\ Goto(h, "release", "failed")
    /\ SetClaim(h, "absent")
    /\ UNCHANGED <<created, gatewayVars, faults, payer>>

-----------------------------------------------------------------------------
(* Faults                                                                  *)

Fault(kind, h) ==
    /\ faults < MaxFaults
    /\ <<kind, pc[h]>> \in Faults
    /\ faults' = faults + 1

\* Mutant: the creation is best-effort as well.
OnErrorGoOn == [create |-> "user", record |-> "user", user |-> "release",
                card |-> "invoice", invoice |-> "release", mark |-> "ok",
                alert |-> "release", release |-> "failed"]

\* Where the handler goes on when a call throws: after it if the call is
\* best-effort, in the catch block if not.
OnError == [create |-> "alert", record |-> "user", user |-> "release",
            card |-> "invoice", invoice |-> "release", mark |-> "ok",
            alert |-> "release", release |-> "failed"]

\* The call had no effect and throws.
Throw(h) ==
    /\ pc[h] \in DOMAIN OnError
    /\ Fault("throw", h)
    /\ Goto(h, pc[h], OnError[pc[h]])
    /\ UNCHANGED <<saleorVars, rowVars, created, gatewayVars, payer>>

\* The call had its effect and throws.  For a best-effort call that is the same
\* as an answer.
ClaimLost(h) ==
    /\ pc[h] = "claim"
    /\ Keyed(h)
    /\ claim[Key(h)] = "absent"
    /\ Fault("lost", h)
    /\ SetClaim(h, "processing")
    /\ Leave(h)
    /\ UNCHANGED <<gatewayVars, payer>>

CreateLost(h) ==
    /\ Fault("lost", h)
    /\ Goto(h, "create", "alert")
    /\ \E o \in OrderIds : NewOrder(h, o)
    /\ UNCHANGED <<rowVars, created, gatewayVars>>

\* The instance dies; or the claim fails for another reason than a duplicate,
\* which is thrown; or the answer is lost.
Crash(h) ==
    /\ pc[h] # "idle"
    /\ Fault("crash", h)
    /\ Leave(h)
    /\ UNCHANGED <<saleorVars, rowVars, gatewayVars, payer>>

-----------------------------------------------------------------------------
Step(h) ==
    \/ Claim(h) \/ GoUnclaimed(h) \/ SkipDuplicate(h)
    \/ CreateOrder(h) \/ CreateRefused(h) \/ Record(h) \/ FindUser(h) \/ Card(h)
    \/ UpdateInvoice(h) \/ Mark(h)
    \/ Alert(h) \/ Release(h)
    \/ AnswerTrue(h) \/ AnswerFalse(h)

FaultStep(h) == Throw(h) \/ ClaimLost(h) \/ CreateLost(h) \/ Crash(h)

Next ==
    \/ \E p \in Payments : Capture(p)
    \/ \E h \in Handlers : \/ \E p \in Payments : Deliver(h, p)
                           \/ Step(h)
                           \/ FaultStep(h)

Spec == Init /\ [][Next]_vars

\* A running instance goes on with its requests; TipTopPay retries a callback
\* that was not answered with true.
Fairness ==
    /\ \A h \in Handlers : WF_vars(Step(h))
    /\ \A p \in Payments : SF_vars(p \notin acked /\ \E h \in Handlers : Deliver(h, p))

FairSpec == Spec /\ Fairness

-----------------------------------------------------------------------------
(* Properties                                                              *)

\* One handler at a time works on a payment: concurrent deliveries of one
\* callback are duplicates, even when errors give the claim back in between.
ClaimIsExclusive ==
    \A g, h \in Handlers :
        /\ pc[g] \in DOMAIN OnError
        /\ pc[h] \in DOMAIN OnError
        /\ Keyed(g) /\ Key(g) = Key(h)
        => g = h

OrdersFor(p) == {o \in OrderIds : payer[o] = p}

\* A failed attempt leaves no orphan card and a retry no duplicate: a payment
\* saves at most one card, and only if an order was made for it.
CardNeedsOrder ==
    \A p \in Payments : cards[p] > 0 => cards[p] = 1 /\ OrdersFor(p) # {}

Purchases == INSTANCE Purchase WITH
    CheckoutOf <- InvoiceOf,
    CallbackOf <- KeyOf,
    ordered <- {p \in Payments : OrdersFor(p) # {}},
    charged <- {p \in Payments : OrdersFor(p) \cap paid # {}},
    closed <- {k \in Keys : claim[k] = "processed"}

\* Over errors that start the work again from the beginning, the orders, the
\* charges, the cards and the processed rows stay in step: the first payment of a
\* checkout gets the order, what follows from an order comes after it and once, and
\* no retry takes anything back.
ImplementsPurchase == Purchases!Spec

\* A claim that nobody works on: its handler died, or was told by mistake that
\* the insert had failed.
Lingering(p) ==
    /\ KeyOf[p] # NoKey
    /\ claim[KeyOf[p]] = "processing"
    /\ \A h \in Handlers : pc[h] \in DOMAIN OnError => Key(h) # KeyOf[p]

\* Captured money never goes unnoticed, not even that of a checkout paid twice:
\* an order is made for it or an operator is told to refund it.  The one way out
\* is a claim left behind, which makes every retry look like a duplicate.  (This
\* needs the alert to be sent: a duplicate that came while the first delivery was
\* at work has been answered with true, so nobody tries again.)
CapturedIsAccountedFor ==
    \A p \in Payments :
        p \in captured ~> OrdersFor(p) # {} \/ p \in alerted \/ Lingering(p)

\* "Money captured but the order could not be created": an operator is told to
\* refund only what has no order.
AlertMeansNoOrder == [][\A p \in alerted' \ alerted : OrdersFor(p) = {}]_vars
=============================================================================
