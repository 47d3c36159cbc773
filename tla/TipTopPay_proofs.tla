-------------------------- MODULE TipTopPay_proofs --------------------------
(***************************************************************************)
(* Proofs about TipTopPay, for any number of payments, checkouts, handlers *)
(* and faults.  The safety properties follow from one inductive invariant, *)
(* IInv: the claim a handler holds, the order it holds, and that a payment *)
(* with an order can get no other.                                         *)
(***************************************************************************)
EXTENDS TipTopPay, TLAPS

\* The steps of the try and catch blocks, from which an error goes on.
WorkSteps == {"create", "record", "user", "card", "invoice", "mark", "alert", "release"}
OrderSteps == {"record", "user", "card", "invoice", "mark"}
CardSteps == {"record", "user", "card"}

HandlerOK(h) ==
    /\ pc[h] # "idle" => payment[h] \in captured
    /\ pc[h] \in WorkSteps /\ Keyed(h) => claim[Key(h)] = "processing"
    /\ pc[h] \in OrderSteps => /\ Keyed(h)
                               /\ created[h] \in OrderIds
                               /\ payer[created[h]] = payment[h]
    /\ pc[h] \in CardSteps => cards[payment[h]] = 0

\* An order is of its payment's checkout, which is gone; so the payment has a key.
OrderOK(o) ==
    /\ orderOf[o] \notin live
    /\ payer[o] # NoPayment => /\ orderOf[o] = InvoiceOf[payer[o]]
                               /\ orderOf[o] # NoCheckout

\* A claim ends as processed only if an order was made for the payment.
ProcessedHasOrder ==
    \A k \in Keys :
        claim[k] = "processed" => \E p \in Payments : KeyOf[p] = k /\ OrdersFor(p) # {}

Exclusive ==
    \A g, h \in Handlers :
        /\ pc[g] \in WorkSteps
        /\ pc[h] \in WorkSteps
        /\ Keyed(g) /\ Key(g) = Key(h)
        => g = h

IInv ==
    /\ TypeOK
    /\ \A h \in Handlers : HandlerOK(h)
    /\ \A o \in OrderIds : OrderOK(o)
    /\ Exclusive
    /\ CardNeedsOrder
    /\ ProcessedHasOrder
    /\ OneOrderPerCheckout

USE TipTopPayAssumption, NoCheckoutAssumption
    DEF Steps, WorkSteps, OrderSteps, CardSteps, Keyed

-----------------------------------------------------------------------------
LEMMA ErrorSteps ==
    /\ DOMAIN OnError = WorkSteps
    /\ \A s \in WorkSteps :
           /\ OnError[s] \in Steps
           /\ OnError[s] \in OrderSteps => s \in OrderSteps
           /\ OnError[s] \in CardSteps => s \in CardSteps
  BY DEF OnError

LEMMA InitIInv == Init => IInv
  <1> SUFFICES ASSUME Init PROVE IInv
    OBVIOUS
  <1> USE DEF Init, SaleorInit
  <1>1. TypeOK
    BY DEF TypeOK, SaleorTypeOK
  <1>2. \A o \in OrderIds : OrderOK(o)
    BY DEF OrderOK
  <1>3. (\A h \in Handlers : HandlerOK(h)) /\ Exclusive
    BY DEF HandlerOK, Exclusive
  <1>4. CardNeedsOrder /\ ProcessedHasOrder /\ OneOrderPerCheckout
    BY DEF CardNeedsOrder, ProcessedHasOrder, OneOrderPerCheckout
  <1>5. QED
    BY <1>1, <1>2, <1>3, <1>4 DEF IInv

-----------------------------------------------------------------------------
(* A step preserves the invariant.                                         *)

\* The orders, the cards and the rows stay as they are: nothing said about them
\* changes but what is said of the handlers.
LEMMA RowsKept ==
    ASSUME IInv, UNCHANGED <<live, orderOf, claim, cards, payer>>
    PROVE  /\ \A o \in OrderIds : OrderOK(o)'
           /\ CardNeedsOrder' /\ ProcessedHasOrder' /\ OneOrderPerCheckout'
  BY DEF IInv, OrderOK, CardNeedsOrder, ProcessedHasOrder, OneOrderPerCheckout, OrdersFor

\* The end of a request, wherever it is.
LEMMA LeaveKeepsIInv ==
    ASSUME IInv, NEW h \in Handlers, Leave(h),
           UNCHANGED <<saleorVars, rowVars, captured, payer>>,
           acked' \subseteq captured', faults' \in Nat
    PROVE  IInv'
  <1> USE DEF IInv, saleorVars, rowVars, Leave
  <1>1. TypeOK'
    BY DEF TypeOK, SaleorTypeOK
  <1>2. \A g \in Handlers : HandlerOK(g)'
    BY DEF TypeOK, HandlerOK, Key
  <1>3. Exclusive'
    BY DEF TypeOK, Exclusive, Key
  <1>4. QED
    BY <1>1, <1>2, <1>3, RowsKept

\* A handler goes on to a step that needs no more than the step before.
LEMMA MoveKeepsIInv ==
    ASSUME IInv, NEW h \in Handlers, NEW s \in Steps, NEW t \in Steps, Goto(h, s, t),
           UNCHANGED <<live, orderOf, claim, cards, created, gatewayVars, payer>>,
           paid' \subseteq OrderIds, alerted' \subseteq captured, faults' \in Nat,
           t \in WorkSteps => s \in WorkSteps,
           t \in OrderSteps => s \in OrderSteps,
           t \in CardSteps => s \in CardSteps
    PROVE  IInv'
  <1> USE DEF IInv, gatewayVars, Goto
  <1>1. TypeOK'
    BY DEF TypeOK, SaleorTypeOK
  <1>2. \A g \in Handlers : HandlerOK(g)'
    <2> SUFFICES ASSUME NEW g \in Handlers PROVE HandlerOK(g)'
      OBVIOUS
    <2>1. CASE g = h
      BY <2>1 DEF TypeOK, HandlerOK, Key
    <2>2. CASE g # h
      BY <2>2 DEF TypeOK, HandlerOK, Key
    <2>3. QED
      BY <2>1, <2>2
  <1>3. Exclusive'
    BY DEF TypeOK, Exclusive, Key
  <1>4. QED
    BY <1>1, <1>2, <1>3, RowsKept

\* The same, when the shop and the rows stay as they are.
LEMMA QuietMove ==
    ASSUME IInv, NEW h \in Handlers, NEW s \in Steps, NEW t \in Steps, Goto(h, s, t),
           UNCHANGED <<saleorVars, rowVars, created, gatewayVars, payer>>, faults' \in Nat,
           t \in WorkSteps => s \in WorkSteps,
           t \in OrderSteps => s \in OrderSteps,
           t \in CardSteps => s \in CardSteps
    PROVE  IInv'
  <1>1. paid' \subseteq OrderIds /\ alerted' \subseteq captured
    BY DEF IInv, TypeOK, SaleorTypeOK, saleorVars, rowVars
  <1>2. QED
    BY <1>1, MoveKeepsIInv DEF saleorVars, rowVars, gatewayVars

\* A callback without a key starts the work; it shares no claim with anybody.
LEMMA UnclaimedKeepsIInv ==
    ASSUME IInv, NEW h \in Handlers, GoUnclaimed(h)
    PROVE  IInv'
  <1> USE DEF IInv, saleorVars, rowVars, gatewayVars, GoUnclaimed, Goto
  <1>1. TypeOK'
    BY DEF TypeOK, SaleorTypeOK
  <1>2. \A g \in Handlers : HandlerOK(g)'
    <2> SUFFICES ASSUME NEW g \in Handlers PROVE HandlerOK(g)'
      OBVIOUS
    <2>1. CASE g = h
      BY <2>1 DEF TypeOK, HandlerOK, Key
    <2>2. CASE g # h
      BY <2>2 DEF TypeOK, HandlerOK, Key
    <2>3. QED
      BY <2>1, <2>2
  <1>3. Exclusive'
    BY DEF TypeOK, Exclusive, Key
  <1>4. QED
    BY <1>1, <1>2, <1>3, RowsKept

LEMMA GatewayKeepsIInv ==
    ASSUME IInv, NEW p \in Payments,
           Capture(p) \/ \E h \in Handlers : Deliver(h, p)
    PROVE  IInv'
  <1> USE DEF IInv, saleorVars, rowVars, handlerVars, gatewayVars, Capture, Deliver
  <1>1. TypeOK'
    BY DEF TypeOK, SaleorTypeOK
  <1>2. UNCHANGED <<live, orderOf, claim, cards, payer>>
    OBVIOUS
  <1>3. CASE Capture(p)
    <2>1. \A g \in Handlers : HandlerOK(g)'
      BY <1>3 DEF TypeOK, HandlerOK, Key
    <2>2. Exclusive'
      BY <1>3 DEF Exclusive, Key
    <2>3. QED
      BY <1>1, <1>2, <2>1, <2>2, RowsKept
  <1>4. ASSUME NEW h \in Handlers, Deliver(h, p) PROVE IInv'
    <2>1. \A g \in Handlers : HandlerOK(g)'
      BY <1>4 DEF TypeOK, HandlerOK, Key
    <2>2. Exclusive'
      BY <1>4 DEF TypeOK, Exclusive, Key
    <2>3. QED
      BY <1>1, <1>2, <2>1, <2>2, RowsKept
  <1>5. QED
    BY <1>3, <1>4

\* Winning the claim, or an insert whose answer is lost: no handler is at work on
\* the key, for its row would be there.
LEMMA ClaimKeepsIInv ==
    ASSUME IInv, NEW h \in Handlers, Claim(h) \/ ClaimLost(h)
    PROVE  IInv'
  <1> USE DEF IInv, saleorVars, rowVars, gatewayVars
  <1>1. /\ pc[h] = "claim" /\ payment[h] \in captured /\ Key(h) \in Keys
        /\ Keyed(h) /\ claim[Key(h)] = "absent"
        /\ claim' = [claim EXCEPT ![Key(h)] = "processing"]
        /\ UNCHANGED <<saleorVars, cards, alerted, gatewayVars, payer>>
        /\ faults' \in Nat
    BY DEF TypeOK, HandlerOK, Key, Claim, ClaimLost, Goto, SetClaim, Fault
  <1>2. \/ /\ pc' = [pc EXCEPT ![h] = "create"]
           /\ UNCHANGED <<payment, created>>
        \/ Leave(h)
    BY DEF Claim, ClaimLost, Goto
  <1>3. TypeOK'
    BY <1>1, <1>2 DEF TypeOK, SaleorTypeOK, Leave
  <1>4. \A g \in Handlers : pc[g] \in WorkSteps => Key(g) # Key(h)
    BY <1>1 DEF HandlerOK
  <1>5. \A g \in Handlers : HandlerOK(g)'
    <2> SUFFICES ASSUME NEW g \in Handlers PROVE HandlerOK(g)'
      OBVIOUS
    <2>1. CASE g = h
      BY <1>1, <1>2, <2>1 DEF TypeOK, HandlerOK, Key, Leave
    <2>2. CASE g # h
      BY <1>1, <1>2, <1>4, <2>2 DEF TypeOK, HandlerOK, Key, Leave
    <2>3. QED
      BY <2>1, <2>2
  <1>6. Exclusive'
    BY <1>1, <1>2, <1>4 DEF TypeOK, Exclusive, Key, Leave
  <1>7. (\A o \in OrderIds : OrderOK(o)') /\ CardNeedsOrder' /\ OneOrderPerCheckout'
    BY <1>1 DEF OrderOK, CardNeedsOrder, OrdersFor, OneOrderPerCheckout
  <1>8. ProcessedHasOrder'
    BY <1>1 DEF TypeOK, ProcessedHasOrder, OrdersFor
  <1>9. QED
    BY <1>3, <1>5, <1>6, <1>7, <1>8

\* A created order is the only one of its payment and its checkout.
LEMMA CreateKeepsIInv ==
    ASSUME IInv, NEW h \in Handlers, CreateOrder(h) \/ CreateLost(h)
    PROVE  IInv'
  <1> USE DEF IInv, saleorVars, rowVars, gatewayVars
  <1>1. PICK o \in OrderIds :
            /\ NewOrder(h, o)
            /\ \/ pc' = [pc EXCEPT ![h] = "record"] /\ created' = [created EXCEPT ![h] = o]
               \/ pc' = [pc EXCEPT ![h] = "alert"] /\ created' = created
    BY DEF CreateOrder, CreateLost, Goto
  <1>2. /\ pc[h] = "create" /\ payment[h] \in Payments
        /\ UNCHANGED <<payment, claim, cards, alerted, gatewayVars>>
        /\ faults' \in Nat
    BY DEF TypeOK, HandlerOK, CreateOrder, CreateLost, Goto, Fault
  <1>3. /\ InvoiceOf[payment[h]] \in live
        /\ orderOf[o] = NoCheckout
        /\ orderOf' = [orderOf EXCEPT ![o] = InvoiceOf[payment[h]]]
        /\ live' = live \ {InvoiceOf[payment[h]]}
        /\ paid' = paid
        /\ payer' = [payer EXCEPT ![o] = payment[h]]
    BY <1>1 DEF NewOrder, CreateFromCheckout
  <1>3a. Keyed(h) /\ claim[Key(h)] = "processing"
    BY <1>2, <1>3 DEF TypeOK, SaleorTypeOK, HandlerOK, Key
  <1>4. payer[o] = NoPayment
    BY <1>3 DEF TypeOK, OrderOK
  <1>5. \A q \in OrderIds : payer[q] # payment[h]
    BY <1>2, <1>3 DEF OrderOK
  <1>6. cards[payment[h]] = 0
    BY <1>2, <1>5 DEF TypeOK, CardNeedsOrder, OrdersFor
  <1>7. TypeOK'
    BY <1>1, <1>2, <1>3 DEF TypeOK, SaleorTypeOK
  <1>8. \A g \in Handlers : HandlerOK(g)'
    <2> SUFFICES ASSUME NEW g \in Handlers PROVE HandlerOK(g)'
      OBVIOUS
    <2>1. CASE g = h
      BY <1>1, <1>2, <1>3, <1>3a, <1>6, <2>1 DEF TypeOK, HandlerOK, Key
    <2>2. CASE g # h
      BY <1>1, <1>2, <1>3, <1>4, <2>2 DEF TypeOK, HandlerOK, Key
    <2>3. QED
      BY <2>1, <2>2
  <1>9. \A q \in OrderIds : OrderOK(q)'
    BY <1>2, <1>3 DEF TypeOK, SaleorTypeOK, OrderOK
  <1>10. Exclusive'
    BY <1>1, <1>2 DEF TypeOK, Exclusive, Key
  <1>11. \A p \in Payments : OrdersFor(p) \subseteq OrdersFor(p)'
    BY <1>2, <1>3, <1>4 DEF TypeOK, OrdersFor
  <1>12. CardNeedsOrder'
    BY <1>2, <1>11 DEF CardNeedsOrder
  <1>13. ProcessedHasOrder'
    BY <1>2, <1>11 DEF ProcessedHasOrder
  <1>14. OneOrderPerCheckout'
    BY <1>2, <1>3 DEF TypeOK, SaleorTypeOK, OrderOK, OneOrderPerCheckout
  <1>15. QED
    BY <1>7, <1>8, <1>9, <1>10, <1>12, <1>13, <1>14

\* The card is the payment's first.
LEMMA CardKeepsIInv ==
    ASSUME IInv, NEW h \in Handlers, Card(h)
    PROVE  IInv'
  <1> USE DEF IInv, saleorVars, rowVars, gatewayVars
  <1>1. /\ pc[h] = "card" /\ payment[h] \in Payments /\ Keyed(h)
        /\ cards[payment[h]] = 0
        /\ created[h] \in OrdersFor(payment[h])
    BY DEF TypeOK, HandlerOK, OrdersFor, Card, Goto
  <1>2. /\ cards' = [cards EXCEPT ![payment[h]] = 1]
        /\ pc' = [pc EXCEPT ![h] = "invoice"]
        /\ UNCHANGED <<saleorVars, claim, alerted, payment, created, gatewayVars, faults, payer>>
    BY <1>1 DEF TypeOK, Card, Goto, SaveCard
  <1>3. TypeOK'
    BY <1>1, <1>2 DEF TypeOK, SaleorTypeOK
  <1>4. \A g \in Handlers : HandlerOK(g)'
    <2> SUFFICES ASSUME NEW g \in Handlers PROVE HandlerOK(g)'
      OBVIOUS
    <2>1. CASE g = h
      BY <1>1, <1>2, <2>1 DEF TypeOK, HandlerOK, Key
    <2>2. CASE g # h
      <3>1. pc[g] \in CardSteps => payment[g] # payment[h]
        BY <1>1, <2>2 DEF Exclusive, Key
      <3>2. QED
        BY <1>1, <1>2, <2>2, <3>1 DEF TypeOK, HandlerOK, Key
    <2>3. QED
      BY <2>1, <2>2
  <1>5. Exclusive'
    BY <1>1, <1>2 DEF TypeOK, Exclusive, Key
  <1>6. (\A o \in OrderIds : OrderOK(o)') /\ ProcessedHasOrder' /\ OneOrderPerCheckout'
    BY <1>2 DEF OrderOK, ProcessedHasOrder, OrdersFor, OneOrderPerCheckout
  <1>7. CardNeedsOrder'
    BY <1>1, <1>2 DEF TypeOK, CardNeedsOrder, OrdersFor
  <1>8. QED
    BY <1>3, <1>4, <1>5, <1>6, <1>7

\* The end of the try block closes the claim, that of the catch block gives it
\* back; no other handler is at work on the key.
LEMMA SetClaimKeepsIInv ==
    ASSUME IInv, NEW h \in Handlers, Mark(h) \/ Release(h)
    PROVE  IInv'
  <1> USE DEF IInv, saleorVars, rowVars, gatewayVars
  <1>1. PICK status \in {"absent", "processed"} :
            /\ claim' = IF Keyed(h) THEN [claim EXCEPT ![Key(h)] = status] ELSE claim
            /\ pc[h] \in {"mark", "release"}
            /\ status = "processed" => pc[h] = "mark"
    BY DEF Mark, Release, Goto, SetClaim
  <1>2. /\ pc' \in {[pc EXCEPT ![h] = "ok"], [pc EXCEPT ![h] = "failed"]}
        /\ UNCHANGED <<saleorVars, cards, alerted, payment, created, gatewayVars, faults, payer>>
    BY DEF Mark, Release, Goto, SetClaim
  <1>3. payment[h] \in Payments /\ (Keyed(h) => Key(h) \in Keys)
    BY <1>1 DEF TypeOK, HandlerOK, Key
  <1>4. TypeOK'
    BY <1>1, <1>2 DEF TypeOK, SaleorTypeOK
  <1>5. \A g \in Handlers \ {h} : pc[g] \in WorkSteps /\ Keyed(h) => Key(g) # Key(h)
    BY <1>1 DEF Exclusive
  <1>6. \A g \in Handlers : HandlerOK(g)'
    <2> SUFFICES ASSUME NEW g \in Handlers PROVE HandlerOK(g)'
      OBVIOUS
    <2>1. CASE g = h
      BY <1>1, <1>2, <2>1 DEF TypeOK, HandlerOK, Key
    <2>2. CASE g # h
      BY <1>1, <1>2, <1>5, <2>2 DEF TypeOK, HandlerOK, Key
    <2>3. QED
      BY <2>1, <2>2
  <1>7. Exclusive'
    BY <1>1, <1>2 DEF TypeOK, Exclusive, Key
  <1>8. (\A o \in OrderIds : OrderOK(o)') /\ CardNeedsOrder' /\ OneOrderPerCheckout'
    BY <1>2 DEF OrderOK, CardNeedsOrder, OrdersFor, OneOrderPerCheckout
  <1>9. status = "processed" => OrdersFor(payment[h]) # {}
    BY <1>1 DEF HandlerOK, OrdersFor
  <1>10. ProcessedHasOrder'
    BY <1>1, <1>2, <1>3, <1>9 DEF TypeOK, ProcessedHasOrder, OrdersFor, Key
  <1>11. QED
    BY <1>4, <1>6, <1>7, <1>8, <1>10

-----------------------------------------------------------------------------
LEMMA NextIInv == IInv /\ [Next]_vars => IInv'
  <1> SUFFICES ASSUME IInv, [Next]_vars PROVE IInv'
    OBVIOUS
  <1> USE DEF saleorVars, rowVars, handlerVars, gatewayVars
  <1>1. CASE UNCHANGED vars
    <2>1. TypeOK' /\ Exclusive' /\ \A h \in Handlers : HandlerOK(h)'
      BY <1>1 DEF vars, IInv, TypeOK, SaleorTypeOK, Exclusive, HandlerOK, Key
    <2>2. QED
      BY <1>1, <2>1, RowsKept DEF vars, IInv
  <1>2. ASSUME NEW h \in Handlers, AnswerTrue(h) \/ AnswerFalse(h) \/ Crash(h)
        PROVE  IInv'
    <2>1. /\ Leave(h) /\ UNCHANGED <<saleorVars, rowVars, captured, payer>>
          /\ acked' \subseteq captured' /\ faults' \in Nat
      BY <1>2 DEF IInv, TypeOK, HandlerOK, AnswerTrue, AnswerFalse, Crash, Fault
    <2>2. QED
      BY <2>1, LeaveKeepsIInv
  <1>3. ASSUME NEW h \in Handlers, SkipDuplicate(h) PROVE IInv'
    BY <1>3, MoveKeepsIInv DEF SkipDuplicate, IInv, TypeOK, SaleorTypeOK
  <1>3a. ASSUME NEW h \in Handlers, GoUnclaimed(h) PROVE IInv'
    BY <1>3a, UnclaimedKeepsIInv
  <1>4. ASSUME NEW h \in Handlers, CreateRefused(h) PROVE IInv'
    BY <1>4, MoveKeepsIInv DEF CreateRefused, IInv, TypeOK, SaleorTypeOK
  <1>5. ASSUME NEW h \in Handlers, Record(h) PROVE IInv'
    <2>1. created[h] \in OrderIds /\ paid \subseteq OrderIds /\ Goto(h, "record", "user")
      BY <1>5 DEF Record, Goto, IInv, TypeOK, SaleorTypeOK, HandlerOK
    <2>2. paid' \subseteq OrderIds
      BY <1>5, <2>1 DEF Record, RecordCharge
    <2>3. QED
      BY <1>5, <2>1, <2>2, MoveKeepsIInv DEF Record, RecordCharge, IInv, TypeOK
  <1>6. ASSUME NEW h \in Handlers, FindUser(h) PROVE IInv'
    <2>1. /\ \E next \in {"card", "invoice"} : Goto(h, "user", next)
          /\ UNCHANGED <<saleorVars, rowVars, created, gatewayVars, payer>>
          /\ faults' \in Nat
      BY <1>6 DEF FindUser, IInv, TypeOK
    <2>2. QED
      BY <2>1, QuietMove DEF Steps, WorkSteps, OrderSteps, CardSteps
  <1>7. ASSUME NEW h \in Handlers, UpdateInvoice(h) PROVE IInv'
    BY <1>7, MoveKeepsIInv DEF UpdateInvoice, IInv, TypeOK, SaleorTypeOK
  <1>8. ASSUME NEW h \in Handlers, Alert(h) PROVE IInv'
    <2>1. alerted' \subseteq captured /\ Goto(h, "alert", "release")
      BY <1>8 DEF Alert, SendAlert, Goto, IInv, TypeOK, HandlerOK
    <2>2. QED
      BY <1>8, <2>1, MoveKeepsIInv DEF Alert, SendAlert, IInv, TypeOK, SaleorTypeOK
  <1>9. ASSUME NEW h \in Handlers, Throw(h) PROVE IInv'
    <2>1. /\ pc[h] \in WorkSteps /\ OnError[pc[h]] \in Steps
          /\ Goto(h, pc[h], OnError[pc[h]])
          /\ OnError[pc[h]] \in OrderSteps => pc[h] \in OrderSteps
          /\ OnError[pc[h]] \in CardSteps => pc[h] \in CardSteps
      BY <1>9, ErrorSteps DEF Throw
    <2>2. QED
      <3>1. /\ UNCHANGED <<saleorVars, rowVars, created, gatewayVars, payer>>
            /\ faults' \in Nat
        BY <1>9 DEF Throw, Fault, IInv, TypeOK
      <3>2. pc[h] \in Steps
        BY <2>1 DEF WorkSteps, Steps
      <3>3. QED
        BY <2>1, <3>1, <3>2, QuietMove
  <1>10. CASE Next
    BY <1>2, <1>3, <1>3a, <1>4, <1>5, <1>6, <1>7, <1>8, <1>9, <1>10, GatewayKeepsIInv,
       ClaimKeepsIInv, CreateKeepsIInv, CardKeepsIInv, SetClaimKeepsIInv
       DEF Next, Step, FaultStep
  <1>11. QED
    BY <1>1, <1>10

LEMMA Invariance == Spec => []IInv
  BY InitIInv, NextIInv, PTL DEF Spec

\* Every row, payment and handler is of its type, whatever the handler of
\* payPayment meets.
THEOREM TypeCorrect == Spec => []TypeOK
  BY Invariance, PTL DEF IInv

\* One payPayment at a time is past the claim of a key, for any number of
\* concurrent and repeated callbacks.
THEOREM ClaimExclusive == Spec => []ClaimIsExclusive
  <1>1. IInv => ClaimIsExclusive
    BY ErrorSteps DEF IInv, Exclusive, ClaimIsExclusive
  <1>2. QED
    BY <1>1, Invariance, PTL

\* A payment saves one card at most, and after its order was made: through every
\* retry of payPayment and every error in it.
THEOREM CardAfterOrder == Spec => []CardNeedsOrder
  BY Invariance, PTL DEF IInv

\* Only a payment with an order is marked processed.
THEOREM ProcessedIsOrdered == Spec => []ProcessedHasOrder
  BY Invariance, PTL DEF IInv

-----------------------------------------------------------------------------
(* What a step does to the orders                                          *)

\* Only orders that were made are paid.
PaidOK == \A o \in paid : payer[o] \in Payments

\* A creation makes the first order of its payment and no other payment's.
LEMMA CreationOrders ==
    ASSUME IInv, PaidOK, NEW h \in Handlers, CreateOrder(h) \/ CreateLost(h)
    PROVE  /\ pc[h] = "create" /\ payment[h] \in Payments
           /\ InvoiceOf[payment[h]] \in live
           /\ OrdersFor(payment[h]) = {}
           /\ OrdersFor(payment[h])' # {}
           /\ \A p \in Payments \ {payment[h]} : OrdersFor(p)' = OrdersFor(p)
           /\ UNCHANGED <<payment, claim, cards, alerted, gatewayVars, paid>>
           /\ OrdersFor(payment[h])' \cap paid = {}
           /\ \A g \in Handlers \ {h} : pc'[g] = pc[g]
           /\ CreateOrder(h) => pc'[h] = "record"
  <1> USE DEF IInv, saleorVars, rowVars, gatewayVars
  <1>1. PICK o \in OrderIds : NewOrder(h, o)
    BY DEF CreateOrder, CreateLost
  <1>2. /\ pc[h] = "create" /\ payment[h] \in Payments
        /\ UNCHANGED <<payment, claim, cards, alerted, gatewayVars>>
        /\ \A g \in Handlers \ {h} : pc'[g] = pc[g]
        /\ CreateOrder(h) => pc'[h] = "record"
    BY DEF TypeOK, HandlerOK, CreateOrder, CreateLost, Goto
  <1>3. /\ InvoiceOf[payment[h]] \in live
        /\ orderOf[o] = NoCheckout
        /\ paid' = paid
        /\ payer' = [payer EXCEPT ![o] = payment[h]]
    BY <1>1 DEF NewOrder, CreateFromCheckout
  <1>4. payer[o] = NoPayment
    BY <1>3 DEF TypeOK, OrderOK
  <1>5. OrdersFor(payment[h]) = {}
    BY <1>2, <1>3 DEF OrderOK, OrdersFor
  <1>6. \A q \in OrderIds : payer'[q] = IF q = o THEN payment[h] ELSE payer[q]
    BY <1>3 DEF TypeOK
  <1>7. OrdersFor(payment[h])' = {o}
    BY <1>2, <1>5, <1>6 DEF OrdersFor
  <1>8. \A p \in Payments \ {payment[h]} : OrdersFor(p)' = OrdersFor(p)
    <2> SUFFICES ASSUME NEW p \in Payments \ {payment[h]}
                 PROVE  \A q \in OrderIds : payer'[q] = p <=> payer[q] = p
      BY DEF OrdersFor
    <2>1. QED
      BY <1>4, <1>6
  <1>9. o \notin paid
    BY <1>4 DEF PaidOK
  <1>10. QED
    BY <1>2, <1>3, <1>5, <1>7, <1>8, <1>9

\* Every other step leaves the orders as they are.
LEMMA OrdersKept ==
    ASSUME UNCHANGED payer
    PROVE  \A p \in Payments : OrdersFor(p)' = OrdersFor(p)
  BY DEF OrdersFor

LEMMA NextPaidOK == IInv /\ PaidOK /\ [Next]_vars => PaidOK'
  <1> SUFFICES ASSUME IInv, PaidOK, [Next]_vars PROVE PaidOK'
    OBVIOUS
  <1> USE DEF saleorVars
  <1>1. ASSUME NEW h \in Handlers, CreateOrder(h) \/ CreateLost(h) PROVE PaidOK'
    <2>1. PICK o \in OrderIds : payer' = [payer EXCEPT ![o] = payment[h]] /\ paid' = paid
      BY <1>1 DEF CreateOrder, CreateLost, NewOrder, CreateFromCheckout
    <2>2. payment[h] \in Payments /\ payer \in [OrderIds -> Payments \cup {NoPayment}]
      BY <1>1, CreationOrders DEF IInv, TypeOK
    <2>3. \A q \in OrderIds : payer'[q] = IF q = o THEN payment[h] ELSE payer[q]
      BY <2>1, <2>2
    <2>4. paid \subseteq OrderIds
      BY DEF IInv, TypeOK, SaleorTypeOK
    <2>5. QED
      BY <2>1, <2>2, <2>3, <2>4 DEF PaidOK
  <1>2. ASSUME NEW h \in Handlers, Record(h) PROVE PaidOK'
    <2>1. payer[created[h]] \in Payments
      BY <1>2 DEF Record, Goto, IInv, TypeOK, HandlerOK
    <2>2. UNCHANGED payer /\ paid' \subseteq paid \cup {created[h]}
      BY <1>2 DEF Record, RecordCharge
    <2>3. QED
      BY <2>1, <2>2 DEF PaidOK
  <1>3. CASE UNCHANGED <<paid, payer>>
    BY <1>3 DEF PaidOK
  <1>4. QED
    BY <1>1, <1>2, <1>3
       DEF Next, Step, FaultStep, vars, Capture, Deliver, Claim, GoUnclaimed, SkipDuplicate,
           CreateRefused, FindUser, Card, UpdateInvoice, Mark, Alert, Release, AnswerTrue, AnswerFalse,
           Throw, ClaimLost, Crash, SetClaim, SaveCard, SendAlert

LEMMA PaidInvariance == Spec => [](IInv /\ PaidOK)
  <1>1. Init => PaidOK
    BY DEF Init, SaleorInit, PaidOK
  <1>2. QED
    BY <1>1, NextPaidOK, Invariance, PTL DEF Spec

-----------------------------------------------------------------------------
(* When an alert is true                                                   *)

FreshSteps == {"create", "alert", "release"}

Unordered(k) == \A p \in Payments : KeyOf[p] = k => OrdersFor(p) = {}

\* A payment without a key names no checkout, so no order is made for it.
LEMMA NoKeyUnordered ==
    ASSUME IInv PROVE Unordered(NoKey)
  BY DEF IInv, TypeOK, OrderOK, Unordered, OrdersFor

\* Where the claim is free, and where a handler is about to make the order or has
\* failed to, there is no order of the payment.
FreshOK ==
    /\ \A k \in Keys : claim[k] = "absent" => Unordered(k)
    /\ \A h \in Handlers : pc[h] \in FreshSteps => Unordered(Key(h))

\* The steps after the order that reach the catch block, and a creation that only
\* looked failed.
Misleading == {<<"throw", "user">>, <<"throw", "invoice">>, <<"lost", "create">>}

\* A step that makes no order: it frees a claim only at the end of the catch block
\* and comes to a fresh step only from another or by winning the claim.
LEMMA FreshKept ==
    ASSUME IInv, FreshOK, UNCHANGED payer,
           \A k \in Keys : claim'[k] = "absent" =>
               \/ claim[k] = "absent"
               \/ \E h \in Handlers : pc[h] = "release" /\ Key(h) = k,
           \A h \in Handlers : pc'[h] \in FreshSteps =>
               /\ payment'[h] = payment[h]
               /\ \/ pc[h] \in FreshSteps
                  \/ pc[h] = "claim" /\ (Keyed(h) => claim[Key(h)] = "absent")
    PROVE  FreshOK'
  <1>1. \A k \in Keys \cup {NoKey} : Unordered(k) => Unordered(k)'
    BY OrdersKept DEF Unordered
  <1>2. \A k \in Keys : claim'[k] = "absent" => Unordered(k)'
    BY <1>1 DEF FreshOK, FreshSteps
  <1>3. ASSUME NEW h \in Handlers, pc'[h] \in FreshSteps PROVE Unordered(Key(h))'
    <2>1. pc[h] # "idle"
      BY <1>3 DEF FreshSteps
    <2>2. payment[h] \in Payments /\ Key(h) \in Keys \cup {NoKey}
      BY <2>1 DEF IInv, TypeOK, HandlerOK, Key
    <2>3. Unordered(Key(h))
      BY <1>3, <2>2, NoKeyUnordered DEF FreshOK
    <2>4. Key(h)' = Key(h)
      BY <1>3 DEF Key
    <2>5. QED
      BY <1>1, <2>2, <2>3, <2>4 DEF Unordered
  <1>4. QED
    BY <1>2, <1>3 DEF FreshOK

LEMMA NextFresh ==
    ASSUME Misleading \cap Faults = {}
    PROVE  IInv /\ PaidOK /\ FreshOK /\ [Next]_vars => FreshOK'
  <1> SUFFICES ASSUME IInv, PaidOK, FreshOK, [Next]_vars PROVE FreshOK'
    OBVIOUS
  <1> USE DEF FreshSteps, saleorVars, rowVars, handlerVars, gatewayVars
  <1>0. /\ pc \in [Handlers -> Steps \cup {"idle"}]
        /\ payment \in [Handlers -> Payments \cup {NoPayment}]
        /\ claim \in [Keys -> {"absent", "processing", "processed"}]
    BY DEF IInv, TypeOK
  <1>1. ASSUME NEW h \in Handlers, CreateOrder(h) PROVE FreshOK'
    <2>1. /\ pc[h] = "create" /\ pc'[h] = "record" /\ UNCHANGED <<payment, claim>>
          /\ \A g \in Handlers \ {h} : pc'[g] = pc[g]
          /\ \A p \in Payments \ {payment[h]} : OrdersFor(p)' = OrdersFor(p)
      BY <1>1, CreationOrders
    <2>2. \A k \in Keys \cup {NoKey} : k # Key(h) /\ Unordered(k) => Unordered(k)'
      BY <2>1 DEF Unordered, Key
    <2>3. Keyed(h) /\ claim[Key(h)] = "processing"
      BY <1>1, <2>1, CreationOrders DEF IInv, TypeOK, SaleorTypeOK, HandlerOK, Key
    <2>4. \A g \in Handlers \ {h} :
               pc[g] \in FreshSteps => Key(g) # Key(h) /\ Key(g) \in Keys \cup {NoKey}
      BY <2>1, <2>3 DEF IInv, TypeOK, Exclusive, HandlerOK, Key
    <2>5. ASSUME NEW g \in Handlers, pc'[g] \in FreshSteps PROVE Unordered(Key(g))'
      <3>1. g # h /\ pc[g] \in FreshSteps
        BY <2>1, <2>5
      <3>2. Unordered(Key(g)) /\ Key(g)' = Key(g)
        BY <2>1, <3>1 DEF FreshOK, Key
      <3>3. QED
        BY <2>2, <2>4, <3>1, <3>2 DEF Unordered
    <2>6. QED
      BY <2>1, <2>2, <2>3, <2>5 DEF FreshOK
  <1>2. ASSUME NEW h \in Handlers, CreateLost(h) PROVE FALSE
    BY <1>2 DEF CreateLost, Goto, Fault, Misleading
  <1>3. ASSUME NEW h \in Handlers, Throw(h) PROVE FreshOK'
    <2>1. /\ UNCHANGED <<payer, claim, payment>>
          /\ <<"throw", pc[h]>> \in Faults
          /\ pc' = [pc EXCEPT ![h] = OnError[pc[h]]]
          /\ pc[h] \in WorkSteps
      BY <1>3, ErrorSteps DEF Throw, Goto, Fault
    <2>2. pc[h] # "user" /\ pc[h] # "invoice"
      BY <2>1 DEF Misleading
    <2>3. OnError[pc[h]] \in FreshSteps => pc[h] \in FreshSteps
      BY <2>1, <2>2 DEF OnError
    <2>4. QED
      BY <1>0, <2>1, <2>3, FreshKept
  <1>4. ASSUME NEW h \in Handlers,
               Claim(h) \/ ClaimLost(h) \/ Mark(h) \/ Release(h)
        PROVE  FreshOK'
    <2>1. Keyed(h) => Key(h) \in Keys
      BY <1>4 DEF IInv, TypeOK, HandlerOK, Key, Claim, ClaimLost, Mark, Release, Goto
    <2>2. PICK status :
              /\ claim' = IF Keyed(h) THEN [claim EXCEPT ![Key(h)] = status] ELSE claim
              /\ status = "absent" => pc[h] = "release"
      BY <1>4 DEF Claim, ClaimLost, Mark, Release, SetClaim, Goto
    <2>3. UNCHANGED payer
      BY <1>4 DEF Claim, ClaimLost, Mark, Release
    <2>4. \A k \in Keys : claim'[k] = "absent" =>
               \/ claim[k] = "absent"
               \/ \E g \in Handlers : pc[g] = "release" /\ Key(g) = k
      BY <1>0, <2>1, <2>2
    <2>5. \A g \in Handlers : pc'[g] \in FreshSteps =>
               /\ payment'[g] = payment[g]
               /\ \/ pc[g] \in FreshSteps
                  \/ pc[g] = "claim" /\ (Keyed(g) => claim[Key(g)] = "absent")
      BY <1>0, <1>4 DEF Claim, ClaimLost, Mark, Release, Goto, Leave
    <2>6. QED
      BY <2>3, <2>4, <2>5, FreshKept
  <1>5. ASSUME NEW h \in Handlers,
               \/ SkipDuplicate(h) \/ CreateRefused(h) \/ Record(h) \/ FindUser(h)
               \/ Card(h) \/ UpdateInvoice(h) \/ Alert(h)
               \/ AnswerTrue(h) \/ AnswerFalse(h) \/ Crash(h)
               \/ \E p \in Payments : Deliver(h, p)
        PROVE  FreshOK'
    <2>1. UNCHANGED <<payer, claim>>
      BY <1>5 DEF SkipDuplicate, CreateRefused, Record, RecordCharge, FindUser, Card, SaveCard,
                  UpdateInvoice, Alert, SendAlert, AnswerTrue, AnswerFalse, Crash, Deliver
    <2>2. \A g \in Handlers : pc'[g] \in FreshSteps =>
               payment'[g] = payment[g] /\ pc[g] \in FreshSteps
      BY <1>0, <1>5
         DEF SkipDuplicate, CreateRefused, Record, FindUser, Card, UpdateInvoice, Alert,
             AnswerTrue, AnswerFalse, Crash, Deliver, Goto, Leave
    <2>3. QED
      BY <2>1, <2>2, FreshKept
  <1>5a. ASSUME NEW h \in Handlers, GoUnclaimed(h) PROVE FreshOK'
    <2>1. UNCHANGED <<payer, claim, payment>> /\ pc[h] = "claim" /\ ~ Keyed(h)
          /\ \A g \in Handlers \ {h} : pc'[g] = pc[g]
      BY <1>0, <1>5a DEF GoUnclaimed, Goto
    <2>2. QED
      BY <2>1, FreshKept
  <1>6. ASSUME NEW p \in Payments, Capture(p) PROVE FreshOK'
    BY <1>6, FreshKept DEF Capture
  <1>7. CASE UNCHANGED vars
    BY <1>7, FreshKept DEF vars
  <1>8. QED
    BY <1>1, <1>2, <1>3, <1>4, <1>5, <1>5a, <1>6, <1>7 DEF Next, Step, FaultStep

\* "Money captured but the order could not be created" is true of every alert,
\* over any retries, crashes and other faults, but for three: the user lookup or
\* the invoice update throwing after the order was made, and a creation that only
\* looked failed.
THEOREM AlertIsTrue == Misleading \cap Faults = {} => (Spec => AlertMeansNoOrder)
  <1> SUFFICES ASSUME Misleading \cap Faults = {} PROVE Spec => AlertMeansNoOrder
    OBVIOUS
  <1>1. Init => FreshOK
    BY DEF Init, FreshOK, FreshSteps, Unordered, OrdersFor
  <1>2. ASSUME IInv, FreshOK, [Next]_vars
        PROVE  [\A p \in alerted' \ alerted : OrdersFor(p) = {}]_vars
    <2> SUFFICES ASSUME NEW p \in alerted' \ alerted PROVE OrdersFor(p) = {}
      OBVIOUS
    <2>1. PICK h \in Handlers : Alert(h)
      BY <1>2
         DEF Next, Step, FaultStep, vars, rowVars, Capture, Deliver, Claim, GoUnclaimed,
             SkipDuplicate, CreateOrder, CreateRefused, Record, RecordCharge, FindUser, Card,
             UpdateInvoice, Mark, Release, AnswerTrue, AnswerFalse, Throw, ClaimLost, CreateLost,
             Crash, SetClaim, SaveCard
    <2>2. p = payment[h] /\ pc[h] = "alert"
      BY <2>1 DEF Alert, SendAlert, Goto
    <2>3. p \in Payments
      BY <1>2, <2>2 DEF IInv, TypeOK, HandlerOK
    <2>4. QED
      BY <1>2, <2>2, <2>3 DEF FreshOK, FreshSteps, Unordered, Key
  <1>3. QED
    BY <1>1, <1>2, NextFresh, PaidInvariance, PTL DEF Spec, AlertMeansNoOrder

-----------------------------------------------------------------------------
(* What the gateway's last answer leaves                                   *)

\* What ends a handler that has the claim and no order, or keeps it from giving
\* the claim back; and a claim that only looked failed.
Stranding == {<<"crash", s>> : s \in FreshSteps}
                 \cup {<<"throw", "release">>, <<"lost", "claim">>}

AtWork(k) == \E h \in Handlers : pc[h] \in WorkSteps /\ Key(h) = k

\* A claim that nobody works on belongs to a payment with an order: it is only
\* not marked.
OnlyUnmarkedLinger ==
    \A k \in Keys : claim[k] = "processing" => AtWork(k) \/ ~ Unordered(k)

\* What a step needs to see to for the claims.
LEMMA WorkKept ==
    ASSUME IInv, OnlyUnmarkedLinger, [Next]_vars,
           \A k \in Keys : ~ Unordered(k) => ~ Unordered(k)',
           \A k \in Keys : claim'[k] = "processing" /\ claim[k] # "processing" => AtWork(k)',
           \A k \in Keys : claim'[k] = "processing" /\ AtWork(k) /\ Unordered(k) => AtWork(k)'
    PROVE  OnlyUnmarkedLinger'
  BY DEF OnlyUnmarkedLinger

\* No step takes an order away.
LEMMA OrdersStay ==
    ASSUME IInv, PaidOK, [Next]_vars, NEW p \in Payments, OrdersFor(p) # {}
    PROVE  OrdersFor(p)' # {}
  <1>1. ASSUME NEW h \in Handlers, CreateOrder(h) \/ CreateLost(h) PROVE OrdersFor(p)' # {}
    <2>1. p # payment[h]
      BY <1>1, CreationOrders
    <2>2. QED
      BY <1>1, <2>1, CreationOrders
  <1>2. CASE UNCHANGED payer
    BY <1>2, OrdersKept
  <1>3. QED
    BY <1>1, <1>2
       DEF Next, Step, FaultStep, vars, Capture, Deliver, Claim, GoUnclaimed, SkipDuplicate,
           CreateRefused, Record, FindUser, Card, UpdateInvoice, Mark, Alert, Release, AnswerTrue,
           AnswerFalse, Throw, ClaimLost, Crash

LEMMA NextLinger ==
    ASSUME Stranding \cap Faults = {}
    PROVE  IInv /\ PaidOK /\ OnlyUnmarkedLinger /\ [Next]_vars => OnlyUnmarkedLinger'
  <1> SUFFICES ASSUME IInv, PaidOK, OnlyUnmarkedLinger, [Next]_vars PROVE OnlyUnmarkedLinger'
    OBVIOUS
  <1> USE DEF FreshSteps, saleorVars, rowVars, handlerVars, gatewayVars
  <1>0. /\ pc \in [Handlers -> Steps \cup {"idle"}]
        /\ payment \in [Handlers -> Payments \cup {NoPayment}]
        /\ claim \in [Keys -> {"absent", "processing", "processed"}]
    BY DEF IInv, TypeOK
  <1>1. \A k \in Keys : ~ Unordered(k) => ~ Unordered(k)'
    BY OrdersStay DEF Unordered
  <1>2. ASSUME NEW h \in Handlers, UNCHANGED <<claim, payment>>,
               \A g \in Handlers \ {h} : pc'[g] = pc[g],
               pc[h] \in WorkSteps /\ Unordered(Key(h)) => pc'[h] \in WorkSteps
        PROVE  OnlyUnmarkedLinger'
    <2>1. ASSUME NEW k \in Keys, AtWork(k), Unordered(k) PROVE AtWork(k)'
      <3>1. PICK g \in Handlers : pc[g] \in WorkSteps /\ Key(g) = k
        BY <2>1 DEF AtWork
      <3>2. pc'[g] \in WorkSteps /\ Key(g)' = k
        BY <1>2, <2>1, <3>1 DEF Key
      <3>3. QED
        BY <3>2 DEF AtWork
    <2>2. QED
      BY <1>1, <1>2, <2>1, WorkKept
  <1>3. ASSUME NEW h \in Handlers, pc[h] \in OrderSteps PROVE ~ Unordered(Key(h))
    BY <1>3 DEF IInv, TypeOK, HandlerOK, Unordered, OrdersFor, Key
  <1>4. ASSUME NEW h \in Handlers, CreateOrder(h) \/ CreateLost(h) PROVE OnlyUnmarkedLinger'
    <2>1. /\ UNCHANGED <<claim, payment>>
          /\ \A g \in Handlers \ {h} : pc'[g] = pc[g]
          /\ pc'[h] \in WorkSteps
      BY <1>0, <1>4 DEF CreateOrder, CreateLost, Goto
    <2>2. QED
      BY <1>2, <2>1
  <1>5. ASSUME NEW h \in Handlers, Claim(h) PROVE OnlyUnmarkedLinger'
    <2>1. /\ Key(h) \in Keys /\ pc[h] = "claim"
          /\ claim' = [claim EXCEPT ![Key(h)] = "processing"]
          /\ pc' = [pc EXCEPT ![h] = "create"] /\ UNCHANGED payment
      BY <1>5 DEF IInv, TypeOK, HandlerOK, Key, Claim, SetClaim, Goto
    <2>2. pc'[h] = "create" /\ \A g \in Handlers \ {h} : pc'[g] = pc[g]
      BY <1>0, <2>1
    <2>3. \A g \in Handlers : Key(g)' = Key(g)
      BY <2>1 DEF Key
    <2>4. AtWork(Key(h))'
      BY <2>2, <2>3 DEF AtWork
    <2>5. \A k \in Keys : AtWork(k) => AtWork(k)'
      BY <2>1, <2>2, <2>3 DEF AtWork
    <2>6. \A k \in Keys : claim'[k] = "processing" /\ claim[k] # "processing" => k = Key(h)
      BY <1>0, <2>1
    <2>7. QED
      BY <1>1, <2>1, <2>3, <2>4, <2>5, <2>6, WorkKept
  <1>6. ASSUME NEW h \in Handlers, Mark(h) \/ Release(h) PROVE OnlyUnmarkedLinger'
    <2>1. /\ Keyed(h) => Key(h) \in Keys
          /\ UNCHANGED payment
          /\ \A g \in Handlers \ {h} : pc'[g] = pc[g]
      BY <1>0, <1>6 DEF IInv, TypeOK, HandlerOK, Key, Mark, Release, Goto
    <2>2. PICK status \in {"absent", "processed"} :
              claim' = IF Keyed(h) THEN [claim EXCEPT ![Key(h)] = status] ELSE claim
      BY <1>6 DEF Mark, Release, SetClaim
    <2>3. \A k \in Keys : claim'[k] = "processing" => claim[k] = "processing" /\ k # Key(h)
      BY <1>0, <2>1, <2>2
    <2>4. \A k \in Keys : k # Key(h) /\ AtWork(k) => AtWork(k)'
      BY <2>1 DEF AtWork, Key
    <2>5. QED
      BY <1>1, <2>3, <2>4, WorkKept
  <1>7. ASSUME NEW h \in Handlers,
               \/ GoUnclaimed(h) \/ SkipDuplicate(h) \/ CreateRefused(h) \/ Record(h)
               \/ FindUser(h) \/ Card(h) \/ UpdateInvoice(h) \/ Alert(h)
        PROVE  OnlyUnmarkedLinger'
    <2>1. /\ UNCHANGED <<claim, payment>>
          /\ \A g \in Handlers \ {h} : pc'[g] = pc[g]
          /\ pc[h] \in WorkSteps => pc'[h] \in WorkSteps
      BY <1>0, <1>7 DEF GoUnclaimed, SkipDuplicate, CreateRefused, Record, RecordCharge,
                        FindUser, Card, SaveCard, UpdateInvoice, Alert, SendAlert, Goto
    <2>2. QED
      BY <1>2, <2>1
  <1>8. ASSUME NEW h \in Handlers, Throw(h) PROVE OnlyUnmarkedLinger'
    <2>1. /\ UNCHANGED <<claim, payment>> /\ <<"throw", pc[h]>> \in Faults
          /\ pc' = [pc EXCEPT ![h] = OnError[pc[h]]] /\ pc[h] \in WorkSteps
      BY <1>8, ErrorSteps DEF Throw, Goto, Fault
    <2>2. pc[h] # "release"
      BY <2>1 DEF Stranding
    <2>3. pc[h] = "mark" \/ OnError[pc[h]] \in WorkSteps
      BY <2>1, <2>2 DEF OnError
    <2>4. pc[h] = "mark" => ~ Unordered(Key(h))
      BY <1>3
    <2>5. (\A g \in Handlers \ {h} : pc'[g] = pc[g]) /\ pc'[h] = OnError[pc[h]]
      BY <1>0, <2>1
    <2>6. QED
      BY <1>2, <2>1, <2>3, <2>4, <2>5
  <1>9. ASSUME NEW h \in Handlers, Crash(h) \/ AnswerTrue(h) \/ AnswerFalse(h)
        PROVE  OnlyUnmarkedLinger'
    <2>1. /\ Leave(h) /\ UNCHANGED claim
          /\ pc[h] \in WorkSteps => <<"crash", pc[h]>> \in Faults
      BY <1>9 DEF Crash, AnswerTrue, AnswerFalse, Fault
    <2>2. pc[h] \in WorkSteps => ~ Unordered(Key(h))
      BY <1>3, <2>1 DEF Stranding
    <2>3. \A g \in Handlers \ {h} : pc'[g] = pc[g] /\ Key(g)' = Key(g)
      BY <1>0, <2>1 DEF Leave, Key
    <2>4. \A k \in Keys : AtWork(k) /\ Unordered(k) => AtWork(k)'
      BY <2>2, <2>3 DEF AtWork
    <2>5. QED
      BY <1>1, <2>1, <2>4, WorkKept
  <1>10. ASSUME NEW h \in Handlers, ClaimLost(h) PROVE FALSE
    BY <1>10 DEF ClaimLost, Fault, Stranding
  <1>11. ASSUME NEW h \in Handlers, NEW p \in Payments, Deliver(h, p) PROVE OnlyUnmarkedLinger'
    <2>1. /\ pc[h] = "idle" /\ UNCHANGED claim
          /\ \A g \in Handlers \ {h} : pc'[g] = pc[g] /\ payment'[g] = payment[g]
      BY <1>0, <1>11 DEF Deliver
    <2>2. \A k \in Keys : AtWork(k) => AtWork(k)'
      BY <2>1 DEF AtWork, Key
    <2>3. QED
      BY <1>1, <2>1, <2>2, WorkKept
  <1>12. CASE UNCHANGED <<claim, pc, payment>>
    BY <1>1, <1>12, WorkKept DEF AtWork, Key
  <1>13. QED
    BY <1>4, <1>5, <1>6, <1>7, <1>8, <1>9, <1>10, <1>11, <1>12
       DEF Next, Step, FaultStep, Capture, vars

\* A claim of payPayment that is left 'processing' and blocks every retry is that
\* of a payment with its order, unless the instance dies while it has none, the
\* claim cannot be deleted or its insert only looked failed.
THEOREM StrandedHasOrder == Stranding \cap Faults = {} => (Spec => []OnlyUnmarkedLinger)
  <1> SUFFICES ASSUME Stranding \cap Faults = {} PROVE Spec => []OnlyUnmarkedLinger
    OBVIOUS
  <1>1. Init => OnlyUnmarkedLinger
    BY DEF Init, OnlyUnmarkedLinger
  <1>2. QED
    BY <1>1, NextLinger, PaidInvariance, PTL DEF Spec

\* Payments are told apart by their TransactionIds.
OwnKeys == /\ \A p \in Payments : KeyOf[p] # NoKey
           /\ \A p, q \in Payments : KeyOf[p] = KeyOf[q] => p = q

AlertsSent == <<"throw", "alert">> \notin Faults

Noticed(p) == OrdersFor(p) # {} \/ p \in alerted

\* Nothing is lost yet: should the handler at work on the claim fail, it alerts.
InHand(p) == Noticed(p) \/ claim[KeyOf[p]] = "processing"

AckOK ==
    /\ \A p \in acked : InHand(p)
    /\ \A h \in Handlers : pc[h] = "ok" => InHand(payment[h])
    /\ \A h \in Handlers : pc[h] = "release" => Noticed(payment[h])

LEMMA NoticedStays ==
    ASSUME IInv, PaidOK, [Next]_vars, NEW p \in Payments, Noticed(p)
    PROVE  Noticed(p)'
  <1>1. alerted \subseteq alerted'
    BY DEF Next, Step, FaultStep, vars, rowVars, Capture, Deliver, Claim, GoUnclaimed,
           SkipDuplicate, CreateOrder, CreateRefused, Record, RecordCharge, FindUser, Card,
           UpdateInvoice, Mark, Alert, SendAlert, Release, AnswerTrue, AnswerFalse, Throw,
           ClaimLost, CreateLost, Crash, SetClaim, SaveCard
  <1>2. QED
    BY <1>1, OrdersStay DEF Noticed

\* Who gives a claim up has made the order or alerted.
LEMMA InHandStays ==
    ASSUME OwnKeys, IInv, PaidOK, AckOK, [Next]_vars, NEW p \in Payments, InHand(p)
    PROVE  InHand(p)'
  <1> USE DEF saleorVars, rowVars, handlerVars, gatewayVars
  <1>1. CASE Noticed(p)
    BY <1>1, NoticedStays DEF InHand
  <1>2. ASSUME NEW h \in Handlers, Mark(h) \/ Release(h), Key(h) = KeyOf[p]
        PROVE  Noticed(p)
    <2>1. pc[h] \in {"mark", "release"} /\ payment[h] \in Payments
      BY <1>2 DEF Mark, Release, Goto, IInv, TypeOK, HandlerOK
    <2>2. payment[h] = p
      BY <1>2, <2>1 DEF OwnKeys, Key
    <2>3. CASE pc[h] = "mark"
      BY <2>2, <2>3 DEF IInv, HandlerOK, Noticed, OrdersFor
    <2>4. CASE pc[h] = "release"
      BY <2>2, <2>4 DEF AckOK
    <2>5. QED
      BY <2>1, <2>3, <2>4
  <1>3. CASE claim[KeyOf[p]] = "processing" /\ claim'[KeyOf[p]] # "processing"
    <2>1. PICK h \in Handlers : Claim(h) \/ ClaimLost(h) \/ Mark(h) \/ Release(h)
      BY <1>3
         DEF Next, Step, FaultStep, vars, Capture, Deliver, GoUnclaimed, SkipDuplicate,
             CreateOrder, CreateRefused, Record, RecordCharge, FindUser, Card, UpdateInvoice,
             Alert, AnswerTrue, AnswerFalse, Throw, CreateLost, Crash, SaveCard, SendAlert
    <2>2. \E status :
              claim' = IF Keyed(h) THEN [claim EXCEPT ![Key(h)] = status] ELSE claim
      BY <2>1 DEF Claim, ClaimLost, Mark, Release, SetClaim
    <2>3. Key(h) = KeyOf[p]
      BY <1>3, <2>2 DEF IInv, TypeOK
    <2>4. Mark(h) \/ Release(h)
      BY <1>3, <2>1, <2>3 DEF Claim, ClaimLost
    <2>5. QED
      BY <1>1, <1>2, <2>3, <2>4
  <1>4. QED
    BY <1>1, <1>3 DEF InHand

LEMMA NextAckOK ==
    ASSUME OwnKeys, AlertsSent
    PROVE  IInv /\ PaidOK /\ AckOK /\ [Next]_vars => AckOK'
  <1> SUFFICES ASSUME IInv, PaidOK, AckOK, [Next]_vars PROVE AckOK'
    OBVIOUS
  <1> USE DEF saleorVars, rowVars, handlerVars, gatewayVars
  <1>0. /\ pc \in [Handlers -> Steps \cup {"idle"}]
        /\ payment \in [Handlers -> Payments \cup {NoPayment}]
        /\ \A h \in Handlers : pc[h] # "idle" => payment[h] \in Payments
        /\ acked \subseteq Payments
    BY DEF IInv, TypeOK, HandlerOK
  <1>1. ASSUME NEW h \in Handlers, pc[h] \in OrderSteps PROVE Noticed(payment[h])
    BY <1>1 DEF IInv, HandlerOK, Noticed, OrdersFor
  <1>2. ASSUME NEW h \in Handlers, SkipDuplicate(h) PROVE InHand(payment[h])
    <2>1. /\ payment[h] \in Payments /\ KeyOf[payment[h]] \in Keys
          /\ claim[KeyOf[payment[h]]] \in {"processing", "processed"}
      BY <1>2 DEF SkipDuplicate, Goto, Key, IInv, TypeOK, HandlerOK
    <2>2. CASE claim[KeyOf[payment[h]]] = "processed"
      <3>1. PICK p \in Payments : KeyOf[p] = KeyOf[payment[h]] /\ OrdersFor(p) # {}
        BY <2>1, <2>2 DEF IInv, ProcessedHasOrder
      <3>2. QED
        BY <2>1, <3>1 DEF OwnKeys, InHand, Noticed
    <2>3. QED
      BY <2>1, <2>2 DEF InHand
  <1>3. ASSUME NEW h \in Handlers, pc'[h] = "ok" PROVE InHand(payment[h])' /\ payment'[h] = payment[h]
    <2>1. /\ payment'[h] = payment[h] /\ pc[h] # "idle"
          /\ pc[h] = "ok" \/ pc[h] = "mark" \/ SkipDuplicate(h)
      BY <1>0, <1>3
         DEF Next, Step, FaultStep, vars, Capture, Deliver, Claim, GoUnclaimed,
             SkipDuplicate, CreateOrder, CreateRefused, Record, FindUser, Card, UpdateInvoice, Mark,
             Alert, Release, AnswerTrue, AnswerFalse, Throw, ClaimLost, CreateLost, Crash, Goto, Leave,
             OnError
    <2>2. InHand(payment[h])
      BY <1>1, <1>2, <2>1 DEF AckOK, InHand
    <2>3. payment[h] \in Payments
      BY <1>0, <2>1
    <2>4. ASSUME NEW p \in Payments, InHand(p) PROVE InHand(p)'
      BY <2>4, InHandStays
    <2>5. QED
      BY <2>1, <2>2, <2>3, <2>4 DEF InHand, Noticed, OrdersFor
  <1>4. ASSUME NEW h \in Handlers, pc'[h] = "release" PROVE Noticed(payment[h])'
    <2>1. /\ payment'[h] = payment[h] /\ pc[h] # "idle"
          /\ pc[h] \in {"release", "user", "invoice"} \/ Alert(h)
      <3>1. ASSUME NEW g \in Handlers, Throw(g), g = h
            PROVE  pc[h] \in {"user", "invoice"} /\ payment'[h] = payment[h]
        <4>1. /\ <<"throw", pc[h]>> \in Faults /\ pc[h] \in WorkSteps
              /\ pc' = [pc EXCEPT ![h] = OnError[pc[h]]] /\ UNCHANGED payment
          BY <3>1, ErrorSteps DEF Throw, Fault, Goto
        <4>2. pc[h] # "alert" /\ OnError[pc[h]] = "release"
          BY <1>0, <1>4, <4>1 DEF AlertsSent
        <4>3. QED
          BY <4>1, <4>2 DEF OnError
      <3>2. ASSUME NEW g \in Handlers, Throw(g), g # h
            PROVE  pc[h] = "release" /\ payment'[h] = payment[h]
        BY <1>0, <1>4, <3>2 DEF Throw, Goto
      <3>3. QED
        BY <1>0, <1>4, <3>1, <3>2
           DEF Next, Step, FaultStep, vars, Capture, Deliver, Claim, GoUnclaimed,
               SkipDuplicate, CreateOrder, CreateRefused, Record, FindUser, Card, UpdateInvoice, Mark,
               Alert, Release, AnswerTrue, AnswerFalse, ClaimLost, CreateLost, Crash, Goto, Leave
    <2>2. payment[h] \in Payments
      BY <1>0, <2>1
    <2>3. CASE Alert(h)
      BY <2>1, <2>3 DEF Alert, SendAlert, Noticed
    <2>4. CASE pc[h] \in {"release", "user", "invoice"}
      <3>1. Noticed(payment[h])
        BY <1>1, <2>4 DEF AckOK
      <3>2. ASSUME NEW p \in Payments, Noticed(p) PROVE Noticed(p)'
        BY <3>2, NoticedStays
      <3>3. QED
        BY <2>1, <2>2, <3>1, <3>2 DEF Noticed, OrdersFor
    <2>5. QED
      BY <2>1, <2>3, <2>4
  <1>5. ASSUME NEW p \in acked' PROVE InHand(p)'
    <2>1. CASE p \in acked
      BY <1>0, <2>1, InHandStays DEF AckOK
    <2>2. CASE p \notin acked
      <3>1. PICK h \in Handlers : AnswerTrue(h)
        BY <1>5, <2>2
           DEF Next, Step, FaultStep, vars, Capture, Deliver, Claim, GoUnclaimed,
               SkipDuplicate, CreateOrder, CreateRefused, Record, FindUser, Card, UpdateInvoice, Mark,
               Alert, Release, AnswerFalse, Throw, ClaimLost, CreateLost, Crash
      <3>2. p = payment[h] /\ pc[h] = "ok"
        BY <1>5, <2>2, <3>1 DEF AnswerTrue
      <3>3. p \in Payments /\ InHand(p)
        BY <1>0, <3>2 DEF AckOK
      <3>4. QED
        BY <3>3, InHandStays
    <2>3. QED
      BY <2>1, <2>2
  <1>6. QED
    BY <1>3, <1>4, <1>5 DEF AckOK

\* TipTopPay has been told that all is well, so it will not ask again: there is the
\* order or the alert, or a handler at work that will make one of them.
AckedIsNoticed ==
    \A p \in acked : \/ Noticed(p)
                     \/ \E h \in Handlers : pc[h] \in WorkSteps /\ payment[h] = p

\* payPayment answers true for captured money only if it has come to an order or to
\* an operator, or is still at work on it: for a duplicate too, whose first delivery
\* may yet fail.  It takes that every payment has its TransactionId, that the alert
\* goes out and that no claim is left behind without an order.
THEOREM AckIsHonest ==
    OwnKeys /\ AlertsSent /\ Stranding \cap Faults = {} => (Spec => []AckedIsNoticed)
  <1> SUFFICES ASSUME OwnKeys, AlertsSent, Stranding \cap Faults = {}
               PROVE  Spec => []AckedIsNoticed
    OBVIOUS
  <1>1. Init => AckOK
    BY DEF Init, AckOK
  <1>2. ASSUME IInv, AckOK, OnlyUnmarkedLinger PROVE AckedIsNoticed
    <2> SUFFICES ASSUME NEW p \in acked, ~ Noticed(p)
                 PROVE  \E h \in Handlers : pc[h] \in WorkSteps /\ payment[h] = p
      BY DEF AckedIsNoticed
    <2>1. p \in Payments /\ KeyOf[p] \in Keys /\ claim[KeyOf[p]] = "processing"
      BY <1>2 DEF IInv, TypeOK, AckOK, InHand, OwnKeys
    <2>2. Unordered(KeyOf[p])
      BY <2>1 DEF Unordered, OwnKeys, Noticed
    <2>3. PICK h \in Handlers : pc[h] \in WorkSteps /\ Key(h) = KeyOf[p]
      BY <1>2, <2>1, <2>2 DEF OnlyUnmarkedLinger, AtWork
    <2>4. payment[h] \in Payments
      BY <1>2, <2>3 DEF IInv, TypeOK, HandlerOK
    <2>5. QED
      BY <2>1, <2>3, <2>4 DEF OwnKeys, Key
  <1>3. IInv /\ PaidOK /\ AckOK /\ [Next]_vars => AckOK'
    BY NextAckOK
  <1>4. Spec => []OnlyUnmarkedLinger
    BY StrandedHasOrder
  <1>5. QED
    BY <1>1, <1>2, <1>3, <1>4, PaidInvariance, PTL DEF Spec

-----------------------------------------------------------------------------
(* payPayment implements the purchase                                      *)

Ordered == {p \in Payments : OrdersFor(p) # {}}
Charged == {p \in Payments : OrdersFor(p) \cap paid # {}}
Closed == {k \in Keys : claim[k] = "processed"}

\* Step by step: each of the four effects of a handler is a step of the purchase.
LEMMA CreationIsOrder ==
    ASSUME IInv, PaidOK, NEW h \in Handlers, CreateOrder(h) \/ CreateLost(h)
    PROVE  Purchases!Next
  <1> USE DEF rowVars
  <1>1. /\ payment[h] \in Payments /\ InvoiceOf[payment[h]] \in live
        /\ UNCHANGED <<payment, claim, cards, paid>>
        /\ OrdersFor(payment[h]) = {}
        /\ OrdersFor(payment[h])' # {} /\ OrdersFor(payment[h])' \cap paid = {}
        /\ \A p \in Payments \ {payment[h]} : OrdersFor(p)' = OrdersFor(p)
    BY CreationOrders
  <1>2. \A q \in Ordered : InvoiceOf[q] # InvoiceOf[payment[h]]
    BY <1>1 DEF Ordered, OrdersFor, IInv, OrderOK
  <1>3. Ordered' = Ordered \cup {payment[h]}
    BY <1>1 DEF Ordered, OrdersFor
  <1>4. Charged' = Charged /\ Closed' = Closed
    BY <1>1 DEF Charged, Closed, OrdersFor
  <1>5. Purchases!Order(payment[h])
    BY <1>1, <1>2, <1>3, <1>4 DEF Purchases!Order, Ordered, Charged, Closed
  <1>6. QED
    BY <1>1, <1>5 DEF Purchases!Next

LEMMA RecordIsCharge ==
    ASSUME IInv, NEW h \in Handlers, Record(h)
    PROVE  Purchases!Next \/ UNCHANGED <<Ordered, Charged, cards, Closed>>
  <1> USE DEF saleorVars, rowVars
  <1>1. CASE UNCHANGED <<payer, paid, cards, claim>>
    BY <1>1 DEF Ordered, Charged, Closed, OrdersFor
  <1>2. CASE RecordCharge(h)
    <2>1. /\ payment[h] \in Payments /\ created[h] \in OrderIds
          /\ payer[created[h]] = payment[h]
          /\ paid' = paid \cup {created[h]}
          /\ UNCHANGED <<payer, cards, claim>>
      BY <1>2 DEF Record, RecordCharge, Goto, IInv, TypeOK, HandlerOK
    <2>2. payment[h] \in Ordered
      BY <2>1 DEF Ordered, OrdersFor
    <2>3. Charged' = Charged \cup {payment[h]}
      BY <2>1 DEF Charged, OrdersFor
    <2>4. Ordered' = Ordered /\ Closed' = Closed
      BY <2>1 DEF Ordered, Closed, OrdersFor
    <2>5. Purchases!RecordCharge(payment[h])
      BY <2>1, <2>2, <2>3, <2>4 DEF Purchases!RecordCharge, Ordered, Charged, Closed
    <2>6. QED
      BY <2>1, <2>5 DEF Purchases!Next
  <1>3. QED
    BY <1>1, <1>2 DEF Record

LEMMA CardIsRemembered ==
    ASSUME IInv, NEW h \in Handlers, Card(h)
    PROVE  Purchases!Next
  <1> USE DEF saleorVars, rowVars
  <1>1. /\ payment[h] \in Payments /\ cards[payment[h]] = 0
        /\ cards' = [cards EXCEPT ![payment[h]] = 1]
        /\ UNCHANGED <<payer, paid, claim>>
    <2>1. payment[h] \in Payments /\ cards[payment[h]] = 0
      BY DEF Card, Goto, IInv, TypeOK, HandlerOK
    <2>2. /\ cards' = [cards EXCEPT ![payment[h]] = cards[payment[h]] + 1]
          /\ UNCHANGED <<payer, paid, claim>>
      BY DEF Card, SaveCard
    <2>3. QED
      BY <2>1, <2>2
  <1>2. payment[h] \in Ordered
    BY <1>1 DEF Card, Goto, IInv, HandlerOK, Ordered, OrdersFor
  <1>3. Ordered' = Ordered /\ Charged' = Charged /\ Closed' = Closed
    BY <1>1 DEF Ordered, Charged, Closed, OrdersFor
  <1>4. Purchases!RememberCard(payment[h])
    BY <1>1, <1>2, <1>3 DEF Purchases!RememberCard, Ordered, Charged, Closed
  <1>5. QED
    BY <1>1, <1>4 DEF Purchases!Next

LEMMA MarkIsClose ==
    ASSUME IInv, NEW h \in Handlers, Mark(h)
    PROVE  Purchases!Next
  <1> USE DEF saleorVars
  <1>1. /\ payment[h] \in Payments /\ Key(h) \in Keys /\ Keyed(h)
        /\ claim' = [claim EXCEPT ![Key(h)] = "processed"]
        /\ UNCHANGED <<payer, paid, cards>>
    BY DEF Mark, Goto, SetClaim, IInv, TypeOK, HandlerOK, Key
  <1>2. payment[h] \in Ordered
    BY <1>1 DEF Mark, Goto, IInv, HandlerOK, Ordered, OrdersFor
  <1>3. Closed' = Closed \cup {Key(h)}
    BY <1>1 DEF Closed, IInv, TypeOK
  <1>4. Ordered' = Ordered /\ Charged' = Charged
    BY <1>1 DEF Ordered, Charged, OrdersFor
  <1>5. PICK k \in Keys : k = Key(h)
    BY <1>1
  <1>6. Purchases!Close(k)
    BY <1>1, <1>2, <1>3, <1>4, <1>5 DEF Purchases!Close, Ordered, Charged, Closed, Key
  <1>7. QED
    BY <1>6 DEF Purchases!Next

\* A claim that is won or given back was not processed.
LEMMA ClosedStays ==
    ASSUME IInv, NEW h \in Handlers, Claim(h) \/ ClaimLost(h) \/ Release(h)
    PROVE  UNCHANGED <<Ordered, Charged, cards, Closed>>
  <1>1. /\ \/ UNCHANGED claim
           \/ /\ Key(h) \in Keys /\ claim[Key(h)] # "processed"
              /\ \E s \in {"absent", "processing"} : claim' = [claim EXCEPT ![Key(h)] = s]
        /\ UNCHANGED <<payer, paid, cards>>
    BY DEF Claim, ClaimLost, Release, Goto, SetClaim, saleorVars, IInv, TypeOK, HandlerOK, Key
  <1>2. \A k \in Keys : claim'[k] = "processed" <=> claim[k] = "processed"
    BY <1>1 DEF IInv, TypeOK
  <1>3. QED
    BY <1>1, <1>2 DEF Ordered, Charged, Closed, OrdersFor

LEMMA NextPurchases ==
    IInv /\ PaidOK /\ [Next]_vars =>
        [Purchases!Next]_<<Ordered, Charged, cards, Closed>>
  <1> SUFFICES ASSUME IInv, PaidOK, [Next]_vars
               PROVE  Purchases!Next \/ UNCHANGED <<Ordered, Charged, cards, Closed>>
    OBVIOUS
  <1>1. CASE UNCHANGED <<payer, paid, cards, claim>>
    BY <1>1 DEF Ordered, Charged, Closed, OrdersFor
  <1>2. QED
    BY <1>1, CreationIsOrder, RecordIsCharge, CardIsRemembered, MarkIsClose, ClosedStays
       DEF Next, Step, FaultStep, vars, saleorVars, rowVars, Capture, Deliver, GoUnclaimed,
           SkipDuplicate, CreateRefused, FindUser, UpdateInvoice, Alert, SendAlert, AnswerTrue,
           AnswerFalse, Throw, Crash

\* payPayment, run again from the start after every error and by every repeated
\* callback, implements the purchase: one payment per checkout gets the order, the
\* charge, the card and the processed row follow it, and nothing is undone.
THEOREM HookImplementsPurchase == Spec => ImplementsPurchase
  <1>1. Init => Purchases!Init
    <2> SUFFICES ASSUME Init PROVE Purchases!Init
      OBVIOUS
    <2>1. \A p \in Payments : OrdersFor(p) = {}
      BY DEF Init, OrdersFor
    <2>2. QED
      BY <2>1 DEF Init, Purchases!Init
  <1>2. IInv /\ PaidOK /\ [Next]_vars =>
            [Purchases!Next]_<<{p \in Payments : OrdersFor(p) # {}},
                               {p \in Payments : OrdersFor(p) \cap paid # {}},
                               cards, {k \in Keys : claim[k] = "processed"}>>
    BY NextPurchases DEF Ordered, Charged, Closed
  <1>3. QED
    BY <1>1, <1>2, PaidInvariance, PTL DEF Spec, ImplementsPurchase, Purchases!Spec
=============================================================================
