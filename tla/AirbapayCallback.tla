--------------------------- MODULE AirbapayCallback ---------------------------
(***************************************************************************)
(* POST /airbapay/payment-callback.  AirbaPay reports the state of a       *)
(* payment by calling the backend, again and again until it is answered    *)
(* with success.  For a confirmed payment the handler                      *)
(*                                                                         *)
(*    claim    inserts the PaymentWebhookEvent row of the checkout,        *)
(*    create   turns the checkout into a Saleor order,                     *)
(*    persist  writes the order's id into the row,                         *)
(*    pay      marks the order as paid,                                    *)
(*    settle   flips the row to 'processed',                               *)
(*                                                                         *)
(* and a handler that finds the row already there skips, gives up or       *)
(* resumes, as the row says.  Every step ends at an await, and between two *)
(* awaits other handlers run, so a step is an action.                      *)
(*                                                                         *)
(* A fault hits a handler at one step.  "fail": the call throws and had no *)
(* effect.  "lost": it had its effect and throws all the same (timeout,    *)
(* connection reset).  "crash": the instance that runs the handler dies.   *)
(*                                                                         *)
(* Not modelled: the signature guard, logging, and the kerId stamp put on  *)
(* a new order (its errors are caught and it touches metadata only).       *)
(***************************************************************************)
EXTENDS Saleor, Naturals

CONSTANTS Handlers,       \* slots for callbacks being handled at one time
          SuccessStates,  \* 'confirmed', 'completed'
          OtherStates,    \* 'rejected', 'declined', ..., 'refunded'
          NoMessage,      \* message of an idle handler
          NoOrder,        \* orderId null in the row, undefined in the handler
          Faults,         \* the pairs <<kind, step>> that may happen
          MaxFaults       \* bound: faults in one behaviour

Steps == {"claim", "lookup", "create", "release", "persist", "resume", "pay", "settle", "reply"}

Messages == Checkouts \X (SuccessStates \cup OtherStates)
Successes == Checkouts \X SuccessStates

Statuses == {"absent", "processing", "processed"}
NoRow == [status |-> "absent", orderId |-> NoOrder]

ASSUME AirbapayAssumption ==
    /\ NoMessage \notin Messages
    /\ NoOrder \notin OrderIds
    /\ SuccessStates \cap OtherStates = {}
    /\ Faults \subseteq {"fail", "lost", "crash"} \X Steps
    /\ MaxFaults \in Nat

VARIABLES event,    \* the PaymentWebhookEvent row of each checkout
          pc,       \* the step each handler is about to take
          message,  \* the callback each handler works on
          held,     \* orderId (or resumeOrderId), a local variable of the handler
          sent,     \* callbacks AirbaPay has sent
          acked,    \* callbacks answered with success
          faults    \* faults so far

eventVars   == <<event>>
handlerVars == <<pc, message, held>>
gatewayVars == <<sent, acked>>
vars == <<saleorVars, eventVars, handlerVars, gatewayVars, faults>>

TypeOK ==
    /\ SaleorTypeOK
    /\ event \in [Checkouts -> [status : Statuses, orderId : OrderIds \cup {NoOrder}]]
    /\ pc \in [Handlers -> Steps \cup {"idle"}]
    /\ message \in [Handlers -> Messages \cup {NoMessage}]
    /\ held \in [Handlers -> OrderIds \cup {NoOrder}]
    /\ sent \subseteq Messages
    /\ acked \subseteq sent
    /\ faults \in Nat

Init ==
    /\ SaleorInit
    /\ event = [c \in Checkouts |-> NoRow]
    /\ pc = [h \in Handlers |-> "idle"]
    /\ message = [h \in Handlers |-> NoMessage]
    /\ held = [h \in Handlers |-> NoOrder]
    /\ sent = {}
    /\ acked = {}
    /\ faults = 0

Checkout(h) == message[h][1]

\* h is at step s and goes on to step t.
Goto(h, s, t) ==
    /\ pc[h] = s
    /\ pc' = [pc EXCEPT ![h] = t]
    /\ UNCHANGED message

\* The handler is gone, answered or not, and its locals with it.
Leave(h) ==
    /\ pc' = [pc EXCEPT ![h] = "idle"]
    /\ message' = [message EXCEPT ![h] = NoMessage]
    /\ held' = [held EXCEPT ![h] = NoOrder]

-----------------------------------------------------------------------------
(* AirbaPay                                                                *)

Notify(m) ==
    /\ m \notin sent
    /\ sent' = sent \cup {m}
    /\ UNCHANGED <<saleorVars, eventVars, handlerVars, acked, faults>>

\* Mutant: the state of the payment is not looked at.
DeliverAny(h, m) ==
    /\ m \in sent
    /\ pc[h] = "idle"
    /\ pc' = [pc EXCEPT ![h] = "claim"]
    /\ message' = [message EXCEPT ![h] = m]
    /\ UNCHANGED <<saleorVars, eventVars, held, gatewayVars, faults>>

\* A callback arrives: the first time, once more because it was not answered
\* with success, or as a late duplicate of one that was.
Deliver(h, m) ==
    /\ m \in sent
    /\ pc[h] = "idle"
    /\ pc' = [pc EXCEPT ![h] = IF m[2] \in SuccessStates THEN "claim" ELSE "reply"]
    /\ message' = [message EXCEPT ![h] = m]
    /\ UNCHANGED <<saleorVars, eventVars, held, gatewayVars, faults>>

Reply(h) ==
    /\ pc[h] = "reply"
    /\ acked' = acked \cup {message[h]}
    /\ Leave(h)
    /\ UNCHANGED <<saleorVars, eventVars, sent, faults>>

-----------------------------------------------------------------------------
(* Claim of the checkout, or what to do when it is claimed                 *)

\* Mutant: the status of another table.
InsertPending(c) == event' = [event EXCEPT ![c].status = "pending"]

InsertRow(c) == event' = [event EXCEPT ![c].status = "processing"]

Claim(h) ==
    /\ Goto(h, "claim", "create")
    /\ event[Checkout(h)].status = "absent"
    /\ InsertRow(Checkout(h))
    /\ UNCHANGED <<saleorVars, held, gatewayVars, faults>>

\* The insert hits the unique key (P2002).
ClaimTaken(h) ==
    /\ Goto(h, "claim", "lookup")
    /\ event[Checkout(h)].status # "absent"
    /\ UNCHANGED <<saleorVars, eventVars, held, gatewayVars, faults>>

\* The row is gone again, or the checkout is settled: answer success.
SkipDuplicate(h) ==
    /\ Goto(h, "lookup", "reply")
    /\ event[Checkout(h)].status \in {"absent", "processed"}
    /\ UNCHANGED <<saleorVars, eventVars, held, gatewayVars, faults>>

\* Mutant: a claim without an order is taken over.
TakeOver(h) ==
    /\ Goto(h, "lookup", "create")
    /\ event[Checkout(h)] = [status |-> "processing", orderId |-> NoOrder]
    /\ UNCHANGED <<saleorVars, eventVars, held, gatewayVars, faults>>

\* Claimed, no order yet: 503, AirbaPay will retry.
InProgress(h) ==
    /\ pc[h] = "lookup"
    /\ event[Checkout(h)] = [status |-> "processing", orderId |-> NoOrder]
    /\ Leave(h)
    /\ UNCHANGED <<saleorVars, eventVars, gatewayVars, faults>>

Resume(h) ==
    /\ Goto(h, "lookup", "resume")
    /\ event[Checkout(h)].status = "processing"
    /\ event[Checkout(h)].orderId # NoOrder
    /\ held' = [held EXCEPT ![h] = event[Checkout(h)].orderId]
    /\ UNCHANGED <<saleorVars, eventVars, gatewayVars, faults>>

-----------------------------------------------------------------------------
(* The order                                                               *)

CreateOrder(h) ==
    /\ Goto(h, "create", "persist")
    /\ \E o \in OrderIds :
          /\ CreateFromCheckout(Checkout(h), o)
          /\ held' = [held EXCEPT ![h] = o]
    /\ UNCHANGED <<eventVars, gatewayVars, faults>>

\* No order comes back, for instance because the checkout no longer exists.
CreateRefused(h) ==
    /\ Goto(h, "create", "release")
    /\ Checkout(h) \notin live
    /\ UNCHANGED <<saleorVars, eventVars, held, gatewayVars, faults>>

\* deleteMany by key, then the error is thrown on.
Release(h) ==
    /\ pc[h] = "release"
    /\ event' = [event EXCEPT ![Checkout(h)] = NoRow]
    /\ Leave(h)
    /\ UNCHANGED <<saleorVars, gatewayVars, faults>>

SaveOrderId(h) == event' = [event EXCEPT ![Checkout(h)].orderId = held[h]]

\* Mutant: a new order is settled without being marked paid.
PersistAndSettle(h) ==
    /\ Goto(h, "persist", "settle")
    /\ SaveOrderId(h)
    /\ UNCHANGED <<saleorVars, held, gatewayVars, faults>>

PersistOrder(h) ==
    /\ Goto(h, "persist", "pay")
    /\ event[Checkout(h)].status # "absent"
    /\ SaveOrderId(h)
    /\ UNCHANGED <<saleorVars, held, gatewayVars, faults>>

\* Mutant: an order found in the row is taken for paid.
AssumePaid(h) ==
    /\ Goto(h, "resume", "settle")
    /\ UNCHANGED <<saleorVars, eventVars, held, gatewayVars, faults>>

\* Mutant: no isOrderPaid, the resumed order is marked paid again.
PayAgain(h) ==
    /\ Goto(h, "resume", "pay")
    /\ UNCHANGED <<saleorVars, eventVars, held, gatewayVars, faults>>

\* isOrderPaid: a paid order only needs settling.
CheckPaid(h) ==
    /\ Goto(h, "resume", IF held[h] \in paid THEN "settle" ELSE "pay")
    /\ UNCHANGED <<saleorVars, eventVars, held, gatewayVars, faults>>

MarkOrderAsPaid(h) ==
    /\ Goto(h, "pay", "settle")
    /\ MarkPaid(held[h])
    /\ UNCHANGED <<eventVars, held, gatewayVars, faults>>

\* Mutant: the errors are logged and success is answered.
SwallowErrors(h) ==
    /\ Goto(h, "pay", "reply")
    /\ held[h] \in paid
    /\ UNCHANGED <<saleorVars, eventVars, held, gatewayVars, faults>>

\* Mutant: the claim is given back on this error too.
ReleaseOnPayError(h) ==
    /\ pc[h] = "pay"
    /\ held[h] \in paid
    /\ event' = [event EXCEPT ![Checkout(h)] = NoRow]
    /\ Leave(h)
    /\ UNCHANGED <<saleorVars, gatewayVars, faults>>

\* Another handler marked the order since this one looked: the errors in
\* Saleor's answer are thrown.
AlreadyPaid(h) ==
    /\ pc[h] = "pay"
    /\ held[h] \in paid
    /\ Leave(h)
    /\ UNCHANGED <<saleorVars, eventVars, gatewayVars, faults>>

SetProcessed(h) == event' = [event EXCEPT ![Checkout(h)].status = "processed"]

Settle(h) ==
    /\ Goto(h, "settle", "reply")
    /\ event[Checkout(h)].status # "absent"
    /\ SetProcessed(h)
    /\ UNCHANGED <<saleorVars, held, gatewayVars, faults>>

-----------------------------------------------------------------------------
(* Faults                                                                  *)

Fault(kind, h) ==
    /\ faults < MaxFaults
    /\ <<kind, pc[h]>> \in Faults
    /\ faults' = faults + 1

\* The instance dies before the step, or the call of the step throws and had no
\* effect: no success answer, and nothing more is done.
Crash(h) ==
    /\ pc[h] # "idle"
    /\ Fault("crash", h)
    /\ Leave(h)
    /\ UNCHANGED <<saleorVars, eventVars, gatewayVars>>

\* A failed creation is the one error the handler acts on.
CreateFails(h) ==
    /\ Fault("fail", h)
    /\ Goto(h, "create", "release")
    /\ UNCHANGED <<saleorVars, eventVars, held, gatewayVars>>

CreateLost(h) ==
    /\ Fault("lost", h)
    /\ Goto(h, "create", "release")
    /\ \E o \in OrderIds : CreateFromCheckout(Checkout(h), o)
    /\ UNCHANGED <<eventVars, held, gatewayVars>>

RowWriteLost(h) ==
    /\ Fault("lost", h)
    /\ \/ /\ pc[h] = "claim"
          /\ event[Checkout(h)].status = "absent"
          /\ InsertRow(Checkout(h))
       \/ /\ pc[h] = "persist"
          /\ SaveOrderId(h)
       \/ /\ pc[h] = "settle"
          /\ SetProcessed(h)
    /\ Leave(h)
    /\ UNCHANGED <<saleorVars, gatewayVars>>

MarkPaidLost(h) ==
    /\ pc[h] = "pay"
    /\ Fault("lost", h)
    /\ MarkPaid(held[h])
    /\ Leave(h)
    /\ UNCHANGED <<eventVars, gatewayVars>>

-----------------------------------------------------------------------------
Step(h) ==
    \/ Claim(h) \/ ClaimTaken(h) \/ SkipDuplicate(h) \/ InProgress(h) \/ Resume(h)
    \/ CreateOrder(h) \/ CreateRefused(h) \/ Release(h) \/ PersistOrder(h)
    \/ CheckPaid(h) \/ MarkOrderAsPaid(h) \/ AlreadyPaid(h) \/ Settle(h)
    \/ Reply(h)

FaultStep(h) ==
    \/ Crash(h) \/ CreateFails(h) \/ CreateLost(h) \/ RowWriteLost(h) \/ MarkPaidLost(h)

Next ==
    \/ \E m \in Messages : Notify(m)
    \/ \E h \in Handlers : \/ \E m \in Messages : Deliver(h, m)
                           \/ Step(h)
                           \/ FaultStep(h)

Spec == Init /\ [][Next]_vars

(***************************************************************************)
(* Fairness.  An instance that runs goes on with the requests it handles:  *)
(* weak fairness of each handler's step.  AirbaPay calls again until it is *)
(* answered with success: strong fairness of delivering a callback, strong *)
(* because all handlers may be busy again and again in between.            *)
(***************************************************************************)
Fairness ==
    /\ \A h \in Handlers : WF_vars(Step(h))
    /\ \A m \in Messages : SF_vars(m \notin acked /\ \E h \in Handlers : Deliver(h, m))

FairSpec == Spec /\ Fairness

-----------------------------------------------------------------------------
(* Properties                                                              *)

\* The unique key works as a lock: between winning the claim and writing the
\* order's id into the row, a handler is alone with its checkout.
ClaimIsExclusive ==
    \A g, h \in Handlers :
        /\ pc[g] \in {"create", "release", "persist"}
        /\ pc[h] \in {"create", "release", "persist"}
        /\ Checkout(g) = Checkout(h)
        => g = h

\* No handler asks for an order of a checkout that has one: the claim, and the
\* order id in the row, keep every other callback from the creation, so that the
\* shop's refusal is never what stands between a customer and a second order.
\* (A creation whose answer is lost releases the claim, and is repeated.)
CreatesOnce == \A h \in Handlers : pc[h] = "create" => OrdersOf(Checkout(h)) = {}

\* A settled row stands for money that arrived: it names an order made from its
\* own checkout, and Saleor shows that order as paid.
SettledIsPaid ==
    \A c \in Checkouts :
        event[c].status = "processed" => /\ event[c].orderId \in paid
                                         /\ orderOf[event[c].orderId] = c

\* Orders are made for confirmed payments only: a rejected, declined or
\* cancelled payment never becomes an order.
OrderOnlyWhenConfirmed ==
    \A o \in OrderIds, c \in Checkouts :
        orderOf[o] = c => \E s \in SuccessStates : <<c, s>> \in sent

\* Progress in the row is never lost: once it names an order it names that
\* order for ever, and once settled it stays settled.
ProgressIsKept ==
    [][\A c \in Checkouts :
          /\ event[c].orderId # NoOrder => event'[c].orderId = event[c].orderId
          /\ event[c].status = "processed" => event'[c].status = "processed"]_vars

\* AirbaPay stops calling only about payments that are settled.  "A duplicate
\* after settlement is skipped" says the handler; it answers success as well
\* when the row it collided with is gone by the time it reads it.
AckedIsSettled ==
    \A c \in Checkouts, s \in SuccessStates :
        <<c, s>> \in acked => event[c].status = "processed"

\* A claim without an order is "in flight", and the callback that meets it asks
\* for a retry because "by then it is settled or resumable": such a claim gets
\* its order or is released.
ClaimIsResolved ==
    \A c \in Checkouts :
        event[c] = [status |-> "processing", orderId |-> NoOrder] ~>
            event[c] # [status |-> "processing", orderId |-> NoOrder]

\* A payment AirbaPay confirmed is settled in the end.
ConfirmedIsSettled ==
    \A c \in Checkouts :
        (\E s \in SuccessStates : <<c, s>> \in sent) ~> event[c].status = "processed"

\* The phase of each checkout, as the shop and the row show it.
Phase(c) ==
    IF event[c].status = "processed" THEN "settled"
    ELSE IF OrdersOf(c) \cap paid # {} THEN "paid"
    ELSE IF OrdersOf(c) # {} THEN "ordered"
    ELSE "open"

Abstract == INSTANCE Settlement WITH phase <- [c \in Checkouts |-> Phase(c)]

\* The handler implements the promise of Settlement: order, payment and
\* settlement happen once each and in that order.
ImplementsSettlement == Abstract!Spec
=============================================================================
