----------------------- MODULE AirbapayCallback_proofs -----------------------
(***************************************************************************)
(* Proofs about AirbapayCallback, for any number of checkouts, handlers,   *)
(* order ids and faults.  The safety properties follow from one inductive  *)
(* invariant, IInv, that says what a handler may rely on at each step.     *)
(***************************************************************************)
EXTENDS AirbapayCallback, TLAPS

\* A checkout that became an order is gone, and became one order only; what is
\* paid is an order.
ShopOK ==
    /\ \A o \in OrderIds : orderOf[o] \notin live
    /\ \A o \in paid : orderOf[o] \in Checkouts
    /\ OneOrderPerCheckout

\* What the row of a checkout says is true of the shop.
RowOK(c) ==
    /\ event[c].orderId # NoOrder => /\ orderOf[event[c].orderId] = c
                                     /\ event[c].status # "absent"
    /\ event[c].status = "processed" => event[c].orderId \in paid

\* A handler that holds the claim: the row is its own and still empty.
HoldsClaim(h) == pc[h] \in {"create", "release", "persist"}

\* A handler that works on the order its row names.
HasOrder(h) == pc[h] \in {"resume", "pay", "settle"}

HandlerOK(h) ==
    /\ pc[h] # "idle" => message[h] \in sent
    /\ pc[h] \in Steps \ {"reply"} => message[h] \in Successes
    /\ HoldsClaim(h) => event[Checkout(h)] = [status |-> "processing", orderId |-> NoOrder]
    /\ pc[h] = "persist" => held[h] \in OrderIds /\ orderOf[held[h]] = Checkout(h)
    /\ HasOrder(h) => /\ held[h] \in OrderIds
                      /\ event[Checkout(h)].orderId = held[h]
    /\ pc[h] = "settle" => held[h] \in paid

IInv ==
    /\ TypeOK
    /\ ShopOK
    /\ \A c \in Checkouts : RowOK(c)
    /\ \A h \in Handlers : HandlerOK(h)
    /\ ClaimIsExclusive
    /\ OrderOnlyWhenConfirmed

USE DEF Statuses, Steps

-----------------------------------------------------------------------------
LEMMA InitIInv == Init => IInv
  <1> SUFFICES ASSUME Init PROVE IInv
    OBVIOUS
  <1> USE DEF Init, SaleorInit
  <1>1. TypeOK
    BY DEF TypeOK, SaleorTypeOK, NoRow
  <1>2. ShopOK
    BY NoCheckoutAssumption DEF ShopOK, OneOrderPerCheckout
  <1>3. \A c \in Checkouts : RowOK(c)
    BY DEF RowOK, NoRow
  <1>4. \A h \in Handlers : HandlerOK(h)
    BY DEF HandlerOK, HoldsClaim, HasOrder
  <1>5. ClaimIsExclusive /\ OrderOnlyWhenConfirmed
    BY NoCheckoutAssumption DEF ClaimIsExclusive, OrderOnlyWhenConfirmed
  <1>6. QED
    BY <1>1, <1>2, <1>3, <1>4, <1>5 DEF IInv

-----------------------------------------------------------------------------
(* A step preserves the invariant.                                         *)

\* The end of a request: the handler's claim on anything is gone, and nothing
\* else changes but what AirbaPay knows.
LEMMA LeaveKeepsIInv ==
    ASSUME IInv, NEW h \in Handlers, Leave(h),
           UNCHANGED <<saleorVars, eventVars, sent>>,
           acked' \subseteq sent', faults' \in Nat
    PROVE  IInv'
  <1> USE DEF IInv, saleorVars, eventVars, Leave
  <1>1. TypeOK'
    BY DEF TypeOK, SaleorTypeOK
  <1>2. ShopOK' /\ \A c \in Checkouts : RowOK(c)'
    BY DEF ShopOK, OneOrderPerCheckout, RowOK
  <1>3. \A g \in Handlers : HandlerOK(g)'
    BY DEF TypeOK, HandlerOK, HoldsClaim, HasOrder, Checkout
  <1>4. ClaimIsExclusive' /\ OrderOnlyWhenConfirmed'
    BY DEF TypeOK, ClaimIsExclusive, OrderOnlyWhenConfirmed, Checkout
  <1>5. QED
    BY <1>1, <1>2, <1>3, <1>4

\* A step that only reads: it may go on to any step that needs no claim, and
\* hold what it has read, if what that step relies on is there.
LEMMA ReadKeepsIInv ==
    ASSUME IInv, NEW h \in Handlers, NEW s \in Steps, NEW t \in Steps,
           Goto(h, s, t),
           UNCHANGED <<saleorVars, eventVars, gatewayVars>>,
           faults' \in Nat,
           held' \in [Handlers -> OrderIds \cup {NoOrder}],
           \A g \in Handlers \ {h} : held'[g] = held[g],
           s # "reply",
           t \notin {"create", "persist"},
           t = "release" => s \in {"create", "release"},
           t \in {"resume", "pay", "settle"} =>
               /\ held'[h] \in OrderIds
               /\ event[Checkout(h)].orderId = held'[h],
           t = "settle" => held'[h] \in paid
    PROVE  IInv'
  <1> USE DEF IInv, saleorVars, eventVars, gatewayVars, Goto
  <1>1. TypeOK'
    BY DEF TypeOK, SaleorTypeOK
  <1>2. ShopOK' /\ \A c \in Checkouts : RowOK(c)'
    BY DEF ShopOK, OneOrderPerCheckout, RowOK
  <1>3. \A g \in Handlers : HandlerOK(g)'
    <2> SUFFICES ASSUME NEW g \in Handlers PROVE HandlerOK(g)'
      OBVIOUS
    <2>1. CASE g # h
      BY <2>1 DEF TypeOK, HandlerOK, HoldsClaim, HasOrder, Checkout
    <2>2. CASE g = h
      BY <2>2 DEF TypeOK, HandlerOK, HoldsClaim, HasOrder, Checkout
    <2>3. QED
      BY <2>1, <2>2
  <1>4. ClaimIsExclusive' /\ OrderOnlyWhenConfirmed'
    BY DEF TypeOK, ClaimIsExclusive, OrderOnlyWhenConfirmed, Checkout
  <1>5. QED
    BY <1>1, <1>2, <1>3, <1>4

\* Winning the claim: no handler can be at work on this checkout, for the row of
\* one that is would be there.
LEMMA ClaimKeepsIInv ==
    ASSUME IInv, NEW h \in Handlers, Claim(h)
    PROVE  IInv'
  <1> USE AirbapayAssumption, NoCheckoutAssumption
      DEF IInv, saleorVars, eventVars, handlerVars, gatewayVars, Claim, Goto, InsertRow
  <1>1. TypeOK'
    BY ZenonT(40) DEF TypeOK, SaleorTypeOK, NoRow
  <1>2. ShopOK'
    BY DEF TypeOK, SaleorTypeOK, ShopOK, OneOrderPerCheckout, HandlerOK, HoldsClaim, Checkout
  <1>3. \A c \in Checkouts : RowOK(c)'
    BY DEF TypeOK, SaleorTypeOK, ShopOK, RowOK, HandlerOK, HoldsClaim, HasOrder, Checkout, NoRow
  <1>4. \A g \in Handlers : HandlerOK(g)'
    <2> SUFFICES ASSUME NEW g \in Handlers PROVE HandlerOK(g)'
      OBVIOUS
    <2>1. CASE g # h
      BY <2>1 DEF TypeOK, SaleorTypeOK, ShopOK, RowOK, HandlerOK, HoldsClaim, HasOrder,
                  ClaimIsExclusive, Checkout, NoRow, Successes, Messages
    <2>2. CASE g = h
      BY <2>2 DEF TypeOK, SaleorTypeOK, ShopOK, RowOK, HandlerOK, HoldsClaim, HasOrder,
                  ClaimIsExclusive, Checkout, NoRow, Successes, Messages
    <2>3. QED
      BY <2>1, <2>2
  <1>5. ClaimIsExclusive'
    BY DEF TypeOK, HandlerOK, HoldsClaim, ClaimIsExclusive, Checkout, Successes, Messages, NoRow
  <1>6. OrderOnlyWhenConfirmed'
    BY DEF TypeOK, SaleorTypeOK, HandlerOK, OrderOnlyWhenConfirmed, Checkout, Successes, Messages
  <1>7. QED
    BY <1>1, <1>2, <1>3, <1>4, <1>5, <1>6

\* A callback arrives.
LEMMA DeliverKeepsIInv ==
    ASSUME IInv, NEW h \in Handlers, NEW m \in Messages, Deliver(h, m)
    PROVE  IInv'
  <1> USE AirbapayAssumption, NoCheckoutAssumption
      DEF IInv, saleorVars, eventVars, handlerVars, gatewayVars, Deliver
  <1>1. TypeOK'
    BY DEF TypeOK, SaleorTypeOK, NoRow
  <1>2. ShopOK'
    BY DEF TypeOK, SaleorTypeOK, ShopOK, OneOrderPerCheckout, HandlerOK, HoldsClaim, Checkout
  <1>3. \A c \in Checkouts : RowOK(c)'
    BY DEF TypeOK, SaleorTypeOK, ShopOK, RowOK, HandlerOK, HoldsClaim, HasOrder, Checkout, NoRow
  <1>4. \A g \in Handlers : HandlerOK(g)'
    <2> SUFFICES ASSUME NEW g \in Handlers PROVE HandlerOK(g)'
      OBVIOUS
    <2>1. CASE g # h
      BY <2>1 DEF TypeOK, SaleorTypeOK, ShopOK, RowOK, HandlerOK, HoldsClaim, HasOrder,
                  ClaimIsExclusive, Checkout, NoRow, Successes, Messages
    <2>2. CASE g = h
      BY <2>2 DEF TypeOK, SaleorTypeOK, ShopOK, RowOK, HandlerOK, HoldsClaim, HasOrder,
                  ClaimIsExclusive, Checkout, NoRow, Successes, Messages
    <2>3. QED
      BY <2>1, <2>2
  <1>5. ClaimIsExclusive'
    BY DEF TypeOK, HandlerOK, HoldsClaim, ClaimIsExclusive, Checkout, Successes, Messages, NoRow
  <1>6. OrderOnlyWhenConfirmed'
    BY DEF TypeOK, SaleorTypeOK, HandlerOK, OrderOnlyWhenConfirmed, Checkout, Successes, Messages
  <1>7. QED
    BY <1>1, <1>2, <1>3, <1>4, <1>5, <1>6

\* The order is made while the claim is held, so the new id belongs to nobody.
LEMMA CreateKeepsIInv ==
    ASSUME IInv, NEW h \in Handlers, CreateOrder(h)
    PROVE  IInv'
  <1> USE AirbapayAssumption, NoCheckoutAssumption
      DEF IInv, saleorVars, eventVars, handlerVars, gatewayVars, CreateOrder, CreateFromCheckout, Goto
  <1>1. TypeOK'
    BY DEF TypeOK, SaleorTypeOK, NoRow
  <1>2. ShopOK'
    BY DEF TypeOK, SaleorTypeOK, ShopOK, OneOrderPerCheckout, HandlerOK, HoldsClaim, Checkout
  <1>3. \A c \in Checkouts : RowOK(c)'
    BY DEF TypeOK, SaleorTypeOK, ShopOK, RowOK, HandlerOK, HoldsClaim, HasOrder, Checkout, NoRow
  <1>4. \A g \in Handlers : HandlerOK(g)'
    <2> SUFFICES ASSUME NEW g \in Handlers PROVE HandlerOK(g)'
      OBVIOUS
    <2>1. CASE g # h
      BY <2>1 DEF TypeOK, SaleorTypeOK, ShopOK, RowOK, HandlerOK, HoldsClaim, HasOrder,
                  ClaimIsExclusive, Checkout, NoRow, Successes, Messages
    <2>2. CASE g = h
      BY <2>2 DEF TypeOK, SaleorTypeOK, ShopOK, RowOK, HandlerOK, HoldsClaim, HasOrder,
                  ClaimIsExclusive, Checkout, NoRow, Successes, Messages
    <2>3. QED
      BY <2>1, <2>2
  <1>5. ClaimIsExclusive'
    BY DEF TypeOK, HandlerOK, HoldsClaim, ClaimIsExclusive, Checkout, Successes, Messages, NoRow
  <1>6. OrderOnlyWhenConfirmed'
    <2>1. PICK s \in SuccessStates : message[h] = <<Checkout(h), s>> /\ message[h] \in sent
      BY DEF HandlerOK, Successes, Checkout
    <2>2. \A o \in OrderIds : orderOf'[o] # orderOf[o] => orderOf'[o] = Checkout(h)
      BY DEF TypeOK, SaleorTypeOK
    <2>3. QED
      BY <2>1, <2>2 DEF OrderOnlyWhenConfirmed
  <1>7. QED
    BY <1>1, <1>2, <1>3, <1>4, <1>5, <1>6

\* The order is made and the handler does not learn of it.
LEMMA CreateLostKeepsIInv ==
    ASSUME IInv, NEW h \in Handlers, CreateLost(h)
    PROVE  IInv'
  <1> USE AirbapayAssumption, NoCheckoutAssumption
      DEF IInv, saleorVars, eventVars, handlerVars, gatewayVars, CreateLost, CreateFromCheckout, Goto, Fault
  <1>1. TypeOK'
    BY DEF TypeOK, SaleorTypeOK, NoRow
  <1>2. ShopOK'
    BY DEF TypeOK, SaleorTypeOK, ShopOK, OneOrderPerCheckout, HandlerOK, HoldsClaim, Checkout
  <1>3. \A c \in Checkouts : RowOK(c)'
    BY DEF TypeOK, SaleorTypeOK, ShopOK, RowOK, HandlerOK, HoldsClaim, HasOrder, Checkout, NoRow
  <1>4. \A g \in Handlers : HandlerOK(g)'
    <2> SUFFICES ASSUME NEW g \in Handlers PROVE HandlerOK(g)'
      OBVIOUS
    <2>1. CASE g # h
      BY <2>1 DEF TypeOK, SaleorTypeOK, ShopOK, RowOK, HandlerOK, HoldsClaim, HasOrder,
                  ClaimIsExclusive, Checkout, NoRow, Successes, Messages
    <2>2. CASE g = h
      BY <2>2 DEF TypeOK, SaleorTypeOK, ShopOK, RowOK, HandlerOK, HoldsClaim, HasOrder,
                  ClaimIsExclusive, Checkout, NoRow, Successes, Messages
    <2>3. QED
      BY <2>1, <2>2
  <1>5. ClaimIsExclusive'
    BY DEF TypeOK, HandlerOK, HoldsClaim, ClaimIsExclusive, Checkout, Successes, Messages, NoRow
  <1>6. OrderOnlyWhenConfirmed'
    <2>1. PICK s \in SuccessStates : message[h] = <<Checkout(h), s>> /\ message[h] \in sent
      BY DEF HandlerOK, Successes, Checkout
    <2>2. \A o \in OrderIds : orderOf'[o] # orderOf[o] => orderOf'[o] = Checkout(h)
      BY DEF TypeOK, SaleorTypeOK
    <2>3. QED
      BY <2>1, <2>2 DEF OrderOnlyWhenConfirmed
  <1>7. QED
    BY <1>1, <1>2, <1>3, <1>4, <1>5, <1>6

\* The holder of the claim gives it back: nobody else relies on the row.
LEMMA ReleaseKeepsIInv ==
    ASSUME IInv, NEW h \in Handlers, Release(h)
    PROVE  IInv'
  <1> USE AirbapayAssumption, NoCheckoutAssumption
      DEF IInv, saleorVars, eventVars, handlerVars, gatewayVars, Release, Leave
  <1>1. TypeOK'
    BY DEF TypeOK, SaleorTypeOK, NoRow
  <1>2. ShopOK'
    BY DEF TypeOK, SaleorTypeOK, ShopOK, OneOrderPerCheckout, HandlerOK, HoldsClaim, Checkout
  <1>3. \A c \in Checkouts : RowOK(c)'
    BY DEF TypeOK, SaleorTypeOK, ShopOK, RowOK, HandlerOK, HoldsClaim, HasOrder, Checkout, NoRow
  <1>4. \A g \in Handlers : HandlerOK(g)'
    <2> SUFFICES ASSUME NEW g \in Handlers PROVE HandlerOK(g)'
      OBVIOUS
    <2>1. CASE g # h
      BY <2>1 DEF TypeOK, SaleorTypeOK, ShopOK, RowOK, HandlerOK, HoldsClaim, HasOrder,
                  ClaimIsExclusive, Checkout, NoRow, Successes, Messages
    <2>2. CASE g = h
      BY <2>2 DEF TypeOK, SaleorTypeOK, ShopOK, RowOK, HandlerOK, HoldsClaim, HasOrder,
                  ClaimIsExclusive, Checkout, NoRow, Successes, Messages
    <2>3. QED
      BY <2>1, <2>2
  <1>5. ClaimIsExclusive'
    BY DEF TypeOK, HandlerOK, HoldsClaim, ClaimIsExclusive, Checkout, Successes, Messages, NoRow
  <1>6. OrderOnlyWhenConfirmed'
    BY DEF TypeOK, SaleorTypeOK, HandlerOK, OrderOnlyWhenConfirmed, Checkout, Successes, Messages
  <1>7. QED
    BY <1>1, <1>2, <1>3, <1>4, <1>5, <1>6

\* The id of the order enters the row.
LEMMA PersistKeepsIInv ==
    ASSUME IInv, NEW h \in Handlers, PersistOrder(h)
    PROVE  IInv'
  <1> USE AirbapayAssumption, NoCheckoutAssumption
      DEF IInv, saleorVars, eventVars, handlerVars, gatewayVars, PersistOrder, SaveOrderId, Goto
  <1>1. TypeOK'
    BY DEF TypeOK, SaleorTypeOK, NoRow
  <1>2. ShopOK'
    BY DEF TypeOK, SaleorTypeOK, ShopOK, OneOrderPerCheckout, HandlerOK, HoldsClaim, Checkout
  <1>3. \A c \in Checkouts : RowOK(c)'
    BY DEF TypeOK, SaleorTypeOK, ShopOK, RowOK, HandlerOK, HoldsClaim, HasOrder, Checkout, NoRow
  <1>4. \A g \in Handlers : HandlerOK(g)'
    <2> SUFFICES ASSUME NEW g \in Handlers PROVE HandlerOK(g)'
      OBVIOUS
    <2>1. CASE g # h
      BY <2>1 DEF TypeOK, SaleorTypeOK, ShopOK, RowOK, HandlerOK, HoldsClaim, HasOrder,
                  ClaimIsExclusive, Checkout, NoRow, Successes, Messages
    <2>2. CASE g = h
      BY <2>2 DEF TypeOK, SaleorTypeOK, ShopOK, RowOK, HandlerOK, HoldsClaim, HasOrder,
                  ClaimIsExclusive, Checkout, NoRow, Successes, Messages
    <2>3. QED
      BY <2>1, <2>2
  <1>5. ClaimIsExclusive'
    BY DEF TypeOK, HandlerOK, HoldsClaim, ClaimIsExclusive, Checkout, Successes, Messages, NoRow
  <1>6. OrderOnlyWhenConfirmed'
    BY DEF TypeOK, SaleorTypeOK, HandlerOK, OrderOnlyWhenConfirmed, Checkout, Successes, Messages
  <1>7. QED
    BY <1>1, <1>2, <1>3, <1>4, <1>5, <1>6

\* The order is marked paid.
LEMMA MarkPaidKeepsIInv ==
    ASSUME IInv, NEW h \in Handlers, MarkOrderAsPaid(h)
    PROVE  IInv'
  <1> USE AirbapayAssumption, NoCheckoutAssumption
      DEF IInv, saleorVars, eventVars, handlerVars, gatewayVars, MarkOrderAsPaid, MarkPaid, Goto
  <1>1. TypeOK'
    BY DEF TypeOK, SaleorTypeOK, HandlerOK, HasOrder
  <1>2. ShopOK'
    <2>1. Checkout(h) \in Checkouts
      BY DEF HandlerOK, Successes, Checkout
    <2>2. orderOf[held[h]] = Checkout(h)
      BY <2>1 DEF TypeOK, HandlerOK, HasOrder, RowOK
    <2>3. QED
      BY <2>1, <2>2 DEF TypeOK, SaleorTypeOK, ShopOK, OneOrderPerCheckout
  <1>3. \A c \in Checkouts : RowOK(c)'
    BY DEF TypeOK, SaleorTypeOK, ShopOK, RowOK, HandlerOK, HoldsClaim, HasOrder, Checkout, NoRow
  <1>4. \A g \in Handlers : HandlerOK(g)'
    <2> SUFFICES ASSUME NEW g \in Handlers PROVE HandlerOK(g)'
      OBVIOUS
    <2>1. CASE g # h
      BY <2>1 DEF TypeOK, SaleorTypeOK, ShopOK, RowOK, HandlerOK, HoldsClaim, HasOrder,
                  ClaimIsExclusive, Checkout, NoRow, Successes, Messages
    <2>2. CASE g = h
      BY <2>2 DEF TypeOK, SaleorTypeOK, ShopOK, RowOK, HandlerOK, HoldsClaim, HasOrder,
                  ClaimIsExclusive, Checkout, NoRow, Successes, Messages
    <2>3. QED
      BY <2>1, <2>2
  <1>5. ClaimIsExclusive'
    BY DEF TypeOK, HandlerOK, HoldsClaim, ClaimIsExclusive, Checkout, Successes, Messages, NoRow
  <1>6. OrderOnlyWhenConfirmed'
    BY DEF TypeOK, SaleorTypeOK, HandlerOK, OrderOnlyWhenConfirmed, Checkout, Successes, Messages
  <1>7. QED
    BY <1>1, <1>2, <1>3, <1>4, <1>5, <1>6

\* ... and the handler does not learn of it.
LEMMA MarkPaidLostKeepsIInv ==
    ASSUME IInv, NEW h \in Handlers, MarkPaidLost(h)
    PROVE  IInv'
  <1> USE AirbapayAssumption, NoCheckoutAssumption
      DEF IInv, saleorVars, eventVars, handlerVars, gatewayVars, MarkPaidLost, MarkPaid, Leave, Fault
  <1>1. TypeOK'
    BY DEF TypeOK, SaleorTypeOK, HandlerOK, HasOrder
  <1>2. ShopOK'
    <2>1. Checkout(h) \in Checkouts
      BY DEF HandlerOK, Successes, Checkout
    <2>2. orderOf[held[h]] = Checkout(h)
      BY <2>1 DEF TypeOK, HandlerOK, HasOrder, RowOK
    <2>3. QED
      BY <2>1, <2>2 DEF TypeOK, SaleorTypeOK, ShopOK, OneOrderPerCheckout
  <1>3. \A c \in Checkouts : RowOK(c)'
    BY DEF TypeOK, SaleorTypeOK, ShopOK, RowOK, HandlerOK, HoldsClaim, HasOrder, Checkout, NoRow
  <1>4. \A g \in Handlers : HandlerOK(g)'
    <2> SUFFICES ASSUME NEW g \in Handlers PROVE HandlerOK(g)'
      OBVIOUS
    <2>1. CASE g # h
      BY <2>1 DEF TypeOK, SaleorTypeOK, ShopOK, RowOK, HandlerOK, HoldsClaim, HasOrder,
                  ClaimIsExclusive, Checkout, NoRow, Successes, Messages
    <2>2. CASE g = h
      BY <2>2 DEF TypeOK, SaleorTypeOK, ShopOK, RowOK, HandlerOK, HoldsClaim, HasOrder,
                  ClaimIsExclusive, Checkout, NoRow, Successes, Messages
    <2>3. QED
      BY <2>1, <2>2
  <1>5. ClaimIsExclusive'
    BY DEF TypeOK, HandlerOK, HoldsClaim, ClaimIsExclusive, Checkout, Successes, Messages, NoRow
  <1>6. OrderOnlyWhenConfirmed'
    BY DEF TypeOK, SaleorTypeOK, HandlerOK, OrderOnlyWhenConfirmed, Checkout, Successes, Messages
  <1>7. QED
    BY <1>1, <1>2, <1>3, <1>4, <1>5, <1>6

\* The row is settled: its order is the handler's, which is paid.
LEMMA SettleKeepsIInv ==
    ASSUME IInv, NEW h \in Handlers, Settle(h)
    PROVE  IInv'
  <1> USE AirbapayAssumption, NoCheckoutAssumption
      DEF IInv, saleorVars, eventVars, handlerVars, gatewayVars, Settle, SetProcessed, Goto
  <1>1. TypeOK'
    BY ZenonT(40) DEF TypeOK, SaleorTypeOK, NoRow
  <1>2. ShopOK'
    BY DEF TypeOK, SaleorTypeOK, ShopOK, OneOrderPerCheckout, HandlerOK, HoldsClaim, Checkout
  <1>3. \A c \in Checkouts : RowOK(c)'
    BY DEF TypeOK, SaleorTypeOK, ShopOK, RowOK, HandlerOK, HoldsClaim, HasOrder, Checkout, NoRow
  <1>4. \A g \in Handlers : HandlerOK(g)'
    <2> SUFFICES ASSUME NEW g \in Handlers PROVE HandlerOK(g)'
      OBVIOUS
    <2>1. CASE g # h
      BY <2>1 DEF TypeOK, SaleorTypeOK, ShopOK, RowOK, HandlerOK, HoldsClaim, HasOrder,
                  ClaimIsExclusive, Checkout, NoRow, Successes, Messages
    <2>2. CASE g = h
      BY <2>2 DEF TypeOK, SaleorTypeOK, ShopOK, RowOK, HandlerOK, HoldsClaim, HasOrder,
                  ClaimIsExclusive, Checkout, NoRow, Successes, Messages
    <2>3. QED
      BY <2>1, <2>2
  <1>5. ClaimIsExclusive'
    BY DEF TypeOK, HandlerOK, HoldsClaim, ClaimIsExclusive, Checkout, Successes, Messages, NoRow
  <1>6. OrderOnlyWhenConfirmed'
    BY DEF TypeOK, SaleorTypeOK, HandlerOK, OrderOnlyWhenConfirmed, Checkout, Successes, Messages
  <1>7. QED
    BY <1>1, <1>2, <1>3, <1>4, <1>5, <1>6

\* A row is written and the handler does not learn of it.
LEMMA RowWriteLostKeepsIInv ==
    ASSUME IInv, NEW h \in Handlers, RowWriteLost(h)
    PROVE  IInv'
  <1> USE AirbapayAssumption, NoCheckoutAssumption
      DEF IInv, saleorVars, eventVars, handlerVars, gatewayVars, RowWriteLost, InsertRow, SaveOrderId, SetProcessed, Leave, Fault
  <1>1. TypeOK'
    BY DEF TypeOK, SaleorTypeOK, NoRow
  <1>2. ShopOK'
    BY DEF TypeOK, SaleorTypeOK, ShopOK, OneOrderPerCheckout, HandlerOK, HoldsClaim, Checkout
  <1>3. \A c \in Checkouts : RowOK(c)'
    BY DEF TypeOK, SaleorTypeOK, ShopOK, RowOK, HandlerOK, HoldsClaim, HasOrder, Checkout, NoRow
  <1>4. \A g \in Handlers : HandlerOK(g)'
    <2> SUFFICES ASSUME NEW g \in Handlers PROVE HandlerOK(g)'
      OBVIOUS
    <2>1. CASE g # h
      BY <2>1 DEF TypeOK, SaleorTypeOK, ShopOK, RowOK, HandlerOK, HoldsClaim, HasOrder,
                  ClaimIsExclusive, Checkout, NoRow, Successes, Messages
    <2>2. CASE g = h
      BY <2>2 DEF TypeOK, SaleorTypeOK, ShopOK, RowOK, HandlerOK, HoldsClaim, HasOrder,
                  ClaimIsExclusive, Checkout, NoRow, Successes, Messages
    <2>3. QED
      BY <2>1, <2>2
  <1>5. ClaimIsExclusive'
    BY DEF TypeOK, HandlerOK, HoldsClaim, ClaimIsExclusive, Checkout, Successes, Messages, NoRow
  <1>6. OrderOnlyWhenConfirmed'
    BY DEF TypeOK, SaleorTypeOK, HandlerOK, OrderOnlyWhenConfirmed, Checkout, Successes, Messages
  <1>7. QED
    BY <1>1, <1>2, <1>3, <1>4, <1>5, <1>6

-----------------------------------------------------------------------------
(* Theorems                                                                *)

LEMMA StepKeepsIInv ==
    ASSUME IInv, NEW h \in Handlers, Step(h)
    PROVE  IInv'
  <1> USE DEF IInv
  <1>1. CASE Claim(h)
    BY <1>1, ClaimKeepsIInv
  <1>2. CASE ClaimTaken(h)
    BY <1>2, ReadKeepsIInv DEF ClaimTaken, TypeOK, gatewayVars
  <1>3. CASE SkipDuplicate(h)
    BY <1>3, ReadKeepsIInv DEF SkipDuplicate, TypeOK
  <1>4. CASE InProgress(h)
    BY <1>4, LeaveKeepsIInv DEF InProgress, TypeOK, gatewayVars
  <1>5. CASE Resume(h)
    <2>1. Checkout(h) \in Checkouts
      BY <1>5 DEF Resume, Goto, HandlerOK, Successes, Checkout
    <2>2. event[Checkout(h)].orderId \in OrderIds
      BY <1>5, <2>1 DEF Resume, TypeOK
    <2>3. QED
      BY <1>5, <2>2, ReadKeepsIInv DEF Resume, TypeOK
  <1>6. CASE CreateOrder(h)
    BY <1>6, CreateKeepsIInv
  <1>7. CASE CreateRefused(h)
    BY <1>7, ReadKeepsIInv DEF CreateRefused, TypeOK
  <1>8. CASE Release(h)
    BY <1>8, ReleaseKeepsIInv
  <1>9. CASE PersistOrder(h)
    BY <1>9, PersistKeepsIInv
  <1>10. CASE CheckPaid(h)
    BY <1>10, ReadKeepsIInv DEF CheckPaid, Goto, TypeOK, HandlerOK, HasOrder
  <1>11. CASE MarkOrderAsPaid(h)
    BY <1>11, MarkPaidKeepsIInv
  <1>12. CASE AlreadyPaid(h)
    BY <1>12, LeaveKeepsIInv DEF AlreadyPaid, TypeOK, gatewayVars
  <1>13. CASE Settle(h)
    BY <1>13, SettleKeepsIInv
  <1>14. CASE Reply(h)
    BY <1>14, LeaveKeepsIInv DEF Reply, TypeOK, HandlerOK
  <1>15. QED
    BY <1>1, <1>2, <1>3, <1>4, <1>5, <1>6, <1>7, <1>8, <1>9, <1>10, <1>11, <1>12,
       <1>13, <1>14 DEF Step

LEMMA FaultKeepsIInv ==
    ASSUME IInv, NEW h \in Handlers, FaultStep(h)
    PROVE  IInv'
  <1> USE DEF IInv
  <1>1. CASE Crash(h)
    BY <1>1, LeaveKeepsIInv DEF Crash, Fault, TypeOK, gatewayVars
  <1>2. CASE CreateFails(h)
    <2>1. faults' \in Nat
      BY <1>2 DEF CreateFails, Fault, TypeOK
    <2>2. QED
      BY <1>2, <2>1, ReadKeepsIInv DEF CreateFails, TypeOK
  <1>3. CASE CreateLost(h)
    BY <1>3, CreateLostKeepsIInv
  <1>4. CASE RowWriteLost(h)
    BY <1>4, RowWriteLostKeepsIInv
  <1>5. CASE MarkPaidLost(h)
    BY <1>5, MarkPaidLostKeepsIInv
  <1>6. QED
    BY <1>1, <1>2, <1>3, <1>4, <1>5 DEF FaultStep

\* AirbaPay calls back about one more payment.
LEMMA NotifyKeepsIInv ==
    ASSUME IInv, NEW m \in Messages, Notify(m)
    PROVE  IInv'
  BY DEF Notify, IInv, TypeOK, SaleorTypeOK, ShopOK, OneOrderPerCheckout, RowOK,
         HandlerOK, HoldsClaim, HasOrder, ClaimIsExclusive, OrderOnlyWhenConfirmed,
         Checkout, saleorVars, eventVars, handlerVars

LEMMA NextKeepsIInv == IInv /\ [Next]_vars => IInv'
  <1> SUFFICES ASSUME IInv, [Next]_vars PROVE IInv'
    OBVIOUS
  <1>1. CASE \E m \in Messages : Notify(m)
    BY <1>1, NotifyKeepsIInv
  <1>2. CASE \E h \in Handlers, m \in Messages : Deliver(h, m)
    BY <1>2, DeliverKeepsIInv
  <1>3. CASE \E h \in Handlers : Step(h)
    BY <1>3, StepKeepsIInv
  <1>4. CASE \E h \in Handlers : FaultStep(h)
    BY <1>4, FaultKeepsIInv
  <1>5. CASE UNCHANGED vars
    BY <1>5 DEF vars, IInv, TypeOK, SaleorTypeOK, ShopOK, OneOrderPerCheckout, RowOK,
         HandlerOK, HoldsClaim, HasOrder, ClaimIsExclusive, OrderOnlyWhenConfirmed,
         Checkout, saleorVars, eventVars, handlerVars, gatewayVars
  <1>6. QED
    BY <1>1, <1>2, <1>3, <1>4, <1>5 DEF Next

\* The invariant holds in every state the callback handler can reach.
THEOREM Invariance == Spec => []IInv
  BY InitIInv, NextKeepsIInv, PTL DEF Spec

\* Every variable keeps its type: in particular an order is marked paid, and an
\* id is written into a row, only when the handler has one.
THEOREM TypeCorrect == Spec => []TypeOK
  <1>1. IInv => TypeOK
    BY DEF IInv
  <1>2. QED
    BY <1>1, Invariance, PTL

\* Handlers never create, persist or release for one checkout at the same time.
THEOREM MutualExclusion == Spec => []ClaimIsExclusive
  <1>1. IInv => ClaimIsExclusive
    BY DEF IInv
  <1>2. QED
    BY <1>1, Invariance, PTL

\* A settled row names a paid order of its own checkout.
THEOREM SettlementIsPaid == Spec => []SettledIsPaid
  <1>1. IInv => SettledIsPaid
    <2> SUFFICES ASSUME IInv, NEW c \in Checkouts, event[c].status = "processed"
                 PROVE  event[c].orderId \in paid /\ orderOf[event[c].orderId] = c
      BY DEF SettledIsPaid
    <2>1. event[c].orderId \in paid
      BY DEF IInv, RowOK
    <2>2. event[c].orderId # NoOrder
      BY <2>1, AirbapayAssumption DEF IInv, TypeOK, SaleorTypeOK
    <2>3. QED
      BY <2>1, <2>2 DEF IInv, RowOK
  <1>2. QED
    BY <1>1, Invariance, PTL

\* No order is made for a payment that AirbaPay never confirmed.
THEOREM OrdersAreConfirmed == Spec => []OrderOnlyWhenConfirmed
  <1>1. IInv => OrderOnlyWhenConfirmed
    BY DEF IInv
  <1>2. QED
    BY <1>1, Invariance, PTL

\* What the row says of a checkout's progress is never taken back: a step that
\* deletes the row finds no order in it, and no step overwrites an order.
THEOREM ProgressKept == Spec => ProgressIsKept
  <1> DEFINE Kept == \A c \in Checkouts :
          /\ event[c].orderId # NoOrder => event'[c].orderId = event[c].orderId
          /\ event[c].status = "processed" => event'[c].status = "processed"
  <1>1. IInv /\ [Next]_vars => [Kept]_vars
    <2> SUFFICES ASSUME IInv, Next, NEW c \in Checkouts
                 PROVE  /\ event[c].orderId # NoOrder => event'[c].orderId = event[c].orderId
                        /\ event[c].status = "processed" => event'[c].status = "processed"
      OBVIOUS
    <2>1. CASE UNCHANGED event
      BY <2>1
    <2>2. ASSUME NEW h \in Handlers, Release(h)
          PROVE  Kept
      BY <2>2, AirbapayAssumption DEF Release, IInv, TypeOK, SaleorTypeOK, RowOK, HandlerOK, HoldsClaim
    <2>3. ASSUME NEW h \in Handlers, Claim(h) \/ PersistOrder(h) \/ Settle(h) \/ RowWriteLost(h)
          PROVE  Kept
      BY <2>3 DEF Claim, PersistOrder, Settle, RowWriteLost, Goto, InsertRow, SaveOrderId,
                  SetProcessed, IInv, TypeOK, RowOK, HandlerOK, HoldsClaim, HasOrder
    <2>4. QED
      BY <2>1, <2>2, <2>3 DEF Next, Notify, Deliver, Step, FaultStep, Reply, ClaimTaken,
             SkipDuplicate, InProgress, Resume, CreateOrder, CreateRefused, CheckPaid,
             MarkOrderAsPaid, AlreadyPaid, Crash, CreateFails, CreateLost, MarkPaidLost, eventVars
  <1>2. QED
    BY <1>1, Invariance, PTL DEF Spec, ProgressIsKept

-----------------------------------------------------------------------------
(* When an order is asked for once                                         *)

\* A checkout whose row is not there, or whose claim is about to make the order or
\* to be given back, has no order.
FreshOK ==
    /\ \A c \in Checkouts : event[c].status = "absent" => OrdersOf(c) = {}
    /\ \A h \in Handlers : pc[h] \in {"create", "release"} => OrdersOf(Checkout(h)) = {}

\* A step that makes no order deletes a row only at the end of a failed creation,
\* and comes to a creation only by winning the claim.
LEMMA FreshKept ==
    ASSUME IInv, FreshOK, UNCHANGED orderOf,
           \A c \in Checkouts : event'[c].status = "absent" =>
               \/ event[c].status = "absent"
               \/ \E h \in Handlers : pc[h] = "release" /\ Checkout(h) = c,
           \A h \in Handlers : pc'[h] \in {"create", "release"} =>
               /\ message'[h] = message[h]
               /\ \/ pc[h] \in {"create", "release"}
                  \/ pc[h] = "claim" /\ event[Checkout(h)].status = "absent"
    PROVE  FreshOK'
  <1>1. \A c : OrdersOf(c)' = OrdersOf(c)
    BY DEF OrdersOf
  <1>2. \A c \in Checkouts : event'[c].status = "absent" => OrdersOf(c)' = {}
    BY <1>1 DEF FreshOK
  <1>3. ASSUME NEW h \in Handlers, pc'[h] \in {"create", "release"}
        PROVE  OrdersOf(Checkout(h))' = {}
    <2>1. Checkout(h) \in Checkouts
      BY <1>3 DEF IInv, HandlerOK, Checkout, Successes
    <2>2. OrdersOf(Checkout(h)) = {}
      BY <1>3, <2>1 DEF FreshOK
    <2>3. Checkout(h)' = Checkout(h)
      BY <1>3 DEF Checkout
    <2>4. QED
      BY <2>2, <2>3 DEF OrdersOf
  <1>4. QED
    BY <1>2, <1>3 DEF FreshOK

\* The handler that makes the order holds the claim, so that no other is about to.
LEMMA CreateKeepsFresh ==
    ASSUME IInv, FreshOK, NEW h \in Handlers, CreateOrder(h)
    PROVE  FreshOK'
  <1> USE DEF IInv, CreateOrder, Goto, eventVars
  <1>1. PICK o \in OrderIds : orderOf' = [orderOf EXCEPT ![o] = Checkout(h)]
    BY DEF CreateFromCheckout
  <1>2. /\ pc[h] = "create" /\ pc'[h] = "persist" /\ UNCHANGED <<event, message>>
        /\ \A g \in Handlers \ {h} : pc'[g] = pc[g]
    BY DEF TypeOK
  <1>3. event[Checkout(h)].status = "processing"
    BY <1>2 DEF HandlerOK, HoldsClaim
  <1>4. \A c : c # Checkout(h) /\ OrdersOf(c) = {} => OrdersOf(c)' = {}
    BY <1>1 DEF OrdersOf, TypeOK, SaleorTypeOK
  <1>5. \A c \in Checkouts : event'[c].status = "absent" => OrdersOf(c)' = {}
    BY <1>2, <1>3, <1>4 DEF FreshOK
  <1>6. ASSUME NEW g \in Handlers, pc'[g] \in {"create", "release"}
        PROVE  OrdersOf(Checkout(g))' = {}
    <2>1. g # h /\ pc[g] \in {"create", "release"} /\ Checkout(g)' = Checkout(g)
      BY <1>2, <1>6 DEF Checkout
    <2>2. Checkout(g) # Checkout(h)
      BY <1>2, <2>1 DEF ClaimIsExclusive
    <2>3. OrdersOf(Checkout(g)) = {}
      BY <2>1 DEF FreshOK
    <2>4. \A c : c = Checkout(g) => OrdersOf(c)' = {}
      BY <1>4, <2>2, <2>3
    <2>5. QED
      BY <2>1, <2>4 DEF OrdersOf
  <1>7. QED
    BY <1>5, <1>6 DEF FreshOK

LEMMA NextFresh ==
    ASSUME <<"lost", "create">> \notin Faults
    PROVE  IInv /\ FreshOK /\ [Next]_vars => FreshOK'
  <1> SUFFICES ASSUME IInv, FreshOK, [Next]_vars PROVE FreshOK'
    OBVIOUS
  <1> USE DEF saleorVars, eventVars, handlerVars, gatewayVars
  <1>0. /\ pc \in [Handlers -> Steps \cup {"idle"}]
        /\ message \in [Handlers -> Messages \cup {NoMessage}]
        /\ event \in [Checkouts -> [status : Statuses, orderId : OrderIds \cup {NoOrder}]]
    BY DEF IInv, TypeOK
  <1>1. ASSUME NEW h \in Handlers, CreateLost(h) PROVE FALSE
    BY <1>1 DEF CreateLost, Fault, Goto
  <1>2. ASSUME NEW h \in Handlers, Claim(h) \/ PersistOrder(h) \/ Settle(h) \/ RowWriteLost(h)
        PROVE  FreshOK'
    <2>1. UNCHANGED orderOf
      BY <1>2 DEF Claim, PersistOrder, Settle, RowWriteLost
    <2>2. \A c \in Checkouts : event'[c].status = "absent" => event[c].status = "absent"
      BY <1>0, <1>2 DEF Claim, PersistOrder, Settle, RowWriteLost, InsertRow, SaveOrderId,
                        SetProcessed
    <2>3. \A g \in Handlers : pc'[g] \in {"create", "release"} =>
               /\ message'[g] = message[g]
               /\ \/ pc[g] \in {"create", "release"}
                  \/ pc[g] = "claim" /\ event[Checkout(g)].status = "absent"
      BY <1>0, <1>2 DEF Claim, PersistOrder, Settle, RowWriteLost, Goto, Leave
    <2>4. QED
      BY <2>1, <2>2, <2>3, FreshKept
  <1>3. ASSUME NEW h \in Handlers, Release(h) PROVE FreshOK'
    <2>1. UNCHANGED orderOf /\ pc[h] = "release"
      BY <1>3 DEF Release
    <2>2. \A c \in Checkouts : c # Checkout(h) => event'[c] = event[c]
      BY <1>0, <1>3 DEF Release
    <2>3. \A g \in Handlers : pc'[g] \in {"create", "release"} =>
               message'[g] = message[g] /\ pc[g] \in {"create", "release"}
      BY <1>0, <1>3 DEF Release, Leave
    <2>4. QED
      BY <2>1, <2>2, <2>3, FreshKept
  <1>4. ASSUME NEW h \in Handlers,
               \/ ClaimTaken(h) \/ SkipDuplicate(h) \/ InProgress(h) \/ Resume(h)
               \/ CreateRefused(h) \/ CreateFails(h) \/ CheckPaid(h)
               \/ MarkOrderAsPaid(h) \/ MarkPaidLost(h) \/ AlreadyPaid(h)
               \/ Reply(h) \/ Crash(h)
               \/ \E m \in Messages : Deliver(h, m)
        PROVE  FreshOK'
    <2>1. UNCHANGED <<orderOf, event>>
      BY <1>4 DEF ClaimTaken, SkipDuplicate, InProgress, Resume, CreateRefused, CreateFails,
                  CheckPaid, MarkOrderAsPaid, MarkPaidLost, MarkPaid, AlreadyPaid, Reply,
                  Crash, Deliver
    <2>2. \A g \in Handlers : pc'[g] \in {"create", "release"} =>
               message'[g] = message[g] /\ pc[g] \in {"create", "release"}
      BY <1>0, <1>4
         DEF ClaimTaken, SkipDuplicate, InProgress, Resume, CreateRefused, CreateFails,
             CheckPaid, MarkOrderAsPaid, MarkPaidLost, AlreadyPaid, Reply, Crash, Deliver,
             Goto, Leave
    <2>3. QED
      BY <2>1, <2>2, FreshKept
  <1>5. CASE UNCHANGED <<orderOf, event, pc, message>>
    BY <1>5, FreshKept
  <1>6. QED
    BY <1>1, <1>2, <1>3, <1>4, <1>5, CreateKeepsFresh
       DEF Next, Notify, Step, FaultStep, vars

\* Over any overlap of callbacks and any other fault, no handler asks Saleor for a
\* second order of a checkout, unless a creation's answer was lost: the handler does
\* not lean on removeCheckout.
THEOREM AsksOnce == <<"lost", "create">> \notin Faults => (Spec => []CreatesOnce)
  <1> SUFFICES ASSUME <<"lost", "create">> \notin Faults PROVE Spec => []CreatesOnce
    OBVIOUS
  <1>1. Init => FreshOK
    BY NoCheckoutAssumption DEF Init, SaleorInit, FreshOK, OrdersOf
  <1>2. IInv /\ FreshOK /\ [Next]_vars => FreshOK'
    BY NextFresh
  <1>3. FreshOK => CreatesOnce
    BY DEF FreshOK, CreatesOnce
  <1>4. QED
    BY <1>1, <1>2, <1>3, Invariance, PTL DEF Spec

-----------------------------------------------------------------------------
(* AirbapayCallback implements Settlement.                                 *)

\* What the phases say when the invariant holds.
LEMMA PhaseMeaning ==
    ASSUME IInv, NEW c \in Checkouts
    PROVE  /\ c \in live => Phase(c) = "open"
           /\ \A o \in OrderIds : orderOf[o] = c /\ event[c].status # "processed" =>
                 Phase(c) = IF o \in paid THEN "paid" ELSE "ordered"
           /\ event[c].status = "processed" => Phase(c) = "settled"
  <1>1. c \in live => OrdersOf(c) = {} /\ event[c].status # "processed"
    BY AirbapayAssumption DEF OrdersOf, IInv, ShopOK, RowOK, TypeOK, SaleorTypeOK
  <1>2. ASSUME NEW o \in OrderIds, orderOf[o] = c
        PROVE  OrdersOf(c) = {o}
    BY <1>2, NoCheckoutAssumption DEF OrdersOf, IInv, ShopOK, OneOrderPerCheckout
  <1>3. QED
    BY <1>1, <1>2 DEF Phase

phaseBar == [c \in Checkouts |-> Phase(c)]

LEMMA InitRefines == Init => Abstract!Init
  BY NoCheckoutAssumption DEF Init, SaleorInit, NoRow, Phase, OrdersOf, Abstract!Init

\* One more order: its checkout was open and is ordered.
LEMMA CreateRefines ==
    ASSUME IInv, IInv', NEW c \in Checkouts, NEW o \in OrderIds,
           CreateFromCheckout(c, o), UNCHANGED event
    PROVE  Abstract!Advance(c)
  <1> USE NoCheckoutAssumption DEF CreateFromCheckout
  <1>1. Phase(c) = "open"
    BY PhaseMeaning
  <1>2. o \notin paid /\ orderOf'[o] = c /\ event[c].status # "processed"
    BY AirbapayAssumption DEF IInv, TypeOK, SaleorTypeOK, ShopOK, RowOK
  <1>3. OrdersOf(c)' = {o}
    BY <1>2 DEF OrdersOf, IInv, ShopOK, OneOrderPerCheckout
  <1>4. Phase(c)' = "ordered"
    BY <1>2, <1>3 DEF Phase
  <1>5. \A d \in Checkouts \ {c} : OrdersOf(d)' = OrdersOf(d)
    BY DEF OrdersOf, IInv, TypeOK, SaleorTypeOK
  <1>6. \A d \in Checkouts \ {c} : Phase(d)' = Phase(d)
    BY <1>5 DEF Phase
  <1>7. QED
    BY <1>1, <1>4, <1>6 DEF Abstract!Advance, Abstract!After

\* One more paid order: its checkout was ordered and is paid.
LEMMA MarkPaidRefines ==
    ASSUME IInv, IInv', NEW o \in OrderIds, NEW c \in Checkouts, orderOf[o] = c,
           MarkPaid(o), UNCHANGED event
    PROVE  Abstract!Advance(c)
  <1> USE NoCheckoutAssumption DEF MarkPaid
  <1>1. OrdersOf(c) = {o} /\ OrdersOf(c)' = {o}
    BY DEF OrdersOf, IInv, ShopOK, OneOrderPerCheckout
  <1>2. ASSUME event[c].status = "processed" PROVE FALSE
    <2>1. event[c].orderId \in paid /\ event[c].orderId \in OrderIds
      BY <1>2 DEF IInv, TypeOK, SaleorTypeOK, RowOK
    <2>2. orderOf[event[c].orderId] = c
      BY <2>1, AirbapayAssumption DEF IInv, RowOK
    <2>3. event[c].orderId = o
      BY <2>1, <2>2, <1>1 DEF OrdersOf
    <2>4. QED
      BY <2>1, <2>3
  <1>3. Phase(c) = "ordered" /\ Phase(c)' = "paid"
    BY <1>1, <1>2 DEF Phase
  <1>4. \A d \in Checkouts \ {c} : OrdersOf(d)' = OrdersOf(d) /\ o \notin OrdersOf(d)
    BY DEF OrdersOf
  <1>5. \A d \in Checkouts \ {c} : Phase(d)' = Phase(d)
    BY <1>4 DEF Phase
  <1>6. QED
    BY <1>3, <1>5 DEF Abstract!Advance, Abstract!After

\* A row is settled, for the first time or again.
LEMMA SettleRefines ==
    ASSUME IInv, NEW h \in Handlers, pc[h] = "settle", NEW c \in Checkouts, c = Checkout(h),
           SetProcessed(h), UNCHANGED saleorVars
    PROVE  Abstract!Advance(c) \/ UNCHANGED phaseBar
  <1> USE DEF SetProcessed, saleorVars
  <1>1. held[h] \in paid /\ orderOf[held[h]] = c /\ held[h] \in OrderIds
    BY AirbapayAssumption DEF IInv, TypeOK, SaleorTypeOK, HandlerOK, HasOrder, RowOK
  <1>2. event[c].status # "processed" => Phase(c) = "paid"
    BY <1>1, PhaseMeaning
  <1>3. event[c].status = "processed" => Phase(c) = "settled"
    BY PhaseMeaning
  <1>4. event'[c].status = "processed"
    BY DEF IInv, TypeOK
  <1>5. Phase(c)' = "settled"
    BY <1>4 DEF Phase
  <1>6. \A d \in Checkouts \ {c} : Phase(d)' = Phase(d)
    BY DEF Phase, OrdersOf, IInv, TypeOK
  <1>7. QED
    BY <1>2, <1>3, <1>5, <1>6 DEF Abstract!Advance, Abstract!After, phaseBar

\* A change of rows that settles nothing, and un-settles nothing, is no change
\* of phase.
LEMMA OtherRefines ==
    ASSUME UNCHANGED saleorVars,
           \A c \in Checkouts : event'[c].status = "processed" <=> event[c].status = "processed"
    PROVE  UNCHANGED phaseBar
  BY DEF phaseBar, Phase, OrdersOf, saleorVars

LEMMA NextRefines ==
    ASSUME IInv, IInv', [Next]_vars
    PROVE  Abstract!Next \/ UNCHANGED phaseBar
  <1> DEFINE Goal == Abstract!Next \/ UNCHANGED phaseBar
  <1> USE DEF Abstract!Next, saleorVars
  <1>1. ASSUME NEW h \in Handlers, pc[h] \in Steps \ {"reply"}
        PROVE  Checkout(h) \in Checkouts
    BY <1>1 DEF IInv, HandlerOK, Successes, Checkout
  <1>2. ASSUME NEW h \in Handlers, CreateOrder(h) \/ CreateLost(h)
        PROVE  Goal
    <2>1. PICK o \in OrderIds : CreateFromCheckout(Checkout(h), o) /\ UNCHANGED event
      BY <1>2 DEF CreateOrder, CreateLost, eventVars
    <2>2. Checkout(h) \in Checkouts
      BY <1>1, <1>2 DEF CreateOrder, CreateLost, Goto
    <2>3. PICK c \in Checkouts : c = Checkout(h)
      BY <2>2
    <2>4. Abstract!Advance(c)
      BY <2>1, <2>3, CreateRefines
    <2>5. QED
      BY <2>4
  <1>3. ASSUME NEW h \in Handlers, MarkOrderAsPaid(h) \/ MarkPaidLost(h)
        PROVE  Goal
    <2>1. pc[h] = "pay" /\ MarkPaid(held[h]) /\ UNCHANGED event
      BY <1>3 DEF MarkOrderAsPaid, MarkPaidLost, Goto, eventVars
    <2>2. Checkout(h) \in Checkouts
      BY <1>1, <2>1
    <2>3. PICK o \in OrderIds, c \in Checkouts : o = held[h] /\ orderOf[o] = c
      BY <2>1, <2>2, AirbapayAssumption DEF IInv, HandlerOK, HasOrder, RowOK
    <2>4. Abstract!Advance(c)
      BY <2>1, <2>3, MarkPaidRefines
    <2>5. QED
      BY <2>4
  <1>4. ASSUME NEW h \in Handlers, pc[h] = "settle", SetProcessed(h), UNCHANGED saleorVars
        PROVE  Goal
    <2>1. PICK c \in Checkouts : c = Checkout(h)
      BY <1>1, <1>4
    <2>2. QED
      BY <1>4, <2>1, SettleRefines
  <1>5. ASSUME NEW h \in Handlers,
               \/ Claim(h) \/ Release(h) \/ PersistOrder(h)
               \/ RowWriteLost(h) /\ pc[h] # "settle"
        PROVE  Goal
    <2>1. UNCHANGED saleorVars
      BY <1>5 DEF Claim, Release, PersistOrder, RowWriteLost
    <2>2. \A c \in Checkouts : event'[c].status = "processed" <=> event[c].status = "processed"
      BY <1>5, AirbapayAssumption DEF Claim, Release, PersistOrder, RowWriteLost, Goto, InsertRow,
             SaveOrderId, NoRow, IInv, TypeOK, HandlerOK, HoldsClaim
    <2>3. QED
      BY <2>1, <2>2, OtherRefines
  <1>6. ASSUME UNCHANGED <<saleorVars, event>>
        PROVE  Goal
    BY <1>6, OtherRefines
  <1>7. CASE UNCHANGED vars
    BY <1>6, <1>7 DEF vars, eventVars
  <1>8. CASE Next
    BY <1>2, <1>3, <1>4, <1>5, <1>6, <1>8
       DEF Next, Notify, Deliver, Step, FaultStep, Settle, RowWriteLost, Reply, ClaimTaken,
           SkipDuplicate, InProgress, Resume, CreateRefused, CheckPaid, AlreadyPaid, Crash,
           CreateFails, Goto, eventVars
  <1>9. QED
    BY <1>7, <1>8

\* The callback handler keeps the promise of Settlement: each checkout is
\* ordered, paid and settled once, in this order.
THEOREM Refinement == Spec => ImplementsSettlement
  <1>1. IInv /\ IInv' /\ [Next]_vars => [Abstract!Next]_phaseBar
    BY NextRefines
  <1>2. QED
    BY <1>1, InitRefines, Invariance, PTL DEF Spec, ImplementsSettlement, Abstract!Spec, phaseBar

-----------------------------------------------------------------------------
(* What success answered to AirbaPay means.  The handler gives a claim     *)
(* back only when a creation failed; while none does, a row once inserted  *)
(* stays, so a callback that collides with a row finds it there.           *)

CreationSucceeds == <<"fail", "create">> \notin Faults /\ <<"lost", "create">> \notin Faults

\* What a handler knows of its checkout when no claim is ever given back.
AckOK(h) ==
    /\ pc[h] # "release"
    /\ pc[h] = "create" => Checkout(h) \in live
    /\ pc[h] = "lookup" => event[Checkout(h)].status # "absent"
    /\ pc[h] = "reply" /\ message[h] \in Successes =>
           event[Checkout(h)].status = "processed"

AckInv ==
    /\ IInv
    /\ \A h \in Handlers : AckOK(h)
    /\ \A c \in Checkouts : event[c].status = "absent" => c \in live
    /\ AckedIsSettled

\* Rows are not deleted, and what is settled stays settled.
RowsGoOn ==
    \A c \in Checkouts :
        /\ event'[c].status = "absent" => event[c].status = "absent"
        /\ event[c].status = "processed" => event'[c].status = "processed"

LEMMA SuccessCheckout ==
    ASSUME NEW m \in Successes
    PROVE  m \in Messages /\ m[1] \in Checkouts
  BY DEF Successes, Messages

\* A handler moves on, or leaves, and the shop keeps its checkouts.
LEMMA MoveKeepsAckInv ==
    ASSUME AckInv, IInv', NEW h \in Handlers, RowsGoOn, AckOK(h)',
           \A g \in Handlers \ {h} : pc'[g] = pc[g] /\ message'[g] = message[g],
           live' = live,
           acked' = acked \/ (pc[h] = "reply" /\ acked' = acked \cup {message[h]})
    PROVE  AckInv'
  <1>1. ASSUME NEW g \in Handlers PROVE AckOK(g)'
    <2>1. CASE g = h
      BY <2>1
    <2>2. CASE g # h
      <3>1. pc'[g] = pc[g] /\ message'[g] = message[g] /\ Checkout(g)' = Checkout(g)
        BY <2>2 DEF Checkout
      <3>2. pc[g] = "lookup" => message[g] \in Successes
        BY DEF AckInv, IInv, HandlerOK
      <3>3. message[g] \in Successes => Checkout(g) \in Checkouts
        BY SuccessCheckout DEF Checkout
      <3>4. AckOK(g)
        BY DEF AckInv
      <3>5. QED
        BY <3>1, <3>2, <3>3, <3>4 DEF AckOK, RowsGoOn
    <2>3. QED
      BY <2>1, <2>2
  <1>2. \A c \in Checkouts : event'[c].status = "absent" => c \in live'
    BY DEF AckInv, RowsGoOn
  <1>3. AckedIsSettled'
    <2> SUFFICES ASSUME NEW c \in Checkouts, NEW s \in SuccessStates, <<c, s>> \in acked'
                 PROVE  event'[c].status = "processed"
      BY DEF AckedIsSettled
    <2>1. CASE <<c, s>> \in acked
      BY <2>1 DEF AckInv, AckedIsSettled, RowsGoOn
    <2>2. CASE pc[h] = "reply" /\ message[h] = <<c, s>>
      <3>1. message[h] \in Successes /\ Checkout(h) = c
        BY <2>2 DEF Successes, Checkout
      <3>2. QED
        BY <2>2, <3>1 DEF AckInv, AckOK, RowsGoOn
    <2>3. QED
      BY <2>1, <2>2
  <1>4. QED
    BY <1>1, <1>2, <1>3 DEF AckInv

\* A handler leaves.
LEMMA LeaveKeepsAckInv ==
    ASSUME AckInv, IInv', NEW h \in Handlers, RowsGoOn, Leave(h), live' = live,
           acked' = acked \/ (pc[h] = "reply" /\ acked' = acked \cup {message[h]})
    PROVE  AckInv'
  <1>1. \A g \in Handlers \ {h} : pc'[g] = pc[g] /\ message'[g] = message[g]
    BY DEF Leave, AckInv, IInv, TypeOK
  <1>2. AckOK(h)'
    BY DEF Leave, AckOK, AckInv, IInv, TypeOK
  <1>3. QED
    BY <1>1, <1>2, MoveKeepsAckInv

\* A handler goes on to another step.
LEMMA GotoKeepsAckInv ==
    ASSUME AckInv, IInv', NEW h \in Handlers, NEW s \in Steps, NEW t \in Steps,
           RowsGoOn, Goto(h, s, t), live' = live, acked' = acked,
           t # "release",
           t = "create" => Checkout(h) \in live,
           t = "lookup" => event'[Checkout(h)].status # "absent",
           t = "reply" => event'[Checkout(h)].status = "processed"
    PROVE  AckInv'
  <1>1. /\ pc'[h] = t /\ message' = message
        /\ \A g \in Handlers \ {h} : pc'[g] = pc[g]
    BY DEF Goto, AckInv, IInv, TypeOK
  <1>2. Checkout(h)' = Checkout(h)
    BY <1>1 DEF Checkout
  <1>3. AckOK(h)'
    BY <1>1, <1>2 DEF AckOK
  <1>4. QED
    BY <1>1, <1>3, MoveKeepsAckInv

\* An order is made: the checkout is gone, and its row, which the handler holds
\* alone, is not absent.
LEMMA CreateKeepsAckInv ==
    ASSUME AckInv, IInv', NEW h \in Handlers, CreateOrder(h)
    PROVE  AckInv'
  <1> DEFINE c == Checkout(h)
  <1>1. /\ pc[h] = "create" /\ live' = live \ {c}
        /\ UNCHANGED <<message, event, acked>> /\ pc' = [pc EXCEPT ![h] = "persist"]
    BY DEF CreateOrder, Goto, CreateFromCheckout, eventVars, gatewayVars
  <1>2. event[c].status = "processing"
    BY <1>1 DEF AckInv, IInv, HandlerOK, HoldsClaim
  <1>3. pc'[h] = "persist" /\ \A g \in Handlers \ {h} : pc'[g] = pc[g]
    BY <1>1 DEF AckInv, IInv, TypeOK
  <1>4. ASSUME NEW g \in Handlers PROVE AckOK(g)'
    <2>1. CASE g = h
      BY <1>3, <2>1 DEF AckOK
    <2>2. CASE g # h
      <3>1. pc'[g] = pc[g] /\ Checkout(g)' = Checkout(g)
        BY <1>1, <1>3, <2>2 DEF Checkout
      <3>2. pc[g] = "create" => Checkout(g) # c
        BY <1>1, <2>2 DEF AckInv, IInv, ClaimIsExclusive
      <3>3. AckOK(g)
        BY DEF AckInv
      <3> HIDE DEF c
      <3>4. QED
        BY <1>1, <3>1, <3>2, <3>3 DEF AckOK
    <2>3. QED
      BY <2>1, <2>2
  <1>5. \A d \in Checkouts : event'[d].status = "absent" => d \in live'
    BY <1>1, <1>2 DEF AckInv
  <1>6. AckedIsSettled'
    BY <1>1 DEF AckInv, AckedIsSettled
  <1>7. QED
    BY <1>4, <1>5, <1>6 DEF AckInv

LEMMA StepKeepsAckInv ==
    ASSUME AckInv, IInv', NEW h \in Handlers, Step(h)
    PROVE  AckInv'
  <1> DEFINE c == Checkout(h)
  <1>a. /\ event \in [Checkouts -> [status : Statuses, orderId : OrderIds \cup {NoOrder}]]
        /\ pc[h] \in Steps \ {"reply"} => c \in Checkouts
        /\ AckOK(h)
    BY SuccessCheckout DEF AckInv, IInv, TypeOK, HandlerOK, Checkout
  <1>b. event' = event => RowsGoOn
    BY DEF RowsGoOn
  <1>1. CASE Claim(h)
    <2>1. RowsGoOn
      BY <1>1, <1>a DEF Claim, Goto, InsertRow, RowsGoOn
    <2>2. c \in live
      BY <1>1, <1>a DEF Claim, Goto, AckInv
    <2>3. QED
      BY <1>1, <2>1, <2>2, GotoKeepsAckInv DEF Claim, saleorVars, gatewayVars
  <1>2. CASE ClaimTaken(h)
    BY <1>2, <1>b, GotoKeepsAckInv DEF ClaimTaken, saleorVars, gatewayVars, eventVars
  <1>3. CASE SkipDuplicate(h)
    <2>1. event[c].status = "processed"
      BY <1>3, <1>a DEF SkipDuplicate, Goto, AckOK
    <2>2. QED
      BY <1>3, <1>b, <2>1, GotoKeepsAckInv
         DEF SkipDuplicate, saleorVars, gatewayVars, eventVars
  <1>4. CASE Resume(h) \/ MarkOrderAsPaid(h)
    BY <1>4, <1>b, GotoKeepsAckInv
       DEF Resume, MarkOrderAsPaid, MarkPaid, saleorVars, gatewayVars, eventVars
  <1>5. CASE CheckPaid(h)
    <2>1. PICK t \in {"settle", "pay"} : Goto(h, "resume", t)
      BY <1>5 DEF CheckPaid
    <2>2. QED
      BY <1>5, <1>b, <2>1, GotoKeepsAckInv DEF CheckPaid, saleorVars, gatewayVars, eventVars
  <1>6. CASE PersistOrder(h)
    <2>1. RowsGoOn
      BY <1>6, <1>a DEF PersistOrder, SaveOrderId, RowsGoOn
    <2>2. QED
      BY <1>6, <2>1, GotoKeepsAckInv DEF PersistOrder, saleorVars, gatewayVars
  <1>7. CASE Settle(h)
    <2>1. RowsGoOn /\ event'[c].status = "processed"
      BY <1>7, <1>a DEF Settle, Goto, SetProcessed, RowsGoOn
    <2>2. QED
      BY <1>7, <2>1, GotoKeepsAckInv DEF Settle, saleorVars, gatewayVars
  <1>8. CASE InProgress(h) \/ AlreadyPaid(h)
    BY <1>8, <1>b, LeaveKeepsAckInv
       DEF InProgress, AlreadyPaid, saleorVars, gatewayVars, eventVars
  <1>9. CASE Reply(h)
    BY <1>9, <1>b, LeaveKeepsAckInv DEF Reply, saleorVars, eventVars
  <1>10. ~Release(h) /\ ~CreateRefused(h)
    BY <1>a DEF Release, CreateRefused, Goto, AckOK
  <1>11. QED
    BY <1>1, <1>2, <1>3, <1>4, <1>5, <1>6, <1>7, <1>8, <1>9, <1>10, CreateKeepsAckInv
       DEF Step

LEMMA FaultKeepsAckInv ==
    ASSUME CreationSucceeds, AckInv, IInv', NEW h \in Handlers, FaultStep(h)
    PROVE  AckInv'
  <1>a. /\ event \in [Checkouts -> [status : Statuses, orderId : OrderIds \cup {NoOrder}]]
        /\ pc[h] \in Steps \ {"reply"} => Checkout(h) \in Checkouts
    BY SuccessCheckout DEF AckInv, IInv, TypeOK, HandlerOK, Checkout
  <1>1. ~CreateFails(h) /\ ~CreateLost(h)
    BY DEF CreateFails, CreateLost, Fault, Goto, CreationSucceeds
  <1>2. CASE Crash(h) \/ MarkPaidLost(h)
    <2>1. RowsGoOn
      BY <1>2 DEF Crash, MarkPaidLost, eventVars, RowsGoOn
    <2>2. QED
      BY <1>2, <2>1, LeaveKeepsAckInv
         DEF Crash, MarkPaidLost, MarkPaid, saleorVars, gatewayVars
  <1>3. CASE RowWriteLost(h)
    <2>1. RowsGoOn
      BY <1>3, <1>a DEF RowWriteLost, InsertRow, SaveOrderId, SetProcessed, RowsGoOn
    <2>2. QED
      BY <1>3, <2>1, LeaveKeepsAckInv DEF RowWriteLost, saleorVars, gatewayVars
  <1>4. QED
    BY <1>1, <1>2, <1>3 DEF FaultStep

\* Success is answered only for a payment that is settled: AirbaPay never stops
\* calling about one that is not, however many callbacks of a checkout overlap
\* and whatever crashes or is lost, as long as no creation of an order fails.
THEOREM AckedSettled == CreationSucceeds => (Spec => []AckedIsSettled)
  <1> SUFFICES ASSUME CreationSucceeds PROVE Spec => []AckedIsSettled
    OBVIOUS
  <1>1. Init => AckInv
    BY InitIInv DEF Init, SaleorInit, AckInv, AckOK, AckedIsSettled
  <1>2. AckInv /\ [Next]_vars => AckInv'
    <2> SUFFICES ASSUME AckInv, [Next]_vars PROVE AckInv'
      OBVIOUS
    <2>1. IInv'
      BY NextKeepsIInv DEF AckInv
    <2>2. ASSUME NEW m \in Messages, Notify(m) PROVE AckInv'
      BY <2>1, <2>2 DEF Notify, saleorVars, eventVars, handlerVars, AckInv, AckOK, Checkout,
                        AckedIsSettled
    <2>3. ASSUME NEW h \in Handlers, NEW m \in Messages, Deliver(h, m) PROVE AckInv'
      <3>1. /\ \A g \in Handlers \ {h} : pc'[g] = pc[g] /\ message'[g] = message[g]
            /\ message'[h] = m /\ pc'[h] \in {"claim", "reply"}
            /\ pc'[h] = "reply" => m[2] \notin SuccessStates
        BY <2>3 DEF Deliver, AckInv, IInv, TypeOK
      <3>2. m \in Successes => m[2] \in SuccessStates
        BY DEF Successes
      <3>3. AckOK(h)'
        BY <3>1, <3>2 DEF AckOK
      <3>4. RowsGoOn /\ live' = live /\ acked' = acked
        BY <2>3 DEF Deliver, RowsGoOn, eventVars, saleorVars, gatewayVars
      <3>5. QED
        BY <2>1, <3>1, <3>3, <3>4, MoveKeepsAckInv
    <2>4. CASE UNCHANGED vars
      BY <2>1, <2>4 DEF vars, saleorVars, eventVars, handlerVars, gatewayVars, AckInv, AckOK,
                        Checkout, AckedIsSettled
    <2>5. QED
      BY <2>1, <2>2, <2>3, <2>4, StepKeepsAckInv, FaultKeepsAckInv DEF Next
  <1>3. AckInv => AckedIsSettled
    BY DEF AckInv
  <1>4. QED
    BY <1>1, <1>2, <1>3, PTL DEF Spec

-----------------------------------------------------------------------------
(* A claim in flight                                                       *)

InFlight == [status |-> "processing", orderId |-> NoOrder]

\* A row without an order has its handler, which will save the order's id or
\* release the row.
InFlightIsHeld ==
    \A c \in Checkouts :
        event[c] = InFlight => \E h \in Handlers : HoldsClaim(h) /\ Checkout(h) = c

\* What ends the holder of a claim, and an insert that only looked failed.
Dropping == {<<"crash", s>> : s \in {"create", "release", "persist"}}
                \cup {<<"lost", "claim">>}

\* A step of one handler: it may put a row in flight that it holds, and give up a
\* claim whose row is no longer in flight.
KeepsFlight(h) ==
    /\ \A g \in Handlers \ {h} : pc'[g] = pc[g] /\ message'[g] = message[g]
    /\ \A c \in Checkouts : event'[c] = InFlight =>
           event[c] = InFlight \/ (HoldsClaim(h)' /\ Checkout(h)' = c)
    /\ HoldsClaim(h) => \/ HoldsClaim(h)' /\ Checkout(h)' = Checkout(h)
                        \/ event'[Checkout(h)] # InFlight

LEMMA HeldKept ==
    ASSUME InFlightIsHeld, NEW h \in Handlers, KeepsFlight(h)
    PROVE  InFlightIsHeld'
  <1> SUFFICES ASSUME NEW c \in Checkouts, event'[c] = InFlight
               PROVE  \E g \in Handlers : HoldsClaim(g)' /\ Checkout(g)' = c
    BY DEF InFlightIsHeld, InFlight
  <1>1. CASE HoldsClaim(h)' /\ Checkout(h)' = c
    BY <1>1
  <1>2. CASE event[c] = InFlight
    <2>1. PICK g \in Handlers : HoldsClaim(g) /\ Checkout(g) = c
      BY <1>2 DEF InFlightIsHeld
    <2>2. CASE g = h
      BY <2>1, <2>2 DEF KeepsFlight
    <2>3. CASE g # h
      BY <2>1, <2>3 DEF KeepsFlight, HoldsClaim, Checkout
    <2>4. QED
      BY <2>2, <2>3
  <1>3. QED
    BY <1>1, <1>2 DEF KeepsFlight

LEMMA NextInFlight ==
    ASSUME Dropping \cap Faults = {}
    PROVE  IInv /\ InFlightIsHeld /\ [Next]_vars => InFlightIsHeld'
  <1> SUFFICES ASSUME IInv, InFlightIsHeld, [Next]_vars PROVE InFlightIsHeld'
    OBVIOUS
  <1> USE DEF eventVars, handlerVars
  <1>0. /\ pc \in [Handlers -> Steps \cup {"idle"}]
        /\ message \in [Handlers -> Messages \cup {NoMessage}]
        /\ event \in [Checkouts -> [status : Statuses, orderId : OrderIds \cup {NoOrder}]]
        /\ NoOrder \notin OrderIds
        /\ \A h \in Handlers : pc[h] \in Steps \ {"reply"} => Checkout(h) \in Checkouts
    BY SuccessCheckout, AirbapayAssumption DEF IInv, TypeOK, HandlerOK, Checkout
  <1>1. ASSUME NEW h \in Handlers, Claim(h) PROVE InFlightIsHeld'
    <2>1. /\ Checkout(h)' = Checkout(h) /\ HoldsClaim(h)' /\ ~ HoldsClaim(h)
          /\ \A g \in Handlers \ {h} : pc'[g] = pc[g] /\ message'[g] = message[g]
          /\ \A c \in Checkouts \ {Checkout(h)} : event'[c] = event[c]
      BY <1>0, <1>1 DEF Claim, Goto, InsertRow, HoldsClaim, Checkout
    <2>2. KeepsFlight(h)
      BY <2>1 DEF KeepsFlight, HoldsClaim, Checkout
    <2>3. QED
      BY <2>2, HeldKept
  <1>2. ASSUME NEW h \in Handlers,
               CreateOrder(h) \/ CreateRefused(h) \/ CreateFails(h) \/ CreateLost(h)
        PROVE  InFlightIsHeld'
    <2>1. /\ UNCHANGED <<event, message>> /\ HoldsClaim(h)'
          /\ \A g \in Handlers \ {h} : pc'[g] = pc[g]
      BY <1>0, <1>2 DEF CreateOrder, CreateRefused, CreateFails, CreateLost, Goto, HoldsClaim
    <2>2. KeepsFlight(h)
      BY <2>1 DEF KeepsFlight, HoldsClaim, Checkout
    <2>3. QED
      BY <2>2, HeldKept
  <1>3. ASSUME NEW h \in Handlers, NEW c \in Checkouts, c = Checkout(h),
               \A g \in Handlers \ {h} : pc'[g] = pc[g] /\ message'[g] = message[g],
               \A d \in Checkouts \ {c} : event'[d] = event[d],
               event'[c] # InFlight
        PROVE  InFlightIsHeld'
    <2>1. KeepsFlight(h)
      BY <1>3 DEF KeepsFlight
    <2>2. QED
      BY <2>1, HeldKept
  <1>4. ASSUME NEW h \in Handlers, Release(h) PROVE InFlightIsHeld'
    <2>1. /\ \A g \in Handlers \ {h} : pc'[g] = pc[g] /\ message'[g] = message[g]
          /\ Checkout(h) \in Checkouts
          /\ event' = [event EXCEPT ![Checkout(h)] = NoRow]
      BY <1>0, <1>4 DEF Release, Leave
    <2>2. event'[Checkout(h)] # InFlight
      BY <1>0, <2>1 DEF InFlight, NoRow
    <2>3. QED
      BY <1>0, <1>3, <2>1, <2>2
  <1>5. ASSUME NEW h \in Handlers, PersistOrder(h) \/ (RowWriteLost(h) /\ pc[h] = "persist")
        PROVE  InFlightIsHeld'
    <2>1. /\ \A g \in Handlers \ {h} : pc'[g] = pc[g] /\ message'[g] = message[g]
          /\ Checkout(h) \in Checkouts
          /\ event' = [event EXCEPT ![Checkout(h)].orderId = held[h]]
          /\ held[h] \in OrderIds
      BY <1>0, <1>5 DEF PersistOrder, RowWriteLost, SaveOrderId, Goto, Leave, IInv, HandlerOK
    <2>2. event'[Checkout(h)].orderId = held[h]
      BY <1>0, <2>1
    <2>3. event'[Checkout(h)] # InFlight
      BY <1>0, <2>1, <2>2 DEF InFlight
    <2>4. QED
      BY <1>0, <1>3, <2>1, <2>3
  <1>6. ASSUME NEW h \in Handlers, Settle(h) \/ (RowWriteLost(h) /\ pc[h] = "settle")
        PROVE  InFlightIsHeld'
    <2>1. /\ \A g \in Handlers \ {h} : pc'[g] = pc[g] /\ message'[g] = message[g]
          /\ Checkout(h) \in Checkouts
          /\ event' = [event EXCEPT ![Checkout(h)].status = "processed"]
      BY <1>0, <1>6 DEF Settle, RowWriteLost, SetProcessed, Goto, Leave
    <2>2. event'[Checkout(h)].status = "processed"
      BY <1>0, <2>1
    <2>3. event'[Checkout(h)] # InFlight
      BY <2>2 DEF InFlight
    <2>4. QED
      BY <1>0, <1>3, <2>1, <2>3
  <1>7. ASSUME NEW h \in Handlers, RowWriteLost(h)
        PROVE  pc[h] \in {"persist", "settle"}
    <2>1. pc[h] \in {"claim", "persist", "settle"} /\ <<"lost", pc[h]>> \in Faults
      BY <1>7 DEF RowWriteLost, Fault
    <2>2. QED
      BY <2>1 DEF Dropping
  <1>8. ASSUME NEW h \in Handlers,
               \/ ClaimTaken(h) \/ SkipDuplicate(h) \/ InProgress(h) \/ Resume(h)
               \/ CheckPaid(h) \/ MarkOrderAsPaid(h) \/ AlreadyPaid(h) \/ Reply(h)
               \/ MarkPaidLost(h) \/ Crash(h) \/ \E m \in Messages : Deliver(h, m)
        PROVE  InFlightIsHeld'
    <2>1. /\ event' = event
          /\ \A g \in Handlers \ {h} : pc'[g] = pc[g] /\ message'[g] = message[g]
      BY <1>0, <1>8
         DEF ClaimTaken, SkipDuplicate, InProgress, Resume, CheckPaid, MarkOrderAsPaid,
             AlreadyPaid, Reply, MarkPaidLost, Crash, Deliver, Goto, Leave
    <2>2. Crash(h) => <<"crash", pc[h]>> \in Faults
      BY DEF Crash, Fault
    <2>3. ~ HoldsClaim(h)
      BY <1>8, <2>2
         DEF ClaimTaken, SkipDuplicate, InProgress, Resume, CheckPaid, MarkOrderAsPaid,
             AlreadyPaid, Reply, MarkPaidLost, Deliver, Goto, HoldsClaim, Dropping
    <2>4. KeepsFlight(h)
      BY <2>1, <2>3 DEF KeepsFlight
    <2>5. QED
      BY <2>4, HeldKept
  <1>9. CASE UNCHANGED <<event, pc, message>>
    BY <1>9 DEF InFlightIsHeld, HoldsClaim, Checkout, InFlight
  <1>10. ASSUME NEW h \in Handlers, Step(h) \/ FaultStep(h) PROVE InFlightIsHeld'
    BY <1>1, <1>2, <1>4, <1>5, <1>6, <1>7, <1>8, <1>10 DEF Step, FaultStep
  <1>11. ASSUME NEW m \in Messages, Notify(m) PROVE InFlightIsHeld'
    BY <1>9, <1>11 DEF Notify
  <1>12. CASE UNCHANGED vars
    BY <1>9, <1>12 DEF vars
  <1>13. QED
    BY <1>8, <1>10, <1>11, <1>12 DEF Next

\* "A lingering claim without an order means 'in flight'", on which the callback
\* answers 503, is true of every such row: some callback is at work and will fill or
\* release it.  Only the death of that callback, an update or a deletion of the row
\* that throws, or an insert that only looked failed makes it a row nobody comes
\* back to.
THEOREM ClaimsInFlight == Dropping \cap Faults = {} => (Spec => []InFlightIsHeld)
  <1> SUFFICES ASSUME Dropping \cap Faults = {} PROVE Spec => []InFlightIsHeld
    OBVIOUS
  <1>1. Init => InFlightIsHeld
    BY DEF Init, InFlightIsHeld, InFlight, NoRow
  <1>2. QED
    BY <1>1, NextInFlight, Invariance, PTL DEF Spec
=============================================================================
