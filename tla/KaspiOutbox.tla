------------------------------ MODULE KaspiOutbox ------------------------------
(***************************************************************************)
(* Kaspi invoices.  The app asks for an invoice (POST                      *)
(* kaspi/create-payment-request), which only adds a row to an outbox.  A   *)
(* worker with a phone polls the outbox (GET kaspi/pending), sends the     *)
(* invoices it is handed and reports each (POST kaspi/:id/result).         *)
(*                                                                         *)
(* A poll reads the pending rows and marks them 'sending' in two queries,  *)
(* so polls may overlap, also those of one worker: a worker that crashes   *)
(* or gives up waiting polls again while its earlier request still runs.   *)
(*                                                                         *)
(* The rows are a sequence in the order of createdAt; a row's id is its    *)
(* place.  The app and the worker are not in the repository.               *)
(*                                                                         *)
(* Not modelled: the guards, the validation of the body, amounts and       *)
(* phones (every row made here has a phone).                               *)
(***************************************************************************)
EXTENDS Naturals, Sequences, FiniteSets

CONSTANTS Checkouts,      \* checkouts the app asks an invoice for
          NoCheckout,     \* a body without checkoutData.id
          Clients,        \* slots for create-payment-request being handled
          Workers,        \* phone-automation workers
          Polls,          \* slots for kaspi/pending being handled
          Nobody,         \* asker of a poll whose worker has gone
          PageSize,       \* rows handed out by one poll (take: 20)
          MaxRows,        \* bound: rows in the outbox
          Faults          \* steps of create-payment-request that may fail

ASSUME KaspiAssumption ==
    /\ NoCheckout \notin Checkouts
    /\ Nobody \notin Workers
    /\ PageSize \in Nat \ {0}
    /\ MaxRows \in Nat

VARIABLES claims,    \* checkouts with a PaymentWebhookEvent row 'kaspi:<id>'
          outbox,    \* KaspiPaymentRequest rows
          cpc,       \* the step each create-payment-request is about to take
          checkout,  \* the checkout it is about
          qpc,       \* the step each poll is about to take
          page,      \* the rows the poll has found
          asker,     \* the worker that waits for the poll
          todo,      \* the invoices each worker has yet to send
          sends,     \* how often the invoice of each row was sent
          reports,   \* results the worker has posted, each arriving at any time
          unseen     \* history: checkouts with a row whose insert looked failed

clientVars == <<cpc, checkout>>
pollVars   == <<qpc, page, asker>>
workerVars == <<todo, sends, reports>>
vars == <<claims, outbox, clientVars, pollVars, workerVars, unseen>>

Ids == 1..MaxRows
Rows == DOMAIN outbox
RowStatuses == {"pending", "sending", "sent", "failed"}

TypeOK ==
    /\ claims \subseteq Checkouts
    /\ outbox \in Seq([checkout : Checkouts \cup {NoCheckout}, status : RowStatuses])
    /\ cpc \in [Clients -> {"idle", "claim", "insert", "release"}]
    /\ checkout \in [Clients -> Checkouts \cup {NoCheckout}]
    /\ qpc \in [Polls -> {"idle", "find", "claim", "respond"}]
    /\ page \in [Polls -> SUBSET Rows]
    /\ asker \in [Polls -> Workers \cup {Nobody}]
    /\ todo \in [Workers -> SUBSET Rows]
    /\ sends \in [Ids -> Nat]
    /\ reports \subseteq Rows \X {"sent", "failed"}
    /\ unseen \subseteq Checkouts

Init ==
    /\ claims = {}
    /\ outbox = <<>>
    /\ cpc = [k \in Clients |-> "idle"]
    /\ checkout = [k \in Clients |-> NoCheckout]
    /\ qpc = [q \in Polls |-> "idle"]
    /\ page = [q \in Polls |-> {}]
    /\ asker = [q \in Polls |-> Nobody]
    /\ todo = [w \in Workers |-> {}]
    /\ sends = [i \in Ids |-> 0]
    /\ reports = {}
    /\ unseen = {}

-----------------------------------------------------------------------------
(* create-payment-request                                                  *)

\* The app asks, or asks again (axios-retry).  Without a checkout id nothing is
\* claimed.
Submit(k, c) ==
    /\ cpc[k] = "idle"
    /\ checkout' = [checkout EXCEPT ![k] = c]
    /\ cpc' = [cpc EXCEPT ![k] = IF c = NoCheckout THEN "insert" ELSE "claim"]
    /\ UNCHANGED <<claims, outbox, pollVars, workerVars, unseen>>

Finish(k) ==
    /\ cpc' = [cpc EXCEPT ![k] = "idle"]
    /\ checkout' = [checkout EXCEPT ![k] = NoCheckout]

ClaimCheckout(k) ==
    /\ cpc[k] = "claim"
    /\ checkout[k] \notin claims
    /\ claims' = claims \cup {checkout[k]}
    /\ cpc' = [cpc EXCEPT ![k] = "insert"]
    /\ UNCHANGED <<outbox, checkout, pollVars, workerVars, unseen>>

\* Mutant: the row is added to whatever the claim says.
IgnoreDuplicate(k) ==
    /\ cpc[k] = "claim"
    /\ checkout[k] \in claims
    /\ cpc' = [cpc EXCEPT ![k] = "insert"]
    /\ UNCHANGED <<claims, outbox, checkout, pollVars, workerVars, unseen>>

\* P2002: {ok: true, duplicate: true}.
Duplicate(k) ==
    /\ cpc[k] = "claim"
    /\ checkout[k] \in claims
    /\ Finish(k)
    /\ UNCHANGED <<claims, outbox, pollVars, workerVars, unseen>>

\* The claim's insert throws anything else, perhaps after it has inserted: the
\* request ends in the error, and what it may have claimed stays claimed.
ClaimFails(k) ==
    /\ "claim" \in Faults
    /\ cpc[k] = "claim"
    /\ claims' \in {claims, claims \cup {checkout[k]}}
    /\ Finish(k)
    /\ UNCHANGED <<outbox, pollVars, workerVars, unseen>>

\* Mutant: the status of the claim in the row.
CreateProcessing(k) ==
    /\ cpc[k] = "insert"
    /\ Len(outbox) < MaxRows
    /\ outbox' = Append(outbox, [checkout |-> checkout[k], status |-> "processing"])
    /\ Finish(k)
    /\ UNCHANGED <<claims, pollVars, workerVars, unseen>>

createRequestRow(k) ==
    /\ cpc[k] = "insert"
    /\ Len(outbox) < MaxRows
    /\ outbox' = Append(outbox, [checkout |-> checkout[k], status |-> "pending"])
    /\ Finish(k)
    /\ UNCHANGED <<claims, pollVars, workerVars, unseen>>

\* The insert throws: the claim, if there is one, is released.
InsertFails(k) ==
    /\ "insert" \in Faults
    /\ cpc[k] = "insert"
    /\ IF checkout[k] = NoCheckout
       THEN Finish(k)
       ELSE cpc' = [cpc EXCEPT ![k] = "release"] /\ UNCHANGED checkout
    /\ UNCHANGED <<claims, outbox, pollVars, workerVars, unseen>>

\* The row is there, but the answer is lost: the handler sees a failed insert.
InsertLost(k) ==
    /\ "lost" \in Faults
    /\ cpc[k] = "insert"
    /\ Len(outbox) < MaxRows
    /\ outbox' = Append(outbox, [checkout |-> checkout[k], status |-> "pending"])
    /\ IF checkout[k] = NoCheckout
       THEN Finish(k) /\ UNCHANGED unseen
       ELSE /\ cpc' = [cpc EXCEPT ![k] = "release"]
            /\ unseen' = unseen \cup {checkout[k]}
            /\ UNCHANGED checkout
    /\ UNCHANGED <<claims, pollVars, workerVars>>

ReleaseClaim(k) ==
    /\ cpc[k] = "release"
    /\ claims' = claims \ {checkout[k]}
    /\ Finish(k)
    /\ UNCHANGED <<outbox, pollVars, workerVars, unseen>>

\* The release throws, perhaps after it has deleted the claim.
ReleaseFails(k) ==
    /\ "release" \in Faults
    /\ cpc[k] = "release"
    /\ claims' \in {claims, claims \ {checkout[k]}}
    /\ Finish(k)
    /\ UNCHANGED <<outbox, pollVars, workerVars, unseen>>

\* The instance dies.
CrashClient(k) ==
    /\ "crash" \in Faults
    /\ cpc[k] # "idle"
    /\ Finish(k)
    /\ UNCHANGED <<claims, outbox, pollVars, workerVars, unseen>>

-----------------------------------------------------------------------------
(* kaspi/pending                                                           *)

\* Mutant: rows left 'sending' are handed out again.
Unfinished == {i \in Rows : outbox[i].status \in {"pending", "sending"}}

Pending == {i \in Rows : outbox[i].status = "pending"}

\* Mutant: orderBy createdAt desc.
NewestPending == {i \in Pending : Cardinality({j \in Pending : j > i}) < PageSize}

\* The oldest pending rows, one page of them.
OldestPending == {i \in Pending : Cardinality({j \in Pending : j < i}) < PageSize}

Waiting(w) == \E q \in Polls : asker[q] = w

\* The worker polls when it has nothing to do.
Poll(w, q) ==
    /\ todo[w] = {}
    /\ ~Waiting(w)
    /\ qpc[q] = "idle"
    /\ qpc' = [qpc EXCEPT ![q] = "find"]
    /\ asker' = [asker EXCEPT ![q] = w]
    /\ UNCHANGED <<claims, outbox, clientVars, page, workerVars, unseen>>

\* findMany.
Find(q) ==
    /\ qpc[q] = "find"
    /\ page' = [page EXCEPT ![q] = OldestPending]
    /\ qpc' = [qpc EXCEPT ![q] = IF OldestPending = {} THEN "respond" ELSE "claim"]
    /\ UNCHANGED <<claims, outbox, clientVars, asker, workerVars, unseen>>

\* updateMany by id: whatever the rows' statuses have become since.
ClaimPage(q) ==
    /\ qpc[q] = "claim"
    /\ outbox' = [i \in Rows |-> IF i \in page[q]
                                 THEN [outbox[i] EXCEPT !.status = "sending"]
                                 ELSE outbox[i]]
    /\ qpc' = [qpc EXCEPT ![q] = "respond"]
    /\ UNCHANGED <<claims, clientVars, page, asker, workerVars, unseen>>

EndPoll(q) ==
    /\ qpc' = [qpc EXCEPT ![q] = "idle"]
    /\ page' = [page EXCEPT ![q] = {}]
    /\ asker' = [asker EXCEPT ![q] = Nobody]
    /\ UNCHANGED <<claims, outbox, clientVars, sends, reports, unseen>>

Respond(q) ==
    /\ qpc[q] = "respond"
    /\ todo' = [w \in Workers |-> IF w = asker[q] THEN page[q] ELSE todo[w]]
    /\ EndPoll(q)

\* The instance that handles the poll dies, or a query throws.
CrashPoll(q) ==
    /\ qpc[q] # "idle"
    /\ UNCHANGED todo
    /\ EndPoll(q)

-----------------------------------------------------------------------------
(* The worker and kaspi/:id/result                                         *)

SendInvoice(w, i) ==
    /\ i \in todo[w]
    /\ todo' = [todo EXCEPT ![w] = @ \ {i}]
    /\ sends' = [sends EXCEPT ![i] = @ + 1]
    /\ reports' = reports \cup {<<i, "sent">>}
    /\ UNCHANGED <<claims, outbox, clientVars, pollVars, unseen>>

\* The phone could not send the invoice.
SendFails(w, i) ==
    /\ i \in todo[w]
    /\ todo' = [todo EXCEPT ![w] = @ \ {i}]
    /\ reports' = reports \cup {<<i, "failed">>}
    /\ UNCHANGED <<claims, outbox, clientVars, pollVars, sends, unseen>>

\* The worker restarts, or stops waiting for an answer: what it was to send is
\* gone, and so is the answer to its poll.
Restart(w) ==
    /\ todo[w] # {} \/ Waiting(w)
    /\ todo' = [todo EXCEPT ![w] = {}]
    /\ asker' = [q \in Polls |-> IF asker[q] = w THEN Nobody ELSE asker[q]]
    /\ UNCHANGED <<claims, outbox, clientVars, qpc, page, sends, reports, unseen>>

\* A result arrives, perhaps not for the first time.
Result(i, status) ==
    /\ <<i, status>> \in reports
    /\ outbox' = [outbox EXCEPT ![i].status = status]
    /\ UNCHANGED <<claims, clientVars, pollVars, workerVars, unseen>>

-----------------------------------------------------------------------------
ClientStep(k) ==
    \/ \E c \in Checkouts \cup {NoCheckout} : Submit(k, c)
    \/ ClaimCheckout(k) \/ Duplicate(k) \/ createRequestRow(k)
    \/ InsertFails(k) \/ InsertLost(k) \/ ReleaseClaim(k)
    \/ ClaimFails(k) \/ ReleaseFails(k) \/ CrashClient(k)

PollStep(q) ==
    \/ \E w \in Workers : Poll(w, q)
    \/ Find(q) \/ ClaimPage(q) \/ Respond(q) \/ CrashPoll(q)

WorkerStep(w) ==
    \/ \E i \in Rows : SendInvoice(w, i) \/ SendFails(w, i)
    \/ Restart(w)

Next ==
    \/ \E k \in Clients : ClientStep(k)
    \/ \E q \in Polls : PollStep(q)
    \/ \E w \in Workers : WorkerStep(w)
    \/ \E i \in Rows, status \in {"sent", "failed"} : Result(i, status)

Spec == Init /\ [][Next]_vars

-----------------------------------------------------------------------------
(* Properties                                                              *)

\* "One Kaspi invoice per checkout", however often the app asks, and whatever
\* insert fails or instance dies in between.  The exception is a row whose insert
\* looked failed: its claim is released, and the app's next try adds a second row.
OneRequestPerCheckout ==
    \A i, j \in Rows :
        /\ outbox[i].checkout = outbox[j].checkout
        /\ outbox[i].checkout \in Checkouts \ unseen
        => i = j

\* "At-most-once": no invoice is sent twice, though the worker may crash, poll
\* again and so overlap with its own earlier poll.
AtMostOnce == \A i \in Rows : sends[i] <= 1

\* What a row is to the queue: handed out is what has left 'pending'.
Phase(i) ==
    IF i \notin Rows THEN "free"
    ELSE IF outbox[i].status = "pending" THEN "queued" ELSE "handed"

Abstract == INSTANCE Outbox WITH phase <- [i \in Ids |-> Phase(i)]

\* The two queries of a poll, overlapping with those of other polls, with new
\* requests and with results, make a queue: rows leave 'pending' oldest first, a
\* page at a time and for good, and only then is an invoice sent, once.
ImplementsOutbox == Abstract!Spec

\* "'sent' is terminal".
SentIsTerminal ==
    [][\A i \in Rows : outbox[i].status = "sent" => outbox'[i].status = "sent"]_vars
=============================================================================
