-------------------------- MODULE KaspiOutbox_proofs --------------------------
(***************************************************************************)
(* Proofs about KaspiOutbox, for any number of checkouts, clients, polls   *)
(* and rows.  That an invoice is sent once needs one worker, as the code   *)
(* is deployed; the rest is proved for any number of them.                 *)
(***************************************************************************)
EXTENDS KaspiOutbox, SequenceTheorems, FiniteSetTheorems, WellFoundedInduction, TLAPS

\* What a worker is about to send can no longer be handed out: the row is
\* claimed before the answer leaves, not after.
HandedOutIsClaimed ==
    \A w \in Workers : \A i \in todo[w] : outbox[i].status # "pending"

\* A request that has won the claim of a checkout and may still add its row.
HoldsClaim(k) == cpc[k] \in {"insert", "release"} /\ checkout[k] \in Checkouts

\* Such a request is alone with its checkout, unless a row looked failed.
ClaimOK(k) ==
    HoldsClaim(k) /\ checkout[k] \notin unseen =>
        /\ checkout[k] \in claims
        /\ \A i \in Rows : outbox[i].checkout # checkout[k]
        /\ \A j \in Clients : HoldsClaim(j) /\ checkout[j] = checkout[k] => j = k

ClientOK(k) ==
    /\ cpc[k] \in {"claim", "release"} => checkout[k] \in Checkouts
    /\ ClaimOK(k)

RowOK(i) == outbox[i].checkout \in Checkouts \ unseen => outbox[i].checkout \in claims

\* What a poll answers with is claimed.
PollOK(q) ==
    /\ qpc[q] \in {"idle", "find"} => page[q] = {}
    /\ qpc[q] = "idle" => asker[q] = Nobody
    /\ qpc[q] = "respond" => \A i \in page[q] : outbox[i].status # "pending"

IInv ==
    /\ TypeOK
    /\ Len(outbox) <= MaxRows
    /\ \A k \in Clients : ClientOK(k)
    /\ \A i \in Rows : RowOK(i)
    /\ OneRequestPerCheckout
    /\ \A q \in Polls : PollOK(q)
    /\ HandedOutIsClaimed

USE KaspiAssumption DEF RowStatuses, Rows, Ids

-----------------------------------------------------------------------------
(* The outbox                                                              *)

RowRecords == [checkout : Checkouts \cup {NoCheckout}, status : RowStatuses]

\* A request's row is added at the end.
LEMMA AppendRow ==
    ASSUME TypeOK, Len(outbox) < MaxRows, NEW c \in Checkouts \cup {NoCheckout},
           outbox' = Append(outbox, [checkout |-> c, status |-> "pending"])
    PROVE  /\ outbox' \in Seq(RowRecords)
           /\ Len(outbox') <= MaxRows
           /\ Rows' = Rows \cup {Len(outbox) + 1}
           /\ Len(outbox) + 1 \in Ids \ Rows
           /\ \A i \in Rows : outbox'[i] = outbox[i]
           /\ outbox'[Len(outbox) + 1] = [checkout |-> c, status |-> "pending"]
  <1>1. outbox \in Seq(RowRecords) /\ [checkout |-> c, status |-> "pending"] \in RowRecords
    BY DEF TypeOK, RowRecords
  <1>2. Len(outbox) \in Nat /\ DOMAIN outbox = 1 .. Len(outbox)
    BY <1>1, LenProperties
  <1>3. /\ outbox' \in Seq(RowRecords)
        /\ Len(outbox') = Len(outbox) + 1
        /\ \A i \in 1 .. Len(outbox) : outbox'[i] = outbox[i]
        /\ outbox'[Len(outbox) + 1] = [checkout |-> c, status |-> "pending"]
    BY <1>1
  <1>4. DOMAIN outbox' = 1 .. Len(outbox')
    BY <1>3, LenProperties
  <1>5. QED
    BY <1>2, <1>3, <1>4

\* A change of statuses leaves the rows and their checkouts as they are.
StatusChange ==
    /\ outbox' \in Seq(RowRecords)
    /\ Len(outbox') = Len(outbox)
    /\ Rows' = Rows
    /\ \A i \in Rows : outbox'[i].checkout = outbox[i].checkout

LEMMA ClaimPageStatuses ==
    ASSUME TypeOK, NEW q \in Polls, ClaimPage(q)
    PROVE  /\ StatusChange
           /\ \A i \in Rows : outbox'[i].status =
                  IF i \in page[q] THEN "sending" ELSE outbox[i].status
  <1>1. outbox \in Seq(RowRecords)
    BY DEF TypeOK, RowRecords
  <1>2. Len(outbox) \in Nat /\ DOMAIN outbox = 1 .. Len(outbox)
    BY <1>1, LenProperties
  <1>3. \A i \in 1 .. Len(outbox) : outbox[i] \in RowRecords
    BY <1>1, ElementOfSeq
  <1>4. outbox' = [i \in 1 .. Len(outbox) |->
                       IF i \in page[q] THEN [outbox[i] EXCEPT !.status = "sending"]
                       ELSE outbox[i]]
    BY <1>2 DEF ClaimPage
  <1>5. \A i \in 1 .. Len(outbox) :
            /\ outbox'[i] \in RowRecords
            /\ outbox'[i].checkout = outbox[i].checkout
            /\ outbox'[i].status = IF i \in page[q] THEN "sending" ELSE outbox[i].status
    BY <1>3, <1>4 DEF RowRecords
  <1>6. outbox' \in Seq(RowRecords)
    BY <1>2, <1>4, <1>5
  <1>7. DOMAIN outbox' = 1 .. Len(outbox)
    BY <1>4
  <1>8. Len(outbox') = Len(outbox)
    BY <1>2, <1>6, <1>7, LenProperties
  <1>9. QED
    BY <1>2, <1>5, <1>6, <1>7, <1>8 DEF StatusChange

LEMMA ResultStatus ==
    ASSUME TypeOK, NEW i \in Rows, NEW status \in {"sent", "failed"}, Result(i, status)
    PROVE  /\ StatusChange
           /\ outbox'[i].status = status
           /\ \A j \in Rows \ {i} : outbox'[j] = outbox[j]
  <1>1. outbox \in Seq(RowRecords)
    BY DEF TypeOK, RowRecords
  <1>2. Len(outbox) \in Nat /\ DOMAIN outbox = 1 .. Len(outbox)
    BY <1>1, LenProperties
  <1>3. outbox[i] \in RowRecords
    BY <1>1, <1>2, ElementOfSeq
  <1>4. [outbox[i] EXCEPT !.status = status] \in RowRecords
    BY <1>3 DEF RowRecords
  <1>5. outbox' = [outbox EXCEPT ![i] = [outbox[i] EXCEPT !.status = status]]
    BY DEF Result
  <1>6. outbox' \in Seq(RowRecords) /\ Len(outbox') = Len(outbox)
    BY <1>1, <1>2, <1>4, <1>5, ExceptSeq
  <1>7. DOMAIN outbox' = DOMAIN outbox
    BY <1>5
  <1>8. \A j \in Rows : outbox'[j] =
            IF j = i THEN [outbox[i] EXCEPT !.status = status] ELSE outbox[j]
    BY <1>5
  <1>9. QED
    BY <1>2, <1>3, <1>6, <1>7, <1>8 DEF StatusChange, RowRecords
-----------------------------------------------------------------------------
LEMMA InitIInv == Init => IInv
  <1> SUFFICES ASSUME Init PROVE IInv
    OBVIOUS
  <1>1. TypeOK
    BY DEF Init, TypeOK
  <1>2. Len(outbox) = 0 /\ Rows = {}
    BY DEF Init
  <1>3. QED
    BY <1>1, <1>2 DEF Init, IInv, ClientOK, ClaimOK, HoldsClaim, RowOK, PollOK,
                      OneRequestPerCheckout, HandedOutIsClaimed

-----------------------------------------------------------------------------
(* A step of a request                                                     *)

\* Without a new row, the polls and the worker are not concerned.
LEMMA NoRowKeepsIInv ==
    ASSUME IInv, UNCHANGED <<outbox, pollVars, workerVars>>,
           claims' \subseteq Checkouts,
           cpc' \in [Clients -> {"idle", "claim", "insert", "release"}],
           checkout' \in [Clients -> Checkouts \cup {NoCheckout}],
           unseen' = unseen,
           \A k \in Clients : ClientOK(k)',
           \A i \in Rows : RowOK(i)'
    PROVE  IInv'
  <1> USE DEF IInv, pollVars, workerVars
  <1>1. TypeOK'
    BY DEF TypeOK
  <1>2. OneRequestPerCheckout' /\ HandedOutIsClaimed' /\ \A q \in Polls : PollOK(q)'
    BY DEF OneRequestPerCheckout, HandedOutIsClaimed, PollOK
  <1>3. QED
    BY <1>1, <1>2

\* The end of a request adds a claim or gives up its own at most, and no row is of
\* a claim that is given up.
LEMMA EndKeepsIInv ==
    ASSUME IInv, NEW k \in Clients, Finish(k),
           UNCHANGED <<outbox, pollVars, workerVars, unseen>>,
           \/ claims' = claims
           \/ cpc[k] = "claim" /\ claims' = claims \cup {checkout[k]}
           \/ cpc[k] = "release" /\ claims' = claims \ {checkout[k]}
    PROVE  IInv'
  <1> USE DEF IInv, Finish
  <1>1. \A j \in Clients : ClientOK(j)'
    <2> SUFFICES ASSUME NEW j \in Clients PROVE ClientOK(j)'
      OBVIOUS
    <2>1. CASE j = k
      BY <2>1 DEF TypeOK, ClientOK, ClaimOK, HoldsClaim
    <2>2. CASE j # k
      BY <2>2 DEF TypeOK, ClientOK, ClaimOK, HoldsClaim
    <2>3. QED
      BY <2>1, <2>2
  <1>2. \A i \in Rows : RowOK(i)'
    BY DEF TypeOK, RowOK, ClientOK, ClaimOK, HoldsClaim
  <1>3. claims' \subseteq Checkouts
    BY DEF TypeOK, ClientOK
  <1>4. QED
    BY <1>1, <1>2, <1>3, NoRowKeepsIInv DEF TypeOK

LEMMA NoRowStepKeepsIInv ==
    ASSUME IInv, NEW k \in Clients,
           \/ \E c \in Checkouts \cup {NoCheckout} : Submit(k, c)
           \/ ClaimCheckout(k) \/ Duplicate(k) \/ InsertFails(k)
           \/ ReleaseClaim(k) \/ CrashClient(k) \/ ClaimFails(k) \/ ReleaseFails(k)
    PROVE  IInv'
  <1> USE DEF IInv, pollVars, workerVars
  <1>1. ASSUME NEW c \in Checkouts \cup {NoCheckout}, Submit(k, c) PROVE IInv'
    <2> USE <1>1 DEF Submit
    <2>1. \A j \in Clients : ClientOK(j)'
      <3> SUFFICES ASSUME NEW j \in Clients PROVE ClientOK(j)'
        OBVIOUS
      <3>1. CASE j = k
        BY <3>1 DEF TypeOK, ClientOK, ClaimOK, HoldsClaim
      <3>2. CASE j # k
        BY <3>2 DEF TypeOK, ClientOK, ClaimOK, HoldsClaim
      <3>3. QED
        BY <3>1, <3>2
    <2>2. \A i \in Rows : RowOK(i)'
      BY DEF RowOK
    <2>3. QED
      BY <2>1, <2>2, NoRowKeepsIInv DEF TypeOK
  <1>2. CASE ClaimCheckout(k)
    <2> USE <1>2 DEF ClaimCheckout
    <2>1. \A j \in Clients : ClientOK(j)'
      <3> SUFFICES ASSUME NEW j \in Clients PROVE ClientOK(j)'
        OBVIOUS
      <3>1. CASE j = k
        BY <3>1 DEF TypeOK, ClientOK, ClaimOK, HoldsClaim, RowOK
      <3>2. CASE j # k
        BY <3>2 DEF TypeOK, ClientOK, ClaimOK, HoldsClaim
      <3>3. QED
        BY <3>1, <3>2
    <2>2. \A i \in Rows : RowOK(i)'
      BY DEF RowOK
    <2>3. QED
      BY <2>1, <2>2, NoRowKeepsIInv DEF TypeOK, ClientOK
  <1>3. CASE InsertFails(k) /\ checkout[k] # NoCheckout
    <2> USE <1>3 DEF InsertFails
    <2>1. \A j \in Clients : ClientOK(j)'
      BY DEF TypeOK, ClientOK, ClaimOK, HoldsClaim
    <2>2. \A i \in Rows : RowOK(i)'
      BY DEF RowOK
    <2>3. QED
      BY <2>1, <2>2, NoRowKeepsIInv DEF TypeOK
  <1>4. CASE \/ Duplicate(k) \/ ReleaseClaim(k) \/ CrashClient(k)
             \/ InsertFails(k) /\ checkout[k] = NoCheckout
    BY <1>4, EndKeepsIInv DEF Duplicate, ReleaseClaim, CrashClient, InsertFails
  <1>5. CASE ClaimFails(k) \/ ReleaseFails(k)
    BY <1>5, EndKeepsIInv DEF ClaimFails, ReleaseFails
  <1>6. QED
    BY <1>1, <1>2, <1>3, <1>4, <1>5

\* A row is added by the one request that may, unless one looked failed.
LEMMA RowKeepsIInv ==
    ASSUME IInv, NEW k \in Clients, createRequestRow(k) \/ InsertLost(k)
    PROVE  IInv'
  <1> USE DEF IInv, pollVars, workerVars, createRequestRow, InsertLost, Finish
  <1> DEFINE new == Len(outbox) + 1
  <1>1. /\ cpc[k] = "insert" /\ checkout[k] \in Checkouts \cup {NoCheckout}
        /\ Len(outbox) < MaxRows
        /\ outbox' = Append(outbox, [checkout |-> checkout[k], status |-> "pending"])
    BY DEF TypeOK
  <1>2. /\ outbox' \in Seq(RowRecords)
        /\ Len(outbox') <= MaxRows
        /\ Rows' = Rows \cup {new}
        /\ new \in Ids \ Rows
        /\ \A i \in Rows : outbox'[i] = outbox[i]
        /\ outbox'[new] = [checkout |-> checkout[k], status |-> "pending"]
    BY <1>1, AppendRow
  <1>3. UNCHANGED <<claims, pollVars, workerVars>> /\ unseen \subseteq unseen'
    OBVIOUS
  <1>4. /\ cpc' \in [Clients -> {"idle", "claim", "insert", "release"}]
        /\ checkout' \in [Clients -> Checkouts \cup {NoCheckout}]
        /\ unseen' \subseteq Checkouts
    <2>1. CASE createRequestRow(k)
      BY <2>1 DEF TypeOK
    <2>2. CASE InsertLost(k) /\ checkout[k] = NoCheckout
      BY <2>2 DEF TypeOK
    <2>3. CASE InsertLost(k) /\ checkout[k] # NoCheckout
      <3>1. checkout[k] \in Checkouts
        BY <1>1, <2>3
      <3>2. /\ cpc' = [cpc EXCEPT ![k] = "release"]
            /\ unseen' = unseen \cup {checkout[k]}
            /\ checkout' = checkout
        BY <2>3
      <3>3. /\ cpc \in [Clients -> {"idle", "claim", "insert", "release"}]
            /\ checkout \in [Clients -> Checkouts \cup {NoCheckout}]
            /\ unseen \subseteq Checkouts
        BY DEF TypeOK
      <3>4. cpc' \in [Clients -> {"idle", "claim", "insert", "release"}]
        BY <3>2, <3>3
      <3>5. unseen' \subseteq Checkouts
        BY <3>1, <3>2, <3>3
      <3>6. QED
        BY <3>2, <3>3, <3>4, <3>5
    <2>4. QED
      BY <2>1, <2>2, <2>3
  <1>5. TypeOK'
    BY <1>2, <1>3, <1>4 DEF TypeOK, RowRecords
  <1>6. \A j \in Clients : ClientOK(j)'
    <2> SUFFICES ASSUME NEW j \in Clients PROVE ClientOK(j)'
      OBVIOUS
    <2>1. CASE j = k
      BY <1>1, <1>2, <1>3, <2>1 DEF TypeOK, ClientOK, ClaimOK, HoldsClaim
    <2>2. CASE j # k
      BY <1>1, <1>2, <1>3, <2>2 DEF TypeOK, ClientOK, ClaimOK, HoldsClaim
    <2>3. QED
      BY <2>1, <2>2
  <1>7. \A i \in Rows' : RowOK(i)'
    BY <1>1, <1>2, <1>3 DEF TypeOK, RowOK, ClientOK, ClaimOK, HoldsClaim
  <1>8. OneRequestPerCheckout'
    BY <1>1, <1>2, <1>3, SMTT(20) DEF TypeOK, OneRequestPerCheckout, ClientOK, ClaimOK, HoldsClaim
  <1>9. \A q \in Polls : PollOK(q)'
    BY <1>2, <1>3 DEF TypeOK, PollOK
  <1>10. HandedOutIsClaimed'
    BY <1>2, <1>3 DEF TypeOK, HandedOutIsClaimed
  <1>11. QED
    BY <1>2, <1>5, <1>6, <1>7, <1>8, <1>9, <1>10

-----------------------------------------------------------------------------
(* A step of a poll, of a worker or of a result                            *)

\* The requests are not concerned: a status says nothing to them.
LEMMA StatusKeepsIInv ==
    ASSUME IInv, UNCHANGED <<claims, clientVars, unseen>>,
           StatusChange \/ UNCHANGED outbox,
           TypeOK',
           \A q \in Polls : PollOK(q)',
           HandedOutIsClaimed'
    PROVE  IInv'
  <1> USE DEF IInv, clientVars
  <1>1. /\ Len(outbox') = Len(outbox) /\ Rows' = Rows
        /\ \A i \in Rows : outbox'[i].checkout = outbox[i].checkout
    BY DEF StatusChange
  <1>2. \A k \in Clients : ClientOK(k)'
    BY <1>1 DEF ClientOK, ClaimOK, HoldsClaim
  <1>3. (\A i \in Rows : RowOK(i))' /\ OneRequestPerCheckout'
    BY <1>1 DEF RowOK, OneRequestPerCheckout
  <1>4. QED
    BY <1>1, <1>2, <1>3

LEMMA PollKeepsIInv ==
    ASSUME IInv, NEW q \in Polls, PollStep(q)
    PROVE  IInv'
  <1> USE DEF IInv, clientVars, pollVars, workerVars
  <1>1. ASSUME NEW w \in Workers, Poll(w, q) PROVE IInv'
    <2> USE <1>1 DEF Poll
    <2>1. TypeOK'
      BY DEF TypeOK
    <2>2. (\A p \in Polls : PollOK(p)') /\ HandedOutIsClaimed'
      BY DEF TypeOK, PollOK, HandedOutIsClaimed
    <2>3. QED
      BY <2>1, <2>2, StatusKeepsIInv
  <1>2. CASE Find(q)
    <2> USE <1>2 DEF Find
    <2>1. TypeOK'
      BY DEF TypeOK, OldestPending, Pending
    <2>2. (\A p \in Polls : PollOK(p)') /\ HandedOutIsClaimed'
      BY DEF TypeOK, PollOK, HandedOutIsClaimed
    <2>3. QED
      BY <2>1, <2>2, StatusKeepsIInv
  <1>3. CASE ClaimPage(q)
    <2>1. /\ StatusChange
          /\ \A i \in Rows : outbox'[i].status =
                 IF i \in page[q] THEN "sending" ELSE outbox[i].status
      BY <1>3, ClaimPageStatuses
    <2>2. TypeOK'
      BY <1>3, <2>1 DEF TypeOK, ClaimPage, StatusChange, RowRecords
    <2>3. (\A p \in Polls : PollOK(p)') /\ HandedOutIsClaimed'
      BY <1>3, <2>1 DEF TypeOK, ClaimPage, PollOK, HandedOutIsClaimed
    <2>4. QED
      BY <1>3, <2>1, <2>2, <2>3, StatusKeepsIInv DEF ClaimPage
  <1>4. CASE Respond(q) \/ CrashPoll(q)
    <2>1. /\ UNCHANGED <<claims, outbox, clientVars, sends, reports, unseen>>
          /\ qpc' = [qpc EXCEPT ![q] = "idle"]
          /\ page' = [page EXCEPT ![q] = {}]
          /\ asker' = [asker EXCEPT ![q] = Nobody]
      BY <1>4 DEF Respond, CrashPoll, EndPoll
    <2>2. \/ UNCHANGED todo
          \/ /\ qpc[q] = "respond"
             /\ todo' = [w \in Workers |-> IF w = asker[q] THEN page[q] ELSE todo[w]]
      BY <1>4 DEF Respond, CrashPoll
    <2>3. TypeOK'
      BY <2>1, <2>2 DEF TypeOK
    <2>4. \A p \in Polls : PollOK(p)'
      <3> SUFFICES ASSUME NEW p \in Polls PROVE PollOK(p)'
        OBVIOUS
      <3>1. CASE p = q
        BY <2>1, <3>1 DEF TypeOK, PollOK
      <3>2. CASE p # q
        BY <2>1, <3>2 DEF TypeOK, PollOK
      <3>3. QED
        BY <3>1, <3>2
    <2>5. HandedOutIsClaimed'
      <3> SUFFICES ASSUME NEW w \in Workers, NEW i \in todo'[w]
                   PROVE  outbox'[i].status # "pending"
        BY DEF HandedOutIsClaimed
      <3>1. CASE i \in todo[w]
        BY <2>1, <3>1 DEF HandedOutIsClaimed
      <3>2. CASE i \notin todo[w]
        <4>1. qpc[q] = "respond" /\ i \in page[q]
          BY <2>2, <3>2
        <4>2. QED
          BY <2>1, <4>1 DEF PollOK
      <3>3. QED
        BY <3>1, <3>2
    <2>6. QED
      BY <2>1, <2>3, <2>4, <2>5, StatusKeepsIInv
  <1>5. QED
    BY <1>1, <1>2, <1>3, <1>4 DEF PollStep

LEMMA WorkerKeepsIInv ==
    ASSUME IInv, NEW w \in Workers, WorkerStep(w)
    PROVE  IInv'
  <1> USE DEF IInv, clientVars, pollVars
  <1>1. ASSUME NEW i \in Rows, SendInvoice(w, i) \/ SendFails(w, i) PROVE IInv'
    <2>1. /\ UNCHANGED <<claims, outbox, clientVars, pollVars, unseen>>
          /\ todo' = [todo EXCEPT ![w] = @ \ {i}]
          /\ sends' = sends \/ sends' = [sends EXCEPT ![i] = @ + 1]
          /\ reports' \subseteq reports \cup {<<i, "sent">>, <<i, "failed">>}
      BY <1>1 DEF SendInvoice, SendFails
    <2>2. \A v \in Workers : todo'[v] \subseteq todo[v]
      BY <2>1 DEF TypeOK
    <2>3. sends' \in [Ids -> Nat]
      <3>1. sends \in [Ids -> Nat]
        BY DEF TypeOK
      <3>2. \A j \in Ids : sends[j] \in Nat /\ sends[j] + 1 \in Nat
        BY <3>1
      <3>3. QED
        BY <2>1, <3>1, <3>2
    <2>4. reports' \subseteq Rows \X {"sent", "failed"}
      BY <2>1 DEF TypeOK
    <2>5. TypeOK'
      BY <2>1, <2>2, <2>3, <2>4 DEF TypeOK
    <2>6. (\A p \in Polls : PollOK(p)') /\ HandedOutIsClaimed'
      BY <2>1, <2>2 DEF PollOK, HandedOutIsClaimed
    <2>7. QED
      BY <2>1, <2>5, <2>6, StatusKeepsIInv
  <1>2. CASE Restart(w)
    <2> USE <1>2 DEF Restart
    <2>1. TypeOK'
      BY DEF TypeOK
    <2>2. (\A p \in Polls : PollOK(p)') /\ HandedOutIsClaimed'
      BY DEF TypeOK, PollOK, HandedOutIsClaimed
    <2>3. QED
      BY <2>1, <2>2, StatusKeepsIInv
  <1>3. QED
    BY <1>1, <1>2 DEF WorkerStep

LEMMA ResultKeepsIInv ==
    ASSUME IInv, NEW i \in Rows, NEW status \in {"sent", "failed"}, Result(i, status)
    PROVE  IInv'
  <1> USE DEF IInv, clientVars, pollVars, workerVars
  <1>1. /\ StatusChange
        /\ outbox'[i].status = status
        /\ \A j \in Rows \ {i} : outbox'[j] = outbox[j]
    BY ResultStatus
  <1>2. UNCHANGED <<claims, clientVars, pollVars, workerVars, unseen>>
    BY DEF Result
  <1>3. TypeOK'
    BY <1>1, <1>2 DEF TypeOK, StatusChange, RowRecords
  <1>4. (\A p \in Polls : PollOK(p)') /\ HandedOutIsClaimed'
    BY <1>1, <1>2 DEF TypeOK, StatusChange, PollOK, HandedOutIsClaimed
  <1>5. QED
    BY <1>1, <1>2, <1>3, <1>4, StatusKeepsIInv

-----------------------------------------------------------------------------
LEMMA NextIInv == IInv /\ [Next]_vars => IInv'
  <1> SUFFICES ASSUME IInv, [Next]_vars PROVE IInv'
    OBVIOUS
  <1>1. CASE UNCHANGED vars
    <2>1. UNCHANGED <<claims, outbox, clientVars, pollVars, workerVars, unseen>>
      BY <1>1 DEF vars
    <2>2. TypeOK' /\ HandedOutIsClaimed' /\ \A q \in Polls : PollOK(q)'
      BY <2>1 DEF IInv, TypeOK, HandedOutIsClaimed, PollOK, clientVars, pollVars, workerVars
    <2>3. QED
      BY <2>1, <2>2, StatusKeepsIInv
  <1>2. CASE Next
    BY <1>2, NoRowStepKeepsIInv, RowKeepsIInv, PollKeepsIInv, WorkerKeepsIInv, ResultKeepsIInv
       DEF Next, ClientStep
  <1>3. QED
    BY <1>1, <1>2

LEMMA Invariance == Spec => []IInv
  BY InitIInv, NextIInv, PTL DEF Spec

\* Every table, request and poll is of its type, whatever overlaps and fails.
THEOREM TypeCorrect == Spec => []TypeOK
  BY Invariance, PTL DEF IInv

\* One invoice per checkout, for any number of concurrent and repeated requests
\* of createPaymentRequest, apart from checkouts with a row that looked failed.
THEOREM OneRequest == Spec => []OneRequestPerCheckout
  BY Invariance, PTL DEF IInv

\* pending() hands out claimed rows only, for any number of workers and polls.
THEOREM HandedOut == Spec => []HandedOutIsClaimed
  BY Invariance, PTL DEF IInv
-----------------------------------------------------------------------------
(* One worker sends an invoice once                                        *)

OneWorker == \A v, w \in Workers : v = w

\* What was sent is nowhere any more where a worker could come upon it: it is
\* not pending, not in the hands of a poll that is waited for, not to be sent.
SentOK ==
    /\ \A w \in Workers : Waiting(w) => todo[w] = {}
    /\ \A p, q \in Polls : asker[p] = asker[q] /\ asker[p] # Nobody => p = q
    /\ \A i \in Ids : sends[i] <= 1
    /\ \A i \in Ids : i \notin Rows => sends[i] = 0
    /\ \A i \in Rows : outbox[i].status = "pending" => sends[i] = 0
    /\ \A q \in Polls : asker[q] # Nobody => \A i \in page[q] : sends[i] = 0
    /\ \A w \in Workers : \A i \in todo[w] : sends[i] = 0

LEMMA RequestKeepsSentOK ==
    ASSUME IInv, SentOK, NEW k \in Clients, ClientStep(k)
    PROVE  SentOK'
  <1> USE DEF SentOK, pollVars, workerVars, Waiting
  <1>1. ASSUME createRequestRow(k) \/ InsertLost(k) PROVE SentOK'
    <2>1. /\ Len(outbox) < MaxRows
          /\ checkout[k] \in Checkouts \cup {NoCheckout}
          /\ outbox' = Append(outbox, [checkout |-> checkout[k], status |-> "pending"])
          /\ UNCHANGED <<pollVars, workerVars>>
      BY <1>1 DEF createRequestRow, InsertLost, IInv, TypeOK
    <2>2. /\ Rows' = Rows \cup {Len(outbox) + 1}
          /\ Len(outbox) + 1 \in Ids \ Rows
          /\ \A i \in Rows : outbox'[i] = outbox[i]
      BY <2>1, AppendRow DEF IInv
    <2>3. QED
      BY <2>1, <2>2
  <1>2. CASE UNCHANGED <<outbox, pollVars, workerVars>>
    BY <1>2
  <1>3. QED
    BY <1>1, <1>2 DEF ClientStep, Submit, ClaimCheckout, Duplicate, InsertFails,
                      ReleaseClaim, ClaimFails, ReleaseFails, CrashClient

LEMMA PollKeepsSentOK ==
    ASSUME IInv, SentOK, NEW q \in Polls, PollStep(q)
    PROVE  SentOK'
  <1> USE DEF IInv, TypeOK, SentOK, clientVars, workerVars, Waiting
  <1>1. ASSUME NEW w \in Workers, Poll(w, q) PROVE SentOK'
    BY <1>1 DEF Poll, PollOK
  <1>2. CASE Find(q)
    BY <1>2 DEF Find, OldestPending, Pending
  <1>3. CASE ClaimPage(q)
    <2>1. /\ StatusChange
          /\ \A i \in Rows : outbox'[i].status =
                 IF i \in page[q] THEN "sending" ELSE outbox[i].status
      BY <1>3, ClaimPageStatuses
    <2>2. UNCHANGED <<page, asker, todo, sends>>
      BY <1>3 DEF ClaimPage
    <2>3. Rows' = Rows
      BY <2>1 DEF StatusChange
    <2>4. \A i \in Rows : outbox'[i].status = "pending" => outbox[i].status = "pending"
      BY <2>1
    <2>5. QED
      BY <2>2, <2>3, <2>4
  <1>4. CASE Respond(q)
    <2>1. outbox' = outbox /\ sends' = sends
      BY <1>4 DEF Respond, EndPoll
    <2>2. \A p \in Polls : IF p = q THEN asker'[p] = Nobody /\ page'[p] = {}
                           ELSE asker'[p] = asker[p] /\ page'[p] = page[p]
      BY <1>4 DEF Respond, EndPoll
    <2>3. \A w \in Workers : todo'[w] = IF w = asker[q] THEN page[q] ELSE todo[w]
      BY <1>4 DEF Respond, EndPoll
    <2>4. \A w \in Workers : Waiting(w)' => Waiting(w) /\ w # asker[q]
      BY <2>2
    <2>5. \A w \in Workers : \A i \in todo'[w] : sends[i] = 0
      BY <2>3
    <2>6. \A w \in Workers : Waiting(w)' => todo'[w] = {}
      BY <2>3, <2>4
    <2>7. \A p, r \in Polls : asker'[p] = asker'[r] /\ asker'[p] # Nobody => p = r
      BY <2>2
    <2>8. \A p \in Polls : asker'[p] # Nobody => \A i \in page'[p] : sends[i] = 0
      BY <2>2
    <2>9. QED
      BY <2>1, <2>5, <2>6, <2>7, <2>8
  <1>5. CASE CrashPoll(q)
    BY <1>5 DEF CrashPoll, EndPoll
  <1>6. QED
    BY <1>1, <1>2, <1>3, <1>4, <1>5 DEF PollStep

LEMMA WorkerKeepsSentOK ==
    ASSUME OneWorker, IInv, SentOK, NEW w \in Workers, WorkerStep(w)
    PROVE  SentOK'
  <1> USE DEF IInv, TypeOK, SentOK, clientVars, pollVars, Waiting
  <1>1. ASSUME NEW i \in Rows, SendInvoice(w, i) PROVE SentOK'
    <2>1. \A q \in Polls : asker[q] = Nobody
      BY <1>1, SMTT(20) DEF SendInvoice, OneWorker
    <2>2. outbox[i].status # "pending"
      BY <1>1 DEF SendInvoice, HandedOutIsClaimed
    <2>3. i \in Ids /\ sends[i] = 0 /\ sends' = [sends EXCEPT ![i] = 1]
      <3>1. i \in todo[w] /\ sends' = [sends EXCEPT ![i] = sends[i] + 1]
        BY <1>1 DEF SendInvoice
      <3>2. sends[i] = 0
        BY <3>1
      <3>3. i \in Ids
        BY <1>1
      <3>4. QED
        BY <3>1, <3>2, <3>3
    <2>4. \A v \in Workers : v = w /\ todo'[v] = todo[w] \ {i}
      BY <1>1 DEF SendInvoice, OneWorker
    <2>5. QED
      BY <1>1, <2>1, <2>2, <2>3, <2>4 DEF SendInvoice
  <1>2. ASSUME NEW i \in Rows, SendFails(w, i) PROVE SentOK'
    BY <1>2 DEF SendFails
  <1>3. CASE Restart(w)
    BY <1>3 DEF Restart
  <1>4. QED
    BY <1>1, <1>2, <1>3 DEF WorkerStep

LEMMA ResultKeepsSentOK ==
    ASSUME IInv, SentOK, NEW i \in Rows, NEW status \in {"sent", "failed"},
           Result(i, status)
    PROVE  SentOK'
  <1>1. /\ StatusChange
        /\ outbox'[i].status = status
        /\ \A j \in Rows \ {i} : outbox'[j] = outbox[j]
    BY ResultStatus DEF IInv
  <1>2. QED
    BY <1>1 DEF SentOK, StatusChange, Result, pollVars, workerVars, Waiting

LEMMA NextSentOK == OneWorker /\ IInv /\ SentOK /\ [Next]_vars => SentOK'
  <1> SUFFICES ASSUME OneWorker, IInv, SentOK, [Next]_vars PROVE SentOK'
    OBVIOUS
  <1>1. CASE UNCHANGED vars
    BY <1>1 DEF vars, SentOK, pollVars, workerVars, Waiting
  <1>2. CASE Next
    BY <1>2, RequestKeepsSentOK, PollKeepsSentOK, WorkerKeepsSentOK, ResultKeepsSentOK
       DEF Next
  <1>3. QED
    BY <1>1, <1>2

\* The worker sends no invoice twice, however often it restarts and however many
\* of its polls overlap in pending(): if there is one worker.
THEOREM SentOnce == OneWorker => (Spec => []AtMostOnce)
  <1> SUFFICES ASSUME OneWorker PROVE Spec => []AtMostOnce
    OBVIOUS
  <1>1. Init => SentOK
    BY DEF Init, SentOK, Waiting
  <1>2. IInv /\ SentOK /\ [Next]_vars => SentOK'
    BY NextSentOK
  <1>3. IInv /\ SentOK => AtMostOnce
    BY DEF IInv, TypeOK, SentOK, AtMostOnce
  <1>4. QED
    BY <1>1, <1>2, <1>3, Invariance, PTL DEF Spec

-----------------------------------------------------------------------------
(* The outbox is a queue                                                   *)

LEMMA LargestRow ==
    ASSUME TypeOK, NEW S \in SUBSET Rows, S # {}
    PROVE  \E m \in S : \A s \in S : s <= m
  <1> DEFINE n == Len(outbox)
             R == OpToRel(<, Nat)
             D == {k \in Nat : \E s \in S : k = n - s}
  <1>1. n \in Nat /\ Rows = 1 .. n
    BY LenProperties DEF TypeOK
  <1>2. \A s \in S : s \in Nat /\ n - s \in D
    BY <1>1
  <1>3. D # {}
    BY <1>2
  <1>4. IsWellFoundedOn(R, Nat)
    BY NatLessThanWellFounded
  <1>5. \A s, m \in Nat : s < m => <<s, m>> \in R
    BY DEF OpToRel
  <1> HIDE DEF R
  <1>6. PICK x \in D : \A y \in D : ~ (<<y, x>> \in R)
    <2>1. D \in SUBSET Nat
      OBVIOUS
    <2> HIDE DEF D
    <2>2. QED
      BY <1>3, <1>4, <2>1, WFMin
  <1>7. \A y \in D : ~ (y < x)
    BY <1>5, <1>6
  <1>8. PICK m \in S : x = n - m
    BY <1>6
  <1> HIDE DEF n, D
  <1>9. ASSUME NEW s \in S PROVE s <= m
    <2>1. ~ (n - s < n - m)
      BY <1>2, <1>7, <1>8
    <2>2. QED
      BY <1>1, <1>2, <2>1
  <1>10. QED
    BY <1>9

\* findMany returns the front of the queue, a page of it at most.
LEMMA OldestAreAPage ==
    ASSUME TypeOK
    PROVE  /\ \A i \in OldestPending, j \in Pending : j < i => j \in OldestPending
           /\ IsFiniteSet(OldestPending)
           /\ Cardinality(OldestPending) <= PageSize
  <1> DEFINE Before(i) == {j \in Pending : j < i}
  <1>1. Len(outbox) \in Nat /\ Rows = 1 .. Len(outbox)
    BY LenProperties DEF TypeOK
  <1>2. Pending \subseteq Rows /\ OldestPending \subseteq Pending
    BY DEF Pending, OldestPending
  <1>3. IsFiniteSet(Pending)
    <2>1. IsFiniteSet(1 .. Len(outbox))
      BY <1>1, FS_Interval
    <2>2. QED
      BY <1>1, <1>2, <2>1, FS_Subset
  <1>4. \A i : IsFiniteSet(Before(i)) /\ Cardinality(Before(i)) \in Nat
    <2> SUFFICES ASSUME NEW i PROVE IsFiniteSet(Before(i)) /\ Cardinality(Before(i)) \in Nat
      OBVIOUS
    <2>1. Before(i) \subseteq Pending
      OBVIOUS
    <2>2. QED
      BY <1>3, <2>1, FS_Subset, FS_CardinalityType
  <1>5. \A i \in OldestPending : Cardinality(Before(i)) < PageSize
    BY DEF OldestPending
  <1>6. IsFiniteSet(OldestPending)
    BY <1>2, <1>3, FS_Subset
  <1>7. ASSUME NEW i \in OldestPending, NEW j \in Pending, j < i
        PROVE  j \in OldestPending
    <2>1. i \in Nat /\ j \in Nat
      BY <1>1, <1>2
    <2>2. ASSUME NEW k \in Before(j) PROVE k \in Before(i)
      <3>1. k \in Pending /\ k \in Nat /\ k < j
        BY <1>1, <1>2
      <3>2. k < i
        BY <1>7, <2>1, <3>1
      <3>3. QED
        BY <3>1, <3>2
    <2>3. Cardinality(Before(j)) <= Cardinality(Before(i))
      <3>1. Before(j) \subseteq Before(i)
        BY <2>2
      <3>2. QED
        BY <1>4, <3>1, FS_Subset
    <2>4. Cardinality(Before(j)) < PageSize
      BY <1>4, <1>5, <2>3
    <2>5. QED
      BY <2>4 DEF OldestPending
  <1>8. Cardinality(OldestPending) <= PageSize
    <2>1. CASE OldestPending = {}
      BY <2>1, FS_EmptySet
    <2>2. CASE OldestPending # {}
      <3>1. PICK m \in OldestPending : \A s \in OldestPending : s <= m
        BY <1>2, <2>2, LargestRow
      <3>2. OldestPending \subseteq Before(m) \cup {m}
        BY <1>1, <1>2, <3>1
      <3>3. m \notin Before(m)
        BY <1>1, <1>2
      <3>4. /\ IsFiniteSet(Before(m) \cup {m})
            /\ Cardinality(Before(m) \cup {m}) = Cardinality(Before(m)) + 1
        BY <1>4, <3>3, FS_AddElement
      <3>5. Cardinality(OldestPending) <= Cardinality(Before(m)) + 1
        BY <3>2, <3>4, FS_Subset
      <3>6. Cardinality(Before(m)) < PageSize /\ Cardinality(Before(m)) \in Nat
        BY <1>4, <1>5
      <3>7. Cardinality(OldestPending) \in Nat
        BY <1>6, FS_CardinalityType
      <3> HIDE DEF Before
      <3>8. QED
        BY <3>5, <3>6, <3>7
    <2>3. QED
      BY <2>1, <2>2
  <1>9. QED
    BY <1>6, <1>7, <1>8

\* The page a poll is about to claim: whatever other polls have claimed since it
\* was read, what is still pending before one of its rows is on it as well.
PageOK(q) ==
    qpc[q] = "claim" =>
        /\ \A i \in page[q], j \in Rows :
               j < i /\ outbox[j].status = "pending" => j \in page[q]
        /\ IsFiniteSet(page[q])
        /\ Cardinality(page[q]) <= PageSize

PagesOK == \A q \in Polls : PageOK(q)

LEMMA StatusesKeepPages ==
    ASSUME IInv, PagesOK, StatusChange \/ UNCHANGED outbox,
           \A i \in Rows : outbox'[i].status = "pending" => outbox[i].status = "pending",
           \A q \in Polls : qpc'[q] = "claim" => qpc[q] = "claim" /\ page'[q] = page[q]
    PROVE  PagesOK'
  <1>1. Rows' = Rows
    BY DEF StatusChange
  <1>2. QED
    BY <1>1 DEF PagesOK, PageOK, IInv, TypeOK

LEMMA RequestKeepsPages ==
    ASSUME IInv, PagesOK, NEW k \in Clients, ClientStep(k)
    PROVE  PagesOK'
  <1>1. CASE createRequestRow(k) \/ InsertLost(k)
    <2>1. /\ Len(outbox) < MaxRows
          /\ checkout[k] \in Checkouts \cup {NoCheckout}
          /\ outbox' = Append(outbox, [checkout |-> checkout[k], status |-> "pending"])
          /\ UNCHANGED <<qpc, page>>
      BY <1>1 DEF createRequestRow, InsertLost, IInv, TypeOK, pollVars
    <2>2. /\ Rows' = Rows \cup {Len(outbox) + 1}
          /\ Len(outbox) + 1 \in Ids \ Rows
          /\ \A i \in Rows : outbox'[i] = outbox[i]
      BY <2>1, AppendRow DEF IInv
    <2>3. Len(outbox) \in Nat /\ \A i \in Rows : i \in Nat /\ i <= Len(outbox)
      BY LenProperties DEF IInv, TypeOK
    <2>4. ASSUME NEW q \in Polls PROVE PageOK(q)'
      <3>1. page[q] \subseteq Rows
        BY DEF IInv, TypeOK
      <3>2. \A i \in page[q], j \in Rows' : j < i => j \in Rows
        BY <2>2, <2>3, <3>1
      <3>3. QED
        BY <2>1, <2>2, <3>1, <3>2 DEF PagesOK, PageOK
    <2>5. QED
      BY <2>4 DEF PagesOK
  <1>2. CASE UNCHANGED <<outbox, pollVars>>
    BY <1>2, StatusesKeepPages DEF pollVars
  <1>3. QED
    BY <1>1, <1>2 DEF ClientStep, Submit, ClaimCheckout, Duplicate, InsertFails,
                      ReleaseClaim, ClaimFails, ReleaseFails, CrashClient

LEMMA PollKeepsPages ==
    ASSUME IInv, PagesOK, NEW q \in Polls, PollStep(q)
    PROVE  PagesOK'
  <1>0. qpc \in [Polls -> {"idle", "find", "claim", "respond"}] /\ DOMAIN page = Polls
    BY DEF IInv, TypeOK
  <1>1. CASE Find(q)
    <2>1. /\ UNCHANGED outbox
          /\ page' = [page EXCEPT ![q] = OldestPending]
          /\ \A p \in Polls \ {q} : qpc'[p] = qpc[p] /\ page'[p] = page[p]
      BY <1>1 DEF Find
    <2>2. PageOK(q)'
      <3>1. page'[q] = OldestPending
        BY <1>0, <2>1
      <3>2. QED
        BY <2>1, <3>1, OldestAreAPage DEF PageOK, Pending, IInv
    <2>3. \A p \in Polls \ {q} : PageOK(p)'
      BY <2>1 DEF PagesOK, PageOK
    <2>4. QED
      BY <2>2, <2>3 DEF PagesOK
  <1>2. CASE ClaimPage(q)
    <2>1. /\ StatusChange
          /\ \A i \in Rows : outbox'[i].status =
                 IF i \in page[q] THEN "sending" ELSE outbox[i].status
      BY <1>2, ClaimPageStatuses DEF IInv
    <2>2. page' = page /\ qpc' = [qpc EXCEPT ![q] = "respond"]
      BY <1>2 DEF ClaimPage
    <2>3. QED
      BY <1>0, <2>1, <2>2, StatusesKeepPages
  <1>3. CASE \/ \E w \in Workers : Poll(w, q)
             \/ Respond(q) \/ CrashPoll(q)
    <2>1. UNCHANGED outbox
      BY <1>3 DEF Poll, Respond, CrashPoll, EndPoll
    <2>2. \A p \in Polls : qpc'[p] = "claim" => qpc[p] = "claim" /\ page'[p] = page[p]
      BY <1>0, <1>3 DEF Poll, Respond, CrashPoll, EndPoll
    <2>3. QED
      BY <2>1, <2>2, StatusesKeepPages
  <1>4. QED
    BY <1>1, <1>2, <1>3 DEF PollStep

LEMMA NextPages == IInv /\ PagesOK /\ [Next]_vars => PagesOK'
  <1> SUFFICES ASSUME IInv, PagesOK, [Next]_vars PROVE PagesOK'
    OBVIOUS
  <1>1. CASE UNCHANGED vars
    BY <1>1, StatusesKeepPages DEF vars, pollVars
  <1>2. ASSUME NEW w \in Workers, WorkerStep(w) PROVE PagesOK'
    <2>1. UNCHANGED <<outbox, qpc, page>>
      BY <1>2 DEF WorkerStep, SendInvoice, SendFails, Restart, pollVars
    <2>2. QED
      BY <2>1, StatusesKeepPages
  <1>3. ASSUME NEW i \in Rows, NEW status \in {"sent", "failed"}, Result(i, status)
        PROVE  PagesOK'
    <2>1. /\ StatusChange
          /\ outbox'[i].status = status
          /\ \A j \in Rows \ {i} : outbox'[j] = outbox[j]
      BY <1>3, ResultStatus DEF IInv
    <2>2. UNCHANGED <<qpc, page>>
      BY <1>3 DEF Result, pollVars
    <2>3. \A j \in Rows : outbox'[j].status = "pending" => outbox[j].status = "pending"
      BY <2>1
    <2>4. QED
      BY <2>1, <2>2, <2>3, StatusesKeepPages
  <1>4. QED
    BY <1>1, <1>2, <1>3, RequestKeepsPages, PollKeepsPages DEF Next

\* Step by step: a new row joins the queue, claiming a page hands out its front,
\* and nothing else changes a row's place in it.
LEMMA NewRowJoins ==
    ASSUME IInv, NEW k \in Clients, createRequestRow(k) \/ InsertLost(k)
    PROVE  Abstract!Next
  <1>1. /\ Len(outbox) < MaxRows
        /\ checkout[k] \in Checkouts \cup {NoCheckout}
        /\ outbox' = Append(outbox, [checkout |-> checkout[k], status |-> "pending"])
        /\ UNCHANGED sends
    BY DEF createRequestRow, InsertLost, IInv, TypeOK, workerVars
  <1>2. PICK new \in Ids \ Rows :
           /\ new = Len(outbox) + 1
           /\ Rows' = Rows \cup {new}
           /\ \A i \in Rows : outbox'[i] = outbox[i]
           /\ outbox'[new] = [checkout |-> checkout[k], status |-> "pending"]
    BY <1>1, AppendRow DEF IInv
  <1>3. Rows = 1 .. Len(outbox) /\ Len(outbox) \in Nat
    BY LenProperties DEF IInv, TypeOK
  <1>4. \A i \in Ids : Phase(i)' = IF i = new THEN "queued" ELSE Phase(i)
    <2>1. \A i \in Ids \ {new} : Phase(i)' = Phase(i)
      BY <1>2 DEF Phase
    <2>2. Phase(new)' = "queued"
      BY <1>2 DEF Phase
    <2>3. QED
      BY <2>1, <2>2
  <1>5. Phase(new) = "free" /\ \A j \in Ids : j < new => Phase(j) # "free"
    BY <1>2, <1>3 DEF Phase
  <1>6. Abstract!Join(new)
    BY <1>1, <1>2, <1>4, <1>5 DEF Abstract!Join, Abstract!Places
  <1>7. QED
    BY <1>2, <1>6 DEF Abstract!Next, Abstract!Places

LEMMA ClaimHandsOut ==
    ASSUME IInv, PagesOK, NEW q \in Polls, ClaimPage(q)
    PROVE  Abstract!Next \/ \A i \in Ids : Phase(i)' = Phase(i)
  <1> DEFINE front == page[q] \cap Pending
  <1>1. /\ StatusChange
        /\ \A i \in Rows : outbox'[i].status =
               IF i \in page[q] THEN "sending" ELSE outbox[i].status
    BY ClaimPageStatuses DEF IInv
  <1>2. UNCHANGED sends /\ PageOK(q) /\ qpc[q] = "claim" /\ page[q] \subseteq Rows
    BY DEF ClaimPage, workerVars, PagesOK, IInv, TypeOK
  <1>3. Rows \subseteq Ids
    BY LenProperties DEF IInv, TypeOK
  <1>4. \A i \in Ids : Phase(i)' = IF i \in front THEN "handed" ELSE Phase(i)
    BY <1>1 DEF Phase, Pending, StatusChange
  <1>5. Abstract!Queued = Pending
    BY <1>3 DEF Abstract!Queued, Abstract!Places, Phase, Pending
  <1>6. CASE front = {}
    BY <1>4, <1>6
  <1>7. CASE front # {}
    <2>1. Cardinality(front) <= PageSize
      <3>1. IsFiniteSet(page[q]) /\ Cardinality(page[q]) <= PageSize
        BY <1>2 DEF PageOK
      <3>2. Cardinality(front) <= Cardinality(page[q])
        BY <3>1, FS_Subset
      <3>3. Cardinality(front) \in Nat /\ Cardinality(page[q]) \in Nat
        BY <3>1, FS_Subset, FS_CardinalityType
      <3> HIDE DEF front
      <3>4. QED
        BY <3>1, <3>2, <3>3
    <2>2. \A i \in front, j \in Pending : j < i => j \in front
      BY <1>2 DEF PageOK, Pending
    <2>3. front \in SUBSET Pending
      OBVIOUS
    <2> HIDE DEF front
    <2>4. Abstract!HandOut(front)
      <3>1. \A i \in Ids : [j \in Ids |-> Phase(j)][i] = Phase(i)
        OBVIOUS
      <3>2. [i \in Ids |-> Phase(i)'] =
                [i \in Ids |-> IF i \in front THEN "handed" ELSE [j \in Ids |-> Phase(j)][i]]
        BY <1>4, <3>1, Zenon
      <3>3. Abstract!Queued = Pending
        BY <1>5
      <3>4. \A i \in front, j \in Abstract!Queued : j < i => j \in front
        BY <2>2, <3>3, Zenon
      <3>5. Abstract!Cardinality(front) <= PageSize
        BY <2>1 DEF Abstract!Cardinality, Abstract!IsFiniteSet, Cardinality, IsFiniteSet
      <3>6. QED
        BY <1>2, <1>7, <3>2, <3>4, <3>5, Zenon DEF Abstract!HandOut, Abstract!Places
    <2>5. QED
      BY <1>5, <2>3, <2>4 DEF Abstract!Next
  <1>8. QED
    BY <1>6, <1>7

LEMMA SendingSends ==
    ASSUME IInv, SentOK, NEW w \in Workers, NEW i \in Rows, SendInvoice(w, i)
    PROVE  Abstract!Next
  <1>1. outbox[i].status # "pending" /\ sends[i] = 0
    BY DEF SendInvoice, IInv, HandedOutIsClaimed, SentOK
  <1>2. sends' = [sends EXCEPT ![i] = 1] /\ UNCHANGED outbox
    <2>1. sends' = [sends EXCEPT ![i] = sends[i] + 1] /\ UNCHANGED outbox
      BY DEF SendInvoice
    <2>2. QED
      BY <1>1, <2>1
  <1>3. i \in Ids
    BY LenProperties DEF IInv, TypeOK
  <1>4. Phase(i) = "handed" /\ \A j \in Ids : Phase(j)' = Phase(j)
    BY <1>1, <1>2 DEF Phase
  <1>5. Abstract!Send(i)
    BY <1>1, <1>2, <1>3, <1>4 DEF Abstract!Send, Abstract!Places
  <1>6. QED
    BY <1>3, <1>5 DEF Abstract!Next, Abstract!Places

\* Results, polls that are not claiming and all that fails stutter.
LEMMA PhasesKept ==
    ASSUME IInv, UNCHANGED sends,
           \/ UNCHANGED outbox
           \/ \E i \in Rows, status \in {"sent", "failed"} :
                  <<i, status>> \in reports /\ outbox[i].status # "pending"
                  /\ Result(i, status)
    PROVE  \A j \in Ids : Phase(j)' = Phase(j)
  <1>1. CASE UNCHANGED outbox
    BY <1>1 DEF Phase
  <1>2. ASSUME NEW i \in Rows, NEW status \in {"sent", "failed"},
               outbox[i].status # "pending", Result(i, status)
        PROVE  \A j \in Ids : Phase(j)' = Phase(j)
    <2>1. /\ StatusChange
          /\ outbox'[i].status = status
          /\ \A j \in Rows \ {i} : outbox'[j] = outbox[j]
      BY <1>2, ResultStatus DEF IInv
    <2>2. QED
      BY <1>2, <2>1 DEF Phase, StatusChange
  <1>3. QED
    BY <1>1, <1>2

\* A result is of a row that was handed out.
ReportedIsClaimed ==
    \A i \in Rows, status \in {"sent", "failed"} :
        <<i, status>> \in reports => outbox[i].status # "pending"

LEMMA NextReportedIsClaimed ==
    IInv /\ ReportedIsClaimed /\ [Next]_vars => ReportedIsClaimed'
  <1> SUFFICES ASSUME IInv, ReportedIsClaimed, [Next]_vars PROVE ReportedIsClaimed'
    OBVIOUS
  <1>0. reports \subseteq Rows \X {"sent", "failed"}
    BY DEF IInv, TypeOK
  <1>1. ASSUME NEW k \in Clients, ClientStep(k) PROVE ReportedIsClaimed'
    <2>1. CASE createRequestRow(k) \/ InsertLost(k)
      <3>1. /\ Len(outbox) < MaxRows
            /\ checkout[k] \in Checkouts \cup {NoCheckout}
            /\ outbox' = Append(outbox, [checkout |-> checkout[k], status |-> "pending"])
            /\ UNCHANGED reports
        BY <2>1 DEF createRequestRow, InsertLost, IInv, TypeOK, workerVars
      <3>2. /\ Rows' = Rows \cup {Len(outbox) + 1}
            /\ \A i \in Rows : outbox'[i] = outbox[i]
        BY <3>1, AppendRow DEF IInv
      <3>3. QED
        BY <1>0, <3>1, <3>2 DEF ReportedIsClaimed
    <2>2. CASE UNCHANGED <<outbox, reports>>
      BY <2>2 DEF ReportedIsClaimed
    <2>3. QED
      BY <1>1, <2>1, <2>2 DEF ClientStep, Submit, ClaimCheckout, Duplicate, InsertFails,
                              ReleaseClaim, ClaimFails, ReleaseFails, CrashClient,
                              workerVars
  <1>2. ASSUME NEW q \in Polls, PollStep(q) PROVE ReportedIsClaimed'
    <2>1. CASE ClaimPage(q)
      <3>1. /\ StatusChange
            /\ \A i \in Rows : outbox'[i].status =
                   IF i \in page[q] THEN "sending" ELSE outbox[i].status
        BY <2>1, ClaimPageStatuses DEF IInv
      <3>2. UNCHANGED reports
        BY <2>1 DEF ClaimPage, workerVars
      <3>3. QED
        BY <3>1, <3>2 DEF ReportedIsClaimed, StatusChange
    <2>2. CASE UNCHANGED <<outbox, reports>>
      BY <2>2 DEF ReportedIsClaimed
    <2>3. QED
      BY <1>2, <2>1, <2>2 DEF PollStep, Poll, Find, Respond, CrashPoll, EndPoll, workerVars
  <1>3. ASSUME NEW w \in Workers, WorkerStep(w) PROVE ReportedIsClaimed'
    <2>1. ASSUME NEW i \in Rows, SendInvoice(w, i) \/ SendFails(w, i)
          PROVE  ReportedIsClaimed'
      <3>1. outbox[i].status # "pending"
        BY <2>1 DEF SendInvoice, SendFails, IInv, HandedOutIsClaimed
      <3>2. /\ UNCHANGED outbox
            /\ reports' \subseteq reports \cup {<<i, "sent">>, <<i, "failed">>}
        BY <2>1 DEF SendInvoice, SendFails
      <3>3. QED
        BY <3>1, <3>2 DEF ReportedIsClaimed
    <2>2. CASE Restart(w)
      BY <2>2 DEF Restart, ReportedIsClaimed
    <2>3. QED
      BY <1>3, <2>1, <2>2 DEF WorkerStep
  <1>4. ASSUME NEW i \in Rows, NEW status \in {"sent", "failed"}, Result(i, status)
        PROVE  ReportedIsClaimed'
    <2>1. /\ StatusChange
          /\ outbox'[i].status = status
          /\ \A j \in Rows \ {i} : outbox'[j] = outbox[j]
      BY <1>4, ResultStatus DEF IInv
    <2>2. UNCHANGED reports
      BY <1>4 DEF Result, workerVars
    <2>3. QED
      BY <2>1, <2>2 DEF ReportedIsClaimed, StatusChange
  <1>5. CASE UNCHANGED vars
    BY <1>5 DEF vars, workerVars, ReportedIsClaimed
  <1>6. QED
    BY <1>1, <1>2, <1>3, <1>4, <1>5 DEF Next

LEMMA NextImplements ==
    IInv /\ PagesOK /\ SentOK /\ ReportedIsClaimed /\ [Next]_vars =>
        [Abstract!Next]_<<[i \in Ids |-> Phase(i)], sends>>
  <1> SUFFICES ASSUME IInv, PagesOK, SentOK, ReportedIsClaimed, [Next]_vars
               PROVE  \/ Abstract!Next
                      \/ UNCHANGED sends /\ \A i \in Ids : Phase(i)' = Phase(i)
    OBVIOUS
  <1>1. ASSUME NEW k \in Clients, ClientStep(k)
        PROVE  Abstract!Next \/ UNCHANGED <<outbox, sends>>
    BY <1>1, NewRowJoins
       DEF ClientStep, Submit, ClaimCheckout, Duplicate, InsertFails, ReleaseClaim,
           ClaimFails, ReleaseFails, CrashClient, workerVars
  <1>2. ASSUME NEW q \in Polls, PollStep(q)
        PROVE  \/ Abstract!Next
               \/ UNCHANGED sends /\ \A i \in Ids : Phase(i)' = Phase(i)
    <2>1. CASE ClaimPage(q)
      <3>1. UNCHANGED sends
        BY <2>1 DEF ClaimPage, workerVars
      <3>2. QED
        BY <2>1, <3>1, ClaimHandsOut
    <2>2. CASE UNCHANGED <<outbox, sends>>
      BY <2>2, PhasesKept
    <2>3. QED
      BY <1>2, <2>1, <2>2 DEF PollStep, Poll, Find, Respond, CrashPoll, EndPoll, workerVars
  <1>3. ASSUME NEW w \in Workers, WorkerStep(w)
        PROVE  Abstract!Next \/ UNCHANGED <<outbox, sends>>
    BY <1>3, SendingSends DEF WorkerStep, SendFails, Restart
  <1>4. ASSUME NEW i \in Rows, NEW status \in {"sent", "failed"}, Result(i, status)
        PROVE  UNCHANGED sends /\ \A j \in Ids : Phase(j)' = Phase(j)
    <2>1. UNCHANGED sends /\ <<i, status>> \in reports /\ outbox[i].status # "pending"
      BY <1>4 DEF Result, workerVars, ReportedIsClaimed
    <2>2. QED
      BY <1>4, <2>1, PhasesKept
  <1>5. CASE UNCHANGED vars
    BY <1>5, PhasesKept DEF vars, workerVars
  <1>6. QED
    BY <1>1, <1>2, <1>3, <1>4, <1>5, PhasesKept DEF Next

\* kaspi/pending and kaspi/:id/result, through all that overlaps and fails,
\* implement a queue whose requests are handed out in order, a page at a time and
\* once, and whose invoices are sent once: if there is one worker.
THEOREM OutboxIsQueue == OneWorker => (Spec => ImplementsOutbox)
  <1> SUFFICES ASSUME OneWorker PROVE Spec => ImplementsOutbox
    OBVIOUS
  <1>1. Init => Abstract!Init
    <2> SUFFICES ASSUME Init PROVE Abstract!Init
      OBVIOUS
    <2>1. \A i \in Ids : Phase(i) = "free"
      BY DEF Init, Phase
    <2>2. QED
      BY <2>1 DEF Init, Abstract!Init, Abstract!Places
  <1>2. Init => PagesOK /\ SentOK /\ ReportedIsClaimed
    BY DEF Init, PagesOK, PageOK, SentOK, Waiting, ReportedIsClaimed
  <1>3. IInv /\ PagesOK /\ SentOK /\ ReportedIsClaimed /\ [Next]_vars =>
            PagesOK' /\ SentOK' /\ ReportedIsClaimed'
    BY NextPages, NextSentOK, NextReportedIsClaimed
  <1>4. QED
    BY <1>1, <1>2, <1>3, NextImplements, Invariance, PTL DEF Spec, ImplementsOutbox, Abstract!Spec

-----------------------------------------------------------------------------
(* What can reopen a row that was sent                                     *)

Reported(i) == <<i, "sent">> \in reports \/ <<i, "failed">> \in reports

\* A row has one result.  Once it is reported, no poll the worker waits for has
\* the row and the worker does not have it to send; and a row shows only a
\* result that was reported.
ReportOK ==
    /\ \A i \in Rows : ~ (<<i, "sent">> \in reports /\ <<i, "failed">> \in reports)
    /\ \A i \in Rows : Reported(i) =>
           /\ \A q \in Polls : asker[q] # Nobody => i \notin page[q]
           /\ \A w \in Workers : i \notin todo[w]
    /\ \A i \in Rows : outbox[i].status \in {"sent", "failed"} =>
           <<i, outbox[i].status>> \in reports

LEMMA RequestKeepsReports ==
    ASSUME IInv, ReportOK, NEW k \in Clients, ClientStep(k)
    PROVE  ReportOK'
  <1> USE DEF ReportOK, Reported, pollVars, workerVars
  <1>1. CASE createRequestRow(k) \/ InsertLost(k)
    <2>1. /\ Len(outbox) < MaxRows
          /\ checkout[k] \in Checkouts \cup {NoCheckout}
          /\ outbox' = Append(outbox, [checkout |-> checkout[k], status |-> "pending"])
          /\ UNCHANGED <<pollVars, workerVars>>
      BY <1>1 DEF createRequestRow, InsertLost, IInv, TypeOK
    <2>2. PICK new \in Ids \ Rows :
             /\ Rows' = Rows \cup {new}
             /\ \A i \in Rows : outbox'[i] = outbox[i]
             /\ outbox'[new].status = "pending"
      <3>1. outbox'[Len(outbox) + 1] = [checkout |-> checkout[k], status |-> "pending"]
        BY <2>1, AppendRow DEF IInv
      <3>2. QED
        BY <2>1, <3>1, AppendRow DEF IInv
    <2>3. /\ ~ Reported(new)
          /\ \A q \in Polls : new \notin page[q]
          /\ \A w \in Workers : new \notin todo[w]
      BY DEF IInv, TypeOK
    <2>4. QED
      BY <2>1, <2>2, <2>3
  <1>2. CASE UNCHANGED <<outbox, pollVars, workerVars>>
    BY <1>2
  <1>3. QED
    BY <1>1, <1>2 DEF ClientStep, Submit, ClaimCheckout, Duplicate, InsertFails,
                      ReleaseClaim, ClaimFails, ReleaseFails, CrashClient

LEMMA PollKeepsReports ==
    ASSUME IInv, ReportOK, ReportedIsClaimed, NEW q \in Polls, PollStep(q)
    PROVE  ReportOK'
  <1> USE DEF ReportOK, Reported
  <1>0. /\ page \in [Polls -> SUBSET Rows] /\ asker \in [Polls -> Workers \cup {Nobody}]
        /\ todo \in [Workers -> SUBSET Rows]
    BY DEF IInv, TypeOK
  <1>1. ASSUME NEW w \in Workers, Poll(w, q) PROVE ReportOK'
    <2>1. page[q] = {}
      BY <1>1 DEF Poll, IInv, PollOK
    <2>2. QED
      BY <1>0, <1>1, <2>1 DEF Poll, workerVars
  <1>2. CASE Find(q)
    <2>1. \A i \in OldestPending : ~ Reported(i)
      BY DEF OldestPending, Pending, ReportedIsClaimed
    <2>2. QED
      BY <1>0, <1>2, <2>1 DEF Find, workerVars
  <1>3. CASE ClaimPage(q)
    <2>1. /\ StatusChange
          /\ \A i \in Rows : outbox'[i].status =
                 IF i \in page[q] THEN "sending" ELSE outbox[i].status
      BY <1>3, ClaimPageStatuses DEF IInv
    <2>2. UNCHANGED <<page, asker, workerVars>>
      BY <1>3 DEF ClaimPage
    <2>3. QED
      BY <2>1, <2>2 DEF StatusChange, workerVars
  <1>4. CASE Respond(q) \/ CrashPoll(q)
    <2>1. /\ UNCHANGED <<outbox, reports>>
          /\ \A p \in Polls : IF p = q THEN asker'[p] = Nobody /\ page'[p] = {}
                              ELSE asker'[p] = asker[p] /\ page'[p] = page[p]
          /\ \A w \in Workers :
                 \/ todo'[w] = todo[w]
                 \/ asker[q] = w /\ todo'[w] = page[q]
      BY <1>0, <1>4 DEF Respond, CrashPoll, EndPoll
    <2>2. QED
      BY <2>1
  <1>5. QED
    BY <1>1, <1>2, <1>3, <1>4 DEF PollStep

\* What the worker sends next is reported for the first time, and while it has
\* something to send it waits for no poll.
LEMMA WorkerKeepsReports ==
    ASSUME OneWorker, IInv, SentOK, ReportOK, NEW w \in Workers, WorkerStep(w)
    PROVE  ReportOK'
  <1> USE DEF ReportOK, Reported
  <1>0. /\ asker \in [Polls -> Workers \cup {Nobody}]
        /\ todo \in [Workers -> SUBSET Rows]
    BY DEF IInv, TypeOK
  <1>1. ASSUME NEW i \in Rows, SendInvoice(w, i) \/ SendFails(w, i) PROVE ReportOK'
    <2>1. i \in todo[w] /\ ~ Reported(i)
      BY <1>1 DEF SendInvoice, SendFails
    <2>2. \A q \in Polls : asker[q] = Nobody
      BY <1>0, <2>1, SMTT(20) DEF SentOK, Waiting, OneWorker
    <2>3. /\ UNCHANGED <<outbox, asker, page>>
          /\ \A v \in Workers : v = w
          /\ todo'[w] = todo[w] \ {i}
          /\ \/ reports' = reports \cup {<<i, "sent">>}
             \/ reports' = reports \cup {<<i, "failed">>}
      BY <1>0, <1>1 DEF SendInvoice, SendFails, pollVars, OneWorker
    <2>4. QED
      BY <2>1, <2>2, <2>3
  <1>2. CASE Restart(w)
    BY <1>0, <1>2 DEF Restart
  <1>3. QED
    BY <1>1, <1>2 DEF WorkerStep

LEMMA NextReports ==
    OneWorker /\ IInv /\ SentOK /\ ReportedIsClaimed /\ ReportOK /\ [Next]_vars => ReportOK'
  <1> SUFFICES ASSUME OneWorker, IInv, SentOK, ReportedIsClaimed, ReportOK, [Next]_vars
               PROVE  ReportOK'
    OBVIOUS
  <1>1. ASSUME NEW i \in Rows, NEW status \in {"sent", "failed"}, Result(i, status)
        PROVE  ReportOK'
    <2>1. /\ StatusChange
          /\ outbox'[i].status = status
          /\ \A j \in Rows \ {i} : outbox'[j] = outbox[j]
      BY <1>1, ResultStatus DEF IInv
    <2>2. <<i, status>> \in reports /\ UNCHANGED <<pollVars, workerVars>>
      BY <1>1 DEF Result
    <2>3. QED
      BY <2>1, <2>2 DEF ReportOK, Reported, StatusChange, pollVars, workerVars
  <1>2. CASE UNCHANGED vars
    BY <1>2 DEF vars, pollVars, workerVars, ReportOK, Reported
  <1>3. QED
    BY <1>1, <1>2, RequestKeepsReports, PollKeepsReports, WorkerKeepsReports DEF Next

\* Step by step: the claim of a poll is all that reopens a sent row, and the poll
\* is one nobody waits for.
LEMMA WhatReopens ==
    ASSUME IInv, ReportOK, [Next]_vars, NEW i \in Rows,
           outbox[i].status = "sent", outbox'[i].status # "sent"
    PROVE  \E q \in Polls : ClaimPage(q) /\ i \in page[q] /\ asker[q] = Nobody
  <1>0. <<i, "sent">> \in reports /\ <<i, "failed">> \notin reports
    BY DEF ReportOK
  <1>1. ASSUME NEW k \in Clients, ClientStep(k) PROVE FALSE
    <2>1. CASE createRequestRow(k) \/ InsertLost(k)
      <3>1. /\ Len(outbox) < MaxRows
            /\ checkout[k] \in Checkouts \cup {NoCheckout}
            /\ outbox' = Append(outbox, [checkout |-> checkout[k], status |-> "pending"])
        BY <2>1 DEF createRequestRow, InsertLost, IInv, TypeOK
      <3>2. outbox'[i] = outbox[i]
        BY <3>1, AppendRow DEF IInv
      <3>3. QED
        BY <3>2
    <2>2. CASE UNCHANGED outbox
      BY <2>2
    <2>3. QED
      BY <1>1, <2>1, <2>2 DEF ClientStep, Submit, ClaimCheckout, Duplicate, InsertFails,
                              ReleaseClaim, ClaimFails, ReleaseFails, CrashClient
  <1>2. ASSUME NEW q \in Polls, PollStep(q)
        PROVE  ClaimPage(q) /\ i \in page[q] /\ asker[q] = Nobody
    <2>1. outbox' # outbox
      OBVIOUS
    <2>2. ClaimPage(q)
      BY <1>2, <2>1 DEF PollStep, Poll, Find, Respond, CrashPoll, EndPoll
    <2>3. i \in page[q]
      BY <2>2, ClaimPageStatuses DEF IInv
    <2>4. QED
      BY <1>0, <2>2, <2>3 DEF ReportOK, Reported
  <1>3. ASSUME NEW w \in Workers, WorkerStep(w) PROVE FALSE
    BY <1>3 DEF WorkerStep, SendInvoice, SendFails, Restart
  <1>4. ASSUME NEW j \in Rows, NEW status \in {"sent", "failed"}, Result(j, status)
        PROVE  FALSE
    <2>1. outbox'[j].status = status /\ \A r \in Rows \ {j} : outbox'[r] = outbox[r]
      BY <1>4, ResultStatus DEF IInv
    <2>2. j = i /\ status = "failed"
      BY <2>1
    <2>3. QED
      BY <1>0, <1>4, <2>2 DEF Result
  <1>5. CASE UNCHANGED vars
    BY <1>5 DEF vars
  <1>6. QED
    BY <1>1, <1>2, <1>3, <1>4, <1>5 DEF Next

\* Only a poll the worker has given up on reopens a sent row.
OnlyAbandonedPollsReopen ==
    [][\A i \in Rows : outbox[i].status = "sent" /\ outbox'[i].status # "sent" =>
           \E q \in Polls : ClaimPage(q) /\ i \in page[q] /\ asker[q] = Nobody]_vars

\* The invariants a single worker brings.
LEMMA WorkerInvariance == OneWorker => (Spec => [](IInv /\ SentOK /\ ReportedIsClaimed /\ ReportOK))
  <1> SUFFICES ASSUME OneWorker
               PROVE  Spec => [](IInv /\ SentOK /\ ReportedIsClaimed /\ ReportOK)
    OBVIOUS
  <1>1. Init => SentOK /\ ReportedIsClaimed /\ ReportOK
    BY DEF Init, SentOK, Waiting, ReportedIsClaimed, ReportOK, Reported
  <1>2. IInv /\ SentOK /\ ReportedIsClaimed /\ ReportOK /\ [Next]_vars =>
            SentOK' /\ ReportedIsClaimed' /\ ReportOK'
    BY NextSentOK, NextReportedIsClaimed, NextReports
  <1>3. QED
    BY <1>1, <1>2, Invariance, PTL DEF Spec

\* "'sent' is terminal" fails in one way only: of everything that overlaps with
\* kaspi/:id/result, it takes pending() claiming, by id, the page of a poll its
\* worker has given up on; a late, repeated or contradicting result never does it.
THEOREM SentReopens == OneWorker => (Spec => OnlyAbandonedPollsReopen)
  <1> SUFFICES ASSUME OneWorker PROVE Spec => OnlyAbandonedPollsReopen
    OBVIOUS
  <1>1. ASSUME IInv, ReportOK, [Next]_vars
        PROVE  [\A i \in Rows : outbox[i].status = "sent" /\ outbox'[i].status # "sent" =>
                   \E q \in Polls : ClaimPage(q) /\ i \in page[q] /\ asker[q] = Nobody]_vars
    BY <1>1, WhatReopens
  <1>2. QED
    BY <1>1, WorkerInvariance, PTL DEF Spec, OnlyAbandonedPollsReopen

Abandons == \E w \in Workers : Restart(w)

PollsAreAwaited == \A q \in Polls : qpc[q] # "idle" => asker[q] # Nobody

LEMMA NextAwaited ==
    IInv /\ PollsAreAwaited /\ [Next]_vars /\ [~ Abandons]_vars => PollsAreAwaited'
  <1> SUFFICES ASSUME IInv, PollsAreAwaited, [Next]_vars, [~ Abandons]_vars
               PROVE  PollsAreAwaited'
    OBVIOUS
  <1>0. /\ qpc \in [Polls -> {"idle", "find", "claim", "respond"}]
        /\ asker \in [Polls -> Workers \cup {Nobody}]
    BY DEF IInv, TypeOK
  <1>1. CASE UNCHANGED <<qpc, asker>>
    BY <1>1 DEF PollsAreAwaited
  <1>2. ASSUME NEW q \in Polls, PollStep(q) PROVE PollsAreAwaited'
    BY <1>0, <1>2 DEF PollsAreAwaited, PollStep, Poll, Find, ClaimPage, Respond, CrashPoll, EndPoll
  <1>3. CASE \E w \in Workers : Restart(w)
    <2>1. UNCHANGED vars
      BY <1>3 DEF Abandons
    <2>2. QED
      BY <1>1, <2>1 DEF vars, pollVars
  <1>4. QED
    BY <1>1, <1>2, <1>3
       DEF Next, ClientStep, Submit, ClaimCheckout, Duplicate, createRequestRow, InsertFails,
           InsertLost, ReleaseClaim, ClaimFails, ReleaseFails, CrashClient, WorkerStep,
           SendInvoice, SendFails, Result, vars, pollVars

\* The comment of result(), "'sent' is terminal", is true while the worker waits
\* for the answer of each of its polls.
THEOREM SentStays == OneWorker => (Spec /\ [][~ Abandons]_vars => SentIsTerminal)
  <1> SUFFICES ASSUME OneWorker PROVE Spec /\ [][~ Abandons]_vars => SentIsTerminal
    OBVIOUS
  <1>1. Init => PollsAreAwaited
    BY DEF Init, PollsAreAwaited
  <1>2. ASSUME IInv, ReportOK, PollsAreAwaited, [Next]_vars
        PROVE  [\A i \in Rows : outbox[i].status = "sent" => outbox'[i].status = "sent"]_vars
    <2> SUFFICES ASSUME NEW i \in Rows, outbox[i].status = "sent", outbox'[i].status # "sent"
                 PROVE  FALSE
      OBVIOUS
    <2>1. PICK q \in Polls : ClaimPage(q) /\ asker[q] = Nobody
      BY <1>2, WhatReopens
    <2>2. QED
      BY <1>2, <2>1 DEF ClaimPage, PollsAreAwaited
  <1>3. QED
    BY <1>1, <1>2, NextAwaited, WorkerInvariance, PTL DEF Spec, SentIsTerminal

-----------------------------------------------------------------------------
(* What 'duplicate' tells the app                                          *)

\* A claim has its row, or a request at work that holds it.
ClaimHasRow ==
    \A c \in claims : \/ \E i \in Rows : outbox[i].checkout = c
                     \/ \E k \in Clients : HoldsClaim(k) /\ checkout[k] = c

LEMMA NextClaimHasRow ==
    ASSUME Faults \subseteq {"insert", "lost"}
    PROVE  IInv /\ ClaimHasRow /\ [Next]_vars => ClaimHasRow'
  <1> SUFFICES ASSUME IInv, ClaimHasRow, [Next]_vars PROVE ClaimHasRow'
    OBVIOUS
  <1>0. /\ claims \subseteq Checkouts
        /\ cpc \in [Clients -> {"idle", "claim", "insert", "release"}]
        /\ checkout \in [Clients -> Checkouts \cup {NoCheckout}]
    BY DEF IInv, TypeOK
  <1>1. CASE /\ StatusChange \/ UNCHANGED outbox
             /\ UNCHANGED <<claims, clientVars>>
    BY <1>1 DEF ClaimHasRow, HoldsClaim, StatusChange, clientVars
  <1>2. ASSUME NEW k \in Clients, ClientStep(k) PROVE ClaimHasRow'
    <2> USE DEF ClaimHasRow, HoldsClaim, Finish
    <2>1. CASE createRequestRow(k) \/ InsertLost(k)
      <3>1. /\ Len(outbox) < MaxRows
            /\ outbox' = Append(outbox, [checkout |-> checkout[k], status |-> "pending"])
            /\ UNCHANGED claims
            /\ \A j \in Clients \ {k} : cpc'[j] = cpc[j] /\ checkout'[j] = checkout[j]
        BY <1>0, <2>1 DEF createRequestRow, InsertLost
      <3>2. PICK new \in Ids \ Rows :
               /\ Rows' = Rows \cup {new}
               /\ \A i \in Rows : outbox'[i] = outbox[i]
               /\ outbox'[new].checkout = checkout[k]
        <4>1. outbox'[Len(outbox) + 1] = [checkout |-> checkout[k], status |-> "pending"]
          BY <1>0, <3>1, AppendRow DEF IInv
        <4>2. QED
          BY <1>0, <3>1, <4>1, AppendRow DEF IInv
      <3>3. QED
        BY <1>0, <3>1, <3>2
    <2>2. CASE ClaimCheckout(k)
      BY <1>0, <2>2 DEF ClaimCheckout, IInv, ClientOK
    <2>3. CASE InsertFails(k)
      <3>1. /\ UNCHANGED <<claims, outbox>> /\ cpc[k] = "insert"
            /\ \A j \in Clients \ {k} : cpc'[j] = cpc[j] /\ checkout'[j] = checkout[j]
            /\ checkout[k] # NoCheckout => cpc'[k] = "release" /\ checkout'[k] = checkout[k]
        BY <1>0, <2>3 DEF InsertFails
      <3>2. QED
        BY <1>0, <3>1
    <2>4. CASE ReleaseClaim(k)
      <3>1. /\ UNCHANGED outbox /\ claims' = claims \ {checkout[k]}
            /\ \A j \in Clients \ {k} : cpc'[j] = cpc[j] /\ checkout'[j] = checkout[j]
        BY <1>0, <2>4 DEF ReleaseClaim
      <3>2. QED
        BY <1>0, <3>1
    <2>5. CASE Duplicate(k) \/ \E c \in Checkouts \cup {NoCheckout} : Submit(k, c)
      <3>1. /\ UNCHANGED <<claims, outbox>> /\ ~ HoldsClaim(k)
            /\ \A j \in Clients \ {k} : cpc'[j] = cpc[j] /\ checkout'[j] = checkout[j]
        BY <1>0, <2>5 DEF Duplicate, Submit
      <3>2. QED
        BY <1>0, <3>1
    <2>6. QED
      BY <1>2, <2>1, <2>2, <2>3, <2>4, <2>5 DEF ClientStep, ClaimFails, ReleaseFails, CrashClient
  <1>3. ASSUME NEW q \in Polls, PollStep(q) PROVE ClaimHasRow'
    <2>1. /\ StatusChange \/ UNCHANGED outbox
          /\ UNCHANGED <<claims, clientVars>>
      BY <1>3, ClaimPageStatuses
         DEF IInv, PollStep, Poll, Find, ClaimPage, Respond, CrashPoll, EndPoll
    <2>2. QED
      BY <1>1, <2>1
  <1>4. ASSUME NEW w \in Workers, WorkerStep(w) PROVE ClaimHasRow'
    BY <1>1, <1>4 DEF WorkerStep, SendInvoice, SendFails, Restart
  <1>5. ASSUME NEW i \in Rows, NEW status \in {"sent", "failed"}, Result(i, status)
        PROVE  ClaimHasRow'
    <2>1. StatusChange /\ UNCHANGED <<claims, clientVars>>
      BY <1>5, ResultStatus DEF IInv, Result
    <2>2. QED
      BY <1>1, <2>1
  <1>6. CASE UNCHANGED vars
    BY <1>1, <1>6 DEF vars
  <1>7. QED
    BY <1>2, <1>3, <1>4, <1>5, <1>6 DEF Next

\* An app that createPaymentRequest tells 'duplicate' has its request in the
\* outbox, or another call at work on it, as long as no instance dies and neither
\* query of the claim's own fails, the insert and the delete that releases it:
\* inserts of the row that fail or seem to fail leave no claim behind.
THEOREM ClaimsHaveRows == Faults \subseteq {"insert", "lost"} => (Spec => []ClaimHasRow)
  <1> SUFFICES ASSUME Faults \subseteq {"insert", "lost"} PROVE Spec => []ClaimHasRow
    OBVIOUS
  <1>1. Init => ClaimHasRow
    BY DEF Init, ClaimHasRow
  <1>2. IInv /\ ClaimHasRow /\ [Next]_vars => ClaimHasRow'
    BY NextClaimHasRow
  <1>3. QED
    BY <1>1, <1>2, Invariance, PTL DEF Spec
=============================================================================
