-------------------------------- MODULE Outbox --------------------------------
(***************************************************************************)
(* What the outbox of Kaspi invoices promises: it is a queue.  A request   *)
(* joins it at the end, requests are handed out from its front, a page of  *)
(* them at a time and each once, and an invoice is sent once, after its    *)
(* request was handed out.  Nothing is handed back.                        *)
(***************************************************************************)
EXTENDS Naturals, FiniteSets

CONSTANTS MaxRows, PageSize

VARIABLES phase,   \* of the request at each place of the queue
          sends    \* how often its invoice was sent

Places == 1 .. MaxRows
Queued == {i \in Places : phase[i] = "queued"}

Init ==
    /\ phase = [i \in Places |-> "free"]
    /\ sends = [i \in Places |-> 0]

Join(i) ==
    /\ phase[i] = "free"
    /\ \A j \in Places : j < i => phase[j] # "free"
    /\ phase' = [phase EXCEPT ![i] = "queued"]
    /\ UNCHANGED sends

HandOut(front) ==
    /\ front # {}
    /\ Cardinality(front) <= PageSize
    /\ \A i \in front, j \in Queued : j < i => j \in front
    /\ phase' = [i \in Places |-> IF i \in front THEN "handed" ELSE phase[i]]
    /\ UNCHANGED sends

Send(i) ==
    /\ phase[i] = "handed"
    /\ sends[i] = 0
    /\ sends' = [sends EXCEPT ![i] = 1]
    /\ UNCHANGED phase

Next ==
    \/ \E i \in Places : Join(i) \/ Send(i)
    \/ \E front \in SUBSET Queued : HandOut(front)

Spec == Init /\ [][Next]_<<phase, sends>>
=============================================================================
