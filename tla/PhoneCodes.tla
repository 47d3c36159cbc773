------------------------------- MODULE PhoneCodes -------------------------------
(***************************************************************************)
(* How a customer proves a phone number: by the code of an SMS, or by      *)
(* calling a number the SMS provider names, which the provider then        *)
(* reports to POST /hooks/sms.  Requests overlap: a handler's step is the  *)
(* code up to its next await.                                              *)
(*                                                                         *)
(* A number is held with or without its '+': the code prefixes '+7',       *)
(* stores the number of a call without the '+', and looks for a call that  *)
(* is still pending with it, so none is ever found and every request       *)
(* orders another one.  One number is for tests: nothing is sent to it.    *)
(*                                                                         *)
(* What a proved phone is good for, register() and authCallWaitCode()'s    *)
(* session, is in Accounts.                                                *)
(***************************************************************************)
EXTENDS Naturals, Sequences, FiniteSets

CONSTANTS Numbers, TestNumber, TestCode,
          Codes,         \* what sendSmsCode may draw
          CodeRequests,  \* slots for requests being handled at one time
          MaxSmsCodes,   \* bound: codes stored
          MaxWaitCodes,  \* bound: calls ordered
          MaxCalls,      \* bound: calls a number's customer places
          MaxReports     \* bound: reports of a number's calls

ASSUME PhoneCodesAssumption ==
    /\ TestNumber \in Numbers /\ TestCode \in Codes /\ MaxSmsCodes \in Nat
    /\ MaxWaitCodes \in Nat /\ MaxCalls \in Nat /\ MaxReports \in Nat

VARIABLES smsCodes,    \* SmsRequestCode rows
          waitCodes,   \* CallWaitCode rows, oldest first
          codeRequest, \* what each request is doing
          sentCodes,   \* history: codes sent to each number
          calls,       \* history: calls placed from each number
          reports      \* history: reports of each number's calls

codeVars == <<smsCodes, waitCodes, codeRequest, sentCodes, calls, reports>>

NoRequest == [at |-> "idle"]

\* '+7...' and what replace('+', '') makes of it.
Plus(n) == [plus |-> TRUE, number |-> n]
Bare(n) == [plus |-> FALSE, number |-> n]

PhoneCodesTypeOK ==
    /\ smsCodes \in Seq([phone : Numbers, code : Codes, expired : BOOLEAN])
    /\ waitCodes \in Seq([userPhone : {Plus(n) : n \in Numbers} \cup {Bare(n) : n \in Numbers},
                          isConfirmed : BOOLEAN, expired : BOOLEAN])
    /\ codeRequest \in [CodeRequests -> {NoRequest}
           \cup [at : {"send", "store"}, phone : Numbers, code : Codes]
           \cup [at : {"order"}, phone : Numbers]
           \cup [at : {"confirm"}, row : DOMAIN waitCodes]]
    /\ sentCodes \in [Numbers -> SUBSET Codes]
    /\ calls \in [Numbers -> 0 .. MaxCalls]
    /\ reports \in [Numbers -> 0 .. MaxReports]

PhoneCodesInit ==
    /\ smsCodes = << >>
    /\ waitCodes = << >>
    /\ codeRequest = [q \in CodeRequests |-> NoRequest]
    /\ sentCodes = [n \in Numbers |-> {}]
    /\ calls = [n \in Numbers |-> 0]
    /\ reports = [n \in Numbers |-> 0]

Proceed(q, r) == codeRequest' = [codeRequest EXCEPT ![q] = r]
Idling(q) == codeRequest[q] = NoRequest

-----------------------------------------------------------------------------
(* Codes by SMS                                                            *)

\* POST /auth/request-code, up to sendSmsCode's call; earlier codes are only
\* counted for the log.
requestCode(q, n, c) ==
    /\ Idling(q)
    /\ n = TestNumber => c = TestCode
    /\ Proceed(q, [at |-> IF n = TestNumber THEN "store" ELSE "send",
                   phone |-> n, code |-> c])
    /\ UNCHANGED <<smsCodes, waitCodes, sentCodes, calls, reports>>

sendSmsCode(q) ==
    /\ codeRequest[q].at = "send"
    /\ sentCodes' = [sentCodes EXCEPT ![codeRequest[q].phone] = @ \cup {codeRequest[q].code}]
    /\ Proceed(q, [codeRequest[q] EXCEPT !.at = "store"])
    /\ UNCHANGED <<smsCodes, waitCodes, calls, reports>>

StoreCode(q) ==
    /\ codeRequest[q].at = "store"
    /\ Len(smsCodes) < MaxSmsCodes
    /\ smsCodes' = Append(smsCodes, [phone |-> codeRequest[q].phone,
                                     code |-> codeRequest[q].code, expired |-> FALSE])
    /\ Proceed(q, NoRequest)
    /\ UNCHANGED <<waitCodes, sentCodes, calls, reports>>

\* POST /auth/check-code: the code is one of the phone's and has not expired.
checkCode(n, c) ==
    \E i \in DOMAIN smsCodes :
        smsCodes[i].phone = n /\ smsCodes[i].code = c /\ ~smsCodes[i].expired

\* What register() and login() ask of a code: it is any phone's and has not
\* expired.
requireValidSmsCode(c) ==
    \E i \in DOMAIN smsCodes : smsCodes[i].code = c /\ ~smsCodes[i].expired

-----------------------------------------------------------------------------
(* Calls                                                                   *)

NewCall(n, isConfirmed) ==
    Append(waitCodes, [userPhone |-> Bare(n), isConfirmed |-> isConfirmed,
                       expired |-> FALSE])

\* sendWaitCode's findFirst, by the phone it was given.
PendingCalls(phone) ==
    {i \in DOMAIN waitCodes : /\ waitCodes[i].userPhone = phone
                              /\ ~waitCodes[i].isConfirmed /\ ~waitCodes[i].expired}

\* POST /auth/request-wait-code: the test number's call is confirmed at once,
\* a pending call is answered again, and else one is ordered.
requestWaitCode(q, n) ==
    /\ Idling(q)
    /\ Len(waitCodes) < MaxWaitCodes
    /\ IF n = TestNumber THEN waitCodes' = NewCall(n, TRUE) /\ UNCHANGED codeRequest
       ELSE /\ PendingCalls(Plus(n)) = {}
            /\ Proceed(q, [at |-> "order", phone |-> n])
            /\ UNCHANGED waitCodes
    /\ UNCHANGED <<smsCodes, sentCodes, calls, reports>>

\* The provider has named a number to call: the row is made.
CallOrdered(q) ==
    /\ codeRequest[q].at = "order"
    /\ Len(waitCodes) < MaxWaitCodes
    /\ waitCodes' = NewCall(codeRequest[q].phone, FALSE)
    /\ Proceed(q, NoRequest)
    /\ UNCHANGED <<smsCodes, sentCodes, calls, reports>>

\* A customer calls a number the provider named.
PlaceCall(n) ==
    /\ n # TestNumber
    /\ calls[n] < MaxCalls
    /\ calls' = [calls EXCEPT ![n] = @ + 1]
    /\ UNCHANGED <<smsCodes, waitCodes, codeRequest, sentCodes, reports>>

\* verifyWaitCode's findFirst, newest first.
Unconfirmed(phone) ==
    {i \in DOMAIN waitCodes : waitCodes[i].userPhone = phone /\ ~waitCodes[i].isConfirmed}

\* POST /hooks/sms: the provider reports a call, and may report the same one
\* again, which the handler cannot tell from another call's first report.
verifyWaitCode(q, n) ==
    LET rows == Unconfirmed(Bare(n))
    IN  /\ Idling(q)
        /\ calls[n] > 0
        /\ reports[n] < MaxReports
        /\ reports' = [reports EXCEPT ![n] = @ + 1]
        /\ IF rows = {} THEN UNCHANGED codeRequest
           ELSE Proceed(q, [at |-> "confirm",
                            row |-> CHOOSE i \in rows : \A j \in rows : j <= i])
        /\ UNCHANGED <<smsCodes, waitCodes, sentCodes, calls>>

\* Mutant: every pending row of the phone is confirmed.
ConfirmAll(i) ==
    [j \in DOMAIN waitCodes |->
        IF waitCodes[j].userPhone = waitCodes[i].userPhone
        THEN [waitCodes[j] EXCEPT !.isConfirmed = TRUE] ELSE waitCodes[j]]

\* The row found is confirmed, by its id.
Confirm(i) == [waitCodes EXCEPT ![i].isConfirmed = TRUE]

CallConfirmed(q) ==
    /\ codeRequest[q].at = "confirm"
    /\ waitCodes' = Confirm(codeRequest[q].row)
    /\ Proceed(q, NoRequest)
    /\ UNCHANGED <<smsCodes, sentCodes, calls, reports>>

\* POST /auth/check-wait-code: a row not confirmed is refused, an expired one
\* is not.
checkWaitCode(i, n) ==
    waitCodes[i].userPhone = Bare(n) /\ waitCodes[i].isConfirmed

\* The provider or a query fails, or the process dies.
RequestEnds(q) ==
    /\ ~Idling(q)
    /\ Proceed(q, NoRequest)
    /\ UNCHANGED <<smsCodes, waitCodes, sentCodes, calls, reports>>

\* A code is good for 2 minutes and a call for 15.
CodeExpires(i) ==
    /\ ~smsCodes[i].expired
    /\ smsCodes' = [smsCodes EXCEPT ![i].expired = TRUE]
    /\ UNCHANGED <<waitCodes, codeRequest, sentCodes, calls, reports>>

CallExpires(i) ==
    /\ ~waitCodes[i].expired
    /\ waitCodes' = [waitCodes EXCEPT ![i].expired = TRUE]
    /\ UNCHANGED <<smsCodes, codeRequest, sentCodes, calls, reports>>

PhoneCodesNext ==
    \/ \E q \in CodeRequests, n \in Numbers :
           \/ \E c \in Codes : requestCode(q, n, c)
           \/ requestWaitCode(q, n)
           \/ verifyWaitCode(q, n)
    \/ \E q \in CodeRequests :
           \/ sendSmsCode(q) \/ StoreCode(q)
           \/ CallOrdered(q) \/ CallConfirmed(q)
           \/ RequestEnds(q)
    \/ \E n \in Numbers : PlaceCall(n)
    \/ \E i \in DOMAIN waitCodes : CallExpires(i)
    \/ \E i \in DOMAIN smsCodes : CodeExpires(i)

PhoneCodesSpec == PhoneCodesInit /\ [][PhoneCodesNext]_codeVars

\* One of the phone's calls was certainly reported twice.
ReportedAgain(n) == reports[n] > calls[n]

ConfirmedCalls(n) == {i \in DOMAIN waitCodes : checkWaitCode(i, n)}

\* What each of the three checks proves, whatever requests and reports overlap,
\* repeat or fail: check-code, that the code was sent to that phone; the code that
\* register() and login() ask for, only that it was sent to some phone or is the
\* test number's; and a confirmed request, that its phone placed a call.  No more
\* requests of a phone are confirmed than it placed calls, unless one of them was
\* reported again: a repeated report may confirm a second request.
PhoneIsProved ==
    /\ \A c \in Codes \ {TestCode} :
           requireValidSmsCode(c) => \E n \in Numbers : c \in sentCodes[n]
    /\ \A n \in Numbers \ {TestNumber} :
           /\ \A c \in Codes : checkCode(n, c) => c \in sentCodes[n]
           /\ ConfirmedCalls(n) # {} => calls[n] > 0
           /\ Cardinality(ConfirmedCalls(n)) <= calls[n] \/ ReportedAgain(n)
=============================================================================
