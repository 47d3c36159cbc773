------------------------- MODULE LoanApplication_proofs -------------------------
(***************************************************************************)
(* Why a token that is taken to expire Margin ticks early is good for      *)
(* calls that take Margin ticks together: a token's time and its lateness  *)
(* add up to what the code takes it to have and the margin, from the       *)
(* answer with the token to the order AirbaPay gets, for any number of     *)
(* requests that share the token and calls of any length.                  *)
(***************************************************************************)
EXTENDS LoanApplication, TLAPS

USE LoanAssumption

Stages == {"total", "check", "authorize", "partners", "register"}
Lifetimes == 0 .. Lifetime

\* What a request has made sure of where it is.
RequestOK(a) ==
    /\ application[a] = NoApplication \/ application[a] \in LoanRequests
    /\ application[a].at = "total" => checkoutTotal \in application[a].seen
    /\ application[a].at \in {"check", "authorize", "partners", "register"} =>
           application[a].total = 0 \/ application[a].total \in application[a].seen
    /\ application[a].at = "authorize" =>
           application[a].token + application[a].late >= Lifetime /\ ~application[a].checked
    /\ application[a].at = "partners" /\ application[a].checked =>
           tokens.honoured + tokens.late + application[a].late > Margin
    /\ application[a].at = "register" =>
           /\ application[a].total # 0
           /\ application[a].checked => application[a].token + application[a].late > Margin

TokensOK ==
    /\ tokens \in TokenRecords
    /\ tokens.expires > 0 /\ tokens.lasting =>
           tokens.honoured + tokens.late >= tokens.expires + Margin

RegisteredOK ==
    \/ registered = NotRegistered
    \/ /\ registered \in [done : {TRUE}, total : Totals, late : Nat, token : Lifetimes,
                          checked : BOOLEAN, seen : SUBSET (Totals \cup {0})]
       /\ registered.total \in registered.seen
       /\ registered.checked => registered.token + registered.late > Margin

LInv ==
    /\ checkoutTotal \in Totals \cup {0}
    /\ loanFaults \in Nat
    /\ DOMAIN application = Applications /\ application = [a \in Applications |-> application[a]]
    /\ TokensOK
    /\ \A a \in Applications : RequestOK(a)
    /\ RegisteredOK

LEMMA InitLInv == LoanInit => LInv
  <1> SUFFICES ASSUME LoanInit PROVE LInv
    OBVIOUS
  <1>1. tokens \in TokenRecords /\ tokens.expires = 0
    BY DEF LoanInit, NoTokens, TokenRecords
  <1>2. QED
    BY <1>1 DEF LoanInit, LInv, TokensOK, RequestOK, NoApplication, RegisteredOK

\* A request that takes no step is left what it relies on, if the token is
\* replaced by a new one only.
LEMMA OtherRequest ==
    ASSUME LInv, NEW b \in Applications, application'[b] = application[b],
           checkoutTotal' = checkoutTotal,
           tokens' = tokens \/ tokens'.honoured + tokens'.late >= Lifetime,
           tokens' \in TokenRecords
    PROVE  RequestOK(b)'
  <1>1. RequestOK(b) /\ tokens \in TokenRecords
    BY DEF LInv, TokensOK
  <1>2. /\ tokens.honoured \in Nat /\ tokens'.honoured \in Nat
        /\ tokens.late \in Nat /\ tokens'.late \in Nat
    BY <1>1 DEF TokenRecords
  <1>3. application[b].at = "partners" => application[b].late \in Nat
    BY <1>1 DEF RequestOK, LoanRequests, NoApplication
  <1>4. application[b].at = "partners" /\ application[b].checked =>
            tokens'.honoured + tokens'.late + application[b].late > Margin
    BY <1>1, <1>2, <1>3 DEF RequestOK
  <1>5. QED
    BY <1>1, <1>4 DEF RequestOK

\* One request moves on to r; the token is as it was, or new.
LEMMA MoveKeepsLInv ==
    ASSUME LInv, NEW a \in Applications, NEW r,
           application' = [application EXCEPT ![a] = r],
           RequestOK(a)', TokensOK', RegisteredOK',
           checkoutTotal' = checkoutTotal, loanFaults' \in Nat,
           tokens' = tokens \/ tokens'.honoured + tokens'.late >= Lifetime
    PROVE  LInv'
  <1>1. \A b \in Applications \ {a} : application'[b] = application[b]
    BY DEF LInv
  <1>2. DOMAIN application' = Applications
        /\ application' = [b \in Applications |-> application'[b]]
    BY DEF LInv
  <1>3. \A b \in Applications : RequestOK(b)'
    BY <1>1, OtherRequest DEF TokensOK
  <1>4. QED
    BY <1>2, <1>3 DEF LInv

\* The steps that leave the checkout, the token and the faults alone.
LEMMA QuietMove ==
    ASSUME LInv, NEW a \in Applications, NEW r,
           application' = [application EXCEPT ![a] = r],
           RequestOK(a)', RegisteredOK',
           UNCHANGED <<checkoutTotal, tokens, loanFaults>>
    PROVE  LInv'
  <1>1. TokensOK' /\ loanFaults' \in Nat
    BY DEF LInv, TokensOK
  <1>2. QED
    BY <1>1, MoveKeepsLInv

LEMMA EndKeepsLInv ==
    ASSUME LInv, NEW a \in Applications, EndApplication(a), RegisteredOK',
           UNCHANGED <<checkoutTotal, tokens, loanFaults>>
    PROVE  LInv'
  <1>1. application'[a] = NoApplication
    BY DEF LInv, EndApplication
  <1>2. RequestOK(a)'
    BY <1>1 DEF RequestOK, NoApplication
  <1>3. QED
    BY <1>2, QuietMove DEF EndApplication

\* A request's call is made, with a token.
Called(q, at, late, token, checked) ==
    [q EXCEPT !.at = at, !.late = late, !.token = token, !.checked = checked]

LEMMA CalledIsRequest ==
    ASSUME NEW q \in LoanRequests, NEW at \in Stages, NEW late \in Nat,
           NEW token \in Lifetimes, NEW checked \in BOOLEAN
    PROVE  LET r == Called(q, at, late, token, checked)
           IN  /\ r \in LoanRequests /\ r.at = at /\ r.late = late /\ r.token = token
               /\ r.checked = checked /\ r.total = q.total /\ r.seen = q.seen
  BY DEF Called, LoanRequests, Stages, Lifetimes

-----------------------------------------------------------------------------
(* The steps of one request                                                *)

LEMMA StartKeepsLInv ==
    ASSUME LInv, NEW a \in Applications, preCreateOrder(a) \/ paymentPartners(a)
    PROVE  LInv'
  <1>1. /\ UNCHANGED <<checkoutTotal, tokens, loanFaults>> /\ RegisteredOK'
        /\ checkoutTotal \in Totals \cup {0}
    BY DEF preCreateOrder, paymentPartners, RegisteredOK, LInv
  <1>2. \E r \in LoanRequests :
            /\ application' = [application EXCEPT ![a] = r]
            /\ \/ r.at = "total" /\ checkoutTotal \in r.seen
               \/ r.at = "check" /\ r.total = 0
    <2>1. CASE preCreateOrder(a)
      <3> DEFINE r == [at |-> "total", total |-> 0, late |-> 0, token |-> 0,
                       again |-> FALSE, checked |-> FALSE, seen |-> {checkoutTotal}]
      <3>1. r \in LoanRequests /\ r.at = "total" /\ checkoutTotal \in r.seen
        BY <1>1 DEF LoanRequests, Stages, Lifetimes
      <3>2. QED
        BY <2>1, <3>1 DEF preCreateOrder
    <2>2. CASE paymentPartners(a)
      <3> DEFINE r == [at |-> "check", total |-> 0, late |-> 0, token |-> 0,
                       again |-> TRUE, checked |-> FALSE, seen |-> {}]
      <3>1. r \in LoanRequests /\ r.at = "check" /\ r.total = 0
        BY DEF LoanRequests, Stages, Lifetimes
      <3>2. QED
        BY <2>2, <3>1 DEF paymentPartners
    <2>3. QED
      BY <2>1, <2>2
  <1>3. PICK r \in LoanRequests :
            /\ application' = [application EXCEPT ![a] = r]
            /\ \/ r.at = "total" /\ checkoutTotal \in r.seen
               \/ r.at = "check" /\ r.total = 0
    BY <1>2
  <1>4. application'[a] = r
    BY <1>3 DEF LInv
  <1>5. RequestOK(a)'
    BY <1>1, <1>3, <1>4 DEF RequestOK
  <1>6. QED
    BY <1>1, <1>3, <1>5, QuietMove

LEMMA TotalKeepsLInv ==
    ASSUME LInv, NEW a \in Applications, NEW m \in BOOLEAN, getCheckoutTotal(a, m)
    PROVE  LInv'
  <1>1. /\ UNCHANGED <<checkoutTotal, tokens, loanFaults>> /\ RegisteredOK'
        /\ application[a].at = "total" /\ checkoutTotal \in Totals \cup {0}
    BY DEF getCheckoutTotal, RegisteredOK, LInv
  <1>2. application[a] \in LoanRequests /\ checkoutTotal \in application[a].seen
    BY <1>1 DEF LInv, RequestOK, NoApplication
  <1>3. CASE Accepted(checkoutTotal, m)
    <2> DEFINE r == [application[a] EXCEPT !.at = "check", !.total = checkoutTotal]
    <2>1. application' = [application EXCEPT ![a] = r]
      BY <1>2, <1>3 DEF getCheckoutTotal, LInv, LoanRequests
    <2>2. /\ r \in LoanRequests /\ r.at = "check" /\ r.total = checkoutTotal
          /\ r.seen = application[a].seen
      BY <1>1, <1>2 DEF LoanRequests
    <2>3. application'[a] = r
      BY <2>1 DEF LInv
    <2> HIDE DEF r
    <2>4. RequestOK(a)'
      BY <1>2, <2>2, <2>3 DEF RequestOK
    <2>5. QED
      BY <1>1, <2>1, <2>4, QuietMove
  <1>4. CASE ~Accepted(checkoutTotal, m)
    BY <1>1, <1>4, EndKeepsLInv DEF getCheckoutTotal
  <1>5. QED
    BY <1>3, <1>4

\* A token not taken to be expired has more than the margin left, less its
\* lateness.
LEMMA AuthorizeKeepsLInv ==
    ASSUME LInv, NEW a \in Applications, Authorize(a)
    PROVE  LInv'
  <1> DEFINE at == IF TokenExpired THEN "authorize" ELSE "partners"
             token == IF TokenExpired THEN Lifetime ELSE tokens.honoured
             checked == ~TokenExpired /\ tokens.lasting
             r == Called(application[a], at, 0, token, checked)
  <1>1. /\ UNCHANGED <<checkoutTotal, tokens, loanFaults>> /\ RegisteredOK'
        /\ application[a].at = "check"
    BY DEF Authorize, RegisteredOK
  <1>2. /\ application[a] \in LoanRequests
        /\ application[a].total = 0 \/ application[a].total \in application[a].seen
    BY <1>1 DEF LInv, RequestOK, NoApplication
  <1>3. application' = [application EXCEPT ![a] = r]
    BY <1>2 DEF Authorize, LInv, Called, LoanRequests
  <1>4. token \in Lifetimes /\ at \in Stages /\ checked \in BOOLEAN
    BY DEF Stages, LInv, TokensOK, TokenRecords, Lifetimes
  <1>5. at = "authorize" => token = Lifetime /\ ~checked
    OBVIOUS
  <1>6. at = "partners" /\ checked => tokens.honoured + tokens.late > Margin
    BY DEF TokenExpired, LInv, TokensOK, TokenRecords
  <1>7. at \in {"authorize", "partners"}
    OBVIOUS
  <1> HIDE DEF at, token, checked
  <1>8. /\ r \in LoanRequests /\ r.at = at /\ r.late = 0 /\ r.token = token
        /\ r.checked = checked
        /\ r.total = application[a].total /\ r.seen = application[a].seen
    BY <1>2, <1>4, CalledIsRequest
  <1>9. application'[a] = r
    BY <1>3 DEF LInv
  <1> HIDE DEF r
  <1>10. tokens.honoured \in Nat /\ tokens.late \in Nat
    BY DEF LInv, TokensOK, TokenRecords
  <1>11. r.at = "authorize" => r.token + r.late >= Lifetime /\ ~r.checked
    BY <1>5, <1>8
  <1>12. r.at = "partners" /\ r.checked => tokens.honoured + tokens.late + r.late > Margin
    BY <1>6, <1>8, <1>10
  <1>13. RequestOK(a)'
    BY <1>1, <1>2, <1>7, <1>8, <1>9, <1>11, <1>12 DEF RequestOK
  <1>14. QED
    BY <1>1, <1>3, <1>13, QuietMove

\* The answer brings a token of Lifetime less the call's time, taken to expire
\* Margin early.
LEMMA AnswerKeepsLInv ==
    ASSUME LInv, NEW a \in Applications, NEW expiresIn \in {Lifetime, FallbackLifetime},
           TokenAnswer(a, expiresIn), loanFaults' \in Nat
    PROVE  LInv'
  <1> DEFINE r == [application[a] EXCEPT !.at = "check", !.late = 0, !.token = 0]
  <1>1. /\ UNCHANGED checkoutTotal /\ RegisteredOK'
        /\ application[a].at = "authorize"
        /\ tokens' = [obtained |-> TRUE, expires |-> ExpiresAt(expiresIn),
                      honoured |-> application[a].token, late |-> application[a].late,
                      lasting |-> expiresIn <= Lifetime]
    BY DEF TokenAnswer, RegisteredOK
  <1>2. /\ application[a] \in LoanRequests
        /\ application[a].total = 0 \/ application[a].total \in application[a].seen
        /\ application[a].token + application[a].late >= Lifetime
    BY <1>1 DEF LInv, RequestOK, NoApplication
  <1>3. /\ application[a].token \in Lifetimes /\ application[a].late \in Nat
        /\ ExpiresAt(expiresIn) \in Nat /\ ExpiresAt(expiresIn) + Margin = expiresIn
        /\ expiresIn \in Nat
    BY <1>2 DEF LoanRequests, Lifetimes, ExpiresAt
  <1>4. /\ tokens'.honoured + tokens'.late >= Lifetime
        /\ tokens'.lasting => tokens'.honoured + tokens'.late >= tokens'.expires + Margin
    <2>1. /\ tokens'.honoured = application[a].token /\ tokens'.late = application[a].late
          /\ tokens'.expires = ExpiresAt(expiresIn) /\ tokens'.lasting = (expiresIn <= Lifetime)
      BY <1>1
    <2>2. application[a].token + application[a].late \in Nat /\ Lifetime \in Nat
      BY <1>3 DEF Lifetimes
    <2>3. expiresIn <= Lifetime => application[a].token + application[a].late >= expiresIn
      BY <1>2, <1>3, <2>2
    <2>4. QED
      BY <1>2, <1>3, <2>1, <2>3
  <1>5. tokens' \in TokenRecords
    BY <1>1, <1>3 DEF TokenRecords, Lifetimes
  <1>6. TokensOK'
    BY <1>4, <1>5 DEF TokensOK
  <1>7. application' = [application EXCEPT ![a] = r]
    BY <1>2 DEF TokenAnswer, LInv, LoanRequests
  <1>8. /\ r \in LoanRequests /\ r.at = "check"
        /\ r.total = application[a].total /\ r.seen = application[a].seen
    <2>1. 0 \in 0 .. Lifetime /\ 0 \in Nat
      OBVIOUS
    <2>2. QED
      BY <1>2, <2>1 DEF LoanRequests
  <1>9. application'[a] = r
    BY <1>7 DEF LInv
  <1> HIDE DEF r
  <1>10. RequestOK(a)'
    BY <1>2, <1>8, <1>9 DEF RequestOK
  <1>11. QED
    BY <1>1, <1>4, <1>6, <1>7, <1>10, MoveKeepsLInv

LEMMA AuthorizedKeepsLInv ==
    ASSUME LInv, NEW a \in Applications, Authorized(a) \/ AuthorizedWithoutExpiry(a)
    PROVE  LInv'
  <1>1. loanFaults' \in Nat
    BY DEF Authorized, AuthorizedWithoutExpiry, LInv
  <1>2. QED
    BY <1>1, AnswerKeepsLInv DEF Authorized, AuthorizedWithoutExpiry

LEMMA NoTokenKeepsLInv ==
    ASSUME LInv, NEW a \in Applications, AnsweredWithoutToken(a)
    PROVE  LInv'
  <1>1. /\ UNCHANGED <<checkoutTotal, tokens>> /\ RegisteredOK' /\ TokensOK'
        /\ application[a].at = "authorize" /\ loanFaults' \in Nat
    BY DEF AnsweredWithoutToken, RegisteredOK, LInv, TokensOK
  <1>2. /\ application[a] \in LoanRequests
        /\ application[a].total = 0 \/ application[a].total \in application[a].seen
        /\ ~application[a].checked
    BY <1>1 DEF LInv, RequestOK, NoApplication
  <1>3. tokens.honoured \in Lifetimes /\ "partners" \in Stages
    BY DEF Stages, LInv, TokensOK, TokenRecords, Lifetimes
  <1>4. \E r \in LoanRequests \cup {NoApplication} :
            /\ application' = [application EXCEPT ![a] = r]
            /\ r = NoApplication \/ r.at = "check" \/ (r.at = "partners" /\ ~r.checked)
            /\ r # NoApplication =>
                   r.total = application[a].total /\ r.seen = application[a].seen
    <2>1. CASE ~application[a].again
      <3> DEFINE r == [application[a] EXCEPT !.at = "check", !.again = TRUE]
      <3>1. application' = [application EXCEPT ![a] = r]
        BY <1>2, <2>1 DEF AnsweredWithoutToken, LInv, LoanRequests
      <3>2. /\ r \in LoanRequests /\ r.at = "check"
            /\ r.total = application[a].total /\ r.seen = application[a].seen
        BY <1>2 DEF LoanRequests
      <3>3. QED
        BY <3>1, <3>2
    <2>2. CASE application[a].again /\ ~tokens.obtained
      BY <2>2 DEF AnsweredWithoutToken, EndApplication
    <2>3. CASE application[a].again /\ tokens.obtained
      <3> DEFINE r == [application[a] EXCEPT !.at = "partners", !.late = 0,
                                             !.token = tokens.honoured]
      <3>1. application' = [application EXCEPT ![a] = r]
        BY <1>2, <2>3 DEF AnsweredWithoutToken, LInv, LoanRequests
      <3>2. /\ r \in LoanRequests /\ r.at = "partners" /\ ~r.checked
            /\ r.total = application[a].total /\ r.seen = application[a].seen
        BY <1>2, <1>3 DEF LoanRequests, Lifetimes
      <3>3. QED
        BY <3>1, <3>2
    <2>4. QED
      BY <2>1, <2>2, <2>3
  <1>5. PICK r \in LoanRequests \cup {NoApplication} :
            /\ application' = [application EXCEPT ![a] = r]
            /\ r = NoApplication \/ r.at = "check" \/ (r.at = "partners" /\ ~r.checked)
            /\ r # NoApplication =>
                   r.total = application[a].total /\ r.seen = application[a].seen
    BY <1>4
  <1>6. application'[a] = r
    BY <1>5 DEF LInv
  <1>7. RequestOK(a)'
    <2>1. CASE r = NoApplication
      BY <1>6, <2>1 DEF RequestOK, NoApplication
    <2>2. CASE r # NoApplication
      BY <1>1, <1>2, <1>5, <1>6, <2>2 DEF RequestOK
    <2>3. QED
      BY <2>1, <2>2
  <1>8. QED
    BY <1>1, <1>5, <1>7, MoveKeepsLInv

\* The order is registered with the token there is: it has lost no more than its
\* lateness and the time since the check.
LEMMA PartnersKeepLInv ==
    ASSUME LInv, NEW a \in Applications, PartnersAnswered(a)
    PROVE  LInv'
  <1>1. /\ UNCHANGED <<checkoutTotal, tokens, loanFaults>> /\ RegisteredOK'
        /\ application[a].at = "partners"
    BY DEF PartnersAnswered, RegisteredOK
  <1>2. /\ application[a] \in LoanRequests
        /\ application[a].total = 0 \/ application[a].total \in application[a].seen
        /\ application[a].checked =>
               tokens.honoured + tokens.late + application[a].late > Margin
    BY <1>1 DEF LInv, RequestOK, NoApplication
  <1>3. CASE application[a].total = 0
    BY <1>1, <1>3, EndKeepsLInv DEF PartnersAnswered
  <1>4. CASE application[a].total # 0
    <2> DEFINE token == tokens.honoured
               late == application[a].late + tokens.late
               r == Called(application[a], "register", late, token, application[a].checked)
    <2>1. application' = [application EXCEPT ![a] = r]
      <3> DEFINE q == [application[a] EXCEPT !.at = "register", !.late = late,
                                             !.token = token]
      <3>1. r = q
        BY <1>2 DEF Called, LoanRequests
      <3>2. application' = [application EXCEPT ![a] = q]
        BY <1>2, <1>4 DEF PartnersAnswered, LInv, LoanRequests
      <3>3. QED
        BY <3>1, <3>2
    <2>2. /\ token \in Lifetimes /\ "register" \in Stages
          /\ application[a].late \in Nat /\ tokens.late \in Nat /\ late \in Nat
          /\ application[a].checked \in BOOLEAN
      BY <1>2 DEF Stages, LInv, TokensOK, TokenRecords, LoanRequests, Lifetimes
    <2>3. application[a].checked => token + late > Margin
      BY <1>2, <2>2 DEF Lifetimes
    <2> HIDE DEF token, late
    <2>4. /\ r \in LoanRequests /\ r.at = "register" /\ r.late = late /\ r.token = token
          /\ r.checked = application[a].checked
          /\ r.total = application[a].total /\ r.seen = application[a].seen
      BY <1>2, <2>2, CalledIsRequest
    <2>5. application'[a] = r
      BY <2>1 DEF LInv
    <2> HIDE DEF r
    <2>6. RequestOK(a)'
      BY <1>1, <1>2, <1>4, <2>2, <2>3, <2>4, <2>5 DEF RequestOK, Lifetimes
    <2>7. QED
      BY <1>1, <2>1, <2>6, QuietMove
  <1>5. QED
    BY <1>3, <1>4

LEMMA RegisterKeepsLInv ==
    ASSUME LInv, NEW a \in Applications, Register(a)
    PROVE  LInv'
  <1>1. /\ UNCHANGED <<checkoutTotal, tokens, loanFaults>>
        /\ application[a].at = "register" /\ EndApplication(a)
        /\ registered' = [done |-> TRUE, total |-> application[a].total,
                          late |-> application[a].late, token |-> application[a].token,
                          checked |-> application[a].checked,
                          seen |-> application[a].seen]
    BY DEF Register
  <1>2. /\ application[a] \in LoanRequests /\ application[a].total # 0
        /\ application[a].total = 0 \/ application[a].total \in application[a].seen
        /\ application[a].checked => application[a].token + application[a].late > Margin
    BY <1>1 DEF LInv, RequestOK, NoApplication
  <1>3. /\ application[a].total \in Totals /\ application[a].token \in Lifetimes
        /\ application[a].late \in Nat /\ application[a].checked \in BOOLEAN
        /\ application[a].seen \in SUBSET (Totals \cup {0})
    BY <1>2 DEF LoanRequests, Lifetimes
  <1>4. RegisteredOK'
    BY <1>1, <1>2, <1>3 DEF RegisteredOK
  <1>5. QED
    BY <1>1, <1>4, EndKeepsLInv

LEMMA FailKeepsLInv ==
    ASSUME LInv, NEW a \in Applications, CallFails(a)
    PROVE  LInv'
  BY EndKeepsLInv DEF CallFails, RegisteredOK

-----------------------------------------------------------------------------
(* The steps of the customer, of time and of the process                   *)

LEMMA ChangeKeepsLInv ==
    ASSUME LInv, NEW t \in Totals \cup {0}, ChangeCheckout(t)
    PROVE  LInv'
  <1>1. /\ checkoutTotal' = t /\ UNCHANGED <<tokens, loanFaults>> /\ RegisteredOK' /\ TokensOK'
        /\ DOMAIN application' = Applications
        /\ application' = [a \in Applications |-> application'[a]]
        /\ \A a \in Applications :
               application'[a] = IF application[a].at = "total"
                                 THEN [application[a] EXCEPT !.seen = @ \cup {t}]
                                 ELSE application[a]
    BY DEF ChangeCheckout, RegisteredOK, LInv, TokensOK
  <1>2. ASSUME NEW a \in Applications PROVE RequestOK(a)'
    <2>1. CASE application[a].at = "total"
      <3> DEFINE r == [application[a] EXCEPT !.seen = @ \cup {t}]
      <3>1. application[a] \in LoanRequests
        BY <2>1 DEF LInv, RequestOK, NoApplication
      <3>2. r \in LoanRequests /\ r.at = "total" /\ t \in r.seen
        BY <2>1, <3>1 DEF LoanRequests
      <3>3. application'[a] = r
        BY <1>1, <2>1
      <3> HIDE DEF r
      <3>4. QED
        BY <1>1, <3>2, <3>3 DEF RequestOK
    <2>2. CASE application[a].at # "total"
      BY <1>1, <2>2 DEF LInv, RequestOK
    <2>3. QED
      BY <2>1, <2>2
  <1>3. QED
    BY <1>1, <1>2 DEF LInv

\* A tick takes one from the token, at most, and adds one to how late every call
\* is.
LEMMA TickKeepsLInv ==
    ASSUME LInv, LoanTick
    PROVE  LInv'
  <1>1. /\ UNCHANGED <<checkoutTotal, loanFaults>> /\ RegisteredOK'
        /\ DOMAIN application' = Applications
        /\ application' = [a \in Applications |-> application'[a]]
        /\ \A a \in Applications :
               application'[a] =
                   IF ~Waiting(a) THEN application[a]
                   ELSE [application[a] EXCEPT !.late = @ + 1, !.token = OneLess(@)]
    BY DEF LoanTick, RegisteredOK, LInv
  <1>2. /\ tokens \in TokenRecords /\ tokens.expires \in Nat /\ tokens.honoured \in Lifetimes
        /\ tokens.late \in Nat
    BY DEF LInv, TokensOK, TokenRecords, Lifetimes
  <1>3. /\ \A n \in Lifetimes : OneLess(n) \in Lifetimes
        /\ \A n \in Nat : OneLess(n) \in Nat /\ OneLess(n) + 1 >= n
                          /\ (n > 0 => OneLess(n) + 1 = n)
    BY DEF Lifetimes, OneLess
  <1>4. /\ tokens' \in TokenRecords
        /\ tokens'.expires = OneLess(tokens.expires)
        /\ tokens'.honoured = OneLess(tokens.honoured)
        /\ tokens'.late = tokens.late /\ tokens'.lasting = tokens.lasting
    BY <1>2, <1>3 DEF LoanTick, TokenRecords, Lifetimes
  <1>5. TokensOK'
    <2>1. ASSUME tokens'.expires > 0, tokens'.lasting
          PROVE  tokens'.honoured + tokens'.late >= tokens'.expires + Margin
      <3>1. tokens.expires > 0
        BY <1>2, <1>4, <2>1 DEF OneLess
      <3>2. tokens.honoured + tokens.late >= tokens.expires + Margin
        BY <1>4, <2>1, <3>1 DEF LInv, TokensOK
      <3>3. /\ tokens'.expires + 1 = tokens.expires
            /\ tokens'.honoured + 1 >= tokens.honoured
            /\ tokens'.honoured \in Nat /\ tokens'.expires \in Nat
        BY <1>2, <1>3, <1>4, <3>1 DEF Lifetimes
      <3>4. QED
        BY <1>2, <1>4, <3>2, <3>3 DEF Lifetimes
    <2>2. QED
      BY <1>4, <2>1 DEF TokensOK
  <1>6. ASSUME NEW a \in Applications PROVE RequestOK(a)'
    <2>1. CASE ~Waiting(a)
      BY <1>1, <2>1 DEF LInv, RequestOK, Waiting
    <2>2. CASE Waiting(a)
      <3> DEFINE w == application[a].late + 1
                 t == OneLess(application[a].token)
                 r == [application[a] EXCEPT !.late = w, !.token = t]
      <3>1. application[a] \in LoanRequests /\ application[a].at \in {"authorize", "partners", "register"}
        BY <2>2 DEF Waiting, LInv, RequestOK, NoApplication
      <3>2. application[a].late \in Nat /\ application[a].token \in Lifetimes
        BY <3>1 DEF LoanRequests, Lifetimes
      <3>3. w \in Nat /\ w = application[a].late + 1 /\ t \in Lifetimes
        BY <1>3, <3>2
      <3>4. application'[a] = r
        BY <1>1, <2>2
      <3>5. t + 1 >= application[a].token
        BY <1>3, <3>2 DEF Lifetimes
      <3> HIDE DEF w, t
      <3>6. /\ r \in LoanRequests /\ r.late = w /\ r.token = t
            /\ r.at = application[a].at /\ r.total = application[a].total
            /\ r.checked = application[a].checked /\ r.seen = application[a].seen
        BY <3>1, <3>3 DEF LoanRequests, Lifetimes
      <3> HIDE DEF r
      <3>7. RequestOK(a)
        BY DEF LInv
      <3>8. r.token + r.late >= application[a].token + application[a].late
            /\ r.token \in Nat /\ r.late \in Nat
            /\ application[a].token \in Nat
        BY <3>2, <3>3, <3>5, <3>6 DEF Lifetimes
      <3>9. r.at = "authorize" => r.token + r.late >= Lifetime /\ ~r.checked
        BY <3>2, <3>6, <3>7, <3>8 DEF RequestOK
      <3>10. r.at = "partners" /\ r.checked =>
                 tokens'.honoured + tokens'.late + r.late > Margin
        <4>1. CASE r.at = "partners" /\ r.checked
          <5>1. tokens.honoured + tokens.late + application[a].late > Margin
            BY <3>6, <3>7, <4>1 DEF RequestOK
          <5>2. tokens'.honoured \in Nat /\ tokens'.honoured + 1 >= tokens.honoured
            BY <1>2, <1>3, <1>4 DEF Lifetimes
          <5>3. QED
            BY <1>2, <1>4, <3>2, <3>3, <3>6, <5>1, <5>2 DEF Lifetimes
        <4>2. QED
          BY <4>1
      <3>11. r.at = "register" =>
                 r.total # 0 /\ (r.checked => r.token + r.late > Margin)
        BY <3>2, <3>6, <3>7, <3>8 DEF RequestOK
      <3>12. QED
        BY <1>1, <3>1, <3>4, <3>6, <3>7, <3>9, <3>10, <3>11 DEF RequestOK
    <2>3. QED
      BY <2>1, <2>2
  <1>7. QED
    BY <1>1, <1>5, <1>6 DEF LInv

LEMMA RestartKeepsLInv ==
    ASSUME LInv, LoanRestart
    PROVE  LInv'
  <1>1. tokens' \in TokenRecords /\ tokens'.expires = 0
    BY DEF LoanRestart, NoTokens, TokenRecords
  <1>2. QED
    BY <1>1 DEF LoanRestart, LInv, TokensOK, RequestOK, NoApplication, RegisteredOK

LEMMA LoanNextLInv ==
    ASSUME LInv, [LoanNext]_loanVars PROVE LInv'
  <1>1. CASE UNCHANGED loanVars
    BY <1>1 DEF loanVars, LInv, TokensOK, RequestOK, RegisteredOK
  <1>2. ASSUME NEW a \in Applications,
               \/ preCreateOrder(a) \/ paymentPartners(a)
               \/ \E m \in BOOLEAN : getCheckoutTotal(a, m)
               \/ Authorize(a) \/ Authorized(a) \/ AuthorizedWithoutExpiry(a)
               \/ AnsweredWithoutToken(a)
               \/ PartnersAnswered(a) \/ Register(a) \/ CallFails(a)
        PROVE  LInv'
    BY <1>2, StartKeepsLInv, TotalKeepsLInv, AuthorizeKeepsLInv, AuthorizedKeepsLInv,
       NoTokenKeepsLInv, PartnersKeepLInv, RegisterKeepsLInv, FailKeepsLInv
  <1>3. QED
    BY <1>1, <1>2, ChangeKeepsLInv, TickKeepsLInv, RestartKeepsLInv DEF LoanNext

LEMMA LoanInvariance == LoanSpec => []LInv
  <1>1. LInv /\ [LoanNext]_loanVars => LInv'
    BY LoanNextLInv
  <1>2. QED
    BY <1>1, InitLInv, PTL DEF LoanSpec

-----------------------------------------------------------------------------
(* Theorems                                                                *)

\* Every variable of the application's requests keeps its type: in particular no
\* order is registered without an amount.
THEOREM LoanTypeCorrect == LoanSpec => []LoanTypeOK
  <1>1. LInv => LoanTypeOK
    <2> SUFFICES ASSUME LInv PROVE LoanTypeOK
      OBVIOUS
    <2>1. registered \in {NotRegistered}
              \cup [done : {TRUE}, total : Totals, late : Nat, token : 0 .. Lifetime,
                    checked : BOOLEAN, seen : SUBSET (Totals \cup {0})]
      BY DEF LInv, RegisteredOK, Lifetimes
    <2>2. ASSUME NEW a \in Applications
          PROVE  /\ application[a] \in {NoApplication} \cup LoanRequests
                 /\ application[a].at = "register" => application[a].total \in Totals
      BY DEF LInv, RequestOK, LoanRequests, NoApplication
    <2>3. QED
      BY <2>1, <2>2 DEF LInv, TokensOK, LoanTypeOK
  <1>2. QED
    BY <1>1, LoanInvariance, PTL

\* preCreateOrder: with any number of requests sharing the token and calls of any
\* length, AirbaPay gets no order for an amount the checkout did not have
\* meanwhile, nor one with a token it no longer honours when the answer with that
\* token, the call for the partners and the order's own call took no longer than
\* the margin together - however long the other requests' calls took.
THEOREM RegisteredInTime == LoanSpec => []RegistersInTime
  <1>1. LInv => RegistersInTime
    <2> SUFFICES ASSUME LInv PROVE RegistersInTime
      OBVIOUS
    <2>1. CASE registered = NotRegistered
      <3>1. registered.done = FALSE
        BY <2>1 DEF NotRegistered
      <3>2. QED
        BY <3>1 DEF RegistersInTime
    <2>2. CASE registered # NotRegistered
      <3>1. /\ registered \in [done : {TRUE}, total : Totals, late : Nat,
                               token : Lifetimes, checked : BOOLEAN,
                               seen : SUBSET (Totals \cup {0})]
            /\ registered.total \in registered.seen
            /\ registered.checked => registered.token + registered.late > Margin
        BY <2>2 DEF LInv, RegisteredOK
      <3>2. registered.checked /\ registered.late <= Margin => registered.token > 0
        BY <3>1 DEF Lifetimes
      <3>3. QED
        BY <3>1, <3>2 DEF RegistersInTime
    <2>3. QED
      BY <2>1, <2>2
  <1>2. QED
    BY <1>1, LoanInvariance, PTL
=============================================================================
