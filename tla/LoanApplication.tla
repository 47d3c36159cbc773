----------------------------- MODULE LoanApplication -----------------------------
(***************************************************************************)
(* How a loan application is registered with AirbaPay: AirbapayService     *)
(* takes the amount from the shop's checkout, makes sure it has a token,   *)
(* asks for the payment partners and registers the order.  The token is    *)
(* one variable of the process that every request checks and may replace,  *)
(* and it is checked before the calls it is used for: it is taken to       *)
(* expire Margin ticks early.                                              *)
(*                                                                         *)
(* No call has a timeout, so a call may take any time, and every token and *)
(* every order keeps how late it is: the ticks its calls took.             *)
(*                                                                         *)
(* Not modelled: what is copied from the request's body, and the HTML of   *)
(* the pages a customer comes back to.                                     *)
(***************************************************************************)
EXTENDS Naturals

CONSTANTS Applications,  \* slots for requests being handled at one time
          Totals,        \* positive amounts a checkout may have
          Lifetime,      \* ticks AirbaPay honours a token
          FallbackLifetime, \* ticks it is taken to, without expiresIn: 3 hours
          Margin,        \* ticks it is taken to expire early: 60 seconds
          MaxLate,       \* bound: ticks the clock runs on while one call waits
          MaxLoanFaults  \* bound: answers without a token or without expiresIn

ASSUME LoanAssumption ==
    /\ 0 \notin Totals
    /\ Lifetime \in Nat /\ FallbackLifetime \in Nat /\ Margin \in Nat
    /\ MaxLate \in Nat /\ MaxLoanFaults \in Nat
    /\ Lifetime > Margin /\ FallbackLifetime > Margin

VARIABLES checkoutTotal, \* the shop's total of the checkout, 0 without one
          tokens,        \* the process's token
          application,   \* what each request is waiting for
          registered,    \* what AirbaPay got in the last step, if it got an order
          loanFaults

loanVars == <<checkoutTotal, tokens, application, registered, loanFaults>>

\* Ticks until the code takes the token to expire, and until AirbaPay does; the
\* ticks its answer took; and whether AirbaPay honours it for as long as the
\* lifetime the code read or, without an expiresIn, guessed.
TokenRecords == [obtained : BOOLEAN, expires : Nat, honoured : 0 .. Lifetime,
           late : Nat, lasting : BOOLEAN]
NoTokens == [obtained |-> FALSE, expires |-> 0, honoured |-> 0,
             late |-> 0, lasting |-> FALSE]
NoApplication == [at |-> "idle"]
NotRegistered == [done |-> FALSE]

\* A request: late counts the ticks since it asked for a token or, after that,
\* since it checked the one it uses; checked says that it did find that token
\* unexpired, and lasting.
LoanRequests == [at : {"total", "check", "authorize", "partners", "register"},
             total : Totals \cup {0}, late : Nat, token : 0 .. Lifetime,
             again : BOOLEAN, checked : BOOLEAN, seen : SUBSET (Totals \cup {0})]

LoanTypeOK ==
    /\ checkoutTotal \in Totals \cup {0}
    /\ tokens \in TokenRecords
    /\ \A a \in Applications :
           /\ application[a] \in {NoApplication} \cup LoanRequests
           /\ application[a].at = "register" => application[a].total \in Totals
    /\ registered \in {NotRegistered}
           \cup [done : {TRUE}, total : Totals, late : Nat, token : 0 .. Lifetime,
                 checked : BOOLEAN, seen : SUBSET (Totals \cup {0})]
    /\ loanFaults \in Nat

LoanInit ==
    /\ checkoutTotal \in Totals \cup {0}
    /\ tokens = NoTokens
    /\ application = [a \in Applications |-> NoApplication]
    /\ registered = NotRegistered
    /\ loanFaults = 0

EndApplication(a) == application' = [application EXCEPT ![a] = NoApplication]

\* preCreateOrder, up to getCheckoutTotal's call.
preCreateOrder(a) ==
    /\ application[a] = NoApplication
    /\ application' = [application EXCEPT ![a] =
           [at |-> "total", total |-> 0, late |-> 0, token |-> 0,
            again |-> FALSE, checked |-> FALSE, seen |-> {checkoutTotal}]]
    /\ registered' = NotRegistered
    /\ UNCHANGED <<checkoutTotal, tokens, loanFaults>>

\* A checkout without a total, or a request without a phone, is refused.
Accepted(total, hasMobile) == total # 0 /\ hasMobile

\* The shop's answer.
getCheckoutTotal(a, hasMobile) ==
    /\ application[a].at = "total"
    /\ IF ~Accepted(checkoutTotal, hasMobile) THEN EndApplication(a)
       ELSE application' = [application EXCEPT ![a].at = "check",
                                               ![a].total = checkoutTotal]
    /\ registered' = NotRegistered
    /\ UNCHANGED <<checkoutTotal, tokens, loanFaults>>

\* GET /airbapay/payment-partners: getPaymentPartners alone, with its one
\* authorize and no order after it.
paymentPartners(a) ==
    /\ application[a] = NoApplication
    /\ application' = [application EXCEPT ![a] =
           [at |-> "check", total |-> 0, late |-> 0, token |-> 0,
            again |-> TRUE, checked |-> FALSE, seen |-> {}]]
    /\ registered' = NotRegistered
    /\ UNCHANGED <<checkoutTotal, tokens, loanFaults>>

\* tokenExpired.
TokenExpired == ~tokens.obtained \/ tokens.expires = 0

\* authorize(), which preCreateOrder and getPaymentPartners both call: a token
\* is asked for, or the partners are asked for with the one there is.
Authorize(a) ==
    /\ application[a].at = "check"
    /\ application' = [application EXCEPT
           ![a].at = IF TokenExpired THEN "authorize" ELSE "partners",
           ![a].late = 0,
           ![a].token = IF TokenExpired THEN Lifetime ELSE tokens.honoured,
           ![a].checked = ~TokenExpired /\ tokens.lasting]
    /\ registered' = NotRegistered
    /\ UNCHANGED <<checkoutTotal, tokens, loanFaults>>

\* Mutant: the token is used until it is taken to expire at AirbaPay.
NoMargin(expiresIn) == expiresIn

\* expiresAt, from the time of the answer.
ExpiresAt(expiresIn) == expiresIn - Margin

\* AirbaPay's answer, expiresIn being read from it or guessed: the token's time
\* at AirbaPay runs from when it was made.
TokenAnswer(a, expiresIn) ==
    /\ application[a].at = "authorize"
    /\ tokens' = [obtained |-> TRUE, expires |-> ExpiresAt(expiresIn),
                  honoured |-> application[a].token, late |-> application[a].late,
                  lasting |-> expiresIn <= Lifetime]
    /\ application' = [application EXCEPT ![a].at = "check", ![a].late = 0,
                                          ![a].token = 0]
    /\ registered' = NotRegistered
    /\ UNCHANGED checkoutTotal

Authorized(a) == TokenAnswer(a, Lifetime) /\ UNCHANGED loanFaults

\* An answer with a token and no expiresIn.
AuthorizedWithoutExpiry(a) ==
    /\ loanFaults < MaxLoanFaults
    /\ loanFaults' = loanFaults + 1
    /\ TokenAnswer(a, FallbackLifetime)

\* An answer without a token leaves the old one in place.  The second authorize
\* asks once more; after that the old one is used, or there is none: null.
AnsweredWithoutToken(a) ==
    /\ application[a].at = "authorize"
    /\ loanFaults < MaxLoanFaults
    /\ loanFaults' = loanFaults + 1
    /\ IF ~application[a].again
       THEN application' = [application EXCEPT ![a].at = "check", ![a].again = TRUE]
       ELSE IF ~tokens.obtained THEN EndApplication(a)
       ELSE application' = [application EXCEPT ![a].at = "partners", ![a].late = 0,
                                               ![a].token = tokens.honoured]
    /\ registered' = NotRegistered
    /\ UNCHANGED <<checkoutTotal, tokens>>

\* getPaymentPartners is answered: the order is registered with the token there
\* is now, which another request may have replaced by one that came late itself.
PartnersAnswered(a) ==
    /\ application[a].at = "partners"
    /\ IF application[a].total = 0 THEN EndApplication(a)
       ELSE application' = [application EXCEPT ![a].at = "register",
                                          ![a].late = @ + tokens.late,
                                          ![a].token = tokens.honoured]
    /\ registered' = NotRegistered
    /\ UNCHANGED <<checkoutTotal, tokens, loanFaults>>

\* AirbaPay gets the order.
Register(a) ==
    /\ application[a].at = "register"
    /\ registered' = [done |-> TRUE, total |-> application[a].total,
                      late |-> application[a].late, token |-> application[a].token,
                      checked |-> application[a].checked, seen |-> application[a].seen]
    /\ EndApplication(a)
    /\ UNCHANGED <<checkoutTotal, tokens, loanFaults>>

\* A call fails: null is answered.
CallFails(a) ==
    /\ application[a].at # "idle"
    /\ EndApplication(a)
    /\ registered' = NotRegistered
    /\ UNCHANGED <<checkoutTotal, tokens, loanFaults>>

\* The customer changes the checkout.
ChangeCheckout(t) ==
    /\ checkoutTotal' = t
    /\ application' = [a \in Applications |->
           IF application[a].at = "total" THEN [application[a] EXCEPT !.seen = @ \cup {t}]
           ELSE application[a]]
    /\ registered' = NotRegistered
    /\ UNCHANGED <<tokens, loanFaults>>

Waiting(a) == application[a].at \in {"authorize", "partners", "register"}

OneLess(n) == IF n = 0 THEN 0 ELSE n - 1

\* Time passes, however long the calls have waited already; what is ready to
\* run, runs.
LoanTick ==
    /\ \A a \in Applications :
           /\ application[a].at # "check"
           /\ Waiting(a) => application[a].late < MaxLate
    /\ tokens' = [tokens EXCEPT !.expires = OneLess(@), !.honoured = OneLess(@)]
    /\ application' = [a \in Applications |->
           IF ~Waiting(a) THEN application[a]
           ELSE [application[a] EXCEPT !.late = @ + 1, !.token = OneLess(@)]]
    /\ registered' = NotRegistered
    /\ UNCHANGED <<checkoutTotal, loanFaults>>

\* The process restarts without a token.
LoanRestart ==
    /\ tokens' = NoTokens
    /\ application' = [a \in Applications |-> NoApplication]
    /\ registered' = NotRegistered
    /\ UNCHANGED <<checkoutTotal, loanFaults>>

LoanNext ==
    \/ \E a \in Applications :
           \/ preCreateOrder(a) \/ paymentPartners(a)
           \/ \E hasMobile \in BOOLEAN : getCheckoutTotal(a, hasMobile)
           \/ Authorize(a) \/ Authorized(a) \/ AuthorizedWithoutExpiry(a)
           \/ AnsweredWithoutToken(a)
           \/ PartnersAnswered(a) \/ Register(a) \/ CallFails(a)
    \/ \E t \in Totals \cup {0} : ChangeCheckout(t)
    \/ LoanTick
    \/ LoanRestart

LoanSpec == LoanInit /\ [][LoanNext]_loanVars

\* An application AirbaPay gets is for an amount the checkout had while the
\* request was handled.  When the calls it depends on took no longer than the
\* margin together - the answer with the token it carries, whichever request
\* asked for it, and what came after the check - AirbaPay still honours that
\* token.  A request whose check failed, and that goes on with the expired token
\* for want of another, is excepted, and so is one that relied on a guessed
\* lifetime longer than AirbaPay's.
RegistersInTime ==
    registered.done =>
        /\ registered.total \in registered.seen
        /\ registered.checked /\ registered.late <= Margin => registered.token > 0
=============================================================================
