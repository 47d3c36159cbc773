------------------------------ MODULE GeoEstimates ------------------------------
(***************************************************************************)
(* What delivery by taxi costs: GeoService's estimates, the shipping hook  *)
(* of the checkout and the /delivery endpoints that ask for them.          *)
(*                                                                         *)
(* An estimate passes three stores on its way to a cart: the               *)
(* DeliveryEstimate table (a row is used for 15 minutes after it was       *)
(* created), the process's cache of estimates by address and phone (15     *)
(* minutes) and the hook's cache of answers (5 minutes).  Each store       *)
(* counts its own time, from when it was written.  A tick is 5 minutes:    *)
(* database queries take no time; the geocoder and the taxi service may    *)
(* take any.  An entry is still used at the very end of its time.          *)
(*                                                                         *)
(* Not modelled: what the map service says of an address apart from its    *)
(* first point, and the weather and the currency rates, which are reads.   *)
(***************************************************************************)
EXTENDS Naturals, FiniteSets

CONSTANTS Addresses,     \* what customers write as their street
          Phones,
          Places,        \* points on the map
          NoPlace,
          PlaceOf,       \* the first point the geocoder finds for an address
          Queries,       \* slots for requests being handled at one time
          FreshFor,      \* ticks a DeliveryEstimate row is used
          CacheFor,      \* ticks an estimate is cached
          ShippingFor,   \* ticks an answer of the hook is cached
          MaxOffers      \* bound: estimates the taxi service makes

ASSUME GeoAssumption ==
    /\ NoPlace \notin Places
    /\ PlaceOf \in [Addresses -> Places \cup {NoPlace}]
    /\ FreshFor \in Nat /\ CacheFor \in Nat /\ ShippingFor \in Nat
    /\ MaxOffers \in Nat

VARIABLES offers,    \* DeliveryEstimate rows
          estimates, \* nodeCache 'geo-ya-taxi-est:<address>:<phone>'
          shipping,  \* nodeCache 'geo-ya-shipping-est:<address>:<phone>'
          query,     \* what each request is waiting for
          answer     \* the price the hook gave in the last step, if any

geoVars == <<offers, estimates, shipping, query, answer>>

Carts == [address : Addresses, phone : Phones]

\* The oldest an estimate may be when a cart is shown its price.
MaxAge == FreshFor + CacheFor + ShippingFor

\* Older rows are alike.
Ages == 0 .. MaxAge + 1
Estimates == [to : Places, phone : Phones, priced : BOOLEAN, age : Ages]
NoQuery == [at |-> "idle"]
NoAnswer == [shown |-> FALSE]

GeoTypeOK ==
    /\ \A i \in DOMAIN offers : offers[i] \in Estimates
    /\ DOMAIN offers = 1 .. Cardinality(DOMAIN offers)
    /\ DOMAIN estimates \subseteq Carts
    /\ \A c \in DOMAIN estimates :
           estimates[c] \in [value : Estimates, left : 0 .. CacheFor]
    /\ DOMAIN shipping \subseteq Carts
    /\ \A c \in DOMAIN shipping :
           shipping[c] \in [value : Estimates, left : 0 .. ShippingFor]
    /\ query \in [Queries -> {NoQuery}
           \cup [at : {"geocode"}, for : {"hook", "api"}, cart : Carts]
           \cup [at : {"quote"}, for : {"hook", "api"}, cart : Carts]
           \cup [at : {"quote"}, for : {"route"}, to : Places, phone : Phones]]
    /\ answer \in {NoAnswer} \cup [shown : {TRUE}, cart : Carts, value : Estimates]

GeoInit ==
    /\ offers = << >>
    /\ estimates = << >>
    /\ shipping = << >>
    /\ query = [q \in Queries |-> NoQuery]
    /\ answer = NoAnswer

\* Mutant: the time to live is given in milliseconds.
PutMilliseconds(cache, k, e, ttl) ==
    [j \in DOMAIN cache \cup {k} |->
        IF j = k THEN [value |-> e, left |-> 300000 * ttl] ELSE cache[j]]

\* nodeCache.set and the passing of a tick over a cache.
Put(cache, k, e, ttl) ==
    [j \in DOMAIN cache \cup {k} |->
        IF j = k THEN [value |-> e, left |-> ttl] ELSE cache[j]]
Older(e) == [e EXCEPT !.age = IF @ <= MaxAge THEN @ + 1 ELSE @]
Aged(cache) ==
    [k \in {j \in DOMAIN cache : cache[j].left > 0} |->
        [value |-> Older(cache[k].value), left |-> cache[k].left - 1]]

\* Mutant: the condition on createdAt is dropped.
ReusableEver(to, phone) ==
    {i \in DOMAIN offers : offers[i].to = to /\ offers[i].phone = phone}

\* estimateDelivery's findFirst: the rows it may answer with.
Reusable(to, phone) ==
    {i \in DOMAIN offers :
        /\ offers[i].to = to /\ offers[i].phone = phone
        /\ offers[i].age <= FreshFor}

Answered(q) == query' = [query EXCEPT ![q] = NoQuery]

\* shippingMethods turns an estimate into its answer; without a price the
\* list is empty and nothing is cached.
Offer(c, e) ==
    IF e.priced
    THEN /\ answer' = [shown |-> TRUE, cart |-> c, value |-> e]
         /\ shipping' = Put(shipping, c, e, ShippingFor)
    ELSE /\ answer' = NoAnswer
         /\ UNCHANGED shipping

\* The caller of estimateDeliveryByAddressQuery goes on with the estimate.
Return(for, c, e) ==
    IF for = "hook" THEN Offer(c, e)
    ELSE answer' = NoAnswer /\ UNCHANGED shipping

\* estimateDeliveryByAddressQuery caches the estimate it was given.
Deliver(q, e) ==
    /\ IF query[q].for = "route"
       THEN answer' = NoAnswer /\ UNCHANGED <<estimates, shipping>>
       ELSE /\ estimates' = Put(estimates, query[q].cart, e, CacheFor)
            /\ Return(query[q].for, query[q].cart, e)
    /\ Answered(q)

GiveUp(q) ==
    /\ Answered(q)
    /\ answer' = NoAnswer
    /\ UNCHANGED <<offers, estimates, shipping>>

\* shippingMethods, answered from its own cache.
CachedShipping(c) ==
    /\ c \in DOMAIN shipping
    /\ answer' = [shown |-> TRUE, cart |-> c, value |-> shipping[c].value]
    /\ UNCHANGED <<offers, estimates, shipping, query>>

\* shippingMethods and POST /delivery/estimate-by-address, up to the geocoder.
ByAddress(q, for, c) ==
    /\ query[q] = NoQuery
    /\ for = "hook" => c \notin DOMAIN shipping
    /\ IF c \in DOMAIN estimates
       THEN Return(for, c, estimates[c].value) /\ UNCHANGED <<offers, estimates, query>>
       ELSE /\ query' = [query EXCEPT ![q] = [at |-> "geocode", for |-> for, cart |-> c]]
            /\ answer' = NoAnswer
            /\ UNCHANGED <<offers, estimates, shipping>>

\* POST /delivery/estimate names the point itself: no cache is in between.
ByRoute(q, to, phone) ==
    /\ query[q] = NoQuery
    /\ Reusable(to, phone) = {}
    /\ query' = [query EXCEPT ![q] =
           [at |-> "quote", for |-> "route", to |-> to, phone |-> phone]]
    /\ answer' = NoAnswer
    /\ UNCHANGED <<offers, estimates, shipping>>

\* The geocoder answers: a row still fresh is used, or the taxi is asked.
Located(q) ==
    /\ query[q].at = "geocode"
    /\ LET to == PlaceOf[query[q].cart.address]
           found == Reusable(to, query[q].cart.phone)
       IN  /\ to # NoPlace
           /\ \/ \E i \in found : Deliver(q, offers[i]) /\ UNCHANGED offers
              \/ /\ found = {}
                 /\ query' = [query EXCEPT ![q].at = "quote"]
                 /\ answer' = NoAnswer
                 /\ UNCHANGED <<offers, estimates, shipping>>

\* The address is not found, or the geocoder failed.
NotLocated(q) == query[q].at = "geocode" /\ GiveUp(q)

Target(q) ==
    IF query[q].for = "route" THEN query[q].to ELSE PlaceOf[query[q].cart.address]
Caller(q) ==
    IF query[q].for = "route" THEN query[q].phone ELSE query[q].cart.phone

\* The taxi service makes an offer, with or without a price: it is stored.
Quoted(q, priced) ==
    /\ query[q].at = "quote"
    /\ Cardinality(DOMAIN offers) < MaxOffers
    /\ LET e == [to |-> Target(q), phone |-> Caller(q), priced |-> priced, age |-> 0]
       IN  /\ offers' = [i \in 1 .. Cardinality(DOMAIN offers) + 1 |->
                             IF i \in DOMAIN offers THEN offers[i] ELSE e]
           /\ Deliver(q, e)

\* No offer, an error of the service or of the insert: null.
NotQuoted(q) == query[q].at = "quote" /\ GiveUp(q)

Tick ==
    /\ offers' = [i \in DOMAIN offers |-> Older(offers[i])]
    /\ estimates' = Aged(estimates)
    /\ shipping' = Aged(shipping)
    /\ answer' = NoAnswer
    /\ UNCHANGED query

\* The process restarts: the rows stay.
GeoRestart ==
    /\ estimates' = << >>
    /\ shipping' = << >>
    /\ query' = [q \in Queries |-> NoQuery]
    /\ answer' = NoAnswer
    /\ UNCHANGED offers

GeoNext ==
    \/ \E c \in Carts : CachedShipping(c)
    \/ \E q \in Queries, for \in {"hook", "api"}, c \in Carts : ByAddress(q, for, c)
    \/ \E q \in Queries, to \in Places, phone \in Phones : ByRoute(q, to, phone)
    \/ \E q \in Queries :
           Located(q) \/ NotLocated(q) \/ NotQuoted(q)
               \/ \E priced \in BOOLEAN : Quoted(q, priced)
    \/ Tick
    \/ GeoRestart

GeoSpec == GeoInit /\ [][GeoNext]_geoVars

\* A price shown at the checkout was estimated for the cart's own address and
\* phone, and however the three stores' times fall behind one another it is
\* never older than the sum of them, 35 minutes.
PriceShownIsCurrent ==
    answer.shown =>
        /\ answer.value.to = PlaceOf[answer.cart.address]
        /\ answer.value.phone = answer.cart.phone
        /\ answer.value.age <= MaxAge
=============================================================================
