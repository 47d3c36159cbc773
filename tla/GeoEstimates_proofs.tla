-------------------------- MODULE GeoEstimates_proofs --------------------------
(***************************************************************************)
(* Proofs about the delivery estimates, for any addresses, phones, map and *)
(* times to live.  An estimate in a cache of CacheFor ticks, put there     *)
(* while its row was fresh, has age + left <= FreshFor + CacheFor: a tick  *)
(* adds to one what it takes from the other.  The hook's cache adds its    *)
(* own time to that sum.                                                   *)
(***************************************************************************)
EXTENDS GeoEstimates, FiniteSetTheorems, TLAPS

\* An estimate made for a cart.
EstimateFor(c, e) == e.to = PlaceOf[c.address] /\ e.phone = c.phone

OffersOK ==
    /\ \A i \in DOMAIN offers : offers[i] \in Estimates
    /\ DOMAIN offers = 1 .. Cardinality(DOMAIN offers)
    /\ Cardinality(DOMAIN offers) \in Nat

\* What a cache of `ttl' ticks may hold, when what is put there is at most
\* `oldest' ticks old.
CacheOK(cache, oldest, ttl) ==
    /\ DOMAIN cache \subseteq Carts
    /\ \A c \in DOMAIN cache :
           /\ cache[c] \in [value : Estimates, left : 0 .. ttl]
           /\ EstimateFor(c, cache[c].value)
           /\ cache[c].value.age + cache[c].left <= oldest + ttl

QueryTypes ==
    {NoQuery}
        \cup [at : {"geocode"}, for : {"hook", "api"}, cart : Carts]
        \cup [at : {"quote"}, for : {"hook", "api"}, cart : Carts]
        \cup [at : {"quote"}, for : {"route"}, to : Places, phone : Phones]

\* The taxi is asked only for an address that was found.
QueryOK(x) ==
    /\ x \in QueryTypes
    /\ x.at = "quote" /\ x.for # "route" => PlaceOf[x.cart.address] # NoPlace

QueriesOK == query \in [Queries -> QueryTypes] /\ \A q \in Queries : QueryOK(query[q])

AnswerOK == answer \in {NoAnswer} \cup [shown : {TRUE}, cart : Carts, value : Estimates]

GInv ==
    /\ OffersOK
    /\ CacheOK(estimates, FreshFor, CacheFor)
    /\ CacheOK(shipping, FreshFor + CacheFor, ShippingFor)
    /\ QueriesOK
    /\ AnswerOK
    /\ PriceShownIsCurrent

-----------------------------------------------------------------------------
(* The caches                                                              *)

\* A tick makes an estimate a tick older, and nothing else.
LEMMA OlderEstimate ==
    ASSUME NEW e \in Estimates
    PROVE  /\ Older(e) \in Estimates
           /\ Older(e).to = e.to /\ Older(e).phone = e.phone
           /\ e.age <= MaxAge => Older(e).age = e.age + 1
  BY GeoAssumption DEF Older, Estimates, Ages, MaxAge

\* nodeCache.set keeps a cache in order when what it stores is young enough.
LEMMA PutOK ==
    ASSUME NEW cache, NEW oldest \in Nat, NEW ttl \in Nat, CacheOK(cache, oldest, ttl),
           NEW c \in Carts, NEW e \in Estimates, EstimateFor(c, e), e.age <= oldest
    PROVE  CacheOK(Put(cache, c, e, ttl), oldest, ttl)
  <1> DEFINE P == Put(cache, c, e, ttl)
  <1>1. DOMAIN P = DOMAIN cache \cup {c} /\ DOMAIN P \subseteq Carts
    BY DEF Put, CacheOK
  <1>2. P[c] = [value |-> e, left |-> ttl]
    BY DEF Put
  <1>3. \A j \in DOMAIN P : j # c => j \in DOMAIN cache /\ P[j] = cache[j]
    BY DEF Put
  <1>4. e.age \in Nat
    BY GeoAssumption DEF Estimates, Ages, MaxAge
  <1>5. /\ P[c] \in [value : Estimates, left : 0 .. ttl]
        /\ EstimateFor(c, P[c].value)
        /\ P[c].value.age + P[c].left <= oldest + ttl
    BY <1>2, <1>4
  <1> HIDE DEF P
  <1>6. QED
    BY <1>1, <1>3, <1>5 DEF CacheOK, P

\* A tick drops what has no time left and keeps the sum of age and time left.
LEMMA AgedOK ==
    ASSUME NEW cache, NEW oldest \in Nat, NEW ttl \in Nat, CacheOK(cache, oldest, ttl),
           oldest + ttl <= MaxAge
    PROVE  CacheOK(Aged(cache), oldest, ttl)
  <1> DEFINE A == Aged(cache)
  <1>1. DOMAIN A = {j \in DOMAIN cache : cache[j].left > 0}
    BY DEF Aged
  <1>2. \A k \in DOMAIN A :
            A[k] = [value |-> Older(cache[k].value), left |-> cache[k].left - 1]
    BY DEF Aged
  <1> HIDE DEF A
  <1>3. ASSUME NEW k \in DOMAIN A
        PROVE  /\ A[k] \in [value : Estimates, left : 0 .. ttl]
               /\ EstimateFor(k, A[k].value)
               /\ A[k].value.age + A[k].left <= oldest + ttl
    <2> DEFINE e == cache[k].value
               l == cache[k].left
    <2>1. k \in DOMAIN cache /\ l > 0
      BY <1>1
    <2>2. /\ cache[k] \in [value : Estimates, left : 0 .. ttl]
          /\ EstimateFor(k, e) /\ e.age + l <= oldest + ttl
      BY <2>1 DEF CacheOK
    <2>3. e \in Estimates /\ l \in 0 .. ttl
      BY <2>2
    <2>4. e.age \in Nat /\ MaxAge \in Nat
      BY <2>3, GeoAssumption DEF Estimates, Ages, MaxAge
    <2>5. A[k].value = Older(e) /\ A[k].left = l - 1
          /\ A[k] = [value |-> Older(e), left |-> l - 1]
      BY <1>2
    <2> HIDE DEF e, l
    <2>6. e.age <= MaxAge
      BY <2>1, <2>2, <2>3, <2>4
    <2>7. /\ Older(e) \in Estimates
          /\ Older(e).to = e.to /\ Older(e).phone = e.phone
          /\ Older(e).age = e.age + 1
      BY <2>3, <2>6, OlderEstimate
    <2>8. l - 1 \in 0 .. ttl
      BY <2>1, <2>3
    <2>9. A[k] \in [value : Estimates, left : 0 .. ttl]
      BY <2>5, <2>7, <2>8
    <2>10. EstimateFor(k, A[k].value)
      BY <2>2, <2>5, <2>7 DEF EstimateFor
    <2>11. A[k].value.age + A[k].left <= oldest + ttl
      BY <2>2, <2>3, <2>4, <2>5, <2>7
    <2>12. QED
      BY <2>9, <2>10, <2>11
  <1>4. DOMAIN A \subseteq Carts
    BY <1>1 DEF CacheOK
  <1>5. QED
    BY <1>3, <1>4 DEF CacheOK, A

\* What a cache gives is of the cart asked for and not older than allowed.
LEMMA CachedOK ==
    ASSUME NEW cache, NEW oldest \in Nat, NEW ttl \in Nat, CacheOK(cache, oldest, ttl),
           NEW c \in DOMAIN cache
    PROVE  /\ cache[c].value \in Estimates
           /\ EstimateFor(c, cache[c].value)
           /\ cache[c].value.age <= oldest + ttl
  <1>1. /\ cache[c] \in [value : Estimates, left : 0 .. ttl]
        /\ EstimateFor(c, cache[c].value)
        /\ cache[c].value.age + cache[c].left <= oldest + ttl
    BY DEF CacheOK
  <1>2. cache[c].value \in Estimates /\ cache[c].left \in 0 .. ttl
    BY <1>1
  <1>3. cache[c].value.age \in Nat
    BY <1>2, GeoAssumption DEF Estimates, Ages, MaxAge
  <1>4. QED
    BY <1>1, <1>2, <1>3

-----------------------------------------------------------------------------
(* The handlers                                                            *)

Locating == [at : {"geocode"}, for : {"hook", "api"}, cart : Carts]
Quoting == [at : {"quote"}, for : {"hook", "api"}, cart : Carts]
Routing == [at : {"quote"}, for : {"route"}, to : Places, phone : Phones]

\* What a request that waits is: one of the geocoder, one of the taxi service
\* for a cart, or one that names the point itself.
LEMMA WaitingRequests ==
    ASSUME QueriesOK, NEW q \in Queries
    PROVE  /\ query[q].at = "geocode" => query[q] \in Locating
           /\ query[q].at = "quote" => query[q] \in Quoting \cup Routing
           /\ query[q].at = "quote" /\ query[q].for # "route" =>
                  PlaceOf[query[q].cart.address] # NoPlace
  <1>1. QueryOK(query[q])
    BY DEF QueriesOK
  <1>2. NoQuery.at = "idle"
    BY DEF NoQuery
  <1>3. /\ \A x \in Locating : x.at = "geocode"
        /\ \A x \in Quoting \cup Routing : x.at = "quote"
    BY DEF Locating, Quoting, Routing
  <1>4. query[q] = NoQuery \/ query[q] \in Locating \/ query[q] \in Quoting \cup Routing
    BY <1>1 DEF QueryOK, QueryTypes, Locating, Quoting, Routing
  <1>5. QED
    BY <1>1, <1>2, <1>3, <1>4 DEF QueryOK

\* A request may go back to doing nothing.
LEMMA AnsweredOK ==
    ASSUME QueriesOK, NEW q \in Queries, Answered(q)
    PROVE  QueriesOK'
  <1>1. QueryOK(NoQuery)
    BY DEF QueryOK, NoQuery, QueryTypes
  <1>2. NoQuery \in QueryTypes
    BY DEF QueryTypes
  <1>3. query' = [query EXCEPT ![q] = NoQuery]
    BY DEF Answered
  <1>4. QED
    BY <1>1, <1>2, <1>3 DEF QueriesOK

\* An answer made of an estimate for the cart is right when the estimate is
\* young enough for the hook's cache.
LEMMA OfferOK ==
    ASSUME CacheOK(shipping, FreshFor + CacheFor, ShippingFor),
           NEW c \in Carts, NEW e \in Estimates, EstimateFor(c, e),
           e.age <= FreshFor + CacheFor,
           Offer(c, e)
    PROVE  /\ CacheOK(shipping, FreshFor + CacheFor, ShippingFor)'
           /\ AnswerOK' /\ PriceShownIsCurrent'
  <1>1. FreshFor + CacheFor \in Nat /\ ShippingFor \in Nat
    BY GeoAssumption
  <1>2. CASE e.priced
    <2>1. shipping' = Put(shipping, c, e, ShippingFor)
          /\ answer' = [shown |-> TRUE, cart |-> c, value |-> e]
      BY <1>2 DEF Offer
    <2>2. CacheOK(Put(shipping, c, e, ShippingFor), FreshFor + CacheFor, ShippingFor)
      BY <1>1, PutOK
    <2>3. e.age \in Nat
      BY GeoAssumption DEF Estimates, Ages, MaxAge
    <2>4. e.age <= MaxAge
      BY <2>3, <1>1, GeoAssumption DEF MaxAge
    <2>5. AnswerOK'
      BY <2>1 DEF AnswerOK
    <2>6. PriceShownIsCurrent'
      BY <2>1, <2>4 DEF PriceShownIsCurrent, EstimateFor
    <2>7. CacheOK(shipping, FreshFor + CacheFor, ShippingFor)'
      BY <2>1, <2>2 DEF CacheOK, EstimateFor
    <2>8. QED
      BY <2>5, <2>6, <2>7
  <1>3. CASE ~e.priced
    <2>1. answer' = NoAnswer /\ shipping' = shipping
      BY <1>3 DEF Offer
    <2>2. CacheOK(shipping, FreshFor + CacheFor, ShippingFor)'
      BY <2>1 DEF CacheOK, EstimateFor
    <2>3. AnswerOK' /\ PriceShownIsCurrent'
      BY <2>1 DEF AnswerOK, PriceShownIsCurrent, NoAnswer
    <2>4. QED
      BY <2>2, <2>3
  <1>4. QED
    BY <1>2, <1>3

\* A step that answers nothing and leaves the caches alone is harmless to them.
LEMMA QuietOK ==
    ASSUME GInv, UNCHANGED <<estimates, shipping>>, answer' = NoAnswer
    PROVE  /\ CacheOK(estimates, FreshFor, CacheFor)'
           /\ CacheOK(shipping, FreshFor + CacheFor, ShippingFor)'
           /\ AnswerOK' /\ PriceShownIsCurrent'
  BY DEF GInv, CacheOK, EstimateFor, AnswerOK, PriceShownIsCurrent, NoAnswer

\* estimateDeliveryByAddressQuery caches and returns an estimate for the cart
\* it was asked about, made or found while fresh.
LEMMA DeliverOK ==
    ASSUME GInv, NEW q \in Queries, NEW e \in Estimates, e.age <= FreshFor,
           query[q] \in Locating \cup Quoting \cup Routing,
           query[q].for # "route" => EstimateFor(query[q].cart, e),
           Deliver(q, e)
    PROVE  /\ CacheOK(estimates, FreshFor, CacheFor)'
           /\ CacheOK(shipping, FreshFor + CacheFor, ShippingFor)'
           /\ QueriesOK' /\ AnswerOK' /\ PriceShownIsCurrent'
  <1>1. QueriesOK'
    BY AnsweredOK DEF Deliver, GInv
  <1>2. CASE query[q].for = "route"
    BY <1>1, <1>2, QuietOK DEF Deliver
  <1>3. CASE query[q].for # "route"
    <2>1. query[q].cart \in Carts
      BY <1>3 DEF Locating, Quoting, Routing
    <2>2. estimates' = Put(estimates, query[q].cart, e, CacheFor)
          /\ Return(query[q].for, query[q].cart, e)
      BY <1>3 DEF Deliver
    <2>3. CacheOK(Put(estimates, query[q].cart, e, CacheFor), FreshFor, CacheFor)
      BY <1>3, <2>1, PutOK, GeoAssumption DEF GInv
    <2>4. CacheOK(estimates, FreshFor, CacheFor)'
      BY <2>2, <2>3 DEF CacheOK, EstimateFor
    <2>5. e.age <= FreshFor + CacheFor
      BY GeoAssumption DEF Estimates, Ages, MaxAge
    <2>6. CASE query[q].for = "hook"
      BY <1>1, <1>3, <2>1, <2>2, <2>4, <2>5, <2>6, OfferOK DEF Return, GInv
    <2>7. CASE query[q].for # "hook"
      <3>1. answer' = NoAnswer /\ shipping' = shipping
        BY <2>2, <2>7 DEF Return
      <3>2. CacheOK(shipping, FreshFor + CacheFor, ShippingFor)'
        BY <3>1 DEF CacheOK, EstimateFor, GInv
      <3>3. AnswerOK' /\ PriceShownIsCurrent'
        BY <3>1 DEF AnswerOK, PriceShownIsCurrent, NoAnswer
      <3>4. QED
        BY <1>1, <2>4, <3>2, <3>3
    <2>8. QED
      BY <2>6, <2>7
  <1>4. QED
    BY <1>2, <1>3

-----------------------------------------------------------------------------
(* The steps                                                               *)

LEMMA InitGInv == GeoInit => GInv
  <1> SUFFICES ASSUME GeoInit PROVE GInv
    OBVIOUS
  <1>1. DOMAIN << >> = {} /\ 1 .. 0 = {} /\ Cardinality({}) = 0
    BY FS_EmptySet
  <1>2. OffersOK
    BY <1>1 DEF GeoInit, OffersOK
  <1>3. CacheOK(estimates, FreshFor, CacheFor)
    BY <1>1 DEF GeoInit, CacheOK
  <1>4. CacheOK(shipping, FreshFor + CacheFor, ShippingFor)
    BY <1>1 DEF GeoInit, CacheOK
  <1>5. QueriesOK
    BY DEF GeoInit, QueriesOK, QueryOK, QueryTypes, NoQuery
  <1>6. AnswerOK /\ PriceShownIsCurrent
    BY DEF GeoInit, AnswerOK, PriceShownIsCurrent, NoAnswer
  <1>7. QED
    BY <1>2, <1>3, <1>4, <1>5, <1>6 DEF GInv

\* The hook's own cache has estimates of every age a cart may be shown.
LEMMA CachedShippingKeepsGInv ==
    ASSUME GInv, NEW c \in Carts, CachedShipping(c)
    PROVE  GInv'
  <1>1. FreshFor + CacheFor \in Nat /\ ShippingFor \in Nat
    BY GeoAssumption
  <1>2. /\ shipping[c].value \in Estimates
        /\ EstimateFor(c, shipping[c].value)
        /\ shipping[c].value.age <= MaxAge
    BY <1>1, CachedOK DEF GInv, CachedShipping, MaxAge
  <1>3. answer' = [shown |-> TRUE, cart |-> c, value |-> shipping[c].value]
    BY DEF CachedShipping
  <1>4. AnswerOK'
    BY <1>2, <1>3 DEF AnswerOK
  <1>5. PriceShownIsCurrent'
    BY <1>2, <1>3 DEF PriceShownIsCurrent, EstimateFor
  <1>6. UNCHANGED <<offers, estimates, shipping, query>>
    BY DEF CachedShipping
  <1>7. QED
    BY <1>4, <1>5, <1>6 DEF GInv, OffersOK, CacheOK, EstimateFor, QueriesOK, QueryOK

\* A request that starts to wait, for the geocoder or for the taxi service.
LEMMA WaitKeepsGInv ==
    ASSUME GInv, NEW q \in Queries, NEW x, QueryOK(x),
           query' = [query EXCEPT ![q] = x], answer' = NoAnswer,
           UNCHANGED <<offers, estimates, shipping>>
    PROVE  GInv'
  <1>1. QueriesOK'
    BY DEF GInv, QueriesOK, QueryOK
  <1>2. OffersOK'
    BY DEF GInv, OffersOK
  <1>3. QED
    BY <1>1, <1>2, QuietOK DEF GInv

LEMMA ByAddressKeepsGInv ==
    ASSUME GInv, NEW q \in Queries, NEW for \in {"hook", "api"}, NEW c \in Carts,
           ByAddress(q, for, c)
    PROVE  GInv'
  <1>1. CASE c \in DOMAIN estimates
    <2>1. Return(for, c, estimates[c].value) /\ UNCHANGED <<offers, estimates, query>>
      BY <1>1 DEF ByAddress
    <2>2. /\ estimates[c].value \in Estimates
          /\ EstimateFor(c, estimates[c].value)
          /\ estimates[c].value.age <= FreshFor + CacheFor
      BY <1>1, CachedOK, GeoAssumption DEF GInv
    <2>3. OffersOK' /\ QueriesOK' /\ CacheOK(estimates, FreshFor, CacheFor)'
      BY <2>1 DEF GInv, OffersOK, QueriesOK, QueryOK, CacheOK, EstimateFor
    <2>4. CASE for = "hook"
      BY <2>1, <2>2, <2>3, <2>4, OfferOK DEF Return, GInv
    <2>5. CASE for = "api"
      BY <2>1, <2>3, <2>5, QuietOK DEF Return, GInv
    <2>6. QED
      BY <2>4, <2>5
  <1>2. CASE c \notin DOMAIN estimates
    <2> DEFINE x == [at |-> "geocode", for |-> for, cart |-> c]
    <2>1. QueryOK(x)
      BY DEF QueryOK, QueryTypes
    <2>2. /\ query' = [query EXCEPT ![q] = x] /\ answer' = NoAnswer
          /\ UNCHANGED <<offers, estimates, shipping>>
      BY <1>2 DEF ByAddress
    <2> HIDE DEF x
    <2>3. QED
      BY <2>1, <2>2, WaitKeepsGInv
  <1>3. QED
    BY <1>1, <1>2

LEMMA ByRouteKeepsGInv ==
    ASSUME GInv, NEW q \in Queries, NEW to \in Places, NEW phone \in Phones,
           ByRoute(q, to, phone)
    PROVE  GInv'
  <1> DEFINE x == [at |-> "quote", for |-> "route", to |-> to, phone |-> phone]
  <1>1. QueryOK(x)
    BY DEF QueryOK, QueryTypes
  <1>2. /\ query' = [query EXCEPT ![q] = x] /\ answer' = NoAnswer
        /\ UNCHANGED <<offers, estimates, shipping>>
    BY DEF ByRoute
  <1> HIDE DEF x
  <1>3. QED
    BY <1>1, <1>2, WaitKeepsGInv

\* A row is used only while it is fresh, and only for its own point and phone.
LEMMA LocatedKeepsGInv ==
    ASSUME GInv, NEW q \in Queries, Located(q)
    PROVE  GInv'
  <1> DEFINE to == PlaceOf[query[q].cart.address]
             found == Reusable(to, query[q].cart.phone)
  <1>1. query[q] \in Locating
    BY WaitingRequests DEF Located, GInv
  <1>2. to # NoPlace
    BY DEF Located
  <1>3. ASSUME NEW i \in found, Deliver(q, offers[i]), UNCHANGED offers
        PROVE  GInv'
    <2>1. /\ i \in DOMAIN offers
          /\ offers[i].to = to /\ offers[i].phone = query[q].cart.phone
          /\ offers[i].age <= FreshFor
      BY <1>3 DEF Reusable
    <2>2. offers[i] \in Estimates
      BY <2>1 DEF GInv, OffersOK
    <2>3. EstimateFor(query[q].cart, offers[i])
      BY <2>1 DEF EstimateFor
    <2>4. OffersOK'
      BY <1>3 DEF GInv, OffersOK
    <2>5. QED
      BY <1>1, <1>3, <2>1, <2>2, <2>3, <2>4, DeliverOK DEF GInv
  <1>4. CASE /\ query' = [query EXCEPT ![q].at = "quote"]
             /\ answer' = NoAnswer
             /\ UNCHANGED <<offers, estimates, shipping>>
    <2> DEFINE x == [query[q] EXCEPT !.at = "quote"]
    <2>1. x \in Quoting
      BY <1>1 DEF Locating, Quoting
    <2>2. x.cart = query[q].cart
      BY <1>1 DEF Locating
    <2>3. QueryOK(x)
      BY <1>2, <2>1, <2>2 DEF QueryOK, QueryTypes, Quoting
    <2>4. query' = [query EXCEPT ![q] = x]
      BY <1>4
    <2> HIDE DEF x
    <2>5. QED
      BY <1>4, <2>3, <2>4, WaitKeepsGInv
  <1>5. QED
    BY <1>3, <1>4 DEF Located

LEMMA GiveUpKeepsGInv ==
    ASSUME GInv, NEW q \in Queries, GiveUp(q)
    PROVE  GInv'
  <1>1. QueriesOK'
    BY AnsweredOK DEF GiveUp, GInv
  <1>2. OffersOK'
    BY DEF GiveUp, GInv, OffersOK
  <1>3. QED
    BY <1>1, <1>2, QuietOK DEF GiveUp, GInv

\* A new offer is for the point and the phone of its request.
LEMMA QuotedKeepsGInv ==
    ASSUME GInv, NEW q \in Queries, NEW priced \in BOOLEAN, Quoted(q, priced)
    PROVE  GInv'
  <1> DEFINE e == [to |-> Target(q), phone |-> Caller(q), priced |-> priced, age |-> 0]
             n == Cardinality(DOMAIN offers)
  <1>1. query[q] \in Quoting \cup Routing
        /\ (query[q].for # "route" => PlaceOf[query[q].cart.address] # NoPlace)
    BY WaitingRequests DEF Quoted, GInv
  <1>2. Target(q) \in Places /\ Caller(q) \in Phones
    <2>1. CASE query[q].for = "route"
      BY <1>1, <2>1 DEF Quoting, Routing, Target, Caller
    <2>2. CASE query[q].for # "route"
      <3>1. query[q].cart \in Carts
        BY <1>1, <2>2 DEF Quoting, Routing
      <3>2. query[q].cart.address \in Addresses /\ query[q].cart.phone \in Phones
        BY <3>1 DEF Carts
      <3>3. QED
        BY <1>1, <2>2, <3>2, GeoAssumption DEF Target, Caller
    <2>3. QED
      BY <2>1, <2>2
  <1>3. e \in Estimates /\ e.age <= FreshFor
    BY <1>2, GeoAssumption DEF Estimates, Ages, MaxAge
  <1>4. query[q].for # "route" => EstimateFor(query[q].cart, e)
    BY DEF EstimateFor, Target, Caller
  <1>5. offers' = [i \in 1 .. n + 1 |-> IF i \in DOMAIN offers THEN offers[i] ELSE e]
        /\ Deliver(q, e)
    BY DEF Quoted
  <1> HIDE DEF e
  <1>6. OffersOK'
    <2>1. n \in Nat /\ DOMAIN offers = 1 .. n
          /\ \A i \in DOMAIN offers : offers[i] \in Estimates
      BY DEF GInv, OffersOK
    <2>2. DOMAIN offers' = 1 .. n + 1
      BY <1>5
    <2>3. \A i \in DOMAIN offers' : offers'[i] \in Estimates
      BY <1>3, <1>5, <2>1, <2>2
    <2>4. Cardinality(1 .. n + 1) = n + 1
      BY <2>1, FS_Interval
    <2> HIDE DEF n
    <2>5. QED
      BY <2>1, <2>2, <2>3, <2>4 DEF OffersOK
  <1>7. QED
    BY <1>1, <1>3, <1>4, <1>5, <1>6, DeliverOK DEF GInv

LEMMA TickKeepsGInv ==
    ASSUME GInv, Tick
    PROVE  GInv'
  <1>1. OffersOK'
    <2>1. DOMAIN offers' = DOMAIN offers
          /\ \A i \in DOMAIN offers : offers'[i] = Older(offers[i])
      BY DEF Tick
    <2>2. QED
      BY <2>1, OlderEstimate DEF GInv, OffersOK
  <1>2. CacheOK(Aged(estimates), FreshFor, CacheFor)
    BY AgedOK, GeoAssumption DEF GInv, MaxAge
  <1>3. CacheOK(Aged(shipping), FreshFor + CacheFor, ShippingFor)
    BY AgedOK, GeoAssumption DEF GInv, MaxAge
  <1>4. /\ CacheOK(estimates, FreshFor, CacheFor)'
        /\ CacheOK(shipping, FreshFor + CacheFor, ShippingFor)'
    BY <1>2, <1>3 DEF Tick, CacheOK, EstimateFor
  <1>5. QueriesOK'
    BY DEF Tick, GInv, QueriesOK, QueryOK
  <1>6. AnswerOK' /\ PriceShownIsCurrent'
    BY DEF Tick, AnswerOK, PriceShownIsCurrent, NoAnswer
  <1>7. QED
    BY <1>1, <1>4, <1>5, <1>6 DEF GInv

LEMMA RestartKeepsGInv ==
    ASSUME GInv, GeoRestart
    PROVE  GInv'
  <1>1. DOMAIN << >> = {}
    OBVIOUS
  <1>2. OffersOK'
    BY DEF GeoRestart, GInv, OffersOK
  <1>3. CacheOK(estimates, FreshFor, CacheFor)'
        /\ CacheOK(shipping, FreshFor + CacheFor, ShippingFor)'
    BY <1>1 DEF GeoRestart, CacheOK
  <1>4. QueriesOK'
    BY DEF GeoRestart, QueriesOK, QueryOK, QueryTypes, NoQuery
  <1>5. AnswerOK' /\ PriceShownIsCurrent'
    BY DEF GeoRestart, AnswerOK, PriceShownIsCurrent, NoAnswer
  <1>6. QED
    BY <1>2, <1>3, <1>4, <1>5 DEF GInv

LEMMA GeoInvariance == GeoSpec => []GInv
  <1>1. GInv /\ [GeoNext]_geoVars => GInv'
    <2> SUFFICES ASSUME GInv, [GeoNext]_geoVars PROVE GInv'
      OBVIOUS
    <2>1. ASSUME NEW q \in Queries, NotLocated(q) \/ NotQuoted(q) PROVE GInv'
      BY <2>1, GiveUpKeepsGInv DEF NotLocated, NotQuoted
    <2>2. CASE UNCHANGED geoVars
      BY <2>2 DEF GInv, OffersOK, CacheOK, EstimateFor, QueriesOK, QueryOK, AnswerOK,
                  PriceShownIsCurrent, geoVars
    <2>3. QED
      BY <2>1, <2>2, CachedShippingKeepsGInv, ByAddressKeepsGInv, ByRouteKeepsGInv,
         LocatedKeepsGInv, QuotedKeepsGInv, TickKeepsGInv, RestartKeepsGInv DEF GeoNext
  <1>2. QED
    BY <1>1, InitGInv, PTL DEF GeoSpec

\* Type correctness of the estimates.
THEOREM GeoTypeCorrect == GeoSpec => []GeoTypeOK
  <1>1. GInv => GeoTypeOK
    BY DEF GInv, OffersOK, CacheOK, QueriesOK, QueryTypes, AnswerOK, GeoTypeOK
  <1>2. QED
    BY <1>1, GeoInvariance, PTL

\* The delivery price in the cart: for any times to live, it is of the cart's own
\* address and phone and never older than the times of the three stores together,
\* however the requests, the restarts and the answers of the map and of the taxi
\* service interleave.
THEOREM PriceIsCurrent == GeoSpec => []PriceShownIsCurrent
  <1>1. GInv => PriceShownIsCurrent
    BY DEF GInv
  <1>2. QED
    BY <1>1, GeoInvariance, PTL
================================================================================
