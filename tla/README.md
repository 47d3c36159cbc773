# Verification of the Inji backend

TLA+ models of the state-changing code of the Inji backend (a NestJS service in
front of a Saleor shop): payment callbacks, the Kaspi invoice outbox, accounts
with their sessions, and eight services around them. TLC checks the models on
small instances, and TLAPS proves their safety for every instance.

## 1. The system

The backend keeps its state in one PostgreSQL database (through Prisma) and in
per-process memory. Nearly every handler is a chain of `await`s over the
database, Saleor's GraphQL API and a third party, without transactions around
the chain. It may run in several instances at once (long-running, or serverless
on Vercel), so between two awaits anything else may run. That is where the hard
behaviours come from: handlers interleave, calls fail after they took effect,
processes die between two steps, and gateways retry.

| Component (sources under `src/src`) | State | Operations | Talks to | What makes it correct |
|---|---|---|---|---|
| AirbaPay callback (`app/payments/airbapay/airbapay.controller.ts`) | `PaymentWebhookEvent` row per checkout, with status and order id | `payment-callback` | Saleor, AirbaPay (retries until success) | asked for once, paid before settled, progress resumable, success answered only when settled |
| TipTopPay hooks (`app/hooks/payment-hooks.service.ts`) | `PaymentWebhookEvent` per transaction, `SavedCard`, `Invoice` | `pay`; `check`, `fail`, `cancel`, `confirm`, `refund` only answer or log | Saleor, Telegram, TipTopPay (retries) | captured money ends as an order or an alert, no orphan card |
| Kaspi outbox (`app/payments/kaspi/kaspi.controller.ts`) | `PaymentWebhookEvent`, `KaspiPaymentRequest` rows | `create-payment-request`, `pending`, `:id/result` | phone-automation worker (polls) | one request per checkout, at most one invoice sent |
| Saleor client (`app/saleor`, `app/hooks/graphql`) | in Saleor: checkouts, orders, payments | create order from checkout, mark paid, record transaction | Saleor | a checkout is consumed by its order |
| Identity and sessions (`core/auth`, `core/user`) | `User`, `AuthIdentity`, `Session`, `TelegramAuthRequest` | resolve identity, issue session, refresh, sign out, delete account, messenger hash | Saleor, Telegram, WhatsApp, Apple | one user per identity, one session per hash, a deleted account is closed |
| Apple sign-in (`core/auth/apple-auth.service.ts`) | `AppleAuthNonce`, `AppleSession`, cached client secret | nonce, sign-in, detached code exchange, revoke | Apple, identity service | nonce used once, no grant survives deletion |
| SMS and call codes (`app/messaging/sms`, `app/hooks/hooks.service.ts`) | `SmsRequestCode`, `CallWaitCode` | send, confirm, check | SMSC | a phone is taken for proved only by what was sent to it or came from it |
| Telegram bots (`app/messaging/telegram`) | bot instances, chat → hash map in memory, relaunch counter | contact handler, polling supervisor, `sendMessage` | Telegram | a hash gets a phone of its own chat, the bot comes back, nothing starts after shutdown |
| Push (`app/messaging/push`, `addDevice`) | `UserDevice` | add device, send to user | Firebase | a registered device stays reachable, under its last token |
| Geo and shipping price (`app/geo`, `hooks/shippingMethods`) | `DeliveryEstimate` rows, two in-memory caches | estimate, shipping methods | Yandex | a price is the cart's own and its age is bounded |
| Address page (`app/geo/geo.controller.ts`) | map, marker, notice and text of a page | click, answer of the geocoder | Yandex maps | the page shows one answer, not parts of two |
| Catalog (`app/catalog`) | cached category list, cron job | refresh, list | Saleor | the list is whole, and a refresh never loses a good one |
| AirbaPay registration (`app/payments/airbapay/airbapay.service.ts`) | a bearer token in memory | payment partners, pre-create | Saleor, AirbaPay | the checkout's own amount, and a token that outlives the calls made with it |
| Invoices, order hooks, delivery cost, remote config, guards, bootstrap | none | single inserts, formatting, stateless checks | | see section 7 |

`PROJECT.json` lists every component with its status, and under `hazards` the
places in the code where the behaviours above bite, with the properties that
watch them.

## 2. Modules

    Settlement            abstract: open -> ordered -> paid -> settled
        ^ implemented by
    AirbapayCallback  --EXTENDS-->  Saleor  <--EXTENDS--  TipTopPay
        ^                                                     ^
    AirbapayCallback_proofs, MCAirbapayCallback           TipTopPay_proofs, MCTipTopPay

    TipTopPay   --implements--> Purchase   abstract: order, charge, card, closed
    KaspiOutbox --implements--> Outbox     abstract: a queue handed out in pages

    KaspiOutbox <- KaspiOutbox_proofs, MCKaspiOutbox
    Accounts    <- Accounts_proofs, MCAccounts

    LoanApplication <- LoanApplication_proofs   \
    AppleSignIn     <- AppleSignIn_proofs        \
    GeoEstimates    <- GeoEstimates_proofs        }-- MCServices
    AddressPicker, AuthBot, Catalog,             /
    Devices, PhoneCodes <- Services_proofs      /

* **Saleor** models the shop as the payment handlers use it: `live` checkouts,
  `orderOf` (the checkout an order was made from) and `paid` orders.
  `CreateFromCheckout` consumes the checkout (`removeCheckout: true`), and
  `MarkPaid` refuses an order that is paid. Saleor itself is not in the
  repository; the mutations the backend sends are.
* **Settlement** is what settling a checkout promises: each phase once, in order.
* **Purchase** is what a captured payment may come to: one payment of a checkout
  gets the order; its charge, its card (once) and its closed callback come after
  the order, and nothing is undone. In TipTopPay these are the orders with their
  `payer`, the paid orders, `cards` and the rows marked processed.
* **Outbox** is a queue: requests join at the end, are handed out from the front,
  a page at a time and once, and their invoices are sent once. In KaspiOutbox a
  row is queued while it is `pending` and handed out from then on.
* **AirbapayCallback** has one action per step of `paymentCallback`: `Claim`
  inserts the row, `ClaimTaken` is the P2002 branch and `SkipDuplicate`,
  `InProgress` and `Resume` its three outcomes; `CreateOrder`, `PersistOrder`,
  `CheckPaid`, `MarkOrderAsPaid` and `Settle` follow the numbered steps of the
  code's comment; `Release` is the catch block of the creation. `pc`, `message`
  and `held` are the handler's position and locals, `event` the database row.
* **TipTopPay** has the same form for `payPayment`. `OnError` is the table of
  where a throwing call leads: past a best-effort call, or into the catch block
  that alerts an operator (`Alert`) and gives the claim back (`Release`). A
  callback that carries neither a transaction id nor a checkout has no key
  (`NoKey`) and no claim: `GoUnclaimed` is its way past the claim, and marking or
  releasing it does nothing. `payer` is a history variable, the payment each
  order was made for.
* **KaspiOutbox** models the three endpoints and the worker that is not in the
  repository. `ClaimFails` and `ReleaseFails` are a claim's insert and its
  deletion that throw, with or without effect, while the process lives on.
  `Find` and `ClaimPage` are the two queries of `pending`. `unseen` is a history variable, the checkouts with a row whose insert seemed
  to fail.
* **Accounts** models `IdentityService` and `AuthService`. `Find`, `Provision`,
  `Insert` and `Refind` are `resolveUserByIdentity`; `IssueTokens`,
  `CreateSession` and `KeepRefresh` are `issueSession`; `Refresh`, `Latest` and
  `KeepRefresh` are `refresh`; `deleteAccount`, `DeleteCustomer`,
  `RevokeSessions` and `SoftDelete` are the four steps of the deletion. A user
  object read at `Find` is what `issueSession` checks later, so the check is
  modelled where the read happens. bcrypt reads 72 bytes of a token, which reach
  into the session id and not beyond it, so a stored refresh hash stands for a
  session and not for one token of it. `asked` is a history variable, the users
  whose deletion was requested, and `via` (in a session) the hash it came from.

* **LoanApplication** models `AirbapayService`: `preCreateOrder` and
  `getCheckoutTotal` take the amount from Saleor, `Authorize` is the check of the
  token, `Authorized` its renewal and `AuthorizedWithoutExpiry` one whose answer
  has no `expiresIn`, `PartnersAnswered` and `Register` the two calls made with
  it. `tokens` has two clocks, the time until the code takes the token to expire
  and the time until AirbaPay does. The code sets no timeout, so no call has
  one: what a token and an order carry instead is how late their calls were.
* **AppleSignIn** models `AppleAuthService` and the Apple part of
  `deleteAccount`: `ReadNonce` and `BurnNonce` are `consumeNonce`, `Exchange` and
  `StoreGrant` the task left running after the answer, `StartRemoval`, `Revoked`,
  `RevokeFails` and `ForgetGrants` are `revokeAllForUser`.
* **PhoneCodes** models SMS codes and call codes from request to check.
  `verifyWaitCode` and `CallConfirmed` are the two queries of the provider's
  report, `checkCode`, `requireValidSmsCode` (for `register` and `login`) and
  `checkWaitCode` the three checks. A customer places calls (`PlaceCall`), and
  the provider reports any of them, again if it likes. `sentCodes`, `calls` and
  `reports` are history variables.
* **AuthBot** models the auth bot of `TelegramService` in processes that share
  one bot token: `Boot`, the loop (`Connected`, `Failed`, `TimerFires`,
  `LoopFails`), `Signal`, and the three message handlers over each process's
  memory of its chats.
* **Devices** models `addDevice` (`AddDevice` looks, `SameToken`, `NewToken` and
  `CreateDevice` go on) and the two senders of pushes, `handleOrderFulfilled` and
  `controlOrder`.
* **Catalog** models `CategoriesStore.fetchAll` page by page (`NextPage`,
  `LastPage`, `PageFails`), with `ShopChanges` between any two pages. Each
  refresh carries what was in the shop throughout (`steady`) and at any time
  (`ever`).
* **GeoEstimates** models the way of a price through the table, the geo cache and
  the hook's cache, each with its own clock; a tick is five minutes.
* **AddressPicker** models the script in the page of `geo.controller.ts`:
  `Click`, `Answer` (`showResult`, `createMap`, `showError`) and `AnswerFails`.

Operators whose comment starts with "Mutant:" are plausible bugs: `PROJECT.json`
pairs each with the property that catches it. They are not part of any
specification.

### Faults

AirbapayCallback and TipTopPay take a set `Faults` of pairs of a kind and a step.
*fail* or *throw*: the call throws and had no effect. *lost*: it had its effect
and throws all the same. *crash*: the process dies before the step. In Accounts,
`Die` is a throw or a crash at any step; a step followed by `Die` is a lost
answer. KaspiOutbox names its faults after what they hit: *insert* (the request
row's insert throws), *lost* (it throws though the row is there), *claim* and
*release* (the claim's insert or deletion throws, with or without effect),
*crash*. The two calls whose errors are caught have faults of their own
(`ProvisionFails`, `InsertFails`), each with and without effect.

The services have the faults their code meets: a request that is cut short by a
failing query or a dying process (`RequestEnds`, `CutShort`, `RemovalEnds`,
`SignInEnds`), a call that fails or a page that does (`CallFails`, `PageFails`,
`NotQuoted`), an answer without a token or without its lifetime, restarts that empty the memory
(`GeoRestart`, `CatalogRestart`, `LoanRestart`, `Kill`), and time that passes
while a call is under way (`Tick`, `LoanTick`).

## 3. Runs

| Run | Instance | Result |
|---|---|---|
| `airbapay_safety` | 2 checkouts, 3 order ids, 2 handlers, one success and one other state, 3 faults of any kind at any step | passes: exclusive claim, settled implies paid, orders only for confirmed payments, progress kept, `Settlement` implemented |
| `airbapay_recovery` | 1 checkout, 3 handlers, both success states, 2 of the faults the handler recovers from | passes: Saleor is never asked for a second order of a checkout, every confirmed payment is settled in the end, and success is answered only when it is |
| `airbapay_ack` | 1 failed order creation | **violated** `AckedIsSettled` |
| `airbapay_inflight` | 1 crash, fair retries | **violated** `ClaimIsResolved` |
| `tiptop_pay` | 1 checkout paid by two transactions, and a payment without any id, 2 of the three captured, 2 handlers, 2 faults | passes: one handler per claim, one card per payment at most and only after its order, captured money is accounted for, `Purchase` implemented |
| `tiptop_alert` | 1 database error after the order | **violated** `AlertMeansNoOrder` |
| `kaspi_outbox` | 2 clients, 1 worker, 2 overlapping polls, 2 rows, pages of 1, any number of faults of every kind | passes: one request per checkout, at most one invoice sent, `Outbox` implemented |
| `kaspi_terminal` | 1 client, 1 worker, 2 polls | **violated** `SentIsTerminal` |
| `accounts_safety` | 2 subjects, 3 user ids, 2 handlers, 2 sessions, 1 hash, 1 fault | passes: see below |
| `accounts_revoked` | 1 subject, no fault | **violated** `DeletedIsSignedOut` |
| `accounts_deletion` | 1 subject, 1 handler, 1 fault, fair retries | **violated** `DeletionCompletes` |
| `services` | the eight services, one in focus at a time (see Bounds) | passes: fourteen properties, listed below |

`accounts_safety` shows that concurrent sign-ins of one subject agree on its
user, a hash gives at most one session, a consumed hash is never dropped without
a failure or a deletion, a user has its Saleor account, a refresh stays in its
account, and no path signs a deleted user in once the sign-ins that saw it alive
are over.

`services` checks the services together. They share no variable and never wait
for each other, so a behaviour of all of them is an interleaving of behaviours
of each, and a property of one depends on that one only. `focus` picks the
service that moves in a behaviour; the others stay in an initial state.

| Property | What it says |
|---|---|
| `PriceShownIsCurrent` | a price shown is for the cart's own address and phone and at most 35 minutes old: the three stores' times add up |
| `PageShowsOneAnswer` | map, marker, notice and text of the address page are of one answer, in whatever order answers come |
| `HashFromItsChat` | a phone is written only to a hash its own chat started with |
| `StopIsFinal` | a process told to stop launches no loop |
| `BotReturns` | a process left alone ends up polling and stays so |
| `DeviceStaysReachable` | overlapping calls never leave a device without a live row |
| `PushGoesToLastToken` | without overlap the only live row has the last token |
| `ListIsWhole`, `ListIsKept` | nothing the shop had throughout is missing from the cached list; only a restart empties it |
| `PhoneIsProved` | a code `check-code` accepts was sent to that phone, one `register` or `login` accepts to some phone or it is the test code; a phone has no more confirmed requests than it placed calls, unless one is reported again |
| `NonceIsSingleUse` | a nonce lets one sign-in through |
| `GrantsAreRevoked` | a deleted account keeps no active grant but those of sign-ins at work during the deletion, if Apple refuses none |
| `RegistersInTime` | an order is for an amount the checkout had meanwhile, and comes with a token that is still honoured if the calls it depends on took no longer than the margin together |
| `ServicesTypeOK` | the type invariants of the eight modules |

### What the violated runs show

Each contradicts a sentence of the source, quoted in `PROJECT.json` `findings`.

* `airbapay_ack`: a callback that collides with a claim, and reads the row after
  the first handler released it, is answered with success. AirbaPay stops
  calling; nothing is settled.
* `airbapay_inflight`: a claim whose handler died is taken for one in flight,
  and every retry is answered 503, for ever.
* `tiptop_alert`: an error after the order was made gives the claim back; the
  retry fails to create the order again and asks an operator for a refund.
* `kaspi_terminal`: a poll the worker gave up on may still run its second query
  and set a row that was sent back to `sending`.
* `accounts_revoked`: a sign-in in flight leaves a live session of a deleted
  account, since requests are checked against the session only.
* `accounts_deletion`: after one error before the last step of `deleteAccount`
  the owner can neither sign in (no Saleor account) nor ask again (the session
  is revoked), and the account stays.

### Bounds

Two handlers are enough for every pairwise race; the third of
`airbapay_recovery` allows a resume that meets two others. Saleor makes one order
of a checkout and consumes it, so there are as many order ids as checkouts, or
one more. `MaxCaptured` lets two of three payments be captured, any two. `MaxFaults` bounds the faults of one
behaviour, `MaxRows` the outbox, `MaxSessions` the sessions; a request that could
end in a session begins only when it fits (`Room`). Pages of one row let
a page of `pending` fill up and leave a row behind with only two rows, so that the
order in which rows are handed out is seen; a page with several rows, some
of them claimed by another poll meanwhile, is left to the proofs (`SentOnce`,
`OutboxIsQueue`), which hold for every page size. One worker polls, as the comments of the code have it; two workers that
poll at the same time can be handed the same rows (hazard at
`kaspi.controller.ts:119`), which the run leaves out. `tiptop_pay` leaves out
the throw of the alert: `CapturedIsAccountedFor` rests on the alert being sent.
Symmetry is used in the runs without liveness only.

The services' instances (940 000 distinct states together), each with room for
the case its properties are about:

* geo: two ways to write one address and another address, 1 phone, 2 requests,
  1 price, times to live of 3, 3 and 1 ticks: an entry can be reused at the very
  end of its time in each store. A second price only repeats the first.
* picker: 2 addresses, 2 clicks whose answers overtake each other.
* bot: 2 processes (a deployment), 2 chats, 1 hash, 2 faults.
* devices: 1 owner, 2 devices, 2 tokens, 2 overlapping calls, 3 rows, 1 fault.
* catalog: 4 categories, pages of 2 (an exactly full last page included), 2
  overlapping refreshes, 2 changes of the shop.
* codes: a number and the test number, 2 requests, a code and the test code, 1
  SMS stored, 2 calls ordered, 1 placed and 2 reports of it: the first may confirm
  one of the two requests only, and its repeat the other.
* apple: 1 user, 2 nonces, 2 sign-ins, 2 grants, 1 refused revocation.
* loan: 2 requests, 1 amount, a token good for 2 ticks with a margin of 1, a
  guessed lifetime of 3 (longer than AirbaPay's), calls of up to 2 ticks, 2
  answers without a token or its lifetime. A tick stands for the margin, 60
  seconds: one call alone may take longer than that.

What a bound could hide from TLC the proofs cover: each of the run's properties except `BotReturns` is a theorem for every value of
the constants. That the services do not meddle with each other is one too,
`Composition`.

### Fairness

`Step(h)` is weakly fair: an instance that runs goes on with its requests.
Delivering an unacknowledged callback is strongly fair, for AirbaPay and for
TipTopPay: the code counts on the gateways' retries ("AirbaPay retries
callbacks", `airbapay.controller.ts:112`; "TipTopPay retries this callback",
`payment-hooks.service.ts:59`), and strong because all handler slots may be busy
again and again. In `accounts_deletion` the owner who asked for the deletion
keeps signing in and asking (strong fairness); this makes the violation stronger,
since no persistence helps. `BotFairness` is weak fairness of the loop's own
steps: a library call is answered or fails, and a timer that was set fires.
Failures are not fair, and `MaxBotFaults` bounds them: `BotReturns` is about what
happens once Telegram works again.

## 4. Proofs

TLAPS checks 52 listed theorems, for any number of processes, rows, orders,
faults and retries, from the named assumptions on the constants. Every safety
property of a passing run is among them, the three refinements included. Some
theorems say more than a run: of a property that fails they say under which
faults it holds. Those have a hypothesis, named in the table of conditions below.

| Module | Theorems (property) |
|---|---|
| `AirbapayCallback_proofs` | `TypeCorrect` (`TypeOK`), `AsksOnce` (`CreatesOnce`), `MutualExclusion` (`ClaimIsExclusive`), `SettlementIsPaid` (`SettledIsPaid`), `OrdersAreConfirmed` (`OrderOnlyWhenConfirmed`), `ProgressKept` (`ProgressIsKept`), `Refinement` (`ImplementsSettlement`), `AckedSettled` (`AckedIsSettled`), `ClaimsInFlight`, `Invariance` |
| `TipTopPay_proofs` | `TypeCorrect`, `ClaimExclusive` (`ClaimIsExclusive`), `CardAfterOrder` (`CardNeedsOrder`), `ProcessedIsOrdered`, `HookImplementsPurchase` (`ImplementsPurchase`), `AlertIsTrue` (`AlertMeansNoOrder`), `StrandedHasOrder`, `AckIsHonest` |
| `KaspiOutbox_proofs` | `TypeCorrect`, `OneRequest` (`OneRequestPerCheckout`), `HandedOut`, `SentOnce` (`AtMostOnce`), `OutboxIsQueue` (`ImplementsOutbox`), `SentReopens`, `SentStays` (`SentIsTerminal`), `ClaimsHaveRows` |
| `Accounts_proofs` | `TypeCorrect`, `OneUser` (`ResolvesToOneUser`), `HashSingleUse` (`HashIsSingleUse`), `ConsumedSignedIn` (`ConsumedIsSignedIn`), `UserCustomer` (`UserIsCustomer`), `RefreshInAccount` (`RefreshStaysInAccount`), `GoneStays` (`GoneStaysGone`), `SignedOut` |
| `LoanApplication_proofs` | `LoanTypeCorrect`, `RegisteredInTime` (`RegistersInTime`) |
| `AppleSignIn_proofs` | `AppleTypeCorrect`, `NonceUsedOnce` (`NonceIsSingleUse`), `NoGrantSurvives` (`GrantsAreRevoked`) |
| `GeoEstimates_proofs` | `GeoTypeCorrect`, `PriceIsCurrent` (`PriceShownIsCurrent`) |
| `Services_proofs` | `OneAnswer` (`PageShowsOneAnswer`), `HashOfItsChat` (`HashFromItsChat`), `StopFinal` (`StopIsFinal`), `ListWhole` (`ListIsWhole`), `ListKept` (`ListIsKept`), `StaysReachable` (`DeviceStaysReachable`), `PushToLastToken` (`PushGoesToLastToken`), `ProvedPhone` (`PhoneIsProved`), `Composition`, `ServicesTypeCorrect` (`ServicesTypeOK`), `ServicesAreSafe` |

Where the code's promise has exceptions, the theorem has a hypothesis that rules
out just these, and a run that violates the promise shows one of them:

| Theorem | Hypothesis | Why it is needed |
|---|---|---|
| `AsksOnce` | no creation's answer is lost | the handler gives the claim back though the order is made; Saleor then refuses, having consumed the checkout |
| `AckedSettled` | `CreationSucceeds` | `airbapay_ack` |
| `ClaimsInFlight` | no fault of `Dropping`: a crash, or a throw, at the steps of the claim's holder; a claim whose insert only looked failed | `airbapay_inflight` |
| `AlertIsTrue` | no fault of `Misleading`: the user lookup or the invoice update throws, a creation only looked failed | `tiptop_alert` |
| `StrandedHasOrder`, `AckIsHonest` | no fault of `Stranding`: a crash between claim and order, a release that throws, a claim whose insert only looked failed | the `Lingering` of `CapturedIsAccountedFor` |
| `AckIsHonest` | `OwnKeys`, `AlertsSent`: each payment has its `TransactionId`, alerts go out | payments without one share the key of their checkout, or have none; nobody is left to tell |
| `SentOnce`, `OutboxIsQueue`, `SentReopens` | `OneWorker` | two workers read the same page |
| `SentStays` | `OneWorker`, and no step is a `Restart` of the worker | `kaspi_terminal` |
| `ClaimsHaveRows` | no crash, no claim whose insert only looked failed, no release that throws | the claim is kept and the row never made; failing and lost inserts of the row are covered |

Few of the properties are inductive: what a handler does depends on what it
read before. Each proof strengthens its property by what a handler may still
rely on at each of its steps, and each action has a lemma that it preserves
this.

* **AirbapayCallback.** That a settled row is paid depends on what a handler
  knows when it settles. `IInv` adds: one that holds the claim (`HoldsClaim`)
  finds its row empty and unsettled, one that works on an order (`HasOrder`)
  holds the order its row names, one about to settle holds a paid order. `ShopOK`
  says that consumed checkouts stay consumed, `RowOK` that what a row says of the
  shop is true. `Refinement` shows that each step moves at most one checkout by
  one phase. `AckInv` adds that no handler ever gives a claim back, so that an
  absent row means an untouched checkout. That needs `CreationSucceeds` (no
  order creation fails), and run `airbapay_ack` shows that it does. For `AsksOnce`,
  `FreshOK` says that a checkout has no order while it has no row, nor while the
  holder of its claim is about to make the order or to give the claim back.
* **TipTopPay.** A handler past its claim is the only one with its key
  (`Exclusive`), and what it has done so far is what the shop shows: its payment
  has its order at the steps after `CreateOrder`, and no card before `SaveCard`. That is
  what `HookImplementsPurchase` needs: each step changes one part of the purchase
  or none. For `AlertIsTrue`, `FreshOK` says that a claim that is free, and a
  handler that has yet to make the order or failed to, mean a payment without
  one, as does a callback without a key, which names no checkout
  (`NoKeyUnordered`); only the misleading faults give a claim back after the order. For
  `AckIsHonest`, `AckOK` says of every payment that was answered with true, and of
  every handler about to do so, that the payment has its order or its alert or a
  claim that somebody works on.
* **KaspiOutbox.** A client that is about to insert holds the claim of its
  checkout, and there is no seen row of it yet. For `AtMostOnce`, `SentOK` says
  that a row that was sent is nowhere a worker could come upon it: not pending,
  not on the page of a poll it waits for, not to be sent. With `OneWorker` an
  abandoned poll may reopen a row and still nobody receives it; with two workers
  two polls read the same rows, and the property fails. `OutboxIsQueue` maps the
  second query of a poll to handing out the rows of its page that are still
  pending: they are the oldest pending rows even when rows were inserted, or
  claimed by another poll, since the first query read the page. `ReportOK` says
  that a reported row is on no page that is waited for; so only an abandoned poll
  can reopen it (`SentReopens`).
* **Accounts.** An admitted handler's user is the one its subject resolves to
  and has its Saleor account; two handlers never hold one hash (`Apart`); a
  session that came from a hash is the only one. `GoneStaysGone` is proved as an
  action property from the same invariant. `SignedOut` is what remains of
  `DeletedIsSignedOut`, which `accounts_revoked` violates: a live session comes
  only from a sign-in that was admitted (`LiveComesFrom`), so a deleted user
  without one, and without such a sign-in, stays signed out.
* **LoanApplication.** Of a token whose lifetime was not overestimated, the time
  it is honoured and the ticks its answer took add up to at least the time until
  the code takes it to expire and the margin (`TokensOK`). A request that checked
  it adds the ticks it waits since: what it has lost is what it is late, so a
  request that is late by no more than the margin still has time left. Nothing
  is assumed of how long calls take.
* **AppleSignIn.** An active grant of a deleted account is late, or about to be
  stored, or found by the deletion that is at work on it (`GrantOK`); a nonce that
  let a sign-in through is gone.
* **GeoEstimates.** Of each entry of a store, its age and the time it has left
  add up to at most the age it could have when it came in and the store's time:
  a tick adds to one what it takes from the other. Three such sums are the bound.
* **Catalog.** A refresh has read all of `steady` up to its cursor, and nothing
  outside `ever`; `PageIsWhole` says what one page adds to that.
* **Devices.** A registered device has a live row, or a call that has revoked one
  and is about to create another (`ReachOK`); a device without overlapping calls
  has at most one live row, with its last token (`SerialOK`).
* **The services together.** Each disjunct of `ServicesNext` is a step of one
  service that leaves the others' variables alone (`ServicesMove`), so the
  composition implements each service's specification, and every theorem about
  one of them holds of it (`ServicesAreSafe`).
* **PhoneCodes.** The confirmed rows of a number, and those a report is about to
  confirm, are no more than the reports (`ClaimedOK`), and reports come only of a
  number that has placed a call; what a stored code proves follows from what was
  sent before it was stored.

Model-checked only: liveness (`ConfirmedIsSettled`, `CapturedIsAccountedFor`,
`BotReturns`), since the prover does not reason about fairness here. Their
safety cores are proved: `ClaimsInFlight` (a claim that blocks the retries has
somebody at work on it), `AckIsHonest` and `StrandedHasOrder` (what is answered
with true is not lost), `StopIsFinal`.

## 5. Findings and limits of the properties

`CapturedIsAccountedFor` has one way out, a claim left behind (`Lingering`): a
crash after the claim makes the gateway's retry look like a duplicate.
`OneRequestPerCheckout` excepts checkouts whose insert only seemed to fail.
`ConsumedIsSignedIn` allows a consumed hash without a session after a failure or
when an account was deleted. `GrantsAreRevoked` excepts grants of
sign-ins that were at work during the deletion: `revokeAllForUser` removes
whatever rows there are at the end, also one stored since it read them, which
was then never revoked. `DeviceStaysReachable` and `PushGoesToLastToken` except
calls that were cut short, and the latter overlapping ones: two first calls of
one device leave two live rows. `RegistersInTime` excepts orders whose
calls took longer than the 60 seconds together, which no timeout prevents; a
token whose lifetime `authorize` guessed (three hours) and AirbaPay does not
honour that long; and an answer without a token: `authorize` then goes on with
the one it has, which has expired.
`HashFromItsChat` allows a hash the chat started with earlier: with two processes
up, an update may meet what the other one remembers no more.
`PhoneIsProved` says of the code that `register` and `login` ask for only that it
was sent to some phone: `requireValidSmsCode` (`auth.service.ts:425`) looks it up
without the phone. And a call that the provider reports twice may confirm a
second request of its number: `verifyWaitCode` (`hooks.service.ts:75`) takes the
newest unconfirmed row, whichever call it was made for.
`ClaimIsExclusive` of TipTopPay is about callbacks with a key: without one any
number of handlers run at a time, each is refused by Saleor for want of a
checkout, and every retry alerts again. `CreatesOnce` is checked without lost
creations, as `AsksOnce` has it.

Some hazards have no property, each with a note in `PROJECT.json`. Most of them
are places where the code does nothing against the harm, so that a property could
only except it: a creation whose answer is lost, an order id that cannot be
saved, a crash after TipTopPay's claim, an alert that is not sent, an outbox claim
given back after a duplicate was told that all is well, `sending` rows nobody
offers again.

Met while modelling, and not about any property:

* a price may be 35 minutes old although the comment at `geo.service.ts:123`
  speaks of the last 15 minutes: the comment is about the table, which two caches
  follow;
* the address page may go on showing an older click's answer when answers come
  out of order, though never a mixture of two;
* a pending call is looked up with a `+` that was not stored
  (`sms.service.ts:94`), so every repeated request orders another call; the
  expiry of a call is checked nowhere else;
* SIGTERM while a loop is connecting is swallowed, and the loop goes on; the check
  `this.authBot !== authBot` never holds, since a process runs one loop;
* a shared message without a contact throws, which ends the polling loop until
  its timer fires;
* `handleOrderFulfilled` pushes to `meta.issuing_principal.id`, whoever caused the
  event; `deleteAccount` leaves the devices of its user;
* `getWeather` returns four fields the first time and Foreca's whole answer from
  its cache (`geo.service.ts:47`).

## 6. Plan

Done: the payment handlers, the outbox and Accounts with the abstract
specifications they implement; the eight services around them and their
composition; the proofs of their safety. Left, in this order:

1. AppleSignIn and PhoneCodes composed with Accounts through the verified subject
   they produce, so that a deletion in Accounts is the removal in AppleSignIn.
2. What the messenger hash promises over AuthBot and Accounts together: the phone
   that a session is issued for is that of the chat that brought its hash.
3. Which interleavings besides one worker keep `AtMostOnce`: two workers whose
   polls do not overlap.

## 7. Not modelled, and why

* Guards, signatures and tokens of the gateways: stateless; only requests they
  let through are modelled.
* Amounts, phones, addresses, names, message texts: no property tells them apart.
* Order hooks but for the push, delivery cost, remote config, invoices: one call
  or one insert each. `Invoice.referenceId`, by which the payment hooks look
  invoices up, is never written.
* Stamping the customer's id on an order, and filling in a user's profile from a
  later sign-in: best-effort metadata.
* `linkIdentity`: no code calls it. `isBanned`, `isActive`: no code writes them.
* Weather and currency rates: plain cached reads. Apple's client secret: a cached
  value that is made again when it runs out.
* HTML templates, Firebase's and Apple's credentials, DTOs, hook payload types,
  configuration, Prisma, logging, bootstrap: text and wiring. The schema's unique
  keys and defaults are part of the models.

`app/catalog/categories.ts`, sample data that nothing imports, is nearly half of
the repository's lines, and imports, DTOs, types, configuration and GraphQL texts
are much of the rest. The lines `map` names, a sixth of all of them, are most
of those that change state.
