# BioFinance: a formal model

BioFinance routes a customer's payment to one of their connected financial
providers. It consists of a FastAPI backend (`src/backend/app`), the customers'
Flutter app (`src/mobile/lib`) and the merchants' Flutter terminal BioPOS
(`src/biopos/lib`). This directory holds TLA+ modules of its stateful parts,
configurations that check them with TLC, and proofs checked with TLAPS.

## 1. Inventory

| Component | State it keeps | Operations | Talks to |
|---|---|---|---|
| Payment lifecycle (`services/payment_service.py`, `api/payments.py`) | rows of `transactions` and `payment_attempts`, one database transaction per request | create, request, claim, cancel, read | BioRouter; the row locks of PostgreSQL; called by the mobile app, BioPOS and Safaricom |
| BioRouter (`services/router_service.py`, `_load_candidates`) | none across calls; a list of attempts | try the primary, then the fallback | policy, connections, providers |
| Providers (`providers/*`) | the mocks' balances in memory; Daraja keeps its books elsewhere | `initiate_payment`, the STK callback | Safaricom over HTTP |
| Routing policy (`api/routing.py`) | one row per user | get-or-create, replace | mobile routing screen, BioRouter |
| Provider connections (`api/providers.py`) | a row per connect, never deleted | connect, disconnect, list | mobile providers screen, BioRouter |
| Accounts (`api/auth.py`, `api/bioid.py`) | users, one BioID per user | register, login, refresh, issue, lock | mobile session |
| Mobile app: routing and providers screens | policy and connections on screen | route edits, connect, disconnect | backend over HTTP |
| Mobile app: session (`auth_service.dart`, `auth_providers.dart`, `bioid_providers.dart`) | tokens in the secure storage and in the client, `AuthState`, BioID on screen | restore, login, logout, fetch | accounts over HTTP, the storage's platform channel |
| Mobile app: pay screen, balances, history (`features/payments`, `balance_providers.dart`, `transaction_providers.dart`) | outcome of the last tap, the two lists on screen | pay, fetch, pull to refresh | `POST /payments`, `GET /balances`, `GET /transactions` |
| BioPOS | Navigator stack, poll timer, polls under way, merchant session | request, poll, cancel, receipt | backend over HTTP |
| Balances and history at the server (`api/balances.py`, `api/transactions.py`) | none of their own | reads of the mocks' memory, of rows and of attempts | mobile app |
| Schemas, migrations, platform runners | none | declarations | |

### What is hard here

* **Concurrent requests.** FastAPI serves requests concurrently and every
  service method reads a row, awaits, and writes later. PostgreSQL's default
  READ COMMITTED lets an UPDATE by primary key wait for a lock and then apply to
  a row that has changed since it was read.
* **Money outside the transaction.** Providers are called before anything is
  committed. An abort rolls back the record and not the charge.
* **Asynchronous answers.** Daraja answers a push at once with PENDING and
  delivers the result later, repeatedly, possibly before the attempt it refers
  to is committed.
* **Column-level writes.** SQLAlchemy writes the columns a session changed, so
  concurrent writers of one row produce mixtures.
* **Stale screens.** Both apps send requests computed from what they show, and
  handle answers after awaits during which the screen may have changed.
* **Two writes for one session.** Access and refresh token are written and
  deleted one after the other, by calls that overlap, and the app may be killed
  in between.

### What makes each component correct

* Payments: a customer's key is decided once, charged by at most one recorded
  call, and resolved as that call ended; two requests never route one payment
  at the same time; every request ends; a delivered result ends the wait.
* BioRouter: one live call per routing, none to a provider disconnected before.
* Routing policy: a column holds what somebody chose for it; the default never
  overwrites a choice; sequential edits are all kept.
* BioPOS: one result at a time; a waiting screen keeps polling; cancel leaves;
  a resolved request is shown.
* Daraja: the customer is charged what the transaction says, up to its rounding.
* Accounts: a registration that crashed is repaired by the next fetch; screen,
  token and storage agree about the session; the BioID on screen is the one of
  the signed-in user.
* Mobile payments: each tap by itself is charged once at most, and its outcome is
  true. A list that is older than an outcome may stay on screen, but only while a
  fetch is under way that will bring what it lacks.

## 2. Modules

### Payments, `Payments.tla`

| Model | Code |
|---|---|
| `row[k]` | the committed `transactions` row of idempotency key `k`: status, owner (`bio_id`), `selected_provider`, whether `completed_at` is set. `status = "NONE"`: no row |
| `attempt[r]` | the committed `payment_attempts.result` of the call with reference `r` |
| `ledger[r]` | what the call did at the provider, whether or not the backend ever recorded it |
| `writer[k]` | the request whose uncommitted INSERT or UPDATE holds the row (or its index entry) |
| `pc[h]`, `job[h]` | where request `h` is between two awaits, and its local variables |
| `openedBy[k]` | history: `POST /payments` or `POST /payments/request` created the row |

An action is the code between two points where other requests can be seen: a
read of committed data, a write that may wait for a lock, a call to a provider,
a commit. `CreatePayment`, `InsertPayment` and the `Route` actions are
`create_payment`; `OpenRequest`, `CommitRequest` are `create_payment_request`;
`ReadForClaim`, `FlushClaim` and `Route` are `claim_payment_request`;
`ReadForCancel`, `CommitCancel` are `cancel_payment`; `ReadCallback`, `Settle`,
`IgnoreCallback` are the webhook with `handle_daraja_callback`. `Abort` may hit
a request at any step: an exception (`ValueError` of a misconfigured provider,
`httpx` timeouts, `raise_for_status`), a lost database connection or a restart.
The intermediate statuses AUTHENTICATED, ROUTING and PROCESSING are assigned
between commits and never become visible, which `TypeOK` states.

The user stands for their one BioID. The candidates of a routing are any
sequence of at most two connected providers; that policy and connections change
meanwhile is covered by that choice, and modelled in `Policies`. Two reads of
one handler that no write separates are one step when the first one's result
cannot be undone (an attempt found stays found).

### The abstract purchase, `Purchase.tla` and `PaymentsRefinement.tla`

`Purchase` is what `POST /payments` promises: three actions on one key, with
no requests, locks, aborts or retries. `PaymentsRefinement` instantiates it with
`purchase <- ToldOf` (the status of a customer-opened row, as the customer reads
it) and `charge <- ChargeOf` (the outcome of the row's recorded call that moved,
or may still move, money). `ImplementsPurchase` is checked by TLC and proved.
Routing, aborts, retries and every step on a merchant's request are stutters of
`Purchase`; the commit that creates the row is its `Decide`.

### The Daraja adapter, `Daraja.tla`

`Payments` with the adapter's own state: the amounts of the transactions in
cents (`amount`), the access tokens requests hold (`token`) and the shillings
each push asked for (`asked`). `GetToken` is `_get_access_token`, an await of
its own before every push, and impossible without a callback URL: the
`ValueError` or the failed token call is the `Abort` of `Payments`. `PushAmount`
is the POST of the push with its amount rounded half up. Every other action is
the one of `Payments`, which `DarajaImplementsPayments` proves.

### The phone of a customer, `Wallet.tla`

One customer's pay screen, balances and history over the backend of `Payments`.

| Model | Code |
|---|---|
| `tap[k]` | the pay screen's knowledge of the tap that drew key `k`: `unused`, `sent`, `paid`, `declined`, `error` |
| `arrived`, `reply[k]` | the POSTs that reached the server, the answers on their way back |
| `debited` | the calls the mocks' memory has deducted; a restart empties it |
| `view` | the last fetch of balances or history: how far it is, and what it saw |
| `list` | what the screen holds of the last fetch that returned; `Blank` is a spinner or an error |

A tap posts its fresh key once, so a key stands for its tap. `ShowOutcome` is an
answer, which also invalidates both lists. Riverpod's `invalidate` is a refresh:
what an older fetch brings is dropped and a new one begins, but the provider keeps
its value, and `.when` on both screens (`skipLoadingOnRefresh` has its default)
goes on showing the old list until the new one returns, for as long as that takes.
`PullToRefresh` is the same; the history can be pulled only when it lists
something. A change of the connections (`ConnectionsChange`) rebuilds the provider
of the balances because it watches them: that is a reload, which shows the spinner.
A fetch that fails (`FetchFails`) replaces the list by its error.
`ShowError` is an error answer or a lost connection, after which the server may
go on; nothing is fetched again. The user may leave the screen and pay again, so
taps overlap, and nothing connects a second tap with the first.
`PayFromMock` refines the mock's call of `Payments` with the memory it deducts
from: it charges while the account can pay. `ReadRows` and `ReadAttempts` are
the statements of `GET /transactions`, `ReadBalances` is `GET /balances`. The
two providers share no state with each other, so a behaviour follows one of them.
All payments cost the same; which accounts a response lists, and the change of the
signed-in user, which rebuilds the history too, are left out. The biometric prompt and the POST of the merchant that come
before the payment only end a tap early, like an error.

### The abstract checkout, `Checkout.tla` and `WalletRefinement.tla`

`Checkout` is what a tap promises the customer: `Tap`, `Charge`, `Answer` (to a
prompt) and `Show`, on what the phone shows of the tap and what became of the
money. `WalletRefinement` instantiates it with `shown <- tap` and
`money <- MoneyOf`, the outcome of the call of the key that moved, or may still
move, money. Unlike `Purchase` it reads the providers' ledger, so a charge
whose request aborted before its commit counts too. A mock's call that charges
and a push that was accepted are `Charge`, the customer's PIN is `Answer`, an
answer or an error on the phone is `Show`; every commit, callback, retry, abort
and fetch is a stutter. The phone never sends a key twice, which is why
an aborted charge is not repeated here although `lost_answer` (section 3) finds
that the backend alone would repeat it.

### Policies, `Policies.tla`

The `routing_policies` row of one user (`policy`), the connections, the routing
screens of the user's devices (`shown`), their GETs and PUTs (`request`) and
BioRouter reading both tables (`routing`). `UpdatePolicy` is a touched control:
the whole policy on screen with one column replaced. `FindPolicy`,
`MissPolicy`, `InsertPolicy`, `ReloadPolicy` are `_get_or_create`;
`ApplyUpdate` and `RefreshPolicy` the rest of the PUT, `Written` SQLAlchemy's
column-level UPDATE. `FailRequest` is an exception at the server at any step of
a request, `LoseConnection` one at the device: the screen shows the error while
the server goes on, up to `DropAnswer`, so that even one device can have two
requests run at once. The policy row is replaced in one UPDATE, so no lock is
held across steps. A loser of the first INSERT raises IntegrityError and can
only end in `FailRequest`. The list of connections on a device may be old: a
chosen connection is any that ever existed. `wanted`, `chosen`, `edits` and
`trouble` are history and bounds.

### Terminal, `Terminal.tla`

BioPOS: the Navigator's routes (`stack`), the mounted waiting screens, their
timers, the polls under way and the cancel. The backend is `Resolve`, which
allows every status change `Payments` does. External are Flutter's
`pushReplacement` and `pop`, which act on the topmost route that is not leaving,
and `mounted`, which stays true until the transition has ended (`Dispose`).
One assumption is made about the merchant (`Settled`): no tap within the 300 ms
of a transition. Answers of polls and cancels have no such restriction.
`NoStaleResult` needs that assumption: were a request opened while the screen of
the last one is still leaving, the old screen's answer could replace the new one.

### Accounts, `Accounts.tla`

The committed users and BioIDs (`account`, `bioID`), the requests at the server
that write (`request`), and one phone that several people use: the secure
storage (`stored`), the ApiClient's token (`token`), the `AuthState` (`screen`),
the `bioIdProvider` (`bio`) and the calls of restore, login and logout under way
(`task`). `CreateUser` and `IssueBioID` are the two commits of a registration;
`CheckBioID` and `IssueBioID` the read and the insert of `POST /bioid`, also for
other devices (`IssueElsewhere`). `Login`, `LoginAnswered`, `LoginFails`,
`RegisterAnswered`, `RegisterFails`, `WriteAccess`, `WriteRefresh` are
`AuthNotifier.login` with `loginOrRegister`; `DeleteAccess`, `DeleteRefresh` the
logout; `RestoreSession` the start of the app; `FetchBioID` to `IssueFails` the
repository's `fetchOrIssue`. `SetScreen` is an assignment to the `AuthState`: it
makes the provider of the BioID start anew when, and only when,
`isAuthenticated` flips. External are the storage's platform channel, which
answers in order (`channel`) and is taken not to fail, and Riverpod, which drops
the result of a provider that was rebuilt (`Abandon`). The history variable
`overlap` says that a login was tapped while a restore or a logout was under way. Passwords are left out: a
login that is refused is one that fails.

## 3. Runs

Bounds are in the `.cfg` files. All model-value sets are symmetric in the
actions and the properties of the runs that use `SYMMETRY`; runs of liveness
properties use none. `CHECK_DEADLOCK FALSE` everywhere: each system may be idle
for good, and the bounds on references, edits and requests end it.

| Run | What it shows |
|---|---|
| `payments_one_key` | three requests, two customers, one payment: type invariant, exclusive routing, one live call per routing, COMPLETED means charged, pending means prompted, attempts tell the truth, a customer's payment is routed once, final, and a `Purchase`; a call is forgotten only by an abort (`ForgottenByAbortOnly`); a resolved payment nobody works on stays as it is (`FinalAtRest`) |
| `payments_progress` | over `Daraja`, two requests and the redelivered callbacks of up to two routings, 50 or 45099 cents: a completed charge is near its amount (`CompletedChargeIsNear`), nobody waits for a row lock for ever (`EveryRequestEnds`), a recorded prompt that was answered settles its payment although deliveries fail (`AnsweredPromptSettles`) |
| `wallet_pays` | a customer taps twice, answers get lost, fetches fail and overlap payments, the server restarts: one charge per tap, what is shown as paid was charged, what is shown as declined was charged only by a prompt still open, balances and history that lack what the phone was told are being replaced by a fetch that does not (`BalancesCatchUp`, `HistoryCatchesUp`), a completed row is listed with its successful attempt; a tap is a `Checkout` |
| `policies_edits` | a device creates and edits the policy row, loses answers and starts again, while a payment is routed: sequential edits are kept, no invented or confused value, no reset, no call to a provider disconnected before |
| `accounts_session` | two people on one phone, three logins, one kill: screen, token and storage agree whatever restore, logins and logouts overlap; a fetch repairs a crashed registration; the BioID on screen is the token's; the login button comes back |
| `terminal_screens` | two requests, two overlapping polls each: one result at a time, waiting means polling, nothing of an earlier request is shown, a cancel leaves the screen, a resolved request is shown |

Why the bounds are enough to matter: every race of the payment service is
between two requests on one row, and `payments_one_key` has three; a routing
makes at most two calls, so four references allow two whole routings of one
payment. A payment starts only while two references are left beside those the
routings under way may still need (`RefsLeft`, `CallsToCome`), so no run is cut
off in the middle of a routing. `payments_progress` has three references: the
payment is routed again after an abort, and a second request may arrive once the
first has loaded its only candidate; two claims that both still have their
candidates to load are in `payments_one_key` only. Two PUTs of
one device suffice to mix columns, because a device that lost an answer starts
again while the server still works on it. Two logins on a phone are needed for
one person's session to meet another's, one kill for half a session to be
restored; two request slots for two inserts of one BioID to race. A third login is
needed for two logouts tapped one after the other, with a login under way during
the second and another after it, where `BioIDIsOwn` needs its condition.
`wallet_pays` has two keys and two requests, so that two taps draw on one account
of one payment (`Funds = 1`), and three references: a tap routed over both
providers beside one routed at the same time over a single one. While the history
is followed, one payment is tapped (`HistoryTaps = 1`): `HistoryCatchesUp` and
`ListedPaidHasCharge` are about one payment and the fetches around it, and what two
taps do to each other is explored while the balances are. An instance with a
fourth reference (1.1 million states), and one with two taps beside the history
(2.8 million, without `ImplementsCheckout`), were checked once, without an error.
One amount of `payments_progress` is just half a shilling, the other would lose
almost a whole one if its cents were cut off. Two requests
of a terminal suffice for an answer of an old screen to meet a new one, two
slots for the polls of one screen to overlap, and one move of the backend after
the opening, together with the cancel, for a status to change twice.

### What the code does not keep

Six runs end in a violation. Each checks a statement of a comment against the
code.

| Run | Statement | What happens |
|---|---|---|
| `double_claim` | "Whoever claims a given request first gets it" (`payment_service.py:98`) | both claims check the unlocked row; the second UPDATE waits, then takes the request over and routes it again |
| `cancel_race` | a terminal status "won't change again on its own" (`payment_request_result.dart:18`) | a cancel read before a claim committed overwrites its result, or the reverse |
| `early_callback` | the callback is ignored "if [it] doesn't match anything BioFinance created" (`payment_service.py:183`) | it arrives before the attempt is committed, is acknowledged, and the payment stays pending |
| `lost_answer` | a retry returns the original transaction "instead of double-charging" (`payments_repository.dart:12`) | the request aborts after the call; nothing is recorded, the retry charges again |
| `lost_edit` | the caller has "the complete current+edited state in hand" (`routing_policy_providers.dart:19`) | the second PUT was built from the policy before the first |
| `lost_home` | the gate switches "between merchant sign-in and the terminal" (`biopos/lib/main.dart:25`) | a poll that returns while the cancelled screen leaves replaces the amount entry by a receipt without a way back |

The passing properties say how far these reach: a customer-opened payment is
never affected by the first two (`CustomerPaymentIsFinal`,
`CustomerPaymentRoutedOnce`), and even a merchant request under these races is
never shown as COMPLETED without a recorded charge (`CompletedIsCharged`). The
races need requests that run at the same time: once a payment is resolved and no
request on it is under way, no later claim, cancel, retry or callback changes it
(`FinalAtRest`). The charge of `lost_answer` can be lost in no other way than by
an abort (`ForgottenByAbortOnly`), and no tap on the phone leads to a second one
(`ImplementsCheckout`).

Some properties say less than one would like, because the code does not give more:

* `TapChargesOnce` and `ImplementsCheckout` bound every tap by itself. A user who
  taps again after an error or an `AUTHORIZATION_PENDING` shown as declined draws
  a new key and may pay twice; nothing in the code objects.
* `BalancesCatchUp` and `HistoryCatchesUp` do not promise that an old list goes
  away: a fetch may hang, and the HTTP client sets no timeout. They say that none is
  on screen without its correction under way. Charges that the mocks forgot in a
  restart (`Restart`) are not asked for: the balances are then the initial ones
  again. Nothing is promised after an error answer, which fetches nothing.
* `StoredValuesWereChosen` is about each column of a policy. Two overlapping PUTs
  can leave a row that nobody sent as a whole, and `EditsKept` is about edits made
  one after the other's answer.
* `FetchRepairs`: of two inserts of one BioID the loser ends in an
  IntegrityError although `POST /bioid` is called idempotent, and the phone shows
  an error; the user has a BioID all the same.
* `BioIDIsOwn`: the provider of the BioID starts anew only when
  `isAuthenticated` flips. It does not when a login tapped during the restore of
  somebody else's session ends after it, nor when one tapped during a logout does
  (two logouts tapped, a login ending after the first, another login beginning
  before the second ends). The screens then keep the other person's BioID, and a
  provider connected then is named after it.

### Fairness

* `Payments` and `Daraja`: weak fairness of a routing's own steps, because every
  await in it ends (the calls for the token and for the push by their timeouts);
  strong fairness of the steps that wait for a row lock, because PostgreSQL queues
  waiters and a lock is freed by every commit or rollback; strong fairness of a
  callback's delivery, because Safaricom repeats it until acknowledged. Nothing is
  assumed of new requests, customers or aborts.
* `Terminal`: the periodic timer fires and answers are handled (weak); of the
  polls a screen sends again and again, one gets through at last (strong); an
  HTTP call of the cancel returns or fails (weak). Nothing is assumed of merchant or backend.

## 4. Proofs

TLAPS proves every invariant and action property of the passing runs, and both
refinements, for every value of the constants that satisfies the ASSUMEs of the
modules (the values that mark absence are no members of the other sets, bounds
are naturals). Each theorem rests on an inductive invariant, preserved by one
lemma per group of actions. What the properties lack to be inductive:

* `PaymentsProofs`. `LockInv`: a request that routes is the writer of its key's
  row, and requests under way have a key. Exclusiveness alone does not keep a
  second claim from being flushed. `OnceInv`: the calls a request remembers are
  its own and unrecorded, a customer's key gets its row and its attempts in the
  same commit, and nobody routes or claims a customer's row once it is committed;
  hence the commit that creates the row is the only one to record a live call.
* `PaymentsTruthProofs`. `TruthInv`: what rows and attempts say of a call is what
  it did (`TablesTrue`), remembered calls have no attempt yet, and a request that
  will write later, the webhook after its read or a cancel, writes what is then
  true (`LateWritesAreDue`): the webhook's prompt was answered and a provider it
  read is still there, the cancel is of a merchant's payment.
  `HandsInv` adds what a request holds: an idle one nothing, one that inserts,
  claims or routes its user, and a call in the making only while it pushes or
  settles. From it the two action properties about what is forgotten and what is
  at rest follow by one statement of what a step does to the calls, the rows and
  the requests of a key.
* `PaymentsRefinementProofs`. From `TruthInv`, by the effect of each step on
  `ToldOf` and `ChargeOf` at one key: the commit that creates a customer's row is
  `Decide`, an answered prompt is `Answer` if its attempt is recorded, a webhook
  that settles is `Settle`, everything else changes neither. A customer's key has
  one live call, so that the CHOOSE of the mapping cannot switch between two.
* `DarajaProofs`. The steps are those of `Payments`. `AdapterInv` adds what every
  push asked for, not only one that completed a payment. That the adapter's
  backend is a `Purchase` (`DarajaPurchases`) is then a corollary.
* `WalletProofs`. The steps are again those of `Payments`. `TapInv`: one request
  at most works on a tap and knows every call made for it, recorded or not; all of
  them but one failed. `WalletInv`: what the phone was told, or is on its way to
  it, stays true of the row whatever commits afterwards. A fetch that has read
  misses nothing the phone was told (`FetchFresh`): a tap answered later starts
  another fetch. So a list that is not being replaced misses nothing either
  (`ListFresh`), because it came from such a fetch and no answer was shown since;
  while a fetch is under way nothing is claimed of the list. `TillInv` adds that an unused reference has no key
  and that what arrived was tapped (`CallsAreOfTaps`); with `TapInv`
  a key has one live call, so the CHOOSE of `MoneyOf` is settled, and each step
  changes either a screen or the money of one key as `Checkout` allows, never
  both. `WalletPurchases` is a corollary of `WalletImplementsPayments` and
  `PurchaseImplemented`.
* `AccountsProofs`. `PhoneInv`: the tasks in the storage's channel, once each, and
  the client's token, the screen and the BioID as far as each task has come;
  `RequestInv`: what a request has reached is in the tables; `StorageFits`: the
  access token in the storage is that of the last task that stands between its
  two writes, and the client's if there is none.
* `TerminalProofs`. `StackFits`: the stack of routes has one of four shapes, with
  the mounted screens and the timers each of them allows. `LastShown` adds
  that a mounted screen is of the request opened last: an answer can only replace a
  screen by a receipt of a mounted request.
* `PoliciesProofs`. `RequestsFit` and `RoutingFits`: what each request and routing
  has read by its step; `RowsWereChosen`: every row at the server, on a screen or
  on its way holds chosen columns; `AloneFits`: what a single device has sent, is
  shown and wants. `EditsAreKept` has the hypothesis of one device, as the run.

Model-checked only: the liveness properties `EveryRequestEnds`,
`AnsweredPromptSettles`, `CancelLeaves` and `ResolvedIsShown` (the prover does not
handle fairness and ENABLED), and the violations of section 3.

## 5. How the project grew

1. `Payments` with the abstract `Purchase`, `Policies`, `Terminal`.
2. `Accounts`.
3. `Daraja` and `Wallet`, both over `Payments`.
4. The proofs, from the locks to the refinement, then those of the other modules.
5. `Checkout`, over phone and providers' ledger, and its refinement by `Wallet`;
   what only aborts lose and what survives the races (`ForgottenByAbortOnly`,
   `FinalAtRest`); stale screens of the terminal (`NoStaleResult`).

## 6. Not modelled

* Merchants and the BioPOS sign-in: one request at a time behind a disabled
  button. A failed payment or sign-in leaves a merchant row; nothing reads one
  that no payment names.
* `GET /transactions/{id}` repeats the two reads of the list for one row, and no
  app calls it; `get_payment_status` and `refund` of the providers, and
  `POST /auth/refresh`, are called by nothing.
* The biometric prompt: it ends a tap before anything is sent.
* A BioID's LOCKED status, which no payment looks at.
* Tokens and password hashing: library calls. A token stands for its user and
  does not expire.
* The chance that two random keys or two keys of one day are equal.
* Devices, notifications and audit: tables no code writes. Schemas, migrations,
  configuration: declarations. HTTP wrappers: their failures are the error
  actions of the modules.
* Layout and wording of screens, generated platform projects.
