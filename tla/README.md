# A verification development for the top-up backend

The program is a Go server that sells game top-ups. A buyer (web customer, guest,
or H2H partner) orders a product, pays from a prepaid balance or through the
Tripay gateway, and the server buys the product at one of about ten upstream
providers. This directory holds TLA+ models of the parts of the server where money and
goods can go wrong and of the services around them, the TLC runs that check them,
and TLAPS proofs of the main invariants.

All paths below are relative to the repository root inside `src/`.

## 1. Inventory

### 1.1 Components, state and operations

| component | code | state it keeps | operations that change state |
|---|---|---|---|
| Order lifecycle | `internal/service/transaction_service.go`, `transaction_bulk_service.go`, `internal/repository/transaction_repository.go` | `transactions` table; orders at the providers; `balance_mutations` | create, payment webhook, provider callback, status check, reconcile, balance-hold retry, six admin actions |
| Reconciler | `internal/service/reconciler.go` | rate slots per provider, batch in progress | tick, claim, check, report |
| Provider boundary | `internal/provider/*.go`, one adapter per provider | none in the server; the provider's own orders | purchase, check status, parse callback, balance |
| Accounts | `internal/repository/user_repository.go`, `handler/admin_handler.go`, `service/auth_service.go` | `users` row, `balance_mutations` | debit, credit, admin adjustment, whole-row saves of profile edits |
| Deposits | `internal/service/deposit_service.go` | `deposits` table | create, approve, reject, gateway webhook |
| H2H partner gateway | `internal/service/H2H_service.go` | `ref_id` of a partner on `transactions` | partner order, status check, partner deposit |
| Partner notifier | `internal/service/webhook_service.go` | callbacks being delivered | notify, attempt, give up |
| Worker pool | `internal/pkg/worker/pool.go` | task queue, workers | submit, run, stop |
| Nickname guard | `internal/service/nick_guard.go` | cache, in-flight calls, rate stamps | check |
| Kiosgamer client | `internal/provider/kiosgamer/client.go` | credential row, cookie jar, mutex, window of the last exchange | health check, recovery, keep-alive, save of credentials, purchase, poll, history |
| Catalogue and prices | `service/game_service.go`, `price_sync_service.go`, `repository/product_repository.go`, `handler/provider_product_handler.go`, `pkg/cache` | nominals, provider products, cached pages | two price runs, import, mapping, edit, create, delete, switch |
| SSE hub and dashboard stream | `pkg/sse/hub.go`, `handler/admin_handler.go` | a channel per open dashboard | register, forward, broadcast, unregister |
| Balance watch | `service/telegram_alert_service.go`, `pkg/scheduler`, balance writers | `providers.balance`, flags and cooldowns, settings | alert check, balance sync, refresh, settings |
| Role permissions | `service/rbac_service.go`, `repository/role_permission_repository.go` | matrix and its copy | seed, save, refresh |
| Rate limiters, authentication, 2FA, IP lists | `middleware/*.go`, `service/auth_*.go`, `ip_whitelist_service.go` | counters | login, TOTP check, record failure |
| Telegram bot, Tripay, HTTP layer, start-up | `service/telegram_bot.go`, `tripay_channel_service.go`, `handler/*`, `cmd/server/main.go` | - | - |

### 1.2 How they interact

* An HTTP handler calls a service; the service talks to the database one
  statement at a time. Only `UserRepository.UpdateBalance` opens a database
  transaction (with a row lock); every other read and write of a handler commits
  by itself, so two handlers on one order interleave statement by statement.
* A paid order is submitted to the worker pool, which calls
  `fulfillOrderRegistry`; the pool is in memory only.
* Provider results reach an order by four ways: the purchase answer, a callback,
  an admin's status check, and the reconciler. All four end in `applyResult`,
  which edits a copy of the row and then writes every column of it.
* Digiflazz's status check is the same POST as a purchase, so asking can buy.
* A partner's request debits, inserts and fulfils inside `ProcessTransaction`; the end
  of its order reaches it by the answer, a callback of the notifier, or a status check.
* The nominal an order is made from is written by admins, by two price runs and by
  Kiosgamer's mapping; each writes a whole row or several columns of a copy.
* A handler that ends an order announces it to the dashboards that are registered at that moment, before it saves the row.
* Refunds go through `safeRefundTransaction`: an optimistic test for a REFUND
  mutation of the invoice and then `UpdateBalance`, which repeats the test under
  the row lock.

### 1.3 Hard behaviours

Handlers racing on stale copies; the answer of a purchase that is lost and
bought again; refunds and retries that must not multiply money; a process
restart that loses the pool; statements that fail in the middle of a handler
and whose error is ignored; an order that only a background loop can finish;
duplicate payment webhooks; a product moved to another provider while an order
is in flight; a partner that repeats a request whose answer it lost; a session key kept
in three places; a price written over by a run that began before it; a dashboard that hangs up
while a handler announces to it. `PROJECT.json` lists each at its line under `hazards`.

### 1.4 What makes each component correct

* Order lifecycle: an invoice is credited at most once and only after a charge;
  a balance equals its opening value less the net charges; one live provider
  order per invoice; success means delivered; failed means refunded; a gateway
  order is bought only after one accepted payment; verdicts reach the row.
* Accounts: no debit or credit is lost and the mutation chain is continuous.
* Deposits: a deposit is credited at most once, and credited when approved.
* H2H: a partner that waits for its answers is charged once per `ref_id`, one that was told
  that its order failed or cannot be paid has its money, and every partner that asks learns how its order ended.
* Pool: no accepted task is lost while the process lives.
* Nickname guard: one upstream call per key at a time and nobody waits for ever.
* Kiosgamer: a transaction has one order that may deliver and fails only when none may; a dropped session heals.
* Catalogue: a nominal is bought with an SKU, and sold at a price, of its own provider;
  the price of the list reaches the row and the page.
* Hub: no open dashboard is passed over and no handler is held up by one that is gone.
* Watch, roles: chat and copy end up with what the database says.

## 2. Modules

| module | what it is |
|---|---|
| `OrderRules` | the pure decisions: row contents, guards such as `shouldPurchaseInsteadOfCheck`, `applyResult`, the statements that follow an answer |
| `OrderLedger` | abstract specification: an invoice is charged when its owner can pay, and given back at most once |
| `OrderLifecycle` | state machine: one entry action per handler, one action per database statement, one per provider call, and the world around them |
| `OrderProperties` | type invariant, money, delivery, payment, liveness, and the statements of comments the code does not keep |
| `MCOrderLifecycle` | constants for TLC |
| `OrderLifecycleProofs` | `Spec => []TypeOK` |
| `OrderMoneyProofs` | `Spec => []MoneyInv` and the invariants it contains; the handlers implement `OrderLedger` |
| `OrderPaymentProofs` | payments accepted once, nothing bought before them, success only of what was delivered |
| `OrderDeliveryProofs` | one order at the provider per invoice, no goods after a refund, balances settled at rest |
| `Accounts` | state machine of balances, their mutation log and deposits, its properties and its inductive invariant |
| `MCAccounts` | constants for TLC |
| `AccountsProofs` | `Spec => []AccountsInv` and the four properties of `Accounts` |
| `WorkerPool` | the pool that runs paid orders, and its stop |
| `NickGuard` | `GuardedChecker`: cache, joined lookups, limits and slots |
| `ReconcilerBatch` | the reconciler's loop: window, claims, semaphore, rate slots, shutdown |
| `ProviderAdapters` | one order between the server and a provider, for nine of the adapters as tables |
| `DashboardHub` | the admin's open dashboards, the hub and the handlers that announce orders |
| `BalanceWatch` | the balance of a provider in the row, in the alert check and in the chat |
| `RolePermissions` | the permission matrix and the copy requests are judged by |
| `MCServices` | the seven modules above in one instance, with their fairness |
| `PartnerGateway` | a partner's requests, its money, callbacks and status checks; the refinement `GatewayImplementsLedger` |
| `KiosgamerSession` | the session with the Kiosgamer shop and the orders bought through it |
| `Catalogue` | a nominal, its products at two providers, the price lists and the cached page |
| `MCGateways` | the three modules above in one instance, with their fairness |
| `ProviderAdaptersProofs` | the inductive invariant of the adapters and its three theorems |
| `ServicesProofs` | the inductive invariants of the pool, the guard, the roles, the reconciler's loop, the hub and the watch, and the types of `MCServices` |
| `GatewaysProofs` | the inductive invariants of the gateway, the catalogue and the Kiosgamer client, their safety properties, the gateway's refinement and the types of `MCGateways` |

### 2.1 How `OrderLifecycle` corresponds to the code

`row`, `balance`, `debits`, `refunds` are the database; `fresh[o]` says that
`updated_at` is younger than the reconciler's minimum age; `placed[o]` is the
list of orders the providers hold for an invoice; `route` is the provider the
product points at; `marks` counts the payment webhooks that won, a history
variable. `job[j]` is a handler in progress: its kind, its copy `tx` of the row
and the `plan` of operations it still has to carry out.

An entry action (`CreateOrder`, `HandlePaymentSuccess`, `ManualRetry`, ...) reads
the row once, applies the handler's guards and stores the edited copy and the
plan. Then every step of the plan is one action: `Debit`, `Insert`, `Mark`,
`Claim`, `UpdateStatus`, `Save`, `HasRefund`, `Credit`, `Redebit`... These are the
statements that commit separately; the interleavings between them are the
point of the model. `Save` writes the whole copy, as gorm's `Save` does; of a row that was read
with `Preload("Provider")` gorm also puts the provider back it was read with
(`transaction_repository.go:87`, `:122`, `:257`, `:172`), so a copy never carries another provider into its
row: `Noted` keeps what `resolveProviderCode` sets only in the creator's copy, and
`BulkRetryWithProvider` leaves `prov` alone. `FindByInvoiceNumber` preloads a relation that does not exist
(`:97`) and fails for every invoice; `InvoiceLookup` says whether it works: FALSE, as in the code, in every run but
`order_payment`, where it is TRUE so that the code behind the lookup is exercised too.
`Purchase` and `Check` are a provider call and the part of `applyResult` up to
its first write; `ResultWrites` gives the writes in program order with the
refund where the code has it. `StatementFails` is a database error: `_ =`
errors go on, the rest end the handler, an insert that fails after a debit
returns it. `Crash` drops every job.

`Exchange` is a provider seen from the server: which call can create an order
(`Buys`), which orders it can mean (`Known`), and what it may answer, including
an answer that is lost after the order was created. Three kinds of provider
occur: Digiflazz (check = purchase, `ref_id` unique), Kiosgamer, and the rest (`ref_id` unique).
Kiosgamer has an exchange of its own (`KiosgamerExchange`): it knows no `ref_id`, so a purchase without an order id buys
again; a lost answer of pay/init is a failure or a hold by its text, although the shop has the order (`PayFailures`,
`client.go:742-746`); a poll may take an open order for a success (`PollReplies`, `client.go:1058`) and a
failure for a hold; and a check without an id takes the account's latest order, whoever's it is and however it
stands, for a success (`Foreign`, `client.go:989`). Its answers therefore do not tell what became of the order, and
the properties that compare a row with the provider's order leave rows at Kiosgamer out (`TrueToState`).

### 2.2 How `Accounts` corresponds to the code

`balance[u]` and `log[u]` are `users.balance` and the `balance_mutations` of a
user, `deposit[d]` the status column of a deposit. A handler is a job as above: the
deposit and the user it read (`seen` is the balance in that copy) and the
statements left. `UpdateBalance` is one action because the code runs it in a
database transaction under the row lock; it reads the balance again. `SaveUser`
and `SaveDeposit` write the handler's copy whatever the row has become; `mark` is the
conditional update of the webhook. `Crash` and `StatementFails` may come between
any two statements. `lost` is a history variable: the deposits whose approval
was written and whose credit never ran.

`ApproveDeposit` and `RejectDeposit` of the code test a copy and save it without
a condition. They are therefore correct only if nobody else works on the deposit,
which nothing in the code ensures. The module makes this visible:
`Instant` deposits receive webhooks, `Reviewed` ones an admin's request, and
`Overlapping` ones several admin requests at a time. `Orderly` deposits are those
that only webhooks reach (any number, concurrent) or only one admin request at a
time; the deposit properties are stated for them, the instances hold the others as well, and
`doc_deposit_twice` shows what becomes of a deposit that is both `Instant` and
`Reviewed`. In the same way `Edited` users are those whose row an admin saves:
a posting that falls between the read and the save of `UpdateUser` is erased
from the balance, so `MutationsExplainBalance` is about the others.

### 2.3 How the services correspond to the code

The services keep their state apart from each other, so each has
a module of its own and `MCServices` puts them, the adapters of 2.4 and the services of
2.5, into one instance: the variable `focus` picks the one a behaviour runs, so that
their state spaces add up.

`WorkerPool`: `queue` is the buffered channel, `worker[w]` the position of a worker
goroutine (its `select` loop, the drain after the cancel, gone) and the task it
runs, `task[t]` what has become of a task. `Submit` is one `select`, with a
disjunct for each case that can be ready: cancelled (`Refuse`), room in the channel
(`Enqueue`), a closed channel (`SendOnClosed`, a panic in the handler), and
`default` (`FallBack`, a goroutine outside the wait group). Cancel and close
are two steps of `Stop`, as they are two statements, and workers see them in
any order with their next task. `main` returns after `Stop`, so nothing happens then
(`Alive`). `early` is a history variable: the tasks queued before the cancel.

`NickGuard`: `call[c]` is a goroutine in `Check`; the two sections under the mutex
are `GuardCheck` and `Publish`, and between them the goroutine takes a slot, or
times out, and asks the shop. `close(c.done)` is a step after the second section,
so lookups that arrive in between start a new lookup of their own. A cached
answer and a refusal by the limit change nothing and are not actions.

`ReconcilerBatch`: `phase`, `window`, `claimed` and `held` are the locals of `runOnce`,
`routine[o]` is the goroutine of an order, `wait[o]` and `last[p]` are times
relative to now, so that the clock counts down instead of up. `ripe` says that an
order's `updated_at` is old enough. `Touched` is another handler that saves or
finishes the order after the queue was read, which makes the claim miss. What a
check does to its order is `OrderLifecycle`'s part; the `LoopFree` guard
there, one reconciliation of an order at a time, is what `ReconcilerPaced` shows of the loop.

### 2.4 How `ProviderAdapters` corresponds to the code

An adapter (`internal/provider/<name>/adapter.go`) is a record of decisions. `words` is
its `resultFromOrder`: the result for each class of status word (success, failed,
in process, partial, none of its lists). `refused` is what it makes of a refusal, which is
where the adapters differ: most hold every refusal, BostGame and OtoMax know final
ones, SIPAS reads a text, Digiflazz a response code. `check` says how `CheckStatus`
finds the order: by our `ref_id` (ExcellentStore, MumtazShop, Vexagame), by the
provider's id (BostGame, ExcellStore, ASMarket), by the invoice number of a callback
(OtoMax), by the same POST as the purchase (Digiflazz), or not at all (SIPAS). `lookup`
is Vexagame's search after a failed create, `callback` the value by which a
callback names the order. `Rules` is the adapter in use; `code` never changes.

`exchange` is the call in progress with the copy of the row it was made for; `trx` is
the row as far as results touch it (`Applied` is `applyResult`). `Fulfill`,
`Reconcile` and `HandleProviderCallback` are the service's handlers; they call
`Purchase` or `CheckStatus`, which end at once (`Ends`), or send a request (`Sends`) that
the network answers, refuses, loses or delivers late. `remote` is the order at the
provider; a provider keeps one order per `ref_id`, and may refuse a product for a
player for good (`barred`), which does not change. A provider that changes its mind about
either is outside the model.

`OrderLifecycle` has what races between handlers mean for money, with the coarse
`Exchange` for a provider; this module has one call at a time and the adapters' own
decisions. The retry by an admin is bounded by `MaxTries`, late creates by `MaxLate`.
The recovery of an order id from a saved payload (`order_id` in
`checkProviderStatusRegistry`) is not in it; Kiosgamer is in `KiosgamerSession`.

### 2.5 How the hub, the watch and the roles correspond to the code

`DashboardHub`: `stream[d]` is a request in `StreamDashboardTransactions` (`admin_handler.go`): it registers a
channel (`Register`), forwards what it gets (`Forward`) and unregisters when its context is done (`HangUp`), whatever waits in
the channel. `announcing[a]` is a handler in `broadcastToDashboard`, which copies the list of channels under
the lock (`TakeList`) and serves each after it (`SendNext`), waiting at most 200 ms for a full one
(`Skips`). It does so in its own goroutine, before it saves the order. `due` is history: the
dashboards of the list that are still open and not served. `Unregister` builds a new list; the variant that moves
the channels up in the old array makes a running broadcast pass over one.

The stream of an invoice (`StreamInvoice`) is not modelled: its route is commented out (`main.go:259`), and its lookup
is `FindByInvoiceNumber`, which fails for every invoice.

`BalanceWatch`: `check` is `RunAlertCheck` with the settings it read key by key,
`flags` its two maps, `row` the column `providers.balance`, `purse` what the provider
really holds. `FetchBalance` and `WriteBalance` are the three functions that store a provider's answer,
`ReadProvider` and `WriteBalance` the edit that stores the row it read. `lost` is a
history variable: an all-clear that was never delivered, which the code does not send again
because the flag is cleared before the message goes out.

`RolePermissions`: `table` is the matrix (`CreatedAllowed`: a row that is created is stored as allowed whatever was
sent, because gorm writes the column's default in place of a false, `role_permission.go:51`; a later save of the
same cell stores what it says), `rbacCache` the copy, `lock` the write lock
that `refreshCache` holds while it reads and stores; `BulkUpsertPermissions` is one
database transaction. `missed` is a history variable: the last refresh could not read, so
the rows are saved and the copy is the old one.

### 2.6 How the gateways correspond to the code

`PartnerGateway`: `request[c]` is a goroutine in `ProcessTransaction`; its steps are the
statements: the checks before the lookup (`Reject`: key, signature, `user_id`, callback URL, for any ref, charged and open or
not), the lookup of the `ref_id` (`Repeat`, `Refuse`, `Accept`), `UpdateBalance`
(`DebitPartner`), the insert (`CreateTransaction`), the refund after a failed insert
(`GiveBack`) and `FulfillOrder`. An order that is still open ends by `Settle`, which is
what callbacks and reconciliation do to it (`OrderLifecycle` has how). `Touch` is the admins'
retry, success and refund, none of which tells the partner. `posts` are the goroutines in
`deliver`, any number of them and in any order, lost in a restart. `heard[r]` is the
last word the partner has of a ref, a history variable of the partner's side. "Gagal" comes with an rc that
tells four cases apart: 02 of an order that failed or was refunded ("Gagal"), 07 and 17 of a product or a balance that is short
("Short"), and 40 of everything else ("Rejected"): a bad request, a failed insert, a failed
`CheckStatus` (`CheckFails`). A partner that hears 40 knows nothing of its order, and `GagalIsFree` says nothing of
it, unless the ref led to no order at all; `sent`, `issued`
and `touches` are bounds. Refs differ by what may happen to them: `Impatient`
ones are repeated while a request runs, `Faulty` ones meet failing statements, `Outages`
ones lookups and give-backs that fail unnoticed, `Touched` ones admins. A plain ref is none
of `Impatient`, `Outages`, `Touched`.

`KiosgamerSession`: the key of the session is in the row (`credential`), in the cookie jar of
the process (`jar`) and at the shop (`accepted`, external). `calling[c]` is a goroutine in the
client with its copy of the row; `load`, `ping`, `note` are `HealthCheck`, `lock`, `swap`,
`store`, `giveUp` are `RecoverSession` under `mu`, `touch` and `persist` the rest of
`KeepAlive`, `tx`, `txSwap`, `txStore` `ensureGarenaTransactionSession`, `pay`, `poll` and
`history` the purchase, `PollOrder` and `CheckRecentOrder`. `Readings` is what `parseKiosgamerPoll` may make of an order (an
open one reads as a success when its display fields are there, none fails unless it did), and
`FailureHeard` what `mapResult` makes of a failure: final, held under its id, or, when its text speaks of
money or shells, held with the id left as the row had it. `items` are the orders of
the shop account, `sale[o]` what a transaction knows of its own. Purchases do not wait for the
credential calls, so a crew either does the account's chores or buys; `Solo` crews do
not overlap, `Lasting` ones meet a shop where a key lives on.

`Catalogue`: `nominal` and `products` are rows, `page` is the cached page, `market` the
price lists (external). A goroutine is a `task` with a copy of both rows and a plan of the
statements left, as in `OrderLifecycle`; `PlanOf` and `PlanAfterRead` are the control of
`AutoSyncAllPrices`, `SyncProvider`, `AutoSyncMapping`, `Save`, `UpdateNominal`,
`SwitchProvider`, `CreateNominal`, `DeleteNominal` and `UpsertFromDigiflazz`. A price
or SKU is named by the provider it comes from, which is all `RouteIsOwn` has to tell apart.
`shift` is the pair of works that meet in a behaviour. The rival of Digiflazz is Kiosgamer
or a catalogue provider, as the two differ in `ResolveProductCode` and in the price run.

### 2.7 Abstractions

* A `provider_status` text is one of the six classes that the code's substring
  tests can tell apart. Messages, serial numbers, fees and display fields are
  left out. A reference is a number per order; `NewReferences` is taken to be
  unique (it retries on a collision).
* `updated_at` and the order's age are one bit. The 24-hour limit of the queue is
  not modelled: the runs say what happens inside the window.
* All orders of an instance have a `ProviderRefID` (older rows without one fall
  back to the invoice number).
* `GetNominal`, promo and balance pre-checks before `Debit` are its guard at the
  time of entry; the check that counts is the one under the lock.
* One server process. Loops are one goroutine each and wait for their batch
  (`LoopFree`).
* Partner and Telegram notifications change no order: `PartnerGateway` and `BalanceWatch`
  have them, `OrderLifecycle` leaves them out.
* In `PartnerGateway` an order ends in one step; who may end it, and with which statements
  in between, is `OrderLifecycle`. The two are tied by the ledger: each implements
  `OrderLedger`.
* The `LIMIT` of the reconcile queue is not modelled: an instance has fewer orders. A queue row
  whose provider is unknown, or a rate limit of zero, is `Gap = 0`. Minimum
  ages are longer than any slot reserved ahead (`Ripens`).

`CHECK_DEADLOCK FALSE` is in every configuration because the system is
allowed to come to rest: when the bounds are used up and every order and deposit is
final nothing has to happen.

## 3. Runs

| run | instance | shows |
|---|---|---|
| `order_auto` | 1 order, 2 handlers, 3 provider kinds, all troubles, failing statements, 1 restart | `NoGoodsAfterRefund`, `SuccessIsDelivered`, `NoDoubleDelivery` for the automatic handlers |
| `order_live` | 1 order, 2 handlers, purchase answers lost, no callback | `SettledWhenQuiet`, and `DeliveryReachesRow`, `FailureReachesBuyer` under `FairSpec` |
| `order_admin` | 1 order, 2 handlers, 2 providers, 2 admin actions or reroutes of the product, failing statements | `TypeOK`, `RefundAtMostOnce`, `RefundedMeansCredited`, and the refinement `ImplementsLedger` |
| `order_payment` | 2 gateway orders, one underpaid, failing statements, 1 restart; `InvoiceLookup` TRUE | `PaymentAcceptedOnce`, `UnpaidNeverSubmitted`, `MismatchNeverFulfilled` |
| `accounts` | 2 users, one of them edited; 3 deposits (webhook; admin; both and overlapping); 2 handlers; failing statements, 1 restart | `AccountsTypeOK`, `MutationsExplainBalance`, `DepositCreditedOnce`, `DepositSettled` |
| `services` | pool: 2 workers, room for 1, 3 tasks; guard: 3 callers, 2 keys, 1 slot, 2 lookups per sender; reconciler: 3 orders of one provider, 2 at a time, gap 1; adapters: all nine, 2 purchases, 1 late create; hub: 3 dashboards, 2 announcers, room for 1, 2 announcements; watch: 1 writer of the row, 3 events; roles: 2 cells, 2 saves at a time, 3 saves or starts | `ServicesTypeOK`, `CleanStopKeepsQueue`, `OneLookupPerKey`, `ReconcilerPaced`, `NobodyMissed`, `FailureIsFinal`, `SuccessIsFulfilled`, `RolesAtRest`, and the liveness `AcceptedRuns`, `JoinedIsAnswered`, `ClaimedIsChecked`, `PolledVerdictArrives`, `AnnouncerGoesOn`, `ChatLearns` |
| `gateways` | partner: 5 refs of which two are used together, 2 requests at a time, balance for 2 orders, 3 invoices; Kiosgamer: 2 calls, 2 transactions, 2 orders, 1 trouble; catalogue: 2 workers, 2 prices, 1 change of a list, 1 edit, 1 failure, nine pairs of works | `GatewaysTypeOK`, `ChargedOncePerRef`, `GagalIsFree`, `OwnOrderOnce`, `RouteIsOwn`, the refinement `GatewayImplementsLedger`, and the liveness `PartnerLearnsEnd`, `SessionHeals`, `PriceReachesShop` |
| `doc_reconcile_final` | violation | a stale result *is* reapplied over a final state (`transaction_service.go:576`) |
| `doc_retry_free` | violation | a retried order *can* be free (`transaction_service.go:982`) |
| `doc_failed_refunded` | violation | a failed order *can* keep the money (`transaction_bulk_service.go:251`) |
| `doc_switch_once` | violation | an order *can* be at two providers after a reroute (`transaction_service.go:1024`, `:461`) |
| `doc_deposit_twice` | violation | a processed deposit *can* be processed again (`deposit_service.go:228`) |

**Bounds.** Two jobs make every pair of handlers race; the races of the code are
between two copies of one row. `MaxPlaced` is one more than the property allows
wherever buying twice is the question. `MaxAdmin` counts admin actions;
two are enough for an action racing its own repetition or its opposite, and for a
reroute followed by a retry. `MaxRefs` bounds regenerated
references by the admin actions. One restart is enough as a restart empties the
in-memory state and nothing counts restarts. One order is enough for the order
properties since handlers of different orders share only the balance; the proofs
cover any number. In `accounts` a deposit of each kind, one edit and one order
posting are enough: a race is between two jobs, and each kind of job can be
either of them. In `services`, three tasks over one place make the queue full while both
outcomes of a second submission are open; three callers allow a leader, a joined
caller and a newcomer between `Publish` and `CloseDone`; three orders are
one more than the semaphore holds, so a claimed order waits while others sleep
for their slots. `MaxTouches` = 1: one interfering save per behaviour suffices to make a claim miss. For an adapter,
two purchases are a first and a repeated one, and one late create is enough to find the order
absent, open or settled when it comes; reconciliations and callbacks are not bounded.
A channel with room for one event makes the second one wait or be skipped; two announcers
over three dashboards let one leave the list while another broadcast is in the middle of it. Three events let a balance fall, its message fail and
the balance recover. Two saves of two cells can overlap on one of them. In `gateways`, two
plain refs share a balance that both need; the others are alone, so that one kind of trouble is seen at a
time. Three invoices let a ref that was refused be charged at its next try while another
holds one. Two goods at Kiosgamer are enough to take one's order for the other's. In
the catalogue a lost update needs two workers; the pairs are those that write a common column.

**Fairness.** `FairSpec` lets every handler in progress go on (goroutines are
scheduled and provider clients have timeouts), lets an untouched order age, and lets
the reconciler come back to a queued order (`reconciler.go` `Run` is a ticker
loop; strong fairness because a claim makes the order fresh again). The
provider is assumed to answer a repeated question at last. Nothing is assumed
of callbacks, admins, or the answer of the first purchase. `order_live` has no
crash and no failing statement; with them liveness is false, see 5.
In `services` goroutines are scheduled, time passes, and a task, a lookup and a
check end because the provider clients and `callTimeout` end them. Nothing
is assumed of submitters, of the waiters' contexts, or of the stop. For the adapters the
reconciler comes back to a queued order (inside its 24 hours) and a call ends; a create
or a question repeated for ever is answered with the order at last (strong fairness),
a create because `ref_id` is taken to be idempotent. Nothing makes the configuration
break (`Unconfigured` is not fair), an order settle, or a callback come.
A broadcast has a timeout per channel (`admin_handler.go`); nothing is assumed of the dashboards,
which may stop reading for ever. The alert check is started by its ticker, cooldowns expire, requests end.
In `gateways` a request, a call and a task end for the same reasons; an open order ends
(`OrderLifecycle` says when), a partner that knows no end asks, a callback that was not
acknowledged is tried again until its attempts are used up. The keep-alive and the
daily price run come back however often other work is in their way (strong fairness of
their start, since each is a ticker), and a page leaves the cache by its TTL. No run
assumes that a message arrives: posts, Telegram messages and statements may fail as
often as their bound allows, and liveness is stated with `<>[]` or `[]<>` after that.

## 4. Proofs

`OrderLifecycleProofs` proves `TypeCorrect`: `Spec => []TypeOK` for every value of
the constants. Besides ranges it carries that a debit never makes a balance
negative and that a handler's copy is always a well-formed row.

`OrderMoneyProofs` proves `MoneyCorrect`: `Spec => []MoneyInv`, and from it `RefundsOnce`
(`RefundAtMostOnce`), `RefundsOnlyCharged` (`RefundedOnlyIfCharged`) and
`RefundedCredited` (`RefundedMeansCredited`). None of the three is inductive by
itself. `RefundAtMostOnce` is, because the mutation test is repeated under the
lock. For `refunds <= debits` one must know that a planned credit belongs to an
order that was charged: rows are charged before they exist (`RowsAreCharged`) and
a handler works on a charged order unless it is about to charge it (`Charged`);
the plans of gateway orders hold no credit (`CreditsSaldo`). For the last, a
copy marked refunded is in the hands of `ManualRefund`, which credits or gives
up before it saves (`CopyCredited`). The assumptions are those stated in
`OrderRules` and `OrderLifecycle`: every order has an owner, a method and a positive
price; the three provider classes are disjoint.

`LedgerImplemented` proves that `OrderLifecycle` implements `OrderLedger` with the
database columns `balance`, `debits` and `refunds` as they are: `Debit`, `Redebit` and their
kin are a `Charge`, `Credit` is a `GiveBack` because the money invariant says the
order was charged, and every other action leaves the ledger alone.

`AccountsProofs` proves `Spec => []AccountsInv`, and from it `AccountsTypeOK`,
`MutationsExplainBalance`, `DepositCreditedOnce` and `DepositSettled`. That a
deposit is credited once is not inductive: a handler that is about to credit
must know that no credit was made and that nobody else is about to
(`PayerIsAlone`). A webhook knows it because only one conditional update finds
the row pending; an admin's request knows it because it is alone and the row
is still pending (`AdminIsAlone`). `ApprovalAccounted` ties the status to the
credit, the credit to come, or the credit that was lost. `GoodJob` lists what a handler may hold.
The assumptions are `AccountsAssumption` (each deposit has an owner and a positive amount)
and `RefAssumption` (a deposit's reference is not that of an order or an edit).

`ServicesProofs` takes the services of `MCServices` one by one. `CleanStop` is
`CleanStopKeepsQueue` for any number of
workers and any queue. Its invariant `PoolInv` follows an early task: it is in the
queue, in a worker, or done (`EarlyTaskPlaced`), and a worker that has left did so
when no early task was queued (`WorkerLeft`), which stays true because no task
becomes early after the cancel. `OneLookup` comes from
`GuardInv`: whoever leads a lookup is the one marked for its key, and each mark
belongs to a leader. The two must be carried together, since a new lead is
excluded by the mark and a mark is cleared by its own leader. `CopyFollowsTable`
is `RolesAtRest` for any number of saves,
roles and resources. The copy is allowed to differ from the table while a save has still to
refresh (`CopyIsFresh`); what a refresh has read is the table, or a later save still has its
refresh to come (`ReadingIsFresh`), and one refresh at a time holds the lock (`ReaderHoldsLock`).
`PacedForAll` is `ReconcilerPaced` for any orders, providers, goroutines and gaps: the claim and not the
window decides who is spawned, so an order has one goroutine, and a slot is noted under the mutex before
it is waited for. `ServicesTypeCorrect` is `ServicesTypeOK` for every size; what needs an argument in it are
the counts: the semaphore's places are those of the goroutines between acquire and release, the slots of a
shop those of the lookups that run, the sender's hits and a dashboard's channel stay in their capacity, and a
dashboard is in the hub's list at most once. `EveryDashboardServed` is `NobodyMissed` for any dashboards,
announcers and channel sizes, from `HubInv`: a dashboard that a broadcast has still to serve is ahead of it in the list
it holds (`DueIsAhead`), which stays true because `Unregister` never changes a list in somebody's hands. The assumptions are those the modules state for
their constants.

`ProviderAdaptersProofs` proves `FailuresAreFinal`, `SuccessesAreFulfilled` and
`IdsMeanOrders` from `AdapterInv`, for any choice of adapters and any bounds. First the
tables are read once (`WordTables`, `RefusalTables`, `RulesRead`): no adapter makes success of another
word, nor a failure of a refusal that is not for good. Then a result is `Sound` if the
provider's order bears it out, every step leaves the provider's verdicts alone (`Stays`),
and the row, or the copy the call started from, with a sound result applied keeps the
invariant. `IdMeansOrder` needs two more facts: the copy's id means an order too
(`CopyMeansOrder`), or an old copy could bring a void id back; and where nobody can be
asked, a row that says "process" has an id (`ProcessHasId`), so that the next check gives
none away. The assumption is `AdapterAssumption`.

`GatewaysProofs` proves `GatewaySpec => []GatewayInv` and from it `ChargedOnce`
(`ChargedOncePerRef`), `GagalFree` (`GagalIsFree`) and `GatewayLedgerImplemented`
(`GatewayImplementsLedger`), for any number of refs, requests and orders. None of them is
inductive. An invoice number belongs to one request or one row and to the ref it was issued
for (`NumbersIssued`, `NumbersApart`); where the money of an invoice is follows from where its
request stands (`MoneyKnown`); a plain ref has one request at work and one row, and the row comes
after the request that made it (`OneAtATime`), because the lookup of a plain ref does not
miss the row. So money that an invoice of it holds is that of a row or of the request at work
(`Accounted`), which is `ChargedOnce` by counting, and a "Gagal" that speaks of the order (rc 02, 07 or 17) is
only ever said of a failed row, or when there is neither row nor request (`GagalIsTrue`), which
is `GagalFree`. The "Gagal" of rc 40 is left out: a bad key or callback URL earns it whatever became of the order. A credit is a `GiveBack` of the ledger since whatever is credited was charged
(`MoneyKnown`). The assumption is `GatewayAssumption`.

For the catalogue it proves `RouteStaysOwn`: `RouteIsOwn` from `CatalogueInv`, for any number of workers, any
pairs of works and any bounds. The row alone is not inductive, since writers save whole copies: each copy
of the nominal names SKU and price of the provider the copy names (`TasksRoute`), each product row
the SKU of its provider (`RowsRoute`), and a step left in a plan is one its kind of work has (`StepsOf`), so that
only a switch ever writes another provider, and it writes SKU and price with it.

For Kiosgamer it proves `OrderIsOwn`: `OwnOrderOnce` from `SessionInv`, for any calls, transactions and
orders. Where a key lives on, a call past its start finds it in the jar and carries it (`KeysLast`), so the
shop does not refuse to show an order that was just bought. A transaction has one call at work on it (`OneWorker`); a
call that may still pay knows no id, and then every order of the transaction at the shop failed; one that polls has the
id of the one order that may still deliver (`FitsOrder`, `Covers`); and the same holds for the id in the row (`ItemKnown`). So the
retry of an order that failed for want of shells, whose id the adapter drops, buys a second order only when the first is dead, and a
success heard of an open order ends the transaction while no other order of it is alive. The
hypotheses are in the property itself: the crew is one of `Lasting`, and the transaction's purchase loses no
answer and nobody asks for its status before its id is known (`Steady \ Looked`). Each is needed, as 5 says.
`GatewaysTypeCorrect` is `GatewaysTypeOK`; it assumes that `Tokens` is infinite, because the shop
invents keys without end and `NewToken` must find one. In the runs a bounded number of troubles
needs six.

`OrderPaymentProofs` and `OrderDeliveryProofs` prove the properties of orders that are about some of the
handlers only. `Runs(k)` says that handler `k` is in `Kinds`, and for an admin's operation that
`MaxAdmin` allows one; that is how a theorem names the handlers it is about. Orders, users, handlers at
work, providers, outcomes, amounts and the other bounds are arbitrary, and unless said otherwise so are
failing statements and restarts.

| theorem | property | hypotheses | why they are needed |
| --- | --- | --- | --- |
| `SuccessNeedsDelivery` | `SuccessIsDelivered` | no `setSuccess`; no provider is Kiosgamer | an admin marks a row successful by hand; Kiosgamer's checks call an open or another's order a success |
| `OnePayment` | `PaymentAcceptedOnce` | no `check`, no `regen` | both save a whole copy, and with it "pending", over an accepted payment |
| `PaidBeforeSubmitted` | `UnpaidNeverSubmitted` | the same, and no `retry` | a retry buys for a failed order, paid or not (finding in 5) |
| `MismatchKeptBack` | `MismatchNeverFulfilled` | the same; `Mismatched` orders are gateway orders | a balance order has no webhook to compare amounts in |
| `DeliveredOnce` | `NoDoubleDelivery` | no admin; each provider keeps `ref_id` unique or has Kiosgamer's rules; at Kiosgamer not both webhooks and checks of unpaid orders | an admin's new reference or provider is a second purchase; Kiosgamer's purchase is not idempotent |
| `NoFreeGoods` | `NoGoodsAfterRefund`, which leaves rows at Kiosgamer out | the same | a refunded order that is retried is delivered; Kiosgamer fails orders that are open |
| `RetriedOnce` | `NoDoubleDelivery` | no `reroute`, no `regen`; each provider keeps `ref_id` unique | after a reroute the row names a provider its order is not at (`doc_switch_once`); a new `ref_id` is a new order |
| `BalancesSettle` | `SettledWhenQuiet` | no admin, no failing statement, no restart | each of the last two loses a credit that was planned; a retry charges again |

`SuccessNeedsDelivery` needs `BaseInv`: a handler's copy or the answer it holds says success only of an order
that was delivered, a row that is being created is in nobody else's hands (`CreatesAlone`), and only a webhook
of an order with the right amount plans a mark. `PayInv` ties the mark to the status: a pending row is unmarked,
unverified and nothing was bought for it (`PaidOrder`); a pending copy is in the hands of a creation or of a webhook that has
not written yet, and a handler that is going to talk to a provider works on a paid order (`PaidHandler`). `OnceInv`
says that an order has one reference and at most one order at its provider, and who may purchase next: with an
idempotent `ref_id` anybody, as the second purchase finds the first; under Kiosgamer's rules one
handler at a time (`BuysAlone`), and only while nothing was bought. A planned or made refund then needs the death of that one
order, or that the row was never saved and no creator is left (`Dead`). `SettleInv` says that a failed balance order has its
refund, or a handler that is still to credit it (`Settling`), and that nobody debits an order twice.

`RetriedOnce` allows every operation of an admin but a new `ref_id`, any races, restarts and failing statements, and
the bulk retry that names another provider: `Save` undoes that choice, so the row stays where its order is. `RetryInv` says that the
row and every copy of it name the one provider the product points at and the one `ref_id` of the order (`AtRoute`, `OnRoute`); a
purchase or check after the first therefore finds the first order. No theorem is about retries across a
reroute, because `OneProviderAtATime` is false of the code: a retry after a reroute buys at the new provider and leaves a row that
names the old one.

One definition was changed by what the provers would not accept: guards of a `CASE` in `Catalogue`
(`Updated`) overlapped, so that TLA+ leaves the choice open where the code
does not; they are disjoint now. The reconciler's window is a set with `Older` for its order,
instead of a sequence that was sorted by recursion.

Only model-checked is liveness, which the proof system cannot reach: `DeliveryReachesRow`, `FailureReachesBuyer`, `AcceptedRuns`,
`JoinedIsAnswered`, `ClaimedIsChecked`, `PolledVerdictArrives`, `AnnouncerGoesOn`, `ChatLearns`,
`PartnerLearnsEnd`, `SessionHeals`, `PriceReachesShop`.

## 5. Findings and limits

The five `doc_*` runs above are disagreements between code and comments. The
same reading gave others that are not kept as runs:

* a status check (`transaction_service.go:1130`) and a reconciliation
  (`:1135-1136`) are said never to create an order; at Digiflazz both may, and
  reconciliation calls `Purchase` for a row that has no order id;
* a balance-hold retry is said never to retry a final order (`:1087`), but the
  copy of the batch query is saved without a second look;
* `ManualRetry` may fulfil an order failed for a wrong amount (`:908`);
* an admin's status check that saves a stale pending copy lets a second webhook
  win (`:919-921`), hence `check` is not among the kinds of `order_payment`;
* `FindByInvoiceNumber` preloads `StatusHistories` (`transaction_repository.go:97`), which `domain.Transaction` does not
  have (`transaction.go:92-96`), and returns an error for every invoice: a reported payment ends at `:902-905` and
  the order stays pending, although `:919` and `:930` say it is moved on and processed. The invoice stream
  (`transaction_handler.go:182-186`) answers 404 for the same reason;
* a reroute set by `resolveProviderCode` (`:474`) or the bulk retry (`transaction_bulk_service.go:211`) does not survive
  the next save of a row read with its provider (`transaction_repository.go:172`): checks ask, and retries buy, at the
  provider the row still names (`doc_switch_once`);
* a retry after a provider switch while the first purchase is in flight buys at
  both (`:1024-1025`);
* a status check that ends in an error is dropped without a trace (`:680-681`); at Digiflazz
  the same call may have created the order of an unpaid invoice, and if the product moves before the
  payment, the new provider is sent it too, even with one handler at a time;
* `setFailed`, and a repeated webhook of a wrong amount after a retry, put "failed" on an order that the
  provider may still deliver, which is all that a retry after a switch asks for;
* `SuccessIsPaid` is refuted in `doc_retry_free` by two handlers that overlap, and no passing run states
  it: the ledger's refinement says that no posting is lost, not that an order was charged for every delivery.

For the adapters, by reading and by the model:

* SIPAS' `CheckStatus` asks nobody and answers with the `ref_id` as order id
  (`sipas/adapter.go:341`). If the first thing that happens to a paid order is a
  reconciliation (its pool task was lost in a restart, or still waits), the row gets an id
  and the order is never sent. `IdMeansOrder` without the history variable `unread` is
  refuted by this.
* SIPAS' callback for a shortage leaves the order id empty "agar Proses Ulang mengirim order baru"
  (`sipas/adapter.go:290`), but `applyResult` overwrites the row's id only with a non-empty one
  (`transaction_service.go:734`), so a retry checks the old order instead.
* OtoMax asks by the `invoice_number` of a saved callback, and each status answer
  overwrites that callback (`transaction_service.go:751`), so only one question can be asked per
  callback. Its partial and unknown words also leave the reconcile queue.
* A callback of ExcellentStore, MumtazShop or BostGame names the order by the provider's
  id; if it comes before the purchase's answer is saved it finds no row
  (`excellentstore/adapter.go:542` speaks of our reference). The reconciler finds the verdict later.
* A provider that is switched off while orders are open turns each order that is asked about into
  "Konfigurasi Error", which the reconcile queue leaves out: `PolledVerdictArrives` ends there.

A lookup that never got a slot is counted against its sender, although only those that
reach the shop should be (`nick_guard.go:43`).

For accounts, two more by the same reading: two approvals of one deposit that overlap
credit it twice (`deposit_service.go:228`, as in `doc_deposit_twice`); a user edit
saves a balance read earlier (`admin_handler.go:692`, and the profile and password
changes of the same handler), which erases postings made in between.

`Submit` promises not to drop a transaction (`pool.go:88`), but the goroutine it
starts for that is not waited for by `Stop`, and a task that arrives while the pool
stops may be queued after the workers have drained. Both are lost with the process; `OrderLifecycle` has this
as `Crash`.

For the partner gateway:

* The lookup's error is dropped and the index of the partner's reference is not unique
  (`H2H_service.go:327-329`), so two requests of one `ref_id` at the same time, or a repeated one
  whose lookup fails, are charged twice. `ChargedOncePerRef` is about the other refs.
* `applyResult` returns before the callback when a final error ends an order
  (`transaction_service.go:705`): the partner learns of it by asking. Admin actions tell the partner
  nothing either.
* A give-back that fails after a failed insert is ignored; the partner was told "Gagal"
  and paid.
* "Gagal" with rc 40 answers a bad key, `user_id` or callback URL before the `ref_id` is looked up (`H2H_service.go:309-325`)
  and a `CheckStatus` whose key or query fails (`:450-460`), also when the order of the ref is open and charged: a partner that
  takes it for the order's end has paid for an order that may still be delivered.

For Kiosgamer:

* A purchase whose answer to `pay/init` is lost (`client.go:742-746`) is failed and refunded while the shop's order is
  open and may deliver (`adapter.go:133-136`), or held without an id and bought
  again; nothing at the shop names our order. So `OwnOrderOnce` is about purchases that
  lose no answer, and `NoGoodsAfterRefund` leaves out rows at Kiosgamer.
* `CheckRecentOrder` takes the account's latest order for the one asked about, whoever bought it, and
  reports success however it stands (`client.go:989`); `parseKiosgamerPoll` reads an open order with display
  fields as a success (`client.go:1058`). `SuccessIsDelivered` leaves out rows at Kiosgamer, `OwnOrderOnce` the
  transactions that are looked for this way.
* A failed order whose message speaks of shells is held with an empty id (`adapter.go:129`), although the case of
  `adapter_test.go:117` expects the id "ORDER-1" (`:125`). A retry of it buys again.
* `HealthCheck` writes the row it read before the exchange without the mutex (`client.go:455`);
  an overlapping recovery's key is undone until the next one. `SessionHeals` is therefore about calls that do not overlap.

For the catalogue: saving a Digiflazz SKU while a rival is active overwrites the nominal's SKU
column (`mixed`); a base price that fails to be written after its cost is repaired by the next
run at Digiflazz only, because the others compare the cost (`price_sync_service.go:173`);
an upsert with `is_active = false` stores the default. `PriceReachesShop` is therefore about nominals at Digiflazz.

For the permissions: a cell that is created with `allowed = false` is stored as true, because gorm writes the column's default
(`role_permission.go:51`; the seeding and the first save of the matrix, `role_permission_repository.go:69`, `:96-133`). `RolesAtRest` says that the copy
follows the rows, not that the rows are what was sent.

For the watch: an all-clear that Telegram refused, or that was due at a restart, is never sent
(`lost`).

Not repaired by anything in the code, hence outside the checked properties: a
deposit approved whose credit failed (`lost`); a gateway invoice whose deposit
row was never inserted; a crash between `UpdateStatus(failed)` and the refund; an ignored error of
`HandlePaymentSuccess`; orders older than the reconciler's window.

### Not modelled

* Rate limiters: token buckets of an external package, one per address, forgotten in a restart.
* Authentication, 2FA: checks of libraries; a counter of failures per user remains.
* IP allow list and watch list: counters saved as whole rows; no order and no money depends
  on them beyond being refused.
* Otomax HTTP protocol: formatting and parsing of texts; its outcomes are in `ProviderAdapters`.
* Tripay channels: an HTTP client; its webhook is `HandlePaymentSuccess`.
* Registry, handlers, start-up, seeding: run once, or bind a request to a service.
* Telegram bot: reads and formats; so do the price-change messages and the reports.
* The LIMIT of the reconcile queue and its 24 hours: they bite with more orders than an
  instance can hold.
* Of modelled components: promos, images, bundles of a switch, price lists of partners, API keys,
  creation and deletion of users, the stream of an invoice (its route is commented out and its lookup fails, 2.5).

## 6. Plan

Done: `OrderRules`, `OrderLedger`, `OrderLifecycle` with their runs, money proofs and refinement;
`Accounts`; the seven modules of `MCServices`; the three of `MCGateways`; the proofs listed in 4.

Left, in this order:

1. `DeliveredOnce` and `NoFreeGoods` with the admin operations that keep them.
2. The tables' answers of `ProviderAdapters` in place of the coarse `Exchange` of `OrderLifecycle`.
3. The refinement of `PartnerGateway`'s `Settle` by the handlers of `OrderLifecycle`, instead of
   the ledger both implement.

A new service gets a module with prefixed names and joins `MCServices` or `MCGateways` through
`focus`.
