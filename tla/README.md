# A verification of webrana-cloud's money and servers

webrana-cloud sells virtual servers.  Customers top up a wallet through the
payment gateway Tripay, buy a plan from the wallet, get a DigitalOcean droplet,
and the platform renews, suspends and terminates what they bought.  The
back end is a set of NestJS services (`src/apps/*`), each with its own
PostgreSQL database, talking HTTP.  This directory models the parts where money
and servers can get lost between two of those steps.

All paths below are relative to the repository, where the code is under `src/`
as in `PROJECT.json`.

## 1. Inventory

### 1.1 Components

| component | where | state | operations | interacts with |
|---|---|---|---|---|
| Distributed cron lock | order-service `common/services/distributed-lock.service.ts`, `modules/lifecycle/lifecycle.scheduler.ts` | table `cron_job_locks` (jobName, lockedBy, expiresAt) | `withLock` = `acquireLock`, body, `releaseLock`; `cleanupExpiredLocks`; `extendLock`, `isLocked`, `getLockInfo` | wraps the five lifecycle jobs in every replica |
| Wallet | billing-service `modules/wallet/wallet.service.ts` | `user_wallets`, `wallet_transactions` | `addBalance`, `deductBalance`, `getOrCreateWallet`, queries | called by deposits, promos, and over HTTP by order-service |
| Deposits | billing-service `modules/wallet/deposit.service.ts`, `modules/webhook` | `deposits` | `createDeposit`, `processPaidDeposit`, `cancelDeposit`, `markExpiredDeposits` | Tripay (transaction, callbacks), wallet |
| Invoices | billing-service `modules/invoice`, `modules/order-client` | `invoices`, `payments` | `createInvoice`, `initiatePayment`, `processCallback`, `expireInvoice` | Tripay, order-service |
| Promos | billing-service `modules/promo` | `promos`, `promo_redemptions` | `validatePromo`, `applyPromo`, `claimWelcomeBonus` | wallet, deposits |
| Order creation | order-service `modules/order/order.service.ts`, `modules/billing-client` | `orders` | `createOrder` | wallet over HTTP, catalog |
| Payment override and provisioning | order-service `modules/order/payment.service.ts`, `modules/provisioning`, `order.service.ts` | `orders`, `provisioning_tasks`, a polling loop in memory | `updatePaymentStatus`, `startProvisioning`, `executeProvisioning`, `pollDropletStatus`, `retryProvisioning` | DigitalOcean |
| Lifecycle | order-service `modules/lifecycle/lifecycle.service.ts` | `orders`, `status_history` | four cron jobs: warn, renew, expire, end of grace | wallet over HTTP, DigitalOcean, notifications |
| Order state machine | order-service `modules/order/order-state-machine.ts` | none | `canTransition`, `validateTransition` | every writer of a status |
| DigitalOcean accounts | order-service `modules/do-account` | `do_accounts` | select, count up and down, synchronise, health check | provisioning |
| Notifications | notification-service `modules/queue`, `modules/notification` | three Redis lists, `notification_logs` | `notify`, `addJob`, `processLoop`, `retryFailedJobs`, `clearFailedJobs` | called by order-service; email, Telegram, in-app messages |
| Catalog, authentication, instances, gateway, front ends, shared libraries | `apps/*`, `libs` | own tables or none | CRUD, forwarding, rendering | read-only towards the above |

### 1.2 What is hard

* **Concurrency.**  Several replicas fire the same cron job; requests, webhooks
  and four different lifecycle jobs work on the same rows.  The code protects
  itself with a lease (lock), Serializable transactions (wallet), conditional
  updates (deposit claim, lifecycle jobs), a unique column (provisioning), and
  in several places not at all (a check, then an update by id).
* **Partial failure.**  A deduction is an HTTP call with a 10 s timeout: it may
  be executed after its caller has given up.  A statement may commit and its
  answer be lost.  Catch blocks write compensations that may be wrong then.
* **Crashes.**  Provisioning polls in memory; `createOrder` and the deposit
  callback have windows between two commits; nothing resumes them.  A Redis
  connection that is not restored in three tries is gone until the next start.
* **Delivery.**  Tripay repeats callbacks, late and together, and one invoice may
  have several transactions.  billing-service retries its notifications; the
  notification queue repeats jobs, and forgets some.
* **Caches.**  The number of droplets and the health of an account are kept in a
  row that seven operations write, each from what it read earlier.
* **Long sequences.**  Warn, mark, renew, warn again: the second round starts
  from what the first one left in the history.

`PROJECT.json` lists the hazards one by one, each at its line.

### 1.3 What makes each component correct

* Lock: one body of a job at a time; a live lease is touched by its owner only;
  a tick goes unserved only behind a lease something left behind.
* Wallet: no lost update, no overdraft, the ledger explains the balance; calls
  are atomic (refinement of `AtomicWallet`).
* Deposits: paid, claimed and credited in this order and once (refinement of
  `AtomicDeposit`); never lost without a failure; every payment is settled.
* Order creation: no order goes on without having been paid; no money is taken
  that neither a PROCESSING order nor a known failure stands for.
* Invoices: PAID means that a payment was recorded; an answered callback has left
  its invoice settled; a payment is only lost to a late expiry.
* DigitalOcean accounts: nobody is refused while an account is open; the cached
  number comes right again, and an account is not lost to an outage.
* Welcome bonus: once per user and promo, within the promo's limit, as far as
  claims neither overlap nor break; uses are counted.
* Notifications: a queued job is processed or still listed; an email is not
  repeated without a failure; the queue drains while the process loop is
  connected.
* Provisioning: one droplet per order; ACTIVE means there is a booted droplet
  and its id is known; order and task agree; polling ends.
* Lifecycle: nobody loses a server early, whatever stale row a job works from;
  every renewal was paid for and payments are explained; expiry and the end of
  the grace period are acted upon.

## 2. Modules

| module | models | composed with |
|---|---|---|
| `DistributedLock`, `MCDistributedLock` | lock service and scheduler | |
| `AtomicWallet` | what the wallet promises its callers (abstract) | |
| `Wallet`, `MCWallet` | `WalletService` | implements `AtomicWallet` |
| `AtomicDeposit` | what deposits promise the customer and the wallet (abstract) | |
| `Deposits` | `DepositService`, webhook, Tripay (external) | implements `AtomicDeposit`; a credit is one step, as `AtomicWallet` has it |
| `OrderCreation` | `createOrder`, billing client, HTTP | `INSTANCE AtomicWallet` is billing's side |
| `Provisioning` | override, provisioning, retry, droplet (external) | |
| `Lifecycle`, `MCLifecycle` | `LifecycleService`, four jobs | assumes of the lock that a job does not overlap with itself |
| `Invoices` | `InvoiceService`, webhook, `OrderClientService`, Tripay (external) | the payment-status endpoint of order-service, reduced to PENDING_PAYMENT and PAID |
| `DoAccounts`, `MCDoAccounts` | `DoAccountService`, its scheduler, DigitalOcean (external) | the steps of `Provisioning` and `Lifecycle` an account sees |
| `WelcomeBonus`, `MCWelcomeBonus` | `PromoService` | `INSTANCE AtomicWallet` is the wallet it credits |
| `JobQueue` | `QueueService`, `QueueProcessor`, `notify`, Redis (external) | |
| `*Proofs` | the theorems about the module of that name; `WalletProofs` also those about `OrderCreation`, which spends from the wallets, and `LifecycleProofs` those about `DoAccounts`, to which a termination gives droplets back | extends it and `TLAPS` |

The modules follow one convention.  A row is a record of the columns the
properties tell apart (or a status alone), a process is a program counter
(`pc`, `hook`, `call`, `retry` ...) whose values are the places between two
statements of the code, and **one action is one database statement, transaction
or remote call**; what JavaScript does between two awaits belongs to the
statement before it or after it.  Errors are actions of their own (`...Error`),
with one disjunct for each way the statement may have ended: without effect, or
with it and the answer lost.  Definitions called *a mutant of ...* are the
plausible mistakes that the properties are shown to detect; no specification
uses them.

### 2.1 DistributedLock

`row[j]` is the row of job `j`; an invocation `r` (replica, job, tick) goes
waiting, upsert, verify, running, release.  `Fire` reads the clock into `at[r]`,
`Upsert` is the `INSERT .. ON CONFLICT DO UPDATE .. WHERE` with that stale time,
`Verify` the `findUnique` behind it, `Finish` the body (the cleanup job deletes
expired rows), `Release` the `deleteMany`.  `AcquireError` and `ReleaseError`
are the catch blocks, `Crash` kills a replica with all it runs.
`LockAssumption` says what the scheduler's five `@Cron`s have: a job's period is
at least its TTL.  The replicas share one clock: the code compares `Date`s of
different machines, and the model takes their clocks as synchronised.
`extendLock`, `isLocked` and `getLockInfo` are not modelled; nothing calls
`extendLock`, and the other two only read.

`Overrun` decides whether a body may outlive its TTL.  With `Overrun = FALSE` no
body does; that is the assumption behind mutual exclusion, because the lease is
never extended and the body never looks at it again.  With `Overrun = TRUE`
mutual exclusion is false, and `LiveLeaseKept` still holds.

### 2.2 Wallet

`Read` begins the transaction, `Commit` ends it: the balance is computed from
`seen[c]`, what was read.  PostgreSQL's Serializable isolation is the conjunct
`Serializable(c)`: the row is as it was read (first committer wins), which is
what the isolation level guarantees to transactions that read and write one
row.  `Abort` is any conflict, timeout or lost connection.  A missing wallet is
created by a credit, or by `getOrCreateWallet` behind any balance query.  A
call that aborts is not retried: the code has no retry.  Amounts include 0,
which is what a free order asks for, and sums that do not fit the column.

### 2.3 Deposits

A deposit's row is created, linked to its Tripay transaction (`Link`), rolled
back or abandoned; `Pay` is the customer; each callback (`hook[w]`) runs `Find`,
`Claim` (the conditional update of `processedAt`), `Credit`, and on an error
`MarkFailed`.  `cancelDeposit` is a check and a later unconditional update.
The credit is one step because `Wallet` implements `AtomicWallet`; it may commit
and still answer with an error.

The customer pays only what was linked: a transaction Tripay created for a row
that was rolled back, or never linked, is not modelled (section 5).  The
bonus of a deposit is 0 in the code, so its credit is dead; that the update
which records it may throw is the effect-free case of `CreditError`.

The module implements `AtomicDeposit`: a row exists while `row[d]` is one, a
deposit is claimed when its row is processed, and payments and credits are the
same variables.  Inserting a row maps to `Create`, its rollback to `Remove`, the
customer to `Pay`, the conditional update of a callback to `Claim`, its credit to
`Credit`, also when either commits and answers with an error; linking,
cancelling, expiring, marking and answering are stutters.

### 2.4 OrderCreation

`call[o]` walks through `createOrder`; `debit[o]` is the HTTP request, which
billing executes (`ApplyDebit`, a step of `AtomicWallet`) or refuses at any time
after it was sent, also when its caller has timed out, failed or died.
`CreateRowError` is the insert outside the try block, `ProcessingError` the
update inside it, and `AnswerError` the last read, whose promise is returned
without `await`, so that the catch block never sees its error.

`ApplyDebit` over-approximates the code.  billing-service validates every body
with `whitelist` and `forbidNonWhitelisted` (billing-service `main.ts:28-37`), and
`DeductBalanceDto` (internal-wallet.controller.ts:22-27) carries no validation
decorators, so all its fields are unknown to the pipe and the request is refused
with 400 before `WalletService` is reached.  Read strictly, every debit is a
`RefuseDebit` and no order gets past FAILED: the same kind of defect as
finding 2.  The model keeps the debit that succeeds, so that the properties also
speak about the flow the code was written for and will have once the class is
decorated.  The behaviours of the code are a subset of the model's, so the safety
properties hold of both.

### 2.5 Provisioning

`pc[w]` is one PAID override and the background work it starts: two checks of
the status, the update by id, the check in `startProvisioning`, the task (whose
`orderId` is unique), the update to PROVISIONING, the droplet, and the polling
loop with its counter.  `retry[r]` is `retryProvisioning`.  `Boot` is
DigitalOcean.  Orders start in PENDING_PAYMENT, the column's default and the
only status an override accepts; the wallet flow of `createOrder` does not
reach `startProvisioning` (`startProvisioningAsync` is a stub), so the two
modules are about different orders and are not composed.

Not modelled here: which DigitalOcean account is chosen (see `DoAccounts`), the
payment statuses other than PAID, histories, `handleProvisioningSuccess` and `handleProvisioningFailed`
of `OrderService`, which no code calls.

### 2.6 Lifecycle

Four jobs, four locks, so all four overlap.  A job runs `findMany` once and
works the list off; the model takes one run apart into one worker per order
(`pc[j][o]`, `snap[j][o]`), which allows every order of the list and every
staleness the loop has.  The `now` a job compares with is the clock at its
query: a later selection with an older `now` selects nothing that an earlier
selection, followed by a pause, would not have.  Updates that carry
`where: { version }` are conditional on the snapshot (`Unchanged`); the renewal
is not.  `RenewalError` is an exception inside `attemptRenewal`, with or without
the effect of the step; `Stop` is any other exception, and a crash.  A
deduction that is executed after its caller has given up happens in the step in
which the caller gives up; the wallet is otherwise only spent from.
`manualRenewal` and `restoreSuspendedVps` have no callers and are not modelled.

Two things about this module go beyond what the code can do at this commit.
Orders start ACTIVE with an expiry, as `handleProvisioningSuccess` makes them
(order.service.ts:842-868), and with `autoRenew` set, as `createOrder` does by
default.  That method has no caller, and nothing else sets an expiry: the path
that runs, `markProvisioningSuccess` (provisioning.service.ts:432-435), sets the
status alone, so all four jobs, which select by expiry, would find nothing.  And
`Charge` may succeed, although billing's validation refuses the deduct request of
a renewal as it does that of `createOrder` (2.4), so that the code always takes
the branch of a failed renewal.  The properties, finding 1 included, are about
orders that have an expiry (set by hand, or once the method is called), and those
about renewals also assume a billing-service that accepts the request.

### 2.7 Invoices

`invoice[o]` is the status column; `call[t]` is one `initiatePayment` with the
transaction it opens at Tripay (`transaction[t]`), which a customer may do more
than once for one invoice, and which may itself expire the invoice
(`ExpireCheck`, `ExpireWrite`: a read, then an update by id).  `hook[w]` is a
callback: `Find` reads the status, `Record` inserts the Payment, `Mark` updates
the invoice by id, `Notify` and `NotifyLost` are the requests to order-service.
`HookError` is any statement that throws, with or without effect.  Tripay
resolves a transaction once; a customer pays only with a payment code that was
shown, so not after a failed `initiatePayment`; a transaction expires with its
invoice, whose `expiredAt` it was given (`overdue`).

The endpoint of order-service is `OrderAfter`: it validates the fields of the
body, and changes an order that is PENDING_PAYMENT.  `Override` is an
administrator's call of the same endpoint.

### 2.8 DoAccounts

`account[a]` is the row (health and cached number), `droplet[p]` what
DigitalOcean runs, `up[a]` whether its API answers.  A request `p` selects
(`StartSelection`, then `Look` and `Take`, `Skip` or `MarkUnhealthy` per
account), creates its task, its droplet, counts up, and at the end of its order
is destroyed and counted down in two steps.  `SyncRead`/`SyncWrite` and
`CheckRead`/`CheckWrite` are the scheduler's jobs, `DeleteCheck`/`Delete` an
administrator's deletion, `GoDown`/`ComeUp` an outage.  The order in which a
selection tries its accounts is left open.  `Look` takes the read of the row and
the droplet count of the API as one step; in the code the second comes a request
later.  `free` is a history variable: the accounts that were open to `p` all the
time it was selecting.

Not modelled: `update` (inactive accounts, the primary flag, another token),
changes of the droplet limit, alerts, console and power actions.

### 2.9 WelcomeBonus

A claim is three steps: `Check` reads the promo and its redemptions (a `findFirst`
with an `include`, which Prisma sends as two SELECTs; what comes between them is
a step of a claim that overlaps, or of an administrator), `Credit` is
a step of `AtomicWallet`, `Record` the transaction of `applyPromo`; `Break` ends
it anywhere, with or without the effect of its next step.  Administrators switch
promos (`SetActive`) and delete them (`DeleteCount`, `Delete`).  `overlaps` is a
history variable: the pairs of claims that were under way together.  The dates of
a promo act like its switch.  The deposit promos are not modelled: the deposit
service computes a bonus of 0 and never calls `applyPromo`.

### 2.10 JobQueue

`queue`, `processing` and `failed` are the Redis lists, `hand` the job the
process loop works on and how far it has come, `online` which of the two
connections (`publisher`, `subscriber`) are not closed for good.  Each Redis
command is an action.  It fails in two ways: its answer is lost, with or without
its effect (`Fails`, which costs one of `MaxFaults`), or its connection is closed
and it throws at once without effect (`Closed`).

`Disconnect` is `retryStrategy` returning null behind three tries
(queue.service.ts:54-57, 62-65), for one connection or both.  `Restart` is a death,
or a restart for the sake of the connections; it ends with both connections, or
with none if the ping fails (:68-74), and `Init` has the same two outcomes.
Nothing else ever restores a connection.  A client that is null and one that is
closed are the same here: `addJob` answers null for either, the other commands do
nothing to the lists, and the loop pops nothing.

`Handle` and `ProcessSync` are a handler run, one step with every outcome: an
email sent or not, an exception or not.  (A refused email is a FAILED result and
no exception: it is not retried.)  `Retry` and `Reset` are the two commands of
`retryFailedJobs`, of which one call runs at a time, and an error of either ends
the call; `Clear` is `clearFailedJobs`, of which the DEL alone matters.
`completed`, `doubtful` and `dropped` are history variables: what has been
processed, what a failure may have repeated, what was lost between lists.

## 3. Runs

Every passing run checks deadlock; each module has a `Terminated` step that
says what a legal end is.

| run | bounds | what it shows |
|---|---|---|
| `distributed_lock` | 2 replicas, a job whose TTL equals its period with 2 ticks, the cleanup job, clock to 5, jitter 1 | mutual exclusion, leases held while running, live leases kept, no tick skipped without a reason, under crashes and errors at every statement |
| `wallet` | 3 calls on 2 users, amounts 0, 1, 2, column up to 3 | ledger, overdraft, refinement of the atomic wallet |
| `deposits` | 2 deposits, 2 callbacks each (`Attempts`) | idempotent credit, no silent loss, refinement of the atomic deposit, settlement |
| `order_creation` | 2 orders on one wallet, prices 0 and 2, up to 3 of funds (`MaxFunds`) | paid or not processed, charges known, every call decided |
| `provisioning` | 1 order, 2 overrides and 2 retries (`Attempts`), 2 polls (`MaxPolls`) | one droplet, rows agree, polling ends, ACTIVE stays |
| `lifecycle` | 1 order of either plan, clock to 7 (`MaxTime`), funds for 2 renewals, 2 faults | nobody suspended or terminated early, payments explained, expiry handled |
| `invoices` | 1 invoice, 2 transactions (`Initiations`) with 2 callbacks each (`Attempts`), 2 notifications (`MaxRetries`) | PAID is paid, answered is final, payments leave a trace, PAID is lost to a late expiry only |
| `do_accounts` | 2 accounts with room for 1 droplet each, 2 requests, jobs, outage and deletion on one of them (`Managed`), 1 outage (`MaxOutages`) | refusals justified, the cached number converges, health recovers |
| `job_queue` | 2 jobs, 2 attempts, 2 manual retries (`MaxRetries`), 1 failing command, lost connection or death (`MaxFaults`), starts with and without Redis | nothing lost, nothing mailed twice without a cause; the queue drains while `subscriber` is connected, whatever becomes of `publisher` |
| `welcome_bonus` | 3 claims of 2 users, a promo limited to 1 use and an unlimited one, 2 administrator's changes (`MaxChanges`) | double credits and exceeded limits need an overlap or a failure; uses are counted |
| `lifecycle_renewal` | clock to 8, no faults, time waits for the jobs | finding 1 |
| `invoices_order` | 1 invoice, 1 transaction, 1 callback, 3 notifications | finding 2 |

Why the bounds are enough to see the interesting cases:

* lock: two replicas and two consecutive ticks are what a takeover needs; the
  cleanup fires at 4, between the second tick and its deadline, and clocks may
  be read a unit after the tick.  Only the renewals job is contended over two
  ticks; a third tick repeats the second.
* wallet: two calls race for a row, the third makes the chain of entries longer
  than one conflict; 2 + 2 overflows the column at 3, 1 - 2 overdraws.
* deposits: two callbacks are the least that can race; cancelling and expiring
  go on beside them.  Deposits share nothing, the second shows that a claim
  stays with its own.
* order creation: the two orders cannot both be paid from 3 at price 2, each
  could alone; a free order is among them.
* provisioning: orders share nothing, all the races are between requests for
  one order; two of each kind meet in every order.
* lifecycle: the time constants keep the code's order (a warning before the
  expiry, the last one within the renewal window; grace 0 and immediate
  destruction for the daily plan, suspension and a grace period for the monthly
  one); 7 is past expiry, grace and one renewal of either plan.  The wallet is
  the only thing orders share, and `Spend` stands for whatever the others do to
  it.

* invoices: two transactions of one invoice with two callbacks each are the least
  that races in every way (the same transaction reported twice, a payment and an
  expiry, two payments); invoices share nothing.
* do_accounts: two requests for accounts of one droplet each compete for the last
  room; one account without jobs, outage or deletion is the one that a wrong
  refusal would overlook.  One outage is what makes an account unhealthy.
* welcome_bonus: two claims of one user race, the third is another user's or
  comes after them; the limit of 1 is passed by the second.
* job_queue: two jobs are needed for one to be overwritten by the reset of
  another; two attempts have a retry and a last failure; the second manual retry
  finds a job that was retried before.  Only one fault: two would let every loss
  be explained by the other.  Restarts for a closed connection are not counted, so
  that a start without Redis, its restart and a fault behind it are one behaviour.

The type invariants are proved (section 4) and not checked again by the runs,
except for those of `DoAccounts` and `JobQueue`, which are both.

### 3.1 Fairness

* `Deposits`: `WF(Find)`, Tripay delivers a callback it has sent (it retries
  until it is answered); `WF(HookStep)`, a handler that runs ends, in an
  answer, an error or the death of its process.  No fairness for the customer,
  cancellation or expiry.
* `OrderCreation`: each `createOrder` that runs ends somehow: answers, errors,
  the timeout or the death of the process (`WF(Step(o))`); and billing executes
  or refuses a request that was sent (`WF(BillingStep(o))`), which is what its
  HTTP handler does whether or not the caller still waits.
* `Provisioning`: `WF(Step(w))`, a request or polling loop in progress makes a
  step; dying is one of its steps.  None for overrides, retries or DigitalOcean:
  the loop must end without a droplet that boots.
* `DoAccounts`: the scheduler synchronises every account again and again
  (`WF(SyncRead)`, `WF(SyncWrite)`), and an outage ends (`WF(ComeUp)`).  None for
  requests, health checks or administrators; `CountConverges` assumes instead
  that requests come to rest.
* `JobQueue`: `WF(Loop)`, the process loop goes on after every error (the catch
  block sleeps and iterates again) and a handler run ends.  `Pop` needs the
  `subscriber` connection, so the fairness says nothing about a loop that has lost
  it, and there is none for `Restart`: nothing in the code brings a connection
  back.  `QueueDrains` is therefore conditional, on a `subscriber` that is connected
  from some point on.  None for producers or administrators.
* `Lifecycle`: `WF(Work(j, o))`, the cron job fires again and again and works
  off what it finds.  None for time, spending or faults.

### 3.2 Findings

Places where the code does other than its own comments and documents say; each
has a run whose counterexample shows it.

1. `lifecycle_renewal`: a warning threshold is recorded once for all periods,
   and a renewal clears nothing.  Only a threshold not recorded yet can mark an
   order EXPIRING_SOON again, so when they are used up (a daily plan has one:
   after its first renewal) `processAutoRenewals` never finds the order, and it
   is lost with a full wallet.  (For orders that get an expiry, and renewals that
   billing-service accepts; see 2.6.)
2. `invoices_order`: billing-service reports a payment with the fields `status`,
   `reference` and `paidAt`; order-service refuses fields its DTO does not know
   with 400, which is not retried, and `processCallback` swallows the error.  The
   order of a paid invoice never becomes PAID.

### 3.3 Further configurations

Six more configurations show what one would wish and the code does not do; each
ends in a counterexample (`tlc -config X.cfg M`).  The passing runs above state
what holds in spite of them: `NothingLostInSilence`, `ChargedOrKnown`,
`ActiveStays`, `OnlyRenewalRevives` and `NothingLost` name the steps that are able
to do the damage and exclude every other.

* `DepositsRetry.cfg` (`Deposits`, `FailedIsUnclaimed`): the catch block of
  `processPaidDeposit` announces to roll `processedAt` back
  (deposit.service.ts:273) and does not.  A paid deposit whose credit failed is
  answered as *already processed* for ever.
* `OrderCreationFailed.cfg` (`OrderCreation`, `FailedCostsNothing`): a lost answer
  to a deduction that was executed is taken for a failed deduction
  (order.service.ts:260): FAILED, charged, no refund.
* `ProvisioningPaid.cfg` (`Provisioning`, `PaidOnlyFromPendingPayment`): two
  overrides validate, one provisions, the other then writes PAID over
  PROVISIONING, ACTIVE or FAILED (payment.service.ts:65 says otherwise).
* `LifecycleTerminal.cfg` (`MCLifecycle`, `TerminatedFinal`): a renewal that is in
  its HTTP calls while its order is terminated writes ACTIVE over TERMINATED; the
  droplet is gone.
* `JobQueueReliable.cfg` (`JobQueue`, `ReliableProcessing`): BRPOPLPUSH is used
  *for reliable queue processing* (queue.service.ts:169), but nothing ever reads
  the processing list: a job whose process died stays there.
* `JobQueueOutage.cfg` (`JobQueue`, `OutageSurvived`): one would expect queued jobs
  to be processed once Redis is back.  `retryStrategy` stops after three tries,
  about 1.2 s (queue.service.ts:54-57, 62-65), and a start whose ping fails sets both
  clients to null (:70-74): the jobs wait until somebody restarts the process.

## 4. Proofs

Checked by TLAPS for all values of the constants that meet the named
assumptions of the modules. Where a module holds proofs about a second
component, they have a row of their own; the two components share nothing there,
and the names of the second (`CreationSpec`, `PoolSpec` ...) are prefixed for it.

| module | theorems | inductive invariant |
|---|---|---|
| `DistributedLockProofs` | `TypeCorrect`, `LeaseHeld`, `JobsExclusive`, `LeaseKept`, `SkipsExplained` | `LockInv`: an active invocation is within its deadline (`Timely`); a runner owns the row with the lease its own upsert wrote (`RunnerHoldsLease`); a verifier that sees its name in the row wrote that lease itself (`OwnLease`).  Two invocations of one job by one replica cannot be active together because period >= TTL (`NoOverlap`).  `LeaseKept` needs none of that, only that `now` is never in the future (`PastNow`).  `SkipsExplained` adds `SkipInv`: every row has the invocation that wrote it (`RowHasWriter`), and an upsert that was refused has a reason that lasts, an earlier lease left behind or a replica that serves the same tick |
| `WalletProofs` | `TypeCorrect`, `NeverOverdrawn`, `LedgerChained`, `Refinement` | `WalletInv`: what a transaction read was a legal balance and its amount is positive; for the ledger, the chain and the link from its last entry to the row.  The refinement maps `Commit` to `Apply` and every other step to a stutter |
| `WalletProofs`, of `OrderCreation` | `OrdersTyped`, `Paid`, `Returned`, `ChargesKnown` | `CreationInv`: call, row and request of one order agree place by place (`StepsAgree`) |
| `DepositsProofs` | `TypeCorrect`, `CreditIdempotent`, `LossHasCulprit`, `ClaimKept`, `CreditShown`, `Refinement` | `RowThere`: a row exists exactly while creation says so, and callbacks only run for paid deposits; `ClaimInv`: at most one callback holds the claim of a deposit, while it does nothing is credited, and credited implies claimed.  `CreditShown` adds `StatusInv`: a credited deposit is PAID, or something that can explain another status has happened, and that stays so.  `Refinement` uses `ClaimInv` for the guards of `AtomicDeposit`: only a paid deposit has a callback that claims, only a claimed and uncredited one is credited, and a row that is rolled back has not been paid |
| `ProvisioningProofs` | `TypeCorrect`, `DropletOnce`, `ProvisionerAlone`, `ActiveServed`, `TasksAgree`, `ActiveKept` | `OrderInv` (order, task, droplet and count agree) and `WorkInv` (what the one provisioner may rely on).  The heart is the last conjunct of `WorkInv`: once a failure has been recorded, the droplet errored or the provisioner has only the failure left to write, so a retry that resets the rows is never overtaken by a success |
| `JobQueueProofs` | `QueueTypes`, `AttemptsBounded`, `JobsKept`, `MailsOnce` | `Attempts`: a waiting job has been tried less than `MaxAttempts + retries` times, a failed one at most that often (each manual retry may return a job to the queue once before it resets it).  `HandKept`: the job in hand is in the processing list or has been completed; with it no command takes the last copy of a job without a recorded cause.  `OnePlace`: a job that no failure has made doubtful waits, is in hand or has failed in one place only and once, and has not been mailed unless it is gone, or in hand: succeeded, or failing for want of the connection that would acknowledge it, in which case it cannot be returned to a list either |
| `InvoicesProofs` | `TypeCorrect`, `Paid`, `Answered`, `PaymentsTraced`, `PaidOverwritten` | `Inv`: a transaction exists once it was asked for, and what expires is overdue (`CallInv`); a callback at work has recorded what its place says, and an answered one left its invoice final and its payment traced (`HookInv`); PAID rests on a recorded payment, EXPIRED on a passed deadline (`InvoiceInv`).  `KeptNext`: payments, deadlines, final invoices and resolved transactions are never taken back, which keeps all of it stable under the other actors |
| `WelcomeBonusProofs` | `TypeCorrect`, `OnceApart`, `LimitApart`, `Counting` | `Inv`: the steps of a claim come in their order (`Agree`), two claims of one user that passed the check of one promo were under way together (`Apart`), uses are redemptions (`Counted`).  `LimitInv` for the limit: the redemptions a claim under way did not overlap with are those its check has counted, so fewer than the limit (`Limited`) |
| `LifecycleProofs` | `TypeCorrect`, `NothingEarly`, `RenewalRevives`, `ChargesExplained`, `RunningServed` | `Fresh`: a snapshot is never newer than its row, and equal versions mean an equal status, expiry and suspension; `HasReason`: what was selected was due by the snapshot.  `NothingEarly` and `RenewalRevives` follow; `ChargesExplained` adds that a renewal in hand has one charge more than renewals (`PaidFor`), `RunningServed` that a server is touched only behind the suspension or termination of its row, which a renewal alone undoes (`ServerInv`, `DownStays`) |
| `LifecycleProofs`, of `DoAccounts` | `PoolTypes`, `RefusalsJustified` | `PoolInv`: while a request selects, each account that has been open all along is still to be tried, or under trial with a number read that leaves room (`Pending`, `UnderTrial`); so a refusal leaves none.  That synchronisations, health checks, deletions and other requests keep this rests on `free` dropping an account with the step that closes it |

Assumptions: `JobsExclusive`, `LeaseHeld` and `SkipsExplained` assume `~Overrun`;
the others hold for either value.  All need `LockAssumption` (period >= TTL),
`WalletAssumption` (integers, and a value for *no row* that is no row) and their
like, which TLC evaluates in the runs.  `DoAccounts` asks for finitely many
requests, because it counts droplets; `JobQueue` for a `None` that is neither a
job in a list nor one in hand.

Only model-checked: liveness (`PaymentSettled`, `Decided`, `ProvisioningEnds`,
`ExpiryHandled`, `CountConverges`, `HealthRecovers`, `QueueDrains`), which needs
fairness and so ENABLED, out of the prover's reach.  Every safety property of a
passing run is a theorem.

## 5. Not modelled

* Catalog: plans, images and prices are CRUD; `redeemCoupon`, the operation with a
  race (a limit checked before it is counted), has no caller.  `createOrder` prices
  an order from `plan.pricings` and `plan.promos` (`order.service.ts`), the contract
  its catalog client declares; `GET /catalog/plans/:id` answers with `findById`,
  which loads neither relation, although the catalog's own integration test expects
  `pricings` there.  `OrderCreation` therefore starts at the balance check, with a
  price in hand, and says nothing of how it was quoted.
* Authentication: accounts, tokens and sessions; it shares no state with the
  modelled parts.
* Instances: a view of orders and droplets that forwards actions to DigitalOcean.
  It shows only orders whose task is `COMPLETED`, a status that order-service never
  writes (its tasks end in `SUCCESS`), so that there is no shared state to compose.
* API gateway, front ends and shared libraries: stateless routing, rendering,
  guards and types.
* In the modelled components: `extendLock`, `manualRenewal`,
  `restoreSuspendedVps`, `handleProvisioningSuccess`, `handleProvisioningFailed`
  and the deposit promos, which nothing calls; queries, histories and logs;
  Telegram and in-app messages, which `JobQueue`'s email stands for; updates of
  DigitalOcean accounts and of a promo's amounts and limits.
* A Tripay transaction of a deposit whose row was rolled back: `createDeposit`
  throws, so that no customer is shown its payment code, and it expires unpaid.
* Steps that are missing from the code: `startProvisioningAsync` is a stub, so
  that no order of the wallet flow reaches provisioning; the two halves are
  modelled apart.

## 6. Plan

Done, in this order: lock; wallet with its abstract specification; deposits;
order creation on the abstract wallet; provisioning; lifecycle; proofs about all
six; invoices and welcome bonus, with proofs; DigitalOcean accounts; job queue;
the abstract deposit, its refinement, and proofs about accounts and queue.

Left:

1. `Invoices` composed with `Provisioning`: what a repeated notification would do
   to an order once its fields are accepted.
2. `DoAccounts` with inactive accounts and changing limits.
3. `Lifecycle` on the lock of `DistributedLock` instead of the assumption that a
   job does not overlap with itself.
