# Verification of the Onlinod backend

Onlinod is a Node.js / Express / Prisma / PostgreSQL backend for agencies that
manage creators. Desktop clients claim jobs from it and report results, the
backend talks to payment, mail and messaging providers, and a maintenance pump
turns every write into derived data. Almost everything that is hard in it is a
protocol between processes that meet only in PostgreSQL: leases, fences,
revisions, receipts and retries. That is what this project models.

Paths are relative to the repository. `DW` stands for
`src/src/services/domain-work-authority-service.js`, `CK` for
`src/src/services/db-commit-kernel.js`, `AC` for
`src/src/services/admin-commit-authority-service.js`, `PW` for
`src/src/services/programmatic-of-write-authority-service.js`, `MQ` for
`src/src/services/mass-queue-observation-service.js`, `JL` for
`src/src/services/job-lease-service.js`, `TG` for
`src/src/services/telegram-delivery-authority-service.js` and `MIG` for
`src/prisma/migrations/20261009000000_current_baseline/migration.sql`.

| | Code | Model | Promise | Proofs |
|---|---|---|---|---|
| the durable work queue | `DW`, triggers in `MIG` | `DomainWork` | `IncrementalView` | `DomainWorkProofs`, `DomainWorkWakeProofs` |
| commands of administrators on the commit kernel | `AC`, `CK` | `AdminCommand` | `CommandOutcome` | `AdminCommandProofs` |
| writes to the provider through desktop devices | `PW`, `MQ` | `ProgrammaticWrite` | `ExternalWrite` | `ProgrammaticWriteProofs` |
| top-up orders, the wallet and the creators' subscriptions | `billing-nowpayments-service.js`, `billing-provider-event-service.js`, `billing-wallet-service.js` | `Billing` | `MoneyLedger` | `BillingProofs` |
| leases on jobs | `JL` | `JobLease`, used by the next two | | with theirs |
| fan refresh jobs: read leases, tokens, facts | `fan-observation-*-service.js`, `fan-data-*.js` | `FanFacts` | `RefreshedFacts` | `FanFactsProofs` |
| subscriber scans, their publication and maintenance | `subscriber-directory-*.js`, `JL` | `SubscriberScan` | `SnapshotHistory` | `SubscriberScanProofs` |
| messages about a custom order, and edits of the order | `TG`, `custom-orders-service.js` | `TelegramDelivery` | `MessageAttempts` | `TelegramDeliveryProofs` |

The `MC` modules name the instances that the `.cfg` files run. `tlc -config X.cfg MCX.tla` checks a run and
`tlapm XProofs.tla` a module of proofs.

## 1. Inventory

The parts of the system, what each keeps, what makes it hard, and what has to be
true of it. `PROJECT.json` lists them with all of their sources.

| Part | State | Operations | What is hard | Correct when |
|---|---|---|---|---|
| domain work queue | one `DomainWorkItem` per identity, `Phase2DependencyState`, `Phase2WorkGenerationAuthority` | publish, claim, heartbeat, save progress, yield, ack, block, fail, repair, bump, wake, activate a generation | publishing never waits for a claim; leases run out under running executors; sleeping rows must be woken; generations change | no invalidation is acknowledged away, every row comes to rest, nobody sleeps through its wake |
| commit kernel | context of one root commit: attempt, prepared work, hints | run, join, prepare, defer and discard hints | the retry of a conflict must leave nothing of the attempt before; hints only after the commit; an unknown outcome is not retried | an effect and what is said of it are durable together |
| admin commands | `AdminCommand`, `AdminCommandAudit`, `AdminSession` | execute, replay, reject, log out | resent commands, identities used for another intent, revocation under a running command | one identity, one outcome, one effect |
| command receipts (operational, management, human control, team, account) | a receipt per command | execute, replay, abandon | as admin commands, each with locks of its own | as admin commands |
| bulk pricing | an admin command with a cursor, a domain work row | enqueue, process item, pause, resume, cancel | answers before it is done; expiry of the session; cancellation against an item | prices, progress and receipt agree |
| programmatic writes | `AutomationDelivery` rows with lease, commit and settlement | intent, reserve, start, prepare, complete, settle, fail, reconcile, close, sweep | the effect is outside the database and done by a device that may disappear | an effect happens at most once and the record is true |
| mass queue observation | snapshots of the provider's queues, fences | begin, append, apply | snapshots that are older than what they speak of | a fact is only drawn from a snapshot that can show it |
| automation deliveries | `AutomationDelivery` rows | claim, start, commit, complete, fail, expire | as programmatic writes, planned by the server | as programmatic writes |
| job leases, scheduler, planning, fairness | `JobInstance` with lease, revision, attempts, continuation | plan, claim, heartbeat, chunk, complete, fail, release, expire | late and repeated results, expiry against completion, rotation of a collection | a result is applied once, by the holder of the lease |
| Telegram delivery | `TelegramDeliveryIntent` with claim revision | create, claim, begin, settle, reconcile, retire the account | edits of an order against the permit to send | one message per intent, of the current revision |
| Telegram inbound | updates, threads, bindings | ingest, project, retry | late and repeated updates | each update is projected once |
| provider gate, credits and debts | waiters, permits, credit windows, debts | wait, grant, start, finish, expire | permits whose start is unknown, waiters that disappear | capacity is never exceeded, no waiter starves |
| wallet | wallet, transactions, periods | credit, debit, renew, refund | repeated and overtaken movements | money is conserved, a period is charged once |
| payments | orders, provider events | checkout, invoice, event, reconcile | events lost, repeated and out of order; an unknown invoice | an order only moves forward, paid money arrives |
| entitlements | periods, access | grant, renew, expire, correct | renewals against changes of the price list | access follows what is paid |
| client key ring | roots, key generations, wraps, device identities | enrol, approve, rotate, retire | a rotation planned on what has changed since | every active device can read, no retired one can |
| user sessions | refresh sessions, lineages, access epochs | login, refresh, revoke | a token used twice, a lost answer | one live token per lineage |
| mail outbox | `AuthMailOutbox` | enqueue, deliver, settle | a mail is sent between two transactions | a mail is sent once as far as the provider can tell |
| creator sessions, network profiles | session revisions, leases | store, lease, revoke | late writes of an old revision | the newest session wins |
| change feed | entity changes, cursors | stage, publish, read | changes of transactions that roll back | the feed shows what is durable |
| maintenance pump | lanes, budgets | run, drain, admit | one lane blocking others | every lane runs again and again |
| retention and destructive deletes | policies, receipts | plan, delete | a delete of what an authority still needs | nothing alive refers to it |
| subscribers, campaigns, fans, dialogs, notifications, earnings, analytics, team, custom content, vault, traffic, conversations | ledgers, projections, read models | ingest, project, read | mostly users of the queue and of job leases | the projection reflects its source |
| HTTP layer, schema, scripts, web pages, telemetry | | | parsing, wiring, records | |

How they meet. Routes run commands in root commits of the kernel. A write
publishes domain work in the same transaction, by a call or by a trigger of
`MIG`, and bumps the dependencies that others may sleep on. The pump claims that
work and runs its executors, which write projections and publish more. Devices
poll for jobs and for automation work; each poll also sweeps what other devices
let expire. Devices, not the server, send requests to the provider of the
creators' accounts, so the server learns of an effect by a report, by a later
readback, or never. Payments, mail and Telegram are effects of the same kind.

Everything that is hard to test in the code is listed under "hazards" in
`PROJECT.json`, at the line where it bites, with the properties that catch it.

## 2. Plan

| | Module | Composes or implements | Questions |
|---|---|---|---|
| done | `DomainWork` | implements `IncrementalView` | lost invalidations, lost wakes, parked revisions, generations, rest |
| done | `AdminCommand` | on the kernel; implements `CommandOutcome` | one effect, true answers, revocation, deadlocks |
| done | `ProgrammaticWrite` | with devices, network and provider; implements `ExternalWrite` | at most once, true record, no blind repetition, the lane is given back |
| done | `Billing`: orders, provider events, wallet, renewals | implements `MoneyLedger` | conservation of money under lost, repeated and late events; an order only moves forward; a month is sold once |
| done | `JobLease`: claim, page, complete, fail, release, sweep | the rows of the next two | attempts counted once |
| done | `FanFacts` | on `JobLease`, with devices and the provider's data; implements `RefreshedFacts` | the later read wins; a finished job has covered its fans |
| done | `SubscriberScan` | on `JobLease`, with the maintenance signal and its workers; implements `SnapshotHistory` | no lost signal, no overtaken scan, one settlement, what is collected gets published |
| done | `TelegramDelivery`: the messages of one order | with the manager's edits of the order and an operator; implements `MessageAttempts` | what is out is on record; the TASK says what the order says; a cancellation follows |
| 3 | `BulkPricing`: a long command under a domain work lease | `AdminCommand`'s receipt with `DomainWork`'s claim | prices agree with progress; cancel, pause and resume |
| 4 | `ProviderGate` | | spacing under unknown starts, waiters are served |
| 5 | `RefreshSession`, `MailOutbox` | | one live token per lineage; settles of late senders |
| 6 | `KeyRing` | | rotation under enrolment and retirement |
| 7 | the snapshot protocol of `MQ`, automation deliveries, the fairness of the claim (`DW` 300-690) | replace assumptions of the modules above | |

Each further module is planned with its type invariant, its main safety invariant and its refinement as
theorems, so recursion is left to functions and folds.
`TelegramDelivery` was to implement `ExternalWrite`; it does not, because here an
operator may say that nothing was sent and be wrong, and the message then goes
out twice. `MessageAttempts` is what it does promise.

## 3. The work queue: `DomainWork`

**State.** `rows` is the `DomainWorkItem` table, one row per identity, with the
columns that decide anything: state, requested, completed and claimed revision,
lease fence, owner, lease, the two due times, dependency and its revision,
cursor, failures with their revision, generation. `deps` is
`Phase2DependencyState.revision`; `open` is what the dependency stands for,
which the database does not keep in one place. `handle` is what an executor
remembers between its transactions: the row as the claim returned it, the page it
is at, what it read of the source and of the dependency. `seen` and `seenGen` are
what the projection's pages reflect: the revision read and the generation of the
executor that wrote them. Deadlines are the ticks that are left.

**Actions.** `Publish` is `publishDomainWork`; `Bump` is
`phase2_bump_dependency` with the publication of its coalescing wake row;
`Activate` a deployment; `Claim` is `claimDomainWorkBatch` for one row;
`Process`, `Capture`, `Observe` and `Wake` are an executor between claim and
settle; `Ack`, `Yield`, `SaveProgress`, `Block`, `Fail`, `Heartbeat` and `Repair`
are the functions of those names, each under `lockDomainWorkClaimForCommit` and
`claimWhere` (`Holds`). Every write of a row goes through `Stored`, the BEFORE
trigger that reopens a row of an older generation whatever the UPDATE asked.
`Crash`, `LoseClaim` and `Tick` are the environment.

Executors differ, and the constants say how: whether a page and its settle
commit together (`Atomic`), whether the cursor carries the revision (`Tagged`),
whether the dependency's revision is read before the dependency is looked at
(`EarlyReaders`), and whether a database outage is free (`RecoveryWork`). The
model is written after the traffic projection, the dependency fan-out, the
reminder and communication executors and the wake.

**Runs** (`MCDomainWork`: one domain row, one dependency with its wake row, two
executors; the safety runs use the symmetry of the executors).

| Run | Checks | Bounds |
|---|---|---|
| `domain_work_pages` | `TypeOK`, `NoLostInvalidation`, `GenerationFenced`, `Promised` | 2 pages, 2 revisions, 2 generations, 2 lapses, park at 2 failures |
| `domain_work_live` | `SleepersAreWoken` (`NoLostWake`, `BlockedForCause` and `ParkedExactly`), `EventuallyAtRest` | 2 pages, 2 revisions, 1 change of the dependency, 1 lapse |
| `domain_work_stale_cursor` | `NoLostInvalidation` fails for an executor outside `Atomic` and `Tagged` | as `pages`, one generation |
| `domain_work_late_read` | `BlockedForCause` fails for an executor outside `EarlyReaders` | |
| `domain_work_parked_generation` | `ParkedExactly` fails across a hand-over | 2 generations |

Two executors are the old holder and the new one; two pages give a cursor that
is neither at the start nor at the end; two revisions and generations give an
old one and a new one; the second lapse lets the successor fail as well. Every
race named in the hazards needs no more than that, and the mutants (an ack that
does not compare revisions, a settle without the claim check, a block that does
not look at the dependency again, a trigger that stores what it is asked) are all
found within these bounds.

**Promise.** `IncrementalView` is what the owner of a projection gets out of the
queue: each part follows its source and neither goes back (`NoStaleEffect`) nor
ahead of it; the view is called settled only when every part is at the source as
it is then; and nothing but a newer source unsettles it. The refinement maps the
source to the requested revision, the parts to the pages' revisions and settled
to DONE (`Promised`). Claims, leases, cursors, generations and failures are not
in it: they are how the promise is kept.

**Fairness** (`FairSpec`). The pump claims each class again and again, so a row
that stays claimable is claimed (`WF` of claiming row i by any executor); an
executor that runs takes its next step; the database clock moves. Producers,
operators, deployments, heartbeats and crashes are not obliged to do anything.
With bounded publications "the producers pause" is part of the model.

**Findings.** Three, each shown by a run and quoted in `PROJECT.json`. (1) A
publication keeps the cursor of a CLAIMED row, and nothing resets it when that
claim's lease runs out: an executor whose cursor has no revision resumes the new
revision in the middle. (2) Two callers read the dependency's revision after
they saw it unsatisfied, against the comment that prescribes the opposite order.
Some triggers also publish the sleeping class, which hides it in part. (3) The
generation trigger puts a BLOCKED row back to sleep on a newer revision than was
claimed.

**Proved** (`DomainWorkProofs`), for any number of rows, dependencies,
executors, pages, revisions and generations: `TypeCorrect`; `InvalidationKept`
(`NoLostInvalidation`, from `Tagged = DomainItems`: by the first finding it does
not hold without); `EffectsGrow` (`NoStaleEffect`, with no such assumption);
`RowsGoOnward` (no write takes a row back to an older revision, completion or
fence, and only a newer revision reopens a DONE row: no assumption either); and
from the three of them `KeepsView` (`Promised`, with `Tagged = DomainItems`).
`NoLostInvalidation` is not inductive: a row becomes DONE only at the end of an
enumeration whose earlier pages were written by claims that are gone. The
inductive invariant `IInv` says what is true in between. Of a row: no page was
seen at more than the requested revision, and a cursor of the requested revision
vouches for the pages before it. Of an executor: the fence and the revision it
remembers are no newer than the row's; as long as the claim is still its own and
nothing newer was published, the pages before its own are seen at its revision. A
claim that was overtaken has an older fence, and every settle compares it
(`Holds`). Each write of a row is an instance of a
few lemmas about what rows may become (`StoredGood`, `GoodKept`, `SettleGood`).

`DomainWorkWakeProofs` proves what the queue owes to those who sleep and to a new
generation, each from an invariant of its own.
`WakesKept` (`NoLostWake`, with no assumption): by `WInv` a wake row names its
dependency at the current revision, and a worker with a current claim of it that
says nobody remains has found nobody; who falls asleep does so on the current
revision, so none joins the sleepers on an older one (`NobodyElseAsleep`).
`SleepersWake` (`SleepersAreWoken`, from `EarlyReaders = DomainItems` and
`MaxGeneration = 1`: by the second and third finding it does not hold without):
by `SInv` what an executor read of the dependency is no newer than what it saw of
it. `GenerationsFenced` (`GenerationFenced`, with no assumption): by `GInv` a
cursor vouches for the generation of the pages before it, and a claim that is
current, and of the row's generation, for those before its own page.

## 4. Commands: `AdminCommand` and `CommandOutcome`

**State.** A request is one HTTP request, and one root commit of the kernel; a
client that was not answered sends another one with the same identity. `pc`,
`attempt`, `held`, `snapshot` and `draft` are the current attempt: how far it is,
its advisory locks, what it saw when it began if it runs at Serializable, and
what it wrote and is not yet durable. `receipt`, `effects`, `feed`, `hinted` and
`session` are durable or sent. `answer` is what the client was told.

**Actions.** `Begin`, `Conflict`, `Fail`, `Prepare`, `Commit`, `Flush` and `Lose`
are `runRootCommit`: a conflict is rolled back and retried, any other error ends
the command, preparations run last in the transaction, hints after it, and a
COMMIT whose confirmation is lost is an unknown outcome. `LockIdentity`,
`LockActor`, `Replay`, `Create`, `Work`, `Persist` and `Reject` are
`executeAdminCommand` in its order: identities sorted, the actor's rows FOR
SHARE, the receipt looked up, the RUNNING row and savepoint, the domain callback,
the session's lifetime, the outcome. `Logout` waits for the attempts that hold
the row; `Expire` does not.

**Promise.** `CommandOutcome` has one action that decides an identity once, with
its effect, and one that answers a request consistently with what is decided.
`Promised` is that `AdminCommand` implements it with `decision <- receipt` and
the other variables as they are.

**Run** `admin_command_resend`: a command, the same sent again, and a second
command at Serializable; each command names the other as its parent, so that a
request locks both identities; one session, 2 attempts each. It checks `TypeOK`,
`ReceiptTellsEffect`, `AnswerIsDurable`, `RevokedActsNoMore`, `Promised` and
`EveryRequestAnswered`. An executor and a replay of one identity meet a request
that wants the same two locks in its own order; a third attempt adds nothing a
second one does not. An identity that is used again for another intent (`Reject`
of a mismatch) is not in the instance; the theorems below, which are for any
assignment of intents, cover it.

**Fairness.** `WF(Step(r))`: a request that can go on does. Conflicts, timeouts,
crashes and logouts are not obliged to happen, so nothing but the order of locks
keeps two commands from waiting for each other; PostgreSQL's deadlock detection
is not relied upon.

**Proved** (`AdminCommandProofs`), for any requests, commands, sessions,
intents and number of attempts: `TypeCorrect`, `EffectOnce`, `AnswersHold`,
`RevocationHolds`, and `KeepsPromise` (the refinement). `IInv` adds `Mutex` of
the locks; `AttemptGood`, which ties an attempt's `pc` to its draft, to the lock
on its identity and to the absence of a receipt while a fresh one is under way;
and `CommandGood`, which ties effects, feed and hints to the receipt. Without
`AttemptGood`, nothing would stop two attempts from committing a receipt each.
`DecisionsLast` says that what a command was decided is never changed again.

`NoDeadlock` says that no set of attempts waits for one another: each locks its
identities in ascending order (`Ordered`), so that whoever holds the greatest
identity that is waited for waits for none. `NeverStuck` concludes that until every request
is answered, some request can take its next step. `CanStep` spells out the guard
of that step, and TLC has compared it with `ENABLED Step(r)` in every state of
`admin_command_resend`. What `EveryRequestAnswered` adds to it is fairness.

**Limits.** The session's lifetime is checked last inside the transaction, so a
session may expire before COMMIT takes effect; the code does not promise more. A
bulk command answers QUEUED, which counts as SUCCEEDED here: what its item
executions do is `BulkPricing`'s question. Role and access epoch checks deny as
expiry does.

## 5. Writes to the provider: `ProgrammaticWrite` and `ExternalWrite`

**State.** `row` is the `AutomationDelivery` table for one creator's writes:
status, holder of the lease and what is left of it, source device, the commit's
and the reconciliation's window, and the flags of an unresolved, acknowledged or
settled outcome. A device knows its lease (`heard`), what it may do (`stage`),
what the provider told it (`reply`) and the settlement token of the last commit
(`capable`). `wire` and `effects` are the requests under way and what the
provider has done. A new lease is a new token and revision, so that a device
holds a valid one exactly if it is the holder and has heard of it.

**Actions.** `ReserveIntent`, `Acknowledge`, `Abandon`, `Reserve` (with the sweep
of the creator's rows in the same transaction), `Start`, `Prepare`, `Complete`,
`SettleByToken`, `Fail`, `WaitForReadback`, `Match`, `CloseUnresolved` and
`ResolveMatched` are the handlers of `PW`; `Sweep` is one row of
`sweepExpiredProgrammaticWriteLeases`; `SnapshotProves` and `SnapshotEmpty` are
`applyCurrent` of `MQ`. `Post`, `Apply`, `Lost`, `Respond`, `Forget` and
`QueueEnds` are devices, network and provider: any request or answer may be lost
or late, and a device may restart at any time.

**Promise.** `ExternalWrite`: a write is granted or denied; only a granted one
happens, once; it is recorded as done only after it happened; one that is given
up is unknown, is never granted again, and may still turn out to have happened.
`Promised` maps a row to it by `Recorded`.

**Runs** (`MCProgrammaticWrite`).

| Run | Instance | Checks |
|---|---|---|
| `write_mass` | two mass messages with the same audience and content, two devices, 2 requests in flight | `AtMostOnce`, `NoBlindResend`, `AcceptedIsSettleable`, `Promised` |
| `write_live` | a relayed message and a cancel, one device | `TypeOK`, `OutcomeIsTrue`, `GrantedIsDecided` |

A lease is one tick and the window two, so that a lease runs out before the
window and the window can close under a second lease. `MaxWire` 2 makes a second
request possible: `AtMostOnce` says that it is never sent. Two devices are the
sender and the one that takes over.

**Fairness.** `FairSpec`: time passes, and each row is swept, since any device
of the agency that asks for automation work sweeps first
(`automation-action-delivery-service.js` 727 and 380), though it knows nothing
of these writes. The sweep has no other caller: when the last device of an agency
stops asking, nothing is swept. Nothing is asked of the devices that hold a
write, of the network or of the provider.

**Proved** (`ProgrammaticWriteProofs`), for any writes, devices, lengths of
lease and window: `TypeCorrect`, `SentAtMostOnce`, `OutcomesTrue`, `NeverBlind`,
`AcceptedStays`, and `KeepsPromise` (the refinement). The inductive invariant is
`TypeOK`, `RowsGood` (what is in doubt was granted and was not forgotten),
`SentOnce` (before the grant nothing was sent and nobody may send; after it one
device has one unused permit or the request has been sent), `Proven` (answers and
records of success rest on an effect), `OneIntent` (one message is not
acknowledged, and only it can be under way) and `NoBlindResend` itself. Most
handlers only change rows in a way that sends and grants nothing; the lemma
`CalmStep` covers them all, and the few that send or grant are proved one by one.
The refinement needs one lemma more, `LaneExclusive`: at most one write of a
creator is in the lane, so that a reservation that sweeps other rows changes at
most one outcome.

**Limits.** Devices report truthfully of what they did (a server cannot do better
than their word) and send one request per permit. A snapshot is taken for the
truth when it is applied; the fence protocol that is to make it so is in the plan.
`Persistent` says whether devices report failures of a write that they are
reconciling: each such report mints a lease without a look at the window
(`PW` 1416), so a device that keeps doing it keeps the lane, and
`GrantedIsDecided` is checked without. The native mass kinds and the custom kinds
settle through other services and are left out, as are rebinds, checkpoints and
denials of billing and access, which refuse before anything changes.

## 6. Money: `Billing` and `MoneyLedger`

**State.** `order` is a top-up order with its status, whether a provider attempt
is recorded and whether it was credited. `checkout`, `payment` and `reported` are
outside: the request for the invoice that is under way, the payment at the
provider, and the statuses it went through, each of which is reported by a
callback. `inbox` is the `BillingProviderEvent` table. `balance` and `entries`
are the wallet and its transactions, `ent` the creators' entitlements (until
when, whether they renew, whether the last renewal failed). `lock` is the
agency's row FOR UPDATE and `job` what each worker (request, callback, scheduler)
is doing, with what it read under the lock. `activation` says whether this
deployment credits wallets.

**Actions.** `Reserve`, `AttachInvoice` and `InvoiceUnknown` are
`createWalletTopUpCheckout` and its follow-up; `Receive`, `ReplayEvent`, `Reread`
and `Project` are a callback, stored first and then applied by
`applyProviderPayment`; `Fetch`, `Afterwards` and `Credit` are the owner's
`reconcileOrder`; `StartSubscription`, `CancelRenewal`, `Renew`, `SkipRenewal`,
`RefuseRenewal` and `ReportRefusal` are the wallet service's operations on a
month, the last in a statement of its own after the rollback. `Crash` rolls a
worker back; `InvoiceMade`, `PaymentMoves`, `Deploy` and `Tick` are provider,
customer, deployment and clock.

**Promise.** `MoneyLedger`: the balance is the sum of its entries, an entry is
posted once, a debit is covered when it is posted, a refund takes back exactly
what a top-up brought. `KeepsLedger` is the refinement; the transactions of the
code read the balance before they write it, and only the agency's lock makes
that the same thing.

**Run** `billing_wallet` (one order, one creator, two workers, months of 2 ticks,
one tick of grace, clock up to 3, one crash; `finished` and `refunded` are what
the provider reports). It checks `TypeOK`, `WalletFollowsOrders` (the wallet's
top-ups and refunds are those of the orders, and rest on what the provider
reported), `TimeIsSoldOnce` (months are disjoint, and access rests on debits),
`OrdersMoveForward`, `CancelHolds`, `KeepsLedger` and `PaidArrives`. Two workers are two callbacks,
or a callback and a renewal, that meet; an order brings two months, so that a
renewal can be refused for want of money after a refund. The statuses that do
not move money (waiting, partially paid, expired, failed) are in the module but
not in this instance.

**Fairness.** The provider repeats the callback of a payment's current status
until it is accepted, and a worker that can go on does. Nobody in the backend
retries an open inbox row, so without the first nothing would. An order that was
paid while the deployment did not credit waits for its owner's reconciliation and
is excluded from `PaidArrives`.

**Limits.** The route of the older `createCheckout` answers 410. One payment per
order; callbacks that name another order or amount (they refuse) are left out;
the event's lock is merged with the agency's; the price of a month is fixed. The
legacy `PAYMENT` orders and refunds of entitlements are not modelled.

**Proved** in `BillingProofs`, for any orders, creators, workers, amounts, price
and period: `TypeCorrect`, `Forward` (`OrdersMoveForward`), `IsLedger`
(`KeepsLedger`), `CancelIsKept` (`CancelHolds`), `Followed`
(`WalletFollowsOrders`) and `TimeSoldOnce` (`TimeIsSoldOnce`). The invariant has
two parts besides the types: `LockInv` (whoever is past the lock is the one that
holds it, and the balance it read is still the balance) and `ReportedInv` (what a
callback in progress says was reported). From them `StepIs` says what any step is
to orders and money: an order is opened, a reported status is applied to it as
`Projected` says, or a period is charged from the balance as it is. The last two
theorems add an invariant each. `Follows` relates an order's status, its
credit and its two entries, and what was reported. `Sold` says that every charged
period ends by the entitlement's end: a renewal begins there or later, so it
overlaps none of them and its debit cannot be one that is already posted.

Three more theorems have no run of their own. `WalletAddsUp`: the balance is
the sum of the entries, which stay finite in number; the refinement alone does
not say so, since `MoneyLedger` moves both in one step. The sum of a finite set is the value at that set
of any function that counts one element at a time (`Sums`, `Total`), and that
there is one and only one is shown on a minimal subset without it.
`AcceptedIsApplied`: the order of an accepted callback stands at least where the
callback puts it, from which nothing later takes it back. `LockGoesWithWork`: a
lock is held exactly by a worker whose transaction is at work under it.

## 7. Jobs of devices: `JobLease` and `FanFacts`

**State.** `job` is the `JobInstance` table: status, attempts, `rev` (each lease
has a new token and a new revision, which stand for each other), holder, whether
the lease still runs, cursor, and how often it was released. `hand` is what a
device knows: its job, lease and place, its read lease, what it read and the time
on its token. `truth` is the provider's version of the data, `fact` the
`CreatorFanValueCurrent` rows, `clock` the creator's observation clock, `read`
the creator's one `FanObservationReadLease` row, `tokens` the
`FanObservationToken` rows.

**Actions.** `JobLease` holds the steps of one row as operators: `Claimed`,
`Attempted` (a failure, or the sweep of an expired lease), `GivenBack`,
`Vacated`, and what a handler demands of the lease (`Leased`, `LeasedNow`). In
`FanFacts`, `Acquire`, `AcquireAgain`, `RenewLease`, `Issue` and `ReturnRead` are
the read lease and its exchange for a token; `Store` is `progressJob` with a
token (token consumed, fact stored if it is newer, cursor moved, in one
transaction); `Reuse` is a fan that need not be read, looked at again by the
server; `Learn` is a page that was committed before; `FailJob`, `ReleaseJob`,
`Sweep` and `CompleteJob` are the ends of a lease. `Hears` loses answers,
`Crash` and `Forget` are devices.

**Run** `fan_facts` (two jobs, one of them in its second attempt, two devices,
two fans, two versions of the data, two read leases, one release, symmetric
devices) checks `TypeOK`, `CoveredWhenDone`, `AttemptsAreLeases` and `Promised`.
Two jobs on two devices are the smallest race of reads, and two read leases let
one device take over from the other and read newer data before or after the other
stores. With two fans and two read leases, two jobs can only both end if one relies
on what the other stored (`Reuse`). A device that lost its read lease and a race
after it takes a third; that is left to the theorems, which hold for any
`MaxReads`.

**Promise.** `RefreshedFacts` knows no jobs, leases, devices or tokens: a source
that changes, facts about it, and requests to have them refreshed. A fact is only
replaced by one that was observed later and saw no less, never more than there
was; a request is only done when every fact was observed since it was made. In the
refinement a request is a job that was planned, its cutoff `createdAt`. The single
read lease is what keeps it: without it (the mutant of `HoldsRead`) a token taken
later can carry the older read.

**Proved** (`FanFactsProofs`), for any jobs, devices, fans, attempts and bounds:
`TypeCorrect`, `LeasesAttempted`, `DoneJobsCover`, `LaterReadsWin`
(`FactsMoveForward`, an action property) and the refinement, `Implements`.
The invariant comes in layers.
`Ledger`: types, and that attempts, releases and the lease in hand are no more
than the leases given (`Counted`). `Coverage`: a device that holds its lease is
not ahead of its job (`NotAhead`), a token is younger than its job
(`YoungTokens`), and every fan a job has passed was observed since its creation
(`Passed`). `Sequence` adds `Ordered`: of two tokens the younger one saw no less
(`InOrder`), a token younger than a fact saw no less than it
(`LaterThanFacts`), and the holder of the read lease, once it has read, saw no
less than any of them (`ReaderIsLast`). The last one is what the single read
lease is for, and without it the others are not inductive. `Refreshed` adds that no
fact is ahead of the clock (`FactsPast`), so that the cutoff of a new request is
not before what is already known. Only four steps show anything of the promise
(`SeenSteps`): the source changes, a job is planned, a page is stored, a job is
completed; the rest of the protocol stutters.

**Limits.** A fan is observed "since the job was created" by the time on the
token; the read itself came before the token and may be older than the job. A
device whose answer to `Issue` is lost has lost lease and token. Left out:
profiles that fail for good, reading ahead of the cursor, the tokens of
deliveries, demands of campaigns, versions field by field, jobs of old clients
without tokens.

## 8. Subscriber scans: `SubscriberScan`

**State.** `job` as above; `run` is the `SubscriberScanRun` table (status, pages,
phase of the publication, reconciled); `allocated` and `published` the
generations of `SubscriberDirectoryState`; `signal` the creator's maintenance
signal with owner and claim; `serve` the completion a device has asked for, which
runs outside of any transaction; `worker` the maintenance workers.

**Actions.** `Schedule` and `Remind` plan; `Page` commits a page and, with the
last one, signals; `FailJob` and `Sweep` end an attempt and keep a collected run
from failing with it; `Reserve`, `Publish`, `Handoff` and `Finish` are
`completeJob` of a scan (the lease reserved, phases published one transaction
each, the rest handed over or the job closed); `ClaimSignal`, `Step`,
`Reconcile`, `Stop`, `Stale` and `Ack` are the maintenance of a signal,
`ExpireClaim` its claim running out. `Advance` is one phase of
`advanceSubscriberPublication`, by whoever calls it.

**Run** `subscriber_scan` (two generations, one device, two workers, one page,
two attempts) checks `TypeOK`, `NoLostSignal`, `JobFitsRun`,
`DebtIsPaid` and `Promised`. Two generations are one that could overtake the
other; two workers are the owner of a claim and the one that takes it over; the
second attempt is the one that a late completion of the first can disturb.

**Promise.** `SnapshotHistory` is what readers of the directory see of all this:
scans that become complete, one that is shown, and those settled for good. What is
shown is complete and never goes back, the next scan is only complete when the
last is settled, and only what is shown is settled. Which of the
requests, sweeps and workers published a scan does not show.

**Fairness.** The pump runs again and again and admits one unit of work per claim
(`WF` of a worker's step, `SF` of a unit), claims run out, and no device renews
its lease for ever. Nothing is asked of devices and of the request that
completes a scan: it may stop at any step.

**Proved** (`SubscriberScanProofs`), for any generations, devices, workers, pages
and attempts: `TypeCorrect`, `SignalsKept`, `NoneOvertaken` (`NeverOvertaken`: no scan is planned
past a collected one that is still to be published), `JobsFitRuns`, and the
refinement, `Implements`.
The invariant `Scans` speaks of the pair of rows of each
generation (`Fits`: only the last planned run is active; a run that waits for
pages has a job that can go on; a collected run is active or closed, and, but
for the last one, settled; a job is DONE exactly if its run is settled), of
workers (`Ready`: what is settled is closed) and of the signal (`AckDone`: who
is about to delete the signal it owns has seen that nothing is in debt since).
For the refinement, `Shown` adds that a run is only closed by its own publication
or a newer one; with `Fits` it follows that a run is settled only when shown.
It shows two branches of the code to be mere precautions for the ends of a job that
are modelled: `scheduleSubscriberScan` never meets an active run whose job has
ended, unless the job was cancelled (see the limits), and
`advanceSubscriberPublication` never meets a newer published generation.

**Limits.** The phases `CURRENT` and `PREVIOUS`, which copy the members of a run,
are one phase, and a phase of several batches is one step. Reading the candidate
is merged with the claim of the signal, the last unit with the check for debt.
A device that crashes claims again; a server that stops does nothing more. Left
out: publishers without source proof and their recollection, quarantine after a
hundred errors, signals of other kinds, recovery intents, the planner's refusal
after a failure, releases. `Reconcile` leaves out two branches of
`reconcileRecoveredSubscriberPublicationJob`, which only mark the run and leave no job
to close: a CANCELLED job (`src/src/services/subscriber-directory-service.js` 1520-1523)
and a missing one (1504-1515). A scan's job is cancelled, while it waits or after a
page (`JL` 700-702 and 1208-1212), if its reason is an automatic one and it has no
recovery intent of the current policy (`src/src/services/creator-live-sync-service.js`
38-51). No caller of `scheduleSubscriberScan` plans such a job, so it can only be one
that an earlier version of the backend planned. For one of these `JobFitsRun` would
not hold as it stands: its run is settled although the job is CANCELLED, or is
left active, and `scheduleSubscriberScan` then fails it (294-305). A run is only
created without a job by a recollection (481, 519), which is left out; retention
deletes the jobs of other scans only (`src/src/services/retention-service.js` 813-858
and 939-943).

## 9. Messages about an order: `TelegramDelivery`

**State.** `order` is a `CustomOrder`: its status, what it says (`text`, the
number of edits) and whether a TASK is linked to it. `intent` is the
`TelegramDeliveryIntent` table: state, revision of the claim, whether the row
still has the claim's token (`held`), the text of the TASK, who proved the
delivery, and, while `begin` runs, whether the order it has read is still the
current one (`read`). `CustomOrder.updatedAt` itself is not kept, only who has
read the latest one: `Stale` and `Touched` are what a new one does to the
readers. `desk` is outside: the claims whose device may still send, and those
whose device has sent. `denied` are the claims that an operator said sent
nothing; `owed` is the work `TELEGRAM_CONFIRMED_PROJECTION`; `edit` is a
manager's update between its checks and its transaction.

**Actions.** `PlanTask`, `PlanReminder`, `PlanCancellation` and `Refresh` bring
rows up to the order before the permit; `Claim`; `BeginRead`, `Begin` and `GiveUp`
are `beginTelegramDeliveryIntent`, which reads without a lock and compares in the
transaction; `Send` is the device; `ProvenNotSent`, `OutcomeUnknown` (also by the
next listing, two minutes later) and `Confirm` are its reports;
`ReconcileConfirmed` and `ReconcileNotSent` the operator's word; `Link` and
`Project` the projection of a receipt; `Check`, `Edit`, `Cancel` and
`EditConflict` are `updateCustomOrder`. What a transaction writes to an intent's
state and to the order is one step: the trigger
`phase2_provider_intent_dirty_trigger` (`MIG` 8357-8369) locks the order's row at
every change of an intent's state.

**Run** `telegram_order` (a TASK with two claims, two reminders and a cancellation
with one each, one edit) checks `TypeOK`, `OutOnRecord`, `TaskTellsOrder` and
`CancellationFollows`, and `Promised`: it implements `MessageAttempts`, in which
the claims of a message are attempts with a fate each (`Fate` reads it off the
row), one is granted only when every other is over, and what a receipt or a
device settled stands. Two claims of the TASK are the one that was given up or
denied and the next; two reminders can meet; one edit is an old text and a new one.
Several claims of a reminder would add what the TASK's show: the two kinds differ
in nothing but the text and the rule of one reminder at a time.

**Fairness.** `FairSpec`: a TASK's receipt is projected in the end. The receipt
publishes domain work, and `runTelegramConfirmedProjectionSweep`
(`src/src/services/job-scheduler.js` 1785-1806) claims it again and again, which
`EventuallyAtRest` of `DomainWork` is about. Nothing is asked of devices,
managers and operators.

**Proved** (`TelegramDeliveryProofs`), for any number of reminders, claims and
edits: `TypeCorrect`, `MessagesOnRecord` (`OutOnRecord`) and `OrderStaysTold`
(`TaskTellsOrder`). The last two are not inductive: a permit and an edit are both
decided on what was read before. The invariant adds `ReadsHold` (a `begin` whose
read is still fresh has the order's text, and a reminder's has no other reminder
in the air) and `EditHolds` (an edit whose read is still current has no TASK
under a permit). Each is kept because whoever takes a permit or edits the order
makes the others' reads stale (`Begin` and `Edit`, through `Stale` and `Touched`),
which is what the comparison of `updatedAt` is for.

`Implements` is the refinement, for any number of claims. Only the last claim of a
row has a fate to come (`OldFate`), so each step records at most one of it and
leaves all others (`ClaimStands`, `StillAll`); making the next claim refuses the one
before. `ClaimsHold` adds that a claim that may still send was not denied, that a
device does not send twice by one permit, and that a receipt is of a claim that
has sent: without it a denied claim could be permitted, or a receipt precede its
message.

**Limits.** `OutOnRecord` excepts what an operator denied; that a denied message
is sent again is intended. An edit that was checked before the TASK was planned
may find the order unchanged (`PlanTask` need not touch it).
`CustomOrder.updatedAt`, a `TIMESTAMP(3)`, is idealised: every update of an order is
taken to give it a value it never had. The permit and the projection of a reminder
see to that (`TG` 1209-1212 and 1398 write at least a millisecond more than was
there), but other updates, `updateCustomOrder` among them, write the clock of their
server (`@updatedAt`). If an edit writes the very millisecond that was there, because
two updates fall on it or a server's clock is behind, a comparison made before it
still succeeds. `TaskTellsOrder` rests on this, and so does `OutOnRecord` where two
reminders begin at once; they and their theorems hold but for such a coincidence,
which a model without a clock does not show. Left out: references
(`begin` does not compare `updatedAt` for them) and revision requests with their
submissions, orders that complete, waived cancellations, the choice, repair and
retirement of accounts, the creator's retirement, orphaned intents. When a
reminder is due is left open: it may be due, or no longer due, at any time.

## 10. What is proved and what is only checked

Proved for every value of the constants: the theorems named above, from the named
assumptions on constants only (`WorkAssumption`, `BoundAssumption`,
`RequestAssumption`, `WriteAssumption`, `LeaseAssumption`, `FactAssumption`,
`ScanAssumption`, `TelegramAssumption`, `BillingAssumption`), which the runs evaluate. The proofs keep the bounds
(`MaxRevision`, `MaxGeneration`, `MaxLapses`, `MaxAttempts`, `MaxWire`,
`MaxReads`, `MaxClaims`, ...) as arbitrary naturals.

The provers cannot instantiate an induction principle, which takes an operator as
its parameter. Where a proof needs induction over data it goes by a minimal
counterexample instead: strict inclusion of finite sets is well-founded, which is
a fact about sets only. The greatest identity of `NoDeadlock` and the sums of
`WalletAddsUp` are found this way.

Only model-checked: the liveness properties `EventuallyAtRest`,
`EveryRequestAnswered`, `GrantedIsDecided`, `PaidArrives`, `DebtIsPaid` and
`CancellationFollows` (liveness under fairness is out of the prover's reach).

Every run sets `CHECK_DEADLOCK FALSE`: publications, changes, generations,
requests, orders, reads, claims, edits and attempts are bounded, and when they are used up and
the rows are at rest the system stops. That it stops only there is what the
liveness runs check; `fan_facts` has none, since a device may always stop.

## 11. What is not modelled

Cryptography, formatting, parsing, SQL itself and read models. PostgreSQL's
locks and isolation are modelled by what they do: a transaction is one action
where every row it decides on is locked until it commits, and several where it is
not (the attempts of `AdminCommand`, an executor between claim and settle, a
worker of `Billing`, a completion of `SubscriberScan`). The distribution of
claims over agencies, partitions and shards, the budgets of the pump's lanes, and
the parts in the plan are not modelled; `PROJECT.json` gives the reason for each
component, and the hazards without properties name what has to be asked of them.

The repository is large (some 177 000 lines in 746 implementation files, most of
them read models, ledgers, projections, parsing and pages). What is modelled is
a few protocols on which the rest relies, so the lines mapped are a small share
of all; the projections and ledgers are users of the queue and of job leases, and
what is specific to them is arithmetic over data that TLC cannot enumerate.
