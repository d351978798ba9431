# Prism: TLA+ models, checks and proofs

Prism is a proxy router with a multi-tenant control plane. A data plane
authenticates clients by access key, routes each connection through a pool of
upstream nodes and counts the bytes. A control plane sells and administers
subscriptions, balances, keys and nodes. Background workers move usage to
SQLite, roll billing periods over, expire, renew, scan a chain for deposits,
probe, refresh and clean up. One process holds all of it, with the durable state
in SQLite databases (`state.db`, `cache.db`, metrics, request logs) and
everything else in memory.

Almost nothing in it is protected by one lock. A repository call is one SQLite
statement or transaction under `StateRepo.mu`, a map operation is one critical
section, and the operations above them are sequences of those. The models here
take the sequences apart at exactly these points and let the workers, the
requests, the clock, failed calls and restarts fall between any two of them.

## Contents

| Part | Modules | Proofs | Runs |
|---|---|---|---|
| Usage accounting | `UsageCounters`, `UsageAccounting` | `UsageAccountingProofs`, `UsageChargesProofs` | `usage_safety`, `usage_liveness`, `usage_shutdown` |
| On-chain deposits | `Deposits` | `DepositsProofs` | `deposits`, `deposits_stale_now` |
| Balance, purchases, renewals, terms | `Billing` | `BillingProofs` | `billing_money`, `billing_renewal`, `billing_liveness`, `billing_stale_terms` |
| Sticky leases and their persistence | `Leases` | none yet | `leases_routing`, `leases_persistence`, `leases_bulk_delete` |

`MC<Module>.tla` gives a module its model values for TLC; `<run>.cfg` is one run.
`PROJECT.json` lists every component of the system, the source lines behind every
definition, the runs, the hazards they are aimed at, and for every property a
plausible slip of the code (`"mutants"`) that breaks it. The slips are ordinary
operators in the modules, marked "A slip".

To repeat a run: `tlc -workers 2 -config usage_safety.cfg MCUsageAccounting`.
To repeat a proof: `tlapm UsageAccountingProofs.tla`.

## The system's parts

| Part | Code | Here |
|---|---|---|
| Usage accounting: counters, flusher, period rollover, seeding | `internal/usage/{counters,flush,period,sink}.go`, `cmd/prism/app_runtime.go` | modelled |
| Balance, purchases and renewals | `internal/state/repo_{balance,purchase,redeem_code}.go`, `internal/service` | modelled |
| On-chain deposits | `internal/service/control_plane_deposit.go`, `internal/state/repo_deposit.go`, `internal/tron` | modelled |
| Subscription administration | `internal/service/control_plane_tenant_subscription.go` | partly, in `Billing` and `UsageAccounting` |
| Sticky leases and rotation | `internal/routing` | partly: without `PurgePlatformState` and the ranking of candidates |
| Cache persistence | `internal/state` dirty sets and flush | partly: the lease table of five |
| Quota limiter, enforcer, connection registry | `internal/usage/limiter.go` and others | partly: the number every decision reads |
| Billing periods | `internal/usage/period.go` | partly: fixed period length |
| Node pool, platforms, routable views | `internal/topology`, `internal/platform` | partly: as the environment of `Leases` |
| Data plane, listeners and process life cycle | `internal/proxy`, `internal/inbound`, `cmd/prism` | partly: as environment; start, crash and shutdown of accounting |
| Invites and registration, access keys, subscription refresh, probing, outbounds, intel jobs, console sessions, request log, metrics, usage retention | see `PROJECT.json` | planned |
| Subscription parsers, node options, intel providers, HTTP API, export, configuration | see `PROJECT.json` | not modelled: text formats, external lookups and request decoding without shared mutable state |

The parts meet in few places. Routing hands the data plane a node and holds the
lease; the data plane reports bytes to `Counters`; `Counters` and
`user_subscriptions` are written by the flusher, the period worker, and the
control-plane operations that begin a new window. The latter are the same
operations that `Billing` models from the money's side; `UsageAccounting` has
them from the counters' side (which row is active, when its window starts, what
is reset). Deposits, redeem codes and adjustments all end in the ledger.

## Usage accounting

`UsageCounters` is the in-memory counter set of `internal/usage/counters.go`, one
operator per critical section. `UsageAccounting` composes it with the flusher,
the period worker, the control-plane requests that open and close subscription
windows, the startup seed, the re-seed loop, crash and shutdown.

| State | Code |
|---|---|
| `buckets`, `keyBytes`, `users`, `known`, `persisted` | `Counters.entries`, `keyBytes`, `users` (and which users it has), `persisted` |
| `subs`, `hourly` | `user_subscriptions` (of the expiry, whether it has passed: `life`), `usage_hourly` summed per bucket |
| `adding` | bytes of `Add` calls that have reached the bucket and not the aggregate |
| `fpc`, `fkeys`, `drained`, `perUser`, `window`, ... | locals of `Flusher.FlushOnce` and `chargeSubscription` |
| `ppc`, `plist`, `pcur` | locals of `PeriodReset.RunOnce` |
| `spc`, `slist`, `scur`, `restore` | locals of `reseedUsageUntilApplied` and `SeedFromSubscriptions` |
| `adm` | control-plane requests in progress |
| `starts` | observer: whether every start so far could read the subscriptions |
| `moved`, `lost`, `lostClean`, `batchRow` | observers, no counterpart in the code |

| Actions | Code |
|---|---|
| `AddBucket`, `AddAggregate` | `Sink.OnKeyTrafficDelta`, the two halves of `Counters.Add` |
| `FlushBegin` ... `FlushEnd` | `Flusher.FlushOnce`: drain, hourly transaction, window lookup, re-check, charge, mark; `FlushWriteFails` and `FlushRequeue` are the failed transaction |
| `PeriodList` ... `PeriodEnd` | `PeriodReset.RunOnce`; `ResetUser` is two critical sections and so two steps |
| `Purchase`, `RenewRead`, `RenewWrite`, `AssignList`, `ReactivateList`, `ExpireListed`, `AssignInsert`, `PatchRead`, `TermsWrite`, `RevokeUserSubscription`, `RequestFails` | the control-plane methods that move `user_subscriptions`, split at each repository call; a call that fails ends the request |
| `AdminReset*` | `ResetUser` at the end of a purchase, a renewal or an assign |
| `Lapse`, `ExpireStaleSubscriptions` | the expiry of a row passes; the sweep ends the rows whose expiry has |
| `Reseed*`, `Seed*` | the re-seed loop |
| `Crash`, `Shutdown`, `Exit` | the end of the process, followed by the next start with `seedUsage` |

**What holds** (`usage_safety`). `BytesConserved`: a byte is in its bucket, in
the flusher's batch, in the usage table, or lost with a process, and never in two
of them or none. `KeyTotalIsSumOfBuckets`: the running total the limiter falls
back on is the sum it replaces. `NeverOverbilled`: as long as every start could
read the subscriptions, the quota reads no more than was moved.
`ChargesAreRecorded`: no period total contains a byte that the usage table does
not. `AggregateCoversDisk`: under the same condition, and until the first rollover
or control-plane request, the quota reads at least what the disk has charged to a
row that has not expired, so a restart does not hand the allowance out again. A row
past its expiry is not seeded, by design (flush.go:395). `usage_liveness`: counted
bytes leave memory, due periods roll over, the re-seed loop ends.

**What does not** (`usage_shutdown`). `shutdown` cancels the accounting context
and closes the database without joining the flusher, so its "final pass on the
way out" may not run: `CleanShutdownLosesNothing` is violated.

Four more disagreements that these modules show. The first two are properties
stated in `UsageAccounting` and checked by no run; the other two appear when the
condition `starts = "seeded"` is taken out of the named property.

- *A late charge.* `flush.go:187` says that the window is "snapshotted first, at
  drain time". `GetActiveUserSubscription` is called after the drain and after
  the hourly transaction, so a rollover between them makes the batch the new
  period's: `ChargeStaysInDrainedPeriod` fails under `usage_safety.cfg`.
- *A lost rollover clears the aggregate.* `ResetSubscriptionPeriod` answers nil
  when its guard fails, and `PeriodReset.RunOnce` (period.go:193) then calls
  `ResetUser`, wiping what was used since another writer began the period:
  `WorkerClearsOnlyItsOwnRollover` fails.
- *A byte seeded twice.* After a start that could not read the subscriptions the
  re-seed loop runs. A charge that it lists before the flusher has moved the mark
  is added to an aggregate that counted it already, although flush.go:356 says
  "the second changes nothing": `NeverOverbilled` without its condition fails.
- *A seed that never happens.* After such a start `MarkPersisted` of bytes moved
  since may lift the mark to the listed total before the loop compares them, so it
  ends with the old usage unseeded: `AggregateCoversDisk` without its condition
  fails, and not only while the loop is still waiting.

**Bounds.** One byte per bucket (`MaxMoved = 1`): no step branches on more than
zero or not zero, and two buckets, one key on two platforms, give a user two
bytes. A key without an owner touches no user's state; the theorems cover it, the
runs leave it out. Two rows, so that one replaces the other; initially each is
unused, running or ended, so that a request can also reactivate one.
`PeriodLength = 1` and `MaxClock = 2`: one rollover, at any point. Of a rollover, a
restart, a control-plane request and a failed call, the safety run lets any two
happen, in any order and at any point (`MaxEvents` in `MCUsageAccounting`); all
four together are beyond TLC here, and the theorems cover them. The liveness run
has one bucket and one row, the rollover, and any two of the other three. One byte
also bounds how long traffic can compete with the re-seed loop, so `ReseedEnds`
says nothing about a load that keeps the totals ahead of their marks for ever.
A renewal starts its period at the old expiry or now, up to one instant ahead here.
Deadlock is not checked: the bounded clock and traffic run out. Symmetry: row ids
are random strings that are only compared, and the two platforms of the key are
alike.

## On-chain deposits

A customer who asks for a deposit gets an amount nobody else holds, and that
amount is what identifies the transfer. `Deposits` is the allocation, the ageing
sweep, the scanner, and the chain as its environment.

| State | Code |
|---|---|
| `status`, `amount`, `created`, `txId` | `deposit_intents` |
| `ledger` | `balance_ledger` rows with reason `deposit` |
| `cursor` | `chain_cursor.watermark_ms` |
| `scan` | locals of `ScanDeposits` |
| `chain`, `solid` | external: transfers in block order, and how many are solidified |
| `judged` | observer: transfers a pass has finished with |

`SelfDeposit` is allocation with the release of expired intents in one
transaction, `SweepDeposits`, `TransfersSince`, `PassOver`, `CreditDeposit` and
`AdvanceChainCursor` are one pass, `PassFails` a failed call or a crash anywhere
in it. `Pay` may happen in time, late, twice or never.

`MaxDelay` is how old the request's `nowNs` may be once `StateRepo.mu` is
acquired: the API handler reads it before the request queues for the lock. Two
things are assumed of the chain: its block times and the server's clock agree, and
a transaction makes one transfer. The code credits a transaction id once and would
pass over a second transfer that carried it.

**What holds** (`deposits`, with `MaxDelay = 1`). `SettledOnce`: credits and settled
intents correspond one to one whatever is replayed. `OccupanciesBarelyMeet`:
occupancies of one amount share at most the `MaxDelay` instants a request may have
waited. `CreditedToPayer`: a transfer sent before these last instants of its
occupancy reaches its intent and no other. `WatermarkPassesOnlyJudged`: no failure
makes the scan skip a transfer. `OnTimePaymentSettles` and `EveryTransferIsJudged`:
with a fair scanner every transfer is looked at and money sent in time is credited.

**What does not** (`deposits_stale_now`). `CreditedToOccupant` is `CreditedToPayer`
for the whole of an occupancy, as control_plane_deposit.go:33 promises. If a sweep
releases an amount while a request for it waits with an older `nowNs`, the new
occupancy begins before the old one ended, and a transfer sent in the overlap is
credited to the wrong intent.

With `MaxPerInstant` at least `PageLimit` (a block time with as many transfers of
this address as a page holds, 200 in the code), `EveryTransferIsJudged` fails:
the watermark is a timestamp, and the page begins with the same rows for ever.
The passing run has `MaxPerInstant = 1`, `PageLimit = 2`, so it does not reach this case.

**Bounds.** Two intents compete for one free candidate (the other is a whole
amount, which is skipped). Three transfers, pages of two. Windows of one instant
and holds of one, so that intents expire, are released and give their amount to
the other within `MaxClock = 3`. One failure. The intents are alike, so the first
request takes the first identifier (`InOrder`). Deadlock is checked: the sweep is
always possible.

## Balance, purchases and renewals

`Billing` is the account of one customer: every statement is keyed by `user_id`,
so accounts do not meet. Four parties write: the customer's client, the renewal
sweep, the expiry sweep and an operator.

| State | Code |
|---|---|
| `balance`, `ledger` | `user_balance`, `balance_ledger` |
| `rows` | `user_subscriptions`: status, start, expiry, `period_index`, `auto_renew` |
| `uses`, `codes` | `redeem_codes` |
| `client`, `sweep` | the row `SelfRenew` or `RenewDueSubscriptions` has read and not yet written |
| `op` | the operator's assign or PATCH request between its read and its write |

| Actions | Code |
|---|---|
| `AdjustBalance`, `Redeem`, `CreateRedeemCodes`, `DeleteRedeemCode` | `ApplyBalanceDelta`, `RedeemCodeAndCredit` and their callers |
| `SelfPurchase` | `PurchasePlanWithBalance`, one transaction |
| `SelfRenewRead`, `SelfRenew`; `SweepList`, `SweepRenew` | read, then `RenewSubscriptionWithBalance` |
| `SetAutoRenew`, `SweepExpiredSubscriptions`, `DeleteTenantSubscription` | single statements |
| `AssignSubscription`, `UpdateTenantSubscription`, `ReactivateList`, `ExpireRunning`, `OperatorWrite` | the operator's requests, split at each repository call |
| `Crash` | the process ends with reads outstanding |

**What holds.** `billing_money`, with every party active: `BalanceIsLedger` (the
balance is the sum of the ledger and never negative), `RequestSettlesOnce` (a
retried request or a repeated sweep moves money once), `CodePaysWhatItCounts` (a
code has paid as often as it counts, and no more often than its limit when it has
one: `max_uses = 0` means unlimited), and at most one active row (`TypeOK`). `billing_renewal`, without operator writes
of terms: `PeriodsArePaid` (a row has exactly the periods that were charged),
`PaidTimeIsKept` (it runs for all of them), `SweepStaysInWindow`.
`billing_liveness`: `DueIsRenewed`.

**What does not** (`billing_stale_terms`). `UpdateUserSubscriptionTerms` writes
`period_index`, `expires_at_ns` and `auto_renew` as the operator's request read
them. A renewal that commits in between is charged and then undone, and the
sweep takes every later attempt at that period for a replay.

Two promises are stated in the module and checked by no run, because the code
does not keep them:

- `RevocationStands`: `RenewSubscriptionWithBalance` guards on `period_index` and
  writes an active status (repo_purchase.go:179), so a renewal that read the row
  before a revocation brings it back. Fails under `billing_renewal.cfg`.
- `NotBoughtAgainNextTick`: with a plan no longer than the lead time
  (`Duration = 1`, `Lead = 2`) a row renewed inside its window may be at the edge
  of the next window already, and the sweep buys again at the next tick. Fails
  under `billing_renewal.cfg`.

**Bounds.** Two rows, so that a purchase replaces one; two requests of the client
in `billing_renewal`, one where the operator acts as well. `Price = 1`,
`Duration = 1`, `Lead = 2`: the short plan is the harder case of the window.
Three or four ledger entries, two or three days. One code with one use and one
without a limit, one revocation, one assign or PATCH. With three entries in
`billing_money` the sweep hardly meets a period it has paid for already;
`MoneyIsAccountedFor` covers any number. The deadlock check is off: the bounds end the
behaviours.

## Sticky leases and their persistence

`Leases` is one platform's lease table, its load counters and rotation
tombstones (`internal/routing`), with the dirty set and the flush that keep the
leases in `cache.db` (`internal/state`).

| State | Code |
|---|---|
| `leases`, `load`, `tombs` | `LeaseTable.leases`, `IPLoadStats.counts`, `rotationTombstones` in LRU order |
| `egress`, `view`, `pool` | the nodes' addresses, the routable view, the node pool (environment) |
| `req`, `op`, `rot` | requests, the control-plane call, the scheduled rotator |
| `dirty`, `drained`, `batch`, `disk` | `dirtyLeases`, the flush in progress, the `leases` table |
| `rotated` | observer: the last rotation |

`xsync.Map.Compute` holds the owner's lock while its function runs and stores the
result at its end. A request that creates a lease therefore picks a node
(`createLease`), moves the counters and reports its event
(`createOrAbortStickyLease`), and only then becomes visible (`routeSticky`), and so
does one that moves its lease to another node of the same address
(`tryLeaseSameIPRotation`) or loses it (`abortLeaseCreate`); `Locked` keeps the other writers of that owner out, and nothing else. Control
plane and rotator report their event after the lock is gone (`OperatorEvent`,
`RotatorEvent`). A call reads the clock before the lock, up to `MaxDelay` instants.
`FlushDrain`, `classifyDirtySet`, `FlushTx` and `FlushFails` are
`FlushDirtySets`; `RestoreLeases` is a restart. Scores only rank candidates, so
any candidate may win.

**What holds.** `leases_routing`: `LoadMatchesLeases` (the counters are the number
of leases on each address whoever removes them), `StickyEgress` (a valid lease
keeps its address while a routable node shows it), `RotatedIPAvoided`,
`NotRotatedTwice`. `leases_persistence`: `NoGhostRows` (a row without a lease is
always about to be removed), `ExpiredLeaseGoes`, `RemovedLeavesDisk`. The observer
`rotated` remembers the last rotation alone, so `NotRotatedTwice` and
`RotatedIPAvoided` follow that one and say nothing of the ones before it.

**What does not** (`leases_bulk_delete`). `DeleteAllLeases` (router.go:764)
reports its removals without the `UserID`. The state engine marks the
single-tenant key, and a tenant's row stays on disk, to be restored by the next
start. `PurgePlatformState` (801) has the same event and is not modelled.

**Bounds.** Routing: two accounts, two nodes, two addresses, one request at a
time, one change of the nodes, one tombstone (so that the cache evicts), two
instants with lifetimes and intervals of one, calls that do not wait for the lock
(with `MaxDelay = 1` the run passes as well, but `NotRotatedTwice` then allows a
whole interval), and no events, which nothing there reads. Persistence: one
account, node and address, with a failed transaction, a restart and calls that wait
an instant for the lock. Nodes, addresses and accounts are interchangeable (symmetry in the routing run,
which has no liveness property). The deadlock check is off for the same reason as
above.

## Fairness

Only the runs that check liveness assume any.

| Module | Fairness | Why the code justifies it |
|---|---|---|
| `UsageAccounting` | weak, of `AddAggregate`; of the flusher, the period worker and the re-seed loop until a shutdown begins; of `Exit` | an `Add` past its bucket has no way to stop; the loops run on tickers until their context is cancelled (period.go:416, app_runtime.go:1199), and `shutdown` waits for none of them on its way to the exit |
| `Deposits` | weak, of `Solidify` and of the scanner | blocks solidify; the scanner goroutine is a ticker loop |
| `Billing` | weak, of `SweepList`; strong, of `SweepRenew` | the sweep runs every minute and goes on from listing to renewing; a restart may cut a pass short, but not every pass for ever |
| `Leases` | weak, of the rest of a begun critical section, of owed events, of the cleaner and of the flush | goroutines past the lock do not stop; cleaner and flush are ticker loops |

Nothing obliges a user, an operator, the clock or the nodes to act. Failed calls
and restarts are bounded, so the liveness properties say what happens once they
cease.

## What is proved

TLAPS checks these for every value of the constants that satisfies the named
assumption of the module, so for any number of users, rows, transfers, requests,
failures and restarts. The assumptions (`BucketsAssumption`,
`AccountingAssumption`, `DepositAssumption`, `BillingAssumption`) only say that
sentinels are not identifiers and that lengths and bounds are numbers, positive
where the code's are.

| Theorem | States | Inductive invariant and why |
|---|---|---|
| `BytesAreConserved` | `BytesConserved` | `BytesInv` adds where the batch is by the flusher's place (`BatchShape`): a drain overwrites `drained[b]`, so it must be known to be empty |
| `TypeCorrect` | `TypeOK` of the accounting | `TypeInv` adds that rows in use and users carried from one step to the next are accounts, and that listed periods began in the past |
| `KeyTotals` | `KeyTotalIsSumOfBuckets` | inductive with `TypeInv`, from what a fold does when one bucket changes |
| `NoOverbilling` | `NeverOverbilled`, `ChargesAreRecorded` | `ChargeInv`: what the flusher still carries per user is the batch it drained and has been recorded but not charged; `AggregateFits` adds that the re-seed loop is off as long as every start was seeded |
| `QuotaCoversDisk` | `AggregateCoversDisk` | `EarlyInv`: before the first rollover or request a running row's total, and what the flusher is about to add to it, are within what the aggregate counts and the buckets do not hold |
| `DepositTypes`, `CreditedExactlyOnce` | `TypeOK`, `SettledOnce` | `BaseInv` adds that the page lies on the chain, that credits are transfers of it, and that a payer's intent was open when it paid |
| `CreditReachesPayer` | `OccupanciesBarelyMeet`, `CreditedToPayer` | `OccupancyInv`: an amount is open once, and a released occupancy lies in the past. An occupancy begins at most `MaxDelay` before its insert, so the two overlap by no more; nothing is assumed of `MaxDelay` |
| `NothingIsSkipped` | `WatermarkPassesOnlyJudged` | `WatermarkInv`: the chain is in the order of time, and what lies before the next row of the page is judged (`PageJudged`), so the block time of the page's last row is a safe watermark |
| `BillingTypes` | `TypeOK`, with one active row | inductive as it stands |
| `MoneyIsAccountedFor` | `BalanceIsLedger`, `RequestSettlesOnce`, `CodePaysWhatItCounts` | all three, with `TypeOK`: a step appends at most one entry, which starts at the balance, carries an unsettled request, and is a redemption exactly when a counter moves |
| `SweepBuysInWindow` | `SweepStaysInWindow` | `ReadWhenDue`: the row the sweep holds was inside its window at the time the pass read, and the renewal it writes extends the expiry that was read |
| `PeriodsPaidAndKept` | `PeriodsArePaid`, `PaidTimeIsKept` | `PaidInv` adds what a row that was read still tells about the stored one (`ReadsSeen`: if the index has not moved, neither has the expiry fallen behind). It speaks of the states before an operator has written terms (`assigned = 0`); `billing_stale_terms` shows that this is needed |

The step lemmas have one case per action. Where several invariants need the same
fact about all actions, it is stated once: `StepMoves` (what a step may do to the
money), `StepRows`, `StepTerms`, `SteadyStep` (what no step undoes).

Sums over buckets and rows are folds over finite sets, and what a fold computes
needs induction over data. `UsageAccountingProofs` states the one instance of
induction it needs as `Induction` and proves it (`InductionHolds`, in `UsageChargesProofs`), so that the
theorems rest on no assumption.

Only model-checked, and why:

- every liveness property: fairness and `ENABLED` are out of the prover's reach;
- all of `Leases`: not proved yet.

## What is not modelled

`PROJECT.json` gives the reason for every component. Inside the modelled parts:
several plans and re-pricing of a snapshot without a price, expiry of redeem
codes, `toMicro` and the HTTP transport of the chain client (only whether a row
survives the filters), calendar months, the latency scores of routing and
`LastAccessedNs`, four of the five tables that `FlushDirtySets` writes,
`PurgePlatformState`, in `UsageAccounting` a PATCH that finds an ended row and leaves
it ended, and the failure of a statement after its commit.

## Plan

Done, in this order: usage accounting, deposits and billing with their proofs;
leases with their persistence. To come, each with its own module and run, and
composed where it meets the ones above:

1. Quota decisions: `Limiter.Check` with the rate table, `ConnRegistry`, the
   enforcer, over `UsageCounters`; the calendar arithmetic of billing periods as
   recursive functions against a reference definition.
2. Access keys: publishing and republishing of key states against the writes that
   cause them, with an abstract specification (the published state is that of
   some committed row, and eventually of the last) that the module implements.
3. The node pool: reference counting by subscription, routable views, refresh
   attempts that finish out of order, outbounds; then `Leases` over it in place of
   `Churn`, and `PurgePlatformState` with the platform's life cycle.
4. Proofs for `Leases` (`TypeOK`, `LoadMatchesLeases`, `NoGhostRows` without bulk
   deletion).
5. Queues and jobs: the probe queue, the request log, intel jobs with provider
   quotas; invites and registration; console sessions.
6. Metrics aggregation, usage retention, listeners, bandwidth shaping.
