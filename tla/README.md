# Verification of Ajenda

Ajenda runs the tasks of a tenant's missions and bills for them. What is hard to get
right in it is not the planning but the places where several processes change the
same state and no transaction spans all of it: task rows in PostgreSQL against the
queue in Redis, sibling tasks of one mission reported at once, a request repeated under
one idempotency key, an email that must not be sent twice, usage and subscriptions kept
in step with Stripe. This directory holds TLA+ modules of these parts, the TLC
configurations that check them on small instances, and TLAPS proofs of what holds for
every instance. Paths below are relative to the repository's `backend/` unless they
start with `docs/`.

## 1. Inventory

| Component | State | Operations | Hard behaviour |
|---|---|---|---|
| Redis queue (`queue/adapters/redis_adapter.py`) | per tenant: sorted set and payload hash of pending work, hash of processing work, sorted set and hash of dead letters, a lease key with TTL per task, dispatch keys | one Lua script each: enqueue, idempotent enqueue, cancel, claim next, claim existing, heartbeat, complete, fail, release, recover, dead-letter, retry dead letter | several keys per script must stay in step; leases expire on their own; late calls of former owners |
| Queue contract (`queue/base.py`) | none of its own | the abstract methods of `QueueAdapter` | what every backend promises |
| Task state machine (`runtime/state_machine.py`, `transitions.py`) | the transition tables | `ensure_task_transition` | checked on a row that may be stale |
| Worker runtime (`services/worker_runtime_service.py`, `..._queue_reconciliation.py`, `..._contracts.py`) | task and lease rows | claim, heartbeat, start, release, complete, block, fail, cancel | one commit and one script per operation, in either order, and a crash between them |
| Worker loop (`workers/worker_loop.py`, `task_dispatcher.py`) | the claim a daemon holds | poll, run a handler, heartbeat, report, compensate, schedule maintenance | stalls, restarts under the same holder identity |
| Runtime maintainer (`services/runtime_maintainer.py`) | none, works on rows and queue | publish due dispatches, recover stale leases, reconcile processing payloads, publish due meters | rows read without lock, concurrent passes, crash between script and commit |
| Dispatch outbox (`services/runtime_queue_dispatcher.py`, `repositories/runtime_queue_dispatch_repository.py`) | dispatch rows | admit, hold, retry, cancel, after-commit hook, `publish_due`, `reconcile_cancelled` | lost and doubled publication, a row that outlives its first delivery |
| Execution admission (`services/execution_coordinator.py`, `mission_runtime_queue_admission_service.py`, routes) | task and dispatch rows | queue, review, approve, retry, cancel | races with workers and maintenance |
| Mission graph (`services/worker_runtime_rollup.py`, `services/tools/mission_input_binding.py`, the dependency check of `claim_next_task`, `cancel_mission`) | mission row, task rows, dependency keys, dispatch rows | defer a claim, wake or block dependents, settle or cancel the mission, retry and reopen | every report decides for its siblings on the rows its session read, without locking the mission |
| HTTP idempotency (`middleware/idempotency.py`, `repositories/http_idempotency_repository.py`) | a receipt per key with owner and expiry | claim, take over, renew, complete, release, replay, expire | overlapping requests in several processes, a stalled heartbeat, a lost acknowledgement |
| Quota (`services/quota_enforcement.py`) and rate limit | usage counters of a billing period | check, increment, record the meter row | checked before the commit, incremented in it |
| Send receipts (`services/tools/gtm_action_email.py`, `services/tools/email_send_idempotency.py`, `services/internet/open_write.py`, their repository) | a receipt per key, the owner map of a process | claim, take over, fence, send, complete, release, quarantine | effects no provider deduplicates, a retry while the first attempt still runs |
| Billing meters (`services/billing_meter_dispatcher.py`, `repositories/billing_meter_dispatch_repository.py`) | meter rows | record, hook after commit, `publish_due`, retry | locks given back by the first commit of a pass, a lost answer of Stripe |
| Stripe billing and tenant lifecycle (`services/billing_stripe_integration.py`, `tenant_lifecycle.py`, the routes) | the tenant row, webhook receipts | checkout, webhook per event type, suspend, reactivate, delete, change plan | a row read without lock and written at the commit by all of them; repeated, concurrent, reordered events |
| Review grants, HTTP worker path, local queue, outbound webhooks and circuit breaker, tenant scheduler | see `PROJECT.json` | | section 6 |
| Planning, tools, knowledge, auth, user interface, deployment | | | outside the reach or the interest of a model checker |

How they interact. A request passes the idempotency middleware, the rate limit and the
quota, and creates a mission; the usage counter and a meter row are committed with it. An
admission moves task rows to `queued` and writes dispatch rows in one transaction; a
hook after the commit publishes each dispatch to Redis, and `publish_due` does it later if
the hook did not. A worker claims the head of the Redis queue, checks the rows (and
defers the task when a dependency is missing), commits a lease row and the status
`claimed`, proves itself alive with a heartbeat, commits `running`, runs the handler
(which may send email or write to the web, behind a send receipt), commits the outcome
together with what it means for the dependents and the mission, and only then removes
the payload from Redis. A maintenance pass, run every 30 s by whichever worker is between
tasks, looks for stale lease rows and moves the payload first, then commits the rows; it
also delivers due meter rows to Stripe. Stripe reports subscriptions by webhooks, which
write the plan that quotas are taken from.

What a correct system owes its users: a task is executed by one worker at a time, and
only on the results it depends on; work that was admitted is delivered until it settles;
finished work is not delivered again; a mission's verdict is that of its tasks; retries
are bounded; what went wrong stays visible; an operator's cancellation is respected; a
repeated request or call has one effect; usage is billed once; the plan is the one paid
for.

`PROJECT.json` lists every component, and under `hazards` each place where this can
go wrong with the properties that watch it.

## 2. Modules

| Module | Models | Remarks |
|---|---|---|
| `QueueContract` | `queue/base.py` | abstract: where the work of a task is, who owns it, which dispatch identities are spent |
| `RedisQueue` | the Lua scripts of `redis_adapter.py` | one action per script; a script is atomic in Redis |
| `QueueClients` | the callers of the scripts | adds the claims each worker works on, so that ownership can be stated |
| `RedisQueueProofs`, `QueueClientsProofs` | | theorems |
| `RuntimeState` | rows, queue and process frames, the outbox's publication, expiry | instantiates `RedisQueue` |
| `WorkerRuntime` | worker daemon and its transactions | |
| `Maintainer` | one maintenance pass | |
| `Admission` | API requests and the after-commit hook | |
| `TaskRuntime` | the composition, its fairness and its properties | |
| `TaskRuntimeProofs` | | theorems; instantiates `RedisQueueProofs` |
| `MissionGraph`, `MissionGraphProofs` | workers, publishers and an operator on the tasks of one mission | the queue is `QueueContract` |
| `ApiRequests`, `ApiRequestsProofs` | `POST /missions` through idempotency, rate limit and quota | |
| `SendReceipts`, `SendReceiptsProofs` | SMTP email and `web.open_write` | |
| `BillingMeters`, `BillingMetersProofs` | the meter outbox and Stripe's deduplication | |
| `TenantBilling`, `TenantBillingProofs` | checkout, webhooks and the lifecycle of one tenant | |
| `MC*` | instances for TLC | symmetry sets, the dependency graphs |

`RedisQueue`. The two sorted sets are modelled by their members; the score order of
the pending set by `ahead[t]`, the members before `t`, since `INCR sequence` makes
every new score larger than all others. `XxxReply` is the script's answer and `Xxx`
its effect; a refusing script writes nothing. A payload is a model value, except that
the dead-letter script's stand-in for a missing payload is kept apart, because
`retry_dead_letter` refuses it. Queue keys are prefixed by tenant, so one tenant is
modelled. Who called a script is not part of the queue's state: two scripts with the
same effect are the same step. That is why ownership is stated in `QueueClients`,
which adds the claims that each worker has been given and has not yet reported on. A
worker commits an outcome before it calls `complete_task` or `fail_task`, and a
reconciliation may make that call in its name; it releases before it commits.

`RuntimeState` and its three extensions. SQLAlchemy sessions are created with
`expire_on_commit=False`, and the worker, maintenance and cancel paths take no row
lock (or lock a row they have already loaded, which does not refresh it). A handler
is therefore a read step, which keeps the row in the frame of its process
(`worker[w].meta`, `maint[m].row`, `api[r].row`), and a commit step that overwrites
the columns it changes. Order of commit and script is the code's: completion, block
and failure commit first and then call the script; release, recovery and
reconciliation call the script first. A crash can fall between any two steps.

Abstractions, all deliberate:

* a lease row per task and worker, namely the latest; a pass that still names an
  older row of the same worker no longer changes the latest one (`latest`);
* `metadata_json` is the cancel flag and the lease reference, the two parts that
  control depends on; it is written as a whole, as in the code;
* the read of the task row and the check for active leases in `claim_next_task` are
  one step; `publish_due` and the hook call one or two scripts in one step
  (`_publish`); `reconcile_cancelled` holds its row lock over script and commit and
  is one step;
* a pass treats one lease, dispatch or payload at a time; batches are several passes;
* a heartbeat while the handler runs changes nothing but times, and time is
  abstracted: see `Timely` below;
* a lost reply of a script is a crash of the caller after the script;
* what a handler computes, validation of outputs, evidence and audit records are
  reduced to "succeeds" or "raises"; a handler may or may not have had an external
  side effect;
* `Clarifying` are tasks whose mission is found to be a clarification after
  admission, the stale-mission branch of `claim_next_task`;
* tasks have no `dependency_keys` here (`MissionGraph` has them), and every payload has its
  task row.

`Timely`. A worker renews its lease every 15 s; the Redis key lives 90 s and a lease
row is stale after 60 s. With `Timely = TRUE` a lease lapses only when its holder has
stopped working on the task, and a maintenance step is shorter than a lease: the step
records the workers that are on its task when it begins and those that take the task up
while it runs (`since`, `TakenUp`), and the lease of none of them lapses before it is over.
With `Timely = FALSE` a lease may lapse at any moment.

Constants that only bound the state space: `RetryCap`, `MaxGeneration`, `MaxFaults`, and
in the modules below `MaxOps`, `MaxGen`, `MaxAttempts`, `MaxSessions`, `MaxEvents`.

`MissionGraph`. A session keeps the first copy it reads of a row; `frame[p].map` is that
identity map. A handler reads its own task, may lock and refresh it, reads the siblings in a
later step, decides the whole rollup on these copies (`Rollup`, `Rolled`,
`Verdicts`), and at its commit writes only the columns it changed. Claim, deferral, start, the three reports,
`cancel_task`, `cancel_mission` and the operator's retry have this form. A publisher (the hook,
or a `publish_due` pass on a row whose lock its first commit gave back) takes three steps: it
reads a dispatch without a lock, hands the task to the queue, and commits the
acknowledgement, whatever the row says by then; `pub[x]` is its copy. Each of `Publishers`
stands for one dispatch held at a time. A lost worker and the recovery of its task are one
step, because `TaskRuntime` covers what lies between.
`produced` is a history variable: nodes whose completion has been committed. Whether a
mission whose tasks have all completed is accepted is left open (`completed` or `failed`).
`ops` admits each kind of operator call or fault once, and `MaxOps` of them in all.

`ApiRequests`. One request is: claim of the key, rate limit, quota check, transaction, and
`finish`, which completes or releases the receipt. `fresh` says that the claim has not
expired: while its heartbeat task lives (`beating`) it does not. `made` and `madeFor` are
history variables. The traffic is that of a browser session; the API-call quota of API keys
is checked and recorded in the same way and left out. The limiter's answer is a free choice.
Depending on the version of the web framework the session commits before or after the
response is sent; the model commits before `finish`, because the middleware awaits the whole
inner application, the exit of the dependency included, before it finishes the receipt.
The usage row of the period exists, and the plan is a known one.

`SendReceipts`. `real` in a receipt says that it records a success of the provider. The
process-local `_live_owners` is `held`. A database call may fail without or with its commit
(lost acknowledgement), and the code's swallowing of errors in completion and release is kept.

`BillingMeters`. A hook is named by its row. Stripe counts a key once; that it remembers
keys longer than 24 h is an assumption on an external service. `raised` bounds the
reports that raise, so that retries end.

`TenantBilling`. Every request copies the columns it decides on at its read and writes its
columns at its commit; the column a checkout has flushed keeps the row locked until its end,
and other writers wait. Stripe is a component: sessions, subscriptions, and events that it
repeats until they are answered with 200, in any order (`Ordered = TRUE` lets it deliver an
event only when the earlier ones have been answered). There is one tenant with at most one live
subscription; each plan has a price.

The routes of webhooks and checkouts do not commit. `session_scope` and `tenant_session_scope`
do (`db/session.py:45` and `:65`), as the exit code of a yield dependency. `pyproject.toml:15`
admits FastAPI 0.115 to 0.162; before 0.118 this code runs before the response is sent, from
0.118 on after it. A checkout with an idempotency key has its response held back by
the middleware, a webhook never. So `CommitWebhook` and `Reply` come in both orders,
and so do `CommitCheckout` and `ReturnUrl`; pc `late` is a request that has answered and has not
committed. If the commit fails then, or the process dies, Stripe does not know. An error
answer needs no second order: its exception rolls the transaction back first. The admin routes
commit explicitly. `dropped` and `overtaken` are history variables: the events whose answering
transaction did not commit, and the events about the plan that read the tenant while an older one
was not recorded.

## 3. What is checked

Passing runs:

| Run | Module | Instance | Shows |
|---|---|---|---|
| `redis_queue` | `MCRedisQueue` | 3 tasks, 2 workers, 1 dispatch key, symmetric | index, payload and lease keys stay in step, a task is live once and the order is total (`KeysConsistent`); first in first out except for recoveries; the head can always be claimed; no script loses work; late calls of former owners never take work from the worker that the lease key names; the adapter implements `QueueContract` |
| `runtime_faults` | `MCTaskRuntime` | 1 task, 2 workers, 1 pass, 1 request, any 2 faults | exclusive execution, recoverability of held tasks and bounded retries under crashes of every kind |
| `runtime_worker_crashes` | `MCTaskRuntime` | the same, 3 worker crashes, 2 automatic retries | no work is lost, one lease per task, recovery finds the payload, dead letters are real, statuses follow the table, completed work is not redelivered, healthy work is not touched |
| `runtime_operators` | `MCTaskRuntime` | admission, review, approval, retry and cancellation | exclusive execution and recoverability under operator actions |
| `runtime_liveness` | `MCTaskRuntime` | 2 tasks, one of them clarifying, 1 worker, 1 crash | every admitted task settles |
| `mission_graph` | `MCMissionGraph` | 2 workers, 1 publisher, a join of 3 nodes, one of cancel, retry, lost worker, block | no node works without the results it needs; a completed mission is sound; verdicts stay, and so do results unless an operator cancels or retries |
| `mission_one_worker` | `MCMissionGraph` | 1 worker, 1 publisher, a diamond of 4 nodes | every mission settles, or has a task that a late acknowledgement has stranded |
| `api_requests` | `MCApiRequests` | 2 requests at a time, 1 key or none, 2 bodies, limit 2, 2 faults | one mission per key and one more per fault; replays are true and stay; the quota is exceeded by fewer than the requests in flight; no key stays claimed |
| `send_receipts` | `MCSendReceipts` | 2 workers, 1 email, 1 web write, 2 faults | nothing is sent twice, no replay invents a success, verdicts stay, abandoned claims are taken over |
| `billing_meters` | `MCBillingMeters` | 2 rows with their hooks, 2 maintainers, 1 raise per row, 1 fault | no usage is billed twice or marked delivered without being billed; every row is settled |
| `tenant_billing` | `MCTenantBilling` | 2 webhook handlers, 2 checkouts in turn, an admin who suspends, 2 plans, 2 events in any order, 1 fault | an answered event was processed exactly once unless the transaction that answered it is open or died; the plan is Stripe's once the last event about it is recorded, unless that event was refused, was about another customer, or was overtaken; every event is answered in the end |

Why the bounds are enough to be interesting. Three tasks are the least that distinguish
transitivity and a middle position in the order; two workers are the least for a
hand-over; tasks of the runtime share no state except the queue order, which the queue
run covers, so one task suffices for the safety runs; two faults allow a crash during
the recovery from a crash; `MaxRetries = 1` reaches the dead-letter branch after one
recovery, and in `runtime_worker_crashes` three crashes with `MaxRetries = 2` reach it after
two, a recovery of a recovered task included; `RetryCap` lies one above `MaxRetries` so that
an unchecked increment would be seen. A
join is the smallest graph in which two reports decide for the same dependent, a
diamond the smallest in which a dependent of dependents is woken or blocked. `MaxGen = 4`
is above every generation these instances reach (at most 3), so it cuts nothing off. For `api_requests`
two bodies reach the conflict of a reused key, and three tokens are one more than can be in
use besides the receipt. Two rows are the least for which a pass treats a row whose lock
it has already given back. In `tenant_billing` two events are the least that
can be reordered, and two checkouts in turn with one fault reach a second customer (the first
commit fails after its answer); `ThreeEvents.cfg` checks the invariants with a purchase, a
change and a cancellation and all three lifecycle operations, in some five minutes.
`TwoPublishers.cfg` checks `SettlesOrStrands` on the join with two publishers.
Deadlock is checked in `api_requests` and `send_receipts`, where a client can always call
again. Elsewhere the system rests when all is settled.

Each property has a mutant of the code in `PROJECT.json` that TLC finds to violate it.

One run expects a violation. `mission_settles` asks with two workers that every mission settles:
TLC finds a mission that stays running forever. Two reports that overlap each see
the other's task still running and neither settles the mission; or a rollup re-arms the
dispatch of a dependent whose deferral has committed, the publication counts as done because
the payload is still in processing, and the deferral then consumes it. The comment at
`services/worker_runtime_rollup.py:200` says that missions cannot remain running.

### Fairness

A daemon and an API process loop until they are killed, a task of the event loop runs on,
and a key or a lease expires by the clock; each of these steps gets weak fairness. Faults,
operators, admins and new work get none. In particular:

* `TaskRuntime`: weak fairness of worker, request and pass steps and of expiry; strong
  fairness of the first step of each maintenance phase, because
  `_maybe_recover_expired_leases` runs every phase on every pass. One exception must be
  kept in mind: a refused recovery raises and ends the pass before reconciliation.
  `RecoveryFindsPayload` shows that under worker crashes such a refusal is not permanent.
* `MissionGraph`: weak fairness of each worker, of each publisher, of an operator's call once
  begun, and of reconciliation per node.
* `ApiRequests`, `SendReceipts`: weak fairness of the steps of a request and of expiry;
  strong fairness of a further call with the same key, since a client or a task is retried
  again and again. `ClaimsResolve` and `ClaimsRecover` say what such a retry finds.
* `BillingMeters`: weak fairness of hooks, passes and of the next attempt falling due. That
  a report stops raising is an assumption (`MaxAttempts`).
* `TenantBilling`: weak fairness of Stripe's delivery of each event, of the handlers and of
  a checkout once begun.

### Scenarios beyond the promises

The following configurations are kept beside the runs. Each changes a constant of a passing
run (`VReplay` also leads TLC along one path of a wider graph, `ReplaySpec`), and in all but
the last TLC finds the property violated; they say where a guarantee ends.

| Configuration | Property | What the trace shows |
|---|---|---|
| `VProcessing` (`MCTaskRuntime`) | `CompletedLeavesProcessing` | the payload of a completed task stays in processing once the key of the dead worker has expired: `complete_task` demands a lease key (`docs/validation/live-runtime-matrix.md:635` lists "completed task left in processing" as a failure) |
| `VCancelRunning` (`MCTaskRuntime`) | `CancelRequestStops` | a stop request on running work never ends in `cancelled`: the table has no transition from `running` to it |
| `VCancelRace` (`MCTaskRuntime`) | `CancelledIsFinal` | a claim that read the row before a cancellation commits over it |
| `VRequeue` (`MCTaskRuntime`) | `QueuedHasDelivery` | a failed task that is queued again is `queued` and will not be delivered: its dispatch row is already published |
| `VTwoPasses` (`MCTaskRuntime`) | `HealthyWorkIsKept` | the second of two concurrent passes sets a task that a worker is executing back to `queued` |
| `VBuried` (`MCTaskRuntime`) | `DeadLetterKept` | a pass repeated after a crash replaces the dead letter by a stand-in that cannot be retried |
| `VQuotaRace` (`MCApiRequests`) | `UsageWithinLimit` | two requests pass the check together and exceed the plan; `services/quota_enforcement.py:140` says "atomically". `OvershootIsBounded` is what holds |
| `VCheckoutRace` (`MCTenantBilling`) | `PlanFollowsSubscription` | two first checkouts create two customers, the row keeps one, and an event about the other is skipped because its customer is not the row's (`services/billing_stripe_integration.py:146` says that later calls reuse the customer) |
| `VReordered` (`MCTenantBilling`) | `PlanFollowsSubscription` | events that overtake each other are applied as they come: handlers do not compare their times |
| `VEarlyAnswer` (`MCTenantBilling`) | `PlanFollowsSubscription` | events delivered in order, no fault: the first is answered before its commit, the second reads the tenant as it was, and the first commits last |
| `VLostEvent` (`MCTenantBilling`) | `AckedIsFinal` | a webhook is answered with 200 and dies before its commit; `api/routes/billing.py:181` promises that Stripe retries what failed, but it will not deliver this event again. `AnsweredIsAccounted` is what holds |
| `VHiddenRearm` (`MCMissionGraph`) | `MissionSettles` | one worker, no operator: a rollup arms a dispatch again between its publication and the acknowledgement, which then marks the new generation published; the dependent stays queued and nothing delivers it. `SettlesOrStrands` is what holds |
| `VLifecycle` (`MCTenantBilling`) | `DeletedIsIrreversible` | a reactivation that read the row before a deletion commits `active` over it, with `deleted_at` set; `services/tenant_lifecycle.py:8` says "irreversible" |
| `VReplay` (`MCMissionGraph`) | `CompletedStaysRetried` | after an operator's retry two reports overlap and both find the dependent c blocked with all its dependencies completed; the first re-admits it, it runs and completes, the second queues it again. The comment at `services/worker_runtime_rollup.py:91` says "This does not replay successful work" |
| `TwoPasses` (`MCTaskRuntime`) | `NoDoubleExecution`, `HeldIsRecoverable` | both hold also when two passes race |

Further limits, found by changing one constant of a run:

* `Timely = FALSE`: two workers execute one task. Nothing stops the handler of a worker whose
  lease lapsed, and `complete` checks the holder of the lease row, not that it is active.
  `RetriesAreBounded` fails too: the key of a running worker lapses and its orphaned payload is
  taken from it with one retry more.
* Three faults of kinds worker and maintainer: `OneActiveLease` fails. After a recovery was
  interrupted between its script and its commit, the next pass takes the payload from the
  restarted worker in the middle of its claim, and both this worker and the next one pass
  `assert_no_active_lease`, a plain select.
* Two passes and two worker crashes: `RetriesAreBounded` fails. One pass reconciles a payload as
  orphaned while the other recovers it from an older lease; reconciliation counts one more
  retry and does not compare it with the limit.
* Operators and one crash: `RetriesAreBounded` fails, because the reconciliation of an orphan
  after an operator's retry counts one more.
* In `MissionGraph`, `Ops = {"retry"}` strands a task in a second way, with one worker as well:
  the retry commits between the commit of a failure and its `fail_task` script, its
  publication counts as done because the payload is live, and the script then buries it.
  With `Ops = {"cancel"}` `SettlesOrStrands` fails:
  a cancelled dependency leaves its dependents deferred. With two interventions in one
  behaviour (`MaxOps > 1`) a retry and a lost worker can change a verdict, and a cancellation
  with another intervention can leave an unsound completed mission. A `cancel_mission` whose
  last cancelled task rolls up the mission leaves it `failed` or `completed`, not `cancelled`.

Facts met while modelling that no property states: the finalisation of `open_write` after a
completion with a lost acknowledgement overwrites the real result with a failure, and a
swallowed release leaves its key claiming, since it has no lease (so `VerdictStays` and
`ClaimsRecover` are about email); a refusal for quota (402) is stored and replayed for a day;
a pass may write `skipped` over `delivered` (billing is not affected); an event for a suspended
or deleted tenant is skipped for good, as a test of the repository asserts; an admin's change of
plan overrules the subscription, which is why `tenant_billing` and `DriftAlwaysHasACause` leave it
out (the other proofs do not). In the in-memory mode of `open_write` the receipts are a
dictionary of one process; the model is of the database mode. The comment at
`services/tools/gtm_action_email.py:198` words the failure of a send as if the key were free
again, where the code and the docstrings quarantine it, as the model does. A webhook handler
runs its database calls on the event loop, so a duplicate that waits for the insert of its
receipt holds up the process until the database ends the idle transaction it waits for, which
is one more way in which an answered transaction dies.

## 4. What is proved

For every value of the constants, from the named assumptions that say that stand-ins such as
`NoOwner` or `NoToken` differ from the real values, that bounds are naturals and dependency
keys name tasks of the mission, and for the quota that there are finitely many requests
and the limit is positive (`NoOwnerAssumption`, `RuntimeAssumption`, `GraphAssumption`,
`ApiAssumption`, `ReceiptAssumption`, `MeterAssumption`, `BillingAssumption`), every safety
invariant and every action property of the passing runs:

| Module | Theorems (safety) |
|---|---|
| `RedisQueueProofs` | `TypeCorrect`, `QueueInvariant`, `KeysAlwaysConsistent`, `HeadAlwaysClaimable`, `WorkAlwaysConserved`, `NeverOvertaken`, `RedisImplementsContract` |
| `QueueClientsProofs` | `ClientsUseQueue` (so all of the above holds under the callers that the run drives), `ClientTypeCorrect`, `OwnerAlwaysKeepsWork` |
| `TaskRuntimeProofs` | `TypeCorrect`, `RuntimeUsesQueue` (so the theorems of `RedisQueueProofs` hold in the running system), `RuntimeKeysConsistent`; if `Timely`: `NeverDoubleExecution`, `HeldAlwaysRecoverable`; if `"retry" \notin Ops`: `CompletedNeverRedelivered`; in the `OnePassSetting`: `SealInvariant`, `RetriesStayBounded`; in the `CalmSetting`: `QueuedAlwaysHasDelivery`, `OneLeaseAtATime`, `RecoveryAlwaysFindsPayload`, `DeadLetterAlwaysKept`, `StatusAlwaysFollowsTable`, `HealthyWorkAlwaysKept` |
| `MissionGraphProofs` | `GraphInvariant`, `GraphTypeCorrect`, `AlwaysWorksOnResults`, `SoundInvariant`, `CompletedMissionAlwaysSound`, `SettlingInvariant`, `VerdictsAlwaysFinal`, `CompletedAlwaysStays`, `MissionUsesContract`, `AlwaysOneWorkerPerTask` |
| `ApiRequestsProofs` | `ApiInvariant`, `ApiTypeCorrect`, `ReplaysAreTrue`, `ResponsesStay`, `OvershootAlwaysBounded`, `DuplicatesAlwaysNeedFaults` |
| `SendReceiptsProofs` | `ReceiptInvariant`, `ReceiptTypeCorrect`, `NeverTwice`, `ReplaysAreTrue`, `VerdictsStay` |
| `BillingMetersProofs` | `MeterInvariant`, `MeterTypeCorrect`, `BilledAtMostOnce`, `DeliveredAlwaysBilled` |
| `TenantBillingProofs` | `BillingInvariant`, `BillingTypeCorrect`, `EventsAppliedOnce`, `AnsweredAlwaysAccounted`; if `"plan" \notin AdminOps`: `DriftAlwaysHasACause` |

Hypotheses beyond the assumptions on constants are named in the theorem that has them; each is
the boundary of what the code keeps, and a configuration of section 3 crosses it:

* `Timely`: a lease is renewed every 15 s and lapses after 60 s (row) or 90 s (key), and a
  maintenance step takes less. What happens without it is under "Further limits".
* `"retry" \notin Ops`: an operator's retry publishes the same task under a new dispatch key on
  purpose; all faults and any number of passes are allowed, and nothing is assumed about time.
* `OnePassSetting`: `Timely`, one maintenance pass at a time, tasks that are admitted but not
  reviewed, retried or cancelled; every kind of fault, as often as one likes. Without any of
  the three `RetriesAreBounded` fails (see "Further limits").
* `CalmSetting`: the same with crashes of workers and API processes and claims that do not
  commit only. A pass that dies between a script and its commit (`VBuried`), a second pass
  (`VTwoPasses`) and an operator (`VRequeue`, `VCancelRace`) each break one of the promises;
  the theorems under the hypotheses above cover what still holds there.
* `"plan" \notin AdminOps`: `upgrade_plan` writes the column and tells Stripe nothing. Nothing is
  assumed about the order of events, of commits and of answers, or the number of checkouts.

The arguments. None of the promises is inductive by itself.

* `QueueInv`: types, one live copy, matching indexes, leases only on processing work, total
  order. A release keeps the two live hashes disjoint only because it demands a processing
  payload; a publication keeps the lease keys on processing work only because it refuses
  processing tasks; that the head can be claimed needs all five and finiteness: each script
  adds at most one member (`OrderFinite`), and in a finite strict total order the member with
  the fewest members ahead has none (`FirstExists`). Refinement needs one live copy, since
  `LivePlace` could not say where a task in both hashes is.
* `Shape`: every frame has the type that its program counter promises. Each action of the runtime
  is then shown to be at most one script of `RedisQueue`, which gives it `KeysConsistent`.
* `StartInv`: that two workers do not execute one task is a relation between a worker past its
  start, its lease key and its lease row (`HeldHasLease`), the recoveries that have decided on
  an older row (`StaleRecovery`), and the other workers (`OneStarted`). `HeldBacked`: a
  held task has a lease row that no pass is about to expire.
* `KeyKept`: while a task is in use or completed its first dispatch key is in the queue's
  set, and no process holds another (`FirstGeneration`), so the idempotent publication refuses.
* `Calm`: row, lease rows, dispatch, payload and what every process has read of a task agree. Nothing
  less is inductive, because each process writes what it decided on a copy. The handlers are
  first reduced to a few moves, each proved to keep the invariant.
* `SealInv`: a reconciliation that finds a task `running` without a lease adds a retry and does
  not compare the counter with the limit; `RetriesStayBounded` holds because it never comes to that
  commit. The pass read the row while the task ran; by the time it saw no lease a worker that it
  knows of had ended the task (`HeldBacked`), so the payload is gone for good or under that
  worker's key (`Closed`), and the queue refuses. This needs that nobody gives a running task
  back and nobody takes an ended one up again (`Sealed`), through releases, claims and passes
  that die in the middle of a step.
* `GraphInv`: what a session will write comes from copies it read earlier, so the promise is
  extended to them. A status is `Grounded` if it may only be held once the dependencies have
  been produced; every row, and every copy in every identity map, is grounded. It stays so
  because `produced` only grows, and because a worker's frame past the dependency check
  carries the fact that the check established.
* `SoundInv`: a rollup completes the mission on rows it read earlier. One worker owns the payload of a
  task, so no two report on one row; and a session that saw all other nodes completed is
  not overtaken, since every step that changes a completed row starts in a session whose own
  node was not completed.
* `SettlingInv`: a node is hopeless if it ended without a result or waits for a hopeless one.
  While no operator intervenes a hopeless node stays so, and each row and each copy, however
  old, that says failed or blocked is of a hopeless node. So a late rollup blocks nothing that
  could complete and re-admits nothing that was blocked, and a verdict is given only when
  every node is completed or hopeless. `CompletedStays` was stated without exception for retries
  at first; the proof attempt showed why that fails, and `VReplay` is its counterexample.
* `Owned`: in the mission model the maintainer finishes a delivery in the name of its owner, and
  the contract knows only clients; that every owner is a worker closes the gap, so that each
  step of a mission is one operation of `QueueContract` or none.
* `ReceiptInv`: tokens of different processes differ, those left in the process-local map
  included; a call about to send owns a receipt in `sending` that has had no effect; a web
  write has one claimant; an effect leaves its receipt neither absent nor, for email, in
  `claiming`. So a takeover, which needs `claiming`, never follows an effect.
* `ApiInv`: tokens differ, a claim carries the body of its owner, and a request that is to
  answer "created" has committed. `QuotaInv` counts the requests that have passed the check
  and not committed. `DuplicateInv` is a budget: missions made under a key, plus requests at
  work on it, plus one if the key is unguarded, never exceed one plus the faults; each fault
  pays for the guard it removes.
* `MeterInv`: the count of a row at Stripe is one exactly if its key has been seen; an outcome
  "reported" in a publisher's hand, and a delivered row, have been seen.
* `BillInv`: of the transactions that have inserted the receipt of an event one at most is
  open, and none once the receipt is committed; effects are counted by receipts; what is
  answered with 200 has a receipt, or is in the hand of a handler that commits late, or is
  among the dropped.
* `PlanInv`: the last event about the plan tells the state of the newest subscription
  (`EventsTell`). As long as that event is not overtaken, every older one is recorded; an
  older one that were still about to write would be unrecorded. So nobody else writes the plan, what
  the handler of the last event decided on its copy still holds at its commit, early or late
  (`DecisionsHold`), and the plan stays as told (`PlanIsTold`).

Only model-checked: liveness (the prover has no rule for fairness): `AdmittedSettles`,
`SettlesOrStrands`, `ClaimsResolve`, `ClaimsRecover`, `UsageIsSettled`, `EventsSettle`.

## 5. Order of work

Queue and contract, the runtime around it, the mission graph, the outboxes and receipts,
the tenant's billing; each module was checked before anything was proved about it. Next would
be the HTTP worker path, as a second kind of worker with its own holder identity.

## 6. Not modelled, and why

* The local queue adapter is for development and tests and does not keep the contract:
  `enqueue_task` appends duplicates, the idempotent enqueue does not look for live copies.
* The migration of the legacy Redis lists runs once, before any other client.
* Review grants: the hold and the approval of a task are part of `Admission`; what a grant
  binds is a comparison of digests. A review whose input binding fails is rolled back whole.
* The HTTP worker path runs the transactions of a worker under another identity.
* Outbound webhooks are an attempt loop inside one request, and the circuit breaker a counter
  of one process.
* The tenant scheduler is a choice over the memory of one process: it stays with a tenant until a
  claim finds nothing, whatever "queue-aware fair polling" suggests.
* Payloads without a task row, onboarding, members, sessions, the customer portal, and webhook
  events without a known tenant or price: single transactions without a rival.
* Authentication and tenant context; tenants are separated by key prefixes and row filters, so
  every model describes one tenant.
* Mission composition, interpretation of text, business understanding, ontology, abilities and
  catalogues, tools and providers, knowledge and ranking: together most of the backend's lines.
  They are tables, prompts, validation, create-read-update routes, or pure functions of natural
  language; no state is shared in them that a model could put at risk, and a handler's result
  is left open in the runtime modules. This is why the modules stand for a small share of
  the repository's lines, though for nearly all of those on which concurrent processes meet.
* Evidence and audit records (no control depends on them), the user interface, deployment and
  schema migrations.
