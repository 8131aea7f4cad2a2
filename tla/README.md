# Verification of the local Odoo.sh control plane

TLA+ models of the parts of `src/control-api` that are hard to test: job tables
that several threads and processes change at once, resources outside the
database (containers, Postgres databases and roles, directories, virtual
machines) that have to agree with those tables, crashes between two commits,
retries, leases and time-outs. TLC checks the models on small instances; TLAPS
proves most of their safety properties, and one refinement, for every instance.

## The system

The control plane is one FastAPI application (uvicorn, one process) over SQLite
in WAL mode, with Docker, a Postgres server and a Proxmox API beside it, and
worker processes that poll the same database. Four facts about the storage layer
and the server decide what can interleave:

- `SessionLocal` has `autoflush=False` and `expire_on_commit=False`: a thread
  decides on the ORM copy it loaded, however old, until it loads it again;
- a flush writes only the columns that were changed, and skips one that was set
  to the value the copy already had;
- a `SELECT` outside a write transaction sees the latest commit; SQLite's single
  write lock is held from the first flush to the commit;
- synchronous handlers run in the thread pool and so beside each other;
  `async def` handlers that never await between two commits are serial.

`worker_main` runs its queues in a fixed order on one thread: reconcile
provisioning, reconcile cloud, then the first of template build, deployment,
provisioning, cloud and Proxmox that has work, and otherwise the trial
lifecycle's tick. Backups, demo clones and acceptance tenants have processes of
their own.

### Inventory

| Component | State | Operations | Talks to | What is hard | What makes it correct |
|---|---|---|---|---|---|
| Build engine | `builds`, containers, databases, workspaces, the enqueue lock | create, enqueue, execute, cancel, stop, restart, delete, kick, reconcile at start-up | webhooks, Docker, Postgres, git | pipeline threads against request threads, crashes, capacity | no slot is leaked or overfilled, queued builds start, running builds are served |
| Webhooks and branches | deliveries, branches, the project's hook | receive, record, build, enable, disable, synchronize | build engine, GitHub | repeated, late and half-handled deliveries | a push is built, and once |
| Tenant provisioning | `provisioning_jobs`, `tenants`, role, database, container, filestore | queue, claim, execute, roll back, retry, reconcile | Postgres, Docker | duplicates, crashes, stale jobs, refused removals | success means served, rollback means nothing left, jobs end |
| Helper Compute reservation | node counters, reservations, checkouts | quote, reserve, sweep, bind, confirm, fail | set-up pages | read-modify-write of counters, expiry against payment | counters equal what is held, nothing is oversold |
| Cloud provisioning | requests with leases, approvals and fingerprints, instances, tenants | validate template, create, approve, revoke, claim, build, roll back, reconcile, retry | set-up, Docker | lease expiry against a slow worker, approvals that are out of date, rollback by another run | what can be opened is there, one executor, a rollback is complete |
| Cloud demo clone | requests, subscription, instance, role, database, filestore | checkout, claim, clone, activate, expire, roll back, clean up | set-up, Postgres | worker against supervised runs, partial clones | what can be launched is there, what failed left nothing |
| Cloud set-up and checkout | draft set-ups, orders | choose plan, configure, confirm, check out | accounts, catalogue | GETs that write between the commits of a POST | an order is within its plan, addresses differ |
| Authentication and sessions | `users`, provider identities, cookies | register, log in and out, Google, GitHub | all pages | lookup, then insert, by several callbacks | an identity opens only its own account |
| Proxmox jobs, controlled clone, gates and boot | reservations, VMID leases, versioned jobs, intents, approvals, VMs | acquire, plan, claim, execute, cancel, retry, reconcile; stage, dispatch, clean up; drift, clone, bind, boot, install | Proxmox API | lost answers, crashes around one irreversible request | a node is not oversold, one clone request, VMs belong to leases |
| Platform trial deployment | trials, selections, template, `deployment_jobs`, tenants | wizard, confirm, build template, deploy, roll back | worker loop, Docker, Postgres | two tabs on one draft, stale reviews, crashes | active means deployed as validated, confirmed trials are decided |
| Platform trial lifecycle | lifecycle rows, containers | tick, suspend, reactivate, convert, terminate, retry | worker loop | a tick over old copies, a container stopped between transactions | trials in use are served, retention is kept, expired trials end |
| Plan rules and dependencies | catalogue, rules | validate, resolve, order | deployment | cycles, auto-installs, barred and missing modules | a valid selection installs its closure in order |
| Backup, restore, retention | backups, archives, policies, restore jobs | queue, schedule, dump, publish, fail, reconcile, retain, restore, roll back | tenants, Postgres | crashes around files, two retentions | there is a backup to restore, a restore is whole or gone |
| Quick demo | sessions, slots, lease tokens | create, claim, advance, renew, expire, clean up | runtime adapter | lease loss inside a step | what `DemoSession` promises |
| Manual UAT tenants | seeded accounts, requests, tenants, resources | seed, approve, provision, roll back, reset | Postgres, Docker | two processes without a claim | ready means served, nothing without its row |
| Generic tenant provisioning, portal, catalogue, routing, migration, pages, host verification | see *Not modelled* | | | | |

`PROJECT.json` lists every component with its status, the lines every definition
stands for, and the hazards at the lines where they bite.

## Modules

In every module a step is one commit, one read that a later decision depends on,
or one external call. A thread is a program counter with the ORM copies it
holds; what follows the first flush of a transaction, up to its commit, is one
step because of the write lock. Definitions carry the names of the functions
they model. Operators marked "Mutant" are plausible wrong versions of the
definition after them, used to see that each property notices. Every module
states a type invariant (`TypeOK`, `UTypeOK`, `WTypeOK`).

| Module | Models | Checked through |
|---|---|---|
| `BuildEngine`, `BuildEngineProofs` | the build engine; its inductive invariant and theorems | `MCJobs`, `MCQueues`, directly |
| `TenantProvisioning`, `TenantProvisioningProofs` | jobs, execution, rollback, retry, reconciliation | `MCJobs`, `MCQueues` |
| `ComputeReservation` | node capacity held and sold | `MCCloud`, directly |
| `CloudProvisioning` | the real lane of Helpers ERP Cloud | `MCCloud` |
| `DemoClone` | its demo lane | `MCCloud`, directly |
| `CloudSetup`, `CloudAccounts` | from the plan to the order; signing in | `MCEntry` |
| `DemoSession`, `QuickDemo` | the promise of a demo session, and the sessions that keep it | `MCEntry` |
| `ProxmoxJobs`, `ProxmoxClone`, `ProxmoxPipeline` | the job queue; the one controlled clone; drift, Gate 4, boot, base runtime | `MCProxmox` |
| `PlatformDeployment`, `TrialLifecycle`, `ModuleSelection` | Quick Deploy: wizard to deployment; afterwards; what is installed | `MCPlatform`, `TrialLifecycle` directly |
| `BackupRestore`, `ManualUat`, `Webhook` | backups and restores; acceptance tenants; GitHub | `MCOperations`, `BackupRestore` directly |
| `CloudProofs`, `EntryProofs`, `ProxmoxProofs`, `PlatformProofs`, `OperationsProofs`, `BackupProofs` | the theorems of each area | extend its MC module |

The MC modules put components beside each other: `part` says which of them takes
steps. These components share no variable in the code that one writes and another
decides on within the behaviours modelled, so the union of their state spaces is
what has to be explored, not the product. `MCJobs` and `MCQueues` hold the same two
job engines, once with operators at work (safety, up to symmetry) and once with
full queues (liveness, where symmetry is not sound).

**BuildEngine.** `row` is the table; `worker[b]` the pipeline thread of a build
(`Load` to `SetStatus`, the failure and cancellation paths `CleanupContainers`
and `WriteFinal`, the final `WorkerKick`/`WorkerClaim`); `req[h]` the request
threads; `lock` the rows picked under `_enqueue_lock`; `main`, `databases` and
`workspaces` the resources. `Crash` drops all threads and may take containers
with it; `Boot` is `reconcile_builds_on_startup`. `touched` and `realloc` are
history variables for properties only. Left out: `project.status`, logs, audit
rows, transient containers.

**TenantProvisioning.** `Poll`, `Claim` and `Execute` are the worker loop,
`QueueCheck`/`QueueInsert`, `RetryCheck`/`RetryWrite` and `OperatorReconcile` the
requests, `Rollback` the compensation, run by whoever fails or reconciles a job.
`stale` holds the running jobs whose age passed the threshold. Removals of the
kinds in `Refusing` may be refused. Left out: environment rows, URLs, passwords.

**ComputeReservation.** One size stands for vcpu, RAM and storage, which go
through the same checks and updates. `HeldOn` counts what rows hold unit by unit,
as the size of a set, so that the sums in the properties need no recursion. `EventLoopFree` is the serial POST handler;
the sweep runs in the thread pool, and any number of requests overlap. `raced` is a
history variable: the nodes on which a request wrote what it had read before
another's commit, the read-modify-write that loses updates. The properties say
that nothing else disturbs a node; `NeverOversold` is the docstring's claim. Left out: prices, quote expiry, idempotent
replays (they change nothing), the sweep's limit of 100 rows. No page calls
`bind_checkout`, `confirm_payment` or `fail_payment` yet; they are modelled as
the requests their tests make.

**CloudProvisioning.** `req`, `inst`, `tenants` and `made` (what exists, tagged
with the run that made it) are the tables and the resources; a worker's `mem` is
the copy of the request it claimed. The approval fingerprint is the version of
the inputs it was computed from. `MarkFailed` and `MarkFailedAgain` are the two
places that handle the same failure. `Overlap = TRUE` lets a lease expire under a
live worker.

**DemoClone.** One row stands for request, subscription and instance, which
checkout inserts in one commit. Workers and supervised runs (`Operators`) execute
the same `execute_demo_clone_job`; `made` is its `_CleanupTracker`. A step may
raise before or after it made its resource, and then the tracker does not know of
it (`left`, which also has what a removal failed on and a dead process had made). The clock has
one tick for each of trial, grace and retention. `_persist_retryable_failure`
follows a clone by the worker, which its second check never lets start.

**CloudSetup, CloudAccounts.** The event loop is one process (`Loop`), GET pages
and the Google callback are `Readers`. The configure form is its four commits.
Users, subdomains and one add-on stand for the form; prices are computed from the
copy and affect nothing else. In `CloudAccounts` the token exchange is one
outcome: refused, or the claims of a verified ID token.

**ProxmoxJobs, ProxmoxClone, ProxmoxPipeline.** A claim is an uncommitted UPDATE;
with Gate 2 on, the readiness verdict is committed in between and the worker goes
on with what it read. In `ProxmoxClone` calls of two operators interleave at each
commit and each request to the provider, whose answers may be lost. In
`ProxmoxPipeline` commands run one at a time and may die at any step; `changed`
is what drifted since Gate 2, `clones` and `starts` count irreversible requests.

**PlatformDeployment, TrialLifecycle, ModuleSelection.** Tabs of one customer
share a draft; a review page carries the checksum (`Snapshot`) of the ordered
selection, the plan and the rules' version. `ChoosePlan` and `set_wizard_plan` (and
the same two of the modules) are the SELECT of the draft and the UPDATE without a
condition, in a thread of the pool; `moved` are the trials whose plan was written
after the worker had validated it. The kept `odoo.conf` of the one-shot install and
its container, whose removal may fail, are not among the resources counted.
The lifecycle's tick walks copies of
up to `Limit` rows; stopping a container falls between two transactions, and
operators, one request at a time, work between any two steps. The retry an operator
asks for (`api_operator_lifecycle_retry`) runs `process_trial` by itself, not beside
the worker's tick. `crossed` are the trials that were last reactivated under a tick
that held them. The batch is a set, taken in the order of the ids as the query
returns it.
`ModuleSelection` is the algorithm: `add_module`'s recursion as a stack of calls
and Kahn's ordering, checked against the closure as a least fixed point. Catalogues,
rules and selections are constants of `MCPlatform`; `Platform.cfg` gives them the
small sets `SmallCatalogs`, `SmallRulesets` and so on.

**BackupRestore.** Rows, archives (`files`), and for a restore the resources of
its new tenant. The worker, an API request and two sweeps of the retention run
beside each other. Days are the schedule's windows and what expiries are counted
in; one begins between any two steps, in the middle of a retention run as well. Two
runs on lists of different days set `straddled`.

**DemoSession, QuickDemo.** `DemoSession` says what a visitor is promised: a slot
of one's own from the request to the deletion, served once, no return from an
end. `QuickDemo` has the leases, tokens, workers, crashes and browsers; `Promise`
maps each session to its stage, and `KeepsPromise` is the refinement.

**ManualUat.** The worker and the command line (`--provision-all`, `--reset`)
work on the same requests; `dirty` is a reset that was made in memory and is
committed by the next account's commit. A removal may fail, and is passed over;
`left` is what such a removal did not take.

**Webhook.** GitHub (external) sends each delivery in any order and may repeat
it; the handler is serial and may be killed; pages run beside it.

## Runs

| Run | Shows |
|---|---|
| `job_operators` | every operation on one build by two operators against its pipeline, a crash, refused removals: `ExecutingHasThread`, `RunningIsServed`; two jobs for one subscription, reconciled beside the worker, a crash, databases that cannot be dropped: `SucceededIsServed`, `FirstRollbackIsClean` |
| `job_queues` | concurrent creations for one slot with a crash: `ClaimsWithinCapacity`, `QueuedStarts`; one job, three attempts, two crashes, any refused removal: `JobsMoveOn` |
| `cloud` | reservations: `CountersExact`, `NotOversold`, `PaidIsCommitted`; the real lane with two workers and two crashes: `OpenIsServed`, `OneExecutor`, `RolledBackIsClean`, `ApprovedIsServed`; the demo lane: `LaunchIsServed`, `UnservedIsClean` |
| `entry` | set-ups: `SubdomainsDistinct`, `OrderWithinPlan`; accounts: `IdentityIsOwn`; quick demo: `KeepsPromise` |
| `proxmox` | `NodesNotOversold`; `OneDispatch`, `VmIsLeased`; `MadeOnce` |
| `platform` | `DeployedIsServed`, `RolledBackIsClean`, `ConfirmedIsDecided`; `TrialIsServed`, `RetentionKept`, `ExpiredIsSuspended`; `ValidInstallsClosure` |
| `operations` | `GoodBackupKept`, `BackupEnds`, `RestoreIsWhole`; `ReadyIsServed`, `NothingOrphaned`, `OneProvisioner`; `OneBuildPerCommit`, `PushIsBuilt` |
| `build_restart_starves` | violation of `QueuedStarts`: a restart gives its slot back without kicking the queue |
| `reservation_oversold` | violation of `NeverOversold`: a sweep beside a POST loses an update of the counter |
| `demo_worker_stuck` | violation of `QueuedIsCloned`: the worker refuses every request it claims |
| `conversion_overtaken` | violation of `ConversionStands`: a tick suspends a trial that was converted after it was read |
| `last_backup_lost` | violation of `LastKnownGoodKept`: two retention runs on lists from two sides of an expiry remove the last backup |

**Bounds.** Two builds and one slot are enough for one to wait on the other, two
handlers for every pairwise race; with one build all six operations and a crash
fit. Two jobs of one subscription give the duplicate, three attempts give a retry
of a retry, two crashes let a reconciliation be interrupted as well. Three
reservations on two nodes of four units let nodes fill, be chosen by free
capacity, and be refilled, and let two requests overlap on one node or on two. One cloud request with two workers, two runs and two
crashes has a retry under another run id that meets what the first left. Two
users with two keys and two posts have an address asked for twice and a plan
changed under a form; three user rows allow a duplicate. Two jobs on a node of
one unit compete for it; four calls on the controlled clone allow a release
between another's read and its intent. Two trials and a limit of one let one stand in front of the
other in the tick for ever; four days pass trial, grace and retention. Three modules have
every dependency relation, cycles included. Two backups and one retained are the
smallest retention that removes one; three deliveries with a repeat are late,
doubled and out of order. Deadlock is not checked: users may send nothing more, or
a bound is used up; that work does not stand still is what the liveness properties
say.

**Fairness.** Threads that were started run on, the supervisor restarts a process
(`Boot`), the workers' loops run for ever, leases and back-offs end with time,
and a delivery that reached the server is handled. No request is assumed to
arrive and no operator to act. `MCQueues` states the fairness of the two job engines
each for its part. Weak fairness of each loop is enough: threads wait
for each other only at the enqueue lock, which is held over a bounded number of
steps.

**Assumptions a reader should know.** Some constants choose a world in which the
code's promise holds; with the other value TLC finds the promise broken.

| Constant | The passing runs assume | Otherwise violated |
|---|---|---|
| `SlowJobs = FALSE` | an execution ends within the 30 minutes after which an operator's reconciliation takes it for dead | `SucceededIsServed` |
| one operator in `cloud` | two supervised runs are not started on one demo request | `UnservedIsClean` |
| `Overlap = FALSE` (`CloudProvisioning`) | a lease outlives the work under it | `OpenIsServed` |
| `Overtaken = FALSE` (`ProxmoxJobs`) | nobody cancels a job between the readiness verdict and its execution | `CountersExact` of `ProxmoxJobs` |
| `StaleWrites = FALSE` | no lease ends between a read and the write of one request | `KeepsPromise` |
| `ResetOverlaps = FALSE` | a reset is not run beside a provisioning | `NothingOrphaned` |
| `LateFaults = FALSE` | the audit after a successful backup does not fail | `GoodBackupKept` |

These properties hold up to a history variable that names, state by state, the one
thing the code does not prevent; without it TLC finds each violated:

| Property | Holds until | Variable |
|---|---|---|
| `CountersExact`, `NotOversold`, `PaidIsCommitted` | a request writes a node on which it was overtaken (`NeverOversold`, run `reservation_oversold`) | `raced` |
| `DeployedIsServed` (its clause on the plan) | a tab's plan lands after the worker's validation | `moved` |
| `TrialIsServed` | a trial is reactivated under a tick that holds it | `crossed` |
| `GoodBackupKept` | two retention runs work on lists of different days (`LastKnownGoodKept`, run `last_backup_lost`), or a process dies | `straddled` |
| `UnservedIsClean`, `NothingOrphaned` | what a step made before its flag was set, or a removal failed on, stays | `left` |

Other statements the modules make and TLC refutes, each the formal side of a
finding below: `CancelFinishes` (`BuildEngine`), `RolledBackIsClean`
(`TenantProvisioning`), `RollbackLeavesNothing` (`CloudProvisioning`),
`OneAccountPerEmail` (`CloudAccounts`), `EndedIsFinal` (`ProxmoxJobs`),
`BootedIsRunning` (`ProxmoxPipeline`), `StaleHasReason` (`PlatformDeployment`),
`ValidIsComplete` (`ModuleSelection`), `EveryTrialIsSuspended` (`TrialLifecycle`).

## Findings

Each is quoted with its lines in `PROJECT.json`.

1. A restart frees its slot silently; queued builds may wait for ever.
2. A cancel can be accepted and lost.
3. `rollback_status` survives a retry, so that retry's rollback does nothing.
4. The "atomic conditional update" of the reservation counters is a
   read-modify-write; capacity can be oversold.
5. `api/cloud.py:789` passes a keyword-only argument by position; the session's
   earlier reservation is never released.
6. A cloud rollback refuses the container and the filestore of an earlier run and
   then deletes the row that names them.
7. The demo-clone worker's second check refuses every request it claimed.
8. A demo cleanup that dies between its two commits cannot be repeated.
9. A Google sign-in beside a registration leaves two accounts with one e-mail.
10. A cancellation of a Proxmox job is overtaken by the worker's own copies.
11. The reconciliation of the Proxmox loop is flushed and rolled back.
12. Gate 4 hands its transport a contract that the transport refuses.
13. The boot orchestrator goes on to `booted_and_ready` after a failed start.
14. A selection ticked in another order than the catalogue's is refused as stale.
15. A tick suspends a trial that was converted after it was read.
16. Suspended trials fill the tick's limit for good.
17. A missing dependency is not an error of a selection.
18. Two retention runs on lists from two sides of an expiry remove the last backup;
    after a crash one run can keep a row without files and remove the good one.
19. A failed scheduled backup is not retried within its window.
20. A redelivery never repairs a delivery that failed.
21. One leftover stops the manual UAT worker for all later requests.
22. A plan written late leaves an active trial on a plan it was not validated against.
23. A trial reactivated under a tick that held it may end active and stopped.
24. What a demo clone's step made before it raised is unknown to the clean-up.
25. Permanent failures of a Proxmox job can be retried under two other error codes.

Hazards seen while reading that no property speaks of: two projects may be given
the same port (the second build fails at launch); a refused `docker stop` leaves
a build `stopping`, which only delete accepts; a filestore made before its path
is committed is unknown to every rollback; a worker that dies inside a rollback
leaves its job `rollback_required`, and one that dies in a restore, a deployment
or a template build leaves it `running`, for which nothing looks; a claim whose
approval changed is parked for 3650 days; a slow GET with an old copy can reopen
a submitted set-up.

## Proofs

Eight modules prove the safety properties of the runs for every value of the
constants: any number of rows, threads, crashes and faults. Each theorem has the form
`Spec => []P` (for three of them `P` is an action property or a refinement). `P`
is seldom inductive: it holds because of what a thread knows when it takes a
step, and the inductive invariant says what that is at each program counter.
That the invariant holds at the start and is kept by every step is proved with a
lemma per action or group of actions; the theorem follows with one use of PTL.

| Theorem | Property | Holds when | Inductive invariant |
|---|---|---|---|
| `BuildEngineProofs`: `TypeCorrect`, `NoSlotLeaks` | `TypeOK`, `ExecutingHasThread` | always | `SlotInv` |
| `ClaimsFit`, `RunningBuildIsServed` | `ClaimsWithinCapacity`, `RunningIsServed` | always | `SlotInv /\ ServeInv` |
| `TenantProvisioningProofs`: `TypesAreKept` | `TypeOK` | always | `TBase` |
| `SuccessIsKept`, `FirstRollbackLeavesNothing` | `SucceededIsServed`, `FirstRollbackIsClean` | `~SlowJobs` | `TBase /\ TKnow` |
| `CloudProofs`: `CountersAreExact`, `CapacityIsNotOversold`, `PaidMeansCommitted` | `CountersExact`, `NotOversold`, `PaidIsCommitted` | always | `RInv` |
| `OneBuildsARequest`, `OpenedInstanceIsServed`, `RollbackNamesAllItMade` | `OneExecutor`, `OpenIsServed`, `RolledBackIsClean` | `~Overlap` | `BInv` |
| `LaunchedDemoIsServed`, `UnservedDemoIsClean` | `LaunchIsServed`, `UnservedIsClean` | `OneOperator` | `EInv` |
| `EntryProofs`: `AddressesAreDistinct`, `OrdersAreWithinPlan` | `SubdomainsDistinct`, `OrderWithinPlan` | always | `SInv` |
| `IdentitiesAreOwn` | `IdentityIsOwn` | always | `AInv` |
| `PromiseIsKept` | `KeepsPromise` (`QuickDemo` implements `DemoSession`) | `~StaleWrites` | `DInv` |
| `ProxmoxProofs`: `OneCloneRequest`, `VmKeepsItsLease` | `OneDispatch`, `VmIsLeased` | always | `CInv` |
| `NodesKeepTheirCapacity` | `NodesNotOversold` | `~Overlap`, `~Overtaken` | `JInv` |
| `VmMadeAndStartedOnce` | `MadeOnce` | always | `PMade` |
| `PlatformProofs`: `ActiveDeploymentIsServed`, `RollbackLeavesNothing` | `DeployedIsServed`, `RolledBackIsClean` | always | `PInv` |
| `ContainerOutlivesRetention` | `RetentionKept` | always | `LTimes` |
| `TrialInUseIsServed` | `TrialIsServed` | always | `LInv` |
| `SelectionInstallsClosure` | `ValidInstallsClosure` | always | `SInv` |
| `OperationsProofs`: `CommitBuiltOnce` | `OneBuildPerCommit` | always | `WInv` |
| `RestoresAreWhole` | `RestoreIsWhole` | always | `BInv` |
| `ReadyTenantIsServed`, `NothingIsOrphaned`, `ProvisionersStandApart` | `ReadyIsServed`, `NothingOrphaned`, `OneProvisioner` | `~ResetOverlaps` | `UInv` |
| `BackupProofs`: `LastGoodBackupIsKept` | `GoodBackupKept` | `~LateFaults` | `BInv /\ KAny` |

"Always" is under the assumptions on the constants that each module declares:
bounds are naturals, sets that are counted are finite, names of different kinds
differ, and a module's own switches are Booleans. The hypotheses are those of the
table *Assumptions a reader should know*: with the other value TLC finds the
property broken, so they are what the code relies on and does not enforce.
`OneOperator` says that all members of that set are equal, which leaves the sets of
rows and workers free.

**Build engine.** A pipeline writes its final status only if the ORM sees a
change from the copy it holds, so one has to know that the copy, and the row, were
still live (`PipelineRow`), and that in the one case where a write is skipped the
row is out of the count already (`SkippedCancel`). A claim overwrites whatever the
picked row has become, so picked rows may only have been cancelled or deleted
since (`PickedRow`). A handler decides on an old copy; that its build has left the
queue for good, and for stop and restart that its pipeline is over, is
`HandlerKnows`. A crash leaves no thread behind (`DownIsQuiet`). `CountedIsBacked`
is the property with the knowledge of the restarting handler added. `ServeInv` adds
what is claimed and what serves. A pick is counted before it is written, so the slots
taken are the rows that count and the rows picked under the lock (`Fits`). A stop or a
restart decided on an old copy is of a build whose pipeline is over (`Halted`);
whatever shows a cancellation, and every handler about to show one, is about a build
an operator touched (`Marked`). So a pipeline of an untouched build finds its row as
it left it, and its container is up on the port of that row from the launch on
(`Launched`).

**Tenant provisioning.** `TBase` needs no hypothesis: a tenant row belongs to one
job and what exists has a row (`Owners`), an insertion that was let in finds room
(`Room`), and a thread's copy of a job names no tenant or the job's own
(`Holds`). `TKnow` is what separates execution from compensation: a thread
threatens a tenant when it compensates with a copy that names it, and nobody
threatens a job that executes (`Undisturbed`) or has succeeded (`Secure`); `Fresh`
says why a first rollback cannot be skipped as completed before, `Recorded` that
what a thread remembers of containers and files is what the row says, `Gone` what
is removed so far at each step. `~SlowJobs` is used in one place, the ageing of a
job under execution.

**Cloud.** For reservations `ThreadKnows` says what a handler's program counter
makes of the copies it read, on every node that nobody has written since (the
node is not in its `stale`). A request that is not overtaken on a node writes the
counter it found, changed by what it does to the row (`LedgerOk`); one that is
overtaken puts its node among the `raced`, of which nothing is said. For
builds the lease is what makes a claim exclusive: while a worker is inside a job the
row is claimed and its lease has not expired, no two workers are inside one job, and
what a reconciliation is about to take over is nobody's (`WorkerOk`). That a complete
rollback is clean needs in addition that everything made belongs to a tenant which
some row still names (`MadeOk`, `WorkerTidy`), which holds until a process dies or a
call fails. For demo clones `OperatorKnows` says that what exists is what the cleanup
tracker remembers and what was left behind before.

**Entry.** For set-ups the invariant is small: a row not yet inserted has no
address, and who is in the middle of a form works on an inserted row. So the test
of an address sees every row that holds one, and test and write are one step of
the serial handler. For accounts the difficulty is a link to a user that was
looked up earlier: `AInv` has that this user has a password, so no other sign-in
changes its e-mail before the link is written. The refinement of `DemoSession` goes
action by action: a step that changes no state or slot is a stutter, every other
one is a step of the abstract specification. `DTokens` (two claims never hold the
same token) and `DWrites` (the state of a row that is written without a test) make
the mapped steps possible.

**Proxmox.** The intent row is the strengthening of `OneDispatch`: it is committed
before the request is sent, a job with an intent keeps its lease (`CIntents`), a
call that may still send finds its request unsent (`CCalls`), and no two calls may
send for one job (`CAlone`). For the job queue the reserved counter of a node equals
the number of its active reservations (`JCounts`): `Less` stops at zero, so a
consumption of a unit that was never counted would raise `committed` alone. `JProcs`
and `JAlone` say what the processes' copies still tell about the rows.

**Platform.** `PInv` follows a deployment: at each step of the worker, the role,
database, filestore and container made so far (`Fits`), and that a tab about to
queue a deployment has confirmed its trial (`QueuedPages`); the plan of a validated
trial is the one of its selection unless the trial is among the `moved`. `LTimes` dates
every state of a lifecycle row. `LTidy` is about the trials that no reactivation crossed:
only a conversion gets between a copy that lets the tick suspend a trial and its row, so
a trial that is stopped is not in use, and a reactivation has its trial to itself. For the module selection the property is about an
algorithm. Nothing that the roots or a selected module call is forgotten, and every
set closed under calls holds all that is selected or on the stack (`Collected`), so
that what is selected at the end is the least such set. While modules are ordered
the in-degree is the number of dependencies not yet placed (`Sorting`). No
induction over data is needed: the recursion and the queue are states of the model.

**Operations.** A webhook build is made only for a commit without one, in a serial
handler. While the worker is on a restore, exactly the resources of the steps before
the current one exist (`BWorker`); a crash takes the position with it and cannot
leave the row succeeded. For acceptance tenants nobody claims a request: what keeps
the two provisioners apart is the unique database name of the tenant row, held from
the reservation on (`UAlone`); `UAgents` says what exists at each step, up to what
failed removals left (`AtStep`), `UReset` what a reset still finds.

**Retention.** Two runs may work at once, for days, on lists they took at different
times, while the worker succeeds with further backups. For a day `d` one backup is the
kept one (`IsKept`): the newest, or the oldest when all have expired on `d`. `KInv(d)` says that the lists in use were taken on day `d` and spare its kept
backup (`KLists`): `retention_candidates` keeps the newest within any limit, which
`max(1, ...)` makes at least one, and takes the last off a list of all; that the last
is the oldest is `DescendingLists`, proved by counting what is newer than each. A
removal does not change which one is kept, and a new success is kept itself or changes
nothing, because rows are queued, taken up and expire in the order of their ids
(`KOrder`). When no run is under way the invariant holds for any day, so the next run
chooses `d`. A run that begins beside one of an earlier day is the one step that breaks
it (`OnlyAStartStraddles`): the two lists may spare different backups, and together
remove both, as `last_backup_lost` shows. So the inductive invariant is `KAny`: two
runs have straddled a day, or `KInv(d)` for some `d`. While nothing died the kept backup
has its files (`KWhole`).

**Only model-checked.** Liveness (`QueuedStarts`, `JobsMoveOn`, `ApprovedIsServed`,
`ConfirmedIsDecided`, `ExpiredIsSuspended`, `BackupEnds`, `PushIsBuilt`) is out of the
prover's reach. All safety properties of the passing runs are proved. The violations
are counterexamples of TLC.

## Plan

- `TypeOK` of the modules that have no theorem for it yet, as lemmas of their own.

## Not modelled

- *Host verification* (`independence_verifier`, `host_verifier`): reads of a live
  host that end in a report; their verdict is an input of the Proxmox modules.
- *Generic tenant provisioning* (HC3.10, HC3.11): an executor run by hand for one
  tenant on a remote host; with the modelled worker it shares the jobs table.
- *Subscriptions and portal, catalogue, plans and pricing*: rows that one
  operator edits and the modelled parts read; they appear as inputs that may
  change (`EditInputs`, `EditRules`).
- *Tenant routing, pages, translations, view models*: input and output only.
- *Migrations and the disaster recovery runner*: run alone on a stopped system.
- *Harnesses and seeds* (`tm_d12_*`, catalogue seeds): scripts around the program.
- Within modelled parts: TLS, credentials' storage and the inspection of a lab
  before a real clone; a slow live backup taken for stale; two commands at once
  on one `ProxmoxPipeline` job; the Quick Demo's real runtime adapter, which
  nothing enables.
