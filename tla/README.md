# A verification project for the crawl system

This directory holds TLA+ specifications of the two parts of the crawl system
on which everything else leans. The first is *Rota's proxy control plane*: it
decides which crawl attempt may use which network route, and brings a new route
live on the data plane. The second is the *publication pipeline*: it carries
what the crawler finds from the crawler's database over the business database
into the search. TLC checks the specifications on small instances; TLAPS proves
their safety properties for every instance.

All source paths below are relative to `src/`. `proxycontrol/` and `proxy/`
stand for `services/rota/core/internal/proxycontrol/` and
`services/rota/core/internal/proxy/`; a JavaScript file without a directory is
in `services/qybullmq/src/`.

## 1. Inventory

The repository crawls YouTube channels with many workers behind a fleet of
proxies, classifies what it finds and publishes it to a business database.

| Component | State it keeps | Operations | Hard behaviour |
|---|---|---|---|
| **Proxy control plane** (`proxycontrol/`, Go) | PostgreSQL: slots, leases, tasks, observations, business runs | Claim, Renew, Release, BeginTask, Observe, CompleteTask, Report, reconcile, syncResources | handlers interleave between transactions, leases lapse at any moment, workers restart, requests are replayed |
| **Route activation** (`route_activation.go`, `claim_route_publication.go`) | slot row columns `route_activation_*` | load or claim, begin, renew, commit, finalize, resolve | no transaction spans database and data plane; answers get lost; several callers work on one route; restarts lose the registry |
| **Data plane** (`proxy/`) | tokens and retired names in memory, open tunnels, cached credentials | admit a request, begin, commit, retire, rebuild | delayed calls, restart, cached credentials |
| **Proxy health lifecycle** (`proxylifecycle/policy.go`, `repository/proxy_lifecycle_repository.go`) | proxy status, failure counters, health grant | apply a verdict, claim a check | verdicts race reconciliations; a grant is overdue while its check is in flight |
| **Crawl worker** (`rotaSlotAdapter.js`, `managedWorkerJob.js`, `channelSlotExecutor.js`) | the assignment it believes it has, a renewal timer, the job under way | claim at start, renew, begin, observe, complete, release | the timer fires amid a task; retries repeat requests; state is read before an `await` and used after |
| **Job dispatch** (`managedJobDispatchOutbox.js`, `managedJobIntentStore.js`) | intents in PostgreSQL, jobs in BullMQ | enqueue, dispatch, reclaim | at-least-once delivery |
| **Execution fences** (`dataApiBatchExecutionFence.js`, `contentDetailExecutionFence.js`) | leased rows per batch or item | acquire, renew, finish | a stalled owner against its successor |
| **Publication, crawler side** (`publicationReconciler.js`, `publicationPublisher.js`, `publicationTransport.js`) | revisions and outbox in the crawler's database | write a revision, claim, post, settle | leases lapse under slow publishers, requests are lost, repeated or handled late |
| **Publication, ingress and activation** (`businessPublicationIngress.js`, `businessPublicationReconciler.js`, `businessPublicationActivator.js`) | inbox, staged revisions, cursors, ownership in the business database | receive a shard, take a turn, activate | duplicates and reordering; domains that may only start together; a reconciler whose turn ran out |
| **Publication, projection and cutover** (`businessPublicationProjector.js`, `businessPublicationCutoverAdmin.js`) | projection outbox, releases, what the search shows, projection mode of a channel | claim, project or replay a release, retry, cut over, roll back | batches of several channels, failures of one row, an operator's transaction against the running system |
| **Controller, schedulers, repair** (`controller.js`, `queryScheduler.js`, `pipelineV2.js`, ...) | crawl business tables | select and enqueue work | mostly decided by SQL over data |
| **Feature engine** (`services/feature-engine`, Python), **dispatch**, **local agent** | feature clocks, applied events | schedule, apply, relay | stale clocks, replays |
| **API, dashboards, auth, schema, deployment** | - | - | I/O and presentation |

Interactions: a worker claims a *slot* over HTTP and gets a *lease* and a proxy
user name; it begins a *task* (an attempt of a business run) on the slot's
present route, sends its traffic through the data plane under that user name,
reports *observations* and completes the task, upon which the control plane
keeps the route, moves the slot to a reserve proxy or pauses it. In the
background the manager reconciles every few seconds, the health checker changes
proxies, and leases lapse when their worker is gone.

What was crawled is written as the next *revision* of one of the channel's
domains, in one transaction with its *outbox* row. Publishers lease outbox
rows, post them in shards to the ingress of the business database, and store
what they are told. Reconcilers take turns at a channel and *activate* the
stored revisions that continue its cursors. Every activation leaves a row in
the *projection outbox*; projectors lease such rows of several channels and
publish them as the next *release*, which is what the search shows. A *cutover*
puts a cohort of channels that were held back online in one transaction.

The correctness properties of each part are the ones of sections 3 and 4; the
hazards that led to them are listed, line by line, in `PROJECT.json`.

## 2. Modules

| Module | Role |
|---|---|
| `RouteLock` | abstract specification: while an attempt runs, one route is its own, to the end, and it is never started twice |
| `ProxyControl`, `MCProxyControl` | the control plane: all slots, leases, tasks, runs, reconciliation in two transactions; its instances for TLC |
| `ProxyControlProofs` | types, agreement of leases, slots and attempts, exclusive and fenced routes |
| `ProxyControlRouteProofs` | control states, generations, evidence, ends of attempts, the refinement of `RouteLock` |
| `ProxyControlBudgetProofs` | one slot per worker, what stays ended, attempts and budgets |
| `RouteActivation`, `MCRouteActivation` | the activation protocol of one slot between row and data plane; its instances |
| `RouteActivationProofs` | types, and tokens that never go back |
| `RouteActivationNameProofs` | given names stay admitted, taken-over claims are powerless |
| `PlanContract` | what a plan of routes promises: the definition `ProxyControl` relies on and `PlanAssignments` keeps |
| `PlanAssignments`, `MCPlanAssignments` | the planner of reconciliations and the choice of a standby by a completion, with roles, pins and preferences; its instances |
| `PlanAssignmentsProofs` | the contract, plans that stand when made again, moves with a reason |
| `RevisionLog` | abstract specification: per domain, a log the crawler extends and a reader that moves forward over it, domains that start together started by one step |
| `PublicationPipeline`, `MCPublicationPipeline` | one channel from the crawler's transaction to the consumer cursors; its instances |
| `PublicationPipelineProofs` | its theorems, with the refinement of `RevisionLog` |
| `Projection`, `MCProjection` | activated channels into releases, cutover and rollback; its instances |
| `ProjectionProofs` | its theorems |

`ProxyControl` and `RouteActivation` are two views of the same slot rows. The
first has all slots, and an activation is only its last transaction
(`FinalizeRoute`); the second has one slot and every step of the activation,
and reduces the control plane to what it does to that row (`ClaimSlot`,
`ReplaceRoute`, `PauseIdle`, `PauseCompleted`, `Release`, `Cleanup`, `Renew`).
`PlanAssignments` shows that the real planner meets the contract by which
`ProxyControl` uses it (`Admissible` of `PlanContract`, one definition for both). `PublicationPipeline` follows one channel in depth and
ends with its cursors; `Projection` follows several channels and begins with
the row each activation leaves. What they share is that row, so an `Activate`
of `Projection` stands for a whole activation of `PublicationPipeline`.

### ProxyControl and its code

Every handler takes one advisory lock first and runs in one transaction, so a
handler is one action; an error rolls back and is a stuttering step, and so is
a replayed request, since ids of claims and attempts are unique keys. Leases
and tasks are therefore named by the request that makes them.

| Code | Definitions |
|---|---|
| `proxy_running_slots` | `holder`, `route`, `generation`, `ready`, `control`, `activeTask`, `pending` |
| `proxy_control_leases`, `_tasks`, `_observations`, `_business_runs` | `lease`, `term`, `task`, `observed`, `run` |
| proxies table as the control plane reads it | `routable`, `fresh` |
| a reconciliation between its two transactions | `swept`, `refresh` |
| `lease.go` | `Claim`, `Renew`, `Release` |
| `credentials.go` | `ExpireLeases`, `EndLapsedLeases`, `Invalid`, `AbandonIn` |
| `task.go` | `BeginTask`, `ExhaustRun`, `RunExhausted`, `ExecutionTasks` |
| `observation.go` | `Observe`, `Merge` |
| `completion.go` | `CompleteKeepingRoute`, `CompleteReplacingRoute`, `CompletePausing` |
| `reconcile.go`, `policy.go` | `BeginReconcile`, `Reconcile`, `AbortReconcile`, `FinishRefresh`, `LoseRefresh`, `Plans` |
| `route_activation.go` (last transaction) | `FinalizeRoute` |
| health verdicts, overdue grants, `report.go` | `HealthPasses`, `HealthFails`, `GrantLapses`, `ReportFailure` |

The time left to a lease is `ample`, `short` (not more than the ten seconds a
finalization asks for) or `lapsed`; `LeaseAges` moves it at any moment. The
planner is given by its contract: `Plans` are the `Admissible` plans of
`PlanContract` (locked slots keep their proxy, no proxy twice, nothing
ineligible, no slot empty while an eligible proxy is free). That the planner
meets it is checked and proved for `PlanAssignments` (`PlanIsAdmissible`). One role is modelled. The membership of
a slot's pool is taken to follow the slot's proxy. A claim that reuses the
fresh name of its own cleanup is treated like any rotation of the name.

### RouteActivation and its code

`slot` is the row (user name, remembered old name, claim, predecessor, status),
`token` and `retired` the registry of `proxy/handler.go`, and each caller has a
program counter `pc` and a copy `job` of what it read. Steps follow
`activatePendingRoute` (`load`, `begin`, `silence`, `prepare`, `renew`,
`commit`, `renew_again`, `finalize`), `resolveUncertainRouteActivation`
(`resolve`, `resolve_begin`, then `undo` or `abandon`) and
`publishClaimedRoute` (`verify`, `begin`, ..., `reverify`). Every database step
may succeed with its answer lost. `Crash` forgets registry and callers;
`Restart` rebuilds the registry from the row. The rebuild is atomic with the
start since `cmd/server/main.go` runs it before the manager and the listeners
start. Under a live lease the user name stands for the fence of lease, proxy
and route generation, because every change of these renames the user.

### PlanAssignments and its code

`Plan` is `planPolicyAssignments`: locked slots first, then the roles in the
order of the source, each through the four passes of `planAssignments`
(`PlanRole`: keep pinned, place pinned, keep generic, fill) with the proxies
left over so far. A plan is a function on the slots decided so far. A pass that
keeps proxies (`Keep`) takes all its slots at once, as no two slots hold one
proxy. A pass that deals out proxies (`Deal`) is a recursive function over the
sorted slots, which each take the best proxy left (`Serve`); the code goes over
the candidates when it places pinned ones, which pairs the same two orders. `Pin` is `pinnedRole`, `WarmStandby`
is `selectCompletionWarmStandby`. `prefers` holds the result of
`compareCandidates` per role and `Measure` changes it at any time. Around these
operators the module has just enough of the slots' life (free, leased idle,
busy) to reach every input the planner can meet.

### PublicationPipeline and its code

A revision is a pair of domain and sequence, which the stream makes unique. Its
contents are left out but for the one thing the code asks of them, its `flaw`:
the envelope cannot be built or is too large (`unsendable`), the ingress
refuses it (`rejected`), or the activator cannot apply it (`inapplicable`).

| Code | Definitions |
|---|---|
| crawler's revisions and outbox (`publicationReconciler.js`) | `written`, `flaw`, `occurred`, `outbox`; `Revise` |
| `publicationPublisher.js`: claim, batch, timer, settlement | `publisher`; `Claim`, `LeaseLapses`, `GiveUp`, `Settle`, `PublisherCrash` |
| `publicationTransport.js` | `wire`; `Post`, `LoseRequest` |
| `businessPublicationIngress.js` | `inbox`, `ingress`, `owned`; `AcceptShard`, `ReceivedAs`, `Receipt` |
| `businessPublicationActivator.js` | `stage`, `cursor`; `ActivateOwned`, `ActivateUnowned` with `Ready`, `Applicable`, `Failed`, `Package`, `NextStage`, `NextCursor` |
| `businessPublicationReconciler.js` | `turn`, `reconciler`; `TakeTurn`, `TurnLapses`, `Activate`, `ActivationFails`, `EndTurn`, `ReconcilerCrash` |

A request the publisher gave up on stays on the wire, where it can still be
handled after any number of other steps; an answer that the publisher no longer
waits for is lost. The order in which the ingress takes the envelopes of a
shard is nondeterministic. The activation transaction does not look at the
reconciler's lease, so a reconciler whose turn lapsed still activates; only the
end of its turn is fenced.

### Projection and its code

The n-th activation of a channel is its version n. A batch is named by the
versions it publishes, as the semantic hash of the code names it, and a release
is named by its batch.

| Code | Definitions |
|---|---|
| row an activation leaves (`insertActivationAudit`) | `version`, `row`; `Activate` |
| `businessPublicationProjector.js` | `projector`, `active`, `releases`, `live`; `Claim`, `LeaseLapses`, `Project`, `ProjectFails`, `Retry`, `ProjectorCrash` with `Claimable`, `Targets`, `Replays` |
| `businessPublicationCutoverAdmin.js` | `mode`, `cutover`, `applying`, `rolling`; `BeginCutover`, `ApplyCutover`, `AbandonCutover`, `BeginRollback`, `RollBack`, `AbandonRollback` with `DryRunSucceeds`, `Newer`, `ExpectedRelease`; `AfterWriting` |

`Project` reads its rows anew, as the code does, so it may deliver a row that
another projector leases by now.

A cutover and a rollback are two steps each. Their transactions are
SERIALIZABLE and fix the snapshot with their first statement
(`businessPublicationCutoverAdmin.js:611` and `:736`), but lock the ownership
rows later. Between the two steps an activation may have the ownership; it runs
READ COMMITTED and does not write the ownership row, so the operator's
transaction neither sees it nor conflicts with it. The second inspection of a
rollback (`:745`) reads the same snapshot and adds nothing. What a rollback
*writes* is checked against its snapshot by the database: once a projector has
written a released row after the rollback began, or made another release active
where the search is to be taken back, the rollback is `overtaken` and can only be
abandoned (`AfterWriting`; a lease that runs out writes nothing). It may also be
abandoned for a lock it does not get in time. One advisory lock keeps the
operators' transactions apart.

A row carries the `date` of the code's `created_at`, the start of the
transaction that activates, and projectors take rows in the order of dates
(`Earlier`). An activation that waits for the ownership row while a cutover or
another activation of its channel goes first is dated before it: `date` is then
less than its version, or the row is `early`, that is dated before `applied_at`.

`Overlap` is the set of what an activation may overlap: a `"cutover"` or a
`"rollback"` of its channel, which takes a revision activated amid the
operator's transaction, or another `"activation"` of it, which takes a
reconciler that outlives its lease on the channel. The run `projected`
takes it to be empty; `overlap` shows what an overlapped cutover leads to, and
with `Overlap` = {"rollback"} in the same configuration TLC finds what an
overlapped rollback leads to (finding 5). {"activation"} alone leaves
`RowsFollowMode` intact.

## 3. What TLC checks

| Run | Instance | What it asks |
|---|---|---|
| `routes` | 2 slots, 3 proxies, 1 lease, 2 attempts, 2 generations | `NoSharedRoute`, `ControlStateCoherent`, `RouteFencedWhileExecuting`, `GenerationNamesRoute`, `PendingIsWorstEvidence`, `GenerationFence`, `EvidenceMovesSlot`, `LiveAttemptEndsByCompletion`; the refinement of `RouteLock` (`ImplementsRouteLock`); the type invariant |
| `workers` | 2 slots, 2 proxies, 2 leases of two workers, 3 attempts, 2 runs, 2 executions | `LeaseSlotAgreement`, `OneSlotPerWorker`, `TaskSlotAgreement`, `AttemptsNumbered`, `ExecutionBudget`, `EndedStaysEnded` |
| `progress` | 2 slots, 2 proxies, 1 lease, under fairness | `LapsedAttemptEnds`, `IdleSlotLeavesBadRoute` |
| `callers` | 3 callers, 3 names, 2 claims | `GivenNameAdmitted`, `TokensMoveForward`, `DelayedClaimPowerless`; the type invariant |
| `plans` | 3 slots of 2 roles, 3 proxies, 16 taggings, 2 orders of preference | `PlanIsAdmissible`, `ReplanChangesNothing`, `MovesHaveReason`; the type invariant |
| `delivery` | five channels, see below, under fairness | `DeliveredIsStored`, `CursorHasNoGap`, `PackageStartsTogether`, `SettledStaysSettled`; the refinement of `RevisionLog` (`ImplementsRevisionLog`); `EveryRowSettles`, `EveryRevisionApplies`; the type invariant |
| `projected` | 2 channels, one of them in the cohort, 2 projectors, 2 versions each, 2 cutovers, 1 trouble, under fairness | `RowsFollowMode`, `SearchMatchesRelease`, `DeliveredInOrder`, `LiveNeverGoesBack`, `ProjectionDrains`; the type invariant |
| `lapse` | 1 slot | violates `TaskNeverChangesRoute`, finding 1 |
| `ready` | 2 callers | violates `NeverReadyAndRetired`, finding 2 |
| `takeover` | 2 callers | violates `TakeoverMayBegin`, finding 3 |
| `pause` | 2 slots of 2 roles, 3 proxies | violates `PausedOnlyWithoutReserve`, finding 4 |
| `overlap` | 2 channels, 1 projector, 1 cutover that may be overlapped | violates `RowsFollowMode`, finding 5 |

### Bounds

The interesting cases need two of a kind and a spare.

*Control plane.* Two slots that want one proxy and a third to move to; two
leases of two workers, or of one worker restarted; two attempts of one run and
a third beyond the budget. `MaxGeneration` bounds the changes of route, which
only delays the repetition of the same cases: two changes let a slot leave a
proxy and come back to it. `workers` is about leases and budgets and does
without evidence (the constraint `NoEvidence`) and with one change of route;
evidence is in `routes` and `progress`.

*Activation.* Three callers are one that stalls, one that repeats its claim and
one that overtakes both; two claims are an expiry and a takeover; three names
are a claim and two changes of route. A restart may happen at any moment.

*Planner.* The second role has two slots, so that a gap in its own role and one
in a role before it both occur; every tagging of two proxies with at most one
role each is covered.

*Pipeline.* `Channels` is a set of settings, one of which each behaviour runs:
`Queued` (one publisher, one reconciler, two video revisions, every flaw)
exercises order and gaps; `Contended` (two publishers, a lease that runs out
under a working one, a crash) late answers and duplicates; `Cohort` (both domains, a revision that does not
apply) the packages that start together; `Bootstrap` (ownership granted on
arrival, two reconcilers, a turn that lapses) the races of activation; `Unowned`
a stream that takes no new channels. Its `policy` stands for what
`businessPublicationOwnership.js:49-69` asks for, a projection mode set on the
stream or a channel it owns already, and does not change. Shards
hold one row of a batch of two, so that a claim needs two requests, and two
attempts let a row be retried and given up.

*Projection.* One channel is cut over and one is online throughout; the last
version of the latter cannot be assembled, so that a batch of both channels
fails as a whole. Two cutovers let releases be published again after a
rollback. One trouble (a failure of the database, a crash, or a lease that runs
out under a working projector) suffices for two projectors to hold the same
row.

Symmetry is used over sets nothing orders, and never in a run with liveness.
Deadlock is checked but in `delivery` and the runs of `MCProjection`: those systems
stop when everything is delivered or given up, and that they stop nowhere else
is what their liveness properties say.

### Fairness

*Control plane.* `FairSpec` assumes that `Manager.Run` keeps reconciling (its
ticker never stops while the process runs), that a reconciliation begun ends
and does not roll back for ever, and that `finalizeRouteAssignments` goes
through its list. Nothing is assumed of workers, time, health checks or route
activation. Liveness of an activation is not claimed: finding 3 refutes it.

*Pipeline.* Publishers and reconcilers poll in loops; a publisher's timer ends
a request that is not answered; an answer that has arrived is processed; a
lease nobody works under runs out. Crashes, and leases that run out under a
working publisher or reconciler, are bounded. Any request may be lost or handled
late: its rows are retried and given up at the last attempt, which settles them
(`EveryRowSettles`), and `EveryRevisionApplies` excepts what waits for a revision
that was given up.

*Projection.* Projectors poll in loops, statement timeouts end their
transactions, a lease nobody works under runs out. Activations, cutovers and
rollbacks may never happen.

### Findings

1. *A lease that lapses amid a reconciliation* (`lapse`). The cleanup and the
   plan are two transactions (`reconcile.go:54` and after). A lease that lapses
   between them leaves a slot with an active task, neither locked nor skipped;
   the plan gives the slot another proxy while `active_task_id` and the user
   name stay. `policy.go:118` says that a leased task never continues from a
   different IP. Under a *live* lease the property does hold, and is proved.
2. *Ready and retired* (`ready`). `publishClaimedRoute` retires the name when
   its last check fails to be read, even when an earlier answer to the same
   claim already gave that name to the worker. The row stays ready and the data
   plane refuses the name until the worker claims again or its lease ends.
3. *A takeover that is refused* (`takeover`). If the owner of a claim persists
   it and never begins, all later claims name a predecessor the data plane
   never saw; `beginRouteActivation` refuses them until the process restarts or
   the route changes.
4. *Paused beside a reserve* (`pause`). A completion leaves a slot without route
   while an eligible, unassigned proxy exists that is pinned to another role;
   the next reconciliation gives the slot that very proxy.
5. *A revision the operator's transaction has not read* (`overlap`). `apply`
   locks the ownership rows after its snapshot is fixed. A revision activated in
   between leaves a held row that the cutover neither counts against its evidence
   nor releases; the channel is online, and that row and all after it wait for
   good. Another way to the same end: an activation that waits for the ownership
   while the cutover commits is dated before `applied_at`, so a rollback does not
   count it among the newer rows.
   `rollback` has the same window, and shows in the same run with `Overlap` =
   {"rollback"}: it counts newer rows with a snapshot older than its ownership
   locks, and its second look reads the same snapshot. A revision activated in
   between leaves a `pending` row on a channel that goes back to held, where the
   code says "Business Projection rollback is blocked by newer Channel revisions"
   (`businessPublicationCutoverAdmin.js:476`). Nobody claims that row while the
   channel is held, and no later cutover takes a cohort with a row that is not
   held (`:172`). If the rows before it were given up, a projector that
   claimed those earlier may even publish it before the rollback has its locks; where no release is to be
   restored, the rollback then leaves a held channel in the search.

What no document of the repository rules out, and so is not listed as a finding:

  - *Planning role by role.* An empty slot of an earlier role may take the proxy
    of an unleased slot of a later one, even if that proxy is pinned to the
    later role and a spare one exists, and channel slots take proxies tagged for
    detail even when detail slots exist. `MovesHaveReason` says that nothing
    else moves a healthy slot.
  - *A replaced name committed again.* With three callers, one that begins late
    with a name retired meanwhile finds no token of it (`handler.go:283`) and
    commits it in the registry. No request is admitted by that alone:
    authentication also needs a row or a cached credential, which the model has
    not. `GivenNameAdmitted` and `DelayedClaimPowerless` hold all the same.
  - *Rollbacks take back more than the cohort*
    (`businessPublicationCutoverAdmin.js:783`): versions of other channels
    published since the cutover go back with the release and stay delivered.
    `LiveNeverGoesBack` excepts rollbacks for this.
  - *Behind a dead letter.* Rows wait behind one that was given up, but a
    projector whose claim was made before that delivers the next one: the
    transaction looks for the first *open* row of a channel. `DeliveredInOrder`
    therefore lets a version follow a dead letter.
  - *Overlapping activations of one channel.* If two reconcilers activate a
    channel at once, the first of the two transactions to begin may be the last
    to have the ownership; its row is dated before the other, and projected
    after it only if the other was delivered already. While both wait, the newer
    version is published first and the older one after it. With `Overlap` =
    {"activation"}, TLC finds this violation of `LiveNeverGoesBack` too.

## 4. What is proved

Every theorem holds for all finite or infinite sets and all values of the
bounds that its module's named assumption allows: the assumptions say what type
a constant has, that a null value is no member of the sets it stands beside,
and, in the pipeline, that there are finitely many domains.

| Module | Theorem | States |
|---|---|---|
| `ProxyControlProofs` | `TypeCorrect` | `Spec => []TypeOK` |
| | `LeasesAgree` | `Spec => []LeaseSlotAgreement` |
| | `AttemptsAgree` | `Spec => []TaskSlotAgreement` |
| | `RoutesExclusive` | `Spec => []NoSharedRoute` |
| | `RouteFenced` | `Spec => []RouteFencedWhileExecuting` |
| `ProxyControlRouteProofs` | `ControlCoherent` | `Spec => []ControlStateCoherent` |
| | `GenerationsFence`, `GenerationsName` | `Spec => GenerationFence`, `Spec => []GenerationNamesRoute` |
| | `LiveAttemptsComplete` | `Spec => LiveAttemptEndsByCompletion` |
| | `PendingIsWorst`, `EvidenceMoves` | `Spec => []PendingIsWorstEvidence`, `Spec => EvidenceMovesSlot` |
| | `RefinesRouteLock` | `Spec => ImplementsRouteLock` |
| `ProxyControlBudgetProofs` | `WorkersExclusive` | `Spec => []OneSlotPerWorker` |
| | `EndedForever` | `Spec => EndedStaysEnded` |
| | `NumbersWithoutGap`, `BudgetsHold` | `Spec => []AttemptsNumbered`, `Spec => []ExecutionBudget` |
| `RouteActivationProofs` | `TypeCorrect`, `TokensForward` | `Spec => []TypeOK`, `Spec => TokensMoveForward` |
| `RouteActivationNameProofs` | `NamesAdmitted`, `DelayedPowerless` | `Spec => []GivenNameAdmitted`, `Spec => DelayedClaimPowerless` |
| `PlanAssignmentsProofs` | `TypeCorrect`, `ProxiesUnshared` | `Spec => []TypeOK`, `Spec => []Unshared(assigned)` |
| | `PlansAdmissible` | `Spec => []PlanIsAdmissible` |
| | `ReplanStable`, `MovesJustified` | `Spec => []ReplanChangesNothing`, `Spec => []MovesHaveReason` |
| | `ReconcileOnce` | after `Reconcile`, planning again gives the same assignment |
| | `StandbyStays` | the standby a completion puts in place is kept by the next plan |
| `PublicationPipelineProofs` | `TypeCorrect` | `Spec => []TypeOK` |
| | `DeliveredStored`, `SettledForever` | `Spec => []DeliveredIsStored`, `Spec => SettledStaysSettled` |
| | `NoGap`, `TogetherOrNot` | `Spec => []CursorHasNoGap`, `Spec => []PackageStartsTogether` |
| | `RefinesRevisionLog` | `Spec => ImplementsRevisionLog` |
| `ProjectionProofs` | `TypeCorrect`, `SearchIsRelease` | `Spec => []TypeOK`, `Spec => []SearchMatchesRelease` |
| | `ModeFollowed` | `Overlap \subseteq {"activation"} => (Spec => []RowsFollowMode)` |
| | `DeliveriesInOrder` | `Overlap = {} => (Spec => []DeliveredInOrder)` |
| | `LiveForward` | `Overlap = {} => (Spec => LiveNeverGoesBack)` |

*ProxyControlProofs.* `TypeOK`, `LeaseSlotAgreement` (given types) and
`NoSharedRoute` are inductive as they stand. `TaskSlotAgreement` is not:
abandoning the attempts of a slot is only harmless when every active row has a
slot, a lease and a run, so `TaskInv` adds `ActiveRows`.
`RouteFencedWhileExecuting` needs all of these: a step that changes the route
or the generation of a slot is shown to concern a slot without live lease or
attempt (the reconciliation locks executing slots; only a live lease makes a
slot `Executing`, so a lapsed one never becomes so again), and a step that
makes a slot `Executing` is shown to be `BeginTask`, which records route and
generation. `CleanupEffect` and `BeginEffect` isolate what the repair of
invalid attempts can touch.

*ProxyControlRouteProofs* starts from the invariants above (`Base`).
`ControlStateCoherent` needs that what a reconciliation left to refresh are
slots it may refresh (`RefreshesSound`). `GenerationMoves` says of every action
that a route changes only with its generation; with the rows an attempt records
(`TaskRowSteps`) this gives the fence and the naming of routes. A slot's pending
action is the worst of what its attempt observed because `Merge` is shown to be
a maximum (`MergeIsWorst`) and a new attempt has observed nothing
(`Unobserved`). The refinement maps a proxy to the attempt that runs on it, a
`CHOOSE` that `NoSharedRoute` makes unique; `LockStarts`, `LockStops` and
`LockStutters` are the three kinds of steps of the simulation.

*ProxyControlBudgetProofs.* `LeaseSteps` lists what any step may do to a lease;
`BlankRows` says that an attempt not yet made has no run, so that making one is
seen in exactly one budget. A budget is a set of attempts, whose cardinality is
followed through `GrownBudgets` and `SameBudgets`; `FiniteBudgets` makes it a
number although the set of attempts may be infinite.

*RouteActivationProofs.* `TypeOK` alone is not inductive: a caller at work
indexes the registry with the name in its job, so `Named` says that the slot
and every caller at work have one. `TokensForward` needs two facts no single
step shows. `ClaimsOrdered`: a claim is never older than the one it took over,
in the row and in every caller's copy, however stale; the row's claims are
bounded by `lastClaim`, so a new one is younger. Hence where `MayBegin` lets a
caller replace its predecessor's token, the claim grows, and where the token is
its own it is not committed, or `AlreadyCommitted` would have kept `Begin`
away. `DownEmpty`: a crash leaves no caller and no token, so `Restart`
overwrites nothing.

*RouteActivationNameProofs.* The invariant has a part about the row and the
registry (`Globals`: what a name in the row, one that is pending and one that
was given entail) and one about each caller (`Worker`: what the caller's copy
says about the row as it was, and what its place in the protocol says about the
registry). The core is `NothingUndone`: what a caller with an outdated copy may
still do to the registry concerns names nobody uses any more. Steps of one
caller leave the part of the others alone by the frames `Same`, `Stands`,
`Outdated` and `Stepped`.

*PlanAssignmentsProofs.* The invariant is `TypeOK` and that no two slots hold
one proxy, which the passes that keep proxies need; a reconciliation keeps it
because it installs the plan as it is (a busy slot is locked), a completion
because its standby is no slot's. The rest is about the operator `Plan`, and
is the same for any number of slots and proxies. `Dealing` shows that the
recursive function in `Deal` exists and `DealGrows` what a pass leaves behind,
both by the induction of `UpTo` (a set that holds 0 and with a number the next
holds all up to a bound). `FourPasses` puts the passes of a role together and
`PlanIsPlanned` the roles: `Planned` and `Fair` say all there is to know of a
plan without any recursion. A role's slots get proxies pinned to it, generic
ones or none; what is left over was pinned only if all its slots have pinned
ones, and generic only if none is empty; a slot that holds a pinned proxy keeps
it, and one that holds a generic proxy keeps it or gets a pinned one. The
contract and the reasons of moves follow at once. `Replanned` is the uniqueness
behind `ReplanStable` and `ReconcileOnce`: a plan that is fair to the slots of
another plan, with at least its locks, is that plan. It goes role by role; in
each, pinned proxies stay (`Fair`), so they are out of reach of the other
slots, so generic ones stay, and so empty slots stay empty.

*PublicationPipelineProofs.* `CursorHasNoGap` and `PackageStartsTogether` are
proved with `Kept`, which relates what a publisher was told, what is on the
wire and what is staged, however late. A cursor moves over a range
(`AppliedRange`) whose end exists because sets of sequences have least and
greatest members, which the library's well-foundedness of the naturals gives.
`ReadsWritten` (only what was written is staged) is what the refinement of
`RevisionLog` needs besides.

*ProjectionProofs.* `Chained` says that every release shows its batch on top of
the release before it; so a batch may be published again only on top of that
one, and a rollback finds what it expects. `Modes` holds what a cutover and a
rollback rely on: the operator's transaction has seen all of its cohort, and the
release before the cutover shows nothing of it. Where a rollback restores no
release, `RollingSearch` says why the search shows nothing of the cohort all the
same: a row of it delivered meanwhile was released (`RollingRows`) and overtakes
the rollback. `Modes` needs that no
activation of a channel overlaps a cutover or a rollback of it, the hypothesis
of `ModeFollowed`; finding 5 shows the cases it leaves out, and
activations that overlap each other are in. `Ordered` is what the order of
deliveries rests on: all up to a delivered or shown version is settled, in every
release for channels no rollback takes back. It needs `Dated` besides, that rows
are dated in the order of the versions, which overlapping activations break;
with any of the three kinds of overlap TLC finds `DeliveredInOrder` violated.

*Model-checked only*: every liveness property (`LapsedAttemptEnds`,
`IdleSlotLeavesBadRoute`, `EveryRowSettles`, `EveryRevisionApplies`,
`ProjectionDrains`), since the prover has neither fairness nor `ENABLED`. All
other properties of the passing runs are proved.

## 5. Plan

1. Done: the modules of section 2 and the theorems of section 4.
2. Dead letters: the recovery of dead-lettered rows and of the revisions behind
   them (`publicationDeadLetterRecovery.js`), as actions of `PublicationPipeline` and `Projection`.
3. `SlotAdapter`: the worker with its renewal timer and retries, composed with
   an interface of `ProxyControl`.
4. `ProxyHealth`: counters, back-off and grants of the lifecycle policy,
   refining what `ProxyControl` assumes of verdicts.
5. `DispatchOutbox` and the execution fences, against one abstract lease with a
   fence.
6. Proofs: the composition of `PublicationPipeline` and `Projection` at the
   activation's row, as `PlanContract` does it for plans.

## 6. Not modelled

  - *Control plane and data plane*: forwarding, tunnels and cached credentials;
    replay receipts, deadlines and policy digests; more than one manager
    process; the growing and shrinking of the slot table; the states, counters
    and back-off of the health lifecycle.
  - *Worker*: the slot adapter as a client. `ProxyControl` lets a worker make
    any call at any time, so what is proved holds for this client too, but its
    own timers and bookkeeping are not shown to be right.
  - *Publication*: the contents of envelopes and their hashes; several streams
    and the cutover between them; retractions that are already absent; the
    switch between the two storages of releases; recovery of dead letters; the
    administration and audit tools.
  - *Dispatch and execution fences*: rows that are claimed for a term, of the
    kind the leases of the modelled parts are; left for later.
  - *Feature engine*: a workflow of its own beside crawling, which shares only
    tables with the rest.
  - *Controller, schedulers, crawl runs and repair; parsing, classification;
    dashboards, API, schema, deployment*: their behaviour is decided by SQL over
    business data, by text, or by the network; there is little control to check
    apart from the data.

These last are most of the repository, so the definitions cover a small share
of its lines: the parts whose correctness rests on the order of steps of
several processes, and of those the ones the rest leans on. Why each part is
left out is said per component in `PROJECT.json`.
