---------------------------- MODULE ProxyControl ----------------------------
(***************************************************************************)
(* Rota's proxy control plane (services/rota/core/internal/proxycontrol):  *)
(* the slots, worker leases, crawl tasks, observations and business runs   *)
(* kept in PostgreSQL.  Every handler runs in one transaction that first   *)
(* takes the same advisory lock, so a handler is one atomic action here.   *)
(* What happens between two transactions is left to the interleaving: a    *)
(* lease may lapse, a health verdict may arrive, another handler may run.  *)
(*                                                                         *)
(* A lease is named by the claim request that creates it and a task by its *)
(* attempt request: the database keeps these ids unique, and a replayed    *)
(* request changes nothing, so it is a stuttering step.  A request refused *)
(* with an error rolls back and is a stuttering step too.                  *)
(*                                                                         *)
(* The fleet modelled has one role, so every proxy is pinned to that role  *)
(* or to none.  Slot user names and the data plane are not in this module. *)
(***************************************************************************)
EXTENDS Naturals, FiniteSets, PlanContract

CONSTANTS Slots, Proxies, Leases, Tasks, Runs, Executions,
          Instances,      \* worker processes that call the control plane
          Workers,
          WorkerOf,       \* the worker id an instance runs under
          Nil,
          MaxSwitches,    \* MaxRouteSwitchesPerExecution
          MaxAttempts,    \* MaxNetworkAttemptsPerBusinessRun
          MaxGeneration   \* bound of the model: last route generation

ASSUME ConstantsAssumption ==
  /\ WorkerOf \in [Instances -> Workers]
  /\ Nil \notin Leases \cup Tasks \cup Proxies \cup Runs \cup Executions
  /\ MaxSwitches \in Nat
  /\ MaxAttempts \in Nat \ {0}
  /\ MaxGeneration \in Nat

Term == {"ample", "short", "lapsed"}
ControlState == {"unleased", "leased_idle", "active_task",
                 "pending_new_route", "paused_no_reserve"}
RouteAction == {"rotate_route", "rotate_profile"}
PendingAction == RouteAction \cup {"none"}

LeaseRow == [status : {"none", "active", "released", "expired"},
             slot : Slots \cup {Nil}, instance : Instances \cup {Nil}]
TaskRow == [status : {"none", "active", "completed", "abandoned"},
            slot : Slots \cup {Nil}, lease : Leases \cup {Nil},
            generation : Nat, run : Runs \cup {Nil},
            execution : Executions \cup {Nil}, attempt : Nat,
            route : Proxies \cup {Nil}]   \* route: history, the proxy at BeginTask
RunRow == [next : Nat, exhausted : BOOLEAN]
RefreshRow == [slot : Slots, proxy : Proxies, generation : Nat,
               holder : Leases \cup {Nil}]

NoLease == [status |-> "none", slot |-> Nil, instance |-> Nil]
NoTask == [status |-> "none", slot |-> Nil, lease |-> Nil, generation |-> 0,
           run |-> Nil, execution |-> Nil, attempt |-> 0, route |-> Nil]

VARIABLES
  holder,      \* proxy_running_slots.current_lease_id (with worker and instance)
  route,       \* .proxy_id
  generation,  \* .assignment_version
  ready,       \* .ready_after IS NOT NULL
  control,     \* .control_state
  activeTask,  \* .active_task_id
  pending,     \* .pending_action
  lease,       \* proxy_control_leases
  term,        \* what is left of lease_until, the same on slot and lease row;
               \* a lease that does not run has nothing left
  task,        \* proxy_control_tasks
  observed,    \* proxy_control_observations: the route actions seen per task
  run,         \* proxy_control_business_runs
  routable,    \* proxies active, not in cooldown, no revalidation required
  fresh,       \* proxies whose health grant is still valid
  swept,       \* the reconciliation under way has cleaned up lapsed leases
  refresh      \* the route refreshes it has still to finish

slotVars == <<holder, route, generation, ready, control, activeTask, pending>>
leaseVars == <<lease, term>>
taskVars == <<task, observed, run>>
healthVars == <<routable, fresh>>
reconcileVars == <<swept, refresh>>
vars == <<slotVars, leaseVars, taskVars, healthVars, reconcileVars>>
-----------------------------------------------------------------------------
TypeOK ==
  /\ holder \in [Slots -> Leases \cup {Nil}]
  /\ route \in [Slots -> Proxies \cup {Nil}]
  /\ generation \in [Slots -> Nat]
  /\ ready \in [Slots -> BOOLEAN]
  /\ control \in [Slots -> ControlState]
  /\ activeTask \in [Slots -> Tasks \cup {Nil}]
  /\ pending \in [Slots -> PendingAction]
  /\ lease \in [Leases -> LeaseRow]
  /\ term \in [Leases -> Term]
  /\ task \in [Tasks -> TaskRow]
  /\ observed \in [Tasks -> SUBSET RouteAction]
  /\ run \in [Runs -> RunRow]
  /\ routable \subseteq Proxies
  /\ fresh \subseteq Proxies
  /\ swept \in BOOLEAN
  /\ refresh \subseteq RefreshRow

Init ==
  /\ holder = [s \in Slots |-> Nil]
  /\ route = [s \in Slots |-> Nil]
  /\ generation = [s \in Slots |-> 0]
  /\ ready = [s \in Slots |-> FALSE]
  /\ control = [s \in Slots |-> "unleased"]
  /\ activeTask = [s \in Slots |-> Nil]
  /\ pending = [s \in Slots |-> "none"]
  /\ lease = [l \in Leases |-> NoLease]
  /\ term = [l \in Leases |-> "lapsed"]
  /\ task = [t \in Tasks |-> NoTask]
  /\ observed = [t \in Tasks |-> {}]
  /\ run = [r \in Runs |-> [next |-> 1, exhausted |-> FALSE]]
  /\ routable = Proxies
  /\ fresh = Proxies
  /\ swept = FALSE
  /\ refresh = {}
-----------------------------------------------------------------------------
(* The live lease fence of a slot: its lease is still running. *)
Owned(s) == holder[s] # Nil /\ term[holder[s]] # "lapsed"

Executing(s) == Owned(s) /\ activeTask[s] # Nil

(* Proxies a slot may be given: in service, and either freshly checked or *)
(* already carried by a live lease.                                       *)
Eligible ==
  {p \in routable : p \in fresh \/ \E s \in Slots : Owned(s) /\ route[s] = p}

Assigned == {route[s] : s \in Slots} \ {Nil}

(* The worker a lease was claimed for. *)
LeaseWorker(l) == WorkerOf[lease[l].instance]

(* The task row and the slot row still describe the same running attempt. *)
InLiveFence(t) ==
  LET s == task[t].slot IN
  /\ task[t].status = "active"
  /\ activeTask[s] = t
  /\ holder[s] = task[t].lease
  /\ Owned(s)
  /\ generation[s] = task[t].generation

(* Mutant: a lease about to lapse counts as lapsed. *)
InvalidEarly(t) ==
  /\ task[t].status = "active"
  /\ LET s == task[t].slot IN holder[s] = Nil \/ term[holder[s]] # "ample"

(* abandonInvalidActiveTasks: attempts whose slot no longer vouches for them. *)
Invalid(t) ==
  /\ task[t].status = "active"
  /\ LET s == task[t].slot IN
       ~Owned(s) \/ holder[s] # task[t].lease \/ activeTask[s] # t

(* Mutant: the attempts of a cleaned-up slot stay active. *)
AbandonNone(S) == task

AbandonIn(S) ==
  [t \in Tasks |-> IF Invalid(t) /\ task[t].slot \in S
                   THEN [task[t] EXCEPT !.status = "abandoned"] ELSE task[t]]

Detached(s) == activeTask[s] # Nil /\ Invalid(activeTask[s])

Priority(action) == CASE action = "rotate_profile" -> 2
                      [] action = "rotate_route" -> 1
                      [] OTHER -> 0

(* Mutant: the last observation wins. *)
MergeLast(current, proposed) == proposed

(* mergePendingAction: the stronger action stays. *)
Merge(current, proposed) ==
  IF Priority(proposed) > Priority(current) THEN proposed
  ELSE IF Priority(current) > 0 THEN current ELSE proposed
-----------------------------------------------------------------------------
(* Leases. *)

(* Mutant: no unique index on a slot's worker. *)
WorkerUnleased(i) == \A k \in Leases : term[k] # "lapsed" => LeaseWorker(k) # WorkerOf[i]

(* The worker has no live lease, and the unique index on worker_id finds no *)
(* slot it still occupies with a lapsed one nobody has cleaned up.          *)
WorkerFree(i) ==
  /\ \A k \in Leases : term[k] # "lapsed" => LeaseWorker(k) # WorkerOf[i]
  /\ \A x \in Slots : holder[x] # Nil => LeaseWorker(holder[x]) # WorkerOf[i]

(* Claim: a free worker gets an idle, ready slot whose route is healthy. *)
Claim(l, i, s) ==
  /\ lease[l].status = "none"
  /\ WorkerFree(i)
  /\ holder[s] = Nil
  /\ route[s] \in Eligible
  /\ ready[s]
  /\ holder' = [holder EXCEPT ![s] = l]
  /\ control' = [control EXCEPT ![s] = "leased_idle"]
  /\ lease' = [lease EXCEPT ![l] = [status |-> "active", slot |-> s, instance |-> i]]
  /\ term' = [term EXCEPT ![l] = "ample"]
  /\ UNCHANGED <<route, generation, ready, activeTask, pending,
                 taskVars, healthVars, reconcileVars>>

(* Mutant: any lease not yet cleaned up is extended. *)
RenewLate(l) ==
  /\ lease[l].status = "active"
  /\ term' = [term EXCEPT ![l] = "ample"]
  /\ UNCHANGED <<slotVars, lease, taskVars, healthVars, reconcileVars>>

(* Renew: only a live lease is extended, on its row and on its slot. *)
Renew(l) ==
  LET s == lease[l].slot IN
  /\ term[l] # "lapsed"
  /\ holder[s] = l
  /\ term' = [term EXCEPT ![l] = "ample"]
  /\ UNCHANGED <<slotVars, lease, taskVars, healthVars, reconcileVars>>

Release(l) ==
  LET s == lease[l].slot IN
  /\ term[l] # "lapsed"
  /\ holder[s] = l
  /\ activeTask[s] = Nil
  /\ holder' = [holder EXCEPT ![s] = Nil]
  /\ control' = [control EXCEPT ![s] = "unleased"]
  /\ pending' = [pending EXCEPT ![s] = "none"]
  /\ lease' = [lease EXCEPT ![l].status = "released"]
  /\ term' = [term EXCEPT ![l] = "lapsed"]
  /\ UNCHANGED <<route, generation, ready, activeTask,
                 taskVars, healthVars, reconcileVars>>

(* Slots whose lease has lapsed and still waits for its cleanup. *)
Lapsed == {s \in Slots : holder[s] # Nil /\ ~Owned(s)}

(* Mutant: the lease history is not closed. *)
HistoryLeftOpen(gone) == lease

HistoryClosed(gone) ==
  [l \in Leases |-> IF lease[l].status = "active" /\ \E s \in gone : holder[s] = l
                    THEN [lease[l] EXCEPT !.status = "expired"] ELSE lease[l]]

(* expireLeases. *)
EndLapsedLeases ==
  LET gone == Lapsed IN
  /\ task' = AbandonIn(Slots)
  /\ lease' = HistoryClosed(gone)
  /\ holder' = [s \in Slots |-> IF s \in gone THEN Nil ELSE holder[s]]
  /\ activeTask' = [s \in Slots |->
                      IF s \in gone \/ Detached(s) THEN Nil ELSE activeTask[s]]
  /\ pending' = [s \in Slots |-> IF s \in gone THEN "none" ELSE pending[s]]
  /\ control' = [s \in Slots |-> IF s \in gone THEN "unleased"
                                 ELSE IF Detached(s) /\ Owned(s) THEN "leased_idle"
                                 ELSE control[s]]
  /\ UNCHANGED <<route, generation, ready, term, observed, run, healthVars, refresh>>

(* cleanupExpiredLeases: a transaction of its own, before a claim ... *)
ExpireLeases ==
  /\ Lapsed # {}
  /\ EndLapsedLeases
  /\ UNCHANGED swept

(* ... and before a reconciliation, of which there is one at a time           *)
(* (reconcileMu, held until every refresh is finished).                       *)
BeginReconcile ==
  /\ ~swept
  /\ refresh = {}
  /\ EndLapsedLeases
  /\ swept' = TRUE
-----------------------------------------------------------------------------
(* Tasks. *)

(* Mutant: an abandoned attempt does not count against its execution. *)
UnabandonedTasks(e) == {t \in Tasks : task[t].status \in {"active", "completed"} /\ task[t].execution = e}

ExecutionTasks(e) == {t \in Tasks : task[t].status # "none" /\ task[t].execution = e}

(* Mutant: one attempt too many. *)
RunOverdrawn(r) == run[r].next > MaxAttempts + 1

(* taskBudgetError, its business-run half: the run has no attempt left. *)
RunExhausted(r) == run[r].next > MaxAttempts

(* What BeginTask asks of the slot, and of the proxy behind it. *)
MayBegin(t, s) ==
  /\ task[t].status = "none"
  /\ Owned(s)
  /\ activeTask[s] = Nil \/ Detached(s)
  /\ control[s] = "leased_idle" \/ Detached(s)
  /\ route[s] \in routable

(* BeginTask.  An execution stays with the run of its first attempt; the *)
(* unique index on a run's active task refuses a second one.             *)
BeginTask(t, s, r, e) ==
  /\ MayBegin(t, s)
  /\ ~RunExhausted(r)
  /\ \A u \in ExecutionTasks(e) : task[u].run = r
  /\ Cardinality(ExecutionTasks(e)) < 1 + MaxSwitches
  /\ \A u \in Tasks : ~(AbandonIn({s})[u].status = "active" /\ task[u].run = r)
  /\ task' = [AbandonIn({s}) EXCEPT ![t] =
                [status |-> "active", slot |-> s, lease |-> holder[s],
                 generation |-> generation[s], run |-> r, execution |-> e,
                 attempt |-> run[r].next, route |-> route[s]]]
  /\ activeTask' = [activeTask EXCEPT ![s] = t]
  /\ pending' = [pending EXCEPT ![s] = "none"]
  /\ control' = [control EXCEPT ![s] = "active_task"]
  /\ run' = [run EXCEPT ![r].next = @ + 1]
  /\ UNCHANGED <<holder, route, generation, ready, leaseVars, observed,
                 healthVars, reconcileVars>>

(* BeginTask on an exhausted run commits the mark and refuses the attempt. *)
ExhaustRun(t, s, r) ==
  /\ MayBegin(t, s)
  /\ RunExhausted(r)
  /\ run' = [run EXCEPT ![r].exhausted = TRUE]
  /\ task' = AbandonIn({s})
  /\ activeTask' = [activeTask EXCEPT ![s] = Nil]
  /\ control' = [control EXCEPT ![s] = "leased_idle"]
  /\ UNCHANGED <<holder, route, generation, ready, pending, leaseVars, observed,
                 healthVars, reconcileVars>>

(* Mutant: evidence is acted on at once. *)
ObserveAndRotate(t, action) ==
  LET s == task[t].slot IN
  /\ InLiveFence(t)
  /\ generation[s] < MaxGeneration
  /\ observed' = [observed EXCEPT ![t] = @ \cup {action}]
  /\ \E p \in Eligible \ Assigned : route' = [route EXCEPT ![s] = p]
  /\ generation' = [generation EXCEPT ![s] = @ + 1]
  /\ UNCHANGED <<holder, ready, control, activeTask, pending,
                 leaseVars, task, run, healthVars, reconcileVars>>

(* Observe: evidence against the route is recorded and deferred, never acted *)
(* on while the attempt runs.                                                *)
Observe(t, action) ==
  LET s == task[t].slot IN
  /\ InLiveFence(t)
  /\ route[s] # Nil
  /\ observed' = [observed EXCEPT ![t] = @ \cup {action}]
  /\ pending' = [pending EXCEPT ![s] = Merge(@, action)]
  /\ UNCHANGED <<holder, route, generation, ready, control, activeTask,
                 leaseVars, task, run, healthVars, reconcileVars>>

(* Mutant: a proxy another slot holds may be picked. *)
AnyStandby == Eligible

(* selectCompletionWarmStandby: a healthy proxy no slot holds. *)
WarmStandby == Eligible \ Assigned

(* validateCompletionObservations: the completion must cite an observation *)
(* of its own attempt that asked for the pending action.                   *)
MayComplete(t) ==
  LET s == task[t].slot IN
  /\ InLiveFence(t)
  /\ pending[s] # "none" => pending[s] \in observed[t]

(* Mutant: the outcome is written over the status. *)
StatusFromOutcome(t) == task' = [task EXCEPT ![t].status = "failed"]

Completed(t) == task' = [task EXCEPT ![t].status = "completed"]

CompleteKeepingRoute(t) ==
  LET s == task[t].slot IN
  /\ MayComplete(t)
  /\ pending[s] = "none"
  /\ Completed(t)
  /\ activeTask' = [activeTask EXCEPT ![s] = Nil]
  /\ control' = [control EXCEPT ![s] = "leased_idle"]
  /\ UNCHANGED <<holder, route, generation, ready, pending, leaseVars, observed,
                 run, healthVars, reconcileVars>>

(* Mutant: a change of route keeps the generation. *)
SameGeneration(S) == generation

(* assignment_version + 1 on the slots whose route changes. *)
NextGeneration(S) ==
  [s \in Slots |-> IF s \in S THEN generation[s] + 1 ELSE generation[s]]

(* Mutant: the health grant goes, the proxy stays in service. *)
GrantWithdrawn(p) == routable' = routable /\ fresh' = fresh \ {p}

(* quarantineProxy. *)
Quarantined(p) == routable' = routable \ {p} /\ fresh' = fresh \ {p}

(* The slot leaves its route for p, or for none, in the next generation, and *)
(* the route it leaves is quarantined.  pending_action stays on the row.     *)
LeaveRoute(t, p) ==
  LET s == task[t].slot IN
  /\ MayComplete(t)
  /\ pending[s] # "none"
  /\ generation[s] < MaxGeneration
  /\ Completed(t)
  /\ activeTask' = [activeTask EXCEPT ![s] = Nil]
  /\ route' = [route EXCEPT ![s] = p]
  /\ generation' = NextGeneration({s})
  /\ ready' = [ready EXCEPT ![s] = FALSE]
  /\ control' = [control EXCEPT ![s] = IF p = Nil THEN "paused_no_reserve"
                                       ELSE "pending_new_route"]
  /\ Quarantined(route[s])
  /\ UNCHANGED <<holder, pending, leaseVars, observed, run, reconcileVars>>

CompleteReplacingRoute(t) ==
  \E p \in WarmStandby : LeaveRoute(t, p)

CompletePausing(t) ==
  /\ WarmStandby = {}
  /\ LeaveRoute(t, Nil)
-----------------------------------------------------------------------------
(* Reconciliation. *)

(* Mutant: a leased slot keeps its endpoint even when it is idle. *)
LockedWhileLeased(s) == Owned(s)

(* A reconciliation may not move an attempt's route, nor a healthy idle one. *)
Locked(s) == Executing(s) \/ (Owned(s) /\ route[s] \in Eligible)

(* The plans planPolicyAssignments may make: module PlanContract says what   *)
(* they promise, module PlanAssignments computes them.                       *)
Plans ==
  {plan \in [Slots -> Eligible \cup {route[s] : s \in Slots} \cup {Nil}] :
     Admissible(plan, route, {s \in Slots : Locked(s)}, [s \in Slots |-> Eligible], Nil)}

(* Mutant: a slot whose plan confirms its route counts as changed. *)
ChangedAlways(plan) == {s \in Slots : ~Executing(s)}

Changed(plan) == {s \in Slots : ~Executing(s) /\ route[s] # plan[s]}

(* The routes to be marked ready once the data plane has dropped their user. *)
Refreshes(plan) ==
  {[slot |-> s, proxy |-> plan[s], generation |-> generation'[s], holder |-> holder[s]] :
     s \in {x \in Slots : /\ plan[x] # Nil
                          /\ ~ready'[x]
                          /\ control'[x] # "pending_new_route"}}

(* The second transaction of a reconciliation.  An idle leased slot moves in *)
(* place, the lease stays: its route is pending, or the slot pauses.         *)
Reconcile ==
  /\ swept
  /\ swept' = FALSE
  /\ \E plan \in Plans :
       LET changed == Changed(plan)
           moved == {s \in changed : Owned(s)}
       IN
       /\ \A s \in changed : generation[s] < MaxGeneration
       /\ route' = [s \in Slots |-> IF s \in changed THEN plan[s] ELSE route[s]]
       /\ generation' = NextGeneration(changed)
       /\ ready' = [s \in Slots |-> s \notin changed /\ ready[s]]
       /\ control' = [s \in Slots |->
                        IF s \notin moved THEN control[s]
                        ELSE IF plan[s] = Nil THEN "paused_no_reserve"
                        ELSE "pending_new_route"]
       /\ pending' = [s \in Slots |-> IF s \in moved THEN "none" ELSE pending[s]]
       /\ refresh' = Refreshes(plan)
  /\ UNCHANGED <<holder, activeTask, leaseVars, taskVars, healthVars>>

(* The transaction fails and is rolled back; the next reconciliation starts  *)
(* again with its cleanup.                                                   *)
AbortReconcile ==
  /\ swept
  /\ swept' = FALSE
  /\ UNCHANGED <<slotVars, leaseVars, taskVars, healthVars, refresh>>

(* finalizeRouteAssignments marks a route ready by user name, proxy and        *)
(* version.  The user name of a slot changes with its holder.                  *)
FinishRefresh(f) ==
  /\ f \in refresh
  /\ refresh' = refresh \ {f}
  /\ ready' = IF /\ route[f.slot] = f.proxy
                 /\ generation[f.slot] = f.generation
                 /\ holder[f.slot] = f.holder
              THEN [ready EXCEPT ![f.slot] = TRUE] ELSE ready
  /\ UNCHANGED <<holder, route, generation, control, activeTask, pending,
                 leaseVars, taskVars, healthVars, swept>>

(* ... or fails: no data plane, a database error, a restart. *)
LoseRefresh(f) ==
  /\ f \in refresh
  /\ refresh' = refresh \ {f}
  /\ UNCHANGED <<slotVars, leaseVars, taskVars, healthVars, swept>>

(* Mutant: the slot turns idle before its route is marked ready. *)
FinalizeUnready(s) ==
  /\ control[s] = "pending_new_route"
  /\ Owned(s)
  /\ control' = [control EXCEPT ![s] = "leased_idle"]
  /\ UNCHANGED <<holder, route, generation, ready, activeTask, pending,
                 leaseVars, taskVars, healthVars, reconcileVars>>

(* finalizeRouteActivationClaim, the end of a route activation (module *)
(* RouteActivation has its steps): more than ten seconds of lease must *)
(* be left.                                                            *)
FinalizeRoute(s) ==
  /\ control[s] = "pending_new_route"
  /\ Owned(s)
  /\ term[holder[s]] = "ample"
  /\ route[s] # Nil
  /\ activeTask[s] = Nil
  /\ ~ready[s]
  /\ ready' = [ready EXCEPT ![s] = TRUE]
  /\ control' = [control EXCEPT ![s] = "leased_idle"]
  /\ UNCHANGED <<holder, route, generation, activeTask, pending,
                 leaseVars, taskVars, healthVars, reconcileVars>>
-----------------------------------------------------------------------------
(* Time and proxy health, decided outside the control plane. *)

(* Time passes on a running lease. *)
LeaseAges(l) ==
  /\ term[l] # "lapsed"
  /\ term' = [term EXCEPT ![l] = IF @ = "ample" THEN "short" ELSE "lapsed"]
  /\ UNCHANGED <<slotVars, lease, taskVars, healthVars, reconcileVars>>

(* Background checks leave a proxy on a live lease alone. *)
OnLiveLease(p) == \E s \in Slots : Owned(s) /\ route[s] = p

HealthPasses(p) ==
  /\ ~OnLiveLease(p)
  /\ p \notin routable \cap fresh
  /\ routable' = routable \cup {p}
  /\ fresh' = fresh \cup {p}
  /\ UNCHANGED <<slotVars, leaseVars, taskVars, reconcileVars>>

HealthFails(p) ==
  /\ ~OnLiveLease(p)
  /\ p \in routable
  /\ Quarantined(p)
  /\ UNCHANGED <<slotVars, leaseVars, taskVars, reconcileVars>>

GrantLapses(p) ==
  /\ p \in fresh
  /\ fresh' = fresh \ {p}
  /\ UNCHANGED <<slotVars, leaseVars, taskVars, routable, reconcileVars>>

(* Report, outcome failure: the proxy is quarantined wherever it is. *)
ReportFailure(p) ==
  /\ p \in routable
  /\ Quarantined(p)
  /\ UNCHANGED <<slotVars, leaseVars, taskVars, reconcileVars>>
-----------------------------------------------------------------------------
LeaseStep ==
  \/ \E l \in Leases : \/ \E i \in Instances, s \in Slots : Claim(l, i, s)
                       \/ Renew(l) \/ Release(l) \/ LeaseAges(l)
  \/ ExpireLeases

TaskStep ==
  \E t \in Tasks :
    \/ \E s \in Slots, r \in Runs : \/ ExhaustRun(t, s, r)
                                    \/ \E e \in Executions : BeginTask(t, s, r, e)
    \/ \E action \in RouteAction : Observe(t, action)
    \/ CompleteKeepingRoute(t) \/ CompleteReplacingRoute(t) \/ CompletePausing(t)

RouteStep ==
  \/ BeginReconcile \/ Reconcile \/ AbortReconcile
  \/ \E f \in refresh : FinishRefresh(f) \/ LoseRefresh(f)
  \/ \E s \in Slots : FinalizeRoute(s)

HealthStep ==
  \E p \in Proxies : HealthPasses(p) \/ HealthFails(p) \/ GrantLapses(p) \/ ReportFailure(p)

Next == LeaseStep \/ TaskStep \/ RouteStep \/ HealthStep

Spec == Init /\ [][Next]_vars
-----------------------------------------------------------------------------
(* Fairness.  Manager.Run reconciles on a ticker and on request, a           *)
(* reconciliation begun ends, not always in a rollback, and                  *)
(* finalizeRouteAssignments goes through all its refreshes.  Workers, time   *)
(* and proxy health owe nothing.                                             *)
Fairness ==
  /\ WF_vars(BeginReconcile)
  /\ WF_vars(Reconcile \/ AbortReconcile)
  /\ SF_vars(Reconcile)
  /\ WF_vars(\E f \in refresh : FinishRefresh(f) \/ LoseRefresh(f))

FairSpec == Spec /\ Fairness
-----------------------------------------------------------------------------
(* Invariants. *)

(* The lease history and the slot rows agree: a lease is active exactly     *)
(* while its own slot names it (Claim, Release and ExpireLeases each write  *)
(* both tables).                                                            *)
LeaseSlotAgreement ==
  /\ \A l \in Leases : /\ lease[l].status = "active" =>
                           lease[l].slot \in Slots /\ holder[lease[l].slot] = l
                       /\ term[l] # "lapsed" => lease[l].status = "active"
  /\ \A s \in Slots : holder[s] # Nil =>
       lease[holder[s]].status = "active" /\ lease[holder[s]].slot = s

(* A worker never occupies two slots, not even with a lapsed lease that     *)
(* still waits for its cleanup, so a restarted worker cannot double its     *)
(* share of the routes.                                                     *)
OneSlotPerWorker ==
  \A s, x \in Slots :
    s # x /\ holder[s] # Nil /\ holder[x] # Nil
      => LeaseWorker(holder[s]) # LeaseWorker(holder[x])

(* Two slots never share a proxy, whichever handler placed it: the unique   *)
(* index on proxy_running_slots.proxy_id is never what stops a handler.     *)
NoSharedRoute ==
  \A s, x \in Slots : s # x /\ route[s] # Nil => route[s] # route[x]

(* A slot and its running attempt name each other, and an active attempt    *)
(* belongs to the lease that holds its slot, lapsed or not: what the repair *)
(* in abandonInvalidActiveTasks finds wrong is only ever a lapsed lease.    *)
TaskSlotAgreement ==
  /\ \A t \in Tasks : task[t].status = "active" =>
       /\ activeTask[task[t].slot] = t
       /\ holder[task[t].slot] = task[t].lease
  /\ \A s \in Slots : activeTask[s] # Nil =>
       task[activeTask[s]].status = "active" /\ task[activeTask[s]].slot = s

(* While an attempt runs under a live lease its slot keeps the proxy and    *)
(* the route generation the attempt was begun on: reconciliations, health   *)
(* verdicts and evidence leave it alone (executionLocked; ADR 0002).        *)
RouteFencedWhileExecuting ==
  \A s \in Slots : Executing(s) =>
    /\ route[s] = task[activeTask[s]].route
    /\ generation[s] = task[activeTask[s]].generation

(* A slot's route generation names one proxy for good: two attempts of one  *)
(* slot and generation went through the same proxy, across leases, cleanups *)
(* and reconciliations (assignment_version is the fence workers quote).     *)
GenerationNamesRoute ==
  \A t, u \in Tasks :
    /\ task[t].status # "none"
    /\ task[u].status # "none"
    /\ task[t].slot = task[u].slot
    /\ task[t].generation = task[u].generation
    => task[t].route = task[u].route

(* The slot row of a live lease tells the worker the truth: idle or active  *)
(* means a ready route, pending means a route not yet ready, paused means   *)
(* no route, and a slot is unleased exactly while nobody holds it.          *)
ControlStateCoherent ==
  \A s \in Slots :
    /\ control[s] = "unleased" <=> holder[s] = Nil
    /\ Owned(s) =>
         /\ control[s] = "active_task" <=> activeTask[s] # Nil
         /\ control[s] \in {"leased_idle", "active_task"} => ready[s] /\ route[s] # Nil
         /\ control[s] = "pending_new_route" => ~ready[s] /\ route[s] # Nil
         /\ control[s] = "paused_no_reserve" => ~ready[s] /\ route[s] = Nil

(* Attempt numbers of a run are 1, 2, 3, ... without gap or repeat and      *)
(* within the run's limit: an attempt refused for any reason, or lost with  *)
(* its lease, neither frees a number nor burns one.                         *)
AttemptsNumbered ==
  \A r \in Runs :
    LET attempts == {t \in Tasks : task[t].run = r} IN
    /\ {task[t].attempt : t \in attempts} = 1..(run[r].next - 1)
    /\ Cardinality(attempts) = run[r].next - 1
    /\ Cardinality(attempts) <= MaxAttempts
    /\ run[r].exhausted => Cardinality(attempts) = MaxAttempts

(* One execution of a job gets one attempt and MaxSwitches route switches,  *)
(* all in one run, and a run never has two attempts going at once.          *)
ExecutionBudget ==
  /\ \A e \in Executions : Cardinality({t \in Tasks : task[t].execution = e}) <= 1 + MaxSwitches
  /\ \A t, u \in Tasks :
       /\ task[t].status # "none" /\ task[t].execution = task[u].execution
            => task[t].run = task[u].run
       /\ t # u /\ task[t].status = "active" /\ task[u].status = "active"
            => task[t].run # task[u].run

(* The action deferred on a slot is the strongest its running attempt gave  *)
(* evidence for: nothing left over by an earlier attempt, nothing weakened  *)
(* by a later observation.                                                  *)
PendingIsWorstEvidence ==
  \A s \in Slots : Executing(s) =>
    pending[s] = IF "rotate_profile" \in observed[activeTask[s]] THEN "rotate_profile"
                 ELSE IF observed[activeTask[s]] # {} THEN "rotate_route" ELSE "none"
-----------------------------------------------------------------------------
(* Action properties. *)

(* A route generation advances by one exactly when the slot changes its     *)
(* proxy or gives it up, and the new route is not ready in the same step:   *)
(* the data plane must first drop the old one.                              *)
GenerationFence ==
  [][\A s \in Slots :
       /\ generation'[s] \in {generation[s], generation[s] + 1}
       /\ generation'[s] # generation[s] <=> route'[s] # route[s]
       /\ generation'[s] # generation[s] => ~ready'[s]]_vars

(* A cleanup, a reconciliation or another attempt's start never ends an     *)
(* attempt whose lease is live: such an attempt only ends by its own        *)
(* completion.                                                              *)
LiveAttemptEndsByCompletion ==
  [][\A t \in Tasks :
       InLiveFence(t) /\ task'[t].status # "active" => task'[t].status = "completed"]_vars

(* Ended is ended: a finished attempt, a released or expired lease never    *)
(* changes again, and a lapsed lease never runs on, so a late renewal or    *)
(* completion finds nothing to revive.                                      *)
EndedStaysEnded ==
  [][/\ \A t \in Tasks : task[t].status \in {"completed", "abandoned"} => task'[t] = task[t]
     /\ \A l \in Leases :
          /\ lease[l].status \in {"released", "expired"} => lease'[l] = lease[l]
          /\ lease[l].status = "active" /\ term[l] = "lapsed" => term'[l] = "lapsed"]_vars

(* A completed attempt that gave evidence leaves its proxy: the slot goes   *)
(* on, if at all, in the next generation on another proxy, and the proxy it *)
(* leaves is out of service.  One without evidence leaves the slot ready on *)
(* the route it had.                                                        *)
EvidenceMovesSlot ==
  [][\A t \in Tasks :
       task[t].status = "active" /\ task'[t].status = "completed" =>
         LET s == task[t].slot IN
         IF observed[t] # {}
         THEN /\ generation'[s] = task[t].generation + 1
              /\ route'[s] # task[t].route
              /\ task[t].route \notin routable'
              /\ ~ready'[s]
         ELSE route'[s] = task[t].route /\ ready'[s] /\ control'[s] = "leased_idle"]_vars

(* A comment of planAssignments (policy.go) says of a leased slot: "The     *)
(* current task may fail, but it must never continue from a different IP".  *)
(* It is stated here of any attempt a slot still carries, which the code    *)
(* breaks when the lease lapses after the cleanup of a reconciliation.      *)
TaskNeverChangesRoute ==
  [][\A s \in Slots : activeTask[s] # Nil /\ activeTask'[s] = activeTask[s]
                       => route'[s] = route[s]]_vars
-----------------------------------------------------------------------------
(* Refinement and liveness. *)

(* What an attempt is promised: the route lock.  An attempt occupies its    *)
(* proxy while it runs under a live lease; the lease's end stops it.        *)
Occupant(p) ==
  IF \E s \in Slots : Executing(s) /\ route[s] = p
  THEN activeTask[CHOOSE s \in Slots : Executing(s) /\ route[s] = p] ELSE Nil

Lock == INSTANCE RouteLock WITH
          Routes <- Proxies, Attempts <- Tasks, Nobody <- Nil,
          occupant <- [p \in Proxies |-> Occupant(p)],
          started <- {t \in Tasks : task[t].status # "none"}

(* Every behaviour of the control plane is one of the route lock's. *)
ImplementsRouteLock == Lock!LockSpec

(* An attempt whose worker vanished does not stay active: once its lease    *)
(* has lapsed, some cleanup abandons it.                                    *)
LapsedAttemptEnds ==
  \A t \in Tasks :
    (\E s \in Slots : activeTask[s] = t /\ ~Owned(s)) ~> task[t].status # "active"

(* A worker is not left on a proxy that went out of service: its idle slot  *)
(* moves, the proxy recovers, or the lease ends or turns to an attempt.     *)
(* The last disjunct is the bound of the model.                             *)
IdleSlotLeavesBadRoute ==
  \A s \in Slots, p \in Proxies :
    (Owned(s) /\ activeTask[s] = Nil /\ route[s] = p /\ p \notin routable)
      ~> \/ route[s] # p \/ p \in routable \/ ~Owned(s) \/ Executing(s)
         \/ \E x \in Slots : generation[x] = MaxGeneration
=============================================================================
