------------------------ MODULE ProxyControlProofs ------------------------
(***************************************************************************)
(* Theorems about ProxyControl for every fleet: any sets of slots,         *)
(* proxies, leases, tasks, runs and executions.                            *)
(***************************************************************************)
EXTENDS ProxyControl, TLAPS

(* The variables keep their types: the type invariant is inductive by itself. *)
LEMMA TypeOKInit == Init => TypeOK
<1> SUFFICES ASSUME Init PROVE TypeOK
  OBVIOUS
<1>1. NoLease \in LeaseRow /\ NoTask \in TaskRow
  BY DEF NoLease, NoTask, LeaseRow, TaskRow
<1>2. [next |-> 1, exhausted |-> FALSE] \in RunRow
  BY DEF RunRow
<1>3. lease \in [Leases -> LeaseRow] /\ task \in [Tasks -> TaskRow] /\ run \in [Runs -> RunRow]
  BY <1>1, <1>2 DEF Init
<1>4. ready \in [Slots -> BOOLEAN] /\ swept \in BOOLEAN
  BY DEF Init
<1> QED
  BY <1>3, <1>4 DEF Init, TypeOK, ControlState, Term, PendingAction

(* Abandoning and completing attempts keep the type of the task table. *)
LEMMA EndedRowType == ASSUME NEW row \in TaskRow, NEW st \in {"completed", "abandoned"}
                      PROVE [row EXCEPT !.status = st] \in TaskRow
  BY DEF TaskRow

LEMMA AbandonInType == ASSUME TypeOK, NEW S PROVE AbandonIn(S) \in [Tasks -> TaskRow]
<1>1. ASSUME NEW t \in Tasks PROVE [task[t] EXCEPT !.status = "abandoned"] \in TaskRow
  BY EndedRowType DEF TypeOK
<1>2. \A t \in Tasks : task[t] \in TaskRow
  BY DEF TypeOK
<1> QED
  BY <1>1, <1>2 DEF AbandonIn

LEMMA CompletedType == ASSUME TypeOK, NEW t \in Tasks, Completed(t)
                       PROVE task' \in [Tasks -> TaskRow]
<1>1. [task[t] EXCEPT !.status = "completed"] \in TaskRow
  BY EndedRowType DEF TypeOK
<1> QED
  BY <1>1 DEF TypeOK, Completed

LEMMA TypeOKNext == TypeOK /\ [Next]_vars => TypeOK'
<1> SUFFICES ASSUME TypeOK, [Next]_vars PROVE TypeOK'
  OBVIOUS
<1> USE ConstantsAssumption
<1>1. ASSUME NEW l \in Leases, NEW i \in Instances, NEW s \in Slots, Claim(l, i, s)
      PROVE TypeOK'
  <2>1. [status |-> "active", slot |-> s, instance |-> i] \in LeaseRow
    BY DEF LeaseRow
  <2>2. lease' \in [Leases -> LeaseRow]
    BY <1>1, <2>1 DEF TypeOK, Claim
  <2>3. holder' \in [Slots -> Leases \cup {Nil}] /\ term' \in [Leases -> Term]
    BY <1>1 DEF TypeOK, Claim, Term
  <2>4. control' \in [Slots -> ControlState]
    BY <1>1 DEF TypeOK, Claim, ControlState
  <2> QED
    BY <1>1, <2>2, <2>3, <2>4 DEF TypeOK, Claim, taskVars, healthVars, reconcileVars
<1>2. ASSUME NEW l \in Leases, Renew(l) PROVE TypeOK'
  BY <1>2 DEF TypeOK, Renew, slotVars, taskVars, healthVars, reconcileVars, Term
<1>3. ASSUME NEW l \in Leases, Release(l) PROVE TypeOK'
  <2>1. lease' \in [Leases -> LeaseRow]
    <3>1. [lease[l] EXCEPT !.status = "released"] \in LeaseRow
      BY DEF TypeOK, LeaseRow
    <3> QED
      BY <1>3, <3>1 DEF TypeOK, Release
  <2>2. holder' \in [Slots -> Leases \cup {Nil}] /\ control' \in [Slots -> ControlState]
    BY <1>3 DEF TypeOK, Release, ControlState
  <2>3. pending' \in [Slots -> PendingAction] /\ term' \in [Leases -> Term]
    BY <1>3 DEF TypeOK, Release, PendingAction, Term
  <2> QED
    BY <1>3, <2>1, <2>2, <2>3 DEF TypeOK, Release, taskVars, healthVars, reconcileVars
<1>4. ASSUME NEW l \in Leases, LeaseAges(l) PROVE TypeOK'
  BY <1>4 DEF TypeOK, LeaseAges, slotVars, taskVars, healthVars, reconcileVars, Term
<1>5. ASSUME EndLapsedLeases, swept' \in BOOLEAN PROVE TypeOK'
  <2>1. HistoryClosed(Lapsed) \in [Leases -> LeaseRow]
    BY DEF TypeOK, HistoryClosed, LeaseRow
  <2>2. lease' \in [Leases -> LeaseRow] /\ task' \in [Tasks -> TaskRow]
    BY <1>5, <2>1, AbandonInType DEF EndLapsedLeases
  <2>3. control' \in [Slots -> ControlState]
    BY <1>5 DEF TypeOK, EndLapsedLeases, ControlState
  <2>4. /\ pending' \in [Slots -> PendingAction]
        /\ holder' \in [Slots -> Leases \cup {Nil}]
        /\ activeTask' \in [Slots -> Tasks \cup {Nil}]
    BY <1>5 DEF TypeOK, EndLapsedLeases, PendingAction
  <2> QED
    BY <1>5, <2>2, <2>3, <2>4 DEF TypeOK, EndLapsedLeases, healthVars
<1>6. ASSUME NEW t \in Tasks, NEW s \in Slots, NEW r \in Runs, ExhaustRun(t, s, r) PROVE TypeOK'
  <2>1. [run[r] EXCEPT !.exhausted = TRUE] \in RunRow
    BY DEF TypeOK, RunRow
  <2>2. run' \in [Runs -> RunRow] /\ task' \in [Tasks -> TaskRow]
    BY <1>6, <2>1, AbandonInType DEF TypeOK, ExhaustRun
  <2> QED
    BY <1>6, <2>2 DEF TypeOK, ExhaustRun, ControlState, leaseVars, healthVars, reconcileVars
<1>7. ASSUME NEW t \in Tasks, NEW s \in Slots, NEW r \in Runs, NEW e \in Executions,
             BeginTask(t, s, r, e)
      PROVE TypeOK'
  <2> DEFINE row == [status |-> "active", slot |-> s, lease |-> holder[s],
                     generation |-> generation[s], run |-> r, execution |-> e,
                     attempt |-> run[r].next, route |-> route[s]]
  <2>1. row \in TaskRow
    BY DEF TypeOK, TaskRow, RunRow
  <2>2. AbandonIn({s}) \in [Tasks -> TaskRow]
    BY AbandonInType
  <2>3. task' \in [Tasks -> TaskRow]
    BY <1>7, <2>1, <2>2 DEF BeginTask
  <2>4. run' \in [Runs -> RunRow]
    BY <1>7 DEF BeginTask, TypeOK, RunRow
  <2> QED
    BY <1>7, <2>3, <2>4
    DEF TypeOK, BeginTask, ControlState, PendingAction, leaseVars, healthVars, reconcileVars
<1>8. ASSUME NEW t \in Tasks, NEW action \in RouteAction, Observe(t, action) PROVE TypeOK'
  BY <1>8 DEF TypeOK, Observe, Merge, PendingAction, leaseVars, healthVars, reconcileVars
<1>9. ASSUME NEW t \in Tasks, CompleteKeepingRoute(t) PROVE TypeOK'
  <2>1. task' \in [Tasks -> TaskRow]
    BY <1>9, CompletedType DEF CompleteKeepingRoute
  <2> QED
    BY <1>9, <2>1 DEF TypeOK, CompleteKeepingRoute, ControlState, leaseVars, healthVars, reconcileVars
<1>10. ASSUME NEW t \in Tasks, NEW p \in Proxies \cup {Nil}, LeaveRoute(t, p) PROVE TypeOK'
  <2>1. task' \in [Tasks -> TaskRow]
    BY <1>10, CompletedType DEF LeaveRoute
  <2>2. generation' \in [Slots -> Nat]
    BY <1>10 DEF TypeOK, LeaveRoute, NextGeneration
  <2>3. control' \in [Slots -> ControlState] /\ route' \in [Slots -> Proxies \cup {Nil}]
    BY <1>10 DEF TypeOK, LeaveRoute, ControlState
  <2> QED
    BY <1>10, <2>1, <2>2, <2>3 DEF TypeOK, LeaveRoute, Quarantined, leaseVars, reconcileVars
<1>11. ASSUME Reconcile PROVE TypeOK'
  <2> DEFINE moved(plan) == {s \in Changed(plan) : Owned(s)}
  <2>1. PICK plan \in Plans :
          /\ route' = [s \in Slots |-> IF s \in Changed(plan) THEN plan[s] ELSE route[s]]
          /\ generation' = NextGeneration(Changed(plan))
          /\ ready' = [s \in Slots |-> s \notin Changed(plan) /\ ready[s]]
          /\ control' = [s \in Slots |-> IF s \notin moved(plan) THEN control[s]
                                         ELSE IF plan[s] = Nil THEN "paused_no_reserve"
                                         ELSE "pending_new_route"]
          /\ pending' = [s \in Slots |-> IF s \in moved(plan) THEN "none" ELSE pending[s]]
          /\ refresh' = Refreshes(plan)
    BY <1>11 DEF Reconcile
  <2>2. plan \in [Slots -> Proxies \cup {Nil}]
    BY <2>1 DEF TypeOK, Plans, Eligible
  <2> HIDE DEF moved
  <2>3. route' \in [Slots -> Proxies \cup {Nil}] /\ generation' \in [Slots -> Nat]
    BY <2>1, <2>2 DEF TypeOK, NextGeneration
  <2>4. control' \in [Slots -> ControlState] /\ pending' \in [Slots -> PendingAction]
    BY <2>1 DEF TypeOK, ControlState, PendingAction
  <2>5. ready' \in [Slots -> BOOLEAN]
    BY <2>1 DEF TypeOK
  <2>6. refresh' \subseteq RefreshRow
    BY <2>1, <2>2, <2>3 DEF TypeOK, Refreshes, RefreshRow
  <2> QED
    BY <1>11, <2>3, <2>4, <2>5, <2>6 DEF TypeOK, Reconcile, leaseVars, taskVars, healthVars
<1>12. ASSUME AbortReconcile PROVE TypeOK'
  BY <1>12 DEF TypeOK, AbortReconcile, slotVars, leaseVars, taskVars, healthVars
<1>13. ASSUME NEW f \in refresh, FinishRefresh(f) PROVE TypeOK'
  BY <1>13 DEF TypeOK, FinishRefresh, leaseVars, taskVars, healthVars
<1>14. ASSUME NEW f \in refresh, LoseRefresh(f) PROVE TypeOK'
  BY <1>14 DEF TypeOK, LoseRefresh, slotVars, leaseVars, taskVars, healthVars
<1>15. ASSUME NEW s \in Slots, FinalizeRoute(s) PROVE TypeOK'
  BY <1>15 DEF TypeOK, FinalizeRoute, ControlState, leaseVars, taskVars, healthVars, reconcileVars
<1>16. ASSUME HealthStep PROVE TypeOK'
  BY <1>16 DEF TypeOK, HealthStep, HealthPasses, HealthFails, GrantLapses, ReportFailure,
             Quarantined, slotVars, leaseVars, taskVars, reconcileVars
<1>17. CASE UNCHANGED vars
  BY <1>17 DEF TypeOK, vars, slotVars, leaseVars, taskVars, healthVars, reconcileVars
<1> QED
  BY <1>1, <1>2, <1>3, <1>4, <1>5, <1>6, <1>7, <1>8, <1>9, <1>10, <1>11, <1>12, <1>13, <1>14,
     <1>15, <1>16, <1>17
  DEF Next, LeaseStep, TaskStep, RouteStep, ExpireLeases, BeginReconcile, CompleteReplacingRoute,
      CompletePausing, WarmStandby, Eligible, TypeOK

(* Every variable of the control plane keeps its type in every fleet. *)
THEOREM TypeCorrect == Spec => []TypeOK
  BY TypeOKInit, TypeOKNext, PTL DEF Spec
-----------------------------------------------------------------------------
(* Leases.  The two tables that record a lease agree; this needs no other  *)
(* invariant than the types.                                               *)

(* No task handler touches a lease. *)
LEMMA TaskStepKeepsLeases == TaskStep => UNCHANGED <<holder, lease, term>>
<1>1. \A t, s, r : ExhaustRun(t, s, r) => UNCHANGED <<holder, lease, term>>
  BY DEF ExhaustRun, leaseVars
<1>2. \A t, s, r, e : BeginTask(t, s, r, e) => UNCHANGED <<holder, lease, term>>
  BY DEF BeginTask, leaseVars
<1>3. \A t, action : Observe(t, action) => UNCHANGED <<holder, lease, term>>
  BY DEF Observe, leaseVars
<1>4. \A t : CompleteKeepingRoute(t) => UNCHANGED <<holder, lease, term>>
  BY DEF CompleteKeepingRoute, leaseVars
<1>5. \A t, p : LeaveRoute(t, p) => UNCHANGED <<holder, lease, term>>
  BY DEF LeaveRoute, leaseVars
<1> QED
  BY <1>1, <1>2, <1>3, <1>4, <1>5, Zenon DEF TaskStep, CompleteReplacingRoute, CompletePausing

LEMMA LeaseSlotInit == Init => LeaseSlotAgreement
  BY ConstantsAssumption DEF Init, LeaseSlotAgreement, NoLease

LEMMA LeaseSlotNext == TypeOK /\ LeaseSlotAgreement /\ [Next]_vars => LeaseSlotAgreement'
<1> SUFFICES ASSUME TypeOK, LeaseSlotAgreement, [Next]_vars PROVE LeaseSlotAgreement'
  OBVIOUS
<1> USE ConstantsAssumption
<1>1. ASSUME NEW l \in Leases, NEW i \in Instances, NEW s \in Slots, Claim(l, i, s)
      PROVE LeaseSlotAgreement'
  BY <1>1 DEF TypeOK, LeaseSlotAgreement, Claim
<1>2. ASSUME NEW l \in Leases, Renew(l) PROVE LeaseSlotAgreement'
  BY <1>2 DEF TypeOK, LeaseSlotAgreement, Renew, slotVars
<1>3. ASSUME NEW l \in Leases, Release(l) PROVE LeaseSlotAgreement'
  BY <1>3 DEF TypeOK, LeaseSlotAgreement, Release
<1>4. ASSUME NEW l \in Leases, LeaseAges(l) PROVE LeaseSlotAgreement'
  BY <1>4 DEF TypeOK, LeaseSlotAgreement, LeaseAges, slotVars
<1>5. ASSUME EndLapsedLeases PROVE LeaseSlotAgreement'
  BY <1>5 DEF TypeOK, LeaseSlotAgreement, EndLapsedLeases, HistoryClosed, Lapsed, Owned
<1>6. ASSUME UNCHANGED <<holder, lease, term>> PROVE LeaseSlotAgreement'
  BY <1>6 DEF LeaseSlotAgreement
<1>7. CASE TaskStep
  BY <1>6, <1>7, TaskStepKeepsLeases
<1>8. CASE RouteStep
  BY <1>5, <1>6, <1>8 DEF RouteStep, BeginReconcile, Reconcile, AbortReconcile, FinishRefresh,
     LoseRefresh, FinalizeRoute, slotVars, leaseVars
<1>9. CASE HealthStep
  BY <1>6, <1>9 DEF HealthStep, HealthPasses, HealthFails, GrantLapses, ReportFailure, slotVars, leaseVars
<1>10. CASE UNCHANGED vars
  BY <1>6, <1>10 DEF vars, slotVars, leaseVars
<1> QED
  BY <1>1, <1>2, <1>3, <1>4, <1>5, <1>7, <1>8, <1>9, <1>10 DEF Next, LeaseStep, ExpireLeases

(* The lease history and the slot rows agree in every fleet. *)
THEOREM LeasesAgree == Spec => []LeaseSlotAgreement
  BY TypeOKInit, TypeOKNext, LeaseSlotInit, LeaseSlotNext, PTL DEF Spec
-----------------------------------------------------------------------------
(* Attempts and slots.  TaskSlotAgreement is inductive once it also says    *)
(* that an active attempt has a slot and a lease at all.                    *)

ActiveRows ==
  \A t \in Tasks : task[t].status = "active" => task[t].slot \in Slots /\ task[t].lease \in Leases

TaskInv == ActiveRows /\ TaskSlotAgreement

(* The repair of abandonInvalidActiveTasks finds nothing on a slot whose    *)
(* lease is live.                                                           *)
LEMMA LiveSlotsAreSound ==
  ASSUME TypeOK, TaskInv, NEW s \in Slots, Owned(s)
  PROVE  /\ ~Detached(s)
         /\ AbandonIn({s}) = task
         /\ \A t \in Tasks : task[t].slot = s => ~Invalid(t)
<1>1. \A t \in Tasks : task[t].slot = s => ~Invalid(t)
  BY DEF TaskInv, TaskSlotAgreement, Invalid
<1>2. ~Detached(s)
  BY <1>1 DEF TypeOK, TaskInv, TaskSlotAgreement, Detached
<1>3. AbandonIn({s}) = task
  BY <1>1 DEF AbandonIn, TypeOK
<1> QED
  BY <1>1, <1>2, <1>3

LEMMA LapsedSlots == Lapsed \subseteq Slots
  BY DEF Lapsed

(* A cleanup empties exactly the lapsed slots and abandons their attempts. *)
LEMMA CleanupEffect ==
  ASSUME TypeOK, TaskInv, EndLapsedLeases
  PROVE  /\ activeTask' = [s \in Slots |-> IF s \in Lapsed THEN Nil ELSE activeTask[s]]
         /\ holder' = [s \in Slots |-> IF s \in Lapsed THEN Nil ELSE holder[s]]
         /\ \A t \in Tasks : /\ task'[t].slot = task[t].slot
                             /\ task'[t].lease = task[t].lease
                             /\ task'[t].route = task[t].route
                             /\ task'[t].generation = task[t].generation
                             /\ task'[t].status = "active" <=>
                                  task[t].status = "active" /\ task[t].slot \notin Lapsed
<1> USE ConstantsAssumption
<1>1. \A t \in Tasks : Invalid(t) <=> task[t].status = "active" /\ task[t].slot \in Lapsed
  BY DEF TaskInv, ActiveRows, TaskSlotAgreement, Invalid, Lapsed, Owned
<1>2. \A s \in Slots : Detached(s) => s \in Lapsed
  BY <1>1 DEF TypeOK, TaskInv, TaskSlotAgreement, Detached
<1>3. activeTask' = [s \in Slots |-> IF s \in Lapsed THEN Nil ELSE activeTask[s]]
  BY <1>2 DEF EndLapsedLeases
<1>4. holder' = [s \in Slots |-> IF s \in Lapsed THEN Nil ELSE holder[s]]
  BY DEF EndLapsedLeases
<1>5. \A t \in Tasks : IF task[t].status = "active" /\ task[t].slot \in Lapsed
                       THEN task'[t] = [task[t] EXCEPT !.status = "abandoned"]
                       ELSE task'[t] = task[t]
  BY <1>1, LapsedSlots DEF EndLapsedLeases, AbandonIn
<1>6. ASSUME NEW t \in Tasks
      PROVE  /\ task'[t].slot = task[t].slot
             /\ task'[t].lease = task[t].lease
             /\ task'[t].route = task[t].route
             /\ task'[t].generation = task[t].generation
             /\ task'[t].status = "active" <=>
                  task[t].status = "active" /\ task[t].slot \notin Lapsed
  <2>1. task[t] \in TaskRow
    BY DEF TypeOK
  <2>2. CASE task[t].status = "active" /\ task[t].slot \in Lapsed
    <3>1. task'[t] = [task[t] EXCEPT !.status = "abandoned"]
      BY <1>5, <2>2
    <3> QED
      BY <2>1, <2>2, <3>1 DEF TaskRow
  <2>3. CASE ~(task[t].status = "active" /\ task[t].slot \in Lapsed)
    <3>1. task'[t] = task[t]
      BY <1>5, <2>3
    <3> QED
      BY <2>3, <3>1
  <2> QED
    BY <2>2, <2>3
<1> QED
  BY <1>3, <1>4, <1>6

(* BeginTask writes one row and names it on a slot that had none. *)
LEMMA BeginEffect ==
  ASSUME TypeOK, TaskInv, NEW t \in Tasks, NEW s \in Slots, NEW r \in Runs, NEW e \in Executions,
         BeginTask(t, s, r, e)
  PROVE  /\ Owned(s) /\ activeTask[s] = Nil /\ holder[s] \in Leases
         /\ task[t].status = "none"
         /\ task' = [task EXCEPT ![t] = [status |-> "active", slot |-> s, lease |-> holder[s],
                       generation |-> generation[s], run |-> r, execution |-> e,
                       attempt |-> run[r].next, route |-> route[s]]]
         /\ activeTask' = [activeTask EXCEPT ![s] = t]
         /\ UNCHANGED <<holder, term, route, generation>>
<1>1. Owned(s) /\ task[t].status = "none"
  BY DEF BeginTask, MayBegin
<1>2. activeTask[s] = Nil /\ AbandonIn({s}) = task
  BY <1>1, LiveSlotsAreSound DEF BeginTask, MayBegin
<1>3. holder[s] \in Leases
  BY <1>1 DEF TypeOK, Owned
<1> QED
  BY <1>1, <1>2, <1>3 DEF BeginTask, leaseVars

LEMMA TaskInvInit == Init => TaskInv
  BY ConstantsAssumption DEF Init, TaskInv, ActiveRows, TaskSlotAgreement, NoTask

LEMMA TaskInvNext == TypeOK /\ LeaseSlotAgreement /\ TaskInv /\ [Next]_vars => TaskInv'
<1> SUFFICES ASSUME TypeOK, LeaseSlotAgreement, TaskInv, [Next]_vars PROVE TaskInv'
  OBVIOUS
<1> USE ConstantsAssumption
<1>1. ASSUME NEW l \in Leases, NEW i \in Instances, NEW s \in Slots, Claim(l, i, s)
      PROVE TaskInv'
  BY <1>1 DEF TypeOK, TaskInv, ActiveRows, TaskSlotAgreement, Claim, taskVars
<1>2. ASSUME NEW l \in Leases, Release(l) PROVE TaskInv'
  BY <1>2 DEF TypeOK, TaskInv, ActiveRows, TaskSlotAgreement, Release, taskVars
<1>3. ASSUME EndLapsedLeases PROVE TaskInv'
  BY <1>3, CleanupEffect, LapsedSlots DEF TypeOK, TaskInv, ActiveRows, TaskSlotAgreement
<1>4. ASSUME NEW t \in Tasks, NEW s \in Slots, NEW r \in Runs, ExhaustRun(t, s, r) PROVE TaskInv'
  <2>1. Owned(s) /\ activeTask[s] = Nil /\ task' = task
    BY <1>4, LiveSlotsAreSound DEF ExhaustRun, MayBegin
  <2>2. holder' = holder /\ activeTask' = activeTask
    BY <1>4, <2>1 DEF TypeOK, ExhaustRun
  <2> QED
    BY <2>1, <2>2 DEF TaskInv, ActiveRows, TaskSlotAgreement
<1>5. ASSUME NEW t \in Tasks, NEW s \in Slots, NEW r \in Runs, NEW e \in Executions,
             BeginTask(t, s, r, e)
      PROVE TaskInv'
  <2>1. /\ Owned(s) /\ activeTask[s] = Nil /\ holder[s] \in Leases
        /\ task[t].status = "none"
        /\ task' = [task EXCEPT ![t] = [status |-> "active", slot |-> s, lease |-> holder[s],
                      generation |-> generation[s], run |-> r, execution |-> e,
                      attempt |-> run[r].next, route |-> route[s]]]
        /\ activeTask' = [activeTask EXCEPT ![s] = t]
        /\ holder' = holder
    BY <1>5, BeginEffect
  <2>2. /\ task'[t].status = "active" /\ task'[t].slot = s /\ task'[t].lease = holder[s]
        /\ \A u \in Tasks \ {t} : task'[u] = task[u]
    BY <2>1 DEF TypeOK
  <2>3. activeTask'[s] = t /\ \A x \in Slots \ {s} : activeTask'[x] = activeTask[x]
    BY <2>1 DEF TypeOK
  <2>4. ActiveRows'
    BY <2>1, <2>2 DEF TaskInv, ActiveRows
  <2>5. ASSUME NEW u \in Tasks, task'[u].status = "active"
        PROVE  activeTask'[task'[u].slot] = u /\ holder'[task'[u].slot] = task'[u].lease
    <3>1. CASE u = t
      BY <2>1, <2>2, <2>3, <3>1
    <3>2. CASE u # t
      <4>1. task'[u] = task[u] /\ task[u].status = "active"
        BY <2>2, <2>5, <3>2
      <4>2. task[u].slot \in Slots /\ activeTask[task[u].slot] = u /\ holder[task[u].slot] = task[u].lease
        BY <4>1 DEF TaskInv, ActiveRows, TaskSlotAgreement
      <4>3. task[u].slot # s
        BY <2>1, <4>2, ConstantsAssumption
      <4> QED
        BY <2>1, <2>3, <4>1, <4>2, <4>3
    <3> QED
      BY <3>1, <3>2
  <2>6. ASSUME NEW x \in Slots, activeTask'[x] # Nil
        PROVE  task'[activeTask'[x]].status = "active" /\ task'[activeTask'[x]].slot = x
    <3>1. CASE x = s
      BY <2>2, <2>3, <3>1
    <3>2. CASE x # s
      <4>1. activeTask'[x] = activeTask[x] /\ activeTask[x] \in Tasks
        BY <2>3, <2>6, <3>2 DEF TypeOK
      <4>2. task[activeTask[x]].status = "active" /\ task[activeTask[x]].slot = x
        BY <2>6, <4>1 DEF TaskInv, TaskSlotAgreement
      <4>3. activeTask[x] # t
        BY <2>1, <4>2
      <4> QED
        BY <2>2, <4>1, <4>2, <4>3
    <3> QED
      BY <3>1, <3>2
  <2> QED
    BY <2>4, <2>5, <2>6 DEF TaskInv, TaskSlotAgreement
<1>6. ASSUME NEW t \in Tasks, MayComplete(t), Completed(t), holder' = holder,
             activeTask' = [activeTask EXCEPT ![task[t].slot] = Nil]
      PROVE TaskInv'
  BY <1>6 DEF TypeOK, TaskInv, ActiveRows, TaskSlotAgreement, MayComplete, InLiveFence, Completed
<1>7. ASSUME UNCHANGED <<holder, activeTask, task>> PROVE TaskInv'
  BY <1>7 DEF TaskInv, ActiveRows, TaskSlotAgreement
<1>8. ASSUME NEW t \in Tasks, NEW action, Observe(t, action) PROVE TaskInv'
  BY <1>7, <1>8 DEF Observe
<1>9. ASSUME NEW t \in Tasks, CompleteKeepingRoute(t) PROVE TaskInv'
  BY <1>6, <1>9 DEF CompleteKeepingRoute
<1>10. ASSUME NEW t \in Tasks, NEW p, LeaveRoute(t, p) PROVE TaskInv'
  BY <1>6, <1>10 DEF LeaveRoute
<1>11. CASE TaskStep
  BY <1>4, <1>5, <1>8, <1>9, <1>10, <1>11, Zenon DEF TaskStep, CompleteReplacingRoute, CompletePausing
<1>12. ASSUME NEW l \in Leases, Renew(l) \/ LeaseAges(l) PROVE TaskInv'
  BY <1>7, <1>12 DEF Renew, LeaseAges, slotVars, taskVars
<1>13. CASE RouteStep
  BY <1>3, <1>7, <1>13 DEF RouteStep, BeginReconcile, Reconcile, AbortReconcile, FinishRefresh,
     LoseRefresh, FinalizeRoute, slotVars, taskVars
<1>14. CASE HealthStep
  BY <1>7, <1>14 DEF HealthStep, HealthPasses, HealthFails, GrantLapses, ReportFailure, slotVars, taskVars
<1>15. CASE UNCHANGED vars
  BY <1>7, <1>15 DEF vars, slotVars, taskVars
<1> QED
  BY <1>1, <1>2, <1>3, <1>11, <1>12, <1>13, <1>14, <1>15 DEF Next, LeaseStep, ExpireLeases
(* An attempt and its slot vouch for each other in every fleet. *)
THEOREM AttemptsAgree == Spec => []TaskSlotAgreement
<1>1. Init => TypeOK /\ LeaseSlotAgreement /\ TaskInv
  BY TypeOKInit, LeaseSlotInit, TaskInvInit
<1>2. TypeOK /\ LeaseSlotAgreement /\ TaskInv /\ [Next]_vars
        => (TypeOK /\ LeaseSlotAgreement /\ TaskInv)'
  BY TypeOKNext, LeaseSlotNext, TaskInvNext
<1>3. TaskInv => TaskSlotAgreement
  BY DEF TaskInv
<1> QED
  BY <1>1, <1>2, <1>3, PTL DEF Spec
-----------------------------------------------------------------------------
(* Routes. *)

LEMMA NoSharedRouteNext == TypeOK /\ NoSharedRoute /\ [Next]_vars => NoSharedRoute'
<1> SUFFICES ASSUME TypeOK, NoSharedRoute, [Next]_vars PROVE NoSharedRoute'
  OBVIOUS
<1>1. ASSUME NEW t \in Tasks, NEW p \in WarmStandby \cup {Nil}, LeaveRoute(t, p)
      PROVE NoSharedRoute'
  BY <1>1 DEF TypeOK, NoSharedRoute, LeaveRoute, WarmStandby, Assigned
<1>2. ASSUME Reconcile PROVE NoSharedRoute'
  <2>1. PICK plan \in Plans :
          route' = [s \in Slots |-> IF s \in Changed(plan) THEN plan[s] ELSE route[s]]
    BY <1>2 DEF Reconcile
  <2>2. \A s \in Slots : route'[s] = plan[s]
    BY <2>1 DEF Plans, Admissible, Changed, Locked
  <2> QED
    BY <2>1, <2>2 DEF Plans, Admissible, NoSharedRoute
<1>3. ASSUME UNCHANGED route PROVE NoSharedRoute'
  BY <1>3 DEF NoSharedRoute
<1>4. CASE LeaseStep
  BY <1>3, <1>4 DEF LeaseStep, Claim, Renew, Release, LeaseAges, ExpireLeases, EndLapsedLeases, slotVars
<1>5. CASE TaskStep
  <2>1. \A t, s, r : ExhaustRun(t, s, r) => UNCHANGED route
    BY DEF ExhaustRun
  <2>2. \A t, s, r, e : BeginTask(t, s, r, e) => UNCHANGED route
    BY DEF BeginTask
  <2>3. \A t, action : Observe(t, action) => UNCHANGED route
    BY DEF Observe
  <2>4. \A t : CompleteKeepingRoute(t) => UNCHANGED route
    BY DEF CompleteKeepingRoute
  <2> QED
    BY <1>1, <1>3, <1>5, <2>1, <2>2, <2>3, <2>4, Zenon
    DEF TaskStep, CompleteReplacingRoute, CompletePausing
<1>6. CASE RouteStep
  BY <1>2, <1>3, <1>6 DEF RouteStep, BeginReconcile, EndLapsedLeases, AbortReconcile, FinishRefresh,
     LoseRefresh, FinalizeRoute, slotVars
<1>7. CASE HealthStep
  BY <1>3, <1>7 DEF HealthStep, HealthPasses, HealthFails, GrantLapses, ReportFailure, slotVars
<1>8. CASE UNCHANGED vars
  BY <1>3, <1>8 DEF vars, slotVars
<1> QED
  BY <1>4, <1>5, <1>6, <1>7, <1>8 DEF Next

(* No two slots ever share a proxy, in every fleet. *)
THEOREM RoutesExclusive == Spec => []NoSharedRoute
<1>1. Init => NoSharedRoute
  BY DEF Init, NoSharedRoute
<1> QED
  BY <1>1, TypeOKInit, TypeOKNext, NoSharedRouteNext, PTL DEF Spec
-----------------------------------------------------------------------------
(* The route fence. *)

(* A step that leaves routes, generations, attempts and occupations alone   *)
(* and makes no lapsed lease run again keeps the fence.                     *)
LEMMA FenceKept ==
  ASSUME RouteFencedWhileExecuting, UNCHANGED <<route, generation, task, activeTask>>,
         \A s \in Slots : activeTask[s] # Nil /\ Owned(s)' => Owned(s)
  PROVE  RouteFencedWhileExecuting'
  BY DEF RouteFencedWhileExecuting, Executing

LEMMA RouteFenceNext ==
  TypeOK /\ LeaseSlotAgreement /\ TaskInv /\ RouteFencedWhileExecuting /\ [Next]_vars
    => RouteFencedWhileExecuting'
<1> SUFFICES ASSUME TypeOK, LeaseSlotAgreement, TaskInv, RouteFencedWhileExecuting, [Next]_vars
             PROVE  RouteFencedWhileExecuting'
  OBVIOUS
<1> USE ConstantsAssumption
<1>1. ASSUME NEW l \in Leases, NEW i \in Instances, NEW s \in Slots, Claim(l, i, s)
      PROVE RouteFencedWhileExecuting'
  <2>1. activeTask[s] = Nil
    BY <1>1 DEF TaskInv, ActiveRows, TaskSlotAgreement, Claim, TypeOK, TaskRow
  <2>2. \A x \in Slots : activeTask[x] # Nil /\ Owned(x)' => Owned(x)
    BY <1>1, <2>1 DEF Claim, Owned, TypeOK, LeaseSlotAgreement
  <2> QED
    BY <1>1, <2>2, FenceKept DEF Claim, taskVars
<1>2. ASSUME NEW l \in Leases, Renew(l) \/ LeaseAges(l) PROVE RouteFencedWhileExecuting'
  <2>1. \A x \in Slots : Owned(x)' => Owned(x)
    BY <1>2 DEF Renew, LeaseAges, Owned, TypeOK, slotVars
  <2> QED
    BY <1>2, <2>1, FenceKept DEF Renew, LeaseAges, slotVars, taskVars
<1>3. ASSUME NEW l \in Leases, Release(l) PROVE RouteFencedWhileExecuting'
  <2>1. \A x \in Slots : Owned(x)' => Owned(x)
    BY <1>3 DEF Release, Owned, TypeOK
  <2> QED
    BY <1>3, <2>1, FenceKept DEF Release, taskVars
<1>4. ASSUME EndLapsedLeases PROVE RouteFencedWhileExecuting'
  <2>1. /\ activeTask' = [s \in Slots |-> IF s \in Lapsed THEN Nil ELSE activeTask[s]]
        /\ holder' = [s \in Slots |-> IF s \in Lapsed THEN Nil ELSE holder[s]]
        /\ \A t \in Tasks : task'[t].route = task[t].route /\ task'[t].generation = task[t].generation
    BY <1>4, CleanupEffect
  <2>2. UNCHANGED <<route, generation, term>>
    BY <1>4 DEF EndLapsedLeases
  <2>3. \A s \in Slots : Executing(s)' => Executing(s) /\ activeTask'[s] = activeTask[s]
    BY <2>1, <2>2 DEF Executing, Owned
  <2> QED
    BY <2>1, <2>2, <2>3 DEF RouteFencedWhileExecuting, TypeOK, Executing
<1>5. ASSUME NEW t \in Tasks, NEW s \in Slots, NEW r \in Runs, ExhaustRun(t, s, r)
      PROVE RouteFencedWhileExecuting'
  <2>1. Owned(s) /\ activeTask[s] = Nil /\ task' = task
    BY <1>5, LiveSlotsAreSound DEF ExhaustRun, MayBegin
  <2>2. activeTask' = activeTask /\ UNCHANGED <<route, generation, holder, term>>
    BY <1>5, <2>1 DEF ExhaustRun, leaseVars, TypeOK
  <2> QED
    BY <2>1, <2>2, FenceKept DEF Owned
<1>6. ASSUME NEW t \in Tasks, NEW s \in Slots, NEW r \in Runs, NEW e \in Executions,
             BeginTask(t, s, r, e)
      PROVE RouteFencedWhileExecuting'
  <2>1. /\ Owned(s) /\ task[t].status = "none"
        /\ task' = [task EXCEPT ![t] = [status |-> "active", slot |-> s, lease |-> holder[s],
                      generation |-> generation[s], run |-> r, execution |-> e,
                      attempt |-> run[r].next, route |-> route[s]]]
        /\ activeTask' = [activeTask EXCEPT ![s] = t]
        /\ UNCHANGED <<holder, term, route, generation>>
    BY <1>6, BeginEffect
  <2>2. \A x \in Slots : x # s => activeTask[x] # t
    BY <2>1 DEF TaskInv, TaskSlotAgreement, TypeOK
  <2> QED
    BY <2>1, <2>2 DEF RouteFencedWhileExecuting, Executing, Owned, TypeOK
<1>7. ASSUME NEW t \in Tasks, MayComplete(t), Completed(t), UNCHANGED <<holder, term>>,
             activeTask' = [activeTask EXCEPT ![task[t].slot] = Nil],
             \A x \in Slots : x # task[t].slot =>
                              route'[x] = route[x] /\ generation'[x] = generation[x]
      PROVE RouteFencedWhileExecuting'
  <2>1. \A x \in Slots : x # task[t].slot => activeTask[x] # t
    BY <1>7 DEF TaskInv, TaskSlotAgreement, TypeOK
  <2> QED
    BY <1>7, <2>1 DEF RouteFencedWhileExecuting, Executing, Owned, TypeOK, Completed
<1>8. ASSUME UNCHANGED <<holder, term, route, generation, task, activeTask>>
      PROVE RouteFencedWhileExecuting'
  BY <1>8, FenceKept DEF Owned
<1>9. ASSUME Reconcile PROVE RouteFencedWhileExecuting'
  <2>1. PICK plan \in Plans :
          /\ route' = [s \in Slots |-> IF s \in Changed(plan) THEN plan[s] ELSE route[s]]
          /\ generation' = NextGeneration(Changed(plan))
    BY <1>9 DEF Reconcile
  <2>2. \A s \in Slots : Executing(s) => route'[s] = route[s] /\ generation'[s] = generation[s]
    BY <2>1 DEF Changed, NextGeneration
  <2>3. UNCHANGED <<holder, term, task, activeTask>>
    BY <1>9 DEF Reconcile, leaseVars, taskVars
  <2> QED
    BY <2>2, <2>3 DEF RouteFencedWhileExecuting, Executing, Owned
<1>10. CASE TaskStep
  <2>1. ASSUME NEW t \in Tasks, NEW action, Observe(t, action) PROVE RouteFencedWhileExecuting'
    BY <1>8, <2>1 DEF Observe, leaseVars
  <2>2. ASSUME NEW t \in Tasks, CompleteKeepingRoute(t) PROVE RouteFencedWhileExecuting'
    BY <1>7, <2>2 DEF CompleteKeepingRoute, leaseVars
  <2>3. ASSUME NEW t \in Tasks, NEW p, LeaveRoute(t, p) PROVE RouteFencedWhileExecuting'
    <3>1. \A x \in Slots : x # task[t].slot =>
                           route'[x] = route[x] /\ generation'[x] = generation[x]
      BY <2>3 DEF LeaveRoute, NextGeneration, TypeOK
    <3> QED
      BY <1>7, <2>3, <3>1 DEF LeaveRoute, leaseVars
  <2> QED
    BY <1>5, <1>6, <1>10, <2>1, <2>2, <2>3, Zenon DEF TaskStep, CompleteReplacingRoute, CompletePausing
<1>11. CASE RouteStep
  BY <1>4, <1>8, <1>9, <1>11 DEF RouteStep, BeginReconcile, AbortReconcile, FinishRefresh,
     LoseRefresh, FinalizeRoute, slotVars, leaseVars, taskVars
<1>12. CASE HealthStep
  BY <1>8, <1>12 DEF HealthStep, HealthPasses, HealthFails, GrantLapses, ReportFailure,
     slotVars, leaseVars, taskVars
<1>13. CASE UNCHANGED vars
  BY <1>8, <1>13 DEF vars, slotVars, leaseVars, taskVars
<1> QED
  BY <1>1, <1>2, <1>3, <1>4, <1>10, <1>11, <1>12, <1>13 DEF Next, LeaseStep, ExpireLeases

(* Whatever the fleet, no reconciliation, health verdict or evidence moves  *)
(* the route of an attempt that runs under a live lease.                    *)
THEOREM RouteFenced == Spec => []RouteFencedWhileExecuting
<1> DEFINE IInv == TypeOK /\ LeaseSlotAgreement /\ TaskInv /\ RouteFencedWhileExecuting
<1>1. Init => IInv
  BY TypeOKInit, LeaseSlotInit, TaskInvInit DEF Init, RouteFencedWhileExecuting, Executing, Owned
<1>2. IInv /\ [Next]_vars => IInv'
  BY TypeOKNext, LeaseSlotNext, TaskInvNext, RouteFenceNext
<1>3. IInv => RouteFencedWhileExecuting
  OBVIOUS
<1> QED
  BY <1>1, <1>2, <1>3, PTL DEF Spec
=============================================================================
