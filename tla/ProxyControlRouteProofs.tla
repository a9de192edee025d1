----------------------- MODULE ProxyControlRouteProofs -----------------------
(***************************************************************************)
(* Theorems about the routes of ProxyControl for every fleet: what a slot  *)
(* tells its worker, what a route generation names, what evidence does to  *)
(* a route, and that the control plane implements the route lock.          *)
(***************************************************************************)
EXTENDS ProxyControlProofs

(* What every theorem below starts from. *)
Base == TypeOK /\ LeaseSlotAgreement /\ TaskInv

LEMMA BaseInit == Init => Base
  BY TypeOKInit, LeaseSlotInit, TaskInvInit DEF Base

LEMMA BaseNext == Base /\ [Next]_vars => Base'
  BY TypeOKNext, LeaseSlotNext, TaskInvNext DEF Base

(* Who holds a slot and runs an attempt on it. *)
Occupation == <<holder, term, task, activeTask>>

(* A live lease on a slot was there before, or the step is its claim. *)
LEMMA OwnedBefore ==
  ASSUME Base, [Next]_vars, NEW s \in Slots, Owned(s)',
         ~ \E l \in Leases, i \in Instances : Claim(l, i, s)
  PROVE  Owned(s) /\ holder'[s] = holder[s]
<1> USE ConstantsAssumption DEF Base
<1>1. ASSUME UNCHANGED <<holder, term>> PROVE Owned(s) /\ holder'[s] = holder[s]
  BY <1>1 DEF Owned
<1>2. ASSUME NEW l \in Leases, NEW i \in Instances, NEW x \in Slots, Claim(l, i, x)
      PROVE Owned(s) /\ holder'[s] = holder[s]
  <2>1. x # s
    BY <1>2
  <2>2. holder'[s] = holder[s] /\ holder[s] # l
    BY <1>2, <2>1 DEF Claim, TypeOK, LeaseSlotAgreement
  <2>3. \A k \in Leases \ {l} : term'[k] = term[k]
    BY <1>2 DEF Claim, TypeOK
  <2> QED
    BY <2>2, <2>3 DEF Owned, TypeOK
<1>3. ASSUME NEW l \in Leases, Renew(l) \/ Release(l) \/ LeaseAges(l)
      PROVE Owned(s) /\ holder'[s] = holder[s]
  BY <1>3 DEF Renew, Release, LeaseAges, Owned, TypeOK, slotVars
<1>4. ASSUME EndLapsedLeases PROVE Owned(s) /\ holder'[s] = holder[s]
  BY <1>4, CleanupEffect DEF EndLapsedLeases, Owned, TypeOK
<1>5. CASE TaskStep
  <2>1. UNCHANGED term
    BY <1>5, TaskStepKeepsLeases
  <2> QED
    BY <1>1, <1>5, <2>1, TaskStepKeepsLeases
<1>6. CASE RouteStep
  BY <1>1, <1>4, <1>6 DEF RouteStep, BeginReconcile, Reconcile, AbortReconcile, FinishRefresh,
     LoseRefresh, FinalizeRoute, slotVars, leaseVars
<1>7. CASE HealthStep
  BY <1>1, <1>7 DEF HealthStep, HealthPasses, HealthFails, GrantLapses, ReportFailure, slotVars, leaseVars
<1>8. CASE UNCHANGED vars
  BY <1>1, <1>8 DEF vars, slotVars, leaseVars
<1> QED
  BY <1>2, <1>3, <1>4, <1>5, <1>6, <1>7, <1>8 DEF Next, LeaseStep, ExpireLeases

(* A slot nobody holds runs no attempt. *)
LEMMA IdleUnheld == ASSUME Base, NEW s \in Slots, holder[s] = Nil PROVE activeTask[s] = Nil
  BY ConstantsAssumption DEF Base, TypeOK, TaskInv, ActiveRows, TaskSlotAgreement

-----------------------------------------------------------------------------
(* What a slot tells its worker. *)

(* A refresh still to be finished never marks a route that is pending: the  *)
(* slot turned pending or paused in a later generation.                     *)
RefreshesSound ==
  /\ swept => refresh = {}
  /\ \A f \in refresh :
       /\ f.generation <= generation[f.slot]
       /\ f.generation = generation[f.slot] /\ Owned(f.slot)
            => control[f.slot] \notin {"pending_new_route", "paused_no_reserve"}

(* A step that leaves the slot rows alone and gives no lapsed lease back. *)
LEMMA CoherentKept ==
  ASSUME ControlStateCoherent, RefreshesSound,
         UNCHANGED <<holder, route, generation, ready, control, activeTask>>,
         refresh' \subseteq refresh, refresh \subseteq RefreshRow, swept' => refresh' = {},
         \A s \in Slots : Owned(s)' => Owned(s)
  PROVE  ControlStateCoherent' /\ RefreshesSound'
  BY DEF ControlStateCoherent, RefreshesSound, RefreshRow

LEMMA CoherentClaim ==
  ASSUME Base, ControlStateCoherent, RefreshesSound,
         NEW l \in Leases, NEW i \in Instances, NEW s \in Slots, Claim(l, i, s)
  PROVE  ControlStateCoherent' /\ RefreshesSound'
<1> USE ConstantsAssumption DEF Base
<1>1. activeTask[s] = Nil /\ ready[s] /\ route[s] # Nil
  BY IdleUnheld DEF Claim, Eligible, TypeOK
<1>2. holder'[s] = l /\ control'[s] = "leased_idle"
  BY DEF Claim, TypeOK
<1>3. \A x \in Slots \ {s} :
        holder'[x] = holder[x] /\ control'[x] = control[x] /\ (Owned(x)' => Owned(x))
  <2>1. ASSUME NEW x \in Slots \ {s} PROVE holder'[x] = holder[x] /\ holder[x] # l /\ control'[x] = control[x]
    BY DEF Claim, TypeOK, LeaseSlotAgreement
  <2>2. \A k \in Leases \ {l} : term'[k] = term[k]
    BY DEF Claim, TypeOK
  <2> QED
    BY <2>1, <2>2 DEF Owned, TypeOK
<1>4. UNCHANGED <<route, generation, ready, activeTask, swept, refresh>>
  BY DEF Claim, reconcileVars
<1>5. ControlStateCoherent'
  BY <1>1, <1>2, <1>3, <1>4 DEF ControlStateCoherent
<1>6. RefreshesSound'
  BY <1>2, <1>3, <1>4 DEF RefreshesSound, TypeOK, RefreshRow
<1> QED
  BY <1>5, <1>6

LEMMA CoherentRelease ==
  ASSUME Base, ControlStateCoherent, RefreshesSound, NEW l \in Leases, Release(l)
  PROVE  ControlStateCoherent' /\ RefreshesSound'
<1> USE ConstantsAssumption DEF Base
<1> DEFINE s == lease[l].slot
<1>1. s \in Slots /\ holder[s] = l
  BY DEF Release, TypeOK, LeaseSlotAgreement
<1>2. holder'[s] = Nil /\ control'[s] = "unleased"
  BY <1>1 DEF Release, TypeOK
<1>3. \A x \in Slots \ {s} :
        holder'[x] = holder[x] /\ control'[x] = control[x] /\ (Owned(x)' => Owned(x))
  BY <1>1 DEF Release, TypeOK, Owned
<1>4. UNCHANGED <<route, generation, ready, activeTask, swept, refresh>>
  BY DEF Release, reconcileVars
<1> HIDE DEF s
<1>5. ControlStateCoherent'
  BY <1>1, <1>2, <1>3, <1>4 DEF ControlStateCoherent, Owned
<1>6. RefreshesSound'
  BY <1>1, <1>2, <1>3, <1>4 DEF RefreshesSound, TypeOK, RefreshRow
<1> QED
  BY <1>5, <1>6

LEMMA CoherentCleanup ==
  ASSUME Base, ControlStateCoherent, RefreshesSound, EndLapsedLeases, swept' => refresh = {}
  PROVE  ControlStateCoherent' /\ RefreshesSound'
<1> USE ConstantsAssumption DEF Base
<1>1. /\ activeTask' = [s \in Slots |-> IF s \in Lapsed THEN Nil ELSE activeTask[s]]
      /\ holder' = [s \in Slots |-> IF s \in Lapsed THEN Nil ELSE holder[s]]
  BY CleanupEffect
<1>2. UNCHANGED <<route, generation, ready, term, refresh>>
  BY DEF EndLapsedLeases
<1>3. \A s \in Slots : control'[s] = IF s \in Lapsed THEN "unleased" ELSE control[s]
  <2>1. \A s \in Slots : Owned(s) => ~Detached(s)
    BY LiveSlotsAreSound
  <2> QED
    BY <2>1 DEF EndLapsedLeases
<1>4. \A s \in Slots : Owned(s)' => Owned(s) /\ s \notin Lapsed
  BY <1>1, <1>2 DEF Owned
<1>5. ControlStateCoherent'
  BY <1>1, <1>2, <1>3, <1>4 DEF ControlStateCoherent
<1>6. RefreshesSound'
  BY <1>2, <1>3, <1>4 DEF RefreshesSound, TypeOK, RefreshRow
<1> QED
  BY <1>5, <1>6

LEMMA CoherentBegin ==
  ASSUME Base, ControlStateCoherent, RefreshesSound,
         NEW t \in Tasks, NEW s \in Slots, NEW r \in Runs, NEW e \in Executions,
         BeginTask(t, s, r, e)
  PROVE  ControlStateCoherent' /\ RefreshesSound'
<1> USE ConstantsAssumption DEF Base
<1>1. /\ Owned(s) /\ activeTask[s] = Nil
      /\ activeTask' = [activeTask EXCEPT ![s] = t]
      /\ UNCHANGED <<holder, term, route, generation>>
  BY BeginEffect
<1>2. control[s] = "leased_idle"
  BY <1>1, LiveSlotsAreSound DEF BeginTask, MayBegin
<1>3. control' = [control EXCEPT ![s] = "active_task"] /\ UNCHANGED <<ready, swept, refresh>>
  BY DEF BeginTask, reconcileVars
<1>4. \A x \in Slots : Owned(x)' <=> Owned(x)
  BY <1>1 DEF Owned
<1>5. ControlStateCoherent'
  BY <1>1, <1>2, <1>3, <1>4 DEF ControlStateCoherent, TypeOK, Owned
<1>6. RefreshesSound'
  BY <1>1, <1>3, <1>4 DEF RefreshesSound, TypeOK, RefreshRow
<1> QED
  BY <1>5, <1>6

(* A completion: the slot turns idle, or pending or paused in the next      *)
(* generation.                                                              *)
LEMMA CompletionEffect ==
  ASSUME Base, ControlStateCoherent, NEW t \in Tasks, MayComplete(t)
  PROVE  LET s == task[t].slot IN
         /\ s \in Slots /\ Executing(s) /\ activeTask[s] = t
         /\ route[s] # Nil /\ ready[s] /\ control[s] = "active_task"
<1> USE ConstantsAssumption DEF Base
<1>1. task[t].slot \in Slots
  BY DEF MayComplete, InLiveFence, TaskInv, ActiveRows
<1>2. Executing(task[t].slot) /\ activeTask[task[t].slot] = t
  BY DEF MayComplete, InLiveFence, Executing
<1> QED
  BY <1>1, <1>2 DEF ControlStateCoherent, Executing

LEMMA CoherentKeep ==
  ASSUME Base, ControlStateCoherent, RefreshesSound, NEW t \in Tasks, CompleteKeepingRoute(t)
  PROVE  ControlStateCoherent' /\ RefreshesSound'
<1> USE ConstantsAssumption DEF Base
<1> DEFINE s == task[t].slot
<1>1. s \in Slots /\ Executing(s) /\ route[s] # Nil /\ ready[s]
  BY CompletionEffect DEF CompleteKeepingRoute
<1>2. activeTask' = [activeTask EXCEPT ![s] = Nil] /\ control' = [control EXCEPT ![s] = "leased_idle"]
  BY DEF CompleteKeepingRoute
<1>3. UNCHANGED <<holder, term, route, generation, ready, swept, refresh>>
  BY DEF CompleteKeepingRoute, leaseVars, reconcileVars
<1>4. \A x \in Slots : Owned(x)' <=> Owned(x)
  BY <1>3 DEF Owned
<1> HIDE DEF s
<1>5. ControlStateCoherent'
  BY <1>1, <1>2, <1>3, <1>4 DEF ControlStateCoherent, TypeOK, Owned, Executing
<1>6. RefreshesSound'
  BY <1>1, <1>2, <1>3, <1>4 DEF RefreshesSound, TypeOK, RefreshRow
<1> QED
  BY <1>5, <1>6

LEMMA CoherentLeave ==
  ASSUME Base, ControlStateCoherent, RefreshesSound,
         NEW t \in Tasks, NEW p \in Proxies \cup {Nil}, LeaveRoute(t, p)
  PROVE  ControlStateCoherent' /\ RefreshesSound'
<1> USE ConstantsAssumption DEF Base
<1> DEFINE s == task[t].slot
<1>1. s \in Slots /\ Executing(s)
  BY CompletionEffect DEF LeaveRoute
<1>2. /\ activeTask' = [activeTask EXCEPT ![s] = Nil]
      /\ route' = [route EXCEPT ![s] = p]
      /\ ready' = [ready EXCEPT ![s] = FALSE]
      /\ control' = [control EXCEPT ![s] = IF p = Nil THEN "paused_no_reserve"
                                           ELSE "pending_new_route"]
      /\ generation' = [x \in Slots |-> IF x = s THEN generation[x] + 1 ELSE generation[x]]
  BY DEF LeaveRoute, NextGeneration
<1>3. UNCHANGED <<holder, term, swept, refresh>>
  BY DEF LeaveRoute, leaseVars, reconcileVars
<1>4. \A x \in Slots : Owned(x)' <=> Owned(x)
  BY <1>3 DEF Owned
<1> HIDE DEF s
<1>5. ControlStateCoherent'
  BY <1>1, <1>2, <1>3, <1>4 DEF ControlStateCoherent, TypeOK, Owned, Executing
<1>6. RefreshesSound'
  BY <1>1, <1>2, <1>3, <1>4 DEF RefreshesSound, TypeOK, RefreshRow
<1> QED
  BY <1>5, <1>6

LEMMA CoherentReconcile ==
  ASSUME Base, ControlStateCoherent, RefreshesSound, Reconcile
  PROVE  ControlStateCoherent' /\ RefreshesSound'
<1> USE ConstantsAssumption DEF Base
<1>1. PICK plan \in Plans :
        /\ route' = [s \in Slots |-> IF s \in Changed(plan) THEN plan[s] ELSE route[s]]
        /\ generation' = NextGeneration(Changed(plan))
        /\ ready' = [s \in Slots |-> s \notin Changed(plan) /\ ready[s]]
        /\ control' = [s \in Slots |->
                         IF s \notin {x \in Changed(plan) : Owned(x)} THEN control[s]
                         ELSE IF plan[s] = Nil THEN "paused_no_reserve"
                         ELSE "pending_new_route"]
        /\ refresh' = Refreshes(plan)
  BY DEF Reconcile
<1>2. UNCHANGED <<holder, term, activeTask>> /\ swept' = FALSE
  BY DEF Reconcile, leaseVars
<1>3. \A s \in Slots : Owned(s)' <=> Owned(s)
  BY <1>2 DEF Owned
<1>4. \A s \in Slots : Owned(s) /\ s \in Changed(plan) => activeTask[s] = Nil
  BY DEF Changed, Executing
<1>5. \A s \in Slots : control[s] = "unleased" => ~Owned(s)
  BY DEF ControlStateCoherent, Owned
<1>6. ControlStateCoherent'
  <2>1. ASSUME NEW s \in Slots, Owned(s), s \in Changed(plan)
        PROVE  /\ activeTask'[s] = Nil /\ holder'[s] # Nil /\ ~ready'[s] /\ route'[s] = plan[s]
               /\ control'[s] = IF plan[s] = Nil THEN "paused_no_reserve" ELSE "pending_new_route"
    BY <1>1, <1>2, <1>4, <2>1 DEF Owned
  <2>2. ASSUME NEW s \in Slots, ~(Owned(s) /\ s \in Changed(plan))
        PROVE  control'[s] = control[s]
    BY <1>1, <2>2
  <2>3. ASSUME NEW s \in Slots, s \notin Changed(plan)
        PROVE  ready'[s] = ready[s] /\ route'[s] = route[s]
    BY <1>1, <2>3 DEF TypeOK
  <2> QED
    BY <1>2, <1>3, <2>1, <2>2, <2>3 DEF ControlStateCoherent
<1>7. ASSUME NEW f \in refresh'
      PROVE  /\ f.generation <= generation'[f.slot]
             /\ Owned(f.slot) => control'[f.slot] \notin {"pending_new_route", "paused_no_reserve"}
  <2>1. PICK s \in Slots : /\ plan[s] # Nil /\ control'[s] # "pending_new_route"
                           /\ f.slot = s /\ f.generation = generation'[s]
    BY <1>1 DEF Refreshes
  <2>2. generation'[s] \in Nat
    BY <1>1 DEF TypeOK, NextGeneration
  <2>3. ASSUME Owned(s), control'[s] = "paused_no_reserve" PROVE FALSE
    <3>1. s \notin Changed(plan) /\ control[s] = "paused_no_reserve"
      BY <1>1, <2>1, <2>3
    <3>2. activeTask[s] = Nil /\ route[s] = Nil
      BY <2>3, <3>1 DEF ControlStateCoherent
    <3> QED
      BY <2>1, <3>1, <3>2 DEF Changed, Executing
  <2> QED
    BY <2>1, <2>2, <2>3
<1>8. \A f \in refresh' : f.slot \in Slots
  BY <1>1 DEF Refreshes
<1>9. RefreshesSound'
  BY <1>2, <1>3, <1>7, <1>8 DEF RefreshesSound
<1> QED
  BY <1>6, <1>9

LEMMA CoherentRefresh ==
  ASSUME Base, ControlStateCoherent, RefreshesSound, NEW f \in refresh, FinishRefresh(f)
  PROVE  ControlStateCoherent' /\ RefreshesSound'
<1> USE DEF Base
<1>1. f.slot \in Slots
  BY DEF TypeOK, RefreshRow
<1>2. UNCHANGED <<holder, term, route, generation, control, activeTask, swept>>
      /\ refresh' \subseteq refresh
  BY DEF FinishRefresh, leaseVars
<1>3. \A s \in Slots : Owned(s)' <=> Owned(s)
  BY <1>2 DEF Owned
<1>4. \A s \in Slots :
        Owned(s) /\ control[s] \in {"pending_new_route", "paused_no_reserve"} => ready'[s] = ready[s]
  BY <1>1 DEF FinishRefresh, RefreshesSound, TypeOK
<1>5. \A s \in Slots : ready[s] => ready'[s]
  BY <1>1 DEF FinishRefresh, TypeOK
<1>6. ControlStateCoherent'
  BY <1>2, <1>3, <1>4, <1>5 DEF ControlStateCoherent
<1>7. RefreshesSound'
  BY <1>2, <1>3 DEF RefreshesSound, TypeOK, RefreshRow
<1> QED
  BY <1>6, <1>7

LEMMA CoherentFinalize ==
  ASSUME Base, ControlStateCoherent, RefreshesSound, NEW s \in Slots, FinalizeRoute(s)
  PROVE  ControlStateCoherent' /\ RefreshesSound'
<1> USE DEF Base
<1>1. /\ ready' = [ready EXCEPT ![s] = TRUE]
      /\ control' = [control EXCEPT ![s] = "leased_idle"]
      /\ UNCHANGED <<holder, term, route, generation, activeTask, swept, refresh>>
      /\ Owned(s) /\ route[s] # Nil /\ activeTask[s] = Nil
  BY DEF FinalizeRoute, leaseVars, reconcileVars
<1>2. \A x \in Slots : Owned(x)' <=> Owned(x)
  BY <1>1 DEF Owned
<1>3. ControlStateCoherent'
  BY <1>1, <1>2 DEF ControlStateCoherent, TypeOK, Owned
<1>4. RefreshesSound'
  BY <1>1, <1>2 DEF RefreshesSound, TypeOK, RefreshRow
<1> QED
  BY <1>3, <1>4

LEMMA CoherentNext ==
  Base /\ ControlStateCoherent /\ RefreshesSound /\ [Next]_vars
    => ControlStateCoherent' /\ RefreshesSound'
<1> SUFFICES ASSUME Base, ControlStateCoherent, RefreshesSound, [Next]_vars
             PROVE  ControlStateCoherent' /\ RefreshesSound'
  OBVIOUS
<1>1. refresh \subseteq RefreshRow
  BY DEF Base, TypeOK
<1>2. ASSUME UNCHANGED <<holder, term, route, generation, ready, control, activeTask>>,
             refresh' \subseteq refresh, swept' => swept \/ refresh = {}
      PROVE  ControlStateCoherent' /\ RefreshesSound'
  <2>1. swept' => refresh' = {}
    BY <1>2 DEF RefreshesSound
  <2> QED
    BY <1>1, <1>2, <2>1, CoherentKept DEF Owned
<1>3. ASSUME NEW l \in Leases, Renew(l) \/ LeaseAges(l)
      PROVE  ControlStateCoherent' /\ RefreshesSound'
  <2>1. \A s \in Slots : Owned(s)' => Owned(s)
    BY <1>3 DEF Renew, LeaseAges, Owned, Base, TypeOK, slotVars
  <2>2. swept' => refresh' = {}
    BY <1>3 DEF Renew, LeaseAges, RefreshesSound, reconcileVars
  <2> QED
    BY <1>1, <1>3, <2>1, <2>2, CoherentKept DEF Renew, LeaseAges, slotVars, reconcileVars
<1>4. CASE LeaseStep
  <2>1. ASSUME ExpireLeases PROVE ControlStateCoherent' /\ RefreshesSound'
    BY <2>1, CoherentCleanup DEF ExpireLeases, RefreshesSound
  <2> QED
    BY <1>3, <1>4, <2>1, CoherentClaim, CoherentRelease DEF LeaseStep
<1>5. ASSUME NEW t \in Tasks, NEW s \in Slots, NEW r \in Runs, ExhaustRun(t, s, r)
      PROVE  ControlStateCoherent' /\ RefreshesSound'
  <2>1. Owned(s) /\ activeTask[s] = Nil /\ control[s] = "leased_idle"
    BY <1>5, LiveSlotsAreSound DEF Base, ExhaustRun, MayBegin
  <2>2. activeTask' = activeTask /\ control' = control
    BY <1>5, <2>1 DEF ExhaustRun, Base, TypeOK
  <2> QED
    BY <1>2, <1>5, <2>2 DEF ExhaustRun, leaseVars, reconcileVars
<1>6. ASSUME NEW t \in Tasks, NEW action, Observe(t, action)
      PROVE  ControlStateCoherent' /\ RefreshesSound'
  BY <1>2, <1>6 DEF Observe, leaseVars, reconcileVars
<1>7. CASE TaskStep
  <2>1. \A p \in WarmStandby : p \in Proxies
    BY DEF WarmStandby, Eligible, Base, TypeOK
  <2> QED
    BY <1>5, <1>6, <1>7, <2>1, CoherentBegin, CoherentKeep, CoherentLeave
    DEF TaskStep, CompleteReplacingRoute, CompletePausing
<1>8. CASE RouteStep
  <2>1. ASSUME BeginReconcile PROVE ControlStateCoherent' /\ RefreshesSound'
    BY <2>1, CoherentCleanup DEF BeginReconcile
  <2>2. ASSUME AbortReconcile PROVE ControlStateCoherent' /\ RefreshesSound'
    BY <1>2, <2>2 DEF AbortReconcile, slotVars, leaseVars
  <2>3. ASSUME NEW f \in refresh, LoseRefresh(f) PROVE ControlStateCoherent' /\ RefreshesSound'
    BY <1>2, <2>3 DEF LoseRefresh, slotVars, leaseVars
  <2> QED
    BY <1>8, <2>1, <2>2, <2>3, CoherentReconcile, CoherentRefresh, CoherentFinalize DEF RouteStep
<1>9. CASE HealthStep
  BY <1>2, <1>9 DEF HealthStep, HealthPasses, HealthFails, GrantLapses, ReportFailure,
     slotVars, leaseVars, reconcileVars
<1>10. CASE UNCHANGED vars
  BY <1>2, <1>10 DEF vars, slotVars, leaseVars, reconcileVars
<1> QED
  BY <1>4, <1>7, <1>8, <1>9, <1>10 DEF Next

LEMMA CoherentInit == Init => ControlStateCoherent /\ RefreshesSound
  BY DEF Init, ControlStateCoherent, RefreshesSound, Owned

(* The slot row of a live lease tells the worker the truth in every fleet:  *)
(* no claim, completion, cleanup, reconciliation or late refresh leaves it  *)
(* ready without a route, or pending with one already admitted.             *)
THEOREM ControlCoherent == Spec => []ControlStateCoherent
<1> DEFINE IInv == Base /\ ControlStateCoherent /\ RefreshesSound
<1>1. Init => IInv
  BY BaseInit, CoherentInit
<1>2. IInv /\ [Next]_vars => IInv'
  BY BaseNext, CoherentNext
<1> QED
  BY <1>1, <1>2, PTL DEF Spec

-----------------------------------------------------------------------------
(* Route generations. *)

GenerationStep ==
  \A s \in Slots :
    /\ generation'[s] \in {generation[s], generation[s] + 1}
    /\ generation'[s] # generation[s] <=> route'[s] # route[s]
    /\ generation'[s] # generation[s] => ~ready'[s]

(* Only a completion that leaves its route and a reconciliation change a    *)
(* slot's route.                                                            *)
LEMMA OtherStepsKeepRoutes ==
  ASSUME [Next]_vars
  PROVE  \/ UNCHANGED <<route, generation>>
         \/ \E t \in Tasks, p \in WarmStandby \cup {Nil} : LeaveRoute(t, p)
         \/ Reconcile
<1>1. CASE LeaseStep
  BY <1>1 DEF LeaseStep, Claim, Renew, Release, LeaseAges, ExpireLeases, EndLapsedLeases, slotVars
<1>2. CASE TaskStep
  <2>1. \A t, s, r : ExhaustRun(t, s, r) => UNCHANGED <<route, generation>>
    BY DEF ExhaustRun
  <2>2. \A t, s, r, e : BeginTask(t, s, r, e) => UNCHANGED <<route, generation>>
    BY DEF BeginTask
  <2>3. \A t, action : Observe(t, action) => UNCHANGED <<route, generation>>
    BY DEF Observe
  <2>4. \A t : CompleteKeepingRoute(t) => UNCHANGED <<route, generation>>
    BY DEF CompleteKeepingRoute
  <2> QED
    BY <1>2, <2>1, <2>2, <2>3, <2>4, Zenon DEF TaskStep, CompleteReplacingRoute, CompletePausing
<1>3. CASE RouteStep
  BY <1>3 DEF RouteStep, BeginReconcile, EndLapsedLeases, AbortReconcile, FinishRefresh,
     LoseRefresh, FinalizeRoute, slotVars
<1>4. CASE HealthStep
  BY <1>4 DEF HealthStep, HealthPasses, HealthFails, GrantLapses, ReportFailure, slotVars
<1>5. CASE UNCHANGED vars
  BY <1>5 DEF vars, slotVars
<1> QED
  BY <1>1, <1>2, <1>3, <1>4, <1>5 DEF Next

LEMMA GenerationMoves ==
  ASSUME Base, ControlStateCoherent, [Next]_vars PROVE GenerationStep
<1> USE DEF Base
<1>1. CASE UNCHANGED <<route, generation>>
  BY <1>1 DEF GenerationStep
<1>2. ASSUME NEW t \in Tasks, NEW p \in WarmStandby \cup {Nil}, LeaveRoute(t, p)
      PROVE  GenerationStep
  <2> DEFINE s == task[t].slot
  <2>1. s \in Slots /\ route[s] # Nil
    BY <1>2, CompletionEffect DEF LeaveRoute
  <2>2. p # route[s]
    BY <2>1 DEF WarmStandby, Assigned
  <2>3. \A x \in Slots \ {s} : route'[x] = route[x] /\ generation'[x] = generation[x]
    BY <1>2 DEF LeaveRoute, NextGeneration, TypeOK
  <2>4. route'[s] = p /\ generation'[s] = generation[s] + 1 /\ ~ready'[s] /\ generation[s] \in Nat
    BY <1>2, <2>1 DEF LeaveRoute, NextGeneration, TypeOK
  <2> HIDE DEF s
  <2> QED
    BY <2>2, <2>3, <2>4 DEF GenerationStep
<1>3. CASE Reconcile
  <2>1. PICK plan \in Plans :
          /\ route' = [s \in Slots |-> IF s \in Changed(plan) THEN plan[s] ELSE route[s]]
          /\ generation' = NextGeneration(Changed(plan))
          /\ ready' = [s \in Slots |-> s \notin Changed(plan) /\ ready[s]]
    BY <1>3 DEF Reconcile
  <2>2. \A s \in Slots : generation[s] \in Nat
    BY DEF TypeOK
  <2> QED
    <3>1. ASSUME NEW s \in Slots, s \in Changed(plan)
          PROVE  generation'[s] = generation[s] + 1 /\ route'[s] # route[s] /\ ~ready'[s]
      BY <2>1, <3>1 DEF NextGeneration, Changed
    <3>2. ASSUME NEW s \in Slots, s \notin Changed(plan)
          PROVE  generation'[s] = generation[s] /\ route'[s] = route[s]
      BY <2>1, <3>2 DEF NextGeneration
    <3> QED
      BY <2>2, <3>1, <3>2 DEF GenerationStep
<1> QED
  BY <1>1, <1>2, <1>3, OtherStepsKeepRoutes

(* A route generation advances exactly with the proxy, by one, and never    *)
(* with a ready route, in every fleet: what BeginTask and the completions   *)
(* compare it with stays meaningful however the handlers interleave.        *)
THEOREM GenerationsFence == Spec => GenerationFence
<1> DEFINE IInv == Base /\ ControlStateCoherent /\ RefreshesSound
<1>1. Init => IInv
  BY BaseInit, CoherentInit
<1>2. IInv /\ [Next]_vars => IInv'
  BY BaseNext, CoherentNext
<1>3. IInv /\ [Next]_vars => GenerationStep
  BY GenerationMoves
<1>4. GenerationFence <=> [][GenerationStep]_vars
  BY DEF GenerationFence, GenerationStep
<1> QED
  BY <1>1, <1>2, <1>3, <1>4, PTL DEF Spec

(* What a step may do to the row of an attempt: end it, or leave it alone. *)
Ends(t) ==
  /\ task[t].status = "active"
  /\ \E status \in {"completed", "abandoned"} : task'[t] = [task[t] EXCEPT !.status = status]

NoneBegins == \A t \in Tasks : task'[t] = task[t] \/ Ends(t)

(* Every step begins one attempt and leaves the other rows alone, or begins *)
(* none.                                                                    *)
LEMMA TaskRowSteps ==
  ASSUME Base, [Next]_vars
  PROVE  \/ NoneBegins
         \/ \E t \in Tasks, s \in Slots, r \in Runs, e \in Executions : BeginTask(t, s, r, e)
<1> USE DEF Base
<1>1. ASSUME NEW S, task' = AbandonIn(S) PROVE NoneBegins
  BY <1>1 DEF AbandonIn, Invalid, Ends, NoneBegins
<1>2. ASSUME NEW t \in Tasks, MayComplete(t), Completed(t) PROVE NoneBegins
  BY <1>2 DEF MayComplete, InLiveFence, Completed, Ends, NoneBegins, TypeOK
<1>3. ASSUME UNCHANGED task PROVE NoneBegins
  BY <1>3 DEF NoneBegins
<1>4. CASE LeaseStep
  BY <1>1, <1>3, <1>4 DEF LeaseStep, Claim, Renew, Release, LeaseAges, ExpireLeases, EndLapsedLeases, taskVars
<1>5. ASSUME TaskStep, ~ \E t \in Tasks, s \in Slots, r \in Runs, e \in Executions : BeginTask(t, s, r, e)
      PROVE  NoneBegins
  <2>1. \A t, s, r : ExhaustRun(t, s, r) => NoneBegins
    BY <1>1 DEF ExhaustRun
  <2>2. \A t, action : Observe(t, action) => NoneBegins
    BY <1>3 DEF Observe
  <2>3. \A t \in Tasks : CompleteKeepingRoute(t) => NoneBegins
    BY <1>2 DEF CompleteKeepingRoute
  <2>4. \A t \in Tasks : \A p : LeaveRoute(t, p) => NoneBegins
    BY <1>2 DEF LeaveRoute
  <2> QED
    BY <1>5, <2>1, <2>2, <2>3, <2>4, Zenon DEF TaskStep, CompleteReplacingRoute, CompletePausing
<1>6. CASE RouteStep
  BY <1>1, <1>3, <1>6 DEF RouteStep, BeginReconcile, EndLapsedLeases, Reconcile, AbortReconcile,
     FinishRefresh, LoseRefresh, FinalizeRoute, taskVars
<1>7. CASE HealthStep
  BY <1>3, <1>7 DEF HealthStep, HealthPasses, HealthFails, GrantLapses, ReportFailure, taskVars
<1>8. CASE UNCHANGED vars
  BY <1>3, <1>8 DEF vars, taskVars
<1> QED
  BY <1>4, <1>5, <1>6, <1>7, <1>8 DEF Next

(* An attempt went over the present route of its slot if it belongs to the  *)
(* present generation, and to an earlier one otherwise.                     *)
RowsBehindSlots ==
  \A t \in Tasks : task[t].status # "none" =>
    LET s == task[t].slot IN
    /\ s \in Slots
    /\ task[t].generation <= generation[s]
    /\ task[t].generation = generation[s] => task[t].route = route[s]

LEMMA GenerationNext ==
  Base /\ ControlStateCoherent /\ RowsBehindSlots /\ GenerationNamesRoute /\ [Next]_vars
    => RowsBehindSlots' /\ GenerationNamesRoute'
<1> SUFFICES ASSUME Base, ControlStateCoherent, RowsBehindSlots, GenerationNamesRoute, [Next]_vars
             PROVE  RowsBehindSlots' /\ GenerationNamesRoute'
  OBVIOUS
<1> USE DEF Base
<1>1. GenerationStep /\ \A s \in Slots : generation[s] \in Nat
  BY GenerationMoves DEF TypeOK
<1>2. \A t \in Tasks : task[t] \in TaskRow /\ task[t].generation \in Nat
  BY DEF TypeOK, TaskRow
<1>3. CASE NoneBegins
  <2>1. ASSUME NEW t \in Tasks
        PROVE  /\ task'[t].slot = task[t].slot /\ task'[t].generation = task[t].generation
               /\ task'[t].route = task[t].route
               /\ task'[t].status = "none" <=> task[t].status = "none"
    BY <1>2, <1>3 DEF NoneBegins, Ends, TaskRow
  <2>2. RowsBehindSlots'
    BY <1>1, <1>2, <2>1 DEF RowsBehindSlots, GenerationStep
  <2> QED
    BY <2>1, <2>2 DEF GenerationNamesRoute
<1>4. ASSUME NEW t \in Tasks, NEW s \in Slots, NEW r \in Runs, NEW e \in Executions,
             BeginTask(t, s, r, e)
      PROVE  RowsBehindSlots' /\ GenerationNamesRoute'
  <2>1. /\ task' = [task EXCEPT ![t] = [status |-> "active", slot |-> s, lease |-> holder[s],
                      generation |-> generation[s], run |-> r, execution |-> e,
                      attempt |-> run[r].next, route |-> route[s]]]
        /\ UNCHANGED <<route, generation>>
    BY <1>4, BeginEffect
  <2>2. /\ task'[t].slot = s /\ task'[t].generation = generation[s] /\ task'[t].route = route[s]
        /\ \A u \in Tasks \ {t} : task'[u] = task[u]
    BY <2>1 DEF TypeOK
  <2>3. RowsBehindSlots'
    BY <1>1, <1>2, <2>1, <2>2 DEF RowsBehindSlots
  <2>4. ASSUME NEW u \in Tasks \ {t}, task[u].status # "none", task[u].slot = s,
               task[u].generation = generation[s]
        PROVE  task[u].route = route[s]
    BY <2>4 DEF RowsBehindSlots
  <2>5. ASSUME NEW u \in Tasks, NEW v \in Tasks,
               task'[u].status # "none", task'[v].status # "none",
               task'[u].slot = task'[v].slot, task'[u].generation = task'[v].generation
        PROVE  task'[u].route = task'[v].route
    <3>1. CASE u # t /\ v # t
      BY <2>2, <2>5, <3>1 DEF GenerationNamesRoute
    <3>2. CASE u = t /\ v # t
      BY <2>2, <2>4, <2>5, <3>2
    <3>3. CASE u # t /\ v = t
      BY <2>2, <2>4, <2>5, <3>3
    <3> QED
      BY <3>1, <3>2, <3>3
  <2>6. GenerationNamesRoute'
    BY <2>5 DEF GenerationNamesRoute
  <2> QED
    BY <2>3, <2>6
<1> QED
  BY <1>3, <1>4, TaskRowSteps

(* One generation of a slot is one proxy for all attempts that ever quoted  *)
(* it, across leases, cleanups, completions and reconciliations.            *)
THEOREM GenerationsName == Spec => []GenerationNamesRoute
<1> DEFINE IInv == Base /\ ControlStateCoherent /\ RefreshesSound /\ RowsBehindSlots /\ GenerationNamesRoute
<1>1. Init => IInv
  BY BaseInit, CoherentInit DEF Init, RowsBehindSlots, GenerationNamesRoute, NoTask
<1>2. IInv /\ [Next]_vars => IInv'
  BY BaseNext, CoherentNext, GenerationNext
<1> QED
  BY <1>1, <1>2, PTL DEF Spec

(* Only a completion ends an attempt whose lease is live. *)
LEMMA LiveEnds ==
  ASSUME Base, [Next]_vars, NEW t \in Tasks, InLiveFence(t), task'[t].status # "active"
  PROVE  task'[t].status = "completed"
<1> USE DEF Base
<1>1. ~Invalid(t) /\ task[t].status = "active"
  BY DEF InLiveFence, Invalid
<1>2. ASSUME NEW S, task' = AbandonIn(S) PROVE FALSE
  BY <1>1, <1>2 DEF AbandonIn
<1>3. ASSUME NEW u \in Tasks, Completed(u) PROVE task'[t].status = "completed"
  BY <1>1, <1>3 DEF Completed, TypeOK, TaskRow
<1>4. ASSUME UNCHANGED task PROVE FALSE
  BY <1>1, <1>4
<1>5. ~LeaseStep
  BY <1>2, <1>4 DEF LeaseStep, Claim, Renew, Release, LeaseAges, ExpireLeases, EndLapsedLeases, taskVars
<1>6. CASE TaskStep
  <2>1. ASSUME NEW u \in Tasks, NEW s \in Slots, NEW r \in Runs, NEW e \in Executions, BeginTask(u, s, r, e)
        PROVE  FALSE
    <3>1. u # t /\ task' = [task EXCEPT ![u] = [status |-> "active", slot |-> s, lease |-> holder[s],
                    generation |-> generation[s], run |-> r, execution |-> e,
                    attempt |-> run[r].next, route |-> route[s]]]
      BY <1>1, <2>1, BeginEffect
    <3> QED
      BY <1>4, <1>1, <3>1 DEF TypeOK
  <2>2. \A u, s, r : ~ExhaustRun(u, s, r)
    BY <1>2 DEF ExhaustRun
  <2>3. \A u, action : ~Observe(u, action)
    BY <1>4 DEF Observe
  <2>4. \A u \in Tasks : CompleteKeepingRoute(u) => task'[t].status = "completed"
    BY <1>3 DEF CompleteKeepingRoute
  <2>5. \A u \in Tasks : \A p : LeaveRoute(u, p) => task'[t].status = "completed"
    BY <1>3 DEF LeaveRoute
  <2> QED
    BY <1>6, <2>1, <2>2, <2>3, <2>4, <2>5, Zenon DEF TaskStep, CompleteReplacingRoute, CompletePausing
<1>7. ~RouteStep
  BY <1>2, <1>4 DEF RouteStep, BeginReconcile, EndLapsedLeases, Reconcile, AbortReconcile,
     FinishRefresh, LoseRefresh, FinalizeRoute, taskVars
<1>8. ~HealthStep /\ ~UNCHANGED vars
  BY <1>4 DEF HealthStep, HealthPasses, HealthFails, GrantLapses, ReportFailure, taskVars, vars
<1> QED
  BY <1>5, <1>6, <1>7, <1>8 DEF Next

(* No cleanup, reconciliation or other attempt's start ends an attempt      *)
(* under a live lease, in every fleet.                                      *)
THEOREM LiveAttemptsComplete == Spec => LiveAttemptEndsByCompletion
<1>1. Base /\ [Next]_vars =>
        \A t \in Tasks : InLiveFence(t) /\ task'[t].status # "active" => task'[t].status = "completed"
  BY LiveEnds
<1> QED
  BY <1>1, BaseInit, BaseNext, PTL DEF Spec, LiveAttemptEndsByCompletion

-----------------------------------------------------------------------------
(* Evidence. *)

Worst(seen) ==
  IF "rotate_profile" \in seen THEN "rotate_profile"
  ELSE IF seen # {} THEN "rotate_route" ELSE "none"

Unobserved == \A t \in Tasks : task[t].status = "none" => observed[t] = {}

LEMMA MergeIsWorst ==
  ASSUME NEW seen \in SUBSET RouteAction, NEW action \in RouteAction
  PROVE  Merge(Worst(seen), action) = Worst(seen \cup {action})
<1>1. CASE action = "rotate_profile"
  BY <1>1 DEF Merge, Worst, Priority, RouteAction
<1>2. CASE action = "rotate_route"
  <2>1. CASE "rotate_profile" \in seen
    BY <1>2, <2>1 DEF Merge, Worst, Priority, RouteAction
  <2>2. CASE "rotate_profile" \notin seen
    BY <1>2, <2>2 DEF Merge, Worst, Priority, RouteAction
  <2> QED
    BY <2>1, <2>2
<1> QED
  BY <1>1, <1>2 DEF RouteAction

(* A step that leaves evidence and deferred actions alone where an attempt  *)
(* goes on.                                                                 *)
LEMMA EvidenceKept ==
  ASSUME Base, PendingIsWorstEvidence, Unobserved, [Next]_vars,
         UNCHANGED observed,
         ~ \E t \in Tasks, s \in Slots, r \in Runs, e \in Executions : BeginTask(t, s, r, e),
         \A s \in Slots : Executing(s)' =>
           Executing(s) /\ activeTask'[s] = activeTask[s] /\ pending'[s] = pending[s]
  PROVE  PendingIsWorstEvidence' /\ Unobserved'
<1>1. NoneBegins
  BY TaskRowSteps
<1>2. \A t \in Tasks : task'[t].status = "none" => task[t].status = "none"
  BY <1>1 DEF NoneBegins, Ends, Base, TypeOK, TaskRow
<1> QED
  BY <1>2 DEF PendingIsWorstEvidence, Unobserved

LEMMA EvidenceNext ==
  Base /\ PendingIsWorstEvidence /\ Unobserved /\ [Next]_vars
    => PendingIsWorstEvidence' /\ Unobserved'
<1> SUFFICES ASSUME Base, PendingIsWorstEvidence, Unobserved, [Next]_vars
             PROVE  PendingIsWorstEvidence' /\ Unobserved'
  OBVIOUS
<1> USE ConstantsAssumption DEF Base
<1> DEFINE Goal == PendingIsWorstEvidence' /\ Unobserved'
           Begins == \E t \in Tasks, s \in Slots, r \in Runs, e \in Executions : BeginTask(t, s, r, e)
<1>1. ASSUME NEW t \in Tasks, NEW s \in Slots, NEW r \in Runs, NEW e \in Executions,
             BeginTask(t, s, r, e)
      PROVE  Goal
  <2>1. /\ Owned(s) /\ task[t].status = "none" /\ activeTask[s] = Nil
        /\ task' = [task EXCEPT ![t] = [status |-> "active", slot |-> s, lease |-> holder[s],
                      generation |-> generation[s], run |-> r, execution |-> e,
                      attempt |-> run[r].next, route |-> route[s]]]
        /\ activeTask' = [activeTask EXCEPT ![s] = t]
        /\ UNCHANGED <<holder, term>>
    BY <1>1, BeginEffect
  <2>2. pending' = [pending EXCEPT ![s] = "none"] /\ observed' = observed
    BY <1>1 DEF BeginTask
  <2>3. observed[t] = {}
    BY <2>1 DEF Unobserved
  <2>4. task'[t].status = "active" /\ \A u \in Tasks \ {t} : task'[u] = task[u]
    BY <2>1 DEF TypeOK
  <2>5. Unobserved'
    BY <2>2, <2>4 DEF Unobserved
  <2>6. \A x \in Slots : Executing(x)' /\ x # s => Executing(x) /\ activeTask'[x] = activeTask[x]
    BY <2>1 DEF Executing, Owned, TypeOK
  <2>7. PendingIsWorstEvidence'
    BY <2>1, <2>2, <2>3, <2>6 DEF PendingIsWorstEvidence, TypeOK
  <2> QED
    BY <2>5, <2>7
<1>2. ASSUME NEW t \in Tasks, NEW action \in RouteAction, Observe(t, action) PROVE Goal
  <2> DEFINE s == task[t].slot
  <2>1. s \in Slots /\ Executing(s) /\ activeTask[s] = t /\ task[t].status = "active"
    BY <1>2 DEF Observe, InLiveFence, Executing, TaskInv, ActiveRows
  <2>2. /\ observed' = [observed EXCEPT ![t] = @ \cup {action}]
        /\ pending' = [pending EXCEPT ![s] = Merge(@, action)]
        /\ UNCHANGED <<holder, term, task, activeTask>>
    BY <1>2 DEF Observe, leaseVars
  <2>3. \A x \in Slots \ {s} : activeTask[x] # t
    BY <2>1 DEF TaskInv, TaskSlotAgreement
  <2> HIDE DEF s
  <2>4. pending[s] = Worst(observed[t]) /\ observed[t] \in SUBSET RouteAction
    BY <2>1 DEF PendingIsWorstEvidence, Worst, TypeOK
  <2>5. pending'[s] = Worst(observed'[t])
    BY <2>1, <2>2, <2>4, MergeIsWorst DEF TypeOK
  <2>6. \A x \in Slots : Executing(x)' <=> Executing(x)
    BY <2>2 DEF Executing, Owned
  <2>7. ASSUME NEW x \in Slots, x # s, Executing(x)
        PROVE  pending'[x] = pending[x] /\ observed'[activeTask[x]] = observed[activeTask[x]]
    BY <2>2, <2>3, <2>7 DEF Executing, TypeOK
  <2>8. PendingIsWorstEvidence'
    BY <2>1, <2>2, <2>5, <2>6, <2>7 DEF PendingIsWorstEvidence, Worst
  <2>9. Unobserved'
    BY <2>1, <2>2 DEF Unobserved, TypeOK
  <2> QED
    BY <2>8, <2>9
<1> HIDE DEF Goal
<1>3. ASSUME UNCHANGED <<holder, term, activeTask, pending, observed>>, ~Begins PROVE Goal
  BY <1>3, EvidenceKept DEF Executing, Owned, Goal
<1>4. ASSUME LeaseStep, ~Begins PROVE Goal
  <2>1. ASSUME NEW l \in Leases, NEW i \in Instances, NEW s \in Slots, Claim(l, i, s) PROVE Goal
    <3>1. activeTask[s] = Nil
      BY <2>1, IdleUnheld DEF Claim
    <3>2. UNCHANGED <<activeTask, pending, observed>>
      BY <2>1 DEF Claim, taskVars
    <3>3. ASSUME NEW x \in Slots \ {s}, Owned(x)' PROVE Owned(x)
      <4>1. holder'[x] = holder[x] /\ holder[x] # l
        BY <2>1, <3>3 DEF Claim, TypeOK, LeaseSlotAgreement
      <4>2. \A k \in Leases \ {l} : term'[k] = term[k]
        BY <2>1 DEF Claim, TypeOK
      <4> QED
        BY <3>3, <4>1, <4>2 DEF Owned, TypeOK
    <3> QED
      BY <1>4, <3>1, <3>2, <3>3, EvidenceKept DEF Executing, Goal
  <2>2. ASSUME NEW l \in Leases, Renew(l) \/ LeaseAges(l) PROVE Goal
    <3>1. \A x \in Slots : Owned(x)' => Owned(x)
      BY <2>2 DEF Renew, LeaseAges, Owned, TypeOK, slotVars
    <3>2. UNCHANGED <<activeTask, pending, observed>>
      BY <2>2 DEF Renew, LeaseAges, slotVars, taskVars
    <3> QED
      BY <1>4, <3>1, <3>2, EvidenceKept DEF Executing, Goal
  <2>3. ASSUME NEW l \in Leases, Release(l) PROVE Goal
    <3>1. \A x \in Slots : Owned(x)' => Owned(x)
      BY <2>3 DEF Release, Owned, TypeOK
    <3>2. UNCHANGED <<activeTask, observed>>
      BY <2>3 DEF Release, taskVars
    <3>3. \A x \in Slots : activeTask[x] # Nil => pending'[x] = pending[x]
      BY <2>3 DEF Release, TypeOK
    <3> QED
      BY <1>4, <3>1, <3>2, <3>3, EvidenceKept DEF Executing, Goal
  <2>4. ASSUME EndLapsedLeases PROVE Goal
    <3>1. /\ activeTask' = [s \in Slots |-> IF s \in Lapsed THEN Nil ELSE activeTask[s]]
          /\ holder' = [s \in Slots |-> IF s \in Lapsed THEN Nil ELSE holder[s]]
      BY <2>4, CleanupEffect
    <3>2. /\ pending' = [s \in Slots |-> IF s \in Lapsed THEN "none" ELSE pending[s]]
          /\ UNCHANGED <<observed, term>>
      BY <2>4 DEF EndLapsedLeases
    <3> QED
      BY <1>4, <3>1, <3>2, EvidenceKept DEF Executing, Owned, Goal
  <2> QED
    BY <1>4, <2>1, <2>2, <2>3, <2>4 DEF LeaseStep, ExpireLeases
<1>5. ASSUME TaskStep, ~Begins PROVE Goal
  <2>1. ASSUME NEW t \in Tasks, NEW s \in Slots, NEW r \in Runs, ExhaustRun(t, s, r) PROVE Goal
    <3>1. Owned(s) /\ activeTask[s] = Nil
      BY <2>1, LiveSlotsAreSound DEF ExhaustRun, MayBegin
    <3>2. activeTask' = activeTask /\ UNCHANGED <<holder, term, pending, observed>>
      BY <2>1, <3>1 DEF ExhaustRun, leaseVars, TypeOK
    <3> QED
      BY <1>3, <1>5, <3>2
  <2>2. ASSUME NEW t \in Tasks, MayComplete(t), UNCHANGED <<holder, term, pending, observed>>,
               activeTask' = [activeTask EXCEPT ![task[t].slot] = Nil]
        PROVE  Goal
    BY <1>5, <2>2, EvidenceKept DEF Executing, Owned, TypeOK, Goal
  <2>3. ASSUME NEW t \in Tasks, CompleteKeepingRoute(t) PROVE Goal
    BY <2>2, <2>3 DEF CompleteKeepingRoute, leaseVars
  <2>4. ASSUME NEW t \in Tasks, NEW p, LeaveRoute(t, p) PROVE Goal
    BY <2>2, <2>4 DEF LeaveRoute, leaseVars
  <2> QED
    BY <1>2, <1>5, <2>1, <2>3, <2>4, Zenon DEF TaskStep, CompleteReplacingRoute, CompletePausing, Begins
<1>6. ASSUME Reconcile, ~Begins PROVE Goal
  <2>1. PICK plan \in Plans :
          pending' = [s \in Slots |-> IF s \in {x \in Changed(plan) : Owned(x)} THEN "none" ELSE pending[s]]
    BY <1>6 DEF Reconcile
  <2>2. UNCHANGED <<holder, activeTask, term, observed>>
    BY <1>6 DEF Reconcile, leaseVars, taskVars
  <2>3. \A s \in Slots : Executing(s) => pending'[s] = pending[s]
    BY <2>1 DEF Changed
  <2> QED
    BY <1>6, <2>2, <2>3, EvidenceKept DEF Executing, Owned, Goal
<1>7. ASSUME RouteStep, ~Begins PROVE Goal
  <2>1. ASSUME BeginReconcile PROVE Goal
    <3>1. /\ activeTask' = [s \in Slots |-> IF s \in Lapsed THEN Nil ELSE activeTask[s]]
          /\ holder' = [s \in Slots |-> IF s \in Lapsed THEN Nil ELSE holder[s]]
      BY <2>1, CleanupEffect DEF BeginReconcile
    <3>2. /\ pending' = [s \in Slots |-> IF s \in Lapsed THEN "none" ELSE pending[s]]
          /\ UNCHANGED <<observed, term>>
      BY <2>1 DEF BeginReconcile, EndLapsedLeases
    <3> QED
      BY <1>7, <3>1, <3>2, EvidenceKept DEF Executing, Owned, Goal
  <2> QED
    BY <1>3, <1>6, <1>7, <2>1 DEF RouteStep, AbortReconcile, FinishRefresh, LoseRefresh,
       FinalizeRoute, slotVars, leaseVars, taskVars
<1>8. ASSUME HealthStep \/ UNCHANGED vars, ~Begins PROVE Goal
  BY <1>3, <1>8 DEF HealthStep, HealthPasses, HealthFails, GrantLapses, ReportFailure,
     slotVars, leaseVars, taskVars, vars
<1>9. Goal
  BY <1>1, <1>4, <1>5, <1>7, <1>8, Zenon DEF Next, Begins
<1> QED
  BY <1>9 DEF Goal

(* The deferred action is the strongest the running attempt gave evidence   *)
(* for, in every fleet and whatever the order of its observations.          *)
THEOREM PendingIsWorst == Spec => []PendingIsWorstEvidence
<1> DEFINE IInv == Base /\ PendingIsWorstEvidence /\ Unobserved
<1>1. Init => IInv
  BY BaseInit DEF Init, PendingIsWorstEvidence, Unobserved, Executing, Owned
<1>2. IInv /\ [Next]_vars => IInv'
  BY BaseNext, EvidenceNext
<1> QED
  BY <1>1, <1>2, PTL DEF Spec

(* What a completion does to the slot, in the words of EvidenceMovesSlot. *)
Moved(t) ==
  LET s == task[t].slot IN
  IF observed[t] # {}
  THEN /\ generation'[s] = task[t].generation + 1
       /\ route'[s] # task[t].route
       /\ task[t].route \notin routable'
       /\ ~ready'[s]
  ELSE route'[s] = task[t].route /\ ready'[s] /\ control'[s] = "leased_idle"

LEMMA OnlyCompletionsComplete ==
  ASSUME Base, [Next]_vars, NEW t \in Tasks, task[t].status = "active", task'[t].status = "completed"
  PROVE  CompleteKeepingRoute(t) \/ \E p \in WarmStandby \cup {Nil} : LeaveRoute(t, p)
<1> USE DEF Base
<1>1. ASSUME NEW S, task' = AbandonIn(S) PROVE FALSE
  BY <1>1 DEF AbandonIn, TypeOK, TaskRow
<1>2. ASSUME NEW u \in Tasks, Completed(u) PROVE u = t
  BY <1>2 DEF Completed, TypeOK
<1>3. ASSUME UNCHANGED task PROVE FALSE
  BY <1>3
<1>4. ~LeaseStep
  BY <1>1, <1>3 DEF LeaseStep, Claim, Renew, Release, LeaseAges, ExpireLeases, EndLapsedLeases, taskVars
<1>5. CASE TaskStep
  <2>1. ASSUME NEW u \in Tasks, NEW s \in Slots, NEW r \in Runs, NEW e \in Executions, BeginTask(u, s, r, e)
        PROVE  FALSE
    <3>1. u # t /\ task' = [task EXCEPT ![u] = [status |-> "active", slot |-> s, lease |-> holder[s],
                    generation |-> generation[s], run |-> r, execution |-> e,
                    attempt |-> run[r].next, route |-> route[s]]]
      BY <2>1, BeginEffect
    <3> QED
      BY <3>1 DEF TypeOK
  <2>2. \A u, s, r : ~ExhaustRun(u, s, r)
    BY <1>1 DEF ExhaustRun
  <2>3. \A u, action : ~Observe(u, action)
    BY <1>3 DEF Observe
  <2>4. \A u \in Tasks : CompleteKeepingRoute(u) => u = t
    BY <1>2 DEF CompleteKeepingRoute
  <2>5. \A u \in Tasks : \A p : LeaveRoute(u, p) => u = t
    BY <1>2 DEF LeaveRoute
  <2> QED
    BY <1>5, <2>1, <2>2, <2>3, <2>4, <2>5, Zenon DEF TaskStep, CompleteReplacingRoute, CompletePausing
<1>6. ~RouteStep
  BY <1>1, <1>3 DEF RouteStep, BeginReconcile, EndLapsedLeases, Reconcile, AbortReconcile,
     FinishRefresh, LoseRefresh, FinalizeRoute, taskVars
<1>7. ~HealthStep /\ ~UNCHANGED vars
  BY <1>3 DEF HealthStep, HealthPasses, HealthFails, GrantLapses, ReportFailure, taskVars, vars
<1> QED
  BY <1>4, <1>5, <1>6, <1>7 DEF Next

LEMMA CompletionMoves ==
  ASSUME Base, ControlStateCoherent, PendingIsWorstEvidence, RouteFencedWhileExecuting,
         [Next]_vars, NEW t \in Tasks, task[t].status = "active", task'[t].status = "completed"
  PROVE  Moved(t)
<1> USE DEF Base
<1> DEFINE s == task[t].slot
<1>1. MayComplete(t)
  BY OnlyCompletionsComplete DEF CompleteKeepingRoute, LeaveRoute
<1>2. /\ s \in Slots /\ Executing(s) /\ activeTask[s] = t
      /\ route[s] # Nil /\ ready[s]
  BY <1>1, CompletionEffect
<1>3. route[s] = task[t].route /\ generation[s] = task[t].generation /\ generation[s] \in Nat
  BY <1>2 DEF RouteFencedWhileExecuting, TypeOK
<1>4. pending[s] = "none" <=> observed[t] = {}
  BY <1>2 DEF PendingIsWorstEvidence
<1>5. CASE CompleteKeepingRoute(t)
  <2>1. observed[t] = {}
    BY <1>4, <1>5 DEF CompleteKeepingRoute
  <2>2. route'[s] = route[s] /\ ready'[s] /\ control'[s] = "leased_idle"
    BY <1>2, <1>5 DEF CompleteKeepingRoute, TypeOK
  <2> QED
    BY <1>3, <2>1, <2>2 DEF Moved
<1>6. ASSUME NEW p \in WarmStandby \cup {Nil}, LeaveRoute(t, p) PROVE Moved(t)
  <2>1. observed[t] # {}
    BY <1>4, <1>6 DEF LeaveRoute
  <2>2. route'[s] = p /\ generation'[s] = generation[s] + 1 /\ ~ready'[s]
    BY <1>2, <1>6 DEF LeaveRoute, NextGeneration, TypeOK
  <2>3. p # route[s]
    BY <1>2 DEF WarmStandby, Assigned
  <2>4. route[s] \notin routable'
    BY <1>6 DEF LeaveRoute, Quarantined
  <2> QED
    BY <1>3, <2>1, <2>2, <2>3, <2>4 DEF Moved
<1> QED
  BY <1>5, <1>6, OnlyCompletionsComplete

(* A completed attempt that gave evidence leaves its proxy for good, one    *)
(* without evidence leaves a ready slot behind, in every fleet.             *)
THEOREM EvidenceMoves == Spec => EvidenceMovesSlot
<1> DEFINE IInv == /\ Base /\ ControlStateCoherent /\ RefreshesSound
                   /\ PendingIsWorstEvidence /\ Unobserved /\ RouteFencedWhileExecuting
<1>1. Init => IInv
  BY BaseInit, CoherentInit
  DEF Init, PendingIsWorstEvidence, Unobserved, RouteFencedWhileExecuting, Executing, Owned
<1>2. IInv /\ [Next]_vars => IInv'
  BY BaseNext, CoherentNext, EvidenceNext, RouteFenceNext DEF Base
<1>3. IInv /\ [Next]_vars =>
        \A t \in Tasks : task[t].status = "active" /\ task'[t].status = "completed" => Moved(t)
  BY CompletionMoves
<1>4. EvidenceMovesSlot <=>
        [][\A t \in Tasks : task[t].status = "active" /\ task'[t].status = "completed" => Moved(t)]_vars
  BY DEF EvidenceMovesSlot, Moved
<1> QED
  BY <1>1, <1>2, <1>3, <1>4, PTL DEF Spec

-----------------------------------------------------------------------------
(* The route lock.                                                          *)

Exclusive == Base /\ ControlStateCoherent /\ NoSharedRoute

(* An attempt that runs occupies its slot's proxy, and nothing else.        *)
OccupantsRight ==
  \A p \in Proxies :
    /\ \A s \in Slots : Executing(s) /\ route[s] = p => Occupant(p) = activeTask[s]
    /\ (\A s \in Slots : ~(Executing(s) /\ route[s] = p)) => Occupant(p) = Nil

LEMMA Occupants == Exclusive => OccupantsRight
<1> SUFFICES ASSUME Exclusive, NEW p \in Proxies
             PROVE  /\ \A s \in Slots : Executing(s) /\ route[s] = p => Occupant(p) = activeTask[s]
                    /\ (\A s \in Slots : ~(Executing(s) /\ route[s] = p)) => Occupant(p) = Nil
  BY DEF OccupantsRight
<1>1. ASSUME NEW s \in Slots, Executing(s), route[s] = p PROVE Occupant(p) = activeTask[s]
  <2> DEFINE c == CHOOSE x \in Slots : Executing(x) /\ route[x] = p
  <2>1. c \in Slots /\ Executing(c) /\ route[c] = p
    BY <1>1
  <2>2. Occupant(p) = activeTask[c]
    BY <1>1 DEF Occupant
  <2> HIDE DEF c
  <2>3. c = s
    BY <1>1, <2>1, ConstantsAssumption DEF Exclusive, NoSharedRoute
  <2> QED
    BY <2>2, <2>3
<1>2. ASSUME \A s \in Slots : ~(Executing(s) /\ route[s] = p) PROVE Occupant(p) = Nil
  BY <1>2 DEF Occupant
<1> QED
  BY <1>1, <1>2

LEMMA OccupantsPrimed == Exclusive' => OccupantsRight'
  BY Occupants, PTL

(* Where an attempt goes on, its proxy stays occupied; where none runs      *)
(* after a step, the proxy is free.                                         *)
LEMMA OccupantsAfter ==
  ASSUME Exclusive, Exclusive',
         \A s \in Slots : Executing(s)' <=> Executing(s),
         \A s \in Slots : Executing(s) => route'[s] = route[s] /\ activeTask'[s] = activeTask[s]
  PROVE  \A p \in Proxies : Occupant(p)' = Occupant(p)
<1> SUFFICES ASSUME NEW p \in Proxies PROVE Occupant(p)' = Occupant(p)
  OBVIOUS
<1>1. OccupantsRight /\ OccupantsRight'
  BY Occupants, OccupantsPrimed
<1>2. CASE \E s \in Slots : Executing(s) /\ route[s] = p
  <2>1. PICK s \in Slots : Executing(s) /\ route[s] = p
    BY <1>2
  <2>2. Occupant(p) = activeTask[s]
    BY <1>1, <2>1 DEF OccupantsRight
  <2>3. Executing(s)' /\ route'[s] = p /\ activeTask'[s] = activeTask[s]
    BY <2>1
  <2>4. Occupant(p)' = activeTask'[s]
    BY <1>1, <2>3 DEF OccupantsRight
  <2> QED
    BY <2>2, <2>3, <2>4
<1>3. CASE \A s \in Slots : ~(Executing(s) /\ route[s] = p)
  <2>1. Occupant(p) = Nil
    BY <1>1, <1>3 DEF OccupantsRight
  <2>2. \A s \in Slots : ~(Executing(s)' /\ route'[s] = p)
    BY <1>3
  <2>3. Occupant(p)' = Nil
    BY <1>1, <2>2 DEF OccupantsRight
  <2> QED
    BY <2>1, <2>3
<1> QED
  BY <1>2, <1>3

Started == {t \in Tasks : task[t].status # "none"}

LEMMA StartedKept == ASSUME Base, NoneBegins PROVE Started' = Started
<1>1. \A t \in Tasks : task'[t].status = "none" <=> task[t].status = "none"
  BY DEF NoneBegins, Ends, Base, TypeOK, TaskRow
<1> QED
  BY <1>1 DEF Started

(* Where every attempt that ran goes on, the lock stutters. *)
LEMMA LockStutters ==
  ASSUME Exclusive, Exclusive', NoneBegins,
         \A s \in Slots : Executing(s)' <=> Executing(s),
         \A s \in Slots : Executing(s) => route'[s] = route[s] /\ activeTask'[s] = activeTask[s]
  PROVE  UNCHANGED Lock!lockVars
<1>1. Started' = Started
  BY StartedKept DEF Exclusive
<1>2. \A p \in Proxies : Occupant(p)' = Occupant(p)
  BY OccupantsAfter
<1>3. [p \in Proxies |-> Occupant(p)]' = [p \in Proxies |-> Occupant(p)]
  BY <1>2
<1> QED
  BY <1>1, <1>3 DEF Lock!lockVars, Started

(* Where the attempt of one slot stops, the lock stops it. *)
LEMMA LockStops ==
  ASSUME Exclusive, Exclusive', NoneBegins,
         NEW s \in Slots, Executing(s), ~Executing(s)',
         \A x \in Slots \ {s} : Executing(x)' <=> Executing(x),
         \A x \in Slots \ {s} : Executing(x) => route'[x] = route[x] /\ activeTask'[x] = activeTask[x]
  PROVE  Lock!Stop(activeTask[s])
<1> USE ConstantsAssumption DEF Exclusive, Base
<1>1. OccupantsRight /\ OccupantsRight'
  BY Occupants, OccupantsPrimed
<1>2. PICK q \in Proxies : q = route[s]
  BY DEF ControlStateCoherent, Executing, TypeOK
<1>3. Occupant(q) = activeTask[s] /\ activeTask[s] # Nil
  BY <1>1, <1>2 DEF OccupantsRight, Executing
<1>4. Occupant(q)' = Nil
  <2>1. \A x \in Slots : ~(Executing(x)' /\ route'[x] = q)
    BY <1>2 DEF NoSharedRoute, ControlStateCoherent, Executing
  <2> QED
    BY <1>1, <1>2, <2>1 DEF OccupantsRight
<1>5. ASSUME NEW p \in Proxies, p # q
      PROVE  Occupant(p)' = Occupant(p) /\ Occupant(p) # activeTask[s]
  <2>1. CASE \E x \in Slots : Executing(x) /\ route[x] = p
    <3>1. PICK x \in Slots : Executing(x) /\ route[x] = p
      BY <2>1
    <3>2. x # s /\ Executing(x)' /\ route'[x] = p /\ activeTask'[x] = activeTask[x]
      BY <1>2, <1>5, <3>1
    <3>3. activeTask[x] # activeTask[s]
      BY <3>1, <3>2 DEF TaskInv, TaskSlotAgreement, Executing
    <3> QED
      BY <1>1, <3>1, <3>2, <3>3 DEF OccupantsRight
  <2>2. CASE \A x \in Slots : ~(Executing(x) /\ route[x] = p)
    <3>1. \A x \in Slots : ~(Executing(x)' /\ route'[x] = p)
      BY <2>2
    <3> QED
      BY <1>1, <1>3, <2>2, <3>1 DEF OccupantsRight
  <2> QED
    BY <2>1, <2>2
<1>6. [p \in Proxies |-> Occupant(p)]'
        = [p \in Proxies |-> IF [x \in Proxies |-> Occupant(x)][p] = activeTask[s] THEN Nil
                             ELSE [x \in Proxies |-> Occupant(x)][p]]
  BY <1>3, <1>4, <1>5
<1>7. Started' = Started
  BY StartedKept
<1> QED
  BY <1>2, <1>3, <1>6, <1>7 DEF Lock!Stop, Started

(* BeginTask starts its attempt on a free proxy. *)
LEMMA LockStarts ==
  ASSUME Exclusive, Exclusive',
         NEW t \in Tasks, NEW s \in Slots, NEW r \in Runs, NEW e \in Executions,
         BeginTask(t, s, r, e)
  PROVE  \E q \in Proxies : Lock!Start(t, q)
<1> USE ConstantsAssumption DEF Exclusive, Base
<1>1. /\ Owned(s) /\ activeTask[s] = Nil /\ task[t].status = "none"
      /\ task' = [task EXCEPT ![t] = [status |-> "active", slot |-> s, lease |-> holder[s],
                    generation |-> generation[s], run |-> r, execution |-> e,
                    attempt |-> run[r].next, route |-> route[s]]]
      /\ activeTask' = [activeTask EXCEPT ![s] = t]
      /\ UNCHANGED <<holder, term, route>>
  BY BeginEffect
<1>2. OccupantsRight /\ OccupantsRight'
  BY Occupants, OccupantsPrimed
<1>3. PICK q \in Proxies : q = route[s]
  BY DEF BeginTask, MayBegin, TypeOK
<1>4. Executing(s)' /\ activeTask'[s] = t
  BY <1>1 DEF Executing, Owned, TypeOK
<1>5. \A x \in Slots \ {s} : (Executing(x)' <=> Executing(x)) /\ activeTask'[x] = activeTask[x]
  BY <1>1 DEF Executing, Owned, TypeOK
<1>6. Occupant(q) = Nil
  <2>1. \A x \in Slots : ~(Executing(x) /\ route[x] = q)
    BY <1>1, <1>3 DEF NoSharedRoute, Executing
  <2> QED
    BY <1>2, <1>3, <2>1 DEF OccupantsRight
<1>7. Occupant(q)' = t
  BY <1>1, <1>2, <1>3, <1>4 DEF OccupantsRight
<1>8. ASSUME NEW p \in Proxies, p # q PROVE Occupant(p)' = Occupant(p)
  <2>1. CASE \E x \in Slots : Executing(x) /\ route[x] = p
    <3>1. PICK x \in Slots : Executing(x) /\ route[x] = p
      BY <2>1
    <3>2. x # s /\ Executing(x)' /\ route'[x] = p /\ activeTask'[x] = activeTask[x]
      BY <1>1, <1>3, <1>5, <1>8, <3>1
    <3> QED
      BY <1>2, <3>1, <3>2 DEF OccupantsRight
  <2>2. CASE \A x \in Slots : ~(Executing(x) /\ route[x] = p)
    <3>1. \A x \in Slots : ~(Executing(x)' /\ route'[x] = p)
      BY <1>1, <1>3, <1>5, <1>8, <2>2
    <3> QED
      BY <1>2, <2>2, <3>1 DEF OccupantsRight
  <2> QED
    BY <2>1, <2>2
<1>9. [p \in Proxies |-> Occupant(p)]' = [[p \in Proxies |-> Occupant(p)] EXCEPT ![q] = t]
  BY <1>3, <1>7, <1>8
<1>10. Started' = Started \cup {t} /\ t \notin Started
  <2>1. task'[t].status = "active" /\ \A u \in Tasks \ {t} : task'[u] = task[u]
    BY <1>1 DEF TypeOK
  <2> QED
    BY <1>1, <2>1 DEF Started
<1> QED
  BY <1>3, <1>6, <1>9, <1>10 DEF Lock!Start, Started

LEMMA LockStep == Exclusive /\ Exclusive' /\ [Next]_vars => [Lock!LockNext]_(Lock!lockVars)
<1> SUFFICES ASSUME Exclusive, Exclusive', [Next]_vars PROVE [Lock!LockNext]_(Lock!lockVars)
  OBVIOUS
<1> USE ConstantsAssumption DEF Exclusive, Base
<1> DEFINE Goal == Lock!LockNext \/ UNCHANGED Lock!lockVars
           Begins == \E t \in Tasks, s \in Slots, r \in Runs, e \in Executions : BeginTask(t, s, r, e)
<1>1. ASSUME Begins PROVE Goal
  <2>1. PICK t \in Tasks, s \in Slots, r \in Runs, e \in Executions : BeginTask(t, s, r, e)
    BY <1>1
  <2>2. PICK q \in Proxies : Lock!Start(t, q)
    BY <2>1, LockStarts
  <2> QED
    BY <2>2 DEF Lock!LockNext
<1>2. ~Begins => NoneBegins
  BY TaskRowSteps
<1>3. ASSUME NEW s \in Slots, Lock!Stop(activeTask[s]), Executing(s) PROVE Goal
  <2>1. activeTask[s] \in Tasks
    BY <1>3 DEF Executing, TypeOK
  <2> QED
    BY <1>3, <2>1 DEF Lock!LockNext
<1> HIDE DEF Goal, Begins
<1>4. ASSUME NoneBegins, \A s \in Slots : Executing(s)' <=> Executing(s),
             \A s \in Slots : Executing(s) => route'[s] = route[s] /\ activeTask'[s] = activeTask[s]
      PROVE  Goal
  BY <1>4, LockStutters DEF Goal
<1>5. ASSUME ~Begins, UNCHANGED <<holder, term, activeTask, route>> PROVE Goal
  BY <1>2, <1>4, <1>5 DEF Executing, Owned
<1>6. ASSUME ~Begins, NEW l \in Leases, NEW i \in Instances, NEW s \in Slots, Claim(l, i, s) PROVE Goal
  <2>1. activeTask[s] = Nil
    BY <1>6, IdleUnheld DEF Claim
  <2>2. UNCHANGED <<activeTask, route>>
    BY <1>6 DEF Claim
  <2>3. ASSUME NEW x \in Slots \ {s} PROVE Owned(x)' <=> Owned(x)
    <3>1. holder'[x] = holder[x] /\ holder[x] # l
      BY <1>6, <2>3 DEF Claim, TypeOK, LeaseSlotAgreement
    <3>2. \A k \in Leases \ {l} : term'[k] = term[k]
      BY <1>6 DEF Claim, TypeOK
    <3> QED
      BY <3>1, <3>2 DEF Owned, TypeOK
  <2> QED
    BY <1>2, <1>4, <1>6, <2>1, <2>2, <2>3 DEF Executing
<1>7. ASSUME ~Begins, NEW l \in Leases, Renew(l) PROVE Goal
  <2>1. \A x \in Slots : Owned(x)' <=> Owned(x)
    BY <1>7 DEF Renew, Owned, TypeOK, slotVars
  <2> QED
    BY <1>2, <1>4, <1>7, <2>1 DEF Executing, Renew, slotVars
<1>8. ASSUME ~Begins, NEW l \in Leases, LeaseAges(l) PROVE Goal
  <2>1. PICK s \in Slots : holder[s] = l /\ Owned(s)
    BY <1>8 DEF LeaseAges, LeaseSlotAgreement, Owned
  <2>2. UNCHANGED <<holder, activeTask, route>>
    BY <1>8 DEF LeaseAges, slotVars
  <2>3. \A x \in Slots \ {s} : Owned(x)' <=> Owned(x)
    <3>1. \A x \in Slots \ {s} : holder[x] # Nil => holder[x] # l
      BY <2>1 DEF LeaseSlotAgreement
    <3> QED
      BY <1>8, <2>2, <3>1 DEF LeaseAges, Owned, TypeOK
  <2>4. CASE Executing(s) /\ ~Executing(s)'
    <3>1. Lock!Stop(activeTask[s])
      BY <1>2, <1>8, <2>1, <2>2, <2>3, <2>4, LockStops DEF Executing
    <3> QED
      BY <1>3, <2>1, <2>4, <3>1
  <2>5. CASE ~(Executing(s) /\ ~Executing(s)')
    BY <1>2, <1>4, <1>8, <2>1, <2>2, <2>3, <2>5 DEF Executing
  <2> QED
    BY <2>4, <2>5
<1>9. ASSUME ~Begins, NEW l \in Leases, Release(l) PROVE Goal
  <2> DEFINE s == lease[l].slot
  <2>1. s \in Slots /\ holder[s] = l /\ activeTask[s] = Nil
    BY <1>9 DEF Release, LeaseSlotAgreement
  <2>2. UNCHANGED <<activeTask, route>>
    BY <1>9 DEF Release
  <2>3. ASSUME NEW x \in Slots \ {s} PROVE Owned(x)' <=> Owned(x)
    <3>1. holder'[x] = holder[x] /\ (holder[x] # Nil => holder[x] # l)
      BY <1>9, <2>1 DEF Release, TypeOK, LeaseSlotAgreement
    <3> QED
      BY <1>9, <3>1 DEF Release, Owned, TypeOK
  <2> HIDE DEF s
  <2> QED
    BY <1>2, <1>4, <1>9, <2>1, <2>2, <2>3 DEF Executing
<1>10. ASSUME ~Begins, EndLapsedLeases PROVE Goal
  <2>1. /\ activeTask' = [s \in Slots |-> IF s \in Lapsed THEN Nil ELSE activeTask[s]]
        /\ holder' = [s \in Slots |-> IF s \in Lapsed THEN Nil ELSE holder[s]]
    BY <1>10, CleanupEffect
  <2>2. UNCHANGED <<term, route>>
    BY <1>10 DEF EndLapsedLeases
  <2>3. \A s \in Slots : Executing(s) => s \notin Lapsed
    BY DEF Executing, Lapsed
  <2> QED
    BY <1>2, <1>4, <1>10, <2>1, <2>2, <2>3 DEF Executing, Owned
<1>11. ASSUME ~Begins, NEW t \in Tasks, MayComplete(t), UNCHANGED <<holder, term>>,
              activeTask' = [activeTask EXCEPT ![task[t].slot] = Nil],
              \A x \in Slots : x # task[t].slot => route'[x] = route[x]
       PROVE  Goal
  <2>1. PICK s \in Slots : s = task[t].slot /\ Executing(s)
    BY <1>11, CompletionEffect
  <2>2. ~Executing(s)'
    BY <1>11, <2>1 DEF Executing, TypeOK
  <2>3. \A x \in Slots \ {s} : (Executing(x)' <=> Executing(x)) /\ activeTask'[x] = activeTask[x]
    BY <1>11, <2>1 DEF Executing, Owned, TypeOK
  <2>4. \A x \in Slots \ {s} : route'[x] = route[x]
    BY <1>11, <2>1
  <2>5. Lock!Stop(activeTask[s])
    BY <1>2, <1>11, <2>1, <2>2, <2>3, <2>4, LockStops
  <2> QED
    BY <1>3, <2>1, <2>5
<1>12. ASSUME ~Begins, Reconcile PROVE Goal
  <2>1. PICK plan \in Plans :
          route' = [s \in Slots |-> IF s \in Changed(plan) THEN plan[s] ELSE route[s]]
    BY <1>12 DEF Reconcile
  <2>2. UNCHANGED <<holder, activeTask, term>>
    BY <1>12 DEF Reconcile, leaseVars
  <2>3. \A s \in Slots : Executing(s) => route'[s] = route[s]
    BY <2>1 DEF Changed
  <2> QED
    BY <1>2, <1>4, <1>12, <2>2, <2>3 DEF Executing, Owned
<1>13. ASSUME ~Begins, LeaseStep PROVE Goal
  BY <1>6, <1>7, <1>8, <1>9, <1>10, <1>13 DEF LeaseStep, ExpireLeases
<1>14. ASSUME ~Begins, TaskStep PROVE Goal
  <2>1. ASSUME NEW t \in Tasks, NEW s \in Slots, NEW r \in Runs, ExhaustRun(t, s, r) PROVE Goal
    <3>1. Owned(s) /\ activeTask[s] = Nil
      BY <2>1, LiveSlotsAreSound DEF ExhaustRun, MayBegin
    <3>2. activeTask' = activeTask /\ UNCHANGED <<holder, term, route>>
      BY <2>1, <3>1 DEF ExhaustRun, leaseVars, TypeOK
    <3> QED
      BY <1>5, <1>14, <3>2
  <2>2. ASSUME NEW t \in Tasks, CompleteKeepingRoute(t) PROVE Goal
    BY <1>11, <1>14, <2>2 DEF CompleteKeepingRoute, leaseVars
  <2>3. ASSUME NEW t \in Tasks, NEW p, LeaveRoute(t, p) PROVE Goal
    <3>1. \A x \in Slots : x # task[t].slot => route'[x] = route[x]
      BY <2>3 DEF LeaveRoute, TypeOK
    <3> QED
      BY <1>11, <1>14, <2>3, <3>1 DEF LeaveRoute, leaseVars
  <2>4. ASSUME NEW t \in Tasks, NEW action, Observe(t, action) PROVE Goal
    BY <1>5, <1>14, <2>4 DEF Observe, leaseVars
  <2> QED
    BY <1>14, <2>1, <2>2, <2>3, <2>4, Zenon DEF TaskStep, CompleteReplacingRoute, CompletePausing, Begins
<1>15. ASSUME ~Begins, RouteStep PROVE Goal
  BY <1>5, <1>10, <1>12, <1>15 DEF RouteStep, BeginReconcile, AbortReconcile, FinishRefresh,
     LoseRefresh, FinalizeRoute, slotVars, leaseVars
<1>16. ASSUME ~Begins, HealthStep \/ UNCHANGED vars PROVE Goal
  BY <1>5, <1>16 DEF HealthStep, HealthPasses, HealthFails, GrantLapses, ReportFailure,
     slotVars, leaseVars, vars
<1>17. ~Begins => Goal
  BY <1>13, <1>14, <1>15, <1>16, Zenon DEF Next
<1> QED
  BY <1>1, <1>17 DEF Goal

LEMMA LockInit == Init => Lock!LockInit
<1> SUFFICES ASSUME Init PROVE Lock!LockInit
  OBVIOUS
<1>1. \A s \in Slots : ~Executing(s)
  BY DEF Init, Executing
<1>2. \A p \in Proxies : Occupant(p) = Nil
  BY <1>1 DEF Occupant
<1>3. \A t \in Tasks : task[t].status = "none"
  BY DEF Init, NoTask
<1> QED
  BY <1>2, <1>3 DEF Lock!LockInit

(* Claims, lapsing leases, cleanups, completions, reconciliations and       *)
(* health verdicts together do what the route lock says: an attempt that    *)
(* runs has one proxy for itself until it stops, and is started once.       *)
THEOREM RefinesRouteLock == Spec => ImplementsRouteLock
<1> DEFINE IInv == Exclusive /\ RefreshesSound
<1>1. Init => IInv
  BY BaseInit, CoherentInit DEF Exclusive, Init, NoSharedRoute
<1>2. IInv /\ [Next]_vars => IInv'
  BY BaseNext, CoherentNext, NoSharedRouteNext DEF Exclusive, Base
<1>3. IInv /\ IInv' /\ [Next]_vars => [Lock!LockNext]_(Lock!lockVars)
  BY LockStep
<1>4. ImplementsRouteLock <=> Lock!LockInit /\ [][Lock!LockNext]_(Lock!lockVars)
  BY DEF ImplementsRouteLock, Lock!LockSpec
<1> HIDE DEF IInv
<1> QED
  BY <1>1, <1>2, <1>3, <1>4, LockInit, PTL DEF Spec

=============================================================================
