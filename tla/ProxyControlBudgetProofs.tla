----------------------- MODULE ProxyControlBudgetProofs -----------------------
(***************************************************************************)
(* Theorems about the leases and budgets of ProxyControl for every fleet:  *)
(* one slot per worker, attempts numbered without gap, executions and runs *)
(* within their limits, and nothing that ended revived.                    *)
(***************************************************************************)
EXTENDS ProxyControlRouteProofs, FiniteSetTheorems

(* What a step may do to a lease other than the one it claims. *)
LeaseGoesOn(l) ==
  /\ lease'[l].instance = lease[l].instance
  /\ lease[l].status \in {"released", "expired"} => lease'[l] = lease[l]
  /\ lease[l].status = "active" /\ term[l] = "lapsed" => term'[l] = "lapsed"

ClaimsNone ==
  /\ \A l \in Leases : LeaseGoesOn(l)
  /\ \A s \in Slots : holder'[s] \in {holder[s], Nil}

LEMMA LeaseSteps ==
  ASSUME Base, [Next]_vars
  PROVE  \/ ClaimsNone
         \/ \E l \in Leases, i \in Instances, s \in Slots : Claim(l, i, s)
<1> USE DEF Base
<1>1. ASSUME UNCHANGED <<holder, lease, term>> PROVE ClaimsNone
  BY <1>1 DEF ClaimsNone, LeaseGoesOn
<1>2. ASSUME NEW l \in Leases, Renew(l) \/ LeaseAges(l) PROVE ClaimsNone
  BY <1>2 DEF Renew, LeaseAges, slotVars, ClaimsNone, LeaseGoesOn, TypeOK
<1>3. ASSUME NEW l \in Leases, Release(l) PROVE ClaimsNone
  <2>1. lease[l].status = "active" /\ lease[l] \in LeaseRow
    BY <1>3 DEF Release, LeaseSlotAgreement, TypeOK
  <2>2. lease'[l].instance = lease[l].instance /\ \A k \in Leases \ {l} : lease'[k] = lease[k]
    BY <1>3, <2>1 DEF Release, TypeOK, LeaseRow
  <2>3. term'[l] = "lapsed" /\ \A k \in Leases \ {l} : term'[k] = term[k]
    BY <1>3 DEF Release, TypeOK
  <2>4. \A s \in Slots : holder'[s] \in {holder[s], Nil}
    BY <1>3 DEF Release, TypeOK
  <2> QED
    BY <2>1, <2>2, <2>3, <2>4 DEF ClaimsNone, LeaseGoesOn
<1>4. ASSUME EndLapsedLeases PROVE ClaimsNone
  <2>1. ASSUME NEW l \in Leases
        PROVE  /\ lease'[l].instance = lease[l].instance
               /\ lease[l].status # "active" => lease'[l] = lease[l]
    BY <1>4 DEF EndLapsedLeases, HistoryClosed, TypeOK, LeaseRow
  <2>2. UNCHANGED term /\ \A s \in Slots : holder'[s] \in {holder[s], Nil}
    BY <1>4 DEF EndLapsedLeases
  <2> QED
    BY <2>1, <2>2 DEF ClaimsNone, LeaseGoesOn
<1>5. CASE TaskStep
  BY <1>1, <1>5, TaskStepKeepsLeases
<1>6. CASE RouteStep
  BY <1>1, <1>4, <1>6 DEF RouteStep, BeginReconcile, Reconcile, AbortReconcile, FinishRefresh,
     LoseRefresh, FinalizeRoute, slotVars, leaseVars
<1>7. CASE HealthStep
  BY <1>1, <1>7 DEF HealthStep, HealthPasses, HealthFails, GrantLapses, ReportFailure, slotVars, leaseVars
<1>8. CASE UNCHANGED vars
  BY <1>1, <1>8 DEF vars, slotVars, leaseVars
<1> QED
  BY <1>2, <1>3, <1>4, <1>5, <1>6, <1>7, <1>8 DEF Next, LeaseStep, ExpireLeases

LEMMA WorkersNext ==
  Base /\ OneSlotPerWorker /\ [Next]_vars => OneSlotPerWorker'
<1> SUFFICES ASSUME Base, OneSlotPerWorker, [Next]_vars PROVE OneSlotPerWorker'
  OBVIOUS
<1>1. CASE ClaimsNone
  <2>1. \A s \in Slots : holder[s] # Nil => holder[s] \in Leases
    BY DEF Base, TypeOK
  <2> QED
    BY <1>1, <2>1 DEF ClaimsNone, LeaseGoesOn, OneSlotPerWorker, LeaseWorker
<1>2. ASSUME NEW l \in Leases, NEW i \in Instances, NEW s \in Slots, Claim(l, i, s)
      PROVE  OneSlotPerWorker'
  <2>1. holder'[s] = l /\ lease'[l].instance = i
    BY <1>2 DEF Claim, Base, TypeOK
  <2>2. ASSUME NEW x \in Slots \ {s}, holder'[x] # Nil
        PROVE  /\ holder'[x] = holder[x] /\ lease'[holder[x]] = lease[holder[x]]
               /\ LeaseWorker(holder[x]) # WorkerOf[i]
    BY <1>2, <2>2 DEF Claim, WorkerFree, Base, TypeOK, LeaseSlotAgreement
  <2> QED
    BY <2>1, <2>2 DEF OneSlotPerWorker, LeaseWorker
<1> QED
  BY <1>1, <1>2, LeaseSteps

(* No worker ever occupies two slots, restarted or not, in every fleet. *)
THEOREM WorkersExclusive == Spec => []OneSlotPerWorker
<1>1. Init => OneSlotPerWorker
  BY DEF Init, OneSlotPerWorker
<1> QED
  BY <1>1, BaseInit, BaseNext, WorkersNext, PTL DEF Spec

(* A finished attempt, a released or expired lease never changes again and  *)
(* a lapsed lease never runs on, in every fleet: late renewals, repeated    *)
(* completions and cleanups revive nothing.                                 *)
THEOREM EndedForever == Spec => EndedStaysEnded
<1>1. ASSUME Base, [Next]_vars, NEW t \in Tasks, task[t].status \in {"completed", "abandoned"}
      PROVE  task'[t] = task[t]
  <2>1. CASE NoneBegins
    BY <1>1, <2>1 DEF NoneBegins, Ends
  <2>2. ASSUME NEW u \in Tasks, NEW s \in Slots, NEW r \in Runs, NEW e \in Executions, BeginTask(u, s, r, e)
        PROVE  task'[t] = task[t]
    BY <1>1, <2>2, BeginEffect DEF Base, TypeOK
  <2> QED
    BY <1>1, <2>1, <2>2, TaskRowSteps
<1>2. ASSUME Base, [Next]_vars, NEW l \in Leases
      PROVE  /\ lease[l].status \in {"released", "expired"} => lease'[l] = lease[l]
             /\ lease[l].status = "active" /\ term[l] = "lapsed" => term'[l] = "lapsed"
  <2>1. CASE ClaimsNone
    BY <2>1 DEF ClaimsNone, LeaseGoesOn
  <2>2. ASSUME NEW k \in Leases, NEW i \in Instances, NEW s \in Slots, Claim(k, i, s)
        PROVE  lease[l].status # "none" => lease'[l] = lease[l] /\ term'[l] = term[l]
    BY <1>2, <2>2 DEF Claim, Base, TypeOK
  <2> QED
    BY <1>2, <2>1, <2>2, LeaseSteps
<1> DEFINE Kept ==
      /\ \A t \in Tasks : task[t].status \in {"completed", "abandoned"} => task'[t] = task[t]
      /\ \A l \in Leases :
           /\ lease[l].status \in {"released", "expired"} => lease'[l] = lease[l]
           /\ lease[l].status = "active" /\ term[l] = "lapsed" => term'[l] = "lapsed"
<1>3. Base /\ [Next]_vars => Kept
  BY <1>1, <1>2
<1>4. EndedStaysEnded <=> [][Kept]_vars
  BY DEF EndedStaysEnded
<1> HIDE DEF Kept
<1> QED
  BY <1>3, <1>4, BaseInit, BaseNext, PTL DEF Spec
-----------------------------------------------------------------------------
(* Budgets. *)

AttemptsOf(r) == {t \in Tasks : task[t].run = r}
AttemptsIn(e) == {t \in Tasks : task[t].execution = e}

(* An attempt not begun belongs to no run and no execution. *)
BlankRows ==
  \A t \in Tasks : IF task[t].status = "none"
                   THEN task[t].run = Nil /\ task[t].execution = Nil
                   ELSE task[t].run \in Runs /\ task[t].execution \in Executions

LEMMA BlankStep ==
  ASSUME Base, BlankRows, [Next]_vars PROVE BlankRows'
<1>1. CASE NoneBegins
  <2>1. ASSUME NEW t \in Tasks
        PROVE  /\ task'[t].run = task[t].run /\ task'[t].execution = task[t].execution
               /\ task'[t].status = "none" <=> task[t].status = "none"
    BY <1>1, <2>1 DEF NoneBegins, Ends, Base, TypeOK, TaskRow
  <2> QED
    BY <2>1 DEF BlankRows
<1>2. ASSUME NEW t \in Tasks, NEW s \in Slots, NEW r \in Runs, NEW e \in Executions, BeginTask(t, s, r, e)
      PROVE  BlankRows'
  <2>1. task' = [task EXCEPT ![t] = [status |-> "active", slot |-> s, lease |-> holder[s],
                  generation |-> generation[s], run |-> r, execution |-> e,
                  attempt |-> run[r].next, route |-> route[s]]]
    BY <1>2, BeginEffect DEF Base
  <2> QED
    BY <2>1 DEF BlankRows, Base, TypeOK
<1> QED
  BY <1>1, <1>2, TaskRowSteps

(* The budget a run has used changes only by an attempt's start; a run is   *)
(* marked exhausted only when it is.                                        *)
RunsKept ==
  \A r \in Runs : /\ run'[r].next = run[r].next
                  /\ run'[r].exhausted => run[r].exhausted \/ RunExhausted(r)

LEMMA RunSteps ==
  ASSUME Base, [Next]_vars,
         ~ \E t \in Tasks, s \in Slots, r \in Runs, e \in Executions : BeginTask(t, s, r, e)
  PROVE  RunsKept
<1>1. ASSUME UNCHANGED run PROVE RunsKept
  BY <1>1 DEF RunsKept
<1>2. ASSUME NEW t \in Tasks, NEW s \in Slots, NEW r \in Runs, ExhaustRun(t, s, r) PROVE RunsKept
  BY <1>2 DEF ExhaustRun, RunsKept, Base, TypeOK, RunRow
<1>3. CASE LeaseStep
  BY <1>1, <1>3 DEF LeaseStep, Claim, Renew, Release, LeaseAges, ExpireLeases, EndLapsedLeases, taskVars
<1>4. CASE TaskStep
  <2>1. \A t, action : Observe(t, action) => RunsKept
    BY <1>1 DEF Observe
  <2>2. \A t \in Tasks : CompleteKeepingRoute(t) => RunsKept
    BY <1>1 DEF CompleteKeepingRoute
  <2>3. \A t \in Tasks : \A p : LeaveRoute(t, p) => RunsKept
    BY <1>1 DEF LeaveRoute
  <2> QED
    BY <1>2, <1>4, <2>1, <2>2, <2>3, Zenon DEF TaskStep, CompleteReplacingRoute, CompletePausing
<1>5. CASE RouteStep
  BY <1>1, <1>5 DEF RouteStep, BeginReconcile, EndLapsedLeases, Reconcile, AbortReconcile,
     FinishRefresh, LoseRefresh, FinalizeRoute, taskVars
<1>6. CASE HealthStep
  BY <1>1, <1>6 DEF HealthStep, HealthPasses, HealthFails, GrantLapses, ReportFailure, taskVars
<1>7. CASE UNCHANGED vars
  BY <1>1, <1>7 DEF vars, taskVars
<1> QED
  BY <1>3, <1>4, <1>5, <1>6, <1>7 DEF Next

FiniteBudgets ==
  /\ \A r \in Runs : IsFiniteSet(AttemptsOf(r))
  /\ \A e \in Executions : IsFiniteSet(AttemptsIn(e))

Numbered(r) ==
  /\ {task[t].attempt : t \in AttemptsOf(r)} = 1 .. (run[r].next - 1)
  /\ Cardinality(AttemptsOf(r)) = run[r].next - 1
  /\ Cardinality(AttemptsOf(r)) <= MaxAttempts
  /\ run[r].exhausted => Cardinality(AttemptsOf(r)) = MaxAttempts

LEMMA NumberedIsAttemptsNumbered == AttemptsNumbered <=> \A r \in Runs : Numbered(r)
  BY DEF AttemptsNumbered, Numbered, AttemptsOf

(* The rows of the attempts when none begins. *)
LEMMA SameBudgets ==
  ASSUME Base, NoneBegins
  PROVE  /\ \A t \in Tasks : /\ task'[t].run = task[t].run /\ task'[t].execution = task[t].execution
                             /\ task'[t].attempt = task[t].attempt
                             /\ task'[t].status = "active" => task[t].status = "active"
                             /\ task'[t].status = "none" <=> task[t].status = "none"
         /\ \A r : AttemptsOf(r)' = AttemptsOf(r)
         /\ \A e : AttemptsIn(e)' = AttemptsIn(e)
<1>1. \A t \in Tasks : /\ task'[t].run = task[t].run /\ task'[t].execution = task[t].execution
                       /\ task'[t].attempt = task[t].attempt
                       /\ task'[t].status = "active" => task[t].status = "active"
                       /\ task'[t].status = "none" <=> task[t].status = "none"
  <2> SUFFICES ASSUME NEW t \in Tasks
               PROVE  /\ task'[t].run = task[t].run /\ task'[t].execution = task[t].execution
                      /\ task'[t].attempt = task[t].attempt
                      /\ task'[t].status = "active" => task[t].status = "active"
                      /\ task'[t].status = "none" <=> task[t].status = "none"
    OBVIOUS
  <2>1. task[t] \in TaskRow
    BY DEF Base, TypeOK
  <2>2. CASE Ends(t)
    <3>1. PICK status \in {"completed", "abandoned"} : task'[t] = [task[t] EXCEPT !.status = status]
      BY <2>2 DEF Ends
    <3> QED
      BY <2>1, <2>2, <3>1 DEF Ends, TaskRow
  <2> QED
    BY <2>2 DEF NoneBegins
<1> QED
  BY <1>1 DEF AttemptsOf, AttemptsIn

(* The rows of the attempts when one begins. *)
LEMMA GrownBudgets ==
  ASSUME Base, BlankRows, NEW t \in Tasks, NEW s \in Slots, NEW r \in Runs, NEW e \in Executions,
         BeginTask(t, s, r, e)
  PROVE  /\ task[t].status = "none" /\ task'[t].status = "active"
         /\ task'[t].run = r /\ task'[t].execution = e /\ task'[t].attempt = run[r].next
         /\ \A u \in Tasks \ {t} : task'[u] = task[u]
         /\ AttemptsOf(r)' = AttemptsOf(r) \cup {t} /\ t \notin AttemptsOf(r)
         /\ \A q \in Runs \ {r} : AttemptsOf(q)' = AttemptsOf(q)
         /\ AttemptsIn(e)' = AttemptsIn(e) \cup {t} /\ t \notin AttemptsIn(e)
         /\ \A q \in Executions \ {e} : AttemptsIn(q)' = AttemptsIn(q)
<1> USE ConstantsAssumption
<1>1. task[t].status = "none" /\
      task' = [task EXCEPT ![t] = [status |-> "active", slot |-> s, lease |-> holder[s],
                generation |-> generation[s], run |-> r, execution |-> e,
                attempt |-> run[r].next, route |-> route[s]]]
  BY BeginEffect DEF Base
<1>2. /\ task'[t].status = "active"
      /\ task'[t].run = r /\ task'[t].execution = e /\ task'[t].attempt = run[r].next
      /\ \A u \in Tasks \ {t} : task'[u] = task[u]
  BY <1>1 DEF Base, TypeOK
<1>3. task[t].run = Nil /\ task[t].execution = Nil
  BY <1>1 DEF BlankRows
<1>4. AttemptsOf(r)' = AttemptsOf(r) \cup {t} /\ t \notin AttemptsOf(r)
  BY <1>2, <1>3 DEF AttemptsOf
<1>5. \A q \in Runs \ {r} : AttemptsOf(q)' = AttemptsOf(q)
  BY <1>2, <1>3 DEF AttemptsOf
<1>6. AttemptsIn(e)' = AttemptsIn(e) \cup {t} /\ t \notin AttemptsIn(e)
  BY <1>2, <1>3 DEF AttemptsIn
<1>7. \A q \in Executions \ {e} : AttemptsIn(q)' = AttemptsIn(q)
  BY <1>2, <1>3 DEF AttemptsIn
<1> QED
  BY <1>1, <1>2, <1>4, <1>5, <1>6, <1>7

LEMMA NumberedStep ==
  ASSUME Base, BlankRows, FiniteBudgets, AttemptsNumbered, [Next]_vars
  PROVE  FiniteBudgets' /\ AttemptsNumbered'
<1> USE ConstantsAssumption
<1>1. \A r \in Runs : Numbered(r) /\ run[r].next \in Nat /\ run[r].exhausted \in BOOLEAN
  BY NumberedIsAttemptsNumbered DEF Base, TypeOK, RunRow
<1>2. AttemptsNumbered' <=> \A r \in Runs : Numbered(r)'
  BY DEF AttemptsNumbered, Numbered, AttemptsOf
<1>3. ASSUME ~ \E t \in Tasks, s \in Slots, r \in Runs, e \in Executions : BeginTask(t, s, r, e)
      PROVE  FiniteBudgets' /\ AttemptsNumbered'
  <2>1. NoneBegins /\ RunsKept
    BY <1>3, TaskRowSteps, RunSteps
  <2>2. FiniteBudgets'
    BY <2>1, SameBudgets DEF FiniteBudgets
  <2>3. ASSUME NEW r \in Runs PROVE Numbered(r)'
    <3>1. AttemptsOf(r)' = AttemptsOf(r) /\ run'[r].next = run[r].next
      BY <2>1, SameBudgets DEF RunsKept
    <3>2. {task'[t].attempt : t \in AttemptsOf(r)'} = {task[t].attempt : t \in AttemptsOf(r)}
      <4>1. \A t \in AttemptsOf(r) : task'[t].attempt = task[t].attempt
        BY <2>1, SameBudgets DEF AttemptsOf
      <4> QED
        BY <3>1, <4>1
    <3>3. run'[r].exhausted => run[r].exhausted \/ RunExhausted(r)
      BY <2>1 DEF RunsKept
    <3>4. run'[r].exhausted => Cardinality(AttemptsOf(r)) = MaxAttempts
      BY <1>1, <3>3 DEF Numbered, RunExhausted
    <3> QED
      BY <1>1, <3>1, <3>2, <3>4 DEF Numbered
  <2> QED
    BY <1>2, <2>2, <2>3
<1>4. ASSUME NEW t \in Tasks, NEW s \in Slots, NEW r \in Runs, NEW e \in Executions, BeginTask(t, s, r, e)
      PROVE  FiniteBudgets' /\ AttemptsNumbered'
  <2>1. /\ task'[t].attempt = run[r].next
        /\ \A u \in Tasks \ {t} : task'[u] = task[u]
        /\ AttemptsOf(r)' = AttemptsOf(r) \cup {t} /\ t \notin AttemptsOf(r)
        /\ \A q \in Runs \ {r} : AttemptsOf(q)' = AttemptsOf(q)
        /\ AttemptsIn(e)' = AttemptsIn(e) \cup {t}
        /\ \A q \in Executions \ {e} : AttemptsIn(q)' = AttemptsIn(q)
    BY <1>4, GrownBudgets
  <2>2. /\ run[r].next <= MaxAttempts
        /\ run'[r].next = run[r].next + 1 /\ run'[r].exhausted = run[r].exhausted
        /\ \A q \in Runs \ {r} : run'[q] = run[q]
    BY <1>1, <1>4 DEF BeginTask, RunExhausted, Base, TypeOK, RunRow
  <2>3. IsFiniteSet(AttemptsOf(r)') /\ Cardinality(AttemptsOf(r)') = Cardinality(AttemptsOf(r)) + 1
    BY <2>1, FS_AddElement DEF FiniteBudgets
  <2>4. IsFiniteSet(AttemptsIn(e)')
    BY <2>1, FS_AddElement DEF FiniteBudgets
  <2>5. FiniteBudgets'
    BY <2>1, <2>3, <2>4 DEF FiniteBudgets
  <2>6. Numbered(r)'
    <3>1. Cardinality(AttemptsOf(r)) = run[r].next - 1
      BY <1>1 DEF Numbered
    <3>2. {task'[u].attempt : u \in AttemptsOf(r)'}
            = {task[u].attempt : u \in AttemptsOf(r)} \cup {run[r].next}
      BY <2>1 DEF AttemptsOf
    <3>3. run[r].next >= 1
      BY <1>1, <3>1, FS_CardinalityType DEF FiniteBudgets
    <3>4. (1 .. (run[r].next - 1)) \cup {run[r].next} = 1 .. (run'[r].next - 1)
      BY <1>1, <2>2, <3>3
    <3>5. {task'[u].attempt : u \in AttemptsOf(r)'} = 1 .. (run'[r].next - 1)
      BY <1>1, <3>2, <3>4 DEF Numbered
    <3> QED
      BY <1>1, <2>2, <2>3, <3>1, <3>3, <3>5 DEF Numbered
  <2>7. ASSUME NEW q \in Runs \ {r} PROVE Numbered(q)'
    <3>1. {task'[u].attempt : u \in AttemptsOf(q)'} = {task[u].attempt : u \in AttemptsOf(q)}
      <4>1. \A u \in AttemptsOf(q) : u # t /\ task'[u] = task[u]
        BY <1>4, <2>1, GrownBudgets DEF AttemptsOf
      <4> QED
        BY <2>1, <4>1
    <3> QED
      BY <1>1, <2>1, <2>2, <3>1 DEF Numbered
  <2> QED
    BY <1>2, <2>5, <2>6, <2>7
<1> QED
  BY <1>3, <1>4

LEMMA BudgetsInit == Init => BlankRows /\ FiniteBudgets /\ AttemptsNumbered
<1> USE ConstantsAssumption
<1> SUFFICES ASSUME Init PROVE BlankRows /\ FiniteBudgets /\ AttemptsNumbered
  OBVIOUS
<1>1. \A t \in Tasks : task[t].status = "none" /\ task[t].run = Nil /\ task[t].execution = Nil
  BY DEF Init, NoTask
<1>2. \A r \in Runs : AttemptsOf(r) = {}
  BY <1>1 DEF AttemptsOf
<1>3. \A e \in Executions : AttemptsIn(e) = {}
  BY <1>1 DEF AttemptsIn
<1>4. FiniteBudgets
  BY <1>2, <1>3, FS_EmptySet DEF FiniteBudgets
<1>5. ASSUME NEW r \in Runs PROVE Numbered(r)
  <2>1. run[r].next = 1 /\ ~run[r].exhausted /\ Cardinality(AttemptsOf(r)) = 0
    BY <1>2, FS_EmptySet DEF Init
  <2>2. {task[t].attempt : t \in AttemptsOf(r)} = {} /\ 1 .. (run[r].next - 1) = {}
    BY <1>2, <2>1
  <2> QED
    BY <2>1, <2>2 DEF Numbered
<1> QED
  BY <1>1, <1>4, <1>5, NumberedIsAttemptsNumbered DEF BlankRows

(* Attempt numbers are without gap or repeat and within the run's limit, in *)
(* every fleet and for every limit: refused, lost and abandoned attempts    *)
(* neither free a number nor burn one.                                      *)
THEOREM NumbersWithoutGap == Spec => []AttemptsNumbered
<1> USE ConstantsAssumption
<1> DEFINE IInv == Base /\ BlankRows /\ FiniteBudgets /\ AttemptsNumbered
<1>1. Init => IInv
  BY BaseInit, BudgetsInit
<1>2. IInv /\ [Next]_vars => IInv'
  BY BaseNext, BlankStep, NumberedStep
<1> HIDE DEF IInv
<1>3. IInv => AttemptsNumbered
  BY DEF IInv
<1> QED
  BY <1>1, <1>2, <1>3, PTL DEF Spec

LEMMA BudgetIs ==
  ExecutionBudget <=>
    /\ \A e \in Executions : Cardinality(AttemptsIn(e)) <= 1 + MaxSwitches
    /\ \A t, u \in Tasks :
         /\ task[t].status # "none" /\ task[t].execution = task[u].execution
              => task[t].run = task[u].run
         /\ t # u /\ task[t].status = "active" /\ task[u].status = "active"
              => task[t].run # task[u].run
  BY DEF ExecutionBudget, AttemptsIn

LEMMA BudgetStep ==
  ASSUME Base, BlankRows, FiniteBudgets, ExecutionBudget, [Next]_vars
  PROVE  ExecutionBudget'
<1> USE ConstantsAssumption
<1>1. CASE NoneBegins
  BY <1>1, SameBudgets, BudgetIs DEF ExecutionBudget, AttemptsIn
<1>2. ASSUME NEW t \in Tasks, NEW s \in Slots, NEW r \in Runs, NEW e \in Executions, BeginTask(t, s, r, e)
      PROVE  ExecutionBudget'
  <2>1. /\ task[t].status = "none" /\ task'[t].status = "active"
        /\ task'[t].run = r /\ task'[t].execution = e
        /\ \A u \in Tasks \ {t} : task'[u] = task[u]
        /\ AttemptsIn(e)' = AttemptsIn(e) \cup {t} /\ t \notin AttemptsIn(e)
        /\ \A q \in Executions \ {e} : AttemptsIn(q)' = AttemptsIn(q)
    BY <1>2, GrownBudgets
  <2>2. \A q \in Executions : ExecutionTasks(q) = AttemptsIn(q)
    BY DEF BlankRows, ExecutionTasks, AttemptsIn
  <2>3. /\ \A u \in AttemptsIn(e) : task[u].run = r
        /\ Cardinality(AttemptsIn(e)) < 1 + MaxSwitches
    BY <1>2, <2>2 DEF BeginTask
  <2>4. AbandonIn({s}) = task
    BY <1>2, LiveSlotsAreSound DEF Base, BeginTask, MayBegin
  <2>5. \A u \in Tasks : task[u].status = "active" => task[u].run # r
    BY <1>2, <2>4 DEF BeginTask
  <2>6. Cardinality(AttemptsIn(e)') <= 1 + MaxSwitches
    <3>1. Cardinality(AttemptsIn(e)) \in Nat
      BY FS_CardinalityType DEF FiniteBudgets
    <3>2. Cardinality(AttemptsIn(e)') = Cardinality(AttemptsIn(e)) + 1
      BY <2>1, FS_AddElement DEF FiniteBudgets
    <3> QED
      BY <2>3, <3>1, <3>2
  <2>7. \A q \in Executions : Cardinality(AttemptsIn(q)') <= 1 + MaxSwitches
    BY <2>1, <2>6, BudgetIs
  <2>8. ASSUME NEW u \in Tasks, NEW v \in Tasks, task'[u].status # "none",
               task'[u].execution = task'[v].execution
        PROVE  task'[u].run = task'[v].run
    <3>1. CASE u # t /\ v # t
      BY <2>1, <2>8, <3>1 DEF ExecutionBudget
    <3>2. CASE u = t /\ v # t
      BY <2>1, <2>3, <2>8, <3>2 DEF AttemptsIn
    <3>3. CASE u # t /\ v = t
      BY <2>1, <2>3, <2>8, <3>3 DEF AttemptsIn
    <3> QED
      BY <3>1, <3>2, <3>3
  <2>9. ASSUME NEW u \in Tasks, NEW v \in Tasks, u # v,
               task'[u].status = "active", task'[v].status = "active"
        PROVE  task'[u].run # task'[v].run
    <3>1. CASE u # t /\ v # t
      BY <2>1, <2>9, <3>1 DEF ExecutionBudget
    <3>2. CASE u = t
      BY <2>1, <2>5, <2>9, <3>2
    <3>3. CASE v = t
      BY <2>1, <2>5, <2>9, <3>3
    <3> QED
      BY <3>1, <3>2, <3>3
  <2> QED
    BY <2>7, <2>8, <2>9 DEF ExecutionBudget, AttemptsIn
<1> QED
  BY <1>1, <1>2, TaskRowSteps

(* An execution never gets more attempts than one and its route switches,   *)
(* never leaves its run, and a run never has two attempts going, in every   *)
(* fleet and for every limit.                                               *)
THEOREM BudgetsHold == Spec => []ExecutionBudget
<1> USE ConstantsAssumption
<1> DEFINE IInv == Base /\ BlankRows /\ FiniteBudgets /\ AttemptsNumbered /\ ExecutionBudget
<1>1. Init => IInv
  <2> SUFFICES ASSUME Init PROVE IInv
    OBVIOUS
  <2>1. \A t \in Tasks : task[t].status = "none" /\ task[t].run = Nil /\ task[t].execution = Nil
    BY DEF Init, NoTask
  <2>2. \A e \in Executions : AttemptsIn(e) = {}
    BY <2>1 DEF AttemptsIn
  <2>3. \A e \in Executions : Cardinality(AttemptsIn(e)) = 0
    BY <2>2, FS_EmptySet
  <2>4. 0 <= 1 + MaxSwitches
    OBVIOUS
  <2>5. ExecutionBudget
    BY <2>1, <2>2, <2>3, <2>4 DEF ExecutionBudget
  <2> QED
    BY <2>1, <2>5, BudgetsInit, BaseInit DEF BlankRows
<1>2. IInv /\ [Next]_vars => IInv'
  BY BaseNext, BlankStep, NumberedStep, BudgetStep
<1> HIDE DEF IInv
<1>3. IInv => ExecutionBudget
  BY DEF IInv
<1> QED
  BY <1>1, <1>2, <1>3, PTL DEF Spec

=============================================================================
