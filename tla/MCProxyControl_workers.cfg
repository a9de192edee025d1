CONSTANTS
  i1 = i1
  i2 = i2
  w1 = w1
  w2 = w2
  Nil = Nil
  Slots = {s1, s2}
  Proxies = {p1, p2}
  Leases = {l1, l2}
  Tasks = {t1, t2, t3}
  Runs = {r1, r2}
  Executions = {e1, e2}
  Instances = {i1, i2}
  Workers = {w1, w2}
  WorkerOf <- MCWorkerOf
  MaxSwitches = 1
  MaxAttempts = 2
  MaxGeneration = 1
SPECIFICATION Spec
SYMMETRY MCSymmetry
CONSTRAINT NoEvidence
INVARIANTS
  LeaseSlotAgreement
  OneSlotPerWorker
  TaskSlotAgreement
  AttemptsNumbered
  ExecutionBudget
PROPERTIES
  EndedStaysEnded
