CONSTANTS
  i1 = i1
  i2 = i2
  w1 = w1
  w2 = w2
  Nil = Nil
  Slots = {s1}
  Proxies = {p1, p2}
  Leases = {l1}
  Tasks = {t1}
  Runs = {r1}
  Executions = {e1}
  Instances = {i1}
  Workers = {w1, w2}
  WorkerOf <- MCWorkerOf
  MaxSwitches = 1
  MaxAttempts = 2
  MaxGeneration = 2
SPECIFICATION Spec
PROPERTIES
  TaskNeverChangesRoute
