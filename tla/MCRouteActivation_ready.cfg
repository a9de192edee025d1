CONSTANTS
  Callers = {c1, c2}
  MaxName = 4
  MaxClaim = 2
SPECIFICATION Spec
INVARIANTS
  NeverReadyAndRetired
