CONSTANTS
  Callers = {c1, c2, c3}
  MaxName = 3
  MaxClaim = 2
SPECIFICATION Spec
SYMMETRY MCSymmetry
INVARIANTS
  TypeOK
  GivenNameAdmitted
PROPERTIES
  TokensMoveForward
  DelayedClaimPowerless
