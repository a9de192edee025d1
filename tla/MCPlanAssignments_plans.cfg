CONSTANTS
  p1 = p1
  p2 = p2
  p3 = p3
  d1 = d1
  c1 = c1
  c2 = c2
  Nil = Nil
  Proxies <- MCProxies
  SlotOrder <- TwoRoles
  RoleOf <- MCRoleOf
  PolicyRoles <- MCPolicyRoles
  Taggings <- MCTaggings
  Preferences <- MCPreferences
SPECIFICATION Spec
INVARIANTS
  TypeOK
  PlanIsAdmissible
  ReplanChangesNothing
  MovesHaveReason
