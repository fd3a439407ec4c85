SPECIFICATION Spec
CONSTANTS
  Sources = {1, 2, 3}
  Shares = {0, 1, 2, 5}
  Policies <- MCPolicies
CHECK_DEADLOCK FALSE
INVARIANTS
  TypeOK
  PlanIsReady
  NoInversion
  NoOverserving
  KeepsQuota
PROPERTY
  Answers
