SPECIFICATION Spec
CONSTANTS
  Tasks = {"pay", "tip", "exec", "orphan", "noise"}
  KindOf <- MCKindOf
  Routes <- MCRoutes
  AllowedKinds = {"pay", "tip", "exec", "orphan"}
  AllowedCapabilities = {"observe", "execution"}
  ReviewCapabilities = {"execution"}
  Handlers = {"worker"}
  Frames = {1}
  Mode = "exclusive"
  MaxRuns = 2
  NoTask = NoTask
INVARIANTS
  TypeOK
  OnlyAdmittedRun
  AckedMeansEffect
  FailedMeansNoEffect
  AtMostOnce
  ClaimedBeforeEffect
  LedgerIntact
PROPERTIES
  TasksNeverLost
  RefinesContract
