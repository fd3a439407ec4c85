SPECIFICATION Spec
CONSTANTS
  Tasks = {"pay", "exec"}
  KindOf <- MCKindOf
  Routes <- MCRoutes
  AllowedKinds = {"pay", "tip", "exec", "orphan"}
  AllowedCapabilities = {"observe", "execution"}
  ReviewCapabilities = {"execution"}
  Handlers = {"worker"}
  Frames = {1, 2}
  Mode = "concurrent"
  MaxRuns = 2
  NoTask = NoTask
CHECK_DEADLOCK FALSE
INVARIANTS
  OnlyAdmittedRun
  AckedMeansEffect
