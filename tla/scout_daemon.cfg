SPECIFICATION Spec
CONSTANTS
  Universes <- SteadyFleet
  Keyed = {"averray", "akash", "keep3r", "issuehunt"}
  FirstScout = "averray"
  Policy <- OnePerDay
  Ok = Ok
  NoHint = NoHint
  Hints = {1, 4}
  MaxElapsed = 1
  Ephemeral = FALSE
  MaxCrashes = 0
  MaxEvictions = 0
  DayLength = 4
  RefreshInterval = 5
  RetryBase = 1
  RetryMax = 2
  MaxStreak = 2
INVARIANTS
  StateMatchesWorld
  DueOnlyIsolation
  HintHonoured
  NotTooEarly
