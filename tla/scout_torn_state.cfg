SPECIFICATION Spec
CONSTANTS
  Universes <- SteadyFleet
  Keyed = {"averray", "akash", "keep3r", "issuehunt"}
  FirstScout = "averray"
  Policy <- OnePerDay
  Ok = Ok
  NoHint = NoHint
  Hints = {}
  MaxElapsed = 0
  Ephemeral = FALSE
  MaxCrashes = 1
  MaxEvictions = 0
  DayLength = 4
  RefreshInterval = 4
  RetryBase = 1
  RetryMax = 4
  MaxStreak = 3
PROPERTY
  KeepsSucceeding
