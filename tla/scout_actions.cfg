SPECIFICATION Spec
CONSTANTS
  Universes <- GrowingFleet
  Keyed = {"averray", "akash", "keep3r", "issuehunt"}
  FirstScout = "averray"
  Policy <- OnePerDay
  Ok = Ok
  NoHint = NoHint
  Hints = {5}
  MaxElapsed = 0
  Ephemeral = TRUE
  MaxCrashes = 1
  MaxEvictions = 1
  DayLength = 4
  RefreshInterval = 4
  RetryBase = 1
  RetryMax = 4
  MaxStreak = 3
INVARIANTS
  TypeOK
  NoSourceForgotten
  RefreshExactlyWhenNeeded
PROPERTIES
  KeepsScouting
  KeepsSucceeding
