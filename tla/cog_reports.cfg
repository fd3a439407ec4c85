SPECIFICATION Spec
CONSTANTS
  NoClaim = NoClaim
  NotStated = NotStated
  Unpublished = Unpublished
  NoNumber = NoNumber
  Reward <- RewardExample
  NotFixed = {}
  Writers = {w1, w2}
  Offers <- OffersExample
  MaxCommands = 3
  MaxChanges = 2
  MaxLedgerCrashes = 2
  Records <- RecordsExample
  MaxBatch = 3
  Tasks <- TasksExample
  MaxTasks = 3
  Inventories <- InventoriesExample
  Balances = {0, 10, 100}
  AllocationSources = {s1, s2, s3}
  Views <- ViewsExample
  Workers <- WorkersExample
  Config <- OneSource
  Terms <- TermsExample
  Rules <- RulesExample
  HandCatalogs <- HandCatalogsExample
  PlanInputs <- PlanInputsExample
  HistoryPolicy <- HistoryPolicyExample
  MaxTicks = 3
  MaxTermChanges = 1
INVARIANTS
  DamageIsBounded
  ObservedIsLowerBound
  StrongestCovers
  ListingRepresentsBatch
  SettlementPathIsReal
  PoolVerdictIsExact
  
  RecommendedWasPublished
  PlansRestOnOneWorker
  DriftIsHistory
\* The commands of the ledger are bounded; when they have all ended it stops.
CHECK_DEADLOCK FALSE
