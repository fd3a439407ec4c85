SPECIFICATION Spec
CONSTANTS
  Endpoints = {e1, e2}
  MaxBlocks = 3
  V1States <- V1Example
  V1Mcr = 2
  V1Precision = 2
  V1BatchSize = 2
  V1MaxTroves = 3
  V1RewardShare = 2
  V1Gas = 5
  Infinite = 1000
  V2States <- V2Example
  Branches <- TwoBranches
  V2BatchSize = 2
  V2MaxTroves = 3
  FixedReward = 3
  V2Gas = 2
  GStates <- GExample
  MaxVessels = 2
  GRewardShare = 2
  GGas = 2
INVARIANTS
  RecordsAreTrue
  NothingMissed
