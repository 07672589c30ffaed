CONSTANTS
  Instances = {i1}
  Ticks = {t1, t2}
  Conns = {c1, c2}
  MaxBar = 2
  Month <- SameMonth
  Faults <- MixedFaults
  Score <- SomeScores
  PopSize = 2
  EliteCount = 1
  MaxGenerations = 2
  EarlyStopMinDelta = 2
  EarlyStopPatience = 2
  MaxRamps = 1
  MaxEpochs = 2
  Limits <- CrashOrFault
  Records = {"a", "b", "c"}
  ScopeOf <- TwoScopes
  Clients = {1, 2}
  MaxRequests = 4
  Callers = {1, 2}
  KindsOf <- SomeKinds
  Batch = 1
  Near = {1}
  MaxPoint = 3
  MaxStages = 3
  RunLimits <- RequestsOrRot
SPECIFICATION DeskSpec
INVARIANTS
  BookedOnce PlacedOnce HoldingsComplete
  EvaluatedOnce BestIsSaved
  OneChampionInTurn ChampionIsReplaced
  SobolContiguous 
CHECK_DEADLOCK FALSE
