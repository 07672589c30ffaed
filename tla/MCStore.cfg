CONSTANTS
  Rows <- AllRows
  TableOf <- RowTables
  Refs <- RowRefs
  Initial <- FirstRows
  Scenes <- RowScenes
  Day = 100
  Requests = {1, 2}
  Workers = {1, 2}
  LastContent = 2
  Wanted <- TwoKeys
  Attempts = 3
  SeriesLimits <- SomeSeries
  Visits = {1, 2}
  Viewers = {1}
  Variants = {"v1"}
  TestLimits <- SomeTests
SPECIFICATION StoreSpec
INVARIANTS
  ImportAccepted RestoreComplete
  TriesSuffice 
  CompleteMeansComplete
PROPERTIES  AuditedIsFrozen SyncTellsTruth
CHECK_DEADLOCK FALSE
