CONSTANTS
  Rows <- AllRows
  TableOf <- RowTables
  Refs <- RowRefs
  Initial <- FirstRows
  Scenes <- WindowScenes
  Day = 100
SPECIFICATION MCSpec
INVARIANTS NothingLost
CHECK_DEADLOCK FALSE
