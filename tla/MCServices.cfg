CONSTANTS
  Size = 4
  StageCount = 3
  Calls = {1, 2}
  KeyOf <- SameKey
  KindsOf <- AllKinds
  Attempts = 2
  MaxResult = 3
  Limits <- OneHazard
  MaxTask = 2
  Callers = {1}
  Modes = {"single", "continuous", "standardized_best"}
  Iterations = 2
  Generations = 1
  Bounds <- CrashAndFault
  Updates = {1, 2}
  Cron = 1
  Sources = {"yahoo", "binance"}
  FirstClosed = 2
  LastClosed = 3
  WeekLength = 2
  Recent = 1
  Page = 2
  Spans <- SomeSpans
  MarketLimits <- OneRequest
SPECIFICATION ServicesSpec
INVARIANTS
  TaskStatusAgrees CompositeStatusAgrees
  SingleExecution AuditPasses RunsAgree
  OneKnownRun RunningHasRun 
  LabelHonest
PROPERTIES  CallsReturn EndIsFinal CancelEnds CatchesUp
CHECK_DEADLOCK FALSE
