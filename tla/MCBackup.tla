------------------------------ MODULE MCBackup ------------------------------
(***************************************************************************)
(* Small instance of Backup for TLC: a database of a few rows of most        *)
(* families, and scenes of two or three transactions that meet an export.    *)
(***************************************************************************)
EXTENDS Backup, TLC

RowTables ==
  [user |-> "Users", gene |-> "GeneRecords", run |-> "BacktestRuns",
   spec1 |-> "BacktestSpecs", result1 |-> "BacktestResults", summary1 |-> "BacktestSummaries",
   block1 |-> "BacktestPathBlocks", spec2 |-> "BacktestSpecs", result2 |-> "BacktestResults",
   report |-> "PerformanceReports", chart |-> "PerformanceCharts",
   task |-> "ComputeTasks", stage |-> "ComputeTasks", item |-> "ComputeTaskItems",
   cache |-> "ComputeCacheEntries", study |-> "RobustnessStudies", point |-> "RobustnessPoints",
   series |-> "MarketSeries", version |-> "MarketDataVersions", bars |-> "MarketVersionBars",
   lineage |-> "RecompositionLineage", snapshot |-> "PerturbationSnapshots",
   group |-> "PerturbationGroups", configuration |-> "ResearchConfigurations",
   rpoint |-> "ResearchPoints", proposal |-> "SurrogateProposals", dynamic |-> "DynamicModelStudies",
   prediction |-> "DynamicPredictions", policy |-> "DynamicPolicies",
   seen1 |-> "GeneObservations", seen2 |-> "GeneObservations"]

AllRows == DOMAIN RowTables

RowRefs ==
  [r \in AllRows |->
    CASE r = "run" -> {"user", "result1"}
      [] r = "result1" -> {"spec1"}
      [] r \in {"summary1", "block1"} -> {"result1"}
      [] r = "result2" -> {"spec2"}
      [] r = "report" -> {"result1", "result2"}
      [] r = "chart" -> {"report"}
      [] r = "stage" -> {"task"}
      [] r = "item" -> {"stage", "cache"}
      [] r = "cache" -> {"item"}
      [] r = "study" -> {"gene"}
      [] r = "point" -> {"study", "result1"}
      [] r = "series" -> {"user"}
      [] r = "version" -> {"user", "series"}
      [] r \in {"bars", "lineage"} -> {"version"}
      [] r = "snapshot" -> {"version"}
      [] r = "group" -> {"snapshot", "series"}
      [] r = "configuration" -> {"user", "gene"}
      [] r = "rpoint" -> {"configuration", "result1"}
      [] r = "prediction" -> {"dynamic"}
      [] r = "policy" -> {"user", "dynamic", "prediction"}
      [] OTHER -> {}]

FirstRows ==
  {"user", "gene", "run", "spec1", "result1", "task", "stage", "item", "series",
   "configuration", "proposal", "dynamic"}

Work(adds, changes) == [adds |-> adds, changes |-> changes]

CompleteResult == Work({"summary1", "block1"}, {"result1"})
TouchRun == Work({}, {"run"})
NewBaseline == Work({"spec2", "result2"}, {})
NewReport == Work({"report", "chart"}, {})
FinishItem == Work({"cache"}, {"item"})
TouchCache == Work({}, {"cache"})
NewStudy == Work({"study"}, {"gene"})
NewPoint == Work({"point"}, {"study"})
NewVersion == Work({"version", "bars", "lineage"}, {"series"})
NewGroup == Work({"snapshot", "group"}, {})
NewResearchPoint == Work({"rpoint"}, {})
TouchProposal == Work({}, {"proposal"})
NewPrediction == Work({"prediction"}, {"dynamic"})
NewPolicy == Work({"policy"}, {})
ObserveOne == Work({"seen1"}, {})
ObserveTwo == Work({"seen2"}, {})

Scene(rows, works, limit) == [rows |-> rows, works |-> works, archives |-> limit]

ResultRows == {"user", "run", "spec1", "result1", "summary1", "block1"}
ResearchRows == {"user", "gene", "configuration", "spec1", "result1", "rpoint", "proposal"}

RowScenes ==
  {Scene(ResultRows \cup {"spec2", "result2", "report", "chart"}, {TouchRun, NewBaseline, NewReport}, 1),
   Scene(ResultRows \cup {"gene", "study", "point"}, {CompleteResult, NewPoint, NewStudy}, 1),
   Scene({"task", "stage", "item", "cache"}, {FinishItem, TouchCache}, 2),
   Scene({"user", "series", "version", "bars", "lineage", "snapshot", "group"}, {NewVersion, NewGroup}, 2),
   Scene(ResearchRows, {NewResearchPoint, TouchProposal}, 2),
   Scene({"user", "dynamic", "prediction", "policy"}, {NewPrediction, NewPolicy}, 2),
   Scene({"seen1", "seen2"}, {ObserveOne, ObserveTwo}, 1)}

WindowScenes == {Scene(ResultRows, {TouchRun}, 1)}

(***************************************************************************)
(* A transaction that the next query does not see may as well commit later: *)
(* the queries in between neither read its rows nor change what it does.    *)
(* An archive from before the dump is not restored, and one that is not     *)
(* finished when the machine is lost is not either.                         *)
(***************************************************************************)
TablesOf(works) == {TableOf[r] : r \in UNION {WrittenBy(w) : w \in works}}

Matters(works) ==
  script.step = "export" /\ script.at \in DOMAIN ExportQueries => ExportQueries[script.at].to \in TablesOf(works)

MCNext ==
  \/ Audit \/ Purge
  \/ Matters(scene.works) /\ \E w \in scene.works : Begin(w)
  \/ \E w \in scene.works : Matters({w}) /\ Commit(w)
  \/ DumpFull \/ FinishFull
  \/ full # NoDump /\ StartIncremental
  \/ RunQuery \/ WriteArchive \/ SetMarker
  \/ script.step # "export" /\ RestoreFull
  \/ ImportNext

MCSpec == Init /\ [][MCNext]_vars
=============================================================================
