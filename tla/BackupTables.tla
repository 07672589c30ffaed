---------------------------- MODULE BackupTables ----------------------------
(***************************************************************************)
(* The catalogue of the incremental backup: the tables of an archive        *)
(* (cmd/backup-tool/main.go), how each is selected, the families that are   *)
(* archived together, the order in which rows are put back, and the         *)
(* references between tables (internal/saas/store/models.go).  A table has  *)
(* the name of its field in the struct incrementalBackup.                   *)
(***************************************************************************)
EXTENDS Naturals, Sequences, FiniteSets, SequencesExt

(***************************************************************************)
(* References between tables, as <<from, to>>.  A key is enforced by the    *)
(* database; a link is a column that names a row and that nothing enforces. *)
(***************************************************************************)
BacktestKeys ==
  {<<"BacktestResults", "BacktestSpecs">>, <<"BacktestSummaries", "BacktestResults">>,
   <<"BacktestPathBlocks", "BacktestResults">>, <<"PerformanceReports", "BacktestResults">>,
   <<"PerformanceSummaries", "PerformanceReports">>, <<"PerformanceCharts", "PerformanceReports">>}

ComputeKeys ==
  {<<"ComputeTasks", "ComputeTasks">>, <<"ComputeDependencies", "ComputeTasks">>,
   <<"ComputeTaskItems", "ComputeTasks">>, <<"ComputeTaskItems", "ComputeCacheEntries">>}

RobustnessKeys ==
  {<<"RobustnessPoints", "RobustnessStudies">>, <<"RobustnessPoints", "BacktestResults">>,
   <<"RobustnessSnapshots", "RobustnessStudies">>}

RunKeys ==
  {<<"BacktestRuns", "Users">>, <<"BacktestRuns", "StrategyInstances">>,
   <<"BacktestRuns", "BacktestResults">>}

VersionKeys ==
  {<<"MarketSeries", "Users">>, <<"MarketDataVersions", "Users">>,
   <<"MarketDataVersions", "MarketSeries">>, <<"MarketDataVersions", "ComputeTasks">>,
   <<"MarketVersionBars", "MarketDataVersions">>, <<"MarketVersionSources", "MarketDataVersions">>}

RecompositionKeys ==
  {<<"RecompositionPlans", "Users">>, <<"RecompositionPlans", "MarketDataVersions">>,
   <<"RecompositionPlans", "ComputeTasks">>, <<"RecompositionSegments", "RecompositionPlans">>,
   <<"RecompositionSegments", "MarketDataVersions">>,
   <<"RecompositionPreviewBars", "RecompositionPlans">>, <<"RecompositionGenerations", "Users">>,
   <<"RecompositionGenerations", "RecompositionPlans">>,
   <<"RecompositionGenerations", "MarketSeries">>,
   <<"RecompositionGenerations", "MarketDataVersions">>,
   <<"RecompositionGenerations", "ComputeTasks">>,
   <<"RecompositionInstances", "MarketDataVersions">>,
   <<"RecompositionLineage", "MarketDataVersions">>}

PerturbationKeys ==
  {<<"PerturbationSnapshots", "MarketDataVersions">>, <<"PerturbationGroups", "PerturbationSnapshots">>,
   <<"PerturbationGroups", "MarketSeries">>, <<"PerturbationVariants", "PerturbationGroups">>,
   <<"PerturbationVariants", "PerturbationSnapshots">>,
   <<"PerturbationVariants", "MarketDataVersions">>, <<"PerturbationVariants", "ComputeTasks">>,
   <<"PerturbationTests", "PerturbationGroups">>, <<"PerturbationSubjects", "PerturbationTests">>,
   <<"PerturbationBatches", "PerturbationTests">>, <<"PerturbationBatches", "ComputeTasks">>}

PerturbationRunKeys ==
  {<<"PerturbationRuns", "PerturbationSubjects">>, <<"PerturbationRuns", "MarketDataVersions">>,
   <<"PerturbationRuns", "BacktestResults">>, <<"PerturbationRuns", "PerformanceReports">>,
   <<"PerturbationAnalyses", "PerturbationTests">>, <<"ResearchDatasetSeries", "ResearchDatasets">>}

DynamicKeys ==
  {<<"DynamicModelStudies", "Users">>, <<"DynamicModelStudies", "ComputeTasks">>,
   <<"DynamicModelArtifacts", "DynamicModelStudies">>, <<"DynamicPredictions", "DynamicModelStudies">>,
   <<"DynamicPolicies", "Users">>, <<"DynamicPolicies", "DynamicModelStudies">>,
   <<"DynamicPolicies", "DynamicPredictions">>}

DynamicResultKeys ==
  {<<"DynamicMaterializations", "Users">>, <<"DynamicMaterializations", "DynamicModelStudies">>,
   <<"DynamicMaterializations", "DynamicPredictions">>,
   <<"DynamicMaterializations", "DynamicPolicies">>,
   <<"DynamicMaterializations", "BacktestResults">>,
   <<"DynamicReportSnapshots", "DynamicModelStudies">>,
   <<"DynamicReportSnapshots", "DynamicPredictions">>, <<"DynamicReportBlocks", "DynamicModelStudies">>}

ParameterKeys ==
  {<<"ResearchConfigurations", "Users">>, <<"ResearchConfigMetadata", "ResearchConfigurations">>,
   <<"ResearchRuns", "ResearchConfigurations">>, <<"ResearchStages", "ResearchRuns">>,
   <<"ResearchStages", "ComputeTasks">>, <<"ResearchPoints", "ResearchConfigurations">>,
   <<"ResearchPoints", "BacktestResults">>}

ForeignKeys ==
  UNION {BacktestKeys, ComputeKeys, RobustnessKeys, RunKeys, VersionKeys, RecompositionKeys,
         PerturbationKeys, PerturbationRunKeys, DynamicKeys, DynamicResultKeys, ParameterKeys}

(***************************************************************************)
(* Families.  If one row of such a family is in the archive, the whole      *)
(* tables of the family are read again, in this order.                      *)
(***************************************************************************)
KlineInverseFamily ==
  <<"KlineInverseStudies", "KlineInverseCalibrations", "KlineInverseBatches", "KlineInversePaths",
    "KlineInverseEvaluations", "KlineInverseLineage", "KlineInverseSnapshots",
    "KlineInverseProbes", "KlineInverseSourceLinks">>

ControlFamily ==
  <<"RandomParameterBatches", "RandomParameterRecords", "ControlAnalysisTasks",
    "ControlEvaluations", "ControlSnapshots", "ControlSnapshotMembers">>

ParameterFamily ==
  <<"ResearchConfigurations", "ResearchConfigMetadata", "ResearchRuns", "ResearchStages",
    "ResearchPoints", "ResearchPointOrigins", "ResearchAnalyses", "RobustRegions",
    "RobustRegionPoints", "RobustCandidates", "CandidateAnalysisLinks", "CandidateGeneLinks",
    "ResearchSeries", "ResearchSeriesMembers", "ResearchComparisons", "SurrogateSnapshots",
    "SurrogateProposals">>

PerturbationFamily ==
  <<"PerturbationSnapshots", "PerturbationGroups", "PerturbationVariants", "PerturbationTests",
    "PerturbationSubjects", "PerturbationBatches", "PerturbationRuns", "PerturbationAnalyses",
    "PerturbationMetrics", "PerturbationQualifications">>

MarketFamily ==
  <<"MarketSeries", "MarketDataVersions", "MarketVersionBars", "MarketVersionSources",
    "RecompositionPlans", "RecompositionSegments", "RecompositionPreviewBars",
    "RecompositionGenerations", "RecompositionInstances", "RecompositionLineage">>

RobustnessFamily == <<"RobustnessStudies", "RobustnessPoints", "RobustnessSnapshots">>

DynamicFamily ==
  <<"DynamicModelStudies", "DynamicModelArtifacts", "DynamicPredictions", "DynamicPolicies",
    "DynamicMaterializations", "DynamicReportSnapshots", "DynamicReportBlocks">>

ComputeFamily == <<"ComputeTasks", "ComputeCacheEntries", "ComputeTaskItems", "ComputeDependencies">>

(***************************************************************************)
(* Selection and restoration.                                               *)
(***************************************************************************)

\* The tables of which only the creation time is looked at.
CreatedOnly ==
  {"GeneObservations", "BacktestSpecs", "BacktestSummaries", "BacktestPathBlocks",
   "PerformanceSummaries", "PerformanceCharts", "ComputeDependencies", "RobustnessSnapshots",
   "MarketVersionBars", "MarketVersionSources", "RecompositionSegments", "RecompositionPreviewBars",
   "RecompositionInstances", "RecompositionLineage", "PerturbationSubjects",
   "PerturbationAnalyses", "PerturbationMetrics", "PerturbationQualifications",
   "ResearchPointOrigins", "ResearchAnalyses", "RobustRegions", "RobustRegionPoints",
   "ResearchSeriesMembers", "ResearchComparisons", "SurrogateProposals",
   "RandomParameterRecords", "ControlSnapshots", "ControlSnapshotMembers"}
  \cup (ToSet(DynamicFamily) \ {"DynamicModelStudies"})
  \cup (ToSet(KlineInverseFamily) \ {"KlineInverseStudies", "KlineInverseBatches"})

LeadingTables ==
  <<"ResearchInstruments", "KLines", "DatasetMetadata", "DailySnapshots", "GeneRecords",
    "GeneObservations", "EvolutionTasks", "BacktestSpecs", "BacktestResults",
    "BacktestSummaries", "BacktestPathBlocks">>

PerformanceTables == <<"PerformanceReports", "PerformanceSummaries", "PerformanceCharts">>

DatasetTables == <<"ResearchDatasets", "ResearchDatasetSeries">>

\* The order of the first selection.
SelectOrder ==
  LeadingTables \o <<"BacktestRuns">> \o PerformanceTables \o ComputeFamily \o RobustnessFamily
  \o DynamicFamily \o MarketFamily
  \o <<"PerturbationSnapshots", "PerturbationGroups", "PerturbationVariants", "PerturbationTests",
       "PerturbationBatches", "PerturbationRuns", "PerturbationSubjects", "PerturbationAnalyses",
       "PerturbationMetrics", "PerturbationQualifications">>
  \o DatasetTables
  \o <<"ResearchConfigurations", "ResearchConfigMetadata", "ResearchRuns", "ResearchStages",
       "ResearchPoints", "RobustCandidates", "CandidateAnalysisLinks", "CandidateGeneLinks",
       "ResearchSeries", "SurrogateSnapshots", "ResearchPointOrigins", "ResearchAnalyses",
       "RobustRegions", "RobustRegionPoints", "ResearchSeriesMembers", "ResearchComparisons",
       "SurrogateProposals">>
  \o <<"RandomParameterBatches", "ControlAnalysisTasks", "ControlEvaluations",
       "RandomParameterRecords", "ControlSnapshots", "ControlSnapshotMembers">>
  \o <<"KlineInverseStudies", "KlineInverseBatches", "KlineInverseCalibrations",
       "KlineInversePaths", "KlineInverseEvaluations", "KlineInverseLineage",
       "KlineInverseSnapshots", "KlineInverseProbes", "KlineInverseSourceLinks">>

\* The order in which an import saves the tables.
RestoreOrder ==
  LeadingTables \o PerformanceTables \o ComputeFamily \o RobustnessFamily
  \o DynamicFamily \o MarketFamily \o PerturbationFamily \o DatasetTables \o <<"BacktestRuns">>
  \o ParameterFamily \o ControlFamily \o KlineInverseFamily
=============================================================================
