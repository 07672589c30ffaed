------------------------------- MODULE Backup -------------------------------
(***************************************************************************)
(* Backup and restore of the research database: scripts/backup/*.ps1 and    *)
(* cmd/backup-tool/main.go.  A full dump, then incremental archives of the  *)
(* rows changed since a marker, taken while the application goes on         *)
(* writing; after the machine is lost, the dump and the archives are put    *)
(* into a new database one by one.                                          *)
(*                                                                          *)
(* An export is not one snapshot: it reads table by table, each query in a  *)
(* transaction of its own, and then follows references to make the archive  *)
(* self-contained.  A transaction of the application stamps its rows when   *)
(* it runs and shows them when it commits.                                  *)
(***************************************************************************)
EXTENDS BackupTables

CONSTANTS
  Rows,        \* the rows that ever exist, each in one table
  TableOf,     \* row -> table
  Refs,        \* row -> the rows its columns name once they exist
  Initial,     \* those of them that a database starts with
  Scenes,      \* [rows, works, archives]: the rows of a database, the transactions, each
               \* [adds, changes] of rows, that the application may run on it, and a
               \* bound on its incremental archives
  Day          \* how far back the first archive reaches without a marker

\* Transactions write rows of their scene.
ASSUME ScenesAssumption == \A s \in Scenes : \A w \in s.works : w.adds \cup w.changes \subseteq s.rows

VARIABLES
  now,      \* clock: every stamp is a new instant
  db,       \* row -> [made, value]: stamps of its insertion and its last write, 0 when absent
  open,     \* running transactions of the application -> stamp
  scene,    \* the member of Scenes of this behaviour
  done,     \* those that have committed
  seen,     \* row -> when its last write became visible
  past,     \* row -> the stamps of all its writes
  script,   \* the backup script that runs
  marker,   \* backups/state/last-incremental-at.txt, 0 when missing
  full,     \* the full dump: [rows, start, marked, after]
  archives, \* the incremental archives in the order they were written
  target,   \* the database that is being restored
  audit     \* the gene observations of the last audit

vars == <<now, db, open, scene, done, seen, past, script, marker, full, archives, target, audit>>
production == <<now, db, open, scene, done, seen, past, audit>>

Absent == [made |-> 0, value |-> 0]
Empty == [r \in Rows |-> Absent]
RowsOf(table) == {r \in Rows : TableOf[r] = table}
Present(d) == {r \in Rows : d[r] # Absent}

\* The rows that the columns of r name, as r was written at the instant value.
Named(r, value) == {s \in Refs[r] : \E t \in past[s] : t <= value}

(***************************************************************************)
(* The queries of an export, in order.                                      *)
(***************************************************************************)
Query(op, from, to) == [op |-> op, from |-> from, to |-> to]

\* Rows created, or for most tables changed, since the marker.
SelectQueries == [i \in DOMAIN SelectOrder |-> Query("since", SelectOrder[i], SelectOrder[i])]

\* The tables of a family, read whole if the family has a row in the archive.
WholeFamily(family, more) ==
  LET tables == family \o more IN
  [i \in DOMAIN tables |-> Query("whole", family, tables[i])]

\* Rows of to that archived rows of from name.
Follow(pairs) == [i \in DOMAIN pairs |-> Query("named", pairs[i][1], pairs[i][2])]

\* Rows of to that name archived rows of from.
Children(pairs) == [i \in DOMAIN pairs |-> Query("naming", pairs[i][1], pairs[i][2])]

KlineInverseQueries ==
  WholeFamily(KlineInverseFamily, <<>>)
  \o Follow(<< <<"KlineInverseBatches", "ComputeTasks">>, <<"KlineInverseStudies", "BacktestResults">>,
               <<"KlineInverseEvaluations", "BacktestResults">>,
               <<"KlineInverseStudies", "GeneRecords">>, <<"KlineInverseStudies", "RobustCandidates">> >>)

ControlQueries ==
  WholeFamily(ControlFamily, <<>>)
  \o Follow(<< <<"ControlAnalysisTasks", "GeneRecords">>, <<"ControlAnalysisTasks", "RobustCandidates">>,
               <<"ControlAnalysisTasks", "ResearchConfigurations">>,
               <<"ControlAnalysisTasks", "ComputeTasks">>,
               <<"RandomParameterRecords", "BacktestResults">>,
               <<"ControlEvaluations", "BacktestResults">>,
               <<"ControlEvaluations", "PerformanceReports">> >>)

ParameterQueries ==
  WholeFamily(ParameterFamily, <<>>)
  \o Follow(<< <<"ResearchConfigurations", "GeneRecords">>, <<"CandidateGeneLinks", "GeneRecords">>,
               <<"ResearchStages", "ComputeTasks">>, <<"SurrogateSnapshots", "ComputeTasks">>,
               <<"ResearchPoints", "BacktestResults">>, <<"ResearchAnalyses", "RobustnessStudies">>,
               <<"ResearchAnalyses", "RobustnessSnapshots">>,
               <<"ResearchConfigurations", "DynamicModelStudies">>,
               <<"ResearchConfigurations", "DynamicPolicies">> >>)

PerturbationQueries ==
  WholeFamily(PerturbationFamily, <<>>)
  \o Follow(<< <<"PerturbationSnapshots", "MarketDataVersions">>,
               <<"PerturbationVariants", "MarketDataVersions">>,
               <<"PerturbationRuns", "MarketDataVersions">>, <<"PerturbationVariants", "ComputeTasks">>,
               <<"PerturbationBatches", "ComputeTasks">>, <<"PerturbationRuns", "BacktestResults">>,
               <<"PerturbationSubjects", "BacktestResults">>,
               <<"PerturbationRuns", "PerformanceReports">>, <<"PerturbationSubjects", "GeneRecords">>,
               <<"PerturbationSubjects", "RobustCandidates">> >>)

MarketQueries ==
  WholeFamily(MarketFamily, DatasetTables)
  \o Follow(<< <<"MarketDataVersions", "ResearchInstruments">>, <<"MarketDataVersions", "KLines">>,
               <<"MarketDataVersions", "ComputeTasks">>, <<"RecompositionPlans", "ComputeTasks">>,
               <<"RecompositionGenerations", "ComputeTasks">> >>)

RobustnessQueries ==
  Follow(<< <<"RobustnessPoints", "RobustnessStudies">>, <<"RobustnessSnapshots", "RobustnessStudies">> >>)
  \o Children(<< <<"RobustnessStudies", "RobustnessPoints">>,
                 <<"RobustnessStudies", "RobustnessSnapshots">> >>)
  \o Follow(<< <<"RobustnessStudies", "GeneRecords">>, <<"RobustnessStudies", "ComputeTasks">>,
               <<"RobustnessPoints", "BacktestResults">> >>)

DynamicQueries ==
  LET children == Tail(DynamicFamily) IN
  Follow([i \in DOMAIN children |-> <<children[i], "DynamicModelStudies">>])
  \o Children([i \in DOMAIN children |-> <<"DynamicModelStudies", children[i]>>])
  \o Follow(<< <<"DynamicModelStudies", "KLines">>, <<"DynamicModelStudies", "ComputeTasks">>,
               <<"DynamicMaterializations", "BacktestResults">>,
               <<"DynamicModelStudies", "GeneRecords">> >>)

\* One pass over the compute tables; the closure repeats it until it adds nothing.
ComputeQueries ==
  <<Query("pass", ComputeFamily, "ComputeTasks")>>
  \o Follow(<< <<"ComputeCacheEntries", "ComputeTaskItems">>, <<"ComputeTaskItems", "ComputeTasks">>,
               <<"ComputeDependencies", "ComputeTasks">>, <<"ComputeTasks", "ComputeTasks">> >>)
  \o Children(<< <<"ComputeTasks", "ComputeTasks">>, <<"ComputeTasks", "ComputeDependencies">>,
                 <<"ComputeTasks", "ComputeTaskItems">> >>)
  \o Follow(<< <<"ComputeTaskItems", "ComputeCacheEntries">> >>)
  \o <<Query("again", ComputeFamily, "ComputeTasks")>>

PerformanceQueries ==
  Children(<< <<"BacktestResults", "PerformanceReports">> >>)
  \o Follow(<< <<"PerformanceSummaries", "PerformanceReports">>,
               <<"PerformanceCharts", "PerformanceReports">> >>)
  \o Children(<< <<"PerformanceReports", "PerformanceSummaries">>,
                 <<"PerformanceReports", "PerformanceCharts">> >>)
  \o Follow(<< <<"PerformanceReports", "BacktestResults">> >>)

BacktestQueries ==
  Follow(<< <<"BacktestSummaries", "BacktestResults">>, <<"BacktestPathBlocks", "BacktestResults">>,
            <<"BacktestRuns", "BacktestResults">>, <<"BacktestResults", "BacktestSpecs">> >>)
  \o Children(<< <<"BacktestResults", "BacktestSummaries">>,
                 <<"BacktestResults", "BacktestPathBlocks">> >>)

FirstClosures ==
  KlineInverseQueries \o ControlQueries \o ParameterQueries \o PerturbationQueries
  \o MarketQueries \o RobustnessQueries \o DynamicQueries \o ComputeQueries

\* Faulty variant: results are followed before the reports that name them.
ExportQueriesSwapped ==
  SelectQueries \o FirstClosures \o BacktestQueries \o PerformanceQueries

\* The queries of an export.
ExportQueries ==
  SelectQueries \o FirstClosures
  \o PerformanceQueries \o BacktestQueries \o PerformanceQueries \o BacktestQueries

\* The queries that can find a row of a scene; the others need no step.
Positions ==
  [s \in Scenes |-> {i \in DOMAIN ExportQueries :
                      \/ RowsOf(ExportQueries[i].to) \cap s.rows # {}
                      \/ ExportQueries[i].op \in {"pass", "again"}}]

\* The next one after query i, or the end: a set of one position.
Following ==
  [s \in Scenes |-> [i \in 0 .. Len(ExportQueries) |->
     LET later == {j \in Positions[s] \cup {Len(ExportQueries) + 1} : j > i}
     IN {j \in later : \A k \in later : j <= k}]]

(***************************************************************************)
(* What a query adds to an archive.                                         *)
(***************************************************************************)

\* Faulty variant: no table is asked for rows that changed.
ChangedCreated(r, since) == db[r].made >= since

\* The row was created or, where the table keeps the time, changed since then.
Changed(r, since) ==
  \/ db[r].made >= since
  \/ /\ TableOf[r] \notin CreatedOnly
     /\ db[r].value >= since

\* The archive holds a row of one of the tables.
Holds(archive, tables) == \E r \in Present(archive) : TableOf[r] \in ToSet(tables)

Archived(archive, table) == {r \in RowsOf(table) : archive[r] # Absent}

\* The rows that query q finds in the database.
Found(q, archive, since) ==
  Present(db) \cap
  {r \in RowsOf(q.to) :
     CASE q.op = "since" -> Changed(r, since)
       [] q.op = "whole" -> Holds(archive, q.from)
       [] q.op = "named" -> \E f \in Archived(archive, q.from) : r \in Named(f, archive[f].value)
       [] q.op = "naming" -> \E p \in Archived(archive, q.from) : p \in Named(r, db[r].value)
       [] q.op \in {"pass", "again"} -> FALSE}

\* A row that is read again replaces the copy read before.
Read(q, archive, since) ==
  LET found == Found(q, archive, since) IN
  [r \in Rows |-> IF r \in found THEN db[r] ELSE archive[r]]

\* Where the pass over the compute tables starts.
ComputeStart == CHOOSE i \in DOMAIN ExportQueries : ExportQueries[i].op = "pass"

ComputeRows(archive) == {r \in Present(archive) : TableOf[r] \in ToSet(ComputeFamily)}

(***************************************************************************)
(* Restoring.                                                               *)
(***************************************************************************)

\* What an import checks of the rows it has saved: the rows they name, the rows
\* they are made of, which it counts or hashes, and the rows whose content must be
\* the one they were written with.
Checks(refs, parts, hashes) == [refs |-> refs \cup hashes, parts |-> parts, hashes |-> hashes]

ParameterChecks == Checks({}, {}, {<<"ResearchPoints", "BacktestResults">>})

ControlChecks ==
  Checks({<<"ControlAnalysisTasks", "ComputeTasks">>, <<"ControlAnalysisTasks", "ControlSnapshots">>},
         {}, {<<"ControlEvaluations", "BacktestResults">>})

DynamicChecks ==
  Checks({<<"DynamicModelStudies", "ComputeTasks">>}, {}, {<<"DynamicMaterializations", "BacktestResults">>})

RobustnessChecks ==
  Checks({<<"RobustnessStudies", "GeneRecords">>, <<"RobustnessStudies", "ComputeTasks">>},
         {}, {<<"RobustnessPoints", "BacktestResults">>})

MarketChecks ==
  Checks({}, {<<"MarketDataVersions", "MarketVersionBars">>, <<"MarketDataVersions", "RecompositionLineage">>}, {})

\* The stores of results and of reports verify their own.
BacktestChecks ==
  Checks(BacktestKeys, {<<"BacktestResults", "BacktestSummaries">>, <<"BacktestResults", "BacktestPathBlocks">>}, {})

PerformanceChecks ==
  Checks({}, {<<"PerformanceReports", "PerformanceSummaries">>, <<"PerformanceReports", "PerformanceCharts">>}, {})

ComputeChecks == Checks(ComputeKeys, {}, {})

AtomicChecks ==
  Checks({}, {<<"ComputeTasks", "ComputeTaskItems">>}, {<<"ComputeTaskItems", "ComputeCacheEntries">>})

CompositeChecks ==
  Checks({}, {<<"ComputeTasks", "ComputeTasks">>, <<"ComputeTasks", "ComputeDependencies">>}, {})

AllChecks ==
  {ParameterChecks, ControlChecks, DynamicChecks, RobustnessChecks, MarketChecks, BacktestChecks,
   PerformanceChecks, ComputeChecks, AtomicChecks, CompositeChecks}
VerifiedRefs == UNION {c.refs : c \in AllChecks}
VerifiedParts == UNION {c.parts : c \in AllChecks}
VerifiedHashes == UNION {c.hashes : c \in AllChecks}

Place(r) ==
  IF TableOf[r] \in ToSet(RestoreOrder)
  THEN CHOOSE i \in DOMAIN RestoreOrder : RestoreOrder[i] = TableOf[r]
  ELSE 0

\* The row is saved with every row it has a foreign key to before it.  Tasks
\* without a parent are saved before the others.
KeysHold(r, rows, before) ==
  \A s \in Named(r, rows[r].value) :
    <<TableOf[r], TableOf[s]>> \in ForeignKeys =>
      \/ before[s] # Absent
      \/ rows[s] # Absent /\ (Place(s) < Place(r) \/ TableOf[s] = TableOf[r])

\* The row, as archived, is found complete in the database d.
Verified(r, rows, d) ==
  /\ \A s \in Named(r, rows[r].value) :
       <<TableOf[r], TableOf[s]>> \in VerifiedRefs => d[s] # Absent
  /\ \A s \in Rows :
       /\ <<TableOf[r], TableOf[s]>> \in VerifiedParts
       /\ r \in Refs[s]
       /\ \E t \in past[s] : t <= rows[r].value
       => d[s] # Absent
  /\ \A s \in Named(r, rows[r].value) :
       <<TableOf[r], TableOf[s]>> \in VerifiedHashes =>
         \A t \in past[s] : t <= rows[r].value => t <= d[s].value

\* The database after the rows of an archive are saved over it.
Saved(rows, before) == [r \in Rows |-> IF rows[r] # Absent THEN rows[r] ELSE before[r]]

\* The import of the archive into the database before is committed.
Accepted(rows, before) ==
  \A r \in Present(rows) : KeysHold(r, rows, before) /\ Verified(r, rows, Saved(rows, before))

(***************************************************************************)
(* The application.                                                         *)
(***************************************************************************)
Idle == [step |-> "idle", since |-> 0, start |-> 0, at |-> 1, rows |-> Empty, mark |-> {}, raced |-> FALSE]
NoDump == [rows |-> Empty, start |-> 0, marked |-> 0, after |-> 0]
Running == target.step = "none"
WrittenBy(w) == w.adds \cup w.changes

WholeTables ==
  ToSet(KlineInverseFamily \o ControlFamily \o ParameterFamily \o PerturbationFamily
        \o MarketFamily \o DatasetTables)

Init ==
  /\ now = 1
  /\ scene \in Scenes
  /\ db = [r \in Rows |-> IF r \in Initial \cap scene.rows THEN [made |-> 1, value |-> 1] ELSE Absent]
  /\ open = <<>>
  /\ done = {}
  /\ seen = [r \in Rows |-> IF r \in Initial \cap scene.rows THEN 1 ELSE 0]
  /\ past = [r \in Rows |-> IF r \in Initial \cap scene.rows THEN {1} ELSE {}]
  /\ script = Idle
  /\ marker = 0
  /\ full = NoDump
  /\ archives = <<>>
  /\ target = [step |-> "none", db |-> Empty, next |-> 1]
  /\ audit = {}

\* Some row that w adds records the content of a row that v is writing.
RecordsUnsettled(w, v) ==
  \E r \in w.adds : \E s \in Refs[r] \cap WrittenBy(v) : <<TableOf[r], TableOf[s]>> \in VerifiedHashes

\* A transaction stamps what it writes; the rows it needs are there, and those
\* whose content it records are settled.
Begin(w) ==
  /\ Running
  /\ w \in scene.works \ done
  /\ w \notin DOMAIN open
  /\ w.changes \subseteq Present(db)
  /\ \A r \in w.adds : Refs[r] \subseteq Present(db) \cup w.adds
  /\ \A v \in DOMAIN open : WrittenBy(v) \cap WrittenBy(w) = {} /\ ~RecordsUnsettled(w, v)
  /\ now' = now + 1
  /\ open' = [v \in DOMAIN open \cup {w} |-> IF v = w THEN now' ELSE open[v]]
  /\ UNCHANGED <<db, scene, done, seen, past, script, marker, full, archives, target, audit>>

\* It commits.  Notes whether an export that is running reads its tables whole.
Commit(w) ==
  /\ Running
  /\ w \in DOMAIN open
  /\ db' = [r \in Rows |->
              CASE r \in w.adds -> [made |-> open[w], value |-> open[w]]
                [] r \in w.changes -> [made |-> db[r].made, value |-> open[w]]
                [] OTHER -> db[r]]
  /\ past' = [r \in Rows |-> IF r \in WrittenBy(w) THEN past[r] \cup {open[w]} ELSE past[r]]
  /\ open' = [v \in DOMAIN open \ {w} |-> open[v]]
  /\ done' = done \cup {w}
  /\ now' = now + 1
  /\ seen' = [r \in Rows |-> IF r \in WrittenBy(w) THEN now' ELSE seen[r]]
  /\ script' = [script EXCEPT !.raced =
                  \/ @
                  \/ /\ script.step = "export"
                     /\ \E r \in WrittenBy(w) : TableOf[r] \in WholeTables]
  /\ UNCHANGED <<scene, marker, full, archives, target, audit>>

Observations == {r \in Present(db) : TableOf[r] = "GeneObservations"}

\* audit-gene-observations prints the count and the hash of all observations.
Audit ==
  /\ Running
  /\ audit # Observations
  /\ audit' = Observations
  /\ UNCHANGED <<now, db, open, scene, done, seen, past, script, marker, full, archives, target>>

\* Faulty variant: the purge does not compare with the audit.
AuditIgnored(rows) == TRUE

\* The count and the hash given to the purge are those of the table.
AuditHolds(rows) == rows = audit

\* purge-gene-observations locks the table, which waits for its writers, audits
\* it again and deletes all rows or none.
Purge ==
  /\ Running
  /\ Observations # {}
  /\ \A w \in DOMAIN open : \A r \in WrittenBy(w) : TableOf[r] # "GeneObservations"
  /\ AuditHolds(Observations)
  /\ db' = [r \in Rows |-> IF r \in Observations THEN Absent ELSE db[r]]
  /\ UNCHANGED <<now, open, scene, done, seen, past, script, marker, full, archives, target, audit>>

(***************************************************************************)
(* The backup scripts.                                                      *)
(***************************************************************************)

\* full_backup.ps1: pg_dump takes one snapshot.
DumpFull ==
  /\ Running
  /\ script.step = "idle"
  /\ full = NoDump
  /\ now' = now + 1
  /\ script' = [Idle EXCEPT !.step = "dump", !.rows = db, !.start = now']
  /\ UNCHANGED <<db, open, scene, done, seen, past, marker, full, archives, target, audit>>

\* The dump is packed and encrypted; then both markers are set.
FinishFull ==
  /\ Running
  /\ script.step = "dump"
  /\ now' = now + 1
  /\ full' = [rows |-> script.rows, start |-> script.start, marked |-> now', after |-> Len(archives)]
  /\ marker' = now'
  /\ script' = Idle
  /\ UNCHANGED <<db, open, scene, done, seen, past, archives, target, audit>>

\* incremental_backup.ps1 reads the marker, or goes a day back without one.
StartIncremental ==
  /\ Running
  /\ script.step = "idle"
  /\ Len(archives) < scene.archives
  /\ now' = now + 1
  /\ \E first \in Following[scene][0] :
       script' = [Idle EXCEPT !.step = "export", !.start = now', !.at = first,
                              !.since = IF marker # 0 THEN marker
                                        ELSE IF now > Day THEN now - Day ELSE 1]
  /\ UNCHANGED <<db, open, scene, done, seen, past, marker, full, archives, target, audit>>

\* The next query of the export.
RunQuery ==
  /\ Running
  /\ script.step = "export"
  /\ script.at \in DOMAIN ExportQueries
  /\ LET q == ExportQueries[script.at]
         more == q.op = "again" /\ ComputeRows(script.rows) # script.mark
     IN \E next \in IF more THEN {ComputeStart} ELSE Following[scene][script.at] :
          script' = [script EXCEPT
                       !.rows = Read(q, script.rows, script.since),
                       !.mark = IF q.op = "pass" THEN ComputeRows(script.rows) ELSE @,
                       !.at = next]
  /\ UNCHANGED <<production, marker, full, archives, target>>

\* The archive is written, packed and encrypted.
WriteArchive ==
  /\ Running
  /\ script.step = "export"
  /\ script.at \notin DOMAIN ExportQueries
  /\ archives' = Append(archives, [rows |-> script.rows, start |-> script.start, marked |-> 0,
                                   raced |-> script.raced])
  /\ script' = [Idle EXCEPT !.step = "mark"]
  /\ UNCHANGED <<production, marker, full, target>>

\* The marker is set to the time at which the archive was finished.
SetMarker ==
  /\ Running
  /\ script.step = "mark"
  /\ now' = now + 1
  /\ marker' = now'
  /\ archives' = [archives EXCEPT ![Len(archives)].marked = now']
  /\ script' = Idle
  /\ UNCHANGED <<db, open, scene, done, seen, past, full, target, audit>>

(***************************************************************************)
(* Losing the machine and restoring.                                        *)
(***************************************************************************)

\* restore_full.ps1 puts the dump into an empty schema.
RestoreFull ==
  /\ Running
  /\ full # NoDump
  /\ target' = [step |-> "restoring", db |-> full.rows, next |-> full.after + 1]
  /\ script' = Idle
  /\ UNCHANGED <<production, marker, full, archives>>

\* restore_incremental.ps1: the next archive after the dump, in one transaction.
ImportNext ==
  /\ target.step = "restoring"
  /\ target.next \in DOMAIN archives
  /\ target' = IF Accepted(archives[target.next].rows, target.db)
               THEN [target EXCEPT !.db = Saved(archives[target.next].rows, @), !.next = @ + 1]
               ELSE [target EXCEPT !.step = "refused"]
  /\ UNCHANGED <<production, script, marker, full, archives>>

Next ==
  \/ Audit \/ Purge
  \/ \E w \in scene.works : Begin(w) \/ Commit(w)
  \/ DumpFull \/ FinishFull
  \/ StartIncremental \/ RunQuery \/ WriteArchive \/ SetMarker
  \/ RestoreFull \/ ImportNext

Spec == Init /\ [][Next]_vars

-----------------------------------------------------------------------------
\* Every table that is selected is restored, once, and every enforced reference
\* between archived tables points backwards in the order of restoration.
ASSUME RestoreOrderKeepsKeys ==
  /\ ToSet(RestoreOrder) = ToSet(SelectOrder)
  /\ \A i, j \in DOMAIN RestoreOrder :
       /\ RestoreOrder[i] = RestoreOrder[j] => i = j
       /\ <<RestoreOrder[i], RestoreOrder[j]>> \in ForeignKeys => j <= i

\* An archive is refused only if, while it was being exported, the application
\* committed writes to a family that is read table by table: the references that
\* an export follows make its archive self-contained, although rows appear and
\* change between its queries and earlier archives may lack rows.
ImportAccepted == target.step = "refused" => archives[target.next].raced

\* The last write of the row was stamped before a marker was set and became
\* visible after the export or dump before it had started.
InWindow(r) ==
  \E x \in {full} \cup ToSet(archives) : seen[r] > x.start /\ db[r].value < x.marked

\* Once all archives are imported, the restored database holds the last write of
\* every row that was visible when the last export started, unless the write
\* fell between an export and its marker, the table keeps no time of change, or
\* it is in no incremental archive and the row was written after the dump.
RestoreComplete ==
  target.step = "restoring" /\ target.next = Len(archives) + 1 =>
    \A r \in Present(db) :
      \/ target.db[r] = db[r]
      \/ InWindow(r)
      \/ TableOf[r] \in CreatedOnly /\ db[r].value # db[r].made
      \/ TableOf[r] \notin ToSet(SelectOrder) /\ seen[r] > full.start
      \/ seen[r] > IF archives = <<>> THEN full.start ELSE Last(archives).start

\* docs: an incremental archive holds what was added or changed since the full
\* backup.  So once all archives are imported, nothing is missing that was
\* visible when the last export started.
NothingLost ==
  target.step = "restoring" /\ target.next = Len(archives) + 1 =>
    \A r \in Present(db) :
      \/ target.db[r].value >= db[r].value
      \/ seen[r] > IF archives = <<>> THEN full.start ELSE Last(archives).start

\* No observation is purged that the audit given to the purge did not list, or
\* while the table holds others.
PurgeOnlyAudited ==
  [][\A r \in Rows : db[r] # Absent /\ db'[r] = Absent => Observations = audit]_vars
=============================================================================
