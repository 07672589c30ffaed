-------------------------- MODULE PerturbationTests --------------------------
(***************************************************************************)
(* Tests on perturbed prices (internal/saas/perturbation/batch.go and       *)
(* test_service.go): batches of backtests on the source and on variants of  *)
(* it, their compute tasks and the analysis snapshots made of them.         *)
(*                                                                          *)
(* One test with one subject, so that a run is named by its dataset.  Which *)
(* variants are complete is an input.  Of a compute task there is what      *)
(* ComputeTask promises: one execution of an item at a time, and a status   *)
(* derived from its items.                                                  *)
(***************************************************************************)
EXTENDS Integers, SequencesExt, Lifecycle

CONSTANTS
  Visits, Viewers, \* requests in progress, and those that look at the test
  Variants, \* of the source
  TestLimits    \* bounds on batches, failures, cancellations, retries and crashes

\* A test has finitely many variants.
ASSUME VariantsAssumption == IsFiniteSet(Variants)

VARIABLES
  ready,    \* variants that are completed and valid
  testRun,      \* dataset -> its row of perturbation_test_runs, with or without a result
  batch,    \* rows of perturbation_test_batches
  workItem,     \* dataset -> the work item of its run
  exec,     \* dataset -> progress of the execution of its item
  test,     \* status and latest snapshot of the test
  snapshot, \* rows of perturbation_analysis_snapshots
  visit,     \* call -> its progress
  testLimit, testStruck

testVars == <<ready, testRun, batch, workItem, exec, test, snapshot, visit, testLimit, testStruck>>

Datasets == {"source"} \cup Variants
Manifests == {{"source"} \cup w : w \in SUBSET Variants}

NoVisit == [op |-> "none", step |-> "idle", manifest |-> {}, hits |-> 0, at |-> 0, new |-> {}, todo |-> {},
            ended |-> "none", completed |-> 0, failed |-> 0, seen |-> [d \in {} |-> <<"none", FALSE>>],
            batches |-> 0, planned |-> 0]

TestInit ==
  /\ ready \in SUBSET Variants
  /\ testRun = [d \in Datasets |-> [status |-> "none", batch |-> 0, result |-> FALSE]]
  /\ batch = <<>>
  /\ workItem = [d \in Datasets |-> "none"]
  /\ exec = [d \in Datasets |-> "idle"]
  /\ test = [status |-> "draft", latest |-> 0]
  /\ snapshot = <<>>
  /\ visit = [c \in Visits |-> NoVisit]
  /\ testLimit \in TestLimits
  /\ testStruck = [h \in DOMAIN testLimit |-> 0]

TestStrike(h) == testStruck[h] < testLimit[h] /\ testStruck' = [testStruck EXCEPT ![h] = @ + 1]
VisitAt(c, step) == visit[c].step = step
VisitGoto(c, step) == visit' = [visit EXCEPT ![c].step = step]
VisitEnds(c) == visit' = [visit EXCEPT ![c] = NoVisit]
RunIs(d, status) == testRun[d].status = status

RunsOf(b) == {d \in Datasets : testRun[d].batch = b}
RunsCompleted(b) == {d \in RunsOf(b) : RunIs(d, "completed")}
RunsBroken(b) == {d \in RunsOf(b) : testRun[d].status \in {"failed", "cancelled"}}

\* The task of a batch, once it was created.
BatchItems(b) == {workItem[d] : d \in RunsOf(b)} \ {"none"}
HasTask(b) == BatchItems(b) # {}
TaskStatus(b) == DeriveTaskStatus(BatchItems(b), TRUE, batch[b].cancel)

\* A variant is completed, or found corrupt.
VariantChanges(v) ==
  /\ TestStrike("change")
  /\ ready' = IF v \in ready THEN ready \ {v} ELSE ready \cup {v}
  /\ UNCHANGED <<testRun, batch, workItem, exec, test, snapshot, visit, testLimit>>
-----------------------------------------------------------------------------
(* StartBatch.                                                              *)

\* The plan is made anew, for all complete variants or for chosen ones.
Plan(c, m) ==
  /\ VisitAt(c, "idle") /\ m \subseteq {"source"} \cup ready /\ TestStrike("start")
  /\ visit' = [visit EXCEPT ![c] = [NoVisit EXCEPT !.op = "start", !.step = "reserve", !.manifest = m,
                                    !.hits = Cardinality({d \in m : RunIs(d, "completed")})]]
  /\ UNCHANGED <<ready, testRun, batch, workItem, exec, test, snapshot, testLimit>>

BatchWith(m) == {b \in DOMAIN batch : batch[b].manifest = m}

NewBatch(k) == [manifest |-> k.manifest, linked |-> FALSE, cancel |-> FALSE, status |-> "running",
                planned |-> Cardinality(k.manifest), hits |-> k.hits]

\* The transaction: there is one batch for a manifest and one run for a dataset.
ReserveBatch(c) ==
  /\ VisitAt(c, "reserve")
  /\ LET k == visit[c]
         b == Len(batch) + 1
         new == {d \in k.manifest : RunIs(d, "none")}
     IN IF BatchWith(k.manifest) # {}
        THEN /\ visit' = [visit EXCEPT ![c].step = "mark", ![c].at = CHOOSE o \in BatchWith(k.manifest) : TRUE]
             /\ UNCHANGED <<testRun, batch, test>>
        ELSE /\ batch' = Append(batch, NewBatch(k))
             /\ testRun' = [d \in Datasets |-> IF d \in new
                                              THEN [testRun[d] EXCEPT !.status = "pending", !.batch = b]
                                              ELSE testRun[d]]
             /\ test' = [test EXCEPT !.status = "running"]
             /\ visit' = [visit EXCEPT ![c].step = IF new = {} THEN "mark" ELSE "task",
                                       ![c].at = b, ![c].new = new]
  /\ UNCHANGED <<ready, workItem, exec, snapshot, testLimit, testStruck>>

\* Nothing is left to run: the batch is completed, and analysed.
MarkCompleted(c) ==
  /\ VisitAt(c, "mark")
  /\ batch' = [batch EXCEPT ![visit[c].at].status = "completed"]
  /\ VisitGoto(c, "runs")
  /\ UNCHANGED <<ready, testRun, workItem, exec, test, snapshot, testLimit, testStruck>>

\* A task that is too large is refused until the user confirms it.
CreateTask(c) ==
  /\ VisitAt(c, "task")
  /\ \/ /\ workItem' = [d \in Datasets |-> IF d \in visit[c].new THEN "pending" ELSE workItem[d]]
        /\ VisitGoto(c, "link") /\ UNCHANGED testStruck
     \/ TestStrike("refuse") /\ VisitEnds(c) /\ UNCHANGED workItem
  /\ UNCHANGED <<ready, testRun, batch, exec, test, snapshot, testLimit>>

LinkTask(c) ==
  /\ VisitAt(c, "link")
  /\ batch' = [batch EXCEPT ![visit[c].at].linked = TRUE]
  /\ VisitEnds(c)
  /\ UNCHANGED <<ready, testRun, workItem, exec, test, snapshot, testLimit, testStruck>>
-----------------------------------------------------------------------------
(* GetTest, with which every look at a test, its runs or its snapshots      *)
(* begins.                                                                  *)

EndedStates == {"completed", "failed", "cancelled"}

GetTest(c) ==
  /\ VisitAt(c, "idle") /\ c \in Viewers
  /\ LET open == {b \in DOMAIN batch :
                     batch[b].linked /\ batch[b].status \in {"running", "partially_completed"}}
     IN visit' = [visit EXCEPT ![c] = [NoVisit EXCEPT !.op = "get", !.step = "sync", !.todo = open]]
  /\ UNCHANGED <<ready, testRun, batch, workItem, exec, test, snapshot, testLimit, testStruck>>

ReadTask(c, b) ==
  /\ VisitAt(c, "sync") /\ b \in visit[c].todo
  /\ LET k == [visit[c] EXCEPT !.todo = @ \ {b}]
     IN visit' = [visit EXCEPT ![c] = IF TaskStatus(b) \in EndedStates
                                    THEN [k EXCEPT !.step = "count", !.at = b, !.ended = TaskStatus(b)]
                                    ELSE k]
  /\ UNCHANGED <<ready, testRun, batch, workItem, exec, test, snapshot, testLimit, testStruck>>

CountRuns(c) ==
  /\ VisitAt(c, "count")
  /\ LET b == visit[c].at
     IN visit' = [visit EXCEPT ![c].step = "write", ![c].completed = Cardinality(RunsCompleted(b)),
                             ![c].failed = Cardinality(RunsBroken(b))]
  /\ UNCHANGED <<ready, testRun, batch, workItem, exec, test, snapshot, testLimit, testStruck>>

\* Faulty variant: the hits are counted now, whatever became of their runs.
CacheHitsForAll(k) == Cardinality({d \in batch[k.at].manifest : testRun[d].batch # k.at})

CacheHits(k) == batch[k.at].hits

StatusFor(k) ==
  CASE k.completed + CacheHits(k) >= batch[k.at].planned -> "completed"
    [] k.ended = "cancelled" -> "cancelled"
    [] k.completed = 0 /\ k.failed > 0 -> "failed"
    [] OTHER -> "partially_completed"

WriteBatch(c) ==
  /\ VisitAt(c, "write")
  /\ batch' = [batch EXCEPT ![visit[c].at].status = StatusFor(visit[c])]
  /\ visit' = [visit EXCEPT ![c] = [NoVisit EXCEPT !.op = "get", !.step = "sync", !.todo = visit[c].todo]]
  /\ UNCHANGED <<ready, testRun, workItem, exec, test, snapshot, testLimit, testStruck>>

CountActive(c) ==
  /\ VisitAt(c, "sync") /\ visit[c].todo = {}
  /\ IF \E b \in DOMAIN batch : batch[b].status = "running" THEN VisitEnds(c) ELSE VisitGoto(c, "runs")
  /\ UNCHANGED <<ready, testRun, batch, workItem, exec, test, snapshot, testLimit, testStruck>>
-----------------------------------------------------------------------------
(* createAnalysisSnapshot.                                                  *)

ReadRuns(c) ==
  /\ VisitAt(c, "runs")
  /\ LET seen == [d \in {d \in Datasets : ~RunIs(d, "none")} |-> <<testRun[d].status, testRun[d].result>>]
     IN visit' = [visit EXCEPT ![c] = IF DOMAIN seen = {} THEN NoVisit
                                    ELSE [NoVisit EXCEPT !.op = visit[c].op, !.step = "batches", !.seen = seen]]
  /\ UNCHANGED <<ready, testRun, batch, workItem, exec, test, snapshot, testLimit, testStruck>>

ReadBatches(c) ==
  /\ VisitAt(c, "batches")
  /\ visit' = [visit EXCEPT ![c].step = "look", ![c].batches = Len(batch),
                          ![c].planned = MapThenSumSet(LAMBDA b : batch[b].planned, DOMAIN batch)]
  /\ UNCHANGED <<ready, testRun, batch, workItem, exec, test, snapshot, testLimit, testStruck>>

InStatus(seen, statuses) == Cardinality({d \in DOMAIN seen : seen[d][1] \in statuses})

\* Faulty variant: failed runs are taken for results.
CompleteWithGaps(k, failed, missing) == missing = 0

IsComplete(k, failed, missing) == missing = 0 /\ failed = 0

Analysis(k) ==
  LET valid == InStatus(k.seen, {"completed"})
      failed == InStatus(k.seen, {"failed", "cancelled"})
      missing == Max({0, k.planned - valid - failed})
  IN [seen |-> k.seen, batches |-> k.batches, planned |-> k.planned, valid |-> valid, failed |-> failed,
      missing |-> missing, complete |-> IsComplete(k, failed, missing)]

\* What analysis_set_hash and snapshot_key are made of; both are unique.
AnalysisSet(s) == <<s.seen, s.planned>>
SnapshotKey(s) == <<s.batches, s.planned, s.valid, s.failed, s.missing>>
AnalysisStored(s) == \E t \in Range(snapshot) : AnalysisSet(t) = AnalysisSet(s)
Conflict(s) == \E t \in Range(snapshot) : AnalysisSet(t) = AnalysisSet(s) \/ SnapshotKey(t) = SnapshotKey(s)

LookUp(c) ==
  /\ VisitAt(c, "look")
  /\ IF AnalysisStored(Analysis(visit[c])) THEN VisitEnds(c) ELSE VisitGoto(c, "create")
  /\ UNCHANGED <<ready, testRun, batch, workItem, exec, test, snapshot, testLimit, testStruck>>

\* StartBatch does not look at the error, GetTest answers with it.
CreateSnapshot(c) ==
  /\ VisitAt(c, "create")
  /\ LET s == Analysis(visit[c])
     IN IF Conflict(s)
        THEN /\ IF visit[c].op = "get" THEN VisitGoto(c, "error") ELSE VisitEnds(c)
             /\ UNCHANGED <<snapshot, test>>
        ELSE /\ snapshot' = Append(snapshot, s)
             /\ test' = [status |-> IF s.complete THEN "completed" ELSE "partially_completed",
                         latest |-> Len(snapshot) + 1]
             /\ VisitEnds(c)
  /\ UNCHANGED <<ready, testRun, batch, workItem, exec, testLimit, testStruck>>

AnswerError(c) == /\ VisitAt(c, "error") /\ VisitEnds(c)
                  /\ UNCHANGED <<ready, testRun, batch, workItem, exec, test, snapshot, testLimit, testStruck>>
-----------------------------------------------------------------------------
(* RunExecutor, and what a user does with the task.                         *)

Cancelled(d) == batch[testRun[d].batch].cancel

\* The version must be completed, valid and published.
ClaimRun(d) ==
  /\ workItem[d] = "pending"
  /\ workItem' = [workItem EXCEPT ![d] = "running"]
  /\ exec' = [exec EXCEPT ![d] = IF d \in {"source"} \cup ready THEN "backtest" ELSE "failing"]
  /\ UNCHANGED <<ready, testRun, batch, test, snapshot, visit, testLimit, testStruck>>

Backtest(d) ==
  /\ exec[d] = "backtest"
  /\ \/ exec' = [exec EXCEPT ![d] = "save"] /\ UNCHANGED <<testRun, testStruck>>
     \/ /\ TestStrike("fail")
        /\ exec' = [exec EXCEPT ![d] = "failing"] /\ testRun' = [testRun EXCEPT ![d].status = "failed"]
     \/ /\ Cancelled(d) /\ UNCHANGED testStruck
        /\ exec' = [exec EXCEPT ![d] = "failing"]
        /\ testRun' \in {testRun, [testRun EXCEPT ![d].status = "cancelled"]}
  /\ UNCHANGED <<ready, batch, workItem, test, snapshot, visit, testLimit>>

\* The update fails when the task was cancelled in time.
SaveRun(d) ==
  /\ exec[d] = "save"
  /\ \/ /\ exec' = [exec EXCEPT ![d] = "saved"]
        /\ testRun' = [testRun EXCEPT ![d].status = "completed", ![d].result = TRUE]
     \/ Cancelled(d) /\ exec' = [exec EXCEPT ![d] = "failing"] /\ UNCHANGED testRun
  /\ UNCHANGED <<ready, batch, workItem, test, snapshot, visit, testLimit, testStruck>>

ItemVerdict(d) ==
  CASE exec[d] = "saved" -> "completed"
    [] Cancelled(d) -> "cancelled"
    [] OTHER -> "failed"

EndItem(d) ==
  /\ exec[d] \in {"saved", "failing"}
  /\ workItem' = [workItem EXCEPT ![d] = ItemVerdict(d)] /\ exec' = [exec EXCEPT ![d] = "idle"]
  /\ UNCHANGED <<ready, testRun, batch, test, snapshot, visit, testLimit, testStruck>>

CancelBatch(b) ==
  /\ HasTask(b) /\ TaskStatus(b) # "completed" /\ ~batch[b].cancel /\ TestStrike("cancel")
  /\ batch' = [batch EXCEPT ![b].cancel = TRUE]
  /\ workItem' = [d \in Datasets |->
                    IF d \in RunsOf(b) /\ workItem[d] = "pending" THEN "cancelled" ELSE workItem[d]]
  /\ UNCHANGED <<ready, testRun, exec, test, snapshot, visit, testLimit>>

RetryBatch(b) ==
  /\ HasTask(b) /\ CanRetry(TaskStatus(b)) /\ TestStrike("retry")
  /\ batch' = [batch EXCEPT ![b].cancel = FALSE]
  /\ workItem' = [d \in Datasets |->
                    IF d \in RunsOf(b) /\ workItem[d] \in {"failed", "cancelled"} THEN "pending"
                    ELSE workItem[d]]
  /\ UNCHANGED <<ready, testRun, exec, test, snapshot, visit, testLimit>>

\* The server stops; some executions notice that and say so in their runs.  The
\* items are executed again when it is back, or cancelled if that was asked for.
TestRestart ==
  /\ TestStrike("crash")
  /\ \E noticed \in SUBSET {d \in Datasets : exec[d] = "backtest"} :
       testRun' = [d \in Datasets |->
                     IF d \in noticed THEN [testRun[d] EXCEPT !.status = "cancelled"] ELSE testRun[d]]
  /\ workItem' = [d \in Datasets |-> IF workItem[d] # "running" THEN workItem[d]
                                ELSE IF Cancelled(d) THEN "cancelled" ELSE "pending"]
  /\ exec' = [d \in Datasets |-> "idle"] /\ visit' = [c \in Visits |-> NoVisit]
  /\ UNCHANGED <<ready, batch, test, snapshot, testLimit>>

StartStep(c) == ReserveBatch(c) \/ MarkCompleted(c) \/ CreateTask(c) \/ LinkTask(c)

GetStep(c) ==
  \/ \E b \in DOMAIN batch : ReadTask(c, b)
  \/ CountRuns(c) \/ WriteBatch(c) \/ CountActive(c)
  \/ ReadRuns(c) \/ ReadBatches(c) \/ LookUp(c) \/ CreateSnapshot(c) \/ AnswerError(c)

RunExecution(d) == ClaimRun(d) \/ Backtest(d) \/ SaveRun(d) \/ EndItem(d)

TestNext ==
  \/ TestRestart
  \/ \E v \in Variants : VariantChanges(v)
  \/ \E c \in Visits : GetTest(c) \/ StartStep(c) \/ GetStep(c)
  \/ \E c \in Visits, m \in Manifests : Plan(c, m)
  \/ \E d \in Datasets : RunExecution(d)
  \/ \E b \in DOMAIN batch : CancelBatch(b) \/ RetryBatch(b)

TestSpec == TestInit /\ [][TestNext]_testVars
-----------------------------------------------------------------------------
\* A snapshot that is marked complete contains a completed run for every dataset
\* of every batch it counts, whatever runs and batches were added or tried again
\* while it was made (createAnalysisSnapshot).
CompleteMeansComplete ==
  \A s \in Range(snapshot) : s.complete =>
    \A b \in 1..s.batches, d \in Datasets :
      d \in batch[b].manifest => d \in DOMAIN s.seen /\ s.seen[d][1] = "completed"

\* syncTest marks a batch completed only if there is a backtest for each of its
\* datasets: the hits counted in its plan and the runs that it added make up the
\* manifest.
SyncTellsTruth ==
  [][\A c \in Visits : WriteBatch(c) /\ batch'[visit[c].at].status = "completed" =>
       \A d \in batch[visit[c].at].manifest : testRun[d].result]_testVars

\* An item that is completed has its run behind it, over cancellations, retries
\* and restarts (RunExecutor.Execute).
RunBehindItem == \A d \in Datasets : workItem[d] = "completed" => RunIs(d, "completed")

\* The runs of a test can be looked at, also after a cancellation.
RunsStayReadable == \A c \in Visits : ~VisitAt(c, "error")

\* A batch that is completed has all its results.
CompletedBatchHasResults ==
  \A b \in DOMAIN batch : batch[b].status = "completed" => \A d \in batch[b].manifest : testRun[d].result

\* A snapshot of a test of which every run is completed is marked complete.
WholeMeansComplete ==
  \A s \in Range(snapshot) : InStatus(s.seen, {"completed"}) = Cardinality(DOMAIN s.seen) => s.complete
=============================================================================
