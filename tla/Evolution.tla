----------------------------- MODULE Evolution -----------------------------
(***************************************************************************)
(* Evolution tasks (internal/saas/epoch/service.go) and the handler that    *)
(* lists them (internal/saas/api/handler_evolution.go): one task at a time, *)
(* a goroutine that runs its epochs, cancellation through a context or,     *)
(* when no goroutine is known, in the database, and the repair of rows      *)
(* whose goroutine died with the server.                                    *)
(*                                                                          *)
(* What the service does under its mutex is one step, and so is every       *)
(* statement.  A parameter pack is named by the iteration that found it;    *)
(* the search itself is module GeneSearch.                                  *)
(***************************************************************************)
EXTENDS Naturals, FiniteSets

CONSTANTS
  MaxTask,     \* bound on the ids of the rows
  Callers,     \* concurrent requests to cancel or to list
  Modes,       \* of {"single", "continuous", "standardized_best"}
  Iterations,  \* ContinuousIterations
  Generations, \* MaxGenerations
  Bounds       \* bounds, one of which holds: [crash, fault]

\* A continuous request with fewer is refused.
ASSUME IterationsAssumption == Iterations \in Nat \ {0}

VARIABLES
  row,         \* task -> its row: status, and the result's best pack and gene_record_id
  currentTask, \* the service's field, or NoTask
  cancelFuncs, \* tasks with a cancel function
  cancelled,   \* tasks whose context is cancelled
  job,         \* task -> its goroutine
  reqs,        \* caller -> its request
  genes,       \* task -> pack -> how many gene records hold it
  up,          \* the server runs
  mishap       \* how often crashes and faults happened

evolutionVars == <<row, currentTask, cancelFuncs, cancelled, job, reqs, genes, up, mishap>>

Tasks == 1..MaxTask
NoTask == 0
NoPack == 0
Blank == [status |-> "none", best |-> NoPack, gene |-> FALSE]
NoJob == [step |-> "none", mode |-> "none", iteration |-> 0, generation |-> 0, outcome |-> "none", last |-> NoPack]
NoCall == [step |-> "idle", task |-> NoTask, best |-> NoPack]

Active(t) == job[t].step # "none"
Closed == {"done", "failed", "cancelled"}

Mishap(h) == /\ mishap' = [mishap EXCEPT ![h] = @ + 1]
             /\ \E budget \in Bounds : \A k \in DOMAIN mishap : mishap'[k] <= budget[k]

EvolutionInit == /\ row = [t \in Tasks |-> Blank]
                 /\ currentTask = NoTask
                 /\ cancelFuncs = {} /\ cancelled = {}
                 /\ job = [t \in Tasks |-> NoJob]
                 /\ reqs = [c \in Callers |-> NoCall]
                 /\ genes = [t \in Tasks |-> [p \in 1..Iterations |-> 0]]
                 /\ up = TRUE
                 /\ mishap = [h \in {"crash", "fault"} |-> 0]
-----------------------------------------------------------------------------
(* CreateAndRunTask, under the mutex *)

\* Faulty variant: the cancel function is registered by the goroutine later.
RegisteredLate(t) == cancelFuncs

Registered(t) == cancelFuncs \cup {t}

CreateAndRunTask(t) ==
  /\ up /\ currentTask = NoTask
  /\ row[t].status = "none" /\ \A s \in Tasks : s < t => row[s].status # "none"
  /\ row' = [row EXCEPT ![t].status = "running"]
  /\ currentTask' = t
  /\ cancelFuncs' = Registered(t)
  /\ \E mode \in Modes :
       job' = [job EXCEPT ![t] = [NoJob EXCEPT !.step = "loop", !.mode = mode]]
  /\ UNCHANGED <<cancelled, reqs, genes, up, mishap>>
-----------------------------------------------------------------------------
(* runEpoch and runContinuousEpochs *)

At(t, step) == up /\ job[t].step = step
Goto(t, step) == job' = [job EXCEPT ![t].step = step]

\* Faulty variant: only a single epoch saves its best.
StopsUnsaved(t, outcome) ==
  job' = [job EXCEPT ![t].step = IF outcome = "cancelled" /\ job[t].mode = "single" THEN "read" ELSE "final",
                     ![t].outcome = outcome]

\* Faulty variant: a cancelled run leaves at once.
StopsSilently(t, outcome) ==
  job' = [job EXCEPT ![t].step = IF outcome = "cancelled" THEN "leave" ELSE "final",
                     ![t].outcome = outcome]

Stops(t, outcome) ==
  job' = [job EXCEPT ![t].step = IF outcome = "cancelled" THEN "read" ELSE "final",
                     ![t].outcome = outcome]
Result(t, pack, gene) == row' = [row EXCEPT ![t].best = pack, ![t].gene = gene]
RunOnly == UNCHANGED <<currentTask, cancelFuncs, cancelled, reqs, up>>

\* How the epochs of the task's mode are counted.
Planned(t) == IF job[t].mode = "single" THEN 1 ELSE Iterations

\* The head of the loop; a single epoch meets it once before its only round
\* and does not look at its context here.
Loop(t) ==
  /\ At(t, "loop")
  /\ IF t \in cancelled /\ job[t].mode # "single" THEN Stops(t, "cancelled")
     ELSE IF job[t].iteration >= Planned(t)
     THEN job' = [job EXCEPT ![t].step = IF job[t].mode = "single" THEN "final" ELSE "snapshot",
                             ![t].outcome = "done"]
     ELSE job' = [job EXCEPT ![t].step = "evolve", ![t].iteration = @ + 1, ![t].generation = 0]
  /\ RunOnly /\ UNCHANGED <<row, genes, mishap>>

\* One generation: the context is looked at, then OnProgress writes the best.
Generation(t) ==
  /\ At(t, "evolve") /\ job[t].generation < Generations
  /\ IF t \in cancelled THEN Stops(t, "cancelled") /\ UNCHANGED row
     ELSE /\ job' = [job EXCEPT ![t].generation = @ + 1]
          /\ Result(t, job[t].iteration, FALSE)
  /\ RunOnly /\ UNCHANGED <<genes, mishap>>

\* The error of OnProgress's statement is ignored.
ProgressFails(t) ==
  /\ At(t, "evolve") /\ job[t].generation < Generations /\ t \notin cancelled
  /\ Mishap("fault")
  /\ job' = [job EXCEPT ![t].generation = @ + 1]
  /\ RunOnly /\ UNCHANGED <<row, genes>>

\* The search may fail at any time, with its context's error when cancelled.
EpochFails(t) ==
  /\ At(t, "evolve")
  /\ Stops(t, IF t \in cancelled THEN "cancelled" ELSE "failed")
  /\ RunOnly /\ UNCHANGED <<row, genes, mishap>>

\* SaveChallenger, after all generations or an early stop.
EpochSaves(t) ==
  /\ At(t, "evolve") /\ job[t].generation > 0 /\ t \notin cancelled
  /\ genes' = [genes EXCEPT ![t][job[t].iteration] = @ + 1]
  /\ job' = [job EXCEPT ![t].last = job[t].iteration,
                        ![t].step = CASE job[t].mode = "single" -> "loop"
                                      [] job[t].mode = "continuous" -> "snapshot"
                                      [] OTHER -> "champion"]
  /\ RunOnly /\ UNCHANGED <<row, mishap>>

\* refreshStandardizedChampion evaluates gene records; it fails when cancelled.
RefreshChampion(t) ==
  /\ At(t, "champion")
  /\ \/ Goto(t, "snapshot")
     \/ Stops(t, IF t \in cancelled THEN "cancelled" ELSE "failed")
  /\ RunOnly /\ UNCHANGED <<row, genes, mishap>>

\* writeContinuousSnapshot, after an iteration and at the end; its error is ignored.
Snapshot(t) ==
  /\ At(t, "snapshot")
  /\ \/ Result(t, job[t].last, TRUE) /\ UNCHANGED mishap
     \/ Mishap("fault") /\ UNCHANGED row
  /\ Goto(t, IF job[t].outcome = "done" THEN "final" ELSE "loop")
  /\ RunOnly /\ UNCHANGED genes
-----------------------------------------------------------------------------
(* saveCancelledBest: the row is read, the gene inserted, the row marked *)

Worth(r) == r.best # NoPack /\ ~r.gene

SaveReads(t) ==
  /\ At(t, "read")
  /\ job' = [job EXCEPT ![t].step = IF Worth(row[t]) THEN "insert" ELSE "final",
                        ![t].last = row[t].best]
  /\ RunOnly /\ UNCHANGED <<row, genes, mishap>>

SaveInserts(t) ==
  /\ At(t, "insert")
  /\ \/ /\ genes' = [genes EXCEPT ![t][job[t].last] = @ + 1]
        /\ Goto(t, "mark")
        /\ UNCHANGED mishap
     \/ /\ Mishap("fault")
        /\ Goto(t, "final")
        /\ UNCHANGED genes
  /\ RunOnly /\ UNCHANGED row

SaveMarks(t) ==
  /\ At(t, "mark")
  /\ \/ Result(t, job[t].last, TRUE) /\ UNCHANGED mishap
     \/ Mishap("fault") /\ UNCHANGED row
  /\ Goto(t, "final")
  /\ RunOnly /\ UNCHANGED genes

\* The last update names the row by its id alone; a single epoch's result is
\* part of it.  Its error is ignored.
Final(t) ==
  /\ At(t, "final")
  /\ \/ /\ row' = [row EXCEPT ![t].status = job[t].outcome,
                              ![t].best = IF job[t].mode = "single" /\ job[t].outcome = "done" THEN job[t].last ELSE @,
                              ![t].gene = IF job[t].mode = "single" /\ job[t].outcome = "done" THEN TRUE ELSE @]
        /\ UNCHANGED mishap
     \/ Mishap("fault") /\ UNCHANGED row
  /\ Goto(t, "leave")
  /\ RunOnly /\ UNCHANGED genes

Leave(t) ==
  /\ At(t, "leave")
  /\ currentTask' = NoTask
  /\ cancelFuncs' = cancelFuncs \ {t}
  /\ job' = [job EXCEPT ![t] = NoJob]
  /\ UNCHANGED <<row, cancelled, reqs, genes, up, mishap>>

RunStep(t) == \/ Loop(t) \/ Generation(t) \/ ProgressFails(t) \/ EpochFails(t) \/ EpochSaves(t)
              \/ RefreshChampion(t) \/ Snapshot(t) \/ SaveReads(t) \/ SaveInserts(t) \/ SaveMarks(t)
              \/ Final(t) \/ Leave(t)
-----------------------------------------------------------------------------
(* CancelTask *)

Called(c, step) == up /\ reqs[c].step = step
CallOnly == UNCHANGED <<currentTask, cancelFuncs, job, up>>

CancelTask(c, t) ==
  /\ Called(c, "idle") /\ row[t].status # "none"
  /\ IF t \in cancelFuncs
     THEN cancelled' = cancelled \cup {t} /\ UNCHANGED reqs
     ELSE reqs' = [reqs EXCEPT ![c] = [NoCall EXCEPT !.step = "read", !.task = t]] /\ UNCHANGED cancelled
  /\ CallOnly /\ UNCHANGED <<row, genes, mishap>>

CancelReads(c) ==
  LET t == reqs[c].task IN
  /\ Called(c, "read")
  /\ reqs' = [reqs EXCEPT ![c].step = IF Worth(row[t]) THEN "insert" ELSE "update",
                          ![c].best = row[t].best]
  /\ CallOnly /\ UNCHANGED <<row, cancelled, genes, mishap>>

CancelInserts(c) ==
  LET t == reqs[c].task IN
  /\ Called(c, "insert")
  /\ \/ /\ genes' = [genes EXCEPT ![t][reqs[c].best] = @ + 1]
        /\ reqs' = [reqs EXCEPT ![c].step = "mark"]
        /\ UNCHANGED mishap
     \/ /\ Mishap("fault")
        /\ reqs' = [reqs EXCEPT ![c].step = "update"]
        /\ UNCHANGED genes
  /\ CallOnly /\ UNCHANGED <<row, cancelled>>

CancelMarks(c) ==
  /\ Called(c, "mark")
  /\ \/ Result(reqs[c].task, reqs[c].best, TRUE) /\ UNCHANGED mishap
     \/ Mishap("fault") /\ UNCHANGED row
  /\ reqs' = [reqs EXCEPT ![c].step = "update"]
  /\ CallOnly /\ UNCHANGED <<cancelled, genes>>

\* Faulty variant: the update does not ask for the status.
CancelledAnyway(t) == [row EXCEPT ![t].status = "cancelled"]

\* UPDATE ... WHERE id = ? AND status = 'running'
CancelledIfRunning(t) ==
  IF row[t].status = "running" THEN [row EXCEPT ![t].status = "cancelled"] ELSE row

CancelUpdates(c) ==
  /\ Called(c, "update")
  /\ row' = CancelledIfRunning(reqs[c].task)
  /\ reqs' = [reqs EXCEPT ![c] = NoCall]
  /\ CallOnly /\ UNCHANGED <<cancelled, genes, mishap>>
-----------------------------------------------------------------------------
(* ListTasks: when no task is current, running rows are taken for dead *)

\* Faulty variant: rows that still run are left alone.
RepairsNone == row

FailRunning == [t \in Tasks |-> IF row[t].status = "running" THEN [row[t] EXCEPT !.status = "failed"] ELSE row[t]]

ListChecks(c) ==
  /\ Called(c, "idle") /\ currentTask = NoTask
  /\ reqs' = [reqs EXCEPT ![c].step = "sweep"]
  /\ CallOnly /\ UNCHANGED <<row, cancelled, genes, mishap>>

ListSweeps(c) ==
  /\ Called(c, "sweep")
  /\ row' = FailRunning
  /\ reqs' = [reqs EXCEPT ![c] = NoCall]
  /\ CallOnly /\ UNCHANGED <<cancelled, genes, mishap>>
-----------------------------------------------------------------------------
(* Crash and start *)

Dies ==
  /\ up /\ Mishap("crash")
  /\ up' = FALSE
  /\ currentTask' = NoTask
  /\ cancelFuncs' = {} /\ cancelled' = {}
  /\ job' = [t \in Tasks |-> NoJob]
  /\ reqs' = [c \in Callers |-> NoCall]
  /\ UNCHANGED <<row, genes>>

\* recoverInterruptedTasks; a failing statement is a warning.
RecoverInterruptedTasks == FailRunning

Restart ==
  /\ ~up /\ up' = TRUE
  /\ \/ row' = RecoverInterruptedTasks /\ UNCHANGED mishap
     \/ Mishap("fault") /\ UNCHANGED row
  /\ UNCHANGED <<currentTask, cancelFuncs, cancelled, job, reqs, genes>>

Request(c) == \/ CancelReads(c) \/ CancelInserts(c) \/ CancelMarks(c) \/ CancelUpdates(c)
              \/ ListChecks(c) \/ ListSweeps(c)
              \/ \E t \in Tasks : CancelTask(c, t)

EvolutionNext == \/ \E t \in Tasks : CreateAndRunTask(t) \/ RunStep(t)
                 \/ \E c \in Callers : Request(c)
                 \/ Dies \/ Restart

EvolutionFairness == \A t \in Tasks : WF_evolutionVars(RunStep(t))

EvolutionSpec == EvolutionInit /\ [][EvolutionNext]_evolutionVars

EvolutionFairSpec == EvolutionSpec /\ EvolutionFairness
-----------------------------------------------------------------------------
\* One search runs at a time, and while it runs the service knows it: the next
\* task is refused and a cancellation reaches it.
OneKnownRun ==
  \A t \in Tasks : Active(t) => currentTask = t /\ t \in cancelFuncs

\* A row says running only while its goroutine runs, unless a statement that
\* should have ended it failed.
RunningHasRun ==
  \A t \in Tasks : row[t].status = "running" => Active(t) \/ ~up \/ mishap["fault"] > 0

\* The best pack of a cancelled task is in a gene record, however it was
\* cancelled, unless saving it failed.
CancelledKeepsBest ==
  \A t \in Tasks : row[t].status = "cancelled" /\ row[t].best # NoPack /\ mishap["fault"] = 0
                     => row[t].gene /\ genes[t][row[t].best] > 0

\* An end is final: only a run that a listing has taken for dead in error puts
\* its own end in the place of the failure.
EndIsFinal ==
  [][\A t \in Tasks : row[t].status \in Closed /\ row'[t].status # row[t].status
                        => row[t].status = "failed" /\ job[t].step = "final"]_evolutionVars

\* A cancelled search ends, unless the statement that says so fails or the
\* server dies.
CancelEnds ==
  \A t \in Tasks : []<>(\/ t \notin cancelled \/ row[t].status # "running"
                       \/ mishap["fault"] + mishap["crash"] > 0)
=============================================================================
