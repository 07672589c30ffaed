---------------------------- MODULE ResearchRuns ----------------------------
(***************************************************************************)
(* Parameter research (internal/saas/parameterresearch/run.go): a run is a  *)
(* sequence of stages, each a set of points that one compute task evaluates.*)
(* Requests start a run, append a stage, stop, resume or look at the run;   *)
(* nearly all of them synchronise it first: what the tasks have finished is *)
(* turned into evaluated points.                                            *)
(*                                                                          *)
(* One run with one idempotency key.  A point is the index of the Sobol     *)
(* sequence that leads to it.  Compute tasks are external here: they are    *)
(* module ComputeTask, reduced to what a run can see of them.  Every        *)
(* statement is a step, and so is every call of the task service.           *)
(***************************************************************************)
EXTENDS Naturals, Sequences, FiniteSets

CONSTANTS
  Callers,     \* clients, one request of each at a time
  KindsOf,     \* client -> the requests it makes
  Batch,       \* points of a global stage
  Near,        \* the points of a local refinement
  MaxPoint, MaxStages, \* bounds
  RunLimits    \* bounds, one of which holds: [requests, rot]

\* A batch has points, and the bound leaves room for the first.
ASSUME ResearchAssumption ==
  /\ Batch \in Nat \ {0} /\ MaxPoint \in Nat
  /\ Batch <= MaxPoint + 1

VARIABLES
  run,      \* its row: status, exploration_status, next_sobol_index
  stages,   \* its stages, by ordinal + 1
  task,     \* the compute tasks, by stage type, points and ordinal
  points,   \* the evaluated points of the configuration
  call,     \* caller -> its request
  requests, \* how many requests were made
  rotten    \* how many stored results went bad

researchVars == <<run, stages, task, points, call, requests, rotten>>

\* "queued" stands for a task that runs, "failed" also for one that is partly done.
Stopped == {"failed", "cancelled"}
NoRun == [status |-> "none", exploration |-> "none", next |-> 0]
NoPlan == [type |-> "none", from |-> 0, next |-> 0, points |-> {}]
Idle == [step |-> "idle", kind |-> "none", status |-> "none", next |-> 0, plan |-> NoPlan, ordinal |-> 0,
         at |-> 0, count |-> 0, seen |-> "none", all |-> TRUE]

Within(n, rot) == \E limit \in RunLimits : n <= limit.requests /\ rot <= limit.rot

At(c, step) == call[c].step = step
Go(c, changes) == call' = [call EXCEPT ![c] = [f \in DOMAIN @ |->
                                     IF f \in DOMAIN changes THEN changes[f] ELSE @[f]]]
Returned(c) == call' = [call EXCEPT ![c] = Idle]
CallOnly == UNCHANGED <<run, stages, task, points, requests, rotten>>

Key(s) == <<s.type, s.points, s.ordinal>>

\* The run may have been started, with its first batch under way.
First == [type |-> "global", points |-> 0 .. Batch - 1, ordinal |-> 0, from |-> 0, next |-> Batch,
          status |-> "planned", completedAt |-> FALSE]

ResearchInit == /\ \/ run = NoRun /\ stages = <<>> /\ task = <<>>
                   \/ /\ run = [status |-> "running", exploration |-> "running", next |-> Batch]
                      /\ stages = <<First>>
                      /\ task = [k \in {Key(First)} |-> [status |-> "queued", valid |-> {}]]
                /\ points = {}
                /\ call = [c \in Callers |-> Idle]
                /\ requests = 0
                /\ rotten = 0

TaskOf(i) == task[Key(stages[i])]
-----------------------------------------------------------------------------
(* Requests *)

\* StartRun looks for the run of its key; the others want a run.
RunRequest(c) ==
  /\ At(c, "idle") /\ Within(requests + 1, rotten) /\ requests' = requests + 1
  /\ \E kind \in KindsOf[c] :
       /\ (kind = "start") \/ run # NoRun
       /\ Go(c, [kind |-> kind, status |-> run.status,
                 next |-> IF kind = "global" THEN run.next ELSE 0,
                 step |-> CASE kind = "start" /\ run = NoRun -> "plan"
                            [] kind = "paused" -> "stop"
                            [] kind = "resume" -> "resume"
                            [] OTHER -> "sync",
                 at |-> IF kind = "resume" THEN Len(stages) ELSE 0])
  /\ UNCHANGED <<run, stages, task, points, rotten>>

\* A statement fails, the client goes away or the server dies; nothing is undone.
Fails(c) ==
  /\ call[c].step \notin {"idle", "points"}
  /\ Returned(c)
  /\ CallOnly
-----------------------------------------------------------------------------
(* syncRun: the run's row was read when the request began *)

SyncBegins(c) ==
  /\ At(c, "sync")
  /\ Go(c, [step |-> "task", at |-> 1, count |-> Len(stages), all |-> TRUE])
  /\ CallOnly

SyncTask(c) ==
  /\ At(c, "task") /\ call[c].at <= call[c].count
  /\ LET found == TaskOf(call[c].at).status IN
       Go(c, [step |-> "points", seen |-> found, all |-> call[c].all /\ found = "completed"])
  /\ CallOnly

\* The items that are valid now are read, and their points are stored with their
\* origins, one after the other; when a statement fails some are.  Nothing takes
\* a point away again, and so this is one step.
SyncPoints(c) ==
  /\ At(c, "points")
  /\ \/ /\ points' = points \cup TaskOf(call[c].at).valid
        /\ Go(c, [step |-> "stage"])
     \/ /\ \E done \in SUBSET TaskOf(call[c].at).valid : points' = points \cup done
        /\ Returned(c)
  /\ UNCHANGED <<run, stages, task, requests, rotten>>

\* Faulty variant: the status is read again with the counters.
StatusNow(c) == TaskOf(call[c].at).status

\* The task's status as it was read before its items.
StageStatus(c) == call[c].seen

SyncStage(c) ==
  /\ At(c, "stage")
  /\ stages' = [stages EXCEPT ![call[c].at].status = StageStatus(c),
                              ![call[c].at].completedAt = @ \/ StageStatus(c) = "completed"]
  /\ Go(c, [step |-> "task", at |-> call[c].at + 1, seen |-> "none"])
  /\ UNCHANGED <<run, task, points, requests, rotten>>

\* What DeriveCompositeStatus makes of the stages matters here only as far as
\* it is completed.
Derived(all) == IF all THEN "completed" ELSE "running"

PreserveUserControlled(stored, derived) == IF stored \in {"paused", "cancelled"} THEN stored ELSE derived

SyncRun(c) ==
  /\ At(c, "task") /\ call[c].at > call[c].count
  /\ LET found == PreserveUserControlled(call[c].status, Derived(call[c].all)) IN
       run' = [run EXCEPT !.status = found,
                          !.exploration = IF found = "completed" THEN "checkpoint" ELSE @]
  /\ IF call[c].kind \in {"global", "local"}
     THEN Go(c, [step |-> "plan", status |-> "none", at |-> 0, count |-> 0, all |-> TRUE])
     ELSE Returned(c)
  /\ UNCHANGED <<stages, task, points, requests, rotten>>
-----------------------------------------------------------------------------
(* Planning a stage *)

\* PlanGlobal: the next points of the sequence that are not there yet.
Sobol(from, existing) ==
  LET New(n) == {p \in from .. n - 1 : p \notin existing}
      next == CHOOSE n \in from .. MaxPoint + 1 :
                /\ Cardinality(New(n)) = Batch \/ n = MaxPoint + 1
                /\ \A m \in from .. n - 1 : Cardinality(New(m)) < Batch
  IN [type |-> "global", from |-> from, next |-> next, points |-> New(next)]

\* StartRun plans from the start, and without regard to what is there.
Planned(c) ==
  CASE call[c].kind = "start" -> Sobol(0, {})
    [] call[c].kind = "global" -> Sobol(call[c].next, points)
    [] call[c].kind = "local" -> [NoPlan EXCEPT !.type = "local", !.points = Near \ points]

\* The plan may be another one than the client was shown, and is refused then.
Plan(c) ==
  /\ At(c, "plan")
  /\ \/ Returned(c)
     \/ /\ Planned(c).points # {}
        /\ call[c].kind = "local" => points # {} \* its centre
        /\ Go(c, [step |-> "create", next |-> 0, plan |-> Planned(c)])
  /\ CallOnly

Ordinal(c) == IF At(c, "create") THEN (IF call[c].kind = "start" THEN 0 ELSE Len(stages)) ELSE call[c].ordinal

Stage(c) == [type |-> call[c].plan.type, points |-> call[c].plan.points, ordinal |-> Ordinal(c),
             from |-> call[c].plan.from, next |-> call[c].plan.next, status |-> "planned", completedAt |-> FALSE]

\* The stages are counted, which StartRun does not, and the task is created: the
\* one of the same plan, a new one, or one whose results are all known.
CreateTask(c) ==
  LET k == Key(Stage(c)) IN
  /\ At(c, "create") /\ Len(stages) < MaxStages
  /\ IF k \in DOMAIN task THEN UNCHANGED task
     ELSE \E known \in {{}, k[2]} :
            task' = [j \in DOMAIN task \cup {k} |->
                       IF j = k THEN [status |-> IF known = {} THEN "planned" ELSE "completed", valid |-> known]
                       ELSE task[j]]
  /\ Go(c, [step |-> "commit", ordinal |-> Ordinal(c)])
  /\ UNCHANGED <<run, stages, points, requests, rotten>>

\* Faulty variant: the locked row is not compared with the plan.
PlanStands(plan) == TRUE

\* The run's row is locked; its sequence must be where the plan began.
PlanIsCurrent(plan) == plan.type = "global" => run.next = plan.from

\* The transaction that makes a run with its first stage or appends a stage.
\* run_key and (run_id, ordinal) are unique.
CommitStage(c) ==
  LET plan == call[c].plan IN
  /\ At(c, "commit")
  /\ IF /\ Len(stages) = call[c].ordinal
        /\ IF call[c].kind = "start" THEN run = NoRun ELSE PlanIsCurrent(plan)
     THEN /\ run' = [status |-> "running", exploration |-> "running",
                     next |-> IF plan.type = "global" THEN plan.next ELSE run.next]
          /\ stages' = Append(stages, [Stage(c) EXCEPT !.status = task[Key(Stage(c))].status])
          /\ Go(c, [step |-> "starttask"])
     ELSE Returned(c) /\ UNCHANGED <<run, stages>>
  /\ UNCHANGED <<task, points, requests, rotten>>

\* StartTask refuses a task that is not planned; then GetRun.
StartTask(c) ==
  LET k == Key(Stage(c)) IN
  /\ At(c, "starttask")
  /\ IF task[k].status = "planned"
     THEN task' = [task EXCEPT ![k].status = "queued"] ELSE UNCHANGED task
  /\ Go(c, [step |-> "sync", kind |-> "get", status |-> run.status, plan |-> NoPlan, ordinal |-> 0])
  /\ UNCHANGED <<run, stages, points, requests, rotten>>
-----------------------------------------------------------------------------
(* stopRun and ResumeRun *)

\* Only the newest stage's task is cancelled; its error is ignored.
StopTask(c) ==
  /\ At(c, "stop")
  /\ \/ /\ task[Key(stages[Len(stages)])].status \in {"queued", "planned"}
        /\ task' = [task EXCEPT ![Key(stages[Len(stages)])].status = "cancelled"]
     \/ UNCHANGED task
  /\ Go(c, [step |-> "stopped"])
  /\ UNCHANGED <<run, stages, points, requests, rotten>>

StopWrites(c) ==
  /\ At(c, "stopped")
  /\ run' = [run EXCEPT !.status = call[c].kind, !.exploration = call[c].kind]
  /\ Returned(c)
  /\ UNCHANGED <<stages, task, points, requests, rotten>>

\* From the newest of the stages it has read to the oldest: the first that is
\* not completed is taken up again.
Resume(c) ==
  /\ At(c, "resume")
  /\ IF call[c].at = 0
     THEN Go(c, [step |-> "sync", kind |-> "get", status |-> run.status]) /\ UNCHANGED task
     ELSE LET k == Key(stages[call[c].at]) found == task[k].status IN
          CASE found = "completed" -> Go(c, [at |-> call[c].at - 1]) /\ UNCHANGED task
            [] found \in Stopped \cup {"planned"} ->
                 /\ task' = [task EXCEPT ![k].status = "queued"]
                 /\ Go(c, [step |-> "resumed"])
            [] found = "queued" -> Go(c, [step |-> "resumed"]) /\ UNCHANGED task
            [] OTHER -> Returned(c) /\ UNCHANGED task
  /\ UNCHANGED <<run, stages, points, requests, rotten>>

ResumeWrites(c) ==
  /\ At(c, "resumed")
  /\ run' = [run EXCEPT !.status = "running", !.exploration = "running"]
  /\ Go(c, [step |-> "sync", kind |-> "get", status |-> "running"])
  /\ UNCHANGED <<stages, task, points, requests, rotten>>
-----------------------------------------------------------------------------
(* Compute tasks, and the end of the server *)

\* A task's executions end: all its items are valid, or some.
TaskSettles(k) ==
  /\ task[k].status = "queued"
  /\ \E valid \in SUBSET k[2] :
       /\ task[k].valid \subseteq valid
       /\ task' = [task EXCEPT ![k] = [status |-> IF valid = k[2] THEN "completed" ELSE "failed",
                                      valid |-> valid]]
  /\ UNCHANGED <<run, stages, points, call, requests, rotten>>

\* A stored result stops to validate and the task is invalidated.
Rot(k) ==
  /\ task[k].status = "completed"
  /\ Within(requests, rotten + 1) /\ rotten' = rotten + 1
  /\ \E p \in k[2] : task' = [task EXCEPT ![k] = [status |-> "invalidated", valid |-> @.valid \ {p}]]
  /\ UNCHANGED <<run, stages, points, call, requests>>

ResearchNext == \/ \E c \in Callers :
                     \/ RunRequest(c) \/ Fails(c)
                     \/ SyncBegins(c) \/ SyncTask(c) \/ SyncPoints(c) \/ SyncStage(c) \/ SyncRun(c)
                     \/ Plan(c) \/ CreateTask(c) \/ CommitStage(c) \/ StartTask(c)
                     \/ StopTask(c) \/ StopWrites(c) \/ Resume(c) \/ ResumeWrites(c)
                \/ \E k \in DOMAIN task : TaskSettles(k) \/ Rot(k)

ResearchSpec == ResearchInit /\ [][ResearchNext]_researchVars
-----------------------------------------------------------------------------
\* The global stages of a run take the sequence up one where the other ended,
\* whoever plans them at the same time, and the run goes on where the last one
\* ended: no part of the sequence is sampled twice or left out.
SobolContiguous ==
  LET globals == {i \in DOMAIN stages : stages[i].type = "global"} IN
  /\ \A i, j \in globals : i < j => stages[i].next <= stages[j].from
  /\ \A j \in globals : \/ stages[j].from = 0
                        \/ \E i \in globals : i < j /\ stages[i].next = stages[j].from
  /\ \A i \in globals : stages[i].next <= run.next
  /\ run # NoRun => \E i \in globals : stages[i].next = run.next

\* A stage whose completion was recorded has all its points evaluated, however
\* many requests synchronise it while its task runs, and a run at a checkpoint
\* has at least its first stage so.  (The status alone shows less: over a full
\* cache it is completed before there is a point.)
CheckpointHasPoints ==
  rotten = 0 =>
    /\ \A i \in DOMAIN stages : stages[i].completedAt => stages[i].points \subseteq points
    /\ run.exploration = "checkpoint" => stages[1].completedAt
=============================================================================
