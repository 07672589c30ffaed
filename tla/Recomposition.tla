--------------------------- MODULE Recomposition ---------------------------
(***************************************************************************)
(* Recomposed market data (internal/saas/marketdata/recomposition_*.go and  *)
(* market_series.go): the preview of a plan, the reservation of a numbered  *)
(* version of a series, the compute tasks that expand, audit and publish it *)
(* and the archiving of series and versions.                                *)
(*                                                                          *)
(* A plan is named by the content of the source rows it was made from.  A   *)
(* generation and the version it produces are created by one transaction    *)
(* and are one record here.  Of a compute task there is what ComputeTask    *)
(* promises: its stages run in order, one execution of a cache key at a     *)
(* time unless a lease lapses.                                              *)
(***************************************************************************)
EXTENDS Integers, Sequences, FiniteSetsExt

CONSTANTS
  Requests,     \* requests in progress
  Workers,   \* executions in progress
  LastContent, \* how often the source rows change
  Wanted,    \* [key, name]: idempotency keys and series names that are asked for
  Attempts,  \* tries of a reservation
  SeriesLimits     \* bounds on requests, changes, lapses, retries, archivings and crashes

\* The code tries three times; without a second try a request that loses a race
\* would be refused.
ASSUME SeriesAssumption == LastContent \in Nat /\ Attempts \in Nat /\ Attempts >= 2

VARIABLES
  content, \* number of the content of the source's K-lines
  planOf,  \* fingerprint -> the plan its preview task answered with; 0 for none
  plan,    \* contents of the completed plans
  series,  \* name -> "none", "open" or "archived"
  generation, \* the generations with their versions
  task,    \* the composite tasks
  request,    \* call -> its progress
  execution,     \* worker -> its execution
  seriesLimit, seriesStruck

seriesVars == <<content, planOf, plan, series, generation, task, request, execution, seriesLimit, seriesStruck>>

Contents == 1..LastContent
Names == {w.name : w \in Wanted}
Stages == <<"expand", "audit", "publish">>

NoRequest == [step |-> "idle", plan |-> 0, key |-> [name |-> "none", plan |-> 0], name |-> "none",
              number |-> 0, tries |-> 0, found |-> FALSE, gen |-> 0, linked |-> 0, task |-> 0]
NoExecution == [step |-> "idle", task |-> 0, stage |-> 0, owner |-> FALSE, gen |-> <<>>, version |-> <<>>]

NewGeneration(k) ==
  [key |-> k.key, plan |-> k.plan, name |-> k.name, number |-> k.number, task |-> 0, versionTask |-> 0,
   expanded |-> FALSE, checked |-> FALSE, integrity |-> "pending", published |-> FALSE, archived |-> FALSE,
   rows |-> 0, klines |-> 0, results |-> {}]

NewTask(g, p) == [gen |-> g, plan |-> p, done |-> 0, failed |-> FALSE]

\* The source was previewed as it was before, perhaps also as it is.
SeriesInit ==
  /\ content \in Contents
  /\ plan \in {1..content, 1..(content - 1)}
  /\ planOf = [f \in Contents |-> IF f \in plan THEN f ELSE 0]
  /\ series = [n \in Names |-> "none"]
  /\ generation = <<>> /\ task = <<>>
  /\ request = [c \in Requests |-> NoRequest]
  /\ execution = [w \in Workers |-> NoExecution]
  /\ seriesLimit \in SeriesLimits
  /\ seriesStruck = [h \in DOMAIN seriesLimit |-> 0]

SeriesStrike(h) == seriesStruck[h] < seriesLimit[h] /\ seriesStruck' = [seriesStruck EXCEPT ![h] = @ + 1]
RequestAt(c, step) == request[c].step = step
RequestGoto(c, step) == request' = [request EXCEPT ![c].step = step]
Answered(c) == request' = [request EXCEPT ![c] = NoRequest]

\* Imports go on meanwhile.
SourceChanges == /\ content < LastContent /\ content' = content + 1 /\ SeriesStrike("change")
                 /\ UNCHANGED <<planOf, plan, series, generation, task, request, execution, seriesLimit>>
-----------------------------------------------------------------------------
(* The preview.  Its task is named by the fingerprint of the source.        *)

RequestPreview(c) ==
  /\ RequestAt(c, "idle") /\ SeriesStrike("request")
  /\ request' = [request EXCEPT ![c] = IF planOf[content] # 0 THEN NoRequest
                                 ELSE [NoRequest EXCEPT !.step = "preview", !.plan = content]]
  /\ UNCHANGED <<content, planOf, plan, series, generation, task, execution, seriesLimit>>

\* ensureLiveSourceSnapshot: the fingerprint is compared, then the rows are read.
CompareFingerprint(c) ==
  /\ RequestAt(c, "preview")
  /\ IF content = request[c].plan THEN RequestGoto(c, "rows") ELSE Answered(c)
  /\ UNCHANGED <<content, planOf, plan, series, generation, task, execution, seriesLimit, seriesStruck>>

\* The snapshot and the plan get the content that was read.
PersistPreview(c) ==
  /\ RequestAt(c, "rows")
  /\ plan' = plan \cup {content}
  /\ planOf' = [planOf EXCEPT ![request[c].plan] = content]
  /\ Answered(c)
  /\ UNCHANGED <<content, series, generation, task, execution, seriesLimit, seriesStruck>>
-----------------------------------------------------------------------------
(* CreateRecompositionGeneration.                                           *)

KeyFor(w, p) ==
  IF w.key = "default" THEN [name |-> w.name, plan |-> p] ELSE [name |-> w.key, plan |-> 0]

WithKey(k) == {g \in DOMAIN generation : generation[g].key = k}

Reserved(k, g) == [k EXCEPT !.step = "task", !.gen = g, !.linked = generation[g].task]

\* The generation of this key is looked up; for another plan it is refused.
AskVersion(c, w, p) ==
  /\ RequestAt(c, "idle") /\ p \in plan /\ SeriesStrike("request")
  /\ LET wanted == [NoRequest EXCEPT !.plan = p, !.key = KeyFor(w, p), !.name = w.name]
     IN \/ /\ WithKey(wanted.key) = {}
           /\ request' = [request EXCEPT ![c] = [wanted EXCEPT !.step = "series"]]
        \/ \E g \in WithKey(wanted.key) :
             /\ generation[g].plan = p
             /\ request' = [request EXCEPT ![c] = Reserved(wanted, g)]
  /\ UNCHANGED <<content, planOf, plan, series, generation, task, execution, seriesLimit>>

\* The transaction of a reservation holds the row of the series, if there is one.
Locked(n) == \E c \in Requests : RequestAt(c, "insert") /\ request[c].found /\ request[c].name = n

VersionsOf(n) == {g \in DOMAIN generation : generation[g].name = n}
NextNumber(n) == Max({0} \cup {generation[g].number : g \in VersionsOf(n)}) + 1

FindSeries(c) ==
  /\ RequestAt(c, "series")
  /\ LET n == request[c].name
     IN \/ series[n] = "archived" /\ Answered(c)
        \/ /\ series[n] = "none"
           /\ request' = [request EXCEPT ![c].step = "insert", ![c].found = FALSE, ![c].number = 1]
        \/ /\ series[n] = "open" /\ ~Locked(n)
           /\ request' = [request EXCEPT ![c].step = "insert", ![c].found = TRUE, ![c].number = NextNumber(n)]
  /\ UNCHANGED <<content, planOf, plan, series, generation, task, execution, seriesLimit, seriesStruck>>

\* The unique indexes: name of a series, number in a series, key of a generation.
Violates(k) ==
  \/ ~k.found /\ series[k.name] # "none"
  \/ \E g \in DOMAIN generation : generation[g].name = k.name /\ generation[g].number = k.number
  \/ WithKey(k.key) # {}

Insert(c) ==
  /\ RequestAt(c, "insert")
  /\ LET k == request[c]
     IN IF Violates(k)
        THEN RequestGoto(c, "conflict") /\ UNCHANGED <<series, generation>>
        ELSE /\ series' = [series EXCEPT ![k.name] = "open"]
             /\ generation' = Append(generation, NewGeneration(k))
             /\ request' = [request EXCEPT ![c].step = "task", ![c].gen = Len(generation) + 1]
  /\ UNCHANGED <<content, planOf, plan, task, execution, seriesLimit, seriesStruck>>

\* Faulty variant: a lost race is not tried again.
MayRetryNot(k) == FALSE

MayRetry(k) == k.tries + 1 < Attempts

\* Whoever was first has reserved this key, or the reservation is tried again;
\* a request that is out of tries is answered with an error.
AfterConflict(c) ==
  /\ RequestAt(c, "conflict")
  /\ LET k == request[c]
     IN request' = [request EXCEPT ![c] =
          IF WithKey(k.key) # {} THEN Reserved(k, CHOOSE g \in WithKey(k.key) : TRUE)
          ELSE IF MayRetry(k) THEN [k EXCEPT !.step = "series", !.tries = @ + 1]
          ELSE [k EXCEPT !.step = "out"]]
  /\ UNCHANGED <<content, planOf, plan, series, generation, task, execution, seriesLimit, seriesStruck>>

\* CreateComposite, which answers with the task there is for the same settings.
SameTask(g, p) == {t \in DOMAIN task : task[t].gen = g /\ task[t].plan = p}

CreateComposite(c) ==
  /\ RequestAt(c, "task")
  /\ LET k == request[c]
     IN \/ k.linked # 0 /\ Answered(c) /\ UNCHANGED task
        \/ /\ k.linked = 0 /\ SameTask(k.gen, k.plan) = {}
           /\ task' = Append(task, NewTask(k.gen, k.plan))
           /\ request' = [request EXCEPT ![c].step = "link", ![c].task = Len(task')]
        \/ /\ k.linked = 0 /\ UNCHANGED task
           /\ \E t \in SameTask(k.gen, k.plan) : request' = [request EXCEPT ![c].step = "link", ![c].task = t]
  /\ UNCHANGED <<content, planOf, plan, series, generation, execution, seriesLimit, seriesStruck>>

LinkComposite(c) ==
  /\ RequestAt(c, "link")
  /\ LET k == request[c]
     IN generation' = [generation EXCEPT ![k.gen].task = IF @ = 0 THEN k.task ELSE @,
                                         ![k.gen].versionTask = k.task]
  /\ Answered(c)
  /\ UNCHANGED <<content, planOf, plan, series, task, execution, seriesLimit, seriesStruck>>
-----------------------------------------------------------------------------
(* The executions of a task's stages.                                       *)

Doing(w) == task[execution[w].task]
GenOf(w) == Doing(w).gen
Executes(w, stage, step) == execution[w].step = step /\ Stages[execution[w].stage] = stage

Runnable(t) == ~task[t].failed /\ task[t].done < Len(Stages)
NextStage(t) == task[t].done + 1

\* The result of a stage is cached under generation and stage.
Adopt(t) ==
  /\ Runnable(t) /\ NextStage(t) \in generation[task[t].gen].results
  /\ \A w \in Workers : ~(execution[w].owner /\ execution[w].task = t)
  /\ task' = [task EXCEPT ![t].done = @ + 1]
  /\ UNCHANGED <<content, planOf, plan, series, generation, request, execution, seriesLimit, seriesStruck>>

Execute(w, t) ==
  /\ execution[w].step = "idle" /\ Runnable(t)
  /\ NextStage(t) \notin generation[task[t].gen].results
  /\ \A v \in Workers : execution[v].owner => ~(GenOf(v) = task[t].gen /\ execution[v].stage = NextStage(t))
  /\ execution' = [execution EXCEPT ![w] = [NoExecution EXCEPT !.step = "generation", !.task = t,
                                                                !.stage = NextStage(t), !.owner = TRUE]]
  /\ UNCHANGED <<content, planOf, plan, series, generation, task, request, seriesLimit, seriesStruck>>

\* A lease lapses; its execution goes on and nobody waits for its result.
Lapse(w) ==
  /\ execution[w].owner /\ SeriesStrike("lapse")
  /\ execution' = [execution EXCEPT ![w].owner = FALSE]
  /\ UNCHANGED <<content, planOf, plan, series, generation, task, request, seriesLimit>>

\* An execution ends with a result or an error.
Succeed(w, g) ==
  /\ execution' = [execution EXCEPT ![w] = NoExecution]
  /\ IF execution[w].owner
     THEN /\ task' = [task EXCEPT ![execution[w].task].done = execution[w].stage]
          /\ generation' = [generation EXCEPT ![GenOf(w)] = [g EXCEPT !.results = @ \cup {execution[w].stage}]]
     ELSE UNCHANGED task /\ generation' = [generation EXCEPT ![GenOf(w)] = g]

Fail(w) ==
  /\ execution' = [execution EXCEPT ![w] = NoExecution]
  /\ task' = IF execution[w].owner THEN [task EXCEPT ![execution[w].task].failed = TRUE] ELSE task
  /\ UNCHANGED generation

Continue(w, step) == execution' = [execution EXCEPT ![w].step = step] /\ UNCHANGED <<task, generation>>

\* generationRecords: the generation, if it is one of this plan, then the version.
ReadGeneration(w) ==
  /\ execution[w].step = "generation"
  /\ LET g == generation[GenOf(w)]
     IN IF g.plan # Doing(w).plan THEN Fail(w)
        ELSE /\ execution' = [execution EXCEPT ![w].step = "version", ![w].gen = g]
             /\ UNCHANGED <<task, generation>>
  /\ UNCHANGED <<content, planOf, plan, series, request, seriesLimit, seriesStruck>>

\* What each stage makes of a generation g and a version v.
StageVerdict(stage, g, v) ==
  CASE stage = "expand" /\ g.expanded /\ v.rows # 0 -> "done"
    [] stage = "audit" /\ g.expanded /\ ~v.published /\ g.checked /\ v.integrity = "valid" -> "done"
    [] stage = "publish" /\ g.published /\ v.published -> "done"
    [] stage = "expand" /\ ~g.published /\ ~v.published -> "work"
    [] stage = "audit" /\ g.expanded /\ ~v.published -> "work"
    [] stage = "publish" /\ g.expanded /\ g.checked /\ v.integrity = "valid" /\ ~v.published -> "work"
    [] OTHER -> "stale"

ReadVersion(w) ==
  /\ execution[w].step = "version"
  /\ LET v == generation[GenOf(w)]
         verdict == StageVerdict(Stages[execution[w].stage], execution[w].gen, v)
     IN CASE verdict = "done" -> Succeed(w, v)
          [] verdict = "stale" -> Fail(w)
          [] OTHER -> /\ execution' = [execution EXCEPT ![w].step = "work", ![w].version = v]
                      /\ UNCHANGED <<task, generation>>
  /\ UNCHANGED <<content, planOf, plan, series, request, seriesLimit, seriesStruck>>

\* Before it publishes it reads the series and the rows of the version.
ReadSeries(w) ==
  /\ Executes(w, "publish", "work")
  /\ IF series[execution[w].gen.name] = "archived" THEN Fail(w)
     ELSE /\ execution' = [execution EXCEPT ![w].step = "write", ![w].version = generation[GenOf(w)]]
          /\ UNCHANGED <<task, generation>>
  /\ UNCHANGED <<content, planOf, plan, series, request, seriesLimit, seriesStruck>>

\* Faulty variant: the transaction does not ask for the audit.
ExpandableUnpublished(v) == ~v.published

Expandable(v) == ~v.published /\ v.integrity # "valid"

\* The old rows are deleted and all rows written anew.
WriteRows(w) ==
  /\ Executes(w, "expand", "work")
  /\ LET v == generation[GenOf(w)]
     IN IF Expandable(v) THEN Succeed(w, [v EXCEPT !.rows = @ + 1, !.expanded = TRUE]) ELSE Fail(w)
  /\ UNCHANGED <<content, planOf, plan, series, request, seriesLimit, seriesStruck>>

WriteAudit(w) ==
  /\ Executes(w, "audit", "work")
  /\ LET v == generation[GenOf(w)]
     IN Succeed(w, [v EXCEPT !.integrity = IF v.published THEN @ ELSE "valid", !.checked = TRUE])
  /\ UNCHANGED <<content, planOf, plan, series, request, seriesLimit, seriesStruck>>

Publish(w) ==
  /\ Executes(w, "publish", "write")
  /\ LET v == generation[GenOf(w)]
     IN IF v.integrity = "valid" /\ ~v.published
        THEN Succeed(w, [v EXCEPT !.published = TRUE, !.klines = execution[w].version.rows])
        ELSE Fail(w)
  /\ UNCHANGED <<content, planOf, plan, series, request, seriesLimit, seriesStruck>>
-----------------------------------------------------------------------------
\* A user has a failed task tried again.
Retry(t) ==
  /\ task[t].failed /\ SeriesStrike("retry")
  /\ task' = [task EXCEPT ![t].failed = FALSE]
  /\ UNCHANGED <<content, planOf, plan, series, generation, request, execution, seriesLimit>>

ArchiveVersion(g) ==
  /\ generation[g].published /\ ~generation[g].archived /\ SeriesStrike("archive")
  /\ generation' = [generation EXCEPT ![g].archived = TRUE]
  /\ UNCHANGED <<content, planOf, plan, series, task, request, execution, seriesLimit>>

\* With the versions that are published by now.
ArchiveSeries(n) ==
  /\ series[n] # "none" /\ ~Locked(n) /\ SeriesStrike("archive")
  /\ series' = [series EXCEPT ![n] = "archived"]
  /\ generation' = [g \in DOMAIN generation |->
                      IF generation[g].name = n /\ generation[g].published
                      THEN [generation[g] EXCEPT !.archived = TRUE] ELSE generation[g]]
  /\ UNCHANGED <<content, planOf, plan, task, request, execution, seriesLimit>>

\* The server stops: requests and executions are gone.
SeriesCrash ==
  /\ SeriesStrike("crash")
  /\ request' = [c \in Requests |-> NoRequest] /\ execution' = [w \in Workers |-> NoExecution]
  /\ UNCHANGED <<content, planOf, plan, series, generation, task, seriesLimit>>

RequestStep(c) ==
  \/ CompareFingerprint(c) \/ PersistPreview(c)
  \/ FindSeries(c) \/ Insert(c) \/ AfterConflict(c) \/ CreateComposite(c) \/ LinkComposite(c)

ExecutionStep(w) ==
  ReadGeneration(w) \/ ReadVersion(w) \/ ReadSeries(w) \/ WriteRows(w) \/ WriteAudit(w) \/ Publish(w)

SeriesNext ==
  \/ SourceChanges \/ SeriesCrash
  \/ \E c \in Requests : RequestPreview(c) \/ RequestStep(c)
  \/ \E c \in Requests, w \in Wanted, p \in Contents : AskVersion(c, w, p)
  \/ \E w \in Workers : ExecutionStep(w) \/ Lapse(w)
  \/ \E t \in DOMAIN task : Adopt(t) \/ Retry(t) \/ \E w \in Workers : Execute(w, t)
  \/ \E n \in Names : ArchiveSeries(n)
  \/ \E g \in DOMAIN generation : ArchiveVersion(g)

SeriesSpec == SeriesInit /\ [][SeriesNext]_seriesVars
-----------------------------------------------------------------------------
\* Whatever reservations meet in a series or in a key, each ends with a
\* generation: the tries of reserveRecompositionGeneration are enough.
TriesSuffice == \A c \in Requests : ~RequestAt(c, "out")

\* A request that is sent again, at the same time or after a crash, makes no
\* second task for the same attempt.
OneAttempt ==
  \A t, u \in DOMAIN task : task[t].gen = task[u].gen /\ task[t].plan = task[u].plan => t = u

\* The rows of an audited version never change again, whichever old execution
\* is still under way (expand's transaction looks at the version once more).
AuditedIsFrozen ==
  [][\A g \in DOMAIN generation :
       generation[g].integrity = "valid" => generation'[g].rows = generation[g].rows]_seriesVars

\* What is published was audited, and the K-lines that are served are those rows:
\* whatever happens to the version between the reading of its rows and the
\* transaction of publish.
PublishedAsAudited ==
  \A g \in DOMAIN generation :
    generation[g].published => generation[g].integrity = "valid" /\ generation[g].klines = generation[g].rows

\* A generation is linked to a task of its own plan.
TaskFits ==
  \A g \in DOMAIN generation : generation[g].task # 0 => task[generation[g].task].plan = generation[g].plan

\* A preview answers with a plan of the source it was asked for.
PreviewIsOfSource == \A f \in Contents : planOf[f] \in {0, f}

\* An archived series offers no version.
ArchivedOffersNone ==
  \A g \in DOMAIN generation :
    series[generation[g].name] = "archived" /\ generation[g].published => generation[g].archived
=============================================================================
