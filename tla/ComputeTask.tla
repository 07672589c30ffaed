----------------------------- MODULE ComputeTask -----------------------------
(***************************************************************************)
(* The compute-task service of internal/saas/computetask: a durable queue   *)
(* of work items in PostgreSQL, worked by goroutines of one process.        *)
(*                                                                          *)
(* A leaf task (atomic, or a stage of a composite) owns work items.  A      *)
(* worker claims an item under a lease, reserves the item's cache key under *)
(* a second lease, runs the executor and commits result and cache entry     *)
(* together.  Users start, cancel and retry tasks at the same time, the     *)
(* process crashes or shuts down and restarts, leases lapse, statements     *)
(* fail.  Every transaction of the code is one action; everything the code  *)
(* does between two transactions leaves a gap other actors can step into.   *)
(***************************************************************************)
EXTENDS Naturals, FiniteSets, Lifecycle

CONSTANTS
  Tasks,       \* rows of compute_tasks of kind atomic or stage
  Roots,       \* rows of compute_tasks of kind composite
  Items,       \* rows of compute_task_items
  Keys,        \* cache keys
  Claims,      \* lease owners: one per execution of an item
  Callers,     \* concurrent API requests
  Scheduler,   \* the scheduler goroutine
  None,
  TaskOf,      \* [Items -> Tasks]
  KeyOf,       \* [Items -> Keys]
  ParentOf,    \* [Tasks -> Roots \cup {None}]
  Needs,       \* [Tasks -> SUBSET Tasks], compute_task_dependencies
  Precreated,  \* rows that exist in the initial state
  Prestarted,  \* leaf rows among them that are queued already
  Workers,     \* capacity of the worker semaphore
  Limits       \* bounds on how often each hazard strikes, one of which holds

Rows == Tasks \cup Roots
Threads == Claims \cup Callers \cup {Scheduler}
Servers == Callers \cup {Scheduler}

\* crash: process stops; stall: a lease lapses though its owner is running;
\* fault: a database statement fails; rot: a completed cache entry stops
\* validating; corrupt: a task no longer matches its stored identity or the
\* registered executor; call: a user request.
Hazards == {"crash", "stall", "fault", "rot", "corrupt", "call"}

ASSUME StructureAssumption ==
  /\ TaskOf \in [Items -> Tasks]
  /\ KeyOf \in [Items -> Keys]
  /\ ParentOf \in [Tasks -> Roots \cup {None}]
  /\ Needs \in [Tasks -> SUBSET Tasks]
  /\ Precreated \subseteq Rows /\ Prestarted \subseteq Precreated \cap Tasks
  /\ \A t \in Tasks : \E i \in Items : TaskOf[i] = t
  /\ \A i, j \in Items : TaskOf[i] = TaskOf[j] /\ KeyOf[i] = KeyOf[j] => i = j

ASSUME IdentityAssumption ==
  /\ Tasks \cap Roots = {}
  /\ Claims \cap Callers = {}
  /\ Scheduler \notin Claims \cup Callers
  /\ None \notin Rows \cup Claims \cup Items

ASSUME LimitsAssumption == Workers \in Nat /\ Limits \subseteq [Hazards -> Nat]

VARIABLES
  \* PostgreSQL
  task,   \* row -> status, started_at set, cancel_requested_at set
  item,   \* row -> status, lease owner, lease not yet expired, result
  cache,  \* key -> its active cache entry
  sound,  \* leaf task -> stored identity and executor still match
  \* memory of the process
  proc,   \* life of the process
  run,    \* claim -> progress of its goroutine (executeClaim)
  reg,    \* item -> claim whose context Cancel would cancel
  call,   \* caller or scheduler -> request in flight
  todo,   \* thread -> task rows it still has to refresh
  snap,   \* thread -> what it has read of the row being refreshed
  \* environment
  struck  \* hazard -> how often it has struck

dbVars == <<task, item, cache, sound>>
memVars == <<proc, run, reg, call, todo, snap>>
vars == <<dbVars, memVars, struck>>
-----------------------------------------------------------------------------
(* Rows and what they reference *)

ItemsOf(t) == {i \in Items : TaskOf[i] = t}
Children(r) == {t \in Tasks : ParentOf[t] = r}
Leaves(r) == IF r \in Roots THEN Children(r) ELSE {r}
ParentRows(t) == {ParentOf[t]} \ {None}
Tree(t) == {t} \cup ParentRows(t)

\* The items a row answers for: its own, or those of its stages.
Covered(r) == {i \in Items : TaskOf[i] \in Leaves(r)}

\* Statuses among the items of a leaf task, among the stages of a composite.
Present(t) == {item[i].status : i \in ItemsOf(t)}
Stages(r) == {task[t].status : t \in Children(r)}

\* Row values.  An expired and an absent lease are the same to every query.
Settle(row, status) == [row EXCEPT !.status = status, !.owner = None, !.live = FALSE]
Leased(row, k) == [row EXCEPT !.status = "running", !.owner = k, !.live = TRUE]

\* Faulty variant: a failed entry keeps its active key.
FailedEntry(entry) == [Settle(entry, "failed") EXCEPT !.source = None]

\* An entry that failed or was invalidated gives up the active key.
NoEntry(entry) == [Settle(entry, "none") EXCEPT !.source = None]

\* The entry after item i has stored the next result under the key.
Stored(entry, i) ==
  [Settle(entry, "completed") EXCEPT !.good = TRUE, !.version = @ + 1, !.source = i]

\* In-memory values: an idle goroutine slot, no request, no refresh under way.
Idle == [pc |-> "free", item |-> None, ctxDone |-> FALSE, outcome |-> "none"]
NoHits == [i \in Items |-> 0]
NoCall == [op |-> "idle", row |-> None, targets |-> {}, hits |-> NoHits]
NoSnap == [row |-> None, status |-> "none", started |-> FALSE, cancelRequested |-> FALSE]

Holds(row, k) == row.owner = k /\ row.status = "running"
MyItem(k) == item[run[k].item]
MyKey(k) == KeyOf[run[k].item]
MyEntry(k) == cache[MyKey(k)]
MyTask(k) == TaskOf[run[k].item]

Alive == proc \in {"up", "stopping", "stopped"}

Strike(h) ==
  /\ struck' = [struck EXCEPT ![h] = @ + 1]
  /\ \E l \in Limits : \A g \in Hazards : struck'[g] <= l[g]
-----------------------------------------------------------------------------
(* Status refresh: refreshTaskTree, refreshAtomicTask, refreshCompositeTask *)

\* seen is the row as the transaction read it, before it read anything else.
AtomicStatus(seen) == DeriveTaskStatus(Present(seen.row), seen.started, seen.cancelRequested)

CompositeStatus(seen) ==
  IF ~seen.cancelRequested THEN DeriveCompositeStatus(Stages(seen.row))
  ELSE IF Stages(seen.row) \cap {"queued", "running"} # {} THEN "running"
  ELSE "cancelled"

\* What the refresh of a row will write.  Only a composite's sets started_at.
Derived(seen) ==
  IF seen.row \in Roots
  THEN [seen EXCEPT !.status = CompositeStatus(seen),
                    !.started = ~seen.started /\ \E t \in Children(seen.row) : task[t].started]
  ELSE [seen EXCEPT !.status = AtomicStatus(seen), !.started = FALSE]

Written(d) == [task EXCEPT ![d.row] = [@ EXCEPT !.status = d.status, !.started = @ \/ d.started]]

\* A goroutine's next step; its error path, which ends in finishWithError.
Goes(k, pc) == run' = [run EXCEPT ![k].pc = pc]
Fails(k, outcome) == run' = [run EXCEPT ![k] = [@ EXCEPT !.pc = "failing", !.outcome = outcome]]

\* The thread is done with its handler: the goroutine returns (and
\* unregisters whatever cancel function is filed under its item), the
\* request is answered.
Leave(th) ==
  /\ run' = IF th \in Claims THEN [run EXCEPT ![th] = Idle] ELSE run
  /\ reg' = IF th \in Claims THEN [reg EXCEPT ![run[th].item] = None] ELSE reg
  /\ call' = IF th \in Servers THEN [call EXCEPT ![th] = NoCall] ELSE call

\* One refresh transaction is three statements.  The SELECT of the row; leaf
\* rows come before their composite.
RefreshBegins(th) ==
  /\ snap[th] = NoSnap
  /\ \E r \in todo[th] :
       /\ r \in Roots => todo[th] \subseteq Roots
       /\ snap' = [snap EXCEPT ![th] = [row |-> r, status |-> "none", started |-> task[r].started,
                                       cancelRequested |-> task[r].cancelRequested]]
  /\ UNCHANGED <<dbVars, proc, run, reg, call, todo, struck>>

\* The SELECT of its items or stages.
RefreshRead(th) ==
  /\ snap[th].row # None /\ snap[th].status = "none"
  /\ snap' = [snap EXCEPT ![th] = Derived(@)]
  /\ UNCHANGED <<dbVars, proc, run, reg, call, todo, struck>>

\* The scheduler has more blocked tasks to give up.
Unfinished(th) == th = Scheduler /\ call[th].targets # {}

\* The UPDATE.  Nothing was locked by the SELECTs.
RefreshWrite(th) ==
  /\ snap[th].status # "none"
  /\ LET rest == todo[th] \ {snap[th].row} IN
       /\ task' = Written(snap[th])
       /\ todo' = [todo EXCEPT ![th] = rest]
       /\ IF rest # {} THEN UNCHANGED <<run, reg, call>>
          ELSE IF Unfinished(th)
          THEN call' = [call EXCEPT ![th].op = "resolve"] /\ UNCHANGED <<run, reg>>
          ELSE Leave(th)
  /\ snap' = [snap EXCEPT ![th] = NoSnap]
  /\ UNCHANGED <<item, cache, sound, proc, struck>>

\* A refresh that fails is logged and dropped.  The one after a released item
\* uses the claim's own context, so cancellation makes it fail too, and so does
\* a shutdown those of the scheduler; the one after a stored result sends the
\* execution into its error path; one during the recovery ends the process.
RefreshFails(th) ==
  /\ todo[th] # {}
  /\ \/ Strike("fault")
     \/ /\ \/ th = Scheduler /\ proc = "stopping"
           \/ th \in Claims /\ run[th].pc = "releasing" /\ run[th].ctxDone
        /\ UNCHANGED struck
  /\ todo' = [todo EXCEPT ![th] = {}]
  /\ snap' = [snap EXCEPT ![th] = NoSnap]
  /\ IF th \in Claims /\ run[th].pc = "stored"
     THEN Fails(th, "error") /\ UNCHANGED <<reg, call>>
     ELSE Leave(th)
  /\ proc' = IF proc = "starting" THEN "down" ELSE proc
  /\ UNCHANGED dbVars
-----------------------------------------------------------------------------
(* Claiming work: claimNext, invalidateTaskTx *)

Invalidated(t) ==
  /\ item' = [i \in Items |-> IF TaskOf[i] = t /\ item[i].status \in {"pending", "running"}
                              THEN Settle(item[i], "failed") ELSE item[i]]
  /\ task' = [task EXCEPT ![t].status = "invalidated"]

\* Faulty variant: a stage may go ahead while a prerequisite is still at work.
DependenciesHealthy(t) ==
  \A p \in Needs[t] : task[p].status \notin {"failed", "partial", "cancelled", "invalidated"}

\* dependenciesCompleted, and the NOT EXISTS of claimNext.
DependenciesCompleted(t) == \A p \in Needs[t] : task[p].status = "completed"

Runnable(t) ==
  /\ task[t].status \in {"queued", "running"}
  /\ ~task[t].cancelRequested
  /\ DependenciesCompleted(t)

\* Faulty variant: an item left running by a dead worker is never claimed.
ClaimablePending(i) ==
  item[i].status = "pending" /\ ~item[i].live /\ Runnable(TaskOf[i])

Claimable(i) ==
  /\ item[i].status \in {"pending", "running"}
  /\ ~item[i].live
  /\ Runnable(TaskOf[i])

\* Lease owners are unique: a token still written in some row is not reused.
Fresh(k) ==
  /\ run[k] = Idle
  /\ \A i \in Items : item[i].owner # k
  /\ \A c \in Keys : cache[c].owner # k

SchedulerFree == proc = "up" /\ call[Scheduler] = NoCall

\* claimNext, and the goroutine dispatch starts for the claim.  Any claimable
\* item may be taken: SKIP LOCKED passes over rows other transactions hold.
Claim(k, i) ==
  /\ SchedulerFree
  /\ Fresh(k)
  /\ Cardinality({j \in Claims : run[j] # Idle}) < Workers
  /\ Claimable(i)
  /\ sound[TaskOf[i]]
  /\ item' = [item EXCEPT ![i] = Leased(@, k)]
  /\ task' = [task EXCEPT ![TaskOf[i]] = [@ EXCEPT !.status = "running", !.started = TRUE]]
  /\ run' = [run EXCEPT ![k] = [Idle EXCEPT !.pc = "claimed", !.item = i]]
  /\ UNCHANGED <<cache, sound, proc, reg, call, todo, snap, struck>>

\* claimNext on an item whose task no longer matches: the parent is not refreshed.
ClaimInvalid(i) ==
  /\ SchedulerFree
  /\ Claimable(i)
  /\ ~sound[TaskOf[i]]
  /\ Invalidated(TaskOf[i])
  /\ UNCHANGED <<cache, sound, memVars, struck>>

-----------------------------------------------------------------------------
(* One execution: executeClaim and what it calls *)

\* registerCancel replaces the entry of an older execution of the same item.
Register(k) ==
  /\ run[k].pc = "claimed"
  /\ Goes(k, "reserving")
  /\ reg' = [reg EXCEPT ![run[k].item] = k]
  /\ UNCHANGED <<dbVars, proc, call, todo, snap, struck>>

\* reserveCache, by what the transaction finds under the item's cache key.
\* ReserveDropped is the attempt that retries.
ReserveReused(k) ==
  /\ run[k].pc = "reserving" /\ ~run[k].ctxDone
  /\ MyEntry(k).status = "completed" /\ MyEntry(k).good
  /\ IF Holds(MyItem(k), k)
     THEN /\ item' = [item EXCEPT ![run[k].item] =
                        [Settle(@, "cached") EXCEPT !.result = MyEntry(k).version]]
          /\ todo' = [todo EXCEPT ![k] = Tree(MyTask(k))]
          /\ Goes(k, "refreshing")
     ELSE Fails(k, "error") /\ UNCHANGED <<item, todo>>
  /\ UNCHANGED <<task, cache, sound, proc, reg, call, snap, struck>>

ReserveDropped(k) ==
  /\ run[k].pc = "reserving" /\ ~run[k].ctxDone
  /\ MyEntry(k).status = "completed" /\ ~MyEntry(k).good
  /\ cache' = [cache EXCEPT ![MyKey(k)] = NoEntry(@)]
  /\ UNCHANGED <<task, item, sound, memVars, struck>>

ReserveWait(k) ==
  /\ run[k].pc = "reserving" /\ ~run[k].ctxDone
  /\ MyEntry(k).status = "running" /\ MyEntry(k).live /\ MyEntry(k).owner # k
  /\ Goes(k, "waiting")
  /\ UNCHANGED <<dbVars, proc, reg, call, todo, snap, struck>>

\* Faulty variant: an entry is taken over without looking at its lease.
ReserveSteal(k) ==
  /\ run[k].pc = "reserving" /\ ~run[k].ctxDone
  /\ MyEntry(k).status \in {"none", "running"}
  /\ cache' = [cache EXCEPT ![MyKey(k)] = [Leased(@, k) EXCEPT !.source = run[k].item]]
  /\ Goes(k, "executing")
  /\ UNCHANGED <<task, item, sound, proc, reg, call, todo, snap, struck>>

\* Create the entry, or take over one whose lease has lapsed.
ReserveOwn(k) ==
  /\ run[k].pc = "reserving" /\ ~run[k].ctxDone
  /\ \/ MyEntry(k).status = "none"
     \/ MyEntry(k).status = "running" /\ ~MyEntry(k).live
  /\ cache' = [cache EXCEPT ![MyKey(k)] = [Leased(@, k) EXCEPT !.source = run[k].item]]
  /\ Goes(k, "executing")
  /\ UNCHANGED <<task, item, sound, proc, reg, call, todo, snap, struck>>

ReserveFails(k) ==
  /\ run[k].pc = "reserving"
  /\ \/ run[k].ctxDone /\ Fails(k, "canceled") /\ UNCHANGED struck
     \/ Strike("fault") /\ Fails(k, "error")
  /\ UNCHANGED <<dbVars, proc, reg, call, todo, snap>>

\* releaseWaitingItem: back to pending until the other execution should be done.
Release(k) ==
  /\ run[k].pc = "waiting" /\ ~run[k].ctxDone /\ Holds(MyItem(k), k)
  /\ item' = [item EXCEPT ![run[k].item] = [Settle(@, "pending") EXCEPT !.live = TRUE]]
  /\ todo' = [todo EXCEPT ![k] = Tree(MyTask(k))]
  /\ Goes(k, "releasing")
  /\ UNCHANGED <<task, cache, sound, proc, reg, call, snap, struck>>

\* An error of releaseWaitingItem is only logged.
ReleaseFails(k) ==
  /\ run[k].pc = "waiting"
  /\ \/ run[k].ctxDone /\ UNCHANGED struck
     \/ ~Holds(MyItem(k), k) /\ UNCHANGED struck
     \/ Strike("fault")
  /\ Leave(k)
  /\ UNCHANGED <<dbVars, proc, todo, snap>>

ExecuteReturns(k) ==
  /\ run[k].pc = "executing"
  /\ \/ Goes(k, "completing")
     \/ Fails(k, "error")
     \/ run[k].ctxDone /\ Fails(k, "canceled")
  /\ UNCHANGED <<dbVars, proc, reg, call, todo, snap, struck>>

HoldsBoth(k) == Holds(MyItem(k), k) /\ Holds(MyEntry(k), k)

\* Faulty variant: the heartbeat does not look at the cancel flag.
HeartbeatBlind(k) ==
  /\ run[k].pc \in {"executing", "completing"} /\ ~run[k].ctxDone
  /\ item' = [item EXCEPT ![run[k].item].live = @ \/ Holds(MyItem(k), k)]
  /\ cache' = [cache EXCEPT ![MyKey(k)].live = @ \/ HoldsBoth(k)]
  /\ run' = [run EXCEPT ![k].ctxDone = ~HoldsBoth(k)]
  /\ UNCHANGED <<task, sound, proc, reg, call, todo, snap, struck>>

\* One tick of heartbeat.  A renewal that finds its row lost cancels the
\* execution.  The ticks while finishWithError runs only renew leases which, not
\* having lapsed in the model's sense (Attended), need no renewal.
Heartbeat(k) ==
  /\ run[k].pc \in {"executing", "completing"} /\ ~run[k].ctxDone
  /\ item' = [item EXCEPT ![run[k].item].live = @ \/ Holds(MyItem(k), k)]
  /\ cache' = [cache EXCEPT ![MyKey(k)].live = @ \/ HoldsBoth(k)]
  /\ run' = [run EXCEPT ![k].ctxDone = ~HoldsBoth(k) \/ task[MyTask(k)].cancelRequested]
  /\ UNCHANGED <<task, sound, proc, reg, call, todo, snap, struck>>

HeartbeatFails(k) ==
  /\ run[k].pc \in {"executing", "completing"} /\ ~run[k].ctxDone
  /\ Strike("fault")
  /\ run' = [run EXCEPT ![k].ctxDone = TRUE]
  /\ UNCHANGED <<dbVars, proc, reg, call, todo, snap>>

\* reportProgress renews both leases in one transaction, or neither.
ReportProgress(k) ==
  /\ run[k].pc = "executing" /\ ~run[k].ctxDone /\ HoldsBoth(k)
  /\ item' = [item EXCEPT ![run[k].item].live = TRUE]
  /\ cache' = [cache EXCEPT ![MyKey(k)].live = TRUE]
  /\ UNCHANGED <<task, sound, memVars, struck>>

\* Faulty variant: only the item's lease is checked at the end.
CompleteItemOnly(k) ==
  /\ run[k].pc = "completing" /\ Holds(MyItem(k), k)
  /\ cache' = [cache EXCEPT ![MyKey(k)] = Stored(@, run[k].item)]
  /\ item' = [item EXCEPT ![run[k].item] =
                [Settle(@, "completed") EXCEPT !.result = MyEntry(k).version + 1]]
  /\ todo' = [todo EXCEPT ![k] = Tree(MyTask(k))]
  /\ Goes(k, "stored")
  /\ UNCHANGED <<task, sound, proc, reg, call, snap, struck>>

\* completeExecution: entry and item together, each fenced by the lease owner.
Complete(k) ==
  /\ run[k].pc = "completing" /\ HoldsBoth(k)
  /\ cache' = [cache EXCEPT ![MyKey(k)] = Stored(@, run[k].item)]
  /\ item' = [item EXCEPT ![run[k].item] =
                [Settle(@, "completed") EXCEPT !.result = MyEntry(k).version + 1]]
  /\ todo' = [todo EXCEPT ![k] = Tree(MyTask(k))]
  /\ Goes(k, "stored")
  /\ UNCHANGED <<task, sound, proc, reg, call, snap, struck>>

CompleteFails(k) ==
  /\ run[k].pc = "completing"
  /\ \/ ~HoldsBoth(k) /\ UNCHANGED struck
     \/ Strike("fault")
  /\ Fails(k, "error")
  /\ UNCHANGED <<dbVars, proc, reg, call, todo, snap>>

\* Faulty variant: a shutdown is not told apart from a cancellation.
VerdictNoShutdown(k, cancelRequested) ==
  IF cancelRequested \/ run[k].outcome = "canceled" THEN "cancelled" ELSE "failed"

\* How an execution that returned an error settles its item.
Verdict(k, cancelRequested) ==
  IF cancelRequested THEN "cancelled"
  ELSE IF proc = "stopping" THEN "shutdown"
  ELSE IF run[k].outcome = "canceled" THEN "cancelled" ELSE "failed"

\* finishWithError first reads the cancel flag, outside the transaction; a
\* read that fails counts as no cancellation.
FinishRead(k) ==
  /\ run[k].pc = "failing"
  /\ \E cancelRequested \in BOOLEAN :
       /\ IF cancelRequested = task[MyTask(k)].cancelRequested THEN UNCHANGED struck
          ELSE ~cancelRequested /\ Strike("fault")
       /\ run' = [run EXCEPT ![k] = [@ EXCEPT !.pc = "finishing",
                                             !.outcome = Verdict(k, cancelRequested)]]
  /\ UNCHANGED <<dbVars, proc, reg, call, todo, snap>>

\* Faulty variant: the item is settled without the lease owner in the guard.
FinishUnfenced(k) ==
  /\ run[k].pc = "finishing"
  /\ cache' = [cache EXCEPT ![MyKey(k)] = IF Holds(@, k) THEN NoEntry(@) ELSE @]
  /\ item' = [item EXCEPT ![run[k].item] =
       Settle(@, IF run[k].outcome = "shutdown" THEN "pending" ELSE run[k].outcome)]
  /\ todo' = [todo EXCEPT ![k] = Tree(MyTask(k))]
  /\ Goes(k, "refreshing")
  /\ UNCHANGED <<task, sound, proc, reg, call, snap, struck>>

\* Then it settles what the execution still owns.
FinishWrite(k) ==
  /\ run[k].pc = "finishing"
  /\ LET verdict == run[k].outcome
         kept == IF verdict = "shutdown" THEN Settle(MyEntry(k), "running") ELSE NoEntry(MyEntry(k))
     IN /\ cache' = [cache EXCEPT ![MyKey(k)] = IF Holds(@, k) THEN kept ELSE @]
        /\ item' = [item EXCEPT ![run[k].item] =
             IF Holds(@, k) THEN Settle(@, IF verdict = "shutdown" THEN "pending" ELSE verdict)
             ELSE @]
  /\ todo' = [todo EXCEPT ![k] = Tree(MyTask(k))]
  /\ Goes(k, "refreshing")
  /\ UNCHANGED <<task, sound, proc, reg, call, snap, struck>>

FinishFails(k) ==
  /\ run[k].pc = "finishing"
  /\ Strike("fault")
  /\ Leave(k)
  /\ UNCHANGED <<dbVars, proc, todo, snap>>
-----------------------------------------------------------------------------
(* Requests: Create, StartTask, Cancel, Retry, and the scheduler's own       *)
(* resolveBlockedDependencies.  Each reads, decides, and only then writes;   *)
(* nothing keeps other actors out in between.                                *)

\* Server c sets out to do a request, with what it has read so far.
Begin(c, request) ==
  /\ call[c] = NoCall
  /\ call' = [call EXCEPT ![c] = request]
  /\ UNCHANGED <<dbVars, proc, run, reg, todo, snap>>

\* The request c decides to do op on row r (and the leaf tasks targets).
Decide(c, op, r, targets) ==
  /\ Strike("call")
  /\ Begin(c, [NoCall EXCEPT !.op = op, !.row = r, !.targets = targets])

\* The writing half is over; the refreshes that follow it remain.
ThenRefresh(c, rows) ==
  /\ todo' = [todo EXCEPT ![c] = rows]
  /\ call' = [call EXCEPT ![c] = IF rows = {} THEN NoCall ELSE [NoCall EXCEPT !.op = "refreshing"]]

Serving(c, op) == call[c].op = op

\* The writing half fails as a whole: a statement failed, the client is gone,
\* or the scheduler is being shut down.
RequestFails(c) ==
  /\ call[c].op \in {"create", "start", "adopt", "invalidate", "cancel", "retry", "resolve"}
  /\ \/ Strike("fault")
     \/ c = Scheduler /\ proc = "stopping" /\ UNCHANGED struck
  /\ call' = [call EXCEPT ![c] = NoCall]
  /\ UNCHANGED <<dbVars, proc, run, reg, todo, snap>>

CacheHit(i) == cache[KeyOf[i]].status = "completed" /\ cache[KeyOf[i]].good

\* findValidCaches, before the transaction: the results row r could start with.
Hits(r) == [i \in Items |-> IF i \in Covered(r) /\ CacheHit(i) THEN cache[KeyOf[i]].version ELSE 0]

CreateLooks(c, r) ==
  /\ Alive
  /\ r \in Tasks => ParentOf[r] = None
  /\ task[r].status = "absent"
  /\ Strike("call")
  /\ Begin(c, [NoCall EXCEPT !.op = "create", !.row = r, !.hits = Hits(r)])

\* A stage is always created planned, even when the cache covers it; the
\* composite's first status nevertheless counts such a stage as completed.
CreatedStatus(r, hits) ==
  LET allHit(t) == \A i \in ItemsOf(t) : hits[i] # 0
  IN IF r \in Roots
     THEN DeriveCompositeStatus({IF allHit(t) THEN "completed" ELSE "planned" : t \in Children(r)})
     ELSE IF ParentOf[r] = None /\ allHit(r) THEN "completed" ELSE "planned"

\* One transaction; of two requests for one plan the second finds the first.
CreateWrites(c) ==
  /\ Serving(c, "create")
  /\ LET r == call[c].row
         hits == call[c].hits
         new == {q \in {r} \cup Leaves(r) : \A p \in {r} \cup Leaves(r) : task[p].status = "absent"}
     IN /\ task' = [q \in Rows |-> IF q \in new
                                   THEN [task[q] EXCEPT !.status = CreatedStatus(q, hits)] ELSE task[q]]
        /\ item' = [i \in Items |->
             IF TaskOf[i] \notin new THEN item[i]
             ELSE IF hits[i] # 0 THEN [item[i] EXCEPT !.status = "cached", !.result = hits[i]]
             ELSE [item[i] EXCEPT !.status = "pending"]]
  /\ ThenRefresh(c, {})
  /\ UNCHANGED <<cache, sound, proc, run, reg, snap, struck>>

Blocked(t) ==
  /\ task[t].status = "queued"
  /\ \E p \in Needs[t] : task[p].status \in {"failed", "partial", "cancelled", "invalidated"}

\* The tasks that are blocked are read first ...
ResolveLooks ==
  /\ proc = "up"
  /\ \E t \in Tasks : Blocked(t)
  /\ Begin(Scheduler, [NoCall EXCEPT !.op = "resolve", !.targets = {t \in Tasks : Blocked(t)}])
  /\ UNCHANGED struck

\* ... and given up in a transaction each, which rechecks the task's status
\* but neither its prerequisites nor, for the items, that status.
ResolveWrites ==
  /\ Serving(Scheduler, "resolve")
  /\ \E t \in call[Scheduler].targets :
       /\ item' = [i \in Items |-> IF TaskOf[i] = t /\ item[i].status = "pending"
                                   THEN [item[i] EXCEPT !.status = "failed"] ELSE item[i]]
       /\ task' = [task EXCEPT ![t].status = IF @ = "queued" THEN "failed" ELSE @]
       /\ todo' = [todo EXCEPT ![Scheduler] = Tree(t)]
       /\ call' = [call EXCEPT ![Scheduler] = [@ EXCEPT !.op = "refreshing", !.targets = call[Scheduler].targets \ {t}]]
  /\ UNCHANGED <<cache, sound, proc, run, reg, snap, struck>>

HasPending(t) == \E i \in ItemsOf(t) : item[i].status = "pending"

StartDecides(c, t) ==
  /\ proc = "up"
  /\ task[t].status \in TaskStatuses \ {"completed", "queued", "running"}
  /\ \/ ~sound[t] /\ Decide(c, "invalidate", t, {t})
     \/ /\ sound[t] /\ task[t].status \in {"planned", "partial"}
        /\ DependenciesCompleted(t)
        /\ \/ HasPending(t) /\ Decide(c, "start", t, {t})
           \/ /\ task[t].status = "planned"
              /\ \A i \in ItemsOf(t) : item[i].status = "cached"
              /\ Decide(c, "adopt", t, {t})

\* The UPDATE of StartTask does not look at the status again.
StartWrites(c) ==
  /\ Serving(c, "start")
  /\ task' = [task EXCEPT ![call[c].row] =
                [status |-> "queued", started |-> TRUE, cancelRequested |-> FALSE]]
  /\ ThenRefresh(c, ParentRows(call[c].row))
  /\ UNCHANGED <<item, cache, sound, proc, run, reg, snap, struck>>

\* A planned task that the cache covers completely is completed by the start.
AdoptWrites(c) ==
  /\ Serving(c, "adopt")
  /\ task' = [task EXCEPT ![call[c].row] =
                IF @.status # "planned" THEN @
                ELSE [status |-> "completed", started |-> TRUE, cancelRequested |-> FALSE]]
  /\ ThenRefresh(c, ParentRows(call[c].row))
  /\ UNCHANGED <<item, cache, sound, proc, run, reg, snap, struck>>

\* A request that meets a task whose stored identity is broken invalidates it
\* and fails; no composite is refreshed.
InvalidateWrites(c) ==
  /\ Serving(c, "invalidate")
  /\ \E t \in call[c].targets : Invalidated(t)
  /\ ThenRefresh(c, {})
  /\ UNCHANGED <<cache, sound, proc, run, reg, snap, struck>>

CancelDecides(c, r) ==
  /\ Alive
  /\ task[r].status \in TaskStatuses \ {"completed", "invalidated"}
  /\ Decide(c, "cancel", r, Leaves(r))

CancelWrites(c) ==
  /\ Serving(c, "cancel")
  /\ task' = [q \in Rows |->
       IF q \in {call[c].row} \cup call[c].targets /\ task[q].status \notin {"completed", "invalidated"}
       THEN [task[q] EXCEPT !.cancelRequested = TRUE] ELSE task[q]]
  /\ item' = [i \in Items |->
       IF TaskOf[i] \in call[c].targets /\ item[i].status = "pending"
       THEN Settle(item[i], "cancelled") ELSE item[i]]
  /\ call' = [call EXCEPT ![c].op = "signal"]
  /\ UNCHANGED <<cache, sound, proc, run, reg, todo, snap, struck>>

\* cancelTaskExecutions reaches the executions registered at this moment.
Registered(tasks) == {reg[i] : i \in {j \in Items : TaskOf[j] \in tasks}}

CancelSignals(c) ==
  /\ Serving(c, "signal")
  /\ run' = [k \in Claims |-> IF k \in Registered(call[c].targets)
                              THEN [run[k] EXCEPT !.ctxDone = TRUE] ELSE run[k]]
  /\ ThenRefresh(c, IF call[c].row \in Roots THEN {call[c].row} \cup call[c].targets
                    ELSE Tree(call[c].row))
  /\ UNCHANGED <<dbVars, proc, reg, snap, struck>>

Open(r) == {t \in Leaves(r) : task[t].status # "completed"}

RetryDecides(c, r) ==
  /\ proc = "up"
  /\ CanRetry(task[r].status)
  /\ r \in Tasks => DependenciesCompleted(r)
  /\ IF \A t \in Open(r) : sound[t] THEN Decide(c, "retry", r, Open(r))
     ELSE \E t \in Open(r) : ~sound[t] /\ Decide(c, "invalidate", r, {t})

\* Faulty variant: a retry starts the whole task over.
RetryEverything(c) ==
  /\ Serving(c, "retry") /\ call[c].row \in Tasks
  /\ item' = [i \in Items |-> IF TaskOf[i] \in call[c].targets THEN Settle(item[i], "pending")
                              ELSE item[i]]
  /\ task' = [task EXCEPT ![call[c].row] =
                [status |-> "queued", started |-> TRUE, cancelRequested |-> FALSE]]
  /\ ThenRefresh(c, ParentRows(call[c].row))
  /\ UNCHANGED <<cache, sound, proc, run, reg, snap, struck>>

\* Only the missing items are queued again; a composite goes back to planned
\* and its stages wait for an explicit start.
RetryWrites(c) ==
  /\ Serving(c, "retry")
  /\ LET asked == call[c].row
         again(i) == TaskOf[i] \in call[c].targets /\ item[i].status \in {"failed", "cancelled"}
         revived(t) == t \in call[c].targets
                       /\ \E i \in ItemsOf(t) : again(i) \/ item[i].status = "pending"
         reset == [status |-> IF asked \in Roots THEN "planned" ELSE "queued",
                   started |-> asked \notin Roots, cancelRequested |-> FALSE]
     IN /\ item' = [i \in Items |-> IF again(i) THEN Settle(item[i], "pending") ELSE item[i]]
        /\ task' = [q \in Rows |-> IF revived(q) \/ (q = asked /\ q \in Roots)
                                   THEN reset ELSE task[q]]
        /\ ThenRefresh(c, IF asked \in Roots THEN {asked} ELSE ParentRows(asked))
  /\ UNCHANGED <<cache, sound, proc, run, reg, snap, struck>>
-----------------------------------------------------------------------------
(* Life of the process: Start with its recovery, Shutdown, crash *)

MemoryLost == /\ run' = [k \in Claims |-> Idle]
              /\ reg' = [i \in Items |-> None]
              /\ call' = [c \in Servers |-> NoCall]
              /\ todo' = [th \in Threads |-> {}]
              /\ snap' = [th \in Threads |-> NoSnap]

Crash ==
  /\ proc \in {"starting", "up", "stopping"}
  /\ Strike("crash")
  /\ proc' = "down"
  /\ MemoryLost
  /\ UNCHANGED dbVars

\* Every claim's context derives from the one Shutdown cancels.
Shutdown ==
  /\ proc = "up"
  /\ Strike("crash")
  /\ proc' = "stopping"
  /\ run' = [k \in Claims |-> IF run[k] = Idle THEN Idle ELSE [run[k] EXCEPT !.ctxDone = TRUE]]
  /\ UNCHANGED <<dbVars, reg, call, todo, snap>>

\* Shutdown has waited for the scheduler and for every execution.  The HTTP
\* server is stopped only afterwards, so requests may still be in flight.
ShutdownEnds ==
  /\ proc = "stopping"
  /\ run = [k \in Claims |-> Idle]
  /\ call[Scheduler] = NoCall
  /\ proc' = "stopped"
  /\ UNCHANGED <<dbVars, run, reg, call, todo, snap, struck>>

\* The process exits when Shutdown is over or its deadline has passed.
Exit ==
  /\ proc \in {"stopping", "stopped"}
  /\ proc' = "down"
  /\ MemoryLost
  /\ UNCHANGED <<dbVars, struck>>

\* Tasks whose cancellation a previous process did not finish.
Doomed == {t \in Tasks : task[t].cancelRequested /\ task[t].status \in {"queued", "running"}}

RecoveredItems == [i \in Items |->
  IF TaskOf[i] \in Doomed /\ item[i].status \in {"pending", "running"} THEN Settle(item[i], "cancelled")
  ELSE IF item[i].status = "running" /\ ~item[i].live THEN Settle(item[i], "pending")
  ELSE item[i]]

\* Faulty variant: recovery drops every entry of a cancelled task, stored
\* results included.
RecoveredCacheAll == [c \in Keys |->
  IF cache[c].source # None /\ TaskOf[cache[c].source] \in Doomed THEN NoEntry(cache[c])
  ELSE IF cache[c].status = "running" /\ ~cache[c].live THEN Settle(cache[c], "running")
  ELSE cache[c]]

RecoveredCache == [c \in Keys |->
  IF cache[c].status # "running" THEN cache[c]
  ELSE IF cache[c].source # None /\ TaskOf[cache[c].source] \in Doomed THEN NoEntry(cache[c])
  ELSE IF ~cache[c].live THEN Settle(cache[c], "running")
  ELSE cache[c]]

RequeuedTasks == [r \in Rows |->
  IF task[r].status = "running"
     /\ \A i \in Items : TaskOf[i] = r => ~(RecoveredItems[i].status = "running" /\ RecoveredItems[i].live)
  THEN [task[r] EXCEPT !.status = "queued"] ELSE task[r]]

\* The transaction of recoverExpired.
Recover ==
  /\ proc = "down"
  /\ proc' = "starting"
  /\ item' = RecoveredItems
  /\ cache' = RecoveredCache
  /\ task' = RequeuedTasks
  /\ UNCHANGED <<sound, run, reg, call, todo, snap, struck>>

Recovering == proc = "starting" /\ todo[Scheduler] = {}

\* Then it refreshes each of those tasks, which makes it cancelled, ...
RecoverCancelled(t) ==
  /\ Recovering
  /\ t \in Doomed
  /\ todo' = [todo EXCEPT ![Scheduler] = Tree(t)]
  /\ UNCHANGED <<dbVars, proc, run, reg, call, snap, struck>>

\* ... validateRecoverableTasks gives up those that match no executor, ...
Broken == {t \in Tasks : ~sound[t] /\ task[t].status \in {"queued", "running"}}

RecoverInvalid(t) ==
  /\ Recovering
  /\ Doomed = {} /\ t \in Broken
  /\ Invalidated(t)
  /\ todo' = [todo EXCEPT ![Scheduler] = ParentRows(t)]
  /\ UNCHANGED <<cache, sound, proc, run, reg, call, snap, struck>>

\* ... and the service is up.  An invalidation that fails is ignored.
Start ==
  /\ Recovering
  /\ Doomed = {}
  /\ IF Broken = {} THEN UNCHANGED struck ELSE Strike("fault")
  /\ proc' = "up"
  /\ UNCHANGED <<dbVars, run, reg, call, todo, snap>>
-----------------------------------------------------------------------------
(* Time and the outside world *)

\* Nobody renews a lease without an owner, of an execution that is gone, or
\* of one whose context is cancelled.
Attended(row) == row.owner # None /\ run[row.owner].pc # "free" /\ ~run[row.owner].ctxDone

Lapses(row) == row.live /\ (IF Attended(row) THEN Strike("stall") ELSE UNCHANGED struck)

ItemLeaseLapses(i) ==
  /\ Lapses(item[i])
  /\ item' = [item EXCEPT ![i].live = FALSE]
  /\ UNCHANGED <<task, cache, sound, memVars>>

EntryLeaseLapses(c) ==
  /\ Lapses(cache[c])
  /\ cache' = [cache EXCEPT ![c].live = FALSE]
  /\ UNCHANGED <<task, item, sound, memVars>>

\* A completed entry's content no longer passes validCompletedCache.
EntryRots(c) ==
  /\ cache[c].status = "completed" /\ cache[c].good
  /\ Strike("rot")
  /\ cache' = [cache EXCEPT ![c].good = FALSE]
  /\ UNCHANGED <<task, item, sound, memVars>>

\* A task no longer passes runtimeExecutor / validateStoredTask.
TaskCorrupted(t) ==
  /\ sound[t]
  /\ Strike("corrupt")
  /\ sound' = [sound EXCEPT ![t] = FALSE]
  /\ UNCHANGED <<task, item, cache, memVars>>
-----------------------------------------------------------------------------
Init ==
  /\ task = [r \in Rows |-> [status |-> IF r \in Prestarted THEN "queued"
                                       ELSE IF r \in Precreated THEN "planned" ELSE "absent",
                             started |-> r \in Prestarted, cancelRequested |-> FALSE]]
  /\ item = [i \in Items |-> [status |-> IF TaskOf[i] \in Precreated THEN "pending" ELSE "absent",
                              owner |-> None, live |-> FALSE, result |-> 0]]
  /\ cache = [c \in Keys |-> [status |-> "none", owner |-> None, live |-> FALSE,
                              source |-> None, good |-> FALSE, version |-> 0]]
  /\ sound = [t \in Tasks |-> TRUE]
  /\ proc = "up"
  /\ run = [k \in Claims |-> Idle]
  /\ reg = [i \in Items |-> None]
  /\ call = [c \in Servers |-> NoCall]
  /\ todo = [th \in Threads |-> {}]
  /\ snap = [th \in Threads |-> NoSnap]
  /\ struck = [h \in Hazards |-> 0]

Refresh(th) == RefreshBegins(th) \/ RefreshRead(th) \/ RefreshWrite(th)

Restart == \/ Recover \/ Start
           \/ \E t \in Tasks : RecoverCancelled(t) \/ RecoverInvalid(t)

Schedule == (\E k \in Claims, i \in Items : Claim(k, i)) \/ (\E i \in Items : ClaimInvalid(i))

Reserve(k) == ReserveReused(k) \/ ReserveDropped(k) \/ ReserveWait(k) \/ ReserveOwn(k)

Execution(k) == \/ Register(k) \/ Reserve(k) \/ ReserveFails(k)
                \/ Release(k) \/ ReleaseFails(k)
                \/ ExecuteReturns(k) \/ ReportProgress(k)
                \/ Heartbeat(k) \/ HeartbeatFails(k)
                \/ Complete(k) \/ CompleteFails(k)
                \/ FinishRead(k) \/ FinishWrite(k) \/ FinishFails(k)

Request(c) == \/ \E t \in Tasks : StartDecides(c, t)
              \/ \E r \in Rows : CreateLooks(c, r) \/ CancelDecides(c, r) \/ RetryDecides(c, r)
              \/ CreateWrites(c) \/ StartWrites(c) \/ AdoptWrites(c) \/ InvalidateWrites(c)
              \/ CancelWrites(c) \/ CancelSignals(c) \/ RetryWrites(c)

Environment == \/ \E i \in Items : ItemLeaseLapses(i)
               \/ \E c \in Keys : EntryLeaseLapses(c) \/ EntryRots(c)
               \/ \E t \in Tasks : TaskCorrupted(t)

Next == \/ Schedule
        \/ ResolveLooks \/ ResolveWrites
        \/ \E k \in Claims : Execution(k)
        \/ \E c \in Callers : Request(c)
        \/ \E c \in Servers : RequestFails(c)
        \/ \E th \in Threads : Refresh(th) \/ RefreshFails(th)
        \/ Crash \/ Shutdown \/ ShutdownEnds \/ Exit \/ Restart
        \/ Environment

Spec == Init /\ [][Next]_vars
-----------------------------------------------------------------------------
\* Fairness.  The scheduler polls, goroutines run, requests are served, the
\* process is restarted, and an unrenewed lease expires.  That an executor
\* returns is a separate assumption.
Progress(k) == \/ Register(k) \/ Reserve(k) \/ ReserveFails(k) \/ Release(k) \/ ReleaseFails(k)
               \/ Complete(k) \/ CompleteFails(k) \/ FinishRead(k) \/ FinishWrite(k)

Serve(c) == \/ CreateWrites(c) \/ StartWrites(c) \/ AdoptWrites(c) \/ InvalidateWrites(c)
            \/ CancelWrites(c) \/ CancelSignals(c) \/ RetryWrites(c)

Fairness ==
  /\ WF_vars(Schedule)
  /\ WF_vars(Restart)
  /\ WF_vars(ShutdownEnds) /\ WF_vars(Exit)
  /\ WF_vars(ResolveLooks) /\ WF_vars(ResolveWrites)
  /\ \A k \in Claims : WF_vars(Progress(k)) /\ WF_vars(Heartbeat(k))
  /\ \A c \in Callers : WF_vars(Serve(c))
  /\ \A th \in Threads : WF_vars(Refresh(th))
  /\ \A i \in Items : WF_vars(~Attended(item[i]) /\ ItemLeaseLapses(i))
  /\ \A c \in Keys : WF_vars(~Attended(cache[c]) /\ EntryLeaseLapses(c))

ExecutorsReturn == \A k \in Claims : WF_vars(ExecuteReturns(k))

FairSpec == Spec /\ Fairness
WorkSpec == FairSpec /\ ExecutorsReturn
-----------------------------------------------------------------------------
Statuses == TaskStatuses \cup {"absent"}

TaskRow == [status : Statuses, started : BOOLEAN, cancelRequested : BOOLEAN]
ItemRow == [status : ItemStatuses \cup {"absent"}, owner : Claims \cup {None},
            live : BOOLEAN, result : Nat]
CacheRow == [status : {"none", "running", "completed"}, owner : Claims \cup {None},
             live : BOOLEAN, source : Items \cup {None}, good : BOOLEAN, version : Nat]
RunState == [pc : {"free", "claimed", "reserving", "waiting", "releasing", "executing",
                   "completing", "stored", "failing", "finishing", "refreshing"},
             item : Items \cup {None}, ctxDone : BOOLEAN,
             outcome : {"none", "error", "canceled", "shutdown", "cancelled", "failed"}]
CallState == [op : {"idle", "create", "start", "adopt", "invalidate", "cancel", "signal",
                    "retry", "resolve", "refreshing"},
              row : Rows \cup {None}, targets : SUBSET Tasks, hits : [Items -> Nat]]
SnapState == [row : Rows \cup {None}, status : Statuses \cup {"none"},
              started : BOOLEAN, cancelRequested : BOOLEAN]

\* Types of all rows and of the process memory.
TypeOK ==
  /\ task \in [Rows -> TaskRow]
  /\ item \in [Items -> ItemRow]
  /\ cache \in [Keys -> CacheRow]
  /\ sound \in [Tasks -> BOOLEAN]
  /\ proc \in {"down", "starting", "up", "stopping", "stopped"}
  /\ run \in [Claims -> RunState]
  /\ reg \in [Items -> Claims \cup {None}]
  /\ call \in [Servers -> CallState]
  /\ todo \in [Threads -> SUBSET Rows]
  /\ snap \in [Threads -> SnapState]
  /\ struck \in [Hazards -> Nat]

IsValid(i) == item[i].status \in ValidStatuses

\* A task or composite that says "completed" has a valid result for every one
\* of its items, whatever refreshes, requests and restarts ran concurrently.
CompletedMeansAllValid ==
  \A r \in Rows : task[r].status = "completed" => \A i \in Covered(r) : IsValid(i)

\* No item of a stage is worked on, or has been computed by this stage, unless
\* every prerequisite stage has all of its results.
StageOrder ==
  \A i \in Items : item[i].status \in {"running", "completed"} =>
    \A p \in Needs[TaskOf[i]] : \A j \in ItemsOf(p) : IsValid(j)

\* While no lease lapses under a running execution, no cache key is computed
\* by two executions with live contexts at once.
Flying(k) == run[k].pc \in {"executing", "completing"} /\ ~run[k].ctxDone
SingleFlight ==
  struck["stall"] = 0 =>
    \A k, l \in Claims : Flying(k) /\ Flying(l) /\ MyKey(k) = MyKey(l) => k = l

\* A valid result is never taken back or replaced, not even by a late worker.
ResultKept ==
  [][\A i \in Items : IsValid(i) => item'[i] = item[i]]_vars

\* Until a user has sent a request, a lease has lapsed under its execution or
\* a statement has failed, no item is recorded as cancelled: a shutdown and a
\* crash leave their interrupted items to be resumed.
CancelledOnRequest ==
  (\A h \in {"call", "stall", "fault"} : struck[h] = 0) =>
    \A i \in Items : item[i].status # "cancelled"

\* No handler is under way and no refresh is pending.
Quiet == /\ run = [k \in Claims |-> Idle]
         /\ call = [c \in Servers |-> NoCall]
         /\ todo = [th \in Threads |-> {}]

\* Comment of Shutdown: interrupted items return to pending.
ShutdownReturnsItems ==
  proc = "stopped" => \A i \in Items : item[i].status # "running"

\* A task whose items were all cancelled shows as cancelled once everything
\* that was in flight has ended.
CancelledIsShown ==
  \A t \in Tasks : Quiet /\ Present(t) = {"cancelled"} =>
    task[t].status \in {"cancelled", "invalidated"}

\* A composite shows as completed only when its stages do.
CompositeFollowsStages ==
  \A r \in Roots : Quiet /\ task[r].status = "completed" => Stages(r) = {"completed"}

\* A started task comes to an end the user can see.
TaskSettles ==
  \A t \in Tasks : task[t].status \in {"queued", "running"}
                     ~> task[t].status \in {"completed", "partial", "failed", "cancelled", "invalidated"}

\* An execution whose task has a cancellation requested does not stay
\* uninformed, although Cancel's own signal misses an execution that is not
\* registered at that moment, or whose registration another one replaced.
Uninformed(k) ==
  run[k].pc = "executing" /\ ~run[k].ctxDone /\ task[MyTask(k)].cancelRequested
CancelReaches == \A k \in Claims : Uninformed(k) ~> ~Uninformed(k)

\* Work that may be done gets done: an unfinished item of a runnable task is
\* settled, or its task stops being runnable, across crashes, lapsed leases
\* and waits for another execution of the same key.
Owed(i) == item[i].status \in {"pending", "running"} /\ Runnable(TaskOf[i])
WorkGetsDone == \A i \in Items : Owed(i) ~> ~Owed(i)

\* The service implements the ledger of results.
Ledger == INSTANCE ResultLedger WITH
  version <- [c \in Keys |-> cache[c].version],
  usable <- [c \in Keys |-> cache[c].status = "completed" /\ cache[c].good],
  received <- [i \in Items |-> item[i].result],
  quoted <- [i \in Items |-> {call[c].hits[i] : c \in Callers} \ {0}],
  spoiled <- struck["rot"]
LedgerSpec == Ledger!Spec
=============================================================================
