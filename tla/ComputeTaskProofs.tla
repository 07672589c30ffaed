-------------------------- MODULE ComputeTaskProofs --------------------------
(***************************************************************************)
(* Theorems about ComputeTask for every set of tasks, items, keys, workers, *)
(* callers and every budget of hazards.                                     *)
(*                                                                          *)
(* First the types: the row lemmas say what one update makes of one row,    *)
(* the lemmas ...Type that an action keeps every table typed.  Then the     *)
(* invariant Honest, with one lemma ...Honest per group of actions.  Then   *)
(* the executions: the order of stages, one execution of a cache key at a   *)
(* time, items that nobody cancelled, and the ledger of results that the    *)
(* service implements.                                                      *)
(***************************************************************************)
EXTENDS ComputeTask, TLAPS

\* Process memory that makes sense: a running goroutine has an item, a verdict
\* is one FinishWrite knows, a request names the rows its writing half needs.
GoodRun == {r \in RunState :
  /\ r.pc # "free" => r.item \in Items
  /\ r.pc = "finishing" => r.outcome \in {"shutdown", "cancelled", "failed"}}

GoodCall == {c \in CallState :
  /\ c.op \in {"start", "adopt"} => c.row \in Tasks
  /\ c.op \in {"create", "cancel", "signal", "retry", "invalidate"} => c.row \in Rows}

GoodSnap == {s \in SnapState : s = NoSnap \/ (s.row \in Rows /\ s.status \in TaskStatuses \cup {"none"})}

TypeInv ==
  /\ TypeOK
  /\ run \in [Claims -> GoodRun]
  /\ call \in [Servers -> GoodCall]
  /\ snap \in [Threads -> GoodSnap]

-----------------------------------------------------------------------------

\* An update of an item row gives an item row.
LEMMA ItemRows ==
  ASSUME NEW row \in ItemRow
  PROVE  /\ \A s \in ItemStatuses : Settle(row, s) \in ItemRow
         /\ \A k \in Claims : Leased(row, k) \in ItemRow
         /\ \A b \in BOOLEAN : [row EXCEPT !.live = b] \in ItemRow
         /\ \A s \in ItemStatuses : [row EXCEPT !.status = s] \in ItemRow
         /\ \A n \in Nat : [row EXCEPT !.result = n] \in ItemRow
         /\ \A s \in ItemStatuses, n \in Nat : [row EXCEPT !.status = s, !.result = n] \in ItemRow
BY DEF ItemRow, Settle, Leased, ItemStatuses

\* An update of a cache entry gives a cache entry.
LEMMA CacheRows ==
  ASSUME NEW row \in CacheRow
  PROVE  /\ \A s \in {"running", "completed"} : Settle(row, s) \in CacheRow
         /\ NoEntry(row) \in CacheRow
         /\ \A i \in Items : Stored(row, i) \in CacheRow
         /\ \A k \in Claims, i \in Items : [Leased(row, k) EXCEPT !.source = i] \in CacheRow
         /\ \A b \in BOOLEAN : [row EXCEPT !.live = b] \in CacheRow
         /\ [row EXCEPT !.good = FALSE] \in CacheRow
<1>1. \A s \in {"running", "completed"} : Settle(row, s) \in CacheRow
  BY DEF CacheRow, Settle
<1>2. NoEntry(row) \in CacheRow
  BY DEF CacheRow, Settle, NoEntry
<1>3. ASSUME NEW i \in Items PROVE Stored(row, i) \in CacheRow
  <2>1. Settle(row, "completed") \in CacheRow
    BY DEF CacheRow, Settle
  <2>2. Settle(row, "completed").version + 1 \in Nat
    BY <2>1 DEF CacheRow
  <2> QED
    BY <2>1, <2>2 DEF CacheRow, Stored
<1>4. ASSUME NEW k \in Claims, NEW i \in Items PROVE [Leased(row, k) EXCEPT !.source = i] \in CacheRow
  <2>1. Leased(row, k) \in CacheRow
    BY DEF CacheRow, Leased
  <2> QED
    BY <2>1 DEF CacheRow
<1>5. \A b \in BOOLEAN : [row EXCEPT !.live = b] \in CacheRow
  BY DEF CacheRow
<1>6. [row EXCEPT !.good = FALSE] \in CacheRow
  BY DEF CacheRow
<1> QED
  BY <1>1, <1>2, <1>3, <1>4, <1>5, <1>6

\* An update of a task row gives a task row.
LEMMA TaskRows ==
  ASSUME NEW row \in TaskRow
  PROVE  /\ \A s \in Statuses : [row EXCEPT !.status = s] \in TaskRow
         /\ \A s \in Statuses, b \in BOOLEAN : [row EXCEPT !.status = s, !.started = b] \in TaskRow
         /\ [row EXCEPT !.cancelRequested = TRUE] \in TaskRow
BY DEF TaskRow, Statuses

PCs == {"claimed", "reserving", "waiting", "releasing", "executing", "completing", "stored",
        "failing", "refreshing"}

\* An update of a goroutine that makes sense gives one that makes sense.
LEMMA RunRows ==
  /\ Idle \in GoodRun
  /\ \A i \in Items : [Idle EXCEPT !.pc = "claimed", !.item = i] \in GoodRun
  /\ \A r \in GoodRun :
       /\ \A b \in BOOLEAN : [r EXCEPT !.ctxDone = b] \in GoodRun
       /\ r.pc # "free" =>
            /\ \A pc \in PCs : [r EXCEPT !.pc = pc] \in GoodRun
            /\ \A o \in {"error", "canceled"} : [r EXCEPT !.pc = "failing", !.outcome = o] \in GoodRun
            /\ \A o \in {"shutdown", "cancelled", "failed"} :
                 [r EXCEPT !.pc = "finishing", !.outcome = o] \in GoodRun
<1>1. Idle \in GoodRun
  BY DEF Idle, GoodRun, RunState
<1>2. \A i \in Items : [Idle EXCEPT !.pc = "claimed", !.item = i] \in GoodRun
  BY DEF Idle, GoodRun, RunState
<1>3. ASSUME NEW r \in GoodRun, NEW b \in BOOLEAN PROVE [r EXCEPT !.ctxDone = b] \in GoodRun
  BY DEF GoodRun, RunState
<1>4. ASSUME NEW r \in GoodRun, r.pc # "free", NEW pc \in PCs PROVE [r EXCEPT !.pc = pc] \in GoodRun
  BY <1>4 DEF GoodRun, RunState, PCs
<1>5. ASSUME NEW r \in GoodRun, r.pc # "free", NEW o \in {"error", "canceled"}
      PROVE  [r EXCEPT !.pc = "failing", !.outcome = o] \in GoodRun
  BY <1>5 DEF GoodRun, RunState
<1>6. ASSUME NEW r \in GoodRun, r.pc # "free", NEW o \in {"shutdown", "cancelled", "failed"}
      PROVE  [r EXCEPT !.pc = "finishing", !.outcome = o] \in GoodRun
  BY Zenon, <1>6 DEF GoodRun, RunState
<1> QED
  BY Zenon, <1>1, <1>2, <1>3, <1>4, <1>5, <1>6

\* The requests the code decides on are requests that make sense.
LEMMA CallRows ==
  /\ NoCall \in GoodCall
  /\ [NoCall EXCEPT !.op = "refreshing"] \in GoodCall
  /\ \A t \in Tasks, T \in SUBSET Tasks, op \in {"start", "adopt", "invalidate"} :
       [NoCall EXCEPT !.op = op, !.row = t, !.targets = T] \in GoodCall
  /\ \A r \in Rows, T \in SUBSET Tasks, op \in {"cancel", "retry", "invalidate"} :
       [NoCall EXCEPT !.op = op, !.row = r, !.targets = T] \in GoodCall
  /\ \A r \in Rows, h \in [Items -> Nat] :
       [NoCall EXCEPT !.op = "create", !.row = r, !.hits = h] \in GoodCall
  /\ \A T \in SUBSET Tasks : [NoCall EXCEPT !.op = "resolve", !.targets = T] \in GoodCall
  /\ \A c \in GoodCall : [c EXCEPT !.op = "resolve"] \in GoodCall
  /\ \A c \in GoodCall, T \in SUBSET Tasks :
       [c EXCEPT !.op = "refreshing", !.targets = T] \in GoodCall
  /\ \A c \in GoodCall : c.op = "cancel" => [c EXCEPT !.op = "signal"] \in GoodCall
<1>1. NoHits \in [Items -> Nat]
  BY DEF NoHits
<1>2. NoCall \in GoodCall
  BY <1>1 DEF NoCall, GoodCall, CallState
<1>3. [NoCall EXCEPT !.op = "refreshing"] \in GoodCall
  BY <1>1 DEF NoCall, GoodCall, CallState
<1>4. ASSUME NEW t \in Tasks, NEW T \in SUBSET Tasks, NEW op \in {"start", "adopt", "invalidate"}
      PROVE  [NoCall EXCEPT !.op = op, !.row = t, !.targets = T] \in GoodCall
  BY <1>1 DEF NoCall, GoodCall, CallState, Rows
<1>5. ASSUME NEW r \in Rows, NEW T \in SUBSET Tasks, NEW op \in {"cancel", "retry", "invalidate"}
      PROVE  [NoCall EXCEPT !.op = op, !.row = r, !.targets = T] \in GoodCall
  BY <1>1 DEF NoCall, GoodCall, CallState
<1>6. ASSUME NEW r \in Rows, NEW h \in [Items -> Nat]
      PROVE  [NoCall EXCEPT !.op = "create", !.row = r, !.hits = h] \in GoodCall
  BY DEF NoCall, GoodCall, CallState
<1>7. ASSUME NEW T \in SUBSET Tasks PROVE [NoCall EXCEPT !.op = "resolve", !.targets = T] \in GoodCall
  BY <1>1 DEF NoCall, GoodCall, CallState
<1>9. ASSUME NEW c \in GoodCall PROVE [c EXCEPT !.op = "resolve"] \in GoodCall
  BY DEF GoodCall, CallState
<1>10. ASSUME NEW c \in GoodCall, NEW T \in SUBSET Tasks
       PROVE  [c EXCEPT !.op = "refreshing", !.targets = T] \in GoodCall
  BY DEF GoodCall, CallState
<1>8. ASSUME NEW c \in GoodCall, c.op = "cancel" PROVE [c EXCEPT !.op = "signal"] \in GoodCall
  BY <1>8 DEF GoodCall, CallState
<1> QED
  BY Zenon, <1>2, <1>3, <1>4, <1>5, <1>6, <1>7, <1>8, <1>9, <1>10

-----------------------------------------------------------------------------
\* A running execution's item, key, task and refreshes are in the tables.
LEMMA MyPlaces ==
  ASSUME TypeInv, NEW k \in Claims, run[k].pc # "free"
  PROVE  /\ run[k].item \in Items
         /\ MyKey(k) \in Keys
         /\ MyTask(k) \in Tasks
         /\ Tree(MyTask(k)) \in SUBSET Rows
<1>1. run[k].item \in Items
  BY DEF TypeInv, GoodRun
<1> QED
  BY <1>1, StructureAssumption DEF MyKey, MyTask, Tree, ParentRows, Rows

\* Budgets stay natural numbers.
LEMMA StruckType ==
  ASSUME TypeInv, NEW h \in Hazards, Strike(h)
  PROVE  struck' \in [Hazards -> Nat]
BY DEF TypeInv, TypeOK, Strike

\* Ending a handler keeps the process memory typed.
LEMMA LeaveType ==
  ASSUME TypeInv, NEW th \in Threads, Leave(th)
  PROVE  /\ run' \in [Claims -> GoodRun]
         /\ reg' \in [Items -> Claims \cup {None}]
         /\ call' \in [Servers -> GoodCall]
BY Zenon, RunRows, CallRows DEF TypeInv, TypeOK, Leave

\* What a step must establish: everything else in TypeInv follows.
LEMMA TypeInvNext ==
  ASSUME /\ task' \in [Rows -> TaskRow]
         /\ item' \in [Items -> ItemRow]
         /\ cache' \in [Keys -> CacheRow]
         /\ sound' \in [Tasks -> BOOLEAN]
         /\ proc' \in {"down", "starting", "up", "stopping", "stopped"}
         /\ run' \in [Claims -> GoodRun]
         /\ reg' \in [Items -> Claims \cup {None}]
         /\ call' \in [Servers -> GoodCall]
         /\ todo' \in [Threads -> SUBSET Rows]
         /\ snap' \in [Threads -> GoodSnap]
         /\ struck' \in [Hazards -> Nat]
  PROVE  TypeInv'
<1>1. GoodRun \subseteq RunState /\ GoodCall \subseteq CallState /\ GoodSnap \subseteq SnapState
  BY DEF GoodRun, GoodCall, GoodSnap
<1> QED
  BY <1>1 DEF TypeInv, TypeOK

\* Every step of executeClaim keeps the types.
LEMMA ExecutionType ==
  ASSUME TypeInv, NEW k \in Claims, Execution(k)
  PROVE  TypeInv'
<1> USE DEF TypeInv, TypeOK
<1>a. k \in Threads
  BY DEF Threads
<1>b. "fault" \in Hazards
  BY DEF Hazards
<1>c. item[run[k].item] \in ItemRow /\ cache[MyKey(k)] \in CacheRow /\ run[k] \in GoodRun
      /\ run[k].pc # "free" /\ run[k].item \in Items /\ MyKey(k) \in Keys /\ MyTask(k) \in Tasks
      /\ Tree(MyTask(k)) \in SUBSET Rows
  <2>1. run[k].pc # "free"
    BY Zenon DEF Execution, Reserve, Register, ReserveReused, ReserveDropped, ReserveWait, ReserveOwn,
           ReserveFails, Release, ReleaseFails, ExecuteReturns, ReportProgress, Heartbeat,
           HeartbeatFails, Complete, CompleteFails, FinishRead, FinishWrite, FinishFails
  <2> QED
    BY <2>1, MyPlaces
<1>d. \A pc \in PCs : [run EXCEPT ![k].pc = pc] \in [Claims -> GoodRun]
  BY Zenon, <1>c, RunRows
<1>e. \A o \in {"error", "canceled"} :
        [run EXCEPT ![k] = [@ EXCEPT !.pc = "failing", !.outcome = o]] \in [Claims -> GoodRun]
  BY Zenon, <1>c, RunRows
<1>f. \A b \in BOOLEAN : [run EXCEPT ![k].ctxDone = b] \in [Claims -> GoodRun]
  BY Zenon, <1>c, RunRows
<1>1. CASE Register(k)
  BY <1>1, <1>c, <1>d, TypeInvNext DEF Register, Goes, PCs, dbVars
<1>2. CASE ReserveReused(k)
  <2>1. MyEntry(k).version \in Nat
    BY <1>c DEF MyEntry, CacheRow
  <2>2. [Settle(item[run[k].item], "cached") EXCEPT !.result = MyEntry(k).version] \in ItemRow
    BY <2>1, <1>c, ItemRows DEF ItemStatuses
  <2>3. item' \in [Items -> ItemRow] /\ run' \in [Claims -> GoodRun] /\ todo' \in [Threads -> SUBSET Rows]
    BY <1>2, <2>2, <1>c, <1>d, <1>e DEF ReserveReused, Goes, Fails, PCs
  <2> QED
    BY <1>2, <2>3, TypeInvNext DEF ReserveReused
<1>3. CASE ReserveDropped(k)
  BY <1>3, <1>c, CacheRows, TypeInvNext DEF ReserveDropped, memVars
<1>4. CASE ReserveWait(k)
  BY <1>4, <1>d, TypeInvNext DEF ReserveWait, Goes, PCs, dbVars
<1>5. CASE ReserveOwn(k)
  BY <1>5, <1>c, <1>d, CacheRows, TypeInvNext DEF ReserveOwn, Goes, PCs
<1>6. CASE ReserveFails(k)
  BY <1>6, <1>b, <1>e, StruckType, TypeInvNext DEF ReserveFails, Fails, dbVars
<1>7. CASE Release(k)
  <2>1. [Settle(item[run[k].item], "pending") EXCEPT !.live = TRUE] \in ItemRow
    BY <1>c, ItemRows DEF ItemStatuses
  <2> QED
    BY <1>7, <1>c, <1>d, <2>1, TypeInvNext DEF Release, Goes, PCs
<1>8. CASE ReleaseFails(k)
  BY <1>8, <1>a, <1>b, LeaveType, StruckType, TypeInvNext DEF ReleaseFails, dbVars
<1>9. CASE ExecuteReturns(k)
  BY <1>9, <1>d, <1>e, TypeInvNext DEF ExecuteReturns, Goes, Fails, PCs, dbVars
<1>10. CASE ReportProgress(k)
  BY <1>10, <1>c, ItemRows, CacheRows, TypeInvNext DEF ReportProgress, memVars
<1>11. CASE Heartbeat(k)
  <2>1. /\ (item[run[k].item].live \/ Holds(MyItem(k), k)) \in BOOLEAN
        /\ (cache[MyKey(k)].live \/ HoldsBoth(k)) \in BOOLEAN
        /\ (~HoldsBoth(k) \/ task[MyTask(k)].cancelRequested) \in BOOLEAN
    BY <1>c DEF ItemRow, CacheRow, TaskRow, Holds, HoldsBoth, Rows
  <2> QED
    BY <1>11, <2>1, <1>c, <1>f, ItemRows, CacheRows, TypeInvNext DEF Heartbeat
<1>12. CASE HeartbeatFails(k)
  BY <1>12, <1>b, <1>f, StruckType, TypeInvNext DEF HeartbeatFails, dbVars
<1>13. CASE Complete(k)
  <2>1. MyEntry(k).version + 1 \in Nat
    BY <1>c DEF MyEntry, CacheRow
  <2>2. [Settle(item[run[k].item], "completed") EXCEPT !.result = MyEntry(k).version + 1] \in ItemRow
    BY <2>1, <1>c, ItemRows DEF ItemStatuses
  <2> QED
    BY <1>13, <2>2, <1>c, <1>d, CacheRows, TypeInvNext DEF Complete, Goes, PCs
<1>14. CASE CompleteFails(k)
  BY <1>14, <1>b, <1>e, StruckType, TypeInvNext DEF CompleteFails, Fails, dbVars
<1>15. CASE FinishRead(k)
  <2>1. \A b \in BOOLEAN : Verdict(k, b) \in {"shutdown", "cancelled", "failed"}
    BY DEF Verdict
  <2>2. PICK b \in BOOLEAN :
          run' = [run EXCEPT ![k] = [@ EXCEPT !.pc = "finishing", !.outcome = Verdict(k, b)]]
    BY <1>15 DEF FinishRead
  <2>4. run' \in [Claims -> GoodRun]
    BY Zenon, <2>1, <2>2, <1>c, RunRows
  <2>3. struck' \in [Hazards -> Nat]
    BY <1>15, <1>b, StruckType DEF FinishRead
  <2> QED
    BY <1>15, <2>3, <2>4, TypeInvNext DEF FinishRead, dbVars
<1>16. CASE FinishWrite(k)
  <2>0. run[k].pc = "finishing"
    BY <1>16 DEF FinishWrite
  <2>1. run[k].outcome \in {"shutdown", "cancelled", "failed"}
    BY <2>0, <1>c DEF GoodRun
  <2>2. item' \in [Items -> ItemRow]
    BY <1>16, <2>1, <1>c, ItemRows DEF FinishWrite, ItemStatuses
  <2>3. cache' \in [Keys -> CacheRow]
    BY <1>16, <1>c, CacheRows DEF FinishWrite, MyEntry
  <2> QED
    BY <1>16, <2>2, <2>3, <1>c, <1>d, TypeInvNext DEF FinishWrite, Goes, PCs
<1>17. CASE FinishFails(k)
  BY <1>17, <1>a, <1>b, LeaveType, StruckType, TypeInvNext DEF FinishFails, dbVars
<1> QED
  BY <1>1, <1>2, <1>3, <1>4, <1>5, <1>6, <1>7, <1>8, <1>9, <1>10, <1>11, <1>12, <1>13, <1>14,
     <1>15, <1>16, <1>17 DEF Execution, Reserve

\* What a refresh derives can be written to its row.
LEMMA DerivedType ==
  ASSUME TypeInv, NEW seen \in SnapState, seen.row \in Rows
  PROVE  /\ Derived(seen) \in SnapState
         /\ Derived(seen).row = seen.row
         /\ Derived(seen).status \in TaskStatuses
<1>1. /\ \A present, a, b : DeriveTaskStatus(present, a, b) \in TaskStatuses
      /\ \A stages : DeriveCompositeStatus(stages) \in TaskStatuses
  BY DEF DeriveTaskStatus, DeriveCompositeStatus, TaskStatuses
<1>2. AtomicStatus(seen) \in TaskStatuses /\ CompositeStatus(seen) \in TaskStatuses
  BY <1>1 DEF AtomicStatus, CompositeStatus, TaskStatuses
<1>3. \A s \in TaskStatuses, b \in BOOLEAN :
        LET d == [seen EXCEPT !.status = s, !.started = b]
        IN  d \in SnapState /\ d.row = seen.row /\ d.status = s
  BY DEF SnapState, Statuses
<1>4. (~seen.started /\ \E t \in Children(seen.row) : task[t].started) \in BOOLEAN
  OBVIOUS
<1> QED
  BY Zenon, <1>2, <1>3, <1>4 DEF Derived

\* Writing a derived status keeps the task table typed.
LEMMA WrittenType ==
  ASSUME TypeInv, NEW d \in SnapState, d.row \in Rows, d.status \in TaskStatuses
  PROVE  Written(d) \in [Rows -> TaskRow]
<1>1. d.started \in BOOLEAN /\ task[d.row] \in TaskRow /\ task[d.row].started \in BOOLEAN
  BY DEF SnapState, TaskRow, TypeInv, TypeOK
<1> QED
  BY <1>1, TaskRows DEF Written, Statuses, TypeInv, TypeOK

\* The refresh transactions keep the types.
LEMMA RefreshType ==
  ASSUME TypeInv, NEW th \in Threads, Refresh(th) \/ RefreshFails(th)
  PROVE  TypeInv'
<1> USE DEF TypeInv, TypeOK
<1>a. NoSnap \in GoodSnap
  BY DEF NoSnap, GoodSnap, SnapState
<1>0. CASE RefreshBegins(th)
  <2>1. \A r \in todo[th] : [row |-> r, status |-> "none", started |-> task[r].started,
                             cancelRequested |-> task[r].cancelRequested] \in GoodSnap
    BY DEF GoodSnap, SnapState, TaskRow
  <2>2. snap' \in [Threads -> GoodSnap]
    BY Zenon, <1>0, <2>1 DEF RefreshBegins
  <2> QED
    BY <1>0, <2>2, TypeInvNext DEF RefreshBegins, dbVars
<1>1. CASE RefreshRead(th)
  <2>1. snap[th].row \in Rows /\ snap[th] \in SnapState
    BY <1>1 DEF RefreshRead, GoodSnap, NoSnap
  <2>2. Derived(snap[th]) \in GoodSnap
    BY <2>1, DerivedType DEF GoodSnap
  <2>3. snap' \in [Threads -> GoodSnap]
    BY <1>1, <2>2 DEF RefreshRead
  <2> QED
    BY <1>1, <2>3, TypeInvNext DEF RefreshRead, dbVars
<1>2. CASE RefreshWrite(th)
  <2>1. snap[th].row \in Rows /\ snap[th].status \in TaskStatuses /\ snap[th] \in SnapState
    BY <1>2 DEF RefreshWrite, GoodSnap, NoSnap
  <2>2. task' \in [Rows -> TaskRow]
    BY <1>2, <2>1, WrittenType DEF RefreshWrite
  <2>3. /\ run' \in [Claims -> GoodRun]
        /\ reg' \in [Items -> Claims \cup {None}]
        /\ call' \in [Servers -> GoodCall]
    <3>1. CASE todo[th] \ {snap[th].row} # {} \/ ~Unfinished(th)
      BY <1>2, <3>1, LeaveType DEF RefreshWrite
    <3>2. CASE todo[th] \ {snap[th].row} = {} /\ Unfinished(th)
      <4>1. th \in Servers /\ [call[th] EXCEPT !.op = "resolve"] \in GoodCall
        BY Zenon, <3>2, CallRows DEF Unfinished, Servers
      <4> QED
        BY <1>2, <3>2, <4>1 DEF RefreshWrite
    <3> QED
      BY <3>1, <3>2
  <2>4. todo' \in [Threads -> SUBSET Rows] /\ snap' \in [Threads -> GoodSnap]
    BY <1>2, <1>a DEF RefreshWrite
  <2> QED
    BY <1>2, <2>2, <2>3, <2>4, TypeInvNext DEF RefreshWrite
<1>3. CASE RefreshFails(th)
  <2>1. /\ run' \in [Claims -> GoodRun]
        /\ reg' \in [Items -> Claims \cup {None}]
        /\ call' \in [Servers -> GoodCall]
    <3>1. CASE th \in Claims /\ run[th].pc = "stored"
      <4>1. run[th] \in GoodRun /\ run[th].pc # "free"
        BY <3>1
      <4>2. [run[th] EXCEPT !.pc = "failing", !.outcome = "error"] \in GoodRun
        BY Zenon, <4>1, RunRows
      <4> QED
        BY <1>3, <3>1, <4>2 DEF RefreshFails, Fails
    <3>2. CASE ~(th \in Claims /\ run[th].pc = "stored")
      BY <1>3, <3>2, LeaveType DEF RefreshFails
    <3> QED
      BY <3>1, <3>2
  <2>2. struck' \in [Hazards -> Nat]
    BY <1>3, StruckType DEF RefreshFails, Hazards
  <2>3. todo' \in [Threads -> SUBSET Rows] /\ snap' \in [Threads -> GoodSnap]
    BY <1>3, <1>a DEF RefreshFails
  <2>4. proc' \in {"down", "starting", "up", "stopping", "stopped"}
    BY <1>3 DEF RefreshFails
  <2> QED
    BY <1>3, <2>1, <2>2, <2>3, <2>4, TypeInvNext DEF RefreshFails, dbVars
<1> QED
  BY <1>0, <1>1, <1>2, <1>3 DEF Refresh

\* claimNext keeps the types.
LEMMA ScheduleType ==
  ASSUME TypeInv, NEW i \in Items, ClaimInvalid(i) \/ \E k \in Claims : Claim(k, i)
  PROVE  TypeInv'
<1> USE DEF TypeInv, TypeOK
<1>a. TaskOf[i] \in Tasks /\ TaskOf[i] \in Rows
  BY StructureAssumption DEF Rows
<1>1. ASSUME NEW k \in Claims, Claim(k, i) PROVE TypeInv'
  <2>1. [task EXCEPT ![TaskOf[i]] = [@ EXCEPT !.status = "running", !.started = TRUE]] \in [Rows -> TaskRow]
    BY <1>a, TaskRows DEF Statuses, TaskStatuses
  <2> QED
    BY <1>1, <2>1, ItemRows, RunRows, TypeInvNext DEF Claim
<1>2. CASE ClaimInvalid(i)
  <2>1. item' \in [Items -> ItemRow]
    BY <1>2, ItemRows DEF ClaimInvalid, Invalidated, ItemStatuses
  <2>2. task' \in [Rows -> TaskRow]
    BY <1>2, <1>a, TaskRows DEF ClaimInvalid, Invalidated, Statuses, TaskStatuses
  <2> QED
    BY <1>2, <2>1, <2>2, TypeInvNext DEF ClaimInvalid, memVars
<1> QED
  BY <1>1, <1>2

\* A request under way keeps the types.
LEMMA BeginType ==
  ASSUME TypeInv, NEW c \in Servers, NEW request \in GoodCall, Begin(c, request), struck' \in [Hazards -> Nat]
  PROVE  TypeInv'
BY TypeInvNext DEF TypeInv, TypeOK, Begin, dbVars

\* The refreshes a request leaves behind are rows.
LEMMA ThenRefreshType ==
  ASSUME TypeInv, NEW c \in Servers, NEW rows \in SUBSET Rows, ThenRefresh(c, rows)
  PROVE  todo' \in [Threads -> SUBSET Rows] /\ call' \in [Servers -> GoodCall]
BY Zenon, CallRows DEF TypeInv, TypeOK, ThenRefresh

\* The deciding halves of the requests keep the types.
LEMMA RequestBegins ==
  ASSUME TypeInv, NEW c \in Callers, NEW r \in Rows,
         \/ r \in Tasks /\ StartDecides(c, r)
         \/ CreateLooks(c, r) \/ CancelDecides(c, r) \/ RetryDecides(c, r)
  PROVE  TypeInv'
<1> USE DEF TypeInv, TypeOK
<1>a. c \in Servers /\ Open(r) \in SUBSET Tasks /\ Leaves(r) \in SUBSET Tasks
  BY DEF Servers, Open, Leaves, Children, Rows
<1>b. Strike("call") => struck' \in [Hazards -> Nat]
  BY StruckType DEF Hazards
<1>c. ASSUME NEW q \in Rows, NEW T \in SUBSET Tasks,
             NEW op \in {"start", "adopt", "cancel", "retry", "invalidate"},
             op \in {"start", "adopt"} => q \in Tasks, Decide(c, op, q, T)
      PROVE  TypeInv'
  <2>1. [NoCall EXCEPT !.op = op, !.row = q, !.targets = T] \in GoodCall
    BY Zenon, <1>c, CallRows
  <2> QED
    BY <1>a, <1>b, <1>c, <2>1, BeginType DEF Decide
<1>1. CASE r \in Tasks /\ StartDecides(c, r)
  <2>1. {r} \in SUBSET Tasks
    BY <1>1
  <2> QED
    BY <1>1, <1>c, <2>1 DEF StartDecides
<1>2. CASE CreateLooks(c, r)
  <2>1. Hits(r) \in [Items -> Nat]
    BY StructureAssumption DEF Hits, CacheRow
  <2>2. [NoCall EXCEPT !.op = "create", !.row = r, !.hits = Hits(r)] \in GoodCall
    BY Zenon, <2>1, CallRows
  <2> QED
    BY <1>2, <1>a, <1>b, <2>2, BeginType DEF CreateLooks
<1>3. CASE CancelDecides(c, r)
  BY <1>3, <1>a, <1>c DEF CancelDecides
<1>4. CASE RetryDecides(c, r)
  BY <1>4, <1>a, <1>c DEF RetryDecides
<1> QED
  BY <1>1, <1>2, <1>3, <1>4

\* The writing halves of the requests keep the types.
LEMMA RequestEnds ==
  ASSUME TypeInv, NEW c \in Callers,
         \/ CreateWrites(c) \/ StartWrites(c) \/ AdoptWrites(c) \/ InvalidateWrites(c)
         \/ CancelWrites(c) \/ CancelSignals(c) \/ RetryWrites(c)
  PROVE  TypeInv'
<1> USE DEF TypeInv, TypeOK
<1>a. c \in Servers /\ call[c] \in GoodCall /\ call[c] \in CallState
  BY DEF Servers
<1>b. call[c].targets \in SUBSET Tasks /\ call[c].hits \in [Items -> Nat]
  BY <1>a DEF CallState
<1>c. /\ call[c].op \in {"start", "adopt"} => call[c].row \in Tasks
      /\ call[c].op \in {"create", "cancel", "signal", "retry", "invalidate"} => call[c].row \in Rows
  BY <1>a DEF GoodCall
<1>d. Tasks \subseteq Rows /\ Roots \subseteq Rows /\ \A r \in Rows \ Roots : r \in Tasks
  BY DEF Rows
<1>e. \A t \in Tasks : ParentRows(t) \in SUBSET Rows /\ Tree(t) \in SUBSET Rows
  BY <1>d, StructureAssumption DEF ParentRows, Tree
<1>1. CASE CreateWrites(c)
  <2>1. \A r : CreatedStatus(r, call[c].hits) \in Statuses
    BY DEF CreatedStatus, DeriveCompositeStatus, Statuses, TaskStatuses
  <2>2. task' \in [Rows -> TaskRow]
    BY <1>1, <2>1, TaskRows DEF CreateWrites
  <2>3. \A i \in Items : /\ [item[i] EXCEPT !.status = "cached", !.result = call[c].hits[i]] \in ItemRow
                         /\ [item[i] EXCEPT !.status = "pending"] \in ItemRow
    BY <1>b, ItemRows DEF ItemStatuses
  <2>4. item' \in [Items -> ItemRow]
    BY Zenon, <1>1, <2>3 DEF CreateWrites
  <2>5. todo' \in [Threads -> SUBSET Rows] /\ call' \in [Servers -> GoodCall]
    BY <1>1, <1>a, ThenRefreshType DEF CreateWrites
  <2> QED
    BY Zenon, <1>1, <2>2, <2>4, <2>5, TypeInvNext DEF CreateWrites
<1>2. CASE StartWrites(c)
  <2>1. call[c].row \in Tasks
    BY <1>2, <1>c DEF StartWrites, Serving
  <2>2. todo' \in [Threads -> SUBSET Rows] /\ call' \in [Servers -> GoodCall]
    BY <1>2, <2>1, <1>a, <1>e, ThenRefreshType DEF StartWrites
  <2>3. task' \in [Rows -> TaskRow]
    BY <1>2, <2>1 DEF StartWrites, TaskRow, Statuses, TaskStatuses
  <2> QED
    BY <1>2, <2>2, <2>3, TypeInvNext DEF StartWrites
<1>3. CASE AdoptWrites(c)
  <2>1. call[c].row \in Tasks
    BY <1>3, <1>c DEF AdoptWrites, Serving
  <2>2. todo' \in [Threads -> SUBSET Rows] /\ call' \in [Servers -> GoodCall]
    BY <1>3, <2>1, <1>a, <1>e, ThenRefreshType DEF AdoptWrites
  <2>3. task' \in [Rows -> TaskRow]
    BY <1>3, <2>1 DEF AdoptWrites, TaskRow, Statuses, TaskStatuses
  <2> QED
    BY <1>3, <2>2, <2>3, TypeInvNext DEF AdoptWrites
<1>4. CASE InvalidateWrites(c)
  <2>0. PICK t \in call[c].targets : Invalidated(t)
    BY <1>4 DEF InvalidateWrites
  <2>1. item' \in [Items -> ItemRow]
    BY <2>0, ItemRows DEF Invalidated, ItemStatuses
  <2>2. task' \in [Rows -> TaskRow]
    BY <2>0, <1>b, <1>d, TaskRows DEF Invalidated, Statuses, TaskStatuses
  <2>3. todo' \in [Threads -> SUBSET Rows] /\ call' \in [Servers -> GoodCall]
    BY <1>4, <1>a, ThenRefreshType DEF InvalidateWrites
  <2> QED
    BY <1>4, <2>1, <2>2, <2>3, TypeInvNext DEF InvalidateWrites
<1>5. CASE CancelWrites(c)
  <2>1. item' \in [Items -> ItemRow]
    BY <1>5, ItemRows DEF CancelWrites, ItemStatuses
  <2>2. task' \in [Rows -> TaskRow]
    BY <1>5, TaskRows DEF CancelWrites
  <2>3. call' \in [Servers -> GoodCall]
    BY Zenon, <1>5, <1>a, CallRows DEF CancelWrites, Serving
  <2> QED
    BY <1>5, <2>1, <2>2, <2>3, TypeInvNext DEF CancelWrites
<1>6. CASE CancelSignals(c)
  <2>1. call[c].row \in Rows
    BY <1>6, <1>c DEF CancelSignals, Serving
  <2>2. todo' \in [Threads -> SUBSET Rows] /\ call' \in [Servers -> GoodCall]
    <3> DEFINE rows == IF call[c].row \in Roots THEN {call[c].row} \cup call[c].targets ELSE Tree(call[c].row)
    <3>1. rows \in SUBSET Rows
      BY <2>1, <1>b, <1>d, <1>e
    <3> QED
      BY <1>6, <3>1, <1>a, ThenRefreshType DEF CancelSignals
  <2>3. run' \in [Claims -> GoodRun]
    BY Zenon, <1>6, RunRows DEF CancelSignals
  <2> QED
    BY <1>6, <2>2, <2>3, TypeInvNext DEF CancelSignals, dbVars
<1>7. CASE RetryWrites(c)
  <2>1. call[c].row \in Rows
    BY <1>7, <1>c DEF RetryWrites, Serving
  <2>2. item' \in [Items -> ItemRow]
    BY <1>7, ItemRows DEF RetryWrites, ItemStatuses
  <2>3. task' \in [Rows -> TaskRow]
    BY <1>7 DEF RetryWrites, TaskRow, Statuses, TaskStatuses
  <2>4. todo' \in [Threads -> SUBSET Rows] /\ call' \in [Servers -> GoodCall]
    <3> DEFINE rows == IF call[c].row \in Roots THEN {call[c].row} ELSE ParentRows(call[c].row)
    <3>1. rows \in SUBSET Rows
      BY <2>1, <1>d, <1>e
    <3> QED
      BY <1>7, <3>1, <1>a, ThenRefreshType DEF RetryWrites
  <2> QED
    BY <1>7, <2>2, <2>3, <2>4, TypeInvNext DEF RetryWrites
<1> QED
  BY <1>1, <1>2, <1>3, <1>4, <1>5, <1>6, <1>7

\* resolveBlockedDependencies and failing requests keep the types.
LEMMA ServerType ==
  ASSUME TypeInv, ResolveWrites \/ ResolveLooks \/ (\E c \in Servers : RequestFails(c))
  PROVE  TypeInv'
<1> USE DEF TypeInv, TypeOK
<1>a. Scheduler \in Servers /\ Scheduler \in Threads
  BY DEF Servers, Threads
<1>1. CASE ResolveWrites
  <2>1. PICK t \in call[Scheduler].targets :
          /\ item' = [i \in Items |-> IF TaskOf[i] = t /\ item[i].status = "pending"
                                      THEN [item[i] EXCEPT !.status = "failed"] ELSE item[i]]
          /\ task' = [task EXCEPT ![t].status = IF @ = "queued" THEN "failed" ELSE @]
          /\ todo' = [todo EXCEPT ![Scheduler] = Tree(t)]
          /\ call' = [call EXCEPT ![Scheduler] =
                        [@ EXCEPT !.op = "refreshing", !.targets = call[Scheduler].targets \ {t}]]
    BY <1>1 DEF ResolveWrites
  <2>2. /\ t \in Tasks /\ t \in Rows /\ Tree(t) \in SUBSET Rows
        /\ call[Scheduler].targets \ {t} \in SUBSET Tasks
    BY <1>a, <2>1, StructureAssumption DEF CallState, ParentRows, Tree, Rows
  <2>3. todo' \in [Threads -> SUBSET Rows]
    BY <2>1, <2>2
  <2>4. call' \in [Servers -> GoodCall]
    BY Zenon, <1>a, <2>1, <2>2, CallRows
  <2>5. item' \in [Items -> ItemRow]
    BY <2>1, ItemRows DEF ItemStatuses
  <2>6. task' \in [Rows -> TaskRow]
    <3> DEFINE status == IF task[t].status = "queued" THEN "failed" ELSE task[t].status
    <3>1. task[t] \in TaskRow /\ status \in Statuses
      BY <2>2 DEF TaskRow, Statuses, TaskStatuses
    <3>2. [task[t] EXCEPT !.status = status] \in TaskRow
      BY <3>1, TaskRows
    <3> QED
      BY <2>1, <2>2, <3>2
  <2> QED
    BY <1>1, <2>3, <2>4, <2>5, <2>6, TypeInvNext DEF ResolveWrites
<1>2. CASE ResolveLooks
  <2>1. [NoCall EXCEPT !.op = "resolve", !.targets = {t \in Tasks : Blocked(t)}] \in GoodCall
    BY Zenon, CallRows
  <2> QED
    BY <1>2, <1>a, <2>1, BeginType DEF ResolveLooks
<1>3. ASSUME NEW c \in Servers, RequestFails(c) PROVE TypeInv'
  <2>1. struck' \in [Hazards -> Nat]
    BY <1>3, StruckType DEF RequestFails, Hazards
  <2> QED
    BY Zenon, <1>3, <2>1, CallRows, TypeInvNext DEF RequestFails, dbVars
<1> QED
  BY <1>1, <1>2, <1>3

\* A crash, a shutdown and an exit keep the types.
LEMMA ProcessType ==
  ASSUME TypeInv, Crash \/ Shutdown \/ ShutdownEnds \/ Exit
  PROVE  TypeInv'
<1> USE DEF TypeInv, TypeOK
<1>a. NoSnap \in GoodSnap
  BY DEF NoSnap, GoodSnap, SnapState
<1>b. MemoryLost => /\ run' \in [Claims -> GoodRun]
                    /\ reg' \in [Items -> Claims \cup {None}]
                    /\ call' \in [Servers -> GoodCall]
                    /\ todo' \in [Threads -> SUBSET Rows]
                    /\ snap' \in [Threads -> GoodSnap]
  BY Zenon, <1>a, RunRows, CallRows DEF MemoryLost
<1>c. Strike("crash") => struck' \in [Hazards -> Nat]
  BY StruckType DEF Hazards
<1>1. CASE Crash
  BY <1>1, <1>b, <1>c, TypeInvNext DEF Crash, dbVars
<1>2. CASE Shutdown
  <2>1. run' \in [Claims -> GoodRun]
    BY Zenon, <1>2, RunRows DEF Shutdown
  <2> QED
    BY <1>2, <2>1, <1>c, TypeInvNext DEF Shutdown, dbVars
<1>3. CASE ShutdownEnds
  BY <1>3, TypeInvNext DEF ShutdownEnds, dbVars
<1>4. CASE Exit
  BY <1>4, <1>b, TypeInvNext DEF Exit, dbVars
<1> QED
  BY <1>1, <1>2, <1>3, <1>4

\* Recovery keeps the types.
LEMMA RestartType ==
  ASSUME TypeInv, Restart
  PROVE  TypeInv'
<1> USE DEF TypeInv, TypeOK
<1>a. Scheduler \in Threads
  BY DEF Threads
<1>1. CASE Recover
  <2>1. RecoveredItems \in [Items -> ItemRow]
    BY ItemRows DEF RecoveredItems, ItemStatuses
  <2>2. RecoveredCache \in [Keys -> CacheRow]
    BY CacheRows DEF RecoveredCache
  <2>3. RequeuedTasks \in [Rows -> TaskRow]
    BY TaskRows DEF RequeuedTasks, Statuses, TaskStatuses
  <2> QED
    BY <1>1, <2>1, <2>2, <2>3, TypeInvNext DEF Recover
<1>2. CASE Start
  <2>1. struck' \in [Hazards -> Nat]
    BY <1>2, StruckType DEF Start, Hazards
  <2> QED
    BY <1>2, <2>1, TypeInvNext DEF Start, dbVars
<1>3. ASSUME NEW t \in Tasks, RecoverCancelled(t) PROVE TypeInv'
  <2>1. Tree(t) \in SUBSET Rows
    BY StructureAssumption DEF Tree, ParentRows, Rows
  <2>2. todo' \in [Threads -> SUBSET Rows]
    BY <1>3, <1>a, <2>1 DEF RecoverCancelled
  <2> QED
    BY <1>3, <2>2, TypeInvNext DEF RecoverCancelled, dbVars
<1>4. ASSUME NEW t \in Tasks, RecoverInvalid(t) PROVE TypeInv'
  <2>1. ParentRows(t) \in SUBSET Rows /\ t \in Rows
    BY StructureAssumption DEF ParentRows, Rows
  <2>2. todo' \in [Threads -> SUBSET Rows]
    BY <1>4, <1>a, <2>1 DEF RecoverInvalid
  <2>3. item' \in [Items -> ItemRow]
    BY <1>4, ItemRows DEF RecoverInvalid, Invalidated, ItemStatuses
  <2>4. task' \in [Rows -> TaskRow]
    BY <1>4, <2>1, TaskRows DEF RecoverInvalid, Invalidated, Statuses, TaskStatuses
  <2> QED
    BY <1>4, <2>2, <2>3, <2>4, TypeInvNext DEF RecoverInvalid
<1> QED
  BY <1>1, <1>2, <1>3, <1>4 DEF Restart

\* Lapsing leases and spoiling results keep the types.
LEMMA EnvironmentType ==
  ASSUME TypeInv, Environment
  PROVE  TypeInv'
<1> USE DEF TypeInv, TypeOK
<1>a. \A h \in {"stall", "rot", "corrupt"} : Strike(h) => struck' \in [Hazards -> Nat]
  BY StruckType DEF Hazards
<1>1. ASSUME NEW i \in Items, ItemLeaseLapses(i) PROVE TypeInv'
  BY <1>1, <1>a, ItemRows, TypeInvNext DEF ItemLeaseLapses, Lapses, memVars
<1>2. ASSUME NEW c \in Keys, EntryLeaseLapses(c) PROVE TypeInv'
  BY <1>2, <1>a, CacheRows, TypeInvNext DEF EntryLeaseLapses, Lapses, memVars
<1>3. ASSUME NEW c \in Keys, EntryRots(c) PROVE TypeInv'
  BY <1>3, <1>a, CacheRows, TypeInvNext DEF EntryRots, memVars
<1>4. ASSUME NEW t \in Tasks, TaskCorrupted(t) PROVE TypeInv'
  BY <1>4, <1>a, TypeInvNext DEF TaskCorrupted, memVars
<1> QED
  BY <1>1, <1>2, <1>3, <1>4 DEF Environment

\* The initial state is typed.
LEMMA TypeInit == Init => TypeInv
<1> SUFFICES ASSUME Init PROVE TypeInv
  OBVIOUS
<1>1. \A r \in Rows : [status |-> IF r \in Prestarted THEN "queued"
                                  ELSE IF r \in Precreated THEN "planned" ELSE "absent",
                       started |-> r \in Prestarted, cancelRequested |-> FALSE] \in TaskRow
  BY DEF TaskRow, Statuses, TaskStatuses
<1>2. \A i \in Items : [status |-> IF TaskOf[i] \in Precreated THEN "pending" ELSE "absent",
                        owner |-> None, live |-> FALSE, result |-> 0] \in ItemRow
  BY DEF ItemRow, ItemStatuses
<1>3. [status |-> "none", owner |-> None, live |-> FALSE,
       source |-> None, good |-> FALSE, version |-> 0] \in CacheRow
  BY DEF CacheRow
<1>4. NoSnap \in GoodSnap
  BY DEF NoSnap, GoodSnap, SnapState
<1>5. GoodRun \subseteq RunState /\ GoodCall \subseteq CallState /\ GoodSnap \subseteq SnapState
  BY DEF GoodRun, GoodCall, GoodSnap
<1> QED
  BY <1>1, <1>2, <1>3, <1>4, <1>5, RunRows, CallRows, LimitsAssumption DEF Init, TypeInv, TypeOK

\* Every step keeps the types.
LEMMA TypeStep == TypeInv /\ [Next]_vars => TypeInv'
<1> SUFFICES ASSUME TypeInv, [Next]_vars PROVE TypeInv'
  OBVIOUS
<1>1. CASE UNCHANGED vars
  BY <1>1 DEF TypeInv, TypeOK, vars, dbVars, memVars
<1>2. CASE Schedule
  BY <1>2, ScheduleType DEF Schedule
<1>3. CASE ResolveLooks \/ ResolveWrites \/ \E c \in Servers : RequestFails(c)
  BY <1>3, ServerType
<1>4. ASSUME NEW k \in Claims, Execution(k) PROVE TypeInv'
  BY <1>4, ExecutionType
<1>5. ASSUME NEW c \in Callers, Request(c) PROVE TypeInv'
  BY <1>5, RequestBegins, RequestEnds DEF Request, Rows
<1>6. ASSUME NEW th \in Threads, Refresh(th) \/ RefreshFails(th) PROVE TypeInv'
  BY <1>6, RefreshType
<1>7. CASE Crash \/ Shutdown \/ ShutdownEnds \/ Exit
  BY <1>7, ProcessType
<1>8. CASE Restart
  BY <1>8, RestartType
<1>9. CASE Environment
  BY <1>9, EnvironmentType
<1> QED
  BY <1>1, <1>2, <1>3, <1>4, <1>5, <1>6, <1>7, <1>8, <1>9 DEF Next

\* Every row and every piece of process memory keeps its type.
THEOREM TypeCorrect == Spec => []TypeOK
<1>1. TypeInv => TypeOK
  BY DEF TypeInv
<1> QED
  BY <1>1, TypeInit, TypeStep, PTL DEF Spec

-----------------------------------------------------------------------------
(* Honest statuses.  That a completed row has all its results is not         *)
(* inductive: a status is written from what was read earlier, in a refresh   *)
(* (snap) or a request (call).  The invariant says that what was read is     *)
(* still good when it is written, which holds because a valid item stays     *)
(* valid; and a creation can only touch items nothing has counted yet.       *)

AllValid(r) == \A i \in Covered(r) : IsValid(i)

AbsentTogether == \A i \in Items : item[i].status # "absent" => task[TaskOf[i]].status # "absent"

SnapHonest == \A th \in Threads : snap[th].status = "completed" => AllValid(snap[th].row)

AdoptHonest == \A c \in Servers : call[c].op = "adopt" => AllValid(call[c].row)

\* A valid item is leased to nobody: no lease of it is left to lapse.
Rests(row) == row.status \in ValidStatuses \cup {"absent"} => ~row.live
Unleased == \A i \in Items : Rests(item[i])

Honest == AbsentTogether /\ CompletedMeansAllValid /\ SnapHonest /\ AdoptHonest /\ Unleased

IInv == TypeInv /\ Honest

\* What one step has to show for Honest to survive it.
ItemsKept ==
  \A i \in Items : /\ IsValid(i) => item'[i] = item[i]
                   /\ item'[i] = item[i] \/ Rests(item'[i])
                   /\ item'[i].status # "absent" =>
                        item[i].status # "absent" \/ task'[TaskOf[i]].status # "absent"

TasksKept ==
  \A r \in Rows : /\ task'[r].status = "completed" => task[r].status = "completed" \/ AllValid(r)'
                  /\ task[r].status # "absent" => task'[r].status # "absent"

SnapsKept ==
  \A th \in Threads : snap'[th].status = "completed" => snap'[th] = snap[th] \/ AllValid(snap'[th].row)

CallsKept ==
  \A c \in Servers : call'[c].op = "adopt" => call'[c] = call[c] \/ AllValid(call'[c].row)

\* A step that keeps items, tasks, snapshots and calls keeps Honest.
LEMMA HonestNext ==
  ASSUME Honest, ItemsKept, TasksKept, SnapsKept, CallsKept
  PROVE  ItemsKept /\ Honest'
<1>1. \A r : AllValid(r) => AllValid(r)'
  BY DEF AllValid, Covered, ItemsKept, IsValid
<1>2. CompletedMeansAllValid'
  BY <1>1 DEF Honest, CompletedMeansAllValid, TasksKept, AllValid, Rows
<1>3. AbsentTogether'
  BY StructureAssumption DEF Honest, AbsentTogether, ItemsKept, TasksKept, Rows
<1>4. SnapHonest'
  BY <1>1 DEF Honest, SnapHonest, SnapsKept
<1>5. AdoptHonest'
  BY <1>1 DEF Honest, AdoptHonest, CallsKept
<1>6. Unleased'
  BY DEF Honest, Unleased, ItemsKept
<1> QED
  BY <1>2, <1>3, <1>4, <1>5, <1>6 DEF Honest

\* A leaf task answers for its own items and no others.
LEMMA LeafCovers ==
  ASSUME NEW t \in Tasks
  PROVE  Covered(t) = ItemsOf(t)
BY IdentityAssumption DEF Covered, ItemsOf, Leaves

\* A derived status is completed only over results that are there.
LEMMA DerivedHonest ==
  ASSUME CompletedMeansAllValid, NEW seen \in SnapState, seen.row \in Rows,
         Derived(seen).status = "completed"
  PROVE  AllValid(seen.row)
<1>0. \A s, b : [seen EXCEPT !.status = s, !.started = b].status = s
  BY DEF SnapState
<1>1. CASE seen.row \in Roots
  <2>1. CompositeStatus(seen) = "completed"
    BY <1>0, <1>1 DEF Derived
  <2>2. Stages(seen.row) = {"completed"}
    BY <2>1 DEF CompositeStatus, DeriveCompositeStatus
  <2>3. \A t \in Children(seen.row) : t \in Rows /\ task[t].status = "completed"
    BY <2>2 DEF Stages, Children, Rows
  <2> QED
    BY <1>1, <2>3, LeafCovers DEF CompletedMeansAllValid, AllValid, Covered, Leaves, Children, ItemsOf
<1>2. CASE seen.row \notin Roots
  <2>1. AtomicStatus(seen) = "completed" /\ seen.row \in Tasks
    BY <1>0, <1>2 DEF Derived, Rows
  <2>2. Present(seen.row) \subseteq ValidStatuses
    BY <2>1 DEF AtomicStatus, DeriveTaskStatus
  <2> QED
    BY <2>1, <2>2, LeafCovers DEF Present, AllValid, IsValid
<1> QED
  BY <1>1, <1>2

\* What a settled row looks like.
LEMMA SettledStatus ==
  ASSUME NEW row \in ItemRow, NEW s, NEW x
  PROVE  /\ Settle(row, s).status = s
         /\ [Settle(row, s) EXCEPT !.result = x].status = s
         /\ [Settle(row, s) EXCEPT !.live = x].status = s
         /\ ~Settle(row, s).live
         /\ ~[Settle(row, s) EXCEPT !.result = x].live
BY DEF Settle, ItemRow

\* A refresh writes the derived status to its own row only.
LEMMA WrittenStatus ==
  ASSUME TypeInv, NEW d, d.row \in Rows
  PROVE  /\ Written(d)[d.row].status = d.status
         /\ \A r \in Rows \ {d.row} : Written(d)[r] = task[r]
BY DEF Written, TaskRow, TypeInv, TypeOK

\* What an execution may do to the items.
OnlyRunning ==
  \A i \in Items : \/ item'[i] = item[i]
                   \/ item[i].status = "running" /\ item'[i].status # "absent" /\ Rests(item'[i])

\* An execution changes an item only while it holds it running.
LEMMA ExecutionItems ==
  ASSUME TypeInv, NEW k \in Claims, Execution(k), run[k].item \in Items
  PROVE  OnlyRunning
<1>a. item \in [Items -> ItemRow] /\ MyItem(k) \in ItemRow
  BY DEF TypeInv, TypeOK, MyItem
<1>b. ASSUME NEW row, item' = [item EXCEPT ![run[k].item] = row], Holds(MyItem(k), k),
             row.status # "absent", Rests(row)
      PROVE  OnlyRunning
  BY <1>a, <1>b DEF OnlyRunning, Holds, MyItem
<1>1. CASE UNCHANGED item
  BY <1>1 DEF OnlyRunning
<1>2. ASSUME NEW s \in {"cached", "completed"}, NEW x, Holds(MyItem(k), k),
             item' = [item EXCEPT ![run[k].item] = [Settle(MyItem(k), s) EXCEPT !.result = x]]
      PROVE  OnlyRunning
  <2> DEFINE row == [Settle(MyItem(k), s) EXCEPT !.result = x]
  <2>1. row.status = s /\ ~row.live /\ item' = [item EXCEPT ![run[k].item] = row]
    BY <1>2, <1>a, SettledStatus
  <2> HIDE DEF row
  <2> QED
    BY <1>2, <1>b, <2>1 DEF Rests
<1>3. CASE ReserveReused(k) /\ Holds(MyItem(k), k)
  BY <1>2, <1>3 DEF ReserveReused, MyItem
<1>4. CASE ReserveReused(k) /\ ~Holds(MyItem(k), k)
  BY <1>1, <1>4 DEF ReserveReused
<1>5. CASE Complete(k)
  BY <1>2, <1>5 DEF Complete, HoldsBoth, MyItem
<1>6. CASE Release(k)
  <2> DEFINE row == [Settle(MyItem(k), "pending") EXCEPT !.live = TRUE]
  <2>1. row.status = "pending" /\ item' = [item EXCEPT ![run[k].item] = row] /\ Holds(MyItem(k), k)
    BY <1>6, <1>a, SettledStatus DEF MyItem, Release
  <2> HIDE DEF row
  <2> QED
    BY <1>b, <2>1 DEF Rests, ValidStatuses
<1>7. CASE Heartbeat(k) \/ ReportProgress(k)
  <2> DEFINE row == [MyItem(k) EXCEPT !.live = TRUE]
  <2>1. row.status = MyItem(k).status
    BY <1>a DEF ItemRow
  <2>2. CASE Holds(MyItem(k), k)
    <3>1. item' = [item EXCEPT ![run[k].item] = row]
      BY <1>7, <2>2 DEF Heartbeat, ReportProgress, MyItem
    <3> HIDE DEF row
    <3> QED
      BY <1>b, <2>1, <2>2, <3>1 DEF Holds, Rests, ValidStatuses
  <2>3. CASE ~Holds(MyItem(k), k)
    <3> DEFINE live == MyItem(k).live \/ Holds(MyItem(k), k)
    <3>1. item' = [item EXCEPT ![run[k].item].live = live]
      BY <1>7, <2>3 DEF Heartbeat, ReportProgress, HoldsBoth, MyItem
    <3>2. live = MyItem(k).live
      BY <1>a, <2>3 DEF ItemRow
    <3> HIDE DEF live
    <3>3. [MyItem(k) EXCEPT !.live = live] = MyItem(k)
      BY <1>a, <3>2 DEF ItemRow
    <3>4. item' = [item EXCEPT ![run[k].item] = MyItem(k)]
      BY <3>1, <3>3 DEF MyItem
    <3>5. item' = item
      BY <1>a, <3>4 DEF MyItem
    <3> QED
      BY <1>1, <3>5
  <2> QED
    BY <2>2, <2>3
<1>8. CASE FinishWrite(k)
  <2> DEFINE status == IF run[k].outcome = "shutdown" THEN "pending" ELSE run[k].outcome
             row == Settle(MyItem(k), status)
  <2>1. CASE Holds(MyItem(k), k)
    <3>1. item' = [item EXCEPT ![run[k].item] = row]
      BY <1>8, <2>1 DEF FinishWrite, MyItem
    <3>2. run[k].outcome # "absent"
      BY DEF TypeInv, TypeOK, RunState
    <3>3. row.status = status /\ ~row.live
      BY <1>a, SettledStatus
    <3> HIDE DEF row
    <3> QED
      BY <1>b, <2>1, <3>1, <3>2, <3>3 DEF Rests
  <2>2. CASE ~Holds(MyItem(k), k)
    BY <1>1, <1>8, <2>2, <1>a DEF FinishWrite, MyItem
  <2> QED
    BY <2>1, <2>2
<1> QED
  BY Zenon, <1>1, <1>3, <1>4, <1>5, <1>6, <1>7, <1>8 DEF Execution, Reserve, Register, ReserveDropped,
     ReserveWait, ReserveOwn, ReserveFails, ReleaseFails, ExecuteReturns, HeartbeatFails,
     CompleteFails, FinishRead, FinishFails, dbVars

\* Executions keep Honest: they write no status, and only running items.
LEMMA ExecutionHonest ==
  ASSUME IInv, NEW k \in Claims, Execution(k)
  PROVE  ItemsKept /\ Honest'
<1> USE DEF IInv
<1>a. run[k].item \in Items /\ item \in [Items -> ItemRow]
  <2>1. run[k].pc # "free"
    BY Zenon DEF Execution, Reserve, Register, ReserveReused, ReserveDropped, ReserveWait, ReserveOwn,
           ReserveFails, Release, ReleaseFails, ExecuteReturns, ReportProgress, Heartbeat,
           HeartbeatFails, Complete, CompleteFails, FinishRead, FinishWrite, FinishFails
  <2> QED
    BY <2>1, MyPlaces DEF TypeInv, TypeOK
<1>b. task' = task /\ snap' = snap
  BY Zenon DEF Execution, Reserve, Register, ReserveReused, ReserveDropped, ReserveWait, ReserveOwn,
         ReserveFails, Release, ReleaseFails, ExecuteReturns, ReportProgress, Heartbeat,
         HeartbeatFails, Complete, CompleteFails, FinishRead, FinishWrite, FinishFails, dbVars, memVars
<1>c. CallsKept
  <2>1. call' = call
    <3>1. k \notin Servers
      BY IdentityAssumption DEF Servers
    <3> QED
      BY Zenon, <3>1 DEF Execution, Reserve, Register, ReserveReused, ReserveDropped, ReserveWait, ReserveOwn,
         ReserveFails, Release, ReleaseFails, ExecuteReturns, ReportProgress, Heartbeat,
         HeartbeatFails, Complete, CompleteFails, FinishRead, FinishWrite, FinishFails, memVars, Leave
  <2> QED
    BY <2>1 DEF CallsKept
<1>d. ItemsKept
  BY <1>a, ExecutionItems DEF ItemsKept, OnlyRunning, IsValid, ValidStatuses
<1> QED
  BY <1>b, <1>c, <1>d, HonestNext DEF TasksKept, SnapsKept

\* Refreshes keep Honest: what they read outlives the gap before the write.
LEMMA RefreshHonest ==
  ASSUME IInv, NEW th \in Threads, Refresh(th) \/ RefreshFails(th)
  PROVE  ItemsKept /\ Honest'
<1> USE DEF IInv
<1>a. item' = item /\ ItemsKept
  BY DEF Refresh, RefreshBegins, RefreshRead, RefreshWrite, RefreshFails, dbVars, ItemsKept, IsValid
<1>b. \A r : AllValid(r)' <=> AllValid(r)
  BY <1>a DEF AllValid, IsValid
<1>c. CallsKept
  <2>1. call' \in {call, [call EXCEPT ![th] = NoCall], [call EXCEPT ![th].op = "resolve"]}
    BY DEF Refresh, RefreshBegins, RefreshRead, RefreshWrite, RefreshFails, Leave
  <2>2. NoCall.op # "adopt" /\ \A c \in Servers : [call[c] EXCEPT !.op = "resolve"].op # "adopt"
    BY DEF NoCall, TypeInv, TypeOK, CallState
  <2> QED
    BY <2>1, <2>2 DEF CallsKept, TypeInv, TypeOK
<1>d. snap \in [Threads -> GoodSnap] /\ NoSnap.status # "completed"
  BY DEF TypeInv, NoSnap
<1>0. CASE RefreshBegins(th)
  <2>1. SnapsKept
    BY <1>0, <1>d DEF RefreshBegins, SnapsKept
  <2>2. TasksKept
    BY <1>0 DEF RefreshBegins, dbVars, TasksKept
  <2> QED
    BY <1>a, <1>c, <2>1, <2>2, HonestNext
<1>1. CASE RefreshRead(th)
  <2>1. snap[th].row \in Rows /\ snap[th] \in SnapState /\ snap' = [snap EXCEPT ![th] = Derived(@)]
    BY <1>1, <1>d DEF RefreshRead, GoodSnap, NoSnap
  <2>2. Derived(snap[th]).row = snap[th].row
    BY <2>1, DerivedType
  <2>3. Derived(snap[th]).status = "completed" => AllValid(snap[th].row)
    BY <2>1, DerivedHonest DEF Honest
  <2>4. SnapsKept
    BY <1>b, <1>d, <2>1, <2>2, <2>3 DEF SnapsKept
  <2>5. TasksKept
    BY <1>1 DEF RefreshRead, dbVars, TasksKept
  <2> QED
    BY <1>a, <1>c, <2>4, <2>5, HonestNext
<1>2. CASE RefreshWrite(th)
  <2>1. snap[th].row \in Rows /\ snap[th].status \in TaskStatuses
    BY <1>2 DEF RefreshWrite, TypeInv, GoodSnap, NoSnap
  <2>2. task' = Written(snap[th]) /\ snap' = [snap EXCEPT ![th] = NoSnap]
    BY <1>2 DEF RefreshWrite
  <2>3. /\ task'[snap[th].row].status = snap[th].status
        /\ \A r \in Rows \ {snap[th].row} : task'[r] = task[r]
    BY <2>1, <2>2, WrittenStatus
  <2>4. TasksKept
    BY <1>b, <2>1, <2>3 DEF TasksKept, Honest, SnapHonest, TaskStatuses
  <2>5. SnapsKept
    BY <1>d, <2>2 DEF SnapsKept
  <2> QED
    BY <1>a, <1>c, <2>4, <2>5, HonestNext
<1>3. CASE RefreshFails(th)
  <2>1. TasksKept
    BY <1>3 DEF RefreshFails, dbVars, TasksKept
  <2>2. SnapsKept
    BY <1>3, <1>d DEF RefreshFails, SnapsKept
  <2> QED
    BY <1>a, <1>c, <2>1, <2>2, HonestNext
<1> QED
  BY <1>0, <1>1, <1>2, <1>3 DEF Refresh

\* Invalidating, claiming: only pending and running items are touched.
LEMMA InvalidatedKeeps ==
  ASSUME TypeInv, NEW t \in Tasks, Invalidated(t)
  PROVE  ItemsKept /\ TasksKept
<1>1. \A i \in Items : \A s : Settle(item[i], s).status = s
  BY SettledStatus DEF TypeInv, TypeOK
<1>2. ItemsKept
  BY <1>1 DEF Invalidated, ItemsKept, IsValid, ValidStatuses, Rests
<1>3. TasksKept
  BY DEF Invalidated, TasksKept, TypeInv, TypeOK, TaskRow, Rows
<1> QED
  BY <1>2, <1>3

\* claimNext keeps Honest.
LEMMA ScheduleHonest ==
  ASSUME IInv, NEW i \in Items, ClaimInvalid(i) \/ \E k \in Claims : Claim(k, i)
  PROVE  ItemsKept /\ Honest'
<1> USE DEF IInv
<1>a. TaskOf[i] \in Tasks /\ TaskOf[i] \in Rows /\ item[i] \in ItemRow
  BY StructureAssumption DEF Rows, TypeInv, TypeOK
<1>b. SnapsKept /\ CallsKept
  BY DEF ClaimInvalid, Claim, memVars, SnapsKept, CallsKept
<1>1. ASSUME NEW k \in Claims, Claim(k, i) PROVE ItemsKept /\ Honest'
  <2>1. item' = [item EXCEPT ![i] = Leased(item[i], k)] /\ item[i].status \in {"pending", "running"}
    BY <1>1 DEF Claim, Claimable
  <2>2. Leased(item[i], k).status = "running"
    BY <1>a DEF Leased, ItemRow
  <2>3. ItemsKept
    BY <2>1, <2>2 DEF ItemsKept, IsValid, ValidStatuses, Rests, TypeInv, TypeOK
  <2>4. task' = [task EXCEPT ![TaskOf[i]] = [@ EXCEPT !.status = "running", !.started = TRUE]]
    BY <1>1 DEF Claim
  <2>5. [task[TaskOf[i]] EXCEPT !.status = "running", !.started = TRUE].status = "running"
    BY <1>a DEF TypeInv, TypeOK, TaskRow
  <2>6. TasksKept
    BY <1>a, <2>4, <2>5 DEF TasksKept, TypeInv, TypeOK
  <2> QED
    BY <1>b, <2>3, <2>6, HonestNext
<1>2. CASE ClaimInvalid(i)
  BY <1>2, <1>a, <1>b, InvalidatedKeeps, HonestNext DEF ClaimInvalid
<1> QED
  BY <1>1, <1>2

\* A step that writes neither tasks nor items keeps Honest.
LEMMA QuietHonest ==
  ASSUME IInv, UNCHANGED <<task, item>>, snap' = snap \/ snap' = [th \in Threads |-> NoSnap],
         CallsKept
  PROVE  ItemsKept /\ Honest'
<1>1. NoSnap.status # "completed"
  BY DEF NoSnap
<1>2. ItemsKept /\ TasksKept /\ SnapsKept
  BY <1>1 DEF ItemsKept, TasksKept, SnapsKept, IsValid
<1> QED
  BY <1>2, HonestNext DEF IInv

\* A crash, a shutdown and an exit keep Honest.
LEMMA ProcessHonest ==
  ASSUME IInv, Crash \/ Shutdown \/ ShutdownEnds \/ Exit
  PROVE  ItemsKept /\ Honest'
<1>1. NoCall.op # "adopt"
  BY DEF NoCall
<1>2. UNCHANGED <<task, item>> /\ (snap' = snap \/ snap' = [th \in Threads |-> NoSnap])
  BY DEF Crash, Shutdown, ShutdownEnds, Exit, MemoryLost, dbVars
<1>3. CallsKept
  BY <1>1 DEF Crash, Shutdown, ShutdownEnds, Exit, MemoryLost, CallsKept
<1> QED
  BY <1>2, <1>3, QuietHonest

\* The environment keeps Honest: a valid item has no lease to lapse.
LEMMA EnvironmentHonest ==
  ASSUME IInv, Environment
  PROVE  ItemsKept /\ Honest'
<1> USE DEF IInv
<1>1. ASSUME NEW i \in Items, ItemLeaseLapses(i) PROVE ItemsKept /\ Honest'
  <2>1. /\ item'[i].status = item[i].status /\ ~item'[i].live
        /\ \A j \in Items \ {i} : item'[j] = item[j]
    BY <1>1 DEF ItemLeaseLapses, TypeInv, TypeOK, ItemRow
  <2>2. ~IsValid(i)
    BY <1>1 DEF ItemLeaseLapses, Lapses, Honest, Unleased, Rests, IsValid
  <2>3. ItemsKept
    BY <2>1, <2>2 DEF ItemsKept, Rests, IsValid
  <2>4. TasksKept /\ SnapsKept /\ CallsKept
    BY <1>1 DEF ItemLeaseLapses, memVars, TasksKept, SnapsKept, CallsKept
  <2> QED
    BY <2>3, <2>4, HonestNext
<1>2. CASE UNCHANGED <<task, item, memVars>>
  BY <1>2, QuietHonest DEF memVars, CallsKept
<1> QED
  BY <1>1, <1>2 DEF Environment, EntryLeaseLapses, EntryRots, TaskCorrupted

\* Deciding a request keeps Honest: an adoption is decided over valid items.
LEMMA RequestBeginsHonest ==
  ASSUME IInv, NEW c \in Callers, NEW r \in Rows,
         \/ r \in Tasks /\ StartDecides(c, r)
         \/ CreateLooks(c, r) \/ CancelDecides(c, r) \/ RetryDecides(c, r)
  PROVE  ItemsKept /\ Honest'
<1>1. UNCHANGED <<task, item, snap>>
  BY DEF StartDecides, CreateLooks, CancelDecides, RetryDecides, Decide, Begin, dbVars
<1>2. ASSUME NEW request, call' = [call EXCEPT ![c] = request],
             request.op = "adopt" => AllValid(request.row)
      PROVE  CallsKept
  BY <1>2 DEF CallsKept, IInv, TypeInv, TypeOK
<1>3. ASSUME NEW op, NEW q, NEW T, Decide(c, op, q, T), op = "adopt" => AllValid(q)
      PROVE  CallsKept
  <2> DEFINE request == [NoCall EXCEPT !.op = op, !.row = q, !.targets = T]
  <2>1. request.op = op /\ request.row = q
    BY DEF NoCall
  <2>2. call' = [call EXCEPT ![c] = request]
    BY <1>3 DEF Decide, Begin
  <2> HIDE DEF request
  <2> QED
    BY <1>2, <1>3, <2>1, <2>2
<1>4. CASE r \in Tasks /\ StartDecides(c, r)
  <2>1. (\A i \in ItemsOf(r) : item[i].status = "cached") => AllValid(r)
    BY <1>4, LeafCovers DEF AllValid, IsValid, ValidStatuses
  <2>2. CallsKept
    BY <1>3, <1>4, <2>1 DEF StartDecides
  <2> QED
    BY <1>1, <2>2, QuietHonest
<1>5. CASE CreateLooks(c, r)
  <2> DEFINE request == [NoCall EXCEPT !.op = "create", !.row = r, !.hits = Hits(r)]
  <2>1. request.op # "adopt"
    BY DEF NoCall
  <2>2. call' = [call EXCEPT ![c] = request]
    BY <1>5 DEF CreateLooks, Begin
  <2> HIDE DEF request
  <2> QED
    BY <1>1, <1>2, <2>1, <2>2, QuietHonest
<1>6. CASE CancelDecides(c, r) \/ RetryDecides(c, r)
  <2>1. CallsKept
    BY <1>3, <1>6 DEF CancelDecides, RetryDecides
  <2> QED
    BY <1>1, <2>1, QuietHonest
<1> QED
  BY <1>4, <1>5, <1>6

\* resolveBlockedDependencies and failing requests keep Honest.
LEMMA ServerHonest ==
  ASSUME IInv, ResolveWrites \/ ResolveLooks \/ (\E c \in Servers : RequestFails(c))
  PROVE  ItemsKept /\ Honest'
<1> USE DEF IInv
<1>a. \A T : /\ NoCall.op # "adopt"
             /\ [NoCall EXCEPT !.op = "resolve", !.targets = T].op # "adopt"
  BY DEF NoCall
<1>1. CASE ResolveWrites
  <2>1. \A i \in Items : [item[i] EXCEPT !.status = "failed"].status = "failed"
    BY DEF TypeInv, TypeOK, ItemRow
  <2>2. ItemsKept
    BY <1>1, <2>1 DEF ResolveWrites, ItemsKept, IsValid, ValidStatuses, Rests
  <2>3. TasksKept
    <3>1. PICK t \in call[Scheduler].targets :
            task' = [task EXCEPT ![t].status = IF @ = "queued" THEN "failed" ELSE @]
      BY <1>1 DEF ResolveWrites
    <3>2. t \in Rows
      BY <3>1 DEF TypeInv, TypeOK, CallState, Servers, Rows
    <3>3. \A s : [task[t] EXCEPT !.status = s].status = s
      BY <3>2 DEF TypeInv, TypeOK, TaskRow
    <3> QED
      BY <3>1, <3>2, <3>3 DEF TasksKept, TypeInv, TypeOK
  <2>4. SnapsKept /\ CallsKept
    <3>1. PICK T : call' = [call EXCEPT ![Scheduler] =
                              [call[Scheduler] EXCEPT !.op = "refreshing", !.targets = T]]
      BY <1>1 DEF ResolveWrites
    <3>2. [call[Scheduler] EXCEPT !.op = "refreshing", !.targets = T].op # "adopt"
      BY DEF TypeInv, TypeOK, CallState, Servers
    <3>3. call \in [Servers -> GoodCall] /\ Scheduler \in Servers
      BY DEF TypeInv, Servers
    <3>4. CallsKept
      BY <3>1, <3>2, <3>3 DEF CallsKept
    <3> QED
      BY <1>1, <3>4 DEF ResolveWrites, SnapsKept
  <2> QED
    BY <2>2, <2>3, <2>4, HonestNext
<1>2. CASE ResolveLooks
  <2>1. CallsKept
    BY <1>2, <1>a DEF ResolveLooks, Begin, CallsKept, TypeInv, TypeOK
  <2> QED
    BY <1>2, <2>1, QuietHonest DEF ResolveLooks, Begin, dbVars
<1>3. ASSUME NEW c \in Servers, RequestFails(c) PROVE ItemsKept /\ Honest'
  <2>1. CallsKept
    BY <1>3, <1>a DEF RequestFails, CallsKept, TypeInv, TypeOK
  <2> QED
    BY <1>3, <2>1, QuietHonest DEF RequestFails, dbVars
<1> QED
  BY <1>1, <1>2, <1>3

\* The writing halves of the requests keep Honest.
LEMMA RequestEndsHonest ==
  ASSUME IInv, NEW c \in Callers,
         \/ StartWrites(c) \/ AdoptWrites(c) \/ InvalidateWrites(c)
         \/ CancelWrites(c) \/ CancelSignals(c) \/ RetryWrites(c)
  PROVE  ItemsKept /\ Honest'
<1> USE DEF IInv
<1>a. NoCall.op # "adopt" /\ [NoCall EXCEPT !.op = "refreshing"].op # "adopt"
  BY DEF NoCall
<1>b. c \in Servers /\ call[c] \in GoodCall /\ call[c].targets \in SUBSET Tasks
  BY DEF Servers, TypeInv, TypeOK, CallState
<1>c. SnapsKept /\ CallsKept
  <2>1. snap' = snap /\ (\/ \E rows : ThenRefresh(c, rows)
                         \/ Serving(c, "cancel") /\ call' = [call EXCEPT ![c].op = "signal"])
    BY DEF StartWrites, AdoptWrites, InvalidateWrites, CancelWrites, CancelSignals, RetryWrites
  <2>2. [call[c] EXCEPT !.op = "signal"].op # "adopt"
    BY <1>b DEF GoodCall, CallState
  <2> QED
    BY <2>1, <2>2, <1>a, <1>b DEF ThenRefresh, SnapsKept, CallsKept, TypeInv, TypeOK
<1>d. \A i \in Items : \A s : Settle(item[i], s).status = s
  BY SettledStatus DEF TypeInv, TypeOK
<1>1. CASE StartWrites(c)
  <2>1. call[c].row \in Rows
    BY <1>1, <1>b DEF StartWrites, Serving, GoodCall, Rows
  <2>2. TasksKept /\ ItemsKept
    BY <1>1, <2>1 DEF StartWrites, TasksKept, ItemsKept, IsValid, TypeInv, TypeOK
  <2> QED
    BY <1>c, <2>2, HonestNext
<1>2. CASE AdoptWrites(c)
  <2>1. call[c].row \in Rows /\ AllValid(call[c].row)
    BY <1>2, <1>b DEF AdoptWrites, Serving, GoodCall, Rows, Honest, AdoptHonest
  <2>2. (\A r : AllValid(r) => AllValid(r)') /\ ItemsKept
    BY <1>2 DEF AdoptWrites, AllValid, IsValid, ItemsKept
  <2>3. TasksKept
    BY <1>2, <2>1, <2>2 DEF AdoptWrites, TasksKept, TypeInv, TypeOK
  <2> QED
    BY <1>c, <2>2, <2>3, HonestNext
<1>3. CASE InvalidateWrites(c)
  BY <1>3, <1>b, <1>c, InvalidatedKeeps, HonestNext DEF InvalidateWrites
<1>4. CASE CancelWrites(c)
  <2>1. \A q \in Rows : [task[q] EXCEPT !.cancelRequested = TRUE].status = task[q].status
    BY DEF TypeInv, TypeOK, TaskRow
  <2>2. TasksKept
    BY <1>4, <2>1 DEF CancelWrites, TasksKept
  <2>3. ItemsKept
    BY SMTT(30), <1>4, <1>d DEF CancelWrites, ItemsKept, IsValid, ValidStatuses, Rests
  <2> QED
    BY <1>c, <2>2, <2>3, HonestNext
<1>5. CASE CancelSignals(c)
  BY <1>5, <1>c, HonestNext DEF CancelSignals, dbVars, ItemsKept, TasksKept, IsValid
<1>6. CASE RetryWrites(c)
  <2>1. TasksKept
    BY <1>6 DEF RetryWrites, TasksKept
  <2>2. ItemsKept
    BY SMTT(30), <1>6, <1>d DEF RetryWrites, ItemsKept, IsValid, ValidStatuses, Rests
  <2> QED
    BY <1>c, <2>1, <2>2, HonestNext
<1> QED
  BY <1>1, <1>2, <1>3, <1>4, <1>5, <1>6

\* A creation only gives statuses to rows nobody could have counted.
LEMMA CreateHonest ==
  ASSUME IInv, NEW c \in Callers, CreateWrites(c)
  PROVE  ItemsKept /\ Honest'
<1> USE DEF IInv
<1> DEFINE r == call[c].row
           hits == call[c].hits
           new == {q \in {r} \cup Leaves(r) : \A p \in {r} \cup Leaves(r) : task[p].status = "absent"}
<1>a. c \in Servers /\ r \in Rows
  BY DEF CreateWrites, Serving, Servers, TypeInv, GoodCall
<1>b. \A q \in Rows : task'[q] = IF q \in new THEN [task[q] EXCEPT !.status = CreatedStatus(q, hits)]
                                 ELSE task[q]
  BY DEF CreateWrites
<1>c. \A i \in Items : item'[i] =
        IF TaskOf[i] \notin new THEN item[i]
        ELSE IF hits[i] # 0 THEN [item[i] EXCEPT !.status = "cached", !.result = hits[i]]
        ELSE [item[i] EXCEPT !.status = "pending"]
  BY DEF CreateWrites
<1> HIDE DEF hits
<1>d. \A i \in Items : TaskOf[i] \in new =>
        item'[i].status = IF hits[i] # 0 THEN "cached" ELSE "pending"
  BY ZenonT(60), <1>c DEF TypeInv, TypeOK, ItemRow
<1>h. ASSUME NEW i \in Items, TaskOf[i] \in new, ~item[i].live PROVE ~item'[i].live
  <2>1. \A s, n : /\ ~[item[i] EXCEPT !.status = s, !.result = n].live
                  /\ ~[item[i] EXCEPT !.status = s].live
    BY <1>h DEF TypeInv, TypeOK, ItemRow
  <2> QED
    BY ZenonT(60), <1>c, <1>h, <2>1
<1>e. \A q \in Rows : /\ q \in new => task[q].status = "absent" /\ task'[q].status = CreatedStatus(q, hits)
                      /\ q \notin new => task'[q] = task[q]
  BY ZenonT(60), <1>b DEF TypeInv, TypeOK, TaskRow
<1>f. \A q : CreatedStatus(q, hits) # "absent"
  BY DEF CreatedStatus, DeriveCompositeStatus
<1>g. \A i \in Items : TaskOf[i] \in Rows
  BY StructureAssumption DEF Rows
<1>1. \A i \in Items : TaskOf[i] \in new => item[i].status = "absent"
  BY <1>e, <1>g DEF Honest, AbsentTogether
<1>2. ItemsKept
  <2>1. ASSUME NEW i \in Items, TaskOf[i] \in new
        PROVE  ~IsValid(i) /\ task'[TaskOf[i]].status # "absent" /\ Rests(item'[i])
    BY <2>1, <1>1, <1>d, <1>e, <1>f, <1>g, <1>h DEF IsValid, ValidStatuses, Honest, Unleased, Rests
  <2>2. ASSUME NEW i \in Items, TaskOf[i] \notin new
        PROVE  item'[i] = item[i]
    BY <2>2, <1>c
  <2> QED
    BY <2>1, <2>2 DEF ItemsKept, IsValid
<1>3. ASSUME NEW q \in new, CreatedStatus(q, hits) = "completed"
      PROVE  \A i \in Covered(q) : item'[i].status = "cached"
  <2>1. CASE q \in Roots
    <3>1. Leaves(q) = Children(q) /\ q = r
      BY <2>1, IdentityAssumption DEF Leaves, Children, Rows
    <3>2. DeriveCompositeStatus({IF \A i \in ItemsOf(t) : hits[i] # 0 THEN "completed" ELSE "planned"
                                 : t \in Children(q)}) = "completed"
      BY <1>3, <2>1 DEF CreatedStatus
    <3>3. {IF \A i \in ItemsOf(t) : hits[i] # 0 THEN "completed" ELSE "planned" : t \in Children(q)}
            = {"completed"}
      BY <3>2 DEF DeriveCompositeStatus
    <3>4. \A t \in Children(q) : \A i \in ItemsOf(t) : hits[i] # 0
      BY <3>3
    <3>5. \A t \in Children(q) : t \in new
      BY <3>1
    <3> QED
      BY <3>1, <3>4, <3>5, <1>d DEF Covered, ItemsOf
  <2>2. CASE q \notin Roots
    <3>1. q \in Tasks
      BY <2>2, <1>a DEF Leaves, Children, Rows
    <3>2. \A i \in ItemsOf(q) : hits[i] # 0
      BY <1>3, <2>2 DEF CreatedStatus
    <3> QED
      BY <3>1, <3>2, <1>d, LeafCovers DEF ItemsOf
  <2> QED
    BY <2>1, <2>2
<1>4. TasksKept
  <2>1. ASSUME NEW q \in Rows, q \in new, task'[q].status = "completed" PROVE AllValid(q)'
    BY <2>1, <1>3, <1>e DEF AllValid, IsValid, ValidStatuses
  <2> QED
    BY <2>1, <1>e, <1>f DEF TasksKept
<1>5. SnapsKept /\ CallsKept
  <2>1. NoCall.op # "adopt"
    BY DEF NoCall
  <2> QED
    BY <2>1, <1>a DEF CreateWrites, ThenRefresh, SnapsKept, CallsKept, TypeInv, TypeOK
<1> QED
  BY <1>2, <1>4, <1>5, HonestNext

\* Recovery only takes items and tasks back.
LEMMA RestartHonest ==
  ASSUME IInv, Restart
  PROVE  ItemsKept /\ Honest'
<1> USE DEF IInv
<1>1. CASE Recover
  <2>1. \A i \in Items : \A s : Settle(item[i], s).status = s /\ ~Settle(item[i], s).live
    BY SettledStatus DEF TypeInv, TypeOK
  <2>2. ItemsKept
    BY <1>1, <2>1 DEF Recover, RecoveredItems, ItemsKept, IsValid, ValidStatuses, Rests
  <2>3. \A r \in Rows : [task[r] EXCEPT !.status = "queued"].status = "queued"
    BY DEF TypeInv, TypeOK, TaskRow
  <2>4. TasksKept
    BY <1>1, <2>3 DEF Recover, RequeuedTasks, TasksKept
  <2> QED
    BY <1>1, <2>2, <2>4, HonestNext DEF Recover, SnapsKept, CallsKept
<1>2. ASSUME NEW t \in Tasks, RecoverInvalid(t) PROVE ItemsKept /\ Honest'
  BY <1>2, InvalidatedKeeps, HonestNext DEF RecoverInvalid, SnapsKept, CallsKept
<1>3. CASE UNCHANGED <<task, item, snap, call>>
  BY <1>3, QuietHonest DEF CallsKept
<1> QED
  BY <1>1, <1>2, <1>3 DEF Restart, Start, RecoverCancelled, dbVars

\* The initial state is honest: nothing is completed.
LEMMA InitHonest == Init => Honest
<1> SUFFICES ASSUME Init PROVE Honest
  OBVIOUS
<1>1. NoSnap.status # "completed" /\ NoCall.op # "adopt"
  BY DEF NoSnap, NoCall
<1>2. AbsentTogether
  BY StructureAssumption DEF Init, AbsentTogether, Rows
<1>3. CompletedMeansAllValid
  BY DEF Init, CompletedMeansAllValid
<1>4. Unleased
  BY DEF Init, Unleased, Rests
<1> QED
  BY <1>1, <1>2, <1>3, <1>4 DEF Init, Honest, SnapHonest, AdoptHonest

\* Every step keeps Honest and every valid item.
LEMMA HonestStep == IInv /\ [Next]_vars => ItemsKept /\ Honest'
<1> SUFFICES ASSUME IInv, [Next]_vars PROVE ItemsKept /\ Honest'
  OBVIOUS
<1>1. CASE UNCHANGED vars
  <2>1. UNCHANGED <<task, item, snap, call>>
    BY <1>1 DEF vars, dbVars, memVars
  <2> QED
    BY <2>1, QuietHonest DEF CallsKept
<1>2. CASE Schedule
  BY <1>2, ScheduleHonest DEF Schedule
<1>3. CASE ResolveLooks \/ ResolveWrites \/ \E c \in Servers : RequestFails(c)
  BY <1>3, ServerHonest
<1>4. ASSUME NEW k \in Claims, Execution(k) PROVE ItemsKept /\ Honest'
  BY <1>4, ExecutionHonest
<1>5. ASSUME NEW c \in Callers, Request(c) PROVE ItemsKept /\ Honest'
  BY <1>5, RequestBeginsHonest, RequestEndsHonest, CreateHonest DEF Request, Rows
<1>6. ASSUME NEW th \in Threads, Refresh(th) \/ RefreshFails(th) PROVE ItemsKept /\ Honest'
  BY <1>6, RefreshHonest
<1>7. CASE Crash \/ Shutdown \/ ShutdownEnds \/ Exit
  BY <1>7, ProcessHonest
<1>8. CASE Restart
  BY <1>8, RestartHonest
<1>9. CASE Environment
  BY <1>9, EnvironmentHonest
<1> QED
  BY <1>1, <1>2, <1>3, <1>4, <1>5, <1>6, <1>7, <1>8, <1>9 DEF Next

\* The strengthened invariant is inductive.
THEOREM Inductive == Spec => []IInv
<1>1. Init => IInv
  BY TypeInit, InitHonest DEF IInv
<1>2. IInv /\ [Next]_vars => IInv'
  BY TypeStep, HonestStep DEF IInv
<1> QED
  BY <1>1, <1>2, PTL DEF Spec

\* However refreshes, requests, executions, crashes and recoveries interleave,
\* a task or composite that says "completed" has a valid result for each item.
THEOREM CompletedIsHonest == Spec => []CompletedMeansAllValid
<1>1. IInv => CompletedMeansAllValid
  BY DEF IInv, Honest
<1> QED
  BY <1>1, Inductive, PTL

\* A valid result is never taken back or replaced: not by a late worker, a
\* cancellation, a retry, a refused creation or a recovery.
THEOREM ResultsAreKept == Spec => ResultKept
<1>1. IInv /\ [Next]_vars => [\A i \in Items : IsValid(i) => item'[i] = item[i]]_vars
  BY HonestStep DEF ItemsKept
<1> QED
  BY <1>1, Inductive, PTL DEF Spec, ResultKept
-----------------------------------------------------------------------------
(* Stages in order.  An item becomes "running" only by a claim, and         *)
(* "completed" only from "running".                                         *)

BusyStatuses == {"running", "completed"}

\* What one step has to show for StageOrder to survive it.
ItemsStartInOrder ==
  \A i \in Items : item'[i].status \in BusyStatuses =>
    item[i].status \in BusyStatuses \/ DependenciesCompleted(TaskOf[i])

\* A status that is changed on its own, or with the lease.
LEMMA ItemStatus ==
  ASSUME TypeInv, NEW i \in Items, NEW s
  PROVE  /\ Settle(item[i], s).status = s
         /\ [item[i] EXCEPT !.status = s].status = s
         /\ \A n : [item[i] EXCEPT !.status = s, !.result = n].status = s
         /\ \A b : [item[i] EXCEPT !.live = b].status = item[i].status
BY DEF TypeInv, TypeOK, ItemRow, Settle

\* Giving up a task starts none of its items.
LEMMA InvalidatedStartsNone ==
  ASSUME TypeInv, NEW t \in Tasks, Invalidated(t)
  PROVE  ItemsStartInOrder
BY ItemStatus DEF Invalidated, ItemsStartInOrder, BusyStatuses

\* Every step starts items in order.
LEMMA StartsInOrder == TypeInv /\ [Next]_vars => ItemsStartInOrder
<1> SUFFICES ASSUME TypeInv, [Next]_vars PROVE ItemsStartInOrder
  OBVIOUS
<1>1. CASE UNCHANGED item
  BY <1>1 DEF ItemsStartInOrder
<1>2. CASE Schedule
  <2>1. ASSUME NEW k \in Claims, NEW i \in Items, Claim(k, i) PROVE ItemsStartInOrder
    BY <2>1 DEF Claim, Claimable, Runnable, ItemsStartInOrder, TypeInv, TypeOK
  <2>2. ASSUME NEW i \in Items, ClaimInvalid(i) PROVE ItemsStartInOrder
    BY <2>2, InvalidatedStartsNone, StructureAssumption DEF ClaimInvalid
  <2> QED
    BY <1>2, <2>1, <2>2 DEF Schedule
<1>3. CASE ResolveWrites
  BY <1>3, ItemStatus DEF ResolveWrites, ItemsStartInOrder, BusyStatuses
<1>4. ASSUME NEW k \in Claims, Execution(k) PROVE ItemsStartInOrder
  <2>1. run[k].item \in Items
    <3>1. run[k].pc # "free"
      BY Zenon, <1>4 DEF Execution, Reserve, Register, ReserveReused, ReserveDropped, ReserveWait, ReserveOwn,
             ReserveFails, Release, ReleaseFails, ExecuteReturns, ReportProgress, Heartbeat,
             HeartbeatFails, Complete, CompleteFails, FinishRead, FinishWrite, FinishFails
    <3> QED
      BY <3>1, MyPlaces
  <2> QED
    BY <1>4, <2>1, ExecutionItems DEF OnlyRunning, ItemsStartInOrder, BusyStatuses
<1>5. ASSUME NEW c \in Callers, Request(c) PROVE ItemsStartInOrder
  <2>1. CASE CreateWrites(c)
    <3> DEFINE hits == call[c].hits
               leaves == {call[c].row} \cup Leaves(call[c].row)
               new == {q \in leaves : \A p \in leaves : task[p].status = "absent"}
    <3>1. \A i \in Items : item'[i] =
            IF TaskOf[i] \notin new THEN item[i]
            ELSE IF hits[i] # 0 THEN [item[i] EXCEPT !.status = "cached", !.result = hits[i]]
            ELSE [item[i] EXCEPT !.status = "pending"]
      BY <2>1 DEF CreateWrites
    <3> HIDE DEF hits, new
    <3>2. \A i \in Items : item'[i] = item[i] \/ item'[i].status \in {"cached", "pending"}
      <4> SUFFICES ASSUME NEW i \in Items, item'[i] # item[i] PROVE item'[i].status \in {"cached", "pending"}
        OBVIOUS
      <4>1. item[i] \in ItemRow
        BY DEF TypeInv, TypeOK
      <4>2. CASE item'[i] = [item[i] EXCEPT !.status = "cached", !.result = hits[i]]
        BY <4>1, <4>2 DEF ItemRow
      <4>3. CASE item'[i] = [item[i] EXCEPT !.status = "pending"]
        BY <4>1, <4>3 DEF ItemRow
      <4> QED
        BY <3>1, <4>2, <4>3
    <3> QED
      BY <3>2 DEF ItemsStartInOrder, BusyStatuses
  <2>2. CASE InvalidateWrites(c)
    <3>1. call[c] \in CallState
      BY DEF TypeInv, TypeOK, Servers
    <3>2. call[c].targets \in SUBSET Tasks
      BY <3>1 DEF CallState
    <3> QED
      BY <2>2, <3>2, InvalidatedStartsNone DEF InvalidateWrites
  <2>3. CASE CancelWrites(c) \/ RetryWrites(c)
    <3>1. \A i \in Items : item'[i] = item[i] \/ \E s \in {"cancelled", "pending"} : item'[i] = Settle(item[i], s)
      BY <2>3 DEF CancelWrites, RetryWrites
    <3>2. \A i \in Items : item'[i] = item[i] \/ item'[i].status \in {"cancelled", "pending"}
      BY ZenonT(60), <3>1 DEF TypeInv, TypeOK, ItemRow, Settle
    <3> QED
      BY <3>2 DEF ItemsStartInOrder, BusyStatuses
  <2>4. CASE UNCHANGED item
    BY <1>1, <2>4
  <2> QED
    <3>1. \/ \E t \in Tasks : StartDecides(c, t)
          \/ \E r \in Rows : CreateLooks(c, r) \/ CancelDecides(c, r) \/ RetryDecides(c, r)
          \/ StartWrites(c) \/ AdoptWrites(c) \/ CancelSignals(c)
          => UNCHANGED item
      BY Zenon DEF StartDecides, CreateLooks, CancelDecides, RetryDecides, Decide, Begin, StartWrites,
         AdoptWrites, CancelSignals, dbVars
    <3> QED
      BY Zenon, <1>5, <2>1, <2>2, <2>3, <2>4, <3>1 DEF Request
<1>6. CASE Restart
  <2>1. CASE Recover
    BY <2>1, ItemStatus DEF Recover, RecoveredItems, ItemsStartInOrder, BusyStatuses
  <2>2. ASSUME NEW t \in Tasks, RecoverInvalid(t) PROVE ItemsStartInOrder
    BY <2>2, InvalidatedStartsNone DEF RecoverInvalid
  <2>3. CASE UNCHANGED item
    BY <1>1, <2>3
  <2> QED
    BY <1>6, <2>1, <2>2, <2>3 DEF Restart, Start, RecoverCancelled, dbVars
<1>7. ASSUME NEW i \in Items, ItemLeaseLapses(i) PROVE ItemsStartInOrder
  BY <1>7, ItemStatus DEF ItemLeaseLapses, ItemsStartInOrder, TypeInv, TypeOK
<1>8. CASE \/ ResolveLooks \/ UNCHANGED vars \/ Crash \/ Shutdown \/ ShutdownEnds \/ Exit
           \/ \E c \in Servers : RequestFails(c)
           \/ \E th \in Threads : Refresh(th) \/ RefreshFails(th)
           \/ \E c \in Keys : EntryLeaseLapses(c) \/ EntryRots(c)
           \/ \E t \in Tasks : TaskCorrupted(t)
  <2>1. UNCHANGED item
    BY <1>8 DEF ResolveLooks, Begin, vars, dbVars, Crash, Shutdown, ShutdownEnds, Exit, RequestFails,
       Refresh, RefreshBegins, RefreshRead, RefreshWrite, RefreshFails, EntryLeaseLapses, EntryRots,
       TaskCorrupted
  <2> QED
    BY <1>1, <2>1
<1> QED
  BY <1>2, <1>3, <1>4, <1>5, <1>6, <1>7, <1>8 DEF Next, Environment

\* No item of a stage is worked on before every prerequisite stage has all of
\* its results (claimNext), and a result once there stays.
THEOREM StagesInOrder == Spec => []StageOrder
<1>1. Init => StageOrder
  BY DEF Init, StageOrder
<1>2. IInv /\ StageOrder /\ [Next]_vars => StageOrder'
  <2> SUFFICES ASSUME IInv, StageOrder, [Next]_vars,
                      NEW i \in Items, item'[i].status \in BusyStatuses,
                      NEW p \in Needs[TaskOf[i]], NEW j \in ItemsOf(p)
               PROVE  IsValid(j)'
    BY DEF StageOrder, BusyStatuses, ItemsOf
  <2>1. p \in Tasks /\ j \in Items
    BY StructureAssumption DEF ItemsOf
  <2>2. IsValid(j)
    <3>1. CASE item[i].status \in BusyStatuses
      BY <3>1, <2>1 DEF StageOrder, BusyStatuses
    <3>2. CASE DependenciesCompleted(TaskOf[i])
      BY <3>2, <2>1, LeafCovers DEF DependenciesCompleted, IInv, Honest, CompletedMeansAllValid, Rows
    <3> QED
      BY <3>1, <3>2, StartsInOrder DEF ItemsStartInOrder, IInv
  <2> QED
    BY <2>1, <2>2, HonestStep DEF ItemsKept, IsValid
<1> QED
  BY <1>1, <1>2, Inductive, PTL DEF Spec

-----------------------------------------------------------------------------
(* One flight at a time.  The entry of a key is leased to the execution     *)
(* that computes it, for as long as no lease lapses under a running one.    *)

\* Hazards only strike more often.
LEMMA StruckGrows == TypeInv /\ [Next]_vars => \A h \in Hazards : struck'[h] >= struck[h]
<1> SUFFICES ASSUME TypeInv, [Next]_vars PROVE \A h \in Hazards : struck'[h] >= struck[h]
  OBVIOUS
<1>1. CASE UNCHANGED struck
  BY <1>1 DEF TypeInv, TypeOK
<1>2. ASSUME NEW h \in Hazards, Strike(h) PROVE \A g \in Hazards : struck'[g] >= struck[g]
  BY <1>2 DEF Strike, TypeInv, TypeOK
<1>3. \A h \in {"crash", "stall", "fault", "rot", "corrupt", "call"} : h \in Hazards
  BY DEF Hazards
<1>4. ASSUME NEW k \in Claims, Execution(k) PROVE UNCHANGED struck \/ Strike("fault")
  BY Zenon, <1>4 DEF Execution, Reserve, Register, ReserveReused, ReserveDropped, ReserveWait, ReserveOwn,
     ReserveFails, Release, ReleaseFails, ExecuteReturns, ReportProgress, Heartbeat, HeartbeatFails,
     Complete, CompleteFails, FinishRead, FinishWrite, FinishFails
<1>5. ASSUME NEW c \in Callers, Request(c) PROVE UNCHANGED struck \/ Strike("call")
  BY Zenon, <1>5 DEF Request, StartDecides, CreateLooks, CancelDecides, RetryDecides, Decide, CreateWrites,
     StartWrites, AdoptWrites, InvalidateWrites, CancelWrites, CancelSignals, RetryWrites
<1>6. CASE \/ Schedule \/ ResolveLooks \/ ResolveWrites \/ \E c \in Servers : RequestFails(c)
           \/ \E th \in Threads : Refresh(th) \/ RefreshFails(th)
  <2>1. UNCHANGED struck \/ Strike("fault")
    BY Zenon, <1>6 DEF Schedule, Claim, ClaimInvalid, ResolveLooks, ResolveWrites, RequestFails, Refresh,
       RefreshBegins, RefreshRead, RefreshWrite, RefreshFails
  <2> QED
    BY <1>1, <1>2, <1>3, <2>1
<1>7. CASE Crash \/ Shutdown \/ ShutdownEnds \/ Exit \/ Restart
  <2>1. UNCHANGED struck \/ Strike("fault") \/ Strike("crash")
    BY Zenon, <1>7 DEF Crash, Shutdown, ShutdownEnds, Exit, Restart, Recover, Start, RecoverCancelled,
       RecoverInvalid
  <2> QED
    BY <1>1, <1>2, <1>3, <2>1
<1>8. CASE Environment
  <2>1. UNCHANGED struck \/ Strike("stall") \/ Strike("rot") \/ Strike("corrupt")
    BY Zenon, <1>8 DEF Environment, ItemLeaseLapses, EntryLeaseLapses, EntryRots, TaskCorrupted, Lapses
  <2> QED
    BY <1>1, <1>2, <1>3, <2>1
<1>9. CASE UNCHANGED vars
  BY <1>1, <1>9 DEF vars
<1> QED
  BY <1>1, <1>2, <1>3, <1>4, <1>5, <1>6, <1>7, <1>8, <1>9 DEF Next

\* A process that is not up yet has no executions and no requests.
StillDown ==
  proc \in {"down", "starting"} =>
    /\ \A k \in Claims : run[k] = Idle
    /\ \A c \in Servers : call[c] = NoCall

\* An execution works on a goroutine that is not idle.
LEMMA ExecutionRuns ==
  ASSUME NEW k \in Claims, Execution(k)
  PROVE  run[k].pc # "free" /\ run[k] # Idle /\ k \notin Servers
<1>1. run[k].pc # "free"
  BY Zenon DEF Execution, Reserve, Register, ReserveReused, ReserveDropped, ReserveWait, ReserveOwn,
     ReserveFails, Release, ReleaseFails, ExecuteReturns, ReportProgress, Heartbeat, HeartbeatFails,
     Complete, CompleteFails, FinishRead, FinishWrite, FinishFails
<1> QED
  BY <1>1, IdentityAssumption DEF Idle, Servers

\* Whoever is answered was idle or is done: nothing is started while the process
\* is down or recovers.
LEMMA StillDownStep == TypeInv /\ StillDown /\ [Next]_vars => StillDown'
<1> SUFFICES ASSUME TypeInv, StillDown, [Next]_vars, proc' \in {"down", "starting"}
             PROVE  /\ \A k \in Claims : run'[k] = Idle
                    /\ \A c \in Servers : call'[c] = NoCall
  BY DEF StillDown
<1>0. NoCall.op = "idle" /\ NoCall.targets = {} /\ Idle.pc = "free"
  BY DEF NoCall, Idle
<1>1. CASE Crash \/ Exit
  BY <1>1 DEF Crash, Exit, MemoryLost
<1>2. CASE proc \notin {"down", "starting"} /\ proc' = proc
  BY <1>2
<1>3. CASE proc \in {"down", "starting"} /\ UNCHANGED <<run, call>>
  BY <1>3 DEF StillDown
<1>4. CASE Schedule \/ ResolveLooks \/ Shutdown \/ ShutdownEnds
  BY <1>4, <1>2 DEF Schedule, Claim, ClaimInvalid, SchedulerFree, ResolveLooks, Begin, Shutdown, ShutdownEnds, memVars
<1>5. CASE ResolveWrites
  <2>1. call[Scheduler] # NoCall /\ Scheduler \in Servers /\ proc' = proc
    BY <1>5, <1>0 DEF ResolveWrites, Serving, Servers
  <2> QED
    BY <1>2, <2>1 DEF StillDown
<1>6. ASSUME NEW c \in Servers, RequestFails(c) PROVE StillDown'
  BY <1>6, <1>0 DEF RequestFails, StillDown, TypeInv, TypeOK
<1>7. ASSUME NEW k \in Claims, Execution(k) PROVE proc \notin {"down", "starting"} /\ proc' = proc
  <2>1. proc' = proc
    BY Zenon, <1>7 DEF Execution, Reserve, Register, ReserveReused, ReserveDropped, ReserveWait, ReserveOwn,
       ReserveFails, Release, ReleaseFails, ExecuteReturns, ReportProgress, Heartbeat, HeartbeatFails,
       Complete, CompleteFails, FinishRead, FinishWrite, FinishFails, memVars
  <2> QED
    BY <1>7, <2>1, ExecutionRuns DEF StillDown
<1>8. ASSUME NEW c \in Callers, Request(c) PROVE proc \notin {"down", "starting"} /\ proc' = proc
  <2>1. proc' = proc
    BY Zenon, <1>8 DEF Request, StartDecides, CreateLooks, CancelDecides, RetryDecides, Decide, Begin, CreateWrites,
       StartWrites, AdoptWrites, InvalidateWrites, CancelWrites, CancelSignals, RetryWrites
  <2>2. Alive \/ call[c].op # "idle"
    BY <1>8 DEF Request, StartDecides, CreateLooks, CancelDecides, RetryDecides, Alive, CreateWrites, StartWrites,
       AdoptWrites, InvalidateWrites, CancelWrites, CancelSignals, RetryWrites, Serving
  <2> QED
    BY <1>0, <2>1, <2>2 DEF StillDown, Alive, Servers
<1>9. ASSUME NEW th \in Threads, Refresh(th) \/ RefreshFails(th), proc \in {"down", "starting"} PROVE StillDown'
  <2>1. /\ th \in Claims => run[th] = Idle
        /\ th \in Servers => call[th] = NoCall
    BY <1>9 DEF StillDown
  <2>2. Scheduler \in Servers
    BY DEF Servers
  <2>3. UNCHANGED <<run, call>> \/ Leave(th)
    BY <1>0, <1>9, <2>1, <2>2 DEF Refresh, RefreshBegins, RefreshRead, RefreshWrite, RefreshFails, Unfinished
  <2> QED
    BY <1>9, <2>3 DEF Leave, StillDown, TypeInv, TypeOK
<1>10. ASSUME NEW th \in Threads, Refresh(th) \/ RefreshFails(th), proc \notin {"down", "starting"} PROVE proc' = proc
  BY <1>10 DEF Refresh, RefreshBegins, RefreshRead, RefreshWrite, RefreshFails
<1>11. CASE Restart \/ Environment \/ UNCHANGED vars
  <2>1. UNCHANGED <<run, call>>
    BY Zenon, <1>11 DEF Restart, Recover, Start, RecoverCancelled, RecoverInvalid, Environment, ItemLeaseLapses,
       EntryLeaseLapses, EntryRots, TaskCorrupted, vars, memVars
  <2>2. proc' = proc \/ proc \in {"down", "starting"}
    BY Zenon, <1>11 DEF Restart, Recover, Start, Recovering, RecoverCancelled, RecoverInvalid, Environment,
       ItemLeaseLapses, EntryLeaseLapses, EntryRots, TaskCorrupted, vars, memVars
  <2> QED
    BY <1>3, <2>1, <2>2
<1> QED
  BY <1>1, <1>2, <1>4, <1>5, <1>6, <1>7, <1>8, <1>9, <1>10, <1>11 DEF Next, StillDown

\* The lease of execution k on an entry, not yet expired.
Guarded(entry, k) == Holds(entry, k) /\ entry.live

\* Every execution at work has a lease on the entry of its key.
FlightsGuarded == struck["stall"] = 0 => \A k \in Claims : Flying(k) => Guarded(MyEntry(k), k)

\* A step after which an execution is at work only if it was before, on the
\* same item.
NoTakeoff(k) == Flying(k)' => Flying(k) /\ run'[k].item = run[k].item

\* A step that takes no lease of execution k on an entry.
LeasesStay(k) == \A c \in Keys : Guarded(cache[c], k) => Guarded(cache'[c], k)

\* Executions that are not disturbed stay guarded.
LEMMA Undisturbed ==
  ASSUME TypeInv, FlightsGuarded, struck["stall"] = 0, NEW k \in Claims, NoTakeoff(k), LeasesStay(k)
  PROVE  Flying(k)' => Guarded(MyEntry(k), k)'
<1> SUFFICES ASSUME Flying(k)' PROVE Guarded(MyEntry(k), k)'
  OBVIOUS
<1>1. Flying(k) /\ run'[k].item = run[k].item
  BY DEF NoTakeoff
<1>2. run[k].pc # "free"
  BY <1>1 DEF Flying
<1>3. Guarded(cache[MyKey(k)], k) /\ MyKey(k) \in Keys /\ MyKey(k)' = MyKey(k)
  BY <1>1, <1>2, MyPlaces DEF FlightsGuarded, MyEntry, MyKey
<1>4. Guarded(cache'[MyKey(k)], k)
  BY <1>3 DEF LeasesStay
<1> QED
  BY <1>3, <1>4 DEF MyEntry, Guarded, Holds

\* An execution changes its own progress only, and starts to compute only by
\* reserving its key.
LEMMA ExecutionRun ==
  ASSUME TypeInv, NEW k \in Claims, Execution(k)
  PROVE  /\ \A l \in Claims \ {k} : run'[l] = run[l]
         /\ ReserveOwn(k) \/ NoTakeoff(k)
<1>1. run \in [Claims -> RunState]
  BY DEF TypeInv, TypeOK
<1>2. CASE UNCHANGED run
  BY <1>2 DEF NoTakeoff, Flying
<1>3. CASE Leave(k)
  BY <1>1, <1>3 DEF Leave, NoTakeoff, Flying, Idle
<1>4. ASSUME NEW pc \in PCs \ {"executing", "completing"}, Goes(k, pc) PROVE NoTakeoff(k)
  BY <1>1, <1>4 DEF Goes, NoTakeoff, Flying, RunState
<1>5. ASSUME NEW pc \in PCs, Goes(k, pc) PROVE \A l \in Claims \ {k} : run'[l] = run[l]
  BY <1>1, <1>5 DEF Goes
<1>6. ASSUME NEW o \in {"error", "canceled"}, Fails(k, o) PROVE NoTakeoff(k) /\ \A l \in Claims \ {k} : run'[l] = run[l]
  BY <1>1, <1>6 DEF Fails, NoTakeoff, Flying, RunState
<1>7. CASE ExecuteReturns(k) /\ Goes(k, "completing")
  BY <1>1, <1>5, <1>7 DEF ExecuteReturns, Goes, NoTakeoff, Flying, RunState, PCs
<1>8. CASE Heartbeat(k) \/ HeartbeatFails(k)
  BY <1>1, <1>8 DEF Heartbeat, HeartbeatFails, NoTakeoff, Flying, RunState
<1>9. CASE FinishRead(k)
  BY <1>1, <1>9 DEF FinishRead, NoTakeoff, Flying, RunState
<1>10. CASE ReserveOwn(k)
  BY <1>5, <1>10 DEF ReserveOwn, PCs
<1>11. CASE ExecuteReturns(k) /\ ~Goes(k, "completing")
  BY <1>6, <1>11 DEF ExecuteReturns
<1>12. CASE \/ Register(k) \/ ReserveReused(k) \/ ReserveWait(k) \/ ReserveFails(k) \/ Release(k)
            \/ Complete(k) \/ CompleteFails(k) \/ FinishWrite(k)
  BY <1>4, <1>5, <1>6, <1>12 DEF Register, ReserveReused, ReserveWait, ReserveFails, Release, Complete, CompleteFails,
     FinishWrite, PCs
<1>13. CASE ReserveDropped(k) \/ ReportProgress(k)
  BY <1>2, <1>13 DEF ReserveDropped, ReportProgress, memVars
<1>14. CASE ReleaseFails(k) \/ FinishFails(k)
  BY <1>3, <1>14 DEF ReleaseFails, FinishFails, Leave
<1> QED
  BY Zenon, <1>7, <1>8, <1>9, <1>10, <1>11, <1>12, <1>13, <1>14 DEF Execution, Reserve

\* An execution takes no other execution's lease, nor its own while it works.
LEMMA ExecutionLeases ==
  ASSUME TypeInv, NEW k \in Claims, Execution(k)
  PROVE  /\ \A l \in Claims \ {k} : LeasesStay(l)
         /\ Flying(k) /\ Flying(k)' => LeasesStay(k)
<1>1. cache \in [Keys -> CacheRow] /\ run \in [Claims -> RunState]
  BY DEF TypeInv, TypeOK
<1>2. run[k].item \in Items /\ MyKey(k) \in Keys
  BY ExecutionRuns, MyPlaces
<1>3. CASE UNCHANGED cache
  BY <1>3 DEF LeasesStay
<1>4. ASSUME NEW entry, cache' = [cache EXCEPT ![MyKey(k)] = entry],
             NEW l \in Claims, ~Guarded(MyEntry(k), l)
      PROVE  LeasesStay(l)
  BY <1>1, <1>2, <1>4 DEF LeasesStay, MyEntry
<1>5. ASSUME NEW b, cache' = [cache EXCEPT ![MyKey(k)].live = b], b \/ b = MyEntry(k).live
      PROVE  \A l \in Claims : LeasesStay(l)
  BY <1>1, <1>2, <1>5 DEF LeasesStay, MyEntry, CacheRow, Guarded, Holds
<1>6. CASE ReserveDropped(k)
  BY <1>4, <1>6 DEF ReserveDropped, MyEntry, Guarded, Holds
<1>7. CASE ReserveOwn(k)
  BY <1>4, <1>7 DEF ReserveOwn, MyEntry, Guarded, Holds, Flying
<1>8. CASE Heartbeat(k) \/ ReportProgress(k)
  BY <1>1, <1>2, <1>5, <1>8 DEF Heartbeat, ReportProgress, MyEntry, CacheRow
<1>9. CASE Complete(k)
  <2>1. ~Flying(k)'
    BY <1>1, <1>9 DEF Complete, Goes, Flying
  <2>2. \A l \in Claims \ {k} : ~Guarded(MyEntry(k), l)
    BY <1>9 DEF Complete, HoldsBoth, Holds, Guarded
  <2> QED
    BY <1>4, <1>9, <2>1, <2>2 DEF Complete
<1>10. CASE FinishWrite(k)
  <2>1. ~Flying(k)
    BY <1>10 DEF FinishWrite, Flying
  <2>2. CASE Holds(MyEntry(k), k)
    BY <1>4, <1>10, <2>1, <2>2 DEF FinishWrite, Guarded, Holds
  <2>3. CASE ~Holds(MyEntry(k), k)
    BY <1>1, <1>2, <1>10, <2>3 DEF FinishWrite, LeasesStay, MyEntry
  <2> QED
    BY <2>2, <2>3
<1> QED
  BY Zenon, <1>3, <1>6, <1>7, <1>8, <1>9, <1>10 DEF Execution, Reserve, Register, ReserveReused, ReserveWait,
     ReserveFails, Release, ReleaseFails, ExecuteReturns, HeartbeatFails, CompleteFails, FinishRead,
     FinishFails, dbVars

\* A lease lapses under a running execution only as a stall.
LEMMA LapsesUnattended ==
  ASSUME TypeInv, NEW c \in Keys, EntryLeaseLapses(c), struck'["stall"] = struck["stall"], NEW k \in Claims, Flying(k)
  PROVE  LeasesStay(k)
<1>1. cache \in [Keys -> CacheRow]
  BY DEF TypeInv, TypeOK
<1>2. ~Strike("stall")
  BY DEF Strike, Hazards, TypeInv, TypeOK
<1>3. ~Attended(cache[c])
  BY <1>2 DEF EntryLeaseLapses, Lapses
<1>4. k # None /\ run[k].pc # "free" /\ ~run[k].ctxDone
  BY IdentityAssumption DEF Flying
<1>5. ~Guarded(cache[c], k)
  BY <1>3, <1>4 DEF Attended, Guarded, Holds
<1> QED
  BY <1>1, <1>5 DEF EntryLeaseLapses, LeasesStay

\* Other steps neither let an execution take off nor take a lease away.
LEMMA OthersLeaveFlights ==
  ASSUME TypeInv, StillDown, [Next]_vars, struck'["stall"] = struck["stall"],
         ~\E k \in Claims : Execution(k), NEW l \in Claims
  PROVE  NoTakeoff(l) /\ (Flying(l) => LeasesStay(l))
<1>a. run \in [Claims -> RunState] /\ cache \in [Keys -> CacheRow]
  BY DEF TypeInv, TypeOK
<1>b. UNCHANGED run => NoTakeoff(l)
  BY DEF NoTakeoff, Flying
<1>c. UNCHANGED cache => LeasesStay(l)
  BY DEF LeasesStay
<1>1. CASE Schedule
  <2>1. UNCHANGED cache
    BY <1>1 DEF Schedule, Claim, ClaimInvalid
  <2>2. ASSUME NEW k \in Claims, NEW i \in Items, Claim(k, i) PROVE NoTakeoff(l)
    BY <1>a, <2>2 DEF Claim, NoTakeoff, Flying, Idle
  <2>3. ASSUME NEW i \in Items, ClaimInvalid(i) PROVE NoTakeoff(l)
    BY <1>b, <2>3 DEF ClaimInvalid, memVars
  <2> QED
    BY <1>1, <1>c, <2>1, <2>2, <2>3 DEF Schedule
<1>2. ASSUME NEW th \in Threads, Refresh(th) \/ RefreshFails(th) PROVE NoTakeoff(l) /\ LeasesStay(l)
  <2>1. UNCHANGED cache
    BY <1>2 DEF Refresh, RefreshBegins, RefreshRead, RefreshWrite, RefreshFails, dbVars
  <2>2. UNCHANGED run \/ Leave(th) \/ (th \in Claims /\ Fails(th, "error"))
    BY Zenon, <1>2 DEF Refresh, RefreshBegins, RefreshRead, RefreshWrite, RefreshFails
  <2>3. ASSUME Leave(th) PROVE NoTakeoff(l)
    BY <1>a, <2>3 DEF Leave, NoTakeoff, Flying, Idle
  <2>4. ASSUME th \in Claims, Fails(th, "error") PROVE NoTakeoff(l)
    BY <1>a, <2>4 DEF Fails, NoTakeoff, Flying, RunState
  <2> QED
    BY <1>b, <1>c, <2>1, <2>2, <2>3, <2>4
<1>3. ASSUME NEW c \in Callers, Request(c) PROVE NoTakeoff(l) /\ LeasesStay(l)
  <2>1. CASE \/ \E t \in Tasks : StartDecides(c, t)
             \/ \E r \in Rows : CreateLooks(c, r) \/ CancelDecides(c, r) \/ RetryDecides(c, r)
    <3>1. UNCHANGED <<run, cache>>
      BY Zenon, <2>1 DEF StartDecides, CreateLooks, CancelDecides, RetryDecides, Decide, Begin, dbVars
    <3> QED
      BY <1>b, <1>c, <3>1
  <2>2. CASE CreateWrites(c) \/ StartWrites(c) \/ AdoptWrites(c) \/ InvalidateWrites(c) \/ CancelWrites(c) \/ RetryWrites(c)
    BY <1>b, <1>c, <2>2 DEF CreateWrites, StartWrites, AdoptWrites, InvalidateWrites, CancelWrites, RetryWrites
  <2>3. CASE CancelSignals(c)
    BY <1>a, <1>c, <2>3 DEF CancelSignals, NoTakeoff, Flying, RunState, dbVars
  <2> QED
    BY Zenon, <1>3, <2>1, <2>2, <2>3 DEF Request
<1>8. CASE (\E c \in Servers : RequestFails(c)) \/ ResolveLooks \/ ResolveWrites
  BY <1>b, <1>c, <1>8 DEF RequestFails, ResolveLooks, ResolveWrites, Begin, dbVars
<1>4. CASE Crash \/ Shutdown \/ ShutdownEnds \/ Exit
  <2>1. UNCHANGED cache
    BY <1>4 DEF Crash, Shutdown, ShutdownEnds, Exit, dbVars
  <2>2. UNCHANGED run \/ ~Flying(l)'
    BY <1>a, <1>4 DEF Crash, Shutdown, ShutdownEnds, Exit, MemoryLost, Flying, Idle, RunState
  <2> QED
    BY <1>b, <1>c, <2>1, <2>2 DEF NoTakeoff
<1>5. CASE Restart
  <2>1. UNCHANGED run
    BY <1>5 DEF Restart, Recover, Start, RecoverCancelled, RecoverInvalid
  <2>2. Flying(l) => UNCHANGED cache
    BY <1>5 DEF Restart, Recover, Start, RecoverCancelled, RecoverInvalid, StillDown, Flying, Idle, dbVars
  <2> QED
    BY <1>b, <1>c, <2>1, <2>2
<1>6. CASE Environment
  <2>1. UNCHANGED run
    BY <1>6 DEF Environment, ItemLeaseLapses, EntryLeaseLapses, EntryRots, TaskCorrupted, memVars
  <2>2. ASSUME NEW c \in Keys, EntryRots(c) PROVE LeasesStay(l)
    BY <1>a, <2>2 DEF EntryRots, LeasesStay, Guarded, Holds
  <2>3. ASSUME NEW i \in Items, ItemLeaseLapses(i) PROVE LeasesStay(l)
    BY <1>c, <2>3 DEF ItemLeaseLapses
  <2>4. ASSUME NEW t \in Tasks, TaskCorrupted(t) PROVE LeasesStay(l)
    BY <1>c, <2>4 DEF TaskCorrupted
  <2> QED
    BY <1>6, <1>b, <2>1, <2>2, <2>3, <2>4, LapsesUnattended DEF Environment
<1>7. CASE UNCHANGED vars
  BY <1>7, <1>b, <1>c DEF vars, dbVars, memVars
<1> QED
  BY Zenon, <1>1, <1>2, <1>3, <1>4, <1>5, <1>6, <1>7, <1>8 DEF Next

\* Guards survive every step, as long as nothing has stalled.
LEMMA FlightsGuardedStep == TypeInv /\ StillDown /\ FlightsGuarded /\ [Next]_vars => FlightsGuarded'
<1> SUFFICES ASSUME TypeInv, StillDown, FlightsGuarded, [Next]_vars, struck'["stall"] = 0,
                    NEW l \in Claims, Flying(l)'
             PROVE  Guarded(MyEntry(l), l)'
  BY DEF FlightsGuarded
<1>1. struck["stall"] = 0
  BY StruckGrows DEF Hazards, TypeInv, TypeOK
<1>2. CASE ~\E k \in Claims : Execution(k)
  <2>1. NoTakeoff(l) /\ (Flying(l) => LeasesStay(l))
    BY <1>1, <1>2, OthersLeaveFlights
  <2>2. LeasesStay(l)
    BY <2>1 DEF NoTakeoff
  <2> QED
    BY <1>1, <2>1, <2>2, Undisturbed
<1>3. ASSUME NEW k \in Claims \ {l}, Execution(k) PROVE Guarded(MyEntry(l), l)'
  <2>1. NoTakeoff(l) /\ LeasesStay(l)
    BY <1>3, ExecutionRun, ExecutionLeases DEF NoTakeoff, Flying
  <2> QED
    BY <1>1, <2>1, Undisturbed
<1>4. CASE Execution(l) /\ NoTakeoff(l)
  <2>1. LeasesStay(l)
    BY <1>4, ExecutionLeases DEF NoTakeoff
  <2> QED
    BY <1>1, <1>4, <2>1, Undisturbed
<1>5. CASE Execution(l) /\ ReserveOwn(l)
  <2>1. run[l].item \in Items /\ MyKey(l) \in Keys /\ cache \in [Keys -> CacheRow] /\ run \in [Claims -> RunState]
    BY <1>5, ExecutionRuns, MyPlaces DEF TypeInv, TypeOK
  <2>2. run'[l].item = run[l].item
    BY <1>5, <2>1 DEF ReserveOwn, Goes, RunState
  <2>3. MyKey(l)' = MyKey(l)
    BY <2>2 DEF MyKey
  <2>4. cache'[MyKey(l)] = [Leased(MyEntry(l), l) EXCEPT !.source = run[l].item]
    BY <1>5, <2>1 DEF ReserveOwn, MyEntry
  <2>5. Guarded(cache'[MyKey(l)], l)
    BY <2>1, <2>4 DEF Guarded, Holds, Leased, CacheRow, MyEntry
  <2> QED
    BY <2>3, <2>5 DEF MyEntry, Guarded, Holds
<1> QED
  BY <1>2, <1>3, <1>4, <1>5, ExecutionRun

\* While no lease lapses under a running execution, at most one execution
\* with a live context works on a cache key (reserveCache, heartbeat).
THEOREM OneFlightPerKey == Spec => []SingleFlight
<1> DEFINE FInv == IInv /\ StillDown /\ FlightsGuarded
<1>1. Init => StillDown /\ FlightsGuarded
  BY DEF Init, StillDown, FlightsGuarded, Flying, Idle
<1>2. IInv /\ StillDown /\ FlightsGuarded /\ [Next]_vars => StillDown' /\ FlightsGuarded'
  BY StillDownStep, FlightsGuardedStep DEF IInv
<1>3. IInv /\ FlightsGuarded => SingleFlight
  BY DEF FlightsGuarded, SingleFlight, Guarded, Holds, MyEntry
<1> QED
  BY <1>1, <1>2, <1>3, Inductive, PTL DEF Spec

-----------------------------------------------------------------------------
(* Nobody cancelled.  Without a request, a stall and a failed statement, an  *)
(* execution that still has its item is interrupted only by a shutdown.      *)

Undemanded == \A h \in {"call", "stall", "fault"} : struck[h] = 0

Interrupted(k) == run[k].ctxDone \/ run[k].outcome = "canceled"

\* What the execution k would record, if it still has its item.
Excused(k) ==
  run[k].pc # "free" /\ Holds(MyItem(k), k) =>
    /\ Interrupted(k) => proc = "stopping"
    /\ run[k].outcome # "cancelled"

NoneCancelled ==
  /\ \A i \in Items : item[i].status # "cancelled"
  /\ \A r \in Rows : ~task[r].cancelRequested
  /\ \A c \in Callers : call[c] = NoCall

CancelFree == Undemanded => NoneCancelled /\ \A k \in Claims : Excused(k)

\* A step that leases no item to execution k.
NoGrant(k) == \A i \in Items : Holds(item'[i], k) => Holds(item[i], k)

\* A step that gives execution k no reason to call itself cancelled.
NoCause(k) ==
  run'[k].pc # "free" =>
    /\ run[k].pc # "free" /\ run'[k].item = run[k].item
    /\ Interrupted(k)' => Interrupted(k)
    /\ run'[k].outcome = "cancelled" => run[k].outcome = "cancelled"

\* Such a step leaves an execution excused, unless the shutdown ends.
LEMMA StaysExcused ==
  ASSUME TypeInv, NEW k \in Claims, Excused(k), NoGrant(k), NoCause(k), proc' = proc
  PROVE  Excused(k)'
<1> SUFFICES ASSUME run'[k].pc # "free", Holds(MyItem(k), k)'
             PROVE  /\ Interrupted(k)' => proc' = "stopping"
                    /\ run'[k].outcome # "cancelled"
  BY DEF Excused
<1>1. run[k].pc # "free" /\ run'[k].item = run[k].item
  BY DEF NoCause
<1>2. Holds(item'[run[k].item], k)
  BY <1>1 DEF MyItem, Holds
<1>3. Holds(MyItem(k), k)
  BY <1>1, <1>2, MyPlaces DEF NoGrant, MyItem
<1> QED
  BY <1>1, <1>3 DEF NoCause, Excused

\* Lease owners of changed rows.
LEMMA SettledHolds ==
  ASSUME NEW row \in ItemRow, NEW k \in Claims
  PROVE  /\ \A s : ~Holds(Settle(row, s), k)
         /\ \A s, n : ~Holds([Settle(row, s) EXCEPT !.result = n], k)
         /\ \A s, b : ~Holds([Settle(row, s) EXCEPT !.live = b], k)
         /\ \A b : Holds([row EXCEPT !.live = b], k) <=> Holds(row, k)
         /\ \A l : l # k => ~Holds(Leased(row, l), k)
         /\ \A s, n : s # "running" => ~Holds([row EXCEPT !.status = s, !.result = n], k)
         /\ \A s : s # "running" => ~Holds([row EXCEPT !.status = s], k)
<1>1. k # None
  BY IdentityAssumption
<1> QED
  BY <1>1 DEF Holds, Settle, Leased, ItemRow

\* An execution leases no item: it settles its own or renews it.
LEMMA ExecutionGrants ==
  ASSUME TypeInv, NEW k \in Claims, Execution(k), NEW l \in Claims
  PROVE  NoGrant(l)
<1>a. item \in [Items -> ItemRow] /\ run[k].item \in Items /\ MyItem(k) \in ItemRow
  BY ExecutionRuns, MyPlaces DEF TypeInv, TypeOK, MyItem
<1>b. ASSUME NEW row, item' = [item EXCEPT ![run[k].item] = row], Holds(row, l) => Holds(MyItem(k), l)
      PROVE  NoGrant(l)
  BY <1>a, <1>b DEF NoGrant, MyItem
<1>1. CASE UNCHANGED item
  BY <1>1 DEF NoGrant
<1>2. ASSUME NEW s, NEW n, item' = [item EXCEPT ![run[k].item] = [Settle(MyItem(k), s) EXCEPT !.result = n]]
      PROVE  NoGrant(l)
  <2> DEFINE row == [Settle(MyItem(k), s) EXCEPT !.result = n]
  <2>1. ~Holds(row, l)
    BY <1>a, SettledHolds
  <2>2. item' = [item EXCEPT ![run[k].item] = row]
    BY <1>2
  <2> HIDE DEF row
  <2> QED
    BY <1>b, <2>1, <2>2
<1>6. CASE ReserveReused(k) \/ Complete(k)
  BY <1>1, <1>2, <1>6 DEF ReserveReused, Complete, MyItem
<1>3. CASE Release(k)
  BY <1>a, <1>b, <1>3, SettledHolds DEF Release, MyItem
<1>4. CASE Heartbeat(k) \/ ReportProgress(k)
  BY <1>a, <1>b, <1>4, SettledHolds DEF Heartbeat, ReportProgress, MyItem
<1>5. CASE FinishWrite(k)
  <2> DEFINE status == IF run[k].outcome = "shutdown" THEN "pending" ELSE run[k].outcome
             row == IF Holds(MyItem(k), k) THEN Settle(MyItem(k), status) ELSE MyItem(k)
  <2>1. item' = [item EXCEPT ![run[k].item] = row]
    BY <1>a, <1>5 DEF FinishWrite, MyItem
  <2> HIDE DEF status
  <2>2. Holds(row, l) => Holds(MyItem(k), l)
    BY <1>a, SettledHolds
  <2> HIDE DEF row
  <2> QED
    BY <1>b, <2>1, <2>2
<1> QED
  BY Zenon, <1>1, <1>6, <1>3, <1>4, <1>5 DEF Execution, Reserve, Register, ReserveDropped,
     ReserveWait, ReserveOwn, ReserveFails, ReleaseFails, ExecuteReturns, HeartbeatFails,
     CompleteFails, FinishRead, FinishFails, dbVars

\* Undemanded steps strike none of the three hazards.
LEMMA NotStruck ==
  ASSUME TypeInv, [Next]_vars, Undemanded'
  PROVE  Undemanded /\ ~Strike("call") /\ ~Strike("stall") /\ ~Strike("fault")
<1>1. \A h \in {"call", "stall", "fault"} : h \in Hazards /\ struck[h] \in Nat /\ struck'[h] >= struck[h] /\ struck'[h] = 0
  BY StruckGrows DEF Undemanded, Hazards, TypeInv, TypeOK
<1>2. Undemanded
  BY <1>1 DEF Undemanded
<1>3. ASSUME NEW h \in {"call", "stall", "fault"}, Strike(h) PROVE struck'[h] = struck[h] + 1
  BY <1>1, <1>3 DEF Strike, TypeInv, TypeOK
<1> QED
  BY <1>1, <1>2, <1>3

\* A heartbeat that cancels its execution, without anything having lapsed,
\* has lost the item.
LEMMA HeartbeatExcused ==
  ASSUME TypeInv, FlightsGuarded, Undemanded, NoneCancelled, NEW k \in Claims, Excused(k), Heartbeat(k)
  PROVE  Excused(k)'
<1>1. Flying(k) /\ run[k].pc # "free"
  BY DEF Heartbeat, Flying
<1>2. Holds(MyEntry(k), k)
  BY <1>1 DEF FlightsGuarded, Guarded, Undemanded
<1>3. run[k].item \in Items /\ MyTask(k) \in Rows
  BY <1>1, MyPlaces DEF Rows
<1>4. /\ run'[k].ctxDone = (~HoldsBoth(k) \/ task[MyTask(k)].cancelRequested)
      /\ run'[k].item = run[k].item /\ run'[k].outcome = run[k].outcome
  BY DEF Heartbeat, TypeInv, TypeOK, RunState
<1>5. run'[k].ctxDone => ~Holds(MyItem(k), k)
  BY <1>2, <1>3, <1>4 DEF HoldsBoth, NoneCancelled
<1>6. NoGrant(k)
  BY ExecutionGrants DEF Execution
<1>7. Holds(MyItem(k), k)' => Holds(MyItem(k), k)
  BY <1>3, <1>4, <1>6 DEF NoGrant, MyItem, Holds
<1> QED
  BY <1>1, <1>4, <1>5, <1>7 DEF Excused, Interrupted, Heartbeat

\* The verdict on an excused execution.
LEMMA FinishReadExcused ==
  ASSUME TypeInv, ~Strike("fault"), NoneCancelled, NEW k \in Claims, Excused(k), FinishRead(k)
  PROVE  Excused(k)'
<1>1. run[k].pc # "free" /\ run[k] \in RunState
  BY DEF FinishRead, TypeInv, TypeOK
<1>2. run[k].item \in Items /\ MyTask(k) \in Rows
  BY <1>1, MyPlaces DEF Rows
<1>3. ~task[MyTask(k)].cancelRequested
  BY <1>2 DEF NoneCancelled
<1>4. task[MyTask(k)].cancelRequested \in BOOLEAN
  BY <1>2 DEF TypeInv, TypeOK, TaskRow
<1>5. run' = [run EXCEPT ![k] = [run[k] EXCEPT !.pc = "finishing", !.outcome = Verdict(k, FALSE)]]
  BY <1>3, <1>4 DEF FinishRead
<1>6. Verdict(k, FALSE) = IF proc = "stopping" THEN "shutdown" ELSE IF run[k].outcome = "canceled" THEN "cancelled" ELSE "failed"
  BY DEF Verdict
<1>7. run'[k] = [run[k] EXCEPT !.pc = "finishing", !.outcome = Verdict(k, FALSE)]
  BY <1>5 DEF TypeInv, TypeOK
<1>8. run'[k].item = run[k].item /\ run'[k].ctxDone = run[k].ctxDone /\ run'[k].outcome = Verdict(k, FALSE)
  BY <1>1, <1>7 DEF RunState
<1>9. Holds(MyItem(k), k)' => Holds(MyItem(k), k)
  BY <1>8 DEF FinishRead, MyItem, Holds, dbVars
<1> QED
  BY <1>1, <1>6, <1>8, <1>9 DEF Excused, Interrupted, FinishRead

\* What an execution does on its own gives it no reason, these two aside.
LEMMA ExecutionCauses ==
  ASSUME TypeInv, ~Strike("fault"), NEW k \in Claims, Execution(k), ~Heartbeat(k), ~FinishRead(k)
  PROVE  NoCause(k)
<1>1. run \in [Claims -> RunState] /\ run[k].pc # "free" /\ run[k] \in RunState
  BY ExecutionRuns DEF TypeInv, TypeOK
<1>2. CASE UNCHANGED run
  BY <1>2 DEF NoCause, Interrupted
<1>3. CASE Leave(k)
  BY <1>1, <1>3 DEF Leave, NoCause, Idle
<1>4. ASSUME NEW pc \in PCs, Goes(k, pc) PROVE NoCause(k)
  BY <1>1, <1>4 DEF Goes, NoCause, Interrupted, RunState
<1>5. ASSUME NEW o \in {"error", "canceled"}, Fails(k, o), o = "canceled" => run[k].ctxDone PROVE NoCause(k)
  BY <1>1, <1>5 DEF Fails, NoCause, Interrupted, RunState
<1>6. CASE \/ Register(k) \/ ReserveReused(k) \/ ReserveWait(k) \/ ReserveOwn(k) \/ ReserveFails(k) \/ Release(k)
           \/ Complete(k) \/ CompleteFails(k) \/ FinishWrite(k) \/ ExecuteReturns(k)
  BY <1>4, <1>5, <1>6 DEF Register, ReserveReused, ReserveWait, ReserveOwn, ReserveFails, Release, Complete, CompleteFails,
     FinishWrite, ExecuteReturns, PCs
<1>7. CASE ReserveDropped(k) \/ ReportProgress(k)
  BY <1>2, <1>7 DEF ReserveDropped, ReportProgress, memVars
<1>8. CASE ReleaseFails(k) \/ FinishFails(k)
  BY <1>3, <1>8 DEF ReleaseFails, FinishFails, Leave
<1> QED
  BY Zenon, <1>6, <1>7, <1>8 DEF Execution, Reserve, HeartbeatFails

\* An execution records no cancellation of its own accord.
LEMMA ExecutionUncancelled ==
  ASSUME TypeInv, NoneCancelled, NEW k \in Claims, Execution(k), Excused(k)
  PROVE  \A i \in Items : item'[i].status # "cancelled"
<1>a. item \in [Items -> ItemRow] /\ run[k].item \in Items /\ MyItem(k) \in ItemRow /\ run[k].pc # "free"
  BY ExecutionRuns, MyPlaces DEF TypeInv, TypeOK, MyItem
<1>b. ASSUME NEW row, item' = [item EXCEPT ![run[k].item] = row], row.status # "cancelled"
      PROVE  \A i \in Items : item'[i].status # "cancelled"
  BY <1>a, <1>b DEF NoneCancelled
<1>1. CASE UNCHANGED item
  BY <1>1 DEF NoneCancelled
<1>2. ASSUME NEW s \in {"cached", "completed"}, NEW n,
             item' = [item EXCEPT ![run[k].item] = [Settle(MyItem(k), s) EXCEPT !.result = n]]
      PROVE  \A i \in Items : item'[i].status # "cancelled"
  <2> DEFINE row == [Settle(MyItem(k), s) EXCEPT !.result = n]
  <2>1. row.status = s
    BY <1>a, SettledStatus
  <2>2. item' = [item EXCEPT ![run[k].item] = row]
    BY <1>2
  <2> HIDE DEF row
  <2> QED
    BY <1>b, <2>1, <2>2
<1>3. CASE ReserveReused(k) \/ Complete(k)
  BY <1>1, <1>2, <1>3 DEF ReserveReused, Complete, MyItem
<1>4. CASE Release(k)
  <2> DEFINE row == [Settle(MyItem(k), "pending") EXCEPT !.live = TRUE]
  <2>1. row.status = "pending" /\ item' = [item EXCEPT ![run[k].item] = row]
    BY <1>4, <1>a, SettledStatus DEF MyItem, Release
  <2> HIDE DEF row
  <2> QED
    BY <1>b, <2>1
<1>5. ASSUME NEW b, item' = [item EXCEPT ![run[k].item].live = b]
      PROVE  \A i \in Items : item'[i].status # "cancelled"
  BY <1>a, <1>5 DEF NoneCancelled, ItemRow
<1>6. CASE Heartbeat(k) \/ ReportProgress(k)
  BY <1>5, <1>6 DEF Heartbeat, ReportProgress
<1>7. CASE FinishWrite(k)
  <2> DEFINE status == IF run[k].outcome = "shutdown" THEN "pending" ELSE run[k].outcome
  <2>1. CASE Holds(MyItem(k), k)
    <3> DEFINE row == Settle(MyItem(k), status)
    <3>1. item' = [item EXCEPT ![run[k].item] = row]
      BY <1>7, <2>1 DEF FinishWrite, MyItem
    <3>2. row.status = status
      BY <1>a, SettledStatus
    <3>3. status # "cancelled"
      BY <1>a, <2>1 DEF Excused
    <3> HIDE DEF row, status
    <3> QED
      BY <1>b, <3>1, <3>2, <3>3
  <2>2. CASE ~Holds(MyItem(k), k)
    BY <1>1, <1>7, <2>2, <1>a DEF FinishWrite, MyItem
  <2> QED
    BY <2>1, <2>2
<1> QED
  BY Zenon, <1>1, <1>3, <1>4, <1>6, <1>7 DEF Execution, Reserve, Register, ReserveDropped,
     ReserveWait, ReserveOwn, ReserveFails, ReleaseFails, ExecuteReturns, HeartbeatFails,
     CompleteFails, FinishRead, FinishFails, dbVars

\* Giving up a task cancels nothing and leases nothing.
LEMMA InvalidatedQuietly ==
  ASSUME TypeInv, NoneCancelled, NEW t \in Tasks, Invalidated(t)
  PROVE  /\ \A i \in Items : item'[i].status # "cancelled"
         /\ \A r \in Rows : ~task'[r].cancelRequested
         /\ \A l \in Claims : NoGrant(l)
<1>1. task \in [Rows -> TaskRow] /\ item \in [Items -> ItemRow]
  BY DEF TypeInv, TypeOK
<1>2. \A r \in Rows : ~task'[r].cancelRequested
  BY <1>1 DEF Invalidated, NoneCancelled, TaskRow
<1>3. \A i \in Items : item'[i] = item[i] \/ item'[i] = Settle(item[i], "failed")
  BY DEF Invalidated
<1>4. \A i \in Items : item'[i].status # "cancelled"
  BY <1>3, ItemStatus DEF NoneCancelled
<1>5. \A l \in Claims : NoGrant(l)
  <2> SUFFICES ASSUME NEW l \in Claims, NEW i \in Items, item'[i] = Settle(item[i], "failed")
               PROVE  ~Holds(item'[i], l)
    BY <1>3 DEF NoGrant
  <2>1. item[i] \in ItemRow
    BY <1>1
  <2>2. ~Holds(Settle(item[i], "failed"), l)
    BY <2>1, SettledHolds
  <2> QED
    BY <2>2
<1> QED
  BY <1>2, <1>4, <1>5

\* Without a user's demand no request is served.
LEMMA NobodyAsks ==
  ASSUME NoneCancelled, ~Strike("call"), NEW c \in Callers
  PROVE  ~Request(c)
<1>1. call[c].op = "idle"
  BY DEF NoneCancelled, NoCall
<1> QED
  BY <1>1 DEF Request, StartDecides, CreateLooks, CancelDecides, RetryDecides, Decide, CreateWrites, StartWrites,
     AdoptWrites, InvalidateWrites, CancelWrites, CancelSignals, RetryWrites, Serving

\* Other steps cancel nothing either.
LEMMA OthersUncancelled ==
  ASSUME TypeInv, NoneCancelled, [Next]_vars, ~Strike("call"), ~\E k \in Claims : Execution(k)
  PROVE  \A i \in Items : item'[i].status # "cancelled"
<1>1. CASE UNCHANGED item
  BY <1>1 DEF NoneCancelled
<1>2. ASSUME NEW k \in Claims, NEW i \in Items, Claim(k, i) PROVE \A j \in Items : item'[j].status # "cancelled"
  BY <1>2 DEF Claim, Leased, NoneCancelled, TypeInv, TypeOK, ItemRow
<1>3. ASSUME NEW i \in Items, ClaimInvalid(i) PROVE \A j \in Items : item'[j].status # "cancelled"
  BY <1>3, InvalidatedQuietly, StructureAssumption DEF ClaimInvalid
<1>4. CASE ResolveWrites
  BY <1>4, ItemStatus DEF ResolveWrites, NoneCancelled
<1>5. CASE Recover
  <2>1. Doomed = {}
    BY DEF Doomed, NoneCancelled, Rows
  <2>2. \A i \in Items : item'[i] = item[i] \/ item'[i] = Settle(item[i], "pending")
    BY <1>5, <2>1 DEF Recover, RecoveredItems
  <2> QED
    BY <2>2, ItemStatus DEF NoneCancelled
<1>6. ASSUME NEW t \in Tasks, RecoverInvalid(t) PROVE \A j \in Items : item'[j].status # "cancelled"
  BY <1>6, InvalidatedQuietly DEF RecoverInvalid
<1>7. ASSUME NEW i \in Items, ItemLeaseLapses(i) PROVE \A j \in Items : item'[j].status # "cancelled"
  BY <1>7, ItemStatus DEF ItemLeaseLapses, NoneCancelled, TypeInv, TypeOK
<1>8. CASE \/ ResolveLooks \/ UNCHANGED vars \/ Crash \/ Shutdown \/ ShutdownEnds \/ Exit
           \/ \E c \in Servers : RequestFails(c)
           \/ \E th \in Threads : Refresh(th) \/ RefreshFails(th)
           \/ \E c \in Keys : EntryLeaseLapses(c) \/ EntryRots(c)
           \/ \E t \in Tasks : TaskCorrupted(t)
           \/ Start \/ \E t \in Tasks : RecoverCancelled(t)
  <2>1. UNCHANGED item
    BY <1>8 DEF ResolveLooks, Begin, vars, dbVars, Crash, Shutdown, ShutdownEnds, Exit, RequestFails,
       Refresh, RefreshBegins, RefreshRead, RefreshWrite, RefreshFails, EntryLeaseLapses, EntryRots,
       TaskCorrupted, Start, RecoverCancelled
  <2> QED
    BY <1>1, <2>1
<1> QED
  BY <1>2, <1>3, <1>4, <1>5, <1>6, <1>7, <1>8, NobodyAsks DEF Next, Environment, Restart, Schedule

\* Nobody's cancellation: the flags of the tasks, and the callers.
LEMMA NobodyRequests ==
  ASSUME TypeInv, NoneCancelled, [Next]_vars, ~Strike("call")
  PROVE  /\ \A r \in Rows : ~task'[r].cancelRequested
         /\ \A c \in Callers : call'[c] = NoCall
<1>a. task \in [Rows -> TaskRow] /\ call \in [Servers -> GoodCall] /\ NoCall.op = "idle"
  BY DEF TypeInv, TypeOK, NoCall
<1>b. \A c \in Callers : c \in Servers /\ c # Scheduler /\ c \notin Claims
  BY IdentityAssumption DEF Servers
<1>c. UNCHANGED task => \A r \in Rows : ~task'[r].cancelRequested
  BY DEF NoneCancelled
<1>d. UNCHANGED call => \A c \in Callers : call'[c] = NoCall
  BY DEF NoneCancelled
<1>e. ASSUME NEW th \in Threads, Leave(th) PROVE \A c \in Callers : call'[c] = NoCall
  BY <1>a, <1>b, <1>e DEF Leave, NoneCancelled
<1>f. ASSUME NEW x, call' = [call EXCEPT ![Scheduler] = x] PROVE \A c \in Callers : call'[c] = NoCall
  BY <1>a, <1>b, <1>f DEF NoneCancelled
<1>1. ASSUME NEW k \in Claims, NEW i \in Items, Claim(k, i) PROVE \A r \in Rows : ~task'[r].cancelRequested
  BY <1>a, <1>1 DEF Claim, NoneCancelled, TaskRow
<1>2. ASSUME NEW i \in Items, ClaimInvalid(i) PROVE \A r \in Rows : ~task'[r].cancelRequested
  BY <1>2, InvalidatedQuietly, StructureAssumption DEF ClaimInvalid
<1>3. CASE Schedule
  <2>1. UNCHANGED call
    BY <1>3 DEF Schedule, Claim, ClaimInvalid, memVars
  <2> QED
    BY <1>1, <1>2, <1>3, <1>d, <2>1 DEF Schedule
<1>4. CASE ResolveLooks \/ ResolveWrites
  <2>1. \A c \in Callers : call'[c] = NoCall
    BY <1>4, <1>a, <1>f DEF ResolveLooks, ResolveWrites, Begin
  <2>2. \A r \in Rows : ~task'[r].cancelRequested
    <3>1. UNCHANGED task \/ \E t, s : task' = [task EXCEPT ![t].status = s]
      BY <1>4 DEF ResolveLooks, ResolveWrites, Begin, dbVars
    <3>2. ASSUME NEW t, NEW s, task' = [task EXCEPT ![t].status = s] PROVE \A r \in Rows : ~task'[r].cancelRequested
      BY <1>a, <3>2 DEF NoneCancelled, TaskRow
    <3> QED
      BY <1>c, <3>1, <3>2
  <2> QED
    BY <2>1, <2>2
<1>5. ASSUME NEW k \in Claims, Execution(k)
      PROVE  (\A r \in Rows : ~task'[r].cancelRequested) /\ \A c \in Callers : call'[c] = NoCall
  <2>1. UNCHANGED task
    BY Zenon, <1>5 DEF Execution, Reserve, Register, ReserveReused, ReserveDropped, ReserveWait, ReserveOwn,
       ReserveFails, Release, ReleaseFails, ExecuteReturns, ReportProgress, Heartbeat, HeartbeatFails,
       Complete, CompleteFails, FinishRead, FinishWrite, FinishFails, dbVars
  <2>2. UNCHANGED call \/ Leave(k)
    BY Zenon, <1>5 DEF Execution, Reserve, Register, ReserveReused, ReserveDropped, ReserveWait, ReserveOwn,
       ReserveFails, Release, ReleaseFails, ExecuteReturns, ReportProgress, Heartbeat, HeartbeatFails,
       Complete, CompleteFails, FinishRead, FinishWrite, FinishFails, memVars
  <2> QED
    BY <1>c, <1>d, <1>e, <2>1, <2>2 DEF Threads
<1>6. ASSUME NEW c \in Servers, RequestFails(c)
      PROVE  (\A r \in Rows : ~task'[r].cancelRequested) /\ \A b \in Callers : call'[b] = NoCall
  BY <1>6, <1>a, <1>b, <1>c DEF RequestFails, NoneCancelled, dbVars
<1>7. ASSUME NEW th \in Threads, Refresh(th) \/ RefreshFails(th)
      PROVE  (\A r \in Rows : ~task'[r].cancelRequested) /\ \A c \in Callers : call'[c] = NoCall
  <2>1. UNCHANGED task \/ task' = Written(snap[th])
    BY Zenon, <1>7 DEF Refresh, RefreshBegins, RefreshRead, RefreshWrite, RefreshFails, dbVars
  <2>2. ASSUME task' = Written(snap[th]) PROVE \A r \in Rows : ~task'[r].cancelRequested
    BY <1>a, <2>2 DEF Written, NoneCancelled, TaskRow
  <2>3. UNCHANGED call \/ Leave(th) \/ call' = [call EXCEPT ![Scheduler] = [call[Scheduler] EXCEPT !.op = "resolve"]]
    BY Zenon, <1>7 DEF Refresh, RefreshBegins, RefreshRead, RefreshWrite, RefreshFails, Unfinished
  <2> QED
    BY <1>c, <1>d, <1>e, <1>f, <2>1, <2>2, <2>3
<1>8. CASE Crash \/ Shutdown \/ ShutdownEnds \/ Exit
  BY <1>8, <1>b, <1>c, <1>d DEF Crash, Shutdown, ShutdownEnds, Exit, MemoryLost, dbVars
<1>9. CASE Restart
  <2>1. UNCHANGED call
    BY <1>9 DEF Restart, Recover, Start, RecoverCancelled, RecoverInvalid
  <2>2. CASE Recover
    <3>1. \A r \in Rows : task'[r] = task[r] \/ task'[r] = [task[r] EXCEPT !.status = "queued"]
      BY <2>2 DEF Recover, RequeuedTasks
    <3>2. \A r \in Rows : [task[r] EXCEPT !.status = "queued"].cancelRequested = task[r].cancelRequested
      BY <1>a DEF TaskRow
    <3>3. \A r \in Rows : ~task'[r].cancelRequested
      BY <3>1, <3>2 DEF NoneCancelled
    <3> QED
      BY <1>d, <2>1, <3>3
  <2>3. ASSUME NEW t \in Tasks, RecoverInvalid(t) PROVE \A r \in Rows : ~task'[r].cancelRequested
    BY <2>3, InvalidatedQuietly DEF RecoverInvalid
  <2>4. CASE Start \/ \E t \in Tasks : RecoverCancelled(t)
    BY <1>c, <1>d, <2>1, <2>4 DEF Start, RecoverCancelled, dbVars
  <2> QED
    BY <1>9, <1>d, <2>1, <2>2, <2>3, <2>4 DEF Restart
<1>10. CASE Environment \/ UNCHANGED vars
  <2>1. UNCHANGED <<task, call>>
    BY <1>10 DEF Environment, ItemLeaseLapses, EntryLeaseLapses, EntryRots, TaskCorrupted, memVars, vars, dbVars
  <2> QED
    BY <1>c, <1>d, <2>1
<1> QED
  BY <1>3, <1>4, <1>5, <1>6, <1>7, <1>8, <1>9, <1>10, NobodyAsks DEF Next

\* Other steps, by their effect on one execution.
LEMMA OthersExcuse ==
  ASSUME TypeInv, StillDown, NoneCancelled, [Next]_vars, ~Strike("call"), ~Strike("fault"),
         ~\E k \in Claims : Execution(k), NEW l \in Claims, Excused(l)
  PROVE  Excused(l)'
<1>a. /\ run \in [Claims -> RunState] /\ item \in [Items -> ItemRow]
      /\ Idle.pc = "free" /\ Idle.outcome = "none" /\ ~Idle.ctxDone
  BY DEF TypeInv, TypeOK, Idle
<1>b. UNCHANGED run => NoCause(l)
  BY DEF NoCause, Interrupted
<1>c. UNCHANGED item => NoGrant(l)
  BY DEF NoGrant
<1>d. run'[l].pc = "free" => Excused(l)'
  BY DEF Excused
<1>1. ASSUME NEW k \in Claims, NEW i \in Items, Claim(k, i) PROVE Excused(l)'
  <2>1. run' = [run EXCEPT ![k] = [Idle EXCEPT !.pc = "claimed", !.item = i]] /\ proc' = proc
    BY <1>1 DEF Claim
  <2>2. CASE k = l
    BY <1>a, <2>1, <2>2 DEF Excused, Interrupted, Idle
  <2>3. CASE k # l
    <3>1. NoCause(l)
      BY <1>a, <2>1, <2>3 DEF NoCause, Interrupted
    <3>2. item' = [item EXCEPT ![i] = Leased(item[i], k)] /\ ~Holds(Leased(item[i], k), l)
      BY <1>1, <1>a, <2>3, SettledHolds DEF Claim
    <3>3. NoGrant(l)
      BY <1>a, <3>2 DEF NoGrant
    <3> QED
      BY <2>1, <3>1, <3>3, StaysExcused
  <2> QED
    BY <2>2, <2>3
<1>2. ASSUME NEW i \in Items, ClaimInvalid(i) PROVE Excused(l)'
  <2>1. NoGrant(l)
    BY <1>2, InvalidatedQuietly, StructureAssumption DEF ClaimInvalid
  <2> QED
    BY <1>2, <1>b, <2>1, StaysExcused DEF ClaimInvalid, memVars
<1>3. ASSUME NEW th \in Threads, Refresh(th) \/ RefreshFails(th) PROVE Excused(l)'
  <2>1. UNCHANGED item
    BY <1>3 DEF Refresh, RefreshBegins, RefreshRead, RefreshWrite, RefreshFails, dbVars
  <2>2. UNCHANGED run \/ Leave(th) \/ (th \in Claims /\ run[th].pc = "stored" /\ Fails(th, "error"))
    BY Zenon, <1>3 DEF Refresh, RefreshBegins, RefreshRead, RefreshWrite, RefreshFails
  <2>3. Leave(th) => NoCause(l)
    BY <1>a DEF Leave, NoCause, Interrupted
  <2>4. th \in Claims /\ Fails(th, "error") /\ run[th].pc = "stored" => NoCause(l)
    BY <1>a DEF Fails, NoCause, Interrupted, RunState
  <2>5. CASE proc' = proc
    BY <1>b, <1>c, <2>1, <2>2, <2>3, <2>4, <2>5, StaysExcused
  <2>6. CASE proc = "starting"
    BY <1>a, <1>d, <2>2, <2>3, <2>4, <2>6, <1>b DEF StillDown, NoCause
  <2> QED
    BY <1>3, <2>5, <2>6 DEF Refresh, RefreshBegins, RefreshRead, RefreshWrite, RefreshFails
<1>4. CASE (\E c \in Servers : RequestFails(c)) \/ ResolveLooks
  BY <1>4, <1>b, <1>c, StaysExcused DEF RequestFails, ResolveLooks, Begin, dbVars
<1>5. CASE ResolveWrites
  <2>1. \A i \in Items : item'[i] = item[i] \/ item'[i] = [item[i] EXCEPT !.status = "failed"]
    BY <1>5 DEF ResolveWrites
  <2>2. \A i \in Items : ~Holds([item[i] EXCEPT !.status = "failed"], l)
    BY <1>a DEF Holds, ItemRow
  <2>3. NoGrant(l)
    BY <2>1, <2>2 DEF NoGrant
  <2> QED
    BY <1>5, <1>b, <2>3, StaysExcused DEF ResolveWrites
<1>6. CASE Crash \/ Exit
  BY <1>6, <1>a, <1>d DEF Crash, Exit, MemoryLost
<1>7. CASE Shutdown
  <2>1. run'[l] = IF run[l] = Idle THEN Idle ELSE [run[l] EXCEPT !.ctxDone = TRUE]
    BY <1>7 DEF Shutdown
  <2>2. run'[l].pc = run[l].pc /\ run'[l].outcome = run[l].outcome /\ run'[l].item = run[l].item
    BY <1>a, <2>1 DEF RunState
  <2>3. Holds(MyItem(l), l)' <=> Holds(MyItem(l), l)
    BY <1>7, <2>2 DEF Shutdown, MyItem, Holds, dbVars
  <2> QED
    BY <1>7, <2>2, <2>3 DEF Shutdown, Excused
<1>8. CASE ShutdownEnds
  BY <1>8, <1>a, <1>d DEF ShutdownEnds
<1>9. CASE Restart
  <2>1. UNCHANGED run /\ run[l] = Idle
    BY <1>9 DEF Restart, Recover, Start, Recovering, RecoverCancelled, RecoverInvalid, StillDown
  <2> QED
    BY <1>a, <1>d, <2>1
<1>10. CASE Environment
  <2>1. UNCHANGED <<run, proc>>
    BY <1>10 DEF Environment, ItemLeaseLapses, EntryLeaseLapses, EntryRots, TaskCorrupted, memVars
  <2>2. UNCHANGED item \/ \E i \in Items : item' = [item EXCEPT ![i].live = FALSE]
    BY <1>10 DEF Environment, ItemLeaseLapses, EntryLeaseLapses, EntryRots, TaskCorrupted
  <2>3. ASSUME NEW i \in Items, item' = [item EXCEPT ![i].live = FALSE] PROVE NoGrant(l)
    BY <1>a, <2>3 DEF NoGrant, Holds, ItemRow
  <2> QED
    BY <1>b, <1>c, <2>1, <2>2, <2>3, StaysExcused
<1>11. CASE UNCHANGED vars
  BY <1>11, <1>b, <1>c, StaysExcused DEF vars, memVars, dbVars
<1> QED
  BY <1>1, <1>2, <1>3, <1>4, <1>5, <1>6, <1>7, <1>8, <1>9, <1>10, <1>11, NobodyAsks DEF Next, Schedule

\* Executions stay excused through every undemanded step.
LEMMA CancelFreeStep ==
  TypeInv /\ StillDown /\ FlightsGuarded /\ CancelFree /\ [Next]_vars => CancelFree'
<1> SUFFICES ASSUME TypeInv, StillDown, FlightsGuarded, CancelFree, [Next]_vars, Undemanded'
             PROVE  NoneCancelled' /\ \A k \in Claims : Excused(k)'
  BY DEF CancelFree
<1>1. Undemanded /\ ~Strike("call") /\ ~Strike("fault")
  BY NotStruck
<1>2. NoneCancelled /\ \A k \in Claims : Excused(k)
  BY <1>1 DEF CancelFree
<1>3. \A i \in Items : item'[i].status # "cancelled"
  BY <1>1, <1>2, ExecutionUncancelled, OthersUncancelled
<1>4. NoneCancelled'
  BY <1>1, <1>2, <1>3, NobodyRequests DEF NoneCancelled
<1>5. ASSUME NEW k \in Claims, Execution(k), NEW l \in Claims PROVE Excused(l)'
  <2>1. proc' = proc
    BY Zenon, <1>5 DEF Execution, Reserve, Register, ReserveReused, ReserveDropped, ReserveWait, ReserveOwn,
       ReserveFails, Release, ReleaseFails, ExecuteReturns, ReportProgress, Heartbeat, HeartbeatFails,
       Complete, CompleteFails, FinishRead, FinishWrite, FinishFails, memVars
  <2>2. NoGrant(l)
    BY <1>5, ExecutionGrants
  <2>3. CASE k = l /\ (Heartbeat(k) \/ FinishRead(k))
    BY <1>1, <1>2, <2>3, HeartbeatExcused, FinishReadExcused
  <2>4. CASE k = l /\ ~Heartbeat(k) /\ ~FinishRead(k)
    BY <1>1, <1>2, <1>5, <2>1, <2>2, <2>4, ExecutionCauses, StaysExcused
  <2>5. CASE k # l
    <3>1. run'[l] = run[l]
      BY <1>5, <2>5, ExecutionRun
    <3>2. NoCause(l)
      BY <3>1 DEF NoCause, Interrupted
    <3> QED
      BY <1>2, <2>1, <2>2, <3>2, StaysExcused
  <2> QED
    BY <2>3, <2>4, <2>5
<1> QED
  BY <1>1, <1>2, <1>4, <1>5, OthersExcuse

\* Without a request, a stalled worker or a failed statement no item is
\* recorded as cancelled: a shutdown leaves its items to be resumed
\* (finishWithError), and so do a crash and the recovery after it.
THEOREM CancelledOnlyOnRequest == Spec => []CancelledOnRequest
<1>1. Init => StillDown /\ FlightsGuarded /\ CancelFree
  BY DEF Init, StillDown, FlightsGuarded, Flying, CancelFree, NoneCancelled, Excused, Idle, Servers
<1>2. IInv /\ StillDown /\ FlightsGuarded /\ CancelFree /\ [Next]_vars
        => StillDown' /\ FlightsGuarded' /\ CancelFree'
  BY StillDownStep, FlightsGuardedStep, CancelFreeStep DEF IInv
<1>3. CancelFree => CancelledOnRequest
  BY DEF CancelFree, NoneCancelled, Undemanded, CancelledOnRequest
<1> QED
  BY <1>1, <1>2, <1>3, Inductive, PTL DEF Spec

-----------------------------------------------------------------------------
(* The service implements the ledger of results: its initial state maps to  *)
(* that of ResultLedger and every step maps to a step of it or changes      *)
(* nothing of it.                                                           *)

\* An item without a valid result has none.
ResultFree == \A i \in Items : IsValid(i) \/ item[i].result = 0

Offered(entry) == entry.status = "completed" /\ entry.good

\* What a step may leave alone.
EntriesSame ==
  \A c \in Keys : cache'[c].version = cache[c].version /\ (Offered(cache'[c]) <=> Offered(cache[c]))
ResultsSame == \A i \in Items : item'[i].result = item[i].result
QuotesShrink == \A i \in Items, c \in Callers : call'[c].hits[i] \in {0, call[c].hits[i]}
RotSame == struck'["rot"] = struck["rot"]

\* The ledger's entries are unchanged together.
LEMMA EntriesMapped ==
  EntriesSame =>
    /\ [c \in Keys |-> cache'[c].version] = [c \in Keys |-> cache[c].version]
    /\ [c \in Keys |-> cache'[c].status = "completed" /\ cache'[c].good]
         = [c \in Keys |-> cache[c].status = "completed" /\ cache[c].good]
BY DEF EntriesSame, Offered

\* Quotes that were dropped are gone from the ledger, none is added.
LEMMA QuotesMapped ==
  ASSUME QuotesShrink, NEW i \in Items
  PROVE  {call'[c].hits[i] : c \in Callers} \ {0} \subseteq {call[c].hits[i] : c \in Callers} \ {0}
BY DEF QuotesShrink

\* Dropping quotes, or nothing at all, is a Quote of the ledger.
LEMMA QuietRefines ==
  ASSUME EntriesSame, ResultsSame, QuotesShrink, RotSame
  PROVE  Ledger!Quote
<1>1. [i \in Items |-> item'[i].result] = [i \in Items |-> item[i].result]
  BY DEF ResultsSame
<1> QED
  BY <1>1, EntriesMapped, QuotesMapped DEF Ledger!Quote, RotSame

\* What becomes of a cache entry.
LEMMA EntryChanges ==
  ASSUME NEW row \in CacheRow
  PROVE  /\ NoEntry(row).version = row.version /\ ~Offered(NoEntry(row))
         /\ Settle(row, "running").version = row.version /\ ~Offered(Settle(row, "running"))
         /\ \A k, i : /\ [Leased(row, k) EXCEPT !.source = i].version = row.version
                      /\ ~Offered([Leased(row, k) EXCEPT !.source = i])
         /\ \A b : /\ [row EXCEPT !.live = b].version = row.version
                   /\ Offered([row EXCEPT !.live = b]) <=> Offered(row)
BY DEF NoEntry, Settle, Leased, Offered, CacheRow

\* Only a completion commits a result, and only rot spoils one.
LEMMA EntriesStep ==
  ASSUME TypeInv, [Next]_vars, ~\E k \in Claims : Complete(k), ~\E c \in Keys : EntryRots(c)
  PROVE  EntriesSame
<1>a. cache \in [Keys -> CacheRow]
  BY DEF TypeInv, TypeOK
<1>b. UNCHANGED cache => EntriesSame
  BY DEF EntriesSame
<1>c. ASSUME NEW key \in Keys, NEW row, cache' = [cache EXCEPT ![key] = row],
             row.version = cache[key].version, Offered(row) <=> Offered(cache[key])
      PROVE  EntriesSame
  BY <1>a, <1>c DEF EntriesSame
<1>d. ASSUME NEW key \in Keys, NEW b, cache' = [cache EXCEPT ![key].live = b] PROVE EntriesSame
  <2> DEFINE row == [cache[key] EXCEPT !.live = b]
  <2>1. row.version = cache[key].version /\ (Offered(row) <=> Offered(cache[key])) /\ cache' = [cache EXCEPT ![key] = row]
    BY <1>a, <1>d, EntryChanges
  <2> HIDE DEF row
  <2> QED
    BY <1>c, <2>1
<1>1. ASSUME NEW k \in Claims, Execution(k) PROVE EntriesSame
  <2>a. MyKey(k) \in Keys /\ MyEntry(k) \in CacheRow
    BY <1>1, <1>a, ExecutionRuns, MyPlaces DEF MyEntry
  <2>1. CASE ReserveDropped(k)
    <3> DEFINE row == NoEntry(MyEntry(k))
    <3>1. row.version = MyEntry(k).version /\ ~Offered(row) /\ ~Offered(MyEntry(k)) /\ cache' = [cache EXCEPT ![MyKey(k)] = row]
      BY <2>1, <2>a, EntryChanges DEF ReserveDropped, MyEntry, Offered
    <3> HIDE DEF row
    <3> QED
      BY <1>c, <2>a, <3>1 DEF MyEntry
  <2>2. CASE ReserveOwn(k)
    <3> DEFINE row == [Leased(MyEntry(k), k) EXCEPT !.source = run[k].item]
    <3>1. row.version = MyEntry(k).version /\ ~Offered(row)
      BY <2>a, EntryChanges
    <3>2. ~Offered(MyEntry(k)) /\ cache' = [cache EXCEPT ![MyKey(k)] = row]
      BY <2>2 DEF ReserveOwn, MyEntry, Offered
    <3> HIDE DEF row
    <3> QED
      BY <1>c, <2>a, <3>1, <3>2 DEF MyEntry
  <2>3. CASE Heartbeat(k) \/ ReportProgress(k)
    BY <1>d, <2>a, <2>3 DEF Heartbeat, ReportProgress
  <2>4. CASE FinishWrite(k)
    <3>1. CASE Holds(MyEntry(k), k)
      <4> DEFINE row == IF run[k].outcome = "shutdown" THEN Settle(MyEntry(k), "running") ELSE NoEntry(MyEntry(k))
      <4>1. row.version = MyEntry(k).version /\ ~Offered(row)
        BY <2>a, EntryChanges
      <4>2. ~Offered(MyEntry(k)) /\ cache' = [cache EXCEPT ![MyKey(k)] = row]
        BY <2>4, <3>1 DEF FinishWrite, Holds, MyEntry, Offered
      <4> HIDE DEF row
      <4> QED
        BY <1>c, <2>a, <4>1, <4>2 DEF MyEntry
    <3>2. CASE ~Holds(MyEntry(k), k)
      <4>1. cache' = [cache EXCEPT ![MyKey(k)] = MyEntry(k)]
        BY <2>4, <3>2 DEF FinishWrite, MyEntry
      <4> QED
        BY <1>c, <2>a, <4>1 DEF MyEntry
    <3> QED
      BY <3>1, <3>2
  <2>5. CASE UNCHANGED cache
    BY <1>b, <2>5
  <2> QED
    BY Zenon, <1>1, <2>1, <2>2, <2>3, <2>4, <2>5 DEF Execution, Reserve, Register, ReserveReused, ReserveWait,
       ReserveFails, Release, ReleaseFails, ExecuteReturns, HeartbeatFails, CompleteFails, FinishRead,
       FinishFails, dbVars
<1>2. ASSUME NEW c \in Callers, Request(c) PROVE EntriesSame
  <2>1. CASE \/ \E t \in Tasks : StartDecides(c, t)
             \/ \E r \in Rows : CreateLooks(c, r) \/ CancelDecides(c, r) \/ RetryDecides(c, r)
    <3>1. UNCHANGED cache
      BY Zenon, <2>1 DEF StartDecides, CreateLooks, CancelDecides, RetryDecides, Decide, Begin, dbVars
    <3> QED
      BY <1>b, <3>1
  <2>2. CASE \/ CreateWrites(c) \/ StartWrites(c) \/ AdoptWrites(c) \/ InvalidateWrites(c) \/ CancelWrites(c)
             \/ RetryWrites(c) \/ CancelSignals(c)
    BY <1>b, <2>2 DEF CreateWrites, StartWrites, AdoptWrites, InvalidateWrites, CancelWrites, RetryWrites, CancelSignals, dbVars
  <2> QED
    BY Zenon, <1>2, <2>1, <2>2 DEF Request
<1>3. CASE \/ Schedule \/ ResolveLooks \/ ResolveWrites \/ Crash \/ Shutdown \/ ShutdownEnds \/ Exit \/ UNCHANGED vars
           \/ \E c \in Servers : RequestFails(c)
           \/ \E th \in Threads : Refresh(th) \/ RefreshFails(th)
  <2>1. UNCHANGED cache
    BY <1>3 DEF Schedule, Claim, ClaimInvalid, ResolveLooks, ResolveWrites, Begin, Crash, Shutdown, ShutdownEnds, Exit,
       RequestFails, Refresh, RefreshBegins, RefreshRead, RefreshWrite, RefreshFails, vars, dbVars
  <2> QED
    BY <1>b, <2>1
<1>4. CASE Restart
  <2>1. CASE Recover
    <3>1. \A c \in Keys : \/ cache'[c] = cache[c]
                          \/ /\ cache[c].status = "running"
                             /\ cache'[c] = NoEntry(cache[c]) \/ cache'[c] = Settle(cache[c], "running")
      BY <2>1 DEF Recover, RecoveredCache
    <3> QED
      BY <1>a, <3>1, EntryChanges DEF EntriesSame, Offered
  <2>2. CASE Start \/ \E t \in Tasks : RecoverCancelled(t) \/ RecoverInvalid(t)
    BY <1>b, <2>2 DEF Start, RecoverCancelled, RecoverInvalid, dbVars
  <2> QED
    BY <1>4, <2>1, <2>2 DEF Restart
<1>5. CASE Environment
  <2>1. ASSUME NEW c \in Keys, EntryLeaseLapses(c) PROVE EntriesSame
    BY <1>d, <2>1 DEF EntryLeaseLapses
  <2>2. CASE (\E i \in Items : ItemLeaseLapses(i)) \/ \E t \in Tasks : TaskCorrupted(t)
    BY <1>b, <2>2 DEF ItemLeaseLapses, TaskCorrupted
  <2> QED
    BY <1>5, <2>1, <2>2 DEF Environment
<1> QED
  BY <1>1, <1>2, <1>3, <1>4, <1>5 DEF Next

\* What becomes of an item's result.
LEMMA ItemChanges ==
  ASSUME NEW row \in ItemRow
  PROVE  /\ \A s : Settle(row, s).result = row.result
         /\ \A s : [row EXCEPT !.status = s].result = row.result
         /\ \A b : [row EXCEPT !.live = b].result = row.result
         /\ \A s, b : [Settle(row, s) EXCEPT !.live = b].result = row.result
         /\ \A k : Leased(row, k).result = row.result
         /\ \A s, n : [Settle(row, s) EXCEPT !.result = n].result = n
BY DEF Settle, Leased, ItemRow

LEMMA InvalidatedResults ==
  ASSUME TypeInv, NEW t \in Tasks, Invalidated(t)
  PROVE  ResultsSame
<1>1. \A i \in Items : item'[i] = item[i] \/ item'[i] = Settle(item[i], "failed")
  BY DEF Invalidated
<1>2. \A i \in Items : Settle(item[i], "failed").result = item[i].result
  BY ItemChanges DEF TypeInv, TypeOK
<1> QED
  BY <1>1, <1>2 DEF ResultsSame

\* Items receive results by a completion, a reuse or at their creation.
LEMMA ResultsStep ==
  ASSUME TypeInv, [Next]_vars, ~\E k \in Claims : Complete(k) \/ ReserveReused(k),
         ~\E c \in Callers : CreateWrites(c)
  PROVE  ResultsSame
<1>a. item \in [Items -> ItemRow]
  BY DEF TypeInv, TypeOK
<1>b. UNCHANGED item => ResultsSame
  BY DEF ResultsSame
<1>c. ASSUME NEW i \in Items, NEW row, item' = [item EXCEPT ![i] = row], row.result = item[i].result
      PROVE  ResultsSame
  BY <1>a, <1>c DEF ResultsSame
<1>d. ASSUME NEW i \in Items, NEW b, item' = [item EXCEPT ![i].live = b] PROVE ResultsSame
  BY <1>a, <1>d DEF ResultsSame, ItemRow
<1>e. \A i \in Items : \A s : Settle(item[i], s).result = item[i].result
  BY <1>a, ItemChanges
<1>1. ASSUME NEW k \in Claims, Execution(k) PROVE ResultsSame
  <2>a. run[k].item \in Items /\ MyItem(k) \in ItemRow
    BY <1>1, <1>a, ExecutionRuns, MyPlaces DEF MyItem
  <2>1. CASE Release(k)
    <3> DEFINE row == [Settle(MyItem(k), "pending") EXCEPT !.live = TRUE]
    <3>1. row.result = MyItem(k).result /\ item' = [item EXCEPT ![run[k].item] = row]
      BY <2>1, <2>a, ItemChanges DEF Release, MyItem
    <3> HIDE DEF row
    <3> QED
      BY <1>c, <2>a, <3>1 DEF MyItem
  <2>2. CASE Heartbeat(k) \/ ReportProgress(k)
    BY <1>d, <2>a, <2>2 DEF Heartbeat, ReportProgress
  <2>3. CASE FinishWrite(k)
    <3> DEFINE status == IF run[k].outcome = "shutdown" THEN "pending" ELSE run[k].outcome
               row == IF Holds(MyItem(k), k) THEN Settle(MyItem(k), status) ELSE MyItem(k)
    <3>1. item' = [item EXCEPT ![run[k].item] = row]
      BY <1>a, <2>3 DEF FinishWrite, MyItem
    <3> HIDE DEF status
    <3>2. row.result = MyItem(k).result
      BY <2>a, ItemChanges
    <3> HIDE DEF row
    <3> QED
      BY <1>c, <2>a, <3>1, <3>2 DEF MyItem
  <2>4. CASE UNCHANGED item
    BY <1>b, <2>4
  <2> QED
    BY Zenon, <1>1, <2>1, <2>2, <2>3, <2>4 DEF Execution, Reserve, Register, ReserveDropped, ReserveWait, ReserveOwn,
       ReserveFails, ReleaseFails, ExecuteReturns, HeartbeatFails, CompleteFails, FinishRead,
       FinishFails, dbVars
<1>2. ASSUME NEW c \in Callers, Request(c) PROVE ResultsSame
  <2>1. CASE \/ \E t \in Tasks : StartDecides(c, t)
             \/ \E r \in Rows : CreateLooks(c, r) \/ CancelDecides(c, r) \/ RetryDecides(c, r)
    <3>1. UNCHANGED item
      BY Zenon, <2>1 DEF StartDecides, CreateLooks, CancelDecides, RetryDecides, Decide, Begin, dbVars
    <3> QED
      BY <1>b, <3>1
  <2>2. CASE StartWrites(c) \/ AdoptWrites(c) \/ CancelSignals(c)
    BY <1>b, <2>2 DEF StartWrites, AdoptWrites, CancelSignals, dbVars
  <2>3. CASE CancelWrites(c) \/ RetryWrites(c)
    <3>1. \A i \in Items : item'[i] = item[i] \/ \E s \in {"cancelled", "pending"} : item'[i] = Settle(item[i], s)
      BY <2>3 DEF CancelWrites, RetryWrites
    <3> QED
      BY <1>e, <3>1 DEF ResultsSame
  <2>4. CASE InvalidateWrites(c)
    <3>1. call[c] \in CallState
      BY DEF TypeInv, TypeOK, Servers
    <3>2. call[c].targets \in SUBSET Tasks
      BY <3>1 DEF CallState
    <3> QED
      BY <2>4, <3>2, InvalidatedResults DEF InvalidateWrites
  <2> QED
    BY Zenon, <1>2, <2>1, <2>2, <2>3, <2>4 DEF Request
<1>3. CASE Schedule
  <2>1. ASSUME NEW k \in Claims, NEW i \in Items, Claim(k, i) PROVE ResultsSame
    <3> DEFINE row == Leased(item[i], k)
    <3>1. row.result = item[i].result /\ item' = [item EXCEPT ![i] = row]
      BY <1>a, <2>1, ItemChanges DEF Claim
    <3> HIDE DEF row
    <3> QED
      BY <1>c, <3>1
  <2>2. ASSUME NEW i \in Items, ClaimInvalid(i) PROVE ResultsSame
    BY <2>2, InvalidatedResults, StructureAssumption DEF ClaimInvalid
  <2> QED
    BY <1>3, <2>1, <2>2 DEF Schedule
<1>4. CASE ResolveWrites
  <2>1. \A i \in Items : item'[i] = item[i] \/ item'[i] = [item[i] EXCEPT !.status = "failed"]
    BY <1>4 DEF ResolveWrites
  <2>2. \A i \in Items : [item[i] EXCEPT !.status = "failed"].result = item[i].result
    BY <1>a, ItemChanges
  <2> QED
    BY <2>1, <2>2 DEF ResultsSame
<1>5. CASE Restart
  <2>1. CASE Recover
    <3>1. \A i \in Items : item'[i] = item[i] \/ \E s \in {"cancelled", "pending"} : item'[i] = Settle(item[i], s)
      BY <2>1 DEF Recover, RecoveredItems
    <3> QED
      BY <1>e, <3>1 DEF ResultsSame
  <2>2. ASSUME NEW t \in Tasks, RecoverInvalid(t) PROVE ResultsSame
    BY <2>2, InvalidatedResults DEF RecoverInvalid
  <2>3. CASE Start \/ \E t \in Tasks : RecoverCancelled(t)
    BY <1>b, <2>3 DEF Start, RecoverCancelled, dbVars
  <2> QED
    BY <1>5, <2>1, <2>2, <2>3 DEF Restart
<1>6. CASE Environment
  BY <1>b, <1>d, <1>6 DEF Environment, ItemLeaseLapses, EntryLeaseLapses, EntryRots, TaskCorrupted
<1>7. CASE \/ ResolveLooks \/ Crash \/ Shutdown \/ ShutdownEnds \/ Exit \/ UNCHANGED vars
           \/ \E c \in Servers : RequestFails(c)
           \/ \E th \in Threads : Refresh(th) \/ RefreshFails(th)
  <2>1. UNCHANGED item
    BY <1>7 DEF ResolveLooks, Begin, Crash, Shutdown, ShutdownEnds, Exit,
       RequestFails, Refresh, RefreshBegins, RefreshRead, RefreshWrite, RefreshFails, vars, dbVars
  <2> QED
    BY <1>b, <2>1
<1> QED
  BY <1>1, <1>2, <1>3, <1>4, <1>5, <1>6, <1>7 DEF Next

\* Only rot counts as rot.
LEMMA RotStep ==
  ASSUME TypeInv, [Next]_vars, ~\E c \in Keys : EntryRots(c)
  PROVE  RotSame
<1>1. CASE UNCHANGED struck
  BY <1>1 DEF RotSame
<1>2. ASSUME NEW h \in Hazards \ {"rot"}, Strike(h) PROVE RotSame
  BY <1>2 DEF Strike, RotSame, Hazards, TypeInv, TypeOK
<1>3. \A h \in {"crash", "stall", "fault", "corrupt", "call"} : h \in Hazards \ {"rot"}
  BY DEF Hazards
<1>4. ASSUME NEW k \in Claims, Execution(k) PROVE UNCHANGED struck \/ Strike("fault")
  BY Zenon, <1>4 DEF Execution, Reserve, Register, ReserveReused, ReserveDropped, ReserveWait, ReserveOwn,
     ReserveFails, Release, ReleaseFails, ExecuteReturns, ReportProgress, Heartbeat, HeartbeatFails,
     Complete, CompleteFails, FinishRead, FinishWrite, FinishFails
<1>5. ASSUME NEW c \in Callers, Request(c) PROVE UNCHANGED struck \/ Strike("call")
  BY Zenon, <1>5 DEF Request, StartDecides, CreateLooks, CancelDecides, RetryDecides, Decide, CreateWrites,
     StartWrites, AdoptWrites, InvalidateWrites, CancelWrites, CancelSignals, RetryWrites
<1>6. CASE \/ Schedule \/ ResolveLooks \/ ResolveWrites \/ \E c \in Servers : RequestFails(c)
           \/ \E th \in Threads : Refresh(th) \/ RefreshFails(th)
  <2>1. UNCHANGED struck \/ Strike("fault")
    BY Zenon, <1>6 DEF Schedule, Claim, ClaimInvalid, ResolveLooks, ResolveWrites, RequestFails, Refresh,
       RefreshBegins, RefreshRead, RefreshWrite, RefreshFails
  <2> QED
    BY <1>1, <1>2, <1>3, <2>1
<1>7. CASE Crash \/ Shutdown \/ ShutdownEnds \/ Exit \/ Restart
  <2>1. UNCHANGED struck \/ Strike("fault") \/ Strike("crash")
    BY Zenon, <1>7 DEF Crash, Shutdown, ShutdownEnds, Exit, Restart, Recover, Start, RecoverCancelled,
       RecoverInvalid
  <2> QED
    BY <1>1, <1>2, <1>3, <2>1
<1>8. CASE Environment
  <2>1. UNCHANGED struck \/ Strike("stall") \/ Strike("corrupt")
    BY Zenon, <1>8 DEF Environment, ItemLeaseLapses, EntryLeaseLapses, EntryRots, TaskCorrupted, Lapses
  <2> QED
    BY <1>1, <1>2, <1>3, <2>1
<1>9. CASE UNCHANGED vars
  BY <1>1, <1>9 DEF vars
<1> QED
  BY <1>1, <1>2, <1>3, <1>4, <1>5, <1>6, <1>7, <1>8, <1>9 DEF Next

\* Requests without hits; only a creation looks for some.
LEMMA CallHits ==
  /\ \A i \in Items : NoCall.hits[i] = 0
  /\ \A op, r, T : [NoCall EXCEPT !.op = op, !.row = r, !.targets = T].hits = NoCall.hits
  /\ \A op : [NoCall EXCEPT !.op = op].hits = NoCall.hits
  /\ \A op, T : [NoCall EXCEPT !.op = op, !.targets = T].hits = NoCall.hits
  /\ \A op, r, h : [NoCall EXCEPT !.op = op, !.row = r, !.hits = h].hits = h
BY DEF NoCall, NoHits

\* Quotes are obtained only by a creation that looks for them.
LEMMA QuotesStep ==
  ASSUME TypeInv, [Next]_vars, ~\E c \in Callers, r \in Rows : CreateLooks(c, r)
  PROVE  QuotesShrink
<1>a. /\ call \in [Servers -> CallState] /\ Callers \subseteq Servers
      /\ \A c \in Callers : c # Scheduler /\ c \notin Claims
  BY IdentityAssumption DEF TypeInv, TypeOK, Servers
<1>b. UNCHANGED call => QuotesShrink
  BY DEF QuotesShrink
<1>c. ASSUME NEW c \in Servers, NEW request, call' = [call EXCEPT ![c] = request],
             request.hits = NoCall.hits \/ request.hits = call[c].hits \/ c = Scheduler
      PROVE  QuotesShrink
  BY <1>a, <1>c, CallHits DEF QuotesShrink
<1>d. ASSUME NEW c \in Servers, NEW rows, ThenRefresh(c, rows) PROVE QuotesShrink
  <2> DEFINE request == IF rows = {} THEN NoCall ELSE [NoCall EXCEPT !.op = "refreshing"]
  <2>1. request.hits = NoCall.hits /\ call' = [call EXCEPT ![c] = request]
    BY <1>d, CallHits DEF ThenRefresh
  <2> HIDE DEF request
  <2> QED
    BY <1>c, <2>1
<1>e. ASSUME NEW c \in Servers, NEW op, NEW r, NEW T, Decide(c, op, r, T) PROVE QuotesShrink
  <2> DEFINE request == [NoCall EXCEPT !.op = op, !.row = r, !.targets = T]
  <2>1. request.hits = NoCall.hits /\ call' = [call EXCEPT ![c] = request]
    BY <1>e, CallHits DEF Decide, Begin
  <2> HIDE DEF request
  <2> QED
    BY <1>c, <2>1
<1>f. ASSUME NEW th \in Threads, Leave(th) PROVE QuotesShrink
  BY <1>b, <1>c, <1>f DEF Leave
<1>1. ASSUME NEW k \in Claims, Execution(k) PROVE QuotesShrink
  <2>1. UNCHANGED call \/ Leave(k)
    BY Zenon, <1>1 DEF Execution, Reserve, Register, ReserveReused, ReserveDropped, ReserveWait, ReserveOwn,
       ReserveFails, Release, ReleaseFails, ExecuteReturns, ReportProgress, Heartbeat, HeartbeatFails,
       Complete, CompleteFails, FinishRead, FinishWrite, FinishFails, memVars
  <2> QED
    BY <1>b, <1>f, <2>1 DEF Threads
<1>2. ASSUME NEW c \in Callers, Request(c) PROVE QuotesShrink
  <2>1. CASE \/ \E t \in Tasks : StartDecides(c, t)
             \/ \E r \in Rows : CancelDecides(c, r) \/ RetryDecides(c, r)
    BY <1>a, <1>e, <2>1 DEF StartDecides, CancelDecides, RetryDecides
  <2>2. CASE CreateWrites(c) \/ StartWrites(c) \/ AdoptWrites(c) \/ InvalidateWrites(c) \/ RetryWrites(c) \/ CancelSignals(c)
    BY <1>a, <1>d, <2>2 DEF CreateWrites, StartWrites, AdoptWrites, InvalidateWrites, RetryWrites, CancelSignals
  <2>3. CASE CancelWrites(c)
    <3> DEFINE request == [call[c] EXCEPT !.op = "signal"]
    <3>1. request.hits = call[c].hits /\ call' = [call EXCEPT ![c] = request]
      BY <1>a, <2>3 DEF CancelWrites, CallState
    <3> HIDE DEF request
    <3> QED
      BY <1>a, <1>c, <3>1
  <2> QED
    BY Zenon, <1>2, <2>1, <2>2, <2>3 DEF Request
<1>3. ASSUME NEW th \in Threads, Refresh(th) \/ RefreshFails(th) PROVE QuotesShrink
  <2>1. \/ UNCHANGED call \/ Leave(th)
        \/ th = Scheduler /\ call' = [call EXCEPT ![th] = [call[th] EXCEPT !.op = "resolve"]]
    BY Zenon, <1>3 DEF Refresh, RefreshBegins, RefreshRead, RefreshWrite, RefreshFails, Unfinished
  <2>2. Scheduler \in Servers
    BY DEF Servers
  <2> QED
    BY <1>b, <1>c, <1>f, <2>1, <2>2
<1>4. CASE ResolveLooks \/ ResolveWrites
  <2>1. Scheduler \in Servers /\ \E request : call' = [call EXCEPT ![Scheduler] = request]
    BY <1>4 DEF ResolveLooks, ResolveWrites, Begin, Servers
  <2> QED
    BY <1>c, <2>1
<1>5. ASSUME NEW c \in Servers, RequestFails(c) PROVE QuotesShrink
  BY <1>c, <1>5 DEF RequestFails
<1>6. CASE Crash \/ Exit
  BY <1>6, <1>a, CallHits DEF Crash, Exit, MemoryLost, QuotesShrink
<1>7. CASE Schedule \/ Shutdown \/ ShutdownEnds \/ Restart \/ Environment \/ UNCHANGED vars
  <2>1. UNCHANGED call
    BY <1>7 DEF Schedule, Claim, ClaimInvalid, Shutdown, ShutdownEnds, Restart, Recover, Start, RecoverCancelled,
       RecoverInvalid, Environment, ItemLeaseLapses, EntryLeaseLapses, EntryRots, TaskCorrupted, vars, memVars
  <2> QED
    BY <1>b, <2>1
<1> QED
  BY <1>1, <1>2, <1>3, <1>4, <1>5, <1>6, <1>7 DEF Next

\* An entry that receives a new result.
LEMMA StoredEntry ==
  ASSUME NEW row \in CacheRow, NEW i
  PROVE  Stored(row, i).version = row.version + 1 /\ Offered(Stored(row, i)) /\ row.version \in Nat
BY DEF Stored, Settle, Offered, CacheRow

\* A completion commits the key's next result to its item.
LEMMA CompleteRefines ==
  ASSUME TypeInv, ResultFree, NEW k \in Claims, Complete(k), NEW i \in Items, i = run[k].item
  PROVE  Ledger!Commit(i) /\ ResultFree'
<1> DEFINE c == KeyOf[i]
           entry == Stored(MyEntry(k), i)
           row == [Settle(MyItem(k), "completed") EXCEPT !.result = MyEntry(k).version + 1]
<1>1. c \in Keys /\ c = KeyOf[i] /\ MyEntry(k) \in CacheRow /\ MyItem(k) \in ItemRow
  BY MyPlaces DEF Complete, TypeInv, TypeOK, MyEntry, MyItem, MyKey
<1>2. MyItem(k) = item[i] /\ MyEntry(k) = cache[c]
  BY DEF MyItem, MyEntry, MyKey
<1>3. item[i].status = "running" /\ cache[c].status = "running"
  BY <1>2 DEF Complete, HoldsBoth, Holds
<1>4. item' = [item EXCEPT ![i] = row] /\ cache' = [cache EXCEPT ![c] = entry] /\ UNCHANGED <<call, struck>>
  BY DEF Complete, MyItem, MyEntry, MyKey
<1>5. entry.version = cache[c].version + 1 /\ Offered(entry)
  BY <1>1, <1>2, StoredEntry
<1>6. row.result = cache[c].version + 1 /\ row.status = "completed"
  BY <1>1, <1>2, ItemChanges, SettledStatus
<1>7. item \in [Items -> ItemRow] /\ cache \in [Keys -> CacheRow]
  BY DEF TypeInv, TypeOK
<1>8. item[i].result = 0
  BY <1>1, <1>3 DEF ResultFree, IsValid, ValidStatuses
<1> HIDE DEF c, entry, row
<1>9. [q \in Keys |-> cache'[q].version] = [[q \in Keys |-> cache[q].version] EXCEPT ![c] = cache[c].version + 1]
  BY <1>1, <1>4, <1>5, <1>7
<1>10. [q \in Keys |-> cache'[q].status = "completed" /\ cache'[q].good]
         = [[q \in Keys |-> cache[q].status = "completed" /\ cache[q].good] EXCEPT ![c] = TRUE]
  BY <1>1, <1>4, <1>5, <1>7 DEF Offered
<1>11. [j \in Items |-> item'[j].result] = [[j \in Items |-> item[j].result] EXCEPT ![i] = cache[c].version + 1]
  BY <1>1, <1>4, <1>6, <1>7
<1>12. [j \in Items |-> {call'[b].hits[j] : b \in Callers} \ {0}] = [j \in Items |-> {call[b].hits[j] : b \in Callers} \ {0}]
  BY <1>4
<1>13. Ledger!Commit(i)
  BY <1>1, <1>3, <1>4, <1>8, <1>9, <1>10, <1>11, <1>12 DEF Ledger!Commit
<1>14. ResultFree'
  BY <1>1, <1>4, <1>6, <1>7 DEF ResultFree, IsValid, ValidStatuses
<1> QED
  BY <1>13, <1>14

\* A reuse hands out what the key offers.
LEMMA ReuseRefines ==
  ASSUME TypeInv, ResultFree, NEW k \in Claims, ReserveReused(k)
  PROVE  Ledger!HandOut /\ ResultFree'
<1> DEFINE i == run[k].item
           c == MyKey(k)
           row == [Settle(MyItem(k), "cached") EXCEPT !.result = MyEntry(k).version]
<1>1. i \in Items /\ c \in Keys /\ c = KeyOf[i] /\ MyItem(k) \in ItemRow
  BY MyPlaces DEF ReserveReused, TypeInv, TypeOK, MyItem, MyKey
<1>2. MyItem(k) = item[i] /\ MyEntry(k) = cache[c]
  BY DEF MyItem, MyEntry
<1>3. cache[c].status = "completed" /\ cache[c].good /\ UNCHANGED <<cache, call, struck>>
  BY <1>2 DEF ReserveReused
<1>4. \/ UNCHANGED item
      \/ item' = [item EXCEPT ![i] = row] /\ item[i].status = "running"
  BY <1>2 DEF ReserveReused, Holds, MyItem
<1>5. row.result = cache[c].version /\ row.status = "cached"
  BY <1>1, <1>2, ItemChanges, SettledStatus
<1>6. item \in [Items -> ItemRow]
  BY DEF TypeInv, TypeOK
<1> HIDE DEF i, c, row
<1>7. \A j \in Items : item'[j].result # item[j].result =>
        j = i /\ item[i].result = 0 /\ item'[i].result = cache[c].version
  BY <1>1, <1>4, <1>5, <1>6 DEF ResultFree, IsValid, ValidStatuses
<1>8. Ledger!HandOut
  BY <1>1, <1>3, <1>7 DEF Ledger!HandOut, Ledger!Usable
<1>9. ResultFree'
  BY <1>1, <1>4, <1>5, <1>6 DEF ResultFree, IsValid, ValidStatuses
<1> QED
  BY <1>8, <1>9

\* A creation hands out results that were looked up before.
LEMMA CreateRefines ==
  ASSUME IInv, ResultFree, NEW c \in Callers, CreateWrites(c), QuotesShrink
  PROVE  Ledger!HandOut /\ ResultFree'
<1> USE DEF IInv
<1> DEFINE r == call[c].row
           hits == call[c].hits
           new == {q \in {r} \cup Leaves(r) : \A p \in {r} \cup Leaves(r) : task[p].status = "absent"}
<1>1. \A i \in Items : item'[i] =
        IF TaskOf[i] \notin new THEN item[i]
        ELSE IF hits[i] # 0 THEN [item[i] EXCEPT !.status = "cached", !.result = hits[i]]
        ELSE [item[i] EXCEPT !.status = "pending"]
  BY DEF CreateWrites
<1>2. \A i \in Items : TaskOf[i] \in new => task[TaskOf[i]].status = "absent"
  OBVIOUS
<1>3. UNCHANGED <<cache, struck>>
  BY DEF CreateWrites
<1> HIDE DEF new
<1>4. \A i \in Items : TaskOf[i] \in new => item[i].result = 0
  BY <1>2 DEF Honest, AbsentTogether, ResultFree, IsValid, ValidStatuses
<1>5. ASSUME NEW i \in Items
      PROVE  \/ item'[i] = item[i]
             \/ TaskOf[i] \in new /\ item'[i].result = 0
             \/ TaskOf[i] \in new /\ hits[i] # 0 /\ item'[i].result = hits[i] /\ item'[i].status = "cached"
  <2>1. item[i] \in ItemRow
    BY DEF TypeInv, TypeOK
  <2>2. CASE item'[i] = [item[i] EXCEPT !.status = "cached", !.result = hits[i]] /\ TaskOf[i] \in new /\ hits[i] # 0
    BY <2>1, <2>2 DEF ItemRow
  <2>3. CASE item'[i] = [item[i] EXCEPT !.status = "pending"] /\ TaskOf[i] \in new
    BY <1>4, <2>1, <2>3 DEF ItemRow
  <2> QED
    BY <1>1, <2>2, <2>3
<1>6. \A i \in Items : item'[i].result # item[i].result =>
        item[i].result = 0 /\ item'[i].result \in {call[b].hits[i] : b \in Callers} \ {0}
  BY <1>4, <1>5
<1>7. Ledger!HandOut
  BY <1>3, <1>6, QuotesMapped DEF Ledger!HandOut
<1>8. ResultFree'
  BY <1>5 DEF ResultFree, IsValid, ValidStatuses
<1> QED
  BY <1>7, <1>8

\* A creation that looks for results quotes what the keys offer.
LEMMA LookRefines ==
  ASSUME TypeInv, NEW c \in Callers, NEW r \in Rows, CreateLooks(c, r)
  PROVE  Ledger!Quote
<1>1. UNCHANGED <<item, cache>> /\ call' = [call EXCEPT ![c] = [NoCall EXCEPT !.op = "create", !.row = r, !.hits = Hits(r)]]
  BY DEF CreateLooks, Begin, dbVars
<1>2. c \in Servers /\ call \in [Servers -> CallState] /\ Callers \subseteq Servers
  BY DEF TypeInv, TypeOK, Servers
<1>3. call'[c].hits = Hits(r) /\ \A b \in Callers \ {c} : call'[b] = call[b]
  BY <1>1, <1>2, CallHits
<1>4. \A i \in Items : Hits(r)[i] = 0 \/ (Offered(cache[KeyOf[i]]) /\ Hits(r)[i] = cache[KeyOf[i]].version)
  BY DEF Hits, CacheHit, Offered
<1>5. \A i \in Items : KeyOf[i] \in Keys
  BY StructureAssumption
<1>6. struck'["rot"] = struck["rot"]
  BY DEF CreateLooks, Strike, Hazards, TypeInv, TypeOK
<1>7. ASSUME NEW i \in Items, NEW b \in Callers, call'[b].hits[i] # 0
      PROVE  \/ call'[b].hits[i] \in {call[a].hits[i] : a \in Callers} \ {0}
             \/ Offered(cache[KeyOf[i]]) /\ call'[b].hits[i] = cache[KeyOf[i]].version
  BY <1>3, <1>4, <1>7
<1> DEFINE usable == [q \in Keys |-> cache[q].status = "completed" /\ cache[q].good]
           version == [q \in Keys |-> cache[q].version]
           quoted == [i \in Items |-> {call[b].hits[i] : b \in Callers} \ {0}]
<1>8. ASSUME NEW i \in Items
      PROVE  {call'[b].hits[i] : b \in Callers} \ {0}
               \subseteq quoted[i] \cup (IF usable[KeyOf[i]] THEN {version[KeyOf[i]]} ELSE {})
  <2>1. usable[KeyOf[i]] = Offered(cache[KeyOf[i]]) /\ version[KeyOf[i]] = cache[KeyOf[i]].version
    BY <1>5 DEF Offered
  <2>2. quoted[i] = {call[a].hits[i] : a \in Callers} \ {0}
    OBVIOUS
  <2>3. SUFFICES ASSUME NEW b \in Callers, call'[b].hits[i] # 0
                 PROVE  call'[b].hits[i] \in quoted[i] \cup (IF usable[KeyOf[i]] THEN {version[KeyOf[i]]} ELSE {})
    OBVIOUS
  <2> HIDE DEF usable, version, quoted
  <2> QED
    BY <1>7, <2>1, <2>2, <2>3
<1>9. \A i \in Items : Ledger!Usable(i) = IF usable[KeyOf[i]] THEN {version[KeyOf[i]]} ELSE {}
  BY DEF Ledger!Usable
<1> QED
  BY <1>1, <1>6, <1>8, <1>9 DEF Ledger!Quote

\* Content that stops validating is spoiled.
LEMMA RotRefines ==
  ASSUME TypeInv, NEW c \in Keys, EntryRots(c)
  PROVE  Ledger!Spoil(c)
<1>1. cache \in [Keys -> CacheRow] /\ cache' = [cache EXCEPT ![c].good = FALSE] /\ UNCHANGED <<item, call>>
  BY DEF EntryRots, TypeInv, TypeOK, memVars
<1>2. struck'["rot"] = struck["rot"] + 1
  BY DEF EntryRots, Strike, Hazards, TypeInv, TypeOK
<1>3. cache'[c].version = cache[c].version /\ ~cache'[c].good /\ \A q \in Keys \ {c} : cache'[q] = cache[q]
  BY <1>1 DEF CacheRow
<1>4. [q \in Keys |-> cache'[q].version] = [q \in Keys |-> cache[q].version]
  BY <1>3
<1>5. [q \in Keys |-> cache'[q].status = "completed" /\ cache'[q].good]
        = [[q \in Keys |-> cache[q].status = "completed" /\ cache[q].good] EXCEPT ![c] = FALSE]
  BY <1>3
<1>6. cache[c].status = "completed" /\ cache[c].good
  BY DEF EntryRots
<1>7. /\ [i \in Items |-> item'[i].result] = [i \in Items |-> item[i].result]
      /\ [i \in Items |-> {call'[b].hits[i] : b \in Callers} \ {0}] = [i \in Items |-> {call[b].hits[i] : b \in Callers} \ {0}]
  BY <1>1
<1> QED
  BY <1>1, <1>2, <1>4, <1>5, <1>6, <1>7 DEF Ledger!Spoil

\* Every step is a step of the ledger, and results stay with valid items.
LEMMA LedgerStep ==
  ASSUME IInv, ResultFree, [Next]_vars
  PROVE  ResultFree' /\ [Ledger!Next]_(Ledger!ledger)
<1> USE DEF IInv
<1>1. ASSUME NEW k \in Claims, Complete(k) PROVE ResultFree' /\ Ledger!Next
  <2>1. run[k].item \in Items
    BY <1>1, MyPlaces DEF Complete
  <2>2. PICK i \in Items : i = run[k].item
    BY <2>1
  <2>3. Ledger!Commit(i) /\ ResultFree'
    BY <1>1, <2>2, CompleteRefines
  <2> QED
    BY Zenon, <2>3 DEF Ledger!Next
<1>2. ASSUME NEW k \in Claims, ReserveReused(k) PROVE ResultFree' /\ Ledger!Next
  BY <1>2, ReuseRefines DEF Ledger!Next
<1>3. ResultsSame => ResultFree'
  BY HonestStep DEF ResultsSame, ResultFree, ItemsKept, IsValid
<1>4. ASSUME NEW c \in Callers, CreateWrites(c) PROVE ResultFree' /\ Ledger!Next
  <2>1. ~\E b \in Callers, r \in Rows : CreateLooks(b, r)
    <3>1. UNCHANGED struck
      BY <1>4 DEF CreateWrites
    <3>2. ~Strike("call")
      BY <3>1 DEF Strike, Hazards, TypeInv, TypeOK
    <3> QED
      BY <3>2 DEF CreateLooks
  <2> QED
    BY <1>4, <2>1, CreateRefines, QuotesStep DEF Ledger!Next
<1>5. ASSUME NEW c \in Callers, NEW r \in Rows, CreateLooks(c, r) PROVE ResultFree' /\ Ledger!Next
  BY <1>3, <1>5, LookRefines DEF CreateLooks, Begin, dbVars, ResultsSame, Ledger!Next
<1>6. ASSUME NEW c \in Keys, EntryRots(c) PROVE ResultFree' /\ Ledger!Next
  BY <1>3, <1>6, RotRefines DEF EntryRots, ResultsSame, Ledger!Next
<1>7. CASE /\ ~\E k \in Claims : Complete(k) \/ ReserveReused(k)
           /\ ~\E c \in Callers : CreateWrites(c)
           /\ ~\E c \in Callers, r \in Rows : CreateLooks(c, r)
           /\ ~\E c \in Keys : EntryRots(c)
  <2>1. ResultsSame /\ EntriesSame /\ QuotesShrink /\ RotSame
    BY <1>7, ResultsStep, EntriesStep, QuotesStep, RotStep
  <2> QED
    BY <1>3, <2>1, QuietRefines DEF Ledger!Next
<1> QED
  BY <1>1, <1>2, <1>4, <1>5, <1>6, <1>7

\* The service implements the ledger of results: whatever executions, requests,
\* lapsed leases, crashes and recoveries do, an item receives one result, which
\* was committed under its key and usable when it was found.
THEOREM ImplementsLedger == Spec => LedgerSpec
<1>1. Init => ResultFree /\ Ledger!Init
  <2> SUFFICES ASSUME Init PROVE ResultFree /\ Ledger!Init
    OBVIOUS
  <2>1. ResultFree
    BY DEF Init, ResultFree
  <2>2. [i \in Items |-> {call[c].hits[i] : c \in Callers} \ {0}] = [i \in Items |-> {}]
    BY CallHits DEF Init, Servers
  <2>3. [q \in Keys |-> cache[q].status = "completed" /\ cache[q].good] = [q \in Keys |-> FALSE]
    BY DEF Init
  <2> QED
    BY <2>1, <2>2, <2>3 DEF Init, Ledger!Init, Hazards
<1>2. IInv /\ ResultFree /\ [Next]_vars => ResultFree' /\ [Ledger!Next]_(Ledger!ledger)
  BY LedgerStep
<1> QED
  BY <1>1, <1>2, Inductive, PTL DEF Spec, LedgerSpec, Ledger!Spec
=============================================================================
