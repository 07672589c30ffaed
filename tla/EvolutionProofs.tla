--------------------------- MODULE EvolutionProofs ---------------------------
(***************************************************************************)
(* The life of a row of evolution_tasks, for every number of tasks, callers *)
(* and iterations and every budget of crashes and faults: the service knows *)
(* the only search that runs, a row that says running has one, an end is    *)
(* final, and the best pack of a cancelled search is kept.                  *)
(*                                                                          *)
(* The argument: a request that cancels in the database began when the      *)
(* service had no cancel function for the task, so its goroutine was gone,  *)
(* and gone for good; only a listing can end the row of a running search.   *)
(* What a gene record holds is followed from the pack that was saved, over  *)
(* the goroutine or the request that carries it, to the row (BestInv).      *)
(***************************************************************************)
EXTENDS Evolution, TLAPS

RowFields == {"status", "best", "gene"}
RunFields == {"step", "mode", "iteration", "generation", "outcome", "last"}
CallFields == {"step", "task", "best"}

IsRow(r) == r = [f \in RowFields |-> r[f]]
IsRun(r) == r = [f \in RunFields |-> r[f]]
IsCall(r) == r = [f \in CallFields |-> r[f]]

RowsTyped == row = [t \in Tasks |-> row[t]] /\ \A t \in Tasks : IsRow(row[t])
RunsTyped == job = [t \in Tasks |-> job[t]] /\ \A t \in Tasks : IsRun(job[t])
CallsTyped == reqs = [c \in Callers |-> reqs[c]] /\ \A c \in Callers : IsCall(reqs[c])
MishapTyped == mishap \in [{"crash", "fault"} -> Nat]

\* What the service knows of the search of t.
RunKnown(t) ==
  Active(t) => /\ up /\ currentTask = t /\ t \in cancelFuncs
               /\ row[t].status \in {"running", "failed"} \cup (IF job[t].step = "leave" THEN Closed ELSE {})

Ending == {"read", "insert", "mark", "final", "leave"}

OutcomeKnown(t) == job[t].step \in Ending => job[t].outcome \in Closed

RunningIsRun(t) ==
  row[t].status = "running" => \/ Active(t) /\ job[t].step # "leave"
                               \/ ~up \/ mishap["fault"] > 0

\* A request that cancels in the database does so for a task that has no
\* goroutine, and gets none.
CallKnown(c) ==
  reqs[c].step \in {"read", "insert", "mark", "update"}
    => /\ reqs[c].task \in Tasks
       /\ row[reqs[c].task].status # "none"
       /\ ~Active(reqs[c].task)

IInv ==
  /\ RowsTyped /\ RunsTyped /\ CallsTyped /\ MishapTyped
  /\ \A t \in Tasks : RunKnown(t) /\ OutcomeKnown(t) /\ RunningIsRun(t)
  /\ \A c \in Callers : CallKnown(c)

\* A pack, and that some gene record of the task holds it.
Packs == 0..Iterations
Kept(t, pack) == pack # NoPack => genes[t][pack] > 0
Faulted == mishap["fault"] > 0

PacksTyped ==
  /\ genes = [t \in Tasks |-> genes[t]] /\ \A t \in Tasks : genes[t] \in [1..Iterations -> Nat]
  /\ \A t \in Tasks : /\ row[t].best \in Packs /\ row[t].gene \in BOOLEAN
                      /\ job[t].last \in Packs /\ job[t].iteration \in Packs
                      /\ job[t].step = "evolve" => job[t].iteration # 0
  /\ \A c \in Callers : reqs[c].best \in Packs

\* A row that names a gene record has one, and one that was cancelled has
\* nothing left that is worth a record.
RowKept(t) ==
  /\ row[t].gene => Kept(t, row[t].best)
  /\ row[t].status = "cancelled" => ~Worth(row[t]) \/ Faulted

\* What the goroutine carries is in a record but while it saves the row's best.
RunKept(t) ==
  /\ job[t].step = "mark" \/ job[t].outcome # "cancelled" => Kept(t, job[t].last)
  /\ job[t].step = "final" /\ job[t].outcome = "cancelled" => ~Worth(row[t]) \/ Faulted
  /\ job[t].step \in {"read", "insert", "mark"} => job[t].outcome = "cancelled"
  /\ job[t].outcome = "cancelled" => job[t].step \in Ending
  /\ job[t].step \in {"insert", "mark"} => job[t].last # NoPack

\* The same of a request that saves the best of a task without a goroutine.
CallKept(c) ==
  /\ reqs[c].step \in {"insert", "mark"} => reqs[c].best # NoPack
  /\ reqs[c].step = "mark" => Kept(reqs[c].task, reqs[c].best)
  /\ reqs[c].step = "update" => ~Worth(row[reqs[c].task]) \/ Faulted

BestInv == /\ PacksTyped
           /\ \A t \in Tasks : RowKept(t) /\ RunKept(t)
           /\ \A c \in Callers : CallKept(c)
-----------------------------------------------------------------------------
(* What the parts of an action do *)

FaultsKept == MishapTyped' /\ mishap'["fault"] >= mishap["fault"]

LEMMA MishapCounts ==
  ASSUME MishapTyped, NEW h \in {"crash", "fault"}, Mishap(h)
  PROVE  FaultsKept /\ mishap'[h] > 0
BY DEF MishapTyped, Mishap, FaultsKept

LEMMA NoMishap == ASSUME MishapTyped, UNCHANGED mishap PROVE FaultsKept
BY DEF MishapTyped, FaultsKept

\* Only the goroutine of t has moved.
OnlyRun(t) == RunsTyped' /\ \A u \in Tasks : u # t => job'[u] = job[u]

LEMMA GotoDoes ==
  ASSUME RunsTyped, NEW t \in Tasks, NEW step, Goto(t, step)
  PROVE  /\ OnlyRun(t) /\ job'[t].step = step
         /\ job'[t].mode = job[t].mode /\ job'[t].iteration = job[t].iteration
         /\ job'[t].generation = job[t].generation
         /\ job'[t].outcome = job[t].outcome /\ job'[t].last = job[t].last
BY DEF RunsTyped, IsRun, RunFields, Goto, OnlyRun

LEMMA RunSet ==
  ASSUME RunsTyped, NEW t \in Tasks, NEW s, IsRun(s), job' = [job EXCEPT ![t] = s]
  PROVE  OnlyRun(t) /\ job'[t] = s
BY DEF RunsTyped, OnlyRun

LEMMA StopsDoes ==
  ASSUME RunsTyped, NEW t \in Tasks, NEW outcome, Stops(t, outcome)
  PROVE  /\ OnlyRun(t) /\ job'[t].step = (IF outcome = "cancelled" THEN "read" ELSE "final")
         /\ job'[t].mode = job[t].mode /\ job'[t].iteration = job[t].iteration
         /\ job'[t].outcome = outcome /\ job'[t].last = job[t].last
<1> DEFINE step == IF outcome = "cancelled" THEN "read" ELSE "final"
           s == [job[t] EXCEPT !.step = step, !.outcome = outcome]
<1> HIDE DEF step
<1>1. job' = [job EXCEPT ![t] = s]
  BY DEF Stops, RunsTyped, step
<1>2. /\ IsRun(s) /\ s.step = step /\ s.outcome = outcome /\ s.last = job[t].last /\ s.mode = job[t].mode
      /\ s.iteration = job[t].iteration
  BY DEF RunsTyped, IsRun, RunFields
<1> HIDE DEF s
<1>3. OnlyRun(t) /\ job'[t] = s
  BY <1>1, <1>2, RunSet
<1> QED BY <1>2, <1>3 DEF step

LEMMA LoopEndsDoes ==
  ASSUME RunsTyped, NEW t \in Tasks,
         job' = [job EXCEPT ![t].step = IF job[t].mode = "single" THEN "final" ELSE "snapshot",
                            ![t].outcome = "done"]
  PROVE  /\ OnlyRun(t) /\ job'[t].step \in {"final", "snapshot"} /\ job'[t].outcome = "done"
         /\ job'[t].last = job[t].last /\ job'[t].iteration = job[t].iteration
<1> DEFINE step == IF job[t].mode = "single" THEN "final" ELSE "snapshot"
           s == [job[t] EXCEPT !.step = step, !.outcome = "done"]
<1> HIDE DEF step
<1>1. job' = [job EXCEPT ![t] = s]
  BY DEF RunsTyped, step
<1>2. /\ IsRun(s) /\ s.step = step /\ s.outcome = "done" /\ s.last = job[t].last
      /\ s.iteration = job[t].iteration
  BY DEF RunsTyped, IsRun, RunFields
<1> HIDE DEF s
<1>3. OnlyRun(t) /\ job'[t] = s
  BY <1>1, <1>2, RunSet
<1> QED BY <1>2, <1>3 DEF step

LEMMA RoundDoes ==
  ASSUME RunsTyped, NEW t \in Tasks,
         job' = [job EXCEPT ![t].step = "evolve", ![t].iteration = @ + 1, ![t].generation = 0]
  PROVE  /\ OnlyRun(t) /\ job'[t].step = "evolve" /\ job'[t].iteration = job[t].iteration + 1
         /\ job'[t].last = job[t].last /\ job'[t].outcome = job[t].outcome
<1> DEFINE s == [job[t] EXCEPT !.step = "evolve", !.iteration = job[t].iteration + 1, !.generation = 0]
<1>1. job' = [job EXCEPT ![t] = s]
  BY DEF RunsTyped
<1>2. /\ IsRun(s) /\ s.step = "evolve" /\ s.iteration = job[t].iteration + 1 /\ s.last = job[t].last
      /\ s.outcome = job[t].outcome
  BY DEF RunsTyped, IsRun, RunFields
<1> HIDE DEF s
<1> QED BY <1>1, <1>2, RunSet

LEMMA EpochSavesDoes ==
  ASSUME RunsTyped, NEW t \in Tasks, EpochSaves(t)
  PROVE  /\ OnlyRun(t) /\ job'[t].step \in {"loop", "snapshot", "champion"}
         /\ job'[t].last = job[t].iteration /\ job'[t].iteration = job[t].iteration
         /\ job'[t].outcome = job[t].outcome
<1> DEFINE step == CASE job[t].mode = "single" -> "loop"
                     [] job[t].mode = "continuous" -> "snapshot"
                     [] OTHER -> "champion"
           s == [job[t] EXCEPT !.last = job[t].iteration, !.step = step]
<1>0. step \in {"loop", "snapshot", "champion"}
  OBVIOUS
<1> HIDE DEF step
<1>1. job' = [job EXCEPT ![t] = s]
  BY DEF EpochSaves, RunsTyped, step
<1>2. /\ IsRun(s) /\ s.step = step /\ s.last = job[t].iteration /\ s.iteration = job[t].iteration
      /\ s.outcome = job[t].outcome
  BY DEF RunsTyped, IsRun, RunFields
<1> HIDE DEF s
<1>3. OnlyRun(t) /\ job'[t] = s
  BY <1>1, <1>2, RunSet
<1> QED BY <1>0, <1>2, <1>3

LEMMA SaveReadsDoes ==
  ASSUME RunsTyped, NEW t \in Tasks, SaveReads(t)
  PROVE  /\ OnlyRun(t) /\ job'[t].step = (IF Worth(row[t]) THEN "insert" ELSE "final")
         /\ job'[t].last = row[t].best /\ job'[t].iteration = job[t].iteration
         /\ job'[t].outcome = job[t].outcome
<1> DEFINE step == IF Worth(row[t]) THEN "insert" ELSE "final"
           s == [job[t] EXCEPT !.step = step, !.last = row[t].best]
<1> HIDE DEF step
<1>1. job' = [job EXCEPT ![t] = s]
  BY DEF SaveReads, RunsTyped, step
<1>2. /\ IsRun(s) /\ s.step = step /\ s.last = row[t].best /\ s.iteration = job[t].iteration
      /\ s.outcome = job[t].outcome
  BY DEF RunsTyped, IsRun, RunFields
<1> HIDE DEF s
<1>3. OnlyRun(t) /\ job'[t] = s
  BY <1>1, <1>2, RunSet
<1> QED BY <1>2, <1>3 DEF step

\* Only the row of t has been written.
OnlyRow(t) == RowsTyped' /\ \A u \in Tasks : u # t => row'[u] = row[u]

LEMMA ResultDoes ==
  ASSUME RowsTyped, NEW t \in Tasks, NEW pack, NEW gene, Result(t, pack, gene)
  PROVE  OnlyRow(t) /\ row'[t].status = row[t].status /\ row'[t].best = pack /\ row'[t].gene = gene
<1> DEFINE s == [row[t] EXCEPT !.best = pack, !.gene = gene]
<1>1. row' = [row EXCEPT ![t] = s]
  BY DEF Result, RowsTyped
<1>2. IsRow(s) /\ s.status = row[t].status /\ s.best = pack /\ s.gene = gene
  BY DEF RowsTyped, IsRow, RowFields
<1> HIDE DEF s
<1> QED BY <1>1, <1>2 DEF RowsTyped, OnlyRow

LEMMA FinalDoes ==
  ASSUME RowsTyped, NEW t \in Tasks,
         row' = [row EXCEPT ![t].status = job[t].outcome,
                            ![t].best = IF job[t].mode = "single" /\ job[t].outcome = "done" THEN job[t].last ELSE @,
                            ![t].gene = IF job[t].mode = "single" /\ job[t].outcome = "done" THEN TRUE ELSE @]
  PROVE  /\ OnlyRow(t) /\ row'[t].status = job[t].outcome
         /\ \/ row'[t].best = row[t].best /\ row'[t].gene = row[t].gene
            \/ job[t].outcome = "done" /\ row'[t].best = job[t].last /\ row'[t].gene = TRUE
<1> DEFINE whole == job[t].mode = "single" /\ job[t].outcome = "done"
           best == IF whole THEN job[t].last ELSE row[t].best
           gene == IF whole THEN TRUE ELSE row[t].gene
           s == [row[t] EXCEPT !.status = job[t].outcome, !.best = best, !.gene = gene]
<1>0. \/ best = row[t].best /\ gene = row[t].gene
      \/ job[t].outcome = "done" /\ best = job[t].last /\ gene = TRUE
  <2>1. CASE whole
    BY <2>1
  <2>2. CASE ~whole
    BY <2>2
  <2> QED BY <2>1, <2>2
<1>1. row' = [row EXCEPT ![t] = s]
  BY DEF RowsTyped
<1> HIDE DEF best, gene
<1>2. IsRow(s) /\ s.status = job[t].outcome /\ s.best = best /\ s.gene = gene
  BY DEF RowsTyped, IsRow, RowFields
<1> HIDE DEF s
<1>3. OnlyRow(t) /\ row'[t] = s
  BY <1>1, <1>2 DEF RowsTyped, OnlyRow
<1> QED BY <1>0, <1>2, <1>3

LEMMA SameRow == ASSUME RowsTyped, UNCHANGED row, NEW t \in Tasks PROVE OnlyRow(t) /\ row'[t] = row[t]
BY DEF RowsTyped, IsRow, OnlyRow

LEMMA FailDoes ==
  ASSUME RowsTyped, row' = FailRunning
  PROVE  /\ RowsTyped'
         /\ \A t \in Tasks : /\ row'[t].best = row[t].best /\ row'[t].gene = row[t].gene
                             /\ row'[t].status = (IF row[t].status = "running" THEN "failed" ELSE row[t].status)
BY DEF RowsTyped, IsRow, RowFields, FailRunning
-----------------------------------------------------------------------------
(* The goroutine of a task *)

\* A step of the goroutine of t that neither ends it nor writes its status.
Advance(t) ==
  /\ OnlyRun(t) /\ OnlyRow(t) /\ FaultsKept
  /\ row'[t].status = row[t].status
  /\ Active(t) /\ job[t].step # "leave"
  /\ job'[t].step \notin {"none", "leave"}
  /\ job'[t].step \in Ending => job'[t].outcome \in Closed
  /\ UNCHANGED <<currentTask, cancelFuncs, reqs, up>>

LEMMA AdvanceKeeps ==
  ASSUME IInv, NEW t \in Tasks, Advance(t)
  PROVE  IInv'
<1>1. /\ RunsTyped' /\ RowsTyped' /\ CallsTyped' /\ MishapTyped'
  BY DEF Advance, OnlyRun, OnlyRow, FaultsKept, IInv, CallsTyped, IsCall, CallFields
<1>2. ASSUME NEW u \in Tasks
      PROVE  /\ Active(u)' <=> Active(u)
             /\ row'[u].status = row[u].status
             /\ job'[u].step = "leave" <=> job[u].step = "leave"
             /\ OutcomeKnown(u)'
  BY DEF Advance, OnlyRun, OnlyRow, IInv, Active, OutcomeKnown
<1>3. Faulted => Faulted'
  BY DEF Advance, FaultsKept, IInv, MishapTyped, Faulted
<1>4. ASSUME NEW u \in Tasks PROVE RunKnown(u)' /\ RunningIsRun(u)'
  <2>1. RunKnown(u) /\ RunningIsRun(u)
    BY DEF IInv
  <2> QED BY <1>2, <1>3, <2>1 DEF RunKnown, RunningIsRun, Advance, Faulted
<1>5. ASSUME NEW c \in Callers PROVE CallKnown(c)'
  <2>1. CallKnown(c)
    BY DEF IInv
  <2> QED BY <1>2, <2>1 DEF CallKnown, Advance
<1> QED BY <1>1, <1>2, <1>4, <1>5 DEF IInv

LEMMA Advances ==
  ASSUME IInv, NEW t \in Tasks,
         \/ Loop(t) \/ Generation(t) \/ ProgressFails(t) \/ EpochFails(t) \/ EpochSaves(t)
         \/ RefreshChampion(t) \/ Snapshot(t) \/ SaveReads(t) \/ SaveInserts(t) \/ SaveMarks(t)
  PROVE  Advance(t)
<1>1. RunsTyped /\ RowsTyped /\ MishapTyped /\ OutcomeKnown(t)
  BY DEF IInv
<1>2. UNCHANGED row => OnlyRow(t) /\ row'[t].status = row[t].status
  BY <1>1, SameRow
<1>3. UNCHANGED mishap \/ Mishap("fault") => FaultsKept
  BY <1>1, NoMishap, MishapCounts
<1>4. \A pack, gene : Result(t, pack, gene) => OnlyRow(t) /\ row'[t].status = row[t].status
  BY <1>1, ResultDoes
<1>5. \A step : Goto(t, step) => OnlyRun(t) /\ job'[t].step = step /\ job'[t].outcome = job[t].outcome
  BY <1>1, GotoDoes
<1>6. \A outcome : Stops(t, outcome) =>
         /\ OnlyRun(t) /\ job'[t].outcome = outcome
         /\ job'[t].step = (IF outcome = "cancelled" THEN "read" ELSE "final")
  BY <1>1, StopsDoes
<1> USE DEF RunOnly, At, Active, Ending, Closed
<1>7. CASE Loop(t)
  <2>1. FaultsKept /\ OnlyRow(t) /\ row'[t].status = row[t].status
    BY <1>2, <1>3, <1>7 DEF Loop
  <2>2. CASE Stops(t, "cancelled")
    BY <1>6, <1>7, <2>1, <2>2 DEF Loop, Advance
  <2>3. CASE job' = [job EXCEPT ![t].step = IF job[t].mode = "single" THEN "final" ELSE "snapshot",
                                ![t].outcome = "done"]
    <3>1. OnlyRun(t) /\ job'[t].step \in {"final", "snapshot"} /\ job'[t].outcome = "done"
      BY <1>1, <2>3, LoopEndsDoes
    <3> QED BY <1>7, <2>1, <3>1 DEF Loop, Advance
  <2>4. CASE job' = [job EXCEPT ![t].step = "evolve", ![t].iteration = @ + 1, ![t].generation = 0]
    <3>1. OnlyRun(t) /\ job'[t].step = "evolve"
      BY <1>1, <2>4, RoundDoes
    <3> QED BY <1>7, <2>1, <3>1 DEF Loop, Advance
  <2> QED BY <1>7, <2>2, <2>3, <2>4 DEF Loop
<1>8. CASE Generation(t)
  <2>1. OnlyRow(t) /\ row'[t].status = row[t].status /\ FaultsKept
    BY <1>2, <1>3, <1>4, <1>8 DEF Generation
  <2>2. CASE Stops(t, "cancelled")
    BY <1>6, <1>8, <2>1, <2>2 DEF Generation, Advance
  <2>3. CASE job' = [job EXCEPT ![t].generation = @ + 1]
    <3>1. OnlyRun(t) /\ job'[t].step = "evolve"
      BY <1>1, <1>8, <2>3 DEF Generation, OnlyRun, RunsTyped, IsRun, RunFields
    <3> QED BY <1>8, <2>1, <3>1 DEF Generation, Advance
  <2> QED BY <1>8, <2>2, <2>3 DEF Generation
<1>9. CASE ProgressFails(t)
  <2>1. OnlyRun(t) /\ job'[t].step = "evolve"
    BY <1>1, <1>9 DEF ProgressFails, OnlyRun, RunsTyped, IsRun, RunFields
  <2> QED BY <1>2, <1>3, <1>9, <2>1 DEF ProgressFails, Advance
<1>10. CASE EpochFails(t)
  <2>1. \E outcome \in {"cancelled", "failed"} : Stops(t, outcome)
    BY <1>10 DEF EpochFails
  <2> QED BY <1>2, <1>3, <1>6, <1>10, <2>1 DEF EpochFails, Advance
<1>11. CASE EpochSaves(t)
  <2>1. OnlyRun(t) /\ job'[t].step \in {"loop", "snapshot", "champion"}
    BY <1>1, <1>11, EpochSavesDoes
  <2> QED BY <1>2, <1>3, <1>11, <2>1 DEF EpochSaves, Advance
<1>12. CASE RefreshChampion(t)
  <2>1. Goto(t, "snapshot") \/ \E outcome \in {"cancelled", "failed"} : Stops(t, outcome)
    BY <1>12 DEF RefreshChampion
  <2> QED BY <1>2, <1>3, <1>5, <1>6, <1>12, <2>1 DEF RefreshChampion, Advance
<1>13. CASE Snapshot(t)
  <2>1. OnlyRow(t) /\ row'[t].status = row[t].status /\ FaultsKept
    BY <1>2, <1>3, <1>4, <1>13 DEF Snapshot
  <2>2. /\ OnlyRun(t) /\ job'[t].outcome = job[t].outcome
        /\ job'[t].step = IF job[t].outcome = "done" THEN "final" ELSE "loop"
    BY <1>5, <1>13 DEF Snapshot
  <2> QED BY <1>13, <2>1, <2>2 DEF Snapshot, Advance
<1>14. CASE SaveReads(t)
  <2>1. /\ OnlyRun(t) /\ job'[t].step \in {"insert", "final"} /\ job'[t].outcome = job[t].outcome
    BY <1>1, <1>14, SaveReadsDoes
  <2> QED BY <1>1, <1>2, <1>3, <1>14, <2>1 DEF SaveReads, Advance, OutcomeKnown
<1>15. CASE SaveInserts(t)
  <2>1. \E step \in {"mark", "final"} : Goto(t, step)
    BY <1>15 DEF SaveInserts
  <2> QED BY <1>1, <1>2, <1>3, <1>5, <1>15, <2>1 DEF SaveInserts, Advance, OutcomeKnown
<1>16. CASE SaveMarks(t)
  <2>1. OnlyRow(t) /\ row'[t].status = row[t].status /\ FaultsKept
    BY <1>2, <1>3, <1>4, <1>16 DEF SaveMarks
  <2>2. OnlyRun(t) /\ job'[t].step = "final" /\ job'[t].outcome = job[t].outcome
    BY <1>5, <1>16 DEF SaveMarks
  <2> QED BY <1>1, <1>16, <2>1, <2>2 DEF SaveMarks, Advance, OutcomeKnown
<1> QED BY <1>7, <1>8, <1>9, <1>10, <1>11, <1>12, <1>13, <1>14, <1>15, <1>16

LEMMA FinalKeeps ==
  ASSUME IInv, NEW t \in Tasks, Final(t)
  PROVE  IInv'
<1>1. RunsTyped /\ RowsTyped /\ MishapTyped /\ OutcomeKnown(t) /\ RunKnown(t)
  BY DEF IInv
<1>2. /\ job[t].step = "final" /\ up /\ Goto(t, "leave")
      /\ UNCHANGED <<currentTask, cancelFuncs, cancelled, reqs, up>>
  BY DEF Final, At, RunOnly
<1>3. OnlyRun(t) /\ job'[t].step = "leave" /\ job'[t].outcome = job[t].outcome
  BY <1>1, <1>2, GotoDoes
<1>4. /\ OnlyRow(t) /\ FaultsKept
      /\ \/ row'[t].status = job[t].outcome
         \/ row'[t].status = row[t].status /\ Faulted'
  <2>1. CASE /\ row' = [row EXCEPT ![t].status = job[t].outcome,
                              ![t].best = IF job[t].mode = "single" /\ job[t].outcome = "done" THEN job[t].last ELSE @,
                              ![t].gene = IF job[t].mode = "single" /\ job[t].outcome = "done" THEN TRUE ELSE @]
             /\ UNCHANGED mishap
    <3>1. OnlyRow(t) /\ row'[t].status = job[t].outcome
      BY <1>1, <2>1, FinalDoes
    <3> QED BY <1>1, <2>1, <3>1, NoMishap
  <2>2. CASE Mishap("fault") /\ UNCHANGED row
    <3>1. OnlyRow(t) /\ row'[t] = row[t]
      BY <1>1, <2>2, SameRow
    <3>2. FaultsKept /\ mishap'["fault"] > 0
      BY <1>1, <2>2, MishapCounts
    <3> QED BY <3>1, <3>2 DEF Faulted
  <2> QED BY <2>1, <2>2 DEF Final
<1>5. job[t].outcome \in Closed /\ row[t].status \in {"running", "failed"} /\ Active(t)
  BY <1>1, <1>2 DEF OutcomeKnown, Ending, RunKnown, Active
<1>6. RunsTyped' /\ RowsTyped' /\ CallsTyped' /\ MishapTyped'
  BY <1>2, <1>3, <1>4 DEF OnlyRun, OnlyRow, FaultsKept, IInv, CallsTyped, IsCall, CallFields
<1>7. Faulted => Faulted'
  BY <1>1, <1>4 DEF FaultsKept, MishapTyped, Faulted
<1>8. ASSUME NEW u \in Tasks, u # t PROVE RunKnown(u)' /\ OutcomeKnown(u)' /\ RunningIsRun(u)'
  <2>1. job'[u] = job[u] /\ row'[u] = row[u]
    BY <1>3, <1>4, <1>8 DEF OnlyRun, OnlyRow
  <2>2. RunKnown(u) /\ OutcomeKnown(u) /\ RunningIsRun(u)
    BY DEF IInv
  <2> QED BY <1>2, <1>7, <2>1, <2>2 DEF RunKnown, OutcomeKnown, RunningIsRun, Active, Faulted
<1>9. RunKnown(t)' /\ OutcomeKnown(t)' /\ RunningIsRun(t)'
  <2>1. row'[t].status \in {"running", "failed"} \cup Closed
    BY <1>4, <1>5
  <2>2. row'[t].status = "running" => Faulted'
    BY <1>4, <1>5 DEF Closed
  <2> QED BY <1>1, <1>2, <1>3, <1>5, <2>1, <2>2 DEF RunKnown, OutcomeKnown, RunningIsRun, Active, Faulted
<1>10. ASSUME NEW c \in Callers PROVE CallKnown(c)'
  <2>1. CallKnown(c)
    BY DEF IInv
  <2>2. \A u \in Tasks : ~Active(u) => job'[u] = job[u] /\ row'[u] = row[u]
    BY <1>3, <1>4, <1>5 DEF OnlyRun, OnlyRow
  <2> QED BY <1>2, <2>1, <2>2 DEF CallKnown, Active
<1> QED BY <1>6, <1>8, <1>9, <1>10 DEF IInv

LEMMA LeaveKeeps ==
  ASSUME IInv, NEW t \in Tasks, Leave(t)
  PROVE  IInv'
<1>1. RunsTyped /\ RowsTyped /\ MishapTyped /\ CallsTyped /\ RunKnown(t) /\ OutcomeKnown(t) /\ RunningIsRun(t)
  BY DEF IInv
<1>2. /\ job[t].step = "leave" /\ up /\ currentTask' = NoTask /\ cancelFuncs' = cancelFuncs \ {t}
      /\ job' = [job EXCEPT ![t] = NoJob] /\ UNCHANGED <<row, reqs, up, mishap>>
  BY DEF Leave, At
<1>3. RunsTyped' /\ RowsTyped' /\ CallsTyped' /\ MishapTyped'
  BY <1>1, <1>2 DEF RunsTyped, IsRun, RunFields, NoJob, RowsTyped, IsRow, RowFields, CallsTyped, IsCall, CallFields, MishapTyped
<1>4. job'[t] = NoJob /\ \A u \in Tasks : u # t => job'[u] = job[u]
  BY <1>1, <1>2 DEF RunsTyped
<1>5. ~Active(t)' /\ OutcomeKnown(t)'
  BY <1>4 DEF Active, OutcomeKnown, NoJob, Ending
<1>6. currentTask = t
  BY <1>1, <1>2 DEF RunKnown, Active
<1>7. RunKnown(t)' /\ RunningIsRun(t)'
  BY <1>1, <1>2, <1>5 DEF RunKnown, RunningIsRun, RunFields
<1>8. ASSUME NEW u \in Tasks, u # t PROVE RunKnown(u)' /\ OutcomeKnown(u)' /\ RunningIsRun(u)'
  <2>1. RunKnown(u) /\ OutcomeKnown(u) /\ RunningIsRun(u)
    BY DEF IInv
  <2>2. ~Active(u)
    BY <1>6, <1>8, <2>1 DEF RunKnown
  <2> QED BY <1>2, <1>4, <1>8, <2>1, <2>2 DEF RunKnown, OutcomeKnown, RunningIsRun, Active
<1>9. ASSUME NEW c \in Callers PROVE CallKnown(c)'
  <2>1. CallKnown(c)
    BY DEF IInv
  <2> QED BY <1>2, <1>4, <1>5, <2>1 DEF CallKnown, Active
<1> QED BY <1>3, <1>5, <1>7, <1>8, <1>9 DEF IInv

LEMMA CreateKeeps ==
  ASSUME IInv, NEW t \in Tasks, CreateAndRunTask(t)
  PROVE  IInv'
<1>1. RunsTyped /\ RowsTyped /\ MishapTyped /\ CallsTyped
  BY DEF IInv
<1>2. PICK mode \in Modes : job' = [job EXCEPT ![t] = [NoJob EXCEPT !.step = "loop", !.mode = mode]]
  BY DEF CreateAndRunTask
<1>3. /\ up /\ currentTask = NoTask /\ row[t].status = "none" /\ currentTask' = t
      /\ row' = [row EXCEPT ![t].status = "running"] /\ cancelFuncs' = cancelFuncs \cup {t}
      /\ UNCHANGED <<reqs, up, mishap>>
  BY DEF CreateAndRunTask, Registered
<1>4. ~\E u \in Tasks : Active(u)
  <2> SUFFICES ASSUME NEW u \in Tasks, Active(u) PROVE FALSE
    OBVIOUS
  <2>1. currentTask = u
    BY DEF IInv, RunKnown
  <2> QED BY <1>3, <2>1 DEF Tasks, NoTask
<1>5. /\ RowsTyped' /\ row'[t].status = "running" /\ \A u \in Tasks : u # t => row'[u] = row[u]
  BY <1>1, <1>3 DEF RowsTyped, IsRow, RowFields
<1>6. /\ RunsTyped' /\ job'[t].step = "loop" /\ \A u \in Tasks : u # t => job'[u] = job[u]
      /\ job'[t].mode = mode
  BY <1>1, <1>2 DEF RunsTyped, IsRun, RunFields, NoJob
<1>7. CallsTyped' /\ MishapTyped'
  BY <1>1, <1>3 DEF CallsTyped, IsCall, CallFields, MishapTyped
<1>8. RunKnown(t)' /\ OutcomeKnown(t)' /\ RunningIsRun(t)'
  BY <1>3, <1>5, <1>6 DEF RunKnown, OutcomeKnown, RunningIsRun, Active, Ending
<1>9. ASSUME NEW u \in Tasks, u # t PROVE RunKnown(u)' /\ OutcomeKnown(u)' /\ RunningIsRun(u)'
  <2>1. RunKnown(u) /\ OutcomeKnown(u) /\ RunningIsRun(u)
    BY DEF IInv
  <2> QED BY <1>3, <1>4, <1>5, <1>6, <1>9, <2>1 DEF RunKnown, OutcomeKnown, RunningIsRun, Active
<1>10. ASSUME NEW c \in Callers PROVE CallKnown(c)'
  <2>1. CallKnown(c)
    BY DEF IInv
  <2> QED BY <1>3, <1>5, <1>6, <2>1 DEF CallKnown, Active
<1> QED BY <1>5, <1>6, <1>7, <1>8, <1>9, <1>10 DEF IInv
-----------------------------------------------------------------------------
(* Requests, crash and start *)

\* Only the request of c has moved.
OnlyCall(c) == CallsTyped' /\ \A d \in Callers : d # c => reqs'[d] = reqs[d]

LEMMA CallSet ==
  ASSUME CallsTyped, NEW c \in Callers, NEW s, IsCall(s), reqs' = [reqs EXCEPT ![c] = s]
  PROVE  OnlyCall(c) /\ reqs'[c] = s
BY DEF CallsTyped, OnlyCall

LEMMA CallDoes ==
  ASSUME CallsTyped, NEW c \in Callers, NEW step, reqs' = [reqs EXCEPT ![c].step = step]
  PROVE  OnlyCall(c) /\ reqs'[c].step = step /\ reqs'[c].task = reqs[c].task /\ reqs'[c].best = reqs[c].best
BY DEF CallsTyped, IsCall, CallFields, OnlyCall

LEMMA NoCallDoes ==
  ASSUME CallsTyped, NEW c \in Callers, reqs' = [reqs EXCEPT ![c] = NoCall]
  PROVE  OnlyCall(c) /\ reqs'[c].step = "idle" /\ reqs'[c].best = NoPack
<1>1. IsCall(NoCall) /\ NoCall.step = "idle" /\ NoCall.best = NoPack
  BY DEF IsCall, CallFields, NoCall
<1> QED BY <1>1, CallSet

\* A request ends rows of running tasks only: as cancelled where no goroutine
\* is left, or as failed.
LEMMA RequestStep ==
  ASSUME IInv, NEW c \in Callers, UNCHANGED <<currentTask, cancelFuncs, job, up>>, FaultsKept, RowsTyped', OnlyCall(c),
         CallKnown(c)',
         \A t \in Tasks : \/ row'[t].status = row[t].status
                          \/ /\ row[t].status = "running"
                             /\ row'[t].status = "failed" \/ (row'[t].status = "cancelled" /\ ~Active(t))
  PROVE  IInv'
<1>1. RunsTyped' /\ CallsTyped' /\ MishapTyped'
  BY DEF IInv, RunsTyped, IsRun, RunFields, OnlyCall, FaultsKept
<1>2. mishap["fault"] > 0 => mishap'["fault"] > 0
  BY DEF FaultsKept, IInv, MishapTyped
<1>3. ASSUME NEW t \in Tasks PROVE RunKnown(t)' /\ OutcomeKnown(t)' /\ RunningIsRun(t)'
  <2>1. RunKnown(t) /\ OutcomeKnown(t) /\ RunningIsRun(t)
    BY DEF IInv
  <2> QED BY <1>2, <2>1 DEF RunKnown, OutcomeKnown, RunningIsRun, Active, Closed
<1>4. ASSUME NEW d \in Callers, d # c PROVE CallKnown(d)'
  <2>1. CallKnown(d)
    BY DEF IInv
  <2>2. reqs'[d] = reqs[d]
    BY <1>4 DEF OnlyCall
  <2> QED BY <2>1, <2>2 DEF CallKnown, Active
<1> QED BY <1>1, <1>3, <1>4 DEF IInv

LEMMA CancelStarts ==
  ASSUME CallsTyped, NEW c \in Callers, NEW t,
         reqs' = [reqs EXCEPT ![c] = [NoCall EXCEPT !.step = "read", !.task = t]]
  PROVE  OnlyCall(c) /\ reqs'[c].step = "read" /\ reqs'[c].task = t /\ reqs'[c].best = NoPack
<1> DEFINE s == [NoCall EXCEPT !.step = "read", !.task = t]
<1>1. IsCall(s) /\ s.step = "read" /\ s.task = t /\ s.best = NoPack
  BY DEF IsCall, CallFields, NoCall
<1> HIDE DEF s
<1> QED BY <1>1, CallSet DEF s

LEMMA CancelReadsDoes ==
  ASSUME CallsTyped, NEW c \in Callers, CancelReads(c)
  PROVE  LET t == reqs[c].task IN
         /\ OnlyCall(c) /\ reqs'[c].step = (IF Worth(row[t]) THEN "insert" ELSE "update")
         /\ reqs'[c].task = t /\ reqs'[c].best = row[t].best
<1> DEFINE t == reqs[c].task
           step == IF Worth(row[t]) THEN "insert" ELSE "update"
           s == [reqs[c] EXCEPT !.step = step, !.best = row[t].best]
<1> HIDE DEF step
<1>1. reqs' = [reqs EXCEPT ![c] = s]
  BY DEF CancelReads, CallsTyped, step
<1>2. IsCall(s) /\ s.step = step /\ s.task = t /\ s.best = row[t].best
  BY DEF CallsTyped, IsCall, CallFields
<1> HIDE DEF s
<1>3. OnlyCall(c) /\ reqs'[c] = s
  BY <1>1, <1>2, CallSet
<1> QED BY <1>2, <1>3 DEF step

LEMMA RequestKeeps ==
  ASSUME IInv, NEW c \in Callers, Request(c)
  PROVE  IInv'
<1>1. RunsTyped /\ RowsTyped /\ MishapTyped /\ CallsTyped /\ CallKnown(c)
  BY DEF IInv
<1>2. UNCHANGED mishap \/ Mishap("fault") => FaultsKept
  BY <1>1, NoMishap, MishapCounts
<1>3. UNCHANGED row => RowsTyped' /\ \A t \in Tasks : row'[t].status = row[t].status
  BY <1>1 DEF RowsTyped, IsRow, RowFields
<1>4. ASSUME NEW t \in Tasks, CancelTask(c, t) PROVE IInv'
  <2>1. UNCHANGED <<currentTask, cancelFuncs, job, up, row, mishap>>
    BY <1>4 DEF CancelTask, CallOnly
  <2>2. CASE t \in cancelFuncs
    <3>1. UNCHANGED reqs
      BY <1>4, <2>2 DEF CancelTask
    <3>2. OnlyCall(c) /\ CallKnown(c)'
      BY <1>1, <2>1, <3>1 DEF OnlyCall, CallsTyped, IsCall, CallFields, CallKnown, Active
    <3> QED BY <1>2, <1>3, <2>1, <3>2, RequestStep
  <2>3. CASE t \notin cancelFuncs
    <3>1. reqs' = [reqs EXCEPT ![c] = [NoCall EXCEPT !.step = "read", !.task = t]]
      BY <1>4, <2>3 DEF CancelTask
    <3>2. OnlyCall(c) /\ reqs'[c].step = "read" /\ reqs'[c].task = t
      BY <1>1, <3>1, CancelStarts
    <3>3. ~Active(t)
      BY <2>3 DEF IInv, RunKnown
    <3>4. CallKnown(c)'
      BY <1>4, <2>1, <3>2, <3>3 DEF CallKnown, Active, CancelTask
    <3> QED BY <1>2, <1>3, <2>1, <3>2, <3>4, RequestStep
  <2> QED BY <2>2, <2>3
<1>5. CASE CancelReads(c)
  <2>1. UNCHANGED <<currentTask, cancelFuncs, job, up, row, mishap>> /\ reqs[c].step = "read"
    BY <1>5 DEF CancelReads, CallOnly, Called
  <2>2. OnlyCall(c) /\ reqs'[c].task = reqs[c].task
    BY <1>1, <1>5, CancelReadsDoes
  <2>3. CallKnown(c)'
    BY <1>1, <2>1, <2>2 DEF CallKnown, Active
  <2> QED BY <1>2, <1>3, <2>1, <2>2, <2>3, RequestStep
<1>6. CASE CancelInserts(c)
  <2>1. UNCHANGED <<currentTask, cancelFuncs, job, up, row>> /\ reqs[c].step = "insert" /\ FaultsKept
    BY <1>2, <1>6 DEF CancelInserts, CallOnly, Called
  <2>2. \E step \in {"mark", "update"} : reqs' = [reqs EXCEPT ![c].step = step]
    BY <1>6 DEF CancelInserts
  <2>3. OnlyCall(c) /\ reqs'[c].task = reqs[c].task
    BY <1>1, <2>2, CallDoes
  <2>4. CallKnown(c)'
    BY <1>1, <2>1, <2>3 DEF CallKnown, Active
  <2> QED BY <1>3, <2>1, <2>3, <2>4, RequestStep
<1>7. CASE CancelMarks(c)
  <2>1. UNCHANGED <<currentTask, cancelFuncs, job, up>> /\ reqs[c].step = "mark" /\ FaultsKept
    BY <1>2, <1>7 DEF CancelMarks, CallOnly, Called
  <2>2. OnlyCall(c) /\ reqs'[c].task = reqs[c].task
    BY <1>1, <1>7, CallDoes DEF CancelMarks
  <2>3. reqs[c].task \in Tasks
    BY <1>1, <2>1 DEF CallKnown
  <2>4. RowsTyped' /\ \A t \in Tasks : row'[t].status = row[t].status
    <3>1. CASE Result(reqs[c].task, reqs[c].best, TRUE)
      <4>1. OnlyRow(reqs[c].task) /\ row'[reqs[c].task].status = row[reqs[c].task].status
        BY <1>1, <2>3, <3>1, ResultDoes
      <4> QED BY <4>1 DEF OnlyRow
    <3>2. CASE UNCHANGED row
      BY <1>3, <3>2
    <3> QED BY <1>7, <3>1, <3>2 DEF CancelMarks
  <2>5. CallKnown(c)'
    BY <1>1, <2>1, <2>2, <2>3, <2>4 DEF CallKnown, Active
  <2> QED BY <2>1, <2>2, <2>4, <2>5, RequestStep
<1>8. CASE CancelUpdates(c)
  <2>1. /\ UNCHANGED <<currentTask, cancelFuncs, job, up, mishap>> /\ reqs[c].step = "update"
        /\ row' = CancelledIfRunning(reqs[c].task) /\ reqs' = [reqs EXCEPT ![c] = NoCall]
    BY <1>8 DEF CancelUpdates, CallOnly, Called
  <2>2. OnlyCall(c) /\ reqs'[c].step = "idle"
    BY <1>1, <2>1, NoCallDoes
  <2>3. reqs[c].task \in Tasks /\ ~Active(reqs[c].task)
    BY <1>1, <2>1 DEF CallKnown
  <2>4. /\ RowsTyped'
        /\ \A t \in Tasks : \/ row'[t].status = row[t].status
                            \/ row[t].status = "running" /\ row'[t].status = "cancelled" /\ ~Active(t)
    BY <1>1, <2>1, <2>3 DEF CancelledIfRunning, RowsTyped, IsRow, RowFields
  <2>5. CallKnown(c)'
    BY <2>2 DEF CallKnown
  <2> QED BY <1>2, <2>1, <2>2, <2>4, <2>5, RequestStep
<1>9. CASE ListChecks(c)
  <2>1. UNCHANGED <<currentTask, cancelFuncs, job, up, row, mishap>>
    BY <1>9 DEF ListChecks, CallOnly
  <2>2. OnlyCall(c) /\ reqs'[c].step = "sweep"
    BY <1>1, <1>9, CallDoes DEF ListChecks
  <2>3. CallKnown(c)'
    BY <2>2 DEF CallKnown
  <2> QED BY <1>2, <1>3, <2>1, <2>2, <2>3, RequestStep
<1>10. CASE ListSweeps(c)
  <2>1. /\ UNCHANGED <<currentTask, cancelFuncs, job, up, mishap>>
        /\ row' = FailRunning /\ reqs' = [reqs EXCEPT ![c] = NoCall]
    BY <1>10 DEF ListSweeps, CallOnly
  <2>2. OnlyCall(c) /\ CallKnown(c)'
    BY <1>1, <2>1, NoCallDoes DEF CallKnown
  <2>3. RowsTyped' /\ \A t \in Tasks : \/ row'[t].status = row[t].status
                                       \/ row[t].status = "running" /\ row'[t].status = "failed"
    BY <1>1, <2>1, FailDoes
  <2> QED BY <1>2, <2>1, <2>2, <2>3, RequestStep
<1> QED BY <1>4, <1>5, <1>6, <1>7, <1>8, <1>9, <1>10 DEF Request

LEMMA DiesKeeps ==
  ASSUME IInv, Dies
  PROVE  IInv'
<1>1. RowsTyped /\ MishapTyped
  BY DEF IInv
<1>2. /\ up' = FALSE /\ job' = [t \in Tasks |-> NoJob] /\ reqs' = [c \in Callers |-> NoCall] /\ UNCHANGED row
      /\ Mishap("crash")
  BY DEF Dies
<1>3. MishapTyped'
  BY <1>1, <1>2, MishapCounts DEF FaultsKept
<1>4. RowsTyped' /\ RunsTyped' /\ CallsTyped'
  BY <1>1, <1>2 DEF RowsTyped, IsRow, RowFields, RunsTyped, IsRun, RunFields, NoJob, CallsTyped, IsCall, CallFields,
                    NoCall
<1>5. \A t \in Tasks : ~Active(t)' /\ OutcomeKnown(t)' /\ RunningIsRun(t)'
  BY <1>2 DEF Active, OutcomeKnown, RunningIsRun, NoJob, Ending
<1>6. \A c \in Callers : CallKnown(c)'
  BY <1>2 DEF CallKnown, NoCall
<1> QED BY <1>3, <1>4, <1>5, <1>6 DEF IInv, RunKnown

LEMMA RestartKeeps ==
  ASSUME IInv, Restart
  PROVE  IInv'
<1>1. RowsTyped /\ RunsTyped /\ CallsTyped /\ MishapTyped
  BY DEF IInv
<1>2. ~up /\ up' = TRUE /\ UNCHANGED <<currentTask, cancelFuncs, job, reqs>>
  BY DEF Restart
<1>3. /\ RowsTyped' /\ FaultsKept
      /\ \A t \in Tasks : row'[t].status = "running" => mishap'["fault"] > 0
      /\ \A t \in Tasks : row[t].status # "none" => row'[t].status # "none"
  <2>1. CASE row' = RecoverInterruptedTasks /\ UNCHANGED mishap
    <3>1. /\ RowsTyped'
          /\ \A t \in Tasks : row'[t].status = (IF row[t].status = "running" THEN "failed" ELSE row[t].status)
      BY <1>1, <2>1, FailDoes DEF RecoverInterruptedTasks
    <3> QED BY <1>1, <2>1, <3>1, NoMishap
  <2>2. CASE Mishap("fault") /\ UNCHANGED row
    BY <1>1, <2>2, MishapCounts DEF RowsTyped, IsRow, RowFields
  <2> QED BY <2>1, <2>2 DEF Restart
<1>4. RunsTyped' /\ CallsTyped' /\ MishapTyped'
  BY <1>1, <1>2, <1>3 DEF RunsTyped, IsRun, RunFields, CallsTyped, IsCall, CallFields, FaultsKept
<1>5. ASSUME NEW t \in Tasks PROVE RunKnown(t)' /\ OutcomeKnown(t)' /\ RunningIsRun(t)'
  <2>1. RunKnown(t) /\ OutcomeKnown(t)
    BY DEF IInv
  <2> QED BY <1>2, <1>3, <2>1 DEF RunKnown, OutcomeKnown, RunningIsRun, Active
<1>6. ASSUME NEW c \in Callers PROVE CallKnown(c)'
  <2>1. CallKnown(c)
    BY DEF IInv
  <2> QED BY <1>2, <1>3, <2>1 DEF CallKnown, Active
<1> QED BY <1>3, <1>4, <1>5, <1>6 DEF IInv

LEMMA InitHolds == EvolutionInit => IInv
<1> SUFFICES ASSUME EvolutionInit PROVE IInv
  OBVIOUS
<1>1. RowsTyped
  BY DEF EvolutionInit, RowsTyped, IsRow, RowFields, Blank
<1>2. RunsTyped
  BY DEF EvolutionInit, RunsTyped, IsRun, RunFields, NoJob
<1>3. CallsTyped
  BY DEF EvolutionInit, CallsTyped, IsCall, CallFields, NoCall
<1>4. MishapTyped
  BY DEF EvolutionInit, MishapTyped
<1>5. \A t \in Tasks : row[t].status = "none" /\ job[t].step = "none"
  BY DEF EvolutionInit, Blank, NoJob
<1>6. \A c \in Callers : reqs[c].step = "idle"
  BY DEF EvolutionInit, NoCall
<1> QED BY <1>1, <1>2, <1>3, <1>4, <1>5, <1>6
        DEF IInv, RunKnown, OutcomeKnown, RunningIsRun, CallKnown, Active, Ending

LEMMA StepKeeps == IInv /\ [EvolutionNext]_evolutionVars => IInv'
<1> SUFFICES ASSUME IInv, [EvolutionNext]_evolutionVars PROVE IInv'
  OBVIOUS
<1>1. ASSUME NEW t \in Tasks, RunStep(t) PROVE IInv'
  <2>1. CASE Final(t)
    BY <2>1, FinalKeeps
  <2>2. CASE Leave(t)
    BY <2>2, LeaveKeeps
  <2>3. CASE ~Final(t) /\ ~Leave(t)
    BY <1>1, <2>3, Advances, AdvanceKeeps DEF RunStep
  <2> QED BY <2>1, <2>2, <2>3
<1>2. CASE UNCHANGED evolutionVars
  BY <1>2 DEF evolutionVars, IInv, RowsTyped, RunsTyped, CallsTyped, MishapTyped, RunKnown, OutcomeKnown, RunningIsRun,
              CallKnown, Active
<1> QED BY <1>1, <1>2, CreateKeeps, RequestKeeps, DiesKeeps, RestartKeeps DEF EvolutionNext

LEMMA InvHolds == EvolutionSpec => []IInv
BY InitHolds, StepKeeps, PTL DEF EvolutionSpec

\* One search runs at a time, and the service can cancel it (Evolution!OneKnownRun).
THEOREM OneRunIsKnown == EvolutionSpec => []OneKnownRun
<1>1. IInv => OneKnownRun
  BY DEF IInv, RunKnown, OneKnownRun
<1> QED BY <1>1, InvHolds, PTL

\* A row that says running has its goroutine, but for a failed statement
\* (Evolution!RunningHasRun).
THEOREM RunningTasksRun == EvolutionSpec => []RunningHasRun
<1>1. IInv => RunningHasRun
  BY DEF IInv, RunningIsRun, RunningHasRun
<1> QED BY <1>1, InvHolds, PTL

\* Requests and recovery end running rows only, and the last statement of a
\* search finds its row running or failed by a listing (Evolution!EndIsFinal).
THEOREM EndsAreFinal == EvolutionSpec => EndIsFinal
<1> DEFINE EndsKept == \A t \in Tasks : row[t].status \in Closed /\ row'[t].status # row[t].status
                                      => row[t].status = "failed" /\ job[t].step = "final"
<1>1. IInv /\ [EvolutionNext]_evolutionVars => [EndsKept]_evolutionVars
  <2> SUFFICES ASSUME IInv, EvolutionNext, NEW t \in Tasks, row[t].status \in Closed, row'[t].status # row[t].status
               PROVE  row[t].status = "failed" /\ job[t].step = "final"
    OBVIOUS
  <2>1. RowsTyped /\ RunsTyped /\ MishapTyped /\ CallsTyped
    BY DEF IInv
  <2>2. row[t].status # "running" /\ row[t].status # "none"
    BY DEF Closed
  <2>3. ~ \E u \in Tasks : CreateAndRunTask(u)
    BY <2>1, <2>2 DEF CreateAndRunTask, RowsTyped, IsRow, RowFields
  <2>4. ASSUME NEW u \in Tasks, RunStep(u) PROVE u = t /\ Final(t)
    <3>1. CASE Final(u)
      <4>1. row'[t] = row[t] \/ u = t
        BY <2>1, <3>1 DEF Final, RowsTyped
      <4> QED BY <3>1, <4>1
    <3>2. CASE Leave(u)
      BY <3>2 DEF Leave
    <3>3. CASE ~Final(u) /\ ~Leave(u)
      <4>1. Advance(u)
        BY <2>4, <3>3, Advances DEF RunStep
      <4> QED BY <4>1 DEF Advance, OnlyRow
    <3> QED BY <3>1, <3>2, <3>3
  <2>5. ~ \E c \in Callers : Request(c)
    <3> SUFFICES ASSUME NEW c \in Callers, Request(c) PROVE FALSE
      OBVIOUS
    <3>1. CallKnown(c)
      BY DEF IInv
    <3>2. UNCHANGED row \/ CancelMarks(c) \/ CancelUpdates(c) \/ ListSweeps(c)
      BY DEF Request, CancelTask, CancelReads, CancelInserts, ListChecks
    <3>3. ~CancelMarks(c)
      <4> SUFFICES ASSUME CancelMarks(c) PROVE FALSE
        OBVIOUS
      <4>1. reqs[c].task \in Tasks
        BY <3>1 DEF CancelMarks, CallKnown, Called
      <4>2. ~Result(reqs[c].task, reqs[c].best, TRUE)
        BY <2>1, <4>1, ResultDoes DEF OnlyRow
      <4> QED BY <4>2 DEF CancelMarks
    <3>4. ~CancelUpdates(c)
      BY <2>1, <2>2 DEF CancelUpdates, CancelledIfRunning, RowsTyped, IsRow, RowFields
    <3>5. ~ListSweeps(c)
      BY <2>1, <2>2, FailDoes DEF ListSweeps
    <3> QED BY <3>2, <3>3, <3>4, <3>5
  <2>6. ~Dies
    BY DEF Dies
  <2>7. ~Restart
    BY <2>1, <2>2, FailDoes DEF Restart, RecoverInterruptedTasks
  <2>8. Final(t)
    BY <2>3, <2>4, <2>5, <2>6, <2>7 DEF EvolutionNext
  <2>9. job[t].step = "final" /\ RunKnown(t)
    BY <2>8 DEF Final, At, IInv
  <2> QED BY <2>2, <2>9 DEF RunKnown, Active
<1> QED BY <1>1, InvHolds, PTL DEF EvolutionSpec, EndIsFinal
-----------------------------------------------------------------------------
(* The best pack of a cancelled task *)

\* What a step of another leaves of a task: its records only grow, and a
\* failure is not forgotten.
Grows == /\ genes' = [t \in Tasks |-> genes'[t]]
         /\ \A t \in Tasks : /\ genes'[t] \in [1..Iterations -> Nat]
                             /\ \A p \in 1..Iterations : genes'[t][p] >= genes[t][p]
         /\ Faulted => Faulted'

LEMMA GrowsKeeps ==
  ASSUME Grows, NEW t \in Tasks, NEW pack \in Packs, Kept(t, pack), Iterations \in Nat, PacksTyped
  PROVE  Kept(t, pack)'
<1>1. CASE pack = NoPack
  BY <1>1 DEF Kept
<1>2. CASE pack # NoPack
  <2>1. pack \in 1..Iterations
    BY <1>2 DEF Packs, NoPack
  <2>2. genes'[t][pack] >= genes[t][pack] /\ genes'[t][pack] \in Nat /\ genes[t][pack] \in Nat
    BY <2>1 DEF Grows, PacksTyped
  <2>3. genes[t][pack] > 0
    BY <1>2 DEF Kept
  <2>4. genes'[t][pack] > 0
    BY <2>2, <2>3
  <2> QED BY <2>4 DEF Kept
<1> QED BY <1>1, <1>2

LEMMA SameGenes ==
  ASSUME PacksTyped, UNCHANGED genes, Faulted => Faulted', Iterations \in Nat
  PROVE  Grows
<1>1. \A t \in Tasks, p \in 1..Iterations : genes[t][p] \in Nat
  BY DEF PacksTyped
<1> QED BY <1>1 DEF PacksTyped, Grows

LEMMA OneMore ==
  ASSUME PacksTyped, NEW t \in Tasks, NEW p \in 1..Iterations, genes' = [genes EXCEPT ![t][p] = @ + 1],
         Faulted => Faulted', Iterations \in Nat
  PROVE  Grows /\ genes'[t][p] > 0
<1>1. genes[t] \in [1..Iterations -> Nat] /\ \A u \in Tasks : genes[u] \in [1..Iterations -> Nat]
  BY DEF PacksTyped
<1>2. genes[t][p] \in Nat
  BY <1>1
<1>3. genes'[t] = [genes[t] EXCEPT ![p] = genes[t][p] + 1] /\ \A u \in Tasks : u # t => genes'[u] = genes[u]
  BY DEF PacksTyped
<1>4. genes'[t] \in [1..Iterations -> Nat] /\ genes'[t][p] = genes[t][p] + 1
      /\ \A q \in 1..Iterations : q # p => genes'[t][q] = genes[t][q]
  BY <1>1, <1>2, <1>3
<1>5. \A u \in Tasks, q \in 1..Iterations : genes[u][q] \in Nat
  BY <1>1
<1>6. \A u \in Tasks : genes'[u] \in [1..Iterations -> Nat]
  BY <1>1, <1>3, <1>4
<1>7. \A u \in Tasks, q \in 1..Iterations : genes'[u][q] >= genes[u][q]
  BY <1>2, <1>3, <1>4, <1>5
<1>8. genes' = [u \in Tasks |-> genes'[u]]
  BY DEF PacksTyped
<1>9. genes'[t][p] > 0
  BY <1>2, <1>4
<1> QED BY <1>6, <1>7, <1>8, <1>9 DEF Grows

\* The packs of task t are in order after the step: those of its row and of
\* its goroutine.
TaskOK(t) ==
  /\ row[t].best \in Packs /\ row[t].gene \in BOOLEAN
  /\ job[t].last \in Packs /\ job[t].iteration \in Packs
  /\ job[t].step = "evolve" => job[t].iteration # 0
  /\ RowKept(t) /\ RunKept(t)

CallOK(c) == reqs[c].best \in Packs /\ CallKept(c)

LEMMA BestParts ==
  BestInv <=> /\ genes = [t \in Tasks |-> genes[t]] /\ \A t \in Tasks : genes[t] \in [1..Iterations -> Nat]
              /\ \A t \in Tasks : TaskOK(t)
              /\ \A c \in Callers : CallOK(c)
BY DEF BestInv, PacksTyped, TaskOK, CallOK

LEMMA BestPartsNext ==
  BestInv' <=> /\ genes' = [t \in Tasks |-> genes'[t]] /\ \A t \in Tasks : genes'[t] \in [1..Iterations -> Nat]
               /\ \A t \in Tasks : TaskOK(t)'
               /\ \A c \in Callers : CallOK(c)'
BY DEF BestInv, PacksTyped, TaskOK, CallOK

LEMMA TaskStays ==
  ASSUME BestInv, Grows, Iterations \in Nat, NEW t \in Tasks, job'[t] = job[t],
         row'[t].best = row[t].best, row'[t].gene = row[t].gene,
         row'[t].status = "cancelled" => row[t].status = "cancelled" \/ ~Worth(row[t]) \/ Faulted
  PROVE  TaskOK(t)'
<1>1. TaskOK(t) /\ PacksTyped
  BY BestParts DEF BestInv
<1>2. \A p \in Packs : Kept(t, p) => Kept(t, p)'
  BY <1>1, GrowsKeeps
<1>3. Worth(row'[t]) <=> Worth(row[t])
  BY DEF Worth
<1>4. RowKept(t)'
  <2>1. row'[t].gene => Kept(t, row[t].best)'
    BY <1>1, <1>2 DEF TaskOK, RowKept
  <2>2. row'[t].status = "cancelled" => ~Worth(row'[t]) \/ Faulted'
    BY <1>1, <1>3 DEF TaskOK, RowKept, Grows
  <2> QED BY <2>1, <2>2 DEF RowKept
<1>5. RunKept(t)'
  BY <1>1, <1>2, <1>3 DEF TaskOK, RunKept, Grows, Kept
<1> QED BY <1>1, <1>4, <1>5 DEF TaskOK

LEMMA CallStays ==
  ASSUME BestInv, IInv, Grows, Iterations \in Nat, NEW c \in Callers, reqs'[c] = reqs[c],
         reqs[c].step = "update" => (Worth(row'[reqs[c].task]) => (Worth(row[reqs[c].task]) \/ Faulted'))
  PROVE  CallOK(c)'
<1>1. CallOK(c) /\ PacksTyped /\ CallKnown(c)
  BY BestParts DEF BestInv, IInv
<1>2. reqs[c].step = "mark" => Kept(reqs[c].task, reqs[c].best)'
  <2>1. reqs[c].step = "mark" => reqs[c].task \in Tasks /\ reqs[c].best \in Packs /\ Kept(reqs[c].task, reqs[c].best)
    BY <1>1 DEF CallOK, CallKept, CallKnown
  <2> QED BY <1>1, <2>1, GrowsKeeps
<1>3. CallKept(c)'
  BY <1>1, <1>2 DEF CallOK, CallKept, Kept, Grows
<1> QED BY <1>1, <1>3 DEF CallOK

\* A step of the goroutine of t.
LEMMA RunBest ==
  ASSUME IInv, BestInv, Iterations \in Nat, NEW t \in Tasks, OnlyRun(t), OnlyRow(t), Grows, UNCHANGED reqs,
         Active(t) \/ row[t].status = "none", TaskOK(t)'
  PROVE  BestInv'
<1>1. ASSUME NEW u \in Tasks, u # t PROVE TaskOK(u)'
  <2>1. job'[u] = job[u] /\ row'[u] = row[u]
    BY <1>1 DEF OnlyRun, OnlyRow
  <2> QED BY <2>1, TaskStays
<1>2. ASSUME NEW c \in Callers PROVE CallOK(c)'
  <2>1. CallKnown(c)
    BY DEF IInv
  <2>2. reqs[c].step = "update" => row'[reqs[c].task] = row[reqs[c].task]
    BY <2>1 DEF CallKnown, OnlyRow
  <2> QED BY <2>2, CallStays
<1> QED BY <1>1, <1>2, BestPartsNext DEF Grows

\* Iterations, ContinuousIterations of a request, is validated to be at least 1.
LEMMA RunStepBest ==
  ASSUME IInv, BestInv, Iterations \in Nat \ {0}, NEW t \in Tasks, RunStep(t)
  PROVE  BestInv'
<1>1. /\ RunsTyped /\ RowsTyped /\ MishapTyped /\ PacksTyped
      /\ RunKnown(t) /\ TaskOK(t) /\ Iterations \in Nat
  BY BestParts DEF IInv, BestInv
<1>2. UNCHANGED mishap \/ Mishap("fault") => (Faulted => Faulted')
  BY <1>1, NoMishap, MishapCounts DEF FaultsKept, MishapTyped, Faulted
<1>3. Mishap("fault") => Faulted'
  BY <1>1, MishapCounts DEF Faulted
<1>4. UNCHANGED row => OnlyRow(t) /\ row'[t] = row[t]
  BY <1>1, SameRow
<1>5. \A p \in Packs : Grows /\ Kept(t, p) => Kept(t, p)'
  BY <1>1, GrowsKeeps
<1>6. UNCHANGED genes /\ (UNCHANGED mishap \/ Mishap("fault")) => Grows
  BY <1>1, <1>2, SameGenes
<1>7. /\ row[t].best \in Packs /\ row[t].gene \in BOOLEAN /\ job[t].last \in Packs /\ job[t].iteration \in Packs
      /\ RowKept(t) /\ RunKept(t) /\ (job[t].step = "evolve" => job[t].iteration # 0)
  BY <1>1 DEF TaskOK
<1>8. job[t].step \notin {"none", "leave"} => row[t].status # "cancelled"
  BY <1>1 DEF RunKnown, Active
<1>9. NoPack \in Packs /\ Packs \subseteq Nat
  BY DEF Packs, NoPack
\* Steps that leave the row.
<1>10. ASSUME UNCHANGED row, Grows, OnlyRun(t), UNCHANGED reqs, Active(t),
              job'[t].last \in Packs, job'[t].iteration \in Packs, job'[t].step = "evolve" => job'[t].iteration # 0,
              RunKept(t)'
       PROVE  BestInv'
  <2>1. OnlyRow(t) /\ row'[t] = row[t]
    BY <1>4, <1>10
  <2>2. RowKept(t)'
    <3>1. row'[t].gene => Kept(t, row[t].best)'
      BY <1>5, <1>7, <1>10, <2>1 DEF RowKept
    <3>2. row'[t].status = "cancelled" => ~Worth(row'[t]) \/ Faulted'
      BY <1>7, <1>10, <2>1 DEF RowKept, Grows
    <3> QED BY <3>1, <3>2 DEF RowKept
  <2>3. TaskOK(t)'
    BY <1>7, <1>10, <2>1, <2>2 DEF TaskOK
  <2> QED BY <1>1, <1>10, <2>1, <2>3, RunBest
\* A run that stops has saved what it found, unless it is cancelled.
<1>11. ASSUME NEW outcome \in {"cancelled", "failed"}, Stops(t, outcome), UNCHANGED <<row, genes, mishap, reqs>>,
              Active(t), job[t].step \notin {"insert", "read", "mark", "final"}, job[t].outcome # "cancelled"
       PROVE  BestInv'
  <2>1. /\ OnlyRun(t) /\ job'[t].step = (IF outcome = "cancelled" THEN "read" ELSE "final")
        /\ job'[t].outcome = outcome /\ job'[t].last = job[t].last /\ job'[t].iteration = job[t].iteration
    BY <1>1, <1>11, StopsDoes
  <2>2. Grows
    BY <1>6, <1>11
  <2>3. Kept(t, job[t].last)'
    BY <1>5, <1>7, <1>11, <2>2, <2>1 DEF RunKept, Ending
  <2>4. RunKept(t)'
    BY <1>11, <2>1, <2>3 DEF RunKept, Ending
  <2> QED BY <1>7, <1>10, <1>11, <2>1, <2>2, <2>4
<1> USE DEF RunOnly, At, Active
<1>12. CASE Loop(t)
  <2>1. Grows /\ UNCHANGED <<row, reqs, genes, mishap>> /\ job[t].step = "loop"
    BY <1>6, <1>12 DEF Loop
  <2>0. job[t].outcome # "cancelled"
    BY <1>7, <2>1 DEF RunKept, Ending
  <2>2. CASE Stops(t, "cancelled")
    BY <1>11, <2>0, <2>1, <2>2
  <2>3. CASE job' = [job EXCEPT ![t].step = IF job[t].mode = "single" THEN "final" ELSE "snapshot",
                                ![t].outcome = "done"]
    <3>1. /\ OnlyRun(t) /\ job'[t].step \in {"final", "snapshot"} /\ job'[t].outcome = "done"
          /\ job'[t].last = job[t].last /\ job'[t].iteration = job[t].iteration
      BY <1>1, <2>3, LoopEndsDoes
    <3>2. Kept(t, job[t].last)'
      BY <1>5, <1>7, <2>0, <2>1, <3>1 DEF RunKept, Ending
    <3>3. RunKept(t)'
      BY <3>1, <3>2 DEF RunKept, Ending
    <3> QED BY <1>7, <1>10, <2>1, <3>1, <3>3
  <2>4. CASE /\ ~(job[t].iteration >= Planned(t))
             /\ job' = [job EXCEPT ![t].step = "evolve", ![t].iteration = @ + 1, ![t].generation = 0]
    <3>1. /\ OnlyRun(t) /\ job'[t].step = "evolve" /\ job'[t].iteration = job[t].iteration + 1
          /\ job'[t].last = job[t].last /\ job'[t].outcome = job[t].outcome
      BY <1>1, <2>4, RoundDoes
    <3>2. job[t].iteration < Iterations
      BY <1>1, <1>7, <2>4 DEF Planned, Packs
    <3>3. job'[t].iteration \in Packs /\ job'[t].iteration # 0
      BY <1>1, <1>7, <3>1, <3>2 DEF Packs
    <3>4. Kept(t, job[t].last)'
      BY <1>5, <1>7, <2>0, <2>1, <3>1 DEF RunKept, Ending
    <3>5. RunKept(t)'
      BY <2>0, <3>1, <3>4 DEF RunKept, Ending
    <3> QED BY <1>7, <1>10, <2>1, <3>1, <3>3, <3>5
  <2> QED BY <1>12, <2>2, <2>3, <2>4 DEF Loop
<1>13. CASE Generation(t)
  <2>1. Grows /\ UNCHANGED <<reqs, genes, mishap>> /\ job[t].step = "evolve"
    BY <1>6, <1>13 DEF Generation
  <2>0. job[t].outcome # "cancelled"
    BY <1>7, <2>1 DEF RunKept, Ending
  <2>2. CASE Stops(t, "cancelled") /\ UNCHANGED row
    BY <1>11, <2>0, <2>1, <2>2
  <2>3. CASE job' = [job EXCEPT ![t].generation = @ + 1] /\ Result(t, job[t].iteration, FALSE)
    <3>1. /\ OnlyRun(t) /\ job'[t].step = "evolve" /\ job'[t].last = job[t].last
          /\ job'[t].iteration = job[t].iteration /\ job'[t].outcome = job[t].outcome
      BY <1>1, <2>1, <2>3 DEF OnlyRun, RunsTyped, IsRun, RunFields
    <3>2. /\ OnlyRow(t) /\ row'[t].status = row[t].status /\ row'[t].best = job[t].iteration
          /\ row'[t].gene = FALSE
      BY <1>1, <2>3, ResultDoes
    <3>3. Kept(t, job[t].last)'
      BY <1>5, <1>7, <2>0, <2>1, <3>1 DEF RunKept, Ending
    <3>4. RunKept(t)' /\ RowKept(t)'
      BY <1>8, <2>0, <2>1, <3>1, <3>2, <3>3 DEF RunKept, Ending, RowKept
    <3>5. TaskOK(t)'
      BY <1>7, <2>1, <3>1, <3>2, <3>4 DEF TaskOK
    <3> QED BY <1>1, <2>1, <3>1, <3>2, <3>5, RunBest
  <2> QED BY <1>13, <2>2, <2>3 DEF Generation
<1>14. CASE ProgressFails(t)
  <2>1. Grows /\ UNCHANGED <<row, reqs, genes>> /\ job[t].step = "evolve"
    BY <1>6, <1>14 DEF ProgressFails
  <2>2. /\ OnlyRun(t) /\ job'[t].step = "evolve" /\ job'[t].last = job[t].last
        /\ job'[t].iteration = job[t].iteration /\ job'[t].outcome = job[t].outcome
    BY <1>1, <1>14, <2>1 DEF ProgressFails, OnlyRun, RunsTyped, IsRun, RunFields
  <2>3. job[t].outcome # "cancelled" => Kept(t, job[t].last)'
    BY <1>5, <1>7, <2>1, <2>2 DEF RunKept, Ending
  <2>4. RunKept(t)'
    BY <1>7, <2>1, <2>2, <2>3 DEF RunKept, Ending
  <2> QED BY <1>7, <1>10, <2>1, <2>2, <2>4
<1>15. CASE EpochFails(t)
  <2>1. UNCHANGED <<row, reqs, genes, mishap>> /\ job[t].step = "evolve"
    BY <1>15 DEF EpochFails
  <2>2. \E outcome \in {"cancelled", "failed"} : Stops(t, outcome)
    BY <1>15 DEF EpochFails
  <2> QED BY <1>7, <1>11, <2>1, <2>2 DEF RunKept, Ending
<1>16. CASE EpochSaves(t)
  <2>1. UNCHANGED <<row, reqs, mishap>> /\ job[t].step = "evolve"
    BY <1>16 DEF EpochSaves
  <2>2. job[t].iteration \in 1..Iterations
    BY <1>1, <1>7, <2>1 DEF Packs
  <2>3. genes' = [genes EXCEPT ![t][job[t].iteration] = @ + 1]
    BY <1>16 DEF EpochSaves
  <2>4. Grows /\ genes'[t][job[t].iteration] > 0
    BY <1>1, <1>2, <2>1, <2>2, <2>3, OneMore
  <2>5. /\ OnlyRun(t) /\ job'[t].step \in {"loop", "snapshot", "champion"}
        /\ job'[t].last = job[t].iteration /\ job'[t].iteration = job[t].iteration
        /\ job'[t].outcome = job[t].outcome
    BY <1>1, <1>16, EpochSavesDoes
  <2>6. RunKept(t)'
    BY <1>7, <2>1, <2>4, <2>5 DEF RunKept, Ending, Kept
  <2> QED BY <1>7, <1>10, <2>1, <2>4, <2>5, <2>6
<1>17. CASE RefreshChampion(t)
  <2>1. Grows /\ UNCHANGED <<row, reqs, genes, mishap>> /\ job[t].step = "champion"
    BY <1>6, <1>17 DEF RefreshChampion
  <2>2. CASE Goto(t, "snapshot")
    <3>1. /\ OnlyRun(t) /\ job'[t].step = "snapshot" /\ job'[t].last = job[t].last
          /\ job'[t].iteration = job[t].iteration /\ job'[t].outcome = job[t].outcome
      BY <1>1, <2>2, GotoDoes
    <3>2. job[t].outcome # "cancelled" => Kept(t, job[t].last)'
      BY <1>5, <1>7, <2>1, <3>1 DEF RunKept, Ending
    <3>3. RunKept(t)'
      BY <1>7, <2>1, <3>1, <3>2 DEF RunKept, Ending
    <3> QED BY <1>7, <1>10, <2>1, <3>1, <3>3
  <2>3. CASE \E outcome \in {"cancelled", "failed"} : Stops(t, outcome)
    BY <1>7, <1>11, <2>1, <2>3 DEF RunKept, Ending
  <2> QED BY <1>17, <2>2, <2>3 DEF RefreshChampion
<1>18. CASE Snapshot(t)
  <2>1. UNCHANGED <<reqs, genes>> /\ job[t].step = "snapshot" /\ Grows
    BY <1>6, <1>18 DEF Snapshot
  <2>2. /\ OnlyRun(t) /\ job'[t].step = (IF job[t].outcome = "done" THEN "final" ELSE "loop")
        /\ job'[t].last = job[t].last /\ job'[t].iteration = job[t].iteration
        /\ job'[t].outcome = job[t].outcome
    BY <1>1, <1>18, GotoDoes DEF Snapshot
  <2>3. job[t].outcome # "cancelled"
    BY <1>7, <2>1 DEF RunKept, Ending
  <2>4. Kept(t, job[t].last)'
    BY <1>5, <1>7, <2>1, <2>3, <2>2 DEF RunKept
  <2>5. RunKept(t)'
    BY <2>2, <2>3, <2>4 DEF RunKept
  <2>6. CASE Result(t, job[t].last, TRUE)
    <3>1. /\ OnlyRow(t) /\ row'[t].status = row[t].status /\ row'[t].best = job[t].last /\ row'[t].gene = TRUE
      BY <1>1, <2>6, ResultDoes
    <3>2. row'[t].best = job'[t].last /\ job'[t].outcome # "cancelled"
      BY <2>2, <2>3, <3>1
    <3>3. RowKept(t)'
      BY <1>8, <2>1, <2>5, <3>1, <3>2 DEF RunKept, RowKept
    <3>4. TaskOK(t)'
      BY <1>7, <2>2, <2>5, <3>1, <3>3 DEF TaskOK
    <3> QED BY <1>1, <2>1, <2>2, <3>1, <3>4, RunBest
  <2>7. CASE UNCHANGED row
    BY <1>7, <1>10, <2>1, <2>2, <2>5, <2>7
  <2> QED BY <1>18, <2>6, <2>7 DEF Snapshot
<1>19. CASE SaveReads(t)
  <2>1. Grows /\ UNCHANGED <<row, reqs, genes, mishap>> /\ job[t].step = "read"
    BY <1>6, <1>19 DEF SaveReads
  <2>2. /\ OnlyRun(t) /\ job'[t].step = (IF Worth(row[t]) THEN "insert" ELSE "final")
        /\ job'[t].last = row[t].best /\ job'[t].iteration = job[t].iteration
        /\ job'[t].outcome = job[t].outcome
    BY <1>1, <1>19, SaveReadsDoes
  <2>3. job[t].outcome = "cancelled"
    BY <1>7, <2>1 DEF RunKept
  <2>4. Worth(row[t]) => row[t].best # NoPack
    BY DEF Worth
  <2>5. RunKept(t)'
    BY <2>1, <2>2, <2>3, <2>4 DEF RunKept, Ending
  <2> QED BY <1>7, <1>10, <2>1, <2>2, <2>5
<1>20. CASE SaveInserts(t)
  <2>1. UNCHANGED <<row, reqs>> /\ job[t].step = "insert" /\ job[t].outcome = "cancelled" /\ job[t].last # NoPack
    BY <1>7, <1>20 DEF SaveInserts, RunKept
  <2>2. job[t].last \in 1..Iterations
    BY <1>1, <1>7, <2>1 DEF Packs, NoPack
  <2>3. CASE genes' = [genes EXCEPT ![t][job[t].last] = @ + 1] /\ Goto(t, "mark") /\ UNCHANGED mishap
    <3>1. Grows /\ genes'[t][job[t].last] > 0
      BY <1>1, <1>2, <2>2, <2>3, OneMore
    <3>2. /\ OnlyRun(t) /\ job'[t].step = "mark" /\ job'[t].last = job[t].last
          /\ job'[t].iteration = job[t].iteration /\ job'[t].outcome = job[t].outcome
      BY <1>1, <2>3, GotoDoes
    <3>3. RunKept(t)'
      BY <2>1, <3>1, <3>2 DEF RunKept, Kept, Ending
    <3> QED BY <1>7, <1>10, <2>1, <3>1, <3>2, <3>3
  <2>4. CASE Mishap("fault") /\ Goto(t, "final") /\ UNCHANGED genes
    <3>1. Grows /\ Faulted'
      BY <1>3, <1>6, <2>4
    <3>2. /\ OnlyRun(t) /\ job'[t].step = "final" /\ job'[t].last = job[t].last
          /\ job'[t].iteration = job[t].iteration /\ job'[t].outcome = job[t].outcome
      BY <1>1, <2>4, GotoDoes
    <3>3. RunKept(t)'
      BY <2>1, <3>1, <3>2 DEF RunKept, Ending
    <3> QED BY <1>7, <1>10, <2>1, <3>1, <3>2, <3>3
  <2> QED BY <1>20, <2>3, <2>4 DEF SaveInserts
<1>21. CASE SaveMarks(t)
  <2>1. UNCHANGED <<reqs, genes>> /\ job[t].step = "mark" /\ job[t].outcome = "cancelled" /\ Grows
    BY <1>6, <1>7, <1>21 DEF SaveMarks, RunKept
  <2>2. /\ OnlyRun(t) /\ job'[t].step = "final" /\ job'[t].last = job[t].last
        /\ job'[t].iteration = job[t].iteration /\ job'[t].outcome = job[t].outcome
    BY <1>1, <1>21, GotoDoes DEF SaveMarks
  <2>3. Kept(t, job[t].last)'
    BY <1>5, <1>7, <2>1, <2>2 DEF RunKept
  <2>4. CASE Result(t, job[t].last, TRUE)
    <3>1. /\ OnlyRow(t) /\ row'[t].status = row[t].status /\ row'[t].best = job[t].last /\ row'[t].gene = TRUE
      BY <1>1, <2>4, ResultDoes
    <3>2. ~Worth(row'[t])
      BY <3>1 DEF Worth
    <3>3. Kept(t, row[t].best)'
      <4>1. row'[t].best = job'[t].last
        BY <2>2, <3>1
      <4> QED BY <2>3, <4>1 DEF Kept
    <3>4. RowKept(t)' /\ RunKept(t)'
      BY <1>8, <2>1, <2>2, <3>1, <3>2, <3>3 DEF RowKept, RunKept, Ending
    <3>5. TaskOK(t)'
      BY <1>7, <2>2, <3>1, <3>4 DEF TaskOK
    <3> QED BY <1>1, <2>1, <2>2, <3>1, <3>5, RunBest
  <2>5. CASE Mishap("fault") /\ UNCHANGED row
    <3>1. Faulted'
      BY <1>3, <2>5
    <3>2. RunKept(t)'
      BY <2>1, <2>2, <3>1 DEF RunKept, Ending
    <3> QED BY <1>7, <1>10, <2>1, <2>2, <2>5, <3>2
  <2> QED BY <1>21, <2>4, <2>5 DEF SaveMarks
<1>22. CASE Final(t)
  <2>1. UNCHANGED <<reqs, genes>> /\ job[t].step = "final" /\ Grows
    BY <1>6, <1>22 DEF Final
  <2>2. /\ OnlyRun(t) /\ job'[t].step = "leave" /\ job'[t].last = job[t].last
        /\ job'[t].iteration = job[t].iteration /\ job'[t].outcome = job[t].outcome
    BY <1>1, <1>22, GotoDoes DEF Final
  <2>3. job[t].outcome # "cancelled" => Kept(t, job[t].last)'
    BY <1>5, <1>7, <2>1, <2>2 DEF RunKept
  <2>4. RunKept(t)'
    BY <2>2, <2>3 DEF RunKept, Ending
  <2>5. CASE UNCHANGED row
    BY <1>7, <1>10, <2>1, <2>2, <2>4, <2>5
  <2>6. CASE ~UNCHANGED row
    <3>0. row' = [row EXCEPT ![t].status = job[t].outcome,
                             ![t].best = IF job[t].mode = "single" /\ job[t].outcome = "done" THEN job[t].last ELSE @,
                             ![t].gene = IF job[t].mode = "single" /\ job[t].outcome = "done" THEN TRUE ELSE @]
      BY <1>22, <2>6 DEF Final
    <3>1. /\ OnlyRow(t) /\ row'[t].status = job[t].outcome
          /\ \/ row'[t].best = row[t].best /\ row'[t].gene = row[t].gene
             \/ job[t].outcome = "done" /\ row'[t].best = job[t].last /\ row'[t].gene = TRUE
      BY <1>1, <3>0, FinalDoes
    <3>2. row'[t].best \in Packs /\ row'[t].gene \in BOOLEAN
      BY <1>7, <3>1
    <3>3. row'[t].gene => Kept(t, row[t].best)'
      <4>1. CASE row'[t].best = row[t].best /\ row'[t].gene = row[t].gene
        BY <1>5, <1>7, <2>1, <4>1 DEF RowKept
      <4>2. CASE job[t].outcome = "done" /\ row'[t].best = job[t].last
        <5>1. Kept(t, job[t].last)' /\ row'[t].best = job'[t].last
          BY <2>2, <2>3, <4>2
        <5> QED BY <5>1 DEF Kept
      <4> QED BY <3>1, <4>1, <4>2
    <3>4. row'[t].status = "cancelled" => ~Worth(row'[t]) \/ Faulted'
      <4>1. job[t].outcome = "cancelled" => ~Worth(row[t]) \/ Faulted
        BY <1>7, <2>1 DEF RunKept
      <4>2. job[t].outcome = "cancelled" => (Worth(row'[t]) <=> Worth(row[t]))
        BY <3>1 DEF Worth
      <4> QED BY <2>1, <3>1, <4>1, <4>2 DEF Grows
    <3>5. TaskOK(t)'
      BY <1>7, <2>2, <2>4, <3>2, <3>3, <3>4 DEF TaskOK, RowKept
    <3> QED BY <1>1, <2>1, <2>2, <3>1, <3>5, RunBest
  <2> QED BY <2>5, <2>6
<1>23. CASE Leave(t)
  <2>1. UNCHANGED <<row, reqs, genes, mishap>> /\ Grows /\ job[t].step = "leave"
    BY <1>6, <1>23 DEF Leave
  <2>2. job' = [job EXCEPT ![t] = NoJob] /\ IsRun(NoJob)
    BY <1>23 DEF Leave, IsRun, RunFields, NoJob
  <2>3. OnlyRun(t) /\ job'[t] = NoJob
    BY <1>1, <2>2, RunSet
  <2>4. RunKept(t)' /\ job'[t].last = NoPack /\ job'[t].iteration = 0 /\ job'[t].step = "none"
    BY <2>3 DEF RunKept, Kept, NoJob, Ending
  <2> QED BY <1>9, <1>10, <2>1, <2>3, <2>4 DEF NoPack
<1> QED BY <1>12, <1>13, <1>14, <1>15, <1>16, <1>17, <1>18, <1>19, <1>20, <1>21, <1>22, <1>23 DEF RunStep

LEMMA CreateBest ==
  ASSUME IInv, BestInv, Iterations \in Nat \ {0}, NEW t \in Tasks, CreateAndRunTask(t)
  PROVE  BestInv'
<1>1. RunsTyped /\ RowsTyped /\ PacksTyped /\ TaskOK(t) /\ Iterations \in Nat
  BY BestParts DEF IInv, BestInv
<1>2. PICK mode \in Modes : job' = [job EXCEPT ![t] = [NoJob EXCEPT !.step = "loop", !.mode = mode]]
  BY DEF CreateAndRunTask
<1>3. /\ row[t].status = "none" /\ row' = [row EXCEPT ![t].status = "running"] /\ UNCHANGED <<reqs, genes, mishap>>
  BY DEF CreateAndRunTask
<1>4. Grows
  BY <1>1, <1>3, SameGenes DEF Faulted
<1> DEFINE s == [NoJob EXCEPT !.step = "loop", !.mode = mode]
<1>5. IsRun(s) /\ s.step = "loop" /\ s.last = NoPack /\ s.iteration = 0 /\ s.outcome = "none"
  BY DEF IsRun, RunFields, NoJob
<1> HIDE DEF s
<1>6. OnlyRun(t) /\ job'[t] = s
  BY <1>1, <1>2, <1>5, RunSet DEF s
<1>7. /\ OnlyRow(t) /\ row'[t].status = "running" /\ row'[t].best = row[t].best /\ row'[t].gene = row[t].gene
  BY <1>1, <1>3 DEF OnlyRow, RowsTyped, IsRow, RowFields
<1>8. RowKept(t)'
  <2>1. row[t].gene => Kept(t, row[t].best)
    BY <1>1 DEF TaskOK, RowKept
  <2>2. row[t].gene => Kept(t, row[t].best)'
    BY <1>3, <1>7, <2>1 DEF Kept
  <2> QED BY <1>7, <2>2 DEF RowKept
<1>9. TaskOK(t)'
  <2>1. NoPack \in Packs /\ 0 \in Packs
    BY <1>1 DEF Packs, NoPack
  <2>2. RunKept(t)'
    BY <1>5, <1>6 DEF RunKept, Kept, Ending
  <2> QED BY <1>1, <1>5, <1>6, <1>7, <1>8, <2>1, <2>2 DEF TaskOK
<1> QED BY <1>1, <1>3, <1>4, <1>6, <1>7, <1>9, RunBest

\* A request: the rows it writes are of tasks without a goroutine.
LEMMA RequestBest ==
  ASSUME IInv, BestInv, Iterations \in Nat \ {0}, NEW c \in Callers, Request(c)
  PROVE  BestInv'
<1>1. /\ RunsTyped /\ RowsTyped /\ MishapTyped /\ CallsTyped /\ PacksTyped /\ CallKnown(c) /\ CallOK(c)
      /\ Iterations \in Nat
  BY BestParts DEF IInv, BestInv
<1>2. UNCHANGED mishap \/ Mishap("fault") => (Faulted => Faulted')
  BY <1>1, NoMishap, MishapCounts DEF FaultsKept, MishapTyped, Faulted
<1>3. Mishap("fault") => Faulted'
  BY <1>1, MishapCounts DEF Faulted
<1>4. UNCHANGED genes /\ (UNCHANGED mishap \/ Mishap("fault")) => Grows
  BY <1>1, <1>2, SameGenes
<1>5. UNCHANGED job
  BY DEF Request, CancelTask, CancelReads, CancelInserts, CancelMarks, CancelUpdates, ListChecks, ListSweeps, CallOnly
<1>6. NoPack \in Packs
  BY <1>1 DEF Packs, NoPack
<1>7. /\ reqs[c].best \in Packs /\ CallKept(c)
      /\ reqs[c].step \in {"read", "insert", "mark", "update"} =>
           /\ reqs[c].task \in Tasks /\ TaskOK(reqs[c].task)
  BY <1>1, BestParts DEF CallOK, CallKnown
\* Steps that leave what the rows say of packs.
<1>8. ASSUME Grows, OnlyCall(c), CallOK(c)',
             \A t \in Tasks : /\ row'[t].best = row[t].best /\ row'[t].gene = row[t].gene
                              /\ row'[t].status = "cancelled" =>
                                   row[t].status = "cancelled" \/ ~Worth(row[t]) \/ Faulted
      PROVE  BestInv'
  <2>1. \A t \in Tasks : TaskOK(t)'
    BY <1>1, <1>5, <1>8, TaskStays
  <2>2. ASSUME NEW d \in Callers, d # c PROVE CallOK(d)'
    <3>1. reqs'[d] = reqs[d]
      BY <1>8, <2>2 DEF OnlyCall
    <3>2. CallKnown(d)
      BY DEF IInv
    <3>3. reqs[d].step = "update" => (Worth(row'[reqs[d].task]) => Worth(row[reqs[d].task]))
      BY <1>8, <3>2 DEF CallKnown, Worth
    <3> QED BY <1>1, <1>8, <3>1, <3>3, CallStays
  <2> QED BY <1>8, <2>1, <2>2, BestPartsNext DEF Grows
<1>9. UNCHANGED row => \A t \in Tasks : /\ row'[t].best = row[t].best /\ row'[t].gene = row[t].gene
                                        /\ row'[t].status = "cancelled" => row[t].status = "cancelled"
  OBVIOUS
<1>10. ASSUME NEW t \in Tasks, CancelTask(c, t) PROVE BestInv'
  <2>1. UNCHANGED <<row, genes, mishap>> /\ Grows
    BY <1>4, <1>10 DEF CancelTask
  <2>2. CASE t \in cancelFuncs
    <3>1. UNCHANGED reqs
      BY <1>10, <2>2 DEF CancelTask
    <3>2. OnlyCall(c)
      BY <1>1, <3>1 DEF OnlyCall, CallsTyped, IsCall, CallFields
    <3>3. CallOK(c)'
      BY <1>1, <2>1, <3>1, CallStays DEF Worth
    <3> QED BY <1>8, <1>9, <2>1, <3>2, <3>3
  <2>3. CASE t \notin cancelFuncs
    <3>1. reqs' = [reqs EXCEPT ![c] = [NoCall EXCEPT !.step = "read", !.task = t]]
      BY <1>10, <2>3 DEF CancelTask
    <3>2. OnlyCall(c) /\ reqs'[c].step = "read" /\ reqs'[c].best = NoPack
      BY <1>1, <3>1, CancelStarts
    <3>3. CallOK(c)'
      BY <1>6, <3>2 DEF CallOK, CallKept
    <3> QED BY <1>8, <1>9, <2>1, <3>2, <3>3
  <2> QED BY <2>2, <2>3
<1>11. CASE CancelReads(c)
  <2>1. UNCHANGED <<row, genes, mishap>> /\ Grows /\ reqs[c].step = "read"
    BY <1>4, <1>11 DEF CancelReads, Called
  <2>2. /\ OnlyCall(c) /\ reqs'[c].step = (IF Worth(row[reqs[c].task]) THEN "insert" ELSE "update")
        /\ reqs'[c].task = reqs[c].task /\ reqs'[c].best = row[reqs[c].task].best
    BY <1>1, <1>11, CancelReadsDoes
  <2>3. reqs'[c].best \in Packs
    BY <1>7, <2>1, <2>2 DEF TaskOK
  <2>4. CallKept(c)'
    BY <2>1, <2>2 DEF CallKept, Worth
  <2> QED BY <1>8, <1>9, <2>1, <2>2, <2>3, <2>4 DEF CallOK
<1>12. CASE CancelInserts(c)
  <2>1. UNCHANGED row /\ reqs[c].step = "insert"
    BY <1>12 DEF CancelInserts, Called
  <2>2. reqs[c].task \in Tasks /\ reqs[c].best \in 1..Iterations
    BY <1>1, <1>7, <2>1 DEF CallKept, Packs, NoPack
  <2>3. CASE /\ genes' = [genes EXCEPT ![reqs[c].task][reqs[c].best] = @ + 1]
             /\ reqs' = [reqs EXCEPT ![c].step = "mark"] /\ UNCHANGED mishap
    <3>1. Grows /\ genes'[reqs[c].task][reqs[c].best] > 0
      BY <1>1, <1>2, <2>2, <2>3, OneMore
    <3>2. OnlyCall(c) /\ reqs'[c].step = "mark" /\ reqs'[c].task = reqs[c].task /\ reqs'[c].best = reqs[c].best
      BY <1>1, <2>3, CallDoes
    <3>3. reqs[c].best # NoPack
      BY <1>7, <2>1 DEF CallKept
    <3>4. CallOK(c)'
      BY <1>7, <3>1, <3>2, <3>3 DEF CallOK, CallKept, Kept
    <3> QED BY <1>8, <1>9, <2>1, <3>1, <3>2, <3>4
  <2>4. CASE Mishap("fault") /\ reqs' = [reqs EXCEPT ![c].step = "update"] /\ UNCHANGED genes
    <3>1. Grows /\ Faulted'
      BY <1>3, <1>4, <2>4
    <3>2. OnlyCall(c) /\ reqs'[c].step = "update" /\ reqs'[c].best = reqs[c].best
      BY <1>1, <2>4, CallDoes
    <3>3. CallOK(c)'
      BY <1>7, <3>1, <3>2 DEF CallOK, CallKept
    <3> QED BY <1>8, <1>9, <2>1, <3>1, <3>2, <3>3
  <2> QED BY <1>12, <2>3, <2>4 DEF CancelInserts
<1>13. CASE CancelMarks(c)
  <2>1. UNCHANGED genes /\ reqs[c].step = "mark" /\ Grows
    BY <1>4, <1>13 DEF CancelMarks, Called
  <2> PICK t \in Tasks : t = reqs[c].task /\ ~Active(t)
    BY <1>1, <2>1 DEF CallKnown
  <2>2. OnlyCall(c) /\ reqs'[c].step = "update" /\ reqs'[c].task = t /\ reqs'[c].best = reqs[c].best
    BY <1>1, <1>13, CallDoes DEF CancelMarks
  <2>3. CASE Mishap("fault") /\ UNCHANGED row
    <3>1. CallOK(c)'
      BY <1>3, <1>7, <2>2, <2>3 DEF CallOK, CallKept
    <3> QED BY <1>8, <1>9, <2>1, <2>2, <2>3, <3>1
  <2>4. CASE Result(reqs[c].task, reqs[c].best, TRUE)
    <3>2. OnlyRow(t) /\ row'[t].status = row[t].status /\ row'[t].best = reqs[c].best /\ row'[t].gene = TRUE
      BY <1>1, <2>4, ResultDoes
    <3>3. ~Worth(row'[t])
      BY <3>2 DEF Worth
    <3>4. TaskOK(t)'
      <4>1. Kept(t, reqs[c].best)
        BY <1>7, <2>1 DEF CallKept
      <4>2. (row[t].gene => Kept(t, row[t].best))'
        BY <2>1, <3>2, <4>1 DEF Kept
      <4>3. RowKept(t)'
        BY <3>3, <4>2 DEF RowKept
      <4>4. TaskOK(t)
        BY <1>7, <2>1
      <4>5. RunKept(t)'
        BY <1>5, <2>1, <3>3, <4>4 DEF TaskOK, RunKept, Kept
      <4> QED BY <1>5, <1>7, <3>2, <4>3, <4>4, <4>5 DEF TaskOK
    <3>5. ASSUME NEW u \in Tasks, u # t PROVE TaskOK(u)'
      <4>1. row'[u] = row[u]
        BY <3>2, <3>5 DEF OnlyRow
      <4> QED BY <1>1, <1>5, <2>1, <4>1, TaskStays
    <3>6. CallOK(c)'
      BY <1>7, <2>2, <3>3 DEF CallOK, CallKept
    <3>7. ASSUME NEW d \in Callers, d # c PROVE CallOK(d)'
      <4>1. reqs'[d] = reqs[d] /\ CallKnown(d)
        BY <2>2, <3>7 DEF OnlyCall, IInv
      <4>2. reqs[d].step = "update" => (Worth(row'[reqs[d].task]) => Worth(row[reqs[d].task]))
        BY <3>2, <3>3, <4>1 DEF CallKnown, OnlyRow
      <4> QED BY <1>1, <2>1, <4>1, <4>2, CallStays
    <3> QED BY <2>1, <3>4, <3>5, <3>6, <3>7, BestPartsNext DEF Grows
  <2> QED BY <1>13, <2>3, <2>4 DEF CancelMarks
<1>14. CASE CancelUpdates(c)
  <2>1. /\ UNCHANGED <<genes, mishap>> /\ reqs[c].step = "update" /\ Grows
        /\ row' = CancelledIfRunning(reqs[c].task) /\ reqs' = [reqs EXCEPT ![c] = NoCall]
    BY <1>4, <1>14 DEF CancelUpdates, Called
  <2>2. OnlyCall(c) /\ CallOK(c)'
    BY <1>1, <1>6, <2>1, NoCallDoes DEF CallOK, CallKept
  <2>3. ~Worth(row[reqs[c].task]) \/ Faulted
    BY <1>7, <2>1 DEF CallKept
  <2>4. \A t \in Tasks : /\ row'[t].best = row[t].best /\ row'[t].gene = row[t].gene
                         /\ row'[t].status = "cancelled" => row[t].status = "cancelled" \/ t = reqs[c].task
    BY <1>1, <2>1 DEF CancelledIfRunning, RowsTyped, IsRow, RowFields
  <2> QED BY <1>8, <2>1, <2>2, <2>3, <2>4
<1>15. CASE ListChecks(c)
  <2>1. UNCHANGED <<row, genes, mishap>> /\ Grows
    BY <1>4, <1>15 DEF ListChecks
  <2>2. OnlyCall(c) /\ reqs'[c].step = "sweep" /\ reqs'[c].best = reqs[c].best
    BY <1>1, <1>15, CallDoes DEF ListChecks
  <2>3. CallOK(c)'
    BY <1>7, <2>2 DEF CallOK, CallKept
  <2> QED BY <1>8, <1>9, <2>1, <2>2, <2>3
<1>16. CASE ListSweeps(c)
  <2>1. UNCHANGED <<genes, mishap>> /\ Grows /\ row' = FailRunning /\ reqs' = [reqs EXCEPT ![c] = NoCall]
    BY <1>4, <1>16 DEF ListSweeps
  <2>2. OnlyCall(c) /\ CallOK(c)'
    BY <1>1, <1>6, <2>1, NoCallDoes DEF CallOK, CallKept
  <2>3. \A t \in Tasks : /\ row'[t].best = row[t].best /\ row'[t].gene = row[t].gene
                         /\ row'[t].status = "cancelled" => row[t].status = "cancelled"
    BY <1>1, <2>1, FailDoes
  <2> QED BY <1>8, <2>1, <2>2, <2>3
<1> QED BY <1>10, <1>11, <1>12, <1>13, <1>14, <1>15, <1>16 DEF Request

LEMMA DiesBest ==
  ASSUME IInv, BestInv, Iterations \in Nat \ {0}, Dies
  PROVE  BestInv'
<1>1. PacksTyped /\ MishapTyped /\ Iterations \in Nat
  BY DEF IInv, BestInv
<1>2. /\ job' = [t \in Tasks |-> NoJob] /\ reqs' = [c \in Callers |-> NoCall] /\ UNCHANGED <<row, genes>>
      /\ Mishap("crash")
  BY DEF Dies
<1>3. Faulted => Faulted'
  BY <1>1, <1>2, MishapCounts DEF FaultsKept, MishapTyped, Faulted
<1>4. Grows
  BY <1>1, <1>2, <1>3, SameGenes
<1>5. NoPack \in Packs /\ 0 \in Packs
  BY <1>1 DEF Packs, NoPack
<1>6. ASSUME NEW t \in Tasks PROVE TaskOK(t)'
  <2>1. TaskOK(t)
    BY BestParts
  <2>2. /\ job'[t].step = "none" /\ job'[t].outcome = "none" /\ job'[t].last = NoPack /\ job'[t].iteration = 0
    BY <1>2 DEF NoJob
  <2>3. RunKept(t)'
    BY <2>2 DEF RunKept, Kept, Ending
  <2>4. RowKept(t)'
    BY <1>2, <1>3, <2>1 DEF TaskOK, RowKept, Kept
  <2> QED BY <1>2, <1>5, <2>1, <2>2, <2>3, <2>4 DEF TaskOK
<1>7. ASSUME NEW c \in Callers PROVE CallOK(c)'
  <2>1. reqs'[c].step = "idle" /\ reqs'[c].best = NoPack
    BY <1>2 DEF NoCall
  <2> QED BY <1>5, <2>1 DEF CallOK, CallKept
<1> QED BY <1>4, <1>6, <1>7, BestPartsNext DEF Grows

LEMMA RestartBest ==
  ASSUME IInv, BestInv, Iterations \in Nat \ {0}, Restart
  PROVE  BestInv'
<1>1. PacksTyped /\ MishapTyped /\ RowsTyped /\ Iterations \in Nat
  BY DEF IInv, BestInv
<1>2. UNCHANGED <<job, reqs, genes>>
  BY DEF Restart
<1>3. /\ Faulted => Faulted'
      /\ \A t \in Tasks : /\ row'[t].best = row[t].best /\ row'[t].gene = row[t].gene
                          /\ row'[t].status = "cancelled" => row[t].status = "cancelled"
  <2>1. CASE row' = RecoverInterruptedTasks /\ UNCHANGED mishap
    BY <1>1, <2>1, FailDoes DEF RecoverInterruptedTasks, Faulted
  <2>2. CASE Mishap("fault") /\ UNCHANGED row
    BY <1>1, <2>2, MishapCounts DEF Faulted
  <2> QED BY <2>1, <2>2 DEF Restart
<1>4. Grows
  BY <1>1, <1>2, <1>3, SameGenes
<1>5. \A t \in Tasks : TaskOK(t)'
  BY <1>1, <1>2, <1>3, <1>4, TaskStays
<1>6. ASSUME NEW c \in Callers PROVE CallOK(c)'
  <2>1. CallKnown(c)
    BY DEF IInv
  <2>2. reqs[c].step = "update" => (Worth(row'[reqs[c].task]) => Worth(row[reqs[c].task]))
    BY <1>3, <2>1 DEF CallKnown, Worth
  <2> QED BY <1>1, <1>2, <1>4, <2>2, CallStays
<1> QED BY <1>4, <1>5, <1>6, BestPartsNext DEF Grows

LEMMA InitBest == ASSUME Iterations \in Nat \ {0} PROVE EvolutionInit => BestInv
<1> SUFFICES ASSUME EvolutionInit PROVE BestInv
  OBVIOUS
<1>1. NoPack \in Packs /\ 0 \in Packs
  BY DEF Packs, NoPack
<1>2. genes = [t \in Tasks |-> genes[t]] /\ \A t \in Tasks : genes[t] \in [1..Iterations -> Nat]
  BY DEF EvolutionInit
<1>3. \A t \in Tasks : TaskOK(t)
  BY <1>1 DEF EvolutionInit, Blank, NoJob, TaskOK, RowKept, RunKept, Kept, Ending
<1>4. \A c \in Callers : CallOK(c)
  BY <1>1 DEF EvolutionInit, NoCall, CallOK, CallKept
<1> QED BY <1>2, <1>3, <1>4, BestParts

LEMMA StepBest == ASSUME Iterations \in Nat \ {0} PROVE IInv /\ BestInv /\ [EvolutionNext]_evolutionVars => BestInv'
<1> SUFFICES ASSUME IInv, BestInv, [EvolutionNext]_evolutionVars PROVE BestInv'
  OBVIOUS
<1>1. CASE UNCHANGED evolutionVars
  BY <1>1 DEF evolutionVars, BestInv, PacksTyped, RowKept, RunKept, CallKept, Kept, Worth, Faulted
<1> QED BY <1>1, RunStepBest, CreateBest, RequestBest, DiesBest, RestartBest DEF EvolutionNext

\* The best pack of a cancelled task is in a gene record, whoever cancelled it
\* and however requests, listings and its own goroutine interleave, unless a
\* statement failed (Evolution!CancelledKeepsBest).
THEOREM BestOfCancelledIsKept == EvolutionSpec => []CancelledKeepsBest
<1>1. BestInv /\ IInv => CancelledKeepsBest
  <2> SUFFICES ASSUME BestInv, IInv, NEW t \in Tasks, row[t].status = "cancelled", row[t].best # NoPack,
                      mishap["fault"] = 0
               PROVE  row[t].gene /\ genes[t][row[t].best] > 0
    BY DEF CancelledKeepsBest
  <2>1. TaskOK(t) /\ ~Faulted
    BY BestParts DEF Faulted
  <2> QED BY <2>1 DEF TaskOK, RowKept, Worth, Kept
<1>2. EvolutionInit => BestInv
  BY InitBest, IterationsAssumption
<1>3. IInv /\ BestInv /\ [EvolutionNext]_evolutionVars => BestInv'
  BY StepBest, IterationsAssumption
<1> QED BY <1>1, <1>2, <1>3, InvHolds, PTL DEF EvolutionSpec
=============================================================================
