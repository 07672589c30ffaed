----------------------------- MODULE Backtests -----------------------------
(***************************************************************************)
(* Standardized backtest results: the store that reserves, computes once,   *)
(* verifies and retires them (internal/saas/backtestresult/store.go), and   *)
(* the calls that use it (internal/saas/backtest): Create, which also keeps *)
(* a run row for the user, EnsureStandardResult, which waits for somebody   *)
(* else's computation, and EnsureNoCashFlowResult, which does not.          *)
(*                                                                          *)
(* Every statement is a step of its own; a transaction is one step.  A row  *)
(* is found by its active key, which is unique in the table.  Hashes are    *)
(* abstracted to whether the stored content is still what was computed.     *)
(***************************************************************************)
EXTENDS Naturals, FiniteSets

CONSTANTS
  Calls,     \* clients; each keeps at most one run
  KeyOf,     \* call -> the backtest key of its requests
  KindsOf,   \* client -> the calls it makes, of "create", "ensure", "annual"
  Attempts,  \* attempts of Reserve, 3 in the code
  MaxResult, \* bound on the rows of results
  Limits     \* bounds, one of which holds: [crash, fault, rot, maintain]

VARIABLES
  result, \* row -> [key, status, active, content, path]
  run,    \* Create call -> status and backtest_result_id of its run row
  call,   \* call -> its step and what it has read
  struck  \* how often crashes, faults, damage and maintenance happened

vars == <<result, run, call, struck>>

Results == 1..MaxResult
NoRow == 0
Unused == [key |-> "none", status |-> "unused", active |-> FALSE, content |-> "none", path |-> "none"]
NoRun == [status |-> "none", link |-> NoRow]
Idle == [step |-> "idle", kind |-> "none", row |-> NoRow, created |-> FALSE, try |-> 0, seen |-> Unused,
         why |-> "none", outcome |-> "none"]

Stored == {"completed", "invalidated", "archived"}
Dropped == {"failed", "cancelled"}
Open == {"pending", "running"}

\* Faulty variant: a running row is taken for abandoned.
BlockingPending == {"pending"}

\* The rows that still block their key in Reserve.
Blocking == Open

Strike(h) == /\ struck' = [struck EXCEPT ![h] = @ + 1]
             /\ \E budget \in Limits : \A k \in DOMAIN struck : struck'[k] <= budget[k]

Go(c, changes) == call' = [call EXCEPT ![c] = [f \in DOMAIN @ |->
                                     IF f \in DOMAIN changes THEN changes[f] ELSE @[f]]]
Busy(c) == call[c].step # "idle"
Step(c, s) == call[c].step = s
Mine(c) == call[c].row
Returned(c) == call' = [call EXCEPT ![c] = Idle]

\* Returns with an error; a Create call first marks its run failed.
GiveUp(c) == IF call[c].kind = "create" THEN Go(c, [step |-> "runfails"]) ELSE Returned(c)

Holders(k) == {r \in Results : result[r].active /\ result[r].key = k}

Init == /\ result = [r \in Results |-> Unused]
        /\ run = [c \in Calls |-> NoRun]
        /\ call = [c \in Calls |-> Idle]
        /\ struck = [h \in {"crash", "fault", "rot", "maintain"} |-> 0]
-----------------------------------------------------------------------------
(* Reserve *)

\* A client makes one request after the other; the rows bound how many.
Submit(c) ==
  /\ ~Busy(c)
  /\ Cardinality({r \in Results : result[r].status = "unused"}) > Cardinality({d \in Calls : Busy(d)})
  /\ \E kind \in KindsOf[c] :
       /\ Go(c, [step |-> "reserve", kind |-> kind])
       /\ kind = "create" => run[c].status = "none"
       /\ run' = IF kind = "create" THEN [run EXCEPT ![c].status = "running"] ELSE run
  /\ UNCHANGED <<result, struck>>

\* prepare refuses the request; nothing is reserved yet.
Refuse(c) ==
  /\ Step(c, "reserve") /\ call[c].try = 0
  /\ GiveUp(c)
  /\ UNCHANGED <<result, run, struck>>

\* INSERT ... ON CONFLICT (active_key) DO NOTHING
Insert(c) ==
  /\ Step(c, "reserve") /\ call[c].try < Attempts
  /\ IF Holders(KeyOf[c]) = {}
     THEN /\ \E r \in Results :
               /\ result[r].status = "unused"
               /\ \A q \in Results : q < r => result[q].status # "unused"
               /\ result' = [result EXCEPT ![r] =
                    [key |-> KeyOf[c], status |-> "pending", active |-> TRUE,
                     content |-> "none", path |-> "pending"]]
               /\ Go(c, [step |-> IF call[c].kind = "create" THEN "link" ELSE "start",
                         row |-> r, created |-> TRUE, try |-> 0])
     ELSE /\ Go(c, [step |-> "lookup", try |-> call[c].try + 1])
          /\ UNCHANGED result
  /\ UNCHANGED <<run, struck>>

OutOfTries(c) ==
  /\ Step(c, "reserve") /\ call[c].try = Attempts
  /\ GiveUp(c)
  /\ UNCHANGED <<result, run, struck>>

\* The row that holds the key is gone by now, is to be verified, is somebody
\* else's, or holds its key without any right to it.
Lookup(c) ==
  /\ Step(c, "lookup")
  /\ IF Holders(KeyOf[c]) = {}
     THEN Go(c, [step |-> "reserve"]) /\ UNCHANGED result
     ELSE \E r \in Holders(KeyOf[c]) :
            CASE result[r].status = "completed" ->
                   /\ Go(c, [step |-> "verify", row |-> r, why |-> "reuse"])
                   /\ UNCHANGED result
              [] result[r].status \in Blocking ->
                   /\ CASE call[c].kind = "create" -> Go(c, [step |-> "link", row |-> r])
                        [] call[c].kind = "ensure" -> Go(c, [step |-> "wait", row |-> r])
                        [] OTHER -> Returned(c)
                   /\ UNCHANGED result
              [] OTHER ->
                   /\ result' = [result EXCEPT ![r].active = FALSE]
                   /\ Go(c, [step |-> "reserve"])
  /\ UNCHANGED <<run, struck>>
-----------------------------------------------------------------------------
(* VerifyResult: the row is read first, the path blocks in another query *)

\* verifyRecords, of a row and the blocks found with it
Valid(s, blocks) ==
  /\ s.active <=> s.status \in Open \cup {"completed"}
  /\ IF s.status \in Open \cup Dropped
     THEN s.content = "none"
     ELSE /\ s.status \in Stored
          /\ s.content # "none"
          /\ s.path = "deleted" \/ (s.path = "available" /\ blocks = "sound")

PathVerified(s, blocks) == Valid(s, blocks) /\ s.status \in Stored /\ s.path = "available"

\* The blocks a query finds now.
Blocks(r) == IF result[r].path = "available" THEN result[r].content ELSE "none"

\* What follows depends on why the row was verified: before reusing it in
\* Reserve, after storing it ("own"), or again before it is handed out.
AfterVerified(c, s, blocks) ==
  LET why == call[c].why
      Proceed(step) == Go(c, [step |-> step, why |-> "again", try |-> 0, seen |-> Unused])
  IN CASE why = "reuse" /\ ~PathVerified(s, blocks) -> Go(c, [step |-> "spoil", seen |-> Unused])
       [] why = "own" /\ ~Valid(s, blocks) -> Proceed("withdraw")
       [] why = "again" /\ ~(Valid(s, blocks) /\ s.content # "none") -> GiveUp(c)
       [] OTHER -> CASE call[c].kind = "create" -> Proceed(IF why = "reuse" THEN "link" ELSE "finish")
                     [] call[c].kind = "ensure" /\ why # "again" -> Proceed("verify")
                     [] OTHER -> Returned(c)

ReadRow(c) ==
  /\ Step(c, "verify")
  /\ LET s == result[Mine(c)] IN
       IF s.status # "deleted" /\ s.path = "available"
       THEN Go(c, [step |-> "blocks", seen |-> s])
       ELSE AfterVerified(c, s, "none")
  /\ UNCHANGED <<result, run, struck>>

ReadBlocks(c) ==
  /\ Step(c, "blocks")
  /\ AfterVerified(c, call[c].seen, Blocks(Mine(c)))
  /\ UNCHANGED <<result, run, struck>>

\* Faulty variant: the update does not look at the status again.
InvalidatedBlindly(r) == [result EXCEPT ![r].status = "invalidated", ![r].active = FALSE]

\* invalidateActive ... WHERE status = 'completed'
Invalidated(r) ==
  IF result[r].status = "completed"
  THEN [result EXCEPT ![r].status = "invalidated", ![r].active = FALSE]
  ELSE result

\* Reserve withdraws a result that fails verification and tries again.
Spoil(c) ==
  /\ Step(c, "spoil")
  /\ result' = Invalidated(Mine(c))
  /\ IF result' # result THEN Go(c, [step |-> "reserve"]) ELSE GiveUp(c)
  /\ UNCHANGED <<run, struck>>
-----------------------------------------------------------------------------
(* The owner of a reservation computes the result *)

\* UPDATE backtest_runs SET backtest_result_id; the foreign key refuses a
\* row that is gone.
Link(c) ==
  /\ Step(c, "link")
  /\ IF result[Mine(c)].status # "deleted"
     THEN /\ run' = [run EXCEPT ![c].link = Mine(c)]
          /\ CASE call[c].created -> Go(c, [step |-> "start"])
               [] call[c].why = "again" -> Go(c, [step |-> "verify"])
               [] OTHER -> Returned(c)
     ELSE GiveUp(c) /\ UNCHANGED run
  /\ UNCHANGED <<result, struck>>

\* Faulty variant: the key stays with the row.
EndedKeepingKey(r, status) ==
  IF result[r].status \in Open THEN [result EXCEPT ![r].status = status] ELSE result

\* markTerminal ... WHERE status IN ('pending', 'running')
Ended(r, status) ==
  IF result[r].status \in Open
  THEN [result EXCEPT ![r].status = status, ![r].active = FALSE]
  ELSE result

LinkFails(c) ==
  /\ Step(c, "link")
  /\ Strike("fault")
  /\ result' = IF call[c].created THEN Ended(Mine(c), "failed") ELSE result
  /\ GiveUp(c)
  /\ UNCHANGED run

\* MarkRunning; when the statement fails the reservation is left as it is.
Start(c) ==
  /\ Step(c, "start")
  /\ IF result[Mine(c)].status = "pending"
     THEN /\ result' = [result EXCEPT ![Mine(c)].status = "running"]
          /\ Go(c, [step |-> "execute"])
     ELSE GiveUp(c) /\ UNCHANGED result
  /\ UNCHANGED <<run, struck>>

StartFails(c) ==
  /\ Step(c, "start")
  /\ Strike("fault")
  /\ GiveUp(c)
  /\ UNCHANGED <<result, run>>

\* The engine ends with artifacts, with an error, or cancelled with its context.
Execute(c) ==
  /\ Step(c, "execute")
  /\ \/ Go(c, [step |-> "store"])
     \/ \E outcome \in Dropped : Go(c, [step |-> "drop", outcome |-> outcome])
  /\ UNCHANGED <<result, run, struck>>

\* Complete, one transaction
Store(c) ==
  /\ Step(c, "store")
  /\ IF result[Mine(c)].status \in Open
     THEN /\ result' = [result EXCEPT ![Mine(c)].status = "completed",
                                      ![Mine(c)].content = "sound", ![Mine(c)].path = "available"]
          /\ Go(c, [step |-> "verify", why |-> "own"])
     ELSE /\ Go(c, [step |-> "drop", outcome |-> "failed"])
          /\ UNCHANGED result
  /\ UNCHANGED <<run, struck>>

StoreFails(c) ==
  /\ Step(c, "store")
  /\ Strike("fault")
  /\ \E outcome \in Dropped : Go(c, [step |-> "drop", outcome |-> outcome])
  /\ UNCHANGED <<result, run>>

\* Fail or Cancel, whose own error is ignored
Drop(c) ==
  /\ Step(c, "drop")
  /\ \/ result' = Ended(Mine(c), call[c].outcome) /\ UNCHANGED struck
     \/ Strike("fault") /\ UNCHANGED result
  /\ IF call[c].kind = "create" THEN Go(c, [step |-> "unfinish"]) ELSE Returned(c)
  /\ UNCHANGED run

\* The owner's own verification failed after Complete.
Withdraw(c) ==
  /\ Step(c, "withdraw")
  /\ result' = Invalidated(Mine(c))
  /\ IF call[c].kind = "create"
     THEN Go(c, [step |-> "unfinish", outcome |-> "failed"])
     ELSE Returned(c)
  /\ UNCHANGED <<run, struck>>
-----------------------------------------------------------------------------
(* The runs that wait for a result *)

\* Faulty variant: every running run of the same request is settled.
RunsOfRequest(r) == {d \in Calls : KeyOf[d] = result[r].key /\ run[d].status = "running"}

LinkedRuns(r) == {d \in Calls : run[d].link = r /\ run[d].status = "running"}

Settled(r, status) ==
  [d \in Calls |-> IF d \in LinkedRuns(r) THEN [run[d] EXCEPT !.status = status] ELSE run[d]]

Finish(c) ==
  /\ Step(c, "finish")
  /\ run' = Settled(Mine(c), "completed")
  /\ Returned(c)
  /\ UNCHANGED <<result, struck>>

Unfinish(c) ==
  /\ Step(c, "unfinish")
  /\ run' = Settled(Mine(c), call[c].outcome)
  /\ Returned(c)
  /\ UNCHANGED <<result, struck>>

\* finishRunFailure, the call's own run only
RunFails(c) ==
  /\ Step(c, "runfails")
  /\ run' = [run EXCEPT ![c].status = "failed"]
  /\ Returned(c)
  /\ UNCHANGED <<result, struck>>

\* Faulty variant: a failed or cancelled computation is no answer.
AnsweredStored(status) == status \in Stored

Answered(status) == status \notin Open

\* waitStandardExecution reads the row ten times a second.
Wait(c) ==
  /\ Step(c, "wait") /\ Answered(result[Mine(c)].status)
  /\ IF result[Mine(c)].status = "completed"
     THEN Go(c, [step |-> "verify", why |-> "again"])
     ELSE Returned(c)
  /\ UNCHANGED <<result, run, struck>>

StopWaiting(c) ==
  /\ Step(c, "wait")
  /\ Returned(c)
  /\ UNCHANGED <<result, run, struck>>

\* Get settles the runs of a stored result that it verifies.
Get(c) ==
  /\ run[c].status = "running" /\ run[c].link # NoRow
  /\ result[run[c].link].status \in Stored
  /\ Valid(result[run[c].link], Blocks(run[c].link))
  /\ run' = Settled(run[c].link, "completed")
  /\ UNCHANGED <<result, call, struck>>
-----------------------------------------------------------------------------
(* Maintenance by hand (cmd/backup-tool, controlresearch) *)

Archive(r) ==
  /\ result[r].status \in {"completed", "invalidated"}
  /\ Strike("maintain")
  /\ result' = [result EXCEPT ![r].status = "archived", ![r].active = FALSE]
  /\ UNCHANGED <<run, call>>

Invalidate(r) ==
  /\ result[r].status = "completed"
  /\ Strike("maintain")
  /\ result' = Invalidated(r)
  /\ UNCHANGED <<run, call>>

DeletePathDetail(r) ==
  /\ result[r].path = "available"
  /\ Strike("maintain")
  /\ result' = [result EXCEPT ![r].status = "archived", ![r].active = FALSE, ![r].path = "deleted"]
  /\ UNCHANGED <<run, call>>

\* Not while a run refers to it; a foreign key guards the same.
DeleteFailed(r) ==
  /\ result[r].status \in Dropped
  /\ \A c \in Calls : run[c].link # r
  /\ Strike("maintain")
  /\ result' = [result EXCEPT ![r].status = "deleted"]
  /\ UNCHANGED <<run, call>>
-----------------------------------------------------------------------------
(* The environment *)

\* Stored blocks are damaged.
Rot(r) ==
  /\ result[r].content = "sound" /\ result[r].path = "available"
  /\ Strike("rot")
  /\ result' = [result EXCEPT ![r].content = "rotten"]
  /\ UNCHANGED <<run, call>>

\* The server dies with every call in it; nothing here is recovered at start-up.
Crash ==
  /\ Strike("crash")
  /\ call' = [c \in Calls |-> Idle]
  /\ UNCHANGED <<result, run>>

Work(c) == \/ Refuse(c) \/ Insert(c) \/ OutOfTries(c) \/ Lookup(c) \/ ReadRow(c) \/ ReadBlocks(c)
           \/ Spoil(c) \/ Link(c) \/ LinkFails(c) \/ Start(c) \/ StartFails(c) \/ Execute(c)
           \/ Store(c) \/ StoreFails(c) \/ Drop(c) \/ Withdraw(c) \/ Finish(c) \/ Unfinish(c)
           \/ RunFails(c) \/ Wait(c)

Next == \/ \E c \in Calls : Submit(c) \/ Work(c) \/ StopWaiting(c) \/ Get(c)
        \/ \E r \in Results : Archive(r) \/ Invalidate(r) \/ DeletePathDetail(r) \/ DeleteFailed(r) \/ Rot(r)
        \/ Crash

Fairness == \A c \in Calls : WF_vars(Work(c))

Spec == Init /\ [][Next]_vars

FairSpec == Spec /\ Fairness
-----------------------------------------------------------------------------
\* Two calls never compute the same backtest at the same time, whoever
\* crashed, cancelled or retired results meanwhile.
SingleExecution ==
  \A a, b \in Calls : a # b /\ {call[a].step, call[b].step} \subseteq {"execute", "store"}
                        => KeyOf[a] # KeyOf[b]

\* The store's own audit (VerifyResult) accepts every row, at every moment,
\* unless its blocks were damaged.
AuditPasses ==
  \A r \in Results : result[r].status \notin {"unused", "deleted"} /\ result[r].content # "rotten"
                       => Valid(result[r], Blocks(r))

\* A run shown as completed has a result that was stored, and one shown as
\* cancelled has a result that was cancelled, unless the statement that
\* should have said so failed.
RunsAgree ==
  \A c \in Calls :
    /\ run[c].status = "completed" => /\ run[c].link # NoRow
                                      /\ result[run[c].link].status \in Stored
    /\ run[c].status = "cancelled" => \/ result[run[c].link].status = "cancelled"
                                      \/ struck["fault"] > 0

\* Stored content is immutable (store/models.go:283): it never changes or goes
\* away but by damage or by deleting its path, a retired result does not come
\* back, and Reserve retires none that is sound.
StoredIsImmutable ==
  [][\A r \in Results :
       /\ result[r].status \in Stored =>
            /\ result'[r].status \in Stored
            /\ result'[r].content # result[r].content => struck'["rot"] > struck["rot"]
       /\ result[r].status = "archived" => result'[r].status = "archived"
       /\ result[r].status = "invalidated" => result'[r].status # "completed"
       /\ result[r].status = "completed" /\ result'[r].status # "completed"
            => result[r].content = "rotten" \/ struck'["maintain"] > struck["maintain"]]_vars

\* Every call returns, as long as no crash and no failing statement leaves a
\* reservation behind.
CallsReturn ==
  \A c \in Calls : []<>(~Busy(c) \/ struck["crash"] + struck["fault"] > 0)
=============================================================================
