------------------------------ MODULE Lifecycle ------------------------------
(***************************************************************************)
(* The status algebra of internal/compute: the words a task, a work item    *)
(* and a composite task can be in, and the two pure functions that derive   *)
(* a task's status from its items and a composite's from its stages.        *)
(*                                                                          *)
(* The code counts items per status.  The total of a task never changes     *)
(* and every item has exactly one status, so what the decisions look at is  *)
(* only which counters are positive: a task is described here by the set    *)
(* of statuses its items have.  LifecycleCounts holds the counting version  *)
(* and the runs and theorems there relate the two.                          *)
(***************************************************************************)

ItemStatuses == {"pending", "running", "completed", "cached", "failed", "cancelled"}

TaskStatuses == {"planned", "queued", "running", "partial", "completed",
                 "failed", "cancelled", "invalidated"}

\* A result that needs no more work: computed by this item or reused.
ValidStatuses == {"completed", "cached"}

\* Faulty variant: a task counts as completed when nothing is left to do.
DeriveTaskStatusDone(present, started, cancelRequested) ==
  IF cancelRequested THEN IF "running" \in present THEN "running" ELSE "cancelled"
  ELSE IF present \cap {"pending", "running"} = {} THEN "completed"
  ELSE IF "running" \in present THEN "running"
  ELSE IF started THEN "queued" ELSE "planned"

\* DeriveTaskStatus over the statuses that occur among the task's items: an
\* ordered list of cases, as in the code.
DeriveTaskStatus(present, started, cancelRequested) ==
  IF cancelRequested THEN IF "running" \in present THEN "running" ELSE "cancelled"
  ELSE IF present = {} THEN IF started THEN "completed" ELSE "planned"
  ELSE IF present \subseteq ValidStatuses THEN "completed"
  ELSE IF "running" \in present THEN "running"
  ELSE IF ~started THEN "planned"
  ELSE IF "pending" \in present THEN "queued"
  ELSE IF present \cap ValidStatuses # {} THEN "partial"
  ELSE IF "failed" \in present THEN "failed"
  ELSE "cancelled"

\* Faulty variant: one completed stage completes the composite.
DeriveCompositeStatusAny(stages) ==
  IF stages = {} THEN "planned"
  ELSE IF "invalidated" \in stages THEN "invalidated"
  ELSE IF "completed" \in stages THEN "completed"
  ELSE IF stages \cap {"running", "queued"} # {} THEN "running"
  ELSE "partial"

\* DeriveCompositeStatus over the statuses that occur among the stages.
DeriveCompositeStatus(stages) ==
  IF stages = {} THEN "planned"
  ELSE IF "invalidated" \in stages THEN "invalidated"
  ELSE IF stages = {"completed"} THEN "completed"
  ELSE IF stages \cap {"running", "queued"} # {} THEN "running"
  ELSE IF stages = {"planned"} THEN "planned"
  ELSE IF stages = {"failed"} THEN "failed"
  ELSE IF stages = {"cancelled"} THEN "cancelled"
  ELSE "partial"

CanRetry(status) == status \in {"failed", "cancelled", "partial"}
=============================================================================
