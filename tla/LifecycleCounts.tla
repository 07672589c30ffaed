--------------------------- MODULE LifecycleCounts ---------------------------
(***************************************************************************)
(* The counting form of internal/compute/lifecycle.go, and the facts that   *)
(* let the other modules use the set form of module Lifecycle instead.      *)
(*                                                                          *)
(* The state is a histogram of item statuses and one of stage statuses; a   *)
(* step moves one item or one stage from a status to another, so every      *)
(* histogram of Size items and StageCount stages is reached.                *)
(***************************************************************************)
EXTENDS Integers, Lifecycle, TLAPS

CONSTANTS Size, StageCount

ASSUME SizeAssumption == Size \in Nat /\ StageCount \in Nat

VARIABLES items, stages, total, started, cancelRequested

countsVars == <<items, stages, total, started, cancelRequested>>
-----------------------------------------------------------------------------
(* ItemCounts: total is the task's TotalItems, the rest a GROUP BY status *)

ValidCount(c) == c["completed"] + c["cached"]

Missing(c, n) == IF n - ValidCount(c) - c["failed"] < 0 THEN 0 ELSE n - ValidCount(c) - c["failed"]

\* DeriveTaskStatus on counts, line by line.
CountedTaskStatus(c, n, begun, cancelling) ==
  IF cancelling THEN IF c["running"] > 0 THEN "running" ELSE "cancelled"
  ELSE IF n <= 0 THEN IF begun THEN "completed" ELSE "planned"
  ELSE IF ValidCount(c) = n THEN "completed"
  ELSE IF c["running"] > 0 THEN "running"
  ELSE IF ~begun THEN "planned"
  ELSE IF c["pending"] > 0 THEN "queued"
  ELSE IF ValidCount(c) > 0 THEN "partial"
  ELSE IF c["failed"] > 0 THEN "failed"
  ELSE "cancelled"

\* DeriveCompositeStatus on the number of stages per status, n in all.
CountedCompositeStatus(c, n) ==
  IF n = 0 THEN "planned"
  ELSE IF c["invalidated"] > 0 THEN "invalidated"
  ELSE IF c["completed"] = n THEN "completed"
  ELSE IF c["running"] + c["queued"] > 0 THEN "running"
  ELSE IF c["planned"] = n THEN "planned"
  ELSE IF c["failed"] = n THEN "failed"
  ELSE IF c["cancelled"] = n THEN "cancelled"
  ELSE IF \E s \in {"completed", "partial", "planned", "failed", "cancelled"} : c[s] > 0
       THEN "partial"
  ELSE "planned"

Occurring(c) == {s \in DOMAIN c : c[s] > 0}

ItemSum(c) == c["pending"] + c["running"] + c["completed"] + c["cached"]
              + c["failed"] + c["cancelled"]
StageSum(c) == c["planned"] + c["queued"] + c["running"] + c["partial"] + c["completed"]
               + c["failed"] + c["cancelled"] + c["invalidated"]
-----------------------------------------------------------------------------
Moved(c, a, b) == [c EXCEPT ![a] = @ - 1, ![b] = @ + 1]

CountsInit == /\ items = [s \in ItemStatuses |-> IF s = "pending" THEN Size ELSE 0]
              /\ stages = [s \in TaskStatuses |-> IF s = "planned" THEN StageCount ELSE 0]
              /\ total = Size
              /\ started \in BOOLEAN
              /\ cancelRequested \in BOOLEAN

MoveItem == /\ \E a, b \in ItemStatuses : a # b /\ items[a] > 0 /\ items' = Moved(items, a, b)
            /\ UNCHANGED <<stages, total, started, cancelRequested>>

MoveStage == /\ \E a, b \in TaskStatuses : a # b /\ stages[a] > 0 /\ stages' = Moved(stages, a, b)
             /\ UNCHANGED <<items, total, started, cancelRequested>>

CountsNext == MoveItem \/ MoveStage

CountsSpec == CountsInit /\ [][CountsNext]_countsVars
-----------------------------------------------------------------------------
\* The status derived from the set of occurring item statuses is the one the
\* code derives from its counters.
TaskStatusAgrees ==
  CountedTaskStatus(items, total, started, cancelRequested)
    = DeriveTaskStatus(Occurring(items), started, cancelRequested)

\* The same for a composite and its stages.
CompositeStatusAgrees ==
  CountedCompositeStatus(stages, StageCount) = DeriveCompositeStatus(Occurring(stages))

\* The counters a task shows never claim more than it has: valid, failed and
\* missing results add up to the total, and unfinished work is never complete.
CountsAddUp ==
  /\ ValidCount(items) + items["failed"] + Missing(items, total) = total
  /\ CountedTaskStatus(items, total, started, cancelRequested) = "completed" /\ total > 0
       => Missing(items, total) = 0 /\ items["failed"] = 0
-----------------------------------------------------------------------------
\* For every histogram of item statuses, the counting and the set form of
\* DeriveTaskStatus agree.
THEOREM CountedTaskStatusIsDerived ==
  ASSUME NEW c \in [ItemStatuses -> Nat], NEW begun \in BOOLEAN, NEW cancelling \in BOOLEAN
  PROVE  CountedTaskStatus(c, ItemSum(c), begun, cancelling)
           = DeriveTaskStatus(Occurring(c), begun, cancelling)
<1> DEFINE n == ItemSum(c)
<1>1. /\ "running" \in Occurring(c) <=> c["running"] > 0
      /\ "pending" \in Occurring(c) <=> c["pending"] > 0
      /\ "failed" \in Occurring(c) <=> c["failed"] > 0
  BY DEF Occurring, ItemStatuses
<1>2. Occurring(c) = {} <=> n <= 0
  BY DEF Occurring, ItemStatuses, ItemSum
<1>3. Occurring(c) \subseteq ValidStatuses <=> ValidCount(c) = n
  BY DEF Occurring, ItemStatuses, ItemSum, ValidCount, ValidStatuses
<1>4. Occurring(c) \cap ValidStatuses # {} <=> ValidCount(c) > 0
  BY DEF Occurring, ItemStatuses, ValidCount, ValidStatuses
<1> HIDE DEF n
<1> QED
  BY <1>1, <1>2, <1>3, <1>4 DEF CountedTaskStatus, DeriveTaskStatus, n

\* For every histogram of stage statuses, the counting and the set form of
\* DeriveCompositeStatus agree.
THEOREM CountedCompositeStatusIsDerived ==
  ASSUME NEW c \in [TaskStatuses -> Nat]
  PROVE  CountedCompositeStatus(c, StageSum(c)) = DeriveCompositeStatus(Occurring(c))
<1> DEFINE n == StageSum(c)
<1>1. Occurring(c) = {} <=> n = 0
  BY DEF Occurring, TaskStatuses, StageSum
<1>2. /\ "invalidated" \in Occurring(c) <=> c["invalidated"] > 0
      /\ Occurring(c) \cap {"running", "queued"} # {} <=> c["running"] + c["queued"] > 0
  BY DEF Occurring, TaskStatuses
<1>3. n # 0 => /\ Occurring(c) = {"completed"} <=> c["completed"] = n
               /\ Occurring(c) = {"planned"} <=> c["planned"] = n
               /\ Occurring(c) = {"failed"} <=> c["failed"] = n
               /\ Occurring(c) = {"cancelled"} <=> c["cancelled"] = n
  BY SMTT(30) DEF Occurring, TaskStatuses, StageSum
<1>4. n # 0 /\ c["invalidated"] = 0 /\ c["running"] + c["queued"] = 0
        => \E s \in {"completed", "partial", "planned", "failed", "cancelled"} : c[s] > 0
  BY DEF TaskStatuses, StageSum
<1>5. c["invalidated"] \in Nat /\ c["running"] + c["queued"] \in Nat
  BY DEF TaskStatuses
<1> HIDE DEF n
<1> QED
  BY <1>1, <1>2, <1>3, <1>4, <1>5 DEF CountedCompositeStatus, DeriveCompositeStatus, n

-----------------------------------------------------------------------------
(* The counters of a running system: no step loses an item or a stage.      *)

Balanced ==
  /\ items \in [ItemStatuses -> Nat] /\ ItemSum(items) = Size /\ total = Size
  /\ stages \in [TaskStatuses -> Nat] /\ StageSum(stages) = StageCount
  /\ started \in BOOLEAN /\ cancelRequested \in BOOLEAN

\* A move keeps the sum of a histogram of items.
LEMMA ItemMoved ==
  ASSUME NEW c \in [ItemStatuses -> Nat], NEW a \in ItemStatuses, NEW b \in ItemStatuses, a # b, c[a] > 0
  PROVE  Moved(c, a, b) \in [ItemStatuses -> Nat] /\ ItemSum(Moved(c, a, b)) = ItemSum(c)
<1>1. \A s \in ItemStatuses : Moved(c, a, b)[s] = IF s = a THEN c[s] - 1 ELSE IF s = b THEN c[s] + 1 ELSE c[s]
  BY DEF Moved
<1>2. Moved(c, a, b) \in [ItemStatuses -> Nat]
  BY DEF Moved
<1> HIDE DEF Moved
<1>3. ItemSum(Moved(c, a, b)) = ItemSum(c)
  BY <1>1 DEF ItemSum, ItemStatuses
<1> QED
  BY <1>2, <1>3

\* A move keeps the sum of a histogram of stages.
LEMMA StageMoved ==
  ASSUME NEW c \in [TaskStatuses -> Nat], NEW a \in TaskStatuses, NEW b \in TaskStatuses, a # b, c[a] > 0
  PROVE  Moved(c, a, b) \in [TaskStatuses -> Nat] /\ StageSum(Moved(c, a, b)) = StageSum(c)
<1>1. \A s \in TaskStatuses : Moved(c, a, b)[s] = IF s = a THEN c[s] - 1 ELSE IF s = b THEN c[s] + 1 ELSE c[s]
  BY DEF Moved
<1>2. Moved(c, a, b) \in [TaskStatuses -> Nat]
  BY DEF Moved
<1> HIDE DEF Moved
<1>3. StageSum(Moved(c, a, b)) = StageSum(c)
  BY <1>1 DEF StageSum, TaskStatuses
<1> QED
  BY <1>2, <1>3

\* The sums stay what they were when the task was created.
LEMMA StaysBalanced == CountsSpec => []Balanced
<1>1. CountsInit => Balanced
  BY SizeAssumption DEF CountsInit, Balanced, ItemSum, StageSum, ItemStatuses, TaskStatuses
<1>2. Balanced /\ [CountsNext]_countsVars => Balanced'
  <2> SUFFICES ASSUME Balanced, [CountsNext]_countsVars PROVE Balanced'
    OBVIOUS
  <2>1. CASE MoveItem
    BY <2>1, ItemMoved DEF MoveItem, Balanced
  <2>2. CASE MoveStage
    BY <2>2, StageMoved DEF MoveStage, Balanced
  <2>3. CASE UNCHANGED countsVars
    BY <2>3 DEF countsVars, Balanced
  <2> QED
    BY <2>1, <2>2, <2>3 DEF CountsNext
<1> QED
  BY <1>1, <1>2, PTL DEF CountsSpec

\* The counters of refreshAtomicTask give the status the models derive from
\* the set of statuses, for a task of any size.
THEOREM TaskStatusesAgree == CountsSpec => []TaskStatusAgrees
<1>1. Balanced => TaskStatusAgrees
  BY CountedTaskStatusIsDerived DEF Balanced, TaskStatusAgrees
<1> QED
  BY <1>1, StaysBalanced, PTL

\* The same for refreshCompositeTask, for any number of stages.
THEOREM CompositeStatusesAgree == CountsSpec => []CompositeStatusAgrees
<1>1. Balanced => CompositeStatusAgrees
  BY CountedCompositeStatusIsDerived DEF Balanced, CompositeStatusAgrees
<1> QED
  BY <1>1, StaysBalanced, PTL

\* What a task shows adds up: Missing never has to be cut off at zero, and a
\* task that counts as completed misses nothing.
THEOREM CountsDoAddUp == CountsSpec => []CountsAddUp
<1>1. Balanced => CountsAddUp
  <2> SUFFICES ASSUME Balanced PROVE CountsAddUp
    OBVIOUS
  <2>1. /\ ValidCount(items) \in Nat /\ items["failed"] \in Nat /\ items["pending"] \in Nat /\ items["running"] \in Nat
        /\ items["cancelled"] \in Nat
        /\ total = ValidCount(items) + items["failed"] + items["pending"] + items["running"] + items["cancelled"]
    BY DEF Balanced, ItemSum, ValidCount, ItemStatuses
  <2>2. ValidCount(items) + items["failed"] + Missing(items, total) = total
    BY <2>1 DEF Missing
  <2>3. CountedTaskStatus(items, total, started, cancelRequested) = "completed" /\ total > 0 => ValidCount(items) = total
    BY <2>1 DEF CountedTaskStatus
  <2> QED
    BY <2>1, <2>2, <2>3 DEF CountsAddUp, Missing
<1> QED
  BY <1>1, StaysBalanced, PTL
=============================================================================
