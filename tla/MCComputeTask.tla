---------------------------- MODULE MCComputeTask ----------------------------
(***************************************************************************)
(* Small instances of ComputeTask for TLC.  Each shape is a little set of   *)
(* tables; the configurations pick one and set the budgets of the hazards.  *)
(***************************************************************************)
EXTENDS ComputeTask, TLC

CONSTANTS k1, k2, k3, c1, c2, t1, t2, root, i1, i2, key1, key2

\* Two independent tasks of one item each that need the same cache key.
SharedTaskOf == (i1 :> t1) @@ (i2 :> t2)
SharedKeyOf == (i1 :> key1) @@ (i2 :> key1)
NoParent == (t1 :> None) @@ (t2 :> None)
NoNeeds == (t1 :> {}) @@ (t2 :> {})

\* One task of one item.
OneItemTaskOf == i1 :> t1
OneItemKeyOf == i1 :> key1

\* One task of two items.
OneTaskOf == (i1 :> t1) @@ (i2 :> t1)
OwnKeyOf == (i1 :> key1) @@ (i2 :> key2)
OneParent == t1 :> None
OneNeeds == t1 :> {}

\* A task of its own and a composite of one stage, with the same cache key.
MixedParent == (t1 :> None) @@ (t2 :> root)

\* A composite of two stages, the second after the first.
StageParent == (t1 :> root) @@ (t2 :> root)
StageNeeds == (t1 :> {}) @@ (t2 :> {t1})

Budget(crash, stall, fault, rot, corrupt, calls) ==
  [h \in Hazards |-> CASE h = "crash" -> crash [] h = "stall" -> stall [] h = "fault" -> fault
                       [] h = "rot" -> rot [] h = "corrupt" -> corrupt [] h = "call" -> calls]

LeaseLimits == {Budget(1, 1, 0, 0, 1, 0), Budget(0, 0, 1, 0, 0, 1), Budget(1, 0, 1, 0, 0, 0)}
StageLimits == {Budget(1, 0, 0, 0, 0, 3)}
RequestLimits == {Budget(0, 0, 0, 0, 0, 3)}
CreateLimits == {Budget(0, 0, 0, 1, 1, 4)}
CancelLimits == {Budget(1, 1, 0, 0, 0, 1)}
WorkLimits == {Budget(1, 0, 0, 0, 0, 0)}
NoLimits == {Budget(0, 0, 0, 0, 0, 0)}

Symmetry == Permutations(Claims) \cup Permutations(Callers)

\* The two tasks that share a key are alike: exchanging them with their items
\* changes no table.
SharedSymmetry ==
  Symmetry \cup {(t1 :> t2) @@ (t2 :> t1) @@ (i1 :> i2) @@ (i2 :> i1)}
=============================================================================
