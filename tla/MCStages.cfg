CONSTANTS
  k1 = k1
  k2 = k2
  k3 = k3
  c1 = c1
  c2 = c2
  t1 = t1
  t2 = t2
  root = root
  i1 = i1
  i2 = i2
  key1 = key1
  key2 = key2
  None = None
  Scheduler = Scheduler
  Tasks = {t1, t2}
  Roots = {root}
  Items = {i1, i2}
  Keys = {key1, key2}
  Claims = {k1, k2}
  Callers = {c1}
  TaskOf <- SharedTaskOf
  KeyOf <- OwnKeyOf
  ParentOf <- StageParent
  Needs <- StageNeeds
  Precreated = {root, t1, t2}
  Prestarted = {t1}
  Workers = 1
  Limits <- StageLimits
SPECIFICATION Spec
SYMMETRY Symmetry
INVARIANTS StageOrder
CHECK_DEADLOCK FALSE
