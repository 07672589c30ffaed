CONSTANTS
  k1 = k1
  k2 = k2
  k3 = k3
  c1 = c1
  c2 = c2
  t1 = t1
  t2 = t2
  root = root
  i1 = i1
  i2 = i2
  key1 = key1
  key2 = key2
  None = None
  Scheduler = Scheduler
  Tasks = {t1}
  Roots = {}
  Items = {i1}
  Keys = {key1}
  Claims = {k1, k2}
  Callers = {c1}
  TaskOf <- OneItemTaskOf
  KeyOf <- OneItemKeyOf
  ParentOf <- OneParent
  Needs <- OneNeeds
  Precreated = {t1}
  Prestarted = {t1}
  Workers = 2
  Limits <- CancelLimits
SPECIFICATION FairSpec
PROPERTIES CancelReaches
CHECK_DEADLOCK FALSE
