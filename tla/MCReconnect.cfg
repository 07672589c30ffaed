CONSTANTS
  Instances = {i1}
  Ticks = {t1, t2}
  Conns = {c1, c2}
  MaxBar = 2
  Month <- SameMonth
  Faults <- DropOnly
SPECIFICATION Spec
INVARIANTS Reachable
CHECK_DEADLOCK FALSE
