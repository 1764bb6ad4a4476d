SPECIFICATION Spec
CONSTANTS
  t1 = t1
  t2 = t2
  t3 = t3
  Workloads <- AllWorkloads
  Threads = {t1, t2, t3}
  NoThread = NoThread
  MaxWrites = 2
SYMMETRY Symmetry
INVARIANTS
  RebuildsAreExclusive
  CoveredViewsFresh
