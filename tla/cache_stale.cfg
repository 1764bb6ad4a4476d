SPECIFICATION Spec
CONSTANTS
  t1 = t1
  t2 = t2
  t3 = t3
  Workloads <- ProductAnswer
  Threads = {t1}
  NoThread = NoThread
  MaxWrites = 1
INVARIANTS
  StaleNeverOutlivesWrite
