SPECIFICATION FairSpec
CONSTANTS
  j1 = j1
  j2 = j2
  w1 = w1
  w2 = w2
  Jobs = {j1, j2}
  Handled = {j1}
  Workers = {w1, w2}
  Cron = Cron
  Nobody = Nobody
  MaxAttempts = 2
  BatchSize = 2
  MaxCrashes = 2
INVARIANTS
  ClaimsAreExclusive
  RunsWithinMaxAttempts
PROPERTIES
  SettledJobsFrozen
  JobsSettle
