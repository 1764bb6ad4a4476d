SPECIFICATION Spec
CONSTANTS
  j1 = j1
  j2 = j2
  w1 = w1
  w2 = w2
  Jobs = {j1}
  Handled = {j1}
  Workers = {w1, w2}
  Cron = Cron
  Nobody = Nobody
  MaxAttempts = 2
  BatchSize = 2
  MaxCrashes = 1
PROPERTIES
  OnlyTheOwnerWrites
