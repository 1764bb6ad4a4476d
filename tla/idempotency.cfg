SPECIFICATION FairSpec
CONSTANTS
  k1 = k1
  r1 = r1
  r2 = r2
  r3 = r3
  Keys = {k1}
  Requests = {r1, r2, r3}
  Kinds = {"page", "api"}
  MaxEffects = 3
CHECK_DEADLOCK FALSE
INVARIANTS
  OneOwnerPerKey
PROPERTIES
  RecordedIsFinal
  ReservationsEnd
