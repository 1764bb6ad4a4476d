SPECIFICATION Spec
CONSTANTS
  k1 = k1
  r1 = r1
  r2 = r2
  r3 = r3
  Keys = {k1}
  Requests = {r1}
  Kinds = {"api"}
  MaxEffects = 2
CHECK_DEADLOCK FALSE
INVARIANTS
  EffectOncePerKey
