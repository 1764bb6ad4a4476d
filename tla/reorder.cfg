SPECIFICATION FairSpec
CONSTANTS
  p1 = p1
  p2 = p2
  po1 = po1
  po2 = po2
  k1 = k1
  k2 = k2
  s1 = s1
  s2 = s2
  s3 = s3
  Products = {p1}
  Manual = {}
  Sessions = {s1, s2}
  Keys = {k1}
  FreshKey = FreshKey
  NoOne = NoOne
  NoReceipt = NoReceipt
  Quantities = {1}
  Openings = {0}
  Types = {"OUT"}
  CreatedAs = {"in_transit"}
  MaxInt = 2
  MaxDay = 2
  CriticalLevel = 0
CHECK_DEADLOCK FALSE
INVARIANTS
  TypeOK
  KeyAppliedOnce

  
