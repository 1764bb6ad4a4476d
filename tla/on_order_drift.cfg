SPECIFICATION Spec
CONSTANTS
  p1 = p1
  p2 = p2
  po1 = po1
  po2 = po2
  k1 = k1
  k2 = k2
  s1 = s1
  s2 = s2
  s3 = s3
  Products = {p1, p2}
  Manual = {po1}
  Sessions = {s1, s2}
  Keys = {}
  FreshKey = FreshKey
  NoOne = NoOne
  NoReceipt = NoReceipt
  Quantities = {1}
  Openings = {0}
  Types = {}
  CreatedAs = {"approved"}
  MaxInt = 1
  MaxDay = 1
  CriticalLevel = 0
SYMMETRY Symmetry
CHECK_DEADLOCK FALSE
INVARIANTS
  OnOrderCountsOpenOrders
