SPECIFICATION Spec
CONSTANTS
  p1 = p1
  p2 = p2
  po1 = po1
  po2 = po2
  k1 = k1
  k2 = k2
  s1 = s1
  s2 = s2
  s3 = s3
  Products = {p1}
  Manual = {po1}
  Sessions = {s1, s2, s3}
  Keys = {k1}
  FreshKey = FreshKey
  NoOne = NoOne
  NoReceipt = NoReceipt
  Quantities = {1, 2}
  Openings = {0, 2}
  Types = {"IN", "OUT", "ADJUSTMENT", "RETURN"}
  CreatedAs = {"draft", "approved", "in_transit", "received", "cancelled"}
  MaxInt = 3
  MaxDay = 0
  CriticalLevel = 0
SYMMETRY Symmetry
CHECK_DEADLOCK FALSE
INVARIANTS
  
  OnOrderContract
  ChecksStillHold
  StockMatchesLedger
  StockInRange
  NeverOverReceived
  ReceivedMeansComplete
PROPERTIES
  TerminalOrdersFrozen
  ImplementsStockLedger
