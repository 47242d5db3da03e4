SPECIFICATION Spec
CONSTANTS
  b1 = b1  b2 = b2  t1 = t1  r1 = r1
  v1 = v1  v2 = v2  v3 = v3  x1 = x1  x2 = x2  y1 = y1
  Bets = {b1, b2}
  TxOf <- MCTxOf
  RoundOf <- MCRoundOf
  BonusBets = {b1}
  Settles = {s1, s2}
  SmartSoft = {s2}
  Cancels = {c1}
  Closings = {e1}
  Wins = {0, 1}
  Tickets = {v1, v2, v3}
  VRoundOf <- MCVRoundOf
  VTxOf <- MCVTxOf
  MaxRepeats = 1
  MaxStops = 1
INVARIANTS TypeOK WinningsAddUp SmartSoftPaysOnce LastWordStands
  VirtualRetriesPayOnce LookupsFindTheirTicket
CHECK_DEADLOCK FALSE
