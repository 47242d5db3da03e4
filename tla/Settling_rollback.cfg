\* A settlement, the result it gives the bet, and its rollback.
SPECIFICATION Spec
CONSTANTS
  x = x
  y = y
  Bets = {b1}
  Picks <- OneDouble
  MarketOf <- OwnMarket
  EventOf <- SameEvent
  Late = {}
  Accepted = {b1}
  Settles = {s1}
  Cancels = {}
  Rollbacks = {r1}
  Manuals = {}
  MaxIds = 5
  MaxCrashes = 0
  MaxTroubles = 2
PROPERTY RollbackResetsBets
