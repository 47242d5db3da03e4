\* A bet cancel.
SPECIFICATION Spec
CONSTANTS
  x = x
  y = y
  Bets = {b1}
  Picks <- OneDouble
  MarketOf <- OwnMarket
  EventOf <- SameEvent
  Late = {}
  Accepted = {b1}
  Settles = {s1}
  Cancels = {c1}
  Rollbacks = {}
  Manuals = {}
  MaxIds = 5
  MaxCrashes = 0
  MaxTroubles = 2
PROPERTY CancelledBetsAreRefunded
