\* Two settlements, the settlement job and the sweep.
SPECIFICATION Spec
CONSTANTS
  x = x
  y = y
  Bets = {b1}
  Picks <- OneDouble
  MarketOf <- OwnMarket
  EventOf <- SameEvent
  Late = {}
  Accepted = {b1}
  Settles = {s1, s2}
  Cancels = {}
  Rollbacks = {}
  Manuals = {}
  MaxIds = 5
  MaxCrashes = 0
  MaxTroubles = 2
INVARIANT VoidSlipsAreNotPaid
