\* A double, two settlements, and a slip resulted by hand.
SPECIFICATION Spec
CONSTANTS
  x = x
  y = y
  Bets = {b1}
  Picks <- OneDouble
  MarketOf <- OwnMarket
  EventOf <- SameEvent
  Late = {}
  Accepted = {b1}
  Settles = {s1, s2}
  Cancels = {}
  Rollbacks = {}
  Manuals = {a1}
  MaxIds = 5
  MaxCrashes = 0
  MaxTroubles = 2
SYMMETRY MessageSymmetry
INVARIANTS TypeOK WonBetsHaveWon LostBetsHaveLost
