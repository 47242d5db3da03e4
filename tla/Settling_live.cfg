\* A single, a settlement, its rollback, a bet cancel, one crash: what the jobs still bring about.
SPECIFICATION FairSpec
CONSTANTS
  x = x
  y = y
  Bets = {b1}
  Picks <- OneSingle
  MarketOf <- OneMarket
  EventOf <- OneEvent
  Late = {"event"}
  Accepted = {b1}
  Settles = {s1}
  Cancels = {c1}
  Rollbacks = {r1}
  Manuals = {a1}
  MaxIds = 4
  MaxCrashes = 1
  MaxTroubles = 2
INVARIANT WonBetsHaveWon
PROPERTY SettledBetsAreResulted
