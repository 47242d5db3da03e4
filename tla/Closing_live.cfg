\* Two bets, the jobs that result and close them, one crash and no failing
\* statement: what the cron ticks and startUp still bring about.
SPECIFICATION FairSpec
CONSTANTS
  Bets = {b1, b2}
  BonusBets = {}
  ResultingJobs = {r1}
  SettlementJobs = {s1}
  UnsettledJobs = {}
  Closers = {}
  Cashouts = {}
  Admins = {}
  Commands = {}
  MaxCommands = 0
  MaxFaults = 0
  MaxCrashes = 1
INVARIANT WonBetsAreListed
PROPERTIES WonBetsArePickedUp LocksAreReleased
