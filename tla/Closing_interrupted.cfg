\* One bet; a cashout and a manual update beside two jobs, with a failing
\* statement and a crash anywhere.
SPECIFICATION Spec
CONSTANTS
  Bets = {b1}
  BonusBets = {}
  ResultingJobs = {r1}
  SettlementJobs = {s1}
  UnsettledJobs = {}
  Closers = {}
  Cashouts = {k1}
  Admins = {a1}
  Commands = {"won", "lost", "void", "cancel", "pending"}
  MaxCommands = 1
  MaxFaults = 1
  MaxCrashes = 1
INVARIANTS PaidOnceAsRecorded LocksHaveHolders
