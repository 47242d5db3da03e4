\* One bet staked with a bonus; every job, its detached closeBet and a
\* cashout at once, no failures.
SPECIFICATION Spec
CONSTANTS
  Bets = {b1}
  BonusBets = {b1}
  ResultingJobs = {r1}
  SettlementJobs = {s1}
  UnsettledJobs = {u1}
  Closers = {c1}
  Cashouts = {k1}
  Admins = {}
  Commands = {}
  MaxCommands = 0
  MaxFaults = 0
  MaxCrashes = 0
INVARIANTS TypeOK OnlyInterruptionsLoseMoney
PROPERTY ImplementsPayOnce
