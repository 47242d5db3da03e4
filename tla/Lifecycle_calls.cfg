\* A bet of two slips, an acceptance and a rejection, one call of each kind.
SPECIFICATION LifeSpec
CONSTANTS
  Bets = {b1}
  Booked = {}
  Answers = {m1, m2}
  Selections = {x1, x2}
  Settlers = {s1}
  Sweepers = {w1}
  Resulters = {r1}
  Cashouts = {k1}
  MaxFaults = 1
  MaxCrashes = 1
SYMMETRY Symmetry
VIEW WithoutDebits
CONSTRAINT Bounds
PROPERTY ImplementsPayOnce
INVARIANTS LifeTypeOK RefundedBetsStayOut PaidBetsWereAccepted
CHECK_DEADLOCK FALSE
