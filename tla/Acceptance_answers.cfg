\* Two bets and a booking, three answers in any order, a failing call and a
\* crash anywhere.
SPECIFICATION Spec
CONSTANTS
  Bets = {b1, b2, booking}
  Booked = {booking}
  Answers = {m1, m2, m3}
  MaxFaults = 1
  MaxCrashes = 1
PROPERTY ImplementsStakeOnce
SYMMETRY AnswerSymmetry
INVARIANTS TypeOK RefundedOnceAndOut OnlyInterruptionsLoseStakes
CHECK_DEADLOCK FALSE
