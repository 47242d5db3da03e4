SPECIFICATION Spec
CONSTANTS
  x1 = x1  x2 = x2
  Kinds <- AllKinds
  Filters = {"all", "settled", "pending"}
  PerPages = {1, 2, 3}
  PagerSize = 2
  Results <- MCResults
  MaxBets = 6
  MaxResults = 2
  Slips = {x1, x2}
  Ladder <- MCLadder
  MaxRegrades = 1
INVARIANTS TypeOK PagesSkipOne AnswersAgree OffersHold LostBetsKeepTheirStake
CHECK_DEADLOCK FALSE
