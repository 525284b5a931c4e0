SPECIFICATION Spec
CONSTANTS
  m1 = m1
  m2 = m2
  c1 = c1
  c2 = c2
  c3 = c3
  a = a
  b = b
  Members = {m1, m2}
  Merchants = {a, b}
  Clients = {c1, c2, c3}
  MemberOf <- ThreeTabs
  Admins = {c2}
  Creators = {m1}
  StartTokens = 1
  StartTickets <- OneVoteTicket
  VoteAmounts = {1}
  maxOptions = 3
  DayEnd = 2
  MaxTime = 2
  optionTokenCost = 1
  proposalTokenCost = 1
  winnerTokenReward = 6
  loserPartialRefund = 4
  winnerProposerPoints = 120
  voterPoints = 25
SYMMETRY TabSymmetry
CONSTRAINT TwoInFlight
INVARIANTS
  TypeOK
  ValueConserved
  WinnerAfterVote
CHECK_DEADLOCK FALSE
