SPECIFICATION Spec
CONSTANTS
  m1 = m1
  m2 = m2
  c1 = c1
  c2 = c2
  c3 = c3
  a = a
  b = b
  Members = {m1, m2}
  Merchants = {a, b}
  Clients = {c1, c2}
  MemberOf <- OwnClients
  Admins = {}
  Creators = {m1}
  StartTokens = 2
  StartTickets <- OneOfEach
  VoteAmounts = {2}
  maxOptions = 3
  DayEnd = 4
  MaxTime = 4
  optionTokenCost = 1
  proposalTokenCost = 1
  winnerTokenReward = 6
  loserPartialRefund = 4
  winnerProposerPoints = 120
  voterPoints = 25
SYMMETRY Symmetry
INVARIANT RewardsPaidOnce
CHECK_DEADLOCK FALSE
