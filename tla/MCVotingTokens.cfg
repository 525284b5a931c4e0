SPECIFICATION Spec
CONSTANTS
  m1 = m1
  m2 = m2
  s1 = s1
  s2 = s2
  Members = {m1, m2}
  Contract = Contract
  MintAmounts = {20}
  MaxSupply = 40
  OPTION_TOKEN_COST = 10
  SUBSCRIPTION_TOKEN_COST = 10
  SUBSCRIPTION_DURATION = 3
  LOSER_REFUND_BPS = 4000
  WINNER_REWARD_BPS = 6000
  ORDER_FEE_BPS = 300
  VoteAmounts = {10}
  Approvals = {10}
  TransferAmounts = {}
  WithdrawAmounts = {10}
  Signers = {s1}
  Wallets = {s1}
  Quotes = {}
  MaxProposals = 1
  MaxTime = 4
  MaxExpiry = 4
INVARIANTS
  TypeOK
  SupplyConserved
  TokenSolvent
  VotesAccountedFor
  WinnerStands
CHECK_DEADLOCK FALSE
SYMMETRY Symmetry
