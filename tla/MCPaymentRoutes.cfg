SPECIFICATION PaymentSpec
CONSTANTS
  alice = alice
  s1 = s1
  s2 = s2
  p1 = p1
  p2 = p2
  r1 = r1
  o1 = o1
  fan1 = fan1
  fan2 = fan2
  NoKey = NoKey
  NoOne = NoOne
  NoSupport = NoSupport
  NoReward = NoReward
  NoOption = NoOption
  MinWithdrawal = 1
  Withdrawals = {}
  Admins = {}
  Keys = {}
  Amounts = {}
  Creators <- MCCreators
  Supports <- MCSupports
  CreatorOf <- MCCreatorOf
  Net <- MCNet
  Fee <- MCFee
  Calls <- MCCalls
  Rewards <- MCRewards
  Options <- MCOptions
  MaxQuantity <- OneCopy
  Supporter <- TwoFans
  RewardOf <- NoRewards
  OptionOf <- OneVote
  Routes <- AsDeclared
  MaxCrashes = 0
INVARIANTS
  WebhookReachesHandler
