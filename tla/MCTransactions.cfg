SPECIFICATION FairTxnSpec
CONSTANTS
  alice = alice
  s1 = s1
  w1 = w1
  w2 = w2
  admin1 = admin1
  admin2 = admin2
  k1 = k1
  t1 = t1
  t2 = t2
  NoKey = NoKey
  NoOne = NoOne
  NoOp = NoOp
  MinWithdrawal = 1
  MaxAttempts = 2
  Creators <- MCCreators
  Supports <- MCSupports
  Withdrawals <- MCWithdrawals
  Admins <- MCAdmins
  Keys <- MCKeys
  Amounts <- MCAmounts
  CreatorOf <- MCCreatorOf
  Net <- MCNet
  Fee <- MCFee
  Callers <- MCCallers
INVARIANTS
  DecisionsHold
PROPERTY
  EveryRequestIsAnswered
