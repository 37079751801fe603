SPECIFICATION ReconSpec
CONSTANTS
  alice = alice
  bob = bob
  s1 = s1
  s2 = s2
  s3 = s3
  w1 = w1
  w2 = w2
  admin1 = admin1
  admin2 = admin2
  k1 = k1
  job1 = job1
  job2 = job2
  NoKey = NoKey
  NoOne = NoOne
  MinWithdrawal = 1
  Creators <- MCCreators
  Supports <- MCSupports
  Withdrawals <- MCWithdrawals
  Admins <- MCAdmins
  Keys <- MCKeys
  Amounts <- MCAmounts
  CreatorOf <- MCCreatorOf
  Net <- MCNet
  Fee <- MCFee
  Jobs <- MCJobs
  Checked <- MCChecked
SYMMETRY Symmetry
INVARIANTS
  TypeOK
  Reconciled
  PostingsMatchRows
  TwoAdminsPerPayout
  OneWithdrawalPerKey
  BalancesMatchRows
  MoneyIsConserved
  OneAlarmPerRun
PROPERTIES
  FinalIsFinal
  KeepsLedgerContract
  AlarmsNeedMovement
