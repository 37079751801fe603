SPECIFICATION Spec
CONSTANTS
  c1 = c1
  c2 = c2
  w1 = w1
  NoAccount = NoAccount
  Calls <- MCCalls
  Withdrawals <- MCWithdrawals
  MaxAccounts = 2
  MaxCreated = 4
SYMMETRY Symmetry
INVARIANTS
  AccountsBounded
  DefaultIsActive
  PayoutAccountStays
