SPECIFICATION Spec
CONSTANTS
  c1 = c1
  c2 = c2
  l1 = l1
  l2 = l2
  NoToken = NoToken
  Calls <- MCCalls
  Tokens <- MCTokens
  ResetTokens <- MCResetTokens
  MaxSessions = 2
  MaxPasswords = 2
SYMMETRY Symmetry
INVARIANTS
  SessionsTypeOK
  SessionsBounded
  TokenExchangedOnce
  SurvivorsWereOvertaken
PROPERTIES
  EvictsOldest
  StaleLinksFail
