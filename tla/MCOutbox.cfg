SPECIFICATION FairSpec
CONSTANTS
  r1 = r1
  r2 = r2
  fan = fan
  NoEvent = NoEvent
  NoClaim = NoClaim
  Supports <- MCSupports
  Messages <- MCMessages
  Early <- MCEarly
  SupporterOf <- OneFan
  SignedIn <- MCSignedIn
  TopFan = 2
  Runs <- MCRuns
  StaleAfter = 0
  MaxRun = 1
INVARIANTS
  ProjectedOnce
  BadgesAreEarned
  NeverOvercounted
PROPERTIES
  KeepsOutboxContract
CHECK_DEADLOCK FALSE
