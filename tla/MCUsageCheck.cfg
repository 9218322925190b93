CONSTANTS
  NULL = NULL
  o1 = o1
  o2 = o2
  Org = {o1, o2}
  Accounts <- AnyAccount
  Pins <- AnyPin
  MaxAttempts = 2
  RequestTimeout = 15
  Waits = 2
  Pause <- CodePauses
  KickTimeout = 60
  Settle = 3
  FetchLimit = 219
  MaxEvents = 2
SPECIFICATION FairSpec
INVARIANTS
  NeverGuesses
  HeldBriefly
PROPERTIES
  ChecksEnd
