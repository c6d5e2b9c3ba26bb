SPECIFICATION FairSpec
CONSTANTS
  ShortQuotes = {}
  Slots = {s1, s2}
  Undefined = undefined
  Due = 50
  Payments = {25, 26}
  MaxReceived = 76
  MaxFailures = 1
PROPERTY BalanceUpdates
CHECK_DEADLOCK FALSE
