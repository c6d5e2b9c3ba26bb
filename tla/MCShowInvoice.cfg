SPECIFICATION FairSpec
CONSTANTS
  ShortQuotes = {}
  Slots = {s1, s2}
  Undefined = undefined
  Due = 50
  Payments = {25, 26}
  MaxReceived = 76
  MaxFailures = 1
INVARIANTS TypeOK ReceiptIsFilled NeverAheadOfServer
PROPERTY PageConverges
CHECK_DEADLOCK FALSE
