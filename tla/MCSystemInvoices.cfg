SPECIFICATION Spec
CONSTANTS
  b1 = b1
  b2 = b2
  Browsers = {b1, b2}
  Lines <- MCLines
  Addresses <- MCAddresses
  Amount <- MCAmount
  Quotes = {2}
  ShortQuotes = {}
  InvoiceLifetime = 0
  Payments = {2}
  Undefined = undefined
  Garbled = garbled
  MaxTime = 1
  MaxReceived = 2
  MaxLoads = 1
  MaxRestarts = 0
INVARIANTS TypeOK Understood OwnAmount ReceiptAgrees PaidPageFunded
CHECK_DEADLOCK FALSE
