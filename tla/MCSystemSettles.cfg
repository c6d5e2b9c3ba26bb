SPECIFICATION FairSpec
CONSTANTS
  b1 = b1
  b2 = b2
  Browsers = {b1}
  Lines <- MCTwoLines
  Addresses <- MCOneAddress
  Amount <- MCAmount
  Quotes = {2}
  ShortQuotes = {}
  InvoiceLifetime = 0
  Payments = {2}
  Undefined = undefined
  Garbled = garbled
  MaxTime = 1
  MaxReceived = 2
  MaxLoads = 1
  MaxRestarts = 1
PROPERTY PagesSettle
CHECK_DEADLOCK FALSE
