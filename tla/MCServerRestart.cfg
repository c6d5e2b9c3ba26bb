SPECIFICATION Spec
CONSTANTS
  c1 = c1
  c2 = c2
  c3 = c3
  junk = junk
  Calls = {c1, c2}
  Junk = junk
  ShortQuotes <- MCShortQuotes
  FiatValues = {1}
  Quotes = {3}
  Ids = {1}
  UnusableIndices = {}
  HardenedKeyStart = 10
  InvoiceLifetime = 1
  Payments = {1}
  MaxTime = 1
  MaxReceived = 2
  MaxRestarts = 1
INVARIANT FreshAddress
CHECK_DEADLOCK FALSE
