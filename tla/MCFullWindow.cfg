SPECIFICATION Spec
CONSTANTS
  a = a
  b = b
  Addresses = {a, b}
  Transactions <- MCTransactions
  SearchCount = 2
  MaxTransactions = 4
INVARIANT EveryPaymentCounts
