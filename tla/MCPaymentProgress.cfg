SPECIFICATION Spec
CONSTANTS
  ShortQuotes <- MCShortQuotes
  Quotes <- MCQuotes
  Amounts <- MCAmounts
  MaxReceived = 275
INVARIANTS TypeOK TwoPercentRule RemainingSettles NotPaidAtAll
PROPERTY StatusAdvances
\* the model stops at MaxReceived
CHECK_DEADLOCK FALSE
