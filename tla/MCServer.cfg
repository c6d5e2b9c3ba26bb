SPECIFICATION Spec
CONSTANTS
  c1 = c1
  c2 = c2
  c3 = c3
  junk = junk
  Calls = {c1, c2, c3}
  Junk = junk
  ShortQuotes <- MCShortQuotes
  FiatValues = {0, 1}
  Quotes = {3}
  Ids = {1, junk}
  UnusableIndices = {2}
  HardenedKeyStart = 3
  InvoiceLifetime = 0
  Payments = {1}
  MaxTime = 1
  MaxReceived = 2
  MaxRestarts = 1
INVARIANTS TypeOK UniqueUnlessRaced  EntriesAreBuilt LedgerKeepsAnswers  PaidMeansFunded DeadlineKept
PROPERTIES WedgeIsPermanent ExpiredIsFinal AnswersAdvance ImplementsLedger
SYMMETRY MCSymmetry
CHECK_DEADLOCK FALSE
