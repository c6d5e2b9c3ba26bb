SPECIFICATION FairSpec
CONSTANTS
  Requests = {r1, r2, r3}
  Amounts = {0, 1, nan}
  NaN = nan
  MaxLoads = 2
INVARIANTS TypeOK BlankOnlyBetween AnsweredIsOnPage
PROPERTY SubmitEnds
\* the model stops when its requests are used up
CHECK_DEADLOCK FALSE
