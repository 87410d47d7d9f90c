CONSTANTS
  Ticker = {t1, t2}
  MaxSize = 0
  Traded = {}
  MaxSeq = 5
  MaxResync = 3
  MaxFault = 2
  Answers <- MCAnswers
  LosesFirst = FALSE
SPECIFICATION Spec
CHECK_DEADLOCK FALSE
INVARIANTS CoveredWhenQuiet
PROPERTIES ResyncReturns EventuallyCovered
