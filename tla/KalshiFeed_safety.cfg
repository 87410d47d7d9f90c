CONSTANTS
  Ticker = {t1, t2}
  MaxSize = 2
  Traded = {t1}
  MaxSeq = 6
  MaxResync = 2
  MaxFault = 1
  Answers <- MCAnswers
  LosesFirst = FALSE
SPECIFICATION Spec
CHECK_DEADLOCK FALSE
INVARIANTS TypeOK BookFaithful LiveMeansApplied
PROPERTIES OnlyLossIsAGap
