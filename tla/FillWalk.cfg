CONSTANTS
  Price <- MCPrice
  KalshiRate = 7
  PolyRate = 5
  Buffer = 100
  Cap = 3
  Unit = 2
  Pairs <- MCPairs
SPECIFICATION Spec
CHECK_DEADLOCK FALSE
INVARIANTS TypeOK LargestSize EdgeDecays PlanIsFillable ZeroIsNoTrade
