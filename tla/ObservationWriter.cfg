CONSTANTS
  Row = {r1, r2, r3, r4}
  MaxQueue = 3
  BatchSize = 2
SPECIFICATION Spec
CHECK_DEADLOCK FALSE
INVARIANTS StatsAccount NeverOvercounts
PROPERTIES ImplementsLedger RowsSettle
