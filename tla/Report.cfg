CONSTANTS
  Pair = {p, q}
  Gap = 2
  Tenth = 2
  MaxTime = 6
  MaxFault = 1
SPECIFICATION Spec
SYMMETRY Symmetry
CHECK_DEADLOCK FALSE
INVARIANTS NoManufacturedDecay SurvivalFaithful WindowsExplainOpens
