CONSTANTS
  Pair = {a, b}
  Trusted = {a}
  Installed = {a, b}
  Run = {r1}
  Deployment = {TRUE}
  MinPairs = 1
  MaxStarts = 1
  MaxFault = 0
SPECIFICATION Spec
CHECK_DEADLOCK FALSE
PROPERTIES PicksUpNewFile
