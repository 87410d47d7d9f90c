CONSTANTS
  Pair = {a, b}
  Trusted = {a}
  Installed = {b}
  Run = {r1, r2}
  Deployment = {TRUE, FALSE}
  MinPairs = 0
  MaxStarts = 2
  MaxFault = 1
SPECIFICATION Spec
CHECK_DEADLOCK FALSE
INVARIANTS OneMatcher TrackedHaveRows
PROPERTIES NeverHalves Settles
