CONSTANTS
  MaxCount = 2
  Window = 2
SPECIFICATION WatchdogSpec
PROPERTIES OkMeansMeasured AlarmRaised WedgeEnds
