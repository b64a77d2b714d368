CONSTANTS
  Options <- MCOptions
  MAX_SRCS = 3
  FlightLimit = 2
  MaxReclaims = 0
  MaxRepeats = 0
SPECIFICATION Spec
INVARIANT NeverNegative
