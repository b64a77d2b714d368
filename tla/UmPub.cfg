CONSTANTS
  Options <- MCOptions
  MAX_SRCS = 3
  FlightLimit = 2
  MaxReclaims = 1
  MaxRepeats = 1
SPECIFICATION FairSpec
INVARIANTS
  TypeOK
  FlightBalance
  FlightNeverOverstated
  DrainedMeansStable
  SendsOnlyRegistered
  LoadBalanced
  HistMeasuredOnly
  PeakReported
PROPERTIES
  RefinesPubRun
  DrainEnds
  Terminates
