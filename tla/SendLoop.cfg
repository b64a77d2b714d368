CONSTANTS
  Calls <- MCCalls
  NS = 10
  U = 128
  I = 16
  MaxNow = 20
SPECIFICATION FairSpec
INVARIANTS
  CaughtUp
  TightMeansStall
  NoStallUnseen
PROPERTIES
  RefinesPaced
  Returns
