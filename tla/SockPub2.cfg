CONSTANTS
  Options <- MCOptions
  Garbage <- MCGarbage
SPECIFICATION FairSpec
INVARIANTS
  MeasuredInterval
  HistMeasuredOnly
  TightOfTimed
  NoThreadLeft
PROPERTIES
  RefinesPubRun
  Terminates
