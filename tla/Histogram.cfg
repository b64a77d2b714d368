CONSTANTS
  Configs <- MCConfigs
  W = 16
  MinSentinel = 6
  Durations = {0, 1, 2, 5, 7, 8, 9, 15, 16, 17, 23, 31}
  MaxSamples = 4
  NUM_MALLOCS = 2
  Blocks = {b1, b2, b3}
SPECIFICATION JitterSpec
INVARIANTS
  EverySampleOnce
  WildOnlyAfterStall
  HonestReport
  BlocksInRing
  ReportsAgree
  LostOnlyForCause
