CONSTANTS
  Threads = {t1, t2, t3}
  MAX_EVENTS = 2
  W = 12
  MaxLogged = 8
SPECIFICATION Spec
SYMMETRY MCSymmetry
INVARIANTS
  LatestKept
  DumpHonest
  OutsideOnlyAfterWrap
