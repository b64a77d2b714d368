CONSTANTS
  Options <- MCOptions
  Garbage <- MCGarbage
SPECIFICATION Spec
INVARIANT ActualSends
