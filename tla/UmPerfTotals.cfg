CONSTANTS
  Plans <- MCPlans
  Topics = 2
  MaxRuns = 1
SPECIFICATION Spec
INVARIANT TotalsReported
