CONSTANTS
  Plans <- MCPlans
  Topics = 2
  MaxRuns = 2
SPECIFICATION Spec
INVARIANTS
  ReportConclusive
  MeasuredAccounted
  SingleSourceExact
