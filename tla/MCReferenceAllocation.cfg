SPECIFICATION FairSpec
CONSTANTS
  Creators = {c1, c2, c3}
  Base = 2
  Limit = 8
  MaxAttempts = 2
  Existing <- MCGap
  Top = 5
INVARIANTS TypeOK NoGaps FailureNeedsContention
PROPERTY EveryCreateEnds
