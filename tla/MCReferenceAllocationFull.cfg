SPECIFICATION FairSpec
CONSTANTS
  Creators = {c1, c2}
  Base = 10
  Limit = 100
  MaxAttempts = 5
  Existing <- MCNinetyEight
  Top = 98
PROPERTY NextFollowsHighest
