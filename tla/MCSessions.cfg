SPECIFICATION FairSpec
CONSTANTS
  c1 = c1
  c2 = c2
  Calls = {c1, c2}
  Tabs = {1, 2}
  Tokens = {1, 2, 3, 4, 5}
  Families = {1, 2, 3}
  NoToken = NoToken
INVARIANTS TypeOK NoFalseAlarm
PROPERTIES EndedSessionsStayEnded EveryCallEnds
CHECK_DEADLOCK FALSE
