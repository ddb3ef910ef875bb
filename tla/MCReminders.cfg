SPECIFICATION FairSpec
CONSTANTS
  BeforeDueDays = {1, 3}
  Every = 3
  ManagerDays = 3
  CaeDays = 5
  DueDays <- MCDueDays
  DueTimes = {0, 3}
  RunTimes = {1, 2}
  MaxFailures = 2
INVARIANTS TypeOK EscalationIsEarned
PROPERTIES EscalationNeverDrops RemindersKeepTheInterval OverdueIsPursued
