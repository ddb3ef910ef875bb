SPECIFICATION Spec
CONSTANTS
  lead = lead
  senior = senior
  p1 = p1
  f1 = f1
  d1 = d1
  r1 = r1
  r2 = r2
  NoOne = NoOne
  NoReport = NoReport
  Users = {lead, senior}
  Papers = {p1}
  Findings = {f1}
  Patches <- MCPatches
  Reports = {d1}
  Requests = {r1, r2}
SYMMETRY Symmetry
INVARIANTS TypeOK StagesAreEarned GatesLeaveTheirMark
PROPERTIES ClosedIsFrozen LeadStaysOnTeam
CHECK_DEADLOCK FALSE
