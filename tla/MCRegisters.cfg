SPECIFICATION Spec
CONSTANTS
  x1 = x1
  x2 = x2
  y1 = y1
  y2 = y2
  r1 = r1
  r2 = r2
  Requests = {r1, r2}
  NoOne = NoOne
  Owner = owner
  owner = owner
  Approvers = {owner, partner}
  partner = partner
  Entries = {x1, x2}
  Hours = {1, 2}
  Codes = {x1, x2}
  MaxItems = 3
  Steps = {x1, x2}
  References = {y1, y2}
  MaxPosition = 1
  i1 = i1
  Items = {i1}
  Audits = {y1, y2}
  d1 = d1
  Docs = {d1}
  bad = bad
  Contents = {y1, y2, bad}
  Infected = {bad}
  Processes = {x1, x2}
  TTL = 3
  e3 = e3
  Entities = {x1, x2, e3}
  MaxHops = 3
  Levels = {5}
  Effects = {1, 4}
  Appetites = {10, 20}
  Models = {1, 2}
SYMMETRY Sym
INVARIANTS TypeOK NoHitOlderThanTTL
PROPERTIES
  EditsRestoreTheTotal OnePublishedVersion StepsKeepPlaceAndPapers
  PlanKeepsApproverAndLinks DocumentsStayWhole TreeStaysATree ScoresFollowInputs
CHECK_DEADLOCK FALSE
