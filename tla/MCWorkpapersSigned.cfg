SPECIFICATION Spec
CONSTANTS
  junior = junior
  senior = senior
  manager = manager
  cae = cae
  r1 = r1
  r2 = r2
  n1 = n1
  n2 = n2
  blank = blank
  draft = draft
  final = final
  NoOne = NoOne
  Users = {senior, cae}
  Holders <- MCHolders
  Partners = {cae}
  Notes = {n1}
  Contents = {blank, final}
  Documented = {final}
  Requests = {r1, r2}
  StepStatuses = {"IN_PROGRESS", "COMPLETED"}
  MaxVersion = 3
SYMMETRY Symmetry
PROPERTY SignedContentStands
CHECK_DEADLOCK FALSE
