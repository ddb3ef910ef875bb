SPECIFICATION Spec
CONSTANTS
  auditor = auditor
  manager = manager
  cae = cae
  client = client
  r1 = r1
  r2 = r2
  k1 = k1
  NoOne = NoOne
  External = External
  Users = {cae, client}
  Holders <- MCHolders
  Recs = {k1}
  Patches <- MCPatches
  Requests = {r1, r2}
  MaxDate = 2
  MaxExtensions = 1
SYMMETRY Symmetry
INVARIANTS TypeOK DatesKeepTheirWord SettledHasItsStamps
PROPERTIES HistoryEndsWhenSettled ExtensionsKeepTheirWord LoneValidatorIsNoOwner
CHECK_DEADLOCK FALSE
