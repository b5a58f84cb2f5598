SPECIFICATION Spec
CONSTANTS
  Jobs = {j1, j2}
  Users = {u1}
  Works = {w1}
  Quota = 3
  MaxDeletes = 1
  MaxCrashes = 1
  MaxOpens = 0
  NoUser = NoUser
  NoVersion = NoVersion
  EmptyPath = EmptyPath
  NoPaper = NoPaper
INVARIANTS TypeOK SucceededImportIsReadable OrphanDocumentsOnlyFromRaces
CHECK_DEADLOCK FALSE
CONSTRAINT OneDisturbance
SYMMETRY JobSymmetry
