SPECIFICATION Spec
CONSTANTS
  Jobs = {j1}
  Users = {u1}
  Works = {w1}
  Quota = 3
  MaxDeletes = 1
  MaxCrashes = 1
  MaxOpens = 2
  NoUser = NoUser
  NoVersion = NoVersion
  EmptyPath = EmptyPath
  NoPaper = NoPaper
PROPERTIES ImportsFinish ImplementsLifecycle
CHECK_DEADLOCK FALSE
