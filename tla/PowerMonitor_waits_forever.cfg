SPECIFICATION Spec
CONSTANTS
  Users = {u1}
  Slots = {k1, k2}
  None = None
  Settings = {1}
  MinStabilization = 1
  HandlerLimit = 0
  Cooldown = 0
  MaxEntries = 2
  OthersActive = FALSE
  Budgets <- CutOff
PROPERTY AlreadyWaitingHasTimer
