SPECIFICATION Spec
CONSTANTS
  Users = {u1}
  Slots = {k1, k2}
  None = None
  Settings = {0, 1}
  MinStabilization = 1
  HandlerLimit = 0
  Cooldown = 1
  MaxEntries = 1
  OthersActive = TRUE
  Budgets <- AllScenes
INVARIANTS TypeOK TimerGuardsCandidate OneHandlerPerUser RowsAreSnapshots
PROPERTIES EvictionStopsTimers ImplementsDebouncedPower
