SPECIFICATION FairSpec
CONSTANTS
  Users = {u1}
  Slots = {k1, k2}
  None = None
  Settings = {2}
  MinStabilization = 2
  HandlerLimit = 1
  Cooldown = 2
  MaxEntries = 2
  OthersActive = FALSE
  Budgets <- LivelyScenes
INVARIANTS DatabaseAgrees LastMessageIsTrue
PROPERTIES HistoryAlternates CandidatesResolve
