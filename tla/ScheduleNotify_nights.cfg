SPECIFICATION Spec
CONSTANTS
  Replicas = {r1}
  Queues = {q1}
  Vals = {a}
  None = None
  Advisory = TRUE
  LastDay = 3
  MaxTries = 3
  Budgets <- Nights
INVARIANTS HashIsAnnounced
PROPERTY MessageNamesTheChange
