SPECIFICATION Spec
CONSTANTS
  Replicas = {r1}
  Queues = {q1}
  Vals = {a}
  None = None
  Advisory = TRUE
  LastDay = 2
  MaxTries = 3
  Budgets <- Plain
PROPERTIES SkipsForOthersOnly
