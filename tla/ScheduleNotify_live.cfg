SPECIFICATION FairSpec
CONSTANTS
  Replicas = {r1}
  Queues = {q1}
  Vals = {a}
  None = None
  Advisory = FALSE
  LastDay = 2
  MaxTries = 3
  Budgets <- Plain
PROPERTIES ChangesArrive PendingIsFlushed
