SPECIFICATION Spec
CONSTANTS
  Replicas = {r1, r2}
  Queues = {q1}
  Vals = {a}
  None = None
  Advisory = TRUE
  LastDay = 2
  MaxTries = 2
  Budgets <- BothReplicas
SYMMETRY ReplicaSymmetry
INVARIANTS TypeOK OneSender
PROPERTY NoDuplicateSends
