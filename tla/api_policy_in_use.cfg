CONSTANTS
  Clients = {c1, c2}
  Assets = {a1}
  Policies = {p1, p2}
  Definitions = {d1, d2}
  Negotiations = {n1}
  Transfers = {t1}
  DataRequests = {q1}
  QueueBound = 1
  Workloads <- OnlyPolicies
  Null = Null
SPECIFICATION Spec
INVARIANT PolicyDeletedUnreferenced
