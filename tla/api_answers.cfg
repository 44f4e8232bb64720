CONSTANTS
  Clients = {c1, c2}
  Assets = {a1}
  Policies = {p1, p2}
  Definitions = {d1}
  Negotiations = {n1, n2}
  Transfers = {t1}
  DataRequests = {q1}
  QueueBound = 1
  Workloads <- Groups
  Null = Null
SPECIFICATION Spec
SYMMETRY SameClients
INVARIANTS TypeOK AnswerWasTrue DeletedUnreferenced
