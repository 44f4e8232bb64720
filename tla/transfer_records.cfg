CONSTANTS
  Processes = {p1}
  Requests <- EitherSide
  Definitions = {d1, d2}
  Resources <- OneReportedAgain
  DefinitionOf <- MadeFrom
  Null = Null
  Clients = {k1}
  Callbacks = {c1, c2}
  SM = SM
  CommandKinds <- AllCommandKinds
  BatchSize = 2
  RetryLimit = 1
  QueueCapacity = 1
  DequeueSize = 1
  MaxRetry = 2
  AssetsResolve = FALSE
  MaxCommands = 2
  MaxTransient = 1
SPECIFICATION Spec
SYMMETRY SameThreads
INVARIANTS TypeOK ProvisionedIsComplete RetriesBounded IndInv
