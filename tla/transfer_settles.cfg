CONSTANTS
  Processes = {p1, p2}
  Requests <- TwoRequests
  Definitions = {d1}
  Resources <- OneEach
  DefinitionOf <- MadeFrom
  Null = Null
  Clients = {k1}
  Callbacks = {c1, c2}
  SM = SM
  CommandKinds <- ApiCommands
  BatchSize = 2
  RetryLimit = 1
  QueueCapacity = 2
  DequeueSize = 1
  MaxRetry = 2
  AssetsResolve = TRUE
  MaxCommands = 1
  MaxTransient = 1
SPECIFICATION FairSpec
PROPERTIES EventuallySettles
