CONSTANTS
  Processes = {p1}
  Requests <- AnyRequest
  Definitions = {d1, d2}
  Resources <- OneEach
  DefinitionOf <- MadeFrom
  Null = Null
  Clients = {k1}
  Callbacks = {c1, c2}
  SM = SM
  CommandKinds <- DeprovisionOnly
  BatchSize = 2
  RetryLimit = 1
  QueueCapacity = 2
  DequeueSize = 1
  MaxRetry = 2
  AssetsResolve = FALSE
  MaxCommands = 2
  MaxTransient = 1
SPECIFICATION Spec
PROPERTIES NeverBack
