CONSTANTS
  Processes = {p1}
  Requests <- ConsumerRequest
  Definitions = {d1}
  Resources <- OneEach
  DefinitionOf <- MadeFrom
  Null = Null
  Clients = {k1}
  Callbacks = {c1}
  SM = SM
  CommandKinds <- CancelOnly
  BatchSize = 2
  RetryLimit = 1
  QueueCapacity = 2
  DequeueSize = 1
  MaxRetry = 2
  AssetsResolve = TRUE
  MaxCommands = 1
  MaxTransient = 1
SPECIFICATION Spec
PROPERTIES CancelledIsFinal
