CONSTANTS
  Processes = {p1}
  Requests <- AnyRequest
  Definitions = {d1, d2}
  Resources <- TwoEach
  DefinitionOf <- MadeFrom
  Null = Null
  Clients = {k1}
  Callbacks = {c1, c2}
  SM = SM
  CommandKinds <- WithoutLateProvisioning
  BatchSize = 2
  RetryLimit = 1
  QueueCapacity = 2
  DequeueSize = 1
  MaxRetry = 2
  AssetsResolve = FALSE
  MaxCommands = 3
  MaxTransient = 1
SPECIFICATION Spec
SYMMETRY Interchangeable
INVARIANTS OneOperationInFlight DeprovisionedIsComplete ExclusionInv
PROPERTIES TransferNeverRepeated
