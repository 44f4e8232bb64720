CONSTANTS
  Consumers = {c1}
  Providers = {p1}
  Null = Null
  BatchSize = 2
  RetryLimit = 1
  MaxAgreements = 2
  MaxInterventions = 0
  MaxDelays = 1
SPECIFICATION FairSpec
PROPERTIES SendingEnds
CHECK_DEADLOCK FALSE
