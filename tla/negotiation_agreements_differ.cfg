CONSTANTS
  Consumers = {c1}
  Providers = {p1}
  Null = Null
  BatchSize = 2
  RetryLimit = 1
  MaxAgreements = 2
  MaxInterventions = 0
  MaxDelays = 0
SPECIFICATION Spec
INVARIANTS SameAgreement
CHECK_DEADLOCK FALSE
