CONSTANTS
  Consumers = {c1}
  Providers = {p1}
  Null = Null
  BatchSize = 2
  RetryLimit = 1
  MaxAgreements = 2
  MaxInterventions = 1
  MaxDelays = 0
SPECIFICATION Spec
INVARIANTS TypeOK AgreementMeansConfirmed AttemptsBounded ConfirmedOnBothSides IndInv AnswerInv
PROPERTIES NeverRequestedAgain
CHECK_DEADLOCK FALSE
