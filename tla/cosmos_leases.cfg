CONSTANTS
  Documents = {d1, d2}
  Runtimes = {"r1", "r2"}
  Loops = {"loop1", "loop2"}
  Callbacks = {"callback"}
  RuntimeOf <- CallbackAtFirst
  Crashing = {"r1"}
  BatchSize = 2
  LeaseDuration = 1
  Null = Null
  MaxFaults = 1
  MaxCallbacks = 1
SPECIFICATION FairSpec
INVARIANTS TypeOK SaveUnderOwnLease ExclusiveUntilExpiry
PROPERTIES StaleOnlyAfterExpiry ImplementsLease HandedOut
