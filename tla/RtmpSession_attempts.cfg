SPECIFICATION Spec
CONSTANTS
  MaxAttempts = 3
INVARIANTS
  SessionFromOneAttempt
  CleansUp
PROPERTIES
  ReleasesOwn
  IsSession
