SPECIFICATION Spec
CONSTANTS
  InnerTTL = 30
  RotateEvery = 20
  RetryAfter = 1
  MaxCall = 1
INVARIANTS
  OneRefusalHarmless
