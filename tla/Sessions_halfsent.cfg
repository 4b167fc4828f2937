SPECIFICATION Spec
CONSTANTS
  NoSession = NoSession
  Session = {s1, s2}
  Request = {r1, r2}
  MaxFiles = 2
  RunnerMayDie = FALSE
  CallsMayFail = FALSE
SYMMETRY Interchangeable
INVARIANTS
  NoHalfSentState
