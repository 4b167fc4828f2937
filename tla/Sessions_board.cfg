SPECIFICATION FairSpec
CONSTANTS
  NoSession = NoSession
  Session = {s1, s2}
  Request = {r1, r2}
  MaxFiles = 1
  RunnerMayDie = TRUE
  CallsMayFail = TRUE
INVARIANTS
  TypeOK
  OnlyActiveAnswered
  ActiveIsAttached
PROPERTIES
  OneAtATime
  RenewedBetweenSessions
  EveryRequestEnds
