SPECIFICATION Spec
CONSTANTS
  NoSession = NoSession
  Session = {s1, s2}
  HistoryLimit = 2
  Past <- MCPast
  Output = {o1}
  File = {f1}
  MaxFiles = 1
  Call = {c1, c2}
  MaxAttempts = 1
  MaxMoves = 3
INVARIANTS
  TypeOK
  MessagesOnCourse
  OutputsDrawnOnce
  ReplayThenFollow
  ButtonAgrees
PROPERTIES
  FilesLeaveWithTheirMessage
SYMMETRY Interchangeable
CHECK_DEADLOCK FALSE
