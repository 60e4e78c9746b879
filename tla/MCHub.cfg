SPECIFICATION Spec
CONSTANTS
  w1 = w1
  c1 = c1
  Worker = {w1}
  Client = {c1}
  Heartbeat = 1
  Liveness = 1
  MaxRequest = 1
  MaxQuery = 2
  MaxPing = 2
INVARIANTS TypeOK UnknownOnlyAfterRestart
PROPERTIES MembersRefine GoneForgotten DeleteReturns
