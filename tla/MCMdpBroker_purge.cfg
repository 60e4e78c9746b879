CONSTANTS
  w1 = w1
  w2 = w2
  echo = echo
  other = other
  Worker = {w1, w2}
  Service = {echo, other}
  Command = {cmd}
  Interval = 1
  Liveness = 2
  Day = 4
  MaxRequest = 2
SYMMETRY MCSymmetry
SPECIFICATION Spec

PROPERTY PurgeIsComplete
CHECK_DEADLOCK FALSE
