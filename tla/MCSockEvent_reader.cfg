CONSTANTS
  s1 = s1
  s2 = s2
  App = {a1}
  Reactor = Reactor
  Reader = {r1, r2}
  Poller = {p1}
  Socket = {s1, s2}
  Sock <- MCSock
  OutOfMemory = FALSE
SPECIFICATION Spec
INVARIANT RemovedReaderForgotten
