CONSTANTS
  s1 = s1
  s2 = s2
  App = {a1}
  Reactor = Reactor
  Reader = {r1}
  Poller = {p1, p2}
  Socket = {s1, s2}
  Sock <- MCSock
  OutOfMemory = TRUE
SPECIFICATION FairSpec
PROPERTIES ThreadsFinish Settles
