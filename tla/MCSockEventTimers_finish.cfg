SPECIFICATION Spec
CONSTANTS
  Delay <- MCDelay
  Times <- MCTimes
  TicketDelays = {1, 2}
  MaxTimers = 2
  MaxPoll = 9
  MaxTimerId = 2
  MaxTicket = 2
  MaxTime = 2
INVARIANT FinishIsFinal
CHECK_DEADLOCK FALSE
