SPECIFICATION FairSpec
CONSTANTS
  Delay <- MCDelay
  Times <- MCTimes
  TicketDelays = {1, 2}
  MaxTimers = 2
  MaxPoll = 9
  MaxTimerId = 2
  MaxTicket = 2
  MaxTime = 2
INVARIANTS TypeOK OnSchedule WithinBudget NeverOversleeps
PROPERTIES DueAreCalled
CHECK_DEADLOCK FALSE
