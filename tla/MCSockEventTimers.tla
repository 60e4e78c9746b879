-------------------------- MODULE MCSockEventTimers --------------------------
(* Values for the constants of SockEventTimers: two delays, timers that fire *)
(* once, twice or for ever, an hour that is longer than the clock runs.      *)
EXTENDS SockEventTimers

MCDelay == {1, 2}
MCTimes == {0, 1, 2}
=============================================================================
