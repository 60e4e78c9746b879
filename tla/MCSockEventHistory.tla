-------------------------- MODULE MCSockEventHistory --------------------------
(* SockEventHistory with the sockets of MCSockEvent: one for the readers, one *)
(* for the pollers.                                                           *)
EXTENDS SockEventHistory, TLC

CONSTANTS s1, s2

MCSock == [e \in Entry |-> IF e \in Reader THEN s1 ELSE s2]

\* The application threads are alike, and so are the pollers of the one socket.
Alike == Permutations(App) \cup Permutations(Poller)
=============================================================================
