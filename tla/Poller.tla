------------------------------- MODULE Poller -------------------------------
(* A Poller: the sockets it watches, in the order they were appended, and   *)
(* what its last wait() came to. The poll set is built anew from the list   *)
(* whenever that changed (b_rebuild), so the list stands for both.          *)
EXTENDS SequencesExt

CONSTANT NULL

NewPoller == [list |-> <<>>, expired |-> FALSE, terminated |-> FALSE]

PollerAppend(p, socket) ==
  IF socket = NULL \/ socket \in ToSet(p.list) THEN p
  ELSE [p EXCEPT !.list = Append(@, socket)]

PollerRemove(p, socket) == [p EXCEPT !.list = RemoveFirst(@, socket)]

PollerClear(p) == [list |-> <<>>, expired |-> TRUE, terminated |-> TRUE]

(* wait() gives the first socket of the list that is ready; NULL when the   *)
(* time is over or the poll fails.                                          *)
Waited(p) == [p EXCEPT !.expired = FALSE, !.terminated = FALSE]

FirstReady(p, ready) == p.list[SelectInSeq(p.list, LAMBDA s : s \in ready)]

PollFails(p) == [Waited(p) EXCEPT !.terminated = TRUE]
=============================================================================
