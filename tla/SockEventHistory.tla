--------------------------- MODULE SockEventHistory ---------------------------
(***************************************************************************)
(* SockEvent with history variables: what a caller may believe to be       *)
(* registered or removed, and how often it was called after a removal.     *)
(* They record what the threads did and decide nothing.                    *)
(***************************************************************************)
EXTENDS SockEvent

VARIABLES
  registered,  \* entries appended unhindered whose removal nobody has begun
  taken,       \* entries the call under way of each thread took off in time
  removed,     \* entries whose removal has returned
  late         \* calls of handlers of removed entries, by socket

hist == <<registered, taken, removed, late>>

HInit ==
  /\ Init
  /\ registered = {} /\ removed = {}
  /\ taken = [t \in Thread |-> {}]
  /\ late = [s \in Socket |-> 0]

\* Since the flag was set for a reader, a rebuild has copied the readers once
\* more; it clears the flag or has cleared it, and the removal comes too late.
Overtaken == ~need_rebuild \/ rpc \in {"copy_pollers", "clear"}

\* The write of t takes its entry off the list before the next copy of it.
TakesOff(t) == /\ pc[t] \in {"unread", "unpoll"}
               /\ ~Racing(t)
               /\ pc[t] = "unread" => ~Overtaken

\* A step of a registration call of t.  When a removal returns, what it took
\* off is removed, and late calls of those sockets are counted from here on.
Registers(t) ==
  LET off == IF TakesOff(t) THEN taken[t] \cup (todo[t] \ todo'[t]) ELSE taken[t]
      returns == pc'[t] = "idle"
  IN  /\ registered' = IF pc[t] = "enlist" /\ ~Racing(t)
                         THEN registered \cup todo[t] ELSE registered \ todo'[t]
      /\ removed' = IF returns THEN removed \cup off ELSE removed \ todo'[t]
      /\ taken' = [u \in Thread |->
                     IF u # t THEN taken[u] \ todo'[t] ELSE IF returns THEN {} ELSE off]
      /\ late' = [s \in Socket |->
                    IF returns /\ s \in {Sock[e] : e \in off} THEN 0 ELSE late[s]]

\* The handler of e is called.
Calls(e) ==
  /\ late' = IF e \in removed THEN [late EXCEPT ![Sock[e]] = @ + 1] ELSE late
  /\ UNCHANGED <<registered, taken, removed>>

HNext ==
  \/ \E t \in Thread : RegistrationStep(t) /\ Registers(t)
  \/ \E e \in Entry : Dispatch(e) /\ Calls(e)
  \/ (Pass \/ Start \/ Abort) /\ UNCHANGED hist

HSpec == HInit /\ [][HNext]_<<vars, hist>>

-----------------------------------------------------------------------------
\* What was registered is polled (appendReader, appendPoll, rebuild): an entry
\* that was appended while no other thread wrote its list, and that nobody has
\* begun to remove, stays in its list whatever the other calls do to it, and is
\* in the poll set as soon as neither the flag nor a pending call asks for a
\* rebuild.  The condition is needed: an append that races with another write
\* of the list may be lost for good, although the caller is told it succeeded.
RegisteredArePolled ==
  /\ registered \subseteq readers_list \cup pollers_list
  /\ ~need_rebuild /\ ~ChangePending => registered \subseteq readacts \cup pollacts

\* Once removePoller or removeReader has returned, the handlers of what it took
\* off are called at most once more, all entries of the socket together: the
\* test of need_rebuild ends the pass after that call, and the rebuild drops
\* them.  A removal that raced with another write of the list promises nothing,
\* nor does one of a reader that a rebuild overtook (see RemovedReaderForgotten).
RemovedCalledLateOnce == \A s \in Socket : late[s] <= 1

=============================================================================
