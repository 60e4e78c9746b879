---------------------------- MODULE PollRegistry ----------------------------
(***************************************************************************)
(* What the reactor promises about a registration list (the reader list or *)
(* the poller list of SockEvent): whenever a change of the list is not     *)
(* marked as outstanding, the set of entries the reactor polls is the list.*)
(* A change may be made at any time, by any thread, and always leaves the  *)
(* mark behind; only a refresh of the polled set may take the mark away,   *)
(* and only when it has taken over the whole list.                         *)
(***************************************************************************)

CONSTANT Item                \* the entries that can be registered

VARIABLES
  wanted,                    \* the entries registered now
  polled,                    \* the entries the reactor polls
  dirty,                     \* is a change of wanted still outstanding?
  stopped                    \* has the reactor been told to stop?

vars == <<wanted, polled, dirty, stopped>>

Init == /\ wanted = {}
        /\ polled = {}
        /\ dirty = TRUE
        /\ stopped \in BOOLEAN

Change == /\ wanted' \in SUBSET Item
          /\ dirty' = TRUE
          /\ UNCHANGED <<polled, stopped>>

\* A full refresh takes over the list; it may find a further change marked.
Refresh == /\ dirty
           /\ polled' = wanted
           /\ dirty' \in BOOLEAN
           /\ UNCHANGED <<wanted, stopped>>

\* A refresh that meets a change half way may take over a part only: the
\* mark then stays, and another refresh has to follow.
PartialRefresh == /\ dirty
                  /\ polled' \in SUBSET wanted
                  /\ dirty' = TRUE
                  /\ stopped' \in {stopped, TRUE}
                  /\ UNCHANGED wanted

Stop == /\ stopped' = TRUE
        /\ UNCHANGED <<wanted, polled, dirty>>

Next == Change \/ Refresh \/ PartialRefresh \/ Stop

Spec == Init /\ [][Next]_vars

\* The promise itself.
InSync == ~dirty => polled = wanted
=============================================================================
