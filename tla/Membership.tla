------------------------------ MODULE Membership ------------------------------
(***************************************************************************)
(* What a table of workers that are pinged promises: whoever joins stays a *)
(* member as long as signs of life come, and is given up only after it has *)
(* been silent for longer than a time of grace.  Only with its keeper is   *)
(* the table lost.  Hub implements it.                                     *)
(***************************************************************************)
EXTENDS Naturals

CONSTANTS
  Worker,  \* who may join
  Grace    \* how long a member may be silent

VARIABLES
  members,
  silent,  \* the time since a member's last sign of life, as far as it matters
  up       \* the keeper of the table is there

Init == members = {} /\ silent = [w \in Worker |-> 0] /\ up = TRUE

Join(w) ==
  /\ up /\ w \notin members
  /\ members' = members \cup {w}
  /\ UNCHANGED <<silent, up>>

Hear(w) ==
  /\ up /\ w \in members
  /\ silent' = [silent EXCEPT ![w] = 0]
  /\ UNCHANGED <<members, up>>

\* Some of those who have been silent for too long.
GiveUp ==
  /\ up
  /\ \E S \in SUBSET {w \in members : silent[w] > Grace} :
       /\ members' = members \ S
       /\ silent' = [w \in Worker |-> IF w \in S THEN 0 ELSE silent[w]]
  /\ up' = up

Lapse ==
  /\ silent' = [w \in Worker |-> IF w \in members /\ silent[w] <= Grace
                                   THEN silent[w] + 1 ELSE silent[w]]
  /\ UNCHANGED <<members, up>>

\* The keeper goes, and another one begins with an empty table.
Fail == up /\ up' = FALSE /\ UNCHANGED <<members, silent>>

Replace ==
  /\ ~up /\ up' = TRUE
  /\ members' = {} /\ silent' = [w \in Worker |-> 0]

Next == (\E w \in Worker : Join(w) \/ Hear(w)) \/ GiveUp \/ Lapse \/ Fail \/ Replace

Spec == Init /\ [][Next]_<<members, silent, up>>
=============================================================================
