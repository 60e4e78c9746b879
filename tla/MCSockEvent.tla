----------------------------- MODULE MCSockEvent -----------------------------
(***************************************************************************)
(* Instances of SockEvent: the readers share a socket, the pollers another.*)
(***************************************************************************)
EXTENDS SockEvent, TLC

CONSTANTS s1, s2

MCSock == [e \in Entry |-> IF e \in Reader THEN s1 ELSE s2]
=============================================================================
