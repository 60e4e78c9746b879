---------------------------- MODULE GossipFrames ----------------------------
(* The frames of the gossip protocol (GossipFrame::send and recv): the      *)
(* signature, the id, a version, and for PUBLISH a short key, a long value  *)
(* and a time to live. A ROUTER puts the routing id in front.               *)
EXTENDS Bytes, SequencesExt

CONSTANTS
  Signature,  \* 0xAAA0
  Identity    \* the routing id a ROUTER knows its peer by

HELLO == 1
PUBLISH == 2
PING == 3
PONG == 4
INVALID == 5
MessageId == {HELLO, PUBLISH, PING, PONG, INVALID}

NoGossip == [id |-> 0, routing |-> <<>>, key |-> <<>>, value |-> <<>>, ttl |-> 0]

(* setKey() keeps as much of a key as one byte can count.                    *)
SetKey(g, key) == [g EXCEPT !.key = SubSeq(key, 1, IF Len(key) < Base THEN Len(key) ELSE Base - 1)]

(* An id of no message has neither version nor fields.                       *)
GossipBody(g) ==
  Put2(Signature) \o Put1(g.id)
    \o (IF g.id \in MessageId THEN Put1(1) ELSE <<>>)
    \o (IF g.id = PUBLISH
        THEN Put1(Len(g.key)) \o g.key \o Put4(Len(g.value)) \o g.value \o Put4(g.ttl)
        ELSE <<>>)

GossipSend(g, router) ==
  IF router THEN <<g.routing, GossipBody(g)>> ELSE <<GossipBody(g)>>

-----------------------------------------------------------------------------
(* The receiver reads field after field into the object, and stops at the   *)
(* first that is not there: what it has read by then stays.                 *)
Failed(s) == [s EXCEPT !.ok = FALSE]

GetSignature(s) ==
  IF Holds(s.buffer, 2) /\ Get2(s.buffer) = Signature
  THEN [s EXCEPT !.buffer = Rest(@, 2)] ELSE Failed(s)

GetId(s) ==
  IF ~s.ok \/ ~Holds(s.buffer, 1) THEN Failed(s)
  ELSE [s EXCEPT !.g.id = Get1(s.buffer), !.buffer = Rest(@, 1),
                 !.ok = Get1(s.buffer) \in MessageId]

GetVersion(s) ==
  IF ~s.ok \/ ~Holds(s.buffer, 1) THEN Failed(s)
  ELSE [s EXCEPT !.buffer = Rest(@, 1), !.ok = Get1(s.buffer) = 1]

GetKey(s) ==
  IF ~s.ok \/ ~Holds(s.buffer, 1) \/ ~Holds(s.buffer, 1 + Get1(s.buffer)) THEN Failed(s)
  ELSE LET end == 1 + Get1(s.buffer)
       IN [s EXCEPT !.g.key = SubSeq(s.buffer, 2, end), !.buffer = Rest(@, end)]

GetValue(s) ==
  IF ~s.ok \/ ~Holds(s.buffer, 4) \/ ~Holds(s.buffer, 4 + Get4(s.buffer)) THEN Failed(s)
  ELSE LET end == 4 + Get4(s.buffer)
       IN [s EXCEPT !.g.value = SubSeq(s.buffer, 5, end), !.buffer = Rest(@, end)]

GetTtl(s) ==
  IF ~s.ok \/ ~Holds(s.buffer, 4) THEN Failed(s)
  ELSE [s EXCEPT !.g.ttl = Get4(s.buffer), !.buffer = Rest(@, 4)]

GossipParse(g, buffer) ==
  LET head == GetVersion(GetId(GetSignature([g |-> g, buffer |-> buffer, ok |-> TRUE])))
  IN IF head.ok /\ head.g.id = PUBLISH THEN GetTtl(GetValue(GetKey(head))) ELSE head

(* recv() of an object g: what becomes of it, whether it is a message, and   *)
(* how many frames were taken.                                               *)
GossipRecv(g, frames, router) ==
  LET routed == IF router THEN [g EXCEPT !.routing = frames[1]] ELSE g
      lone   == router /\ Len(frames) = 1
      parsed == GossipParse(routed, frames[IF router THEN 2 ELSE 1])
  IN IF lone THEN [g |-> routed, ok |-> FALSE, taken |-> 1]
     ELSE [g |-> parsed.g, ok |-> parsed.ok, taken |-> IF router THEN 2 ELSE 1]
=============================================================================
