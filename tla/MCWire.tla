------------------------------- MODULE MCWire -------------------------------
(* Three state machines side by side, of which one moves in a behaviour: the *)
(* calls over the wire, the Messages objects, and a socket with its endpoints. *)
(* Base is far below 256, so that the length marker and numbers that wrap come *)
(* up at small sizes.                                                        *)
EXTENDS Messages, TLC

CONSTANTS
  one, two, Ports, Endpoints, MaxEndpoints,
  PointerSize, MAX_ALLOC_SIZE, Signature, Identity,
  Args, BArgs, Gossips, Strings, Statuses, Leftovers, CacheSize, MaxSent

VARIABLES
  part,
  p_stage, p_holder, p_asked, p_done, p_port, p_attempts, p_result, p_endpoint, p_steady,
  w_route, w_pipe, w_partial, w_remaining, w_reading, w_got, w_gossip, w_cache_size, w_waiting,
  w_overrun, w_sent

P == INSTANCE Endpoints WITH
       stage <- p_stage, holder <- p_holder, asked <- p_asked, done <- p_done,
       port <- p_port, attempts <- p_attempts, result <- p_result,
       endpoint <- p_endpoint, steady <- p_steady

W == INSTANCE Wire WITH
       route <- w_route, pipe <- w_pipe, partial <- w_partial, remaining <- w_remaining,
       reading <- w_reading, got <- w_got, gossip <- w_gossip, cache_size <- w_cache_size,
       waiting <- w_waiting, overrun <- w_overrun, sent <- w_sent

ASSUME WireAssumption == MessageConstants /\ P!EndpointConstants /\ W!WireConstants

p_vars == <<p_stage, p_holder, p_asked, p_done, p_port, p_attempts, p_result, p_endpoint, p_steady>>
w_vars == <<w_route, w_pipe, w_partial, w_remaining, w_reading, w_got, w_gossip, w_cache_size, w_waiting,
            w_overrun, w_sent>>

-----------------------------------------------------------------------------
(* What is sent over the wire.                                              *)
E(type, value) == [type |-> type, value |-> value, null |-> FALSE]
Null(type) == [type |-> type, value |-> <<>>, null |-> TRUE]

Long9 == [i \in 1 .. 9 |-> 1]

MCArgs ==
  { <<E("i", 5), E("z", <<>>), E("s", <<1, 2>>)>>,
    <<E("i", 1)>>,
    <<E("u", 3)>>,
    <<E("s", <<>>), E("m", <<<<1>>, <<>>>>)>>,
    <<E("m", <<<<1, 2>>>>), E("s", <<2>>)>>,
    <<E("p", <<1, 2>>), E("c", <<3>>), E("f", <<>>), E("b", <<1, 1, 1>>)>> }

MCBArgs ==
  { <<E("1", 5), E("2", 35), E("4", 217), E("8", 279937), Null("S")>>,
    <<E("s", <<1>>), E("S", <<1, 2>>), E("p", <<5, 4>>), E("c", <<3, 1>>),
      E("f", <<1>>), E("m", <<<<1>>, <<>>>>)>>,
    <<E("s", Long9), E("1", 1)>>,
    <<Null("c"), E("1", 1)>>,
    <<E("S", Long9), E("m", <<>>)>>,
    <<E("s", <<1, 2, 3, 4>>), E("s", <<>>), Null("m")>>,
    <<E("s", <<1, 2, 3>>), E("s", <<5, 2>>), E("s", <<1>>)>>,
    <<E("s", <<1, 2, 3, 4>>), E("s", <<5, 2, 3>>), E("s", <<1>>)>>,
    <<E("1", 5), E("1", 3), E("1", 2), E("1", 1), E("s", <<1>>), E("S", <<2, 3>>), E("4", 9)>> }

(* The second frame reads as an encoding of a frame just below the marker.  *)
MCContent == {<<>>, <<4, 0, 0, 0, 0>>}

MCStrings == {<<3>>}

MCIdentity == <<3>>

(* HELLO, PUBLISH and an id outside the list.                               *)
MCGossips ==
  {[id |-> id, routing |-> MCIdentity, key |-> Long9, value |-> <<1, 2>>, ttl |-> 65] :
     id \in {1, 2, 0}}

(* Bind and connect.                                                        *)
MCPorts == 1 .. 3
Asked(h, f, l) == [how |-> h, first |-> f, last |-> l]
MCEndpoints == {Asked("port", 2, 2), Asked("*", 1, 3), Asked("!", 1, 3), Asked("!", 3, 1),
                Asked("other", 1, 1), Asked("connect", 1, 1)}

-----------------------------------------------------------------------------
MCInit ==
  /\ part \in {"wire", "messages", "ports"} /\ Init /\ P!Init /\ W!Init
  /\ part # "wire" => w_route = "plain"

WireNext     == part = "wire" /\ W!Next /\ UNCHANGED <<part, vars, p_vars>>
MessagesNext == part = "messages" /\ Next /\ UNCHANGED <<part, p_vars, w_vars>>
PortsNext    == part = "ports" /\ P!Next /\ UNCHANGED <<part, vars, w_vars>>

MCNext == WireNext \/ MessagesNext \/ PortsNext

(* The Messages objects are alike.                                         *)
Alike == Permutations(Slot)

MCSpec == MCInit /\ [][MCNext]_<<part, vars, p_vars, w_vars>>

(* The type invariants of the machines.                                     *)
TypesOK == TypeOK /\ P!TypeOK /\ W!TypeOK

(* What bind() and attach() promise, as Endpoints states it, and what the    *)
(* receiving calls promise, as Wire does.                                    *)
AttachedAsAsked == P!AttachedAsAsked
ReceivedAsSent == W!ReceivedAsSent
=============================================================================
