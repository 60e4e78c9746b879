----------------------------- MODULE MCProcesses -----------------------------
(* The parts that run on their own, each in behaviours of its own: the relay *)
(* actors, a Majordomo worker, a context with its sockets, and the beacon.   *)
EXTENDS Relay

CONSTANTS
  HEARTBEAT_LIVENESS, Heartbeat, Reconnect, Day, MaxOnWay,
  Threads, Objects, Limits, MaxStray, MaxListed, MaxContexts, MaxSlips,
  Datas, Filters, Intervals, MaxDatagrams, Hwm

VARIABLES
  part,
  w_stage, w_liveness, w_heartbeat_at, w_now, w_elapsed, w_request,
  w_to_broker, w_to_worker, w_known, w_up,
  c_kind, c_max_sockets, c_made, c_initialized, c_sockets, c_open, c_object,
  c_stray, c_call, c_exit, c_slips,
  b_stage, b_readable, b_terminated, b_configured, b_listening, b_broadcast, b_transmit,
  b_filter, b_interval, b_ping_in, b_datagrams, b_pipe, b_reports, b_network, b_outage

W == INSTANCE MdpWorker WITH
  stage <- w_stage, liveness <- w_liveness, heartbeat_at <- w_heartbeat_at,
  now <- w_now, elapsed <- w_elapsed, request <- w_request,
  to_broker <- w_to_broker, to_worker <- w_to_worker, known <- w_known, up <- w_up

C == INSTANCE Contexts WITH
  kind <- c_kind, s_max_sockets <- c_max_sockets, made <- c_made,
  initialized <- c_initialized, sockets <- c_sockets, open <- c_open,
  object <- c_object, stray <- c_stray, call <- c_call, exit <- c_exit, slips <- c_slips

B == INSTANCE Beacon WITH
  stage <- b_stage, readable <- b_readable, terminated <- b_terminated,
  configured <- b_configured, listening <- b_listening, broadcast <- b_broadcast,
  transmit <- b_transmit, filter <- b_filter, interval <- b_interval, ping_in <- b_ping_in,
  datagrams <- b_datagrams, pipe <- b_pipe, reports <- b_reports, network <- b_network,
  outage <- b_outage

ASSUME PartsAssumption ==
  W!WorkerConstants /\ C!ContextConstants /\ B!BeaconConstants

w_vars == <<w_stage, w_liveness, w_heartbeat_at, w_now, w_elapsed, w_request,
            w_to_broker, w_to_worker, w_known, w_up>>
c_vars == <<c_kind, c_max_sockets, c_made, c_initialized, c_sockets, c_open, c_object,
            c_stray, c_call, c_exit, c_slips>>
b_vars == <<b_stage, b_readable, b_terminated, b_configured, b_listening, b_broadcast, b_transmit,
            b_filter, b_interval, b_ping_in, b_datagrams, b_pipe, b_reports, b_network, b_outage>>

(* The parts that do not run are in one initial state.                      *)
PartsInit ==
  /\ part \in {"relay", "worker", "context", "beacon"}
  /\ Init /\ W!Init /\ C!Init /\ B!Init
  /\ part # "relay" => kind = "proxy"
  /\ part # "worker" => w_now = 0
  /\ part # "context" => c_kind = "QMNet" /\ \A n \in Limits : c_max_sockets <= n
  /\ part # "beacon" => b_network /\ \A i \in Intervals : b_interval <= i

RelayNext   == part = "relay" /\ Next /\ UNCHANGED <<part, w_vars, c_vars, b_vars>>
WorkerNext  == part = "worker" /\ W!Next /\ UNCHANGED <<part, vars, c_vars, b_vars>>
ContextNext == part = "context" /\ C!Next /\ UNCHANGED <<part, vars, w_vars, b_vars>>
BeaconNext  == part = "beacon" /\ B!Next /\ UNCHANGED <<part, vars, w_vars, c_vars>>

PartsNext == RelayNext \/ WorkerNext \/ ContextNext \/ BeaconNext

(* Each part's fairness, where that part runs.                              *)
PartsFairness ==
  /\ WF_vars(part = "relay" /\ Running /\ Handler)
  /\ WF_w_vars(part = "worker" /\ W!Loop)
  /\ WF_w_vars(part = "worker" /\ W!Tick)
  /\ WF_w_vars(part = "worker" /\ W!BrokerReads)
  /\ WF_b_vars(part = "beacon" /\ B!Running /\ B!Handler)
  /\ WF_b_vars(part = "beacon" /\ B!Running /\ B!TakeReport)
  /\ WF_b_vars(part = "beacon" /\ B!Running /\ B!Tick)

PartsSpec ==
  PartsInit /\ [][PartsNext]_<<part, vars, w_vars, c_vars, b_vars>> /\ PartsFairness

(* The types of every part.                                                 *)
TypesOK == TypeOK /\ W!TypeOK /\ C!TypeOK /\ B!TypeOK

(* What each part promises, as its module states it.                        *)
RegainsBroker == W!RegainsBroker
TableTrue == C!TableTrue
CleanExit == C!CleanExit
BeaconWorks == B!BeaconWorks

MCTypes == {"DEALER", "SUB"}

MCDatas == {<<1, 1>>, <<2, 1>>}
MCFilters == {<<1>>}
=============================================================================
