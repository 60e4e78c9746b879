--------------------------------- MODULE Hub ---------------------------------
(***************************************************************************)
(* The hub of qmq/qhub.cpp, QHubPrivate::run() on its thread, with the     *)
(* workers and clients of the repository around it: a QWorker registers    *)
(* and leaves the answers to pings to the qforwarder actor of              *)
(* qmq/forwarder.cpp; a QClient registers, queries, says when it goes.     *)
(*                                                                         *)
(* The messages of one peer to the registrar keep their order.  Pings are  *)
(* published and may be lost; a pong is lost with its connection.  A       *)
(* message of the hub to a worker that waits for the answer is `answered`. *)
(* A hub that ended or crashed is followed by another one on the same      *)
(* ports, which the peers' sockets find by themselves; some messages       *)
(* survive that.  A hub is destroyed or crashes with all its tables.       *)
(*                                                                         *)
(* Not modelled: what queries say (kept in Client_t::requests and never    *)
(* read), notifications, malformed messages (none of the repository's peers*)
(* sends one), a change of heartbeat or liveness while the hub runs, and a *)
(* second registerToHub of one QWorker, whose socket then has two          *)
(* identities.                                                             *)
(***************************************************************************)
EXTENDS Integers, Sequences, FiniteSets, Functions

CONSTANTS
  Worker,      \* the identities of workers
  Client,      \* the identities of clients
  Heartbeat,   \* heartbeat
  Liveness,    \* liveness
  MaxRequest,  \* bound: messages of one worker under way to the registrar
  MaxQuery,    \* bound: messages of one client under way to the registrar
  MaxPing      \* bound: pings and pongs of one worker under way

ASSUME TimeAssumption  == Heartbeat \in Nat \ {0} /\ Liveness \in Nat
ASSUME PeerAssumption  == Worker \cap Client = {}
ASSUME BoundAssumption == {MaxRequest, MaxQuery, MaxPing} \subseteq Nat

VARIABLES
  pc,          \* where the hub's thread stands
  terminate,   \* terminate
  owner,       \* the thread that owns the QHub: in stopHUb, in ~QHub, neither
  due,         \* the time until heartbeat_at, -1 when it is past
  m_workers,   \* the known workers: the time left until expiry (-1: past),
               \* liveness, and (as history) the time since the last sign of life
  m_clients,   \* the known clients
  pong_ready,  \* what zmq_poll said of the socket for pongs
  inbox,       \* for each peer, its messages under way to the registrar
  answered,    \* the peers to whom an answer is under way
  phase,       \* for each peer, how far it is
  pings,       \* for each worker, the pings that wait for its forwarder
  pongs,       \* for each worker, what its forwarder sent to the hub
  restarted    \* history: this is not the first hub

hub_vars  == <<pc, terminate, owner, pong_ready>>
peer_vars == <<answered, phase>>
vars == <<pc, terminate, owner, due, m_workers, m_clients, pong_ready, inbox,
          answered, phase, pings, pongs, restarted>>

Peer  == Worker \cup Client
Known == DOMAIN m_workers
Grace == (Liveness + 1) * Heartbeat

WorkerInfo == [left : -1 .. Heartbeat, liveness : 0 .. Liveness, silent : 0 .. Grace + 1]
Message    == {"register", "command", "Disconnected"}
Pong       == {"whole", "bare"}

TypeOK ==
  /\ pc \in {"off", "head", "poll", "request", "pong", "beat", "ending", "crashed"}
  /\ {terminate, pong_ready, restarted} \subseteq BOOLEAN
  /\ owner \in {"idle", "stopping", "deleting", "deleted"}
  /\ due \in -1 .. Heartbeat
  /\ Known \subseteq Worker /\ m_workers \in [Known -> WorkerInfo]
  /\ m_clients \subseteq Client
  /\ inbox \in [Peer -> Seq(Message)]
  /\ answered \subseteq Peer
  /\ phase \in [Peer -> {"new", "asking", "in", "failed", "gone"}]
  /\ pings \in [Worker -> 0 .. MaxPing]
  /\ pongs \in [Worker -> Seq(Pong)]

Init ==
  /\ pc = "off" /\ terminate = TRUE /\ owner = "idle" /\ due = Heartbeat
  /\ m_workers = <<>> /\ m_clients = {} /\ pong_ready = FALSE
  /\ inbox = [p \in Peer |-> <<>>] /\ answered = {}
  /\ phase = [p \in Peer |-> "new"]
  /\ pings = [w \in Worker |-> 0] /\ pongs = [w \in Worker |-> <<>>]
  /\ restarted = FALSE

-----------------------------------------------------------------------------
(***************************************************************************)
(* The thread of the hub.                                                  *)
(***************************************************************************)

\* while(!terminate)
Again == IF terminate THEN "ending" ELSE "poll"

Begin ==
  /\ pc = "head" /\ pc' = Again
  /\ UNCHANGED <<terminate, owner, due, m_workers, m_clients, pong_ready, inbox,
                 peer_vars, pings, pongs, restarted>>

AfterRequest == IF pong_ready THEN "pong" ELSE "beat"

\* zmq_poll: what is ready, or nothing after a heartbeat, or a failure.
Poll ==
  /\ pc = "poll"
  /\ \/ /\ pong_ready' = (\E w \in Worker : pongs[w] # <<>>)
        /\ \/ (\E p \in Peer : inbox[p] # <<>>) /\ pc' = "request"
           \/ (\A p \in Peer : inbox[p] = <<>>) /\ pc' = AfterRequest'
     \/ pong_ready' = FALSE /\ pc' = "ending"
  /\ UNCHANGED <<terminate, owner, due, m_workers, m_clients, inbox,
                 peer_vars, pings, pongs, restarted>>

\* The hub takes the next message of p.
Take(p) ==
  /\ pc = "request" /\ inbox[p] # <<>>
  /\ inbox' = [inbox EXCEPT ![p] = Tail(@)]
  /\ UNCHANGED <<terminate, owner, pong_ready, phase, pings, pongs, restarted>>

Answer(p) == answered' = IF phase[p] = "asking" THEN answered \cup {p} ELSE answered

Fresh == [left |-> Heartbeat, liveness |-> Liveness, silent |-> 0]

\* Any request makes an unknown worker known.
workerRequest(w) ==
  /\ Take(w) /\ pc' = AfterRequest
  /\ \/ Head(inbox[w]) = "register" /\ Answer(w)
     \/ Head(inbox[w]) # "register" /\ answered' = answered
  /\ due' = IF Known = {} THEN Heartbeat ELSE due
  /\ m_workers' = [v \in Known \cup {w} |-> IF v \in Known THEN m_workers[v] ELSE Fresh]
  /\ m_clients' = m_clients

\* Mutation: the client is answered but not kept.
clientQueryForgets(c) ==
  /\ Take(c)
  /\ \/ /\ Head(inbox[c]) = "register" /\ c \notin m_clients
        /\ Answer(c) /\ m_clients' = m_clients /\ pc' = AfterRequest
     \/ /\ Head(inbox[c]) = "Disconnected"
        /\ m_clients' = m_clients \ {c}
        /\ pc' = AfterRequest /\ answered' = answered
     \/ /\ Head(inbox[c]) = "command" /\ c \notin m_clients
        /\ pc' = "crashed" /\ UNCHANGED <<m_clients, answered>>
     \/ /\ Head(inbox[c]) # "Disconnected" /\ c \in m_clients
        /\ pc' = AfterRequest /\ UNCHANGED <<m_clients, answered>>
  /\ UNCHANGED <<due, m_workers>>

\* A known client that registers gets no answer; a query of an unknown one
\* follows a null pointer.
clientQuery(c) ==
  /\ Take(c)
  /\ \/ /\ Head(inbox[c]) = "register" /\ c \notin m_clients
        /\ Answer(c) /\ m_clients' = m_clients \cup {c}
        /\ pc' = AfterRequest
     \/ /\ Head(inbox[c]) = "Disconnected"
        /\ m_clients' = m_clients \ {c}
        /\ pc' = AfterRequest /\ answered' = answered
     \/ /\ Head(inbox[c]) = "command" /\ c \notin m_clients
        /\ pc' = "crashed" /\ UNCHANGED <<m_clients, answered>>
     \/ /\ Head(inbox[c]) # "Disconnected" /\ c \in m_clients
        /\ pc' = AfterRequest /\ UNCHANGED <<m_clients, answered>>
  /\ UNCHANGED <<due, m_workers>>

\* Mutation: the liveness is renewed, the expiry is not.
RenewLiveness(w) == [m_workers EXCEPT ![w].liveness = Liveness, ![w].silent = 0]

Renew(w) == [m_workers EXCEPT ![w] = Fresh]

\* A pong of a known worker is a sign of life; one without a delimiter ends
\* the loop.
workerPong(w) ==
  /\ pc = "pong" /\ pongs[w] # <<>>
  /\ pongs' = [pongs EXCEPT ![w] = Tail(@)] /\ pong_ready' = FALSE
  /\ \/ /\ Head(pongs[w]) = "whole" /\ pc' = "beat"
        /\ m_workers' = IF w \in Known THEN Renew(w) ELSE m_workers
     \/ Head(pongs[w]) = "bare" /\ pc' = "ending" /\ m_workers' = m_workers
  /\ UNCHANGED <<terminate, owner, due, m_clients, inbox,
                 peer_vars, pings, restarted>>

Expired == {w \in Known : m_workers[w].left = -1}

\* Mutation: the worker is not erased.
purgeKeeps ==
  m_workers' = [w \in Known |-> IF w \in Expired THEN [m_workers[w] EXCEPT !.liveness = @ - 1]
                                                 ELSE m_workers[w]]

\* Mutation: the liveness is not counted down.
purgeNever ==
  m_workers' = Restrict(m_workers, Known \ {w \in Expired : m_workers[w].liveness < 0})

\* An expired worker goes when its liveness is used up.
purge ==
  m_workers' = [w \in {v \in Known : v \notin Expired \/ m_workers[v].liveness > 0} |->
                  IF w \in Expired THEN [m_workers[w] EXCEPT !.liveness = @ - 1]
                                   ELSE m_workers[w]]

\* Some of the workers that listen get the ping.
pubPing ==
  \E heard \in SUBSET {w \in Worker : phase[w] = "in" /\ pings[w] + Len(pongs[w]) < MaxPing} :
    pings' = [w \in Worker |-> IF w \in heard THEN pings[w] + 1 ELSE pings[w]]

Beat ==
  /\ pc = "beat" /\ pc' = Again
  /\ \/ due = -1 /\ purge /\ pubPing /\ due' = Heartbeat
     \/ due >= 0 /\ UNCHANGED <<m_workers, pings, due>>
  /\ UNCHANGED <<terminate, owner, m_clients, pong_ready, inbox, peer_vars,
                 pongs, restarted>>

End ==
  /\ pc = "ending"
  /\ pc' = "off" /\ terminate' = TRUE
  /\ UNCHANGED <<owner, due, m_workers, m_clients, pong_ready, inbox, peer_vars,
                 pings, pongs, restarted>>

run == \/ Begin \/ Poll \/ Beat \/ End
       \/ \E w \in Worker : workerRequest(w) \/ workerPong(w)
       \/ \E c \in Client : clientQuery(c)

-----------------------------------------------------------------------------
(***************************************************************************)
(* Its owner, and time.                                                    *)
(***************************************************************************)

Own(from, to) ==
  /\ pc # "crashed" /\ owner = from /\ owner' = to
  /\ UNCHANGED <<due, m_workers, m_clients, pong_ready, inbox, peer_vars,
                 pings, pongs, restarted>>

\* QThread::start does nothing while the thread runs.
startHUb ==
  /\ Own("idle", "idle")
  /\ terminate' = FALSE
  /\ pc' = IF pc = "off" THEN "head" ELSE pc

stopHUb == Own("idle", "stopping") /\ terminate' = FALSE /\ pc' = pc

\* Mutation: as in stopHUb, the thread is not told.
deleteUntold == Own("idle", "deleting") /\ terminate' = FALSE /\ pc' = pc

\* ~QHubPrivate
delete == Own("idle", "deleting") /\ terminate' = TRUE /\ pc' = pc

\* QThread::wait
wait ==
  /\ pc = "off"
  /\ Own("stopping", "idle") \/ Own("deleting", "deleted")
  /\ UNCHANGED <<pc, terminate>>

Less(n) == IF n >= 0 THEN n - 1 ELSE n

Tick ==
  /\ due' = Less(due)
  /\ m_workers' = [w \in Known |->
       [m_workers[w] EXCEPT !.left = Less(@),
                            !.silent = IF @ <= Grace THEN @ + 1 ELSE @]]
  /\ UNCHANGED <<hub_vars, m_clients, inbox, peer_vars, pings, pongs, restarted>>

\* Another hub takes the place of one that crashed or was destroyed.
Restart ==
  /\ pc = "crashed" \/ owner = "deleted"
  /\ pc' = "off" /\ terminate' = TRUE /\ owner' = "idle" /\ due' = Heartbeat
  /\ m_workers' = <<>> /\ m_clients' = {} /\ pong_ready' = FALSE
  /\ \E kept \in SUBSET Peer :
       /\ inbox' = [p \in Peer |-> IF p \in kept THEN inbox[p] ELSE <<>>]
       /\ pongs' = [w \in Worker |-> IF w \in kept THEN pongs[w] ELSE <<>>]
  /\ answered' = {} /\ restarted' = TRUE
  /\ UNCHANGED <<phase, pings>>

-----------------------------------------------------------------------------
(***************************************************************************)
(* The workers and clients.                                                *)
(***************************************************************************)

PeerStep == UNCHANGED <<hub_vars, due, m_workers, m_clients, restarted>>

Send(p, m) == /\ Len(inbox[p]) < (IF p \in Worker THEN MaxRequest ELSE MaxQuery)
              /\ inbox' = [inbox EXCEPT ![p] = Append(@, m)]

\* registerToHub; connectToHub, which makes a new socket of the same identity.
\* The hub's ROUTER takes that one once nothing of the old one is left.
Register(p) ==
  /\ PeerStep
  /\ \/ phase[p] = "new"
     \/ p \in Client /\ phase[p] \in {"in", "failed"}
  /\ inbox[p] = <<>> /\ Send(p, "register")
  /\ phase' = [phase EXCEPT ![p] = "asking"]
  /\ UNCHANGED <<answered, pings, pongs>>

Accepted(p) ==
  /\ PeerStep
  /\ phase[p] = "asking" /\ p \in answered
  /\ phase' = [phase EXCEPT ![p] = "in"] /\ answered' = answered \ {p}
  /\ UNCHANGED <<inbox, pings, pongs>>

TimedOut(p) ==
  /\ PeerStep
  /\ phase[p] = "asking"
  /\ phase' = [phase EXCEPT ![p] = "failed"] /\ answered' = answered \ {p}
  /\ UNCHANGED <<inbox, pings, pongs>>

\* queryToHub and requestToHub.
Command(p) ==
  /\ PeerStep
  /\ phase[p] \in {"in", "failed"} /\ Send(p, "command")
  /\ UNCHANGED <<peer_vars, pings, pongs>>

\* ~QClient, after which the identity may come back.
LeaveClient(c) ==
  /\ PeerStep
  /\ phase[c] \in {"in", "failed"} /\ Send(c, "Disconnected")
  /\ phase' = [phase EXCEPT ![c] = "new"]
  /\ UNCHANGED <<answered, pings, pongs>>

\* ~QWorker says nothing to the hub, and ends the forwarder.
LeaveWorker(w) ==
  /\ PeerStep
  /\ phase[w] \in {"in", "failed"}
  /\ phase' = [phase EXCEPT ![w] = "gone"]
  /\ pings' = [pings EXCEPT ![w] = 0]
  /\ UNCHANGED <<answered, inbox, pongs>>

\* ForwarderHandler::s_switch from the frontend: one delimiter, then all that
\* is there.  It may be lost with the connection.
s_switch(w) ==
  /\ PeerStep
  /\ phase[w] = "in" /\ pings[w] > 0
  /\ pings' = [pings EXCEPT ![w] = 0]
  /\ \/ pongs' = [pongs EXCEPT ![w] = @ \o [i \in 1 .. pings[w] |->
                                              IF i = 1 THEN "whole" ELSE "bare"]]
     \/ pongs' = pongs
  /\ UNCHANGED <<peer_vars, inbox>>

peers == \/ \E p \in Peer : Register(p) \/ Accepted(p) \/ TimedOut(p) \/ Command(p)
         \/ \E c \in Client : LeaveClient(c)
         \/ \E w \in Worker : LeaveWorker(w) \/ s_switch(w)

Next == run \/ startHUb \/ stopHUb \/ delete \/ wait \/ Tick \/ Restart \/ peers

\* The thread of the hub runs (zmq_poll has a timeout), time passes, and a
\* thread that waits for another one wakes up.
Fairness == WF_vars(run) /\ WF_vars(Tick) /\ WF_vars(wait)

Spec == Init /\ [][Next]_vars /\ Fairness

-----------------------------------------------------------------------------
(***************************************************************************)
(* Properties.                                                             *)
(***************************************************************************)

silence == [w \in Worker |-> IF w \in Known THEN m_workers[w].silent ELSE 0]

hub_up  == pc # "crashed" /\ owner # "deleted"

M == INSTANCE Membership WITH members <- Known, silent <- silence, up <- hub_up

\* The table of workers implements Membership: whatever is lost, late, restarted
\* or asked in between, a worker stays known until no pong of it has come for
\* longer than liveness + 1 heartbeats (qhub.cpp:70-88, 267-276).
MembersRefine == M!Spec

\* A query of a client the hub does not know, on which it crashes (qhub.cpp:219),
\* only comes to a hub that took the place of another: in the life of one hub
\* registration, queries and goodbye of a client keep their order.
UnknownOnlyAfterRestart == pc = "crashed" => restarted

Working == {"head", "poll", "request", "pong", "beat"}

\* A worker that is no more, or never got its answer and so does not listen to
\* pings, does not stay known: as long as the hub runs, every beat counts it down
\* and in the end erases it, whatever it asks meanwhile (qhub.cpp:346-351).
GoneForgotten ==
  \A w \in Worker :
    w \in Known /\ phase[w] \in {"failed", "gone"} /\ pc \in Working
      ~> w \notin Known \/ pc \notin Working

\* The destructor's wait for the thread comes to an end (qhub.cpp:50-52),
\* unless the hub crashes.
DeleteReturns == owner = "deleting" ~> owner = "deleted" \/ pc = "crashed"
=============================================================================
