------------------------------ MODULE MdpBroker ------------------------------
(***************************************************************************)
(* The Majordomo broker of qmq/mdp.cpp: MdpBroker::run() on its thread,    *)
(* the services with their queues, the workers with their expiry, and the  *)
(* heartbeats.                                                             *)
(*                                                                         *)
(* Its peers are those of the repository.  An MdpWorker connects with a    *)
(* new identity every time (connectToBroker makes a new socket), sends     *)
(* READY first, then HEARTBEAT and REPORT, and DISCONNECT when it is       *)
(* destroyed; what it sent before the broker gave it up still arrives.  A  *)
(* second READY of one identity and unknown commands do not occur.  A      *)
(* request is a number, in the order of arrival, and its service; which    *)
(* bytes a request carries is not modelled, nor are the mmi.service queries*)
(* and the answers to clients, which change nothing in the broker.         *)
(*                                                                         *)
(* Undefined behaviour is a choice between going on and "crashed":         *)
(*   - run() deletes every client message after clientMessage (815-822): a *)
(*     request that was sent is deleted twice, one that waits is used after*)
(*     it was deleted;                                                     *)
(*   - a message of an unknown worker makes a Worker_t whose service is not*)
(*     initialised and removes it at once (527-538).                       *)
(* QTime is a time of day: it wraps at midnight.  A whole pass over one    *)
(* message happens at one instant.  start() is called on a stopped broker  *)
(* only.                                                                   *)
(***************************************************************************)
EXTENDS Integers, Sequences, FiniteSetsExt, Functions, Lists

CONSTANTS
  Worker,      \* the identities of workers
  Service,     \* the names of services
  Command,     \* the first words of requests, which the filter knows
  Interval,    \* HEARTBEAT_INTERVAL
  Liveness,    \* HEARTBEAT_LIVENESS
  Day,         \* the length of a day
  MaxRequest   \* bound: requests accepted in all

HEARTBEAT_EXPIRY == Interval * Liveness

ASSUME TimeAssumption ==
  /\ {Interval, Liveness} \subseteq Nat \ {0}
  /\ Day \in Nat /\ HEARTBEAT_EXPIRY < Day
ASSUME BoundAssumption == MaxRequest \in Nat

VARIABLES
  now,           \* QTime::currentTime()
  ls_workers,    \* the known workers: their service and expiry (and, as
                 \* history, their age: the time since READY or HEARTBEAT, up
                 \* to the expiry; and since: the requests sent before READY)
  ls_waitings,   \* the list for heartbeats
  waiting,       \* for each service, the workers in the order of their turns
  requests,      \* for each service, the requests nobody was there for
  blacklisted,   \* for each service, the commands the filter holds back
  heartbeat_at,  \* when the next heartbeats are due
  pc,            \* where run() stands
  terminated,    \* stop() was called
  serves,        \* the service each worker names in READY
  peer,          \* each worker: "new", "joined" (READY was handled), "left"
  asked,         \* history: the service of each request accepted, in order
  log            \* history: each request sent, with the worker it went to

time_vars    == <<now, heartbeat_at>>
table_vars   == <<ls_workers, ls_waitings, waiting>>
request_vars == <<requests, blacklisted, asked, log>>
peer_vars    == <<serves, peer>>
vars == <<now, ls_workers, ls_waitings, waiting, requests, blacklisted,
          heartbeat_at, pc, terminated, serves, peer, asked, log>>

Time       == 0 .. Day - 1
Known      == DOMAIN ls_workers
WorkerInfo == [service : Service, expiry : Time,
               age : 0 .. HEARTBEAT_EXPIRY, since : Nat]
LogEntry   == [request : 1 .. MaxRequest, worker : Worker]

TypeOK ==
  /\ now \in Time /\ heartbeat_at \in Time
  /\ Known \subseteq Worker /\ ls_workers \in [Known -> WorkerInfo]
  /\ ls_waitings \in Seq(Worker)
  /\ waiting \in [Service -> Seq(Worker)]
  /\ requests \in [Service -> Seq(1 .. MaxRequest)]
  /\ blacklisted \in [Service -> SUBSET Command]
  /\ pc \in {"stopped", "poll", "check", "crashed"}
  /\ terminated \in BOOLEAN
  /\ serves \in [Worker -> Service]
  /\ peer \in [Worker -> {"new", "joined", "left"}]
  /\ asked \in Seq(Service) /\ Len(asked) <= MaxRequest
  /\ log \in Seq(LogEntry)

\* QTime::addMSecs, for less than a day.
AddTime(t, d) == IF t + d < Day THEN t + d ELSE t + d - Day

Init ==
  /\ now \in Time /\ heartbeat_at = AddTime(now, Interval)
  /\ ls_workers = <<>> /\ ls_waitings = <<>>
  /\ waiting = [s \in Service |-> <<>>]
  /\ requests = [s \in Service |-> <<>>]
  /\ blacklisted = [s \in Service |-> {}]
  /\ pc = "stopped" /\ terminated = TRUE
  /\ serves \in [Worker -> Service]
  /\ peer = [w \in Worker |-> "new"]
  /\ asked = <<>> /\ log = <<>>

-----------------------------------------------------------------------------
(***************************************************************************)
(* Removal and dispatch.                                                   *)
(***************************************************************************)

\* Which workers one purge may delete.  It goes through the hash table, whose
\* order is arbitrary, and stops at the first worker that is alive: if there
\* is one, it deletes some of the expired; if not, all.
Purgeable(workers) ==
  LET expired == {w \in DOMAIN workers : now >= workers[w].expiry}
  IN  IF expired = DOMAIN workers THEN {expired} ELSE SUBSET expired

\* Mutation: the list for heartbeats keeps a deleted worker.
RemoveFromService(S) ==
  /\ ls_workers' = Restrict(ls_workers, Known \ S)
  /\ ls_waitings' = ls_waitings
  /\ waiting' = [s \in Service |-> Without(waiting[s], S)]

\* Worker_t::remove for the workers in S.
Remove(S) ==
  /\ ls_workers' = Restrict(ls_workers, Known \ S)
  /\ ls_waitings' = Without(ls_waitings, S)
  /\ waiting' = [s \in Service |-> Without(waiting[s], S)]

\* The i-th request goes to the worker then at the head of the list, which
\* moves to its end; Rotate is the list after n of them.
Turn(list, i) == list[((i - 1) % Len(list)) + 1]

\* Mutation: the worker goes back to the head of the list.
RotateNot(list, n) == list

Rotate(list, n) ==
  LET size  == Len(list)
      shift == n % size
  IN  [i \in 1 .. size |-> list[IF i + shift <= size THEN i + shift
                                                     ELSE i + shift - size]]

Deliver(list, queue) ==
  [i \in 1 .. Len(queue) |-> [request |-> queue[i], worker |-> Turn(list, i)]]

\* Mutation: one request only, an if for the while.
DispatchOne(s, lists, queue, gone) ==
  LET kept == [t \in Service |-> Without(lists[t], gone)]
  IN  \/ /\ kept[s] = <<>> \/ queue = <<>>
         /\ waiting' = kept
         /\ requests' = [requests EXCEPT ![s] = queue]
         /\ log' = log
      \/ /\ kept[s] # <<>> /\ queue # <<>>
         /\ waiting' = [kept EXCEPT ![s] = Rotate(kept[s], 1)]
         /\ requests' = [requests EXCEPT ![s] = Tail(queue)]
         /\ log' = log \o Deliver(kept[s], <<queue[1]>>)

\* Mutation: requests are sent and stay queued.
DispatchKeep(s, lists, queue, gone) ==
  LET kept == [t \in Service |-> Without(lists[t], gone)]
  IN  \/ /\ kept[s] = <<>>
         /\ waiting' = kept
         /\ requests' = [requests EXCEPT ![s] = queue]
         /\ log' = log
      \/ /\ kept[s] # <<>>
         /\ waiting' = [kept EXCEPT ![s] = Rotate(kept[s], Len(queue))]
         /\ requests' = [requests EXCEPT ![s] = queue]
         /\ log' = log \o Deliver(kept[s], queue)

\* Service_t::dispatch, after a purge that deletes the workers `gone`; the
\* lists and the queue are those it finds.
Dispatch(s, lists, queue, gone) ==
  LET kept == [t \in Service |-> Without(lists[t], gone)]
  IN  \/ /\ kept[s] = <<>>
         /\ waiting' = kept
         /\ requests' = [requests EXCEPT ![s] = queue]
         /\ log' = log
      \/ /\ kept[s] # <<>>
         /\ waiting' = [kept EXCEPT ![s] = Rotate(kept[s], Len(queue))]
         /\ requests' = [requests EXCEPT ![s] = <<>>]
         /\ log' = log \o Deliver(kept[s], queue)

-----------------------------------------------------------------------------
(***************************************************************************)
(* Messages.                                                               *)
(***************************************************************************)

Message == pc = "poll" /\ pc' = "check"
From(w) == Message /\ peer[w] = "joined"

\* Mutation: the expiry is computed without the wrap of a time of day.
JoinedUnwrapped(w) ==
  [v \in Known \cup {w} |->
     IF v = w THEN [service |-> serves[w], expiry |-> now + HEARTBEAT_EXPIRY,
                    age |-> 0, since |-> Len(log)]
              ELSE ls_workers[v]]

\* The table with w, whose expiry is an expiry from now.
Joined(w) ==
  [v \in Known \cup {w} |->
     IF v = w THEN [service |-> serves[w], expiry |-> AddTime(now, HEARTBEAT_EXPIRY),
                    age |-> 0, since |-> Len(log)]
              ELSE ls_workers[v]]

Ready(w) ==
  /\ Message /\ peer[w] = "new"
  /\ \E gone \in Purgeable(Joined(w)) :
       /\ ls_workers' = Restrict(Joined(w), (Known \cup {w}) \ gone)
       /\ ls_waitings' = Without(Append(ls_waitings, w), gone)
       /\ Dispatch(serves[w], [waiting EXCEPT ![serves[w]] = Append(@, w)],
                   requests[serves[w]], gone)
  /\ peer' = [peer EXCEPT ![w] = "joined"]
  /\ UNCHANGED <<time_vars, blacklisted, terminated, serves, asked>>

Refresh(w) ==
  ls_workers' = [ls_workers EXCEPT ![w].expiry = AddTime(now, HEARTBEAT_EXPIRY),
                                   ![w].age = 0]

\* Mutation: the worker stays where it is in the list.
HeartbeatInPlace(w) ==
  /\ From(w)
  /\ \/ /\ w \in Known
        /\ Refresh(w)
        /\ UNCHANGED <<ls_waitings, waiting>>
     \/ w \notin Known /\ UNCHANGED table_vars
  /\ UNCHANGED <<time_vars, request_vars, terminated, peer_vars>>

\* Mutation: the expiry is not renewed.
HeartbeatStale(w) ==
  /\ From(w)
  /\ \/ /\ w \in Known
        /\ ls_waitings' = Append(Without(ls_waitings, {w}), w)
        /\ ls_workers' = [ls_workers EXCEPT ![w].age = 0]
        /\ waiting' = waiting
     \/ w \notin Known /\ UNCHANGED table_vars
  /\ UNCHANGED <<time_vars, request_vars, terminated, peer_vars>>

\* A heartbeat renews the expiry and moves the worker to the end of the list.
Heartbeat(w) ==
  /\ From(w)
  /\ \/ /\ w \in Known
        /\ Refresh(w)
        /\ ls_waitings' = IF Len(ls_waitings) > 1
                            THEN Append(Without(ls_waitings, {w}), w)
                            ELSE ls_waitings
        /\ waiting' = waiting
     \/ w \notin Known /\ UNCHANGED table_vars
  /\ UNCHANGED <<time_vars, request_vars, terminated, peer_vars>>

\* A report is passed on to the client; it does not count as a sign of life.
Report(w) ==
  /\ From(w)
  /\ UNCHANGED <<time_vars, table_vars, request_vars, terminated, peer_vars>>

Disconnect(w) ==
  /\ From(w)
  /\ peer' = [peer EXCEPT ![w] = "left"]
  /\ \/ w \in Known /\ Remove({w})
     \/ w \notin Known /\ UNCHANGED table_vars
  /\ UNCHANGED <<time_vars, request_vars, terminated, serves>>

Request(s, c) ==
  /\ Message /\ Len(asked) < MaxRequest
  /\ \/ /\ c \notin blacklisted[s]
        /\ asked' = Append(asked, s)
        /\ \E gone \in Purgeable(ls_workers) :
             /\ ls_workers' = Restrict(ls_workers, Known \ gone)
             /\ ls_waitings' = Without(ls_waitings, gone)
             /\ Dispatch(s, waiting, Append(requests[s], Len(asked')), gone)
     \/ /\ c \in blacklisted[s]                       \* answered by a NAK
        /\ UNCHANGED <<table_vars, asked, requests, log>>
  /\ UNCHANGED <<time_vars, blacklisted, terminated, peer_vars>>

\* mmi.filter.
Filter(s, c) ==
  /\ Message
  /\ \/ blacklisted' = [blacklisted EXCEPT ![s] = @ \ {c}]
     \/ blacklisted' = [blacklisted EXCEPT ![s] = @ \cup {c}]
  /\ UNCHANGED <<time_vars, table_vars, requests, asked, log, terminated, peer_vars>>

\* A message of an unknown worker, a request that is sent, or one that waited
\* for a worker which now comes, ends the process.
Crash ==
  /\ pc = "poll"
  /\ \/ \E w \in Worker : peer[w] = "joined" /\ w \notin Known
     \/ \E w \in Worker : /\ peer[w] = "new" /\ requests[serves[w]] # <<>>
                        /\ \E gone \in Purgeable(Joined(w)) : w \notin gone
     \/ \E s \in Service : /\ blacklisted[s] # Command /\ Len(asked) < MaxRequest
                         /\ \E gone \in Purgeable(ls_workers) :
                              Without(waiting[s], gone) # <<>>
  /\ pc' = "crashed"
  /\ UNCHANGED <<time_vars, table_vars, request_vars, terminated, peer_vars>>

-----------------------------------------------------------------------------
(***************************************************************************)
(* The loop of run(), its clock and its owner.                             *)
(***************************************************************************)

Again == pc' = IF terminated THEN "stopped" ELSE "poll"

\* zmq_poll returns without a message, or fails.
PollReturns ==
  /\ pc = "poll"
  /\ pc' \in {"check", "stopped"}
  /\ UNCHANGED <<time_vars, table_vars, request_vars, terminated, peer_vars>>

Beat ==
  /\ pc = "check" /\ now > heartbeat_at
  /\ \E gone \in Purgeable(ls_workers) : Remove(gone)
  /\ heartbeat_at' = AddTime(now, Interval)
  /\ Again
  /\ UNCHANGED <<now, request_vars, terminated, peer_vars>>

NoBeat ==
  /\ pc = "check" /\ now <= heartbeat_at
  /\ Again
  /\ UNCHANGED <<time_vars, table_vars, request_vars, terminated, peer_vars>>

Tick ==
  /\ pc # "crashed"
  /\ now' = AddTime(now, 1)
  /\ ls_workers' = [w \in Known |-> [ls_workers[w] EXCEPT !.age =
                                        IF @ < HEARTBEAT_EXPIRY THEN @ + 1 ELSE @]]
  /\ UNCHANGED <<heartbeat_at, ls_waitings, waiting, request_vars, pc, terminated, peer_vars>>

Start ==
  /\ pc = "stopped"
  /\ terminated' = FALSE /\ pc' = "poll"
  /\ UNCHANGED <<time_vars, table_vars, request_vars, peer_vars>>

Stop ==
  /\ pc # "crashed" /\ terminated' = TRUE
  /\ UNCHANGED <<time_vars, table_vars, request_vars, pc, peer_vars>>

Next ==
  \/ \E w \in Worker : Ready(w) \/ Heartbeat(w) \/ Report(w) \/ Disconnect(w)
  \/ \E s \in Service, c \in Command : Request(s, c) \/ Filter(s, c)
  \/ Crash \/ PollReturns \/ Beat \/ NoBeat
  \/ Tick \/ Start \/ Stop

Spec == Init /\ [][Next]_vars

-----------------------------------------------------------------------------
(***************************************************************************)
(* Properties.                                                             *)
(***************************************************************************)

Listed(q) == {q[i] : i \in DOMAIN q}
Enumerates(q, S) == /\ Listed(q) = S
                    /\ \A i, j \in DOMAIN q : q[i] = q[j] => i = j

\* The three places that hold a worker agree: after every READY, expiry and
\* DISCONNECT the heartbeat list and the list of its service hold each known
\* worker once and no deleted one, which run() would write to (mdp.cpp:829,
\* 500).
ListsAgree ==
  /\ Enumerates(ls_waitings, Known)
  /\ \A s \in Service :
       Enumerates(waiting[s], {w \in Known : ls_workers[w].service = s})

\* A service never has a worker and a request waiting at the same time
\* (mdp.cpp:493-507): dispatch sends all it can whenever one of them comes.
NoIdleWithWork ==
  \A s \in Service : waiting[s] = <<>> \/ requests[s] = <<>>

\* The turn a worker had last; joining counts as one.
LastTurn(w) == Max({ls_workers[w].since} \cup {i \in DOMAIN log : log[i].worker = w})

\* "Workers are scheduled in the round-robin fashion" (mdp.cpp:503): the
\* worker whose last turn is longest ago is next, whatever joins, expires and
\* disconnects in between.
RoundRobin ==
  \A s \in Service : \A i, j \in DOMAIN waiting[s] :
    i < j => LastTurn(waiting[s][i]) <= LastTurn(waiting[s][j])

\* Every accepted request is either queued at its service or was handed to a
\* worker of its service, once; requests of one service in the order they came
\* (mdp.cpp:498-506, 717-718).
EachRequestOnce ==
  /\ \A n \in DOMAIN asked :
       Cardinality({i \in DOMAIN log : log[i].request = n})
         + Cardinality({i \in DOMAIN requests[asked[n]] : requests[asked[n]][i] = n}) = 1
  /\ \A i \in DOMAIN log : serves[log[i].worker] = asked[log[i].request]
  /\ \A i, j \in DOMAIN log :
       i < j /\ asked[log[i].request] = asked[log[j].request]
         => log[i].request < log[j].request

\* "We hold workers from oldest to most recent" (mdp.cpp:477): the heartbeat
\* list is in the order of the last sign of life.
WaitingsOldestFirst ==
  \A i, j \in DOMAIN ls_waitings : i < j => 
    ls_workers[ls_waitings[i]].age >= ls_workers[ls_waitings[j]].age

\* A worker only goes because it says so or has been silent for the expiry,
\* "idle workers that haven't pinged us in a while" (mdp.cpp:475-476) -- or
\* because midnight is near: an expiry past it is smaller than the time of day.
OnlySilentGo ==
  \A w \in Known : \/ w \in Known'
                   \/ Disconnect(w)
                   \/ ls_workers[w].age >= HEARTBEAT_EXPIRY
                   \/ ls_workers[w].expiry < HEARTBEAT_EXPIRY
OnlySilentPurged == [][OnlySilentGo]_vars

\* "so we can stop scanning whenever we find a live worker" (mdp.cpp:477): a
\* purge leaves nobody who has been silent for the expiry.  Violated: purge
\* scans the hash table ls_workers, not the list that is in that order.
PurgeIsComplete ==
  [][Beat => \A w \in Known' : ls_workers[w].age < HEARTBEAT_EXPIRY]_vars
=============================================================================
