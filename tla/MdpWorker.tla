------------------------------ MODULE MdpWorker ------------------------------
(* The loop of an MdpWorker: it polls its socket, counts down its liveness  *)
(* when nothing comes, sends heartbeats and connects anew. The broker is any *)
(* broker of the protocol: it may stop and start, forget the worker, or be    *)
(* silent. A reconnection gives the worker a new identity; what belongs to    *)
(* identities before the current one is "old".                               *)
EXTENDS Integers, Sequences

CONSTANTS
  HEARTBEAT_LIVENESS,
  Heartbeat,     \* MdpWorkerPrivate::heartbeat, the time one poll waits
  Reconnect,     \* MdpWorkerPrivate::reconnect
  Day,           \* times of day are below this
  MaxOnWay       \* bound: messages on their way, either direction

WorkerConstants ==
  /\ {HEARTBEAT_LIVENESS, Heartbeat, Reconnect, Day} \subseteq Nat \ {0}
  /\ Heartbeat < Day

VARIABLES
  stage,         \* where the worker is: see Stage
  liveness,      \* polls without a message that are left
  heartbeat_at,  \* the time of day when the next heartbeat is due
  now,           \* the time of day
  elapsed,       \* how long the poll or the sleep has lasted
  request,       \* rmsg holds a request
  to_broker, to_worker,  \* messages on their way
  known,         \* the identities the broker takes for workers
  up             \* the broker runs

worker_vars == <<stage, liveness, heartbeat_at, elapsed, request>>
broker_vars == <<known, up>>
vars == <<worker_vars, now, to_broker, to_worker, broker_vars>>

Stage == {"new", "poll", "sleep", "check", "returned", "deleted"}
Link  == {"current", "old"}
Message == [link : Link, command : {"READY", "HEARTBEAT", "REPORT", "DISCONNECT"}]

TypeOK ==
  /\ stage \in Stage /\ liveness \in 0 .. HEARTBEAT_LIVENESS
  /\ {heartbeat_at, now} \subseteq 0 .. Day - 1
  /\ elapsed \in Nat /\ request \in BOOLEAN
  /\ to_broker \in Seq(Message) /\ to_worker \in Seq({"REQUEST", "HEARTBEAT", "DISCONNECT"})
  /\ known \subseteq Link /\ up \in BOOLEAN

Init ==
  /\ stage = "new" /\ liveness = 0 /\ elapsed = 0 /\ request = FALSE
  /\ now \in 0 .. Day - 1 /\ heartbeat_at = now
  /\ to_broker = <<>> /\ to_worker = <<>> /\ known = {} /\ up = TRUE

AddTime(t, d) == (t + d) % Day

-----------------------------------------------------------------------------
(* The worker.                                                              *)

SendToBroker(messages, command) == Append(messages, [link |-> "current", command |-> command])

(* The old socket is closed without linger: of what it was given a part may *)
(* be lost, what remains arrives by a connection of its own, before or after  *)
(* the new READY, and what comes for it is gone.                             *)
Abandoned(messages, k) ==
  [i \in 1 .. k |-> [messages[i] EXCEPT !.link = "old"]]

ConnectToBroker ==
  /\ \E k \in 0 .. Len(to_broker) : \E i \in 1 .. k + 1 :
       to_broker' = SubSeq(Abandoned(to_broker, k), 1, i - 1)
                      \o <<[link |-> "current", command |-> "READY"]>>
                      \o SubSeq(Abandoned(to_broker, k), i, k)
  /\ to_worker' = <<>>
  /\ known' = IF known = {} THEN {} ELSE {"old"}
  /\ liveness' = HEARTBEAT_LIVENESS
  /\ heartbeat_at' = AddTime(now, Heartbeat)

(* The application connects and calls recv().                               *)
Start ==
  /\ stage = "new" /\ stage' = "poll" /\ elapsed' = 0
  /\ ConnectToBroker /\ UNCHANGED <<now, request, up>>

(* A request is kept in the place of one that was there before.             *)
Receive ==
  /\ stage = "poll" /\ to_worker # <<>>
  /\ stage' = "check"
  /\ request' = (request \/ Head(to_worker) = "REQUEST")
  /\ IF Head(to_worker) = "DISCONNECT" THEN ConnectToBroker
     ELSE /\ liveness' = HEARTBEAT_LIVENESS /\ to_worker' = Tail(to_worker)
          /\ UNCHANGED <<heartbeat_at, to_broker, known>>
  /\ UNCHANGED <<now, elapsed, up>>

\* Mutation: the worker goes on to poll when its liveness is used up.
PollExpiresUnheeded ==
  /\ stage = "poll" /\ to_worker = <<>> /\ elapsed >= Heartbeat
  /\ liveness' = IF liveness = 0 THEN 0 ELSE liveness - 1
  /\ stage' = "check" /\ elapsed' = 0
  /\ UNCHANGED <<now, heartbeat_at, request, to_broker, to_worker, broker_vars>>

\* Mutation: the liveness is counted down after it is tested.
PollExpiresLate ==
  /\ stage = "poll" /\ to_worker = <<>> /\ elapsed >= Heartbeat
  /\ liveness' = liveness - 1
  /\ stage' = IF liveness = 0 THEN "sleep" ELSE "check"
  /\ elapsed' = 0
  /\ UNCHANGED <<now, heartbeat_at, request, to_broker, to_worker, broker_vars>>

PollExpires ==
  /\ stage = "poll" /\ to_worker = <<>> /\ elapsed >= Heartbeat
  /\ liveness' = liveness - 1
  /\ stage' = IF liveness' = 0 THEN "sleep" ELSE "check"
  /\ elapsed' = 0
  /\ UNCHANGED <<now, heartbeat_at, request, to_broker, to_worker, broker_vars>>

WakeUp ==
  /\ stage = "sleep" /\ elapsed >= Reconnect
  /\ stage' = "check"
  /\ ConnectToBroker /\ UNCHANGED <<now, elapsed, request, up>>

CheckHeartbeat ==
  /\ stage = "check" /\ stage' = "poll" /\ elapsed' = 0
  /\ IF now > heartbeat_at
     THEN /\ to_broker' = SendToBroker(to_broker, "HEARTBEAT")
          /\ heartbeat_at' = AddTime(now, Heartbeat)
     ELSE UNCHANGED <<to_broker, heartbeat_at>>
  /\ UNCHANGED <<liveness, now, request, to_worker, broker_vars>>

Interrupted ==
  /\ stage = "poll" /\ stage' = "returned"
  /\ UNCHANGED <<liveness, heartbeat_at, elapsed, now, request, to_broker, to_worker, broker_vars>>

(* What the application does when recv() has returned: answer, receive again, *)
(* or delete the worker, whose DISCONNECT may be lost with its socket.       *)
SendToClient ==
  /\ stage = "returned" /\ request /\ request' = FALSE
  /\ to_broker' = SendToBroker(to_broker, "REPORT")
  /\ UNCHANGED <<stage, liveness, heartbeat_at, elapsed, now, to_worker, broker_vars>>

ReceiveAgain ==
  /\ stage = "returned" /\ stage' = "poll" /\ elapsed' = 0
  /\ UNCHANGED <<liveness, heartbeat_at, request, now, to_broker, to_worker, broker_vars>>

Delete ==
  /\ stage = "returned" /\ stage' = "deleted" /\ to_worker' = <<>>
  /\ to_broker' \in {to_broker, SendToBroker(to_broker, "DISCONNECT")}
  /\ UNCHANGED <<liveness, heartbeat_at, elapsed, request, now, broker_vars>>

-----------------------------------------------------------------------------
(* The broker, and time.                                                    *)

(* An unknown worker that heartbeats or reports is told to disconnect.      *)
BrokerReads ==
  /\ up /\ to_broker # <<>>
  /\ to_broker' = Tail(to_broker)
  /\ LET m == Head(to_broker)
         unknown == m.command \in {"HEARTBEAT", "REPORT"} /\ m.link \notin known
     IN /\ known' = CASE m.command = "READY" -> known \cup {m.link}
                      [] m.command = "DISCONNECT" -> known \ {m.link}
                      [] OTHER -> known
        /\ to_worker' = IF unknown /\ m.link = "current" /\ stage # "deleted"
                        THEN Append(to_worker, "DISCONNECT") ELSE to_worker
  /\ UNCHANGED <<worker_vars, now, up>>

BrokerSends(command) ==
  /\ up /\ "current" \in known /\ stage # "deleted"
  /\ Len(to_worker) < MaxOnWay /\ Len(to_broker) < MaxOnWay     \* bound
  /\ to_worker' = Append(to_worker, command)
  /\ UNCHANGED <<worker_vars, now, to_broker, broker_vars>>

BrokerForgets(link) ==
  /\ up /\ link \in known /\ known' = known \ {link}
  /\ UNCHANGED <<worker_vars, now, to_broker, to_worker, up>>

BrokerStops ==
  /\ up /\ up' = FALSE /\ known' = {} /\ to_broker' = <<>>
  /\ UNCHANGED <<worker_vars, now, to_worker>>

BrokerStarts ==
  /\ ~up /\ up' = TRUE
  /\ UNCHANGED <<worker_vars, now, to_broker, to_worker, known>>

(* A broker that is up reads what is there within one unit of time.         *)
Tick ==
  /\ IF up THEN to_broker = <<>> ELSE Len(to_broker) < MaxOnWay        \* bound
  /\ now' = (now + 1) % Day
  /\ elapsed' = IF elapsed < Heartbeat + Reconnect THEN elapsed + 1 ELSE elapsed
  /\ UNCHANGED <<stage, liveness, heartbeat_at, request, to_broker, to_worker, broker_vars>>

Loop == Receive \/ PollExpires \/ WakeUp \/ CheckHeartbeat

Application == Start \/ Interrupted \/ SendToClient \/ ReceiveAgain \/ Delete

Broker ==
  \/ BrokerReads \/ BrokerStops \/ BrokerStarts
  \/ \E command \in {"REQUEST", "HEARTBEAT", "DISCONNECT"} : BrokerSends(command)
  \/ \E link \in Link : BrokerForgets(link)

Next == Loop \/ Application \/ Broker \/ Tick

(* The worker's thread runs, time passes, and a broker that is up reads.    *)
Fairness == WF_vars(Loop) /\ WF_vars(Tick) /\ WF_vars(BrokerReads)

Spec == Init /\ [][Next]_vars /\ Fairness

-----------------------------------------------------------------------------
(* A worker whose application stays in recv() comes back to a broker that   *)
(* stays up: whatever was lost with a socket or a broker, whenever the       *)
(* broker forgets it, and whatever time of day it is when a heartbeat is due, *)
(* it is registered under its current identity again and again.              *)
RegainsBroker ==
  <>[](up /\ stage \in {"poll", "sleep", "check"}) => []<>("current" \in known)
=============================================================================
