-------------------------------- MODULE Beacon --------------------------------
(* The actor qbeacon: it broadcasts what the application publishes, once in   *)
(* an interval, and reports the broadcasts of others that match a filter. The *)
(* network, and with it the broadcast interface, may go and come back. The     *)
(* application takes what is reported to it.                                   *)
EXTENDS Integers, Sequences

CONSTANTS
  Datas,         \* what is broadcast: strings of bytes, as sequences
  Filters,       \* what may be subscribed to: prefixes
  Intervals,
  MaxPending,    \* bound: commands in the pipe
  MaxDatagrams,  \* bound: datagrams that wait at the UDP socket
  Hwm            \* bound: reports that wait in the pipe

BeaconConstants ==
  /\ Intervals \subseteq Nat \ {0} /\ Hwm \in Nat \ {0}
  /\ MaxPending \in Nat /\ MaxDatagrams \in Nat

None == <<-1>>     \* no data, no filter

VARIABLES
  stage,        \* where the handler is
  readable,     \* pollitems[1].revents of the last poll
  terminated,
  configured,   \* CONFIGURE has set port_nbr
  listening,    \* udpsock is bound to that port
  broadcast,    \* the broadcast address is known
  transmit, filter, interval,
  ping_in,      \* the time until ping_at, 0 when it is over
  datagrams,    \* what waits at the UDP socket
  pipe,         \* number of commands on their way
  reports,      \* what is on its way to the application
  network,      \* there is an interface that can broadcast
  outage        \* there was none at some time since CONFIGURE

handler_vars == <<readable, terminated, configured, listening, broadcast, transmit, filter, interval, ping_in>>
app_vars == <<pipe, reports>>
net_vars == <<network, outage>>
vars == <<stage, handler_vars, datagrams, app_vars, net_vars>>

(* A datagram of our own is "current" while what it carries is published, and *)
(* "former" once PUBLISH or SILENCE has changed that.                        *)
Datagram == [data : Datas, from : {"peer", "current", "former"}]
Hostname == [data |-> None, from |-> "host"]

Stage == {"poll", "pipe", "udp", "ping", "prepare", "ended", "aborted"}

TypeOK ==
  /\ stage \in Stage
  /\ {readable, terminated, configured, listening, broadcast, network, outage} \subseteq BOOLEAN
  /\ transmit \in Datas \cup {None} /\ filter \in Filters \cup {None} /\ interval \in Intervals
  /\ \E i \in Intervals : ping_in \in 0 .. i
  /\ datagrams \in Seq(Datagram) /\ Len(datagrams) <= MaxDatagrams
  /\ pipe \in 0 .. MaxPending
  /\ reports \in Seq(Datagram \cup {Hostname}) /\ Len(reports) <= Hwm

Init ==
  /\ stage = "poll" /\ readable = FALSE /\ terminated = FALSE
  /\ configured = FALSE /\ listening = FALSE /\ broadcast = FALSE
  /\ transmit = None /\ filter = None /\ interval \in Intervals /\ ping_in = 0
  /\ datagrams = <<>> /\ pipe = 0 /\ reports = <<>>
  /\ network \in BOOLEAN /\ outage = FALSE

-----------------------------------------------------------------------------
(* prepareUdp() gives up the socket first. The port is any number before     *)
(* CONFIGURE; the bind may be refused, which is the end of the process.      *)
PrepareUdp(known) ==
  /\ datagrams' = <<>>
  /\ listening' = (network /\ known)
  /\ broadcast' = (broadcast \/ network)

Abort == stage' = "aborted" /\ UNCHANGED <<handler_vars, datagrams, reports, net_vars>>

AfterPipe == IF readable THEN "udp" ELSE "ping"

Formerly(ds) ==
  [i \in DOMAIN ds |-> IF ds[i].from = "current" THEN [ds[i] EXCEPT !.from = "former"] ELSE ds[i]]

Configure ==
  \/ network /\ Abort
  \/ /\ Len(reports) < Hwm /\ reports' = Append(reports, Hostname)
     /\ configured' = TRUE /\ PrepareUdp(TRUE) /\ outage' = ~network
     /\ stage' = IF network THEN AfterPipe ELSE "aborted"
     /\ UNCHANGED <<readable, terminated, transmit, filter, interval, ping_in, network>>

Publish ==
  \/ Abort                          \* of more than 255 bytes
  \/ /\ transmit' \in Datas /\ interval' \in Intervals /\ ping_in' = 0
     /\ datagrams' = Formerly(datagrams) /\ stage' = AfterPipe
     /\ UNCHANGED <<readable, terminated, configured, listening, broadcast, filter, reports, net_vars>>

Silence ==
  /\ transmit' = None /\ datagrams' = Formerly(datagrams) /\ stage' = AfterPipe
  /\ UNCHANGED <<readable, terminated, configured, listening, broadcast, filter,
                 interval, ping_in, reports, net_vars>>

Subscribe(f) ==
  /\ filter' = f /\ stage' = AfterPipe
  /\ UNCHANGED <<readable, terminated, configured, listening, broadcast, transmit,
                 interval, ping_in, datagrams, reports, net_vars>>

Verbose == stage' = AfterPipe /\ UNCHANGED <<handler_vars, datagrams, reports, net_vars>>

Term ==
  /\ terminated' = TRUE /\ stage' = AfterPipe
  /\ UNCHANGED <<readable, configured, listening, broadcast, transmit, filter,
                 interval, ping_in, datagrams, reports, net_vars>>

(* What a command is shows when it is read.                                 *)
HandlePipe ==
  /\ stage = "pipe" /\ pipe' = pipe - 1
  /\ \/ Configure \/ Publish \/ Silence \/ Verbose \/ Term
     \/ \E f \in Filters \cup {None} : Subscribe(f)       \* None is UNSUBSCRIBE

-----------------------------------------------------------------------------
HasPrefix(data) == Len(filter) <= Len(data) /\ SubSeq(data, 1, Len(filter)) = filter

Valid(data) == filter # None /\ HasPrefix(data) /\ data # transmit

\* Mutation: the loop polls again before it looks at the time.
HandleUdpAgain ==
  /\ stage = "udp" /\ stage' = "poll"
  /\ IF datagrams = <<>> THEN UNCHANGED <<datagrams, reports>>
     ELSE /\ datagrams' = Tail(datagrams)
          /\ IF Valid(Head(datagrams).data)
             THEN Len(reports) < Hwm /\ reports' = Append(reports, Head(datagrams))
             ELSE UNCHANGED reports
  /\ UNCHANGED <<handler_vars, pipe, net_vars>>

(* CONFIGURE may have thrown the datagram away. The report waits for room.   *)
HandleUdp ==
  /\ stage = "udp" /\ stage' = "ping"
  /\ IF datagrams = <<>> THEN UNCHANGED <<datagrams, reports>>
     ELSE /\ datagrams' = Tail(datagrams)
          /\ IF Valid(Head(datagrams).data)
             THEN Len(reports) < Hwm /\ reports' = Append(reports, Head(datagrams))
             ELSE UNCHANGED reports
  /\ UNCHANGED <<handler_vars, pipe, net_vars>>

Again == IF terminated THEN "ended" ELSE "poll"

NoPing ==
  /\ stage = "ping" /\ (transmit = None \/ ping_in > 0)
  /\ stage' = Again
  /\ UNCHANGED <<handler_vars, datagrams, app_vars, net_vars>>

(* UDP may echo what is broadcast, and lose it. The write fails without a    *)
(* network or an address.                                                    *)
Ping ==
  /\ stage = "ping" /\ transmit # None /\ ping_in = 0
  /\ network /\ broadcast
  /\ \/ UNCHANGED datagrams
     \/ /\ listening /\ Len(datagrams) < MaxDatagrams
        /\ datagrams' = Append(datagrams, [data |-> transmit, from |-> "current"])
  /\ ping_in' = interval /\ stage' = Again
  /\ UNCHANGED <<readable, terminated, configured, listening, broadcast, transmit, filter,
                 interval, app_vars, net_vars>>

PingFails ==
  /\ stage = "ping" /\ transmit # None /\ ping_in = 0
  /\ ~(network /\ broadcast)
  /\ stage' = "prepare"
  /\ UNCHANGED <<handler_vars, datagrams, app_vars, net_vars>>

PrepareAgain ==
  /\ stage = "prepare"
  /\ \/ network /\ Abort
     \/ /\ PrepareUdp(configured)
        /\ ping_in' = interval /\ stage' = Again
        /\ UNCHANGED <<readable, terminated, configured, transmit, filter, interval, reports, net_vars>>
  /\ UNCHANGED pipe

Readable == listening /\ datagrams # <<>>

PollReturns ==
  /\ stage = "poll"
  /\ pipe > 0 \/ Readable \/ (transmit # None /\ ping_in = 0)
  /\ readable' = Readable
  /\ stage' = IF pipe > 0 THEN "pipe" ELSE IF Readable THEN "udp" ELSE "ping"
  /\ UNCHANGED <<terminated, configured, listening, broadcast, transmit, filter, interval,
                 ping_in, datagrams, app_vars, net_vars>>

PollInterrupted ==
  /\ stage = "poll" /\ stage' = "ended"
  /\ UNCHANGED <<handler_vars, datagrams, app_vars, net_vars>>

Handler == HandlePipe \/ HandleUdp \/ NoPing \/ Ping \/ PingFails \/ PrepareAgain \/ PollReturns

-----------------------------------------------------------------------------
(* The application, the network and time.                                   *)

Command ==
  /\ pipe < MaxPending /\ pipe' = pipe + 1
  /\ UNCHANGED <<stage, handler_vars, datagrams, reports, net_vars>>

TakeReport ==
  /\ reports # <<>> /\ reports' = Tail(reports)
  /\ UNCHANGED <<stage, handler_vars, datagrams, pipe, net_vars>>

PeerBroadcasts(data) ==
  /\ listening /\ network /\ Len(datagrams) < MaxDatagrams
  /\ datagrams' = Append(datagrams, [data |-> data, from |-> "peer"])
  /\ UNCHANGED <<stage, handler_vars, app_vars, net_vars>>

NetworkGoes ==
  /\ network /\ network' = FALSE /\ outage' = TRUE
  /\ UNCHANGED <<stage, handler_vars, datagrams, app_vars>>

NetworkComes ==
  /\ ~network /\ network' = TRUE
  /\ UNCHANGED <<stage, handler_vars, datagrams, app_vars, outage>>

Tick ==
  /\ ping_in > 0 /\ ping_in' = ping_in - 1
  /\ UNCHANGED <<stage, readable, terminated, configured, listening, broadcast, transmit, filter,
                 interval, datagrams, app_vars, net_vars>>

Running == stage \notin {"ended", "aborted"}

Next ==
  /\ Running
  /\ \/ Handler \/ PollInterrupted \/ Command \/ TakeReport \/ NetworkGoes \/ NetworkComes \/ Tick
     \/ \E data \in Datas : PeerBroadcasts(data)

Fairness ==
  WF_vars(Running /\ Handler) /\ WF_vars(Running /\ TakeReport) /\ WF_vars(Running /\ Tick)

Spec == Init /\ [][Next]_vars /\ Fairness

-----------------------------------------------------------------------------
(* No echo of what is published now is reported, and a beacon that was       *)
(* configured hears its peers unless the network was away since.             *)
HearsOthersOnly ==
  /\ \A i \in DOMAIN reports : reports[i].from # "current"
  /\ configured /\ Running => listening \/ outage

(* While something is published and the network is there it is broadcast     *)
(* again and again, however many datagrams and commands come in.             *)
Broadcasts ==
  <>[](Running /\ network /\ transmit # None) => []<><<Ping>>_vars

BeaconWorks == []HearsOthersOnly /\ Broadcasts
=============================================================================
