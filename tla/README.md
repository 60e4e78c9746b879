# qmq in TLA+

qmq wraps ZeroMQ in Qt classes and builds a reactor, actors, a hub and a
Majordomo (MDP) broker on it. This directory holds TLA+ modules for these
parts and for the messages, sockets and contexts below them, the TLC models
that check them on small instances, and proofs of their main invariants that
hold for every value of the constants. Paths
below are relative to `src/` of the repository.

## 1. The system

| Part | State | Operations | Interacts with |
|---|---|---|---|
| **SockEvent** reactor, `qmq/sevent.cpp` | lists of readers and pollers, the poll set built from them, `need_rebuild`, `m_rebuild`, `terminated` | `appendReader/Poller`, `removeReader/Poller`, `start`, `abort`; `run`, `rebuild` | any thread that registers sockets, and its own handlers (Qt signals with an `int* rc`) |
| **SockEvent timers**, `qmq/sevent.cpp` | `timers_list`, `tickets_list`, the clock | `appendTimer`, `removeTimer`, `appendTicket`; `tickless` and the timer and ticket loops of `run` | handlers on the reactor's thread |
| **Actor**, `qmq/actor.cpp` | two directions of an inproc PAIR pipe, the `Shim` thread, the handler's command loop | constructor, `send`/`recv`/`wait`, `close`, `~Shim`; `echo_actor`, `qmonitor` | the context's mutex; `qproxy`, `qforwarder`, beacon and monitor are actors |
| **Context**, `qmq/context.cpp` | the list of sockets, the mutex, the zmq context | `createSocket`, `appendPipe`, `closeSocket`, `shutdown`, `init` | every other part |
| **MDP broker**, `qmq/mdp.cpp` | services with request queues and worker lists, workers with expiry, a list for heartbeats, the command filter | one loop over messages, expiry and heartbeats; `start`, `stop` | workers and clients over a ROUTER socket |
| **MDP worker, client**, `qmq/mdp.cpp` | liveness and heartbeat times; a DEALER socket | `connectToBroker`, `recv`, `sendToBroker`; `send`, `recv` | the broker |
| **Hub**, `qmq/qhub.cpp` | workers and clients with liveness, ports, requests | queries, requests, pings, purge | workers and clients through forwarders |
| **Forwarder, Proxy, Poller** | sockets of the two ends, capture, paused or not; the poll list | FRONTEND/BACKEND/CAPTURE/PAUSE/RESUME; `wait` | actors' pipes |
| **Messages, frames**, `qmq/message.cpp` | a list of frames and its content size | `append`, `prepend`, `wrap`, `pop`, `remove`; `encode`/`decode`, `save`/`load`; `send`, `recv` | all of the above |
| **Socket**, `qmq/socket.cpp` | a zmq socket, its endpoint, a string cache | `send`/`recv` with pictures, `bsend`/`brecv`, `sendstr`, `sendmem`, `signal`, `wait`, `flush`; `bind` with port ranges, `attach`, `unbind` | zmq; peers that use any of the other calls |
| **Gossip codec**, `qmq/gossip.cpp` | a frame: id, key, value, ttl, routing id | `send`, `recv` | ROUTER and other sockets |
| **Beacon**, `qmq/beacon.cpp` | a UDP socket, what is published, a filter, the time of the next broadcast | CONFIGURE, PUBLISH, SILENCE, SUBSCRIBE; broadcasts and reports | an actor's pipe, the network |
| **Helpers**, `qmq/helper.cpp` | none | clock, formatting, regular expressions (vendored SLRE) | |

What is hard here, and what makes each part correct:

* **Reactor.** The lists are written by any thread without a lock; the mutex
  only covers the flag and `rebuild()`. It is correct if what is registered is
  polled, if a removed socket is soon not called any more, and if every call and
  the thread itself come to an end. Two writes of one list at the same time break
  the first, and a rebuild in the middle of `removeReader` the second; the models
  say what holds without these.
* **Timers.** Handlers run late, create and cancel timers, and share `rc`.
  Timers must keep to their grid and their repeat count, and the poll timeout
  must not be later than the next one due. A handler may delete a timer that
  `run()` holds, and the delay of tickets may change.
* **Actors.** All answers are anonymous signals, the pipe is bounded, and
  `closeSocket` holds the context's mutex while it waits for the handler.
  Answers must go with their commands, close must wait for the handler and
  return.
* **Broker.** A worker is in three containers at once and leaves them when it
  expires, when it says so, or in the middle of a dispatch; its messages may
  come after it was deleted. The containers must agree, no request may be lost,
  doubled or sent to a wrong service, and only silent workers may go.
* **Hub.** Pings and pongs get lost, peers ask without being registered, and a
  hub may end, crash or be replaced under its peers. A worker that gives signs
  of life must stay, one that went must be forgotten, and the destructor must
  get its thread to end.
* **Forwarder, proxy.** Several messages in one relay step, sends that are
  interrupted in the middle of a message, configuration commands between and
  during messages, and a poller that serves the first socket of its list. Frames
  must stay in order, PAUSE must hold, and commands must get through.
* **Worker.** Its socket, with all that is under way, is thrown away whenever the
  broker seems gone; the broker may have come back, or forgotten the worker.
  It must be registered again and again.
* **Context.** Sockets are listed and counted by several threads, closed by
  destructors that ask the context, and left to `shutdown`. List and count must
  agree with the sockets, and the end must come.
* **Messages and sockets.** A count kept by hand beside a list; sizes with
  markers and widths; receivers that were told another picture than the sender.
  Nothing may be lost in a codec, and a misfit must be refused without leaving
  frames to the next call.
* **Endpoints.** Other programs take and leave ports during a scan.
* **Beacon.** It hears its own broadcasts; the network may go and come back.

## 2. The modules

| Module | What it is |
|---|---|
| `PollRegistry` | abstract: a registry of items whose poll set follows the wanted set |
| `SockEvent` | the reactor's registration and dispatch; implements `PollRegistry` |
| `SockEventHistory` | `SockEvent` with histories of what was registered, removed and called late |
| `SockEventProofs` | theorems about both |
| `SockEventTimers`, `SockEventTimersProofs` | timers and tickets, theorems |
| `ActorPipe`, `ActorPipeProofs` | an actor, its caller and the context's mutex, theorems |
| `MdpBroker`, `MdpBrokerProofs` | the Majordomo broker with the workers of the repository around it, theorems |
| `Membership` | abstract: members stay until they have been silent for too long |
| `Hub`, `HubProofs` | the hub with workers, their forwarders, and clients; implements `Membership`; theorems |
| `Poller` | operators on the list of a `Poller` |
| `Relay` | the actors `qproxy` and `qforwarder` over `Poller` |
| `MdpWorker` | a Majordomo worker and any broker of the protocol |
| `Contexts` | a context, its sockets and its end |
| `Beacon` | the actor `qbeacon`, the network and its peers |
| `Bytes` | numbers of 1, 2, 4 and 8 bytes in any base, and octets |
| `Frames` | `encode` and `decode` of a list of frames |
| `Messages` | `Messages` objects, `save`/`load`, and a socket they go over |
| `Pictures` | what `send`, `recv`, `bsend` and `brecv` make of a picture |
| `GossipFrames` | a `GossipFrame` to and from a message |
| `Wire` | two sockets, any sending call on one and any receiving call on the other; over `Pictures` and `GossipFrames` |
| `Endpoints` | `bind`, `attach`, `unbind`, with other programs at the ports |
| `MCProcesses`, `ProcessesProofs` | `Relay`, `MdpWorker`, `Contexts`, `Beacon` side by side; theorems about each |
| `MCWire`, `WireProofs` | `Wire`, `Messages`, `Endpoints` side by side; theorems about each |
| `Lists`, `ListsProofs` | lists without some of their elements (`removeAll`); lemmas on lists, and on functions that recurse over a list |
| the other `MC*` and `*.cfg` | the instances TLC checks |

`PROJECT.json` maps every definition to the lines it translates, and lists the
hazards with the properties that watch them.

### SockEvent

The lists are not protected, so a registration call is cut where other threads
can be seen: the list write (`Enlist`, `Unread`, `Unpoll`), the locked
assignment of the flag (`Flag`, `Mark`), the copies `foreach` takes (`ReaderEnd`,
`PollEnd`). `run()` is one action per place where it takes or leaves the mutex,
polls, or calls a handler; a handler may make registration calls itself.
`rebuild()` is cut in four: the two lengths (`CountEntries`), the copy of the
readers, the copy of the pollers, the flag (`ClearFlag`), because the lists change
meanwhile. When they grew, the copies are written past the arrays and any part
of them may end up in the poll set; when they shrank, the poll set ends in items
that nobody filled in (`blank`), and `BlankItem` is what `run()` makes of one: a
failed assertion (`crashed`), or a call for descriptor 0.

A second writer of the same QList at the same moment may lose its write
(`Racing`): an entry appended is then nowhere, one removed is still there, and the
caller is told that all went well. `removeReader` marks before it removes,
`removePoller` after: that order is the code's. The two threads of a socket never
remove the same entry at once.

`SockEventHistory` adds what a caller may believe, and decides nothing:
`registered` holds the entries appended without a race that nobody has begun to
remove, `removed` those whose removal has returned after it took them off in
time, and `late` counts the calls of their handlers since. `RegisteredArePolled` and
`RemovedCalledLateOnce` speak of these. They promise nothing after a race, nor
of a reader that a rebuild overtakes between `Mark` and `Unread` (`Overtaken`): that
reader is polled for good, which is what run `sockevent_reader` shows.
A reader that `readerEnd` deletes while `rebuild()` reads it is a finding, and the
copy is taken for good here.

`PollersRefineRegistry` shows that the poller half implements `PollRegistry`.
The reader half does not, because of the overtaken removal.

### SockEventTimers

One thread and a clock. `timers_list` maps ids to the code's three fields;
`plan` is a history of what was asked for and how often it was called, from
which `OnSchedule` and `WithinBudget` are stated. `Tickless` computes the poll
timeout from all timers and the first ticket, as the code does. `RemoveTimer`
deletes any timer at any time, also the one that is running or one that the
pass has still to visit; when `run()` then touches it (`TouchDeleted`) the behaviour
ends in `crashed`, since nothing is defined from there on. `SetTicketDelay` may come
between any two tickets: the first ticket is then not the earliest, and
`NeverOversleeps` says by how much at most the loop sleeps past another. The owner
is assumed to call it before the first ticket, since the constructor leaves the
delay uninitialised.

### ActorPipe

The application, the shim's thread and one more thread that creates sockets.
The pipe is two bounded sequences. `Send` and the handler's answers block when
there is no room; `$TERM` and the last signal do not wait and are dropped.
`Close` takes the context's mutex and keeps it over `SendTerm` and `AwaitExit`
to `ZClose`, as `closeSocket` does; a command that creates a socket needs it
(`Handle`). A caller is *careful*, chosen at the start, if it collects the answer
of each command before the next one and before closing, as the self-tests do.

### MdpBroker

One action per message (`Ready`, `Heartbeat`, `Report`, `Disconnect`, `Request`,
`Filter`) and per step of the loop (`PollReturns`, `Beat`, `NoBeat`). `Dispatch` is
the whole of `Service_t::dispatch`: the purge, and the loop that hands requests
out in turn, in closed form. A purge walks a hash table up to the first live
worker, so it deletes an arbitrary part of the expired ones (`Purgeable`). The
clock is a time of day and wraps. `age` and `since` (in a worker's record),
`asked` and `log` are histories. The workers are those of `MdpWorker`: a new
identity for each connection, READY first, and messages that may arrive after
the broker gave the worker up.

Two kinds of undefined behaviour lie on the broker's ordinary paths (a client's
message is deleted twice; a message of an unknown worker reads an uninitialised
pointer). `Crash` is the outcome in which the process ends; the other actions
are the outcome in which it goes on. What the properties say of requests holds
for runs in which it goes on.

### Hub

The loop of `QHubPrivate::run` cut at the `zmq_poll` and between the request,
the pong and the beat of one round, since its owner, its peers and time go on
meanwhile. One action per kind of message (`workerRequest`, `clientQuery`,
`workerPong`), with the conditions of the code as guards: a known client that
registers gets no answer, a query of an unknown one ends the process (`crashed`),
a pong without a delimiter ends the loop. Those pongs come from `s_switch`, which
sends one delimiter before all the pings that wait. `startHUb`, `stopHUb` and the
destructor (`delete`) only set `terminate`; `wait` is what two of them do next.
`Restart` puts another hub, with empty tables, in the place of one that is no
more, while messages to the old one may still arrive. Time is one `Tick` for
all timers; `silent`, the time since the last sign of life, is a history, and
stops once it exceeds `Grace`, where nothing depends on it any more.

`MembersRefine` shows that the table implements `Membership`: `workerRequest` is a
`Join`, `workerPong` a `Hear`, the purge in `Beat` a `GiveUp`, a crash or the end of
the destructor a `Fail`. A worker is given up after `liveness + 1` beats that
found it expired, not before a silence of more than `(liveness + 1) * heartbeat`.

### Relay

`s_switch` is one action per frame and call: read, copy to the capture socket,
send. `Delimit` is the delimiter a forwarder puts in front of what goes to a
DEALER. What a command is shows when it is read (`HandlePipe`), so that every
order of commands, valid or not, is met; the proxy's and the forwarder's
`configure` differ and are both there. An unknown command, a bad endpoint of a
capture socket and a socket of a wrong type abort the program. A send waits while the peers take no
more and fails when a signal interrupts it there: the frame in hand is dropped
and the call ends (`SendFails`), in the middle of a message if need be. Messages
have two frames and numbers that come round, so that a frame that is lost,
doubled or out of order shows (`Follows`). `lost`, `sent` and `paused` are
histories; `PeersRead` and `Arrive` are zmq.

### MdpWorker

The worker's loop is cut at the poll, the sleep before a reconnection and the
heartbeat check. A reconnection gives the worker a new identity; `Abandoned` is
what becomes of messages on the old socket, which has no linger. The broker is
any broker of the protocol: it may stop and start, forget, disconnect. The
repository's own broker is modelled by itself in `MdpBroker`, with workers that
connect, leave and fall silent; it cannot address a worker that sets no
identity of its own (a finding), so the two are not composed. Time of day wraps.

### Contexts

What is done under the mutex is one step; what is read before it is taken is a
step of its own (`TestInitialized`, `StartSetIoThreads`). `kind` chooses `QMNet` or a
plain `Context`. Objects are addresses that a new socket may use again. `slips`
names what has happened that the code does not allow for: a socket of another
thread, one appended again, no handle left, a socket made through a `Context*`,
two zmq contexts, a shutdown. The properties say exactly what each slip spoils and
that nothing else does; `exit` tells how the end turned out.

### Beacon

Commands, the datagrams that wait, and the broadcast after the interval, in the
order of the loop. `prepareUdp` finds an interface only while there is a network
(`NetworkGoes`, `NetworkComes`). A datagram of our own is `current` while what it
carries is published and `former` after that, which is what the code's test
cannot tell from a peer's.

### Wire, Pictures, GossipFrames, Bytes

One side sends with any of its calls, the other receives with any of its own,
fitting or not. A frame is a sequence of digits below `Base`; `Put2`, `Get4` and the
like do to them what the macros do to bytes. `got` is what the last receiving call
returned, with the call that had sent what it read, from which `ReceivedAsSent`
says when values must be those that were sent, and that nothing is left behind.
A call that begins in the middle of a message, or that fails there, is promised no
values; but every call that reads to the end of a message (`recv`, `wait`, `flush`, a
`brecv` that ends in `m`) leaves the next one a new message, wherever it began.
`BsendInterrupted` is a `bsend` whose data frame zmq refused: the frames
after it go as a message of their own. `brecv` keeps strings in a cache whose block
and size are apart, as in the code (`Cached`): when a string does not fit only the
size is doubled. A byte behind the block is an `overrun`, after which the wire
takes no more steps; that pictures which fit never overrun is part of
`ReceivedAsSent`. Unwritten bytes are a choice among
`Leftovers`. `route` puts a ROUTER on either side. `Sendable` and `Bsendable` say what
an element of a picture may be: an `int` as the number of its bits, NULL only
where the code tests for it. `SendCarries` and `BsendCarries` say which of these
the code carries faithfully; the rest is sent all the same, and then nothing is
promised of the values.

### Frames, Messages

`Encode` joins the frames with their sizes; `Decode` is a recursive function of
the position in the buffer, with the marker for long sizes, the limit and the
sign of a four-byte size. `Messages` has one action per
operation of the class on one of two objects, with `contentsize` added to and
subtracted from as the code does; a failed send leaves it too large by what was
dropped (`lost`), and a loaded message is cut at an empty frame.

### Endpoints

`BeginScan`, `Try` and `GiveUp` are the loop of `bind`; `Leap` is the random start
of `!`; other programs take and leave ports between attempts. `steady` is a
history: the ports that were free all through the scan.

## 3. The runs

| Run | Instance | Question | Outcome |
|---|---|---|---|
| `sockevent_safety` | 2 application threads, 1 reader, 2 pollers, 2 sockets, memory may run out | Does any interleaving lose what was appended without a race, call a socket twice after its removal in time has returned, or break `PollRegistry`? | no |
| `sockevent_live` | 1 application thread, 1 reader, 2 pollers, memory may run out | Do abort and every call come to an end (`ThreadsFinish`), does the poll set settle? | yes |
| `sockevent_reader` | 1 thread, 2 readers, 1 poller | Is a removed reader forgotten? | **violated** |
| `timers` | delays of two lengths for timers and tickets, repeat counts 0..2, 2 timers, 2 tickets, 3 clock values | Are timers on schedule, within budget and never slept past, tickets not by more than their delays differ, and all called? | yes |
| `timers_finish` | same | Is a handler's wish to finish final? | **violated** |
| `actor` | pipe of 3, 4 commands, 2 events | Do answers pair up, does close wait and return, do other threads proceed? | yes |
| `actor_close` | pipe of 3, 2 commands | Does close wait for the handler for every caller? | **violated** |
| `mdp_broker` | 2 workers, 2 services, 2 requests, a day of 4 ticks, expiry after 2 | Do the containers agree, are requests sent once, in turn, and only silent workers purged? | yes |
| `mdp_purge` | same | Does a purge delete every silent worker? | **violated** |
| `hub` | a worker and a client, heartbeat 1, liveness 1, 1 and 2 messages under way, 2 pings | Does the table implement `Membership`, is who went forgotten, are clients known, does the destructor return, whatever is lost, late or replaced? | yes |
| `wire` | base 6, objects of 3 frames and frames of 10 bytes, 15 pictures, a cache of 6 bytes, 2 messages at once; ports 1..3, lists of 2 endpoints | Is the content size exact, is every encoding decoded, does every receiving call give what was sent or refuse, is what `attach` reports bound? | yes |
| `processes` | a relay with 1 message of 2 frames a side and 1 command at a time; a worker with liveness 2 and a day of 4; a context with 2 threads, 2 objects, 2 slips; a beacon with 2 strings and 1 datagram | Are frames relayed in order and commands taken, does PAUSE hold, does the worker regain its broker, do list, count and end of a context tell the truth, does the beacon broadcast and hear others only? | yes |

**Bounds.** Two threads and two pollers of one socket are the least with
which a removal of several entries, a rebuild and another registration overlap;
every step of an entry is symmetric in the others. The two threads are alike
and so are the two pollers, and the run takes one of each set of states that
differ in their names only (no property names one of them). Two timers of different
delays, one of them limited, can be ahead of and behind each other, and the
clock of 0..2 reaches the second call of the shorter one; identifiers are never
reused. A delay of tickets that changes between two of them makes the second the
earlier. The pipe of 3 is filled by the 4 commands and the 2 events. For a
careful caller the events must not fill the pipe (`MaxEvent < Hwm`): the last
signal of the handler is dropped otherwise, and the hang this causes is among
the hazards. Two workers of one service (or of two: `serves` is chosen at the
start) are enough for turns, for expiry of one while the other lives, and for a
purge in the middle of a dispatch; two requests for a turn to come round; a
day of four ticks has midnight inside half of the expiries. In the hub workers
do not see each other, except that the first request of an empty table sets the
beat anew; one worker and one client meet every branch, two messages of a
client are a registration with a query or goodbye behind it, two pings make a
bare pong, and liveness 1 has a purge that counts down before the one that
erases (the theorems hold for any number). In `wire`, base 6 puts the marker
for long sizes at 5, and its four-byte limit, within frames of 10 bytes; 3
frames in two objects nest one message in a frame of another; the pictures hold
each type of element, strings below, at and above the marker, numbers that need
their whole width and more, one that ends with the frame, strings that fill the
cache to its last byte and strings that overrun it with their terminator or by
more. Three
ports are the least with a first, a last and one between, and a range that is
asked for backwards. In `processes`, a message of two frames can be cut in its
middle, a capture socket and one full peer at a time are enough for each send
to fail, and one command at a time still leaves PAUSE unread, acknowledged and
overtaken (the proofs need no bounds). A day of 4 ticks has midnight
between a heartbeat and the next; liveness 2 has a poll that counts down and
one that reconnects. Two objects and two threads are the least with an address
used again and two threads in `init`; two slips in a behaviour are the least in
which one could hide the other's effect. One datagram keeps the beacon's loop busy
between two broadcasts. Names of bounds begin with
`Max`; unbounded quantities of the code they stand for are the number of
commands, events, timers, tickets, requests and the clock.

**Fairness.** Liveness is checked where the code's scheduling gives it:
the reactor's thread runs (weak fairness of `Run`; `zmq_poll` has a timeout and
handlers return), a thread under way in a registration call goes on, and one
that waits for `m_rebuild` gets it if it is free again and again (strong
fairness of `Flag` and `Mark`: the reactor releases it in every pass, and the
mutex is not handed over in order). For actors: both threads run and a free
mutex is given to whoever waits. Nobody is ever obliged to call, start, send or
close. When memory runs out `run()` ends with the mutex held: `ThreadsFinish` has
this as the one case in which a call may wait for ever. The hub's thread runs, time passes, and a
thread in `QThread::wait` is woken; its peers, and whoever restarts it, are never
obliged to act. The broker is checked for safety only. A relay's handler runs
(weak fairness of `Handler`), interrupted or not, and that `s_switch` returns is
assumed by `CommandsTaken`, since it goes on as long as frames come; the
application and the peers are free. A worker's thread runs, time passes, and a
broker that is up reads what it has been sent within one unit of time;
whether it is up, forgets or sends is free, and `RegainsBroker` speaks of
behaviours in which it stays up in the end. A beacon's handler runs, its
application takes reports, time passes; network and peers are free. Contexts,
messages and endpoints are checked for safety.

**Deadlock** is checked for the reactor and the hub. For the reactor the check says
nothing: `Abort` is possible in every state. That nobody is stuck there is what
`ThreadsFinish` says. The other configurations turn it off:
the timers' clock and the histories are bounded, an actor ends closed or, for a
careless caller, really hangs, and a broker may crash. `wire` has a bounded number
of messages; in `processes` relays, contexts and beacons end or are aborted, and
`CleanExit` tells a context that came to its end from one that hangs.

## 4. What is proved

TLAPS checks these for every value of the constants that the `ASSUME`s admit
(`tlapm` on the eight `*Proofs` modules). Each follows from an inductive
invariant `IInv`: `Init => IInv`, a lemma per action or group of actions for
`IInv /\ [Next]_vars => IInv'`, and `IInv => P`.

* **SockEvent**: `TypeCorrect`, `PollersRefine`, and for `SockEventHistory`
  `RegistrationsPolled`, `RemovedLateOnce`. The lists alone are not inductive: the
  invariant says, for each place where `run()` and the threads may stand, what the
  poll set and the flag have to do with the lists, that the reactor holds the
  mutex while it rebuilds, and what a call still has to do (`todo`). The
  refinement is proved as a step-by-step simulation on top of it. A second
  invariant (`HInv`) relates the histories to it: what is registered is in a list
  and in the hands of no call (`ListedInv`), what was taken off is neither
  (`GoneInv`); if it is still in the poll set, the flag is up or about to be
  (`DropInv`), and after one late call `run()` goes straight to the rebuild
  (`LateInv`).
* **SockEventTimers**: `TypeCorrect`, `TimersOnSchedule`, `TimersWithinBudget`,
  `SleepsNoLonger`. `WithinBudget` also speaks of finished timers, so the
  invariant carries the history. `SleepsNoLonger` rests on tickets being sorted
  by their creation: a later ticket was created later, so that it can be due
  earlier only by what the delays differ.
* **ActorPipe**: `TypeCorrect`, `OnlyExpectedAnswers`, `CloseWaitsForHandler`. The
  invariant places the one open question of a careful caller: it is the last
  command in the pipe, or being executed, or its answer is in the pipe back,
  and never in two of these; while closing there is none, so the first signal
  `close()` reads is the handler's last.
* **MdpBroker**: `TypeCorrect`, `ListsAgreeAlways`, `NoIdleWithWorkAlways`,
  `WaitingsOldestFirstAlways`, `OnlySilentPurgedAlways`, `EachRequestOnceAlways`,
  `RoundRobinAlways`. A lemma on ranks
  (`RankOf`, from the cardinality of intervals and injections) shows that a
  removal keeps the order and the rest of a list (`WithoutOf`, in `ListsProofs`); rotation is a
  permutation (`RotateOf`). The lists agree only together with the fact that
  known workers are those that joined (`PeerInv`), or a READY could add one
  twice. That only silent workers go needs the clock: unless its expiry is past
  midnight, a worker's expiry is an expiry after its last sign of life
  (`ClockInv`). On top of that a second invariant (`HistoryInv`) relates the queues
  to the log: queues ascend and hold requests of their service, all later than
  those sent (`Handled`), so every request is in one place once (`OnceOf`); and
  the lists are in the order of their workers' last turns (`TurnInv`). For a
  dispatch of any number of requests to any number of workers,
  `TurnsDispatched` shows that the rotation puts the workers in the order of
  the turns just given, whether the queue goes round the list several times or
  not once; `RoundOf` is the arithmetic of it.

* **Hub**: `TypeCorrect`, `FirstHubKnowsItsClients`, `MembersAreKept`. That no
  worker is given up too early needs what its record means (`Counted`): the
  time since its last sign of life is at least `Span(n)` plus the part of the
  present heartbeat that is over, `n` being what was counted off its
  liveness. `Span(liveness + 1)` exceeds the grace (`SpanOf`). For the clients the
  invariant (`Orderly`) keeps the order of what is under way: a registration
  first, a goodbye last.

`ProcessesProofs` holds the invariants of the four machines of `MCProcesses`;
`PartsInvariance` joins them.

* **Relay**: `RelayTypes`, `RelayedInOrderAlways`, `PausedSilentAlways`. Positions of
  frames go round a ring, and `Remainder` brings them down to sums and
  differences (`FollowsFirst`, `FollowsInMessage`, `FollowsSkipping`). The invariant says
  that what was sent, is in hand, waits and arrives is one sequence
  (`Ordered`), that a message is begun at the output only, with the rest to
  come, at a socket that can send (`Begun`), that the first part of a message was
  the last thing sent there (`Halfway`), and that no message is under way
  outside `s_switch` (`InHand`). PAUSE is silent because acknowledgements are
  counted (`Counted`): when the last that was due is that of PAUSE, it was the
  last sent, and the poller has held nothing but the pipe since (`Silenced`).
* **Context**: `TableAlwaysTrue`, `CleanExitAlways`. Neither is inductive. The
  invariant says what each call under way may still do (`ContextCalls`), and that
  it has its socket to itself (`ContextHolds`); what is known of a socket from its
  fields, with the slip that explains each exception (`ContextObjects`); that a
  socket of main's that is listed is alive and either owned or on its way out,
  and that an open one is listed or about to be (`ContextListed`); that the count
  is the length of the list, from one side or the other unless a base or a
  shutdown slipped in (`ContextCounted`). `shutdown` empties the list while it
  goes over it, so that what its end found (`ContextEnd`) is said of the moment
  before it let go of the mutex.
* **Worker, beacon**: `PartsTypes` has the type invariants of both, whose
  interesting parts are bounds: a worker's liveness does not go below zero,
  since it is positive wherever it is counted down (`WorkerInv`). For the
  beacon, `BeaconHearsAlways` is the first half of `BeaconWorks`: an echo that the
  model calls current carries what is published now, and once configured the
  beacon listens, or the network was away (`BeaconInv`).

`WireProofs` does the same for `MCWire`.

* **Endpoints**: `AttachedAsAskedAlways`. While a range is scanned
  (`Scanning`), the port at hand is as far ahead of the first, round the range, as
  attempts were used up, and every port that was free all the time is still
  ahead; so none is left when the attempts are.
* **Messages**: `ContentSizeAlways`. Every operation changes list and count
  together; what has to be shown is that the sizes of a list add up under
  concatenation, cutting and removal (`Total` is a recursive function), and that
  `Decode` gives frames an int can size, so that the invariant
  (`ListsExact`, `UnderWay`) is kept by what comes from a buffer or a socket.
* **Frames**: `CodecAlways`. `HeaderRoundTrip` is the step: for any base and
  whatever follows, `ReadHeader` reads the size that `Header` wrote and takes the
  bytes that were written. Round it go two inductions, over the frames of the
  list and over the position in the buffer, that show what `Decode` makes of an
  encoding and of each part of one, and what `Loaded` makes of a saved file.
* **Wire**: `ReceivedAsSentAlways`, `WireTypes`. The property speaks of the last
  receiving call only; the invariant (`WiresInv`) says that each message on its way
  is what the call it is filed under made (`Made`), as it comes past a ROUTER
  (`Arrives`), or was put together of single frames, of which nothing is
  promised. Then there is one lemma per receiving call. `recv` goes over frames
  and picture side by side (`PictureFramesAre`, `RecvBack`). `brecv` goes over one
  frame with a needle: after k elements it stands where the k-th element ended when
  `bsend` wrote it, and has the first k values (`Held`); `ElementBack` is the step,
  one case per kind of element, and `BrecvBack` the induction. As long as the strings that were
  read, with their terminators, fit into the cache (`Room`), it keeps its size and
  nothing is written behind it (`CachedStores`, `BrecvCache`). That a call
  reads to the end of a message is `BrecvReadsAll`. Numbers come back
  whatever their width (`NumberBack`). A gossip frame is followed field by field (`ParsedAs`, `GossipBack`).

**Recursion.** The library's induction theorems are of no use here (their
parameter is an operator), so that what a recursive function computes is
derived in `ListsProofs` from the least element of a set of naturals:
`RankedRecursion` shows that a function that recurses to smaller ranks exists and
satisfies its equation, `StepByStep` that a set of naturals that holds zero and each
successor holds all, and `RunningFunction` puts the two together for functions of
the places of a list. `Total`, `Encode` and `Decode` are unfolded with these.

Only model-checked: all liveness properties (`ThreadsFinish`, `Settles`,
`NobodyHangs`, `DueAreCalled`, `GoneForgotten`, `DeleteReturns`, `CommandsTaken`,
`RegainsBroker`, and the second half of `BeaconWorks`; the provers do not handle
fairness). Every safety property of a passing run is a theorem.

## 5. Where code and documents disagree

The runs that end in a violation: a removed reader is polled for ever
(`sevent.cpp:398`), a finish request is overwritten (`sevent.cpp:211`), close does
not wait for the handler (`actor.cpp:85`), a purge misses silent workers
(`mdp.cpp:733`). The other models have the disagreements they met built in, and
`findings` in `PROJECT.json` lists them, each at its line. Those that matter most:

* **reactor**: two threads that append at the same time lose an entry; a poll set
  that does not fit the lists is read or written behind its end; a handler that
  cancels a timer of the pass leaves `run()` with a deleted one; a shorter ticket
  delay makes the loop sleep past a ticket;
* **broker, hub**: double deletion and an uninitialised pointer on ordinary paths,
  worker addresses that do not survive the conversion to QString, midnight, a
  hub that two pings in one relay step end, clients that come back and get no
  answer, `stopHUb`, which does not stop the hub;
* **relays**: a message before the other side is set up follows a null pointer;
  an interrupted send leaves half a message; a forwarder socket stays out of
  the poller after one bad endpoint;
* **context**: sockets made through a `Context*` are not counted but are counted
  off; `shutdown` locks itself out on a socket without a handle; a socket that is
  appended again leaves its handle open for good; two threads may make two
  contexts;
* **worker, beacon**: a heartbeat that midnight postpones for a day; a beacon that
  publishes while the network is away never hears again; an echo of a former
  broadcast is reported as a peer's;
* **messages, sockets**: `send` writes `u` in a form that `recv` reads as 0; `sendmem`
  passes flags of other meanings; `save` ends at an empty frame; `decode` takes a
  large size for a negative one; `bsend` leaves bytes unwritten, and sends the
  frames after a data frame that was not sent; `brecv` enlarges its string cache
  in name only and writes behind it; `bind` with a
  range in reverse order tries one port until it is free.

## 6. Not modelled

* **Outside for good**: the socket options, each of which passes a value to zmq;
  formatting, logging and the regular expressions of the vendored library, and
  with them what an endpoint looks like; zmq, Qt and the network, of which the
  modules keep only what the code relies on; the test driver.
* **Majordomo client**: one blocking send and one blocking receive; the timeout it
  keeps (`mdp.cpp:14`, `56`) is never used, and nothing is sent again. Its requests
  are those of `MdpBroker`.
* **Without a caller**: `SocketBase::bind`, which `Socket` overrides, `timerEnd`,
  `resetTicket`, `readerSetTollerant`, `pauseHeartbeat`, `init_shadow`, `handleError`; the
  gossip actor, whose body is empty.
* **Of parts that are modelled**: `terminate()` and destructors of the reactor, the
  hub's notifications and what queries say, `disconnect` of a socket, iteration
  over the frames of a message, which of several interfaces a beacon takes,
  broadcasts on `*`, and calls with undefined behaviour named in the modules'
  headers. The notes of the components in `PROJECT.json` say so part by part.

## 7. Plan

Done: the reactor (registration, then timers), actors with the context's
mutex, the broker, the hub with its peers, relays and poller, the worker, the
context, the beacon, messages, codecs, sockets and endpoints. What is left, in
this order:

1. Step simulations behind the liveness properties: that a measure goes down with
   each step a property waits for (the heartbeats left of a peer that went, the
   answers still due of a closing actor), of which fairness is the only part
   that remains with TLC.
2. The Majordomo client and the worker against one broker.
