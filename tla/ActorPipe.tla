------------------------------ MODULE ActorPipe ------------------------------
(***************************************************************************)
(* The actor of qmq/actor.cpp: an ActorSocket on an application thread, the*)
(* Shim thread that runs its handler, the PAIR pipe between them, and the  *)
(* mutex of the context, which closing an actor shares with every thread   *)
(* that creates a socket.                                                  *)
(*                                                                         *)
(* The handler is any of those in the repository (echo_actor, qproxy,      *)
(* qforwarder, qmonitor) seen from its pipe: a command is                  *)
(*    "conf"   one that creates a socket and is acknowledged by a signal   *)
(*             (FRONTEND, BACKEND, CAPTURE; START of the monitor),         *)
(*    "ack"    one that is only acknowledged (PAUSE, RESUME, VERBOSE),     *)
(*    "quiet"  one without an answer (LISTEN of the monitor),              *)
(*    "echo"   one that is answered by a message (ECHO),                   *)
(* and a handler may send messages of its own accord (monitor events).     *)
(* All signals look alike to the code; the tags init, ack and exit only    *)
(* tell the reader of the model where one comes from.                      *)
(*                                                                         *)
(* A caller is careful or not, from the beginning.  A careful one collects *)
(* the answer of a command before it sends the next or closes the actor, as*)
(* the self-tests do; the others use the API in any order.  The context    *)
(* lives on the application's thread; shutdown() with live actors is not   *)
(* modelled, nor is what createSocket creates.                             *)
(***************************************************************************)
EXTENDS Integers, Sequences

CONSTANTS
  Hwm,         \* how many messages fit into one direction of the pipe
  MaxCommand,  \* bound: commands sent in all
  MaxEvent     \* bound: messages a handler sends of its own accord

ASSUME HwmAssumption == Hwm \in Nat \ {0}
ASSUME BoundAssumption == {MaxCommand, MaxEvent} \subseteq Nat

VARIABLES
  careful,      \* the kind of caller
  to_actor,     \* the pipe from the ActorSocket to the handler
  to_app,       \* the pipe from the handler to the ActorSocket
  apc,          \* where the application stands
  expecting,    \* the answer it has to collect; "any" after a quiet command
  commands,     \* how many commands it has sent
  spc,          \* where the shim's thread stands
  command,      \* the command the handler is executing
  events,       \* how many messages the handler has sent on its own
  interrupted,  \* history: zmq_poll or a receive of the handler failed
  mutex,        \* TRUE while closeSocket holds the context's mutex
  opc           \* another thread: "idle", or "create" on entering createSocket

pipe      == <<to_actor, to_app>>
app_vars  == <<careful, apc, expecting, commands>>
shim_vars == <<spc, command, events, interrupted>>
vars      == <<careful, to_actor, to_app, apc, expecting, commands, spc,
               command, events, interrupted, mutex, opc>>

Command == {"conf", "ack", "quiet", "echo"}
Signal  == {"init", "ack", "exit"}
Reply   == [c \in Command |-> CASE c = "echo"  -> "echo"
                                [] c = "quiet" -> "any"
                                [] OTHER       -> "ack"]
AppPC   == {"new", "start", "ready", "term", "wait", "close", "join", "closed"}
ShimPC  == {"none", "init", "loop", "handle", "reply", "event", "exit", "done"}

TypeOK ==
  /\ careful \in BOOLEAN
  /\ to_actor \in Seq(Command \cup {"$TERM"}) /\ Len(to_actor) <= Hwm
  /\ to_app \in Seq(Signal \cup {"echo", "event"}) /\ Len(to_app) <= Hwm
  /\ apc \in AppPC
  /\ expecting \in {"none", "any", "ack", "echo"}
  /\ commands \in 0 .. MaxCommand
  /\ spc \in ShimPC
  /\ command \in Command
  /\ events \in 0 .. MaxEvent
  /\ interrupted \in BOOLEAN
  /\ mutex \in BOOLEAN
  /\ opc \in {"idle", "create"}

Init ==
  /\ careful \in BOOLEAN
  /\ to_actor = <<>> /\ to_app = <<>>
  /\ apc = "new" /\ expecting = "none" /\ commands = 0
  /\ spc = "none" /\ command = "ack" /\ events = 0 /\ interrupted = FALSE
  /\ mutex = FALSE
  /\ opc = "idle"

\* Both ends of the pipe exist until zmq_close on the application's end; what
\* is in the pipe by then still reaches the handler, what it sends does not.
AppOpen == apc \notin {"new", "join", "closed"}
Free(q) == Len(q) < Hwm

-----------------------------------------------------------------------------
(***************************************************************************)
(* The application: ActorSocket.                                           *)
(***************************************************************************)

\* The constructor enters both ends of the pipe in the context, under its
\* mutex, and starts the thread ...
Construct ==
  /\ apc = "new" /\ ~mutex
  /\ apc' = "start" /\ spc' = "init"
  /\ UNCHANGED <<careful, expecting, commands, pipe, command, events,
                 interrupted, mutex, opc>>

\* ... and waits for its first signal.
Started ==
  /\ apc = "start"
  /\ to_app # <<>> /\ Head(to_app) \in Signal
  /\ to_app' = Tail(to_app)
  /\ apc' = "ready"
  /\ UNCHANGED <<careful, expecting, commands, to_actor, shim_vars, mutex, opc>>

\* Send a command; a full pipe blocks.
Send(c) ==
  /\ apc = "ready" /\ commands < MaxCommand
  /\ careful => expecting \in {"none", "any"}
  /\ Free(to_actor)
  /\ to_actor' = Append(to_actor, c)
  /\ expecting' = Reply[c] /\ commands' = commands + 1
  /\ UNCHANGED <<careful, apc, to_app, shim_vars, mutex, opc>>

\* recv(), or one turn of wait(), which goes on until it has read a signal.
Receive ==
  /\ apc = "ready" /\ to_app # <<>>
  /\ to_app' = Tail(to_app)
  /\ expecting' = IF \/ expecting = "ack" /\ Head(to_app) \in Signal
                     \/ expecting = Head(to_app)
                    THEN "none" ELSE expecting
  /\ UNCHANGED <<careful, apc, commands, to_actor, shim_vars, mutex, opc>>

\* ~ActorSocket: closeSocket takes the mutex of the context for all that
\* follows, up to zmq_close.
Close ==
  /\ apc = "ready" /\ ~mutex
  /\ careful => expecting = "none"
  /\ mutex' = TRUE /\ apc' = "term"
  /\ UNCHANGED <<careful, expecting, commands, pipe, shim_vars, opc>>

\* close(): send $TERM without waiting for room, and wait if that worked.
SendTerm ==
  /\ apc = "term"
  /\ IF Free(to_actor)
       THEN to_actor' = Append(to_actor, "$TERM") /\ apc' = "wait"
       ELSE apc' = "close" /\ UNCHANGED to_actor
  /\ UNCHANGED <<careful, expecting, commands, to_app, shim_vars, mutex, opc>>

\* wait() returns with the first signal it reads.
AwaitExit ==
  /\ apc = "wait" /\ to_app # <<>>
  /\ to_app' = Tail(to_app)
  /\ apc' = IF Head(to_app) \in Signal THEN "close" ELSE "wait"
  /\ UNCHANGED <<careful, expecting, commands, to_actor, shim_vars, mutex, opc>>

\* Mutation: closeSocket returns with the mutex locked.
ZCloseLocked ==
  /\ apc = "close"
  /\ apc' = "join" /\ to_app' = <<>>
  /\ UNCHANGED <<careful, expecting, commands, to_actor, shim_vars, mutex, opc>>

\* SocketBase::close, and the end of closeSocket.
ZClose ==
  /\ apc = "close"
  /\ mutex' = FALSE
  /\ apc' = "join" /\ to_app' = <<>>
  /\ UNCHANGED <<careful, expecting, commands, to_actor, shim_vars, opc>>

\* ~Shim: wait for the thread, then delete its end of the pipe, which takes
\* the mutex once more.
Join ==
  /\ apc = "join" /\ spc = "done" /\ ~mutex
  /\ apc' = "closed" /\ to_actor' = <<>>
  /\ UNCHANGED <<careful, expecting, commands, to_app, shim_vars, mutex, opc>>

-----------------------------------------------------------------------------
(***************************************************************************)
(* The shim's thread and its handler.                                      *)
(***************************************************************************)

\* Mutation: the pipe is made unbounded on the handler's end.
DeliverUnbounded(m) ==
  /\ AppOpen
  /\ to_app' = Append(to_app, m)
  /\ UNCHANGED to_actor

\* signal() and send() on the handler's end block while there is no room, and
\* for good when the other end is closed.
Deliver(m) ==
  /\ AppOpen /\ Free(to_app)
  /\ to_app' = Append(to_app, m)
  /\ UNCHANGED to_actor

SignalInit ==
  /\ spc = "init"
  /\ Deliver("init")
  /\ spc' = "loop"
  /\ UNCHANGED <<app_vars, command, events, interrupted, mutex, opc>>

ReceiveCommand ==
  /\ spc = "loop" /\ to_actor # <<>> /\ Head(to_actor) # "$TERM"
  /\ command' = Head(to_actor) /\ to_actor' = Tail(to_actor)
  /\ spc' = "handle"
  /\ UNCHANGED <<app_vars, to_app, events, interrupted, mutex, opc>>

ReceiveTerm ==
  /\ spc = "loop" /\ to_actor # <<>> /\ Head(to_actor) = "$TERM"
  /\ to_actor' = Tail(to_actor)
  /\ spc' = "exit"
  /\ UNCHANGED <<app_vars, to_app, command, events, interrupted, mutex, opc>>

\* Mutation: every command is acknowledged, LISTEN too.
HandleAll ==
  /\ spc = "handle"
  /\ command = "conf" => ~mutex
  /\ spc' = "reply"
  /\ UNCHANGED <<app_vars, pipe, command, events, interrupted, mutex, opc>>

\* Execute the command; createSocket needs the mutex of the context.
Handle ==
  /\ spc = "handle"
  /\ command = "conf" => ~mutex
  /\ spc' = IF command = "quiet" THEN "loop" ELSE "reply"
  /\ UNCHANGED <<app_vars, pipe, command, events, interrupted, mutex, opc>>

\* Mutation: the acknowledgement is sent by configure() and by its caller.
AnswerTwice ==
  /\ spc = "reply"
  /\ Deliver(IF command = "echo" THEN "echo" ELSE "ack")
  /\ spc' = "loop" \/ spc' = "reply"
  /\ UNCHANGED <<app_vars, command, events, interrupted, mutex, opc>>

Answer ==
  /\ spc = "reply"
  /\ Deliver(IF command = "echo" THEN "echo" ELSE "ack")
  /\ spc' = "loop"
  /\ UNCHANGED <<app_vars, command, events, interrupted, mutex, opc>>

\* A monitor has an event to report ...
EventOccurs ==
  /\ spc = "loop" /\ events < MaxEvent
  /\ events' = events + 1 /\ spc' = "event"
  /\ UNCHANGED <<app_vars, pipe, command, interrupted, mutex, opc>>

\* ... and sends it.
SendEvent ==
  /\ spc = "event"
  /\ Deliver("event")
  /\ spc' = "loop"
  /\ UNCHANGED <<app_vars, command, events, interrupted, mutex, opc>>

\* The handler is interrupted while it waits, and returns.
Interrupt ==
  /\ spc = "loop"
  /\ interrupted' = TRUE /\ spc' = "exit"
  /\ UNCHANGED <<app_vars, pipe, command, events, mutex, opc>>

\* Shim::run sends the last signal without waiting for room.
Exit ==
  /\ spc = "exit"
  /\ to_app' = IF AppOpen /\ Free(to_app) THEN Append(to_app, "exit") ELSE to_app
  /\ spc' = "done"
  /\ UNCHANGED <<app_vars, to_actor, command, events, interrupted, mutex, opc>>

-----------------------------------------------------------------------------
(***************************************************************************)
(* Any other thread that creates sockets.                                  *)
(***************************************************************************)

OtherEnters ==
  /\ opc = "idle" /\ opc' = "create"
  /\ UNCHANGED <<app_vars, pipe, shim_vars, mutex>>

OtherCreates ==
  /\ opc = "create" /\ ~mutex /\ opc' = "idle"
  /\ UNCHANGED <<app_vars, pipe, shim_vars, mutex>>

-----------------------------------------------------------------------------
Shim == \/ SignalInit \/ ReceiveCommand \/ ReceiveTerm \/ Handle \/ Answer
        \/ SendEvent \/ Exit
Closing == SendTerm \/ AwaitExit \/ ZClose \/ Join
Caller == Construct \/ Started \/ Receive \/ Close \/ \E c \in Command : Send(c)

Next == Caller \/ Closing \/ Shim \/ EventOccurs \/ Interrupt
          \/ OtherEnters \/ OtherCreates

Spec == Init /\ [][Next]_vars

\* Both threads run, and a free mutex is given to who asks for it.  Nothing
\* obliges the application to send, receive or close.
Fairness == WF_vars(Shim) /\ WF_vars(Closing) /\ WF_vars(OtherCreates)
FairSpec == Spec /\ Fairness

-----------------------------------------------------------------------------
(***************************************************************************)
(* Properties.                                                             *)
(***************************************************************************)

\* A careful caller only ever finds the answer it expects in the pipe: no
\* acknowledgement of one command is left over for the wait() of another.
AnswersExpected ==
  careful /\ apc = "ready" =>
    \A i \in DOMAIN to_app : /\ to_app[i] = "ack"  => expecting = "ack"
                             /\ to_app[i] = "echo" => expecting = "echo"
                             /\ to_app[i] # "init"

\* "wait until thread finished" (ActorSocket::close): the ActorSocket is not
\* closed before the handler has returned.
CloseWaits == apc \in {"close", "join", "closed"} => spc = "done"

\* It holds for a careful caller.
CarefulCloseWaits == careful => CloseWaits

\* A careful caller is never left hanging in the destructor, unless the
\* handler ended on its own before.
CloseReturns == careful /\ apc = "term" ~> apc = "closed" \/ interrupted

\* While an actor is being closed, other threads have to wait to create a
\* socket, but not for ever if its caller is careful.
OthersProceed == careful /\ opc = "create" ~> opc = "idle" \/ interrupted

\* Nobody is left waiting for the end of a careful caller's actor, neither the
\* caller in the destructor nor another thread at the context's mutex.
NobodyHangs == CloseReturns /\ OthersProceed
=============================================================================
