-------------------------------- MODULE Relay --------------------------------
(* The actors qproxy and qforwarder: commands from the application set up a *)
(* frontend, a backend and a capture socket, and pause and resume; messages *)
(* are relayed frame by frame from one side to the other. The application   *)
(* is taken to read its acknowledgements, and to be free in all else.       *)
EXTENDS Integers, FiniteSets, Poller

CONSTANTS
  Types,      \* the zmq types of frontend and backend
  Numbers,    \* messages are numbered below this, round and round
  MaxWaiting, \* bound: messages that wait at a socket
  MaxPending  \* bound: commands sent and not yet acknowledged

ASSUME RelayAssumption == Numbers \in Nat /\ Numbers > 1 /\ MaxPending \in Nat

Side == {"frontend", "backend"}

VARIABLES
  kind,      \* "proxy" or "forwarder"
  poller,    \* the handler's Poller
  type,      \* the types of the two sockets, NULL before FRONTEND or BACKEND
  capture,   \* there is a capture socket
  stage,     \* where the handler is: see Stage
  input,     \* the side s_switch reads from
  held,      \* the frame it has read and not yet passed on
  inbox,     \* frames waiting at the two sockets
  building,  \* frames sent through a socket as parts of a message not complete
  arrived,   \* the number of the message that arrives next
  sent,      \* the last frame of a side that was relayed
  lost,      \* how many were read since and not relayed, for a failed send
  full,      \* sockets whose peers take no more for now
  pipe,      \* number of commands on their way to the handler
  acks,      \* the commands whose acknowledgements are on their way back
  pending,   \* commands it has sent whose acknowledgement it has not read
  paused     \* PAUSE was the last, and is acknowledged

app_vars == <<pipe, acks, pending, paused>>
set_up   == <<kind, poller, type, capture>>
stream   == <<held, inbox, building, arrived, sent, lost, full>>
vars     == <<set_up, stage, input, stream, app_vars>>

Stage == {"poll", "pipe", "delimit", "read", "copy", "send", "ended", "aborted"}

Delimiter == [number |-> -1, part |-> 1, more |-> TRUE]
Parts(n) == << [number |-> n, part |-> 1, more |-> TRUE],
               [number |-> n, part |-> 2, more |-> FALSE] >>
Frames == UNION {ToSet(Parts(n)) : n \in 0 .. Numbers - 1}

Verbs == {"FRONTEND", "BACKEND", "CAPTURE", "PAUSE", "RESUME", "VERBOSE", "$TERM", "unknown"}

Commands == [verb : Verbs, type : Types,
             option : {"endpoint", "bad endpoint", "SUBSCRIBER", "SETID"}]

TypeOK ==
  /\ kind \in {"proxy", "forwarder"} /\ stage \in Stage /\ input \in Side
  /\ poller \in [list : Seq(Side \cup {"pipe"}), expired : BOOLEAN, terminated : BOOLEAN]
  /\ IsInjective(poller.list)
  /\ type \in [Side -> Types \cup {NULL}] /\ capture \in BOOLEAN
  /\ held \in {<<>>} \cup {<<f>> : f \in Frames}
  /\ inbox \in [Side -> Seq(Frames)] /\ building \in [Side -> Seq(Frames \cup {Delimiter})]
  /\ arrived \in [Side -> 0 .. Numbers - 1]
  /\ sent \in [Side -> Frames] /\ lost \in [Side -> 0 .. 2 * Numbers - 1]
  /\ full \subseteq Side \cup {"capture"}
  /\ pipe \in 0 .. MaxPending /\ acks \in Seq(Verbs) /\ pending \in 0 .. MaxPending
  /\ paused \in BOOLEAN

Init ==
  /\ kind \in {"proxy", "forwarder"}
  /\ poller = PollerAppend(NewPoller, "pipe")
  /\ type = [s \in Side |-> NULL] /\ capture = FALSE
  /\ stage = "poll" /\ input = "frontend" /\ held = <<>>
  /\ inbox = [s \in Side |-> <<>>] /\ building = inbox
  /\ arrived = [s \in Side |-> 0] /\ sent = [s \in Side |-> Parts(Numbers - 1)[2]]
  /\ lost = [s \in Side |-> 0] /\ full = {}
  /\ pipe = 0 /\ acks = <<>> /\ pending = 0 /\ paused = FALSE

Output == IF input = "frontend" THEN "backend" ELSE "frontend"

-----------------------------------------------------------------------------
(* Commands. What a command is shows when it is read. FRONTEND and BACKEND  *)
(* set up a socket; the forwarder may be given one several times, with more  *)
(* endpoints or an option.                                                   *)

SideOf(c) == IF c.verb = "FRONTEND" THEN "frontend" ELSE "backend"

Socket(s) == IF type[s] = NULL THEN NULL ELSE s

Handled == UNCHANGED <<kind, input, stream, pending, paused>>

Acknowledge(c) ==
  /\ acks' = Append(acks, c.verb)
  /\ stage' = "poll" /\ pipe' = pipe - 1

(* qFatal or a failed assertion: the process is aborted.                    *)
Abort == /\ stage' = "aborted" /\ UNCHANGED <<poller, type, capture, acks, pipe>>

ProxyConfigure(c) ==
  LET s == SideOf(c)
  IN IF type[s] # NULL \/ c.option # "endpoint" THEN Abort
     ELSE /\ type' = [type EXCEPT ![s] = c.type]
          /\ poller' = PollerAppend(poller, s)
          /\ Acknowledge(c) /\ UNCHANGED capture

OptionAllowed(t, option) ==
  CASE option = "SUBSCRIBER" -> t = "SUB"
    [] option = "SETID" -> t \in {"REQ", "REP", "DEALER", "ROUTER"}
    [] OTHER -> TRUE

(* The socket is watched when it is made, and no longer when one of its     *)
(* endpoints is bad.                                                        *)
ForwarderConfigure(c) ==
  LET s == SideOf(c)
      t == IF type[s] = NULL THEN c.type ELSE type[s]
      p == IF type[s] = NULL THEN PollerAppend(poller, s) ELSE poller
  IN IF ~OptionAllowed(t, c.option) THEN Abort
     ELSE /\ type' = [type EXCEPT ![s] = t]
          /\ poller' = IF c.option = "bad endpoint" THEN PollerRemove(p, s) ELSE p
          /\ Acknowledge(c) /\ UNCHANGED capture

Configure(c) ==
  /\ c.verb \in {"FRONTEND", "BACKEND"}
  /\ IF kind = "proxy" THEN ProxyConfigure(c) ELSE ForwarderConfigure(c)

(* The capture socket must connect; a second one replaces the first.        *)
Capture(c) ==
  /\ c.verb = "CAPTURE"
  /\ IF c.option = "bad endpoint" THEN Abort
     ELSE capture' = TRUE /\ Acknowledge(c) /\ UNCHANGED <<poller, type>>

\* Mutation: the sockets stay in the list of a poller that is paused.
PauseKeepsSockets(c) ==
  /\ c.verb = "PAUSE"
  /\ poller' = PollerAppend(poller, "pipe")
  /\ Acknowledge(c) /\ UNCHANGED <<type, capture>>

Pause(c) ==
  /\ c.verb = "PAUSE"
  /\ poller' = PollerAppend(PollerClear(poller), "pipe")
  /\ Acknowledge(c) /\ UNCHANGED <<type, capture>>

\* Mutation: the frontend comes before the pipe.
ResumeFrontendFirst(c) ==
  /\ c.verb = "RESUME"
  /\ LET p == PollerAppend(PollerClear(poller), Socket("frontend"))
     IN poller' = PollerAppend(PollerAppend(p, "pipe"), Socket("backend"))
  /\ Acknowledge(c) /\ UNCHANGED <<type, capture>>

Resume(c) ==
  /\ c.verb = "RESUME"
  /\ LET p == PollerAppend(PollerClear(poller), "pipe")
     IN poller' = PollerAppend(PollerAppend(p, Socket("frontend")), Socket("backend"))
  /\ Acknowledge(c) /\ UNCHANGED <<type, capture>>

Verbose(c) == c.verb = "VERBOSE" /\ Acknowledge(c) /\ UNCHANGED <<poller, type, capture>>

Term(c) ==
  /\ c.verb = "$TERM"
  /\ stage' = "ended" /\ pipe' = pipe - 1
  /\ UNCHANGED <<poller, type, capture, acks>>

Unknown(c) == c.verb = "unknown" /\ Abort

HandlePipe ==
  /\ stage = "pipe" /\ Handled
  /\ \E c \in Commands :
       \/ Configure(c) \/ Capture(c) \/ Pause(c) \/ Resume(c) \/ Verbose(c) \/ Term(c)
       \/ Unknown(c)

(* The receive of the command is interrupted: it is still there.            *)
PipeInterrupted ==
  /\ stage = "pipe" /\ stage' = "poll"
  /\ Handled /\ UNCHANGED <<poller, type, capture, acks, pipe>>

-----------------------------------------------------------------------------
(* The loop and s_switch.                                                   *)

Ready == {s \in Side : inbox[s] # <<>>} \cup (IF pipe = 0 THEN {} ELSE {"pipe"})

(* With a message on one side and no socket on the other s_switch follows a *)
(* null pointer.                                                            *)
Enter(s) ==
  LET out == IF s = "frontend" THEN "backend" ELSE "frontend"
  IN /\ input' = s
     /\ stage' = CASE type[out] = NULL -> "aborted"
                   [] kind = "forwarder" /\ type[out] = "DEALER" -> "delimit"
                   [] OTHER -> "read"

PollReturns ==
  /\ stage = "poll" /\ Ready \cap ToSet(poller.list) # {}
  /\ LET s == FirstReady(poller, Ready)
     IN IF s = "pipe" THEN stage' = "pipe" /\ UNCHANGED input ELSE Enter(s)
  /\ poller' = Waited(poller)
  /\ UNCHANGED <<kind, type, capture, stream, app_vars>>

PollInterrupted ==
  /\ stage = "poll" /\ stage' = "ended"
  /\ poller' = PollFails(poller)
  /\ UNCHANGED <<kind, type, capture, input, stream, app_vars>>

(* A send waits, before the first frame of a message, while the peers take  *)
(* no more, and fails when it is interrupted there, or on a socket that     *)
(* cannot send.                                                             *)
Waits(s) == s \in full /\ (IF s = "capture" THEN TRUE ELSE building[s] = <<>>)

Fails(s) == Waits(s) \/ type[s] = "SUB"

(* A whole message may be the last that the peers take.                     *)
Filled(s, f) == IF f.more \/ full # {} THEN {full} ELSE {full, {s}}   \* bound: one at a time

Push(s, f) ==
  /\ building' = [building EXCEPT ![s] = IF f.more THEN Append(@, f) ELSE <<>>]
  /\ full' \in Filled(s, f)

Delimit ==
  /\ stage = "delimit" /\ stage' = "read"
  /\ \/ ~Waits(Output) /\ Push(Output, Delimiter)
     \/ Waits(Output) /\ UNCHANGED <<building, full>>     \* interrupted
  /\ UNCHANGED <<set_up, input, held, inbox, arrived, sent, lost, app_vars>>

ReadFrame ==
  /\ stage = "read" /\ inbox[input] # <<>>
  /\ held' = <<Head(inbox[input])>>
  /\ inbox' = [inbox EXCEPT ![input] = Tail(@)]
  /\ stage' = IF capture THEN "copy" ELSE "send"
  /\ UNCHANGED <<set_up, input, building, arrived, sent, lost, full, app_vars>>

ReadNothing ==
  /\ stage = "read" /\ inbox[input] = <<>> /\ stage' = "poll"
  /\ UNCHANGED <<set_up, input, stream, app_vars>>

\* Mutation: the frame itself goes to the capture socket.
CaptureTakes ==
  /\ stage = "copy" /\ stage' = "read" /\ ~Waits("capture")
  /\ full' \in Filled("capture", held[1]) /\ held' = <<>>
  /\ UNCHANGED <<set_up, input, inbox, building, arrived, sent, lost, app_vars>>

(* The copy goes to the capture socket, and is dropped when that fails.     *)
Copy ==
  /\ stage = "copy" /\ stage' = "send"
  /\ \/ ~Waits("capture")
        /\ full' \in Filled("capture", held[1])
     \/ Waits("capture") /\ UNCHANGED full                        \* interrupted
  /\ UNCHANGED <<set_up, input, held, inbox, building, arrived, sent, lost, app_vars>>

SendFrame ==
  /\ stage = "send" /\ ~Fails(Output)
  /\ Push(Output, held[1]) /\ held' = <<>> /\ stage' = "read"
  /\ sent' = [sent EXCEPT ![input] = held[1]] /\ lost' = [lost EXCEPT ![input] = 0]
  /\ UNCHANGED <<set_up, input, inbox, arrived, app_vars>>

SendFails ==
  /\ stage = "send" /\ Fails(Output)
  /\ Waits(Output) => lost = [s \in Side |-> 0]      \* bound: one at a time
  /\ lost' = [lost EXCEPT ![input] = (@ + 1) % (2 * Numbers)]
  /\ held' = <<>> /\ stage' = "poll"
  /\ UNCHANGED <<set_up, input, inbox, building, arrived, sent, full, app_vars>>

Interrupted == PipeInterrupted \/ PollInterrupted

(* What the handler does when it is scheduled and not interrupted.          *)
Handler ==
  \/ HandlePipe \/ PollReturns \/ ReadFrame \/ ReadNothing \/ SendFrame
  \/ Delimit /\ ~Waits(Output)
  \/ Copy /\ ~Waits("capture")
  \/ SendFails /\ ~Waits(Output)

-----------------------------------------------------------------------------
(* The application and the peers.                                           *)

Command ==
  /\ pending < MaxPending
  /\ pipe' = pipe + 1 /\ pending' = pending + 1 /\ paused' = FALSE
  /\ UNCHANGED <<set_up, stage, input, stream, acks>>

ReadAck ==
  /\ acks # <<>>
  /\ acks' = Tail(acks) /\ pending' = pending - 1
  /\ paused' = (pending = 1 /\ Head(acks) = "PAUSE")
  /\ UNCHANGED <<set_up, stage, input, stream, pipe>>

Arrive(s) ==
  /\ type[s] # NULL /\ Len(inbox[s]) <= 2 * (MaxWaiting - 1)
  /\ inbox' = [inbox EXCEPT ![s] = @ \o Parts(arrived[s])]
  /\ arrived' = [arrived EXCEPT ![s] = (@ + 1) % Numbers]
  /\ UNCHANGED <<set_up, stage, input, held, building, sent, lost, full, app_vars>>

PeersRead(s) ==
  /\ s \in full /\ full' = full \ {s}
  /\ UNCHANGED <<set_up, stage, input, held, inbox, building, arrived, sent, lost, app_vars>>

Running == stage \notin {"ended", "aborted"}

Next ==
  /\ Running
  /\ \/ Handler \/ Interrupted \/ Delimit \/ Copy \/ SendFails
     \/ Command \/ ReadAck
     \/ \E s \in Side : Arrive(s)
     \/ \E s \in Side \cup {"capture"} : PeersRead(s)

Fairness == WF_vars(Running /\ Handler)

Spec == Init /\ [][Next]_vars /\ Fairness

-----------------------------------------------------------------------------
Position(f) == 2 * f.number + f.part

Follows(g, f, skipped) == Position(g) % (2 * Numbers) = (Position(f) + 1 + skipped) % (2 * Numbers)

(* The frames of a side that are still to come: the one in hand, those that *)
(* wait, and the one that arrives next.                                      *)
Coming(s) ==
  (IF input = s THEN held ELSE <<>>) \o inbox[s] \o <<Parts(arrived[s])[1]>>

(* s_switch relays the frames of a side in order and each once, and leaves  *)
(* out only those whose send failed; so a message begins in the middle only  *)
(* when its first frame was lost. The delimiter the forwarder adds is in      *)
(* front of a message and there is one at most.                              *)
RelayedInOrder ==
  \A s \in Side :
    LET p == Coming(s)
    IN /\ Follows(p[1], sent[s], lost[s])
       /\ \A i \in 1 .. Len(p) - 1 : Follows(p[i + 1], p[i], 0)
       /\ input = s /\ held # <<>> /\ held[1].part = 2 /\ lost[s] = 0 =>
            building[Output] # <<>> /\ Last(building[Output]) = Parts(held[1].number)[1]
       /\ \A i \in DOMAIN building[s] : i > 1 => building[s][i] # Delimiter

(* Once PAUSE is acknowledged nothing is read or relayed before the         *)
(* application sends another command, whatever was under way.               *)
PausedSilent == [][paused => UNCHANGED <<held, building, sent>>]_vars

(* A command is taken up if every call of s_switch comes to an end (it goes *)
(* on as long as frames come in and peers take them): the pipe is the first  *)
(* socket in the list, whatever commands changed it, so that no message that  *)
(* waits keeps it from being the one that wait() returns.                    *)
CommandsTaken ==
  []<>(stage \in {"poll", "ended", "aborted"})
  => (pipe > 0 ~> stage \in {"pipe", "ended", "aborted"})
=============================================================================
