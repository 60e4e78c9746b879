------------------------------ MODULE Endpoints ------------------------------
(* A socket that is bound and attached: the scan of a port range, which other *)
(* programs take ports from meanwhile, and the list of endpoints of attach().  *)
(* What zmq_bind() and zmq_connect() say of endpoints that are not tcp is free. *)
EXTENDS Integers, Sequences

CONSTANTS
  Ports,         \* a range of ports, as wide as any that is asked for
  Endpoints,     \* what may be asked for: see EndpointType
  MaxEndpoints   \* bound: endpoints in one list

(* "*" is the first free port of a range, "!" one found from a random port on. *)
EndpointType == [how : {"port", "*", "!", "other", "connect"}, first : Ports, last : Ports]

EndpointConstants ==
  Ports \subseteq Nat \ {0} /\ Endpoints \subseteq EndpointType /\ MaxEndpoints \in Nat

VARIABLES
  stage,     \* "idle", "next" in attach(), or "scan" in bind()
  holder,    \* who has a port
  asked,     \* the endpoints of the call
  done,      \* what its binds and connects returned so far
  port, attempts,  \* of the scan
  result,    \* what the last call returned
  endpoint,  \* d->endpoint: a port, 0 for an endpoint without, -1 before any
  steady     \* ports that were free all through the last scan

vars == <<stage, holder, asked, done, port, attempts, result, endpoint, steady>>

TypeOK ==
  /\ stage \in {"idle", "next", "scan"}
  /\ holder \in [Ports -> {"nobody", "socket", "others"}]
  /\ asked \in Seq(Endpoints) /\ done \in Seq(Ports \cup {0})
  /\ port \in Int /\ attempts \in Int
  /\ result \in {0, -1} /\ endpoint \in Ports \cup {0, -1} /\ steady \subseteq Ports

Init ==
  /\ stage = "idle" /\ holder = [p \in Ports |-> "nobody"]
  /\ asked = <<>> /\ done = <<>> /\ port = 0 /\ attempts = 0
  /\ result = 0 /\ endpoint = -1 /\ steady = {}

(* bind() is the call with one endpoint.                                    *)
Attach(endpoints) ==
  /\ stage = "idle" /\ stage' = "next"
  /\ asked' = endpoints /\ done' = <<>> /\ steady' = {}
  /\ UNCHANGED <<holder, port, attempts, result, endpoint>>

Current == asked[Len(done) + 1]

(* bind() and connect() return to attach().                                 *)
Fails == stage' = "idle" /\ result' = -1 /\ UNCHANGED <<done, endpoint>>

Succeeds(rc) ==
  /\ stage' = "next" /\ done' = Append(done, rc)
  /\ endpoint' = IF Current.how = "connect" THEN endpoint ELSE rc
  /\ UNCHANGED result

AttachReturns ==
  /\ stage = "next" /\ Len(done) = Len(asked)
  /\ stage' = "idle" /\ result' = 0
  /\ UNCHANGED <<holder, asked, done, port, attempts, endpoint, steady>>

Free(p) == p \in Ports /\ holder[p] = "nobody"

ZmqBind(p) ==
  IF Free(p) THEN holder' = [holder EXCEPT ![p] = "socket"] /\ Succeeds(p)
             ELSE Fails /\ UNCHANGED holder

BindPort ==
  /\ stage = "next" /\ Len(done) < Len(asked) /\ Current.how = "port"
  /\ ZmqBind(Current.first)
  /\ UNCHANGED <<asked, port, attempts, steady>>

(* Other transports, whose name may be in use, and connect().               *)
BindOther ==
  /\ stage = "next" /\ Len(done) < Len(asked) /\ Current.how \in {"other", "connect"}
  /\ Fails \/ Succeeds(0)
  /\ UNCHANGED <<holder, asked, port, attempts, steady>>

\* Mutation: the last port of a range is not counted.
AttemptsOneLess(e) == e.last - e.first

Attempts(e) == e.last - e.first + 1

(* randof() of a negative number is negative.                               *)
Leap(e) ==
  IF e.how = "*" THEN {0}
  ELSE {0} \cup (0 .. Attempts(e) - 1) \cup (Attempts(e) + 1 .. 0)

BeginScan ==
  /\ stage = "next" /\ Len(done) < Len(asked) /\ Current.how \in {"*", "!"}
  /\ stage' = "scan" /\ attempts' = Attempts(Current)
  /\ \E leap \in Leap(Current) : port' = Current.first + leap
  /\ steady' = {p \in Ports : Free(p)}
  /\ UNCHANGED <<holder, asked, done, result, endpoint>>

(* attempts-- is never zero when it was negative (bound: it stays).         *)
Try ==
  /\ stage = "scan" /\ attempts # 0
  /\ IF Free(port)
     THEN holder' = [holder EXCEPT ![port] = "socket"] /\ Succeeds(port)
     ELSE UNCHANGED <<stage, holder, done, result, endpoint>>
  /\ port' = IF port + 1 > Current.last THEN Current.first ELSE port + 1
  /\ attempts' = IF attempts < 0 THEN attempts ELSE attempts - 1
  /\ UNCHANGED <<asked, steady>>

GiveUp ==
  /\ stage = "scan" /\ attempts = 0
  /\ Fails /\ UNCHANGED <<holder, asked, port, attempts, steady>>

(* The application unbinds a port between its calls.                        *)
Unbind(p) ==
  /\ stage = "idle" /\ holder[p] = "socket"
  /\ holder' = [holder EXCEPT ![p] = "nobody"]
  /\ asked' = <<>> /\ done' = <<>> /\ result' = 0
  /\ UNCHANGED <<stage, port, attempts, endpoint, steady>>

OthersTake(p) ==
  /\ Free(p) /\ holder' = [holder EXCEPT ![p] = "others"] /\ steady' = steady \ {p}
  /\ UNCHANGED <<stage, asked, done, port, attempts, result, endpoint>>

OthersLeave(p) ==
  /\ holder[p] = "others" /\ holder' = [holder EXCEPT ![p] = "nobody"]
  /\ UNCHANGED <<stage, asked, done, port, attempts, result, endpoint, steady>>

Next ==
  \/ \E n \in 0 .. MaxEndpoints : \E endpoints \in [1 .. n -> Endpoints] : Attach(endpoints)
  \/ AttachReturns \/ BindPort \/ BindOther \/ BeginScan \/ Try \/ GiveUp
  \/ \E p \in Ports : Unbind(p) \/ OthersTake(p) \/ OthersLeave(p)

Spec == Init /\ [][Next]_vars

-----------------------------------------------------------------------------
InOrder(e) == e.first <= e.last

(* attach() says 0 when every endpoint is bound or connected, and each got a *)
(* port it asked for, which the socket has and no other of the call; a call   *)
(* that fails leaves those before the bad one bound. A scan fails only when   *)
(* each port of its range was taken at some time of the scan, from whatever    *)
(* port it started and whatever others take and leave meanwhile.              *)
AttachedAsAsked ==
  /\ stage = "idle" /\ result = 0 => Len(done) = Len(asked)
  /\ stage = "idle" /\ result = -1 => Len(done) < Len(asked)
  /\ \A i \in DOMAIN done :
       LET e == asked[i]
       IN /\ e.how = "port" => done[i] = e.first
          /\ e.how \in {"*", "!"} /\ InOrder(e) => done[i] \in e.first .. e.last
          /\ e.how \in {"port", "*", "!"} =>
               /\ holder[done[i]] = "socket"
               /\ \A j \in 1 .. i - 1 : done[j] # done[i]
  /\ \A i \in DOMAIN done :
       asked[i].how # "connect" /\ (\A j \in i + 1 .. Len(done) : asked[j].how = "connect")
         => endpoint = done[i]
  /\ stage = "idle" /\ result = -1 /\ Current.how \in {"*", "!"} /\ InOrder(Current) =>
       steady \cap (Current.first .. Current.last) = {}
=============================================================================
