------------------------------ MODULE Contexts ------------------------------
(* A context (QMNet, or a plain Context) and the sockets made through it:   *)
(* its list, its count of open sockets, its mutex, the zmq contexts and      *)
(* handles below it, and its end. "main" is the thread the context lives on.  *)
(* What is done under the mutex is one step; what the code does before it     *)
(* takes the mutex is a step of its own.                                     *)
EXTENDS Functions, Sequences, FiniteSets, Lists

CONSTANTS
  Threads, Objects,
  Limits,        \* what the environment may say for s_max_sockets
  MaxStray,      \* bound: open handles that no socket has any more
  MaxListed,     \* bound: entries of the list
  MaxContexts,   \* bound: zmq contexts made before a call of setIoThreads()
  MaxSlips       \* bound: different slips in one behaviour

ContextConstants == "main" \in Threads /\ IsFiniteSet(Objects) /\ "none" \notin Objects

VARIABLES
  kind,          \* "QMNet" or "Context"
  s_max_sockets, \* a zmq context has no more handles
  made,          \* number of zmq contexts made; the last is d->context
  initialized,   \* s_initialized
  sockets,       \* the list
  open,          \* s_open_sockets
  object,        \* the socket at an address
  stray,         \* open handles that no socket has any more
  call,          \* what a thread is doing
  exit,          \* how the application stands: see Exits
  slips          \* what has happened that the code does not allow for

vars == <<kind, s_max_sockets, made, initialized, sockets, open, object, stray, call, exit, slips>>

Idle == [at |-> "idle", op |-> "none", of |-> "none"]

(* handle: 0 for none, -1 when zmq_socket() failed, else its zmq context.   *)
Nothing == [life |-> "none", home |-> "main", parent |-> FALSE, owner |-> FALSE, handle |-> 0]

Exits == {"running", "ended",
          "aborted",      \* qFatal
          "locked",       \* main waits for the mutex it holds
          "waits",        \* zmq_term() waits for a handle that nobody closes
          "undefined"}    \* a deleted socket is used, or one in use is deleted

TypeOK ==
  /\ kind \in {"QMNet", "Context"} /\ s_max_sockets \in Limits /\ made \in Nat
  /\ initialized \in BOOLEAN /\ sockets \in Seq(Objects) /\ open \in Int
  /\ object \in [Objects -> [life : {"none", "live", "deleted"}, home : Threads,
                             parent : BOOLEAN, owner : BOOLEAN, handle : {-1} \cup 0 .. made]]
  /\ stray \in Nat /\ exit \in Exits
  /\ call \in [Threads ->
       [at : {"idle", "init", "make", "enter", "list", "close", "remove",
              "busy", "destroy", "base", "term"},
        op : {"none", "create", "base", "append", "close", "delete", "threads", "shutdown", "exit"},
        of : Objects \cup {"none"}]]
  /\ slips \subseteq {"other thread", "again", "limit", "base", "two contexts", "shutdown"}

Init ==
  /\ kind \in {"QMNet", "Context"} /\ s_max_sockets \in Limits
  /\ made = 0 /\ initialized = FALSE /\ sockets = <<>> /\ open = 0
  /\ object = [o \in Objects |-> Nothing] /\ stray = 0
  /\ call = [t \in Threads |-> Idle]
  /\ exit = "running" /\ slips = {}

Goes(t, at) == call' = [call EXCEPT ![t].at = at]
Returns(t)  == call' = [call EXCEPT ![t] = Idle]
Slips(new) == slips' = slips \cup new /\ Cardinality(slips') <= MaxSlips

Live(o)    == object[o].life = "live"
HasOpen(o) == object[o].handle > 0
SocketsWithout(o) == Without(sockets, {o})
Listed(o)  == o \in Range(sockets)

-----------------------------------------------------------------------------
(* Calls. The application creates sockets on any thread, through the         *)
(* context's class or, with "base", through a Context* (createSocket is not   *)
(* virtual); it appends, closes and deletes sockets on their own thread. It   *)
(* ends the context when no other thread is in a call.                       *)

Start(t, op, o) ==
  /\ call[t] = Idle /\ call["main"].op # "exit"
  /\ op \in {"append", "delete"} /\ HasOpen(o) => stray < MaxStray        \* bound
  /\ call' = [call EXCEPT ![t] =
       [at |-> IF op \in {"close", "delete"} THEN "close" ELSE "init", op |-> op, of |-> o]]
  /\ CASE op \in {"create", "base"} -> Len(sockets) < MaxListed /\ ~Live(o) /\ (\A u \in Threads : call[u].of # o)
       [] op = "append" -> Live(o) /\ object[o].home = t
       [] op = "close"  -> Live(o) /\ object[o].home = t /\ object[o].owner
       [] op = "delete" -> Live(o) /\ object[o].home = t
  /\ UNCHANGED <<kind, s_max_sockets, made, initialized, sockets, open, object, stray, exit, slips>>

StartSetIoThreads ==
  /\ kind = "QMNet" /\ call["main"] = Idle /\ made < MaxContexts
  /\ call' = [call EXCEPT !["main"] = [at |-> "init", op |-> "threads", of |-> "none"]]
  /\ UNCHANGED <<kind, s_max_sockets, made, initialized, sockets, open, object, stray, exit, slips>>

AsContext(t) == kind = "Context" \/ call[t].op = "base"

(* init() and its counterpart in Context: the test comes before any lock.   *)
TestInitialized(t) ==
  /\ call[t].at = "init"
  /\ Goes(t, IF (IF AsContext(t) THEN made > 0 ELSE initialized) THEN "enter" ELSE "make")
  /\ UNCHANGED <<kind, s_max_sockets, made, initialized, sockets, open, object, stray, exit, slips>>

Initialize(t) ==
  /\ call[t].at = "make" /\ Goes(t, "enter")
  /\ made' = made + 1 /\ Slips(IF made > 0 THEN {"two contexts"} ELSE {})
  /\ initialized' = (initialized \/ ~AsContext(t))
  /\ UNCHANGED <<kind, s_max_sockets, sockets, open, object, stray, exit>>

-----------------------------------------------------------------------------
(* Creation and registration.                                               *)

Handles == Cardinality({o \in Objects : HasOpen(o)}) + stray

Fresh(t) == [Nothing EXCEPT !.life = "live", !.home = t]

Before(t) == IF call[t].op = "append" THEN object[call[t].of] ELSE Fresh(t)

(* The parent is set on the context's own thread only; a handle the socket  *)
(* had is overwritten.                                                       *)
Reset(t) ==
  LET o == call[t].of
      b == Before(t)
      again == b.owner /\ b.handle > 0
      limit == Handles >= s_max_sockets
  IN /\ object' = [object EXCEPT ![o] =
          [b EXCEPT !.parent = b.parent \/ t = "main", !.owner = TRUE,
                    !.handle = IF limit THEN -1 ELSE made]]
     /\ stray' = stray + (IF again THEN 1 ELSE 0)
     /\ Slips(UNION {IF again THEN {"again"} ELSE {},
                     IF limit THEN {"limit"} ELSE {},
                     IF t # "main" THEN {"other thread"} ELSE {},
                     IF call[t].op = "base" /\ kind = "QMNet" THEN {"base"} ELSE {}})

(* QMNet's createSocket() and append() do all under the mutex.              *)
CreateSocket(t) ==
  /\ call[t].at = "enter" /\ call[t].op = "create" /\ ~AsContext(t)
  /\ Reset(t) /\ Returns(t)
  /\ sockets' = Append(sockets, call[t].of) /\ open' = open + 1
  /\ UNCHANGED <<kind, s_max_sockets, made, initialized, exit>>

\* Mutation: the entry that is replaced is counted on.
AppendSocketCounted(t) ==
  /\ call[t].at = "enter" /\ call[t].op = "append" /\ ~AsContext(t)
  /\ Reset(t) /\ Returns(t)
  /\ sockets' = Append(SocketsWithout(call[t].of), call[t].of) /\ open' = open + 1
  /\ UNCHANGED <<kind, s_max_sockets, made, initialized, exit>>

AppendSocket(t) ==
  /\ call[t].at = "enter" /\ call[t].op = "append" /\ ~AsContext(t)
  /\ Reset(t) /\ Returns(t)
  /\ sockets' = Append(SocketsWithout(call[t].of), call[t].of)
  /\ open' = open - (Len(sockets) - Len(SocketsWithout(call[t].of))) + 1
  /\ UNCHANGED <<kind, s_max_sockets, made, initialized, exit>>

(* Context's do the reset before they take the mutex.                       *)
ContextReset(t) ==
  /\ call[t].at = "enter" /\ AsContext(t)
  /\ Reset(t) /\ Goes(t, "list")
  /\ UNCHANGED <<kind, s_max_sockets, made, initialized, sockets, open, exit>>

ContextList(t) ==
  /\ call[t].at = "list" /\ Returns(t)
  /\ sockets' = Append(IF call[t].op = "append" THEN SocketsWithout(call[t].of) ELSE sockets, call[t].of)
  /\ UNCHANGED <<kind, s_max_sockets, made, initialized, open, object, stray, exit, slips>>

-----------------------------------------------------------------------------
(* closeSocket() and the destructor of a socket.                            *)

\* Mutation: close() does not let the context go.
ClosedNotLetGo(s) == IF s.handle > 0 THEN [s EXCEPT !.handle = 0] ELSE s

(* close() lets the context go when zmq_close() does its work.               *)
Closed(s) == IF s.handle > 0 THEN [s EXCEPT !.handle = 0, !.owner = FALSE] ELSE s

(* The call returns with its socket as s; a destructor then frees it.       *)
Leaves(t, s) ==
  /\ Returns(t)
  /\ IF call[t].op = "delete"
     THEN /\ object' = [object EXCEPT ![call[t].of] = [s EXCEPT !.life = "deleted", !.handle = 0]]
          /\ stray' = stray + (IF s.handle > 0 THEN 1 ELSE 0)
     ELSE object' = [object EXCEPT ![call[t].of] = s] /\ UNCHANGED stray

CloseSocket(t) ==
  LET s == object[call[t].of]
  IN /\ call[t].at = "close"
     /\ CASE ~s.owner -> Leaves(t, s)
          [] s.owner /\ kind = "QMNet" ->
               IF s.parent THEN Goes(t, "remove") /\ UNCHANGED <<object, stray>>
               ELSE Leaves(t, s)
          [] s.owner /\ kind = "Context" ->
               /\ object' = [object EXCEPT ![call[t].of] = Closed(s)]
               /\ Goes(t, "remove") /\ UNCHANGED stray
     /\ UNCHANGED <<kind, s_max_sockets, made, initialized, sockets, open, exit, slips>>

RemoveSocket(t) ==
  LET o == call[t].of
      count == Len(sockets) - Len(SocketsWithout(o))
  IN /\ call[t].at = "remove"
     /\ sockets' = SocketsWithout(o)
     /\ open' = IF kind = "QMNet" THEN open - count ELSE open
     /\ Leaves(t, IF kind = "QMNet" /\ count > 0 THEN Closed(object[o]) ELSE object[o])
     /\ UNCHANGED <<kind, s_max_sockets, made, initialized, exit, slips>>

-----------------------------------------------------------------------------
(* setIoThreads() makes a new zmq context, when no socket is open.          *)
SetIoThreads ==
  /\ call["main"].at = "enter" /\ call["main"].op = "threads"
  /\ CASE open > 0 -> exit' = "aborted" /\ UNCHANGED <<made, call>>
       [] open <= 0 /\ Handles > 0 -> exit' = "waits" /\ UNCHANGED <<made, call>>
       [] OTHER -> made' = made + 1 /\ Returns("main") /\ UNCHANGED exit
  /\ UNCHANGED <<kind, s_max_sockets, initialized, sockets, open, object, stray, slips>>

(* shutdown() of a QMNet, which is part of its end too, and the end.         *)
StartShutdown(op) ==
  /\ call["main"] = Idle
  /\ op = "shutdown" => kind = "QMNet" /\ initialized /\ "shutdown" \notin slips  \* bound
  /\ op = "exit" => \A t \in Threads : call[t] = Idle
  /\ call' = [call EXCEPT !["main"] =
       [at |-> IF kind = "QMNet" /\ initialized THEN "busy" ELSE "base", op |-> op, of |-> "none"]]
  /\ UNCHANGED <<kind, s_max_sockets, made, initialized, sockets, open, object, stray, exit, slips>>

(* The mutex is free while it sleeps to let the application close sockets.   *)
ReadBusy ==
  /\ call["main"].at = "busy" /\ Goes("main", "destroy")
  /\ UNCHANGED <<kind, s_max_sockets, made, initialized, sockets, open, object, stray, exit, slips>>

(* Whether the list holds a socket that is deleted, or twice the same, or    *)
(* one that another thread has.                                              *)
Unsafe ==
  \/ \E o \in Range(sockets) : ~Live(o) \/ object[o].home # "main"
  \/ ~IsInjective(sockets)

(* A socket that zmq_close() refuses still has its context, and asks it in   *)
(* its destructor to be closed: the mutex is taken twice.                    *)
Sticks(base) == \E o \in Range(sockets) : object[o].owner /\ ~HasOpen(o) /\ (base \/ object[o].parent)

DestroySockets(base) ==
  CASE Unsafe -> exit' = "undefined" /\ UNCHANGED <<sockets, object>>
    [] ~Unsafe /\ Sticks(base) -> exit' = "locked" /\ UNCHANGED <<sockets, object>>
    [] OTHER ->
         /\ object' = [o \in Objects |-> IF Listed(o) THEN [Closed(object[o]) EXCEPT !.life = "deleted"]
                                         ELSE object[o]]
         /\ sockets' = <<>> /\ UNCHANGED exit

Shutdown ==
  /\ call["main"].at = "destroy"
  /\ DestroySockets(FALSE) /\ Slips({"shutdown"})
  /\ IF call["main"].op = "shutdown" THEN Returns("main") ELSE Goes("main", "base")
  /\ UNCHANGED <<kind, s_max_sockets, made, initialized, open, stray>>

DestroyContext ==
  /\ call["main"].at = "base"
  /\ DestroySockets(TRUE) /\ Goes("main", "term")
  /\ UNCHANGED <<kind, s_max_sockets, made, initialized, open, stray, slips>>

(* zmq_term() waits until every handle is closed.                           *)
TermContext ==
  /\ call["main"].at = "term"
  /\ exit' = IF Handles > 0 THEN "waits" ELSE "ended"
  /\ UNCHANGED <<kind, s_max_sockets, made, initialized, sockets, open, object, stray, call, slips>>

Next ==
  /\ exit = "running"
  /\ \/ \E t \in Threads :
          \/ \E op \in {"create", "append", "close", "delete"}, o \in Objects : Start(t, op, o)
          \/ /\ kind = "QMNet" /\ "base" \notin slips                     \* bound
             /\ \E o \in Objects : Start(t, "base", o)
          \/ TestInitialized(t) \/ Initialize(t)
          \/ CreateSocket(t) \/ AppendSocket(t) \/ ContextReset(t) \/ ContextList(t)
          \/ CloseSocket(t) \/ RemoveSocket(t)
     \/ StartSetIoThreads \/ SetIoThreads
     \/ \E op \in {"shutdown", "exit"} : StartShutdown(op)
     \/ ReadBusy \/ Shutdown \/ DestroyContext \/ TermContext

Spec == Init /\ [][Next]_vars

-----------------------------------------------------------------------------
InTransit(o) == \E t \in Threads : call[t].of = o

(* The list and the count tell the truth about the sockets whenever a thread *)
(* can look at them, up to what the code does not allow for: a socket of      *)
(* another thread is deleted and stays in the list (and comes twice when its  *)
(* address is used again), one made through a Context* is not counted, and    *)
(* with a second zmq context the ends of a pipe may not find each other.      *)
TableTrue ==
  exit = "running" =>
    /\ \A o \in Range(sockets) : Live(o) \/ object[o].home # "main"
    /\ \A o \in Objects : Live(o) /\ HasOpen(o) /\ ~InTransit(o) => Listed(o)
    /\ "other thread" \notin slips => IsInjective(sockets)
    /\ kind = "QMNet" /\ slips \cap {"base", "shutdown"} = {} => open = Len(sockets)
    /\ "two contexts" \notin slips => \A o \in Objects : HasOpen(o) => object[o].handle = made

(* A context comes to its end with every handle closed, and when it does not *)
(* there is a reason for it: a socket the zmq context had no room for locks   *)
(* main out, one of another thread or one that was appended again leaves its  *)
(* handle open, and one in the list that is gone is used. Sockets that live  *)
(* on no longer refer to the context.                                        *)
CleanExit ==
  /\ exit = "locked" => "limit" \in slips
  /\ exit = "undefined" => "other thread" \in slips
  /\ exit = "aborted" /\ sockets = <<>> => "shutdown" \in slips
  /\ exit = "waits" => slips \cap {"other thread", "again", "base"} # {}
  /\ exit = "ended" /\ (\E o \in Objects : Live(o) /\ object[o].owner) =>
       "limit" \in slips
=============================================================================
