------------------------------ MODULE SockEvent ------------------------------
(***************************************************************************)
(* The reactor of qmq/sevent.cpp: SockEventPrivate::run() polls the readers*)
(* and pollers registered with it and calls their handlers, while          *)
(* application threads, and the handlers themselves, register and remove   *)
(* sockets, and any thread aborts it.                                      *)
(*                                                                         *)
(* The registration lists are guarded by nothing: m_rebuild protects the   *)
(* flag need_rebuild and the reactor's rebuild(), but every list operation *)
(* of another thread happens outside it.  An operation of a thread is      *)
(* therefore cut at the points where another thread can be seen: the copy  *)
(* foreach takes, each list write, each locked assignment of the flag; and *)
(* so is rebuild(): the two lengths, the copy of each list, the flag.      *)
(*                                                                         *)
(* The lists are sets of entries: their order only decides which of two    *)
(* ready readers is called first, and the model leaves that open.  One     *)
(* socket may have several entries, as appendReader does not look for one. *)
(* The timer and ticket handlers of a pass stand here as one call: nothing *)
(* is checked between them; SockEventTimers models them one by one.        *)
(***************************************************************************)
EXTENDS Integers

CONSTANTS
  App,          \* the application threads
  Reactor,      \* the thread that executes run()
  Reader,       \* the QReaderSocket objects
  Poller,       \* the QPollerT objects
  Socket,       \* the sockets
  Sock,         \* the socket of an entry: [Reader \cup Poller -> Socket]
  OutOfMemory   \* may an allocation of rebuild() fail?

ASSUME ThreadAssumption == Reactor \notin App
ASSUME EntryAssumption == /\ Reader \cap Poller = {}
                          /\ Sock \in [Reader \cup Poller -> Socket]
ASSUME MemoryAssumption == OutOfMemory \in BOOLEAN

Entry  == Reader \cup Poller
Thread == App \cup {Reactor}

VARIABLES
  readers_list,  \* the registered readers
  pollers_list,  \* the registered pollers
  need_rebuild,  \* a change of the lists is not in the poll set yet
  m_rebuild,     \* TRUE while the reactor holds the mutex over several steps
  counted,       \* the entries poll_size was computed from, during rebuild()
  readacts,      \* the readers of the poll set
  pollacts,      \* the pollers of the poll set
  blank,         \* does the poll set end in items nobody filled in?
  revents,       \* entries reported ready and not handled in this pass yet
  terminated,    \* the flag run() tests
  rpc,           \* where run() stands
  rc,            \* 0, or -1 once a handler asked to finish the thread
  pc,            \* where the registration call of each thread stands
  todo           \* the entries that call has still to enter or to remove

lists   == <<readers_list, pollers_list>>
acts    == <<readacts, pollacts, blank>>
calls   == <<pc, todo>>
vars    == <<lists, need_rebuild, m_rebuild, counted, acts, revents, terminated,
             rpc, rc, calls>>

ReactorPC == {"new", "top", "locked", "copy", "copy_pollers", "clear", "poll",
              "timers", "timer_call", "dispatch", "socket_call", "blank_call",
              "bottom", "done", "crashed"}
CallPC    == {"idle", "enlist", "flag", "mark", "unread", "unpoll"}

TypeOK ==
  /\ readers_list \in SUBSET Reader
  /\ pollers_list \in SUBSET Poller
  /\ need_rebuild \in BOOLEAN
  /\ m_rebuild \in BOOLEAN
  /\ counted \in SUBSET Entry
  /\ readacts \in SUBSET Reader
  /\ pollacts \in SUBSET Poller
  /\ blank \in BOOLEAN
  /\ revents \in SUBSET (readacts \cup pollacts)
  /\ terminated \in BOOLEAN
  /\ rpc \in ReactorPC
  /\ rc \in {0, -1}
  /\ pc \in [Thread -> CallPC]
  /\ todo \in [Thread -> SUBSET Entry]

Init ==
  /\ readers_list = {} /\ pollers_list = {}
  /\ need_rebuild = TRUE
  /\ m_rebuild = FALSE
  /\ counted = {}
  /\ readacts = {} /\ pollacts = {} /\ blank = FALSE /\ revents = {}
  /\ terminated = FALSE
  /\ rpc = "new" /\ rc = 0
  /\ pc = [t \in Thread |-> "idle"]
  /\ todo = [t \in Thread |-> {}]

-----------------------------------------------------------------------------
(***************************************************************************)
(* Registration calls: appendReader, appendPoller, removeReader and        *)
(* removePoller, from an application thread or from a handler.             *)
(***************************************************************************)

\* A handler runs on the reactor's thread and may call back into it.
InHandler == rpc \in {"timer_call", "socket_call", "blank_call"}
MayCall(t) == pc[t] = "idle" /\ (t \in App \/ InHandler)

\* A socket belongs to one thread at a time, so no two threads remove the
\* entries of one socket at the same time.
Unclaimed(t, S) == \A u \in Thread \ {t} : todo[u] \cap S = {}

\* QList is not thread safe.  When two threads write one list at the same
\* time, the write of one may be lost: an entry appended is then in no list,
\* an entry removed still in it, and nobody is told.
Writing(t) == pc[t] \in {"enlist", "unread", "unpoll"}
Racing(t)  == \E u \in Thread \ {t} :
                /\ Writing(u)
                /\ todo[u] \subseteq Reader <=> todo[t] \subseteq Reader

WriteReaders(t, new) == /\ \/ readers_list' = new
                           \/ Racing(t) /\ UNCHANGED readers_list
                        /\ UNCHANGED pollers_list
WritePollers(t, new) == /\ \/ pollers_list' = new
                           \/ Racing(t) /\ UNCHANGED pollers_list
                        /\ UNCHANGED readers_list

At(t, label) == pc' = [pc EXCEPT ![t] = label]
Todo(t, S)   == todo' = [todo EXCEPT ![t] = S]

\* appendReader, appendPoll: allocate an entry that nothing refers to ...
Append(t, e) ==
  /\ MayCall(t)
  /\ e \notin readers_list \cup pollers_list
  /\ \A u \in Thread : e \notin todo[u]
  /\ At(t, "enlist") /\ Todo(t, {e})
  /\ UNCHANGED <<lists, need_rebuild, m_rebuild, counted, acts, revents,
                 terminated, rpc, rc>>

\* Mutation: the new entry is not followed by the flag.
EnlistOnly(t) ==
  /\ pc[t] = "enlist"
  /\ IF todo[t] \subseteq Reader
       THEN WriteReaders(t, readers_list \cup todo[t])
       ELSE WritePollers(t, pollers_list \cup todo[t])
  /\ At(t, "idle") /\ Todo(t, {})
  /\ UNCHANGED <<need_rebuild, m_rebuild, counted, acts, revents, terminated,
                 rpc, rc>>

\* ... append it to its list ...
Enlist(t) ==
  /\ pc[t] = "enlist"
  /\ IF todo[t] \subseteq Reader
       THEN WriteReaders(t, readers_list \cup todo[t])
       ELSE WritePollers(t, pollers_list \cup todo[t])
  /\ At(t, "flag") /\ Todo(t, {})
  /\ UNCHANGED <<need_rebuild, m_rebuild, counted, acts, revents, terminated,
                 rpc, rc>>

\* Mutation: the flag is set without the mutex.
FlagUnlocked(t) ==
  /\ pc[t] = "flag"
  /\ need_rebuild' = TRUE
  /\ At(t, IF todo[t] = {} THEN "idle" ELSE "unpoll")
  /\ UNCHANGED <<lists, m_rebuild, counted, acts, revents, terminated, rpc, rc,
                 todo>>

\* ... and set the flag under the mutex.  pollend sets it the same way after
\* each entry it removed, and goes on with the next match.
Flag(t) ==
  /\ pc[t] = "flag"
  /\ ~m_rebuild
  /\ need_rebuild' = TRUE
  /\ At(t, IF todo[t] = {} THEN "idle" ELSE "unpoll")
  /\ UNCHANGED <<lists, m_rebuild, counted, acts, revents, terminated, rpc, rc,
                 todo>>

\* readerEnd: foreach copies the list and visits the entries of the socket.
ReaderEnd(t, s) ==
  LET match == {r \in readers_list : Sock[r] = s} IN
  /\ MayCall(t)
  /\ match # {} /\ Unclaimed(t, match)
  /\ At(t, "mark") /\ Todo(t, match)
  /\ UNCHANGED <<lists, need_rebuild, m_rebuild, counted, acts, revents,
                 terminated, rpc, rc>>

\* For each of them readerEnd sets the flag under the mutex first ...
Mark(t) ==
  /\ pc[t] = "mark"
  /\ ~m_rebuild
  /\ need_rebuild' = TRUE
  /\ At(t, "unread")
  /\ UNCHANGED <<lists, m_rebuild, counted, acts, revents, terminated, rpc, rc,
                 todo>>

\* ... and removes and deletes the entry afterwards, without the mutex.
Unread(t) ==
  /\ pc[t] = "unread"
  /\ \E r \in todo[t] :
       /\ WriteReaders(t, readers_list \ {r})
       /\ Todo(t, todo[t] \ {r})
       /\ At(t, IF todo[t] = {r} THEN "idle" ELSE "mark")
  /\ UNCHANGED <<need_rebuild, m_rebuild, counted, acts, revents, terminated,
                 rpc, rc>>

\* pollend: foreach copies the list and visits the entries of the socket.
PollEnd(t, s) ==
  LET match == {p \in pollers_list : Sock[p] = s} IN
  /\ MayCall(t)
  /\ match # {} /\ Unclaimed(t, match)
  /\ At(t, "unpoll") /\ Todo(t, match)
  /\ UNCHANGED <<lists, need_rebuild, m_rebuild, counted, acts, revents,
                 terminated, rpc, rc>>

\* Mutation: pollend never sets the flag.
UnpollOnly(t) ==
  /\ pc[t] = "unpoll"
  /\ \E p \in todo[t] :
       /\ WritePollers(t, pollers_list \ {p})
       /\ Todo(t, todo[t] \ {p})
       /\ At(t, IF todo[t] = {p} THEN "idle" ELSE "unpoll")
  /\ UNCHANGED <<need_rebuild, m_rebuild, counted, acts, revents, terminated,
                 rpc, rc>>

\* Each of them is removed first (and never deleted); Flag follows.
Unpoll(t) ==
  /\ pc[t] = "unpoll"
  /\ \E p \in todo[t] :
       /\ WritePollers(t, pollers_list \ {p})
       /\ Todo(t, todo[t] \ {p})
  /\ At(t, "flag")
  /\ UNCHANGED <<need_rebuild, m_rebuild, counted, acts, revents, terminated,
                 rpc, rc>>

\* abort(), called by an application thread or by a handler.
Abort ==
  /\ terminated' = TRUE
  /\ UNCHANGED <<lists, need_rebuild, m_rebuild, counted, acts, revents, rpc,
                 rc, calls>>

-----------------------------------------------------------------------------
(***************************************************************************)
(* run(), on the reactor's thread.                                         *)
(***************************************************************************)

\* start(): QThread::start() does nothing while the thread runs.
Start ==
  /\ rpc \in {"new", "done"}
  /\ rpc' = "top" /\ rc' = 0
  /\ UNCHANGED <<lists, need_rebuild, m_rebuild, counted, acts, revents,
                 terminated, calls>>

\* Leave the loop: run() ends with terminated = true.
Leave == rpc' = "done" /\ terminated' = TRUE

LoopExit ==
  /\ rpc = "top"
  /\ terminated
  /\ Leave
  /\ UNCHANGED <<lists, need_rebuild, m_rebuild, counted, acts, revents, rc,
                 calls>>

LockRebuild ==
  /\ rpc = "top"
  /\ ~terminated
  /\ ~m_rebuild /\ m_rebuild' = TRUE
  /\ rpc' = "locked"
  /\ UNCHANGED <<lists, need_rebuild, counted, acts, revents, terminated, rc,
                 calls>>

\* Mutation: the mutex is released by the rebuilding branch only.
SkipRebuildLocked ==
  /\ rpc = "locked"
  /\ ~need_rebuild
  /\ rpc' = "poll"
  /\ UNCHANGED <<lists, need_rebuild, m_rebuild, counted, acts, revents,
                 terminated, rc, calls>>

SkipRebuild ==
  /\ rpc = "locked"
  /\ ~need_rebuild
  /\ m_rebuild' = FALSE
  /\ rpc' = "poll"
  /\ UNCHANGED <<lists, need_rebuild, counted, acts, revents, terminated, rc,
                 calls>>

\* rebuild() computes poll_size from the two list lengths ...
CountEntries ==
  /\ rpc = "locked"
  /\ need_rebuild
  /\ counted' = readers_list \cup pollers_list
  /\ rpc' = "copy"
  /\ UNCHANGED <<lists, need_rebuild, m_rebuild, acts, revents, terminated, rc,
                 calls>>

\* ... then copies the readers ...  An entry appended since the count makes
\* the copies longer than poll_size: they are written past the arrays, and any
\* part of them may end up in the poll set.
CopyReaders ==
  /\ rpc = "copy"
  /\ readacts' \in SUBSET readers_list
  /\ readers_list \subseteq counted => readacts' = readers_list
  /\ pollacts' = {} /\ blank' = FALSE
  /\ rpc' = "copy_pollers"
  /\ UNCHANGED <<lists, need_rebuild, m_rebuild, counted, revents, terminated, rc,
                 calls>>

\* ... and the pollers.  An entry removed since the count leaves items at the
\* end of the poll set that were never filled in.
CopyPollers ==
  /\ rpc = "copy_pollers"
  /\ pollacts' \in SUBSET pollers_list
  /\ readacts \cup pollers_list \subseteq counted => pollacts' = pollers_list
  /\ blank' \in BOOLEAN
  /\ LET copied == readacts \cup pollacts'
     IN  copied \subseteq counted => blank' = (copied # counted)
  /\ counted' = {}
  /\ rpc' = "clear"
  /\ UNCHANGED <<lists, need_rebuild, m_rebuild, readacts, revents, terminated, rc,
                 calls>>

\* Only then the flag is cleared, and run() releases the mutex.
ClearFlag ==
  /\ rpc = "clear"
  /\ need_rebuild' = FALSE
  /\ m_rebuild' = FALSE
  /\ rpc' = "poll"
  /\ UNCHANGED <<lists, counted, acts, revents, terminated, rc, calls>>

\* rebuild() freed the old arrays and got no memory for the new ones: run()
\* breaks out of the loop without unlocking the mutex.
RebuildFails ==
  /\ rpc = "copy"
  /\ OutOfMemory
  /\ readacts' = {} /\ pollacts' = {} /\ blank' = FALSE
  /\ counted' = {}
  /\ Leave
  /\ UNCHANGED <<lists, need_rebuild, m_rebuild, revents, rc, calls>>

\* zmq_poll returns, at the latest when the timeout of tickless() is over.
PollReturns ==
  /\ rpc = "poll"
  /\ revents' \in SUBSET (readacts \cup pollacts)
  /\ rpc' = "timers" /\ rc' = 0
  /\ UNCHANGED <<lists, need_rebuild, m_rebuild, counted, acts, terminated,
                 calls>>

\* zmq_poll fails: the context was terminated, or a signal arrived.
PollFails ==
  /\ rpc = "poll"
  /\ rc' = 0
  /\ Leave
  /\ UNCHANGED <<lists, need_rebuild, m_rebuild, counted, acts, revents, calls>>

NoTimerDue ==
  /\ rpc = "timers"
  /\ rpc' = "dispatch"
  /\ UNCHANGED <<lists, need_rebuild, m_rebuild, counted, acts, revents,
                 terminated, rc, calls>>

CallTimers ==
  /\ rpc = "timers"
  /\ rpc' = "timer_call"
  /\ UNCHANGED <<lists, need_rebuild, m_rebuild, counted, acts, revents,
                 terminated, rc, calls>>

\* A handler may have set *rc to -1 to finish the thread.
TimersReturn ==
  /\ rpc = "timer_call"
  /\ pc[Reactor] = "idle"
  /\ rc' \in {0, -1}
  /\ rpc' = "dispatch"
  /\ UNCHANGED <<lists, need_rebuild, m_rebuild, counted, acts, revents,
                 terminated, calls>>

\* Call the handler of a ready entry; the readers come first in the poll set.
Dispatch(e) ==
  /\ rpc = "dispatch"
  /\ rc = 0
  /\ e \in revents
  /\ e \in Poller => revents \cap Reader = {}
  /\ revents' = revents \ {e}
  /\ rpc' = "socket_call"
  /\ UNCHANGED <<lists, need_rebuild, m_rebuild, counted, acts, terminated, rc,
                 calls>>

\* An item never filled in comes last.  run() takes it for a poller, compares
\* its socket with memory nobody initialised and fails the assertion, or
\* passes it, and calls handleEvent when descriptor 0 is reported in error.
BlankItem ==
  /\ rpc = "dispatch"
  /\ rc = 0 /\ revents = {} /\ blank
  /\ rpc' \in {"crashed", "blank_call"}
  /\ UNCHANGED <<lists, need_rebuild, m_rebuild, counted, acts, revents,
                 terminated, rc, calls>>

\* Mutation: the rest of the poll set is served whatever a handler changed.
SocketReturnsOn ==
  /\ rpc \in {"socket_call", "blank_call"}
  /\ pc[Reactor] = "idle"
  /\ rc' \in {0, -1}
  /\ rpc' = IF rc' = -1 \/ rpc = "blank_call" THEN "bottom" ELSE "dispatch"
  /\ UNCHANGED <<lists, need_rebuild, m_rebuild, counted, acts, revents,
                 terminated, calls>>

\* After the call, the rest of the poll set is skipped when the handler asked
\* to finish or when anyone changed the lists.
SocketReturns ==
  /\ rpc \in {"socket_call", "blank_call"}
  /\ pc[Reactor] = "idle"
  /\ rc' \in {0, -1}
  /\ rpc' = IF rc' = -1 \/ need_rebuild \/ rpc = "blank_call"
              THEN "bottom" ELSE "dispatch"
  /\ UNCHANGED <<lists, need_rebuild, m_rebuild, counted, acts, revents,
                 terminated, calls>>

NothingToDispatch ==
  /\ rpc = "dispatch"
  /\ rc = -1 \/ revents = {}
  /\ rpc' = "bottom"
  /\ UNCHANGED <<lists, need_rebuild, m_rebuild, counted, acts, revents,
                 terminated, rc, calls>>

\* Mutation: the events of this pass are kept for the next.
EndPassKeep ==
  /\ rpc = "bottom"
  /\ IF rc = -1 THEN Leave ELSE rpc' = "top" /\ UNCHANGED terminated
  /\ UNCHANGED <<lists, need_rebuild, m_rebuild, counted, acts, revents, rc,
                 calls>>

EndPass ==
  /\ rpc = "bottom"
  /\ revents' = {}
  /\ IF rc = -1 THEN Leave ELSE rpc' = "top" /\ UNCHANGED terminated
  /\ UNCHANGED <<lists, need_rebuild, m_rebuild, counted, acts, rc, calls>>

-----------------------------------------------------------------------------
RegistrationStep(t) ==
  \/ \E e \in Entry : Append(t, e)
  \/ \E s \in Socket : ReaderEnd(t, s) \/ PollEnd(t, s)
  \/ Enlist(t) \/ Flag(t) \/ Mark(t) \/ Unread(t) \/ Unpoll(t)

\* run() outside the calls of socket handlers.
Pass ==
  \/ LoopExit \/ LockRebuild \/ SkipRebuild \/ CountEntries \/ CopyReaders
  \/ CopyPollers \/ ClearFlag \/ RebuildFails \/ PollReturns \/ PollFails
  \/ NoTimerDue \/ CallTimers \/ TimersReturn \/ BlankItem \/ SocketReturns
  \/ NothingToDispatch \/ EndPass

Run == Pass \/ \E e \in Entry : Dispatch(e)

Next == Abort \/ Start \/ Run \/ \E t \in Thread : RegistrationStep(t)

Spec == Init /\ [][Next]_vars

\* zmq_poll has a timeout, handlers return, a call under way goes on, and a
\* thread waiting for m_rebuild gets it when the reactor keeps releasing it.
\* Nothing obliges a thread to start the reactor, to make a call or to abort.
Fairness ==
  /\ WF_vars(Run)
  /\ SF_vars(TimersReturn) /\ SF_vars(SocketReturns)
  /\ \A t \in Thread : /\ WF_vars(Enlist(t) \/ Unread(t) \/ Unpoll(t))
                       /\ SF_vars(Flag(t) \/ Mark(t))
FairSpec == Spec /\ Fairness

-----------------------------------------------------------------------------
(***************************************************************************)
(* Properties.                                                             *)
(***************************************************************************)

\* Some thread has changed a list and has not set need_rebuild yet.
ChangePending == \E t \in Thread : pc[t] = "flag"

\* A reader that removeReader has taken off the list is not polled any more
\* once nothing is outstanding (sevent.h offers removeReader as the counterpart
\* of appendReader, outside the functions it calls not thread safe).
RemovedReaderForgotten ==
  (~need_rebuild /\ \A t \in Thread : pc[t] = "idle") => readacts \subseteq readers_list

\* The poller list keeps the promise of PollRegistry, whatever the threads do.
Pollers == INSTANCE PollRegistry WITH
             Item <- Poller, wanted <- pollers_list, polled <- pollacts,
             dirty <- need_rebuild \/ ChangePending, stopped <- terminated
PollersRefineRegistry == Pollers!Spec

\* An aborted reactor that was started ends its thread (abort, run), unless the
\* program died of an item that rebuild() left unset.
AbortStops == terminated /\ rpc # "new" ~> rpc \in {"done", "crashed"}

\* If the lists stop changing, the reactor ends up polling the registered
\* pollers and at least the registered readers, unless it was told to stop.
Settles ==
  (<>[][FALSE]_<<lists, pc>>) =>
     <>[](\/ terminated \/ rpc \in {"new", "crashed"}
          \/ pollacts = pollers_list /\ readers_list \subseteq readacts)

\* A registration call always comes back: the reactor does not keep m_rebuild,
\* but for the one that found no memory and ended with it (rebuild, run).
CallsReturn ==
  \A a \in App : pc[a] # "idle" ~> pc[a] = "idle" \/ (rpc = "done" /\ m_rebuild)

\* The reactor and its callers come to an end: a thread that was told to stop
\* does, and no registration call is kept waiting by a thread that goes on.
ThreadsFinish == AbortStops /\ CallsReturn
=============================================================================
