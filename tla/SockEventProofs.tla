-------------------------- MODULE SockEventProofs --------------------------
(***************************************************************************)
(* Theorems about SockEvent, for any threads, entries and sockets: type    *)
(* correctness, the refinement of PollRegistry by the poller list and, over*)
(* the histories of SockEventHistory, that what is registered is polled and*)
(* what is removed is called at most once more.                            *)
(***************************************************************************)
EXTENDS SockEventHistory, TLAPS

-----------------------------------------------------------------------------
(***************************************************************************)
(* The inductive invariant.                                                *)
(***************************************************************************)

\* appendReader and appendPoll hold exactly the entry they allocated.
EnlistInv == \A t \in Thread :
               pc[t] = "enlist" => \E e \in Entry : todo[t] = {e}

\* rebuild() runs under the mutex and only when the flag is set.  What it has
\* counted and copied so far is the lists; entries that appeared since belong to
\* a call that waits for the mutex to set the flag again.
RebuildInv ==
  /\ rpc \in {"locked", "copy", "copy_pollers", "clear"} => m_rebuild
  /\ rpc \in {"copy", "copy_pollers", "clear"} => need_rebuild
  /\ ~ChangePending =>
       /\ rpc = "copy" => readers_list \cup pollers_list \subseteq counted
       /\ rpc = "copy_pollers" => /\ readers_list \subseteq readacts
                                  /\ readacts \cup pollers_list \subseteq counted
       /\ rpc = "clear" => readers_list \subseteq readacts /\ pollers_list = pollacts

\* When neither the flag nor a pending call asks for a rebuild, the poll set
\* holds everything listed, and of the pollers nothing else.
InSync == ~need_rebuild /\ ~ChangePending => /\ readers_list \subseteq readacts
                                             /\ pollers_list = pollacts

\* The events of a pass are gone before the poll set can change.
EventsInv == rpc \notin {"timers", "timer_call", "dispatch", "socket_call",
                       "blank_call", "bottom"} => revents = {}

IInv == TypeOK /\ EnlistInv /\ EventsInv /\ RebuildInv /\ InSync

-----------------------------------------------------------------------------
LEMMA InitIInv == Init => IInv
<1> SUFFICES ASSUME Init PROVE IInv
  OBVIOUS
<1> USE DEF Init
<1>1. TypeOK
  BY DEF TypeOK, ReactorPC, CallPC
<1>2. EnlistInv /\ EventsInv /\ RebuildInv /\ InSync
  BY DEF EnlistInv, EventsInv, RebuildInv, InSync
<1> QED BY <1>1, <1>2 DEF IInv

\* The steps of the registration calls preserve the types.
LEMMA CallTypes ==
  ASSUME TypeOK, EnlistInv, NEW t \in Thread, RegistrationStep(t)
  PROVE  TypeOK'
<1> USE DEF TypeOK, CallPC, lists, acts, At, Todo, WriteReaders, WritePollers
<1>1. ASSUME NEW e \in Entry, Append(t, e) PROVE TypeOK'
  BY <1>1 DEF Append
<1>2. ASSUME NEW s \in Socket, ReaderEnd(t, s) PROVE TypeOK'
  BY <1>2 DEF ReaderEnd, Entry
<1>3. ASSUME NEW s \in Socket, PollEnd(t, s) PROVE TypeOK'
  BY <1>3 DEF PollEnd, Entry
<1>4. CASE Enlist(t)
  <2>1. PICK e \in Entry : todo[t] = {e}
    BY <1>4 DEF Enlist, EnlistInv
  <2> QED BY <1>4, <2>1, EntryAssumption DEF Enlist, Entry
<1>5. CASE Flag(t)
  BY <1>5 DEF Flag
<1>6. CASE Mark(t)
  BY <1>6 DEF Mark
<1>7. CASE Unread(t)
  BY <1>7 DEF Unread
<1>8. CASE Unpoll(t)
  BY <1>8 DEF Unpoll
<1> QED BY <1>1, <1>2, <1>3, <1>4, <1>5, <1>6, <1>7, <1>8 DEF RegistrationStep

\* The steps of run(), start() and abort() preserve the types.
LEMMA RunTypes ==
  ASSUME TypeOK, EventsInv, Run \/ Start \/ Abort
  PROVE  TypeOK'
<1> USE DEF TypeOK, ReactorPC, lists, acts, calls, Leave
<1>1. CASE Start BY <1>1 DEF Start
<1>2. CASE Abort BY <1>2 DEF Abort
<1>3. CASE LoopExit BY <1>3 DEF LoopExit
<1>4. CASE LockRebuild BY <1>4 DEF LockRebuild
<1>5. CASE SkipRebuild BY <1>5 DEF SkipRebuild
<1>6. CASE CountEntries BY <1>6 DEF CountEntries, Entry
<1>7. CASE CopyReaders BY <1>7 DEF CopyReaders, EventsInv
<1>8. CASE RebuildFails BY <1>8 DEF RebuildFails, EventsInv
<1>9. CASE PollReturns BY <1>9 DEF PollReturns
<1>10. CASE PollFails BY <1>10 DEF PollFails
<1>11. CASE NoTimerDue BY <1>11 DEF NoTimerDue
<1>12. CASE CallTimers BY <1>12 DEF CallTimers
<1>13. CASE TimersReturn BY <1>13 DEF TimersReturn
<1>14. CASE SocketReturns BY <1>14 DEF SocketReturns
<1>15. CASE NothingToDispatch BY <1>15 DEF NothingToDispatch
<1>16. CASE EndPass BY <1>16 DEF EndPass
<1>17. ASSUME NEW e \in Entry, Dispatch(e) PROVE TypeOK'
  BY <1>17 DEF Dispatch
<1>18. CASE CopyPollers BY <1>18 DEF CopyPollers, EventsInv
<1>19. CASE ClearFlag BY <1>19 DEF ClearFlag
<1>20. CASE BlankItem BY <1>20 DEF BlankItem
<1> QED BY <1>1, <1>2, <1>3, <1>4, <1>5, <1>6, <1>7, <1>8, <1>9, <1>10, <1>11,
           <1>12, <1>13, <1>14, <1>15, <1>16, <1>17, <1>18, <1>19, <1>20
        DEF Run, Pass

\* A registration call keeps the conjuncts of IInv that are not types.
LEMMA CallIInv ==
  ASSUME IInv, NEW t \in Thread, RegistrationStep(t)
  PROVE  IInv'
<1> USE DEF IInv
<1>1. TypeOK' /\ TypeOK
  BY CallTypes
<1>2. UNCHANGED <<m_rebuild, counted, readacts, pollacts, revents, rpc>>
  BY DEF RegistrationStep, Append, ReaderEnd, PollEnd, Enlist, Flag, Mark, Unread,
         Unpoll, acts
<1>3. need_rebuild => need_rebuild'
  BY <1>1 DEF RegistrationStep, Append, ReaderEnd, PollEnd, Enlist, Flag, Mark,
              Unread, Unpoll, TypeOK
<1>4. EventsInv'
  BY <1>2 DEF EventsInv
<1>6. EnlistInv'
  <2> SUFFICES ASSUME NEW u \in Thread, pc'[u] = "enlist"
               PROVE  \E e \in Entry : todo'[u] = {e}
    BY DEF EnlistInv
  <2>1. CASE u # t
    <3>1. pc'[u] = pc[u] /\ todo'[u] = todo[u]
      BY <1>1, <2>1 DEF RegistrationStep, Append, ReaderEnd, PollEnd, Enlist, Flag,
                        Mark, Unread, Unpoll, At, Todo, TypeOK
    <3> QED BY <3>1 DEF EnlistInv
  <2>2. CASE u = t
    <3>1. \E e \in Entry : Append(t, e)
      BY <1>1, <2>2 DEF RegistrationStep, ReaderEnd, PollEnd, Enlist, Flag, Mark,
                        Unread, Unpoll, At, Todo, TypeOK
    <3> QED BY <1>1, <2>2, <3>1 DEF Append, Todo, TypeOK
  <2> QED BY <2>1, <2>2
<1>7. CASE ChangePending'
  BY <1>1, <1>2, <1>3, <1>4, <1>6, <1>7 DEF RebuildInv, InSync
<1>8. CASE ~ChangePending'
  <2>1. pc'[t] # "flag"
    BY <1>8 DEF ChangePending
  <2>2. ~Enlist(t) /\ ~Unpoll(t)
    BY <1>1, <2>1 DEF Enlist, Unpoll, At, TypeOK
  <2>3. /\ readers_list' \subseteq readers_list
        /\ UNCHANGED pollers_list
    BY <2>2 DEF RegistrationStep, Append, ReaderEnd, PollEnd, Flag, Mark, Unread,
                WriteReaders, lists
  <2>4. Flag(t) \/ ~ChangePending
    <3>1. \A u \in Thread \ {t} : pc'[u] = pc[u]
      BY <1>1 DEF RegistrationStep, Append, ReaderEnd, PollEnd, Enlist, Flag, Mark,
                  Unread, Unpoll, At, TypeOK
    <3>2. pc[t] = "flag" => Flag(t)
      BY DEF RegistrationStep, Append, ReaderEnd, PollEnd, Enlist, Mark, Unread,
             Unpoll, MayCall
    <3> QED BY <1>8, <3>1, <3>2 DEF ChangePending
  <2>5. CASE Flag(t)
    <3>1. need_rebuild' /\ ~m_rebuild
      BY <2>5 DEF Flag
    <3>2. rpc \notin {"locked", "copy", "copy_pollers", "clear"}
      BY <3>1 DEF RebuildInv
    <3> QED BY <1>1, <1>2, <1>4, <1>6, <3>1, <3>2
            DEF RebuildInv, InSync
  <2>6. CASE ~ChangePending
    <3>1. RebuildInv'
      BY <1>2, <1>3, <2>3, <2>6 DEF RebuildInv
    <3>2. InSync'
      BY <1>1, <1>2, <1>3, <2>3, <2>6 DEF InSync, TypeOK
    <3> QED BY <1>1, <1>4, <1>6, <3>1, <3>2
  <2> QED BY <2>4, <2>5, <2>6
<1> QED BY <1>7, <1>8

\* run(), start() and abort() keep the conjuncts of IInv that are not types.
LEMMA RunIInv ==
  ASSUME IInv, Run \/ Start \/ Abort
  PROVE  IInv'
<1> USE DEF IInv, RebuildInv, EventsInv, InSync, EnlistInv,
            ChangePending, lists, acts, calls, Leave
<1>1. TypeOK' /\ TypeOK
  BY RunTypes
<1> HIDE DEF IInv
<1>2. CASE Start \/ Abort
  BY <1>1, <1>2 DEF Start, Abort, IInv
<1>3. CASE LoopExit \/ NoTimerDue \/ CallTimers \/ TimersReturn \/ PollFails
  BY <1>1, <1>3 DEF LoopExit, NoTimerDue, CallTimers, TimersReturn, PollFails, IInv
<1>4. CASE LockRebuild \/ SkipRebuild
  BY <1>1, <1>4 DEF LockRebuild, SkipRebuild, IInv
<1>5. CASE CountEntries
  BY <1>1, <1>5 DEF CountEntries, IInv
<1>6. CASE CopyReaders
  BY <1>1, <1>6 DEF CopyReaders, IInv
<1>12. CASE CopyPollers
  BY <1>1, <1>12 DEF CopyPollers, IInv
<1>13. CASE ClearFlag
  BY <1>1, <1>13 DEF ClearFlag, IInv
<1>14. CASE BlankItem
  BY <1>1, <1>14 DEF BlankItem, IInv
<1>7. CASE RebuildFails
  BY <1>1, <1>7 DEF RebuildFails, IInv
<1>8. CASE PollReturns
  BY <1>1, <1>8 DEF PollReturns, IInv
<1>9. CASE SocketReturns
  BY <1>1, <1>9 DEF SocketReturns, IInv
<1>10. CASE NothingToDispatch \/ EndPass
  BY <1>1, <1>10 DEF NothingToDispatch, EndPass, IInv
<1>11. ASSUME NEW e \in Entry, Dispatch(e) PROVE IInv'
  BY <1>1, <1>11 DEF Dispatch, IInv
<1> QED BY <1>2, <1>3, <1>4, <1>5, <1>6, <1>7, <1>8, <1>9, <1>10, <1>11, <1>12, <1>13,
           <1>14 DEF Run, Pass

LEMMA StutterIInv == IInv /\ UNCHANGED vars => IInv'
  BY DEF IInv, TypeOK, EnlistInv, EventsInv, RebuildInv, InSync, ChangePending,
         vars, lists, acts, calls

\* IInv is an invariant of the reactor.
THEOREM Invariance == Spec => []IInv
<1>1. IInv /\ [Next]_vars => IInv'
  BY CallIInv, RunIInv, StutterIInv DEF Next
<1> QED BY InitIInv, <1>1, PTL DEF Spec

\* The variables of the reactor keep their types.
THEOREM TypeCorrect == Spec => []TypeOK
<1>1. IInv => TypeOK
  BY DEF IInv
<1> QED BY Invariance, <1>1, PTL

-----------------------------------------------------------------------------
(***************************************************************************)
(* The poller list implements PollRegistry.                                *)
(***************************************************************************)

LEMMA CallRefines ==
  ASSUME IInv, NEW t \in Thread, RegistrationStep(t)
  PROVE  [Pollers!Next]_(Pollers!vars)
<1> DEFINE dirty == need_rebuild \/ ChangePending
<1>1. TypeOK /\ TypeOK' /\ UNCHANGED <<pollacts, terminated>>
  <2>1. TypeOK'
    BY CallTypes DEF IInv
  <2> QED BY <2>1 DEF IInv, RegistrationStep, Append, ReaderEnd, PollEnd, Enlist, Flag,
                      Mark, Unread, Unpoll, acts
<1>2. CASE dirty'
  <2>1. CASE dirty /\ UNCHANGED pollers_list
    BY <1>1, <1>2, <2>1 DEF Pollers!vars
  <2>2. Pollers!Change
    BY <1>1, <1>2 DEF Pollers!Change, TypeOK
  <2> QED BY <2>2 DEF Pollers!Next
<1>3. CASE ~dirty'
  <2>1. pc'[t] # "flag" /\ ~Flag(t) /\ ~Mark(t)
    BY <1>3 DEF ChangePending, Flag, Mark
  <2>2. ~Enlist(t) /\ ~Unpoll(t)
    BY <1>1, <2>1 DEF Enlist, Unpoll, At, TypeOK
  <2>3. UNCHANGED <<pollers_list, need_rebuild>> /\ pc[t] # "flag"
    BY <2>1, <2>2 DEF RegistrationStep, Append, ReaderEnd, PollEnd, Unread,
                      WriteReaders, lists, MayCall
  <2>4. \A u \in Thread \ {t} : pc'[u] = pc[u]
    BY <1>1, <2>1, <2>2 DEF RegistrationStep, Append, ReaderEnd, PollEnd, Unread,
                            At, TypeOK
  <2>5. ~dirty
    BY <1>3, <2>3, <2>4 DEF ChangePending
  <2> QED BY <1>1, <1>3, <2>3, <2>5 DEF Pollers!vars
<1> QED BY <1>2, <1>3

LEMMA RunRefines ==
  ASSUME IInv, Run \/ Start \/ Abort
  PROVE  [Pollers!Next]_(Pollers!vars)
<1> DEFINE dirty == need_rebuild \/ ChangePending
<1>1. TypeOK /\ TypeOK'
  BY RunTypes DEF IInv
<1>2. CASE CopyReaders
  <2>1. /\ dirty /\ dirty' /\ pollacts' = {} /\ UNCHANGED <<pollers_list, terminated>>
    BY <1>2 DEF CopyReaders, IInv, RebuildInv, lists
  <2>2. Pollers!PartialRefresh
    BY <2>1 DEF Pollers!PartialRefresh
  <2> QED BY <2>2 DEF Pollers!Next
<1>5. CASE CopyPollers
  <2>1. /\ dirty /\ dirty' /\ pollacts' \in SUBSET pollers_list
        /\ UNCHANGED <<pollers_list, terminated>>
    BY <1>5 DEF CopyPollers, IInv, RebuildInv, lists
  <2>2. Pollers!PartialRefresh
    BY <2>1 DEF Pollers!PartialRefresh
  <2> QED BY <2>2 DEF Pollers!Next
<1>6. CASE ClearFlag
  <2>1. dirty /\ UNCHANGED <<pollers_list, pollacts, terminated, pc>>
    BY <1>6 DEF ClearFlag, IInv, RebuildInv, lists, acts, calls
  <2>2. ChangePending' <=> ChangePending
    BY <2>1 DEF ChangePending
  <2>3. CASE ChangePending
    BY <2>1, <2>2, <2>3 DEF Pollers!vars
  <2>4. CASE ~ChangePending
    <3>1. pollacts' = pollers_list
      BY <1>6, <2>1, <2>4 DEF ClearFlag, IInv, RebuildInv
    <3>2. dirty' \in BOOLEAN
      BY <1>1 DEF TypeOK, ChangePending
    <3>3. Pollers!Refresh
      BY <2>1, <3>1, <3>2 DEF Pollers!Refresh
    <3> QED BY <3>3 DEF Pollers!Next
  <2> QED BY <2>3, <2>4
<1>3. CASE RebuildFails
  <2>1. /\ dirty /\ dirty' /\ pollacts' = {}
        /\ terminated' = TRUE /\ UNCHANGED pollers_list
    BY <1>3 DEF RebuildFails, IInv, RebuildInv, lists, Leave
  <2>2. Pollers!PartialRefresh
    BY <2>1 DEF Pollers!PartialRefresh
  <2> QED BY <2>2 DEF Pollers!Next
<1>4. CASE ~CopyReaders /\ ~CopyPollers /\ ~ClearFlag /\ ~RebuildFails
  <2>1. /\ UNCHANGED <<pollers_list, pollacts, need_rebuild, pc>>
        /\ terminated' = TRUE \/ UNCHANGED terminated
    BY <1>4 DEF Run, Pass, BlankItem, Start, Abort, LoopExit, LockRebuild, SkipRebuild, CountEntries,
         PollReturns, PollFails, NoTimerDue, CallTimers, TimersReturn, Dispatch,
         SocketReturns, NothingToDispatch, EndPass, lists, acts, calls, Leave
  <2>2. ChangePending' <=> ChangePending
    BY <2>1 DEF ChangePending
  <2> QED BY <2>1, <2>2 DEF Pollers!Next, Pollers!Stop, Pollers!vars
<1> QED BY <1>2, <1>3, <1>4, <1>5, <1>6

\* Every behaviour of the reactor, seen through its poller list, is one of
\* PollRegistry: no change of that list can be forgotten.
THEOREM PollersRefine == Spec => PollersRefineRegistry
<1>1. Init => Pollers!Init
  BY DEF Init, Pollers!Init
<1>2. IInv /\ [Next]_vars => [Pollers!Next]_(Pollers!vars)
  <2>1. ASSUME UNCHANGED vars PROVE UNCHANGED Pollers!vars
    BY <2>1 DEF vars, Pollers!vars, ChangePending, lists, acts, calls
  <2> QED BY CallRefines, RunRefines, <2>1 DEF Next
<1> QED BY Invariance, <1>1, <1>2, PTL DEF Spec, Pollers!Spec, PollersRefineRegistry

-----------------------------------------------------------------------------
(***************************************************************************)
(* The histories.                                                          *)
(***************************************************************************)

HTypes == /\ registered \in SUBSET Entry
          /\ taken \in [Thread -> SUBSET Entry]
          /\ removed \in SUBSET Entry
          /\ late \in [Socket -> Nat]

\* What is registered is listed, and no call is about to touch it; two calls
\* never work on one entry.
ListedInv ==
  /\ registered \subseteq readers_list \cup pollers_list
  /\ \A t \in Thread : todo[t] \cap registered = {}
  /\ \A t \in Thread : \A u \in Thread \ {t} : todo[t] \cap todo[u] = {}
  /\ \A t \in Thread : /\ pc[t] = "idle" => todo[t] = {}
                       /\ pc[t] \in {"mark", "unread"} => todo[t] \subseteq Reader
                       /\ pc[t] \in {"flag", "unpoll"} => todo[t] \subseteq Poller

\* The entries taken off, whether the call has returned or not.
Gone == removed \cup UNION {taken[t] : t \in Thread}
Listed == readers_list \cup pollers_list \cup UNION {todo[t] : t \in Thread}

\* An entry taken off is in no list and no call will enter it.
GoneInv == Gone \cap Listed = {}

\* If it is still polled, the next rebuild comes without it: the flag is set,
\* or the call that took it off is about to set it.
DropInv ==
  \A e \in readacts \cup pollacts :
    /\ e \in removed => ~Overtaken
    /\ \A t \in Thread : e \in taken[t] => ~Overtaken \/ pc[t] = "flag"

\* After one late call for a socket, run() goes straight to the rebuild.
LateInv ==
  \A s \in Socket :
    /\ late[s] \in {0, 1}
    /\ late[s] = 1 /\ (\E e \in removed \cap (readacts \cup pollacts) : Sock[e] = s)
         => rpc \notin {"poll", "timers", "timer_call", "dispatch", "blank_call"}

\* A call that has not begun has taken nothing off.
IdleInv == \A t \in Thread : pc[t] = "idle" => taken[t] = {}

HInv == HTypes /\ IdleInv /\ ListedInv /\ GoneInv /\ DropInv /\ LateInv

\* The histories only watch: a behaviour with them is one of the reactor.
LEMMA HistoryWatches == HSpec => Spec
<1>1. HInit => Init
  BY DEF HInit
<1>2. [HNext]_<<vars, hist>> => [Next]_vars
  BY DEF HNext, Next, Run
<1> QED BY <1>1, <1>2, PTL DEF HSpec, Spec

LEMMA InitHInv == HInit => HInv
<1> SUFFICES ASSUME HInit PROVE HInv
  OBVIOUS
<1> USE DEF HInit, Init
<1>1. HTypes /\ ListedInv /\ IdleInv
  BY DEF HTypes, ListedInv, IdleInv
<1>2. GoneInv
  BY DEF GoneInv, Gone, Listed
<1>3. DropInv /\ LateInv
  BY DEF DropInv, LateInv
<1> QED BY <1>1, <1>2, <1>3 DEF HInv

\* What a step of a registration call does to the lists and to the call.
LEMMA CallSteps ==
  ASSUME TypeOK, EnlistInv, NEW t \in Thread, RegistrationStep(t)
  PROVE  /\ UNCHANGED <<readacts, pollacts, rpc>>
         /\ \A u \in Thread \ {t} : pc'[u] = pc[u] /\ todo'[u] = todo[u]
         /\ \/ /\ pc[t] \in {"enlist", "unread", "unpoll"}
               /\ todo'[t] \subseteq todo[t]
               /\ UNCHANGED need_rebuild
            \/ /\ pc[t] \in {"flag", "mark"}
               /\ need_rebuild' /\ ~m_rebuild
               /\ UNCHANGED <<readers_list, pollers_list, todo>>
            \/ /\ pc[t] = "idle"
               /\ UNCHANGED <<readers_list, pollers_list, need_rebuild>>
               /\ \A u \in Thread \ {t} : todo'[t] \cap todo[u] = {}
<1> USE DEF At, Todo, TypeOK, lists, acts, MayCall, Unclaimed
<1>1. ASSUME NEW e \in Entry, Append(t, e) PROVE e \notin UNION {todo[u] : u \in Thread}
  BY <1>1 DEF Append
<1>2. CASE \E e \in Entry : Append(t, e)
  BY <1>2 DEF Append
<1>3. CASE \E s \in Socket : ReaderEnd(t, s) \/ PollEnd(t, s)
  BY <1>3 DEF ReaderEnd, PollEnd
<1>4. CASE Enlist(t)
  BY <1>4 DEF Enlist
<1>5. CASE Flag(t) \/ Mark(t)
  BY <1>5 DEF Flag, Mark
<1>6. CASE Unread(t) \/ Unpoll(t)
  BY <1>6 DEF Unread, Unpoll
<1> QED BY <1>2, <1>3, <1>4, <1>5, <1>6 DEF RegistrationStep

\* What a write does to the lists: without a race the entries are entered or
\* taken off as asked, and nothing else ever changes.
LEMMA CallWrites ==
  ASSUME TypeOK, EnlistInv, NEW t \in Thread, RegistrationStep(t)
  PROVE  LET all == readers_list \cup pollers_list IN
         /\ pc[t] = "enlist" =>
              /\ todo'[t] = {} /\ pc'[t] = "flag"
              /\ all \subseteq all' /\ all' \subseteq all \cup todo[t]
              /\ ~Racing(t) => todo[t] \subseteq all'
         /\ pc[t] \in {"unread", "unpoll"} =>
              /\ all' \subseteq all
              /\ all \subseteq all' \cup (todo[t] \ todo'[t])
              /\ todo[t] \ todo'[t] \subseteq Entry
              /\ pc'[t] # "idle" \/ todo'[t] = {}
              /\ ~Racing(t) /\ pc[t] = "unread" => (todo[t] \ todo'[t]) \cap readers_list' = {}
              /\ ~Racing(t) /\ pc[t] = "unpoll" => (todo[t] \ todo'[t]) \cap pollers_list' = {}
              /\ pc[t] = "unpoll" => pc'[t] = "flag"
         /\ pc[t] = "flag" => pc'[t] = (IF todo[t] = {} THEN "idle" ELSE "unpoll")
         /\ pc[t] = "mark" => pc'[t] = "unread"
         /\ pc[t] = "idle" => pc'[t] \notin {"idle", "flag"}
<1> USE DEF At, Todo, TypeOK, lists, acts, MayCall, WriteReaders, WritePollers
<1>2. CASE \E e \in Entry : Append(t, e)
  BY <1>2 DEF Append
<1>3. CASE \E s \in Socket : ReaderEnd(t, s) \/ PollEnd(t, s)
  BY <1>3 DEF ReaderEnd, PollEnd
<1>4. CASE Enlist(t)
  BY <1>4 DEF Enlist
<1>5. CASE Flag(t) \/ Mark(t)
  BY <1>5 DEF Flag, Mark
<1>6. CASE Unread(t)
  BY <1>6 DEF Unread
<1>7. CASE Unpoll(t)
  BY <1>7 DEF Unpoll
<1> QED BY <1>2, <1>3, <1>4, <1>5, <1>6, <1>7 DEF RegistrationStep
\* A registration call keeps the histories true.
LEMMA CallHTypes ==
  ASSUME TypeOK, EnlistInv, HTypes, IdleInv,
         NEW t \in Thread, RegistrationStep(t), Registers(t)
  PROVE  HTypes' /\ IdleInv'
<1>1. TypeOK'
  BY CallTypes
<1>2. todo[t] \subseteq Entry /\ todo'[t] \subseteq Entry
  BY <1>1 DEF TypeOK
<1>3. PICK off \in SUBSET Entry :
        /\ removed' = removed \cup off \/ removed' = removed \ todo'[t]
        /\ taken' = [u \in Thread |-> IF u # t THEN taken[u] \ todo'[t]
                                      ELSE IF pc'[t] = "idle" THEN {} ELSE off]
  <2>1. (IF TakesOff(t) THEN taken[t] \cup (todo[t] \ todo'[t]) ELSE taken[t]) \in SUBSET Entry
    BY <1>2 DEF HTypes
  <2> QED BY <2>1 DEF Registers
<1>4. registered' \in SUBSET Entry
  BY <1>2 DEF HTypes, Registers
<1>5. removed' \in SUBSET Entry
  BY <1>3 DEF HTypes
<1>6. taken' \in [Thread -> SUBSET Entry]
  BY <1>3 DEF HTypes
<1>7. late' \in [Socket -> Nat]
  BY DEF HTypes, Registers
<1>8. IdleInv'
  <2> SUFFICES ASSUME NEW u \in Thread, pc'[u] = "idle" PROVE taken'[u] = {}
    BY DEF IdleInv
  <2>1. CASE u = t
    BY <1>3, <2>1
  <2>2. CASE u # t
    BY <1>3, <2>2, CallSteps DEF IdleInv
  <2> QED BY <2>1, <2>2
<1> QED BY <1>4, <1>5, <1>6, <1>7, <1>8 DEF HTypes

\* The kinds of entries a call works on.
LEMMA CallKinds ==
  ASSUME TypeOK, EnlistInv, ListedInv, NEW t \in Thread, RegistrationStep(t)
  PROVE  /\ pc'[t] = "idle" => todo'[t] = {}
         /\ pc'[t] \in {"mark", "unread"} => todo'[t] \subseteq Reader
         /\ pc'[t] \in {"flag", "unpoll"} => todo'[t] \subseteq Poller
<1>0. /\ pc[t] \in {"mark", "unread"} => todo[t] \subseteq Reader
      /\ pc[t] \in {"flag", "unpoll"} => todo[t] \subseteq Poller
  BY DEF ListedInv
<1> USE DEF At, Todo, TypeOK
<1>1. CASE \E e \in Entry : Append(t, e)
  BY <1>1 DEF Append
<1>2. ASSUME NEW s \in Socket, ReaderEnd(t, s) PROVE pc'[t] = "mark" /\ todo'[t] \subseteq Reader
  BY <1>2 DEF ReaderEnd
<1>3. ASSUME NEW s \in Socket, PollEnd(t, s) PROVE pc'[t] = "unpoll" /\ todo'[t] \subseteq Poller
  BY <1>3 DEF PollEnd
<1>4. CASE Enlist(t)
  BY <1>4 DEF Enlist
<1>5. CASE Flag(t)
  BY <1>0, <1>5 DEF Flag
<1>6. CASE Mark(t)
  BY <1>0, <1>6 DEF Mark
<1>7. CASE Unread(t)
  BY <1>0, <1>7 DEF Unread
<1>8. CASE Unpoll(t)
  BY <1>0, <1>8 DEF Unpoll
<1> QED BY <1>1, <1>2, <1>3, <1>4, <1>5, <1>6, <1>7, <1>8 DEF RegistrationStep

LEMMA CallListed ==
  ASSUME TypeOK, EnlistInv, HTypes, ListedInv,
         NEW t \in Thread, RegistrationStep(t), Registers(t)
  PROVE  ListedInv'
<1>1. registered' = IF pc[t] = "enlist" /\ ~Racing(t)
                      THEN registered \cup todo[t] ELSE registered \ todo'[t]
  BY DEF Registers
<1>2. registered' \subseteq readers_list' \cup pollers_list'
  <2>1. CASE pc[t] = "enlist"
    BY <1>1, <2>1, CallWrites DEF ListedInv
  <2>2. CASE pc[t] \in {"unread", "unpoll"}
    BY <1>1, <2>2, CallWrites DEF ListedInv
  <2>3. CASE pc[t] \notin {"enlist", "unread", "unpoll"}
    BY <1>1, <2>3, CallSteps DEF ListedInv
  <2> QED BY <2>1, <2>2, <2>3
<1>3. ASSUME NEW u \in Thread PROVE todo'[u] \cap registered' = {}
  <2>1. CASE u = t
    <3>1. CASE pc[t] = "enlist"
      BY <2>1, <3>1, CallWrites
    <3>2. CASE pc[t] # "enlist"
      BY <1>1, <2>1, <3>2
    <3> QED BY <3>1, <3>2
  <2>2. CASE u # t
    <3>1. todo'[u] = todo[u] /\ todo[u] \cap todo[t] = {} /\ todo[u] \cap registered = {}
      BY <2>2, CallSteps DEF ListedInv
    <3> QED BY <1>1, <3>1
  <2> QED BY <2>1, <2>2
<1>4. ASSUME NEW u \in Thread \ {t} PROVE todo'[t] \cap todo'[u] = {}
  <2>1. todo'[u] = todo[u] /\ todo[t] \cap todo[u] = {}
    BY CallSteps DEF ListedInv
  <2>2. todo'[t] \subseteq todo[t] \/ todo'[t] \cap todo[u] = {}
    BY CallSteps
  <2> QED BY <2>1, <2>2
<1>5. ASSUME NEW u \in Thread, NEW v \in Thread \ {u} PROVE todo'[u] \cap todo'[v] = {}
  <2>1. CASE u # t /\ v # t
    BY <2>1, CallSteps DEF ListedInv
  <2> QED BY <1>4, <2>1
<1>6. ASSUME NEW u \in Thread
      PROVE  /\ pc'[u] = "idle" => todo'[u] = {}
             /\ pc'[u] \in {"mark", "unread"} => todo'[u] \subseteq Reader
             /\ pc'[u] \in {"flag", "unpoll"} => todo'[u] \subseteq Poller
  <2>1. CASE u = t
    BY <2>1, CallKinds
  <2>2. CASE u # t
    <3>1. pc'[u] = pc[u] /\ todo'[u] = todo[u]
      BY <2>2, CallSteps
    <3> QED BY <3>1 DEF ListedInv
  <2> QED BY <2>1, <2>2
<1> QED BY <1>2, <1>3, <1>5, <1>6 DEF ListedInv

\* What a registration call adds to the entries taken off, and what it spares.
LEMMA CallGoneSteps ==
  ASSUME HTypes, NEW t \in Thread, Registers(t), pc[t] = "idle" => taken[t] = {},
         pc'[t] = "idle" => todo'[t] = {}, pc[t] = "idle" => pc'[t] # "idle",
         pc[t] # "idle" => todo'[t] \subseteq todo[t], todo[t] \cap Gone = {}
  PROVE  Gone' \subseteq (IF TakesOff(t) THEN Gone \cup (todo[t] \ todo'[t]) ELSE Gone) \ todo'[t]
<1> DEFINE off == IF TakesOff(t) THEN taken[t] \cup (todo[t] \ todo'[t]) ELSE taken[t]
<1>1. off \subseteq IF TakesOff(t) THEN Gone \cup (todo[t] \ todo'[t]) ELSE Gone
  BY DEF Gone
<1>2. removed' = IF pc'[t] = "idle" THEN removed \cup off ELSE removed \ todo'[t]
  BY DEF Registers
<1>3. \A u \in Thread : taken'[u] = IF u # t THEN taken[u] \ todo'[t]
                                     ELSE IF pc'[t] = "idle" THEN {} ELSE off
  BY DEF Registers
<1>4. off \cap todo'[t] = {}
  BY DEF Gone
<1> HIDE DEF off
<1>5. removed' \subseteq (Gone \cup off) \ todo'[t]
  BY <1>2, <1>4 DEF Gone
<1>6. ASSUME NEW u \in Thread PROVE taken'[u] \subseteq (Gone \cup off) \ todo'[t]
  <2>1. taken[u] \subseteq Gone
    BY DEF Gone
  <2> QED BY <1>3, <1>4, <2>1
<1>7. Gone' \subseteq (Gone \cup off) \ todo'[t]
  BY <1>5, <1>6 DEF Gone
<1> QED BY <1>1, <1>7

\* An entry taken off stays out of the lists and of the calls.
LEMMA CallGone ==
  ASSUME TypeOK, EnlistInv, HTypes, IdleInv, ListedInv, GoneInv,
         NEW t \in Thread, RegistrationStep(t), Registers(t)
  PROVE  GoneInv'
<1> DEFINE all == readers_list \cup pollers_list
<1>1. todo[t] \cap Gone = {} /\ all \cap Gone = {}
  BY DEF GoneInv, Listed
<1>2. \A u \in Thread : todo[u] \cap Gone = {}
  BY DEF GoneInv, Listed
<1>3. Gone' \subseteq (IF TakesOff(t) THEN Gone \cup (todo[t] \ todo'[t]) ELSE Gone) \ todo'[t]
  <2>1. pc'[t] = "idle" => todo'[t] = {}
    BY CallKinds
  <2>2. pc[t] = "idle" => pc'[t] # "idle"
    BY CallWrites
  <2>3. pc[t] # "idle" => todo'[t] \subseteq todo[t]
    BY CallSteps
  <2>4. pc[t] = "idle" => taken[t] = {}
    BY DEF IdleInv
  <2> QED BY <1>1, <2>1, <2>2, <2>3, <2>4, CallGoneSteps
<1>4. ASSUME NEW u \in Thread \ {t} PROVE todo'[u] = todo[u] /\ todo[u] \cap todo[t] = {}
  BY CallSteps DEF ListedInv
<1>5. all' \cap Gone' = {}
  <2>1. CASE pc[t] = "enlist"
    <3>1. ~TakesOff(t) /\ all' \subseteq all \cup todo[t]
      BY <2>1, CallWrites DEF TakesOff
    <3> QED BY <1>1, <1>3, <3>1
  <2>2. CASE ~TakesOff(t) /\ pc[t] # "enlist"
    <3>1. all' \subseteq all
      BY <2>2, CallWrites, CallSteps
    <3> QED BY <1>1, <1>3, <2>2, <3>1
  <2>3. CASE TakesOff(t)
    <3>1. all' \subseteq all /\ pc[t] \in {"unread", "unpoll"} /\ ~Racing(t)
      BY <2>3, CallWrites DEF TakesOff
    <3>2. CASE pc[t] = "unread"
      <4>1. todo[t] \subseteq Reader
        BY <3>2 DEF ListedInv
      <4>2. (todo[t] \ todo'[t]) \cap readers_list' = {}
        BY <3>1, <3>2, CallWrites
      <4>3. pollers_list' \subseteq Poller
        BY CallTypes DEF TypeOK
      <4>4. (todo[t] \ todo'[t]) \cap all' = {}
        BY <4>1, <4>2, <4>3, EntryAssumption
      <4> QED BY <1>1, <1>3, <3>1, <4>4
    <3>3. CASE pc[t] = "unpoll"
      <4>1. todo[t] \subseteq Poller
        BY <3>3 DEF ListedInv
      <4>2. (todo[t] \ todo'[t]) \cap pollers_list' = {}
        BY <3>1, <3>3, CallWrites
      <4>3. readers_list' \subseteq Reader
        BY CallTypes DEF TypeOK
      <4>4. (todo[t] \ todo'[t]) \cap all' = {}
        BY <4>1, <4>2, <4>3, EntryAssumption
      <4> QED BY <1>1, <1>3, <3>1, <4>4
    <3> QED BY <3>1, <3>2, <3>3
  <2> QED BY <2>1, <2>2, <2>3
<1>6. ASSUME NEW u \in Thread PROVE todo'[u] \cap Gone' = {}
  <2>1. CASE u = t
    BY <1>3, <2>1
  <2>2. CASE u # t
    BY <1>2, <1>3, <1>4, <2>2
  <2> QED BY <2>1, <2>2
<1> QED BY <1>5, <1>6 DEF GoneInv, Listed

\* A removal that has returned, and one under way, keep the rebuild coming.
LEMMA CallDrop ==
  ASSUME TypeOK, EnlistInv, RebuildInv, IdleInv, DropInv,
         NEW t \in Thread, RegistrationStep(t), Registers(t)
  PROVE  DropInv'
<1>1. UNCHANGED <<readacts, pollacts, rpc>>
  BY CallSteps
<1>2. ~Overtaken => ~Overtaken'
  BY <1>1, CallSteps DEF Overtaken
<1>3. \A u \in Thread \ {t} : pc'[u] = pc[u] /\ taken'[u] \subseteq taken[u]
  BY CallSteps DEF Registers
<1> SUFFICES ASSUME NEW e \in readacts \cup pollacts
             PROVE  /\ e \in removed' => ~Overtaken'
                    /\ \A u \in Thread : e \in taken'[u] => ~Overtaken' \/ pc'[u] = "flag"
  BY <1>1 DEF DropInv
<1>4. /\ e \in removed => ~Overtaken
      /\ \A u \in Thread : e \in taken[u] => ~Overtaken \/ pc[u] = "flag"
  BY DEF DropInv
<1>5. CASE pc[t] \in {"flag", "mark"}
  <2>1. ~Overtaken'
    BY <1>1, <1>5, CallSteps DEF RebuildInv, Overtaken
  <2> QED BY <2>1
<1>6. CASE pc[t] \notin {"flag", "mark"}
  <2> DEFINE off == IF TakesOff(t) THEN taken[t] \cup (todo[t] \ todo'[t]) ELSE taken[t]
  <2>1. e \in off => ~Overtaken \/ pc'[t] = "flag"
    <3>1. CASE pc[t] = "unpoll"
      BY <3>1, CallWrites
    <3>2. CASE pc[t] # "unpoll"
      BY <1>4, <1>6, <3>2 DEF TakesOff
    <3> QED BY <3>1, <3>2
  <2>2. /\ removed' = IF pc'[t] = "idle" THEN removed \cup off ELSE removed \ todo'[t]
        /\ taken'[t] = IF pc'[t] = "idle" THEN {} ELSE off
    BY DEF Registers
  <2> HIDE DEF off
  <2>3. e \in removed' => ~Overtaken'
    BY <1>2, <1>4, <2>1, <2>2
  <2>4. ASSUME NEW u \in Thread, e \in taken'[u] PROVE ~Overtaken' \/ pc'[u] = "flag"
    <3>1. CASE u = t
      BY <1>2, <2>1, <2>2, <2>4, <3>1
    <3>2. CASE u # t
      BY <1>2, <1>3, <1>4, <2>4, <3>2
    <3> QED BY <3>1, <3>2
  <2> QED BY <2>3, <2>4
<1> QED BY <1>5, <1>6

LEMMA CallLate ==
  ASSUME TypeOK, EnlistInv, HTypes, LateInv,
         NEW t \in Thread, RegistrationStep(t), Registers(t)
  PROVE  LateInv'
<1> DEFINE off == IF TakesOff(t) THEN taken[t] \cup (todo[t] \ todo'[t]) ELSE taken[t]
<1>1. UNCHANGED <<readacts, pollacts, rpc>>
  BY CallSteps
<1>2. removed' = IF pc'[t] = "idle" THEN removed \cup off ELSE removed \ todo'[t]
  BY DEF Registers
<1>3. late' = [s \in Socket |->
                 IF pc'[t] = "idle" /\ s \in {Sock[e] : e \in off} THEN 0 ELSE late[s]]
  BY DEF Registers
<1> HIDE DEF off
<1> SUFFICES ASSUME NEW s \in Socket
             PROVE  /\ late'[s] \in {0, 1}
                    /\ late'[s] = 1 /\ (\E e \in removed' \cap (readacts \cup pollacts) : Sock[e] = s)
                         => rpc \notin {"poll", "timers", "timer_call", "dispatch", "blank_call"}
  BY <1>1 DEF LateInv
<1>4. late'[s] \in {0, late[s]}
  BY <1>3
<1>5. ASSUME late'[s] = 1, NEW e \in removed', Sock[e] = s PROVE late[s] = 1 /\ e \in removed
  BY <1>2, <1>3, <1>5
<1> QED BY <1>4, <1>5 DEF LateInv

LEMMA CallHInv ==
  ASSUME IInv, HInv, NEW t \in Thread, RegistrationStep(t), Registers(t)
  PROVE  HInv'
BY CallHTypes, CallListed, CallGone, CallDrop, CallLate DEF IInv, HInv

\* Where a late call would not be followed by the rebuild.
Polling == {"poll", "timers", "timer_call", "dispatch", "blank_call"}

\* What run(), start() and abort() do to the poll set: what it gains is listed,
\* and a rebuild drops everything else before it can count as overtaking.
LEMMA RunSteps ==
  ASSUME IInv, Pass \/ Start \/ Abort
  PROVE  LET polled == readacts \cup pollacts
             all    == readers_list \cup pollers_list
         IN  /\ UNCHANGED <<readers_list, pollers_list, pc, todo>>
             /\ polled' \subseteq polled \cup all
             /\ Overtaken' => Overtaken \/ polled' \subseteq all
             /\ rpc' \in Polling => /\ polled' = polled
                                    /\ rpc \in Polling \/ Overtaken
<1> USE DEF lists, acts, calls, Leave, Overtaken, Polling
<1>1. CASE Start \/ Abort
  BY <1>1 DEF Start, Abort
<1>2. CASE LoopExit \/ PollReturns \/ PollFails \/ NoTimerDue \/ CallTimers \/ TimersReturn
  BY <1>2 DEF LoopExit, PollReturns, PollFails, NoTimerDue, CallTimers, TimersReturn
<1>3. CASE LockRebuild \/ SkipRebuild \/ CountEntries
  BY <1>3 DEF LockRebuild, SkipRebuild, CountEntries
<1>4. CASE CopyReaders
  BY <1>4 DEF CopyReaders
<1>5. CASE CopyPollers
  BY <1>5 DEF CopyPollers
<1>6. CASE ClearFlag
  BY <1>6 DEF ClearFlag
<1>7. CASE RebuildFails
  BY <1>7 DEF RebuildFails
<1>8. CASE BlankItem \/ NothingToDispatch \/ EndPass
  BY <1>8 DEF BlankItem, NothingToDispatch, EndPass
<1>9. CASE SocketReturns
  BY <1>9 DEF SocketReturns
<1> QED BY <1>1, <1>2, <1>3, <1>4, <1>5, <1>6, <1>7, <1>8, <1>9 DEF Pass

LEMMA RunHInv ==
  ASSUME IInv, HInv, Pass \/ Start \/ Abort, UNCHANGED hist
  PROVE  HInv'
<1> DEFINE polled == readacts \cup pollacts
           all == readers_list \cup pollers_list
<1>1. UNCHANGED <<registered, taken, removed, late, readers_list, pollers_list, pc, todo>>
  BY RunSteps DEF hist
<1>2. HTypes' /\ IdleInv' /\ ListedInv' /\ GoneInv'
  BY <1>1 DEF HInv, HTypes, IdleInv, ListedInv, GoneInv, Gone, Listed
<1>3. ASSUME NEW e \in Gone, e \in polled' PROVE e \in polled /\ (Overtaken' => Overtaken)
  <2>1. e \notin all
    BY DEF HInv, GoneInv, Listed
  <2>2. polled' \subseteq polled \cup all /\ (Overtaken' => Overtaken \/ polled' \subseteq all)
    BY RunSteps
  <2> QED BY <1>3, <2>1, <2>2
<1>4. DropInv'
  <2> SUFFICES ASSUME NEW e \in polled'
               PROVE  /\ e \in removed => ~Overtaken'
                      /\ \A t \in Thread : e \in taken[t] => ~Overtaken' \/ pc[t] = "flag"
    BY <1>1 DEF DropInv
  <2>1. CASE e \in Gone
    <3>1. e \in polled /\ (Overtaken' => Overtaken)
      BY <1>3, <2>1
    <3> QED BY <3>1 DEF HInv, DropInv
  <2>2. CASE e \notin Gone
    BY <2>2 DEF Gone
  <2> QED BY <2>1, <2>2
<1>5. LateInv'
  <2> SUFFICES ASSUME NEW s \in Socket, late[s] = 1,
                      NEW e \in removed \cap polled', Sock[e] = s, rpc' \in Polling
               PROVE  FALSE
    BY <1>1 DEF HInv, LateInv, Polling
  <2>1. e \in polled /\ (rpc \in Polling \/ Overtaken)
    BY RunSteps
  <2>2. ~Overtaken
    BY <2>1 DEF HInv, DropInv
  <2>3. rpc \notin Polling
    BY <2>1 DEF HInv, LateInv, Polling
  <2> QED BY <2>1, <2>2, <2>3
<1> QED BY <1>2, <1>4, <1>5 DEF HInv

LEMMA DispatchHInv ==
  ASSUME IInv, HInv, NEW e \in Entry, Dispatch(e), Calls(e)
  PROVE  HInv'
<1>1. /\ UNCHANGED <<registered, taken, removed, readers_list, pollers_list, pc, todo,
                     readacts, pollacts, need_rebuild>>
      /\ rpc = "dispatch" /\ rpc' = "socket_call"
      /\ e \in readacts \cup pollacts
  BY DEF IInv, TypeOK, Dispatch, Calls, lists, acts, calls
<1>2. late' = IF e \in removed THEN [late EXCEPT ![Sock[e]] = @ + 1] ELSE late
  BY DEF Calls
<1>3. Sock[e] \in Socket
  BY EntryAssumption DEF Entry
<1>4. late' \in [Socket -> Nat]
  BY <1>2, <1>3 DEF HInv, HTypes
<1>5. HTypes' /\ IdleInv' /\ ListedInv' /\ GoneInv'
  BY <1>1, <1>4 DEF HInv, HTypes, IdleInv, ListedInv, GoneInv, Gone, Listed
<1>6. DropInv'
  BY <1>1 DEF HInv, DropInv, Overtaken
<1>7. ASSUME NEW s \in Socket PROVE late'[s] \in {0, 1}
  <2>1. late[s] \in {0, 1}
    BY DEF HInv, LateInv
  <2>2. CASE e \in removed /\ s = Sock[e]
    <3>1. late[s] # 1
      BY <1>1, <2>2 DEF HInv, LateInv
    <3>2. late'[s] = late[s] + 1
      BY <1>2, <1>3, <2>2 DEF HInv, HTypes
    <3> QED BY <2>1, <3>1, <3>2
  <2>3. CASE ~(e \in removed /\ s = Sock[e])
    BY <1>2, <1>3, <2>1, <2>3 DEF HInv, HTypes
  <2> QED BY <2>2, <2>3
<1>8. LateInv'
  BY <1>1, <1>7 DEF LateInv
<1> QED BY <1>5, <1>6, <1>8 DEF HInv

LEMMA StutterHInv == HInv /\ UNCHANGED <<vars, hist>> => HInv'
  BY DEF HInv, HTypes, IdleInv, ListedInv, GoneInv, Gone, Listed, DropInv, Overtaken,
         LateInv, vars, hist, lists, acts, calls

\* The histories are true of every reachable state.
THEOREM HInvariance == HSpec => [](IInv /\ HInv)
<1>1. HSpec => []IInv
  BY HistoryWatches, Invariance, PTL
<1>2. IInv /\ HInv /\ [HNext]_<<vars, hist>> => HInv'
  BY CallHInv, RunHInv, DispatchHInv, StutterHInv DEF HNext
<1> QED BY <1>1, <1>2, InitHInv, PTL DEF HSpec

\* Whatever the threads do to the unguarded lists, an entry appended unhindered
\* stays listed until somebody removes it, and is polled.
THEOREM RegistrationsPolled == HSpec => []RegisteredArePolled
<1>1. IInv /\ HInv => RegisteredArePolled
  BY DEF IInv, InSync, HInv, ListedInv, RegisteredArePolled
<1> QED BY HInvariance, <1>1, PTL

\* Handlers of removed entries are called once more at most for each socket,
\* however late the reactor comes to rebuild its poll set.
THEOREM RemovedLateOnce == HSpec => []RemovedCalledLateOnce
<1>1. IInv /\ HInv => RemovedCalledLateOnce
  BY DEF HInv, LateInv, RemovedCalledLateOnce
<1> QED BY HInvariance, <1>1, PTL
=============================================================================
