--------------------------- MODULE SockEventTimers ---------------------------
(***************************************************************************)
(* The timers and tickets of qmq/sevent.cpp: which of them run() calls in a*)
(* pass, when, how often, and how long tickless() lets it sleep.           *)
(*                                                                         *)
(* sevent.h makes appendTimer, appendTicket and removeTimer functions that *)
(* are not thread safe: they are called before start() and, as in the      *)
(* self-test, by handlers on the reactor's own thread.  All state here     *)
(* belongs to one thread at a time; what moves under it is the clock.      *)
(*                                                                         *)
(* A handler may cancel any timer.  When it is the running timer, or one   *)
(* still ahead in the copy foreach iterates over, run() is left with a     *)
(* deleted object; should it touch it, the behaviour is undefined and ends *)
(* here, in "crashed".                                                     *)
(*                                                                         *)
(* Tickets are numbered in the order of tickets_list, which is the order of*)
(* appendTicket: resetTicket, which would move one, has no caller.  The    *)
(* owner sets ticketdelay before the first ticket, as the constructor does *)
(* not, and may set it again between any two.                              *)
(***************************************************************************)
EXTENDS Integers, FiniteSets, Sequences

CONSTANTS
  Delay,        \* the delays timers are created with
  Times,        \* the repeat counts timers are created with; 0 is "for ever"
  TicketDelays, \* the values setTicketDelay is called with
  MaxTimers,    \* maxtimers
  MaxPoll,      \* the hour after which tickless() wakes up in any case
  MaxTimerId,   \* bound: timers created in all
  MaxTicket,    \* bound: tickets created in all
  MaxTime       \* bound: the last value of the clock, and of a ticket

ASSUME DelayAssumption == Delay \cup TicketDelays \subseteq Nat \ {0}
ASSUME TimesAssumption == Times \subseteq Nat
ASSUME LimitAssumption == {MaxTimers, MaxPoll} \subseteq Nat
ASSUME BoundAssumption == {MaxTimerId, MaxTicket, MaxTime} \subseteq Nat

VARIABLES
  now,          \* clock_mono()
  timers_list,  \* the live timers: id -> [delay, when, repeattimes]
  lasttimerid,  \* the id given last
  tickets_list, \* the live tickets: number -> [delay, when]
  lastticket,   \* the number of the last ticket created
  ticketdelay,  \* the delay of the next ticket
  rpc,          \* where run() stands
  rc,           \* 0, or -1 once a handler asked to finish the thread
  deadline,     \* when zmq_poll times out; 0 outside zmq_poll
  time_now,     \* the clock as read after zmq_poll; 0 outside the pass
  current,      \* the timer or ticket whose handler is running, or 0
  ahead,        \* timers, then tickets, the pass has still to visit
  plan,         \* history: [born, delay, times, done] of every timer, by id
  asked         \* history: a handler has set *rc to -1

lists == <<timers_list, lasttimerid, tickets_list, lastticket, ticketdelay>>
pass  == <<deadline, time_now, current, ahead>>
vars  == <<now, timers_list, lasttimerid, tickets_list, lastticket, ticketdelay,
           rpc, rc, deadline, time_now, current, ahead, plan, asked>>

ReactorPC == {"new", "top", "poll", "timers", "timer_call", "tickets",
              "ticket_call", "socket_call", "done", "crashed"}
NTimer    == [delay : Nat, when : Nat, repeattimes : Nat]
NTicket   == [delay : Nat, when : Nat]
Plan      == [born : Nat, delay : Nat, times : Nat, done : Nat]

TypeOK ==
  /\ now \in Nat
  /\ lasttimerid \in Nat
  /\ plan \in Seq(Plan) /\ Len(plan) = lasttimerid
  /\ DOMAIN timers_list \subseteq DOMAIN plan
  /\ \A id \in DOMAIN timers_list : timers_list[id] \in NTimer
  /\ lastticket \in Nat
  /\ DOMAIN tickets_list \subseteq 1 .. lastticket
  /\ \A n \in DOMAIN tickets_list : tickets_list[n] \in NTicket
  /\ ticketdelay \in Nat \ {0}
  /\ asked \in BOOLEAN
  /\ rpc \in ReactorPC
  /\ rc \in {0, -1}
  /\ deadline \in Nat /\ time_now \in Nat /\ time_now <= now
  /\ current \in Nat /\ ahead \subseteq Nat
  /\ rpc \in {"tickets", "ticket_call"} => ahead \subseteq DOMAIN tickets_list
  /\ rpc = "ticket_call" => current \in DOMAIN tickets_list

Init ==
  /\ now = 0
  /\ timers_list = [id \in {} |-> 0] /\ lasttimerid = 0
  /\ tickets_list = [n \in {} |-> 0] /\ lastticket = 0
  /\ ticketdelay \in TicketDelays
  /\ rpc = "new" /\ rc = 0
  /\ deadline = 0 /\ time_now = 0 /\ current = 0 /\ ahead = {}
  /\ plan = <<>> /\ asked = FALSE

\* The clock moves wherever the code can tell: between two places that read
\* it, one tick is as good as another.  It starts with the reactor.
Tick ==
  /\ now < MaxTime
  /\ rpc \in {"top", "poll", "timer_call", "ticket_call", "socket_call"}
  /\ now' = now + 1
  /\ UNCHANGED <<lists, rpc, rc, pass, plan, asked>>

-----------------------------------------------------------------------------
(***************************************************************************)
(* The calls of the owner before start() and of the handlers.              *)
(***************************************************************************)

InHandler == rpc \in {"timer_call", "ticket_call", "socket_call"}
MayCall   == rpc = "new" \/ InHandler

With(f, k, v) == [i \in DOMAIN f \cup {k} |-> IF i = k THEN v ELSE f[i]]
Without(f, k) == [i \in DOMAIN f \ {k} |-> f[i]]

\* Mutation: ids are counted from the timers that are left.
AppendTimerCounted(delay, times) ==
  /\ MayCall
  /\ lasttimerid < MaxTimerId
  /\ Cardinality(DOMAIN timers_list) < MaxTimers
  /\ LET id == Cardinality(DOMAIN timers_list) + 1 IN
       /\ lasttimerid' = id
       /\ timers_list' = With(timers_list, id, [delay |-> delay,
                                when |-> now + delay, repeattimes |-> times])
       /\ plan' = Append(plan, [born |-> now, delay |-> delay,
                                times |-> times, done |-> 0])
  /\ UNCHANGED <<now, tickets_list, lastticket, ticketdelay, rpc, rc, pass, asked>>

\* appendTimer: -1 and no change at the limit, else a fresh id.
AppendTimer(delay, times) ==
  /\ MayCall
  /\ lasttimerid < MaxTimerId
  /\ Cardinality(DOMAIN timers_list) < MaxTimers
  /\ LET id == lasttimerid + 1 IN
       /\ lasttimerid' = id
       /\ timers_list' = With(timers_list, id, [delay |-> delay,
                                when |-> now + delay, repeattimes |-> times])
       /\ plan' = Append(plan, [born |-> now, delay |-> delay,
                                times |-> times, done |-> 0])
  /\ UNCHANGED <<now, tickets_list, lastticket, ticketdelay, rpc, rc, pass, asked>>

\* removeTimer: the timer is deleted at once, whatever run() is doing.
RemoveTimer(id) ==
  /\ MayCall
  /\ timers_list' = Without(timers_list, id)
  /\ UNCHANGED <<now, lasttimerid, tickets_list, lastticket, ticketdelay, rpc, rc,
                 pass, plan, asked>>

SetTicketDelay(ms) ==
  /\ ticketdelay' = ms
  /\ UNCHANGED <<now, timers_list, lasttimerid, tickets_list, lastticket, rpc, rc,
                 pass, plan, asked>>

AppendTicket ==
  /\ MayCall
  /\ lastticket < MaxTicket /\ now + ticketdelay <= MaxTime
  /\ lastticket' = lastticket + 1
  /\ tickets_list' = With(tickets_list, lastticket + 1,
                          [delay |-> ticketdelay, when |-> now + ticketdelay])
  /\ UNCHANGED <<now, timers_list, lasttimerid, ticketdelay, rpc, rc, pass, plan,
                 asked>>

Start ==
  /\ rpc = "new"
  /\ rpc' = "top"
  /\ UNCHANGED <<now, lists, rc, pass, plan, asked>>

-----------------------------------------------------------------------------
(***************************************************************************)
(* run()                                                                   *)
(***************************************************************************)

\* Some thread has called abort().
LoopExit ==
  /\ rpc = "top"
  /\ rpc' = "done"
  /\ UNCHANGED <<now, lists, rc, pass, plan, asked>>

Least(n, S) == n \in S /\ \A m \in S : n <= m

\* Mutation: only the timers are looked at.
TicklessTimers ==
  /\ rpc = "top"
  /\ LET whens == {timers_list[id].when : id \in DOMAIN timers_list} IN
       \E w \in whens \cup {now + MaxPoll} :
         Least(w, whens \cup {now + MaxPoll}) /\ deadline' = w
  /\ rpc' = "poll"
  /\ UNCHANGED <<now, lists, rc, time_now, current, ahead, plan, asked>>

\* tickless: the earliest timer, the first ticket, or an hour.
Tickless ==
  /\ rpc = "top"
  /\ LET whens == {timers_list[id].when : id \in DOMAIN timers_list}
         first == {tickets_list[n].when : n \in {m \in DOMAIN tickets_list : Least(m, DOMAIN tickets_list)}}
         all   == whens \cup first \cup {now + MaxPoll}
     IN  \E w \in all : Least(w, all) /\ deadline' = w
  /\ rpc' = "poll"
  /\ UNCHANGED <<now, lists, rc, time_now, current, ahead, plan, asked>>

\* zmq_poll returns when a socket is ready, or with the timeout.
PollReturns ==
  /\ rpc = "poll"
  /\ rpc' = "timers" /\ rc' = 0
  /\ time_now' = now /\ deadline' = 0
  /\ ahead' = DOMAIN timers_list
  /\ UNCHANGED <<now, lists, current, plan, asked>>

\* The loop visits the timers of its copy in the order of their ids, and passes
\* over those that are not due.  One deleted since is a dangling pointer.
Deleted    == {id \in ahead : id \notin DOMAIN timers_list}
DueTimers  == {id \in ahead \ Deleted : time_now >= timers_list[id].when}
DueTickets == {n \in ahead : time_now >= tickets_list[n].when}

CallTimer(id) ==
  /\ rpc = "timers"
  /\ Least(id, DueTimers \cup Deleted) /\ id \in DueTimers
  /\ ahead' = {i \in ahead : i > id} /\ current' = id
  /\ rpc' = "timer_call"
  /\ UNCHANGED <<now, lists, rc, deadline, time_now, plan, asked>>

\* run() reads or writes a deleted timer: the one it comes to next, or the
\* running one, when its handler is content.
TouchDeleted ==
  /\ \/ rpc = "timers" /\ \E id \in Deleted : Least(id, DueTimers \cup Deleted)
     \/ rpc = "timer_call" /\ current \notin DOMAIN timers_list
  /\ rpc' = "crashed"
  /\ UNCHANGED <<now, lists, rc, pass, plan, asked>>

\* Mutation: the next call is scheduled from the present instead of from the
\* time the call was due.
TimerReturnsDrifting ==
  /\ rpc = "timer_call" /\ current \in DOMAIN timers_list
  /\ rc' = 0
  /\ LET timer == timers_list[current] IN
       timers_list' = IF timer.repeattimes = 1
                        THEN Without(timers_list, current)
                        ELSE [timers_list EXCEPT
                                ![current].when = now + timer.delay,
                                ![current].repeattimes =
                                  IF @ = 0 THEN 0 ELSE @ - 1]
  /\ plan' = [plan EXCEPT ![current].done = @ + 1]
  /\ rpc' = "timers" /\ current' = 0
  /\ UNCHANGED <<now, lasttimerid, tickets_list, lastticket, ticketdelay, deadline,
                 time_now, ahead, asked>>

\* Mutation: a timer is removed by the call after its last one.
TimerReturnsOnceMore ==
  /\ rpc = "timer_call" /\ current \in DOMAIN timers_list
  /\ rc' = 0
  /\ LET timer == timers_list[current] IN
       timers_list' = [timers_list EXCEPT
                                ![current].when = @ + timer.delay,
                                ![current].repeattimes =
                                  IF @ = 0 THEN 0 ELSE @ - 1]
  /\ plan' = [plan EXCEPT ![current].done = @ + 1]
  /\ rpc' = "timers" /\ current' = 0
  /\ UNCHANGED <<now, lasttimerid, tickets_list, lastticket, ticketdelay, deadline,
                 time_now, ahead, asked>>

\* The handler is content: count the call down, reschedule or remove.
TimerReturns ==
  /\ rpc = "timer_call" /\ current \in DOMAIN timers_list
  /\ rc' = 0
  /\ LET timer == timers_list[current] IN
       timers_list' = IF timer.repeattimes = 1
                        THEN Without(timers_list, current)
                        ELSE [timers_list EXCEPT
                                ![current].when = @ + timer.delay,
                                ![current].repeattimes =
                                  IF @ = 0 THEN 0 ELSE @ - 1]
  /\ plan' = [plan EXCEPT ![current].done = @ + 1]
  /\ rpc' = "timers" /\ current' = 0
  /\ UNCHANGED <<now, lasttimerid, tickets_list, lastticket, ticketdelay, deadline,
                 time_now, ahead, asked>>

\* The handler set *rc to -1: break, and on to the tickets.
TimerFinishes ==
  /\ rpc = "timer_call"
  /\ rc' = -1 /\ asked' = TRUE
  /\ rpc' = "tickets" /\ current' = 0
  /\ ahead' = DOMAIN tickets_list
  /\ UNCHANGED <<now, lists, deadline, time_now, plan>>

TimersDone ==
  /\ rpc = "timers" /\ DueTimers \cup Deleted = {}
  /\ rpc' = "tickets"
  /\ ahead' = DOMAIN tickets_list
  /\ UNCHANGED <<now, lists, rc, deadline, time_now, current, plan, asked>>

\* The handler is called whatever rc is.
CallTicket(n) ==
  /\ rpc = "tickets"
  /\ Least(n, DueTickets)
  /\ ahead' = {m \in ahead : m > n} /\ current' = n
  /\ rpc' = "ticket_call"
  /\ UNCHANGED <<now, lists, rc, deadline, time_now, plan, asked>>

\* The handler leaves 0 in *rc (like those of the self-test, which store it):
\* the ticket is deleted.
TicketReturns ==
  /\ rpc = "ticket_call"
  /\ rc' = 0
  /\ tickets_list' = Without(tickets_list, current)
  /\ rpc' = "tickets" /\ current' = 0
  /\ UNCHANGED <<now, timers_list, lasttimerid, lastticket, ticketdelay, deadline,
                 time_now, ahead, plan, asked>>

\* The handler leaves -1 in *rc: break, the ticket stays, and no socket handler
\* is called.
TicketFinishes ==
  /\ rpc = "ticket_call"
  /\ rc' = -1 /\ asked' = TRUE
  /\ rpc' = "done" /\ current' = 0 /\ ahead' = {} /\ time_now' = 0
  /\ UNCHANGED <<now, lists, deadline, plan>>

\* No ticket is left to call.  The socket handlers of the pass, if any, stand
\* as one call; they are skipped when *rc is -1.
TicketsDone ==
  /\ rpc = "tickets" /\ DueTickets = {}
  /\ IF rc = -1 THEN rpc' = "done" ELSE rpc' \in {"socket_call", "top"}
  /\ time_now' = 0 /\ ahead' = {}
  /\ UNCHANGED <<now, lists, rc, deadline, current, plan, asked>>

SocketsReturn ==
  /\ rpc = "socket_call"
  /\ rc' \in {0, -1} /\ asked' = (asked \/ rc' = -1)
  /\ rpc' = IF rc' = -1 THEN "done" ELSE "top"
  /\ UNCHANGED <<now, lists, pass, plan>>

-----------------------------------------------------------------------------
Call == \/ \E d \in Delay, k \in Times : AppendTimer(d, k)
        \/ \E id \in DOMAIN timers_list : RemoveTimer(id)
        \/ AppendTicket
        \/ \E ms \in TicketDelays : SetTicketDelay(ms)

Run == \/ LoopExit \/ Tickless
       \/ \E id \in ahead : CallTimer(id) \/ CallTicket(id)
       \/ TouchDeleted \/ TimerReturns \/ TimerFinishes \/ TimersDone
       \/ TicketReturns \/ TicketFinishes \/ TicketsDone
       \/ SocketsReturn

Next == Tick \/ Start \/ Call \/ Run \/ PollReturns

Spec == Init /\ [][Next]_vars

\* The clock runs, handlers return, and zmq_poll keeps to its timeout.  No
\* socket has to become ready.
Fairness == /\ WF_vars(Tick)
            /\ WF_vars(Run)
            /\ WF_vars(PollReturns /\ now >= deadline)
FairSpec == Spec /\ Fairness

-----------------------------------------------------------------------------
(***************************************************************************)
(* Properties.                                                             *)
(***************************************************************************)

\* A timer keeps to the grid it was created on, however late its calls were:
\* the next call is due a whole number of delays after its creation, and a
\* limited timer has exactly the calls left that it has not made (run()).
OnSchedule ==
  \A id \in DOMAIN timers_list :
    LET timer == timers_list[id]
        p     == plan[id]
    IN  /\ timer.delay = p.delay
        /\ timer.when = p.born + (p.done + 1) * p.delay
        /\ p.times = 0 => timer.repeattimes = 0
        /\ p.times # 0 => timer.repeattimes = p.times - p.done /\ p.done < p.times

\* No timer is called more often than it was asked to be, nor faster than its
\* delay, over the whole life of the reactor, for live and finished timers.
WithinBudget ==
  \A id \in DOMAIN plan : LET p == plan[id] IN
    /\ p.times # 0 => p.done <= p.times
    /\ p.done * p.delay <= now - p.born

\* tickless never lets the reactor sleep past a timer.  It looks at the first
\* ticket only, which need not be the earliest once setTicketDelay was called:
\* it may sleep past a ticket, but by no more than the delay of an earlier
\* ticket exceeds its own, and not at all while the delay stays the same.
NeverOversleeps ==
  rpc = "poll" =>
    /\ \A id \in DOMAIN timers_list : deadline <= timers_list[id].when
    /\ \A n \in DOMAIN tickets_list : \E m \in DOMAIN tickets_list :
         /\ m <= n
         /\ deadline <= tickets_list[n].when + tickets_list[m].delay - tickets_list[n].delay

\* "the rc set to -1 to finish thread" (sevent.h, of all four handlers): once
\* a handler has asked for it, run() does not go back to sleep.
FinishIsFinal == asked => rpc # "poll"

\* A due timer is called, unless it is cancelled, the reactor stops or run() has
\* touched a timer that a handler deleted under it.
DueTimersFire ==
  \A id \in 1 .. MaxTimerId : \A k \in 0 .. MaxTime - 1 :
    (/\ rpc # "new" /\ id \in DOMAIN timers_list
     /\ plan[id].done = k /\ timers_list[id].when <= now)
    ~> (id \notin DOMAIN timers_list \/ plan[id].done > k
        \/ rpc \in {"done", "crashed"})

\* A due ticket is called and deleted, with the same exceptions.
DueTicketsFire ==
  \A n \in 1 .. MaxTicket :
    (rpc # "new" /\ n \in DOMAIN tickets_list /\ tickets_list[n].when <= now)
    ~> (n \notin DOMAIN tickets_list \/ rpc \in {"done", "crashed"})

\* Nothing that is due stays undone: the sleep covers timers and tickets.
DueAreCalled == DueTimersFire /\ DueTicketsFire
=============================================================================
