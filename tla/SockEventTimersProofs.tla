------------------------ MODULE SockEventTimersProofs ------------------------
(***************************************************************************)
(* Theorems about SockEventTimers, for any delays, repeat counts and limits*)
(* and with no bound on the clock but MaxTime: type correctness, timers on *)
(* their schedule and within their budget, no oversleeping.                *)
(***************************************************************************)
EXTENDS SockEventTimers, SequenceTheorems, WellFoundedInduction,
        TLAPS

\* The list of tickets is sorted by the times they were created at; by the times
\* they are due at only as long as the delay stays the same.
Created(n) == tickets_list[n].when - tickets_list[n].delay

TicketsInOrder ==
  /\ \A n, m \in DOMAIN tickets_list : n <= m => Created(n) <= Created(m)
  /\ \A n \in DOMAIN tickets_list : Created(n) <= now

\* Only a due timer is ever called, and its handler alone may delete it.
CalledDue ==
  rpc = "timer_call" /\ current \in DOMAIN timers_list =>
    timers_list[current].when <= time_now

\* What the pass has still to visit lies behind the object being called, and a
\* called timer, deleted or not, has an id that was given.
AheadInv ==
  /\ rpc \in {"timer_call", "ticket_call"} => \A i \in ahead : i > current
  /\ rpc = "timer_call" => current <= lasttimerid

IInv == /\ TypeOK /\ OnSchedule /\ WithinBudget
        /\ NeverOversleeps /\ TicketsInOrder /\ CalledDue /\ AheadInv

-----------------------------------------------------------------------------
\* Every non-empty set of numbers has a least member.
LEMMA LeastOfNat ==
  ASSUME NEW S \in SUBSET Nat, S # {}
  PROVE  \E m \in S : \A n \in S : m <= n
<1> DEFINE Below == {p \in Nat \X Nat : p[1] < p[2]}
<1>1. IsWellFoundedOn(Below, Nat)
  BY NatLessThanWellFounded DEF OpToRel
<1> HIDE DEF Below
<1>2. PICK m \in S : \A n \in S : <<n, m>> \notin Below
  BY <1>1, WFMin
<1>3. \A n \in S : ~ (n < m)
  BY <1>2 DEF Below
<1> QED BY <1>3

LEMMA InitIInv == Init => IInv
<1> SUFFICES ASSUME Init PROVE IInv
  OBVIOUS
<1> USE DEF Init
<1>1. plan \in Seq(Plan) /\ Len(plan) = 0 /\ DOMAIN plan = {}
  OBVIOUS
<1>2. DOMAIN timers_list = {} /\ DOMAIN tickets_list = {}
  OBVIOUS
<1>3. TypeOK
  <2>1. /\ lasttimerid \in Nat /\ now \in Nat /\ lastticket \in Nat
        /\ deadline \in Nat /\ time_now \in Nat /\ time_now <= now
        /\ current \in Nat /\ ahead \subseteq Nat /\ rc \in {0, -1}
    OBVIOUS
  <2>5. asked \in BOOLEAN /\ ticketdelay \in Nat \ {0}
    BY DelayAssumption
  <2>2. plan \in Seq(Plan) /\ Len(plan) = lasttimerid
    BY <1>1
  <2>3. /\ DOMAIN timers_list \subseteq DOMAIN plan
        /\ \A id \in DOMAIN timers_list : timers_list[id] \in NTimer
        /\ DOMAIN tickets_list \subseteq 1 .. lastticket
        /\ \A n \in DOMAIN tickets_list : tickets_list[n] \in NTicket
    BY <1>2
  <2>4. rpc = "new" /\ rpc \in ReactorPC
    BY DEF ReactorPC
  <2> HIDE DEF Init
  <2> QED BY <2>1, <2>2, <2>3, <2>4, <2>5 DEF TypeOK
<1>4. OnSchedule /\ WithinBudget /\ NeverOversleeps /\ TicketsInOrder
  BY <1>1, <1>2 DEF OnSchedule, WithinBudget, NeverOversleeps, TicketsInOrder
<1>5. CalledDue /\ AheadInv
  BY DEF CalledDue, AheadInv
<1> QED BY <1>3, <1>4, <1>5 DEF IInv

\* A new timer is on schedule, and its id is new.
LEMMA AppendTimerIInv ==
  ASSUME IInv, NEW d \in Delay, NEW k \in Times, AppendTimer(d, k)
  PROVE  IInv'
<1> USE DelayAssumption, TimesAssumption DEF IInv
<1> DEFINE id == lasttimerid + 1
           p  == [born |-> now, delay |-> d, times |-> k, done |-> 0]
           t  == [delay |-> d, when |-> now + d, repeattimes |-> k]
<1>1. /\ d \in Nat /\ d > 0 /\ k \in Nat /\ now \in Nat /\ lasttimerid \in Nat
      /\ p \in Plan /\ t \in NTimer
  BY DEF TypeOK, Plan, NTimer
<1>2. /\ plan' \in Seq(Plan) /\ Len(plan') = id
      /\ plan'[id] = p
      /\ \A i \in DOMAIN plan : plan'[i] = plan[i]
      /\ DOMAIN plan' = DOMAIN plan \cup {id}
      /\ id \notin DOMAIN plan
  <2>1. plan' = Append(plan, p)
    BY DEF AppendTimer
  <2>2. plan \in Seq(Plan) /\ Len(plan) = lasttimerid
    BY DEF TypeOK
  <2>3. plan' \in Seq(Plan) /\ Len(plan') = id
    BY <1>1, <2>1, <2>2
  <2>4. plan'[id] = p /\ \A i \in 1 .. lasttimerid : plan'[i] = plan[i]
    <3>1. p \in Plan /\ lasttimerid \in Nat
      BY <1>1
    <3> HIDE DEF p, IInv
    <3> QED BY <3>1, <2>1, <2>2
  <2>5. DOMAIN plan = 1 .. lasttimerid /\ DOMAIN plan' = 1 .. id
    BY <1>1, <2>2, <2>3
  <2> QED BY <1>1, <2>3, <2>4, <2>5
<1>3. /\ DOMAIN timers_list' = DOMAIN timers_list \cup {id}
      /\ timers_list'[id] = t
      /\ \A i \in DOMAIN timers_list : timers_list'[i] = timers_list[i]
  <2>1. id \notin DOMAIN timers_list
    BY <1>2 DEF TypeOK
  <2> QED BY <2>1 DEF AppendTimer, With
<1>4. UNCHANGED <<now, tickets_list, lastticket, ticketdelay, rpc, rc, pass, asked>>
  BY DEF AppendTimer
<1>5. rpc # "poll"
  BY DEF AppendTimer, MayCall, InHandler
<1>6. TypeOK'
  <2>1. \A i \in DOMAIN timers_list' : timers_list'[i] \in NTimer
    BY <1>1, <1>3 DEF TypeOK
  <2>2. lasttimerid' = id /\ id \in Nat
    BY <1>1 DEF AppendTimer
  <2>3. DOMAIN timers_list' \subseteq DOMAIN plan'
    BY <1>2, <1>3 DEF TypeOK
  <2> HIDE DEF id, p, t
  <2> QED BY <1>2, <2>1, <2>2, <2>3, <1>4 DEF TypeOK, pass
<1>7. OnSchedule'
  <2> SUFFICES ASSUME NEW i \in DOMAIN timers_list'
               PROVE  LET timer == timers_list'[i]  q == plan'[i]
                      IN  /\ timer.delay = q.delay
                          /\ timer.when = q.born + (q.done + 1) * q.delay
                          /\ q.times = 0 => timer.repeattimes = 0
                          /\ q.times # 0 => /\ timer.repeattimes = q.times - q.done
                                            /\ q.done < q.times
    BY DEF OnSchedule
  <2>1. CASE i = id
    BY <2>1, <1>1, <1>2, <1>3
  <2>2. CASE i \in DOMAIN timers_list
    BY <2>2, <1>2, <1>3 DEF OnSchedule, TypeOK
  <2> QED BY <2>1, <2>2, <1>3
<1>8. WithinBudget'
  <2> SUFFICES ASSUME NEW i \in DOMAIN plan'
               PROVE  /\ plan'[i].times # 0 => plan'[i].done <= plan'[i].times
                      /\ plan'[i].done * plan'[i].delay <= now' - plan'[i].born
    BY DEF WithinBudget
  <2>1. CASE i = id
    BY <2>1, <1>1, <1>2, <1>4
  <2>2. CASE i \in DOMAIN plan
    BY <2>2, <1>2, <1>4 DEF WithinBudget
  <2> QED BY <2>1, <2>2, <1>2
<1>9. NeverOversleeps' /\ TicketsInOrder'
  BY <1>4, <1>5 DEF NeverOversleeps, TicketsInOrder, Created
<1>10. CalledDue' /\ AheadInv'
  <2>1. lasttimerid' = id /\ lasttimerid \in Nat /\ current \in Nat
    BY <1>1 DEF AppendTimer, TypeOK
  <2>2. /\ rpc' = "timer_call" => current' <= lasttimerid /\ current' = current
        /\ time_now' = time_now /\ ahead' = ahead /\ rpc' = rpc
    BY <1>4 DEF AheadInv, pass
  <2>3. CalledDue'
    <3> HIDE DEF t, p
    <3>1. rpc' = "timer_call" => current' # id
      BY <2>1, <2>2
    <3> QED BY <1>3, <2>2, <3>1 DEF CalledDue
  <2>4. AheadInv'
    BY <2>1, <2>2, <1>4 DEF AheadInv, pass
  <2> QED BY <2>3, <2>4
<1> QED BY <1>6, <1>7, <1>8, <1>9, <1>10

\* A timer may be cancelled at any time; what is left of it is in ahead or
\* current only.
LEMMA RemoveTimerIInv ==
  ASSUME IInv, NEW id \in DOMAIN timers_list, RemoveTimer(id)
  PROVE  IInv'
<1> USE DEF IInv
<1>1. /\ DOMAIN timers_list' = DOMAIN timers_list \ {id}
      /\ \A i \in DOMAIN timers_list' : timers_list'[i] = timers_list[i]
  BY DEF RemoveTimer, Without
<1>2. UNCHANGED <<now, lasttimerid, tickets_list, lastticket, ticketdelay, rpc, rc,
                  deadline, time_now, current, ahead, plan, asked>>
  BY DEF RemoveTimer, pass
<1>3. rpc # "poll"
  BY DEF RemoveTimer, MayCall, InHandler
<1>4. TypeOK'
  BY <1>1, <1>2 DEF TypeOK
<1>5. OnSchedule'
  BY <1>1, <1>2 DEF OnSchedule
<1>6. WithinBudget'
  BY <1>2 DEF WithinBudget
<1>7. NeverOversleeps' /\ TicketsInOrder'
  BY <1>2, <1>3 DEF NeverOversleeps, TicketsInOrder, Created
<1>8. CalledDue' /\ AheadInv'
  BY <1>1, <1>2 DEF CalledDue, AheadInv
<1> QED BY <1>4, <1>5, <1>6, <1>7, <1>8

\* A new ticket is created last, whatever its delay.
LEMMA AppendTicketIInv ==
  ASSUME IInv, AppendTicket
  PROVE  IInv'
<1> USE DEF IInv
<1> DEFINE n == lastticket + 1
           t == [delay |-> ticketdelay, when |-> now + ticketdelay]
<1>1. /\ DOMAIN tickets_list' = DOMAIN tickets_list \cup {n}
      /\ tickets_list'[n] = t
      /\ n \notin DOMAIN tickets_list
      /\ \A i \in DOMAIN tickets_list : tickets_list'[i] = tickets_list[i] /\ i < n
  BY DEF AppendTicket, With, TypeOK
<1>2. /\ lastticket' = n
      /\ UNCHANGED <<now, timers_list, lasttimerid, ticketdelay, rpc, rc, deadline,
                     time_now, current, ahead, plan, asked>>
  BY DEF AppendTicket, pass
<1>3. rpc # "poll"
  BY DEF AppendTicket, MayCall, InHandler
<1>4. /\ t \in NTicket /\ t.when - t.delay = now
      /\ \A i \in DOMAIN tickets_list : tickets_list[i].when \in Nat /\ tickets_list[i].delay \in Nat
  BY DEF TypeOK, NTicket
<1>5. TypeOK'
  BY <1>1, <1>2, <1>4 DEF TypeOK
<1>6. OnSchedule' /\ WithinBudget' /\ CalledDue' /\ AheadInv'
  BY <1>2 DEF OnSchedule, WithinBudget, CalledDue, AheadInv
<1>7. NeverOversleeps'
  BY <1>2, <1>3 DEF NeverOversleeps
<1>8. TicketsInOrder'
  <2>1. /\ now \in Nat /\ now' = now
        /\ tickets_list'[n].when - tickets_list'[n].delay = now
        /\ \A i \in DOMAIN tickets_list :
             /\ tickets_list'[i].when - tickets_list'[i].delay <= now
             /\ n > i
    BY <1>1, <1>2, <1>4 DEF TicketsInOrder, Created, TypeOK
  <2> HIDE DEF n, t, IInv
  <2>2. \A i \in DOMAIN tickets_list : tickets_list[i] = tickets_list'[i]
    BY <1>1
  <2>3. \A i, j \in DOMAIN tickets_list : i <= j =>
          tickets_list'[i].when - tickets_list'[i].delay
            <= tickets_list'[j].when - tickets_list'[j].delay
    BY <2>2 DEF TicketsInOrder, Created, IInv
  <2>4. n \in Nat /\ DOMAIN tickets_list \subseteq Nat
    BY DEF n, IInv, TypeOK
  <2> QED BY <1>1, <2>1, <2>3, <2>4 DEF TicketsInOrder, Created
<1> QED BY <1>5, <1>6, <1>7, <1>8

\* The delay is that of later tickets.
LEMMA SetTicketDelayIInv ==
  ASSUME IInv, NEW ms \in TicketDelays, SetTicketDelay(ms)
  PROVE  IInv'
<1> USE DEF IInv
<1>1. UNCHANGED <<now, timers_list, lasttimerid, tickets_list, lastticket, rpc, rc,
                  deadline, time_now, current, ahead, plan, asked>>
  BY DEF SetTicketDelay, pass
<1>2. ticketdelay' \in Nat \ {0}
  BY DelayAssumption DEF SetTicketDelay
<1>3. TypeOK'
  BY <1>1, <1>2 DEF TypeOK
<1> QED BY <1>1, <1>3
        DEF OnSchedule, WithinBudget, NeverOversleeps, TicketsInOrder, Created,
            CalledDue, AheadInv

\* A call that was due takes its timer one delay further.
LEMMA TimerReturnsIInv ==
  ASSUME IInv, TimerReturns
  PROVE  IInv'
<1> USE DEF IInv
<1> DEFINE t == timers_list[current]
           p == plan[current]
<1>1. /\ current \in DOMAIN timers_list /\ current \in DOMAIN plan
      /\ t \in NTimer /\ p \in Plan
      /\ t.when <= time_now /\ time_now <= now
      /\ now \in Nat /\ time_now \in Nat
  BY DEF TimerReturns, TypeOK, CalledDue
<1>2. /\ t.delay = p.delay
      /\ t.when = p.born + (p.done + 1) * p.delay
      /\ p.times = 0 => t.repeattimes = 0
      /\ p.times # 0 => t.repeattimes = p.times - p.done /\ p.done < p.times
  BY <1>1 DEF OnSchedule
<1>3. /\ p.born \in Nat /\ p.delay \in Nat /\ p.times \in Nat /\ p.done \in Nat
      /\ t.repeattimes \in Nat /\ t.when \in Nat
  BY <1>1 DEF NTimer, Plan
<1>4. /\ plan' \in Seq(Plan) /\ Len(plan') = Len(plan)
      /\ DOMAIN plan' = DOMAIN plan
      /\ plan'[current] = [p EXCEPT !.done = @ + 1]
      /\ \A i \in DOMAIN plan : i # current => plan'[i] = plan[i]
  <2> DEFINE r == [p EXCEPT !.done = @ + 1]
  <2>1. plan' = [plan EXCEPT ![current] = r]
    BY <1>1 DEF TimerReturns
  <2>2. r \in Plan
    BY <1>1, <1>3 DEF Plan
  <2>3. plan \in Seq(Plan) /\ current \in 1 .. Len(plan)
    BY <1>1 DEF TypeOK
  <2> QED BY <2>1, <2>2, <2>3, ExceptSeq
<1>5. /\ plan'[current].born = p.born /\ plan'[current].delay = p.delay
      /\ plan'[current].times = p.times /\ plan'[current].done = p.done + 1
  BY <1>1, <1>4 DEF Plan
<1>6. UNCHANGED <<now, lasttimerid, tickets_list, lastticket, ticketdelay, deadline,
                  time_now, ahead, asked>>
      /\ rpc = "timer_call" /\ rpc' = "timers" /\ rc' = 0 /\ current' = 0
  BY DEF TimerReturns
<1>7. /\ DOMAIN timers_list' \subseteq DOMAIN timers_list
      /\ \A i \in DOMAIN timers_list : i # current =>
           i \in DOMAIN timers_list' /\ timers_list'[i] = timers_list[i]
  BY <1>1 DEF TimerReturns, Without
<1>8. current \in DOMAIN timers_list' =>
        /\ t.repeattimes # 1
        /\ timers_list'[current] =
             [delay |-> t.delay, when |-> t.when + t.delay,
              repeattimes |-> IF t.repeattimes = 0 THEN 0 ELSE t.repeattimes - 1]
  BY <1>1 DEF TimerReturns, Without, NTimer
<1>9. (p.done + 1 + 1) * p.delay = (p.done + 1) * p.delay + p.delay
  BY <1>3
<1>10. TypeOK'
  <2>2. \A i \in DOMAIN timers_list' : timers_list'[i] \in NTimer
    <3> SUFFICES ASSUME NEW i \in DOMAIN timers_list' PROVE timers_list'[i] \in NTimer
      OBVIOUS
    <3>1. i \in DOMAIN timers_list
      BY <1>7
    <3>2. CASE i = current
      <4>1. /\ t.delay \in Nat /\ t.when + t.delay \in Nat
            /\ (IF t.repeattimes = 0 THEN 0 ELSE t.repeattimes - 1) \in Nat
        BY <1>1, <1>3 DEF NTimer
      <4> QED BY <1>8, <3>2, <4>1 DEF NTimer
    <3>3. CASE i # current
      <4>1. timers_list[i] \in NTimer
        BY <3>1 DEF TypeOK
      <4> QED BY <1>7, <3>1, <3>3, <4>1
    <3> QED BY <3>2, <3>3
  <2> QED BY <2>2, <1>4, <1>6, <1>7 DEF TypeOK, ReactorPC
<1>11. OnSchedule'
  <2> SUFFICES ASSUME NEW i \in DOMAIN timers_list'
               PROVE  LET timer == timers_list'[i]  q == plan'[i]
                      IN  /\ timer.delay = q.delay
                          /\ timer.when = q.born + (q.done + 1) * q.delay
                          /\ q.times = 0 => timer.repeattimes = 0
                          /\ q.times # 0 => /\ timer.repeattimes = q.times - q.done
                                            /\ q.done < q.times
    BY DEF OnSchedule
  <2>1. CASE i = current
    <3>1. /\ timers_list'[i].delay = t.delay
          /\ timers_list'[i].when = t.when + t.delay
          /\ timers_list'[i].repeattimes =
               IF t.repeattimes = 0 THEN 0 ELSE t.repeattimes - 1
          /\ t.repeattimes # 1
      BY <2>1, <1>8
    <3>2. t.when + t.delay = p.born + (p.done + 1 + 1) * p.delay
      BY <1>2, <1>3, <1>9
    <3>3. /\ plan'[i].born = p.born /\ plan'[i].delay = p.delay
          /\ plan'[i].times = p.times /\ plan'[i].done = p.done + 1
      BY <2>1, <1>5
    <3>4. timers_list'[i].when = plan'[i].born + (plan'[i].done + 1) * plan'[i].delay
      BY <3>1, <3>2, <3>3
    <3>5. timers_list'[i].delay = plan'[i].delay
      BY <3>1, <3>3, <1>2
    <3>6. /\ p.times = 0 => timers_list'[i].repeattimes = 0
          /\ p.times # 0 => /\ timers_list'[i].repeattimes = p.times - (p.done + 1)
                            /\ p.done + 1 < p.times
      <4>1. /\ p.times = 0 => t.repeattimes = 0
            /\ p.times # 0 => t.repeattimes = p.times - p.done /\ p.done < p.times
        BY <1>2
      <4> HIDE DEF t, p
      <4> QED BY <3>1, <4>1, <1>3
    <3> QED BY <3>3, <3>4, <3>5, <3>6
  <2>2. CASE i # current
    BY <2>2, <1>4, <1>7 DEF OnSchedule, TypeOK
  <2> QED BY <2>1, <2>2
<1>12. WithinBudget'
  <2> SUFFICES ASSUME NEW i \in DOMAIN plan'
               PROVE  /\ plan'[i].times # 0 => plan'[i].done <= plan'[i].times
                      /\ plan'[i].done * plan'[i].delay <= now' - plan'[i].born
    BY DEF WithinBudget
  <2>1. CASE i = current
    BY <2>1, <1>1, <1>2, <1>3, <1>5, <1>6
  <2>2. CASE i # current
    BY <2>2, <1>4, <1>6 DEF WithinBudget
  <2> QED BY <2>1, <2>2
<1>13. NeverOversleeps' /\ TicketsInOrder' /\ CalledDue' /\ AheadInv'
  BY <1>6 DEF NeverOversleeps, TicketsInOrder, Created, CalledDue, AheadInv
<1> QED BY <1>10, <1>11, <1>12, <1>13

\* The deadline is no later than any timer, nor than the first ticket, which was
\* created before every other.
LEMMA TicklessIInv ==
  ASSUME IInv, Tickless
  PROVE  IInv'
<1> USE LimitAssumption DEF IInv
<1>1. /\ UNCHANGED <<now, timers_list, lasttimerid, tickets_list, lastticket,
                     ticketdelay, rc, time_now, current, ahead, plan, asked>>
      /\ rpc' = "poll"
  BY DEF Tickless, lists
<1> DEFINE whens == {timers_list[id].when : id \in DOMAIN timers_list}
           first == {tickets_list[n].when : n \in {m \in DOMAIN tickets_list :
                                                    Least(m, DOMAIN tickets_list)}}
           all   == whens \cup first \cup {now + MaxPoll}
<1>2. deadline' \in all /\ \A w \in all : deadline' <= w
  BY DEF Tickless, Least
<1>3. now + MaxPoll \in Nat /\ all \subseteq Nat
  BY DEF TypeOK, NTimer, NTicket
<1>4. TypeOK'
  BY <1>1, <1>2, <1>3 DEF TypeOK, ReactorPC
<1>5. \A id \in DOMAIN timers_list : deadline' <= timers_list[id].when
  BY <1>2
<1>6. ASSUME NEW n \in DOMAIN tickets_list
      PROVE  \E m \in DOMAIN tickets_list :
               /\ m <= n
               /\ deadline' <= tickets_list[n].when + tickets_list[m].delay
                                 - tickets_list[n].delay
  <2>1. DOMAIN tickets_list \subseteq Nat
    BY DEF TypeOK
  <2>2. PICK m \in DOMAIN tickets_list : Least(m, DOMAIN tickets_list)
    BY <2>1, <1>6, LeastOfNat DEF Least
  <2>3. tickets_list[m].when \in all
    BY <2>2
  <2>4. deadline' <= tickets_list[m].when /\ m <= n /\ Created(m) <= Created(n)
    BY <1>2, <2>2, <2>3 DEF TicketsInOrder, Least
  <2>5. /\ deadline' \in Nat
        /\ tickets_list[m].when \in Nat /\ tickets_list[m].delay \in Nat
        /\ tickets_list[n].when \in Nat /\ tickets_list[n].delay \in Nat
    BY <1>2, <1>3 DEF TypeOK, NTicket
  <2> HIDE DEF IInv, all
  <2>6. deadline' <= tickets_list[n].when + tickets_list[m].delay - tickets_list[n].delay
    BY <2>4, <2>5 DEF Created
  <2> QED BY <2>4, <2>6
<1>7. NeverOversleeps'
  BY <1>1, <1>5, <1>6 DEF NeverOversleeps
<1>8. OnSchedule' /\ WithinBudget' /\ TicketsInOrder'
  BY <1>1 DEF OnSchedule, WithinBudget, TicketsInOrder, Created
<1>9. CalledDue' /\ AheadInv'
  BY <1>1 DEF CalledDue, AheadInv
<1> QED BY <1>4, <1>7, <1>8, <1>9

\* A called ticket is deleted; the order of the others stays.
LEMMA TicketReturnsIInv ==
  ASSUME IInv, TicketReturns
  PROVE  IInv'
<1> USE DEF IInv
<1>1. /\ DOMAIN tickets_list' = DOMAIN tickets_list \ {current}
      /\ \A n \in DOMAIN tickets_list' : tickets_list'[n] = tickets_list[n]
  BY DEF TicketReturns, Without
<1>2. /\ UNCHANGED <<now, timers_list, lasttimerid, lastticket, ticketdelay,
                     deadline, time_now, ahead, plan, asked>>
      /\ rpc = "ticket_call" /\ rpc' = "tickets" /\ rc' = 0 /\ current' = 0
  BY DEF TicketReturns
<1>3. ahead \subseteq DOMAIN tickets_list'
  BY <1>1, <1>2 DEF TypeOK, AheadInv
<1>4. TypeOK'
  BY <1>1, <1>2, <1>3 DEF TypeOK, ReactorPC
<1>5. OnSchedule' /\ WithinBudget' /\ NeverOversleeps' /\ CalledDue' /\ AheadInv'
  BY <1>2 DEF OnSchedule, WithinBudget, NeverOversleeps, CalledDue, AheadInv
<1>6. TicketsInOrder'
  BY <1>1, <1>2 DEF TicketsInOrder, Created
<1> QED BY <1>4, <1>5, <1>6

\* The steps that leave both lists and the history of calls alone.
LEMMA OtherIInv ==
  ASSUME IInv,
         \/ Tick \/ Start \/ LoopExit \/ PollReturns \/ TimerFinishes \/ TimersDone
         \/ TicketFinishes \/ TicketsDone \/ SocketsReturn \/ TouchDeleted
         \/ \E id \in ahead : CallTimer(id) \/ CallTicket(id)
         \/ UNCHANGED vars
  PROVE  IInv'
<1> USE BoundAssumption, DelayAssumption DEF IInv
<1>1. /\ UNCHANGED <<timers_list, lasttimerid, tickets_list, lastticket, ticketdelay, plan>>
      /\ now' \in Nat /\ now <= now'
  BY DEF Tick, Start, LoopExit, PollReturns, TimerFinishes, TimersDone,
         TicketFinishes, TicketsDone, SocketsReturn, TouchDeleted, CallTimer,
         CallTicket, vars, lists, TypeOK
<1>2. OnSchedule' /\ WithinBudget' /\ TicketsInOrder'
  <2>1. OnSchedule'
    BY <1>1 DEF OnSchedule
  <2>2. WithinBudget'
    <3> SUFFICES ASSUME NEW id \in DOMAIN plan
                 PROVE  plan[id].done * plan[id].delay <= now' - plan[id].born
      BY <1>1 DEF WithinBudget
    <3>1. plan[id] \in Plan
      BY DEF TypeOK
    <3>2. /\ plan[id].born \in Nat /\ now \in Nat
          /\ plan[id].done * plan[id].delay \in Nat
      <4>1. now \in Nat
        BY DEF TypeOK
      <4> HIDE DEF IInv
      <4>2. plan[id].born \in Nat /\ plan[id].done \in Nat /\ plan[id].delay \in Nat
        BY <3>1 DEF Plan
      <4>3. \A x, y \in Nat : x * y \in Nat
        OBVIOUS
      <4> QED BY <4>1, <4>2, <4>3
    <3>3. plan[id].done * plan[id].delay <= now - plan[id].born
      BY DEF WithinBudget
    <3> HIDE DEF IInv
    <3> QED BY <1>1, <3>2, <3>3
  <2>3. TicketsInOrder'
    <3>1. \A n \in DOMAIN tickets_list : Created(n) \in Int /\ Created(n) <= now
      BY DEF TicketsInOrder, Created, TypeOK, NTicket
    <3>2. \A n \in DOMAIN tickets_list : Created(n)' = Created(n)
      BY <1>1 DEF Created
    <3>3. \A n \in DOMAIN tickets_list : Created(n)' <= now'
      <4>1. now \in Nat
        BY DEF TypeOK
      <4> HIDE DEF IInv
      <4> QED BY <1>1, <3>1, <3>2, <4>1
    <3> QED BY <1>1, <3>2, <3>3 DEF TicketsInOrder
  <2> QED BY <2>1, <2>2, <2>3
<1> USE DEF lists, pass
<1>3. CASE Tick
  <2>1. TypeOK'
    BY <1>3 DEF Tick, TypeOK
  <2>2. NeverOversleeps' /\ CalledDue' /\ AheadInv'
    BY <1>3 DEF Tick, NeverOversleeps, CalledDue, AheadInv
  <2> QED BY <1>2, <2>1, <2>2
<1>4. CASE Start \/ LoopExit \/ TouchDeleted
  <2>1. TypeOK'
    BY <1>4 DEF Start, LoopExit, TouchDeleted, TypeOK, ReactorPC
  <2>2. NeverOversleeps' /\ CalledDue' /\ AheadInv'
    BY <1>4 DEF Start, LoopExit, TouchDeleted, NeverOversleeps, CalledDue, AheadInv
  <2> QED BY <1>2, <2>1, <2>2
<1>5. CASE PollReturns
  <2>1. DOMAIN timers_list \subseteq Nat
    BY DEF TypeOK
  <2>2. TypeOK'
    BY <1>5, <2>1 DEF PollReturns, TypeOK, ReactorPC
  <2>3. NeverOversleeps' /\ CalledDue' /\ AheadInv'
    BY <1>5 DEF PollReturns, NeverOversleeps, CalledDue, AheadInv
  <2> QED BY <1>2, <2>2, <2>3
<1>6. CASE TimerFinishes \/ TimersDone
  <2>1. DOMAIN tickets_list \subseteq Nat
    BY DEF TypeOK
  <2>2. TypeOK'
    <3>1. CASE TimerFinishes
      BY <3>1, <2>1 DEF TimerFinishes, TypeOK, ReactorPC
    <3>2. CASE TimersDone
      BY <3>2, <2>1 DEF TimersDone, TypeOK, ReactorPC
    <3> QED BY <1>6, <3>1, <3>2
  <2>3. NeverOversleeps' /\ CalledDue' /\ AheadInv'
    BY <1>6 DEF TimerFinishes, TimersDone, NeverOversleeps, CalledDue, AheadInv
  <2> QED BY <1>2, <2>2, <2>3
<1>7. CASE TicketFinishes
  <2>1. TypeOK'
    BY <1>7 DEF TicketFinishes, TypeOK, ReactorPC
  <2>2. NeverOversleeps' /\ CalledDue' /\ AheadInv'
    BY <1>7 DEF TicketFinishes, NeverOversleeps, CalledDue, AheadInv
  <2> QED BY <1>2, <2>1, <2>2
<1>8. CASE TicketsDone
  <2>1. rpc' \in {"done", "socket_call", "top"}
    BY <1>8 DEF TicketsDone
  <2>2. TypeOK'
    BY <1>8, <2>1 DEF TicketsDone, TypeOK, ReactorPC
  <2>3. NeverOversleeps' /\ CalledDue' /\ AheadInv'
    BY <2>1 DEF NeverOversleeps, CalledDue, AheadInv
  <2> QED BY <1>2, <2>2, <2>3
<1>9. CASE SocketsReturn
  <2>1. rpc' \in {"done", "top"}
    BY <1>9 DEF SocketsReturn
  <2>2. asked' \in BOOLEAN
    BY <1>9 DEF SocketsReturn, TypeOK
  <2>3. TypeOK'
    BY <1>9, <2>1, <2>2 DEF SocketsReturn, TypeOK, ReactorPC
  <2>4. NeverOversleeps' /\ CalledDue' /\ AheadInv'
    BY <2>1 DEF NeverOversleeps, CalledDue, AheadInv
  <2> QED BY <1>2, <2>3, <2>4
<1>10. ASSUME NEW id \in ahead, CallTimer(id) PROVE IInv'
  <2>1. /\ id \in DOMAIN timers_list /\ time_now >= timers_list[id].when
        /\ id \in Nat
    BY <1>10 DEF CallTimer, DueTimers, Deleted, Least, TypeOK
  <2>2. timers_list[id].when \in Nat /\ time_now \in Nat
    BY <2>1 DEF TypeOK, NTimer
  <2>3. TypeOK'
    BY <1>10, <2>1 DEF CallTimer, TypeOK, ReactorPC
  <2>5. id <= lasttimerid
    <3>1. plan \in Seq(Plan) /\ Len(plan) = lasttimerid /\ DOMAIN timers_list \subseteq DOMAIN plan
      BY DEF TypeOK
    <3> HIDE DEF IInv
    <3> QED BY <2>1, <3>1
  <2>4. NeverOversleeps' /\ CalledDue' /\ AheadInv'
    BY <1>10, <2>1, <2>2, <2>5 DEF CallTimer, NeverOversleeps, CalledDue, AheadInv
  <2> QED BY <1>2, <2>3, <2>4
<1>11. ASSUME NEW n \in ahead, CallTicket(n) PROVE IInv'
  <2>1. n \in DOMAIN tickets_list /\ n \in Nat
    BY <1>11 DEF CallTicket, DueTickets, Least, TypeOK
  <2>2. TypeOK'
    BY <1>11, <2>1 DEF CallTicket, TypeOK, ReactorPC
  <2>3. NeverOversleeps' /\ CalledDue' /\ AheadInv'
    BY <1>11 DEF CallTicket, NeverOversleeps, CalledDue, AheadInv
  <2> QED BY <1>2, <2>2, <2>3
<1>12. CASE UNCHANGED vars
  <2>1. TypeOK' /\ NeverOversleeps' /\ CalledDue' /\ AheadInv'
    BY <1>12 DEF vars, TypeOK, NeverOversleeps, CalledDue, AheadInv
  <2> QED BY <1>2, <2>1
<1> QED BY <1>3, <1>4, <1>5, <1>6, <1>7, <1>8, <1>9, <1>10, <1>11, <1>12

LEMMA NextIInv == IInv /\ [Next]_vars => IInv'
<1> SUFFICES ASSUME IInv, [Next]_vars PROVE IInv'
  OBVIOUS
<1>1. ASSUME NEW d \in Delay, NEW k \in Times, AppendTimer(d, k) PROVE IInv'
  BY <1>1, AppendTimerIInv
<1>2. ASSUME NEW id \in DOMAIN timers_list, RemoveTimer(id) PROVE IInv'
  BY <1>2, RemoveTimerIInv
<1>3. CASE AppendTicket
  BY <1>3, AppendTicketIInv
<1>4. CASE Tickless
  BY <1>4, TicklessIInv
<1>5. CASE TimerReturns
  BY <1>5, TimerReturnsIInv
<1>6. CASE TicketReturns
  BY <1>6, TicketReturnsIInv
<1>8. ASSUME NEW ms \in TicketDelays, SetTicketDelay(ms) PROVE IInv'
  BY <1>8, SetTicketDelayIInv
<1>7. CASE \/ Tick \/ Start \/ LoopExit \/ PollReturns \/ TimerFinishes \/ TimersDone
           \/ TicketFinishes \/ TicketsDone \/ SocketsReturn \/ TouchDeleted
           \/ \E id \in ahead : CallTimer(id) \/ CallTicket(id)
           \/ UNCHANGED vars
  BY <1>7, OtherIInv
<1> QED BY <1>1, <1>2, <1>3, <1>4, <1>5, <1>6, <1>7, <1>8 DEF Next, Call, Run

-----------------------------------------------------------------------------
(***************************************************************************)
(* The theorems.                                                           *)
(***************************************************************************)

\* The inductive invariant holds in every reachable state.
THEOREM Invariance == Spec => []IInv
<1>1. Init => IInv
  BY InitIInv
<1>2. IInv /\ [Next]_vars => IInv'
  BY NextIInv
<1> QED BY <1>1, <1>2, PTL DEF Spec

\* All state has its type, whichever timers the handlers delete: ids are never
\* given twice, and a called ticket is one of the list (run, appendTimer,
\* deleteTicket).
THEOREM TypeCorrect == Spec => []TypeOK
<1>1. IInv => TypeOK
  BY DEF IInv
<1> QED BY <1>1, Invariance, PTL

\* Timers never drift (the when += delay of run).
THEOREM TimersOnSchedule == Spec => []OnSchedule
<1>1. IInv => OnSchedule
  BY DEF IInv
<1> QED BY <1>1, Invariance, PTL

\* No timer is called too often or too fast (run, removeTimer).
THEOREM TimersWithinBudget == Spec => []WithinBudget
<1>1. IInv => WithinBudget
  BY DEF IInv
<1> QED BY <1>1, Invariance, PTL

\* The sleep covers every timer, and a ticket up to the difference between the
\* delays setTicketDelay gave an earlier ticket and this one (tickless).
THEOREM SleepsNoLonger == Spec => []NeverOversleeps
<1>1. IInv => NeverOversleeps
  BY DEF IInv
<1> QED BY <1>1, Invariance, PTL
=============================================================================
