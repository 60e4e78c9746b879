---------------------------- MODULE MdpBrokerProofs ----------------------------
(***************************************************************************)
(* Theorems about MdpBroker, for any workers, services, commands, times and*)
(* number of requests: its lists agree and stay in order, no worker idles  *)
(* while a request of its service waits, each request goes to one worker,  *)
(* whose turn it is, and who the broker gives up has been silent for the   *)
(* expiry -- except near midnight.                                         *)
(***************************************************************************)
EXTENDS MdpBroker, ListsProofs

\* Only a worker whose READY came and whose DISCONNECT did not is known.
PeerInv == \A w \in Known : peer[w] = "joined"

\* Unless its expiry is past midnight, a worker's expiry is an expiry after its
\* last sign of life.
ClockInv ==
  \A w \in Known :
    /\ ls_workers[w].expiry >= HEARTBEAT_EXPIRY
    /\ ls_workers[w].age < HEARTBEAT_EXPIRY
    => now = ls_workers[w].expiry - HEARTBEAT_EXPIRY + ls_workers[w].age

IInv == /\ TypeOK /\ PeerInv /\ ClockInv
        /\ ListsAgree /\ NoIdleWithWork /\ WaitingsOldestFirst

\* A list of workers in the order of their last sign of life.
OldestFirst(q, workers) ==
  \A i, j \in DOMAIN q : i < j => workers[q[i]].age >= workers[q[j]].age

-----------------------------------------------------------------------------
(***************************************************************************)
(* What removing workers from a list leaves.                               *)
(***************************************************************************)

LEMMA ListedIn ==
  ASSUME NEW T, NEW q \in Seq(T)
  PROVE  /\ Listed(q) \subseteq T
         /\ Len(q) \in Nat /\ DOMAIN q = 1 .. Len(q)
         /\ \A i \in DOMAIN q : q[i] \in T /\ q[i] \in Listed(q)
         /\ q = <<>> <=> Listed(q) = {}
<1>1. Len(q) \in Nat /\ DOMAIN q = 1 .. Len(q) /\ q \in [1 .. Len(q) -> T]
  BY LenProperties
<1>2. q = <<>> <=> Len(q) = 0
  BY EmptySeq
<1>3. Listed(q) = {} <=> Len(q) = 0
  <2>1. Len(q) = 0 => DOMAIN q = {}
    BY <1>1
  <2>2. Len(q) # 0 => 1 \in DOMAIN q /\ q[1] \in Listed(q)
    BY <1>1 DEF Listed
  <2>3. DOMAIN q = {} => Listed(q) = {}
    BY DEF Listed
  <2> QED BY <2>1, <2>2, <2>3
<1> QED BY <1>1, <1>2, <1>3 DEF Listed

LEMMA WithoutLists ==
  ASSUME NEW T, NEW q \in Seq(T), NEW S
  PROVE  /\ Without(q, S) \in Seq(T)
         /\ Listed(Without(q, S)) = Listed(q) \ S
         /\ \E f \in [DOMAIN Without(q, S) -> DOMAIN q] :
              /\ \A k \in DOMAIN Without(q, S) : Without(q, S)[k] = q[f[k]]
              /\ \A i, j \in DOMAIN Without(q, S) : i < j => f[i] < f[j]
BY WithoutOf DEF Listed, Elements

LEMMA EnumeratesWithout ==
  ASSUME NEW T, NEW q \in Seq(T), NEW S, NEW A, Enumerates(q, A)
  PROVE  Enumerates(Without(q, S), A \ S)
<1> DEFINE r == Without(q, S)
<1>1. /\ r \in Seq(T) /\ Listed(r) = Listed(q) \ S
      /\ \E f \in [DOMAIN r -> DOMAIN q] :
           /\ \A k \in DOMAIN r : r[k] = q[f[k]]
           /\ \A i, j \in DOMAIN r : i < j => f[i] < f[j]
  BY WithoutLists
<1> HIDE DEF r
<1>2. PICK f \in [DOMAIN r -> DOMAIN q] :
           /\ \A k \in DOMAIN r : r[k] = q[f[k]]
           /\ \A i, j \in DOMAIN r : i < j => f[i] < f[j]
  BY <1>1
<1>3. ASSUME NEW i \in DOMAIN r, NEW j \in DOMAIN r, r[i] = r[j] PROVE i = j
  <2>1. f[i] = f[j]
    BY <1>2, <1>3 DEF Enumerates
  <2>2. i \in Int /\ j \in Int /\ f[i] \in Int /\ f[j] \in Int
    BY <1>1, ListedIn
  <2>3. ~(i < j) /\ ~(j < i)
    BY <1>2, <2>1, <2>2
  <2> QED BY <2>2, <2>3
<1> QED BY <1>1, <1>3 DEF Enumerates, r

LEMMA EnumeratesAppend ==
  ASSUME NEW T, NEW q \in Seq(T), NEW e \in T, NEW A, Enumerates(q, A), e \notin A
  PROVE  Append(q, e) \in Seq(T) /\ Enumerates(Append(q, e), A \cup {e})
<1> DEFINE r == Append(q, e)
<1>1. /\ r \in Seq(T) /\ Len(q) \in Nat /\ DOMAIN q = 1 .. Len(q)
      /\ DOMAIN r = 1 .. (Len(q) + 1)
      /\ \A i \in 1 .. Len(q) : r[i] = q[i]
      /\ r[Len(q) + 1] = e
  BY AppendProperties, LenProperties
<1> HIDE DEF r
<1>2. Listed(r) = Listed(q) \cup {e}
  BY <1>1 DEF Listed
<1>3. \A i \in DOMAIN q : q[i] # e
  BY DEF Enumerates, Listed
<1>4. \A i, j \in DOMAIN r : r[i] = r[j] => i = j
  BY <1>1, <1>3 DEF Enumerates
<1> QED BY <1>1, <1>2, <1>4 DEF Enumerates, r

\* The order of a list outlives a removal, a newcomer at its end, and a change
\* of ages that keeps their order.
LEMMA OldestWithout ==
  ASSUME NEW T, NEW q \in Seq(T), NEW S, NEW workers, OldestFirst(q, workers)
  PROVE  OldestFirst(Without(q, S), workers)
<1> DEFINE r == Without(q, S)
<1>1. \E f \in [DOMAIN r -> DOMAIN q] :
           /\ \A k \in DOMAIN r : r[k] = q[f[k]]
           /\ \A i, j \in DOMAIN r : i < j => f[i] < f[j]
  BY WithoutLists
<1> HIDE DEF r
<1> QED BY <1>1 DEF OldestFirst, r

LEMMA OldestAppend ==
  ASSUME NEW T, NEW q \in Seq(T), NEW e \in T, NEW workers, OldestFirst(q, workers),
         \A i \in DOMAIN q : workers[q[i]].age >= workers[e].age
  PROVE  OldestFirst(Append(q, e), workers)
<1> DEFINE r == Append(q, e)
<1>1. /\ Len(q) \in Nat /\ DOMAIN q = 1 .. Len(q)
      /\ DOMAIN r = 1 .. (Len(q) + 1)
      /\ \A i \in 1 .. Len(q) : r[i] = q[i]
      /\ r[Len(q) + 1] = e
  BY AppendProperties, LenProperties
<1> HIDE DEF r
<1>2. \A i, j \in DOMAIN r :
        i < j => i \in DOMAIN q /\ (j \in DOMAIN q \/ j = Len(q) + 1)
  BY <1>1
<1>3. \A i, j \in DOMAIN r : i < j => workers[r[i]].age >= workers[r[j]].age
  BY <1>1, <1>2 DEF OldestFirst
<1> QED BY <1>3 DEF OldestFirst, r

LEMMA OldestSame ==
  ASSUME NEW T, NEW q \in Seq(T), NEW workers, NEW others, OldestFirst(q, workers),
         \A v, w \in Listed(q) :
           workers[v].age >= workers[w].age => others[v].age >= others[w].age
  PROVE  OldestFirst(q, others)
  BY ListedIn DEF OldestFirst

-----------------------------------------------------------------------------
(***************************************************************************)
(* What a dispatch does to the lists.                                      *)
(***************************************************************************)

LEMMA RemainderOf ==
  ASSUME NEW n \in Nat, NEW size \in Nat \ {0}
  PROVE  n % size \in 0 .. (size - 1)
  OBVIOUS

LEMMA RotateOf ==
  ASSUME NEW T, NEW q \in Seq(T), q # <<>>, NEW n \in Nat
  PROVE  /\ Rotate(q, n) \in Seq(T)
         /\ \A A : Enumerates(q, A) => Enumerates(Rotate(q, n), A)
<1> DEFINE size == Len(q)
           shift == n % size
           g(i) == IF i + shift <= size THEN i + shift ELSE i + shift - size
           r == Rotate(q, n)
<1>1. size \in Nat \ {0} /\ DOMAIN q = 1 .. size /\ q \in [1 .. size -> T]
  BY LenProperties, EmptySeq
<1>2. shift \in 0 .. (size - 1)
  BY <1>1, RemainderOf
<1>3. r = [i \in 1 .. size |-> q[g(i)]]
  BY DEF Rotate
<1> HIDE DEF size, shift, r
<1>4. \A i \in 1 .. size : g(i) \in 1 .. size
  BY <1>1, <1>2
<1>5. \A i, j \in 1 .. size : g(i) = g(j) => i = j
  BY <1>1, <1>2
<1>6. \A k \in 1 .. size : \E i \in 1 .. size : g(i) = k
  <2> SUFFICES ASSUME NEW k \in 1 .. size PROVE \E i \in 1 .. size : g(i) = k
    OBVIOUS
  <2>1. CASE k > shift
    <3>1. k - shift \in 1 .. size /\ g(k - shift) = k
      BY <1>1, <1>2, <2>1
    <3> QED BY <3>1
  <2>2. CASE ~(k > shift)
    <3>1. k - shift + size \in 1 .. size /\ g(k - shift + size) = k
      BY <1>1, <1>2, <2>2
    <3> QED BY <3>1
  <2> QED BY <2>1, <2>2
<1> HIDE DEF g
<1>7. r \in Seq(T) /\ DOMAIN r = 1 .. size /\ \A i \in 1 .. size : r[i] = q[g(i)]
  <2>1. r \in [1 .. size -> T]
    BY <1>1, <1>3, <1>4
  <2> QED BY <1>1, <1>3, <2>1, SeqDef
<1>8. Listed(r) = Listed(q)
  <2>1. \A i \in DOMAIN r : \E k \in DOMAIN q : r[i] = q[k]
    BY <1>1, <1>4, <1>7
  <2>2. \A k \in DOMAIN q : \E i \in DOMAIN r : r[i] = q[k]
    BY <1>1, <1>6, <1>7
  <2> QED BY <2>1, <2>2 DEF Listed
<1>9. ASSUME NEW A, Enumerates(q, A) PROVE Enumerates(r, A)
  <2>1. \A i, j \in DOMAIN r : r[i] = r[j] => i = j
    BY <1>1, <1>4, <1>5, <1>7, <1>9 DEF Enumerates
  <2> QED BY <1>8, <1>9, <2>1 DEF Enumerates
<1> QED BY <1>7, <1>9 DEF r

LEMMA DeliverOf ==
  ASSUME NEW q \in Seq(Worker), q # <<>>, NEW queue \in Seq(1 .. MaxRequest)
  PROVE  Deliver(q, queue) \in Seq(LogEntry)
<1>1. Len(q) \in Nat \ {0} /\ DOMAIN q = 1 .. Len(q) /\ q \in [1 .. Len(q) -> Worker]
  BY LenProperties, EmptySeq
<1>2. Len(queue) \in Nat /\ queue \in [1 .. Len(queue) -> 1 .. MaxRequest]
  BY LenProperties
<1>3. \A i \in 1 .. Len(queue) : Turn(q, i) \in Worker
  <2> SUFFICES ASSUME NEW i \in 1 .. Len(queue) PROVE Turn(q, i) \in Worker
    OBVIOUS
  <2>1. i - 1 \in Nat
    BY <1>2
  <2>2. (i - 1) % Len(q) \in 0 .. (Len(q) - 1)
    BY <1>1, <2>1, RemainderOf
  <2>3. ((i - 1) % Len(q)) + 1 \in 1 .. Len(q)
    BY <1>1, <2>2
  <2> QED BY <1>1, <2>3 DEF Turn
<1>4. Deliver(q, queue) \in [1 .. Len(queue) -> LogEntry]
  BY <1>2, <1>3 DEF Deliver, LogEntry
<1> QED BY <1>2, <1>4, SeqDef

LEMMA DispatchOf ==
  ASSUME NEW s \in Service, NEW lists \in [Service -> Seq(Worker)],
         NEW queue \in Seq(1 .. MaxRequest), NEW gone, NEW A,
         requests \in [Service -> Seq(1 .. MaxRequest)], log \in Seq(LogEntry),
         \A t \in Service : Enumerates(lists[t], A[t]),
         \A t \in Service \ {s} : lists[t] = <<>> \/ requests[t] = <<>>,
         Dispatch(s, lists, queue, gone)
  PROVE  /\ waiting' \in [Service -> Seq(Worker)]
         /\ requests' \in [Service -> Seq(1 .. MaxRequest)]
         /\ log' \in Seq(LogEntry)
         /\ \A t \in Service : Enumerates(waiting'[t], A[t] \ gone)
         /\ \A t \in Service : waiting'[t] = <<>> \/ requests'[t] = <<>>
<1> DEFINE kept == [t \in Service |-> Without(lists[t], gone)]
<1>1. kept \in [Service -> Seq(Worker)]
  BY WithoutLists
<1>2. \A t \in Service : Enumerates(kept[t], A[t] \ gone)
  BY EnumeratesWithout
<1>3. \A t \in Service \ {s} : kept[t] = <<>> \/ requests[t] = <<>>
  <2> SUFFICES ASSUME NEW t \in Service, lists[t] = <<>> PROVE kept[t] = <<>>
    OBVIOUS
  <2>1. Listed(kept[t]) = Listed(lists[t]) \ gone
    BY WithoutLists
  <2> HIDE DEF kept
  <2>2. lists[t] \in Seq(Worker) /\ kept[t] \in Seq(Worker)
    BY <1>1
  <2>3. Listed(lists[t]) = {}
    BY DEF Listed
  <2>4. Listed(kept[t]) = {}
    BY <2>1, <2>3
  <2> QED BY <2>2, <2>4, ListedIn
<1>4. <<>> \in Seq(1 .. MaxRequest)
  BY EmptySeq
<1>5. \/ /\ kept[s] = <<>>
         /\ waiting' = kept
         /\ requests' = [requests EXCEPT ![s] = queue]
         /\ log' = log
      \/ /\ kept[s] # <<>>
         /\ waiting' = [kept EXCEPT ![s] = Rotate(kept[s], Len(queue))]
         /\ requests' = [requests EXCEPT ![s] = <<>>]
         /\ log' = log \o Deliver(kept[s], queue)
  BY DEF Dispatch
<1> HIDE DEF kept
<1>6. CASE kept[s] = <<>>
  <2>1. waiting' = kept /\ requests' = [requests EXCEPT ![s] = queue] /\ log' = log
    BY <1>5, <1>6
  <2>2. requests' \in [Service -> Seq(1 .. MaxRequest)]
    BY <2>1
  <2>3. \A t \in Service : waiting'[t] = <<>> \/ requests'[t] = <<>>
    BY <1>3, <1>6, <2>1
  <2> QED BY <1>1, <1>2, <2>1, <2>2, <2>3
<1>7. CASE kept[s] # <<>>
  <2> DEFINE turned == Rotate(kept[s], Len(queue))
             sent   == Deliver(kept[s], queue)
  <2>1. /\ waiting' = [kept EXCEPT ![s] = turned]
        /\ requests' = [requests EXCEPT ![s] = <<>>]
        /\ log' = log \o sent
    BY <1>5, <1>7
  <2>2. Len(queue) \in Nat /\ kept[s] \in Seq(Worker)
    BY <1>1, LenProperties
  <2>3. turned \in Seq(Worker) /\ Enumerates(turned, A[s] \ gone)
    BY <1>2, <1>7, <2>2, RotateOf
  <2>4. sent \in Seq(LogEntry)
    BY <1>7, <2>2, DeliverOf
  <2> HIDE DEF turned, sent
  <2>5. log' \in Seq(LogEntry)
    BY <2>1, <2>4, ConcatProperties
  <2>6. waiting' \in [Service -> Seq(Worker)] /\ requests' \in [Service -> Seq(1 .. MaxRequest)]
    BY <1>1, <1>4, <2>1, <2>3
  <2>7. \A t \in Service : Enumerates(waiting'[t], A[t] \ gone)
    BY <1>1, <1>2, <2>1, <2>3
  <2>8. \A t \in Service : waiting'[t] = <<>> \/ requests'[t] = <<>>
    BY <1>1, <1>3, <2>1
  <2> QED BY <2>5, <2>6, <2>7, <2>8
<1> QED BY <1>6, <1>7

-----------------------------------------------------------------------------
(***************************************************************************)
(* Times, and the table of workers.                                        *)
(***************************************************************************)

LEMMA ExpiryOf ==
  /\ HEARTBEAT_EXPIRY \in Nat \ {0} /\ HEARTBEAT_EXPIRY < Day
  /\ Interval \in Nat /\ Interval < Day /\ Day \in Nat
<1>1. Interval \in Nat \ {0} /\ Liveness \in Nat \ {0} /\ Day \in Nat
  BY TimeAssumption
<1>2. Interval * Liveness \in Nat /\ Interval <= Interval * Liveness
  BY <1>1
<1> QED BY <1>1, <1>2, TimeAssumption DEF HEARTBEAT_EXPIRY

LEMMA AddTimeOf ==
  ASSUME NEW t \in Time, NEW d \in Nat, d < Day
  PROVE  AddTime(t, d) \in Time
  BY ExpiryOf DEF AddTime, Time

LEMMA RemovedOf ==
  ASSUME NEW D \in SUBSET Worker, NEW J \in [D -> WorkerInfo], NEW gone,
         NEW q \in Seq(Worker), Enumerates(q, D), OldestFirst(q, J)
  PROVE  LET R == Restrict(J, D \ gone)
             l == Without(q, gone)
         IN  /\ DOMAIN R = D \ gone /\ R \in [D \ gone -> WorkerInfo]
             /\ \A w \in D \ gone : R[w] = J[w]
             /\ l \in Seq(Worker) /\ Enumerates(l, D \ gone) /\ OldestFirst(l, R)
<1> DEFINE R == Restrict(J, D \ gone)
           l == Without(q, gone)
<1>1. /\ DOMAIN R = D \ gone /\ R \in [D \ gone -> WorkerInfo]
      /\ \A w \in D \ gone : R[w] = J[w]
  BY DEF Restrict
<1>2. l \in Seq(Worker) /\ Enumerates(l, D \ gone)
  BY WithoutLists, EnumeratesWithout
<1>3. OldestFirst(l, J)
  BY OldestWithout
<1> HIDE DEF R, l
<1>4. OldestFirst(l, R)
  <2>1. \A v \in Listed(l) : R[v] = J[v]
    BY <1>1, <1>2 DEF Enumerates
  <2> QED BY <1>2, <1>3, <2>1, OldestSame
<1> QED BY <1>1, <1>2, <1>4 DEF R, l

\* The members of a service in a table.
Members(workers, s) == {w \in DOMAIN workers : workers[w].service = s}

LEMMA TableParts ==
  /\ ListsAgree <=> /\ Enumerates(ls_waitings, Known)
                    /\ \A s \in Service : Enumerates(waiting[s], Members(ls_workers, s))
  /\ WaitingsOldestFirst <=> OldestFirst(ls_waitings, ls_workers)
  BY DEF ListsAgree, Members, Known, WaitingsOldestFirst, OldestFirst

-----------------------------------------------------------------------------
(***************************************************************************)
(* The invariant is inductive: one lemma for each kind of step.            *)
(***************************************************************************)

LEMMA InitIInv == Init => IInv
<1> SUFFICES ASSUME Init PROVE IInv
  OBVIOUS
<1>0. Known = {} /\ \A S : <<>> \in Seq(S) /\ Len(<<>>) = 0
  BY EmptySeq DEF Init, Known
<1>1. TypeOK
  <2>1. heartbeat_at \in Time /\ now \in Time
    BY AddTimeOf, ExpiryOf DEF Init
  <2>2. waiting \in [Service -> Seq(Worker)] /\ requests \in [Service -> Seq(1 .. MaxRequest)]
    BY <1>0 DEF Init
  <2>3. asked \in Seq(Service) /\ Len(asked) <= MaxRequest /\ log \in Seq(LogEntry)
    BY <1>0, BoundAssumption DEF Init
  <2>4. Known \subseteq Worker /\ ls_workers \in [Known -> WorkerInfo] /\ ls_waitings \in Seq(Worker)
    BY <1>0 DEF Init, Known
  <2> QED BY <2>1, <2>2, <2>3, <2>4 DEF TypeOK, Init
<1>2. PeerInv /\ ClockInv
  BY <1>0 DEF PeerInv, ClockInv
<1>3. ListsAgree
  <2>1. \A S : S = {} => Enumerates(<<>>, S)
    BY DEF Enumerates, Listed
  <2> QED BY <1>0, <2>1 DEF Init, ListsAgree
<1>4. NoIdleWithWork
  BY DEF Init, NoIdleWithWork
<1>5. WaitingsOldestFirst
  BY DEF Init, WaitingsOldestFirst
<1> QED BY <1>1, <1>2, <1>3, <1>4, <1>5 DEF IInv

\* Steps that touch neither the lists nor the clock nor the queues.
LEMMA OtherIInv ==
  ASSUME IInv, UNCHANGED <<time_vars, table_vars, requests, asked, log, peer_vars>>,
         blacklisted' \in [Service -> SUBSET Command],
         pc' \in {"stopped", "poll", "check", "crashed"}, terminated' \in BOOLEAN
  PROVE  IInv'
<1>1. TypeOK'
  BY DEF IInv, TypeOK, time_vars, table_vars, peer_vars, Known, WorkerInfo, Time, LogEntry
<1>2. PeerInv' /\ ClockInv'
  BY DEF IInv, PeerInv, ClockInv, time_vars, table_vars, peer_vars, Known
<1>3. ListsAgree' /\ NoIdleWithWork' /\ WaitingsOldestFirst'
  BY DEF IInv, ListsAgree, NoIdleWithWork, WaitingsOldestFirst, table_vars, Known
<1> QED BY <1>1, <1>2, <1>3 DEF IInv

LEMMA TickIInv == IInv /\ Tick => IInv'
<1> SUFFICES ASSUME IInv, Tick PROVE IInv'
  OBVIOUS
<1>0. /\ now \in Time /\ now' = AddTime(now, 1) /\ 1 < Day /\ Known \subseteq Worker
      /\ ls_workers \in [Known -> WorkerInfo]
  BY ExpiryOf DEF IInv, TypeOK, Tick
<1>1. ls_workers' = [w \in Known |-> [ls_workers[w] EXCEPT !.age =
                        IF @ < HEARTBEAT_EXPIRY THEN @ + 1 ELSE @]]
  BY DEF Tick
<1>2. /\ Known' = Known
      /\ \A w \in Known : /\ ls_workers[w] \in WorkerInfo /\ ls_workers'[w] \in WorkerInfo
                          /\ ls_workers'[w].expiry = ls_workers[w].expiry
                          /\ ls_workers'[w].service = ls_workers[w].service
                          /\ ls_workers'[w].age = IF ls_workers[w].age < HEARTBEAT_EXPIRY
                                                     THEN ls_workers[w].age + 1
                                                     ELSE ls_workers[w].age
  BY <1>0, <1>1, ExpiryOf DEF Known, WorkerInfo
<1>3. TypeOK'
  <2>1. now' \in Time
    BY <1>0, AddTimeOf
  <2>2. ls_workers' \in [Known' -> WorkerInfo]
    BY <1>1, <1>2
  <2>3. UNCHANGED <<heartbeat_at, ls_waitings, waiting, requests, blacklisted, asked, log,
                    pc, terminated, serves, peer>>
    BY DEF Tick, request_vars, peer_vars
  <2> QED BY <1>0, <1>2, <2>1, <2>2, <2>3 DEF IInv, TypeOK
<1>4. PeerInv'
  BY <1>2 DEF IInv, PeerInv, Tick, peer_vars
<1>5. ClockInv'
  <2> SUFFICES ASSUME NEW w \in Known, ls_workers'[w].expiry >= HEARTBEAT_EXPIRY,
                      ls_workers'[w].age < HEARTBEAT_EXPIRY
               PROVE  now' = ls_workers'[w].expiry - HEARTBEAT_EXPIRY + ls_workers'[w].age
    BY <1>2 DEF ClockInv
  <2> DEFINE x == ls_workers[w].expiry  a == ls_workers[w].age
  <2>1. /\ x \in 0 .. Day - 1 /\ a \in 0 .. HEARTBEAT_EXPIRY /\ now \in 0 .. Day - 1
        /\ ls_workers'[w].expiry = x
        /\ ls_workers'[w].age = IF a < HEARTBEAT_EXPIRY THEN a + 1 ELSE a
    BY <1>0, <1>2 DEF WorkerInfo, Time
  <2>2. x >= HEARTBEAT_EXPIRY /\ a < HEARTBEAT_EXPIRY => now = x - HEARTBEAT_EXPIRY + a
    BY DEF IInv, ClockInv
  <2> HIDE DEF x, a
  <2>3. a < HEARTBEAT_EXPIRY /\ ls_workers'[w].age = a + 1 /\ x >= HEARTBEAT_EXPIRY
    BY <2>1, ExpiryOf
  <2>4. now + 1 < Day
    BY <2>1, <2>2, <2>3, ExpiryOf
  <2>5. now' = now + 1
    BY <1>0, <2>4 DEF AddTime
  <2> QED BY <2>1, <2>2, <2>3, <2>5, ExpiryOf
<1>6. ListsAgree'
  <2>1. \A s \in Service : {w \in Known' : ls_workers'[w].service = s}
                            = {w \in Known : ls_workers[w].service = s}
    BY <1>2
  <2>2. ls_waitings' = ls_waitings /\ waiting' = waiting
    BY DEF Tick
  <2> QED BY <1>2, <2>1, <2>2 DEF IInv, ListsAgree
<1>7. NoIdleWithWork'
  BY DEF IInv, NoIdleWithWork, Tick, request_vars
<1>8. WaitingsOldestFirst'
  <2>1. \A v, w \in Listed(ls_waitings) :
          ls_workers[v].age >= ls_workers[w].age => ls_workers'[v].age >= ls_workers'[w].age
    <3>1. \A v \in Listed(ls_waitings) : v \in Known
      BY DEF IInv, ListsAgree, Enumerates
    <3>2. \A v \in Known : ls_workers[v].age \in 0 .. HEARTBEAT_EXPIRY
      BY <1>2 DEF WorkerInfo
    <3> QED BY <1>2, <3>1, <3>2, ExpiryOf
  <2>2. ls_waitings' = ls_waitings /\ ls_waitings \in Seq(Worker) /\ OldestFirst(ls_waitings, ls_workers)
    BY TableParts DEF IInv, TypeOK, Tick
  <2>3. OldestFirst(ls_waitings, ls_workers')
    BY <2>1, <2>2, OldestSame
  <2> QED BY <2>2, <2>3 DEF WaitingsOldestFirst, OldestFirst
<1> QED BY <1>3, <1>4, <1>5, <1>6, <1>7, <1>8 DEF IInv

\* The removal of workers, whichever, at an instant.
LEMMA RemoveIInv ==
  ASSUME IInv, NEW gone, Remove(gone),
         UNCHANGED <<now, request_vars, terminated, serves>>, heartbeat_at' \in Time,
         peer' \in [Worker -> {"new", "joined", "left"}],
         \A w \in Known \ gone : peer'[w] = peer[w],
         pc' \in {"stopped", "poll", "check", "crashed"}
  PROVE  IInv'
<1>0. /\ Known \subseteq Worker /\ ls_workers \in [Known -> WorkerInfo]
      /\ ls_waitings \in Seq(Worker) /\ Enumerates(ls_waitings, Known)
      /\ OldestFirst(ls_waitings, ls_workers)
      /\ waiting \in [Service -> Seq(Worker)]
      /\ \A s \in Service : Enumerates(waiting[s], Members(ls_workers, s))
  BY TableParts DEF IInv, TypeOK
<1>1. /\ ls_workers' = Restrict(ls_workers, Known \ gone)
      /\ ls_waitings' = Without(ls_waitings, gone)
      /\ waiting' = [s \in Service |-> Without(waiting[s], gone)]
  BY DEF Remove
<1>2. /\ Known' = Known \ gone /\ ls_workers' \in [Known' -> WorkerInfo]
      /\ \A w \in Known' : ls_workers'[w] = ls_workers[w]
      /\ ls_waitings' \in Seq(Worker) /\ Enumerates(ls_waitings', Known')
      /\ OldestFirst(ls_waitings', ls_workers')
  <2> DEFINE R == Restrict(ls_workers, Known \ gone)
             l == Without(ls_waitings, gone)
  <2>1. /\ DOMAIN R = Known \ gone /\ R \in [Known \ gone -> WorkerInfo]
        /\ \A w \in Known \ gone : R[w] = ls_workers[w]
        /\ l \in Seq(Worker) /\ Enumerates(l, Known \ gone) /\ OldestFirst(l, R)
    BY <1>0, RemovedOf
  <2>2. ls_workers' = R /\ ls_waitings' = l
    BY <1>1
  <2> HIDE DEF R, l
  <2>3. Known' = Known \ gone
    BY <2>1, <2>2 DEF Known
  <2> QED BY <2>1, <2>2, <2>3
<1>3. /\ waiting' \in [Service -> Seq(Worker)]
      /\ \A s \in Service : Enumerates(waiting'[s], Members(ls_workers, s) \ gone)
  BY <1>0, <1>1, WithoutLists, EnumeratesWithout
<1>4. \A s \in Service : Members(ls_workers, s) \ gone
                         = {w \in Known' : ls_workers'[w].service = s}
  BY <1>2 DEF Members, Known
<1>5. TypeOK'
  BY <1>0, <1>2, <1>3 DEF IInv, TypeOK, request_vars
<1>6. PeerInv' /\ ClockInv'
  BY <1>2 DEF IInv, PeerInv, ClockInv
<1>7. ListsAgree'
  BY <1>2, <1>3, <1>4 DEF ListsAgree
<1>8. NoIdleWithWork'
  <2> SUFFICES ASSUME NEW s \in Service, waiting[s] = <<>> PROVE waiting'[s] = <<>>
    BY DEF IInv, NoIdleWithWork, request_vars
  <2>1. Listed(Without(waiting[s], gone)) = Listed(waiting[s]) \ gone
    BY <1>0, WithoutLists
  <2>2. Listed(waiting[s]) = {}
    BY DEF Listed
  <2>3. Listed(waiting'[s]) = {} /\ waiting'[s] \in Seq(Worker)
    BY <1>1, <1>3, <2>1, <2>2
  <2> QED BY <2>3, ListedIn
<1>9. WaitingsOldestFirst'
  BY <1>2 DEF WaitingsOldestFirst, OldestFirst
<1> QED BY <1>5, <1>6, <1>7, <1>8, <1>9 DEF IInv

LEMMA BeatIInv == IInv /\ Beat => IInv'
<1> SUFFICES ASSUME IInv, Beat PROVE IInv'
  OBVIOUS
<1>1. PICK gone \in Purgeable(ls_workers) : Remove(gone)
  BY DEF Beat
<1>2. heartbeat_at' \in Time
  BY AddTimeOf, ExpiryOf DEF IInv, TypeOK, Beat
<1>3. /\ UNCHANGED <<now, request_vars, terminated, serves>> /\ peer' = peer
      /\ peer \in [Worker -> {"new", "joined", "left"}]
      /\ pc' \in {"stopped", "poll", "check", "crashed"}
  BY DEF Beat, Again, IInv, TypeOK, peer_vars
<1> QED BY <1>1, <1>2, <1>3, RemoveIInv

LEMMA DisconnectIInv == ASSUME NEW w \in Worker, IInv, Disconnect(w) PROVE IInv'
<1>0. /\ peer' = [peer EXCEPT ![w] = "left"] /\ peer \in [Worker -> {"new", "joined", "left"}]
      /\ UNCHANGED <<time_vars, request_vars, terminated, serves>> /\ pc' = "check"
  BY DEF Disconnect, From, Message, IInv, TypeOK
<1>1. CASE Remove({w})
  <2>1. peer' \in [Worker -> {"new", "joined", "left"}] /\ \A v \in Known \ {w} : peer'[v] = peer[v]
    BY <1>0 DEF IInv, TypeOK
  <2> QED BY <1>0, <1>1, <2>1, RemoveIInv DEF time_vars, IInv, TypeOK
<1>2. CASE w \notin Known /\ UNCHANGED table_vars
  <2>1. TypeOK'
    BY <1>0, <1>2 DEF IInv, TypeOK, time_vars, request_vars, table_vars, Known, WorkerInfo, Time, LogEntry
  <2>2. PeerInv' /\ ClockInv'
    BY <1>0, <1>2 DEF IInv, TypeOK, PeerInv, ClockInv, time_vars, table_vars, Known
  <2>3. ListsAgree' /\ NoIdleWithWork' /\ WaitingsOldestFirst'
    BY <1>0, <1>2 DEF IInv, ListsAgree, NoIdleWithWork, WaitingsOldestFirst,
                      table_vars, request_vars, Known
  <2> QED BY <2>1, <2>2, <2>3 DEF IInv
<1> QED BY <1>1, <1>2 DEF Disconnect

LEMMA HeartbeatIInv == ASSUME NEW w \in Worker, IInv, Heartbeat(w) PROVE IInv'
<1>0. /\ UNCHANGED <<time_vars, request_vars, terminated, peer_vars>> /\ pc' = "check"
      /\ Known \subseteq Worker /\ ls_workers \in [Known -> WorkerInfo] /\ now \in Time
      /\ ls_waitings \in Seq(Worker) /\ Enumerates(ls_waitings, Known)
      /\ OldestFirst(ls_waitings, ls_workers)
  BY TableParts DEF Heartbeat, From, Message, IInv, TypeOK
<1>1. CASE w \notin Known /\ UNCHANGED table_vars
  BY <1>0, <1>1, OtherIInv DEF request_vars, IInv, TypeOK
<1>2. ASSUME w \in Known, Refresh(w), waiting' = waiting,
             ls_waitings' = IF Len(ls_waitings) > 1
                              THEN Append(Without(ls_waitings, {w}), w)
                              ELSE ls_waitings
      PROVE  IInv'
  <2> DEFINE x == AddTime(now, HEARTBEAT_EXPIRY)
  <2>1. x \in Time
    BY <1>0, AddTimeOf, ExpiryOf
  <2>2. ls_workers' = [ls_workers EXCEPT ![w].expiry = x, ![w].age = 0]
    BY <1>2 DEF Refresh
  <2> HIDE DEF x
  <2>3. /\ Known' = Known /\ ls_workers' \in [Known' -> WorkerInfo]
        /\ \A v \in Known : ls_workers'[v].service = ls_workers[v].service
        /\ \A v \in Known \ {w} : ls_workers'[v] = ls_workers[v]
        /\ ls_workers'[w].expiry = x /\ ls_workers'[w].age = 0
    <3>1. Known' = Known
      BY <2>2 DEF Known
    <3>2. ls_workers[w] \in WorkerInfo /\ w \in DOMAIN ls_workers /\ DOMAIN ls_workers = Known
      BY <1>0, <1>2
    <3> DEFINE info == [service |-> ls_workers[w].service, expiry |-> x, age |-> 0,
                        since |-> ls_workers[w].since]
    <3>3. info \in WorkerInfo
      BY <2>1, <3>2, ExpiryOf DEF WorkerInfo
    <3>4. ls_workers' = [ls_workers EXCEPT ![w] = info]
      <4> DEFINE aged == [ls_workers EXCEPT ![w].expiry = x, ![w].age = 0]
      <4>1. aged[w] = info
        BY <3>2 DEF WorkerInfo
      <4>2. DOMAIN aged = Known /\ \A v \in Known \ {w} : aged[v] = ls_workers[v]
        BY <3>2
      <4>3. aged = [v \in Known |-> aged[v]]
        BY <3>2
      <4>4. ls_workers' = aged
        BY <2>2
      <4> HIDE DEF aged, info
      <4> QED BY <3>2, <4>1, <4>2, <4>3, <4>4
    <3>5. info.service = ls_workers[w].service /\ info.expiry = x /\ info.age = 0
      OBVIOUS
    <3> HIDE DEF info
    <3> QED BY <1>0, <3>1, <3>2, <3>3, <3>4, <3>5
  <2>4. /\ ls_waitings' \in Seq(Worker) /\ Enumerates(ls_waitings', Known)
        /\ OldestFirst(ls_waitings', ls_workers')
    <3>0. Len(ls_waitings) \in Nat /\ DOMAIN ls_waitings = 1 .. Len(ls_waitings)
      BY <1>0, LenProperties
    <3>1. CASE Len(ls_waitings) > 1
      <4> DEFINE l == Without(ls_waitings, {w})
      <4>1. l \in Seq(Worker) /\ Enumerates(l, Known \ {w}) /\ OldestFirst(l, ls_workers)
        BY <1>0, WithoutLists, EnumeratesWithout, OldestWithout
      <4> HIDE DEF l
      <4>2. Append(l, w) \in Seq(Worker) /\ Enumerates(Append(l, w), (Known \ {w}) \cup {w})
        BY <4>1, EnumeratesAppend
      <4>3. \A v \in Listed(l) : v \in Known \ {w} /\ ls_workers'[v] = ls_workers[v]
        BY <2>3, <4>1 DEF Enumerates
      <4>4. OldestFirst(l, ls_workers')
        BY <4>1, <4>3, OldestSame
      <4>5. \A i \in DOMAIN l : ls_workers'[l[i]].age >= ls_workers'[w].age
        <5>1. \A i \in DOMAIN l : l[i] \in Known
          BY <4>1, <4>3, ListedIn
        <5>2. \A v \in Known : ls_workers'[v].age \in Nat
          BY <2>3, ExpiryOf DEF WorkerInfo
        <5> QED BY <2>3, <5>1, <5>2
      <4>6. OldestFirst(Append(l, w), ls_workers')
        BY <4>1, <4>4, <4>5, OldestAppend
      <4>7. (Known \ {w}) \cup {w} = Known
        BY <1>2
      <4> QED BY <1>2, <3>1, <4>2, <4>6, <4>7 DEF l
    <3>2. CASE ~(Len(ls_waitings) > 1)
      <4>1. ls_waitings' = ls_waitings
        BY <1>2, <3>2
      <4>2. \A i, j \in DOMAIN ls_waitings : ~(i < j)
        BY <3>0, <3>2
      <4>3. OldestFirst(ls_waitings, ls_workers')
        BY <4>2 DEF OldestFirst
      <4> QED BY <1>0, <4>1, <4>3
    <3> QED BY <3>1, <3>2
  <2>5. TypeOK'
    BY <1>0, <1>2, <2>3, <2>4 DEF IInv, TypeOK, time_vars, request_vars, peer_vars
  <2>6. PeerInv'
    BY <1>0, <2>3 DEF IInv, PeerInv, peer_vars
  <2>7. ClockInv'
    <3>1. now' = now
      BY <1>0 DEF time_vars
    <3>2. x >= HEARTBEAT_EXPIRY => now = x - HEARTBEAT_EXPIRY + 0
      BY <1>0, ExpiryOf DEF x, AddTime, Time
    <3> QED BY <2>3, <3>1, <3>2 DEF IInv, ClockInv
  <2>8. ListsAgree'
    <3>1. \A s \in Service : {v \in Known' : ls_workers'[v].service = s}
                             = {v \in Known : ls_workers[v].service = s}
      BY <2>3
    <3> QED BY <1>2, <2>3, <2>4, <3>1 DEF IInv, ListsAgree
  <2>9. NoIdleWithWork'
    BY <1>0, <1>2 DEF IInv, NoIdleWithWork, request_vars
  <2>10. WaitingsOldestFirst'
    BY <2>4 DEF WaitingsOldestFirst, OldestFirst
  <2> QED BY <2>5, <2>6, <2>7, <2>8, <2>9, <2>10 DEF IInv
<1> QED BY <1>1, <1>2 DEF Heartbeat

\* A purge and a dispatch for service s, from the table J and the lists with
\* whoever has just come.
LEMMA ArrivalIInv ==
  ASSUME IInv, NEW s \in Service, NEW gone,
         NEW D \in SUBSET Worker, NEW J \in [D -> WorkerInfo],
         NEW q \in Seq(Worker), Enumerates(q, D), OldestFirst(q, J),
         NEW lists \in [Service -> Seq(Worker)],
         \A t \in Service : Enumerates(lists[t], Members(J, t)),
         \A t \in Service \ {s} : lists[t] = <<>> \/ requests[t] = <<>>,
         NEW queue \in Seq(1 .. MaxRequest),
         \A w \in D : J[w].expiry >= HEARTBEAT_EXPIRY /\ J[w].age < HEARTBEAT_EXPIRY
                     => now = J[w].expiry - HEARTBEAT_EXPIRY + J[w].age,
         ls_workers' = Restrict(J, D \ gone), ls_waitings' = Without(q, gone),
         Dispatch(s, lists, queue, gone),
         UNCHANGED <<time_vars, blacklisted, terminated, serves>>, pc' = "check",
         asked' \in Seq(Service), Len(asked') <= MaxRequest,
         peer' \in [Worker -> {"new", "joined", "left"}],
         \A w \in D : peer'[w] = "joined"
  PROVE  IInv'
<1> DEFINE R == Restrict(J, D \ gone)
           l == Without(q, gone)
           A == [t \in Service |-> Members(J, t)]
<1>1. /\ DOMAIN R = D \ gone /\ R \in [D \ gone -> WorkerInfo]
      /\ \A w \in D \ gone : R[w] = J[w]
      /\ l \in Seq(Worker) /\ Enumerates(l, D \ gone) /\ OldestFirst(l, R)
  BY RemovedOf
<1>2. ls_workers' = R /\ ls_waitings' = l
  OBVIOUS
<1> HIDE DEF R, l
<1>3. /\ Known' = D \ gone /\ ls_workers' \in [Known' -> WorkerInfo]
      /\ \A w \in Known' : w \in D /\ ls_workers'[w] = J[w]
  BY <1>1, <1>2 DEF Known
<1>4. requests \in [Service -> Seq(1 .. MaxRequest)] /\ log \in Seq(LogEntry)
  BY DEF IInv, TypeOK
<1>5. \A t \in Service : Enumerates(lists[t], A[t])
  OBVIOUS
<1> HIDE DEF A
<1>6. /\ waiting' \in [Service -> Seq(Worker)]
      /\ requests' \in [Service -> Seq(1 .. MaxRequest)]
      /\ log' \in Seq(LogEntry)
      /\ \A t \in Service : Enumerates(waiting'[t], A[t] \ gone)
      /\ \A t \in Service : waiting'[t] = <<>> \/ requests'[t] = <<>>
  BY <1>4, <1>5, DispatchOf
<1>7. \A t \in Service : A[t] \ gone = {w \in Known' : ls_workers'[w].service = t}
  <2> SUFFICES ASSUME NEW t \in Service
               PROVE  A[t] \ gone = {w \in Known' : ls_workers'[w].service = t}
    OBVIOUS
  <2>1. A[t] = {w \in D : J[w].service = t}
    BY DEF A, Members
  <2> QED BY <1>3, <2>1
<1>8. TypeOK'
  BY <1>1, <1>2, <1>3, <1>6 DEF IInv, TypeOK, time_vars
<1>9. PeerInv'
  BY <1>3 DEF PeerInv
<1>10. ClockInv'
  <2>1. now' = now
    BY DEF time_vars
  <2> QED BY <1>3, <2>1 DEF ClockInv
<1>11. ListsAgree'
  BY <1>1, <1>2, <1>3, <1>6, <1>7 DEF ListsAgree
<1>12. NoIdleWithWork'
  BY <1>6 DEF NoIdleWithWork
<1>13. WaitingsOldestFirst'
  BY <1>1, <1>2 DEF WaitingsOldestFirst, OldestFirst
<1> QED BY <1>8, <1>9, <1>10, <1>11, <1>12, <1>13 DEF IInv

LEMMA RequestIInv ==
  ASSUME NEW s \in Service, NEW c \in Command, IInv, Request(s, c) PROVE IInv'
<1>0. /\ UNCHANGED <<time_vars, blacklisted, terminated, peer_vars>> /\ pc' = "check"
      /\ Len(asked) < MaxRequest
      /\ asked \in Seq(Service) /\ Len(asked) \in Nat
      /\ requests \in [Service -> Seq(1 .. MaxRequest)]
  BY LenProperties DEF Request, Message, IInv, TypeOK
<1>1. CASE UNCHANGED <<table_vars, asked, requests, log>>
  BY <1>0, <1>1, OtherIInv DEF IInv, TypeOK
<1>2. ASSUME asked' = Append(asked, s), NEW gone,
             ls_workers' = Restrict(ls_workers, Known \ gone),
             ls_waitings' = Without(ls_waitings, gone),
             Dispatch(s, waiting, Append(requests[s], Len(asked')), gone)
      PROVE  IInv'
  <2>1. asked' \in Seq(Service) /\ Len(asked') = Len(asked) + 1
    BY <1>0, <1>2, AppendProperties
  <2>2. Len(asked') \in 1 .. MaxRequest /\ Len(asked') <= MaxRequest
    BY <1>0, <2>1, BoundAssumption
  <2> DEFINE queue == Append(requests[s], Len(asked'))
  <2>3. queue \in Seq(1 .. MaxRequest)
    BY <1>0, <2>2, AppendProperties
  <2>4. Dispatch(s, waiting, queue, gone)
    BY <1>2
  <2> HIDE DEF queue
  <2>5. /\ Known \in SUBSET Worker /\ ls_workers \in [Known -> WorkerInfo]
        /\ ls_waitings \in Seq(Worker) /\ Enumerates(ls_waitings, Known)
        /\ OldestFirst(ls_waitings, ls_workers)
        /\ waiting \in [Service -> Seq(Worker)]
        /\ \A t \in Service : Enumerates(waiting[t], Members(ls_workers, t))
    BY TableParts DEF IInv, TypeOK
  <2>6. \A t \in Service \ {s} : waiting[t] = <<>> \/ requests[t] = <<>>
    BY DEF IInv, NoIdleWithWork
  <2>7. \A w \in Known : ls_workers[w].expiry >= HEARTBEAT_EXPIRY
                          /\ ls_workers[w].age < HEARTBEAT_EXPIRY
                     => now = ls_workers[w].expiry - HEARTBEAT_EXPIRY + ls_workers[w].age
    BY DEF IInv, ClockInv
  <2>8. /\ peer' \in [Worker -> {"new", "joined", "left"}] /\ \A w \in Known : peer'[w] = "joined"
        /\ UNCHANGED serves
    BY <1>0 DEF IInv, TypeOK, PeerInv, peer_vars
  <2> QED BY <1>0, <1>2, <2>1, <2>2, <2>3, <2>4, <2>5, <2>6, <2>7, <2>8, ArrivalIInv
<1> QED BY <1>1, <1>2 DEF Request

LEMMA ReadyIInv == ASSUME NEW w \in Worker, IInv, Ready(w) PROVE IInv'
<1> DEFINE s == serves[w]
           x == AddTime(now, HEARTBEAT_EXPIRY)
           D == Known \cup {w}
           J == Joined(w)
           q == Append(ls_waitings, w)
           lists == [waiting EXCEPT ![s] = Append(@, w)]
           queue == requests[s]
<1>1. /\ UNCHANGED <<time_vars, blacklisted, terminated, serves, asked>> /\ pc' = "check"
      /\ peer' = [peer EXCEPT ![w] = "joined"] /\ peer[w] = "new"
  BY DEF Ready, Message
<1>2. PICK gone \in Purgeable(J) :
        /\ ls_workers' = Restrict(J, D \ gone)
        /\ ls_waitings' = Without(q, gone)
        /\ Dispatch(s, lists, queue, gone)
  BY DEF Ready
<1>3. /\ Known \in SUBSET Worker /\ ls_workers \in [Known -> WorkerInfo] /\ now \in Time
      /\ ls_waitings \in Seq(Worker) /\ Enumerates(ls_waitings, Known)
      /\ OldestFirst(ls_waitings, ls_workers)
      /\ waiting \in [Service -> Seq(Worker)] /\ s \in Service
      /\ requests \in [Service -> Seq(1 .. MaxRequest)] /\ log \in Seq(LogEntry)
      /\ \A t \in Service : Enumerates(waiting[t], Members(ls_workers, t))
  BY TableParts DEF IInv, TypeOK
<1>4. w \notin Known
  BY <1>1 DEF IInv, PeerInv
<1>5. x \in Time
  BY <1>3, AddTimeOf, ExpiryOf
<1>6. /\ J \in [D -> WorkerInfo] /\ DOMAIN J = D /\ D \in SUBSET Worker
      /\ J[w].service = s /\ J[w].expiry = x /\ J[w].age = 0
      /\ \A v \in Known : J[v] = ls_workers[v]
  <2> DEFINE info == [service |-> s, expiry |-> x, age |-> 0, since |-> Len(log)]
  <2>1. info \in WorkerInfo
    BY <1>3, <1>5, ExpiryOf, LenProperties DEF WorkerInfo
  <2>2. J = [v \in D |-> IF v = w THEN info ELSE ls_workers[v]]
    BY DEF Joined
  <2>3. info.service = s /\ info.expiry = x /\ info.age = 0
    OBVIOUS
  <2> HIDE DEF info, J
  <2> QED BY <1>3, <1>4, <2>1, <2>2, <2>3
<1>7. x >= HEARTBEAT_EXPIRY => now = x - HEARTBEAT_EXPIRY + 0
  BY <1>3, ExpiryOf DEF AddTime, Time
<1> HIDE DEF x, J, s
<1>8. q \in Seq(Worker) /\ Enumerates(q, D) /\ OldestFirst(q, J)
  <2>1. q \in Seq(Worker) /\ Enumerates(q, D)
    BY <1>3, <1>4, EnumeratesAppend
  <2>2. \A v \in Listed(ls_waitings) : J[v] = ls_workers[v] /\ v \in Known
    BY <1>3, <1>6 DEF Enumerates
  <2>3. OldestFirst(ls_waitings, J)
    BY <1>3, <2>2, OldestSame
  <2>4. \A i \in DOMAIN ls_waitings : J[ls_waitings[i]].age >= J[w].age
    <3>1. \A i \in DOMAIN ls_waitings : ls_waitings[i] \in D
      BY <1>3, <2>2, ListedIn
    <3>2. \A v \in D : J[v].age \in Nat
      BY <1>6, ExpiryOf DEF WorkerInfo
    <3> QED BY <1>6, <3>1, <3>2
  <2>5. OldestFirst(q, J)
    BY <1>3, <2>3, <2>4, OldestAppend
  <2> QED BY <2>1, <2>5
<1>9. /\ lists \in [Service -> Seq(Worker)]
      /\ \A t \in Service : Enumerates(lists[t], Members(J, t))
      /\ \A t \in Service \ {s} : lists[t] = waiting[t]
  <2>1. \A t \in Service \ {s} : lists[t] = waiting[t] /\ Members(J, t) = Members(ls_workers, t)
    BY <1>3, <1>4, <1>6 DEF Members
  <2>2. lists[s] = Append(waiting[s], w) /\ Members(J, s) = Members(ls_workers, s) \cup {w}
    BY <1>3, <1>4, <1>6 DEF Members
  <2>3. w \notin Members(ls_workers, s)
    BY <1>4 DEF Members, Known
  <2>4. lists[s] \in Seq(Worker) /\ Enumerates(lists[s], Members(J, s))
    BY <1>3, <2>2, <2>3, EnumeratesAppend
  <2>5. DOMAIN lists = Service /\ lists = [t \in Service |-> lists[t]]
    BY <1>3
  <2> HIDE DEF lists
  <2>6. \A t \in Service : lists[t] \in Seq(Worker) /\ Enumerates(lists[t], Members(J, t))
    BY <1>3, <2>1, <2>4
  <2> QED BY <2>1, <2>5, <2>6
<1> HIDE DEF lists, q
<1>10. \A t \in Service \ {s} : lists[t] = <<>> \/ requests[t] = <<>>
  BY <1>9 DEF IInv, NoIdleWithWork
<1>11. queue \in Seq(1 .. MaxRequest)
  BY <1>3
<1>12. \A v \in D : J[v].expiry >= HEARTBEAT_EXPIRY /\ J[v].age < HEARTBEAT_EXPIRY
                   => now = J[v].expiry - HEARTBEAT_EXPIRY + J[v].age
  BY <1>6, <1>7 DEF IInv, ClockInv
<1>13. /\ peer' \in [Worker -> {"new", "joined", "left"}] /\ \A v \in D : peer'[v] = "joined"
       /\ asked' \in Seq(Service) /\ Len(asked') <= MaxRequest
  BY <1>1 DEF IInv, TypeOK, PeerInv
<1>14. /\ UNCHANGED <<time_vars, blacklisted, terminated, serves>> /\ pc' = "check"
       /\ s \in Service /\ J \in [D -> WorkerInfo] /\ D \in SUBSET Worker
       /\ lists \in [Service -> Seq(Worker)]
       /\ \A t \in Service : Enumerates(lists[t], Members(J, t))
  BY <1>1, <1>3, <1>6, <1>9
<1> HIDE DEF D, queue
<1> QED BY <1>2, <1>8, <1>10, <1>11, <1>12, <1>13, <1>14, ArrivalIInv

LEMMA NextIInv == IInv /\ [Next]_vars => IInv'
<1> SUFFICES ASSUME IInv, [Next]_vars PROVE IInv'
  OBVIOUS
<1> USE DEF IInv, TypeOK
<1>1. CASE \E w \in Worker : Ready(w)
  BY <1>1, ReadyIInv
<1>2. CASE \E w \in Worker : Heartbeat(w)
  BY <1>2, HeartbeatIInv
<1>3. CASE \E w \in Worker : Report(w)
  BY <1>3, OtherIInv DEF Report, From, Message, request_vars
<1>4. CASE \E w \in Worker : Disconnect(w)
  BY <1>4, DisconnectIInv
<1>5. CASE \E s \in Service, c \in Command : Request(s, c)
  BY <1>5, RequestIInv
<1>6. CASE \E s \in Service, c \in Command : Filter(s, c)
  <2>1. PICK s \in Service, c \in Command : Filter(s, c)
    BY <1>6
  <2>2. \/ blacklisted' = [blacklisted EXCEPT ![s] = @ \ {c}]
        \/ blacklisted' = [blacklisted EXCEPT ![s] = @ \cup {c}]
    BY <2>1 DEF Filter
  <2>3. blacklisted[s] \ {c} \in SUBSET Command /\ blacklisted[s] \cup {c} \in SUBSET Command
    OBVIOUS
  <2>4. blacklisted' \in [Service -> SUBSET Command]
    BY <2>2, <2>3
  <2> QED BY <2>1, <2>4, OtherIInv DEF Filter, Message
<1>7. CASE Crash
  BY <1>7, OtherIInv DEF Crash, request_vars
<1>8. CASE PollReturns
  BY <1>8, OtherIInv DEF PollReturns, request_vars
<1>9. CASE Beat
  BY <1>9, BeatIInv
<1>10. CASE NoBeat
  BY <1>10, OtherIInv DEF NoBeat, Again, request_vars
<1>11. CASE Tick
  BY <1>11, TickIInv
<1>12. CASE Start
  BY <1>12, OtherIInv DEF Start, request_vars
<1>13. CASE Stop
  BY <1>13, OtherIInv DEF Stop, request_vars
<1>14. CASE UNCHANGED vars
  BY <1>14, OtherIInv DEF vars, time_vars, table_vars, peer_vars
<1> QED BY <1>1, <1>2, <1>3, <1>4, <1>5, <1>6, <1>7, <1>8, <1>9, <1>10, <1>11,
           <1>12, <1>13, <1>14 DEF Next

\* Whom a purge may delete.
LEMMA PurgedOf ==
  ASSUME IInv, NEW w \in Known, NEW J, J[w] = ls_workers[w], w \in DOMAIN J,
         NEW gone \in Purgeable(J), w \in gone
  PROVE  \/ ls_workers[w].age >= HEARTBEAT_EXPIRY
         \/ ls_workers[w].expiry < HEARTBEAT_EXPIRY
<1>1. now >= ls_workers[w].expiry
  BY DEF Purgeable
<1>2. /\ now \in 0 .. Day - 1 /\ ls_workers[w].expiry \in 0 .. Day - 1
      /\ ls_workers[w].age \in 0 .. HEARTBEAT_EXPIRY
  BY DEF IInv, TypeOK, WorkerInfo, Time
<1>3. /\ ls_workers[w].expiry >= HEARTBEAT_EXPIRY
      /\ ls_workers[w].age < HEARTBEAT_EXPIRY
      => now = ls_workers[w].expiry - HEARTBEAT_EXPIRY + ls_workers[w].age
  BY DEF IInv, ClockInv
<1> QED BY <1>1, <1>2, <1>3, ExpiryOf

LEMMA OnlySilentStep ==
  ASSUME IInv, [Next]_vars, NEW w \in Known
  PROVE  \/ w \in Known'
         \/ Disconnect(w)
         \/ ls_workers[w].age >= HEARTBEAT_EXPIRY
         \/ ls_workers[w].expiry < HEARTBEAT_EXPIRY
<1> SUFFICES ASSUME w \notin Known'
             PROVE  \/ Disconnect(w)
                    \/ ls_workers[w].age >= HEARTBEAT_EXPIRY
                    \/ ls_workers[w].expiry < HEARTBEAT_EXPIRY
  OBVIOUS
<1>0. Known = DOMAIN ls_workers /\ Known' = DOMAIN ls_workers'
  BY DEF Known
<1>1. CASE UNCHANGED ls_workers
  BY <1>0, <1>1
<1>2. ASSUME NEW v \in Worker, Ready(v) PROVE ls_workers[w].age >= HEARTBEAT_EXPIRY
                                            \/ ls_workers[w].expiry < HEARTBEAT_EXPIRY
  <2>1. PICK gone \in Purgeable(Joined(v)) :
          ls_workers' = Restrict(Joined(v), (Known \cup {v}) \ gone)
    BY <1>2 DEF Ready
  <2>2. DOMAIN ls_workers' = (Known \cup {v}) \ gone
    BY <2>1 DEF Restrict
  <2>3. w \in gone
    BY <1>0, <2>2
  <2>4. v \notin Known
    BY <1>2 DEF Ready, IInv, PeerInv
  <2>5. Joined(v)[w] = ls_workers[w] /\ w \in DOMAIN Joined(v)
    BY <2>4 DEF Joined
  <2> QED BY <2>3, <2>5, PurgedOf
<1>3. ASSUME NEW v \in Worker, Heartbeat(v) PROVE FALSE
  <2>1. DOMAIN ls_workers' = DOMAIN ls_workers
    BY <1>3 DEF Heartbeat, Refresh, table_vars
  <2> QED BY <1>0, <2>1
<1>4. ASSUME NEW v \in Worker, Disconnect(v) PROVE Disconnect(w)
  <2>1. CASE ls_workers' = Restrict(ls_workers, Known \ {v})
    <3>1. DOMAIN ls_workers' = Known \ {v}
      BY <2>1 DEF Restrict
    <3> QED BY <1>0, <1>4, <3>1
  <2>2. CASE UNCHANGED table_vars
    BY <1>0, <2>2 DEF table_vars
  <2> QED BY <1>4, <2>1, <2>2 DEF Disconnect, Remove
<1>5. ASSUME NEW gone \in Purgeable(ls_workers),
             ls_workers' = Restrict(ls_workers, Known \ gone)
      PROVE  \/ ls_workers[w].age >= HEARTBEAT_EXPIRY
             \/ ls_workers[w].expiry < HEARTBEAT_EXPIRY
  <2>1. DOMAIN ls_workers' = Known \ gone
    BY <1>5 DEF Restrict
  <2>2. w \in gone
    BY <1>0, <2>1
  <2> QED BY <1>0, <2>2, PurgedOf
<1>6. ASSUME NEW s \in Service, NEW c \in Command, Request(s, c)
      PROVE  \/ ls_workers[w].age >= HEARTBEAT_EXPIRY
             \/ ls_workers[w].expiry < HEARTBEAT_EXPIRY
  <2>1. CASE UNCHANGED table_vars
    BY <1>0, <2>1 DEF table_vars
  <2>2. CASE \E gone \in Purgeable(ls_workers) : ls_workers' = Restrict(ls_workers, Known \ gone)
    BY <1>5, <2>2
  <2>3. UNCHANGED table_vars
          \/ \E gone \in Purgeable(ls_workers) : ls_workers' = Restrict(ls_workers, Known \ gone)
    BY <1>6 DEF Request
  <2> QED BY <2>1, <2>2, <2>3
<1>7. ASSUME Beat PROVE \/ ls_workers[w].age >= HEARTBEAT_EXPIRY
                        \/ ls_workers[w].expiry < HEARTBEAT_EXPIRY
  BY <1>5, <1>7 DEF Beat, Remove
<1>8. ASSUME Tick PROVE FALSE
  <2>1. DOMAIN ls_workers' = Known
    BY <1>8 DEF Tick
  <2> QED BY <1>0, <2>1
<1> QED BY <1>1, <1>2, <1>3, <1>4, <1>6, <1>7, <1>8
        DEF Next, vars, Report, Filter, Crash, PollReturns, NoBeat, Start, Stop, table_vars

-----------------------------------------------------------------------------
(***************************************************************************)
(* Each request goes once: what is queued, what was sent and what was asked*)
(* fit together.                                                           *)
(***************************************************************************)

\* queues: the requests waiting; sent: the log; accepted: the service of each
\* request.
QueuedOfService(queues, accepted) ==
  \A s \in Service : \A i \in DOMAIN queues[s] :
    queues[s][i] \in DOMAIN accepted /\ accepted[queues[s][i]] = s

QueuedInOrder(queues) ==
  \A s \in Service : \A i, j \in DOMAIN queues[s] : i < j => queues[s][i] < queues[s][j]

SentToService(sent, accepted) ==
  \A i \in DOMAIN sent :
    /\ sent[i].request \in DOMAIN accepted
    /\ serves[sent[i].worker] = accepted[sent[i].request]

SentInOrder(sent, accepted) ==
  \A i, j \in DOMAIN sent :
    i < j /\ accepted[sent[i].request] = accepted[sent[j].request]
      => sent[i].request < sent[j].request

SentBeforeQueued(queues, sent, accepted) ==
  \A s \in Service : \A i \in DOMAIN sent : \A j \in DOMAIN queues[s] :
    accepted[sent[i].request] = s => sent[i].request < queues[s][j]

Accounted(queues, sent, accepted) ==
  \A n \in DOMAIN accepted :
    \/ \E i \in DOMAIN sent : sent[i].request = n
    \/ \E i \in DOMAIN queues[accepted[n]] : queues[accepted[n]][i] = n

Handled(queues, sent, accepted) ==
  /\ QueuedOfService(queues, accepted) /\ QueuedInOrder(queues)
  /\ SentToService(sent, accepted) /\ SentInOrder(sent, accepted)
  /\ SentBeforeQueued(queues, sent, accepted)
  /\ Accounted(queues, sent, accepted)

LEMMA OnceOf ==
  ASSUME TypeOK, Handled(requests, log, asked)
  PROVE  EachRequestOnce
<1>0. /\ asked \in Seq(Service) /\ log \in Seq(LogEntry)
      /\ requests \in [Service -> Seq(1 .. MaxRequest)]
      /\ asked \in [1 .. Len(asked) -> Service] /\ Len(asked) \in Nat
      /\ DOMAIN log = 1 .. Len(log) /\ Len(log) \in Nat
      /\ \A i \in DOMAIN log : log[i] \in LogEntry
  <2>1. asked \in Seq(Service) /\ log \in Seq(LogEntry)
        /\ requests \in [Service -> Seq(1 .. MaxRequest)]
    BY DEF TypeOK
  <2> QED BY <2>1, LenProperties
<1>1. ASSUME NEW n \in DOMAIN asked
      PROVE  Cardinality({i \in DOMAIN log : log[i].request = n})
               + Cardinality({i \in DOMAIN requests[asked[n]] : requests[asked[n]][i] = n}) = 1
  <2> DEFINE s == asked[n]
             S == {i \in DOMAIN log : log[i].request = n}
             q == requests[s]
             Q == {i \in DOMAIN q : q[i] = n}
  <2>1. s \in Service /\ n \in Int
    BY <1>0
  <2>2. q \in Seq(1 .. MaxRequest)
    BY <1>0, <2>1
  <2>3. DOMAIN q = 1 .. Len(q) /\ Len(q) \in Nat
    BY <2>2, LenProperties
  <2>4. \A i, j \in S : ~(i < j)
    <3> SUFFICES ASSUME NEW i \in S, NEW j \in S, i < j PROVE FALSE
      OBVIOUS
    <3>1. log[i].request = n /\ log[j].request = n /\ i \in DOMAIN log /\ j \in DOMAIN log
      OBVIOUS
    <3>2. log[i].request < log[j].request
      BY <3>1 DEF Handled, SentInOrder
    <3> QED BY <2>1, <3>1, <3>2
  <2>5. \A i, j \in Q : ~(i < j)
    <3> SUFFICES ASSUME NEW i \in Q, NEW j \in Q, i < j PROVE FALSE
      OBVIOUS
    <3>1. q[i] = n /\ q[j] = n /\ i \in DOMAIN q /\ j \in DOMAIN q
      OBVIOUS
    <3>2. q[i] < q[j]
      BY <2>1, <3>1 DEF Handled, QueuedInOrder
    <3> QED BY <2>1, <3>1, <3>2
  <2>6. S = {} \/ Q = {}
    <3> SUFFICES ASSUME NEW i \in S, NEW j \in Q PROVE FALSE
      OBVIOUS
    <3>1. log[i].request = n /\ q[j] = n /\ i \in DOMAIN log /\ j \in DOMAIN q
      OBVIOUS
    <3>3. log[i].request < q[j]
      BY <2>1, <3>1 DEF Handled, SentBeforeQueued
    <3> QED BY <2>1, <3>1, <3>3
  <2>7. S # {} \/ Q # {}
    BY DEF Handled, Accounted
  <2>8. S \subseteq Int /\ Q \subseteq Int
    BY <1>0, <2>3
  <2> HIDE DEF S, Q
  <2>9. \A i, j \in S : i = j
    BY <2>4, <2>8
  <2>10. \A i, j \in Q : i = j
    BY <2>5, <2>8
  <2>11. S = {} => Cardinality(S) = 0
    BY FS_EmptySet
  <2>12. Q = {} => Cardinality(Q) = 0
    BY FS_EmptySet
  <2>13. S # {} => Cardinality(S) = 1
    <3> SUFFICES ASSUME NEW i \in S PROVE Cardinality(S) = 1
      OBVIOUS
    <3>1. S = {i}
      BY <2>9
    <3> QED BY <3>1, FS_Singleton
  <2>14. Q # {} => Cardinality(Q) = 1
    <3> SUFFICES ASSUME NEW i \in Q PROVE Cardinality(Q) = 1
      OBVIOUS
    <3>1. Q = {i}
      BY <2>10
    <3> QED BY <3>1, FS_Singleton
  <2>15. Cardinality(S) + Cardinality(Q) = 1
    BY <2>6, <2>7, <2>11, <2>12, <2>13, <2>14
  <2> QED BY <2>15 DEF S, Q
<1>2. \A i \in DOMAIN log : serves[log[i].worker] = asked[log[i].request]
  BY DEF Handled, SentToService
<1>3. \A i, j \in DOMAIN log :
        i < j /\ asked[log[i].request] = asked[log[j].request]
          => log[i].request < log[j].request
  BY DEF Handled, SentInOrder
<1> QED BY <1>1, <1>2, <1>3 DEF EachRequestOnce

\* A dispatch keeps it, whether it sends the queue or leaves it.
LEMMA DispatchHandled ==
  ASSUME NEW s \in Service, NEW lists \in [Service -> Seq(Worker)],
         NEW queue \in Seq(1 .. MaxRequest), NEW gone, NEW accepted \in Seq(Service),
         requests \in [Service -> Seq(1 .. MaxRequest)], log \in Seq(LogEntry),
         \A w \in Listed(lists[s]) : serves[w] = s,
         Handled([requests EXCEPT ![s] = queue], log, accepted),
         Dispatch(s, lists, queue, gone)
  PROVE  Handled(requests', log', accepted)
<1> DEFINE kept == [t \in Service |-> Without(lists[t], gone)]
           list == kept[s]
           full == [requests EXCEPT ![s] = queue]
           none == [requests EXCEPT ![s] = <<>>]
           sent == Deliver(list, queue)
<1>1. list \in Seq(Worker) /\ Listed(list) \subseteq Listed(lists[s])
  <2>1. list = Without(lists[s], gone) /\ lists[s] \in Seq(Worker)
    OBVIOUS
  <2> HIDE DEF kept, list
  <2> QED BY <2>1, WithoutLists
<1>2. \/ requests' = full /\ log' = log
      \/ list # <<>> /\ requests' = none /\ log' = log \o sent
  BY DEF Dispatch
<1>3. DOMAIN queue = 1 .. Len(queue) /\ Len(queue) \in Nat
      /\ \A i \in DOMAIN queue : queue[i] \in Int
  <2>1. /\ DOMAIN queue = 1 .. Len(queue) /\ Len(queue) \in Nat
        /\ queue \in [1 .. Len(queue) -> 1 .. MaxRequest]
    BY LenProperties
  <2> QED BY <2>1, BoundAssumption
<1>4. /\ full[s] = queue /\ none[s] = <<>>
      /\ \A t \in Service \ {s} : full[t] = requests[t] /\ none[t] = requests[t]
  OBVIOUS
<1>5. Handled(full, log, accepted)
  OBVIOUS
<1> HIDE DEF kept, list, full, none
<1>6. ASSUME list # <<>> PROVE Handled(none, log \o sent, accepted)
  <2>1. /\ Len(list) \in Nat \ {0} /\ DOMAIN list = 1 .. Len(list)
    BY <1>1, <1>6, LenProperties, EmptySeq
  <2>2. \A i \in 1 .. Len(queue) : Turn(list, i) \in Listed(list)
    <3> SUFFICES ASSUME NEW i \in 1 .. Len(queue) PROVE Turn(list, i) \in Listed(list)
      OBVIOUS
    <3>1. (i - 1) % Len(list) \in 0 .. (Len(list) - 1)
      <4>1. i - 1 \in Nat
        BY <1>3
      <4> QED BY <2>1, <4>1, RemainderOf
    <3>2. ((i - 1) % Len(list)) + 1 \in DOMAIN list
      BY <2>1, <3>1
    <3> QED BY <3>2 DEF Turn, Listed
  <2>3. /\ sent \in Seq(LogEntry) /\ Len(sent) = Len(queue)
        /\ \A i \in 1 .. Len(queue) : /\ sent[i].request = queue[i]
                                      /\ serves[sent[i].worker] = s
    <3>1. sent \in Seq(LogEntry)
      BY <1>1, <1>6, DeliverOf
    <3>2. sent = [i \in 1 .. Len(queue) |-> [request |-> queue[i], worker |-> Turn(list, i)]]
      BY DEF Deliver
    <3>3. Len(sent) \in Nat /\ DOMAIN sent = 1 .. Len(sent)
      BY <3>1, LenProperties
    <3>4. Len(sent) = Len(queue)
      BY <1>3, <3>2, <3>3
    <3> HIDE DEF sent
    <3>5. \A i \in 1 .. Len(queue) : sent[i].request = queue[i] /\ sent[i].worker = Turn(list, i)
      BY <3>2
    <3> QED BY <1>1, <2>2, <3>1, <3>4, <3>5
  <2> DEFINE whole == log \o sent
             n == Len(log)
  <2> HIDE DEF sent
  <2>4. /\ n \in Nat /\ DOMAIN log = 1 .. n
        /\ DOMAIN whole = 1 .. (n + Len(queue))
        /\ \A i \in 1 .. n : whole[i] = log[i]
        /\ \A i \in 1 .. Len(queue) : whole[n + i] = sent[i]
    <3>1. n \in Nat /\ DOMAIN log = 1 .. n
      BY LenProperties
    <3>2. sent \in Seq(LogEntry) /\ log \in Seq(LogEntry)
      BY <2>3
    <3>3. /\ DOMAIN whole = 1 .. (n + Len(sent))
          /\ \A i \in 1 .. n : whole[i] = log[i]
          /\ \A i \in 1 .. Len(sent) : whole[n + i] = sent[i]
      BY <3>2, ConcatOf
    <3> HIDE DEF whole, n
    <3> QED BY <2>3, <3>1, <3>3
  <2>5. \A i \in DOMAIN whole :
          \/ i \in 1 .. n /\ whole[i] = log[i]
          \/ /\ i - n \in 1 .. Len(queue)
             /\ whole[i].request = queue[i - n] /\ serves[whole[i].worker] = s
    <3> SUFFICES ASSUME NEW i \in 1 .. (n + Len(queue)), ~(i \in 1 .. n)
                 PROVE  /\ i - n \in 1 .. Len(queue)
                        /\ whole[i].request = queue[i - n] /\ serves[whole[i].worker] = s
      BY <2>4
    <3>1. i - n \in 1 .. Len(queue) /\ n + (i - n) = i
      BY <1>3, <2>4
    <3>2. whole[i] = sent[i - n]
      BY <2>4, <3>1
    <3> QED BY <2>3, <3>1, <3>2
  <2> HIDE DEF whole, n
  <2>6. \A i \in DOMAIN queue : queue[i] \in DOMAIN accepted /\ accepted[queue[i]] = s
    BY <1>4, <1>5 DEF Handled, QueuedOfService
  <2>7. QueuedOfService(none, accepted) /\ QueuedInOrder(none)
    <3>1. \A i : i \notin DOMAIN none[s]
      BY <1>4
    <3>2. \A t \in Service \ {s} : none[t] = full[t]
      BY <1>4
    <3>3. QueuedOfService(none, accepted)
      BY <1>5, <3>1, <3>2, Zenon DEF Handled, QueuedOfService
    <3>4. ASSUME NEW t \in Service, NEW i \in DOMAIN none[t], NEW j \in DOMAIN none[t], i < j
          PROVE  none[t][i] < none[t][j]
      <4>1. t # s
        BY <3>1
      <4>2. none[t] = full[t]
        BY <3>2, <4>1
      <4>3. \A x, y \in DOMAIN full[t] : x < y => full[t][x] < full[t][y]
        BY <1>5 DEF Handled, QueuedInOrder
      <4> QED BY <3>4, <4>2, <4>3
    <3> QED BY <3>3, <3>4 DEF QueuedInOrder
  <2>8. SentToService(whole, accepted)
    <3> SUFFICES ASSUME NEW i \in DOMAIN whole
                 PROVE  /\ whole[i].request \in DOMAIN accepted
                        /\ serves[whole[i].worker] = accepted[whole[i].request]
      BY DEF SentToService
    <3>1. CASE i \in 1 .. n /\ whole[i] = log[i]
      BY <1>5, <2>4, <3>1 DEF Handled, SentToService
    <3>2. CASE /\ i - n \in 1 .. Len(queue)
               /\ whole[i].request = queue[i - n] /\ serves[whole[i].worker] = s
      BY <1>3, <2>6, <3>2
    <3> QED BY <2>5, <3>1, <3>2
  <2>9. SentInOrder(whole, accepted)
    <3> SUFFICES ASSUME NEW i \in DOMAIN whole, NEW j \in DOMAIN whole, i < j,
                        accepted[whole[i].request] = accepted[whole[j].request]
                 PROVE  whole[i].request < whole[j].request
      BY DEF SentInOrder
    <3>1. i \in Int /\ j \in Int
      BY <1>3, <2>4
    <3>2. CASE i \in 1 .. n /\ j \in 1 .. n
      BY <1>5, <2>4, <3>2 DEF Handled, SentInOrder
    <3>3. CASE i \in 1 .. n /\ ~(j \in 1 .. n)
      <4>1. /\ whole[i] = log[i] /\ j - n \in DOMAIN queue /\ whole[j].request = queue[j - n]
        BY <1>3, <2>4, <2>5, <3>3
      <4>2. accepted[log[i].request] = s
        BY <2>6, <4>1
      <4>3. log[i].request < full[s][j - n]
        BY <1>4, <1>5, <2>4, <3>3, <4>1, <4>2 DEF Handled, SentBeforeQueued
      <4> QED BY <1>4, <4>1, <4>3
    <3>4. CASE ~(i \in 1 .. n)
      <4>1. ~(j \in 1 .. n)
        BY <1>3, <2>4, <3>1, <3>4
      <4>2. /\ i - n \in DOMAIN queue /\ whole[i].request = queue[i - n]
            /\ j - n \in DOMAIN queue /\ whole[j].request = queue[j - n]
        BY <1>3, <2>5, <3>4, <4>1
      <4>3. i - n < j - n
        BY <2>4, <3>1
      <4> QED BY <1>4, <1>5, <4>2, <4>3 DEF Handled, QueuedInOrder
    <3> QED BY <3>2, <3>3, <3>4
  <2>10. SentBeforeQueued(none, whole, accepted)
    <3> SUFFICES ASSUME NEW t \in Service, NEW i \in DOMAIN whole, NEW j \in DOMAIN none[t],
                        accepted[whole[i].request] = t
                 PROVE  whole[i].request < none[t][j]
      BY DEF SentBeforeQueued
    <3>1. t # s
      BY <1>4
    <3>2. i \in 1 .. n /\ whole[i] = log[i]
      BY <1>3, <2>5, <2>6, <3>1
    <3> QED BY <1>4, <1>5, <2>4, <3>1, <3>2 DEF Handled, SentBeforeQueued
  <2>11. Accounted(none, whole, accepted)
    <3> SUFFICES ASSUME NEW m \in DOMAIN accepted,
                        ~\E i \in DOMAIN whole : whole[i].request = m
                 PROVE  \E i \in DOMAIN none[accepted[m]] : none[accepted[m]][i] = m
      BY DEF Accounted
    <3>1. ~\E i \in DOMAIN log : log[i].request = m
      <4> SUFFICES ASSUME NEW i \in DOMAIN log, log[i].request = m PROVE FALSE
        OBVIOUS
      <4>1. i \in DOMAIN whole /\ whole[i].request = m
        BY <1>3, <2>4
      <4> QED BY <4>1
    <3>2. PICK i \in DOMAIN full[accepted[m]] : full[accepted[m]][i] = m
      BY <1>5, <3>1 DEF Handled, Accounted
    <3>3. accepted[m] # s
      <4> SUFFICES ASSUME accepted[m] = s PROVE FALSE
        OBVIOUS
      <4>1. i \in 1 .. Len(queue) /\ queue[i] = m
        BY <1>3, <1>4, <3>2
      <4>2. n + i \in DOMAIN whole /\ whole[n + i] = sent[i]
        BY <1>3, <2>4, <4>1
      <4>3. whole[n + i].request = m
        BY <2>3, <4>1, <4>2
      <4> QED BY <4>2, <4>3
    <3>4. accepted[m] \in Service => none[accepted[m]] = full[accepted[m]]
      BY <1>4, <3>3
    <3>5. accepted[m] \in Service
      BY LenProperties
    <3> QED BY <3>2, <3>4, <3>5
  <2>12. Handled(none, whole, accepted)
    BY <2>7, <2>8, <2>9, <2>10, <2>11 DEF Handled
  <2> QED BY <2>12 DEF whole
<1> QED BY <1>2, <1>5, <1>6

-----------------------------------------------------------------------------
(***************************************************************************)
(* Round robin: a list is in the order of the turns its workers had last.  *)
(***************************************************************************)

\* The turns of worker w in a table and a log, and the last of them.
Turns(workers, sent, w)  == {workers[w].since} \cup {i \in DOMAIN sent : sent[i].worker = w}
TurnIn(workers, sent, w) == Max(Turns(workers, sent, w))

InTurns(q, workers, sent) ==
  \A i, j \in DOMAIN q : i < j => TurnIn(workers, sent, q[i]) <= TurnIn(workers, sent, q[j])

LEMMA GreatestIs ==
  ASSUME NEW n \in Nat, NEW S \in SUBSET (0 .. n), S # {}
  PROVE  Max(S) \in S /\ \A x \in S : x <= Max(S)
<1>1. PICK g \in S : \A x \in S : x <= g
  BY GreatestOf
<1>2. \A x \in S : g >= x
  BY <1>1
<1>3. Max(S) \in S /\ \A x \in S : Max(S) >= x
  BY <1>2 DEF Max
<1> QED BY <1>3

LEMMA TurnOf ==
  ASSUME NEW sent \in Seq(LogEntry), NEW workers, NEW w,
         workers[w].since \in 0 .. Len(sent)
  PROVE  /\ TurnIn(workers, sent, w) \in Turns(workers, sent, w)
         /\ TurnIn(workers, sent, w) \in 0 .. Len(sent)
         /\ \A x \in Turns(workers, sent, w) : x <= TurnIn(workers, sent, w)
<1> DEFINE S == Turns(workers, sent, w)
<1>1. Len(sent) \in Nat /\ DOMAIN sent = 1 .. Len(sent)
  BY LenProperties
<1>2. S \in SUBSET (0 .. Len(sent)) /\ S # {}
  BY <1>1 DEF Turns
<1> HIDE DEF S
<1>3. Max(S) \in S /\ \A x \in S : x <= Max(S)
  BY <1>1, <1>2, GreatestIs
<1> QED BY <1>2, <1>3 DEF S, TurnIn

LEMMA TurnsWithout ==
  ASSUME NEW T, NEW q \in Seq(T), NEW S, NEW workers, NEW sent, InTurns(q, workers, sent)
  PROVE  InTurns(Without(q, S), workers, sent)
<1> DEFINE r == Without(q, S)
<1>1. \E f \in [DOMAIN r -> DOMAIN q] :
           /\ \A k \in DOMAIN r : r[k] = q[f[k]]
           /\ \A i, j \in DOMAIN r : i < j => f[i] < f[j]
  BY WithoutLists
<1> HIDE DEF r
<1> QED BY <1>1 DEF InTurns, r

\* The list only reads the turns of who is in it.
LEMMA TurnsSame ==
  ASSUME NEW T, NEW q \in Seq(T), NEW workers, NEW sent, NEW others, NEW later,
         InTurns(q, workers, sent),
         \A w \in Listed(q) : Turns(others, later, w) = Turns(workers, sent, w)
  PROVE  InTurns(q, others, later)
<1>1. \A i \in DOMAIN q : TurnIn(others, later, q[i]) = TurnIn(workers, sent, q[i])
  BY DEF Listed, TurnIn
<1> QED BY <1>1 DEF InTurns

LEMMA TurnsAppend ==
  ASSUME NEW q \in Seq(Worker), NEW w \in Worker, NEW workers, NEW sent \in Seq(LogEntry),
         InTurns(q, workers, sent), workers[w].since = Len(sent),
         \A i \in DOMAIN q : workers[q[i]].since \in 0 .. Len(sent)
  PROVE  InTurns(Append(q, w), workers, sent)
<1> DEFINE r == Append(q, w)
<1>1. /\ Len(q) \in Nat /\ DOMAIN q = 1 .. Len(q)
      /\ DOMAIN r = 1 .. (Len(q) + 1)
      /\ \A i \in 1 .. Len(q) : r[i] = q[i]
      /\ r[Len(q) + 1] = w
  BY AppendProperties, LenProperties
<1>2. Len(sent) \in Nat
  BY LenProperties
<1> HIDE DEF r
<1>3. TurnIn(workers, sent, w) = Len(sent)
  <2>1. workers[w].since \in 0 .. Len(sent)
    BY <1>2
  <2>2. /\ TurnIn(workers, sent, w) \in 0 .. Len(sent)
        /\ \A x \in Turns(workers, sent, w) : x <= TurnIn(workers, sent, w)
    BY <2>1, TurnOf
  <2>3. Len(sent) \in Turns(workers, sent, w)
    BY DEF Turns
  <2> QED BY <1>2, <2>2, <2>3
<1>4. \A i \in DOMAIN q : TurnIn(workers, sent, q[i]) <= Len(sent)
  <2> SUFFICES ASSUME NEW i \in DOMAIN q PROVE TurnIn(workers, sent, q[i]) \in 0 .. Len(sent)
    BY <1>2
  <2> QED BY TurnOf
<1>5. ASSUME NEW i \in DOMAIN r, NEW j \in DOMAIN r, i < j
      PROVE  TurnIn(workers, sent, r[i]) <= TurnIn(workers, sent, r[j])
  <2>1. i \in DOMAIN q /\ r[i] = q[i]
    BY <1>1, <1>5
  <2>2. CASE j \in DOMAIN q
    <3>1. r[j] = q[j]
      BY <1>1, <2>2
    <3> QED BY <1>5, <2>1, <2>2, <3>1 DEF InTurns
  <2>3. CASE j = Len(q) + 1
    BY <1>1, <1>3, <1>4, <2>1, <2>3
  <2> QED BY <1>1, <2>2, <2>3
<1> QED BY <1>5 DEF InTurns, r

\* The remainder is the only number below the divisor that differs from the
\* dividend by a multiple of it.
LEMMA MultipleOf ==
  ASSUME NEW n \in Nat \ {0}, NEW a \in Int, NEW b \in Int, a < b
  PROVE  n * b >= n * a + n
<1>1. n * b = n * a + n * (b - a)
  OBVIOUS
<1>2. b - a \in Nat /\ b - a >= 1
  OBVIOUS
<1>3. \A c \in Nat : c >= 1 => n * c >= n
  OBVIOUS
<1>4. n * (b - a) >= n /\ n * (b - a) \in Int /\ n * a \in Int /\ n * b \in Int
  BY <1>2, <1>3
<1> QED BY <1>1, <1>4

LEMMA OnlyRemainder ==
  ASSUME NEW n \in Nat \ {0}, NEW x \in Nat, NEW d \in Int, NEW c \in 0 .. (n - 1),
         x = n * d + c
  PROVE  x % n = c
<1>1. /\ x \div n \in Int /\ x % n \in 0 .. (n - 1)
      /\ x = n * (x \div n) + (x % n)
  OBVIOUS
<1> DEFINE e == x \div n  m == x % n  E == n * e  D == n * d
<1>2. E \in Int /\ D \in Int
  BY <1>1
<1>3. E + m = D + c /\ m \in 0 .. (n - 1)
  BY <1>1
<1>4. (d < e => E >= D + n) /\ (e < d => D >= E + n)
  BY <1>1, MultipleOf
<1>5. e = d => E = D
  OBVIOUS
<1>6. e \in Int
  BY <1>1
<1> HIDE DEF e, m, E, D
<1>7. ~(d < e) /\ ~(e < d)
  BY <1>2, <1>3, <1>4
<1>8. e = d
  BY <1>6, <1>7
<1>9. m = c
  BY <1>2, <1>3, <1>5, <1>8
<1> QED BY <1>9 DEF m

\* The last of k turns round a list of n come to its places in their order
\* after the rotation.
LEMMA RoundOf ==
  ASSUME NEW n \in Nat \ {0}, NEW k \in Nat, NEW a \in 1 .. n, k - n + a >= 1
  PROVE  (((k - n + a) - 1) % n) + 1 = IF a + (k % n) <= n THEN a + (k % n) ELSE a + (k % n) - n
<1> DEFINE d == k \div n  m == k % n  x == (k - n + a) - 1
<1>1. d \in Int /\ m \in 0 .. (n - 1) /\ k = n * d + m
  OBVIOUS
<1>2. x \in Nat /\ n * d \in Int
  BY <1>1
<1>3. n * (d - 1) = n * d - n
  BY <1>1
<1> HIDE DEF d, m
<1>4. CASE a + m <= n
  <2>1. x = n * (d - 1) + (a + m - 1) /\ a + m - 1 \in 0 .. (n - 1) /\ d - 1 \in Int
    BY <1>1, <1>2, <1>3, <1>4
  <2>2. x % n = a + m - 1
    BY <1>2, <2>1, OnlyRemainder
  <2> QED BY <1>1, <1>4, <2>2 DEF m
<1>5. CASE ~(a + m <= n)
  <2>1. x = n * d + (a + m - n - 1) /\ a + m - n - 1 \in 0 .. (n - 1)
    BY <1>1, <1>2, <1>5
  <2>2. x % n = a + m - n - 1
    BY <1>1, <1>2, <2>1, OnlyRemainder
  <2> QED BY <1>1, <1>5, <2>2 DEF m
<1> QED BY <1>4, <1>5

\* Who had turns in a dispatch goes to the end, in the order of them.
LEMMA TurnsDispatched ==
  ASSUME NEW q \in Seq(Worker), q # <<>>, NEW A, Enumerates(q, A),
         NEW queue \in Seq(1 .. MaxRequest), NEW sent \in Seq(LogEntry), NEW workers,
         \A w \in A : workers[w].since \in 0 .. Len(sent),
         InTurns(q, workers, sent)
  PROVE  InTurns(Rotate(q, Len(queue)), workers, sent \o Deliver(q, queue))
<1> DEFINE n == Len(q)
           k == Len(queue)
           N == Len(sent)
           g(i) == IF i + (k % n) <= n THEN i + (k % n) ELSE i + (k % n) - n
           r == Rotate(q, k)
           D == Deliver(q, queue)
           later == sent \o D
<1>1. /\ n \in Nat \ {0} /\ DOMAIN q = 1 .. n /\ k \in Nat /\ N \in Nat
      /\ DOMAIN sent = 1 .. N
  BY LenProperties, EmptySeq
<1>2. k % n \in 0 .. (n - 1)
  BY <1>1, RemainderOf
<1>3. DOMAIN r = 1 .. n /\ \A i \in 1 .. n : r[i] = q[g(i)] /\ g(i) \in 1 .. n
  <2>1. r = [i \in 1 .. n |-> q[g(i)]]
    BY DEF Rotate
  <2>2. \A i \in 1 .. n : g(i) \in 1 .. n
    BY <1>1, <1>2
  <2> HIDE DEF r
  <2> QED BY <2>1, <2>2
<1>4. \A i, j \in 1 .. n : g(i) = g(j) => i = j
  BY <1>1, <1>2
<1>5. /\ later \in Seq(LogEntry) /\ Len(later) = N + k /\ DOMAIN later = 1 .. (N + k)
      /\ \A i \in 1 .. N : later[i] = sent[i]
      /\ \A i \in 1 .. k : later[N + i].worker = q[((i - 1) % n) + 1]
  <2>1. D \in Seq(LogEntry)
    BY DeliverOf
  <2>2. D = [i \in 1 .. k |-> [request |-> queue[i], worker |-> Turn(q, i)]]
    BY DEF Deliver
  <2>3. Len(D) = k
    <3>1. Len(D) \in Nat /\ DOMAIN D = 1 .. Len(D)
      BY <2>1, LenProperties
    <3> QED BY <1>1, <2>2, <3>1
  <2> HIDE DEF D
  <2>4. \A i \in 1 .. k : D[i].worker = Turn(q, i)
    BY <2>2
  <2>5. /\ later \in Seq(LogEntry) /\ Len(later) = N + Len(D)
        /\ DOMAIN later = 1 .. (N + Len(D))
        /\ \A i \in 1 .. N : later[i] = sent[i]
        /\ \A i \in 1 .. Len(D) : later[N + i] = D[i]
    BY <2>1, ConcatOf
  <2> HIDE DEF later, n, N, k
  <2> QED BY <2>3, <2>4, <2>5 DEF Turn, n
<1>6. \A a \in 1 .. n : k - n + a >= 1 => (((k - n + a) - 1) % n) + 1 = g(a)
  BY <1>1, RoundOf
<1>7. k < n => k % n = k
  <2> SUFFICES ASSUME k < n PROVE k % n = k
    OBVIOUS
  <2>1. k = n * 0 + k /\ k \in 0 .. (n - 1)
    BY <1>1
  <2> QED BY <1>1, <2>1, OnlyRemainder
<1> HIDE DEF n, k, N, r, D, later
<1>8. \A i \in 1 .. n : g(i) \in 1 .. n /\ q[g(i)] \in A /\ r[i] = q[g(i)]
  BY <1>1, <1>3 DEF Enumerates, Listed
<1>9. ASSUME NEW a \in 1 .. n, NEW i \in 1 .. k, later[N + i].worker = r[a]
      PROVE  i <= k - n + a
  <2> SUFFICES ASSUME i > k - n + a PROVE FALSE
    BY <1>1
  <2> DEFINE b == i - k + n
  <2>1. b \in 1 .. n /\ k - n + b = i /\ i - 1 \in Nat /\ b > a
    BY <1>1
  <2> HIDE DEF b
  <2>2. ((i - 1) % n) + 1 = g(b)
    <3>1. k - n + b >= 1 /\ (k - n + b) - 1 = i - 1
      BY <1>1, <2>1
    <3> QED BY <1>6, <2>1, <3>1
  <2>3. q[g(b)] = q[g(a)]
    BY <1>5, <1>8, <1>9, <2>2
  <2>4. g(b) = g(a)
    BY <1>1, <1>8, <2>1, <2>3 DEF Enumerates
  <2> QED BY <1>4, <2>1, <2>4
<1>10. \A a \in 1 .. n :
         /\ workers[r[a]].since \in 0 .. N /\ workers[r[a]].since \in 0 .. Len(later)
         /\ TurnIn(workers, later, r[a]) \in Turns(workers, later, r[a])
         /\ \A x \in Turns(workers, later, r[a]) : x <= TurnIn(workers, later, r[a])
         /\ TurnIn(workers, later, r[a]) \in 0 .. N + k
  <2> SUFFICES ASSUME NEW a \in 1 .. n
               PROVE  /\ workers[r[a]].since \in 0 .. N /\ workers[r[a]].since \in 0 .. Len(later)
                      /\ TurnIn(workers, later, r[a]) \in Turns(workers, later, r[a])
                      /\ \A x \in Turns(workers, later, r[a]) : x <= TurnIn(workers, later, r[a])
                      /\ TurnIn(workers, later, r[a]) \in 0 .. N + k
    OBVIOUS
  <2>1. workers[r[a]].since \in 0 .. N
    BY <1>8 DEF N
  <2>2. workers[r[a]].since \in 0 .. Len(later)
    BY <1>1, <1>5, <2>1
  <2> QED BY <1>5, <2>1, <2>2, TurnOf
<1>11. ASSUME NEW a \in 1 .. n, NEW x \in Turns(workers, later, r[a])
       PROVE  \/ x \in Turns(workers, sent, r[a]) /\ x \in 0 .. N
              \/ x \in Int /\ x <= N + (k - n + a) /\ k - n + a >= 1
  <2>1. CASE x = workers[r[a]].since
    BY <1>10, <2>1 DEF Turns
  <2>2. CASE x \in 1 .. (N + k) /\ later[x].worker = r[a]
    <3>1. CASE x \in 1 .. N
      BY <1>1, <1>5, <2>2, <3>1 DEF Turns
    <3>2. CASE ~(x \in 1 .. N)
      <4>1. x - N \in 1 .. k /\ N + (x - N) = x
        BY <1>1, <2>2, <3>2
      <4>2. x - N <= k - n + a
        BY <1>9, <2>2, <4>1
      <4> QED BY <1>1, <4>1, <4>2
    <3> QED BY <3>1, <3>2
  <2> QED BY <1>5, <2>1, <2>2 DEF Turns
<1>12. ASSUME NEW a \in 1 .. n, NEW b \in 1 .. n, a < b
       PROVE  TurnIn(workers, later, r[a]) <= TurnIn(workers, later, r[b])
  <2> DEFINE x == TurnIn(workers, later, r[a])
             y == TurnIn(workers, later, r[b])
  <2>1. x \in Int /\ y \in Int /\ x \in Turns(workers, later, r[a])
    BY <1>1, <1>10
  <2>2. CASE k - n + b >= 1
    <3>1. N + (k - n + b) \in Turns(workers, later, r[b])
      <4>1. k - n + b \in 1 .. k /\ N + (k - n + b) \in 1 .. (N + k)
        BY <1>1, <2>2
      <4>2. later[N + (k - n + b)].worker = q[g(b)]
        <5>1. later[N + (k - n + b)].worker = q[(((k - n + b) - 1) % n) + 1]
          <6> DEFINE i == k - n + b
          <6>1. i \in 1 .. k
            BY <4>1
          <6> HIDE DEF i
          <6>2. later[N + i].worker = q[((i - 1) % n) + 1]
            BY <1>5, <6>1
          <6> QED BY <6>2 DEF i
        <5> QED BY <1>6, <2>2, <5>1
      <4> QED BY <1>5, <1>8, <4>1, <4>2 DEF Turns
    <3>2. N + (k - n + b) <= y
      BY <1>10, <3>1
    <3>3. x <= N + (k - n + b)
      <4> HIDE DEF x
      <4>1. \/ x \in 0 .. N
            \/ x \in Int /\ x <= N + (k - n + a)
        BY <1>11, <2>1
      <4> QED BY <1>1, <1>12, <2>2, <4>1
    <3> HIDE DEF x, y
    <3>4. x <= y
      BY <1>1, <2>1, <3>2, <3>3
    <3> QED BY <3>4 DEF x, y
  <2>3. CASE ~(k - n + b >= 1)
    <3>1. k < n /\ ~(k - n + a >= 1) /\ k % n = k /\ a + k <= n /\ b + k <= n
      BY <1>1, <1>7, <1>12, <2>3
    <3>2. g(a) = a + k /\ g(b) = b + k /\ g(a) < g(b)
      BY <1>1, <1>12, <3>1
    <3>3. x \in Turns(workers, sent, r[a])
      BY <1>11, <2>1, <3>1
    <3> DEFINE u == TurnIn(workers, sent, r[a])
               v == TurnIn(workers, sent, r[b])
    <3>4. /\ u \in 0 .. N /\ x <= u
          /\ v \in 0 .. N /\ v \in Turns(workers, sent, r[b])
      BY <1>10, <3>3, TurnOf DEF N
    <3>5. u <= v
      BY <1>1, <1>8, <3>2 DEF InTurns
    <3>6. v \in Turns(workers, later, r[b])
      <4> HIDE DEF v
      <4> QED BY <1>1, <1>5, <3>4 DEF Turns
    <3>7. v <= y
      BY <1>10, <3>6
    <3> HIDE DEF x, y, u, v
    <3>8. x <= y
      BY <1>1, <2>1, <3>4, <3>5, <3>7
    <3> QED BY <3>8 DEF x, y
  <2> QED BY <2>2, <2>3
<1> QED BY <1>3, <1>12 DEF InTurns, r, later, D, k

-----------------------------------------------------------------------------
(***************************************************************************)
(* The invariant over the history, one lemma for each kind of step.        *)
(***************************************************************************)

\* Workers are in the table under the service they name, since a time that is
\* past; the lists are in the order of their turns.
TurnInv ==
  /\ \A w \in Known : ls_workers[w].service = serves[w] /\ ls_workers[w].since <= Len(log)
  /\ \A s \in Service : InTurns(waiting[s], ls_workers, log)

HistoryInv == Handled(requests, log, asked) /\ TurnInv

LEMMA InitHistory == Init => HistoryInv
<1> SUFFICES ASSUME Init PROVE HistoryInv
  OBVIOUS
<1>1. /\ asked = <<>> /\ log = <<>> /\ Known = {}
      /\ \A s \in Service : requests[s] = <<>> /\ waiting[s] = <<>>
  BY DEF Init, Known
<1>2. DOMAIN asked = {} /\ DOMAIN log = {}
      /\ \A s \in Service : DOMAIN requests[s] = {} /\ DOMAIN waiting[s] = {}
  BY <1>1
<1>3. Handled(requests, log, asked)
  BY <1>2 DEF Handled, QueuedOfService, QueuedInOrder, SentToService, SentInOrder,
              SentBeforeQueued, Accounted
<1> QED BY <1>1, <1>2, <1>3 DEF HistoryInv, TurnInv, InTurns

\* Steps that accept and send nothing, and keep who stays in order.
LEMMA KeepsHistory ==
  ASSUME IInv', HistoryInv, UNCHANGED <<requests, log, asked, serves>>,
         \A w \in Known' : /\ w \in Known
                           /\ ls_workers'[w].service = ls_workers[w].service
                           /\ ls_workers'[w].since = ls_workers[w].since,
         \A s \in Service : InTurns(waiting'[s], ls_workers, log)
  PROVE  HistoryInv'
<1>1. Handled(requests, log, asked)'
  BY DEF HistoryInv, Handled, QueuedOfService, QueuedInOrder, SentToService, SentInOrder,
         SentBeforeQueued, Accounted
<1>2. \A w \in Known' : ls_workers'[w].service = serves'[w] /\ ls_workers'[w].since <= Len(log')
  BY DEF HistoryInv, TurnInv
<1>3. ASSUME NEW s \in Service PROVE InTurns(waiting'[s], ls_workers', log')
  <2>1. waiting'[s] \in Seq(Worker)
    BY DEF IInv, TypeOK
  <2>2. \A w \in Listed(waiting'[s]) : w \in Known'
    BY DEF IInv, ListsAgree, Enumerates
  <2>3. \A w \in Listed(waiting'[s]) : Turns(ls_workers', log', w) = Turns(ls_workers, log, w)
    BY <2>2 DEF Turns
  <2> QED BY <2>1, <2>3, TurnsSame
<1>4. TurnInv'
  BY <1>2, <1>3 DEF TurnInv, InTurns, TurnIn, Turns
<1> QED BY <1>1, <1>4 DEF HistoryInv

LEMMA RemoveHistory ==
  ASSUME IInv, IInv', HistoryInv, NEW gone, Remove(gone), UNCHANGED <<request_vars, serves>>
  PROVE  HistoryInv'
<1>1. \A w \in Known' : w \in Known /\ ls_workers'[w] = ls_workers[w]
  BY DEF Remove, Restrict, Known
<1>2. ASSUME NEW s \in Service PROVE InTurns(waiting'[s], ls_workers, log)
  <2>1. waiting[s] \in Seq(Worker) /\ InTurns(waiting[s], ls_workers, log)
    BY DEF IInv, TypeOK, HistoryInv, TurnInv
  <2>2. waiting'[s] = Without(waiting[s], gone)
    BY DEF Remove
  <2> QED BY <2>1, <2>2, TurnsWithout
<1> QED BY <1>1, <1>2, KeepsHistory DEF request_vars

\* A purge and a dispatch for service s, from the table J and the lists with
\* whoever has just come.
LEMMA ArrivalHistory ==
  ASSUME IInv, IInv', HistoryInv, NEW s \in Service, NEW gone,
         NEW D, NEW J \in [D -> WorkerInfo],
         NEW lists \in [Service -> Seq(Worker)],
         \A t \in Service : Enumerates(lists[t], Members(J, t)),
         NEW queue \in Seq(1 .. MaxRequest),
         \A w \in D : J[w].service = serves[w] /\ J[w].since <= Len(log),
         \A t \in Service : InTurns(lists[t], J, log),
         Handled([requests EXCEPT ![s] = queue], log, asked'),
         ls_workers' = Restrict(J, D \ gone),
         Dispatch(s, lists, queue, gone),
         UNCHANGED serves
  PROVE  HistoryInv'
<1> DEFINE kept == [t \in Service |-> Without(lists[t], gone)]
           sent == Deliver(kept[s], queue)
<1>1. /\ requests \in [Service -> Seq(1 .. MaxRequest)]
      /\ log \in Seq(LogEntry) /\ log' \in Seq(LogEntry) /\ asked' \in Seq(Service)
      /\ Len(log) \in Nat /\ DOMAIN log = 1 .. Len(log)
  <2>1. /\ requests \in [Service -> Seq(1 .. MaxRequest)]
        /\ log \in Seq(LogEntry) /\ log' \in Seq(LogEntry) /\ asked' \in Seq(Service)
    BY DEF IInv, TypeOK
  <2> QED BY <2>1, LenProperties
<1>2. \A t \in Service : \A w \in Listed(lists[t]) : w \in D /\ J[w].service = t
  BY DEF Enumerates, Members
<1>3. Handled(requests', log', asked')
  <2>1. \A w \in Listed(lists[s]) : serves[w] = s
    BY <1>2
  <2> QED BY <1>1, <2>1, DispatchHandled
<1>4. Handled(requests, log, asked)'
  BY <1>3 DEF Handled, QueuedOfService, QueuedInOrder, SentToService, SentInOrder,
              SentBeforeQueued, Accounted
<1>5. \A w \in Known' : w \in D /\ ls_workers'[w] = J[w]
  BY DEF Restrict, Known
<1>6. \A t \in Service : /\ kept[t] \in Seq(Worker) /\ InTurns(kept[t], J, log)
                         /\ Listed(kept[t]) \subseteq Listed(lists[t])
                         /\ Enumerates(kept[t], Members(J, t) \ gone)
  <2> SUFFICES ASSUME NEW t \in Service
               PROVE  /\ kept[t] \in Seq(Worker) /\ InTurns(kept[t], J, log)
                      /\ Listed(kept[t]) \subseteq Listed(lists[t])
                      /\ Enumerates(kept[t], Members(J, t) \ gone)
    OBVIOUS
  <2>1. kept[t] = Without(lists[t], gone) /\ lists[t] \in Seq(Worker) /\ InTurns(lists[t], J, log)
        /\ Enumerates(lists[t], Members(J, t))
    OBVIOUS
  <2> HIDE DEF kept
  <2> QED BY <2>1, WithoutLists, TurnsWithout, EnumeratesWithout
<1>7. \/ waiting' = kept /\ log' = log
      \/ /\ kept[s] # <<>> /\ log' = log \o sent
         /\ waiting' = [kept EXCEPT ![s] = Rotate(kept[s], Len(queue))]
  BY DEF Dispatch
<1>8. DOMAIN kept = Service
  OBVIOUS
<1> HIDE DEF kept, sent
<1>9. /\ Len(log) <= Len(log')
      /\ \A t \in Service : InTurns(waiting'[t], J, log')
  <2>1. CASE waiting' = kept /\ log' = log
    <3>1. Len(log) <= Len(log')
      BY <1>1, <2>1
    <3>2. \A t \in Service : InTurns(kept[t], J, log)
      BY <1>6
    <3> QED BY <2>1, <3>1, <3>2, Zenon
  <2>2. CASE /\ kept[s] # <<>> /\ log' = log \o sent
             /\ waiting' = [kept EXCEPT ![s] = Rotate(kept[s], Len(queue))]
    <3>1. sent \in Seq(LogEntry) /\ Len(sent) = Len(queue) /\ Len(queue) \in Nat
          /\ \A i \in 1 .. Len(sent) : sent[i].worker \in Listed(kept[s])
      <4>1. sent \in Seq(LogEntry)
        BY <1>6, <2>2, DeliverOf DEF sent
      <4>2. sent = [i \in 1 .. Len(queue) |->
                      [request |-> queue[i], worker |-> Turn(kept[s], i)]]
        BY DEF sent, Deliver
      <4>3. Len(queue) \in Nat /\ Len(sent) \in Nat /\ DOMAIN sent = 1 .. Len(sent)
        BY <4>1, LenProperties
      <4>4. Len(sent) = Len(queue)
        BY <4>2, <4>3
      <4>5. Len(kept[s]) \in Nat \ {0} /\ DOMAIN kept[s] = 1 .. Len(kept[s])
        BY <1>6, <2>2, LenProperties, EmptySeq
      <4>6. ASSUME NEW i \in 1 .. Len(queue) PROVE Turn(kept[s], i) \in Listed(kept[s])
        <5>1. i - 1 \in Nat
          BY <4>3
        <5>2. (i - 1) % Len(kept[s]) \in 0 .. (Len(kept[s]) - 1)
          BY <4>5, <5>1, RemainderOf
        <5>3. ((i - 1) % Len(kept[s])) + 1 \in DOMAIN kept[s]
          <6> DEFINE m == (i - 1) % Len(kept[s])
          <6>1. m \in 0 .. (Len(kept[s]) - 1)
            BY <5>2
          <6> HIDE DEF m
          <6>2. m + 1 \in 1 .. Len(kept[s])
            BY <4>5, <6>1
          <6> QED BY <4>5, <6>2 DEF m
        <5> QED BY <5>3 DEF Turn, Listed
      <4> QED BY <4>1, <4>2, <4>3, <4>4, <4>6
    <3> DEFINE N == Len(log)
    <3>2. /\ Len(log') = N + Len(sent) /\ DOMAIN log' = 1 .. (N + Len(sent))
          /\ \A i \in 1 .. N : log'[i] = log[i]
          /\ \A i \in 1 .. Len(sent) : log'[N + i] = sent[i]
      <4> DEFINE whole == log \o sent
      <4>1. sent \in Seq(LogEntry) /\ log \in Seq(LogEntry)
        BY <1>1, <3>1
      <4>2. /\ Len(whole) = N + Len(sent) /\ DOMAIN whole = 1 .. (N + Len(sent))
            /\ \A i \in 1 .. N : whole[i] = log[i]
            /\ \A i \in 1 .. Len(sent) : whole[N + i] = sent[i]
        BY <4>1, ConcatOf
      <4>3. log' = whole
        BY <2>2
      <4> HIDE DEF whole
      <4> QED BY <4>2, <4>3
    <3>3. InTurns(waiting'[s], J, log')
      <4>1. waiting'[s] = Rotate(kept[s], Len(queue))
        BY <1>8, <2>2
      <4>2. \A w \in Members(J, s) \ gone : J[w].since \in 0 .. Len(log)
        BY <1>1 DEF Members, WorkerInfo
      <4>3. InTurns(Rotate(kept[s], Len(queue)), J, log \o Deliver(kept[s], queue))
        <5> DEFINE q == kept[s]
                   A == Members(J, s) \ gone
        <5>1. /\ q \in Seq(Worker) /\ q # <<>> /\ log \in Seq(LogEntry)
              /\ InTurns(q, J, log) /\ Enumerates(q, A)
              /\ \A w \in A : J[w].since \in 0 .. Len(log)
          BY <1>1, <1>6, <2>2, <4>2
        <5> HIDE DEF q, A
        <5>2. InTurns(Rotate(q, Len(queue)), J, log \o Deliver(q, queue))
          BY <5>1, TurnsDispatched
        <5> QED BY <5>2 DEF q
      <4> QED BY <2>2, <4>1, <4>3 DEF sent
    <3>4. ASSUME NEW t \in Service \ {s} PROVE InTurns(waiting'[t], J, log')
      <4>1. waiting'[t] = kept[t]
        BY <1>8, <2>2
      <4>2. ASSUME NEW w \in Listed(kept[t]) PROVE Turns(J, log', w) = Turns(J, log, w)
        <5>1. ASSUME NEW i \in 1 .. Len(sent) PROVE sent[i].worker # w
          <6>1. J[sent[i].worker].service = s
            BY <1>2, <1>6, <3>1
          <6>2. J[w].service = t
            BY <1>2, <1>6
          <6> QED BY <6>1, <6>2
        <5>2. \A i \in DOMAIN log' : \/ i \in DOMAIN log /\ log'[i] = log[i]
                                     \/ i \notin DOMAIN log /\ log'[i].worker # w
          <6> SUFFICES ASSUME NEW i \in DOMAIN log'
                       PROVE  \/ i \in DOMAIN log /\ log'[i] = log[i]
                              \/ i \notin DOMAIN log /\ log'[i].worker # w
            OBVIOUS
          <6>1. i \in 1 .. (N + Len(sent)) /\ Len(sent) \in Nat /\ N \in Nat
            BY <1>1, <3>1, <3>2
          <6>2. CASE i <= N
            BY <1>1, <3>2, <6>1, <6>2
          <6>3. CASE ~(i <= N)
            <7> DEFINE j == i - N
            <7>1. j \in 1 .. Len(sent) /\ N + j = i /\ i \notin DOMAIN log
              BY <1>1, <6>1, <6>3
            <7> HIDE DEF j
            <7>2. log'[N + j] = sent[j]
              BY <3>2, <7>1
            <7> QED BY <5>1, <7>1, <7>2
          <6> QED BY <6>2, <6>3
        <5>3. DOMAIN log \subseteq DOMAIN log'
          BY <1>1, <3>1, <3>2
        <5> QED BY <5>2, <5>3 DEF Turns
      <4> QED BY <1>6, <4>1, <4>2, TurnsSame
    <3>5. Len(log) <= Len(log')
      BY <1>1, <3>1, <3>2
    <3> QED BY <3>3, <3>4, <3>5
  <2> QED BY <1>7, <2>1, <2>2
<1>10. Len(log') \in Nat
  BY <1>1, LenProperties
<1>11. \A w \in Known' : ls_workers'[w].service = serves'[w] /\ ls_workers'[w].since <= Len(log')
  <2> SUFFICES ASSUME NEW w \in Known'
               PROVE  ls_workers'[w].service = serves'[w] /\ ls_workers'[w].since <= Len(log')
    OBVIOUS
  <2>1. w \in D /\ ls_workers'[w] = J[w]
    BY <1>5
  <2>2. J[w].since \in Nat
    BY <2>1 DEF WorkerInfo
  <2>3. J[w].service = serves[w] /\ J[w].since <= Len(log)
    BY <2>1
  <2>4. J[w].since <= Len(log')
    BY <1>1, <1>9, <1>10, <2>2, <2>3
  <2> QED BY <2>1, <2>3, <2>4
<1>12. ASSUME NEW t \in Service PROVE InTurns(waiting'[t], ls_workers', log')
  <2>1. waiting'[t] \in Seq(Worker)
    BY DEF IInv, TypeOK
  <2>2. \A w \in Listed(waiting'[t]) : w \in Known'
    BY DEF IInv, ListsAgree, Enumerates
  <2>3. \A w \in Listed(waiting'[t]) : Turns(ls_workers', log', w) = Turns(J, log', w)
    BY <1>5, <2>2 DEF Turns
  <2> QED BY <1>9, <2>1, <2>3, TurnsSame
<1>13. TurnInv'
  BY <1>11, <1>12 DEF TurnInv, InTurns, TurnIn, Turns
<1> QED BY <1>4, <1>13 DEF HistoryInv

LEMMA RequestHistory ==
  ASSUME NEW s \in Service, NEW c \in Command, IInv, IInv', HistoryInv, Request(s, c)
  PROVE  HistoryInv'
<1>1. /\ UNCHANGED serves
      /\ asked \in Seq(Service) /\ Len(asked) \in Nat /\ DOMAIN asked = 1 .. Len(asked)
      /\ requests \in [Service -> Seq(1 .. MaxRequest)]
      /\ waiting \in [Service -> Seq(Worker)] /\ ls_workers \in [Known -> WorkerInfo]
      /\ \A t \in Service : Enumerates(waiting[t], Members(ls_workers, t))
      /\ asked' \in Seq(Service) /\ Len(asked') <= MaxRequest
      /\ log \in Seq(LogEntry) /\ Len(log) \in Nat
  BY LenProperties, TableParts DEF Request, IInv, TypeOK, peer_vars
<1>2. CASE UNCHANGED <<table_vars, asked, requests, log>>
  BY <1>1, <1>2, KeepsHistory DEF table_vars, Known, HistoryInv, TurnInv
<1>3. ASSUME asked' = Append(asked, s), NEW gone,
             ls_workers' = Restrict(ls_workers, Known \ gone),
             Dispatch(s, waiting, Append(requests[s], Len(asked')), gone)
      PROVE  HistoryInv'
  <2> DEFINE old == requests[s]
             n == Len(asked) + 1
             queue == Append(old, n)
             full == [requests EXCEPT ![s] = queue]
  <2>1. /\ asked' \in Seq(Service) /\ Len(asked') = n /\ DOMAIN asked' = 1 .. n
        /\ \A i \in 1 .. Len(asked) : asked'[i] = asked[i]
        /\ asked'[n] = s
    BY <1>1, <1>3, AppendProperties, LenProperties
  <2>2. old \in Seq(1 .. MaxRequest) /\ n \in 1 .. MaxRequest
    BY <1>1, <2>1, BoundAssumption
  <2>3. /\ queue \in Seq(1 .. MaxRequest)
        /\ Len(old) \in Nat /\ DOMAIN old = 1 .. Len(old) /\ DOMAIN queue = 1 .. (Len(old) + 1)
        /\ \A i \in 1 .. Len(old) : queue[i] = old[i]
        /\ queue[Len(old) + 1] = n
    BY <2>2, AppendProperties, LenProperties
  <2>4. full[s] = queue /\ \A t \in Service \ {s} : full[t] = requests[t]
    BY <1>1
  <2>5. Dispatch(s, waiting, queue, gone)
    BY <1>3, <2>1
  <2> HIDE DEF n, queue, full
  <2>6. \A i \in DOMAIN asked : /\ i \in DOMAIN asked' /\ asked'[i] = asked[i]
                                /\ i \in Int /\ i < n
    BY <1>1, <2>1 DEF n
  <2>7. \A i \in DOMAIN queue : \/ i \in DOMAIN old /\ queue[i] = old[i]
                                \/ i = Len(old) + 1 /\ queue[i] = n
    BY <2>3
  <2>8. Handled(requests, log, asked)
    BY DEF HistoryInv
  <2>9. QueuedOfService(full, asked')
    <3> SUFFICES ASSUME NEW t \in Service, NEW i \in DOMAIN full[t]
                 PROVE  full[t][i] \in DOMAIN asked' /\ asked'[full[t][i]] = t
      BY DEF QueuedOfService
    <3>1. CASE t # s
      <4>1. full[t] = requests[t]
        BY <2>4, <3>1
      <4>2. requests[t][i] \in DOMAIN asked /\ asked[requests[t][i]] = t
        BY <2>8, <4>1 DEF Handled, QueuedOfService
      <4> QED BY <2>6, <4>1, <4>2
    <3>2. CASE t = s
      <4>1. CASE i \in DOMAIN old /\ queue[i] = old[i]
        <5>1. old[i] \in DOMAIN asked /\ asked[old[i]] = s
          BY <2>8, <4>1 DEF Handled, QueuedOfService
        <5> QED BY <2>4, <2>6, <3>2, <4>1, <5>1
      <4>2. CASE queue[i] = n
        <5>1. n \in DOMAIN asked'
          BY <2>1, <2>2
        <5> QED BY <2>1, <2>4, <3>2, <4>2, <5>1
      <4> QED BY <2>4, <2>7, <3>2, <4>1, <4>2
    <3> QED BY <3>1, <3>2
  <2>10. QueuedInOrder(full)
    <3> SUFFICES ASSUME NEW t \in Service, NEW i \in DOMAIN full[t], NEW j \in DOMAIN full[t], i < j
                 PROVE  full[t][i] < full[t][j]
      BY DEF QueuedInOrder
    <3>1. CASE t # s
      <4>1. full[t] = requests[t]
        BY <2>4, <3>1
      <4>2. \A x, y \in DOMAIN requests[t] : x < y => requests[t][x] < requests[t][y]
        BY <2>8 DEF Handled, QueuedInOrder
      <4> QED BY <4>1, <4>2
    <3>2. CASE t = s
      <4>1. i \in DOMAIN queue /\ j \in DOMAIN queue /\ full[t] = queue
        BY <2>4, <3>2
      <4>2. i \in DOMAIN old /\ queue[i] = old[i]
        BY <2>3, <4>1
      <4>3. CASE j \in DOMAIN old /\ queue[j] = old[j]
        BY <2>8, <4>1, <4>2, <4>3 DEF Handled, QueuedInOrder
      <4>4. CASE queue[j] = n
        <5>1. old[i] \in DOMAIN asked
          BY <2>8, <4>2 DEF Handled, QueuedOfService
        <5> QED BY <2>6, <4>1, <4>2, <4>4, <5>1
      <4> QED BY <2>7, <4>1, <4>3, <4>4
    <3> QED BY <3>1, <3>2
  <2>11. \A i \in DOMAIN log : /\ log[i].request \in DOMAIN asked
                               /\ asked'[log[i].request] = asked[log[i].request]
                               /\ serves[log[i].worker] = asked[log[i].request]
    BY <2>6, <2>8 DEF Handled, SentToService
  <2>12. SentToService(log, asked') /\ SentInOrder(log, asked')
    <3>1. SentToService(log, asked')
      BY <2>6, <2>11 DEF SentToService
    <3>2. SentInOrder(log, asked')
      BY <2>8, <2>11 DEF Handled, SentInOrder
    <3> QED BY <3>1, <3>2
  <2>13. SentBeforeQueued(full, log, asked')
    <3> SUFFICES ASSUME NEW t \in Service, NEW i \in DOMAIN log, NEW j \in DOMAIN full[t],
                        asked'[log[i].request] = t
                 PROVE  log[i].request < full[t][j]
      BY DEF SentBeforeQueued
    <3>1. asked[log[i].request] = t
      BY <2>11
    <3>2. \A x \in DOMAIN requests[t] : log[i].request < requests[t][x]
      BY <2>8, <3>1 DEF Handled, SentBeforeQueued
    <3>3. CASE t # s
      <4>1. full[t] = requests[t]
        BY <2>4, <3>3
      <4> QED BY <3>2, <4>1
    <3>4. CASE t = s
      <4>1. j \in DOMAIN queue /\ full[t] = queue
        BY <2>4, <3>4
      <4>2. CASE j \in DOMAIN old /\ queue[j] = old[j]
        BY <3>2, <3>4, <4>1, <4>2
      <4>3. CASE queue[j] = n
        BY <2>6, <2>11, <4>1, <4>3
      <4> QED BY <2>7, <4>1, <4>2, <4>3
    <3> QED BY <3>3, <3>4
  <2>14. Accounted(full, log, asked')
    <3> SUFFICES ASSUME NEW m \in DOMAIN asked', ~\E i \in DOMAIN log : log[i].request = m
                 PROVE  \E i \in DOMAIN full[asked'[m]] : full[asked'[m]][i] = m
      BY DEF Accounted
    <3>1. CASE m = n
      <4>1. Len(old) + 1 \in DOMAIN queue /\ queue[Len(old) + 1] = n
        BY <2>3
      <4> QED BY <2>1, <2>4, <3>1, <4>1
    <3>2. CASE m # n
      <4>1. m \in DOMAIN asked /\ asked'[m] = asked[m]
        <5>1. m \in 1 .. n
          BY <2>1
        <5>2. n = Len(asked) + 1
          BY DEF n
        <5>3. m \in 1 .. Len(asked)
          BY <1>1, <3>2, <5>1, <5>2
        <5>4. m \in DOMAIN asked
          BY <1>1, <5>3
        <5> QED BY <2>6, <5>4, Zenon
      <4>2. PICK i \in DOMAIN requests[asked[m]] : requests[asked[m]][i] = m
        BY <2>8, <4>1 DEF Handled, Accounted
      <4>3. CASE asked[m] = s
        <5>1. i \in DOMAIN queue /\ queue[i] = m
          BY <2>3, <4>2, <4>3
        <5> QED BY <2>4, <4>1, <4>3, <5>1
      <4>4. CASE asked[m] # s
        <5>1. asked[m] \in Service
          BY <1>1, <4>1, LenProperties
        <5>2. full[asked[m]] = requests[asked[m]]
          BY <2>4, <4>4, <5>1
        <5> QED BY <4>1, <4>2, <5>2
      <4> QED BY <4>3, <4>4
    <3> QED BY <3>1, <3>2
  <2>15. Handled(full, log, asked')
    BY <2>9, <2>10, <2>12, <2>13, <2>14 DEF Handled
  <2>16. \A w \in Known : ls_workers[w].service = serves[w] /\ ls_workers[w].since <= Len(log)
    BY DEF HistoryInv, TurnInv
  <2>17. \A t \in Service : InTurns(waiting[t], ls_workers, log)
    BY DEF HistoryInv, TurnInv
  <2> HIDE DEF old
  <2> QED BY <1>1, <1>3, <2>3, <2>5, <2>15, <2>16, <2>17, ArrivalHistory DEF full
<1> QED BY <1>2, <1>3 DEF Request

LEMMA ReadyHistory ==
  ASSUME NEW w \in Worker, IInv, IInv', HistoryInv, Ready(w)
  PROVE  HistoryInv'
<1> DEFINE s == serves[w]
           D == Known \cup {w}
           J == Joined(w)
           lists == [waiting EXCEPT ![s] = Append(@, w)]
           queue == requests[s]
<1>1. UNCHANGED <<serves, asked>> /\ peer[w] = "new"
  BY DEF Ready
<1>2. PICK gone : ls_workers' = Restrict(J, D \ gone) /\ Dispatch(s, lists, queue, gone)
  BY DEF Ready
<1>3. /\ ls_workers \in [Known -> WorkerInfo] /\ now \in Time
      /\ waiting \in [Service -> Seq(Worker)] /\ s \in Service
      /\ requests \in [Service -> Seq(1 .. MaxRequest)]
      /\ log \in Seq(LogEntry) /\ Len(log) \in Nat
      /\ \A t \in Service : Enumerates(waiting[t], Members(ls_workers, t))
  BY TableParts, LenProperties DEF IInv, TypeOK
<1>4. w \notin Known
  BY <1>1 DEF IInv, PeerInv
<1>5. /\ J \in [D -> WorkerInfo] /\ DOMAIN J = D
      /\ J[w].service = s /\ J[w].since = Len(log)
      /\ \A v \in Known : J[v] = ls_workers[v]
  <2> DEFINE info == [service |-> s, expiry |-> AddTime(now, HEARTBEAT_EXPIRY), age |-> 0,
                      since |-> Len(log)]
  <2>1. info \in WorkerInfo
    BY <1>3, AddTimeOf, ExpiryOf DEF WorkerInfo
  <2>2. J = [v \in D |-> IF v = w THEN info ELSE ls_workers[v]]
    BY DEF Joined
  <2>3. info.service = s /\ info.since = Len(log)
    OBVIOUS
  <2> HIDE DEF info, J
  <2> QED BY <1>3, <1>4, <2>1, <2>2, <2>3
<1> HIDE DEF J
<1>6. /\ lists[s] = Append(waiting[s], w) /\ DOMAIN lists = Service
      /\ lists = [t \in Service |-> lists[t]]
      /\ \A t \in Service \ {s} : lists[t] = waiting[t]
  BY <1>3
<1>7. \A t \in Service : \A v \in Listed(waiting[t]) : v \in Known
  BY <1>3 DEF Enumerates, Members, Known
<1>8. \A v \in Known : ls_workers[v].service = serves[v] /\ ls_workers[v].since \in 0 .. Len(log)
  BY <1>3 DEF HistoryInv, TurnInv, WorkerInfo
<1>9. \A t \in Service : InTurns(waiting[t], J, log)
  <2> SUFFICES ASSUME NEW t \in Service PROVE InTurns(waiting[t], J, log)
    OBVIOUS
  <2>1. waiting[t] \in Seq(Worker) /\ InTurns(waiting[t], ls_workers, log)
    BY <1>3 DEF HistoryInv, TurnInv
  <2>2. \A v \in Listed(waiting[t]) : Turns(J, log, v) = Turns(ls_workers, log, v)
    BY <1>5, <1>7 DEF Turns
  <2> QED BY <2>1, <2>2, TurnsSame
<1>10. /\ Append(waiting[s], w) \in Seq(Worker)
       /\ Enumerates(Append(waiting[s], w), Members(J, s))
  <2>1. Members(J, s) = Members(ls_workers, s) \cup {w}
    BY <1>3, <1>4, <1>5 DEF Members
  <2>2. w \notin Members(ls_workers, s)
    BY <1>4 DEF Members, Known
  <2>3. waiting[s] \in Seq(Worker) /\ Enumerates(waiting[s], Members(ls_workers, s))
    BY <1>3
  <2> QED BY <2>1, <2>2, <2>3, EnumeratesAppend
<1>11. \A t \in Service \ {s} : Members(J, t) = Members(ls_workers, t)
  BY <1>3, <1>4, <1>5 DEF Members
<1>12. InTurns(Append(waiting[s], w), J, log)
  <2>1. waiting[s] \in Seq(Worker) /\ InTurns(waiting[s], J, log)
    BY <1>3, <1>9
  <2>2. \A i \in DOMAIN waiting[s] : J[waiting[s][i]].since \in 0 .. Len(log)
    <3>1. \A i \in DOMAIN waiting[s] : waiting[s][i] \in Known
      BY <1>3, <1>7 DEF Listed
    <3> QED BY <1>5, <1>8, <3>1
  <2> QED BY <1>3, <1>5, <2>1, <2>2, TurnsAppend
<1> HIDE DEF lists
<1>13. /\ lists \in [Service -> Seq(Worker)]
       /\ \A t \in Service : Enumerates(lists[t], Members(J, t)) /\ InTurns(lists[t], J, log)
  <2> SUFFICES ASSUME NEW t \in Service
               PROVE  /\ lists[t] \in Seq(Worker)
                      /\ Enumerates(lists[t], Members(J, t)) /\ InTurns(lists[t], J, log)
    BY <1>6
  <2>1. CASE t = s
    BY <1>6, <1>10, <1>12, <2>1
  <2>2. CASE t # s
    <3>1. lists[t] = waiting[t] /\ Members(J, t) = Members(ls_workers, t)
      BY <1>6, <1>11, <2>2
    <3> QED BY <1>3, <1>9, <3>1
  <2> QED BY <2>1, <2>2
<1>14. Handled([requests EXCEPT ![s] = queue], log, asked')
  <2>1. [requests EXCEPT ![s] = queue] = requests
    BY <1>3
  <2>2. Handled(requests, log, asked)
    BY DEF HistoryInv
  <2> QED BY <1>1, <2>1, <2>2
<1>15. \A v \in D : J[v].service = serves[v] /\ J[v].since <= Len(log)
  BY <1>3, <1>5, <1>8
<1>16. queue \in Seq(1 .. MaxRequest)
  BY <1>3
<1>17. \A t \in Service : Enumerates(lists[t], Members(J, t))
  BY <1>13
<1>18. \A t \in Service : InTurns(lists[t], J, log)
  BY <1>13
<1> HIDE DEF queue, D
<1> QED BY <1>1, <1>2, <1>3, <1>5, <1>13, <1>14, <1>15, <1>16, <1>17, <1>18, ArrivalHistory

LEMMA HeartbeatHistory ==
  ASSUME NEW w \in Worker, IInv, IInv', HistoryInv, Heartbeat(w)
  PROVE  HistoryInv'
<1>1. UNCHANGED <<requests, log, asked, serves, waiting>>
  BY DEF Heartbeat, request_vars, peer_vars, table_vars
<1>2. \A s \in Service : InTurns(waiting'[s], ls_workers, log)
  BY <1>1 DEF HistoryInv, TurnInv
<1>3. CASE UNCHANGED ls_workers
  BY <1>1, <1>2, <1>3, KeepsHistory DEF Known
<1>4. CASE w \in Known /\ Refresh(w)
  <2>1. ls_workers' = [ls_workers EXCEPT ![w].expiry = AddTime(now, HEARTBEAT_EXPIRY),
                                         ![w].age = 0]
    BY <1>4 DEF Refresh
  <2>2. ls_workers \in [Known -> WorkerInfo]
    BY DEF IInv, TypeOK
  <2>3. Known' = Known
    BY <2>1 DEF Known
  <2>4. \A v \in Known : /\ ls_workers'[v].service = ls_workers[v].service
                         /\ ls_workers'[v].since = ls_workers[v].since
    BY <1>4, <2>1, <2>2 DEF WorkerInfo
  <2> QED BY <1>1, <1>2, <2>3, <2>4, KeepsHistory
<1> QED BY <1>3, <1>4 DEF Heartbeat, table_vars

LEMMA TickHistory ==
  ASSUME IInv, IInv', HistoryInv, Tick
  PROVE  HistoryInv'
<1>1. UNCHANGED <<requests, log, asked, serves, waiting>>
  BY DEF Tick, request_vars, peer_vars
<1>2. \A s \in Service : InTurns(waiting'[s], ls_workers, log)
  BY <1>1 DEF HistoryInv, TurnInv
<1>3. ls_workers \in [Known -> WorkerInfo]
  BY DEF IInv, TypeOK
<1>4. Known' = Known
      /\ \A v \in Known : /\ ls_workers'[v].service = ls_workers[v].service
                          /\ ls_workers'[v].since = ls_workers[v].since
  BY <1>3 DEF Tick, Known, WorkerInfo
<1> QED BY <1>1, <1>2, <1>4, KeepsHistory

\* Steps that leave the table, the lists, the queues and the log alone.
LEMMA OtherHistory ==
  ASSUME IInv', HistoryInv, UNCHANGED <<table_vars, requests, log, asked, serves>>
  PROVE  HistoryInv'
<1>1. \A s \in Service : InTurns(waiting'[s], ls_workers, log)
  BY DEF HistoryInv, TurnInv, table_vars
<1> QED BY <1>1, KeepsHistory DEF table_vars, Known

LEMMA NextHistory == IInv /\ IInv' /\ HistoryInv /\ [Next]_vars => HistoryInv'
<1> SUFFICES ASSUME IInv, IInv', HistoryInv, [Next]_vars PROVE HistoryInv'
  OBVIOUS
<1>1. CASE \E w \in Worker : Ready(w)
  BY <1>1, ReadyHistory
<1>2. CASE \E w \in Worker : Heartbeat(w)
  BY <1>2, HeartbeatHistory
<1>3. CASE \E w \in Worker : Report(w)
  BY <1>3, OtherHistory DEF Report, request_vars, peer_vars
<1>4. CASE \E w \in Worker : Disconnect(w)
  <2>1. PICK w \in Worker : Disconnect(w)
    BY <1>4
  <2>2. CASE Remove({w})
    BY <2>1, <2>2, RemoveHistory DEF Disconnect
  <2>3. CASE UNCHANGED table_vars
    BY <2>1, <2>3, OtherHistory DEF Disconnect, request_vars
  <2> QED BY <2>1, <2>2, <2>3 DEF Disconnect
<1>5. CASE \E s \in Service, c \in Command : Request(s, c)
  BY <1>5, RequestHistory
<1>6. CASE \E s \in Service, c \in Command : Filter(s, c)
  BY <1>6, OtherHistory DEF Filter, peer_vars
<1>7. CASE Crash \/ PollReturns
  BY <1>7, OtherHistory DEF Crash, PollReturns, request_vars, peer_vars
<1>8. CASE Beat
  <2>1. PICK gone : Remove(gone)
    BY <1>8 DEF Beat
  <2> QED BY <1>8, <2>1, RemoveHistory DEF Beat, peer_vars
<1>9. CASE NoBeat \/ Start \/ Stop
  BY <1>9, OtherHistory DEF NoBeat, Start, Stop, request_vars, peer_vars
<1>10. CASE Tick
  BY <1>10, TickHistory
<1>11. CASE UNCHANGED vars
  BY <1>11, OtherHistory DEF vars, table_vars
<1> QED BY <1>1, <1>2, <1>3, <1>4, <1>5, <1>6, <1>7, <1>8, <1>9, <1>10, <1>11 DEF Next

-----------------------------------------------------------------------------
(***************************************************************************)
(* The theorems.                                                           *)
(***************************************************************************)

\* The inductive invariant: the lists and the clock are needed together, since a
\* dispatch purges before it looks at its list (mdp.cpp:493-496).
THEOREM Invariance == Spec => []IInv
  BY InitIInv, NextIInv, PTL DEF Spec

\* Every variable keeps to its type, the lists and the log included (mdp.h:93-118).
THEOREM TypeCorrect == Spec => []TypeOK
  BY Invariance, PTL DEF IInv

\* For any workers and services, the heartbeat list and the lists of the
\* services hold each known worker once, and no deleted one (mdp.cpp:453-474).
THEOREM ListsAgreeAlways == Spec => []ListsAgree
  BY Invariance, PTL DEF IInv

\* A service never has a worker and a request waiting at once (mdp.cpp:493-507).
THEOREM NoIdleWithWorkAlways == Spec => []NoIdleWithWork
  BY Invariance, PTL DEF IInv

\* The heartbeat list is in the order of the last sign of life, which the comment
\* on the purge relies on (mdp.cpp:477).
THEOREM WaitingsOldestFirstAlways == Spec => []WaitingsOldestFirst
  BY Invariance, PTL DEF IInv

\* For any interval, liveness and length of a day: a worker the broker gives up
\* said DISCONNECT, or was silent for the expiry, or had an expiry past midnight
\* (mdp.cpp:475-476, 731-741).
THEOREM OnlySilentPurgedAlways == Spec => OnlySilentPurged
<1>1. IInv /\ [Next]_vars => [OnlySilentGo]_vars
  BY OnlySilentStep DEF OnlySilentGo
<1> QED BY <1>1, Invariance, PTL DEF Spec, OnlySilentPurged

\* What was asked, queued and sent stays of one piece, and the lists in the order
\* of their turns; the lists and their types are needed to keep it.
THEOREM HistoryInvariance == Spec => [](IInv /\ HistoryInv)
<1>1. Init => IInv /\ HistoryInv
  BY InitIInv, InitHistory
<1>2. (IInv /\ HistoryInv) /\ [Next]_vars => (IInv /\ HistoryInv)'
  BY NextIInv, NextHistory
<1> QED BY <1>1, <1>2, PTL DEF Spec

\* For any number of workers, services and requests: each accepted request waits
\* at its service or was handed to one of its workers, once, in the order they
\* came (mdp.cpp:498-506, 717-718).
THEOREM EachRequestOnceAlways == Spec => []EachRequestOnce
<1>1. IInv /\ HistoryInv => EachRequestOnce
  BY OnceOf DEF IInv, HistoryInv
<1> QED BY <1>1, HistoryInvariance, PTL

\* For any number of workers, services and requests: the worker whose last turn
\* is longest ago is next (mdp.cpp:503), whatever a dispatch sends at once and
\* whoever joins and goes.
THEOREM RoundRobinAlways == Spec => []RoundRobin
<1>1. IInv /\ HistoryInv => RoundRobin
  BY DEF HistoryInv, TurnInv, RoundRobin, InTurns, LastTurn, TurnIn, Turns
<1> QED BY <1>1, HistoryInvariance, PTL
=============================================================================
