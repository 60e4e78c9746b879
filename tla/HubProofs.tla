------------------------------- MODULE HubProofs -------------------------------
(***************************************************************************)
(* Theorems about Hub, for any workers, clients, heartbeat and liveness:   *)
(* its table implements Membership, and only a hub that took the place of  *)
(* another meets a query of an unknown client.                             *)
(***************************************************************************)
EXTENDS Hub, SequenceTheorems, TLAPS

\* A hub is destroyed after its thread has ended.
OwnerInv == owner = "deleted" => pc = "off"

\* The time that n beats take at least.
Span(n) == n * (Heartbeat + 1)

\* How long a worker has been silent, from what the hub knows of it: the time
\* since its expiry began, and what was counted off its liveness since.
Counted(info, d) ==
  /\ info.left >= 0 => info.liveness = Liveness /\ info.silent = Heartbeat - info.left
  /\ info.left = -1 => info.silent >= Heartbeat + 1
  /\ info.liveness < Liveness =>
       \/ info.silent = Grace + 1
       \/ info.silent >= Span(Liveness - info.liveness) + Heartbeat - d

CountInv == \A w \in Known : Counted(m_workers[w], due)

\* What is under way from a client to the first hub: the registration first,
\* the goodbye last.
Orderly(c) ==
  /\ \A i \in DOMAIN inbox[c] :
       /\ inbox[c][i] = "register" => i = 1
       /\ inbox[c][i] = "Disconnected" => i = Len(inbox[c]) /\ phase[c] = "new"
  /\ ~restarted /\ (phase[c] # "new" \/ inbox[c] # <<>>) =>
       c \in m_clients \/ (inbox[c] # <<>> /\ inbox[c][1] = "register")

OrderInv == \A c \in Client : Orderly(c)

IInv == TypeOK /\ OwnerInv /\ CountInv /\ OrderInv /\ UnknownOnlyAfterRestart

-----------------------------------------------------------------------------
(***************************************************************************)
(* Times.                                                                  *)
(***************************************************************************)

LEMMA SpanOf ==
  /\ Heartbeat \in Nat \ {0} /\ Liveness \in Nat
  /\ Grace \in Nat /\ Grace >= Heartbeat
  /\ \A n \in Nat : Span(n) \in Nat /\ Span(n + 1) = Span(n) + Heartbeat + 1
  /\ Span(0) = 0
  /\ Span(Liveness + 1) > Grace
<1>1. Heartbeat \in Nat \ {0} /\ Liveness \in Nat
  BY TimeAssumption
<1>2. Liveness * Heartbeat \in Nat /\ Grace = Liveness * Heartbeat + Heartbeat
  BY <1>1 DEF Grace
<1>3. \A n \in Nat : n * (Heartbeat + 1) \in Nat
                     /\ (n + 1) * (Heartbeat + 1) = n * (Heartbeat + 1) + Heartbeat + 1
  BY <1>1
<1>4. Liveness * (Heartbeat + 1) = Liveness * Heartbeat + Liveness
  BY <1>1
<1>5. Span(0) = 0
  BY <1>1 DEF Span
<1>6. Span(Liveness + 1) = Liveness * Heartbeat + Liveness + Heartbeat + 1
  BY <1>1, <1>2, <1>3, <1>4 DEF Span
<1> QED BY <1>1, <1>2, <1>3, <1>5, <1>6 DEF Span

LEMMA FreshOf ==
  Fresh \in WorkerInfo /\ Fresh.left = Heartbeat /\ Fresh.liveness = Liveness /\ Fresh.silent = 0
  BY SpanOf DEF Fresh, WorkerInfo

\* The queue of a peer: its first message and the rest, and one message more.
LEMMA QueueOf ==
  ASSUME NEW T, NEW q \in Seq(T)
  PROVE  /\ Len(q) \in Nat /\ DOMAIN q = 1 .. Len(q)
         /\ q # <<>> => /\ Head(q) \in T /\ Head(q) = q[1] /\ 1 \in DOMAIN q
                        /\ Tail(q) \in Seq(T) /\ Len(Tail(q)) = Len(q) - 1
                        /\ DOMAIN Tail(q) = 1 .. (Len(q) - 1)
                        /\ \A i \in 1 .. (Len(q) - 1) : Tail(q)[i] = q[i + 1]
                        /\ Tail(q) = <<>> <=> Len(q) = 1
         /\ \A e \in T : /\ Append(q, e) \in Seq(T) /\ Len(Append(q, e)) = Len(q) + 1
                         /\ DOMAIN Append(q, e) = 1 .. (Len(q) + 1)
                         /\ \A i \in 1 .. Len(q) : Append(q, e)[i] = q[i]
                         /\ Append(q, e)[Len(q) + 1] = e
                         /\ Append(q, e) # <<>>
<1>1. Len(q) \in Nat /\ DOMAIN q = 1 .. Len(q)
  BY LenProperties
<1>2. ASSUME q # <<>>
      PROVE  /\ Head(q) \in T /\ Head(q) = q[1] /\ 1 \in DOMAIN q
             /\ Tail(q) \in Seq(T) /\ Len(Tail(q)) = Len(q) - 1
             /\ DOMAIN Tail(q) = 1 .. (Len(q) - 1)
             /\ \A i \in 1 .. (Len(q) - 1) : Tail(q)[i] = q[i + 1]
             /\ Tail(q) = <<>> <=> Len(q) = 1
  <2>1. /\ Head(q) \in T /\ Head(q) = q[1] /\ Tail(q) \in Seq(T) /\ Len(Tail(q)) = Len(q) - 1
        /\ \A i \in 1 .. Len(Tail(q)) : Tail(q)[i] = q[i + 1]
    BY <1>2, HeadTailProperties
  <2>2. Len(q) # 0
    BY <1>2, EmptySeq
  <2>3. DOMAIN Tail(q) = 1 .. Len(Tail(q))
    BY <2>1, LenProperties
  <2>4. Tail(q) = <<>> <=> Len(Tail(q)) = 0
    BY <2>1, EmptySeq
  <2> HIDE <1>2
  <2> QED BY <1>1, <2>1, <2>2, <2>3, <2>4
<1>3. ASSUME NEW e \in T
      PROVE  /\ Append(q, e) \in Seq(T) /\ Len(Append(q, e)) = Len(q) + 1
             /\ DOMAIN Append(q, e) = 1 .. (Len(q) + 1)
             /\ \A i \in 1 .. Len(q) : Append(q, e)[i] = q[i]
             /\ Append(q, e)[Len(q) + 1] = e
             /\ Append(q, e) # <<>>
  <2>1. /\ Append(q, e) \in Seq(T) /\ Len(Append(q, e)) = Len(q) + 1
        /\ \A i \in 1 .. Len(q) : Append(q, e)[i] = q[i]
        /\ Append(q, e)[Len(q) + 1] = e /\ Append(q, e) # <<>>
    BY AppendProperties
  <2>2. DOMAIN Append(q, e) = 1 .. Len(Append(q, e))
    BY <2>1, LenProperties
  <2> QED BY <2>1, <2>2
<1> QED BY <1>1, <1>2, <1>3

-----------------------------------------------------------------------------
(***************************************************************************)
(* The steps that leave most of it alone.                                  *)
(***************************************************************************)

LEMMA InitIInv == Init => IInv
<1> SUFFICES ASSUME Init PROVE IInv
  OBVIOUS
<1>1. DOMAIN <<>> = {} /\ <<>> \in Seq(Message) /\ <<>> \in Seq(Pong)
  OBVIOUS
<1>2. Known = {} /\ m_workers \in [Known -> WorkerInfo]
  BY <1>1 DEF Init, Known
<1>3. Heartbeat \in Nat /\ MaxPing \in Nat
  BY SpanOf, BoundAssumption
<1>4. TypeOK
  <2>1. inbox \in [Peer -> Seq(Message)] /\ pongs \in [Worker -> Seq(Pong)]
    BY <1>1 DEF Init
  <2>2. /\ phase \in [Peer -> {"new", "asking", "in", "failed", "gone"}]
        /\ pings \in [Worker -> 0 .. MaxPing]
        /\ due \in -1 .. Heartbeat
    BY <1>3 DEF Init
  <2> QED BY <1>2, <2>1, <2>2 DEF Init, TypeOK
<1>5. OrderInv
  <2>1. \A c \in Client : inbox[c] = <<>> /\ phase[c] = "new"
    BY DEF Init, Peer
  <2> QED BY <1>1, <2>1 DEF OrderInv, Orderly
<1> QED BY <1>2, <1>4, <1>5 DEF Init, IInv, OwnerInv, CountInv, UnknownOnlyAfterRestart

LEMMA CountFrame ==
  ASSUME CountInv, UNCHANGED <<m_workers, due>>
  PROVE  CountInv'
  BY DEF CountInv, Known

LEMMA OrderFrame ==
  ASSUME OrderInv, UNCHANGED <<inbox, phase, m_clients, restarted>>
  PROVE  OrderInv'
  BY DEF OrderInv, Orderly

\* The loop of the hub's thread, as far as it changes nothing but its place.
LEMMA LoopIInv ==
  ASSUME IInv, Begin \/ Poll \/ End
  PROVE  IInv'
<1>1. TypeOK'
  BY DEF IInv, TypeOK, Begin, Poll, End, Again, AfterRequest, Known, peer_vars
<1>2. UNCHANGED <<m_workers, due, inbox, phase, m_clients, restarted, owner>> /\ pc # "off"
      /\ pc' # "crashed"
  BY DEF Begin, Poll, End, Again, AfterRequest, peer_vars
<1>3. OwnerInv' /\ UnknownOnlyAfterRestart'
  BY <1>2 DEF IInv, OwnerInv, UnknownOnlyAfterRestart
<1> QED BY <1>1, <1>2, <1>3, CountFrame, OrderFrame DEF IInv

\* The owner of the hub.
LEMMA OwnIInv ==
  ASSUME IInv, startHUb \/ stopHUb \/ delete \/ wait
  PROVE  IInv'
<1>1. UNCHANGED <<due, m_workers, m_clients, pong_ready, inbox, answered, phase,
                  pings, pongs, restarted>>
  BY DEF startHUb, stopHUb, delete, wait, Own, peer_vars
<1>2. /\ owner' \in {"idle", "stopping", "deleting", "deleted"} /\ terminate' \in BOOLEAN
      /\ pc' = pc \/ pc' = "head"
      /\ owner' = "deleted" => pc' = "off"
      /\ pc # "crashed"
  BY DEF IInv, TypeOK, startHUb, stopHUb, delete, wait, Own
<1>3. TypeOK'
  BY <1>1, <1>2 DEF IInv, TypeOK, Known
<1>4. OwnerInv' /\ UnknownOnlyAfterRestart'
  BY <1>2 DEF OwnerInv, UnknownOnlyAfterRestart
<1> QED BY <1>1, <1>3, <1>4, CountFrame, OrderFrame DEF IInv

\* Another hub begins with empty tables.
LEMMA RestartIInv ==
  ASSUME IInv, Restart
  PROVE  IInv'
<1>1. DOMAIN <<>> = {} /\ <<>> \in Seq(Message) /\ <<>> \in Seq(Pong)
  OBVIOUS
<1>2. Known' = {} /\ m_workers' \in [Known' -> WorkerInfo] /\ Known' \subseteq Worker
  BY <1>1 DEF Restart, Known
<1>3. PICK kept \in SUBSET Peer :
        /\ inbox' = [p \in Peer |-> IF p \in kept THEN inbox[p] ELSE <<>>]
        /\ pongs' = [w \in Worker |-> IF w \in kept THEN pongs[w] ELSE <<>>]
  BY DEF Restart
<1>4. inbox' \in [Peer -> Seq(Message)] /\ pongs' \in [Worker -> Seq(Pong)]
  BY <1>1, <1>3 DEF IInv, TypeOK
<1>5. TypeOK'
  <2>1. Heartbeat \in -1 .. Heartbeat
    BY SpanOf
  <2>2. /\ pc' = "off" /\ terminate' = TRUE /\ owner' = "idle" /\ due' = Heartbeat
        /\ m_clients' = {} /\ pong_ready' = FALSE /\ answered' = {} /\ restarted' = TRUE
        /\ UNCHANGED <<phase, pings>>
    BY DEF Restart
  <2> QED BY <1>2, <1>4, <2>1, <2>2 DEF IInv, TypeOK
<1>6. OrderInv'
  <2>1. Restart => restarted' = TRUE /\ phase' = phase
    BY DEF Restart
  <2>2. \A c \in Client : inbox'[c] = inbox[c] \/ inbox'[c] = <<>>
    BY <1>3 DEF Peer
  <2> QED BY <1>1, <2>1, <2>2 DEF IInv, OrderInv, Orderly
<1>7. OwnerInv' /\ UnknownOnlyAfterRestart'
  BY DEF Restart, OwnerInv, UnknownOnlyAfterRestart
<1> QED BY <1>2, <1>5, <1>6, <1>7 DEF IInv, CountInv

-----------------------------------------------------------------------------
(***************************************************************************)
(* The workers and clients.                                                *)
(***************************************************************************)

\* One message more from p.
LEMMA SendOf ==
  ASSUME TypeOK, NEW p \in Peer, NEW m \in Message, Send(p, m)
  PROVE  /\ inbox' \in [Peer -> Seq(Message)]
         /\ inbox'[p] = Append(inbox[p], m)
         /\ \A q \in Peer \ {p} : inbox'[q] = inbox[q]
<1>1. inbox \in [Peer -> Seq(Message)] /\ inbox' = [inbox EXCEPT ![p] = Append(@, m)]
  BY DEF TypeOK, Send
<1>2. Append(inbox[p], m) \in Seq(Message)
  BY <1>1, QueueOf
<1> QED BY <1>1, <1>2

\* What p does leaves the messages of the other clients as they were.
LEMMA OthersOrderly ==
  ASSUME OrderInv, NEW p \in Peer,
         UNCHANGED <<m_clients, restarted>>,
         \A q \in Peer \ {p} : inbox'[q] = inbox[q] /\ phase'[q] = phase[q],
         p \in Client => Orderly(p)'
  PROVE  OrderInv'
<1>1. ASSUME NEW c \in Client, c # p PROVE Orderly(c)'
  <2>1. inbox'[c] = inbox[c] /\ phase'[c] = phase[c] /\ Orderly(c)
    BY <1>1 DEF Peer, OrderInv
  <2> QED BY <2>1 DEF Orderly
<1> QED BY <1>1 DEF OrderInv

LEMMA RegisterKeeps ==
  ASSUME IInv, NEW p \in Peer, Register(p)
  PROVE  TypeOK' /\ OrderInv'
<1> DEFINE Q == inbox[p]
<1>1. /\ UNCHANGED <<pc, terminate, owner, pong_ready, due, m_workers, m_clients, restarted,
                     answered, pings, pongs>>
      /\ Send(p, "register") /\ inbox[p] = <<>>
      /\ phase' = [phase EXCEPT ![p] = "asking"]
  BY DEF Register, PeerStep, hub_vars
<1>2. TypeOK /\ OrderInv
  BY DEF IInv
<1>3. /\ inbox' \in [Peer -> Seq(Message)] /\ inbox'[p] = Append(inbox[p], "register")
      /\ \A q \in Peer \ {p} : inbox'[q] = inbox[q]
  BY <1>1, <1>2, SendOf DEF Message
<1>4. TypeOK'
  BY <1>1, <1>2, <1>3 DEF TypeOK, Known
<1>5. inbox'[p] = <<"register">>
  BY <1>1, <1>3
<1>6. p \in Client => Orderly(p)'
  BY <1>5 DEF Orderly
<1>7. \A q \in Peer \ {p} : phase'[q] = phase[q]
  BY <1>1, <1>2 DEF TypeOK
<1> QED BY <1>1, <1>2, <1>3, <1>4, <1>6, <1>7, OthersOrderly

LEMMA AnswerKeeps ==
  ASSUME IInv, NEW p \in Peer, Accepted(p) \/ TimedOut(p)
  PROVE  TypeOK' /\ OrderInv'
<1>1. /\ UNCHANGED <<pc, terminate, owner, pong_ready, due, m_workers, m_clients, restarted,
                     inbox, pings, pongs>>
      /\ phase[p] = "asking"
      /\ phase' = [phase EXCEPT ![p] = "in"] \/ phase' = [phase EXCEPT ![p] = "failed"]
      /\ answered' = answered \ {p}
  BY DEF Accepted, TimedOut, PeerStep, hub_vars
<1>2. TypeOK /\ OrderInv
  BY DEF IInv
<1>3. /\ phase' \in [Peer -> {"new", "asking", "in", "failed", "gone"}]
      /\ \A q \in Peer \ {p} : phase'[q] = phase[q]
      /\ phase'[p] # "new"
  BY <1>1, <1>2 DEF TypeOK
<1>4. TypeOK'
  BY <1>1, <1>2, <1>3 DEF TypeOK, Known
<1>5. p \in Client => Orderly(p)'
  BY <1>1, <1>2, <1>3 DEF OrderInv, Orderly
<1> QED BY <1>1, <1>2, <1>3, <1>4, <1>5, OthersOrderly

\* One more message behind those of a client that has registered, which is
\* a goodbye only if the client goes.
LEMMA AppendOrderly ==
  ASSUME TypeOK, NEW c \in Client, Orderly(c), NEW m \in {"command", "Disconnected"},
         phase[c] # "new", m = "Disconnected" => phase'[c] = "new",
         inbox'[c] = Append(inbox[c], m), UNCHANGED <<m_clients, restarted>>
  PROVE  Orderly(c)'
<1> DEFINE q == inbox[c]
<1>1. q \in Seq(Message) /\ m \in Message
  BY DEF TypeOK, Peer, Message
<1>2. /\ Len(q) \in Nat /\ DOMAIN q = 1 .. Len(q)
      /\ q # <<>> => 1 \in DOMAIN q
      /\ Len(Append(q, m)) = Len(q) + 1
      /\ DOMAIN Append(q, m) = 1 .. (Len(q) + 1)
      /\ \A i \in 1 .. Len(q) : Append(q, m)[i] = q[i]
      /\ Append(q, m)[Len(q) + 1] = m
      /\ Append(q, m) # <<>>
  BY <1>1, QueueOf
<1>3. inbox'[c] = Append(q, m)
  OBVIOUS
<1>4. \A i \in DOMAIN q : q[i] # "Disconnected" /\ (q[i] = "register" => i = 1)
  BY DEF Orderly
<1>5. ~restarted => c \in m_clients \/ (q # <<>> /\ q[1] = "register")
  BY DEF Orderly
<1> HIDE DEF q
<1>6. \A i \in 1 .. (Len(q) + 1) :
        /\ Append(q, m)[i] = "register" => i = 1
        /\ Append(q, m)[i] = "Disconnected" => i = Len(q) + 1 /\ phase'[c] = "new"
  BY <1>2, <1>4
<1> QED BY <1>2, <1>3, <1>5, <1>6 DEF Orderly

LEMMA CommandKeeps ==
  ASSUME IInv, NEW p \in Peer, Command(p)
  PROVE  TypeOK' /\ OrderInv'
<1>1. /\ UNCHANGED <<pc, terminate, owner, pong_ready, due, m_workers, m_clients, restarted,
                     answered, phase, pings, pongs>>
      /\ Send(p, "command") /\ phase[p] # "new"
  BY DEF Command, PeerStep, hub_vars, peer_vars
<1>2. TypeOK /\ OrderInv
  BY DEF IInv
<1>3. /\ inbox' \in [Peer -> Seq(Message)] /\ inbox'[p] = Append(inbox[p], "command")
      /\ \A q \in Peer \ {p} : inbox'[q] = inbox[q]
  BY <1>1, <1>2, SendOf DEF Message
<1>4. TypeOK'
  BY <1>1, <1>2, <1>3 DEF TypeOK, Known
<1>5. p \in Client => Orderly(p)'
  BY <1>1, <1>2, <1>3, AppendOrderly DEF OrderInv
<1> QED BY <1>1, <1>2, <1>3, <1>4, <1>5, OthersOrderly

LEMMA LeaveClientKeeps ==
  ASSUME IInv, NEW c \in Client, LeaveClient(c)
  PROVE  TypeOK' /\ OrderInv'
<1>1. /\ UNCHANGED <<pc, terminate, owner, pong_ready, due, m_workers, m_clients, restarted,
                     answered, pings, pongs>>
      /\ Send(c, "Disconnected") /\ phase[c] # "new"
      /\ phase' = [phase EXCEPT ![c] = "new"]
  BY DEF LeaveClient, PeerStep, hub_vars
<1>2. TypeOK /\ OrderInv /\ c \in Peer
  BY DEF IInv, Peer
<1>3. /\ inbox' \in [Peer -> Seq(Message)] /\ inbox'[c] = Append(inbox[c], "Disconnected")
      /\ \A q \in Peer \ {c} : inbox'[q] = inbox[q]
  BY <1>1, <1>2, SendOf DEF Message
<1>4. /\ phase' \in [Peer -> {"new", "asking", "in", "failed", "gone"}]
      /\ \A q \in Peer \ {c} : phase'[q] = phase[q]
      /\ phase'[c] = "new"
  BY <1>1, <1>2 DEF TypeOK
<1>5. TypeOK'
  BY <1>1, <1>2, <1>3, <1>4 DEF TypeOK, Known
<1>6. Orderly(c)'
  BY <1>1, <1>2, <1>3, <1>4, AppendOrderly DEF OrderInv
<1> QED BY <1>1, <1>2, <1>3, <1>4, <1>5, <1>6, OthersOrderly

LEMMA WorkerKeeps ==
  ASSUME IInv, NEW w \in Worker, LeaveWorker(w) \/ s_switch(w)
  PROVE  TypeOK' /\ OrderInv'
<1>1. /\ UNCHANGED <<pc, terminate, owner, pong_ready, due, m_workers, m_clients, restarted,
                     answered, inbox>>
      /\ pings' = [pings EXCEPT ![w] = 0]
      /\ phase' = phase \/ phase' = [phase EXCEPT ![w] = "gone"]
  BY DEF LeaveWorker, s_switch, PeerStep, hub_vars, peer_vars
<1>2. TypeOK /\ OrderInv /\ w \in Peer /\ w \notin Client
  BY PeerAssumption DEF IInv, Peer
<1>3. /\ phase' \in [Peer -> {"new", "asking", "in", "failed", "gone"}]
      /\ \A q \in Peer \ {w} : phase'[q] = phase[q]
  BY <1>1, <1>2 DEF TypeOK
<1>4. MaxPing \in Nat
  BY BoundAssumption
<1>5. pings' \in [Worker -> 0 .. MaxPing]
  BY <1>1, <1>2, <1>4 DEF TypeOK
<1>6. pongs' \in [Worker -> Seq(Pong)]
  <2> DEFINE s == [i \in 1 .. pings[w] |-> IF i = 1 THEN "whole" ELSE "bare"]
  <2>1. pongs' = pongs \/ pongs' = [pongs EXCEPT ![w] = pongs[w] \o s]
    BY DEF LeaveWorker, s_switch
  <2>2. pings[w] \in Nat /\ pongs \in [Worker -> Seq(Pong)]
    BY <1>2, <1>4 DEF TypeOK
  <2>3. s \in Seq(Pong)
    BY <2>2, IsASeq DEF Pong
  <2> HIDE DEF s
  <2>4. pongs[w] \o s \in Seq(Pong)
    BY <2>2, <2>3, ConcatProperties
  <2> QED BY <2>1, <2>2, <2>4
<1>7. TypeOK'
  BY <1>1, <1>2, <1>3, <1>5, <1>6 DEF TypeOK, Known
<1> QED BY <1>1, <1>2, <1>3, <1>7, OthersOrderly

LEMMA PeersIInv ==
  ASSUME IInv, peers
  PROVE  IInv'
<1>1. TypeOK' /\ OrderInv'
  BY RegisterKeeps, AnswerKeeps, CommandKeeps, LeaveClientKeeps, WorkerKeeps DEF peers
<1>2. UNCHANGED <<pc, owner, m_workers, due, restarted>>
  BY DEF peers, Register, Accepted, TimedOut, Command, LeaveClient, LeaveWorker, s_switch,
         PeerStep, hub_vars
<1> QED BY <1>1, <1>2, CountFrame DEF IInv, OwnerInv, UnknownOnlyAfterRestart

-----------------------------------------------------------------------------
(***************************************************************************)
(* What the hub does with what it receives.                                *)
(***************************************************************************)

LEMMA TakeOf ==
  ASSUME TypeOK, NEW p \in Peer, Take(p)
  PROVE  /\ inbox[p] \in Seq(Message) /\ inbox[p] # <<>>
         /\ inbox' \in [Peer -> Seq(Message)]
         /\ inbox'[p] = Tail(inbox[p])
         /\ \A q \in Peer \ {p} : inbox'[q] = inbox[q]
         /\ pc = "request"
         /\ UNCHANGED <<terminate, owner, pong_ready, phase, pings, pongs, restarted>>
<1>1. /\ inbox \in [Peer -> Seq(Message)] /\ inbox[p] # <<>>
      /\ inbox' = [inbox EXCEPT ![p] = Tail(@)]
      /\ pc = "request"
      /\ UNCHANGED <<terminate, owner, pong_ready, phase, pings, pongs, restarted>>
  BY DEF TypeOK, Take
<1>2. Tail(inbox[p]) \in Seq(Message)
  BY <1>1, QueueOf
<1> QED BY <1>1, <1>2

LEMMA FreshCounted == \A d : Counted(Fresh, d)
  BY FreshOf, SpanOf DEF Counted

LEMMA RequestIInv ==
  ASSUME IInv, NEW w \in Worker, workerRequest(w)
  PROVE  IInv'
<1>1. TypeOK /\ w \in Peer /\ w \notin Client /\ Take(w) /\ OrderInv /\ CountInv
  BY PeerAssumption DEF IInv, Peer, workerRequest
<1>2. /\ inbox' \in [Peer -> Seq(Message)]
      /\ \A q \in Peer \ {w} : inbox'[q] = inbox[q]
      /\ pc = "request"
      /\ UNCHANGED <<terminate, owner, pong_ready, phase, pings, pongs, restarted>>
  BY <1>1, TakeOf
<1>3. /\ pc' \in {"pong", "beat"} /\ m_clients' = m_clients
      /\ answered' \subseteq answered \cup {w}
      /\ due' = IF Known = {} THEN Heartbeat ELSE due
      /\ m_workers' = [v \in Known \cup {w} |-> IF v \in Known THEN m_workers[v] ELSE Fresh]
  BY DEF workerRequest, AfterRequest, Answer
<1>4. Known' = Known \cup {w}
  BY <1>3 DEF Known
<1>5. \A v \in Known' : m_workers'[v] = IF v \in Known THEN m_workers[v] ELSE Fresh
  BY <1>3, <1>4
<1>6. TypeOK'
  <2>1. Known \subseteq Worker /\ m_workers \in [Known -> WorkerInfo] /\ Fresh \in WorkerInfo
    BY <1>1, FreshOf DEF TypeOK
  <2>2. Known' \subseteq Worker /\ m_workers' \in [Known' -> WorkerInfo]
    BY <1>3, <1>4, <2>1
  <2>3. due' \in -1 .. Heartbeat
    BY <1>1, <1>3, SpanOf DEF TypeOK
  <2> QED BY <1>1, <1>2, <1>3, <2>2, <2>3 DEF TypeOK
<1>7. CountInv'
  <2>1. ASSUME NEW v \in Known, v \in Known' PROVE Counted(m_workers'[v], due')
    <3>1. due' = due /\ m_workers'[v] = m_workers[v]
      BY <1>3, <1>5, <2>1
    <3> QED BY <1>1, <3>1 DEF CountInv
  <2>2. ASSUME NEW v \in Known', v \notin Known PROVE Counted(m_workers'[v], due')
    BY <1>5, <2>2, FreshCounted
  <2> QED BY <2>1, <2>2 DEF CountInv
<1>8. OrderInv'
  BY <1>1, <1>2, <1>3, OthersOrderly
<1> QED BY <1>2, <1>3, <1>6, <1>7, <1>8 DEF IInv, OwnerInv, UnknownOnlyAfterRestart

\* What the four branches of clientQuery have in common.
LEMMA QueryOf ==
  ASSUME TypeOK, NEW c \in Client, clientQuery(c)
  PROVE  /\ UNCHANGED <<due, m_workers>>
         /\ pc' \in {"pong", "beat", "crashed"} /\ answered' \subseteq answered \cup {c}
         /\ m_clients' \subseteq m_clients \cup {c} /\ m_clients \subseteq m_clients' \cup {c}
         /\ Head(inbox[c]) = "register" => c \in m_clients'
         /\ Head(inbox[c]) \notin {"register", "Disconnected"} => m_clients' = m_clients
         /\ pc' = "crashed" => c \notin m_clients /\ Head(inbox[c]) = "command"
<1>1. AfterRequest \in {"pong", "beat"}
  BY DEF AfterRequest
<1>2. UNCHANGED <<due, m_workers>>
  BY DEF clientQuery
<1>3. CASE Head(inbox[c]) = "register" /\ c \notin m_clients
           /\ Answer(c) /\ m_clients' = m_clients \cup {c} /\ pc' = AfterRequest
  BY <1>1, <1>2, <1>3 DEF Answer
<1>4. CASE Head(inbox[c]) = "Disconnected" /\ m_clients' = m_clients \ {c}
           /\ pc' = AfterRequest /\ answered' = answered
  BY <1>1, <1>2, <1>4
<1>5. CASE Head(inbox[c]) = "command" /\ c \notin m_clients
           /\ pc' = "crashed" /\ UNCHANGED <<m_clients, answered>>
  BY <1>2, <1>5
<1>6. CASE Head(inbox[c]) # "Disconnected" /\ c \in m_clients
           /\ pc' = AfterRequest /\ UNCHANGED <<m_clients, answered>>
  BY <1>1, <1>2, <1>6
<1> QED BY <1>3, <1>4, <1>5, <1>6 DEF clientQuery

LEMMA QueryIInv ==
  ASSUME IInv, NEW c \in Client, clientQuery(c)
  PROVE  IInv'
<1> DEFINE q == inbox[c]
<1>1. TypeOK /\ c \in Peer /\ Take(c) /\ OrderInv /\ Orderly(c)
  BY DEF IInv, Peer, clientQuery, OrderInv
<1>2. /\ q \in Seq(Message) /\ q # <<>>
      /\ inbox' \in [Peer -> Seq(Message)] /\ inbox'[c] = Tail(q)
      /\ \A d \in Peer \ {c} : inbox'[d] = inbox[d]
      /\ pc = "request"
      /\ UNCHANGED <<terminate, owner, pong_ready, phase, pings, pongs, restarted>>
  BY <1>1, TakeOf
<1>3. /\ UNCHANGED <<due, m_workers>>
      /\ pc' \in {"pong", "beat", "crashed"} /\ answered' \subseteq answered \cup {c}
      /\ m_clients' \subseteq m_clients \cup {c} /\ m_clients \subseteq m_clients' \cup {c}
      /\ Head(q) = "register" => c \in m_clients'
      /\ Head(q) \notin {"register", "Disconnected"} => m_clients' = m_clients
      /\ pc' = "crashed" => c \notin m_clients /\ Head(q) = "command"
  BY <1>1, QueryOf
<1>4. /\ Len(q) \in Nat /\ DOMAIN q = 1 .. Len(q) /\ 1 \in DOMAIN q
      /\ Head(q) = q[1] /\ Len(Tail(q)) = Len(q) - 1 /\ DOMAIN Tail(q) = 1 .. (Len(q) - 1)
      /\ \A i \in 1 .. (Len(q) - 1) : Tail(q)[i] = q[i + 1]
      /\ Tail(q) = <<>> <=> Len(q) = 1
  BY <1>2, QueueOf
<1>5. /\ \A i \in DOMAIN q : /\ q[i] = "register" => i = 1
                             /\ q[i] = "Disconnected" => i = Len(q) /\ phase[c] = "new"
      /\ ~restarted => c \in m_clients \/ q[1] = "register"
  BY <1>1, <1>2 DEF Orderly
<1>6. TypeOK'
  <2>1. m_clients' \subseteq Client /\ answered' \subseteq Peer
    BY <1>1, <1>3 DEF TypeOK
  <2> QED BY <1>1, <1>2, <1>3, <2>1 DEF TypeOK, Known
<1> HIDE DEF q
<1>7. Orderly(c)'
  <2>1. \A i \in 1 .. (Len(q) - 1) :
          /\ Tail(q)[i] # "register"
          /\ Tail(q)[i] = "Disconnected" => i = Len(q) - 1 /\ phase[c] = "new"
    <3> TAKE i \in 1 .. (Len(q) - 1)
    <3>0. Len(q) \in Nat /\ i \in Nat /\ 1 <= i /\ i <= Len(q) - 1
      BY <1>4
    <3>1. i + 1 \in 1 .. Len(q) /\ i + 1 # 1 /\ (i + 1 = Len(q) => i = Len(q) - 1)
      BY <3>0
    <3>2. Tail(q)[i] = q[i + 1]
      BY <1>4
    <3> QED BY <1>4, <1>5, <3>1, <3>2, Zenon
  <2>2. ~restarted /\ (phase[c] # "new" \/ Tail(q) # <<>>) => c \in m_clients'
    <3>1. Head(q) = "Disconnected" => phase[c] = "new" /\ Tail(q) = <<>>
      BY <1>4, <1>5
    <3> QED BY <1>3, <1>4, <1>5, <3>1
  <2> QED BY <1>2, <1>4, <2>1, <2>2, Zenon DEF Orderly
<1>8. OrderInv'
  <2>1. ASSUME NEW d \in Client, d # c PROVE Orderly(d)'
    <3>1. /\ inbox'[d] = inbox[d] /\ phase'[d] = phase[d] /\ restarted' = restarted
          /\ d \in m_clients' <=> d \in m_clients
          /\ Orderly(d)
      BY <1>1, <1>2, <1>3, <2>1 DEF Peer, OrderInv
    <3> QED BY <3>1 DEF Orderly
  <2> QED BY <1>7, <2>1 DEF OrderInv
<1>9. UnknownOnlyAfterRestart'
  BY <1>2, <1>3, <1>4, <1>5 DEF UnknownOnlyAfterRestart
<1>10. OwnerInv'
  BY <1>2 DEF IInv, OwnerInv
<1> QED BY <1>3, <1>6, <1>8, <1>9, <1>10, CountFrame DEF IInv

-----------------------------------------------------------------------------
(***************************************************************************)
(* Pongs, beats and time.                                                  *)
(***************************************************************************)

LEMMA PongIInv ==
  ASSUME IInv, NEW w \in Worker, workerPong(w)
  PROVE  IInv'
<1>1. TypeOK /\ CountInv /\ OrderInv /\ OwnerInv
  BY DEF IInv
<1>2. /\ pc = "pong" /\ pc' \in {"beat", "ending"}
      /\ pongs[w] # <<>> /\ pongs' = [pongs EXCEPT ![w] = Tail(@)] /\ pong_ready' = FALSE
      /\ m_workers' = m_workers \/ (w \in Known /\ m_workers' = [m_workers EXCEPT ![w] = Fresh])
      /\ UNCHANGED <<terminate, owner, due, m_clients, inbox, answered, phase, pings, restarted>>
  BY DEF workerPong, Renew, peer_vars
<1>3. pongs' \in [Worker -> Seq(Pong)]
  <2>1. pongs \in [Worker -> Seq(Pong)] /\ pongs[w] \in Seq(Pong)
    BY <1>1 DEF TypeOK
  <2>2. Tail(pongs[w]) \in Seq(Pong)
    BY <1>2, <2>1, QueueOf
  <2> QED BY <1>2, <2>1, <2>2
<1>4. /\ Known' = Known /\ m_workers' \in [Known -> WorkerInfo]
      /\ \A v \in Known : m_workers'[v] \in {m_workers[v], Fresh}
  BY <1>1, <1>2, FreshOf DEF TypeOK, Known
<1>5. TypeOK'
  BY <1>1, <1>2, <1>3, <1>4 DEF TypeOK
<1>6. CountInv'
  BY <1>1, <1>2, <1>4, FreshCounted DEF CountInv
<1>7. OrderInv'
  BY <1>1, <1>2, OrderFrame
<1>8. OwnerInv' /\ UnknownOnlyAfterRestart'
  BY <1>1, <1>2 DEF OwnerInv, UnknownOnlyAfterRestart
<1> QED BY <1>5, <1>6, <1>7, <1>8 DEF IInv

\* At a beat an expired worker loses one of its liveness, and a span of silence
\* is counted for it.
LEMMA CountDown ==
  ASSUME NEW info \in WorkerInfo, Counted(info, -1),
         info.left # -1 \/ info.liveness > 0,
         NEW new,
         new = IF info.left = -1 THEN [info EXCEPT !.liveness = @ - 1] ELSE info
  PROVE  new \in WorkerInfo /\ Counted(new, Heartbeat) /\ new.silent = info.silent
<1>1. /\ Heartbeat \in Nat \ {0} /\ Liveness \in Nat /\ Grace \in Nat
      /\ \A n \in Nat : Span(n) \in Nat /\ Span(n + 1) = Span(n) + Heartbeat + 1
      /\ Span(0) = 0
  BY SpanOf
<1>2. /\ info.left \in -1 .. Heartbeat /\ info.liveness \in 0 .. Liveness
      /\ info.silent \in 0 .. Grace + 1
  BY DEF WorkerInfo
<1>3. CASE info.left # -1
  <2>1. new = info /\ info.left >= 0
    BY <1>1, <1>2, <1>3
  <2>2. info.liveness = Liveness /\ info.silent = Heartbeat - info.left
    BY <2>1 DEF Counted
  <2> QED BY <1>1, <2>1, <2>2 DEF Counted
<1>4. CASE info.left = -1
  <2>1. /\ new = [info EXCEPT !.liveness = @ - 1] /\ info.liveness > 0
        /\ new.left = -1 /\ new.liveness = info.liveness - 1 /\ new.silent = info.silent
    BY <1>4 DEF WorkerInfo
  <2>2. info.liveness - 1 \in 0 .. Liveness
    BY <1>1, <1>2, <2>1
  <2>3. new \in WorkerInfo
    BY <2>1, <2>2 DEF WorkerInfo
  <2>4. info.silent >= Heartbeat + 1
    BY <1>4 DEF Counted
  <2>5. \/ info.silent = Grace + 1
        \/ info.silent >= Span(Liveness - info.liveness) + Heartbeat + 1
    <3>1. CASE info.liveness = Liveness
      <4>1. Liveness - info.liveness = 0
        BY <1>1, <3>1
      <4> QED BY <1>1, <2>4, <4>1
    <3>2. CASE info.liveness < Liveness
      <4>1. \/ info.silent = Grace + 1
            \/ info.silent >= Span(Liveness - info.liveness) + Heartbeat - (-1)
        BY <3>2 DEF Counted
      <4>2. Liveness - info.liveness \in Nat
        BY <1>1, <1>2
      <4>3. Span(Liveness - info.liveness) \in Nat
        BY <1>1, <4>2
      <4> QED BY <1>1, <4>1, <4>3
    <3>3. info.liveness = Liveness \/ info.liveness < Liveness
      BY TimeAssumption, <1>2
    <3> QED BY <3>1, <3>2, <3>3
  <2>6. Span(Liveness - new.liveness) = Span(Liveness - info.liveness) + Heartbeat + 1
    <3>1. Liveness - info.liveness \in Nat
          /\ Liveness - new.liveness = (Liveness - info.liveness) + 1
      BY <1>1, <1>2, <2>1
    <3> QED BY <1>1, <3>1
  <2>7. Liveness - info.liveness \in Nat /\ Span(Liveness - info.liveness) \in Nat
    BY <1>1, <1>2
  <2>8. \/ new.silent = Grace + 1
        \/ new.silent >= Span(Liveness - new.liveness) + Heartbeat - Heartbeat
    BY <1>1, <1>2, <2>1, <2>5, <2>6, <2>7
  <2> QED BY <2>1, <2>3, <2>4, <2>8 DEF Counted
<1> QED BY <1>3, <1>4

\* The workers that a beat leaves.
LEMMA PurgeOf ==
  ASSUME TypeOK, CountInv, due = -1, purge
  PROVE  /\ Known' = {v \in Known : v \notin Expired \/ m_workers[v].liveness > 0}
         /\ m_workers' \in [Known' -> WorkerInfo]
         /\ \A v \in Known' : /\ Counted(m_workers'[v], Heartbeat)
                              /\ m_workers'[v].silent = m_workers[v].silent
<1> DEFINE K == {v \in Known : v \notin Expired \/ m_workers[v].liveness > 0}
           New(v) == IF v \in Expired THEN [m_workers[v] EXCEPT !.liveness = @ - 1]
                                      ELSE m_workers[v]
<1>1. m_workers' = [v \in K |-> New(v)]
  BY DEF purge
<1>2. Known' = K
  BY <1>1 DEF Known
<1>3. ASSUME NEW v \in K
      PROVE  New(v) \in WorkerInfo /\ Counted(New(v), Heartbeat)
             /\ New(v).silent = m_workers[v].silent
  <2> DEFINE info == m_workers[v]
  <2>1. info \in WorkerInfo /\ Counted(info, -1)
    BY DEF TypeOK, CountInv
  <2>2. /\ info.left # -1 \/ info.liveness > 0
        /\ New(v) = IF info.left = -1 THEN [info EXCEPT !.liveness = @ - 1] ELSE info
    BY DEF Expired
  <2> HIDE DEF info, New
  <2>3. New(v) \in WorkerInfo /\ Counted(New(v), Heartbeat) /\ New(v).silent = info.silent
    BY <2>1, <2>2, CountDown
  <2> QED BY <2>3 DEF info
<1> HIDE DEF New, K
<1>4. m_workers' \in [K -> WorkerInfo] /\ \A v \in K : m_workers'[v] = New(v)
  BY <1>1, <1>3
<1>5. /\ m_workers' \in [Known' -> WorkerInfo]
      /\ \A v \in Known' : /\ Counted(m_workers'[v], Heartbeat)
                           /\ m_workers'[v].silent = m_workers[v].silent
  BY <1>2, <1>3, <1>4
<1> QED BY <1>2, <1>5 DEF K

LEMMA BeatIInv ==
  ASSUME IInv, Beat
  PROVE  IInv'
<1>1. TypeOK /\ CountInv /\ OrderInv /\ OwnerInv
  BY DEF IInv
<1>2. /\ pc = "beat" /\ pc' \in {"ending", "poll"}
      /\ UNCHANGED <<terminate, owner, m_clients, pong_ready, inbox, answered, phase,
                     pongs, restarted>>
  BY DEF Beat, Again, peer_vars
<1>3. CASE due = -1 /\ purge /\ pubPing /\ due' = Heartbeat
  <2>1. /\ Known' \subseteq Known /\ m_workers' \in [Known' -> WorkerInfo]
        /\ \A v \in Known' : Counted(m_workers'[v], Heartbeat)
    BY <1>1, <1>3, PurgeOf
  <2>2. Heartbeat \in -1 .. Heartbeat
    BY SpanOf
  <2>3. pings' \in [Worker -> 0 .. MaxPing]
    <3>1. PICK heard \in SUBSET {w \in Worker : /\ phase[w] = "in"
                                                /\ pings[w] + Len(pongs[w]) < MaxPing} :
            pings' = [w \in Worker |-> IF w \in heard THEN pings[w] + 1 ELSE pings[w]]
      BY <1>3 DEF pubPing
    <3>2. MaxPing \in Nat /\ pings \in [Worker -> 0 .. MaxPing]
      BY <1>1, BoundAssumption DEF TypeOK
    <3>3. \A w \in Worker : Len(pongs[w]) \in Nat
      BY <1>1, QueueOf DEF TypeOK
    <3>4. \A w \in heard : pings[w] + 1 \in 0 .. MaxPing
      BY <3>1, <3>2, <3>3
    <3> QED BY <3>1, <3>2, <3>4
  <2>4. TypeOK'
    BY <1>1, <1>2, <1>3, <2>1, <2>2, <2>3 DEF TypeOK
  <2>5. CountInv'
    BY <1>3, <2>1 DEF CountInv
  <2>6. OrderInv'
    BY <1>1, <1>2, OrderFrame
  <2> QED BY <1>2, <2>4, <2>5, <2>6 DEF IInv, OwnerInv, UnknownOnlyAfterRestart
<1>4. CASE due >= 0 /\ UNCHANGED <<m_workers, pings, due>>
  <2>1. TypeOK'
    BY <1>1, <1>2, <1>4 DEF TypeOK, Known
  <2>2. CountInv' /\ OrderInv'
    BY <1>1, <1>2, <1>4, CountFrame, OrderFrame
  <2> QED BY <1>1, <1>2, <2>1, <2>2 DEF IInv, OwnerInv, UnknownOnlyAfterRestart
<1> QED BY <1>3, <1>4 DEF Beat

\* A moment of silence more, on both clocks.
LEMMA TickCounted ==
  ASSUME NEW info \in WorkerInfo, NEW d \in -1 .. Heartbeat, Counted(info, d),
         NEW new, new = [info EXCEPT !.left = Less(@),
                                     !.silent = IF @ <= Grace THEN @ + 1 ELSE @]
  PROVE  new \in WorkerInfo /\ Counted(new, Less(d))
<1>1. /\ Heartbeat \in Nat \ {0} /\ Liveness \in Nat /\ Grace \in Nat /\ Grace >= Heartbeat
      /\ \A n \in Nat : Span(n) \in Nat
  BY SpanOf
<1>2. /\ info.left \in -1 .. Heartbeat /\ info.liveness \in 0 .. Liveness
      /\ info.silent \in 0 .. Grace + 1
  BY DEF WorkerInfo
<1>3. /\ new.left = Less(info.left) /\ new.liveness = info.liveness
      /\ new.silent = IF info.silent <= Grace THEN info.silent + 1 ELSE info.silent
  BY DEF WorkerInfo
<1>4. Less(info.left) \in -1 .. Heartbeat /\ new.silent \in 0 .. Grace + 1
  BY <1>1, <1>2, <1>3 DEF Less
<1>5. new \in WorkerInfo
  BY <1>3, <1>4 DEF WorkerInfo
<1>6. new.left >= 0 => new.liveness = Liveness /\ new.silent = Heartbeat - new.left
  <2> HAVE new.left >= 0
  <2>1. info.left >= 1 /\ new.left = info.left - 1
    BY <1>2, <1>3 DEF Less
  <2>2. info.liveness = Liveness /\ info.silent = Heartbeat - info.left
    BY <1>2, <2>1 DEF Counted
  <2> QED BY <1>1, <1>2, <1>3, <2>1, <2>2
<1>7. new.left = -1 => new.silent >= Heartbeat + 1
  <2> HAVE new.left = -1
  <2>1. info.left = 0 \/ info.left = -1
    BY <1>2, <1>3 DEF Less
  <2>2. info.left = 0 => info.silent = Heartbeat
    BY <1>1 DEF Counted
  <2>3. info.left = -1 => info.silent >= Heartbeat + 1
    BY DEF Counted
  <2> QED BY <1>1, <1>2, <1>3, <2>1, <2>2, <2>3
<1>8. new.liveness < Liveness =>
        \/ new.silent = Grace + 1
        \/ new.silent >= Span(Liveness - new.liveness) + Heartbeat - Less(d)
  <2> HAVE new.liveness < Liveness
  <2>1. \/ info.silent = Grace + 1
        \/ info.silent >= Span(Liveness - info.liveness) + Heartbeat - d
    BY <1>3 DEF Counted
  <2>2. Liveness - info.liveness \in Nat
    BY <1>1, <1>2
  <2>3. Span(Liveness - info.liveness) \in Nat
    BY <1>1, <2>2
  <2>4. Less(d) >= d - 1 /\ Less(d) \in Int
    BY <1>1 DEF Less
  <2>5. new.silent = Grace + 1 \/ new.silent = info.silent + 1
    BY <1>1, <1>2, <1>3
  <2>6. info.silent = Grace + 1 => new.silent = Grace + 1
    BY <1>1, <1>3
  <2> QED BY <1>1, <1>2, <1>3, <2>1, <2>3, <2>4, <2>5, <2>6
<1> QED BY <1>5, <1>6, <1>7, <1>8 DEF Counted

LEMMA TickIInv ==
  ASSUME IInv, Tick
  PROVE  IInv'
<1> DEFINE New(w) == [m_workers[w] EXCEPT !.left = Less(@),
                                          !.silent = IF @ <= Grace THEN @ + 1 ELSE @]
<1>1. TypeOK /\ CountInv /\ OrderInv /\ OwnerInv /\ UnknownOnlyAfterRestart
  BY DEF IInv
<1>2. /\ due' = Less(due) /\ m_workers' = [w \in Known |-> New(w)]
      /\ UNCHANGED <<pc, terminate, owner, pong_ready, m_clients, inbox, answered, phase,
                     pings, pongs, restarted>>
  BY DEF Tick, hub_vars, peer_vars
<1>3. Known' = Known
  BY <1>2 DEF Known
<1>4. due \in -1 .. Heartbeat /\ due' \in -1 .. Heartbeat
  <2>1. due \in -1 .. Heartbeat /\ due' = Less(due)
    BY <1>1, <1>2 DEF TypeOK
  <2> QED BY <2>1, TimeAssumption DEF Less
<1>5. \A w \in Known : New(w) \in WorkerInfo /\ Counted(New(w), due')
  <2> TAKE w \in Known
  <2> DEFINE info == m_workers[w]
  <2>1. info \in WorkerInfo /\ Counted(info, due)
    BY <1>1 DEF TypeOK, CountInv
  <2>2. New(w) = [info EXCEPT !.left = Less(@), !.silent = IF @ <= Grace THEN @ + 1 ELSE @]
    OBVIOUS
  <2> HIDE DEF info, New
  <2> QED BY <1>2, <1>4, <2>1, <2>2, TickCounted
<1> HIDE DEF New
<1>6. m_workers' \in [Known' -> WorkerInfo] /\ \A w \in Known' : m_workers'[w] = New(w)
  BY <1>2, <1>3, <1>5
<1>7. TypeOK'
  BY <1>1, <1>2, <1>3, <1>4, <1>6 DEF TypeOK
<1>8. CountInv'
  BY <1>3, <1>5, <1>6 DEF CountInv
<1>9. OrderInv'
  BY <1>1, <1>2, OrderFrame
<1> QED BY <1>1, <1>2, <1>7, <1>8, <1>9 DEF IInv, OwnerInv, UnknownOnlyAfterRestart

-----------------------------------------------------------------------------
(***************************************************************************)
(* Theorems.                                                               *)
(***************************************************************************)

LEMMA NextIInv ==
  ASSUME IInv, [Next]_vars
  PROVE  IInv'
<1>1. CASE run
  BY <1>1, LoopIInv, RequestIInv, QueryIInv, PongIInv, BeatIInv DEF run
<1>2. CASE startHUb \/ stopHUb \/ delete \/ wait
  BY <1>2, OwnIInv
<1>3. CASE Tick
  BY <1>3, TickIInv
<1>4. CASE Restart
  BY <1>4, RestartIInv
<1>5. CASE peers
  BY <1>5, PeersIInv
<1>6. CASE UNCHANGED vars
  <2>1. UNCHANGED <<pc, terminate, owner, due, m_workers, m_clients, pong_ready, inbox,
                    answered, phase, pings, pongs, restarted>>
    BY <1>6 DEF vars, hub_vars, peer_vars
  <2>2. TypeOK'
    BY <2>1 DEF IInv, TypeOK, Known
  <2> QED BY <2>1, <2>2, CountFrame, OrderFrame DEF IInv, OwnerInv, UnknownOnlyAfterRestart
<1> QED BY <1>1, <1>2, <1>3, <1>4, <1>5, <1>6 DEF Next

LEMMA Invariance == Spec => []IInv
  BY InitIInv, NextIInv, PTL DEF Spec

\* The tables, queues and places are what they should be: no expiry, liveness or
\* place of the loop outside its range, and the forwarder's pings within bounds.
THEOREM TypeCorrect == Spec => []TypeOK
<1>1. IInv => TypeOK
  BY DEF IInv
<1> QED BY <1>1, Invariance, PTL

\* The hub meets the query of a client that it does not know, and crashes on it
\* (qhub.cpp:219), only if it took the place of another one.
THEOREM FirstHubKnowsItsClients == Spec => []UnknownOnlyAfterRestart
<1>1. IInv => UnknownOnlyAfterRestart
  BY DEF IInv
<1> QED BY <1>1, Invariance, PTL

-----------------------------------------------------------------------------
(***************************************************************************)
(* Refinement: each step of the hub is a step of Membership, or changes    *)
(* nothing that it sees.                                                   *)
(***************************************************************************)

Seen == <<Known, silence, hub_up>>

\* What Membership sees of a state.
LEMMA SeenOf ==
  /\ UNCHANGED <<m_workers, hub_up>> => UNCHANGED Seen
  /\ UNCHANGED m_workers => UNCHANGED <<Known, silence>>
  BY DEF Seen, Known, silence

LEMMA UpWhileWorking ==
  ASSUME IInv, pc \notin {"off", "crashed"}
  PROVE  hub_up
  BY DEF IInv, OwnerInv, hub_up

\* A request of an unknown worker is a Join.
LEMMA RequestJoins ==
  ASSUME IInv, NEW w \in Worker, workerRequest(w)
  PROVE  M!Join(w) \/ UNCHANGED Seen
<1>1. /\ pc = "request" /\ pc' \in {"pong", "beat"} /\ owner' = owner
      /\ m_workers' = [v \in Known \cup {w} |-> IF v \in Known THEN m_workers[v] ELSE Fresh]
  BY DEF workerRequest, Take, AfterRequest
<1>2. hub_up /\ hub_up'
  BY <1>1, UpWhileWorking DEF hub_up
<1>3. Known' = Known \cup {w}
  BY <1>1 DEF Known
<1>4. Fresh.silent = 0
  BY FreshOf
<1>5. silence' = silence
  BY <1>1, <1>3, <1>4 DEF silence
<1>6. w \notin Known => M!Join(w)
  BY <1>2, <1>3, <1>5 DEF M!Join
<1>7. w \in Known => UNCHANGED Seen
  BY <1>2, <1>3, <1>5 DEF Seen
<1> QED BY <1>6, <1>7

\* A pong of a known worker is a Hear.
LEMMA PongHears ==
  ASSUME IInv, NEW w \in Worker, workerPong(w)
  PROVE  M!Hear(w) \/ UNCHANGED Seen
<1>1. /\ pc = "pong" /\ pc' \in {"beat", "ending"} /\ owner' = owner
      /\ m_workers' = m_workers \/ (w \in Known /\ m_workers' = [m_workers EXCEPT ![w] = Fresh])
  BY DEF workerPong, Renew
<1>2. hub_up /\ hub_up'
  BY <1>1, UpWhileWorking DEF hub_up
<1>3. CASE m_workers' = m_workers
  BY <1>2, <1>3, SeenOf DEF Seen
<1>4. CASE w \in Known /\ m_workers' = [m_workers EXCEPT ![w] = Fresh]
  <2>1. m_workers \in [Known -> WorkerInfo] /\ Fresh.silent = 0
    BY FreshOf DEF IInv, TypeOK
  <2>2. /\ Known' = Known
        /\ \A v \in Known : m_workers'[v] = IF v = w THEN Fresh ELSE m_workers[v]
    BY <1>4, <2>1 DEF Known
  <2>3. silence' = [silence EXCEPT ![w] = 0]
    BY <2>1, <2>2, <1>4 DEF silence
  <2> QED BY <1>2, <1>4, <2>2, <2>3 DEF M!Hear
<1> QED BY <1>1, <1>3, <1>4

\* A beat is a GiveUp: who goes has been counted down, span by span, to a
\* silence longer than the grace.
LEMMA BeatGivesUp ==
  ASSUME IInv, Beat
  PROVE  M!GiveUp \/ UNCHANGED Seen
<1>1. TypeOK /\ CountInv
  BY DEF IInv
<1>2. pc = "beat" /\ pc' \in {"ending", "poll"} /\ owner' = owner
  BY DEF Beat, Again
<1>3. hub_up /\ hub_up'
  BY <1>2, UpWhileWorking DEF hub_up
<1>4. CASE due = -1 /\ purge
  <2> DEFINE S == {v \in Known : v \in Expired /\ m_workers[v].liveness <= 0}
  <2>1. /\ Known' = {v \in Known : v \notin Expired \/ m_workers[v].liveness > 0}
        /\ \A v \in Known' : m_workers'[v].silent = m_workers[v].silent
    BY <1>1, <1>4, PurgeOf
  <2>2. \A v \in Known : m_workers[v].liveness \in 0 .. Liveness
    BY <1>1 DEF TypeOK, WorkerInfo
  <2>3. Known' = Known \ S
    BY <2>1, <2>2, TimeAssumption
  <2>4. \A v \in S : silence[v] > Grace
    <3> TAKE v \in S
    <3> DEFINE info == m_workers[v]
    <3>1. /\ v \in Known /\ info.left = -1 /\ info.liveness = 0
          /\ info \in WorkerInfo /\ Counted(info, -1)
      BY <1>1, <1>4, <2>2, TimeAssumption DEF Expired, TypeOK, CountInv
    <3>2. silence[v] = info.silent
      BY <1>1, <3>1 DEF silence, TypeOK
    <3> HIDE DEF info
    <3>3. info.silent >= Heartbeat + 1 /\ info.silent \in 0 .. Grace + 1
      BY <3>1 DEF Counted, WorkerInfo
    <3>4. CASE Liveness = 0
      <4>1. Grace = Heartbeat
        BY <3>4, TimeAssumption DEF Grace
      <4> QED BY <3>2, <3>3, <4>1, TimeAssumption
    <3>5. CASE Liveness > 0
      <4>1. \/ info.silent = Grace + 1
            \/ info.silent >= Span(Liveness - 0) + Heartbeat - (-1)
        BY <3>1, <3>5 DEF Counted
      <4>2. Liveness - 0 = Liveness /\ Heartbeat - (-1) = Heartbeat + 1
        BY TimeAssumption
      <4>3. /\ Span(Liveness) \in Nat /\ Span(Liveness) + Heartbeat + 1 > Grace
            /\ Grace \in Nat
        BY SpanOf
      <4> QED BY <3>2, <3>3, <4>1, <4>2, <4>3, TimeAssumption
    <3> QED BY <3>4, <3>5, TimeAssumption
  <2> HIDE DEF S
  <2>5. S \in SUBSET {w \in Known : silence[w] > Grace}
    BY <2>4 DEF S
  <2>6. \A v \in Known : v \in Known' <=> v \notin S
    BY <2>3
  <2>7. silence' = [w \in Worker |-> IF w \in S THEN 0 ELSE silence[w]]
    <3>1. silence' = [w \in Worker |-> IF w \in Known' THEN m_workers'[w].silent ELSE 0]
      BY DEF silence
    <3>2. \A w \in Worker : (IF w \in Known' THEN m_workers'[w].silent ELSE 0)
                              = IF w \in S THEN 0 ELSE silence[w]
      BY <2>1, <2>3, <2>6 DEF silence
    <3> QED BY <3>1, <3>2
  <2> QED BY <1>3, <2>3, <2>5, <2>7 DEF M!GiveUp
<1>5. CASE UNCHANGED m_workers
  BY <1>3, <1>5, SeenOf DEF Seen
<1> QED BY <1>4, <1>5 DEF Beat

\* Time is a Lapse.
LEMMA TickLapses ==
  ASSUME IInv, Tick
  PROVE  M!Lapse
<1> DEFINE New(w) == [m_workers[w] EXCEPT !.left = Less(@),
                                          !.silent = IF @ <= Grace THEN @ + 1 ELSE @]
<1>1. m_workers \in [Known -> WorkerInfo]
  BY DEF IInv, TypeOK
<1>2. m_workers' = [w \in Known |-> New(w)] /\ pc' = pc /\ owner' = owner
  BY DEF Tick, hub_vars
<1>3. Known' = Known
  BY <1>2 DEF Known
<1>4. \A w \in Known :
        New(w).silent = IF m_workers[w].silent <= Grace THEN m_workers[w].silent + 1
                                                        ELSE m_workers[w].silent
  <2> TAKE w \in Known
  <2>1. m_workers[w] \in WorkerInfo
    BY <1>1
  <2> QED BY <2>1 DEF WorkerInfo
<1> HIDE DEF New
<1>5. \A w \in Known : m_workers'[w] = New(w)
  BY <1>2
<1>6. silence' = [w \in Worker |-> IF w \in Known' THEN m_workers'[w].silent ELSE 0]
  BY DEF silence
<1>7. \A w \in Worker : (IF w \in Known' THEN m_workers'[w].silent ELSE 0)
                          = IF w \in Known /\ silence[w] <= Grace THEN silence[w] + 1
                                                                  ELSE silence[w]
  BY <1>3, <1>4, <1>5 DEF silence
<1>8. silence' = [w \in Worker |-> IF w \in Known /\ silence[w] <= Grace
                                     THEN silence[w] + 1 ELSE silence[w]]
  BY <1>6, <1>7
<1> QED BY <1>2, <1>3, <1>8 DEF M!Lapse, hub_up

\* A crash is a Fail.
LEMMA QueryFails ==
  ASSUME IInv, NEW c \in Client, clientQuery(c)
  PROVE  M!Fail \/ UNCHANGED Seen
<1>1. pc = "request" /\ owner' = owner /\ m_workers' = m_workers
      /\ pc' \in {"pong", "beat", "crashed"}
  BY QueryOf DEF IInv, clientQuery, Take
<1>2. hub_up
  BY <1>1, UpWhileWorking
<1>3. UNCHANGED <<Known, silence>>
  BY <1>1, SeenOf
<1> QED BY <1>1, <1>2, <1>3 DEF M!Fail, Seen, hub_up

\* So is the end of the destructor.
LEMMA OwnFails ==
  ASSUME IInv, startHUb \/ stopHUb \/ delete \/ wait
  PROVE  M!Fail \/ UNCHANGED Seen
<1>1. /\ m_workers' = m_workers /\ pc # "crashed" /\ pc' \in {pc, "head"}
      /\ owner \in {"idle", "stopping", "deleting"}
  BY DEF startHUb, stopHUb, delete, wait, Own
<1>2. UNCHANGED <<Known, silence>>
  BY <1>1, SeenOf
<1> QED BY <1>1, <1>2 DEF M!Fail, Seen, hub_up

\* Another hub is a Replace.
LEMMA RestartReplaces ==
  ASSUME Restart
  PROVE  M!Replace
<1>1. m_workers' = <<>> /\ pc' = "off" /\ owner' = "idle" /\ ~hub_up
  BY DEF Restart, hub_up
<1>2. Known' = {}
  BY <1>1 DEF Known
<1>3. silence' = [w \in Worker |-> 0]
  BY <1>2 DEF silence
<1> QED BY <1>1, <1>2, <1>3 DEF M!Replace, hub_up

\* The rest does not touch the table.
LEMMA OtherSteps ==
  ASSUME IInv, Begin \/ Poll \/ End \/ peers \/ UNCHANGED vars
  PROVE  UNCHANGED Seen
<1>1. CASE Begin \/ Poll \/ End
  <2>1. pc \notin {"off", "crashed"} /\ pc' # "crashed" /\ owner' = owner
        /\ m_workers' = m_workers
    BY <1>1 DEF Begin, Poll, End, Again, AfterRequest
  <2>2. hub_up /\ hub_up'
    BY <2>1, UpWhileWorking DEF hub_up
  <2> QED BY <2>1, <2>2, SeenOf
<1>2. CASE peers
  <2>1. UNCHANGED <<pc, owner, m_workers>>
    BY <1>2 DEF peers, Register, Accepted, TimedOut, Command, LeaveClient, LeaveWorker,
           s_switch, PeerStep, hub_vars
  <2> QED BY <2>1, SeenOf DEF hub_up
<1>3. CASE UNCHANGED vars
  <2>1. UNCHANGED <<pc, owner, m_workers>>
    BY <1>3 DEF vars, hub_vars
  <2> QED BY <2>1, SeenOf DEF hub_up
<1> QED BY <1>1, <1>2, <1>3

\* The table of workers implements Membership: who has been heard stays, whatever
\* is lost, late or restarted, until a silence longer than liveness + 1 heartbeats
\* (qhub.cpp:70-88, 267-276).
THEOREM MembersAreKept == Spec => MembersRefine
<1>1. Init => M!Init
  <2> HAVE Init
  <2>1. m_workers = <<>> /\ pc = "off" /\ owner = "idle"
    BY DEF Init
  <2>2. Known = {}
    BY <2>1 DEF Known
  <2>3. silence = [w \in Worker |-> 0]
    BY <2>2 DEF silence
  <2> QED BY <2>1, <2>2, <2>3 DEF M!Init, hub_up
<1>2. IInv /\ [Next]_vars => [M!Next]_<<Known, silence, hub_up>>
  <2> SUFFICES ASSUME IInv, [Next]_vars PROVE M!Next \/ UNCHANGED Seen
    BY DEF Seen
  <2>1. CASE \E w \in Worker : workerRequest(w)
    BY <2>1, RequestJoins DEF M!Next
  <2>2. CASE \E w \in Worker : workerPong(w)
    BY <2>2, PongHears DEF M!Next
  <2>3. CASE Beat
    BY <2>3, BeatGivesUp DEF M!Next
  <2>4. CASE \E c \in Client : clientQuery(c)
    BY <2>4, QueryFails DEF M!Next
  <2>5. CASE startHUb \/ stopHUb \/ delete \/ wait
    BY <2>5, OwnFails DEF M!Next
  <2>6. CASE Tick
    BY <2>6, TickLapses DEF M!Next
  <2>7. CASE Restart
    BY <2>7, RestartReplaces DEF M!Next
  <2>8. CASE Begin \/ Poll \/ End \/ peers \/ UNCHANGED vars
    BY <2>8, OtherSteps
  <2> QED BY <2>1, <2>2, <2>3, <2>4, <2>5, <2>6, <2>7, <2>8 DEF Next, run
<1> QED BY <1>1, <1>2, Invariance, PTL DEF Spec, MembersRefine, M!Spec
=============================================================================
