--------------------------- MODULE ActorPipeProofs ---------------------------
(***************************************************************************)
(* Theorems about ActorPipe, for any high-water mark: what a careful caller*)
(* finds in the pipe, and that it does not close an ActorSocket before the *)
(* handler has returned.                                                   *)
(***************************************************************************)
EXTENDS ActorPipe, SequenceTheorems, TLAPS

\* The handler has still to answer the command it has taken from the pipe.
Answering == spc = "reply" \/ (spc = "handle" /\ command # "quiet")

NoAnswer(q) == \A i \in DOMAIN q : q[i] \notin {"ack", "echo"}
OneAnswer(q, a) == \E k \in DOMAIN q :
                     /\ q[k] = a
                     /\ \A i \in DOMAIN q \ {k} : q[i] \notin {"ack", "echo"}
Quiet(q) == \A i \in DOMAIN q : q[i] = "quiet"
\* Only the last command in the pipe is answered, with a.
LastAsks(q, a) == /\ q # <<>> /\ q[Len(q)] \in Command /\ Reply[q[Len(q)]] = a
                  /\ \A i \in DOMAIN q : i < Len(q) => q[i] = "quiet"

\* The first and the last signal of the thread.
InitInv == /\ apc = "new" => spc = "none" /\ to_app = <<>>
           /\ spc \in {"none", "init"} => apc \in {"new", "start"} /\ to_app = <<>>
           /\ \A i \in DOMAIN to_app : to_app[i] = "init" => i = 1 /\ apc = "start"
ExitInv == \A i \in DOMAIN to_app : to_app[i] = "exit" => i = Len(to_app) /\ spc = "done"

\* Nothing is under way between the two threads ...
AtRest == /\ ~Answering /\ NoAnswer(to_app)
          /\ to_actor = <<>> \/ spc = "done"
\* ... or only commands without an answer ...
QuietOnly == /\ ~Answering /\ NoAnswer(to_app)
             /\ Quiet(to_actor) \/ spc = "done"
\* ... or one question, which lies in one of three places.
OneQuestion(a) ==
  \/ /\ ~Answering /\ NoAnswer(to_app)
     /\ LastAsks(to_actor, a) \/ spc = "done"
  \/ /\ Answering /\ Reply[command] = a /\ NoAnswer(to_app)
     /\ to_actor = <<>>
  \/ /\ ~Answering /\ OneAnswer(to_app, a)
     /\ to_actor = <<>>

CarefulInv ==
  careful =>
    /\ apc \in {"new", "start"} => expecting = "none" /\ AtRest
    /\ apc = "ready" /\ expecting = "none" => AtRest
    /\ apc = "ready" /\ expecting = "any" => QuietOnly
    /\ apc = "ready" /\ expecting \in {"ack", "echo"} => OneQuestion(expecting)
    /\ apc = "term" => AtRest
    /\ apc = "wait" => /\ ~Answering /\ NoAnswer(to_app)
                       /\ spc = "done" \/ \A i \in DOMAIN to_actor : to_actor[i] = "$TERM"
    /\ CloseWaits

IInv == TypeOK /\ InitInv /\ ExitInv /\ CarefulInv

-----------------------------------------------------------------------------
(***************************************************************************)
(* The pipe as a sequence: what its first element and its tail are, and    *)
(* what appending changes.                                                 *)
(***************************************************************************)

LEMMA TailOf ==
  ASSUME NEW S, NEW q \in Seq(S), q # <<>>
  PROVE  /\ Head(q) \in S /\ Head(q) = q[1] /\ 1 \in DOMAIN q
         /\ Tail(q) \in Seq(S) /\ Len(Tail(q)) = Len(q) - 1
         /\ Len(q) \in Nat \ {0}
         /\ DOMAIN q = 1 .. Len(q) /\ DOMAIN Tail(q) = 1 .. (Len(q) - 1)
         /\ \A i \in DOMAIN Tail(q) : i + 1 \in DOMAIN q /\ Tail(q)[i] = q[i + 1]
  BY HeadTailProperties, LenProperties, EmptySeq

LEMMA AppendOf ==
  ASSUME NEW S, NEW q \in Seq(S), NEW e \in S
  PROVE  /\ Append(q, e) \in Seq(S) /\ Len(Append(q, e)) = Len(q) + 1
         /\ Len(q) \in Nat /\ DOMAIN q = 1 .. Len(q)
         /\ DOMAIN Append(q, e) = 1 .. (Len(q) + 1)
         /\ \A i \in 1 .. Len(q) : Append(q, e)[i] = q[i]
         /\ Append(q, e)[Len(q) + 1] = e
  BY AppendProperties, LenProperties

\* Taking an element off a pipe keeps what holds of all its elements, and takes
\* the one answer off only if it is the first.
LEMMA TailAnswers ==
  ASSUME NEW S, NEW q \in Seq(S), q # <<>>, NEW a
  PROVE  /\ NoAnswer(q) => NoAnswer(Tail(q)) /\ Head(q) \notin {"ack", "echo"}
         /\ Quiet(q) => Quiet(Tail(q)) /\ Head(q) = "quiet"
         /\ a \in {"ack", "echo"} /\ OneAnswer(q, a) =>
              \/ Head(q) = a /\ NoAnswer(Tail(q))
              \/ Head(q) \notin {"ack", "echo"} /\ OneAnswer(Tail(q), a) /\ Tail(q) # <<>>
         /\ LastAsks(q, a) =>
              \/ Tail(q) = <<>> /\ Head(q) \in Command /\ Reply[Head(q)] = a
              \/ Head(q) = "quiet" /\ LastAsks(Tail(q), a)
<1> DEFINE t == Tail(q)
<1>0. /\ Head(q) = q[1] /\ 1 \in DOMAIN q /\ t \in Seq(S)
      /\ Len(t) = Len(q) - 1 /\ Len(q) \in Nat \ {0}
      /\ DOMAIN q = 1 .. Len(q) /\ DOMAIN t = 1 .. (Len(q) - 1)
      /\ \A i \in DOMAIN t : i + 1 \in DOMAIN q /\ t[i] = q[i + 1]
  BY TailOf
<1> HIDE DEF t
<1>1. NoAnswer(q) => NoAnswer(t) /\ Head(q) \notin {"ack", "echo"}
  BY <1>0 DEF NoAnswer
<1>2. Quiet(q) => Quiet(t) /\ Head(q) = "quiet"
  BY <1>0 DEF Quiet
<1>3. ASSUME a \in {"ack", "echo"}, OneAnswer(q, a)
      PROVE  \/ Head(q) = a /\ NoAnswer(t)
             \/ Head(q) \notin {"ack", "echo"} /\ OneAnswer(t, a) /\ t # <<>>
  <2>1. PICK k \in DOMAIN q : q[k] = a /\ \A i \in DOMAIN q \ {k} : q[i] \notin {"ack", "echo"}
    BY <1>3 DEF OneAnswer
  <2>2. CASE k = 1
    <3>1. \A i \in DOMAIN t : t[i] \notin {"ack", "echo"}
      BY <1>0, <2>1, <2>2
    <3> QED BY <1>0, <2>1, <2>2, <3>1 DEF NoAnswer
  <2>3. CASE k # 1
    <3>1. Head(q) \notin {"ack", "echo"}
      BY <1>0, <2>1, <2>3
    <3>2. k - 1 \in DOMAIN t /\ t[k - 1] = a
      BY <1>0, <2>1, <2>3
    <3>3. \A i \in DOMAIN t \ {k - 1} : t[i] \notin {"ack", "echo"}
      BY <1>0, <2>1, <2>3
    <3>4. t # <<>>
      BY <3>2
    <3> QED BY <3>1, <3>2, <3>3, <3>4 DEF OneAnswer
  <2> QED BY <2>2, <2>3
<1>4. ASSUME LastAsks(q, a)
      PROVE  \/ t = <<>> /\ Head(q) \in Command /\ Reply[Head(q)] = a
             \/ Head(q) = "quiet" /\ LastAsks(t, a)
  <2>1. CASE Len(q) = 1
    <3>1. t = <<>>
      BY <2>1, <1>0, EmptySeq
    <3> QED BY <1>0, <1>4, <2>1, <3>1 DEF LastAsks
  <2>2. CASE Len(q) # 1
    <3>1. Len(t) \in DOMAIN t /\ t[Len(t)] = q[Len(q)]
      BY <1>0, <2>2
    <3>2. t # <<>>
      BY <3>1
    <3>3. \A i \in DOMAIN t : i < Len(t) => t[i] = "quiet"
      BY <1>0, <1>4 DEF LastAsks
    <3> QED BY <1>0, <1>4, <2>2, <3>1, <3>2, <3>3 DEF LastAsks
  <2> QED BY <2>1, <2>2
<1> QED BY <1>1, <1>2, <1>3, <1>4 DEF t

\* Putting an element into a pipe, likewise.
LEMMA AppendAnswers ==
  ASSUME NEW S, NEW q \in Seq(S), NEW e \in S, NEW a
  PROVE  LET r == Append(q, e) IN
         /\ NoAnswer(q) /\ e \notin {"ack", "echo"} => NoAnswer(r)
         /\ NoAnswer(q) /\ e = a => OneAnswer(r, a)
         /\ OneAnswer(q, a) /\ e \notin {"ack", "echo"} => OneAnswer(r, a)
         /\ Quiet(q) /\ e = "quiet" => Quiet(r)
         /\ Quiet(q) /\ e \in Command /\ Reply[e] = a => LastAsks(r, a)
<1> DEFINE r == Append(q, e)
<1>0. /\ r \in Seq(S) /\ Len(r) = Len(q) + 1 /\ Len(q) \in Nat
      /\ DOMAIN q = 1 .. Len(q) /\ DOMAIN r = 1 .. (Len(q) + 1)
      /\ \A i \in DOMAIN q : r[i] = q[i]
      /\ r[Len(q) + 1] = e /\ r # <<>>
  BY AppendOf, AppendProperties
<1> HIDE DEF r
<1>1. NoAnswer(q) /\ e \notin {"ack", "echo"} => NoAnswer(r)
  BY <1>0 DEF NoAnswer
<1>2. NoAnswer(q) /\ e = a => OneAnswer(r, a)
  BY <1>0 DEF NoAnswer, OneAnswer
<1>3. ASSUME OneAnswer(q, a), e \notin {"ack", "echo"} PROVE OneAnswer(r, a)
  <2>1. PICK k \in DOMAIN q : q[k] = a /\ \A i \in DOMAIN q \ {k} : q[i] \notin {"ack", "echo"}
    BY <1>3 DEF OneAnswer
  <2>2. k \in DOMAIN r /\ r[k] = a
    BY <1>0, <2>1
  <2>3. \A i \in DOMAIN r \ {k} : r[i] \notin {"ack", "echo"}
    BY <1>0, <1>3, <2>1
  <2> QED BY <2>2, <2>3 DEF OneAnswer
<1>4. Quiet(q) /\ e = "quiet" => Quiet(r)
  BY <1>0 DEF Quiet
<1>5. Quiet(q) /\ e \in Command /\ Reply[e] = a => LastAsks(r, a)
  BY <1>0 DEF Quiet, LastAsks
<1> QED BY <1>1, <1>2, <1>3, <1>4, <1>5 DEF r

-----------------------------------------------------------------------------
(***************************************************************************)
(* The invariant is inductive: one lemma for each kind of step.            *)
(***************************************************************************)

Message == Signal \cup {"echo", "event"}
Order   == Command \cup {"$TERM"}

LEMMA ReplyOf ==
  /\ \A c \in Command : Reply[c] \in {"any", "ack", "echo"}
  /\ \A c \in Command : Reply[c] = (IF c = "echo" THEN "echo"
                                    ELSE IF c = "quiet" THEN "any" ELSE "ack")
  BY DEF Reply, Command

LEMMA EmptyPipe ==
  /\ NoAnswer(<<>>) /\ Quiet(<<>>)
  /\ \A a : ~ OneAnswer(<<>>, a) /\ ~ LastAsks(<<>>, a)
  BY DEF NoAnswer, Quiet, OneAnswer, LastAsks

LEMMA InitIInv == Init => IInv
<1> SUFFICES ASSUME Init PROVE IInv
  OBVIOUS
<1>1. TypeOK
  <2>1. \A S : <<>> \in Seq(S) /\ Len(<<>>) = 0
    BY EmptySeq
  <2>2. 0 <= Hwm /\ 0 \in 0 .. MaxCommand /\ 0 \in 0 .. MaxEvent
    BY HwmAssumption, BoundAssumption
  <2> QED BY <2>1, <2>2 DEF Init, TypeOK, AppPC, ShimPC, Command
<1>2. InitInv /\ ExitInv
  BY DEF Init, InitInv, ExitInv
<1>3. CarefulInv
  BY EmptyPipe DEF Init, CarefulInv, AtRest, Answering, CloseWaits
<1> QED BY <1>1, <1>2, <1>3 DEF IInv

\* Steps that leave the pipe alone.
LEMMA QuietStepIInv ==
  ASSUME IInv, Construct \/ Close \/ Handle \/ EventOccurs \/ Interrupt
                 \/ OtherEnters \/ OtherCreates \/ UNCHANGED vars
  PROVE  IInv'
<1> USE DEF app_vars, shim_vars, pipe
<1>1. CASE Construct
  <2>1. TypeOK'
    BY <1>1 DEF Construct, IInv, TypeOK, AppPC, ShimPC
  <2>2. InitInv' /\ ExitInv'
    BY <1>1 DEF Construct, IInv, InitInv, ExitInv
  <2>3. CarefulInv'
    BY <1>1 DEF Construct, IInv, InitInv, CarefulInv, AtRest, Answering, CloseWaits
  <2> QED BY <2>1, <2>2, <2>3 DEF IInv
<1>2. CASE Close
  <2>1. TypeOK'
    BY <1>2 DEF Close, IInv, TypeOK, AppPC
  <2>2. InitInv' /\ ExitInv'
    BY <1>2 DEF Close, IInv, InitInv, ExitInv
  <2>3. CarefulInv'
    BY <1>2 DEF Close, IInv, CarefulInv, AtRest, Answering, CloseWaits
  <2> QED BY <2>1, <2>2, <2>3 DEF IInv
<1>3. CASE Handle
  <2>1. TypeOK'
    BY <1>3 DEF Handle, IInv, TypeOK, ShimPC
  <2>2. InitInv' /\ ExitInv'
    BY <1>3 DEF Handle, IInv, InitInv, ExitInv
  <2>3. /\ spc # "done" /\ UNCHANGED <<app_vars, pipe, command>>
        /\ Answering' <=> Answering
    BY <1>3 DEF Handle, Answering
  <2>4. CarefulInv'
    <3>1. AtRest => AtRest'
      BY <2>3 DEF AtRest
    <3>2. QuietOnly => QuietOnly'
      BY <2>3 DEF QuietOnly
    <3>3. OneQuestion(expecting) => OneQuestion(expecting)'
      BY <2>3 DEF OneQuestion
    <3> QED BY <2>3, <3>1, <3>2, <3>3 DEF IInv, CarefulInv, CloseWaits
  <2> QED BY <2>1, <2>2, <2>4 DEF IInv
<1>4. CASE EventOccurs \/ Interrupt
  <2>1. TypeOK'
    <3>1. events' \in 0 .. MaxEvent
      BY <1>4, BoundAssumption DEF EventOccurs, Interrupt, IInv, TypeOK
    <3>2. spc' \in ShimPC /\ interrupted' \in BOOLEAN
      BY <1>4 DEF EventOccurs, Interrupt, IInv, TypeOK, ShimPC
    <3>3. UNCHANGED <<app_vars, pipe, command, mutex, opc>>
      BY <1>4 DEF EventOccurs, Interrupt
    <3> QED BY <3>1, <3>2, <3>3 DEF IInv, TypeOK
  <2>2. InitInv' /\ ExitInv'
    BY <1>4 DEF EventOccurs, Interrupt, IInv, InitInv, ExitInv
  <2>3. ~Answering /\ ~Answering' /\ spc # "done" /\ UNCHANGED <<app_vars, pipe, command>>
    BY <1>4 DEF EventOccurs, Interrupt, Answering
  <2>4. CarefulInv'
    BY <2>3 DEF IInv, CarefulInv, AtRest, QuietOnly, OneQuestion, CloseWaits
  <2> QED BY <2>1, <2>2, <2>4 DEF IInv
<1>5. CASE OtherEnters \/ OtherCreates \/ UNCHANGED vars
  <2>1. TypeOK'
    BY <1>5 DEF OtherEnters, OtherCreates, vars, IInv, TypeOK
  <2>2. /\ UNCHANGED <<app_vars, pipe, shim_vars>>
        /\ Answering' <=> Answering
    BY <1>5 DEF OtherEnters, OtherCreates, vars, Answering
  <2>3. InitInv' /\ ExitInv'
    BY <2>2 DEF IInv, InitInv, ExitInv
  <2>4. CarefulInv'
    BY <2>2 DEF IInv, CarefulInv, AtRest, QuietOnly, OneQuestion, CloseWaits
  <2> QED BY <2>1, <2>3, <2>4 DEF IInv
<1> QED BY <1>1, <1>2, <1>3, <1>4, <1>5

\* The application takes a message off the pipe.
LEMMA TakeIInv ==
  ASSUME IInv, Started \/ Receive \/ AwaitExit
  PROVE  IInv'
<1> USE DEF shim_vars
<1>0. /\ to_app # <<>> /\ to_app' = Tail(to_app)
      /\ UNCHANGED <<careful, commands, to_actor, spc, command, events,
                     interrupted, mutex, opc>>
      /\ to_app \in Seq(Message) /\ Len(to_app) <= Hwm
  BY DEF Started, Receive, AwaitExit, IInv, TypeOK, Message
<1>1. /\ Head(to_app) \in Message /\ Head(to_app) = to_app[1] /\ 1 \in DOMAIN to_app
      /\ to_app' \in Seq(Message) /\ Len(to_app') = Len(to_app) - 1
      /\ Len(to_app) \in Nat \ {0}
      /\ DOMAIN to_app = 1 .. Len(to_app) /\ DOMAIN to_app' = 1 .. (Len(to_app) - 1)
      /\ \A i \in DOMAIN to_app' : i + 1 \in DOMAIN to_app /\ to_app'[i] = to_app[i + 1]
  BY <1>0, TailOf
<1>2. /\ apc' \in AppPC
      /\ expecting' \in {"none", "any", "ack", "echo"}
  BY DEF Started, Receive, AwaitExit, IInv, TypeOK, AppPC
<1>3. TypeOK'
  BY <1>0, <1>1, <1>2, HwmAssumption DEF IInv, TypeOK, Message
<1>4. \A i \in DOMAIN to_app' : to_app'[i] # "init"
  BY <1>1 DEF IInv, InitInv
<1>5. apc' \notin {"new", "start"} /\ spc \notin {"none", "init"}
  BY <1>0 DEF Started, Receive, AwaitExit, IInv, InitInv
<1>6. InitInv'
  BY <1>0, <1>4, <1>5 DEF InitInv
<1>7. ExitInv'
  BY <1>0, <1>1 DEF IInv, ExitInv
<1>8. Answering' <=> Answering
  BY <1>0 DEF Answering
<1>9. CarefulInv'
  <2> SUFFICES ASSUME careful PROVE CarefulInv'
    BY <1>0 DEF CarefulInv
  <2>0. /\ NoAnswer(to_app) => NoAnswer(to_app') /\ Head(to_app) \notin {"ack", "echo"}
        /\ \A a \in {"ack", "echo"} : OneAnswer(to_app, a) =>
              \/ Head(to_app) = a /\ NoAnswer(to_app')
              \/ /\ Head(to_app) \notin {"ack", "echo"}
                 /\ OneAnswer(to_app', a) /\ to_app' # <<>>
    BY <1>0, TailAnswers
  <2>1. CASE Started
    <3>1. AtRest' /\ expecting' = "none" /\ apc' = "ready"
      BY <2>1, <2>0, <1>0, <1>8 DEF Started, IInv, CarefulInv, AtRest
    <3> QED BY <3>1 DEF CarefulInv, CloseWaits
  <2>2. CASE Receive
    <3>0. apc = "ready" /\ apc' = "ready"
      BY <2>2 DEF Receive
    <3>1. Head(to_app) # "init" /\ (Head(to_app) = "exit" => Len(to_app) = 1 /\ spc = "done")
      BY <3>0, <1>1 DEF IInv, InitInv, ExitInv
    <3>2. expecting' = IF \/ expecting = "ack" /\ Head(to_app) \in Signal
                          \/ expecting = Head(to_app)
                         THEN "none" ELSE expecting
      BY <2>2 DEF Receive
    <3>3. CASE expecting \in {"none", "any"}
      <4>1. expecting' = expecting
        BY <3>2, <3>3, <1>1 DEF Message, Signal
      <4>2. expecting = "none" => AtRest'
        BY <3>0, <2>0, <1>0, <1>8 DEF IInv, CarefulInv, AtRest
      <4>3. expecting = "any" => QuietOnly'
        BY <3>0, <2>0, <1>0, <1>8 DEF IInv, CarefulInv, QuietOnly
      <4> QED BY <3>0, <3>3, <4>1, <4>2, <4>3 DEF CarefulInv, CloseWaits
    <3>4. CASE expecting \in {"ack", "echo"}
      <4>0. OneQuestion(expecting)
        BY <3>0, <3>4 DEF IInv, CarefulInv
      <4>1. CASE NoAnswer(to_app)
        <5>1. Head(to_app) \notin {"ack", "echo"} /\ NoAnswer(to_app')
          BY <4>1, <2>0
        <5>2. CASE expecting' = "none"
          <6>1. Head(to_app) = "exit"
            BY <5>1, <5>2, <3>1, <3>2, <3>4 DEF Signal
          <6>2. spc = "done" /\ ~Answering
            BY <6>1, <3>1 DEF Answering
          <6>3. AtRest'
            BY <6>2, <5>1, <1>0, <1>8 DEF AtRest
          <6> QED BY <6>3, <5>2, <3>0 DEF CarefulInv, CloseWaits
        <5>3. CASE expecting' = expecting
          <6>1. OneQuestion(expecting)'
            <7>1. ~ OneAnswer(to_app, expecting)
              BY <4>1, <3>4 DEF NoAnswer, OneAnswer
            <7>2. CASE ~Answering /\ (LastAsks(to_actor, expecting) \/ spc = "done")
              BY <7>2, <5>1, <5>3, <1>0, <1>8 DEF OneQuestion
            <7>3. CASE Answering /\ Reply[command] = expecting /\ to_actor = <<>>
              BY <7>3, <5>1, <5>3, <1>0, <1>8 DEF OneQuestion
            <7> QED BY <7>1, <7>2, <7>3, <4>0 DEF OneQuestion
          <6> QED BY <6>1, <5>3, <3>0, <3>4 DEF CarefulInv, CloseWaits
        <5> QED BY <5>2, <5>3, <3>2
      <4>2. CASE OneAnswer(to_app, expecting)
        <5>0. ~Answering /\ to_actor = <<>>
          <6>1. ~ NoAnswer(to_app)
            BY <4>2, <3>4 DEF NoAnswer, OneAnswer
          <6> QED BY <6>1, <4>0 DEF OneQuestion
        <5>1. CASE Head(to_app) = expecting /\ NoAnswer(to_app')
          <6>1. expecting' = "none"
            BY <5>1, <3>2
          <6>2. AtRest'
            BY <5>0, <5>1, <1>0, <1>8 DEF AtRest
          <6> QED BY <6>1, <6>2, <3>0 DEF CarefulInv, CloseWaits
        <5>2. CASE /\ Head(to_app) \notin {"ack", "echo"}
                   /\ OneAnswer(to_app', expecting) /\ to_app' # <<>>
          <6>1. Head(to_app) # "exit"
            BY <5>2, <3>1, <1>1, EmptySeq
          <6>2. expecting' = expecting
            BY <6>1, <5>2, <3>1, <3>2, <3>4 DEF Signal
          <6>3. OneQuestion(expecting)'
            BY <6>2, <5>0, <5>2, <1>0, <1>8 DEF OneQuestion
          <6> QED BY <6>2, <6>3, <3>0, <3>4 DEF CarefulInv, CloseWaits
        <5> QED BY <5>1, <5>2, <4>2, <3>4, <2>0
      <4> QED BY <4>1, <4>2, <4>0 DEF OneQuestion
    <3> QED BY <3>3, <3>4 DEF IInv, TypeOK
  <2>3. CASE AwaitExit
    <3>1. ~Answering /\ NoAnswer(to_app)
      BY <2>3 DEF AwaitExit, IInv, CarefulInv
    <3>2. Head(to_app) \notin {"ack", "init"} /\ (Head(to_app) = "exit" => spc = "done")
      BY <2>3, <3>1, <2>0, <1>1 DEF AwaitExit, IInv, InitInv, ExitInv
    <3>3. apc' = "close" => spc' = "done"
      BY <2>3, <3>2, <1>0 DEF AwaitExit, Signal
    <3>4. apc' \in {"close", "wait"}
      BY <2>3 DEF AwaitExit
    <3>5. spc = "done" \/ \A i \in DOMAIN to_actor : to_actor[i] = "$TERM"
      BY <2>3 DEF AwaitExit, IInv, CarefulInv
    <3> QED BY <3>1, <3>3, <3>4, <3>5, <2>0, <1>0, <1>8 DEF CarefulInv, CloseWaits
  <2> QED BY <2>1, <2>2, <2>3
<1> QED BY <1>3, <1>6, <1>7, <1>9 DEF IInv

\* The handler puts a message into the pipe.
LEMMA DeliverIInv ==
  ASSUME IInv, SignalInit \/ Answer \/ SendEvent \/ Exit
  PROVE  IInv'
<1> USE DEF app_vars, shim_vars
<1>1. CASE to_app' = to_app
  <2>1. Exit
    <3>1. \A m \in Message : Append(to_app, m) # to_app
      <4> SUFFICES ASSUME NEW m \in Message PROVE Append(to_app, m) # to_app
        OBVIOUS
      <4>1. to_app \in Seq(Message)
        BY DEF IInv, TypeOK, Message
      <4>2. Len(Append(to_app, m)) = Len(to_app) + 1 /\ Len(to_app) \in Nat
        BY <4>1, AppendOf
      <4> QED BY <4>2
    <3> QED BY <1>1, <3>1 DEF SignalInit, Answer, SendEvent, Deliver, Message, Signal
  <2>2. /\ spc = "exit" /\ spc' = "done" /\ ~Answering /\ ~Answering'
        /\ UNCHANGED <<app_vars, to_actor, to_app, command, events, interrupted, mutex, opc>>
    BY <1>1, <2>1 DEF Exit, Answering
  <2>3. TypeOK'
    BY <2>2 DEF IInv, TypeOK, ShimPC
  <2>4. InitInv' /\ ExitInv'
    BY <2>2 DEF IInv, InitInv, ExitInv
  <2>5. CarefulInv'
    BY <2>2 DEF IInv, CarefulInv, AtRest, QuietOnly, OneQuestion, CloseWaits
  <2> QED BY <2>3, <2>4, <2>5 DEF IInv
<1>2. ASSUME NEW m \in Message, to_app' = Append(to_app, m),
             \/ SignalInit /\ m = "init"
             \/ Answer /\ m = (IF command = "echo" THEN "echo" ELSE "ack")
             \/ SendEvent /\ m = "event"
             \/ Exit /\ m = "exit"
      PROVE  IInv'
  <2>0. /\ to_app \in Seq(Message) /\ Len(to_app) < Hwm
        /\ spc' \in {"loop", "done"} /\ ~Answering' /\ spc # "done"
        /\ UNCHANGED <<app_vars, to_actor, command, events, interrupted, mutex, opc>>
    <3>1. to_app \in Seq(Message)
      BY DEF IInv, TypeOK, Message
    <3>2. Append(to_app, m) # to_app
      BY <3>1, AppendOf
    <3> QED BY <1>2, <3>1, <3>2 DEF SignalInit, Answer, SendEvent, Exit, Deliver, Free, Answering
  <2>1. /\ to_app' \in Seq(Message) /\ Len(to_app') = Len(to_app) + 1
        /\ Len(to_app) \in Nat /\ DOMAIN to_app = 1 .. Len(to_app)
        /\ DOMAIN to_app' = 1 .. (Len(to_app) + 1)
        /\ \A i \in 1 .. Len(to_app) : to_app'[i] = to_app[i]
        /\ to_app'[Len(to_app) + 1] = m
    BY <1>2, <2>0, AppendOf
  <2>2. TypeOK'
    BY <2>0, <2>1, HwmAssumption DEF IInv, TypeOK, ShimPC, Message
  <2>3. m = "init" => spc = "init" /\ to_app = <<>> /\ apc = "start"
    BY <1>2 DEF SignalInit, Exit, Answer, SendEvent, Deliver, AppOpen, IInv, InitInv
  <2>4. InitInv'
    <3>1. apc = "new" => FALSE
      BY <1>2 DEF SignalInit, Exit, Answer, SendEvent, IInv, InitInv
    <3> QED BY <2>0, <2>1, <2>3, <3>1, EmptySeq DEF IInv, InitInv
  <2>5. ExitInv'
    <3>1. m = "exit" => spc' = "done"
      BY <1>2 DEF Exit
    <3>2. \A i \in DOMAIN to_app : to_app[i] # "exit"
      BY <2>0 DEF IInv, ExitInv
    <3> QED BY <2>0, <2>1, <3>1, <3>2 DEF ExitInv
  <2>6. CarefulInv'
    <3> SUFFICES ASSUME careful PROVE CarefulInv'
      BY <2>0 DEF CarefulInv
    <3>0. /\ NoAnswer(to_app) /\ m \notin {"ack", "echo"} => NoAnswer(to_app')
          /\ \A a : NoAnswer(to_app) /\ m = a => OneAnswer(to_app', a)
          /\ \A a : OneAnswer(to_app, a) /\ m \notin {"ack", "echo"} => OneAnswer(to_app', a)
      BY <1>2, <2>0, AppendAnswers
    <3>1. CASE m \notin {"ack", "echo"}
      <4>1. ~Answering
        BY <1>2, <3>1 DEF SignalInit, Answer, SendEvent, Exit, Answering
      <4> QED BY <2>0, <3>0, <3>1, <4>1
              DEF IInv, CarefulInv, AtRest, QuietOnly, OneQuestion, CloseWaits
    <3>2. CASE m \in {"ack", "echo"}
      <4>1. Answer /\ Answering
        BY <1>2, <3>2 DEF Answering, Answer
      <4>2. apc = "ready" /\ expecting \in {"ack", "echo"}
        <5>1. AppOpen
          BY <4>1 DEF Answer, Deliver
        <5>2. apc \notin {"start", "term", "wait"}
          BY <4>1 DEF IInv, CarefulInv, AtRest
        <5>3. apc # "close"
          BY <4>1 DEF IInv, CarefulInv, CloseWaits, Answer
        <5>4. apc = "ready"
          BY <5>1, <5>2, <5>3 DEF AppOpen, IInv, TypeOK, AppPC
        <5> QED BY <5>4, <4>1 DEF IInv, TypeOK, CarefulInv, AtRest, QuietOnly
      <4>3. Reply[command] = expecting /\ NoAnswer(to_app) /\ to_actor = <<>>
        BY <4>1, <4>2 DEF IInv, CarefulInv, OneQuestion
      <4>4. m = expecting
        BY <1>2, <4>1, <4>2, <4>3, <3>2, ReplyOf DEF IInv, TypeOK, Answer, SignalInit, SendEvent, Exit
      <4>5. OneQuestion(expecting)'
        BY <2>0, <3>0, <4>3, <4>4 DEF OneQuestion
      <4> QED BY <2>0, <4>2, <4>5 DEF CarefulInv, CloseWaits
    <3> QED BY <3>1, <3>2
  <2> QED BY <2>2, <2>4, <2>5, <2>6 DEF IInv
<1>3. \/ to_app' = to_app
      \/ \E m \in Message : /\ to_app' = Append(to_app, m)
                            /\ \/ SignalInit /\ m = "init"
                               \/ Answer /\ m = (IF command = "echo" THEN "echo" ELSE "ack")
                               \/ SendEvent /\ m = "event"
                               \/ Exit /\ m = "exit"
  BY DEF SignalInit, Answer, SendEvent, Exit, Deliver, Message, Signal
<1> QED BY <1>1, <1>2, <1>3

\* The handler takes an order off the pipe.
LEMMA OrderIInv ==
  ASSUME IInv, ReceiveCommand \/ ReceiveTerm
  PROVE  IInv'
<1> USE DEF app_vars
<1>0. /\ spc = "loop" /\ ~Answering
      /\ to_actor # <<>> /\ to_actor' = Tail(to_actor)
      /\ UNCHANGED <<app_vars, to_app, events, interrupted, mutex, opc>>
      /\ to_actor \in Seq(Order) /\ Len(to_actor) <= Hwm
  BY DEF ReceiveCommand, ReceiveTerm, IInv, TypeOK, Order, Answering
<1>1. /\ Head(to_actor) \in Order /\ Head(to_actor) = to_actor[1] /\ 1 \in DOMAIN to_actor
      /\ to_actor' \in Seq(Order) /\ Len(to_actor') = Len(to_actor) - 1
      /\ Len(to_actor) \in Nat \ {0}
      /\ \A i \in DOMAIN to_actor' : i + 1 \in DOMAIN to_actor /\ to_actor'[i] = to_actor[i + 1]
  BY <1>0, TailOf
<1>2. \/ ReceiveCommand /\ Head(to_actor) \in Command /\ command' = Head(to_actor) /\ spc' = "handle"
      \/ ReceiveTerm /\ Head(to_actor) = "$TERM" /\ command' = command /\ spc' = "exit"
  BY <1>1 DEF ReceiveCommand, ReceiveTerm, Order
<1>3. TypeOK'
  BY <1>0, <1>1, <1>2, HwmAssumption DEF IInv, TypeOK, ShimPC, Order
<1>4. InitInv' /\ ExitInv'
  BY <1>0, <1>2 DEF IInv, InitInv, ExitInv
<1>5. CarefulInv'
  <2> SUFFICES ASSUME careful PROVE CarefulInv'
    BY <1>0 DEF CarefulInv
  <2>0. /\ Quiet(to_actor) => Quiet(to_actor') /\ Head(to_actor) = "quiet"
        /\ \A a : LastAsks(to_actor, a) =>
              \/ to_actor' = <<>> /\ Head(to_actor) \in Command /\ Reply[Head(to_actor)] = a
              \/ Head(to_actor) = "quiet" /\ LastAsks(to_actor', a)
    BY <1>0, TailAnswers
  <2>1. apc \notin {"new", "start", "term"} /\ ~(apc = "ready" /\ expecting = "none")
    BY <1>0 DEF IInv, CarefulInv, AtRest
  <2>2. CASE apc = "ready" /\ expecting = "any"
    <3>1. Quiet(to_actor) /\ NoAnswer(to_app)
      BY <2>2, <1>0 DEF IInv, CarefulInv, QuietOnly
    <3>2. ~Answering'
      BY <3>1, <2>0, <1>2 DEF Answering
    <3>3. QuietOnly'
      BY <3>1, <3>2, <2>0, <1>0 DEF QuietOnly
    <3> QED BY <2>2, <3>3, <1>0 DEF CarefulInv, CloseWaits
  <2>3. CASE apc = "ready" /\ expecting \in {"ack", "echo"}
    <3>1. LastAsks(to_actor, expecting) /\ NoAnswer(to_app)
      BY <2>3, <1>0 DEF IInv, CarefulInv, OneQuestion
    <3>2. Head(to_actor) \in Command /\ command' = Head(to_actor) /\ spc' = "handle"
      BY <3>1, <2>0, <1>2 DEF Command
    <3>3. CASE to_actor' = <<>> /\ Reply[Head(to_actor)] = expecting
      <4>1. Answering'
        BY <3>2, <3>3, <2>3, ReplyOf DEF Answering, Command
      <4>2. OneQuestion(expecting)'
        BY <4>1, <3>1, <3>2, <3>3, <1>0 DEF OneQuestion
      <4> QED BY <2>3, <4>2, <1>0 DEF CarefulInv, CloseWaits
    <3>4. CASE Head(to_actor) = "quiet" /\ LastAsks(to_actor', expecting)
      <4>1. ~Answering'
        BY <3>2, <3>4 DEF Answering
      <4>2. OneQuestion(expecting)'
        BY <4>1, <3>1, <3>4, <1>0 DEF OneQuestion
      <4> QED BY <2>3, <4>2, <1>0 DEF CarefulInv, CloseWaits
    <3> QED BY <3>1, <3>3, <3>4, <2>0
  <2>4. CASE apc = "wait"
    <3>1. NoAnswer(to_app) /\ \A i \in DOMAIN to_actor : to_actor[i] = "$TERM"
      BY <2>4, <1>0 DEF IInv, CarefulInv
    <3>2. spc' = "exit" /\ ~Answering'
      BY <3>1, <1>1, <1>2 DEF Answering, Command
    <3>3. \A i \in DOMAIN to_actor' : to_actor'[i] = "$TERM"
      BY <3>1, <1>1
    <3> QED BY <2>4, <3>1, <3>2, <3>3, <1>0 DEF CarefulInv, CloseWaits
  <2>5. CASE apc \in {"close", "join", "closed"}
    BY <2>5, <1>0 DEF IInv, CarefulInv, CloseWaits
  <2> QED BY <2>1, <2>2, <2>3, <2>4, <2>5 DEF IInv, TypeOK, AppPC
<1> QED BY <1>3, <1>4, <1>5 DEF IInv

\* A careful caller sends, or $TERM is sent for it.
LEMMA SendIInv ==
  ASSUME IInv, NEW c \in Command, Send(c)
  PROVE  IInv'
<1>0. /\ apc = "ready" /\ apc' = "ready"
      /\ to_actor' = Append(to_actor, c) /\ expecting' = Reply[c]
      /\ to_actor \in Seq(Order) /\ Len(to_actor) < Hwm
      /\ UNCHANGED <<careful, to_app, shim_vars, mutex, opc>>
      /\ careful => expecting \in {"none", "any"}
  BY DEF Send, Free, IInv, TypeOK, Order
<1>1. to_actor' \in Seq(Order) /\ Len(to_actor') = Len(to_actor) + 1 /\ Len(to_actor) \in Nat
  BY <1>0, AppendOf DEF Order
<1>2. TypeOK'
  <2>1. commands' \in 0 .. MaxCommand
    BY BoundAssumption DEF Send, IInv, TypeOK
  <2>2. Len(to_actor') <= Hwm
    BY <1>0, <1>1, HwmAssumption
  <2> QED BY <1>0, <1>1, <2>1, <2>2, ReplyOf DEF IInv, TypeOK, Order, shim_vars
<1>3. InitInv' /\ ExitInv'
  BY <1>0 DEF IInv, InitInv, ExitInv, shim_vars
<1>4. CarefulInv'
  <2> SUFFICES ASSUME careful PROVE CarefulInv'
    BY <1>0 DEF CarefulInv
  <2>1. QuietOnly
    BY <1>0, EmptyPipe DEF IInv, CarefulInv, AtRest, QuietOnly
  <2>2. /\ Quiet(to_actor) /\ c = "quiet" => Quiet(to_actor')
        /\ \A a : Quiet(to_actor) /\ Reply[c] = a => LastAsks(to_actor', a)
    <3>1. c \in Order
      BY DEF Order
    <3> QED BY <1>0, <3>1, AppendAnswers
  <2>3. Answering' <=> Answering
    BY <1>0 DEF Answering, shim_vars
  <2>4. CASE c = "quiet"
    <3>1. QuietOnly' /\ expecting' = "any"
      BY <2>1, <2>2, <2>3, <2>4, <1>0, ReplyOf DEF QuietOnly, shim_vars
    <3> QED BY <3>1, <1>0 DEF CarefulInv, CloseWaits
  <2>5. CASE c # "quiet"
    <3>1. expecting' \in {"ack", "echo"}
      BY <1>0, <2>5, ReplyOf
    <3>2. OneQuestion(expecting)'
      BY <2>1, <2>2, <2>3, <1>0 DEF QuietOnly, OneQuestion, shim_vars
    <3> QED BY <3>1, <3>2, <1>0 DEF CarefulInv, CloseWaits
  <2> QED BY <2>4, <2>5
<1> QED BY <1>2, <1>3, <1>4 DEF IInv

LEMMA SendTermIInv ==
  ASSUME IInv, SendTerm
  PROVE  IInv'
<1>0. /\ apc = "term" /\ to_actor \in Seq(Order) /\ "$TERM" \in Order
      /\ UNCHANGED <<careful, expecting, commands, to_app, shim_vars, mutex, opc>>
  BY DEF SendTerm, IInv, TypeOK, Order
<1>1. TypeOK'
  <2>1. CASE Free(to_actor)
    <3>1. to_actor' = Append(to_actor, "$TERM") /\ apc' = "wait"
      BY <2>1 DEF SendTerm
    <3>2. to_actor' \in Seq(Order) /\ Len(to_actor') = Len(to_actor) + 1 /\ Len(to_actor) \in Nat
      BY <3>1, <1>0, AppendOf
    <3>3. Len(to_actor') <= Hwm
      BY <2>1, <3>2, HwmAssumption DEF Free
    <3> QED BY <1>0, <3>1, <3>2, <3>3 DEF IInv, TypeOK, AppPC, Order, shim_vars
  <2>2. CASE ~Free(to_actor)
    BY <2>2 DEF SendTerm, IInv, TypeOK, AppPC, shim_vars
  <2> QED BY <2>1, <2>2
<1>2. InitInv' /\ ExitInv'
  BY DEF SendTerm, IInv, InitInv, ExitInv, shim_vars
<1>3. CarefulInv'
  <2> SUFFICES ASSUME careful PROVE CarefulInv'
    BY <1>0 DEF CarefulInv
  <2>1. AtRest
    BY <1>0 DEF IInv, CarefulInv
  <2>2. Answering' <=> Answering
    BY <1>0 DEF Answering, shim_vars
  <2>3. CASE Free(to_actor)
    <3>1. to_actor' = Append(to_actor, "$TERM") /\ apc' = "wait"
      BY <2>3 DEF SendTerm
    <3>2. to_actor = <<>> => \A i \in DOMAIN to_actor' : to_actor'[i] = "$TERM"
      <4> SUFFICES ASSUME to_actor = <<>>
                   PROVE  \A i \in DOMAIN to_actor' : to_actor'[i] = "$TERM"
        OBVIOUS
      <4>1. /\ DOMAIN to_actor' = 1 .. (Len(to_actor) + 1) /\ Len(to_actor) = 0
            /\ to_actor'[Len(to_actor) + 1] = "$TERM"
        BY <3>1, <1>0, AppendOf, EmptySeq
      <4> QED BY <4>1
    <3> QED BY <2>1, <2>2, <3>1, <3>2, <1>0 DEF CarefulInv, AtRest, CloseWaits, shim_vars
  <2>4. CASE ~Free(to_actor)
    <3>1. to_actor # <<>>
      BY <2>4, EmptySeq, HwmAssumption DEF Free
    <3>2. spc' = "done" /\ apc' = "close"
      BY <2>1, <2>4, <3>1, <1>0 DEF AtRest, SendTerm, shim_vars
    <3> QED BY <3>2 DEF CarefulInv, CloseWaits
  <2> QED BY <2>3, <2>4
<1> QED BY <1>1, <1>2, <1>3 DEF IInv

\* The two ends of the pipe are deleted.
LEMMA DeleteIInv ==
  ASSUME IInv, ZClose \/ Join
  PROVE  IInv'
<1>1. /\ apc \in {"close", "join"} /\ apc' \in {"join", "closed"}
      /\ to_app' \in {to_app, <<>>} /\ to_actor' \in {to_actor, <<>>}
      /\ mutex' \in BOOLEAN
      /\ UNCHANGED <<careful, expecting, commands, shim_vars, opc>>
  BY DEF ZClose, Join, IInv, TypeOK
<1>2. \A S : <<>> \in Seq(S) /\ Len(<<>>) = 0
  BY EmptySeq
<1>3. TypeOK'
  <2>1. /\ to_app' \in Seq(Message) /\ Len(to_app') <= Hwm
        /\ to_actor' \in Seq(Order) /\ Len(to_actor') <= Hwm
    <3>1. /\ to_app \in Seq(Message) /\ Len(to_app) <= Hwm
          /\ to_actor \in Seq(Order) /\ Len(to_actor) <= Hwm
      BY DEF IInv, TypeOK, Message, Order
    <3>2. 0 <= Hwm
      BY HwmAssumption
    <3>3. to_app' \in Seq(Message) /\ Len(to_app') <= Hwm
      <4>1. CASE to_app' = to_app
        BY <4>1, <3>1
      <4>2. CASE to_app' = <<>>
        BY <4>2, <3>2, <1>2
      <4> QED BY <4>1, <4>2, <1>1
    <3>4. to_actor' \in Seq(Order) /\ Len(to_actor') <= Hwm
      <4>1. CASE to_actor' = to_actor
        BY <4>1, <3>1
      <4>2. CASE to_actor' = <<>>
        BY <4>2, <3>2, <1>2
      <4> QED BY <4>1, <4>2, <1>1
    <3> QED BY <3>3, <3>4
  <2> QED BY <1>1, <2>1 DEF IInv, TypeOK, AppPC, shim_vars, Message, Order
<1>4. InitInv' /\ ExitInv'
  BY <1>1 DEF IInv, InitInv, ExitInv, shim_vars
<1>5. CarefulInv'
  BY <1>1 DEF IInv, CarefulInv, CloseWaits, shim_vars
<1> QED BY <1>3, <1>4, <1>5 DEF IInv

LEMMA NextIInv == IInv /\ [Next]_vars => IInv'
<1> SUFFICES ASSUME IInv, [Next]_vars PROVE IInv'
  OBVIOUS
<1>1. CASE \/ Construct \/ Close \/ Handle \/ EventOccurs \/ Interrupt
           \/ OtherEnters \/ OtherCreates \/ UNCHANGED vars
  BY <1>1, QuietStepIInv
<1>2. CASE Started \/ Receive \/ AwaitExit
  BY <1>2, TakeIInv
<1>3. CASE SignalInit \/ Answer \/ SendEvent \/ Exit
  BY <1>3, DeliverIInv
<1>4. CASE ReceiveCommand \/ ReceiveTerm
  BY <1>4, OrderIInv
<1>5. ASSUME NEW c \in Command, Send(c) PROVE IInv'
  BY <1>5, SendIInv
<1>6. CASE SendTerm
  BY <1>6, SendTermIInv
<1>7. CASE ZClose \/ Join
  BY <1>7, DeleteIInv
<1> QED BY <1>1, <1>2, <1>3, <1>4, <1>5, <1>6, <1>7 DEF Next, Caller, Closing, Shim

-----------------------------------------------------------------------------
(***************************************************************************)
(* The theorems.                                                           *)
(***************************************************************************)

\* The inductive invariant holds in every reachable state.
THEOREM Invariance == Spec => []IInv
<1>1. Init => IInv
  BY InitIInv
<1>2. IInv /\ [Next]_vars => IInv'
  BY NextIInv
<1> QED BY <1>1, <1>2, PTL DEF Spec

\* Every variable keeps its type; neither direction of the pipe overflows.
THEOREM TypeCorrect == Spec => []TypeOK
<1>1. IInv => TypeOK
  BY DEF IInv
<1> QED BY <1>1, Invariance, PTL

\* A careful caller never finds an answer it does not expect (ActorSocket and
\* the handlers' signals).
THEOREM OnlyExpectedAnswers == Spec => []AnswersExpected
<1>1. IInv => AnswersExpected
  <2> SUFFICES ASSUME IInv, careful, apc = "ready", NEW i \in DOMAIN to_app
               PROVE  /\ to_app[i] = "ack"  => expecting = "ack"
                      /\ to_app[i] = "echo" => expecting = "echo"
                      /\ to_app[i] # "init"
    BY DEF AnswersExpected
  <2>1. to_app[i] # "init"
    BY DEF IInv, InitInv
  <2>2. CASE NoAnswer(to_app)
    BY <2>1, <2>2 DEF NoAnswer
  <2>3. CASE ~NoAnswer(to_app)
    <3>1. OneAnswer(to_app, expecting)
      BY <2>3 DEF IInv, TypeOK, CarefulInv, AtRest, QuietOnly, OneQuestion
    <3> QED BY <2>1, <3>1 DEF OneAnswer
  <2> QED BY <2>2, <2>3
<1> QED BY <1>1, Invariance, PTL

\* The ActorSocket of a careful caller is not closed before its handler has
\* returned (ActorSocket::close, Shim::run).
THEOREM CloseWaitsForHandler == Spec => []CarefulCloseWaits
<1>1. IInv => CarefulCloseWaits
  BY DEF IInv, CarefulInv, CarefulCloseWaits
<1> QED BY <1>1, Invariance, PTL
=============================================================================
